SPECIFICATION Spec
CONSTANTS
  MaxNodes <- MCMaxNodes
  MaxDepth <- MCMaxDepth
  MaxText <- MCMaxText
  MaxSize <- MCMaxSize
  Texts <- MCTexts
  Documents <- MCDocuments
INVARIANTS
  TransferExactlyFragment
  ReadingAccounts
  NoActiveContent
  VerbatimIsCurrent
  ChunksTile
  PathsFollowHeadings
PROPERTIES
  UndoRestores
CHECK_DEADLOCK FALSE
