SPECIFICATION Spec
CONSTANTS
  MaxNodes <- MCMaxNodes
  MaxDepth <- MCMaxDepth
  MaxText <- MCMaxText
  MaxSize <- MCMaxSize
  Texts <- MCEditedTexts
  Documents <- MCNoDocuments
INVARIANTS
  UndoAccepted
CHECK_DEADLOCK FALSE
