SPECIFICATION Spec
CONSTANTS
  Peers = {"a", "b"}
  Tokens <- MCTokens
  Levels = 6
  Canonical <- MCCanonical
  IntegerTexts <- MCIntegerTexts
  DecodeLimits <- MCDecodeLimits
  PartBooks <- MCPartBooks
  MoveBooks <- MCMoveBooks
  FrameBooks <- MCFrameBooks
  ProfileBooks <- MCProfileBooks
  Upper <- MCUpper
  Proper <- MCProper
  Books <- MCBooks
  FirstBooks <- MCFirstBooks
  Drafts <- MCDrafts
  Claims <- MCClaims
  MaxFaces = 2
  MaxLines = 18
  MaxInbox = 2
  MaxUpgrades = 1
INVARIANTS
  CidBindsContent
  VerifiedBooksAgree
  ThreadsAreDialogues
  AcceptedFramesRender
PROPERTIES
  FaceFaithful
CHECK_DEADLOCK FALSE
