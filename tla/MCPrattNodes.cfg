SPECIFICATION AlgolSpec
CONSTANTS
  Token <- MCTokenAndRun
  Atoms <- MCAtoms
  Strings <- MCStrings
  LongStrings <- MCLongStrings
  Nud <- MCNud
  Led <- MCLed
  Inputs <- MCCallChains
  LimitChoices <- MCNodeCeiling
  Exprs <- MCNoExprs
INVARIANTS
  ResultWithinNodeLimit
