SPECIFICATION AlgolSpec
CONSTANTS
  Token <- MCTokenAndRun
  Atoms <- MCAtoms
  Strings <- MCStrings
  LongStrings <- MCLongStrings
  Nud <- MCNud
  Led <- MCLed
  Inputs <- MCInputs
  LimitChoices <- MCLimitChoices
  Exprs <- MCExprs
INVARIANTS
  RecursionBounded
  SpansTile
  ChargesBoundedByTokens
  PrecedenceRespected
  RoundTripsExactlyFragment
PROPERTIES
  Terminates
