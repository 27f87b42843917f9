CONSTANTS
  MaxNesting = 256
  ShortMax = 26
  MaxCode = 32
  Bound = 60
  Nesting = 2
  MaxEdits = 2
  Limits <- MCLimits
  Legal <- MCLegalAll
  Irregular <- MCIrregular
  Fragile <- MCFragile
  Composed <- MCComposed
SPECIFICATION Spec
PROPERTIES
  RangesStayValid
CHECK_DEADLOCK FALSE
