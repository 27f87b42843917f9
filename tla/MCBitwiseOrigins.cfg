SPECIFICATION PackedSpec
CONSTANTS
  NonMinimal <- MCNonMinimal
  Magic <- MCMagic
  Inputs <- MCInputs
  LimitChoices <- MCLimitChoices
  Trees <- MCTrees
  Mangled <- MCMangled
  MaxBits <- MCMaxBits
  Damaged <- MCDamaged
INVARIANTS
  OriginsKept
