SPECIFICATION GatewaySpec
CONSTANTS
  Messages <- MCMessages
  JsonTexts <- MCJsonTexts
  Wires <- MCWires
  ChunkLimits <- MCChunkLimits
  MaxFaults <- MCMaxFaults
  Asked <- MCAsked
  FieldSets <- MCFieldSets
  Options <- MCOptions
  ArchiveLimits <- MCArchiveLimits
  WideLimits <- MCWideLimits
  KeptSources <- MCKeptSources
  KeptFields <- MCKeptFields
  MaxHops <- MCMaxHops
  StreamFaults <- MCStreamFaults
INVARIANTS
  Faithful
  TruncationSafe
  EventsMatchResult
  FailureReported
  RelayedWhole
  SaysTheSame
  ArchiveSafe
CHECK_DEADLOCK FALSE
