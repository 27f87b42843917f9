SPECIFICATION GatewaySpec
CONSTANTS
  Messages <- MCMessages
  JsonTexts <- MCJsonTexts
  Wires <- MCWires
  ChunkLimits <- MCChunkLimits
  MaxFaults <- MCNoFaults
  Asked <- MCAsked
  FieldSets <- MCFieldSets
  Options <- MCOptions
  ArchiveLimits <- MCArchiveLimits
  WideLimits <- MCWideLimits
  KeptSources <- MCNoSources
  KeptFields <- MCKeptFields
  MaxHops <- MCMaxHops
  StreamFaults <- MCStreamFaults
INVARIANTS
  ToolCallsAnnounced
CHECK_DEADLOCK FALSE
