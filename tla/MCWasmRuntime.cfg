SPECIFICATION Spec
CONSTANTS
  Threads = {t1, t2}
  NoThread = NoThread
  Shared = Shared
  Settings <- MCSettings
  FrameLimit = 1
  Word = 16
  Page = 6
  HeapBase = 2
  MaxTasks = 3
INVARIANTS
  HandleNamesItsModule
  FuelIsPerOperation
PROPERTIES
  Serves
  EveryOperationEnds
