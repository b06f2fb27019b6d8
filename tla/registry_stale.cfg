\* Two requests race in one process.
CONSTANTS
  Machines <- OneMachine
  Bodies <- TwoBodies
  AnyShape = "any"
  Processes <- OneProcess
  Requests <- Two
  Home <- AllAtHome
  MaxNesting = 2
  MaxRequests = 3
  MaxRestarts = 0
  Tables <- Registered
SPECIFICATION Spec
CHECK_DEADLOCK FALSE
INVARIANTS
  CacheIsCoherent
