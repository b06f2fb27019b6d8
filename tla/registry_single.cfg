\* One process that serves one request at a time.
CONSTANTS
  Machines <- ThreeMachines
  Bodies <- ReferringBodies
  AnyShape = "any"
  Processes <- OneProcess
  Requests <- One
  Home <- AllAtHome
  MaxNesting = 2
  MaxRequests = 4
  MaxRestarts = 1
  Tables <- EmptyOrCyclic
SPECIFICATION FairSpec
CHECK_DEADLOCK FALSE
INVARIANTS
  CacheIsCoherent
  EntitiesHaveTheirMachine
PROPERTIES
  ReferencesAreAcyclic
  RequestsEnd
