\* Accepted definitions, run.
CONSTANTS
  Definitions <- SubmittedDefinitions
  Types <- AllTypes
  MaxVersion = 5
  MaxClock = 4
SPECIFICATION Spec
CHECK_DEADLOCK FALSE
INVARIANTS
  StatesAreDeclared
  TimersAreFound
  OneOwnerPerChild
