\* A run with two branches.
CONSTANTS
  Defs <- RunDefs
  RootMachine = "run"
  Addressees <- RunAddressees
  Targets <- RunTargets
  Events <- RunEvents
  MaxDepth = 8
  MaxTransactions = 6
SPECIFICATION Spec
CHECK_DEADLOCK FALSE
INVARIANTS
  ActiveChildrenBelong
  CompoundStatesHaveTheirChild
  OneWinner
  CompletionIsImmediate
  NoInternalError
  TargetedAnswersAreTruthful
PROPERTIES
  EndedInstancesAreFrozen
