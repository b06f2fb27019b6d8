\* A case, written through its root, directly at its children and by timers.
CONSTANTS
  Defs <- CaseDefs
  Addressees <- AllAddressees
  Events <- CaseEvents
  Stores <- CaseStores
  MaxTransactions = 6
SPECIFICATION Spec
CHECK_DEADLOCK FALSE
INVARIANTS
  CompletionsAreCorrelated
  NoTransitionMeansNothingPending
  NoWriterConflict
PROPERTIES
  OnlyOutsidersLeavePending
  OneHandlerPerEvent
