\* Clients who only ever address the case, and who replay.
CONSTANTS
  Defs <- CaseDefs
  Addressees <- RootOnly
  Events <- CaseEvents
  Stores <- EmptyStores
  MaxTransactions = 6
SPECIFICATION Spec
CHECK_DEADLOCK FALSE
PROPERTIES
  ReplayAnswersNoTransition
