\* Definitions that nest themselves, and whose roots and children are deleted and created again.
CONSTANTS
  Defs <- DeepDefs
  RootMachine = "chain"
  Addressees <- DeepAddressees
  Targets <- DeepTargets
  Events <- DeepEvents
  MaxDepth = 2
  MaxTransactions = 6
  Deletable <- DeletableSome
  MaxDeletions = 2
SPECIFICATION DeletionFairSpec
CHECK_DEADLOCK FALSE
INVARIANTS
  TypeOK
  OrphansAreNotAdopted
PROPERTIES
  TransactionsEnd
