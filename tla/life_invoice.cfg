\* Two clients who write, delete and re-create one invoice beside a scheduler.
CONSTANTS
  q1 = q1
  q2 = q2
  s1 = s1
  s2 = s2
  NoOne = NoOne
  Requests = {q1, q2}
  Schedulers = {s1}
  Machine <- InvoiceMachine
  Events <- TwoEvents
  Stores <- InvoiceStores
  MaxClock = 2
  MaxSubmits = 2
  MaxDeletes = 2
  MaxCrashes = 1
SYMMETRY Symmetry
SPECIFICATION LifeSpec
CHECK_DEADLOCK FALSE
INVARIANTS
  AcknowledgedDeletesAreFinal
  UndisturbedLivesAreWhole

  
