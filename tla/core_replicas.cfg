\* One client and the schedulers of two replicas, one of which may crash.
CONSTANTS
  q1 = q1
  q2 = q2
  s1 = s1
  s2 = s2
  NoOne = NoOne
  Requests = {q1}
  Schedulers = {s1, s2}
  Machine <- OrderMachine
  Events <- OrderEvents
  Stores <- OrderStores
  MaxClock = 3
  MaxSubmits = 2
  MaxCrashes = 1
SYMMETRY Symmetry
SPECIFICATION Spec
INVARIANTS
  NoWriterConflict
  TimeoutsAreDue
  DispatchedAtMostOnce
