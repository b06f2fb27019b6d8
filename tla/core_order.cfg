\* Two clients, who may replay and disagree, and one scheduler.
CONSTANTS
  q1 = q1
  q2 = q2
  s1 = s1
  s2 = s2
  NoOne = NoOne
  Requests = {q1, q2}
  Schedulers = {s1}
  Machine <- OrderMachine
  Events <- OrderEvents
  Stores <- OrderStores
  MaxClock = 3
  MaxSubmits = 3
  MaxCrashes = 0
SYMMETRY Symmetry
SPECIFICATION Spec
INVARIANTS
  TypeOK
  EntriesMatchHistory
  SeqIsEnteringVersion
  AnswersAreTruthful
PROPERTIES
  OneWritePerStep
  ImplementsAtomic
