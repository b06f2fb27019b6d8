\* A flat job with a re-entering timer, new or left behind by an engine without
\* entry tracking: everything that must happen does.
CONSTANTS
  q1 = q1
  q2 = q2
  s1 = s1
  s2 = s2
  NoOne = NoOne
  Requests = {q1}
  Schedulers = {s1, s2}
  Machine <- JobMachine
  Events <- JobEvents
  Stores <- AllJobStores
  MaxClock = 3
  MaxSubmits = 1
  MaxCrashes = 0
SPECIFICATION FairSpec
PROPERTIES
  DueTimersFire
  
