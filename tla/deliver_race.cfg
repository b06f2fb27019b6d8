\* Two requests and a scheduler of one process dispatch the batches of a tenant.
CONSTANTS
  p1 = p1
  q1 = q1
  q2 = q2
  s1 = s1
  publish = publish
  Nobody = Nobody
  Processes = {p1}
  Requests = {q1, q2}
  Schedulers = {s1}
  Home <- AllInOne
  Actions = {publish}
  EventActions = {publish}
  Configured = TRUE
  MaxRetries = 3
  MaxBatches = 2
  MaxStops = 1
SPECIFICATION FairSpec
CHECK_DEADLOCK FALSE
INVARIANTS
  ReceivedWithinAttempts
  ProvisioningIsBounded
  TokenOrRefusal
PROPERTIES
  EveryActionIsTried
