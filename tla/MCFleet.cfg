SPECIFICATION Spec
CONSTANTS
  w1 = w1
  w2 = w2
  s1 = s1
  s2 = s2
  None = None
  Workers <- MCWorkers
  BootWorkers <- MCWorkers
  Sessions <- MCTwo
  Key <- MCKey
  Capable <- MCWorkers
  Stateless = FALSE
  Shared <- MCWorkers
  Drainable <- MCNobody
  Mortal <- MCOne
  Limited <- MCNobody
  Latencies <- MCLatencies
  MaxSessions = 2
  MaxAttempts = 2
  Window = 1
  MinSamples = 1
  Multiple = 3
  Limit = 1
  Floor = 0
INVARIANTS TypeOK TrialHasASession CountersBalance
PROPERTIES RestoredOnItsAnswer
SYMMETRY MCSame
