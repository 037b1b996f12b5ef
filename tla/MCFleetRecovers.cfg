SPECIFICATION FairSpec
CONSTANTS
  w1 = w1
  w2 = w2
  s1 = s1
  s2 = s2
  None = None
  Workers <- MCWorkers
  BootWorkers <- MCOne
  Sessions <- MCTwo
  Key <- MCFamilies
  Capable <- MCWorkers
  Stateless = TRUE
  Shared <- MCOne
  Drainable <- MCOne
  Mortal <- MCNobody
  Limited <- MCOne
  Latencies <- MCLatency
  MaxSessions = 2
  MaxAttempts = 1
  Window = 2
  MinSamples = 1
  Multiple = 3
  Limit = 1
  Floor = 0
PROPERTIES DrainedIsNotChosen TrialIsDecided NotOutscoredForEver
