SPECIFICATION FairSpec
CONSTANTS
  w1 = w1
  w2 = w2
  s1 = s1
  None = None
  Sessions <- MCSessions
  Workers <- MCWorkers
  Chain <- MCChain
  Seqs <- MCSeqs
  Slots <- MCSlots
  Objects <- MCObjects
  BlobSize = 2
  MaxBytes = 3
  HotMax = 1
  MaxTries = 3
  MaxFaults = 2
INVARIANTS TypeOK VersionsAreExact BytesBalance
PROPERTIES OnlyALossTakesTheState ImplementsStream EndsReclaimed
CHECK_DEADLOCK FALSE
