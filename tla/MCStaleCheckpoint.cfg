CONSTANTS
  w1 = w1
  w2 = w2
  w3 = w3
  None = None
  Workers <- MCWorkers
  Key <- MCKey
  Serializable <- MCSerializable
  Seqs <- MCSeqs
  Capacity = 8
  ChunkMs = 40
  WindowMs = 20
  StartSpeechMs = 40
  EndSilenceMs = 40
  PreRollMs = 60
  FrameUs = 20000
  BifrostFinals = FALSE
  MaxAttempts = 2
  MaxFaults = 2
  MaxJobs = 1
SPECIFICATION Spec
INVARIANT UtteranceStartsClean
CHECK_DEADLOCK FALSE
