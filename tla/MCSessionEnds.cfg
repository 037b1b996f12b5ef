CONSTANTS
  w1 = w1
  w2 = w2
  w3 = w3
  None = None
  Workers <- MCPair
  Key <- MCKey
  Serializable <- MCSerializable
  Seqs <- MCFewSeqs
  Capacity = 8
  ChunkMs = 40
  WindowMs = 20
  StartSpeechMs = 40
  EndSilenceMs = 40
  PreRollMs = 80
  FrameUs = 20000
  BifrostFinals = TRUE
  MaxAttempts = 2
  MaxFaults = 2
  MaxJobs = 1
SPECIFICATION Spec
INVARIANT StateIsWhatWasDispatched
PROPERTIES
  DisconnectEnds
  EndpointIsAnswered
CHECK_DEADLOCK FALSE
