CONSTANTS
  Capacity = 6
  MaxGap = 1
  Seqs <- MCSeqs
  ChunkMs = 60
  WindowMs = 20
  StartSpeechMs = 40
  EndSilenceMs = 40
  PreRollMs = 80
  Durations <- MCDurations
  VadKinds <- MCVadKinds
SPECIFICATION Spec
INVARIANT RecutReproducesLive
CHECK_DEADLOCK FALSE
