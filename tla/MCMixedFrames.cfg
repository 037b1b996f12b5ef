CONSTANTS
  Capacity = 6
  MaxGap = 1
  Seqs <- MCSeqs
  ChunkMs = 60
  WindowMs = 20
  StartSpeechMs = 40
  EndSilenceMs = 40
  PreRollMs = 100
  Durations <- MCDurations
  VadKinds <- MCVadKinds
SPECIFICATION Spec
INVARIANT RecutReproducesUndoubledLive
CHECK_DEADLOCK FALSE
