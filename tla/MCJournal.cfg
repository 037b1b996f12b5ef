CONSTANTS
  Capacity <- MCCapacity
  Seqs <- MCSeqs
SPECIFICATION Spec
INVARIANTS
  TypeOK
  ReplayIsExactlyAboveFloor
PROPERTY ImplementsLog
