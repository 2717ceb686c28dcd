SPECIFICATION Spec
CONSTANTS
  n1 = n1
  r1 = r1
  r2 = r2
  r3 = r3
  Nobody = Nobody
  Networks = {n1}
  Reporters = {r1, r2, r3}
  MinQuorum = 2
  Retention = 1
  RetriesLimit = 1
  MaxBatches = 2
  MaxClock = 4
SYMMETRY ReporterSymmetry
INVARIANTS
  TypeOK
  EachBatchEndsOnce
  OldBatchesAreCleared
  QuorumBehindSenders
  PendingAreCounted
  NoncesInSequence
