SPECIFICATION Spec
CONSTANTS
  n1 = n1
  r1 = r1
  r2 = r2
  Nobody = Nobody
  Networks = {n1}
  Reporters = {r1, r2}
  MinQuorum = 2
  Retention = 0
  RetriesLimit = 0
  MaxBatches = 1
  MaxClock = 3
INVARIANT NumTxInProgress
