SPECIFICATION Spec
CONSTANTS
  h1 = h1
  h2 = h2
  b1 = b1
  Reporters = {h1, h2, b1}
  Faulty = {b1}
  Values = {100, 140, NoValue}
  HonestValues = {100}
  NoValue = NoValue
  NoHeartbeat = NoHeartbeat
  Aggregator = "median"
  QuorumPercentage = 60
  SkipPercentage = 18
  Heartbeat = 2
  SlotLen = 1
  MaxSkew = 0
  MaxTime = 3
  MaxReports = 4
SYMMETRY ReporterSymmetry
INVARIANTS
  TypeOK
  OneReporterOneVote
  PostsInOrder
  PostsAreBacked
  PostsTrackReports
CHECK_DEADLOCK FALSE
