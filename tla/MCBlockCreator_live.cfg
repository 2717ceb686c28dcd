SPECIFICATION FairSpec
CONSTANTS
  f1 = f1
  f2 = f2
  Feeds = {f1, f2}
  MaxUpdates = 1
  MaxCmdsInBlock = 1
  MaxTs = 1
  MaxInbox = 2
  MaxCmds = 2
  MaxIdleSlots = 1
  MaxLag = 2
INVARIANTS
  NeverPanics
  KafkaFollowsChain
PROPERTIES
  UpdatesAreEmitted
  WorkedOff
