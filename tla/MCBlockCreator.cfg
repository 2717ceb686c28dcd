SPECIFICATION Spec
CONSTANTS
  f1 = f1
  f2 = f2
  f3 = f3
  Feeds = {f1, f2, f3}
  MaxUpdates = 2
  MaxCmdsInBlock = 1
  MaxTs = 2
  MaxInbox = 1
  MaxCmds = 1
  MaxIdleSlots = 1
  MaxLag = 1
SYMMETRY FeedSymmetry
INVARIANTS
  TypeOK
  BacklogOnlyWhenFull
  FeedsNeverGoBack
PROPERTY RefinesBlockStream
