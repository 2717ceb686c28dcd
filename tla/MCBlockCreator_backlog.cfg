SPECIFICATION Spec
CONSTANTS
  f1 = f1
  f2 = f2
  f3 = f3
  Feeds = {f1, f2, f3}
  MaxUpdates = 1
  MaxCmdsInBlock = 1
  MaxTs = 1
  MaxInbox = 2
  MaxCmds = 0
  MaxIdleSlots = 1
  MaxLag = 1
PROPERTY BacklogNeverForgets
