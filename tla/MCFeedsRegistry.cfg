SPECIFICATION Spec
CONSTANTS
  s1 = s1
  s2 = s2
  f1 = f1
  f2 = f2
  Sequencers = {s1, s2}
  Feeds = {f1, f2}
  ConfigFeeds = {f1}
  Convertible = {f1, f2}
  MaxCmdsInBlock = 1
  Mishaps = {}
  MaxCmds = 4
  MaxRestarts = 1
INVARIANTS
  TypeOK
  
  
  
 
CHECK_DEADLOCK FALSE
