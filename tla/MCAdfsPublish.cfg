SPECIFICATION Spec
CONSTANTS
  f1 = f1
  f2 = f2
  Feeds = {f1, f2}
  Row <- OneRow
  Configured = {f1}
  Criteria = {f1}
  RetriesLimit = 1
  Ring = 3
  Mishaps = {}
  MaxHeight = 4
  MaxRestarts = 1
INVARIANTS
  TypeOK
  
  
  
PROPERTIES
  
  RelayerComesBack
