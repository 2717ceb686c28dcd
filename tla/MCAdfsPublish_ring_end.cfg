SPECIFICATION Spec
CONSTANTS
  f1 = f1
  f2 = f2
  Feeds = {f1, f2}
  Row <- OneRow
  Configured = {f1}
  Criteria = {f1}
  RetriesLimit = 0
  Ring = 2
  Mishaps = {"ring_end"}
  MaxHeight = 3
  MaxRestarts = 1
PROPERTY ReadersNeverGoBack
