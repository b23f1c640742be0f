SPECIFICATION Spec
CONSTANTS
  Plays = {p1, p2, p3}
  Accounts = {anna}
  NoAccount = NoAccount
  MaxEntries = 2
  BatchSize = 1
  Broken = {}
  MaxStores = 2
PROPERTIES
  OnlySubmittedRemoved
