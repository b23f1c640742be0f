SPECIFICATION FairSpec
CONSTANTS
  Plays = {p1, p2}
  Accounts = {anna, ben}
  NoAccount = NoAccount
  MaxEntries = 2
  BatchSize = 2
  Broken = {p2}
  MaxStores = 2
INVARIANTS
  TypeOK
  FileHoldsQueue
  NeverBuildOnTornRow
  FileBounded
  KeysCountItems
  DrainExact
  LossesBoundedByTrims
PROPERTIES
  QueueDrains
  KeepsPromise
