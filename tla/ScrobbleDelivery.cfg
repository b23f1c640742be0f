SPECIFICATION FairSpec
CONSTANTS
  anna1 = anna1
  anna2 = anna2
  ben = ben
  p1 = p1
  p2 = p2
  p3 = p3
  Plays = {p1, p2}
  Clients = {anna1, ben}
  NoClient = NoClient
  AccountOf <- TwoAccounts
  BatchSize = 2
  MaxPool = 2
  MaxSwitches = 1
  MaxRevoked = 1
  MaxAnnounced = 1
  MaxRestarts = 1
PROPERTY QueueEmpties
INVARIANTS TypeOK OneDrain
PROPERTIES LeavesForAReason OwnAccountUnlessSwitched
