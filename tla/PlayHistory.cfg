SPECIFICATION Spec
CONSTANTS
  s1 = s1
  s2 = s2
  Songs = {s1, s2}
  Plain = {s1, s2}
  None = None
  Damaged = Damaged
  MinTrack = 1
  ScrobbleAfter = 2
  UnknownCounts = 2
  ReplayStart = 1
  ReplayJump = 2
  ResumeGrace = 1
  UnknownLength = 3
  GoneGrace = 1
  PauseShown = 2
  Slack = 0
  SaveEvery = 2
  MaxGap = 2
  Limits = {1, 2}
  FirstLimits = {2}
  Worlds <- Ordinary
  MaxStep = 2
  MaxTime = 4
  MaxListens = 2
  MaxEvents = 2
CHECK_DEADLOCK FALSE
INVARIANTS TypeOK CurrentIsNewest WindowIsCurrent WhatIsListedIsStored OneRowPerListen HeardIsListed
  ProgressIsStored ForgottenStaysForgotten RemovedStaysOut OffKeepsNothing
PROPERTY HeardForItself
