SPECIFICATION Spec
CONSTANTS
  s1 = s1
  s2 = s2
  a1 = a1
  a2 = a2
  Songs = {s1, s2}
  Plain = {s1, s2}
  Other = Other
  Accounts = {a1, a2}
  NoAccount = NoAccount
  None = None
  MinTrack = 1
  ScrobbleAfter = 2
  ReplayStart = 1
  ReplayJump = 2
  ResumeGrace = 1
  UnknownLength = 3
  GoneGrace = 1
  Slack = 0
  SaveEvery = 2
  MaxGap = 2
  Worlds <- AlbumLaterThanRestart
  MaxStep = 3
  MaxTime = 7
  MaxListens = 2
  MaxEvents = 1
SYMMETRY Symmetry
CHECK_DEADLOCK FALSE
INVARIANT OncePerListen
