SPECIFICATION FairSpec
CONSTANTS
  a = a
  b = b
  u = u
  v = v
  NoSong = NoSong
  NoCover = NoCover
  Songs = {a, b}
  Covers = {u, v}
  CoverOf <- MCCoverOf
  FilledIn <- MCFilledIn
  MaxMemo = 1
  MaxJobs = 1
INVARIANTS
  MarksAreTrue
  ImagesFollowHistory
  TempIsForShown
PROPERTIES
  ShownGetsItsImage
