SPECIFICATION FairSpec
CONSTANTS
  a = a
  b = b
  bad = bad
  d1 = d1
  d2 = d2
  d3 = d3
  Commits <- TwoValid
  Valid <- TwoValid
  NoCommit = NoCommit
  Dirs <- TwoDirs
  NoDir = NoDir
  Absent = Absent
  Empty = Empty
  Reloaders = {r1}
  Nobody = Nobody
  Faults <- HangOnly
  FailureCap = 3
PROPERTIES Converges StaleShows ReloadReturns CloseReturns
