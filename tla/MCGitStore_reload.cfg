SPECIFICATION Spec
CONSTANTS
  a = a
  b = b
  bad = bad
  d1 = d1
  d2 = d2
  d3 = d3
  Commits <- MCCommits
  Valid <- MCValid
  NoCommit = NoCommit
  Dirs <- TwoDirs
  NoDir = NoDir
  Absent = Absent
  Empty = Empty
  Reloaders = {r1, r2}
  Nobody = Nobody
  Faults <- UnreachableOnly
  FailureCap = 3
SYMMETRY ReloaderSymmetry
INVARIANTS IInv ReloadFresh CacheClean
PROPERTY ImplementsSnapshotStore
