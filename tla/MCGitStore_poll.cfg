SPECIFICATION Spec
CONSTANTS
  a = a
  b = b
  bad = bad
  d1 = d1
  d2 = d2
  d3 = d3
  Commits <- MCCommits
  Valid <- MCValid
  NoCommit = NoCommit
  Dirs <- MCDirs
  NoDir = NoDir
  Absent = Absent
  Empty = Empty
  Reloaders = {}
  Nobody = Nobody
  Faults <- EveryFault
  FailureCap = 3
SYMMETRY Symmetry
INVARIANTS TypeOK ServedIntact StatusAtRest ClosedClean
