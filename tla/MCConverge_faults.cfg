SPECIFICATION Spec
CONSTANTS
  c1 = c1
  c2 = c2
  x1 = x1
  y1 = y1
  x2 = x2
  junk = junk
  Runners = {r1}
  Units = {u1, u2}
  Commits <- MCCommits
  Bytes <- MCBytes
  BuildOf <- MCBuildOf
  Own = own
  Supersedes = {own, timer}
  None = None
  CanFail = TRUE
  CanDie = TRUE
INVARIANTS TypeOK RecordTruthful InstalledOnSuccess ConvergedOnSuccess
PROPERTY NoOpWhenConverged
