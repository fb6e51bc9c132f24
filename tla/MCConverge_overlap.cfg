SPECIFICATION Spec
CONSTANTS
  c1 = c1
  c2 = c2
  x1 = x1
  y1 = y1
  x2 = x2
  junk = junk
  Runners = {r1, r2}
  Units = {u1, u2}
  Commits <- OneCommit
  Bytes <- ItsBytes
  BuildOf <- ItsBuildOf
  Own = own
  Supersedes = {timer}
  None = None
  CanFail = FALSE
  CanDie = FALSE
INVARIANTS ManagerCurrent
SYMMETRY RunnerSymmetry
