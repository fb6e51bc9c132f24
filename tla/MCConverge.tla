----------------------------- MODULE MCConverge -----------------------------
(* Converge on a host with one service and one superseded unit. *)
EXTENDS Converge, TLC

CONSTANTS
  c1, c2,          \* source commits
  x1, y1, x2, junk \* two builds of c1, one of c2, and a foreign binary

MCCommits == {c1, c2}
MCBytes == {x1, y1, x2, junk}
MCBuildOf == x1 :> c1 @@ y1 :> c1 @@ x2 :> c2 @@ junk :> None

\* One commit with two builds, for two runners.
OneCommit == {c1}
ItsBytes == {x1, y1}
ItsBuildOf == [x \in ItsBytes |-> c1]
RunnerSymmetry == Permutations(Runners)
=============================================================================
