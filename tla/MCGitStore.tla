----------------------------- MODULE MCGitStore -----------------------------
(* GitStore on small instances. *)
EXTENDS GitStore, TLC

CONSTANTS a, b, bad,     \* two valid commits and one that does not load
          d1, d2, d3

MCCommits == {a, b, bad}
MCValid == {a, b}
MCDirs == {d1, d2, d3}
TwoValid == {a, b}
TwoDirs == {d1, d2}

EveryFault == AllFaults
HangOnly == {"none", "hang"}
UnreachableOnly == {"none", "unreachable"}

Symmetry == Permutations(MCDirs) \cup Permutations(MCValid)
ReloaderSymmetry == Symmetry \cup Permutations(Reloaders)
=============================================================================
