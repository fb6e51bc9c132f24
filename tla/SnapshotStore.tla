--------------------------- MODULE SnapshotStore ---------------------------
(***************************************************************************)
(* What a registry that follows a remote promises its readers, without a   *)
(* word on how the remote is fetched: one snapshot is served at a time, it *)
(* is replaced as a whole, it is always a commit that passes validation,   *)
(* and it never goes back to a commit the remote had already left when the *)
(* served one was last seen there.                                         *)
(*                                                                         *)
(* The abstraction of GitStore (internal/store/gitstore.go).               *)
(***************************************************************************)
CONSTANTS
  Commits,    \* commits the remote may point at
  Valid,      \* those whose vocabulary and registry load without an error
  NoCommit    \* the remote has no such branch; nothing is served

VARIABLES
  origin,     \* the commit the followed branch points at
  snap,       \* the commit being served
  since       \* commits origin has had since snap was last seen there

vars == <<origin, snap, since>>

Init ==
  /\ origin \in Commits \cup {NoCommit}
  /\ snap = NoCommit
  /\ since = {origin}

\* Somebody pushes, force-pushes or deletes the branch.
Publish ==
  /\ origin' \in Commits \cup {NoCommit}
  /\ since' = since \cup {origin'}
  /\ UNCHANGED snap

\* The served snapshot becomes, or is confirmed to be, a commit origin had;
\* commits origin had left by then are forgotten.
Refresh ==
  /\ snap' \in since \cap Valid
  /\ since' \in SUBSET since
  /\ {snap', origin} \subseteq since'
  /\ UNCHANGED origin

\* The process ends, whatever the reason.
Stop ==
  /\ snap' = NoCommit
  /\ since' = {origin}
  /\ UNCHANGED origin

Next == Publish \/ Refresh \/ Stop

Spec == Init /\ [][Next]_vars
=============================================================================
