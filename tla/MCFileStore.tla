---------------------------- MODULE MCFileStore -----------------------------
(* FileStore on small instances: one agent in two versions, another agent,
   and an entry that does not load. *)
EXTENDS FileStore, TLC

CONSTANTS
  alpha, alpha2, beta, broken,  \* entries; alpha and alpha2 declare one agent
  voc1, voc2                    \* vocabulary values

MCEntries == {alpha, alpha2, beta, broken}
MCBroken == {broken}
MCNameOf == alpha :> "alpha" @@ alpha2 :> "alpha" @@ beta :> "beta" @@ broken :> "none"
MCUses == alpha :> {voc1} @@ alpha2 :> {voc2} @@ beta :> {} @@ broken :> {}
MCValues == {voc1, voc2}
\* A smaller registry, for the run with several goroutines and outages.
FewEntries == {alpha, broken}
FewUses == [e \in FewEntries |-> IF e = alpha THEN {voc1} ELSE {}]
FewValues == {voc1}
=============================================================================
