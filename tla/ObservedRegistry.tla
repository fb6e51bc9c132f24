-------------------------- MODULE ObservedRegistry --------------------------
(***************************************************************************)
(* What a registry kept in editable files promises its readers, without a  *)
(* word on goroutines, locks or watchers: a snapshot is made from one      *)
(* observation of every file and of the vocabulary, each of them made      *)
(* since the snapshot before was served; it is validated as a whole, with  *)
(* the vocabulary it is served with, and replaces the old one as a whole.  *)
(*                                                                         *)
(* The abstraction of FileStore (internal/store/filestore.go).             *)
(***************************************************************************)
CONSTANTS
  Files,      \* names in the registry directory
  Entries,    \* contents a file may have
  Broken,     \* those that do not parse or lack a required field
  NameOf,     \* the agent each entry declares
  Uses,       \* the vocabulary values each entry uses
  Values,     \* vocabulary values
  Gone,       \* a file that does not exist
  Bad, Open,  \* a vocabulary file that does not load; no vocabulary
  Unread,     \* a file, or the vocabulary, that has not been observed
  Extensions  \* values that may join the vocabulary

VARIABLES
  disk,       \* the files
  vocabFile,  \* the vocabulary file; Open if none is configured
  seen,       \* what has been observed of each file
  seenVocab,  \* and of the vocabulary
  snap        \* the snapshot being served

vars == <<disk, vocabFile, seen, seenVocab, snap>>

Blank == [f \in Files |-> Unread]

Init ==
  /\ disk \in [Files -> Entries \cup {Gone}]
  /\ vocabFile \in (SUBSET Values) \cup {Bad, Open}
  /\ seen = Blank /\ seenVocab = Unread
  /\ snap = [agents |-> {}, vocab |-> Open]

\* People edit the files.
Change ==
  /\ disk' \in [Files -> Entries \cup {Gone}]
  /\ vocabFile' \in (SUBSET Values) \cup {Bad, Open}
  /\ UNCHANGED <<seen, seenVocab, snap>>

\* Some files are looked at, each for the first time, ...
Observe ==
  /\ \E F \in SUBSET {f \in Files : seen[f] = Unread} :
       seen' = [f \in Files |-> IF f \in F THEN disk[f] ELSE seen[f]]
  /\ UNCHANGED <<disk, vocabFile, seenVocab, snap>>

\* ... or the vocabulary is, which the extensions may join.
ObserveVocab ==
  /\ seenVocab = Unread
  /\ vocabFile # Bad
  /\ seenVocab' \in {vocabFile, Extensions \cup (IF vocabFile = Open THEN {} ELSE vocabFile)}
  /\ UNCHANGED <<disk, vocabFile, seen, snap>>

\* What was observed is dropped, whatever the reason.
Forget ==
  /\ seen' = Blank /\ seenVocab' = Unread
  /\ UNCHANGED <<disk, vocabFile, snap>>

Present == {f \in Files : seen[f] # Gone}

\* What was observed is a registry: every entry loads and keeps to the
\* vocabulary, and no two files declare one agent.
Valid ==
  /\ \A f \in Present : seen[f] \in Entries \ Broken
  /\ seenVocab = Open \/ \A f \in Present : Uses[seen[f]] \subseteq seenVocab
  /\ \A f, g \in Present : NameOf[seen[f]] = NameOf[seen[g]] => f = g

\* A complete, valid observation replaces the snapshot.
Serve ==
  /\ seenVocab # Unread /\ \A f \in Files : seen[f] # Unread
  /\ Valid
  /\ snap' = [agents |-> {seen[f] : f \in Present}, vocab |-> seenVocab]
  /\ seen' = Blank /\ seenVocab' = Unread
  /\ UNCHANGED <<disk, vocabFile>>

Next == Change \/ Observe \/ ObserveVocab \/ Forget \/ Serve

Spec == Init /\ [][Next]_vars
=============================================================================
