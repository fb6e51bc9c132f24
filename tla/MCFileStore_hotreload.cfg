SPECIFICATION FairSpec
CONSTANTS
  alpha = alpha
  alpha2 = alpha2
  beta = beta
  broken = broken
  voc1 = voc1
  voc2 = voc2
  Files = {f1, f2}
  Entries <- FewEntries
  Broken <- MCBroken
  NameOf <- MCNameOf
  Uses <- FewUses
  Values <- FewValues
  Gone = Gone
  Bad = {bad}
  Open = {open}
  Unread = {unread}
  Nobody = Nobody
  Reloaders = {r1}
  Extensions = {}
  Outages = {"closed", "moved"}
  HasVocab = TRUE
  RelativeDir = FALSE
INVARIANTS TypeOK ServedValid NoEditLost
PROPERTIES CatchesUp ImplementsObservedRegistry
