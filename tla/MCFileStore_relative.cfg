SPECIFICATION FairSpec
CONSTANTS
  alpha = alpha
  alpha2 = alpha2
  beta = beta
  broken = broken
  voc1 = voc1
  voc2 = voc2
  Files = {f1}
  Entries <- MCEntries
  Broken <- MCBroken
  NameOf <- MCNameOf
  Uses <- MCUses
  Values <- MCValues
  Gone = Gone
  Bad = {bad}
  Open = {open}
  Unread = {unread}
  Nobody = Nobody
  Reloaders = {}
  Extensions = {}
  Outages = {}
  HasVocab = FALSE
  RelativeDir = TRUE
PROPERTIES CatchesUp
