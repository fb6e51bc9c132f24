SPECIFICATION Spec
CONSTANTS
  None = None
  MaxEdits = 1
  MaxTrouble = 1
  Bases <- MCBases
  Seconds <- MCSeconds
INVARIANTS
  TypeOK
  TrustedRead
  RenderTotal
  
  NothingIgnored
  GivesUpFairly
PROPERTIES
  SucceedsTruthfully
  ComesUp
