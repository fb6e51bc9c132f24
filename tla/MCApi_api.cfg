SPECIFICATION Spec
CONSTANTS
  review = review
  phrase = phrase
  alias = alias
  opened = opened
  openedNorm = openedNorm
  reviewer = reviewer
  x = x
  y = y
  z = z
  talk = talk
  long = long
  NoRole = NoRole
  Missing = Missing
  Unset = Unset
  Failed = Failed
  TimedOut = TimedOut
  None = None
  Names = {1, 2, 3}
  Paths = {1, 2, 3, 4}
  Oversized = {long}
  StaleFetchThreshold = 3
  Cards <- MCCards
  Terms <- MCTerms
  Normal <- MCNormal
  Synonym <- MCSynonym
  WordsOf <- MCWordsOf
  Weight <- MCWeight
  Queries <- MCQueries
  Setups <- MCSetups
  TrimSuffix <- MCTrimSuffix
  Digits = 3
  BM25TopN = 2
INVARIANTS TypeOK ReadyHonest
PROPERTIES ClosestRanked ClientTold
