CONSTANTS
  t1 = t1
  t2 = t2
  t3 = t3
  Callers = {c1, c2}
  Names = Names
  TagNames = {t1, t2, t3}
  Limit = 2
  RankFind <- MoreMatch
  MaxVersion = 2
  Changing = {Names}
SPECIFICATION FinderSpec
INVARIANTS
  SkipsOnlyUnanswered
  AnswersOnly
  NoRedundantListing
PROPERTIES
  CacheGoesForward
  TagsReturns
CHECK_DEADLOCK FALSE
