SPECIFICATION FairSpec
CONSTANTS
  t1 = t1
  t2 = t2
  d1 = d1
  d2 = d2
  Thread = {t1, t2}
  NoThread = NoThread
  Dest = {d1}
  Overwrite = FALSE
  SkipLines = TRUE
  MaxStore = 3
INVARIANT WrittenOnce
INVARIANT HeaderOnce
PROPERTY CommitIsComplete
PROPERTY ClosingEnds
