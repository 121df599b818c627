SPECIFICATION Spec
CONSTANTS
  t1 = t1
  t2 = t2
  d1 = d1
  d2 = d2
  Thread = {t1, t2}
  NoThread = NoThread
  Dest = {d1, d2}
  Overwrite = TRUE
  SkipLines = FALSE
  MaxStore = 3
INVARIANT SingleOverwrite
INVARIANT PendingFilesMatch
