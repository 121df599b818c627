SPECIFICATION Spec
CONSTANTS
  t1 = t1
  t2 = t2
  t3 = t3
  NoThread = NoThread
  Thread = {t1}
  MaxVersion = 3
  Contents <- restored
  Bad <- bad
  Kinds = {"plain"}
  MaxRequests = 2
INVARIANTS
  KnownFileHasNodes
CHECK_DEADLOCK FALSE
