SPECIFICATION Spec
CONSTANTS
  t1 = t1
  t2 = t2
  t3 = t3
  NoThread = NoThread
  Thread <- threads
  MaxVersion = 4
  Contents <- versions
  Bad <- bad
  Kinds <- allKinds
  MaxRequests = 3
INVARIANTS
  NoNestedWait
CHECK_DEADLOCK FALSE
