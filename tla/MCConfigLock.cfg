SPECIFICATION LiveSpec
CONSTANTS
  t1 = t1
  t2 = t2
  t3 = t3
  NoThread = NoThread
  Thread <- threads
  MaxVersion = 4
  Contents <- versions
  Bad <- bad
  Kinds <- hardKinds
  MaxRequests = 3
INVARIANTS
  OneConfiguration
  NewEnough
  DigestIsCurrent
PROPERTIES
  OnlyNestedWaitHangs
CHECK_DEADLOCK FALSE
