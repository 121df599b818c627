SPECIFICATION FairSpec
CONSTANTS
  c1 = c1
  c2 = c2
  c3 = c3
  db1 = db1
  db2 = db2
  db3 = db3
  Watcher = Watcher
  None = None
  Caller = {c1, c2, c3}
  Db = {db1, db2, db3}
  MinPoolSize = 1
  MaxPoolSize = 2
INVARIANT OpenBounded
PROPERTIES
  NeverReplacedInTransaction
  ShrinksWhenQuiet
ACTION_CONSTRAINT FirstUnopened
