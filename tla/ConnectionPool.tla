--------------------------- MODULE ConnectionPool ---------------------------
(***************************************************************************)
(* One connection of DatabaseConnectionManager: the pool of database       *)
(* handles that GetConnection takes from and adds to, and that the thread  *)
(* WatchPools shrinks to MinPoolSize.                                      *)
(*                                                                         *)
(* A caller is one use of GetConnection: it gets a handle and gives it     *)
(* back, a destructor of a shared_ptr, without the Mutex of the pool.  So  *)
(* what unique() said may be stale when the next line runs.                *)
(***************************************************************************)
EXTENDS Naturals, Sequences, SequencesExt, FiniteSets

CONSTANTS
  Db,           \* Database objects
  Caller,       \* users of GetConnection
  Watcher,      \* the thread that runs WatchPools
  None,         \* no caller, no handle
  MinPoolSize,
  MaxPoolSize

ASSUME PoolAssumption ==
  /\ MinPoolSize \in Nat
  /\ MaxPoolSize \in Nat \ {0}
  /\ MinPoolSize <= MaxPoolSize
  /\ Watcher \notin Caller
  /\ None \notin Caller \cup {Watcher}
  /\ None \notin Db

VARIABLES
  pool,     \* DatabasePool: handles with their ConnectionNumbers
  held,     \* the handle each caller has
  getting,  \* how far each caller's GetConnection is
  mutex,    \* the thread that holds the pool's Mutex for more than one step
  due,      \* PoolRefreshTimer has reached PoolRefreshPeriod
  watch,    \* how far TryReducePool is: its phase and its local variables
  expired,  \* handles whose ConnectionTimer has passed ConnectionReconnect
  broken,   \* handles that do not answer a ping
  insideTransaction,  \* DataProxyClient::InsideTransaction
  seen,     \* what each caller's GetDatabase was told of insideTransaction
  enlisted, \* history: callers that got their handle in this transaction
  lost      \* history: callers whose connection was replaced under them

handles == <<held, enlisted, lost>>
world == <<expired, broken, insideTransaction>>
poolVars == <<pool, handles, getting, seen, mutex, due, watch, world>>

Instance == [db : Db, number : Nat \ {0}]
Resting == [at |-> "sleep", next |-> 0, removed |-> 0, toRemove |-> 0]

PoolInit ==
  /\ pool = <<>>
  /\ held = [c \in Caller |-> None]
  /\ getting = [c \in Caller |-> "idle"]
  /\ mutex = None
  /\ due = FALSE
  /\ watch = Resting
  /\ expired = {}
  /\ broken = {}
  /\ insideTransaction \in BOOLEAN
  /\ seen = [c \in Caller |-> FALSE]
  /\ enlisted = {}
  /\ lost = {}
-----------------------------------------------------------------------------
Pooled == {pool[i].db : i \in DOMAIN pool}
Holders(db) == {c \in Caller : held[c] = db}

\* unique(): nobody but the pool has the handle.
Unique(db) == Holders(db) = {}

\* Objects that are alive: a handle that is given back last closes its database.
Open == Pooled \cup {held[c] : c \in {d \in Caller : held[d] # None}}

\* A new connection to the database; whoever uses the old one is not told.
Reconnect(db) ==
  /\ broken' = broken \ {db}
  /\ lost' = lost \cup Holders(db)

Take(c, db) ==
  /\ held' = [held EXCEPT ![c] = db]
  /\ seen' = [seen EXCEPT ![c] = FALSE]
  /\ enlisted' = IF insideTransaction THEN enlisted \cup {c} ELSE enlisted
  /\ getting' = [getting EXCEPT ![c] = "pegged"]

Throw(c) ==
  /\ getting' = [getting EXCEPT ![c] = "idle"]
  /\ seen' = [seen EXCEPT ![c] = FALSE]
  /\ mutex' = None
-----------------------------------------------------------------------------
(* GetConnection *)

\* A caller that has no handle and finds the mutex free, before its first or
\* its second look for a free connection.
Looks(c) ==
  /\ getting[c] \in {"idle", "create"}
  /\ held[c] = None
  /\ mutex = None

\* A free connection is pinged, which reconnects it if it is broken, and
\* reconnected if it has been open for too long.
Find(c, db) ==
  /\ Looks(c)
  /\ db \in Pooled /\ Unique(db)
  /\ Take(c, db)
  /\ IF db \in broken \cup expired THEN Reconnect(db) ELSE UNCHANGED <<broken, lost>>
  /\ expired' = expired \ {db}
  /\ UNCHANGED <<pool, mutex, due, watch, insideTransaction>>

\* The same, but the connection cannot be made anew.
FindFails(c, db) ==
  /\ Looks(c)
  /\ db \in Pooled \cap (broken \cup expired) /\ Unique(db)
  /\ Throw(c)
  /\ UNCHANGED <<pool, handles, due, watch, world>>

\* MUTANT: InsideTransaction is asked before the mutex is taken for good.
MissAsksEarly(c) ==
  /\ Looks(c)
  /\ \A db \in Pooled : ~Unique(db)
  /\ \/ /\ getting[c] = "idle"
        /\ getting' = [getting EXCEPT ![c] = "create"]
        /\ seen' = [seen EXCEPT ![c] = insideTransaction]
        /\ UNCHANGED mutex
     \/ /\ getting[c] = "create"
        /\ getting' = [getting EXCEPT ![c] = "grow"]
        /\ mutex' = c
        /\ UNCHANGED seen
  /\ UNCHANGED <<pool, handles, due, watch, world>>

\* No connection is free.  The second time the mutex is not given up, and the
\* client is asked, for the third look, whether it is in a transaction.
Miss(c) ==
  /\ Looks(c)
  /\ \A db \in Pooled : ~Unique(db)
  /\ \/ /\ getting[c] = "idle"
        /\ getting' = [getting EXCEPT ![c] = "create"]
        /\ UNCHANGED <<seen, mutex>>
     \/ /\ getting[c] = "create"
        /\ getting' = [getting EXCEPT ![c] = "grow"]
        /\ seen' = [seen EXCEPT ![c] = insideTransaction]
        /\ mutex' = c
  /\ UNCHANGED <<pool, handles, due, watch, world>>

\* The third look finds one that has just been given back, however old it is.
FindLate(c, db) ==
  /\ getting[c] = "grow"
  /\ db \in Pooled /\ Unique(db)
  /\ Take(c, db)
  /\ mutex' = None
  /\ IF db \in broken THEN Reconnect(db) ELSE UNCHANGED <<broken, lost>>
  /\ UNCHANGED <<pool, due, watch, expired, insideTransaction>>

\* None was free at the third look: a new connection is added.
Grow(c, db) ==
  /\ getting[c] = "grow"
  /\ Len(pool) < MaxPoolSize
  /\ db \notin Open
  /\ pool' = Append(pool, [db |-> db, number |-> Len(pool) + 1])
  /\ Take(c, db)
  /\ mutex' = None
  /\ UNCHANGED <<due, watch, world, lost>>

\* The connection cannot be made; or it is in the pool, and its ping fails.
GrowFails(c, db) ==
  /\ getting[c] = "grow"
  /\ Len(pool) < MaxPoolSize
  /\ db \notin Open
  /\ \/ UNCHANGED <<pool, broken>>
     \/ /\ pool' = Append(pool, [db |-> db, number |-> Len(pool) + 1])
        /\ broken' = broken \cup {db}
  /\ Throw(c)
  /\ UNCHANGED <<handles, due, watch, expired, insideTransaction>>

Lowest(db) ==
  \A other \in Pooled : Cardinality(Holders(db)) <= Cardinality(Holders(other))

\* The pool is full: the connection in the fewest hands is shared.  When it is
\* broken it is replaced under those who have it, unless the client was in a
\* transaction when it was asked.
Share(c, db) ==
  /\ getting[c] = "grow"
  /\ Len(pool) >= MaxPoolSize
  /\ db \in Pooled /\ Lowest(db)
  /\ db \in broken => ~seen[c]
  /\ IF db \in broken THEN Reconnect(db) ELSE UNCHANGED <<broken, lost>>
  /\ Take(c, db)
  /\ mutex' = None
  /\ UNCHANGED <<pool, due, watch, expired, insideTransaction>>

\* "we have to throw so clients can do whatever rollbacks they need"; outside
\* transactions the ping that reconnects throws if it cannot.
ShareFails(c, db) ==
  /\ getting[c] = "grow"
  /\ Len(pool) >= MaxPoolSize
  /\ db \in Pooled \cap broken /\ Lowest(db)
  /\ Throw(c)
  /\ UNCHANGED <<pool, handles, due, watch, world>>

\* ResetTimerIfConnectionsPegged: it looks, and then takes the mutex again.
LookPegged(c) ==
  /\ getting[c] = "pegged"
  /\ mutex = None
  /\ getting' = [getting EXCEPT ![c] =
                 IF \E db \in Pooled : Unique(db) THEN "idle" ELSE "reset"]
  /\ UNCHANGED <<pool, handles, seen, mutex, due, watch, world>>

ResetTimer(c) ==
  /\ getting[c] = "reset"
  /\ mutex = None
  /\ due' = FALSE
  /\ getting' = [getting EXCEPT ![c] = "idle"]
  /\ UNCHANGED <<pool, handles, seen, mutex, watch, world>>

\* The caller gives its handle back; no lock is taken.
Release(c) ==
  /\ getting[c] = "idle"
  /\ held[c] # None
  /\ held' = [held EXCEPT ![c] = None]
  /\ enlisted' = enlisted \ {c}
  /\ lost' = lost \ {c}
  /\ UNCHANGED <<pool, getting, seen, mutex, due, watch, world>>
-----------------------------------------------------------------------------
(* TryReducePool *)

\* The timer is reset whether or not there is something to remove.
LookTimer ==
  /\ watch.at = "sleep"
  /\ mutex = None
  /\ due
  /\ due' = FALSE
  /\ watch' = [watch EXCEPT !.at = IF Len(pool) > MinPoolSize THEN "look" ELSE "sleep"]
  /\ UNCHANGED <<pool, handles, getting, seen, mutex, world>>

\* MUTANT: one connection more than MinPoolSize is kept.
StartReduceShort ==
  /\ watch.at = "look"
  /\ mutex = None
  /\ mutex' = Watcher
  /\ watch' = [at |-> "reduce", next |-> 1, removed |-> 0,
               toRemove |-> IF Len(pool) > MinPoolSize
                              THEN Len(pool) - MinPoolSize - 1 ELSE 0]
  /\ UNCHANGED <<pool, handles, getting, seen, due, world>>

\* "we have to obtain a lock and check again"; a number to remove that is not
\* positive removes none.
StartReduce ==
  /\ watch.at = "look"
  /\ mutex = None
  /\ mutex' = Watcher
  /\ watch' = [at |-> "reduce", next |-> 1, removed |-> 0,
               toRemove |-> IF Len(pool) > MinPoolSize
                              THEN Len(pool) - MinPoolSize ELSE 0]
  /\ UNCHANGED <<pool, handles, getting, seen, due, world>>

Reducing == watch.at = "reduce" /\ watch.next <= Len(pool)

\* MUTANT: connections are closed that somebody has.
RemoveAnyInstance ==
  /\ Reducing
  /\ watch.removed < watch.toRemove
  /\ pool' = RemoveAt(pool, watch.next)
  /\ watch' = [watch EXCEPT !.removed = @ + 1]
  /\ UNCHANGED <<handles, getting, seen, mutex, due, world>>

\* A connection that nobody has is closed.
RemoveInstance ==
  /\ Reducing
  /\ watch.removed < watch.toRemove
  /\ Unique(pool[watch.next].db)
  /\ pool' = RemoveAt(pool, watch.next)
  /\ expired' = expired \ {pool[watch.next].db}
  /\ broken' = broken \ {pool[watch.next].db}
  /\ watch' = [watch EXCEPT !.removed = @ + 1]
  /\ UNCHANGED <<handles, getting, seen, mutex, due, insideTransaction>>

\* One that stays is renumbered by the number of those removed before it.
KeepInstance ==
  /\ Reducing
  /\ watch.removed >= watch.toRemove \/ ~Unique(pool[watch.next].db)
  /\ pool' = [pool EXCEPT ![watch.next].number = @ - watch.removed]
  /\ watch' = [watch EXCEPT !.next = @ + 1]
  /\ UNCHANGED <<handles, getting, seen, mutex, due, world>>

EndReduce ==
  /\ watch.at = "reduce"
  /\ watch.next > Len(pool)
  /\ watch' = Resting
  /\ mutex' = None
  /\ UNCHANGED <<pool, handles, getting, seen, due, world>>

TryReducePool ==
  LookTimer \/ StartReduce \/ RemoveInstance \/ KeepInstance \/ EndReduce
-----------------------------------------------------------------------------
(* What happens around the pool *)

\* PoolRefreshPeriod passes; it is set to -1 when the sizes are equal.
TimePasses ==
  /\ MinPoolSize < MaxPoolSize
  /\ due' = TRUE
  /\ UNCHANGED <<pool, handles, getting, seen, mutex, watch, world>>

Age(db) ==
  /\ db \in Open
  /\ expired' = expired \cup {db}
  /\ UNCHANGED <<pool, handles, getting, seen, mutex, due, watch, broken, insideTransaction>>

Break(db) ==
  /\ db \in Open
  /\ broken' = broken \cup {db}
  /\ UNCHANGED <<pool, handles, getting, seen, mutex, due, watch, expired, insideTransaction>>

\* Other threads begin and end transactions under a shared lock; at the end,
\* what is pending is committed or rolled back.
OpenTransaction ==
  /\ ~insideTransaction
  /\ insideTransaction' = TRUE
  /\ UNCHANGED <<pool, handles, getting, seen, mutex, due, watch, expired, broken>>

CloseTransaction ==
  /\ insideTransaction
  /\ insideTransaction' = FALSE
  /\ enlisted' = {}
  /\ UNCHANGED <<pool, held, lost, getting, seen, mutex, due, watch, expired, broken>>

GetConnection(c) ==
  \/ Miss(c)
  \/ LookPegged(c)
  \/ ResetTimer(c)
  \/ \E db \in Db :
       \/ Find(c, db)
       \/ FindFails(c, db)
       \/ FindLate(c, db)
       \/ Grow(c, db)
       \/ GrowFails(c, db)
       \/ Share(c, db)
       \/ ShareFails(c, db)

PoolNext ==
  \/ \E c \in Caller : GetConnection(c) \/ Release(c)
  \/ TryReducePool
  \/ TimePasses
  \/ \E db \in Db : Age(db) \/ Break(db)
  \/ OpenTransaction \/ CloseTransaction

PoolSpec == PoolInit /\ [][PoolNext]_poolVars

\* The thread WatchPools runs for as long as there is a manager.
FairSpec == PoolSpec /\ WF_poolVars(TimePasses) /\ WF_poolVars(TryReducePool)
-----------------------------------------------------------------------------
Getting == {"idle", "create", "grow", "pegged", "reset"}

PoolTypeOK ==
  /\ pool \in Seq(Instance)
  /\ held \in [Caller -> Db \cup {None}]
  /\ getting \in [Caller -> Getting]
  /\ mutex \in Caller \cup {Watcher, None}
  /\ due \in BOOLEAN
  /\ watch \in [at : {"sleep", "look", "reduce"}, next : Nat, removed : Nat,
                toRemove : Nat]
  /\ expired \subseteq Db
  /\ broken \subseteq Db
  /\ insideTransaction \in BOOLEAN
  /\ seen \in [Caller -> BOOLEAN]
  /\ enlisted \subseteq Caller
  /\ lost \subseteq Caller

\* No more than MaxPoolSize databases are open at a time, those included that
\* the pool has let go and a caller still has.
OpenBounded == Cardinality(Open) <= MaxPoolSize

\* Between two reductions the numbers of the connections are those the messages
\* count on: 1 to the size of the pool, in order.
NumbersArePositions ==
  mutex # Watcher => \A i \in DOMAIN pool : pool[i].number = i

\* A connection that a caller got in a transaction is not replaced under it
\* before the transaction ends, although it may begin after GetDatabase was told
\* that there is none: the mutex keeps the callers out until it has chosen.
ReplacesNone == (lost' \ lost) \cap enlisted = {}
NeverReplacedInTransaction == [][ReplacesNone]_poolVars

\* When the callers have all stopped, the pool comes down to MinPoolSize.
Quiet == \A c \in Caller : getting[c] = "idle" /\ held[c] = None
ShrinksWhenQuiet == <>[]Quiet => <>[](Len(pool) <= MinPoolSize)
=============================================================================
