---------------------------- MODULE LockingProofs ----------------------------
(***************************************************************************)
(* What threads of one process that share a lock keep, for the two modules *)
(* that are about one.                                                     *)
(*                                                                         *)
(* ConfigLock, for any number of threads and any contents of the file: the *)
(* nodes only ever become those of the file as it is, so the version they  *)
(* are of grows; Known and Fresh order what is remembered of the file by   *)
(* it.  Contents may come back: then Fresh has nothing to say.             *)
(*                                                                         *)
(* ConnectionPool, for any sizes, callers and databases: PoolInv says who  *)
(* is inside the mutex (Locks), that a handle in use stays in the pool     *)
(* (HeldIsPooled), how far the renumbering has come (Numbering), and that  *)
(* a caller which was told that there is no transaction knows of no handle *)
(* taken in one (NothingPending).                                          *)
(*                                                                         *)
(* The two share no state, and no theorem about one uses the other.        *)
(***************************************************************************)
EXTENDS ConfigLock, ConnectionPool, SequenceTheorems, FiniteSetTheorems, TLAPS

Writing == {"recheck", "parse", "record"}
Reading ==
  {"run", "shard", "lookUp", "begin", "again", "rollback"} \cup Fetching

\* Who has m_ConfigMutex, by how far a thread is.
Locked ==
  \A t \in Thread :
    /\ writer = t <=> phase[t] \in Writing
    /\ readers[t] # 0 <=> phase[t] \in Reading
    /\ writer # NoThread => readers[t] = 0

\* The tables go with the nodes, and both are built under the lock.
Built ==
  /\ tables \in {Partial, nodes}
  /\ \A t \in Thread :
       /\ phase[t] = "parse" => nodes = Partial /\ built = "cleared"
       /\ phase[t] = "record" => nodes # Partial

\* The nodes are never newer than the file, nor older than the digest says.
Known ==
  /\ nodes <= file
  /\ digest <= file
  /\ nodes = Partial \/ digest <= nodes

\* Nor older than what a thread has found in the file, once it may go on.
Fresh ==
  \A t \in Thread :
    /\ md5[t] <= file
    /\ phase[t] \in Writing \cup Reading \cup {"compare", "exclusive", "ready"} =>
         md5[t] # Partial
    /\ phase[t] = "record" => md5[t] <= nodes
    /\ phase[t] \in Reading \cup {"ready"} =>
         nodes = Partial \/ md5[t] <= nodes \/ CameBack(md5[t])

\* The digest is, or is about to be, of the content that the nodes are of, when
\* they were parsed from it.
Current ==
  built = "whole" =>
    /\ nodes # Partial
    /\ \A t \in Thread : phase[t] = "record" => Same(md5[t], nodes)
    /\ (\A t \in Thread : phase[t] # "record") => Same(digest, nodes)

\* The nodes stay while a thread has the lock.
Entered == \A t \in Thread : readers[t] # 0 => nodes = on[t]

ConfigInv == TypeOK /\ Locked /\ Built /\ Known /\ Fresh /\ Current /\ Entered

\* The types other than those of the flags.
Typed ==
  /\ file \in Version
  /\ digest \in Origin
  /\ nodes \in Origin
  /\ tables \in Origin
  /\ phase \in [Thread -> Phases]
  /\ md5 \in [Thread -> Origin]
  /\ readers \in [Thread -> 0..2]
  /\ writer \in Thread \cup {NoThread}
  /\ shard \in Thread \cup {NoThread}
  /\ requests \in 0..MaxRequests
  /\ on \in [Thread -> Origin]
  /\ built \in Building
-----------------------------------------------------------------------------
\* A digest that is the same as that of a new content is not of an older version.
LEMMA NewContent ==
  ASSUME NEW v \in Origin, NEW w \in Origin, Same(v, w), ~CameBack(w)
  PROVE  w <= v
BY SMT, ConfigAssumption DEF Same, CameBack, Origin, Version, Partial

\* Before the first Initialize.
LEMMA Initially == Init => ConfigInv
<1> SUFFICES ASSUME Init PROVE ConfigInv
  OBVIOUS
<1> USE DEF Init, ConfigInv, Writing, Reading, Fetching, Phases, Version, Origin, Building, Partial
<1>1. inside \in BOOLEAN /\ blocked \in BOOLEAN 
  BY Zenon
<1>2. Typed
  BY SMT, ConfigAssumption DEF Typed
<1>3. TypeOK
  BY Zenon, <1>1, <1>2 DEF TypeOK, Typed
<1>4. Locked
  BY SMT, ConfigAssumption DEF Locked
<1>5. Built /\ Known /\ Fresh /\ Current /\ Entered
  BY SMT, ConfigAssumption DEF Built, Known, Fresh, Current, Entered
<1> QED BY <1>3, <1>4, <1>5

\* Where a request starts, by its kind.
LEMMA FirstPhases ==
  ASSUME NEW k \in Kinds
  PROVE  FirstPhase(k) \in {"run", "shard", "begin"}
BY ConfigAssumption DEF FirstPhase

\* A new content of the file is newer than all that is known of it.
LEMMA EditFileKeeps ==
  ASSUME ConfigInv, EditFile
  PROVE  ConfigInv'
<1> USE DEF ConfigInv, EditFile,
             Writing, Reading, Fetching, Phases, Version, Origin, Building, Partial, client, configMutex, history
<1>1. TypeOK'
  BY SMT, ConfigAssumption DEF TypeOK
<1>2. Locked' /\ Built' /\ Entered'
  BY SMT DEF Locked, Built, Entered
<1>3. Known'
  BY SMT, ConfigAssumption DEF TypeOK, Known
<1>4. Fresh'
  BY SMT DEF TypeOK, Fresh
<1>5. Current'
  BY SMT DEF TypeOK, Current
<1> QED BY <1>1, <1>2, <1>3, <1>4, <1>5

\* The digest that is read is that of the file as it is.
LEMMA CheckConfigKeeps ==
  ASSUME ConfigInv, NEW t \in Thread, CheckConfig(t)
  PROVE  ConfigInv'
<1> USE DEF ConfigInv, CheckConfig,
             Writing, Reading, Fetching, Phases, Version, Origin, Building, Partial, client, configMutex, history
<1>1. TypeOK'
  BY SMT, ConfigAssumption DEF TypeOK, Locked
<1>2. Locked'
  BY SMT, ConfigAssumption DEF TypeOK, Locked
<1>3. Built'
  BY SMT DEF TypeOK, Locked, Built
<1>4. Known'
  BY SMT, ConfigAssumption DEF TypeOK, Known, Fresh, Built
<1>5. Fresh'
  BY SMT DEF TypeOK, Fresh, Known, Locked, Built
<1>6. Current'
  BY SMT DEF TypeOK, Current, Known, Fresh, Built, Locked
<1>7. Entered'
  BY SMT, ConfigAssumption DEF TypeOK, Entered, Locked, Built
<1> QED BY <1>1, <1>2, <1>3, <1>4, <1>5, <1>6, <1>7

\* A known digest says that the nodes are at least as new as the file was.
LEMMA CompareUnlockedKeeps ==
  ASSUME ConfigInv, NEW t \in Thread, CompareUnlocked(t)
  PROVE  ConfigInv'
<1> USE DEF ConfigInv, CompareUnlocked, Go, request,
             Writing, Reading, Fetching, Phases, Version, Origin, Building, Partial, client, configMutex, history
<1>1. TypeOK'
  BY SMT, ConfigAssumption DEF TypeOK, Locked
<1>2. Locked'
  BY SMT, ConfigAssumption DEF TypeOK, Locked
<1>3. Built'
  BY SMT DEF TypeOK, Locked, Built
<1>4. Known'
  BY SMT, ConfigAssumption DEF TypeOK, Known, Fresh, Built
<1>5. Fresh'
  <2>1. Same(digest, md5[t]) => CameBack(md5[t]) \/ md5[t] <= digest
    BY NewContent DEF TypeOK
  <2> QED BY SMT, <2>1 DEF TypeOK, Fresh, Known, Locked, Built
<1>6. Current'
  BY SMT DEF TypeOK, Current, Known, Fresh, Built, Locked
<1>7. Entered'
  BY SMT, ConfigAssumption DEF TypeOK, Entered, Locked, Built
<1> QED BY <1>1, <1>2, <1>3, <1>4, <1>5, <1>6, <1>7

\* To announce oneself changes nothing but the flag.
LEMMA WaitExclusiveKeeps ==
  ASSUME ConfigInv, NEW t \in Thread, WaitExclusive(t)
  PROVE  ConfigInv'
<1> USE DEF ConfigInv, WaitExclusive, Nobody,
             Writing, Reading, Fetching, Phases, Version, Origin, Building, Partial, client, configMutex, history
<1>1. TypeOK'
  BY SMT, ConfigAssumption DEF TypeOK, Locked
<1>2. Locked'
  BY SMT, ConfigAssumption DEF TypeOK, Locked
<1>3. Built'
  BY SMT DEF TypeOK, Locked, Built
<1>4. Known'
  BY SMT, ConfigAssumption DEF TypeOK, Known, Fresh, Built
<1>5. Fresh'
  BY SMT DEF TypeOK, Fresh, Known, Locked, Built
<1>6. Current'
  BY SMT DEF TypeOK, Current, Known, Fresh, Built, Locked
<1>7. Entered'
  BY SMT, ConfigAssumption DEF TypeOK, Entered, Locked, Built
<1> QED BY <1>1, <1>2, <1>3, <1>4, <1>5, <1>6, <1>7

\* Who gets the exclusive lock is alone.
LEMMA LockExclusiveKeeps ==
  ASSUME ConfigInv, NEW t \in Thread, LockExclusive(t)
  PROVE  ConfigInv'
<1> USE DEF ConfigInv, LockExclusive, Go, request, Nobody,
             Writing, Reading, Fetching, Phases, Version, Origin, Building, Partial, client, configMutex, history
<1>1. TypeOK'
  BY SMT, ConfigAssumption DEF TypeOK, Locked
<1>2. Locked'
  BY SMT, ConfigAssumption DEF TypeOK, Locked
<1>3. Built'
  BY SMT DEF TypeOK, Locked, Built
<1>4. Known'
  BY SMT, ConfigAssumption DEF TypeOK, Known, Fresh, Built
<1>5. Fresh'
  BY SMT DEF TypeOK, Fresh, Known, Locked, Built
<1>6. Current'
  BY SMT DEF TypeOK, Current, Known, Fresh, Built, Locked
<1>7. Entered'
  BY SMT, ConfigAssumption DEF TypeOK, Entered, Locked, Built
<1> QED BY <1>1, <1>2, <1>3, <1>4, <1>5, <1>6, <1>7

\* Under the lock the digest says the same.
LEMMA RecheckKeeps ==
  ASSUME ConfigInv, NEW t \in Thread, Recheck(t)
  PROVE  ConfigInv'
<1> USE DEF ConfigInv, Recheck, Go, request, UnlockExclusive,
             Writing, Reading, Fetching, Phases, Version, Origin, Building, Partial, client, configMutex, history
<1>1. TypeOK'
  <2>1. blocked' \in BOOLEAN
    BY Zenon DEF TypeOK
  <2>2. Typed'
    BY SMT, ConfigAssumption DEF TypeOK, Locked, Typed
  <2> QED BY Zenon, <2>1, <2>2 DEF TypeOK, Typed
<1>2. Locked'
  BY SMT, ConfigAssumption DEF TypeOK, Locked
<1>3. Built'
  BY SMT DEF TypeOK, Locked, Built
<1>4. Known'
  BY SMT, ConfigAssumption DEF TypeOK, Known, Fresh, Built
<1>5. Fresh'
  <2>1. Same(digest, md5[t]) => CameBack(md5[t]) \/ md5[t] <= digest
    BY NewContent DEF TypeOK
  <2> QED BY SMT, <2>1 DEF TypeOK, Fresh, Known, Locked, Built
<1>6. Current'
  BY SMT DEF TypeOK, Current, Known, Fresh, Built, Locked
<1>7. Entered'
  BY SMT, ConfigAssumption DEF TypeOK, Entered, Locked, Built
<1> QED BY <1>1, <1>2, <1>3, <1>4, <1>5, <1>6, <1>7

\* The nodes and the connections go together.
LEMMA ClearKeeps ==
  ASSUME ConfigInv, NEW t \in Thread, Clear(t)
  PROVE  ConfigInv'
<1> USE DEF ConfigInv, Clear, Go, request, Answer, UnlockExclusive,
             Writing, Reading, Fetching, Phases, Version, Origin, Building, Partial, client, configMutex, history
<1>1. TypeOK'
  <2>1. inside' \in BOOLEAN
    BY Zenon DEF TypeOK
  <2>2. blocked' \in BOOLEAN
    BY Zenon DEF TypeOK
  <2>4. Typed'
    BY SMT, ConfigAssumption DEF TypeOK, Locked, Typed
  <2> QED BY Zenon, <2>1, <2>2, <2>4 DEF TypeOK, Typed
<1>2. Locked'
  BY SMT, ConfigAssumption DEF TypeOK, Locked
<1>3. Built'
  BY SMT DEF TypeOK, Locked, Built
<1>4. Known'
  BY SMT, ConfigAssumption DEF TypeOK, Known, Fresh, Built
<1>5. Fresh'
  BY SMT DEF TypeOK, Fresh, Known, Locked, Built
<1>6. Current'
  BY SMT DEF TypeOK, Current, Known, Fresh, Built, Locked
<1>7. Entered'
  BY SMT, ConfigAssumption DEF TypeOK, Entered, Locked, Built
<1> QED BY <1>1, <1>2, <1>3, <1>4, <1>5, <1>6, <1>7

\* The nodes become those of the file as it is now, or stay cleared.
LEMMA ParseKeeps ==
  ASSUME ConfigInv, NEW t \in Thread, Parse(t)
  PROVE  ConfigInv'
<1> USE DEF ConfigInv, Parse, Go, request, Answer, UnlockExclusive,
             Writing, Reading, Fetching, Phases, Version, Origin, Building, Partial, client, configMutex, history
<1>1. TypeOK'
  <2>1. blocked' \in BOOLEAN
    BY Zenon DEF TypeOK
  <2>3. built' \in Building
    BY Zenon DEF Outcome
  <2>2. Typed'
    <3>1. /\ nodes' = file \/ nodes' = nodes
          /\ phase' = [phase EXCEPT ![t] = "record"] \/ phase' = [phase EXCEPT ![t] = "idle"]
          /\ md5' = md5 \/ md5' = [md5 EXCEPT ![t] = Partial]
          /\ on' = on \/ on' = [on EXCEPT ![t] = Partial]
          /\ writer' = writer \/ writer' = NoThread
          /\ UNCHANGED <<file, digest, tables, readers, shard, requests>>
      BY Zenon
    <3> QED BY SMT, <2>3, <3>1, ConfigAssumption DEF TypeOK, Typed
  <2> QED BY Zenon, <2>1, <2>2 DEF TypeOK, Typed
<1>2. Locked'
  BY SMT, ConfigAssumption DEF TypeOK, Locked
<1>3. Built'
  BY SMT DEF TypeOK, Locked, Built
<1>4. Known'
  BY SMT, ConfigAssumption DEF TypeOK, Known, Fresh, Built
<1>5. Fresh'
  BY SMT DEF TypeOK, Fresh, Known, Locked, Built
<1>6. Current'
  BY SMT DEF Same, Outcome, TypeOK, Current, Known, Fresh, Built, Locked
<1>7. Entered'
  BY SMT, ConfigAssumption DEF TypeOK, Entered, Locked, Built
<1> QED BY <1>1, <1>2, <1>3, <1>4, <1>5, <1>6, <1>7

\* The digest was read before the file was parsed.
LEMMA RecordDigestKeeps ==
  ASSUME ConfigInv, NEW t \in Thread, RecordDigest(t)
  PROVE  ConfigInv'
<1> USE DEF ConfigInv, RecordDigest, Go, request, UnlockExclusive,
             Writing, Reading, Fetching, Phases, Version, Origin, Building, Partial, client, configMutex, history
<1>1. TypeOK'
  <2>1. blocked' \in BOOLEAN
    BY Zenon DEF TypeOK
  <2>2. Typed'
    BY SMT, ConfigAssumption DEF TypeOK, Locked, Typed
  <2> QED BY Zenon, <2>1, <2>2 DEF TypeOK, Typed
<1>2. Locked'
  BY SMT, ConfigAssumption DEF TypeOK, Locked
<1>3. Built'
  BY SMT DEF TypeOK, Locked, Built
<1>4. Known'
  BY SMT, ConfigAssumption DEF TypeOK, Known, Fresh, Built
<1>5. Fresh'
  BY SMT DEF TypeOK, Fresh, Known, Locked, Built
<1>6. Current'
  BY SMT DEF Same, Outcome, TypeOK, Current, Known, Fresh, Built, Locked
<1>7. Entered'
  BY SMT, ConfigAssumption DEF TypeOK, Entered, Locked, Built
<1> QED BY <1>1, <1>2, <1>3, <1>4, <1>5, <1>6, <1>7

\* A request enters with the nodes as they are.
LEMMA EnterKeeps ==
  ASSUME ConfigInv, NEW t \in Thread, Enter(t)
  PROVE  ConfigInv'
<1> USE DEF ConfigInv, Enter, LockShared,
             Writing, Reading, Fetching, Phases, Version, Origin, Building, Partial, client, configMutex, history
<1>0. PICK p \in {"run", "shard", "begin"} : phase' = [phase EXCEPT ![t] = p]
  BY Zenon, FirstPhases
<1>1. TypeOK'
  BY SMT, ConfigAssumption, <1>0 DEF TypeOK, Locked
<1>2. Locked'
  BY SMT, ConfigAssumption, <1>0 DEF TypeOK, Locked
<1>3. Built'
  BY SMT, <1>0 DEF TypeOK, Locked, Built
<1>4. Known'
  BY SMT, ConfigAssumption, <1>0 DEF TypeOK, Known, Fresh, Built
<1>5. Fresh'
  BY SMT, <1>0 DEF TypeOK, Fresh, Known, Locked, Built
<1>6. Current'
  BY SMT, <1>0 DEF TypeOK, Current, Known, Fresh, Built, Locked
<1>7. Entered'
  BY SMT, ConfigAssumption, <1>0 DEF TypeOK, Entered, Locked, Built
<1> QED BY <1>1, <1>2, <1>3, <1>4, <1>5, <1>6, <1>7

\* The end of a request leaves the configuration alone.
LEMMA RunKeeps ==
  ASSUME ConfigInv, NEW t \in Thread, Run(t)
  PROVE  ConfigInv'
<1> USE DEF ConfigInv, Run, Answer, UnlockShared,
             Writing, Reading, Fetching, Phases, Version, Origin, Building, Partial, client, configMutex, history
<1>1. TypeOK'
  BY SMT, ConfigAssumption DEF TypeOK, Locked
<1>2. Locked'
  BY SMT, ConfigAssumption DEF TypeOK, Locked
<1>3. Built'
  BY SMT DEF TypeOK, Locked, Built
<1>4. Known'
  BY SMT, ConfigAssumption DEF TypeOK, Known, Fresh, Built
<1>5. Fresh'
  BY SMT DEF TypeOK, Fresh, Known, Locked, Built
<1>6. Current'
  BY SMT DEF TypeOK, Current, Known, Fresh, Built, Locked
<1>7. Entered'
  BY SMT, ConfigAssumption DEF TypeOK, Entered, Locked, Built
<1> QED BY <1>1, <1>2, <1>3, <1>4, <1>5, <1>6, <1>7

\* The lock of the shards is no part of the invariant.
LEMMA LockShardKeeps ==
  ASSUME ConfigInv, NEW t \in Thread, LockShard(t)
  PROVE  ConfigInv'
<1> USE DEF ConfigInv, LockShard, Go, request,
             Writing, Reading, Fetching, Phases, Version, Origin, Building, Partial, client, configMutex, history
<1>1. TypeOK'
  BY SMT, ConfigAssumption DEF TypeOK, Locked
<1>2. Locked'
  BY SMT, ConfigAssumption DEF TypeOK, Locked
<1>3. Built'
  BY SMT DEF TypeOK, Locked, Built
<1>4. Known'
  BY SMT, ConfigAssumption DEF TypeOK, Known, Fresh, Built
<1>5. Fresh'
  BY SMT DEF TypeOK, Fresh, Known, Locked, Built
<1>6. Current'
  BY SMT DEF TypeOK, Current, Known, Fresh, Built, Locked
<1>7. Entered'
  BY SMT, ConfigAssumption DEF TypeOK, Entered, Locked, Built
<1> QED BY <1>1, <1>2, <1>3, <1>4, <1>5, <1>6, <1>7

\* The tables are forgotten, or are those of the nodes.
LEMMA LookUpKeeps ==
  ASSUME ConfigInv, NEW t \in Thread, LookUp(t)
  PROVE  ConfigInv'
<1> USE DEF ConfigInv, LookUp, Go, request,
             Writing, Reading, Fetching, Phases, Version, Origin, Building, Partial, client, configMutex, history
<1>1. TypeOK'
  BY SMT, ConfigAssumption DEF TypeOK, Locked
<1>2. Locked'
  BY SMT, ConfigAssumption DEF TypeOK, Locked
<1>3. Built'
  BY SMT DEF TypeOK, Locked, Built
<1>4. Known'
  BY SMT, ConfigAssumption DEF TypeOK, Known, Fresh, Built
<1>5. Fresh'
  BY SMT DEF TypeOK, Fresh, Known, Locked, Built
<1>6. Current'
  BY SMT DEF TypeOK, Current, Known, Fresh, Built, Locked
<1>7. Entered'
  BY SMT, ConfigAssumption DEF TypeOK, Entered, Locked, Built
<1> QED BY <1>1, <1>2, <1>3, <1>4, <1>5, <1>6, <1>7

\* A second lock is taken by a thread that has the first.
LEMMA LoadAgainKeeps ==
  ASSUME ConfigInv, NEW t \in Thread, LoadAgain(t)
  PROVE  ConfigInv'
<1> USE DEF ConfigInv, LoadAgain, LockShared,
             Writing, Reading, Fetching, Phases, Version, Origin, Building, Partial, client, configMutex, history
<1>1. TypeOK'
  BY SMT, ConfigAssumption DEF TypeOK, Locked
<1>2. Locked'
  BY SMT, ConfigAssumption DEF TypeOK, Locked
<1>3. Built'
  BY SMT DEF TypeOK, Locked, Built
<1>4. Known'
  BY SMT, ConfigAssumption DEF TypeOK, Known, Fresh, Built
<1>5. Fresh'
  BY SMT DEF TypeOK, Fresh, Known, Locked, Built
<1>6. Current'
  BY SMT DEF TypeOK, Current, Known, Fresh, Built, Locked
<1>7. Entered'
  BY SMT, ConfigAssumption DEF TypeOK, Entered, Locked, Built
<1> QED BY <1>1, <1>2, <1>3, <1>4, <1>5, <1>6, <1>7

\* The tables that were loaded are those of the nodes.
LEMMA LoadedKeeps ==
  ASSUME ConfigInv, NEW t \in Thread, Loaded(t)
  PROVE  ConfigInv'
<1> USE DEF ConfigInv, Loaded, Go, request, UnlockShared,
             Writing, Reading, Fetching, Phases, Version, Origin, Building, Partial, client, configMutex, history
<1>1. TypeOK'
  BY SMT, ConfigAssumption DEF TypeOK, Locked
<1>2. Locked'
  BY SMT, ConfigAssumption DEF TypeOK, Locked
<1>3. Built'
  BY SMT DEF TypeOK, Locked, Built
<1>4. Known'
  BY SMT, ConfigAssumption DEF TypeOK, Known, Fresh, Built
<1>5. Fresh'
  BY SMT DEF TypeOK, Fresh, Known, Locked, Built
<1>6. Current'
  BY SMT DEF TypeOK, Current, Known, Fresh, Built, Locked
<1>7. Entered'
  BY SMT, ConfigAssumption DEF TypeOK, Entered, Locked, Built
<1> QED BY <1>1, <1>2, <1>3, <1>4, <1>5, <1>6, <1>7

\* A load that fails releases both locks.
LEMMA LoadFailsKeeps ==
  ASSUME ConfigInv, NEW t \in Thread, LoadFails(t)
  PROVE  ConfigInv'
<1> USE DEF ConfigInv, LoadFails, Answer, UnlockShared,
             Writing, Reading, Fetching, Phases, Version, Origin, Building, Partial, client, configMutex, history
<1>1. TypeOK'
  BY SMT, ConfigAssumption DEF TypeOK, Locked
<1>2. Locked'
  BY SMT, ConfigAssumption DEF TypeOK, Locked
<1>3. Built'
  BY SMT DEF TypeOK, Locked, Built
<1>4. Known'
  BY SMT, ConfigAssumption DEF TypeOK, Known, Fresh, Built
<1>5. Fresh'
  BY SMT DEF TypeOK, Fresh, Known, Locked, Built
<1>6. Current'
  BY SMT DEF TypeOK, Current, Known, Fresh, Built, Locked
<1>7. Entered'
  BY SMT, ConfigAssumption DEF TypeOK, Entered, Locked, Built
<1> QED BY <1>1, <1>2, <1>3, <1>4, <1>5, <1>6, <1>7

\* The transaction is no part of the configuration.
LEMMA BeginTransactionKeeps ==
  ASSUME ConfigInv, NEW t \in Thread, BeginTransaction(t)
  PROVE  ConfigInv'
<1> USE DEF ConfigInv, BeginTransaction, Go, request,
             Writing, Reading, Fetching, Phases, Version, Origin, Building, Partial, client, configMutex, history
<1>1. TypeOK'
  <2>1. inside' \in BOOLEAN
    BY Zenon DEF TypeOK
  <2>2. Typed'
    BY SMT, ConfigAssumption DEF TypeOK, Locked, Typed
  <2> QED BY Zenon, <2>1, <2>2 DEF TypeOK, Typed
<1>2. Locked'
  BY SMT, ConfigAssumption DEF TypeOK, Locked
<1>3. Built'
  BY SMT DEF TypeOK, Locked, Built
<1>4. Known'
  BY SMT, ConfigAssumption DEF TypeOK, Known, Fresh, Built
<1>5. Fresh'
  BY SMT DEF TypeOK, Fresh, Known, Locked, Built
<1>6. Current'
  BY SMT DEF TypeOK, Current, Known, Fresh, Built, Locked
<1>7. Entered'
  BY SMT, ConfigAssumption DEF TypeOK, Entered, Locked, Built
<1> QED BY <1>1, <1>2, <1>3, <1>4, <1>5, <1>6, <1>7

\* As in LoadAgain.
LEMMA RollbackLocksKeeps ==
  ASSUME ConfigInv, NEW t \in Thread, RollbackLocks(t)
  PROVE  ConfigInv'
<1> USE DEF ConfigInv, RollbackLocks, LockShared,
             Writing, Reading, Fetching, Phases, Version, Origin, Building, Partial, client, configMutex, history
<1>1. TypeOK'
  BY SMT, ConfigAssumption DEF TypeOK, Locked
<1>2. Locked'
  BY SMT, ConfigAssumption DEF TypeOK, Locked
<1>3. Built'
  BY SMT DEF TypeOK, Locked, Built
<1>4. Known'
  BY SMT, ConfigAssumption DEF TypeOK, Known, Fresh, Built
<1>5. Fresh'
  BY SMT DEF TypeOK, Fresh, Known, Locked, Built
<1>6. Current'
  BY SMT DEF TypeOK, Current, Known, Fresh, Built, Locked
<1>7. Entered'
  BY SMT, ConfigAssumption DEF TypeOK, Entered, Locked, Built
<1> QED BY <1>1, <1>2, <1>3, <1>4, <1>5, <1>6, <1>7

\* The rollback keeps at least the lock of its request.
LEMMA RollbackEndsKeeps ==
  ASSUME ConfigInv, NEW t \in Thread, RollbackEnds(t)
  PROVE  ConfigInv'
<1> USE DEF ConfigInv, RollbackEnds, Go, request, UnlockShared,
             Writing, Reading, Fetching, Phases, Version, Origin, Building, Partial, client, configMutex, history
<1>1. TypeOK'
  <2>1. inside' \in BOOLEAN
    BY Zenon DEF TypeOK
  <2>2. blocked' \in BOOLEAN
    BY Zenon DEF TypeOK
  <2>3. Typed'
    BY SMT, ConfigAssumption DEF TypeOK, Locked, Typed
  <2> QED BY Zenon, <2>1, <2>2, <2>3 DEF TypeOK, Typed
<1>2. Locked'
  BY SMT, ConfigAssumption DEF TypeOK, Locked
<1>3. Built'
  BY SMT DEF TypeOK, Locked, Built
<1>4. Known'
  BY SMT, ConfigAssumption DEF TypeOK, Known, Fresh, Built
<1>5. Fresh'
  BY SMT DEF TypeOK, Fresh, Known, Locked, Built
<1>6. Current'
  BY SMT DEF TypeOK, Current, Known, Fresh, Built, Locked
<1>7. Entered'
  BY SMT, ConfigAssumption DEF TypeOK, Entered, Locked, Built
<1> QED BY <1>1, <1>2, <1>3, <1>4, <1>5, <1>6, <1>7

LEMMA StutterKeeps == ConfigInv /\ UNCHANGED vars => ConfigInv'
<1> SUFFICES ASSUME ConfigInv, UNCHANGED vars PROVE ConfigInv'
  OBVIOUS
<1> USE DEF vars, client, configMutex, history
<1>1. TypeOK' /\ Known'
  BY DEF ConfigInv, TypeOK, Known
<1>2. Locked' /\ Built' /\ Fresh' /\ Current' /\ Entered'
  BY DEF ConfigInv, Locked, Built, Fresh, Current, Entered
<1> QED BY <1>1, <1>2 DEF ConfigInv

\* Every step keeps the invariant.
LEMMA NextKeeps == ConfigInv /\ [Next]_vars => ConfigInv'
<1> SUFFICES ASSUME ConfigInv, [Next]_vars PROVE ConfigInv'
  OBVIOUS
<1>1. CASE EditFile
  BY <1>1, EditFileKeeps
<1>2. ASSUME NEW t \in Thread, CheckConfig(t) PROVE ConfigInv'
  BY <1>2, CheckConfigKeeps
<1>3. ASSUME NEW t \in Thread, Initialize(t) PROVE ConfigInv'
  BY <1>3, CompareUnlockedKeeps, WaitExclusiveKeeps, LockExclusiveKeeps, RecheckKeeps,
     ClearKeeps, ParseKeeps, RecordDigestKeeps DEF Initialize
<1>4. ASSUME NEW t \in Thread, Request(t) PROVE ConfigInv'
  <2>1. CASE GetConnectionByTable(t)
    BY <2>1, LockShardKeeps, LookUpKeeps, LoadAgainKeeps, LoadedKeeps, LoadFailsKeeps
       DEF GetConnectionByTable
  <2> QED
    BY <1>4, <2>1, EnterKeeps, RunKeeps, BeginTransactionKeeps, RollbackLocksKeeps,
       RollbackEndsKeeps DEF Request
<1>5. CASE UNCHANGED vars
  BY <1>5, StutterKeeps
<1> QED BY <1>1, <1>2, <1>3, <1>4, <1>5 DEF Next, Step

\* The invariant holds in every state.
THEOREM ConfigInvariance == Spec => []ConfigInv
<1> QED BY Initially, NextKeeps, PTL DEF Spec

\* The types hold, whatever the threads do.
THEOREM ConfigTypeCorrect == Spec => []TypeOK
<1>1. ConfigInv => TypeOK
  BY DEF ConfigInv
<1> QED BY <1>1, ConfigInvariance, PTL

\* A request sees one configuration, and the shard connections that go with it
\* (DataProxyClient.cpp:270-416 against 516-595).
THEOREM OneConfigurationHolds == Spec => []OneConfiguration
<1>1. ConfigInv => OneConfiguration
  BY SMT DEF ConfigInv, TypeOK, Built, Entered, OneConfiguration
<1> QED BY <1>1, ConfigInvariance, PTL

\* A request never runs with nodes older than the file its own check has seen, if
\* what it has seen is new (AbstractHandler.cpp:34-52).
THEOREM NewEnoughHolds == Spec => []NewEnough
<1>1. ConfigInv => NewEnough
  BY SMT DEF ConfigInv, TypeOK, Locked, Fresh, NewEnough
<1> QED BY <1>1, ConfigInvariance, PTL

\* The digest that is known is that of the nodes, where they were built from what
\* it was read of (DataProxyClient.cpp:260, 416).
THEOREM DigestIsCurrentHolds == Spec => []DigestIsCurrent
<1>1. ConfigInv => DigestIsCurrent
  <2> SUFFICES ASSUME ConfigInv, built = "whole", writer = NoThread
               PROVE  Same(digest, nodes)
    BY DEF DigestIsCurrent
  <2>1. \A t \in Thread : phase[t] # "record"
    BY ConfigAssumption DEF ConfigInv, Locked, Writing
  <2> QED BY <2>1 DEF ConfigInv, Current
<1> QED BY <1>1, ConfigInvariance, PTL

-----------------------------------------------------------------------------
\* A thread that is past the mutex for more than one step has it.
Locks ==
  /\ \A c \in Caller : getting[c] = "grow" <=> mutex = c
  /\ watch.at = "reduce" <=> mutex = Watcher

PoolBounded == Len(pool) <= MaxPoolSize

HeldIsPooled == \A c \in Caller : held[c] # None => held[c] \in Pooled

\* Before the reduction's iterator the numbers are right; from it on they are
\* too large by the number of the connections removed.
Numbering ==
  IF watch.at = "reduce"
    THEN /\ watch.next >= 1
         /\ \A i \in DOMAIN pool :
              pool[i].number = IF i < watch.next THEN i ELSE i + watch.removed
    ELSE \A i \in DOMAIN pool : pool[i].number = i

NothingPending ==
  /\ ~insideTransaction => enlisted = {}
  /\ \A c \in Caller : getting[c] = "grow" /\ ~seen[c] => enlisted = {}

PoolInv ==
  /\ PoolTypeOK
  /\ Locks
  /\ PoolBounded
  /\ HeldIsPooled
  /\ Numbering
  /\ NothingPending

-----------------------------------------------------------------------------
\* What erase does to a vector.
LEMMA RemoveAtProperties ==
  ASSUME NEW S, NEW s \in Seq(S), NEW n \in 1 .. Len(s)
  PROVE  /\ RemoveAt(s, n) \in Seq(S)
         /\ Len(RemoveAt(s, n)) = Len(s) - 1
         /\ \A i \in 1 .. Len(s) - 1 :
              RemoveAt(s, n)[i] = IF i < n THEN s[i] ELSE s[i + 1]
<1> DEFINE a == SubSeq(s, 1, n - 1)
           b == SubSeq(s, n + 1, Len(s))
<1>1. Len(s) \in Nat /\ n \in Nat /\ \A i \in 1 .. Len(s) : s[i] \in S
  OBVIOUS
<1>2. /\ a \in Seq(S) /\ Len(a) = n - 1
      /\ \A i \in 1 .. n - 1 : a[i] = s[i]
  <2>1. 1 \in Int /\ n - 1 \in Int /\ \A i \in 1 .. n - 1 : s[i] \in S
    BY <1>1
  <2>2. /\ a \in Seq(S)
        /\ Len(a) = IF 1 <= n - 1 THEN n - 1 - 1 + 1 ELSE 0
        /\ \A i \in 1 .. n - 1 - 1 + 1 : a[i] = s[1 + i - 1]
    BY <2>1, SubSeqProperties
  <2> HIDE DEF a
  <2>3. Len(a) = n - 1
    BY <1>1, <2>2
  <2>4. ASSUME NEW i \in 1 .. n - 1 PROVE a[i] = s[i]
    <3>1. i \in 1 .. n - 1 - 1 + 1 /\ 1 + i - 1 = i
      BY <1>1
    <3> QED BY <2>2, <3>1
  <2> QED BY <2>2, <2>3, <2>4
<1>3. /\ b \in Seq(S) /\ Len(b) = Len(s) - n
      /\ \A i \in 1 .. Len(s) - n : b[i] = s[n + i]
  <2>1. n + 1 \in Int /\ Len(s) \in Int /\ \A i \in n + 1 .. Len(s) : s[i] \in S
    BY <1>1
  <2>2. /\ b \in Seq(S)
        /\ Len(b) = IF n + 1 <= Len(s) THEN Len(s) - (n + 1) + 1 ELSE 0
        /\ \A i \in 1 .. Len(s) - (n + 1) + 1 : b[i] = s[n + 1 + i - 1]
    BY <2>1, SubSeqProperties
  <2> HIDE DEF b
  <2>3. Len(b) = Len(s) - n
    BY <1>1, <2>2
  <2>4. ASSUME NEW i \in 1 .. Len(s) - n PROVE b[i] = s[n + i]
    <3>1. i \in 1 .. Len(s) - (n + 1) + 1 /\ n + 1 + i - 1 = n + i
      BY <1>1
    <3> QED BY <2>2, <3>1
  <2> QED BY <2>2, <2>3, <2>4
<1>4. RemoveAt(s, n) = a \o b
  BY DEF RemoveAt
<1> HIDE DEF a, b
<1>5. /\ a \o b \in Seq(S)
      /\ Len(a \o b) = Len(a) + Len(b)
      /\ \A i \in 1 .. Len(a) + Len(b) :
           (a \o b)[i] = IF i <= Len(a) THEN a[i] ELSE b[i - Len(a)]
  BY <1>2, <1>3, ConcatProperties
<1>6. ASSUME NEW i \in 1 .. Len(s) - 1
      PROVE  (a \o b)[i] = IF i < n THEN s[i] ELSE s[i + 1]
  <2>1. (a \o b)[i] = IF i <= n - 1 THEN a[i] ELSE b[i - (n - 1)]
    <3>1. Len(a) = n - 1
      BY <1>2
    <3>2. i \in 1 .. Len(a) + Len(b)
      BY <1>1, <1>2, <1>3
    <3>3. (a \o b)[i] = IF i <= Len(a) THEN a[i] ELSE b[i - Len(a)]
      BY <1>5, <3>2
    <3> QED BY <3>1, <3>3
  <2>2. CASE i < n
    BY <1>1, <1>2, <2>1, <2>2
  <2>3. CASE i >= n
    <3>1. (a \o b)[i] = b[i - (n - 1)]
      BY <1>1, <2>1, <2>3
    <3>2. i - (n - 1) \in 1 .. Len(s) - n /\ n + (i - (n - 1)) = i + 1
      BY <1>1, <2>3
    <3>3. b[i - (n - 1)] = s[i + 1]
      BY <1>3, <3>2
    <3> QED BY <1>1, <2>3, <3>1, <3>3
  <2>4. i < n \/ i >= n
    BY <1>1
  <2> QED BY <2>2, <2>3, <2>4
<1> QED BY <1>1, <1>2, <1>3, <1>4, <1>5, <1>6

\* A pool holds at most as many databases as it has entries.
LEMMA PooledIsSmall ==
  ASSUME pool \in Seq(Instance)
  PROVE  IsFiniteSet(Pooled) /\ Cardinality(Pooled) <= Len(pool)
<1> DEFINE f == [i \in DOMAIN pool |-> pool[i].db]
<1>1. DOMAIN pool = 1 .. Len(pool) /\ Len(pool) \in Nat
  OBVIOUS
<1>2. f \in Surjection(DOMAIN pool, Pooled)
  BY DEF Surjection, Pooled
<1>3. IsFiniteSet(1 .. Len(pool)) /\ Cardinality(1 .. Len(pool)) = Len(pool)
  BY <1>1, FS_Interval
<1> HIDE DEF f
<1> QED BY <1>1, <1>2, <1>3, FS_Surjection
-----------------------------------------------------------------------------
\* A new connection is numbered, and every handle in use stays in the pool.
LEMMA PushBack ==
  ASSUME PoolInv, NEW db \in Db, Len(pool) < MaxPoolSize,
         pool' = Append(pool, [db |-> db, number |-> Len(pool) + 1])
  PROVE  /\ pool' \in Seq(Instance)
         /\ Len(pool') <= MaxPoolSize
         /\ Pooled \cup {db} \subseteq Pooled'
         /\ watch.at # "reduce" => \A i \in DOMAIN pool' : pool'[i].number = i
<1> DEFINE e == [db |-> db, number |-> Len(pool) + 1]
<1>1. /\ pool \in Seq(Instance) /\ Len(pool) \in Nat /\ e \in Instance
      /\ DOMAIN pool = 1 .. Len(pool)
  BY DEF PoolInv, PoolTypeOK, Instance
<1>2. /\ pool' \in Seq(Instance) /\ Len(pool') = Len(pool) + 1
      /\ DOMAIN pool' = 1 .. Len(pool) + 1
      /\ \A i \in 1 .. Len(pool) : pool'[i] = pool[i]
      /\ pool'[Len(pool) + 1] = e
  BY <1>1, AppendProperties
<1>3. Len(pool') <= MaxPoolSize
  BY <1>1, <1>2, PoolAssumption
<1>4. ASSUME NEW d \in Pooled \cup {db} PROVE d \in Pooled'
  <2>1. CASE d = db
    <3>1. Len(pool) + 1 \in DOMAIN pool' /\ pool'[Len(pool) + 1].db = db
      BY <1>1, <1>2
    <3> QED BY <2>1, <3>1 DEF Pooled
  <2>2. CASE d \in Pooled
    <3>1. PICK i \in DOMAIN pool : d = pool[i].db
      BY <2>2 DEF Pooled
    <3>2. i \in DOMAIN pool' /\ pool'[i].db = d
      BY <1>1, <1>2, <3>1
    <3> QED BY <3>2 DEF Pooled
  <2> QED BY <1>4, <2>1, <2>2
<1>5. ASSUME watch.at # "reduce", NEW i \in DOMAIN pool'
      PROVE  pool'[i].number = i
  BY <1>1, <1>2, <1>5 DEF PoolInv, Numbering
<1> QED BY <1>2, <1>3, <1>4, <1>5
-----------------------------------------------------------------------------
\* A caller that takes the mutex for the time of one step finds nobody in it.
LEMMA FreeMutex ==
  ASSUME PoolInv, mutex = None
  PROVE  /\ \A c \in Caller : getting[c] # "grow"
         /\ watch.at # "reduce"
BY PoolAssumption DEF PoolInv, Locks

\* A caller is given a connection of the pool, which may have grown.
LEMMA TakeStep ==
  ASSUME PoolInv, NEW c \in Caller, NEW db \in Db,
         \/ mutex = None /\ mutex' = None /\ getting[c] # "grow"
         \/ getting[c] = "grow" /\ mutex' = None,
         Take(c, db),
         pool' \in Seq(Instance), Len(pool') <= MaxPoolSize,
         Pooled \cup {db} \subseteq Pooled',
         watch.at # "reduce" => \A i \in DOMAIN pool' : pool'[i].number = i,
         expired' \subseteq Db, broken' \subseteq Db, lost' \subseteq Caller,
         UNCHANGED <<due, watch, insideTransaction>>
  PROVE  PoolInv'
<1>1. PoolTypeOK'
  BY DEF PoolInv, PoolTypeOK, Take, Getting
<1>2. watch.at # "reduce" /\ \A d \in Caller : d # c => getting[d] # "grow"
  BY PoolAssumption DEF PoolInv, Locks
<1>3. \A d \in Caller : getting'[d] # "grow"
  BY <1>2 DEF PoolInv, PoolTypeOK, Take
<1>4. Locks'
  BY <1>2, <1>3, PoolAssumption DEF Locks
<1>5. HeldIsPooled'
  BY DEF PoolInv, PoolTypeOK, HeldIsPooled, Take
<1>6. Numbering'
  BY <1>2 DEF Numbering
<1>7. NothingPending'
  BY <1>3 DEF PoolInv, NothingPending, Take
<1> QED BY <1>1, <1>4, <1>5, <1>6, <1>7 DEF PoolInv, PoolBounded

\* The pool does not change when a caller takes what is there.
LEMMA SamePool ==
  ASSUME PoolInv, UNCHANGED pool
  PROVE  /\ pool' \in Seq(Instance) /\ Len(pool') <= MaxPoolSize
         /\ Pooled' = Pooled
         /\ watch.at # "reduce" => \A i \in DOMAIN pool' : pool'[i].number = i
BY DEF PoolInv, PoolTypeOK, PoolBounded, Pooled, Numbering

\* What a new connection does to the other histories.
LEMMA ReconnectTypes ==
  ASSUME PoolInv, NEW db \in Db,
         Reconnect(db) \/ UNCHANGED <<broken, lost>>
  PROVE  broken' \subseteq Db /\ lost' \subseteq Caller
BY DEF PoolInv, PoolTypeOK, Reconnect, Holders

\* A caller's GetConnection throws: nobody's handle changes.
LEMMA ThrowStep ==
  ASSUME PoolInv, NEW c \in Caller,
         mutex = None \/ getting[c] = "grow",
         Throw(c),
         pool' \in Seq(Instance), Len(pool') <= MaxPoolSize,
         Pooled \subseteq Pooled',
         watch.at # "reduce" => \A i \in DOMAIN pool' : pool'[i].number = i,
         broken' \subseteq Db,
         UNCHANGED <<handles, due, watch, expired, insideTransaction>>
  PROVE  PoolInv'
<1>1. PoolTypeOK'
  BY DEF PoolInv, PoolTypeOK, Throw, Getting, handles
<1>2. watch.at # "reduce" /\ \A d \in Caller : d # c => getting[d] # "grow"
  BY PoolAssumption DEF PoolInv, Locks
<1>3. \A d \in Caller : getting'[d] # "grow"
  BY <1>2 DEF PoolInv, PoolTypeOK, Throw
<1>4. Locks'
  BY <1>2, <1>3, PoolAssumption DEF Locks, Throw
<1>5. HeldIsPooled'
  BY DEF PoolInv, HeldIsPooled, handles
<1>6. Numbering'
  BY <1>2 DEF Numbering
<1>7. NothingPending'
  BY <1>3 DEF PoolInv, NothingPending, handles
<1> QED BY <1>1, <1>4, <1>5, <1>6, <1>7 DEF PoolInv, PoolBounded

\* The three looks for a free connection.
LEMMA LookStep ==
  ASSUME PoolInv, NEW c \in Caller, NEW db \in Db,
         Find(c, db) \/ FindFails(c, db) \/ FindLate(c, db)
  PROVE  PoolInv'
<1>1. CASE Find(c, db)
  <2>1. /\ mutex = None /\ mutex' = None /\ getting[c] # "grow"
        /\ Take(c, db) /\ UNCHANGED pool /\ db \in Pooled
        /\ UNCHANGED <<due, watch, insideTransaction>>
    BY <1>1 DEF Find, Looks
  <2>2. /\ expired' \subseteq Db
        /\ Reconnect(db) \/ UNCHANGED <<broken, lost>>
    BY <1>1 DEF Find, PoolInv, PoolTypeOK
  <2> QED BY <2>1, <2>2, SamePool, ReconnectTypes, TakeStep
<1>2. CASE FindFails(c, db)
  <2>1. /\ mutex = None /\ Throw(c) /\ UNCHANGED pool
        /\ UNCHANGED <<handles, due, watch, expired, broken, insideTransaction>>
        /\ broken' \subseteq Db
    BY <1>2 DEF FindFails, Looks, PoolInv, PoolTypeOK, world
  <2> QED BY <2>1, SamePool, ThrowStep
<1>3. CASE FindLate(c, db)
  <2>1. /\ getting[c] = "grow" /\ mutex' = None
        /\ Take(c, db) /\ UNCHANGED pool /\ db \in Pooled
        /\ UNCHANGED <<due, watch, insideTransaction>>
    BY <1>3 DEF FindLate
  <2>2. /\ expired' \subseteq Db
        /\ Reconnect(db) \/ UNCHANGED <<broken, lost>>
    BY <1>3 DEF FindLate, PoolInv, PoolTypeOK
  <2> QED BY <2>1, <2>2, SamePool, ReconnectTypes, TakeStep
<1> QED BY <1>1, <1>2, <1>3

\* A pool that is not full grows, whether or not the caller gets the connection.
LEMMA GrowStep ==
  ASSUME PoolInv, NEW c \in Caller, NEW db \in Db,
         Grow(c, db) \/ GrowFails(c, db)
  PROVE  PoolInv'
<1>1. CASE Grow(c, db)
  <2>1. /\ getting[c] = "grow" /\ mutex' = None /\ Take(c, db)
        /\ Len(pool) < MaxPoolSize
        /\ pool' = Append(pool, [db |-> db, number |-> Len(pool) + 1])
        /\ UNCHANGED <<due, watch, insideTransaction>>
    BY <1>1 DEF Grow, world
  <2>2. expired' \subseteq Db /\ broken' \subseteq Db /\ lost' \subseteq Caller
    BY <1>1 DEF Grow, world, PoolInv, PoolTypeOK
  <2> QED BY <2>1, <2>2, PushBack, TakeStep
<1>2. CASE GrowFails(c, db)
  <2>1. /\ getting[c] = "grow" /\ Throw(c) /\ Len(pool) < MaxPoolSize
        /\ UNCHANGED <<handles, due, watch, expired, insideTransaction>>
        /\ \/ UNCHANGED pool
           \/ pool' = Append(pool, [db |-> db, number |-> Len(pool) + 1])
        /\ broken' \subseteq Db
    BY <1>2 DEF GrowFails, PoolInv, PoolTypeOK
  <2>2. CASE UNCHANGED pool
    BY <2>1, <2>2, SamePool, ThrowStep
  <2>3. CASE pool' = Append(pool, [db |-> db, number |-> Len(pool) + 1])
    <3>1. /\ Pooled \subseteq Pooled' /\ Len(pool') <= MaxPoolSize
          /\ pool' \in Seq(Instance)
          /\ watch.at # "reduce" => \A i \in DOMAIN pool' : pool'[i].number = i
      BY <2>1, <2>3, PushBack
    <3> QED BY <2>1, <3>1, ThrowStep
  <2> QED BY <2>1, <2>2, <2>3
<1> QED BY <1>1, <1>2

\* In a full pool a connection is shared.
LEMMA ShareStep ==
  ASSUME PoolInv, NEW c \in Caller, NEW db \in Db,
         Share(c, db) \/ ShareFails(c, db)
  PROVE  PoolInv'
<1>1. CASE Share(c, db)
  <2>1. /\ getting[c] = "grow" /\ mutex' = None
        /\ Take(c, db) /\ UNCHANGED pool /\ db \in Pooled
        /\ UNCHANGED <<due, watch, insideTransaction>>
    BY <1>1 DEF Share
  <2>2. /\ expired' \subseteq Db
        /\ Reconnect(db) \/ UNCHANGED <<broken, lost>>
    BY <1>1 DEF Share, PoolInv, PoolTypeOK
  <2> QED BY <2>1, <2>2, SamePool, ReconnectTypes, TakeStep
<1>2. CASE ShareFails(c, db)
  <2>1. /\ getting[c] = "grow" /\ Throw(c) /\ UNCHANGED pool
        /\ UNCHANGED <<handles, due, watch, expired, broken, insideTransaction>>
        /\ broken' \subseteq Db
    BY <1>2 DEF ShareFails, PoolInv, PoolTypeOK, world
  <2> QED BY <2>1, SamePool, ThrowStep
<1> QED BY <1>1, <1>2
-----------------------------------------------------------------------------
\* Between the looks, and after them.
LEMMA WaitStep ==
  ASSUME PoolInv, NEW c \in Caller,
         Miss(c) \/ LookPegged(c) \/ ResetTimer(c) \/ Release(c)
  PROVE  PoolInv'
<1>0. PoolTypeOK
  BY DEF PoolInv
<1>1. CASE Miss(c)
  <2>1. /\ mutex = None /\ UNCHANGED <<pool, handles, due, watch, world>>
        /\ \/ /\ getting' = [getting EXCEPT ![c] = "create"]
              /\ UNCHANGED <<seen, mutex>>
           \/ /\ getting' = [getting EXCEPT ![c] = "grow"]
              /\ seen' = [seen EXCEPT ![c] = insideTransaction]
              /\ mutex' = c
    BY <1>1 DEF Miss, Looks
  <2>2. \A d \in Caller : getting[d] # "grow"
    BY <2>1, FreeMutex
  <2>3. PoolTypeOK'
    BY <1>0, <2>1 DEF PoolTypeOK, handles, world, Getting
  <2>4. Locks'
    BY <1>0, <2>1, <2>2, PoolAssumption DEF PoolInv, Locks, PoolTypeOK
  <2>5. PoolBounded' /\ HeldIsPooled' /\ Numbering'
    BY <2>1 DEF PoolInv, PoolBounded, HeldIsPooled, Pooled, Numbering, handles
  <2>6. NothingPending'
    BY <1>0, <2>1, <2>2 DEF PoolInv, NothingPending, PoolTypeOK, handles, world
  <2> QED BY <2>3, <2>4, <2>5, <2>6 DEF PoolInv
<1>2. CASE LookPegged(c) \/ ResetTimer(c) \/ Release(c)
  <2>1. /\ UNCHANGED <<pool, seen, mutex, watch, world>>
        /\ \/ UNCHANGED handles
           \/ /\ held' = [held EXCEPT ![c] = None]
              /\ enlisted' = enlisted \ {c}
              /\ lost' = lost \ {c}
        /\ \/ UNCHANGED getting
           \/ /\ getting[c] \in {"pegged", "reset"}
              /\ \E p \in {"idle", "reset"} : getting' = [getting EXCEPT ![c] = p]
        /\ due' \in BOOLEAN
    BY <1>0, <1>2 DEF LookPegged, ResetTimer, Release, PoolTypeOK
  <2>2. PoolTypeOK'
    BY <1>0, <2>1 DEF PoolTypeOK, handles, world, Getting
  <2>3. \A d \in Caller : getting'[d] = "grow" <=> getting[d] = "grow"
    BY <1>0, <2>1 DEF PoolTypeOK
  <2>4. Locks'
    BY <2>1, <2>3 DEF PoolInv, Locks
  <2>5. HeldIsPooled'
    BY <1>0, <2>1 DEF PoolInv, HeldIsPooled, Pooled, PoolTypeOK, handles
  <2>6. PoolBounded' /\ Numbering'
    BY <2>1 DEF PoolInv, PoolBounded, Numbering
  <2>7. enlisted' \subseteq enlisted
    BY <2>1 DEF handles
  <2>8. NothingPending'
    BY <2>1, <2>3, <2>7 DEF PoolInv, NothingPending, world
  <2> QED BY <2>2, <2>4, <2>5, <2>6, <2>8 DEF PoolInv
<1> QED BY <1>1, <1>2
-----------------------------------------------------------------------------
(* TryReducePool *)

\* It does nothing to the callers.
LEMMA CallersUntouched ==
  ASSUME PoolInv, UNCHANGED <<handles, getting, seen, insideTransaction>>
  PROVE  /\ NothingPending'
         /\ held' \in [Caller -> Db \cup {None}] /\ getting' \in [Caller -> Getting]
         /\ seen' \in [Caller -> BOOLEAN] /\ enlisted' \subseteq Caller
         /\ lost' \subseteq Caller /\ insideTransaction' \in BOOLEAN
BY DEF PoolInv, PoolTypeOK, NothingPending, handles

\* The mutex is taken only when nobody has it; then no number is too large yet.
LEMMA BeginReduceStep ==
  ASSUME PoolInv, LookTimer \/ StartReduce
  PROVE  PoolInv'
<1>0. PoolTypeOK
  BY DEF PoolInv
<1>1. /\ mutex = None
      /\ UNCHANGED <<pool, handles, getting, seen, insideTransaction, expired, broken>>
  BY DEF LookTimer, StartReduce, world
<1>2. \A c \in Caller : getting[c] # "grow"
  BY <1>1, FreeMutex
<1>3. PoolBounded' /\ HeldIsPooled' /\ NothingPending'
  BY <1>1, CallersUntouched
     DEF PoolInv, PoolBounded, HeldIsPooled, Pooled, handles
<1>4. Len(pool) \in Nat /\ \A i \in DOMAIN pool : pool[i].number = i /\ i >= 1
  BY <1>0, <1>1, FreeMutex DEF PoolTypeOK, PoolInv, Numbering
<1>5. CASE LookTimer
  <2>1. /\ watch'.at # "reduce" /\ watch.at # "reduce" /\ UNCHANGED mutex
        /\ due' \in BOOLEAN
        /\ watch' \in [at : {"sleep", "look", "reduce"}, next : Nat, removed : Nat,
                       toRemove : Nat]
    BY <1>0, <1>5 DEF LookTimer, PoolTypeOK
  <2>2. PoolTypeOK'
    BY <1>0, <1>1, <2>1, CallersUntouched DEF PoolTypeOK
  <2>3. Locks'
    BY <1>1, <2>1 DEF PoolInv, Locks
  <2>4. Numbering'
    BY <1>1, <1>4, <2>1 DEF Numbering
  <2> QED BY <1>3, <2>2, <2>3, <2>4 DEF PoolInv
<1>6. CASE StartReduce
  <2>1. /\ watch'.at = "reduce" /\ watch'.next = 1 /\ watch'.removed = 0
        /\ mutex' = Watcher /\ UNCHANGED due
        /\ watch' \in [at : {"sleep", "look", "reduce"}, next : Nat, removed : Nat,
                       toRemove : Nat]
    BY <1>4, <1>6, PoolAssumption DEF StartReduce
  <2>2. PoolTypeOK'
    BY <1>0, <1>1, <2>1, CallersUntouched DEF PoolTypeOK
  <2>3. Locks'
    BY <1>1, <1>2, <2>1, PoolAssumption DEF Locks
  <2>4. Numbering'
    BY <1>0, <1>1, <1>4, <2>1 DEF Numbering, PoolTypeOK
  <2> QED BY <1>3, <2>2, <2>3, <2>4 DEF PoolInv
<1> QED BY <1>5, <1>6

\* The iterator of a reduction, before and after an iteration.
LEMMA Iterator ==
  ASSUME PoolInv, Reducing
  PROVE  /\ watch.next \in 1 .. Len(pool) /\ watch.removed \in Nat
         /\ watch.at = "reduce" /\ watch.toRemove \in Nat
         /\ pool \in Seq(Instance) /\ Len(pool) \in Nat
         /\ DOMAIN pool = 1 .. Len(pool)
         /\ pool[watch.next].number = watch.next + watch.removed
BY DEF PoolInv, PoolTypeOK, Reducing, Numbering

\* Nobody has the connection that is closed, so the others' stay; the numbers
\* of those behind it come to be too large by one more.
LEMMA RemoveStep ==
  ASSUME PoolInv, RemoveInstance
  PROVE  PoolInv'
<1> DEFINE n == watch.next
<1>1. /\ Reducing /\ Unique(pool[n].db) /\ pool' = RemoveAt(pool, n)
      /\ watch' = [watch EXCEPT !.removed = @ + 1]
      /\ expired' \subseteq expired /\ broken' \subseteq broken
      /\ UNCHANGED <<handles, getting, seen, mutex, due, insideTransaction>>
  BY DEF RemoveInstance
<1>2. /\ n \in 1 .. Len(pool) /\ watch.removed \in Nat /\ watch.at = "reduce"
      /\ pool \in Seq(Instance) /\ Len(pool) \in Nat
      /\ DOMAIN pool = 1 .. Len(pool)
  BY <1>1, Iterator
<1>3. /\ pool' \in Seq(Instance) /\ Len(pool') = Len(pool) - 1
      /\ \A i \in 1 .. Len(pool) - 1 :
           pool'[i] = IF i < n THEN pool[i] ELSE pool[i + 1]
  <2> HIDE DEF n
  <2> QED BY <1>1, <1>2, RemoveAtProperties
<1>4. DOMAIN pool' = 1 .. Len(pool) - 1
  BY <1>2, <1>3
<1>5. /\ watch'.at = "reduce" /\ watch'.next = n /\ watch'.toRemove = watch.toRemove
      /\ watch'.removed = watch.removed + 1
      /\ watch' \in [at : {"sleep", "look", "reduce"}, next : Nat, removed : Nat,
                     toRemove : Nat]
  BY <1>1, <1>2 DEF PoolInv, PoolTypeOK
<1>6. PoolTypeOK'
  BY <1>1, <1>3, <1>5, CallersUntouched DEF PoolInv, PoolTypeOK
<1>7. Locks' /\ NothingPending'
  BY <1>1, <1>2, <1>5, CallersUntouched DEF PoolInv, Locks
<1>8. PoolBounded'
  BY <1>2, <1>3, PoolAssumption DEF PoolInv, PoolBounded
<1>9. HeldIsPooled'
  <2> SUFFICES ASSUME NEW c \in Caller, held[c] # None
               PROVE  held[c] \in Pooled'
    BY <1>1 DEF HeldIsPooled, handles
  <2>1. held[c] # pool[n].db
    BY <1>1 DEF Unique, Holders
  <2>2. PICK i \in DOMAIN pool : held[c] = pool[i].db
    BY DEF PoolInv, HeldIsPooled, Pooled
  <2>3. i # n /\ i \in 1 .. Len(pool)
    BY <1>2, <2>1, <2>2
  <2> HIDE DEF n
  <2>4. CASE i < n
    <3>1. i \in 1 .. Len(pool) - 1 /\ pool'[i] = pool[i]
      BY <1>2, <1>3, <2>3, <2>4
    <3> QED BY <1>4, <2>2, <3>1 DEF Pooled
  <2>5. CASE i > n
    <3>1. i - 1 \in 1 .. Len(pool) - 1 /\ ~(i - 1 < n) /\ (i - 1) + 1 = i
      BY <1>2, <2>3, <2>5
    <3>2. pool'[i - 1] = pool[i]
      BY <1>3, <3>1
    <3> QED BY <1>4, <2>2, <3>1, <3>2 DEF Pooled
  <2>6. i < n \/ i > n
    BY <1>2, <2>3
  <2> QED BY <2>4, <2>5, <2>6
<1>10. Numbering'
  <2>1. \A i \in 1 .. Len(pool) :
          pool[i].number = IF i < n THEN i ELSE i + watch.removed
    BY <1>2 DEF PoolInv, Numbering
  <2> HIDE DEF n
  <2>2. ASSUME NEW i \in 1 .. Len(pool) - 1
        PROVE  pool'[i].number = IF i < n THEN i ELSE i + (watch.removed + 1)
    <3>1. /\ i \in 1 .. Len(pool) /\ i + 1 \in 1 .. Len(pool)
          /\ pool'[i] = IF i < n THEN pool[i] ELSE pool[i + 1]
      BY <1>2, <1>3
    <3>2. CASE i < n
      BY <2>1, <3>1, <3>2
    <3>3. CASE ~(i < n)
      <4>1. pool'[i].number = (i + 1) + watch.removed
        BY <1>2, <2>1, <3>1, <3>3
      <4> QED BY <1>2, <3>3, <4>1
    <3> QED BY <3>2, <3>3
  <2> QED BY <1>2, <1>4, <1>5, <2>2 DEF Numbering
<1> QED BY <1>6, <1>7, <1>8, <1>9, <1>10 DEF PoolInv

\* The connection that stays gets its position as its number.
LEMMA KeepStep ==
  ASSUME PoolInv, KeepInstance
  PROVE  PoolInv'
<1> DEFINE n == watch.next
<1>1. /\ Reducing
      /\ pool' = [pool EXCEPT ![n].number = @ - watch.removed]
      /\ watch' = [watch EXCEPT !.next = @ + 1]
      /\ UNCHANGED <<handles, getting, seen, mutex, due, world>>
  BY DEF KeepInstance
<1>2. /\ n \in 1 .. Len(pool) /\ watch.removed \in Nat /\ watch.at = "reduce"
      /\ pool \in Seq(Instance) /\ Len(pool) \in Nat
      /\ DOMAIN pool = 1 .. Len(pool)
      /\ pool[n].number = n + watch.removed
  BY <1>1, Iterator
<1>3. /\ watch'.at = "reduce" /\ watch'.next = n + 1
      /\ watch'.removed = watch.removed
      /\ watch' \in [at : {"sleep", "look", "reduce"}, next : Nat, removed : Nat,
                     toRemove : Nat]
  BY <1>1, <1>2 DEF PoolInv, PoolTypeOK
<1> DEFINE e == [pool[n] EXCEPT !.number = n]
<1>4. pool' = [pool EXCEPT ![n] = e]
  <2>1. (n + watch.removed) - watch.removed = n
    BY <1>2
  <2> QED BY <1>1, <1>2, <2>1
<1>5. pool[n] \in Instance /\ n \in Nat \ {0}
  BY <1>2
<1>6. e \in Instance /\ e.number = n /\ e.db = pool[n].db
  BY <1>5 DEF Instance
<1> HIDE DEF n, e
<1>7. /\ pool' \in Seq(Instance) /\ Len(pool') = Len(pool)
      /\ DOMAIN pool' = 1 .. Len(pool) /\ pool'[n] = e
      /\ \A i \in 1 .. Len(pool) : i # n => pool'[i] = pool[i]
  BY <1>2, <1>4, <1>6
<1>8. PoolTypeOK'
  BY <1>1, <1>3, <1>7, CallersUntouched DEF PoolInv, PoolTypeOK, world
<1>9. Locks' /\ NothingPending' /\ PoolBounded'
  BY <1>1, <1>2, <1>3, <1>7, CallersUntouched DEF PoolInv, Locks, PoolBounded, world
<1>10. HeldIsPooled'
  <2>1. \A i \in 1 .. Len(pool) : pool'[i].db = pool[i].db
    BY <1>6, <1>7
  <2>2. Pooled' = Pooled
    BY <1>2, <1>7, <2>1 DEF Pooled
  <2> QED BY <1>1, <2>2 DEF PoolInv, HeldIsPooled, handles
<1>11. Numbering'
  <2>1. \A i \in 1 .. Len(pool) :
          pool[i].number = IF i < n THEN i ELSE i + watch.removed
    BY <1>2 DEF PoolInv, Numbering, n
  <2>2. ASSUME NEW i \in 1 .. Len(pool)
        PROVE  pool'[i].number = IF i < n + 1 THEN i ELSE i + watch.removed
    <3>1. CASE i = n
      BY <1>5, <1>6, <1>7, <3>1
    <3>2. CASE i # n
      <4>1. i < n + 1 <=> i < n
        BY <1>5, <3>2
      <4> QED BY <1>7, <2>1, <3>2, <4>1
    <3> QED BY <3>1, <3>2
  <2> QED BY <1>3, <1>5, <1>7, <2>2 DEF Numbering
<1> QED BY <1>8, <1>9, <1>10, <1>11 DEF PoolInv

\* Behind the last connection every number is its position.
LEMMA EndReduceStep ==
  ASSUME PoolInv, EndReduce
  PROVE  PoolInv'
<1>1. /\ watch.at = "reduce" /\ watch.next > Len(pool) /\ watch' = Resting
      /\ mutex' = None /\ mutex = Watcher
      /\ UNCHANGED <<pool, handles, getting, seen, due, world>>
  BY DEF EndReduce, PoolInv, Locks
<1>2. PoolTypeOK'
  BY <1>1, CallersUntouched DEF PoolInv, PoolTypeOK, world, Resting
<1>3. Locks'
  BY <1>1, PoolAssumption DEF PoolInv, Locks, Resting
<1>4. PoolBounded' /\ HeldIsPooled' /\ NothingPending'
  BY <1>1, CallersUntouched
     DEF PoolInv, PoolBounded, HeldIsPooled, Pooled, handles, world
<1>5. Numbering'
  <2>1. \A i \in DOMAIN pool :
          pool[i].number = IF i < watch.next THEN i ELSE i + watch.removed
    BY <1>1 DEF PoolInv, Numbering
  <2>2. \A i \in DOMAIN pool : i < watch.next
    BY <1>1 DEF PoolInv, PoolTypeOK
  <2> QED BY <1>1, <2>1, <2>2 DEF Numbering, Resting
<1> QED BY <1>2, <1>3, <1>4, <1>5 DEF PoolInv
-----------------------------------------------------------------------------
\* Time, failures and other threads' transactions; no step at all.
LEMMA WorldStep ==
  ASSUME PoolInv,
         \/ TimePasses
         \/ \E db \in Db : Age(db) \/ Break(db)
         \/ OpenTransaction \/ CloseTransaction
         \/ UNCHANGED poolVars
  PROVE  PoolInv'
<1>1. /\ UNCHANGED <<pool, held, lost, getting, seen, mutex, watch>>
      /\ due' \in BOOLEAN /\ expired' \subseteq Db /\ broken' \subseteq Db
      /\ \/ UNCHANGED <<enlisted, insideTransaction>>
         \/ insideTransaction' = TRUE /\ UNCHANGED enlisted
         \/ insideTransaction' = FALSE /\ enlisted' = {}
  BY DEF PoolInv, PoolTypeOK, TimePasses, Age, Break, OpenTransaction, CloseTransaction,
         poolVars, handles, world
<1>2. PoolTypeOK'
  BY <1>1 DEF PoolInv, PoolTypeOK
<1>3. Locks' /\ PoolBounded' /\ HeldIsPooled' /\ Numbering'
  BY <1>1 DEF PoolInv, Locks, PoolBounded, HeldIsPooled, Pooled, Numbering
<1>4. NothingPending'
  BY <1>1 DEF PoolInv, NothingPending
<1> QED BY <1>2, <1>3, <1>4 DEF PoolInv

\* The inductive invariant: it holds at the start, and every step keeps it.
THEOREM PoolInvariance == PoolSpec => []PoolInv
<1>1. PoolInit => PoolInv
  <2> SUFFICES ASSUME PoolInit PROVE PoolInv
    OBVIOUS
  <2>1. PoolTypeOK
    <3>1. pool \in Seq(Instance) /\ mutex = None
      BY DEF PoolInit
    <3>2. /\ held \in [Caller -> Db \cup {None}] /\ seen \in [Caller -> BOOLEAN]
          /\ getting \in [Caller -> Getting]
      BY DEF PoolInit, Getting
    <3>3. watch \in [at : {"sleep", "look", "reduce"}, next : Nat, removed : Nat,
                    toRemove : Nat]
      BY DEF PoolInit, Resting
    <3>4. /\ due \in BOOLEAN /\ insideTransaction \in BOOLEAN
          /\ expired = {} /\ broken = {} /\ enlisted = {} /\ lost = {}
      BY DEF PoolInit
    <3> QED BY <3>1, <3>2, <3>3, <3>4 DEF PoolTypeOK
  <2>2. Locks /\ PoolBounded
    BY PoolAssumption DEF PoolInit, Locks, PoolBounded, Resting
  <2>3. HeldIsPooled /\ Numbering /\ NothingPending
    BY DEF PoolInit, HeldIsPooled, Numbering, NothingPending, Resting
  <2> QED BY <2>1, <2>2, <2>3 DEF PoolInv
<1>2. PoolInv /\ [PoolNext]_poolVars => PoolInv'
  <2> SUFFICES ASSUME PoolInv, [PoolNext]_poolVars PROVE PoolInv'
    OBVIOUS
  <2>1. ASSUME NEW c \in Caller, GetConnection(c) \/ Release(c) PROVE PoolInv'
    <3>1. CASE Miss(c) \/ LookPegged(c) \/ ResetTimer(c) \/ Release(c)
      BY <3>1, WaitStep
    <3>2. ASSUME NEW db \in Db, Find(c, db) \/ FindFails(c, db) \/ FindLate(c, db)
          PROVE  PoolInv'
      BY <3>2, LookStep
    <3>3. ASSUME NEW db \in Db, Grow(c, db) \/ GrowFails(c, db) PROVE PoolInv'
      BY <3>3, GrowStep
    <3>4. ASSUME NEW db \in Db, Share(c, db) \/ ShareFails(c, db) PROVE PoolInv'
      BY <3>4, ShareStep
    <3> QED BY <2>1, <3>1, <3>2, <3>3, <3>4 DEF GetConnection
  <2>2. CASE TryReducePool
    BY <2>2, BeginReduceStep, RemoveStep, KeepStep, EndReduceStep DEF TryReducePool
  <2>3. CASE TimePasses \/ (\E db \in Db : Age(db) \/ Break(db))
              \/ OpenTransaction \/ CloseTransaction \/ UNCHANGED poolVars
    BY <2>3, WorldStep
  <2> QED BY <2>1, <2>2, <2>3 DEF PoolNext
<1> QED BY <1>1, <1>2, PTL DEF PoolSpec

\* The variables keep their types: no connection is numbered 0.
THEOREM PoolTypeCorrect == PoolSpec => []PoolTypeOK
<1>1. PoolInv => PoolTypeOK
  BY DEF PoolInv
<1> QED BY <1>1, PoolInvariance, PTL

\* However callers, failures and reductions interleave, no more than
\* MaxPoolSize databases are open: a handle in use is never let go by the pool.
THEOREM OpenBoundedHolds == PoolSpec => []OpenBounded
<1>1. PoolInv => OpenBounded
  <2> SUFFICES ASSUME PoolInv PROVE OpenBounded
    OBVIOUS
  <2>1. Open = Pooled
    BY DEF PoolInv, HeldIsPooled, Open
  <2>2. /\ IsFiniteSet(Pooled) /\ Cardinality(Pooled) <= Len(pool)
        /\ Cardinality(Pooled) \in Nat /\ Len(pool) \in Nat
    BY PooledIsSmall, FS_CardinalityType DEF PoolInv, PoolTypeOK
  <2> QED BY <2>1, <2>2, PoolAssumption DEF PoolInv, PoolBounded, OpenBounded
<1> QED BY <1>1, PoolInvariance, PTL

\* While no reduction is under way the numbers are 1 to the pool's size.
THEOREM NumbersArePositionsHolds == PoolSpec => []NumbersArePositions
<1>1. PoolInv => NumbersArePositions
  BY DEF PoolInv, Locks, Numbering, NumbersArePositions
<1> QED BY <1>1, PoolInvariance, PTL

\* No connection that a caller got in a transaction is replaced under it before
\* the transaction ends.
THEOREM NeverReplacedInTransactionHolds == PoolSpec => NeverReplacedInTransaction
<1>1. PoolInv /\ [PoolNext]_poolVars => [ReplacesNone]_poolVars
  <2> SUFFICES ASSUME PoolInv, [PoolNext]_poolVars PROVE ReplacesNone \/ UNCHANGED poolVars
    OBVIOUS
  <2>1. ASSUME NEW c \in Caller, NEW db \in Db,
               Find(c, db) \/ FindLate(c, db) PROVE ReplacesNone
    <3>1. Holders(db) = {} /\ (Reconnect(db) \/ UNCHANGED lost)
      BY <2>1 DEF Find, FindLate, Unique
    <3> QED BY <3>1 DEF Reconnect, ReplacesNone
  <2>2. ASSUME NEW c \in Caller, NEW db \in Db, Share(c, db) PROVE ReplacesNone
    <3>1. CASE db \in broken
      <4>1. enlisted = {}
        BY <2>2, <3>1 DEF Share, PoolInv, NothingPending
      <4> QED BY <4>1 DEF ReplacesNone
    <3>2. CASE db \notin broken
      BY <2>2, <3>2 DEF Share, ReplacesNone
    <3> QED BY <3>1, <3>2
  <2>3. ASSUME lost' \subseteq lost PROVE ReplacesNone
    BY <2>3 DEF ReplacesNone
  <2>4. ASSUME NEW c \in Caller, NEW db \in Db,
               FindFails(c, db) \/ Grow(c, db) \/ GrowFails(c, db) \/ ShareFails(c, db)
        PROVE  ReplacesNone
    BY <2>3, <2>4 DEF FindFails, Grow, GrowFails, ShareFails, handles
  <2>5. ASSUME NEW c \in Caller,
               Miss(c) \/ LookPegged(c) \/ ResetTimer(c) \/ Release(c)
        PROVE  ReplacesNone
    BY <2>3, <2>5 DEF Miss, LookPegged, ResetTimer, Release, handles
  <2>6. CASE TryReducePool
    BY <2>3, <2>6 DEF TryReducePool, LookTimer, StartReduce, RemoveInstance,
                      KeepInstance, EndReduce, handles
  <2>7. CASE TimePasses \/ (\E db \in Db : Age(db) \/ Break(db))
              \/ OpenTransaction \/ CloseTransaction
    BY <2>3, <2>7 DEF TimePasses, Age, Break, OpenTransaction, CloseTransaction,
                      handles
  <2> QED BY <2>1, <2>2, <2>4, <2>5, <2>6, <2>7 DEF PoolNext, GetConnection
<1> QED BY <1>1, PoolInvariance, PTL DEF PoolSpec, NeverReplacedInTransaction
=============================================================================
