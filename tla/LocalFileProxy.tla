--------------------------- MODULE LocalFileProxy ---------------------------
(***************************************************************************)
(* LocalFileProxy: files that are stored and deleted by requests, and      *)
(* changed on disk by Commit.  m_PendingOps maps a destination to the list *)
(* of what Commit has to do to it: append or move the pending files that   *)
(* Store has written, after the deletion that Delete has asked for.        *)
(*                                                                         *)
(* Several threads call the same node (the service has one client).        *)
(* m_PendingOpsMutex is held by Commit and by Rollback from start to end   *)
(* and by the end of Store and Delete; their beginnings run without it.    *)
(* Any file operation may throw, and the process may stop: the disk stays, *)
(* m_PendingOps does not.                                                  *)
(***************************************************************************)
EXTENDS Naturals, Sequences, SequencesExt

CONSTANTS
  Dest,       \* destination files
  Thread,     \* the callers
  NoThread,   \* m_PendingOpsMutex is not held
  Overwrite,  \* m_OpenMode is OVERWRITE, otherwise APPEND
  SkipLines,  \* m_SkipLines > 0: a header is skipped when data is appended
  MaxStore    \* bound on the number of Stores

ASSUME FileAssumption ==
  /\ Dest # {}
  /\ NoThread \notin Thread
  /\ Overwrite \in BOOLEAN
  /\ SkipLines \in BOOLEAN
  /\ MaxStore \in Nat

VARIABLES
  keys,        \* the keys of m_PendingOps
  pendingOps,  \* m_PendingOps: a list for every destination, empty if no key
  onDisk,      \* the pending files there are, named by the Store's number
  existing,    \* the destinations there are
  files,       \* what they hold: the data of Stores, whole or in part, with or
               \* without header
  stores,      \* number of Stores so far
  call,        \* the call each thread is in
  holder,      \* the thread inside Commit or Rollback
  merge,       \* APPEND: the commit file of the destination being committed
  damaged      \* history: a call failed halfway, or the process stopped

disk == <<onDisk, existing, files>>
vars == <<keys, pendingOps, disk, stores, call, holder, merge, damaged>>

Delete == 0  \* DELETE_STRING
Store == 1 .. MaxStore

\* Store number 0 stands for what is on disk before the first Store.
Written == [store : 0 .. MaxStore, header : BOOLEAN]
Original == [store |-> 0, header |-> TRUE]

Op == 0 .. MaxStore
Place == {"idle", "store", "isPending", "delete", "commit", "open", "append",
          "rollback"}
Call == [at : Place, dest : Dest, store : 0 .. MaxStore]
\* The commit file: what it holds; whether `appending` is set; what it is to
\* hold; whether its stream has failed, so that nothing more gets into it; and
\* whether any data was left out of it with nobody noticing.
Merge == [content : Seq(Written), appending : BOOLEAN, goal : Seq(Op),
          broken : BOOLEAN, cut : BOOLEAN]

Idle == [at |-> "idle", dest |-> CHOOSE d \in Dest : TRUE, store |-> 0]
NoMerge == [content |-> <<>>, appending |-> FALSE, goal |-> <<>>,
            broken |-> FALSE, cut |-> FALSE]

Init ==
  /\ keys = {}
  /\ pendingOps = [d \in Dest |-> <<>>]
  /\ onDisk = {}
  /\ existing \in SUBSET Dest
  /\ files = [d \in Dest |-> IF d \in existing THEN <<Original>> ELSE <<>>]
  /\ stores = 0
  /\ call = [t \in Thread |-> Idle]
  /\ holder = NoThread
  /\ merge = NoMerge
  /\ damaged = FALSE
-----------------------------------------------------------------------------
DeletesFirst(ops) == ops # <<>> /\ Head(ops) = Delete

\* The pending files of a list: all of it, but for the deletion in front.
StoresOf(ops) == IF DeletesFirst(ops) THEN Tail(ops) ELSE ops

Ids(content) == [i \in DOMAIN content |-> content[i].store]

\* What the file must hold when its list has been carried out.
GoalOf(d) ==
  (IF DeletesFirst(pendingOps[d]) THEN <<>> ELSE Ids(files[d]))
    \o StoresOf(pendingOps[d])

At(t, place) == call[t].at = place
Goto(t, place) == call' = [call EXCEPT ![t].at = place]
Return(t) == call' = [call EXCEPT ![t] = Idle]

\* Pending files are removed in the order of the list; FileUtilities::Remove
\* throws when it cannot remove one, and cannot remove one that is missing.
RemoveAll(ops) ==
  /\ ToSet(ops) \subseteq onDisk
  /\ onDisk' = onDisk \ ToSet(ops)

RemoveSome(ops, n) ==
  /\ n < Len(ops)
  /\ ToSet(SubSeq(ops, 1, n)) \subseteq onDisk
  /\ onDisk' = onDisk \ ToSet(SubSeq(ops, 1, n))
-----------------------------------------------------------------------------
(* Store *)

\* The data is written to a pending file of its own.
WritePending(t, d) ==
  /\ At(t, "idle")
  /\ stores < MaxStore
  /\ stores' = stores + 1
  /\ onDisk' = onDisk \cup {stores'}
  /\ call' = [call EXCEPT ![t] = [at |-> "store", dest |-> d, store |-> stores']]
  /\ UNCHANGED <<keys, pendingOps, existing, files, holder, merge, damaged>>

\* Writing the pending file throws: the file stays, and nothing lists it.
WriteFails(t) ==
  /\ At(t, "idle")
  /\ stores < MaxStore
  /\ stores' = stores + 1
  /\ onDisk' = onDisk \cup {stores'}
  /\ damaged' = TRUE
  /\ UNCHANGED <<keys, pendingOps, existing, files, call, holder, merge>>

\* MUTANT: the files of the list are removed, and the list is not cleared.
RegisterStoreUncleared(t, d) ==
  /\ At(t, "store") /\ call[t].dest = d
  /\ holder = NoThread
  /\ keys' = keys \cup {d}
  /\ pendingOps' = [pendingOps EXCEPT ![d] = Append(@, call[t].store)]
  /\ IF Overwrite THEN RemoveAll(StoresOf(pendingOps[d])) ELSE UNCHANGED onDisk
  /\ Return(t)
  /\ UNCHANGED <<existing, files, stores, holder, merge, damaged>>

\* MUTANT: the list is cleared, and its files are not removed.
RegisterStoreUnremoved(t, d) ==
  /\ At(t, "store") /\ call[t].dest = d
  /\ holder = NoThread
  /\ keys' = keys \cup {d}
  /\ pendingOps' = [pendingOps EXCEPT ![d] =
                      IF Overwrite THEN <<call[t].store>>
                                   ELSE Append(@, call[t].store)]
  /\ Return(t)
  /\ UNCHANGED <<disk, stores, holder, merge, damaged>>

\* The pending file is listed; to overwrite, it replaces the list.
RegisterStore(t, d) ==
  /\ At(t, "store") /\ call[t].dest = d
  /\ holder = NoThread
  /\ keys' = keys \cup {d}
  /\ IF Overwrite
       THEN /\ RemoveAll(StoresOf(pendingOps[d]))
            /\ pendingOps' = [pendingOps EXCEPT ![d] = <<call[t].store>>]
       ELSE /\ pendingOps' = [pendingOps EXCEPT ![d] = Append(@, call[t].store)]
            /\ UNCHANGED onDisk
  /\ Return(t)
  /\ UNCHANGED <<existing, files, stores, holder, merge, damaged>>

\* A file of the list cannot be removed: the list stays as it is.
CancelFails(t, d) ==
  /\ At(t, "delete") \/ (At(t, "store") /\ Overwrite)
  /\ call[t].dest = d
  /\ holder = NoThread
  /\ \E n \in 0 .. Len(pendingOps[d]) : RemoveSome(StoresOf(pendingOps[d]), n)
  /\ damaged' = TRUE
  /\ Return(t)
  /\ UNCHANGED <<keys, pendingOps, existing, files, stores, holder, merge>>
-----------------------------------------------------------------------------
(* Delete *)

\* Whether the file exists is looked up without the mutex.
LookUp(t, d) ==
  /\ At(t, "idle")
  /\ call' = [call EXCEPT ![t] =
       [Idle EXCEPT !.at = IF d \in existing THEN "delete" ELSE "isPending",
                    !.dest = d]]
  /\ UNCHANGED <<keys, pendingOps, disk, stores, holder, merge, damaged>>

\* Nothing to delete: neither a file nor a list was found.
SkipDelete(t) ==
  /\ At(t, "isPending")
  /\ holder = NoThread
  /\ call[t].dest \notin keys
  /\ Return(t)
  /\ UNCHANGED <<keys, pendingOps, disk, stores, holder, merge, damaged>>

FindPending(t) ==
  /\ At(t, "isPending")
  /\ holder = NoThread
  /\ call[t].dest \in keys
  /\ Goto(t, "delete")
  /\ UNCHANGED <<keys, pendingOps, disk, stores, holder, merge, damaged>>

\* The pending files are cancelled, and the deletion replaces the list.
RegisterDelete(t, d) ==
  /\ At(t, "delete") /\ call[t].dest = d
  /\ holder = NoThread
  /\ RemoveAll(StoresOf(pendingOps[d]))
  /\ keys' = keys \cup {d}
  /\ pendingOps' = [pendingOps EXCEPT ![d] = <<Delete>>]
  /\ Return(t)
  /\ UNCHANGED <<existing, files, stores, holder, merge, damaged>>
-----------------------------------------------------------------------------
(* Commit and Rollback *)

Enter(t, place) ==
  /\ At(t, "idle")
  /\ holder = NoThread
  /\ holder' = t
  /\ Goto(t, place)
  /\ UNCHANGED <<keys, pendingOps, disk, stores, merge, damaged>>

\* Commit or Rollback ends, by a return or by an exception.
Leave(t) ==
  /\ holder' = NoThread
  /\ Return(t)

EraseKey(d) ==
  /\ keys' = keys \ {d}
  /\ pendingOps' = [pendingOps EXCEPT ![d] = <<>>]

RemoveFile(d) ==
  /\ existing' = existing \ {d}
  /\ files' = [files EXCEPT ![d] = <<>>]

MoveTo(d, content) ==
  /\ existing' = existing \cup {d}
  /\ files' = [files EXCEPT ![d] = content]

\* OVERWRITE: the only operation of the list is carried out.
CommitOverwrite(t, d) ==
  /\ Overwrite
  /\ At(t, "commit") /\ d \in keys
  /\ \/ /\ DeletesFirst(pendingOps[d])
        /\ RemoveFile(d)
        /\ UNCHANGED onDisk
     \/ /\ Head(pendingOps[d]) \in onDisk
        /\ MoveTo(d, <<[store |-> Head(pendingOps[d]), header |-> TRUE]>>)
        /\ onDisk' = onDisk \ {Head(pendingOps[d])}
  /\ EraseKey(d)
  /\ UNCHANGED <<stores, call, holder, merge, damaged>>

\* APPEND: the lock file of one destination is locked, and a deletion in front
\* of its list is carried out and erased.
CommitDelete(t, d) ==
  /\ ~Overwrite
  /\ At(t, "commit") /\ d \in keys
  /\ DeletesFirst(pendingOps[d])
  /\ RemoveFile(d)
  /\ merge' = [merge EXCEPT !.goal = GoalOf(d)]
  /\ \/ /\ Len(pendingOps[d]) > 1
        /\ pendingOps' = [pendingOps EXCEPT ![d] = Tail(@)]
        /\ call' = [call EXCEPT ![t].at = "open", ![t].dest = d]
        /\ UNCHANGED <<keys, holder>>
     \/ /\ Len(pendingOps[d]) = 1
        /\ EraseKey(d)
        /\ UNCHANGED <<call, holder>>
     \/ /\ Len(pendingOps[d]) = 1  \* the lock file cannot be removed
        /\ pendingOps' = [pendingOps EXCEPT ![d] = <<>>]
        /\ Leave(t)
        /\ UNCHANGED keys
  /\ UNCHANGED <<onDisk, stores, damaged>>

\* The same without a deletion.  A list left empty by an earlier exception is
\* read past its end: this is the case that finds no deletion there.
CommitStores(t, d) ==
  /\ ~Overwrite
  /\ At(t, "commit") /\ d \in keys
  /\ ~DeletesFirst(pendingOps[d])
  /\ merge' = [merge EXCEPT !.goal = GoalOf(d)]
  /\ call' = [call EXCEPT ![t].at = "open", ![t].dest = d]
  /\ UNCHANGED <<keys, pendingOps, disk, stores, holder, damaged>>

\* The commit file is opened with `content` in it, all of the destination's
\* data or less.
Opened(t, d, content, broken, cut) ==
  /\ At(t, "open") /\ call[t].dest = d
  /\ merge' = [merge EXCEPT !.content = content, !.appending = d \in existing,
                            !.broken = broken, !.cut = cut]
  /\ Goto(t, "append")
  /\ UNCHANGED <<keys, pendingOps, disk, stores, holder, damaged>>

\* MUTANT: the commit file is opened without truncating it.
OpenCommitFileToAppend(t, d) ==
  Opened(t, d, merge.content \o files[d], FALSE, FALSE)

\* MUTANT: what the destination holds is not copied.
OpenCommitFileUncopied(t, d) == Opened(t, d, <<>>, FALSE, FALSE)

\* The commit file is opened empty, and gets what the destination holds.  That
\* this has failed is never looked at: the file system may be full, and the
\* stream fails, or the destination cannot be read to its end, or at all (then
\* peek() returns EOF, and nothing is copied).
OpenCommitFile(t, d) ==
  \/ Opened(t, d, files[d], FALSE, FALSE)
  \/ /\ d \in existing
     /\ \E n \in 0 .. Len(files[d]), broken \in BOOLEAN :
          Opened(t, d, SubSeq(files[d], 1, n), broken, TRUE)

\* The first pending file is read, removed, and erased from the list.
Appended(t, d, content, appending, broken, cut) ==
  /\ At(t, "append") /\ call[t].dest = d
  /\ pendingOps[d] # <<>>
  /\ Head(pendingOps[d]) \in onDisk
  /\ merge' = [merge EXCEPT !.content = content, !.appending = appending,
                            !.broken = broken, !.cut = cut]
  /\ onDisk' = onDisk \ {Head(pendingOps[d])}
  /\ pendingOps' = [pendingOps EXCEPT ![d] = Tail(@)]
  /\ UNCHANGED <<keys, existing, files, stores, call, holder, damaged>>

\* What the commit file holds once the first pending file has been copied,
\* without its header if there is data before it.
WithFirst(d) ==
  Append(merge.content, [store |-> Head(pendingOps[d]),
                         header |-> ~(SkipLines /\ merge.appending)])

\* MUTANT: the first file written is not remembered.
AppendPendingForgets(t, d) ==
  Appended(t, d, WithFirst(d), merge.appending, FALSE, merge.cut)

\* The first pending file is copied into a stream that has not failed.  Again
\* nobody looks: of its data none or a part may get there, and the pending file
\* is removed all the same.
AppendPending(t, d) ==
  \/ ~merge.broken /\ Appended(t, d, WithFirst(d), TRUE, FALSE, merge.cut)
  \/ \E broken \in BOOLEAN :
       /\ ~merge.broken
       /\ Appended(t, d, WithFirst(d), TRUE, broken, TRUE)
  \/ \E broken \in BOOLEAN :
       /\ merge.broken => broken
       /\ Appended(t, d, merge.content, TRUE, broken, TRUE)

\* MUTANT: the destination is not erased from m_PendingOps.
MoveCommitFileKeepsKey(t, d) ==
  /\ At(t, "append") /\ call[t].dest = d
  /\ pendingOps[d] = <<>>
  /\ MoveTo(d, merge.content)
  /\ merge' = [merge EXCEPT !.content = <<>>]
  /\ Goto(t, "commit")
  /\ UNCHANGED <<keys, pendingOps, onDisk, stores, holder, damaged>>

\* The commit file is closed and becomes the destination; then the lock file is
\* removed.  That close() has failed to write what was still in the stream's
\* buffer is not looked at either.
MoveCommitFile(t, d) ==
  /\ At(t, "append") /\ call[t].dest = d
  /\ pendingOps[d] = <<>>
  /\ \E n \in 0 .. Len(merge.content), cut \in BOOLEAN :
       /\ n < Len(merge.content) => cut
       /\ MoveTo(d, SubSeq(merge.content, 1, n))
       /\ merge' = [merge EXCEPT !.content = <<>>, !.cut = @ \/ cut]
  /\ \/ EraseKey(d) /\ Goto(t, "commit") /\ UNCHANGED holder
     \/ Leave(t) /\ UNCHANGED <<keys, pendingOps>>
  /\ UNCHANGED <<onDisk, stores, damaged>>

\* The next file operation of Commit throws, with no effect of its own.
CommitThrows(t) ==
  /\ At(t, "open") \/ At(t, "append") \/ (At(t, "commit") /\ keys # {})
  /\ Leave(t)
  /\ UNCHANGED <<keys, pendingOps, disk, stores, merge, damaged>>

RollbackFile(t, d) ==
  /\ At(t, "rollback") /\ d \in keys
  /\ RemoveAll(StoresOf(pendingOps[d]))
  /\ EraseKey(d)
  /\ UNCHANGED <<existing, files, stores, call, holder, merge, damaged>>

\* A pending file cannot be removed: what comes before it has been erased.
RollbackThrows(t, d) ==
  /\ At(t, "rollback") /\ d \in keys
  /\ LET ops == StoresOf(pendingOps[d]) IN
       \E n \in 0 .. Len(ops) :
         /\ RemoveSome(ops, n)
         /\ pendingOps' = [pendingOps EXCEPT ![d] = SubSeq(ops, n + 1, Len(ops))]
  /\ damaged' = TRUE
  /\ Leave(t)
  /\ UNCHANGED <<keys, existing, files, stores, merge>>

Finish(t) ==
  /\ At(t, "commit") \/ At(t, "rollback")
  /\ keys = {}
  /\ Leave(t)
  /\ UNCHANGED <<keys, pendingOps, disk, stores, merge, damaged>>

Restart ==
  /\ keys' = {}
  /\ pendingOps' = [d \in Dest |-> <<>>]
  /\ call' = [t \in Thread |-> Idle]
  /\ holder' = NoThread
  /\ damaged' = TRUE

\* The process stops, and starts again.
Stop == Restart /\ UNCHANGED <<disk, stores, merge>>

\* An empty list is read past its end, what is found passes for a deletion,
\* and is erased from the empty list: the file is gone, the memory corrupt.
CommitPastEnd(t, d) ==
  /\ ~Overwrite
  /\ At(t, "commit") /\ d \in keys
  /\ pendingOps[d] = <<>>
  /\ RemoveFile(d)
  /\ Restart
  /\ UNCHANGED <<onDisk, stores, merge>>
-----------------------------------------------------------------------------
CommitStep(t, d) ==
  \/ CommitOverwrite(t, d)
  \/ CommitDelete(t, d)
  \/ CommitStores(t, d)
  \/ OpenCommitFile(t, d)
  \/ AppendPending(t, d)
  \/ MoveCommitFile(t, d)

Next ==
  \/ \E t \in Thread, d \in Dest :
       \/ WritePending(t, d)
       \/ RegisterStore(t, d)
       \/ CancelFails(t, d)
       \/ LookUp(t, d)
       \/ RegisterDelete(t, d)
       \/ CommitStep(t, d)
       \/ CommitPastEnd(t, d)
       \/ RollbackFile(t, d)
       \/ RollbackThrows(t, d)
  \/ \E t \in Thread :
       \/ WriteFails(t)
       \/ SkipDelete(t)
       \/ FindPending(t)
       \/ Enter(t, "commit")
       \/ Enter(t, "rollback")
       \/ CommitThrows(t)
       \/ Finish(t)
  \/ Stop

Spec == Init /\ [][Next]_vars

\* Once inside Commit or Rollback, a thread takes its next step or throws.
Closing ==
  \E t \in Thread :
    \/ CommitThrows(t)
    \/ Finish(t)
    \/ \E d \in Dest : \/ CommitStep(t, d)
                       \/ RollbackFile(t, d)
                       \/ RollbackThrows(t, d)

FairSpec == Spec /\ WF_vars(Closing)
-----------------------------------------------------------------------------
TypeOK ==
  /\ keys \subseteq Dest
  /\ pendingOps \in [Dest -> Seq(Op)]
  /\ onDisk \subseteq Store
  /\ existing \subseteq Dest
  /\ files \in [Dest -> Seq(Written)]
  /\ stores \in 0 .. MaxStore
  /\ call \in [Thread -> Call]
  /\ holder \in Thread \cup {NoThread}
  /\ merge \in Merge
  /\ damaged \in BOOLEAN

\* "there can be at most one DELETE_STRING, and whenever it is present it is at
\* the front of the list of pendingops": Commit and Rollback look nowhere else.
DeletesLead ==
  \A d \in Dest : \A i \in DOMAIN pendingOps[d] :
    pendingOps[d][i] = Delete => i = 1

\* "this is impossible to hit": in OVERWRITE mode Commit finds one operation.
SingleOverwrite ==
  Overwrite => \A d \in keys : Len(pendingOps[d]) = 1

\* The pending files there are, are those that are listed and those of the
\* Stores in progress: none is leaked, and none that is listed is missing,
\* unless a call failed halfway or the process stopped.
PendingFilesMatch ==
  ~damaged =>
    onDisk = (UNION {ToSet(StoresOf(pendingOps[d])) : d \in Dest})
             \cup {call[t].store : t \in {u \in Thread : At(u, "store")}}

\* However often Commit throws and is called again, no data is written twice,
\* to one file or to two.
WrittenOnce ==
  \A d, e \in Dest : \A i \in DOMAIN files[d], j \in DOMAIN files[e] :
    (files[d][i].store = files[e][j].store /\ files[d][i].store # 0) =>
      (d = e /\ i = j)

\* With lines to skip, a file has no header but its first data's.
HeaderOnce ==
  SkipLines => \A d \in Dest : \A i \in DOMAIN files[d] :
    files[d][i].header => i = 1

Moves(d) == ~Overwrite /\ files'[d] # files[d] /\ files'[d] # <<>>

CompleteWhenMoved ==
  \A d \in Dest : Moves(d) =>
    /\ ToSet(Ids(files'[d])) \subseteq ToSet(merge.goal)
    /\ Ids(files'[d]) = merge.goal \/ merge'.cut

\* When a commit file becomes the destination, it holds nothing but what the
\* destination held, unless that was to be deleted, and the data of the Stores
\* that were listed; and it holds all of that, in the order of the list, unless
\* a copy into it or its close() has failed (`cut`): Commit looks at no stream
\* it has opened, removes the pending files, and returns as if all was there.
CommitIsComplete == [][CompleteWhenMoved]_vars

\* Every Commit and Rollback ends, by a return or by an exception.
ClosingEnds == \A t \in Thread : (holder = t) ~> (holder # t)

=============================================================================
