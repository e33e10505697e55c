------------------------------ MODULE RowLocks ------------------------------
(***************************************************************************)
(* pg-am-heap and pg-txn: the row-lock protocol (heap_am.rs row_lock_gate, *)
(* delete, lock_tuple, lock_tuple_shared; manager.rs wait_for, end_txn).   *)
(*                                                                         *)
(* A row lock is a stamp on the tuple: t_xmax names the locker, infomask   *)
(* bits say whether it is a real delete/update, an exclusive lock or a     *)
(* shared one, and a registry in memory names the further shared holders.  *)
(* It is never released: a waiter sleeps until the stamper has ended.      *)
(* The gate runs under the page latch; the end of the stamper does not, so *)
(* its three steps (commit log, active set, broadcast) and the gate's      *)
(* three reads interleave.  Victim marks may hit anyone at any time here;  *)
(* module DeadlockDetector composes the detector.                          *)
(***************************************************************************)
EXTENDS Integers, FiniteSets, FiniteSetsExt

CONSTANTS Xids,       \* transactions, as numbers
          Rows,       \* row versions, each on a page of its own
          Requests,   \* the LockRequests made
          FullPages,  \* the rows whose page has no room for a new version
          Outcomes    \* how transactions end: committed, aborted

NoXid == 0            \* TxnId::INVALID
LockRequest == {"Shared", "Exclusive", "Writer"}
NoCall == [row |-> NoXid, request |-> "none"]

ASSUME RowLockAssumption == /\ IsFiniteSet(Xids)
                            /\ Xids \subseteq Nat \ {NoXid}
                            /\ Requests \subseteq LockRequest
                            /\ FullPages \subseteq Rows
                            /\ Outcomes \subseteq {"Committed", "Aborted"}

VARIABLES
  t_xmax,             \* t_xmax[r]: the stamp of the row
  infomask,           \* "real", or LOCK_ONLY as "lock", or with IS_SHARE "share"
  share_locks,        \* share_locks[r]: the registry of shared holders
  clog,               \* clog[x]: the state the commit log gives
  active,             \* the active set
  row_wait_registry,  \* row_wait_registry[x]: who x waits for, or NoXid
  pc,                 \* where the thread of each transaction is
  rowreq,             \* the [row, request] of the call in progress, or NoCall
  victims,            \* DeadlockVictims.set
  row_to_notify,      \* a mark has been set, notify_row_waiters is to come
  held                \* ghost: held[r][x], the requests granted to x on r,
                      \* and "forgotten" for a shared lock update mislaid

pageVars == <<t_xmax, infomask, share_locks>>
endVars == <<clog, active>>
rowVars == <<pageVars, endVars, row_wait_registry, pc, rowreq, victims,
             row_to_notify, held>>

(* "row_checking": the latch is held, the commit log said InProgress and   *)
(* the active set has not been read; "row_wait": in wait_for, about to     *)
(* take the registry mutex; "row_asleep": in Condvar::wait; "row_restart": *)
(* the wait is over, the gate is next; "row_extending": update passed the  *)
(* gate, found the page full and looks for another, the latch released;    *)
(* "flipped", "removed": in end_txn.                                       *)
RowPc == {"idle", "row_checking", "row_wait", "row_asleep", "row_restart",
          "row_extending", "flipped", "removed"}

(* What the Rust types give, and the mask of an unstamped row.             *)
TypeOK == /\ t_xmax \in [Rows -> Xids \cup {NoXid}]
          /\ infomask \in [Rows -> {"none", "real", "lock", "share"}]
          /\ \A r \in Rows : infomask[r] = "none" <=> t_xmax[r] = NoXid
          /\ share_locks \in [Rows -> SUBSET Xids]
          /\ clog \in [Xids -> {"InProgress", "Committed", "Aborted"}]
          /\ active \subseteq Xids
          /\ row_wait_registry \in [Xids -> Xids \cup {NoXid}]
          /\ pc \in [Xids -> RowPc]
          /\ rowreq \in [Xids -> [row : Rows, request : LockRequest] \cup {NoCall}]
          /\ victims \subseteq Xids
          /\ row_to_notify \in BOOLEAN
          /\ held \in [Rows -> [Xids -> SUBSET (LockRequest \cup {"forgotten"})]]

(* Every transaction has begun; nobody has asked for a row.                *)
RowInit == /\ t_xmax = [r \in Rows |-> NoXid]
           /\ infomask = [r \in Rows |-> "none"]
           /\ share_locks = [r \in Rows |-> {}]
           /\ clog = [x \in Xids |-> "InProgress"]
           /\ active = Xids
           /\ row_wait_registry = [x \in Xids |-> NoXid]
           /\ pc = [x \in Xids |-> "idle"]
           /\ rowreq = [x \in Xids |-> NoCall]
           /\ victims = {}
           /\ row_to_notify = FALSE
           /\ held = [r \in Rows |-> [x \in Xids |-> {}]]

----------------------------------------------------------------------------
(* The outcomes of the gate, all under the page latch.                     *)

MaskOf(q) == CASE q = "Writer" -> "real"
               [] q = "Exclusive" -> "lock"
               [] q = "Shared" -> "share"

Return(x) == /\ pc' = [pc EXCEPT ![x] = "idle"]
             /\ rowreq' = [rowreq EXCEPT ![x] = NoCall]

Granted(x, r, q) == /\ held' = [held EXCEPT ![r][x] = (@ \ {"forgotten"}) \cup {q}]
                    /\ Return(x)

(* stamp_deleted, stamp_hot_update or stamp_lock_only.                     *)
Stamp(x, r, q) == /\ t_xmax' = [t_xmax EXCEPT ![r] = x]
                  /\ infomask' = [infomask EXCEPT ![r] = MaskOf(q)]
                  /\ Granted(x, r, q)
                  /\ UNCHANGED row_wait_registry

(* update, when the new version does not fit: nothing is stamped yet.  The *)
(* ghost notes a shared lock whose registry entry the gate has dropped for *)
(* a stamp that does not come.                                             *)
NoRoom(x, r, q) ==
  /\ rowreq' = [rowreq EXCEPT ![x] = [row |-> r, request |-> q]]
  /\ pc' = [pc EXCEPT ![x] = "row_extending"]
  /\ held' = IF infomask[r] = "share" /\ t_xmax[r] # x /\ held[r][x] # {}
             THEN [held EXCEPT ![r][x] = @ \cup {"forgotten"}]
             ELSE held
  /\ UNCHANGED <<t_xmax, infomask, row_wait_registry>>

(* What follows the verdict Proceed.  A Writer is a delete or an update;   *)
(* only the first pass of an update may find its page full.                *)
Proceed(x, r, q) ==
  \/ Stamp(x, r, q)
  \/ /\ q = "Writer" /\ r \in FullPages /\ pc[x] # "row_extending"
     /\ NoRoom(x, r, q)

(* ProceedNoStamp.                                                         *)
NoStamp(x, r, q) == /\ Granted(x, r, q)
                    /\ UNCHANGED <<t_xmax, infomask, row_wait_registry>>

(* The registry of shared holders is about the stamp the row carries.      *)
note_stamp_overwrite(x, r, q) ==
  share_locks' = [share_locks EXCEPT ![r] = IF q = "Shared" THEN {x} ELSE {}]

(* TupleConcurrentlyUpdated, InvalidArgument: the statement fails.         *)
Fail(x) == /\ Return(x)
           /\ UNCHANGED <<t_xmax, infomask, row_wait_registry, held>>

(* Wait: the edge is registered before the latch is released.              *)
Wait(x, r, q, blocking) ==
  /\ row_wait_registry' = [row_wait_registry EXCEPT ![x] = blocking]
  /\ rowreq' = [rowreq EXCEPT ![x] = [row |-> r, request |-> q]]
  /\ pc' = [pc EXCEPT ![x] = "row_wait"]
  /\ UNCHANGED <<t_xmax, infomask, held>>

(* Mutant: a shared stamp is judged by its stamper alone.                  *)
LiveSets_stamper_only(r) == {{t_xmax[r]} \cap active}

(* live_share_holders: the registered holders and the stamper, less those  *)
(* that ended; one that is between its commit-log flip and its removal     *)
(* from the active set may be read as either.                              *)
LiveSets(r) ==
  LET holders == (share_locks[r] \cup {t_xmax[r]}) \cap active
      running == {h \in holders : clog[h] = "InProgress"}
  IN {running \cup s : s \in SUBSET (holders \ running)}

(* A row with a shared stamp, mine or not; the pruned set is written back. *)
share_stamp_gate(x, r, q) ==
  \/ /\ q = "Shared" /\ t_xmax[r] = x
     /\ share_locks' = [share_locks EXCEPT ![r] = @ \cup {x}]
     /\ NoStamp(x, r, q)
  \/ /\ q = "Shared" /\ t_xmax[r] # x
     /\ \E live \in LiveSets(r) :
          \/ /\ live = {}
             /\ note_stamp_overwrite(x, r, q)
             /\ Proceed(x, r, q)
          \/ /\ live # {}
             /\ share_locks' = [share_locks EXCEPT ![r] = live \cup {x}]
             /\ NoStamp(x, r, q)
  \/ /\ q # "Shared"
     /\ \E live \in LiveSets(r) :
          \/ /\ live \subseteq {x}
             /\ note_stamp_overwrite(x, r, q)
             /\ Proceed(x, r, q)
          \/ /\ ~ live \subseteq {x}
             /\ share_locks' = [share_locks EXCEPT ![r] = live]
             /\ Wait(x, r, q, Min(live \ {x}))

(* My own real stamp: only a writer may stamp over it.                     *)
own_real_stamp(x, r, q) == /\ IF q = "Writer" THEN Proceed(x, r, q) ELSE Fail(x)
                           /\ UNCHANGED share_locks

(* My own exclusive lock: no downgrade by a shared request.                *)
own_lock_stamp(x, r, q) ==
  /\ IF q = "Shared" THEN NoStamp(x, r, q) ELSE Proceed(x, r, q)
  /\ UNCHANGED share_locks

(* Steps 3 and 4, for the stamp of somebody who has ended.                 *)
terminal_stamp(x, r, q) ==
  IF infomask[r] = "real" /\ clog[t_xmax[r]] = "Committed"
  THEN Fail(x) /\ UNCHANGED share_locks
  ELSE note_stamp_overwrite(x, r, q) /\ Proceed(x, r, q)

(* Step 5a: it looks active; the latch stays held.                         *)
looks_active(x, r, q) ==
  /\ clog[t_xmax[r]] = "InProgress"
  /\ rowreq' = [rowreq EXCEPT ![x] = [row |-> r, request |-> q]]
  /\ pc' = [pc EXCEPT ![x] = "row_checking"]
  /\ UNCHANGED <<pageVars, row_wait_registry, held>>

Latched(r) == \E y \in Xids : pc[y] = "row_checking" /\ rowreq[y].row = r

(* One turn of the restart loop, from the latch to the verdict.            *)
row_lock_gate(x, r, q) ==
  /\ ~Latched(r)
  /\ \/ /\ t_xmax[r] = NoXid
        /\ note_stamp_overwrite(x, r, q)
        /\ Proceed(x, r, q)
     \/ infomask[r] = "share" /\ share_stamp_gate(x, r, q)
     \/ t_xmax[r] = x /\ infomask[r] = "real" /\ own_real_stamp(x, r, q)
     \/ t_xmax[r] = x /\ infomask[r] = "lock" /\ own_lock_stamp(x, r, q)
     \/ /\ t_xmax[r] \notin {NoXid, x}
        /\ infomask[r] # "share"
        /\ \/ looks_active(x, r, q)
           \/ clog[t_xmax[r]] # "InProgress" /\ terminal_stamp(x, r, q)
  /\ UNCHANGED <<endVars, victims, row_to_notify>>

(* Mutant: the commit log is not read again.                               *)
gate_is_active_no_reread(x) ==
  LET r == rowreq[x].row
      q == rowreq[x].request
  IN /\ pc[x] = "row_checking"
     /\ IF t_xmax[r] \in active
        THEN Wait(x, r, q, t_xmax[r]) /\ UNCHANGED share_locks
        ELSE note_stamp_overwrite(x, r, q) /\ Proceed(x, r, q)
     /\ UNCHANGED <<endVars, victims, row_to_notify>>

(* The rest of the gate: the active set, and the commit log once more.     *)
gate_is_active(x) ==
  LET r == rowreq[x].row
      q == rowreq[x].request
  IN /\ pc[x] = "row_checking"
     /\ IF t_xmax[r] \in active
        THEN Wait(x, r, q, t_xmax[r]) /\ UNCHANGED share_locks
        ELSE terminal_stamp(x, r, q)
     /\ UNCHANGED <<endVars, victims, row_to_notify>>

(* delete and update (Writer), lock_tuple (Exclusive), lock_tuple_shared.  *)
lock_row(x, r, q) == /\ pc[x] = "idle" /\ x \in active
                     /\ row_lock_gate(x, r, q)

restart(x) == /\ pc[x] = "row_restart"
              /\ row_lock_gate(x, rowreq[x].row, rowreq[x].request)

(* update found another page: the gate again, under both latches ...       *)
extended(x) == /\ pc[x] = "row_extending"
               /\ row_lock_gate(x, rowreq[x].row, rowreq[x].request)

(* ... or the room there has gone and it starts over.                      *)
extended_too_late(x) ==
  /\ pc[x] = "row_extending"
  /\ pc' = [pc EXCEPT ![x] = "row_restart"]
  /\ UNCHANGED <<pageVars, endVars, row_wait_registry, rowreq, victims,
                 row_to_notify, held>>

----------------------------------------------------------------------------
(* manager.rs: waiting and ending.                                         *)

RowWoken(p) == [x \in Xids |-> IF p[x] = "row_asleep" THEN "row_wait" ELSE p[x]]

(* One turn of wait_for's loop, under the registry mutex: the victim flag  *)
(* first, then the predicate, else sleep.                                  *)
wait_for(x) ==
  /\ pc[x] = "row_wait"
  /\ \/ /\ x \in victims
        /\ victims' = victims \ {x}
        /\ row_wait_registry' = [row_wait_registry EXCEPT ![x] = NoXid]
        /\ Return(x)
     \/ /\ x \notin victims /\ row_wait_registry[x] \notin active
        /\ row_wait_registry' = [row_wait_registry EXCEPT ![x] = NoXid]
        /\ pc' = [pc EXCEPT ![x] = "row_restart"]
        /\ UNCHANGED <<victims, rowreq>>
     \/ /\ x \notin victims /\ row_wait_registry[x] \in active
        /\ pc' = [pc EXCEPT ![x] = "row_asleep"]
        /\ UNCHANGED <<victims, row_wait_registry, rowreq>>
  /\ UNCHANGED <<pageVars, endVars, row_to_notify, held>>

(* end_txn, in three steps.  The stale flag goes with the first,           *)
(* and with the terminal state in the commit log, so do the row locks.     *)
end_flip(x) ==
  /\ pc[x] = "idle" /\ x \in active
  /\ victims' = victims \ {x}
  /\ \E s \in Outcomes : clog' = [clog EXCEPT ![x] = s]
  /\ held' = [r \in Rows |-> [held[r] EXCEPT ![x] = {}]]
  /\ pc' = [pc EXCEPT ![x] = "flipped"]
  /\ UNCHANGED <<pageVars, active, row_wait_registry, rowreq, row_to_notify>>

end_remove(x) ==
  /\ pc[x] = "flipped"
  /\ active' = active \ {x}
  /\ pc' = [pc EXCEPT ![x] = "removed"]
  /\ UNCHANGED <<pageVars, clog, row_wait_registry, rowreq, victims,
                 row_to_notify, held>>

end_notify(x) ==
  /\ pc[x] = "removed"
  /\ pc' = [RowWoken(pc) EXCEPT ![x] = "idle"]
  /\ UNCHANGED <<pageVars, endVars, row_wait_registry, rowreq, victims,
                 row_to_notify, held>>

(* The detector's steps towards this module.                               *)
mark(x) == /\ victims' = victims \cup {x}
           /\ row_to_notify' = TRUE
           /\ UNCHANGED <<pageVars, endVars, row_wait_registry, pc, rowreq, held>>

notify_row_waiters == /\ row_to_notify
                      /\ row_to_notify' = FALSE
                      /\ pc' = RowWoken(pc)
                      /\ UNCHANGED <<pageVars, endVars, row_wait_registry,
                                     rowreq, victims, held>>

RowNext == \/ \E x \in Xids : \/ \E r \in Rows, q \in Requests : lock_row(x, r, q)
                              \/ restart(x)
                              \/ extended(x) \/ extended_too_late(x)
                              \/ gate_is_active(x)
                              \/ wait_for(x)
                              \/ end_flip(x)
                              \/ end_remove(x)
                              \/ end_notify(x)
                              \/ mark(x)
           \/ notify_row_waiters

RowSpec == RowInit /\ [][RowNext]_rowVars

----------------------------------------------------------------------------
(* Properties.                                                             *)

(* What x holds on r, less the ghost's remark.                             *)
Held(r, x) == held[r][x] \cap LockRequest

Compatible(r, x, y) == Held(r, x) \subseteq {"Shared"} /\ Held(r, y) \subseteq {"Shared"}

(* Two running transactions never hold a row in conflicting ways: a writer *)
(* or a FOR UPDATE excludes everybody, FOR SHARE only excludes those.  It  *)
(* covers stamps overwritten after a wait, upgrades, and shared holders    *)
(* known only to the registry.                                             *)
RowExclusion ==
  \A r \in Rows : \A x, y \in Xids :
     x # y /\ Held(r, x) # {} /\ Held(r, y) # {} => Compatible(r, x, y)

(* The same, but for a shared lock that an update of its own holder has    *)
(* mislaid by finding the page full: every other lock is exclusive as      *)
(* above, whatever updates release the latch between two passes.           *)
RowExclusionElse ==
  \A r \in Rows : \A x, y \in Xids :
     x # y /\ Held(r, x) # {} /\ Held(r, y) # {} =>
        \/ Compatible(r, x, y)
        \/ \E z \in {x, y} : held[r][z] = {"Shared", "forgotten"}

(* First updater wins: once the transaction of a real stamp has committed, *)
(* nobody stamps over it, not even one whose first read of the commit log  *)
(* was older than the commit.                                              *)
KeepsCommittedStamps ==
  \A r \in Rows : infomask[r] = "real" /\ clog[t_xmax[r]] = "Committed"
                  => t_xmax'[r] = t_xmax[r] /\ infomask'[r] = "real"

FirstUpdaterWins == [][KeepsCommittedStamps]_rowVars

(* No lost wakeup: whoever sleeps waits for a transaction that is still    *)
(* active or is about to broadcast, and a sleeping victim has a broadcast  *)
(* coming.                                                                 *)
RowNoLostWakeup ==
  \A x \in Xids : pc[x] = "row_asleep" =>
     /\ \/ row_wait_registry[x] \in active
        \/ pc[row_wait_registry[x]] = "removed"
     /\ x \in victims => row_to_notify

(* A wait edge is there exactly while its owner is in wait_for: grants,    *)
(* victim errors and restarts leave none behind for the detector to read.  *)
EdgesAreWaits ==
  \A x \in Xids :
     row_wait_registry[x] # NoXid <=> pc[x] \in {"row_wait", "row_asleep"}

(* What the row-lock protocol keeps at every instant, the latch released   *)
(* for every wait and for every page an update has to look for.            *)
RowLocksSound == TypeOK /\ RowExclusionElse /\ RowNoLostWakeup /\ EdgesAreWaits
=============================================================================
