---------------------------- MODULE LockManager ----------------------------
(***************************************************************************)
(* pg-txn: the table lock manager (lock_manager.rs).                       *)
(*                                                                         *)
(* One action per critical section of the `entries` mutex: each turn of    *)
(* acquire's wait loop, try_acquire, release_all, notify_waiters.  Threads *)
(* asleep on the condition variable are explicit, so a wakeup can be lost  *)
(* if the code loses one.  A transaction runs in one thread: it has at     *)
(* most one call in progress.  Victim marks come from the deadlock         *)
(* detector, whose snapshots are torn, so here they may hit anyone at any  *)
(* time; module DeadlockDetector composes the real one.                    *)
(***************************************************************************)
EXTENDS Integers, Sequences, FiniteSets, FiniteSetsExt

CONSTANTS Xids,       \* transactions
          Tables,     \* table OIDs
          Modes       \* the lock modes requested (a subset of LockMode)

(* LockMode, ordered by strength as the enum is; None is an absent key.    *)
None == 0
AccessShare == 1
RowExclusive == 2
Exclusive == 3
AccessExclusive == 4
LockMode == AccessShare..AccessExclusive

ASSUME LockAssumption == /\ IsFiniteSet(Xids)
                         /\ Modes \subseteq LockMode

conflicts_with(a, b) ==
  \/ AccessExclusive \in {a, b}
  \/ <<a, b>> \in {<<RowExclusive, Exclusive>>, <<Exclusive, RowExclusive>>,
                   <<Exclusive, Exclusive>>}

VARIABLES
  granted,      \* granted[t][x]: the mode x holds on t, or None
  wait_queue,   \* wait_queue[t]: the FIFO of [xid, mode] requests
  pc,           \* where the thread of each transaction is
  req,          \* the [table, mode] of the acquire in progress
  victims,      \* DeadlockVictims.set
  to_notify     \* a victim was marked and notify_waiters has not run yet

lockVars == <<granted, wait_queue, pc, req, victims, to_notify>>

Waiter == [xid : Xids, mode : LockMode]

(* "idle": between calls (a victim error leaves an explicit transaction    *)
(* usable, there is no failed state); "ready": in acquire, about to take   *)
(* the mutex again; "asleep": in Condvar::wait; "ended": release_all ran.  *)
Pc == {"idle", "ready", "asleep", "ended"}

(* What the Rust types give.                                               *)
TypeOK == /\ granted \in [Tables -> [Xids -> LockMode \cup {None}]]
          /\ wait_queue \in [Tables -> Seq(Waiter)]
          /\ pc \in [Xids -> Pc]
          /\ req \in [Xids -> [table : Tables, mode : LockMode]]
          /\ victims \subseteq Xids
          /\ to_notify \in BOOLEAN

LockInit == /\ granted = [t \in Tables |-> [x \in Xids |-> None]]
            /\ wait_queue = [t \in Tables |-> <<>>]
            /\ pc = [x \in Xids |-> "idle"]
            /\ req \in {[x \in Xids |-> [table |-> t, mode |-> AccessShare]] :
                           t \in Tables}
            /\ victims = {}
            /\ to_notify = FALSE

----------------------------------------------------------------------------
(* LockEntry: g is a granted map, q a wait queue.                          *)

FreeOfConflict(g, x, m) ==
  \A h \in Xids \ {x} : g[h] # None => ~conflicts_with(g[h], m)

(* Mutants: a holder upgrades without looking at the other holders; no     *)
(* FIFO gate.                                                              *)
can_grant_upgrade_unchecked(g, q, x, m) ==
  \/ g[x] >= m
  \/ /\ q # <<>> => Head(q).xid = x
     /\ g[x] = None => FreeOfConflict(g, x, m)
can_grant_barging(g, q, x, m) == g[x] >= m \/ FreeOfConflict(g, x, m)

can_grant(g, q, x, m) ==
  \/ g[x] >= m
  \/ /\ q # <<>> => Head(q).xid = x
     /\ FreeOfConflict(g, x, m)

Stronger(a, b) == IF a >= b THEN a ELSE b

(* The two halves of LockEntry::grant.                                     *)
GrantTo(g, x, m) == [g EXCEPT ![x] = Stronger(@, m)]
PopOwn(q, x) == IF q # <<>> /\ Head(q).xid = x THEN Tail(q) ELSE q

Queued(q, x) == \E i \in DOMAIN q : q[i].xid = x
enqueue_if_absent(q, x, m) ==
  IF Queued(q, x) THEN q ELSE Append(q, [xid |-> x, mode |-> m])

(* wait_queue.retain(|w| w.xid != xid): enqueue_if_absent leaves at most   *)
(* one request of a transaction in a queue (NoOrphans).                    *)
Retain(q, x) ==
  IF ~Queued(q, x) THEN q
  ELSE LET at == CHOOSE i \in DOMAIN q : q[i].xid = x
       IN [i \in 1..(Len(q) - 1) |-> IF i < at THEN q[i] ELSE q[i + 1]]

(* regrant_heads: walk the queue, granting each head while can_grant       *)
(* holds, and stop at the first that is refused.  AfterHeads is the        *)
(* granted map after n turns of the loop, HeadsGranted the turns it makes. *)
AfterHeads(g, q, n) ==
  [x \in Xids |->
     IF \E i \in 1..n : q[i].xid = x
     THEN Stronger(g[x], q[CHOOSE i \in 1..n : q[i].xid = x].mode)
     ELSE g[x]]

Refused(g, q) ==
  {i \in 1..Len(q) : ~can_grant(AfterHeads(g, q, i - 1), <<q[i]>>,
                                q[i].xid, q[i].mode)}

HeadsGranted(g, q) ==
  IF Refused(g, q) = {} THEN Len(q) ELSE Min(Refused(g, q)) - 1

RegrantGranted(g, q) == AfterHeads(g, q, HeadsGranted(g, q))
RegrantQueue(g, q) == SubSeq(q, HeadsGranted(g, q) + 1, Len(q))

----------------------------------------------------------------------------
(* condvar.notify_all                                                      *)
Woken(p) == [x \in Xids |-> IF p[x] = "asleep" THEN "ready" ELSE p[x]]

(* Mutant: a victim leaves without regranting the heads it held up.        *)
TakeVictim_no_regrant(x, t) ==
  /\ x \in victims
  /\ victims' = victims \ {x}
  /\ wait_queue' = [wait_queue EXCEPT ![t] = Retain(@, x)]
  /\ pc' = [Woken(pc) EXCEPT ![x] = "idle"]
  /\ UNCHANGED <<granted, req, to_notify>>

(* One turn of acquire's loop, under the mutex: the victim flag first,     *)
(* then the grant, else queue up and sleep.                                *)
TakeVictim(x, t) ==
  /\ x \in victims
  /\ victims' = victims \ {x}
  /\ LET q == Retain(wait_queue[t], x)
     IN /\ granted' = [granted EXCEPT ![t] = RegrantGranted(@, q)]
        /\ wait_queue' = [wait_queue EXCEPT ![t] = RegrantQueue(granted[t], q)]
  /\ pc' = [Woken(pc) EXCEPT ![x] = "idle"]
  /\ UNCHANGED <<req, to_notify>>

Grant(x, t, m) ==
  /\ can_grant(granted[t], wait_queue[t], x, m)
  /\ granted' = [granted EXCEPT ![t] = GrantTo(@, x, m)]
  /\ wait_queue' = [wait_queue EXCEPT ![t] = PopOwn(@, x)]
  /\ pc' = [pc EXCEPT ![x] = "idle"]
  /\ UNCHANGED <<req, victims, to_notify>>

Sleep(x, t, m) ==
  /\ ~can_grant(granted[t], wait_queue[t], x, m)
  /\ wait_queue' = [wait_queue EXCEPT ![t] = enqueue_if_absent(@, x, m)]
  /\ pc' = [pc EXCEPT ![x] = "asleep"]
  /\ req' = [req EXCEPT ![x] = [table |-> t, mode |-> m]]
  /\ UNCHANGED <<granted, victims, to_notify>>

Turn(x, t, m) == \/ TakeVictim(x, t)
                 \/ x \notin victims /\ (Grant(x, t, m) \/ Sleep(x, t, m))

(* acquire: the first turn, and the turns after a wakeup.                  *)
acquire(x, t, m) == pc[x] = "idle" /\ Turn(x, t, m)

acquire_again(x) == pc[x] = "ready" /\ Turn(x, req[x].table, req[x].mode)

try_acquire(x, t, m) == pc[x] = "idle" /\ Grant(x, t, m)

(* release_all, after the commit or the abort: every table at once.        *)
release_all(x) ==
  /\ pc[x] = "idle"
  /\ LET g(t) == [granted[t] EXCEPT ![x] = None]
         q(t) == Retain(wait_queue[t], x)
     IN /\ granted' = [t \in Tables |-> RegrantGranted(g(t), q(t))]
        /\ wait_queue' = [t \in Tables |-> RegrantQueue(g(t), q(t))]
  /\ pc' = [Woken(pc) EXCEPT ![x] = "ended"]
  /\ UNCHANGED <<req, victims, to_notify>>

(* The detector's two steps towards this module (deadlock.rs).             *)
mark(x) == /\ victims' = victims \cup {x}
           /\ to_notify' = TRUE
           /\ UNCHANGED <<granted, wait_queue, pc, req>>

notify_waiters == /\ to_notify
                  /\ pc' = Woken(pc)
                  /\ to_notify' = FALSE
                  /\ UNCHANGED <<granted, wait_queue, req, victims>>

(* end_txn and the detector's pruning drop a flag nobody consumed.         *)
clear(x) == /\ x \in victims
            /\ pc[x] \in {"idle", "ended"}
            /\ victims' = victims \ {x}
            /\ UNCHANGED <<granted, wait_queue, pc, req, to_notify>>

LockNext == \/ \E x \in Xids : \/ \E t \in Tables, m \in Modes :
                                    acquire(x, t, m) \/ try_acquire(x, t, m)
                               \/ acquire_again(x)
                               \/ release_all(x)
                               \/ mark(x)
                               \/ clear(x)
            \/ notify_waiters

LockSpec == LockInit /\ [][LockNext]_lockVars

----------------------------------------------------------------------------
(* Properties.                                                             *)

(* Two transactions never hold conflicting modes on a table, however the   *)
(* grants came about: at once, by upgrade, or eagerly by regrant_heads.    *)
Compatible ==
  \A t \in Tables : \A x, y \in Xids :
     x # y /\ granted[t][x] # None /\ granted[t][y] # None
        => ~conflicts_with(granted[t][x], granted[t][y])

(* "A FIFO-blocked waiter's queue head is always conflict-blocked"         *)
(* (deadlock.rs): whenever the mutex is free, the head of a queue really   *)
(* conflicts with some other holder, so no release was missed and every    *)
(* queue is anchored to a hard edge of the wait-for graph.                 *)
HeadBlocked ==
  \A t \in Tables : wait_queue[t] # <<>> =>
     ~FreeOfConflict(granted[t], Head(wait_queue[t]).xid,
                     Head(wait_queue[t]).mode)

(* A queued request is the pending acquire of a thread that is blocked in  *)
(* it, and it is queued once: no request outlives its transaction, its     *)
(* victim error or its grant.                                              *)
NoOrphans ==
  \A t \in Tables : \A i \in DOMAIN wait_queue[t] :
     LET w == wait_queue[t][i]
     IN /\ pc[w.xid] \in {"ready", "asleep"}
        /\ req[w.xid] = [table |-> t, mode |-> w.mode]
        /\ \A j \in DOMAIN wait_queue[t] : wait_queue[t][j].xid = w.xid => j = i

(* No lost wakeup: a sleeping thread is still queued, i.e. whoever granted *)
(* its request also woke it, and a sleeping victim has a broadcast coming. *)
NoLostWakeup ==
  \A x \in Xids : pc[x] = "asleep" =>
     /\ Queued(wait_queue[req[x].table], x)
     /\ x \in victims => to_notify

(* What is granted can be granted together: at every instant, whatever     *)
(* upgrades, eager grants, victims and releases led to it.                 *)
GrantsSound == TypeOK /\ Compatible

(* The queues are those of the blocked threads and of nobody else, their   *)
(* heads have something to wait for, and nobody in them sleeps through     *)
(* what should wake them.                                                  *)
QueuesSound == HeadBlocked /\ NoOrphans /\ NoLostWakeup

(* Two-phase locking: a held lock is never weakened or dropped by anything *)
(* but its owner's release_all, victim interruptions included.             *)
TwoPhase ==
  [][\A t \in Tables, x \in Xids :
       granted'[t][x] < granted[t][x] => pc'[x] = "ended"]_lockVars

(* No barging: a step that gives somebody a stronger lock leaves nobody    *)
(* waiting who was queued before them.                                     *)
NoBarging ==
  [][\A t \in Tables, x \in Xids :
       granted'[t][x] > granted[t][x] =>
         \A i \in DOMAIN wait_queue[t] :
            \/ ~Queued(wait_queue'[t], wait_queue[t][i].xid)
            \/ \E j \in 1..(i - 1) : wait_queue[t][j].xid = x]_lockVars

(* Locks come in the order of the queue and go all at once at the end.     *)
GrantsByTheRules == TwoPhase /\ NoBarging
=============================================================================
