------------------------------ MODULE WalWriter ------------------------------
(***************************************************************************)
(* pg-storage: the group-commit WAL writer.  Threads append records under  *)
(* the state mutex and wait in flush_to; one worker captures what a wave   *)
(* covers, fsyncs the current segment without the mutex, and publishes     *)
(* synced_lsn.  Appends go on meanwhile, and may rotate to a new segment.  *)
(* A write, a rotation or an fsync may fail, which poisons the writer.     *)
(*                                                                         *)
(* LSNs are byte offsets; the unit here is whatever the sizes in Sizes     *)
(* count.  All threads sleep on one condition variable: sleeping is the    *)
(* set of those in it, and notify_one wakes any one of them.  reserve_lsn  *)
(* and append_at have no caller outside the tests and are left out;        *)
(* append stands for reserve_and_append too, which is the same code.       *)
(***************************************************************************)
EXTENDS Integers, FiniteSets

CONSTANTS Threads,      \* threads that append and flush
          Worker,       \* the background thread
          Sizes,        \* record sizes
          SegmentSize,  \* config.wal_segment_size
          BatchSize,    \* config.wal_group_commit_batch_size
          MaxLsn        \* bound on the log's length

ASSUME WalWriterAssumption ==
    /\ Worker \notin Threads /\ IsFiniteSet(Threads)
    /\ SegmentSize \in Nat \ {0} /\ BatchSize \in Nat \ {0} /\ MaxLsn \in Nat
    /\ Sizes \subseteq 1..SegmentSize

VARIABLES
    lsn_clock, current_segment_id, synced_lsn, pending,
    flush_requested, shutdown, last_error,  \* WriterState
    written, fsynced,  \* LSNs whose byte is in a segment file, and durable
    sleeping,          \* who waits on the condition variable
    pc, target,        \* where each thread is, and the LSN it wants durable
    worker, cover,     \* where the worker is, and what its wave covers
    dropped            \* the WalWriter has been dropped

state   == <<lsn_clock, current_segment_id, synced_lsn, pending, flush_requested,
             shutdown, last_error>>
disk    == <<written, fsynced>>
threads == <<pc, target>>
vars    == <<state, disk, sleeping, threads, worker, cover, dropped>>

FIRST == 1
Lsns == FIRST..MaxLsn
Segment(lsn) == lsn \div SegmentSize
Last == MaxLsn + 1

TypeOK ==
    /\ lsn_clock \in FIRST..Last /\ synced_lsn \in 0..(Last + SegmentSize)
    /\ current_segment_id \in 0..Segment(MaxLsn) /\ pending \in 0..MaxLsn
    /\ flush_requested \in BOOLEAN /\ shutdown \in BOOLEAN /\ last_error \in BOOLEAN
    /\ written \subseteq Lsns /\ fsynced \subseteq written
    /\ sleeping \subseteq Threads \union {Worker}
    /\ pc \in [Threads -> {"idle", "appended", "flushing", "ok", "err"}]
    /\ target \in [Threads -> 0..Last]
    /\ worker \in {"run", "syncing", "synced", "stopped"}
    /\ cover \in [lsn : 0..Last, segment : 0..Segment(MaxLsn), pending : 0..MaxLsn]
    /\ dropped \in BOOLEAN

Init ==
    /\ lsn_clock = FIRST /\ current_segment_id = 0 /\ synced_lsn = 0 /\ pending = 0
    /\ flush_requested = FALSE /\ shutdown = FALSE /\ last_error = FALSE
    /\ written = {} /\ fsynced = {} /\ sleeping = {}
    /\ pc = [t \in Threads |-> "idle"] /\ target = [t \in Threads |-> 0]
    /\ worker = "run" /\ cover = [lsn |-> 0, segment |-> 0, pending |-> 0]
    /\ dropped = FALSE

\* What notify_one, and notify_one twice, may leave asleep.
NotifyOne(S) == IF S = {} THEN {{}} ELSE {S \ {t} : t \in S}
NotifyTwice(S) == UNION {NotifyOne(R) : R \in NotifyOne(S)}

Goto(t, place) == pc' = [pc EXCEPT ![t] = place]

----------------------------------------------------------------------------
(* append                                                                  *)

\* The first n bytes of a record: a segment is fsynced before the next is opened.
write_record_to_segment(from, n) ==
    /\ written' = written \union from..(from + n - 1)
    /\ current_segment_id' = IF n = 0 THEN current_segment_id ELSE Segment(from + n - 1)
    /\ fsynced' = fsynced \union {b \in written' : Segment(b) < current_segment_id'}

append(t, n) ==
    /\ ~dropped /\ pc[t] = "idle" /\ ~last_error
    /\ lsn_clock + n <= Last
    /\ lsn_clock' = lsn_clock + n
    /\ write_record_to_segment(lsn_clock, n)
    /\ pending' = pending + 1
    /\ \/ sleeping' \in NotifyOne(sleeping)                  \* should_wake
       \/ pending' < BatchSize /\ UNCHANGED sleeping         \* and too early
    /\ Goto(t, "appended")
    /\ target' = [target EXCEPT ![t] = lsn_clock']
    /\ UNCHANGED <<synced_lsn, flush_requested, shutdown, last_error, worker, cover, dropped>>

\* The write fails after k bytes: the clock has moved, so the log has a hole, and
\* the writer is poisoned.
append_fails(t, n) ==
    /\ ~dropped /\ pc[t] = "idle" /\ ~last_error
    /\ lsn_clock + n <= Last
    /\ lsn_clock' = lsn_clock + n
    /\ \E k \in 0..(n - 1) : write_record_to_segment(lsn_clock, k)
    /\ last_error' = TRUE /\ shutdown' = TRUE /\ sleeping' = {}
    /\ UNCHANGED <<synced_lsn, pending, flush_requested, threads, worker, cover, dropped>>

----------------------------------------------------------------------------
(* flush_to                                                                *)

\* The caller of append goes on without asking for durability.
carry_on(t) ==
    /\ pc[t] = "appended"
    /\ Goto(t, "idle")
    /\ UNCHANGED <<target, state, disk, sleeping, worker, cover, dropped>>

\* Asking for the worker's attention, and going to sleep, in one critical section.
request_and_wait(t, asleep) ==
    /\ flush_requested' = TRUE
    /\ \E S \in asleep : sleeping' = S \union {t}
    /\ Goto(t, "flushing")
    /\ UNCHANGED <<lsn_clock, current_segment_id, synced_lsn, pending, shutdown, last_error>>

flush_to(t, lsn) ==
    /\ ~dropped
    /\ target' = [target EXCEPT ![t] = lsn]
    /\ \/ /\ last_error /\ Goto(t, "err") /\ UNCHANGED <<state, sleeping>>
       \/ /\ ~last_error /\ synced_lsn >= lsn
          /\ Goto(t, "ok") /\ UNCHANGED <<state, sleeping>>
       \/ /\ ~last_error /\ synced_lsn < lsn
          /\ request_and_wait(t, NotifyTwice(sleeping))
    /\ UNCHANGED <<disk, worker, cover, dropped>>

\* The wait loop, after a wakeup.
flush_to_wakes(t) ==
    /\ pc[t] = "flushing" /\ t \notin sleeping
    /\ \/ /\ synced_lsn >= target[t] /\ Goto(t, "ok") /\ UNCHANGED <<state, sleeping>>
       \/ /\ synced_lsn < target[t] /\ (last_error \/ shutdown)
          /\ Goto(t, "err") /\ UNCHANGED <<state, sleeping>>
       \/ /\ synced_lsn < target[t] /\ ~last_error /\ ~shutdown
          /\ request_and_wait(t, NotifyOne(sleeping))
    /\ UNCHANGED <<target, disk, worker, cover, dropped>>

\* commit_txn flushes through the end of its record; flush, the checkpoint and the
\* buffer pool through the end of the log.
commit(t) == pc[t] = "appended" /\ flush_to(t, target[t])
flush(t) == pc[t] = "idle" /\ pending > 0 /\ flush_to(t, lsn_clock)

return(t) ==
    /\ pc[t] \in {"ok", "err"}
    /\ Goto(t, "idle")
    /\ target' = [target EXCEPT ![t] = 0]
    /\ UNCHANGED <<state, disk, sleeping, worker, cover, dropped>>

----------------------------------------------------------------------------
(* worker                                                                  *)

\* The worker stops for good, after an error of its own.
give_up ==
    /\ last_error' = TRUE /\ shutdown' = TRUE /\ sleeping' = {} /\ worker' = "stopped"
    /\ UNCHANGED <<lsn_clock, current_segment_id, synced_lsn, pending, flush_requested,
                   disk, threads, cover, dropped>>

worker_sleeps ==
    /\ worker = "run" /\ Worker \notin sleeping /\ ~shutdown
    /\ \/ pending = 0
       \/ ~flush_requested /\ pending < BatchSize
    /\ sleeping' = sleeping \union {Worker}
    /\ UNCHANGED <<state, disk, threads, worker, cover, dropped>>

\* cond.wait_for: the group-commit timeout.
worker_timeout ==
    /\ Worker \in sleeping
    /\ sleeping' = sleeping \ {Worker}
    /\ UNCHANGED <<state, disk, threads, worker, cover, dropped>>

worker_stops ==
    /\ worker = "run" /\ Worker \notin sleeping /\ shutdown /\ pending = 0
    /\ worker' = "stopped"
    /\ UNCHANGED <<state, disk, sleeping, threads, cover, dropped>>

\* A wave begins: on request, on a full batch, at shutdown, or when the timeout has
\* passed since the last one.
worker_captures ==
    /\ worker = "run" /\ Worker \notin sleeping /\ pending > 0
    /\ cover' = [lsn |-> lsn_clock, segment |-> current_segment_id, pending |-> pending]
    /\ worker' = "syncing"
    /\ UNCHANGED <<state, disk, sleeping, threads, dropped>>

worker_dup_fails ==
    /\ worker = "run" /\ Worker \notin sleeping /\ pending > 0
    /\ give_up

\* sync_all on the captured segment, without the mutex.
worker_syncs ==
    /\ worker = "syncing"
    /\ fsynced' = fsynced \union {b \in written : Segment(b) = cover.segment}
    /\ worker' = "synced"
    /\ UNCHANGED <<state, written, sleeping, threads, cover, dropped>>

worker_sync_fails == worker = "syncing" /\ give_up

\* Mutant: the wave is taken to cover what was appended while it ran.
Durable_current_lsn == lsn_clock

\* Once the log has rotated, only the end of the fsynced segment is known durable.
Durable ==
    IF current_segment_id = cover.segment THEN cover.lsn
    ELSE (cover.segment + 1) * SegmentSize

\* Mutant: the waiters are not woken.
worker_publishes_silently ==
    /\ worker = "synced"
    /\ synced_lsn' = IF Durable > synced_lsn THEN Durable ELSE synced_lsn
    /\ last_error' = (last_error /\ shutdown)
    /\ pending' = pending - cover.pending
    /\ flush_requested' = FALSE
    /\ sleeping' = sleeping
    /\ worker' = "run"
    /\ UNCHANGED <<lsn_clock, current_segment_id, shutdown, disk, threads, cover, dropped>>

worker_publishes ==
    /\ worker = "synced"
    /\ synced_lsn' = IF Durable > synced_lsn THEN Durable ELSE synced_lsn
    /\ last_error' = (last_error /\ shutdown)
    /\ pending' = pending - cover.pending
    /\ flush_requested' = FALSE
    /\ sleeping' = {}
    /\ worker' = "run"
    /\ UNCHANGED <<lsn_clock, current_segment_id, shutdown, disk, threads, cover, dropped>>

\* Drop: nobody else holds the writer any more.
drop ==
    /\ ~dropped /\ \A t \in Threads : pc[t] = "idle"
    /\ dropped' = TRUE /\ shutdown' = TRUE
    /\ sleeping' \in NotifyOne(sleeping)
    /\ UNCHANGED <<lsn_clock, current_segment_id, synced_lsn, pending, flush_requested,
                   last_error, disk, threads, worker, cover>>

\* The writer is gone and its worker joined.
joined == dropped /\ worker = "stopped" /\ UNCHANGED vars

----------------------------------------------------------------------------

worker_step ==
    \/ worker_sleeps \/ worker_timeout \/ worker_stops \/ worker_captures
    \/ worker_dup_fails \/ worker_syncs \/ worker_sync_fails \/ worker_publishes

thread_step(t) == flush_to_wakes(t) \/ return(t)

Next ==
    \/ worker_step
    \/ \E t \in Threads :
         \/ \E n \in Sizes : append(t, n) \/ append_fails(t, n)
         \/ carry_on(t) \/ commit(t) \/ flush(t) \/ thread_step(t)
    \/ drop
    \/ joined

\* Every thread that can run does, and the worker's wait is a timed one.
Fairness ==
    /\ WF_vars(worker_step)
    /\ \A t \in Threads : WF_vars(thread_step(t))

Spec == Init /\ [][Next]_vars /\ Fairness

----------------------------------------------------------------------------
(* Properties.                                                             *)

Prefix(lsn) == FIRST..(lsn - 1)

\* When flush_to returns Ok, every byte before the LSN it was given is durable,
\* whatever rotated or failed while the wave was fsyncing; and what synced_lsn
\* tells the buffer pool (WAL before data) is true until the writer is poisoned.
PromisedIsDurable ==
    /\ \A t \in Threads : pc[t] = "ok" => Prefix(target[t]) \subseteq fsynced
    /\ ~last_error => Prefix(synced_lsn) \cap Prefix(lsn_clock) \subseteq fsynced

\* Dropping the writer makes everything appended durable, unless it was poisoned.
DropIsDurable == worker = "stopped" /\ ~last_error => written \subseteq fsynced

\* Whoever is told that a record is durable is told the truth.
DurabilityIsTrue == TypeOK /\ PromisedIsDurable /\ DropIsDurable

\* Every flush_to returns: no wakeup is lost between the waiters and the worker,
\* which share one condition variable and wake each other with notify_one.
FlushReturns ==
    \A t \in Threads : pc[t] = "flushing" ~> pc[t] \in {"ok", "err"}
=============================================================================
