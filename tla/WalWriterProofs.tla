-------------------------- MODULE WalWriterProofs --------------------------
(***************************************************************************)
(* Proofs about WalWriter, for any number of threads, record sizes,        *)
(* segment size and length of the log.                                     *)
(***************************************************************************)
EXTENDS WalWriter, TLAPS

(* The poisoned writer is shut down, nothing but an error or the drop shuts *)
(* it down, and the worker stops only then: nobody appends behind a worker  *)
(* that has stopped.                                                        *)
Stopping ==
  /\ last_error => shutdown
  /\ shutdown => last_error \/ dropped
  /\ worker = "stopped" => shutdown

(* What append leaves in the segments: no byte at or after the clock, no   *)
(* hole while the writer is sound, every segment but the last fsynced, and *)
(* neither more pending records than bytes nor a promise past the clock.   *)
LogShape ==
  /\ written \subseteq Prefix(lsn_clock)
  /\ ~last_error => written = Prefix(lsn_clock)
  /\ current_segment_id <= Segment(lsn_clock)
  /\ \A b \in written : /\ Segment(b) <= current_segment_id
                        /\ Segment(b) < current_segment_id => b \in fsynced
  /\ pending < lsn_clock /\ synced_lsn <= lsn_clock

(* What the wave under way covers.  A byte below cover.lsn is in the       *)
(* captured segment or before it, and no append moves it; while nothing    *)
(* was appended since the capture, the wave covers the whole log.          *)
Wave ==
  worker \in {"syncing", "synced"} =>
    /\ cover.lsn <= lsn_clock /\ cover.segment <= current_segment_id
    /\ cover.pending <= pending
    /\ \A b \in written : b < cover.lsn => Segment(b) <= cover.segment
    /\ pending = cover.pending /\ ~last_error =>
         cover.lsn = lsn_clock /\ cover.segment = current_segment_id

Synced ==
  worker = "synced" =>
    \A b \in written : b < cover.lsn /\ Segment(b) = cover.segment => b \in fsynced

(* What the threads wait for is in the segments, and what synced_lsn       *)
(* covers, or an empty queue of pending records, is durable.               *)
Promises ==
  /\ \A t \in Threads : /\ pc[t] \in {"appended", "flushing"} => Prefix(target[t]) \subseteq written
                        /\ pc[t] = "ok" => Prefix(target[t]) \subseteq fsynced
  /\ \A b \in written : b < synced_lsn => b \in fsynced
  /\ pending = 0 /\ ~last_error => written \subseteq fsynced
  /\ worker = "stopped" /\ ~last_error => written \subseteq fsynced

IInv == TypeOK /\ Stopping /\ LogShape /\ Wave /\ Synced /\ Promises

----------------------------------------------------------------------------
(* Segments and bytes.                                                     *)

(* A byte lies in segment s or after exactly when it is not below the first *)
(* byte of s.                                                               *)
LEMMA SegmentStart ==
  ASSUME NEW b \in Nat, NEW s \in Nat
  PROVE  Segment(b) \in Nat /\ (s <= Segment(b) <=> s * SegmentSize <= b)
BY WalWriterAssumption DEF Segment

LEMMA SegmentMonotone ==
  ASSUME NEW a \in Nat, NEW b \in Nat, a <= b
  PROVE  Segment(a) <= Segment(b)
<1>1. Segment(a) \in Nat /\ Segment(a) * SegmentSize <= a
  BY SegmentStart
<1>2. Segment(a) * SegmentSize <= b
  BY <1>1, WalWriterAssumption
<1> QED
  BY <1>1, <1>2, SegmentStart

(* The first byte of the next segment is past every byte of this one and of *)
(* those before it.                                                         *)
LEMMA SegmentEnd ==
  ASSUME NEW b \in Nat, NEW s \in Nat, b < (s + 1) * SegmentSize
  PROVE  Segment(b) <= s
<1>1. ~ ((s + 1) <= Segment(b)) /\ Segment(b) \in Nat
  BY SegmentStart, WalWriterAssumption
<1> QED
  BY <1>1

(* What notify_one leaves asleep was asleep.                                *)
LEMMA NotifyShrinks ==
  ASSUME NEW S
  PROVE  /\ \A R \in NotifyOne(S) : R \subseteq S
         /\ \A R \in NotifyTwice(S) : R \subseteq S
<1>1. \A Q : \A R \in NotifyOne(Q) : R \subseteq Q
  BY DEF NotifyOne
<1> QED
  BY <1>1 DEF NotifyTwice

(* Writing the first k bytes of a record of n: what is written stays,      *)
(* the new bytes are at or after the old clock, and every segment but the  *)
(* one written last is durable.                                            *)
LEMMA RecordWritten ==
  ASSUME TypeOK, LogShape, NEW n \in Sizes, NEW k \in 0..n,
         lsn_clock + n <= Last, lsn_clock' = lsn_clock + n,
         write_record_to_segment(lsn_clock, k)
  PROVE  /\ written' = written \union lsn_clock..(lsn_clock + k - 1)
         /\ written' \subseteq Lsns /\ written' \subseteq Prefix(lsn_clock')
         /\ fsynced \subseteq fsynced' /\ fsynced' \subseteq written'
         /\ current_segment_id' \in 0..Segment(MaxLsn)
         /\ current_segment_id <= current_segment_id'
         /\ current_segment_id' <= Segment(lsn_clock')
         /\ \A b \in written' : /\ Segment(b) <= current_segment_id'
                                /\ Segment(b) < current_segment_id' => b \in fsynced'
<1>1. /\ n \in Nat \ {0} /\ k \in Nat /\ lsn_clock \in Nat \ {0} /\ MaxLsn \in Nat
      /\ lsn_clock + n - 1 <= MaxLsn /\ k <= n
  BY WalWriterAssumption DEF TypeOK, Last, FIRST
<1>2. /\ written' = written \union lsn_clock..(lsn_clock + k - 1)
      /\ current_segment_id' = IF k = 0 THEN current_segment_id ELSE Segment(lsn_clock + k - 1)
      /\ fsynced' = fsynced \union {b \in written' : Segment(b) < current_segment_id'}
  BY DEF write_record_to_segment
<1>3. written' \subseteq Lsns /\ written' \subseteq Prefix(lsn_clock')
  BY <1>1, <1>2 DEF LogShape, TypeOK, Prefix, Lsns, FIRST
<1>4. /\ current_segment_id <= current_segment_id'
      /\ current_segment_id' <= Segment(lsn_clock')
      /\ current_segment_id' \in 0..Segment(MaxLsn)
  <2>1. current_segment_id \in Nat /\ current_segment_id <= Segment(lsn_clock)
        /\ current_segment_id <= Segment(MaxLsn)
    BY DEF TypeOK, LogShape
  <2>2. Segment(lsn_clock) \in Nat /\ Segment(lsn_clock') \in Nat /\ Segment(MaxLsn) \in Nat
    BY <1>1, SegmentStart
  <2>3. CASE k = 0
    <3>1. Segment(lsn_clock) <= Segment(lsn_clock')
      BY <1>1, SegmentMonotone
    <3> QED
      BY <1>2, <2>1, <2>2, <2>3, <3>1
  <2>4. CASE k # 0
    <3> DEFINE last == lsn_clock + k - 1
    <3>1. last \in Nat /\ lsn_clock <= last /\ last <= lsn_clock' /\ last <= MaxLsn
      BY <1>1, <2>4
    <3> HIDE DEF last
    <3>2. /\ Segment(last) \in Nat /\ Segment(lsn_clock) <= Segment(last)
          /\ Segment(last) <= Segment(lsn_clock') /\ Segment(last) <= Segment(MaxLsn)
      BY <1>1, <3>1, SegmentMonotone, SegmentStart
    <3> QED
      BY <1>2, <2>1, <2>2, <2>4, <3>2 DEF last
  <2> QED
    BY <2>3, <2>4
<1>5. ASSUME NEW b \in written' PROVE Segment(b) <= current_segment_id'
  <2>1. b \in Nat /\ Segment(b) \in Nat
    BY <1>3, SegmentStart DEF Lsns, FIRST
  <2>2. CASE b \in written
    BY <1>4, <2>1, <2>2 DEF LogShape, TypeOK
  <2>3. CASE b \notin written
    <3>1. b \in lsn_clock..(lsn_clock + k - 1) /\ k # 0
      BY <1>1, <1>2, <2>3
    <3> QED
      BY <1>1, <1>2, <2>1, <3>1, SegmentMonotone
  <2> QED
    BY <2>2, <2>3
<1>6. fsynced \subseteq fsynced' /\ fsynced' \subseteq written'
  BY <1>2 DEF TypeOK
<1> QED
  BY <1>2, <1>3, <1>4, <1>5, <1>6

----------------------------------------------------------------------------
(* The invariant is inductive.                                             *)

LEMMA InitIInv == Init => IInv
<1> SUFFICES ASSUME Init PROVE IInv
  OBVIOUS
<1>1. Segment(MaxLsn) \in Nat /\ Segment(FIRST) \in Nat /\ SegmentSize \in Nat
  BY SegmentStart, WalWriterAssumption DEF FIRST
<1>2. TypeOK
  <2>1. /\ pc \in [Threads -> {"idle", "appended", "flushing", "ok", "err"}]
        /\ target \in [Threads -> 0..Last]
    BY WalWriterAssumption DEF Init, Last
  <2>2. cover \in [lsn : 0..Last, segment : 0..Segment(MaxLsn), pending : 0..MaxLsn]
    BY <1>1, WalWriterAssumption DEF Init, Last
  <2>3. /\ lsn_clock \in FIRST..Last /\ synced_lsn \in 0..(Last + SegmentSize)
        /\ current_segment_id \in 0..Segment(MaxLsn) /\ pending \in 0..MaxLsn
    BY <1>1, WalWriterAssumption DEF Init, FIRST, Last
  <2>4. /\ flush_requested \in BOOLEAN /\ shutdown \in BOOLEAN /\ last_error \in BOOLEAN
        /\ written \subseteq Lsns /\ fsynced \subseteq written
        /\ sleeping \subseteq Threads \union {Worker} /\ dropped \in BOOLEAN
        /\ worker \in {"run", "syncing", "synced", "stopped"}
    BY DEF Init
  <2> QED
    BY <2>1, <2>2, <2>3, <2>4 DEF TypeOK
<1>3. Stopping /\ Wave /\ Synced
  BY DEF Init, Stopping, Wave, Synced
<1>4. Promises
  BY DEF Init, Promises
<1>5. LogShape
  BY <1>1 DEF Init, LogShape, Prefix, FIRST
<1> QED
  BY <1>2, <1>3, <1>4, <1>5 DEF IInv

(* A record, or the part of it that reached the segment before the error.  *)
LEMMA AppendIInv ==
  ASSUME IInv, NEW t \in Threads, NEW n \in Sizes, append(t, n) \/ append_fails(t, n)
  PROVE  IInv'
<1> USE DEF IInv
<1>1. /\ n \in Nat \ {0} /\ lsn_clock \in Nat \ {0} /\ lsn_clock' = lsn_clock + n
      /\ lsn_clock' \in FIRST..Last /\ MaxLsn \in Nat /\ SegmentSize \in Nat /\ ~last_error
      /\ worker # "stopped" /\ ~dropped /\ lsn_clock + n <= Last
  BY WalWriterAssumption DEF append, append_fails, TypeOK, FIRST, Last, Stopping
<1>2. PICK k \in 0..n : /\ write_record_to_segment(lsn_clock, k)
                        /\ append(t, n) => k = n
  BY <1>1 DEF append, append_fails
<1> DEFINE new == lsn_clock..(lsn_clock + k - 1)
<1>3. /\ written' = written \union new
      /\ written' \subseteq Lsns /\ written' \subseteq Prefix(lsn_clock')
      /\ fsynced \subseteq fsynced' /\ fsynced' \subseteq written'
      /\ current_segment_id' \in 0..Segment(MaxLsn)
      /\ current_segment_id <= current_segment_id'
      /\ current_segment_id' <= Segment(lsn_clock')
      /\ \A b \in written' : /\ Segment(b) <= current_segment_id'
                             /\ Segment(b) < current_segment_id' => b \in fsynced'
  BY <1>1, <1>2, RecordWritten
<1>4. /\ new \cap written = {} /\ \A b \in new : b \in Nat /\ b >= lsn_clock
      /\ append(t, n) => written' = Prefix(lsn_clock')
  BY <1>1, <1>2, <1>3 DEF LogShape, Prefix, FIRST
<1> HIDE DEF new
<1>5. TypeOK'
  <2>1. CASE append(t, n)
    <3>1. pending' \in 0..MaxLsn
      BY <1>1, <2>1 DEF append, TypeOK, LogShape, Last, FIRST
    <3>2. sleeping' \subseteq Threads \union {Worker}
      BY <2>1, NotifyShrinks DEF append, TypeOK
    <3>3. pc' \in [Threads -> {"idle", "appended", "flushing", "ok", "err"}]
      BY <2>1 DEF append, Goto, TypeOK
    <3>4. target' \in [Threads -> 0..Last]
      BY <1>1, <2>1 DEF append, TypeOK, FIRST
    <3> QED
      BY <1>1, <1>3, <2>1, <3>1, <3>2, <3>3, <3>4 DEF append, TypeOK
  <2>2. CASE append_fails(t, n)
    BY <1>1, <1>3, <2>2 DEF append_fails, TypeOK, threads
  <2> QED
    BY <2>1, <2>2
<1>6. Stopping'
  BY <1>1 DEF append, append_fails, Stopping
<1>7. LogShape'
  <2>1. pending' < lsn_clock' /\ synced_lsn' <= lsn_clock'
    BY <1>1 DEF append, append_fails, LogShape, TypeOK
  <2>2. ~last_error' => written' = Prefix(lsn_clock')
    BY <1>4 DEF append, append_fails
  <2>3. written' \subseteq Prefix(lsn_clock') /\ current_segment_id' <= Segment(lsn_clock')
    BY <1>3
  <2>4. \A b \in written' : /\ Segment(b) <= current_segment_id'
                            /\ Segment(b) < current_segment_id' => b \in fsynced'
    BY <1>3
  <2> QED
    BY <2>1, <2>2, <2>3, <2>4 DEF LogShape
<1>8. Wave' /\ Synced'
  <2>1. /\ worker' = worker /\ cover' = cover
        /\ append(t, n) => pending' = pending + 1
        /\ append_fails(t, n) => pending' = pending /\ last_error'
    BY DEF append, append_fails
  <2>2. ASSUME worker \in {"syncing", "synced"}
        PROVE  /\ cover.lsn \in Nat /\ cover.lsn <= lsn_clock /\ cover.pending \in Nat
               /\ cover.pending <= pending /\ cover.segment \in Nat
               /\ cover.segment <= current_segment_id
               /\ \A b \in written : b < cover.lsn => Segment(b) <= cover.segment
    BY <2>2 DEF Wave, TypeOK
  <2>3. \A b \in written' : worker \in {"syncing", "synced"} /\ b < cover.lsn => b \in written
    BY <1>1, <1>3, <1>4, <2>2
  <2>4. Wave'
    BY <1>1, <1>3, <1>5, <2>1, <2>2, <2>3 DEF Wave, TypeOK
  <2>5. Synced'
    BY <1>3, <2>1, <2>3 DEF Synced
  <2> QED
    BY <2>4, <2>5
<1>9. Promises'
  <2>1. ASSUME NEW u \in Threads
        PROVE  /\ pc'[u] \in {"appended", "flushing"} => Prefix(target'[u]) \subseteq written'
               /\ pc'[u] = "ok" => Prefix(target'[u]) \subseteq fsynced'
    <3>1. CASE append(t, n) /\ u = t
      BY <1>4, <3>1 DEF append, Goto, TypeOK
    <3>2. CASE append_fails(t, n) \/ u # t
      <4>1. pc'[u] = pc[u] /\ target'[u] = target[u]
        BY <3>2 DEF append, append_fails, Goto, TypeOK, threads
      <4> QED
        BY <1>3, <4>1 DEF Promises
    <3> QED
      BY <3>1, <3>2
  <2>2. \A b \in written' : b < synced_lsn' => b \in fsynced'
    BY <1>1, <1>3, <1>4 DEF Promises, LogShape, TypeOK, append, append_fails
  <2>3. pending' = 0 => last_error'
    BY <1>1 DEF append, append_fails, TypeOK
  <2>4. worker' # "stopped"
    BY <1>1 DEF append, append_fails
  <2> QED
    BY <2>1, <2>2, <2>3, <2>4 DEF Promises
<1> QED
  BY <1>5, <1>6, <1>7, <1>8, <1>9

(* The threads that wait: flush_to promises only what is in the segments   *)
(* and below synced_lsn.                                                   *)
LEMMA ThreadIInv ==
  ASSUME IInv, NEW t \in Threads,
         carry_on(t) \/ commit(t) \/ flush(t) \/ flush_to_wakes(t) \/ return(t)
  PROVE  IInv'
<1> USE DEF IInv
<1>1. /\ lsn_clock' = lsn_clock /\ current_segment_id' = current_segment_id
      /\ synced_lsn' = synced_lsn /\ pending' = pending /\ shutdown' = shutdown
      /\ last_error' = last_error /\ written' = written /\ fsynced' = fsynced
      /\ worker' = worker /\ cover' = cover /\ dropped' = dropped
  BY DEF carry_on, commit, flush, flush_to, flush_to_wakes, return, request_and_wait,
         state, disk
<1>2. flush_requested' \in BOOLEAN
  BY DEF carry_on, commit, flush, flush_to, flush_to_wakes, return, request_and_wait,
         state, TypeOK
<1>3. sleeping' \subseteq Threads \union {Worker}
  <2>1. sleeping' = sleeping \/ \E S \in SUBSET sleeping : sleeping' = S \union {t}
    BY NotifyShrinks DEF carry_on, commit, flush, flush_to, flush_to_wakes, return,
         request_and_wait
  <2> QED
    BY <2>1 DEF TypeOK
<1>4. /\ pc' \in [Threads -> {"idle", "appended", "flushing", "ok", "err"}]
      /\ target' \in [Threads -> 0..Last]
      /\ \A u \in Threads \ {t} : pc'[u] = pc[u] /\ target'[u] = target[u]
  <2>1. lsn_clock \in 0..Last /\ 0 \in 0..Last
    BY WalWriterAssumption DEF TypeOK, FIRST, Last
  <2>2. \E p \in {"idle", "flushing", "ok", "err"} : pc' = [pc EXCEPT ![t] = p]
    BY DEF carry_on, commit, flush, flush_to, flush_to_wakes, return, request_and_wait, Goto
  <2>3. target' = target \/ \E lsn \in 0..Last : target' = [target EXCEPT ![t] = lsn]
    BY <2>1 DEF carry_on, commit, flush, flush_to, flush_to_wakes, return, TypeOK
  <2> QED
    BY <2>2, <2>3 DEF TypeOK
<1>5. /\ pc'[t] \in {"appended", "flushing"} => Prefix(target'[t]) \subseteq written
      /\ pc'[t] = "ok" => Prefix(target'[t]) \subseteq fsynced
  <2>1. CASE carry_on(t) \/ return(t)
    BY <2>1 DEF carry_on, return, Goto, TypeOK
  <2>2. ASSUME NEW lsn \in 0..Last, Prefix(lsn) \subseteq written, synced_lsn >= lsn
        PROVE  Prefix(lsn) \subseteq fsynced
    BY <2>2 DEF Prefix, Promises, TypeOK, FIRST
  <2>3. CASE commit(t) \/ flush(t)
    <3>1. PICK lsn \in 0..Last : /\ flush_to(t, lsn)
                                 /\ ~last_error => Prefix(lsn) \subseteq written
      BY <2>3, WalWriterAssumption DEF commit, flush, TypeOK, Promises, LogShape, FIRST, Last
    <3>2. target'[t] = lsn
      BY <3>1 DEF flush_to, TypeOK
    <3>3. CASE last_error
      BY <3>1, <3>3 DEF flush_to, Goto, TypeOK
    <3>4. CASE ~last_error /\ synced_lsn >= lsn
      BY <2>2, <3>1, <3>2, <3>4 DEF flush_to, Goto, TypeOK
    <3>5. CASE ~last_error /\ ~ (synced_lsn >= lsn)
      BY <3>1, <3>2, <3>5 DEF flush_to, request_and_wait, Goto, TypeOK
    <3> QED
      BY <3>3, <3>4, <3>5
  <2>4. CASE flush_to_wakes(t)
    <3>1. /\ pc[t] = "flushing" /\ target'[t] = target[t] /\ target[t] \in 0..Last
          /\ Prefix(target[t]) \subseteq written
      BY <2>4 DEF flush_to_wakes, Promises, TypeOK
    <3>2. CASE synced_lsn >= target[t]
      BY <2>2, <3>1, <3>2
    <3>3. CASE ~ (synced_lsn >= target[t])
      <4>1. pc'[t] # "ok"
        BY <2>4, <3>1, <3>3 DEF flush_to_wakes, request_and_wait, Goto, TypeOK
      <4> QED
        BY <3>1, <4>1
    <3> QED
      BY <3>2, <3>3
  <2> QED
    BY <2>1, <2>3, <2>4
<1>6. TypeOK'
  BY <1>1, <1>2, <1>3, <1>4 DEF TypeOK
<1>7. Stopping' /\ LogShape' /\ Wave' /\ Synced'
  BY <1>1 DEF Stopping, LogShape, Wave, Synced
<1>8. Promises'
  BY <1>1, <1>4, <1>5 DEF Promises
<1> QED
  BY <1>6, <1>7, <1>8

(* The worker, except for the step that publishes.                         *)
LEMMA WorkerIInv ==
  ASSUME IInv,
         \/ worker_sleeps \/ worker_timeout \/ worker_stops \/ worker_captures
         \/ worker_dup_fails \/ worker_syncs \/ worker_sync_fails
  PROVE  IInv'
<1> USE DEF IInv
<1>1. CASE worker_sleeps \/ worker_timeout
  <2>1. /\ sleeping' \subseteq Threads \union {Worker}
        /\ UNCHANGED <<state, disk, threads, worker, cover, dropped>>
    BY <1>1 DEF worker_sleeps, worker_timeout, TypeOK
  <2> QED
    BY <2>1 DEF TypeOK, Stopping, LogShape, Wave, Synced, Promises, state, disk, threads
<1>2. CASE worker_stops
  BY <1>2 DEF worker_stops, TypeOK, Stopping, LogShape, Wave, Synced, Promises, state, disk,
              threads
<1>3. CASE worker_captures
  <2>1. /\ cover' = [lsn |-> lsn_clock, segment |-> current_segment_id, pending |-> pending]
        /\ worker' = "syncing" /\ UNCHANGED <<state, disk, sleeping, threads, dropped>>
    BY <1>3 DEF worker_captures
  <2>2. TypeOK'
    BY <2>1 DEF TypeOK, state, disk, threads, FIRST
  <2>3. Wave'
    BY <2>1 DEF Wave, LogShape, TypeOK, state, disk, FIRST
  <2>4. Stopping' /\ LogShape' /\ Synced' /\ Promises'
    BY <2>1 DEF Stopping, LogShape, Synced, Promises, state, disk, threads
  <2> QED
    BY <2>2, <2>3, <2>4
<1>4. CASE worker_dup_fails \/ worker_sync_fails
  <2>1. give_up
    BY <1>4 DEF worker_dup_fails, worker_sync_fails
  <2> QED
    BY <2>1 DEF give_up, TypeOK, Stopping, LogShape, Wave, Synced, Promises, disk, threads
<1>5. CASE worker_syncs
  <2>1. /\ worker = "syncing" /\ worker' = "synced"
        /\ fsynced' = fsynced \union {b \in written : Segment(b) = cover.segment}
        /\ UNCHANGED <<state, written, sleeping, threads, cover, dropped>>
    BY <1>5 DEF worker_syncs
  <2>2. TypeOK'
    BY <2>1 DEF TypeOK, state, threads
  <2>3. Stopping' /\ LogShape' /\ Wave' /\ Synced'
    BY <2>1 DEF Stopping, LogShape, Wave, Synced, state
  <2>4. Promises'
    BY <2>1 DEF Promises, state, threads
  <2> QED
    BY <2>2, <2>3, <2>4
<1> QED
  BY <1>1, <1>2, <1>3, <1>4, <1>5

(* What the wave publishes is durable: either the log is still in the       *)
(* segment the wave fsynced, and no byte below cover.lsn lies after it; or  *)
(* it has rotated, and the rotation fsynced the rest of that segment.       *)
LEMMA PublishedIsDurable ==
  ASSUME IInv, worker = "synced"
  PROVE  /\ Durable \in 0..lsn_clock
         /\ \A b \in written : b < Durable => b \in fsynced
<1> USE DEF IInv
<1>1. /\ cover.lsn \in Nat /\ cover.lsn <= lsn_clock /\ lsn_clock \in Nat
      /\ cover.segment \in Nat /\ current_segment_id \in Nat
      /\ cover.segment <= current_segment_id /\ current_segment_id <= Segment(lsn_clock)
  BY DEF Wave, TypeOK, LogShape, FIRST
<1>2. CASE current_segment_id = cover.segment
  <2>1. Durable = cover.lsn
    BY <1>2 DEF Durable
  <2>2. ASSUME NEW b \in written, b < cover.lsn PROVE b \in fsynced
    <3>1. b \in Nat /\ Segment(b) \in Nat /\ Segment(b) <= cover.segment
      BY <2>2, SegmentStart DEF Wave, TypeOK, Lsns, FIRST
    <3>2. CASE Segment(b) = cover.segment
      BY <2>2, <3>2 DEF Synced
    <3>3. CASE Segment(b) < cover.segment
      BY <1>2, <3>3 DEF LogShape
    <3> QED
      BY <1>1, <3>1, <3>2, <3>3
  <2> QED
    BY <1>1, <2>1, <2>2
<1>3. CASE current_segment_id # cover.segment
  <2> DEFINE s == cover.segment
  <2>1. Durable = (s + 1) * SegmentSize /\ s + 1 \in Nat /\ s + 1 <= current_segment_id
    BY <1>1, <1>3 DEF Durable
  <2>2. (s + 1) <= Segment(lsn_clock) /\ Segment(lsn_clock) \in Nat
    BY <1>1, <2>1, SegmentStart
  <2>3. (s + 1) * SegmentSize <= lsn_clock /\ (s + 1) * SegmentSize \in Nat
    BY <1>1, <2>1, <2>2, SegmentStart, WalWriterAssumption
  <2>4. ASSUME NEW b \in written, b < (s + 1) * SegmentSize PROVE b \in fsynced
    <3>1. b \in Nat /\ Segment(b) \in Nat /\ Segment(b) <= s
      BY <1>1, <2>4, SegmentEnd, SegmentStart DEF TypeOK, Lsns, FIRST
    <3>2. Segment(b) < current_segment_id
      BY <1>1, <2>1, <3>1
    <3> QED
      BY <3>2 DEF LogShape
  <2> QED
    BY <1>1, <2>1, <2>3, <2>4
<1> QED
  BY <1>2, <1>3

LEMMA PublishIInv ==
  ASSUME IInv, worker_publishes
  PROVE  IInv'
<1> USE DEF IInv
<1>1. /\ worker = "synced" /\ worker' = "run" /\ last_error' = last_error
      /\ pending' = pending - cover.pending /\ flush_requested' = FALSE /\ sleeping' = {}
      /\ synced_lsn' = IF Durable > synced_lsn THEN Durable ELSE synced_lsn
      /\ UNCHANGED <<lsn_clock, current_segment_id, shutdown, disk, threads, cover, dropped>>
  BY DEF worker_publishes, Stopping, TypeOK
<1>2. /\ Durable \in 0..lsn_clock
      /\ \A b \in written : b < Durable => b \in fsynced
  BY <1>1, PublishedIsDurable
<1>3. synced_lsn' \in 0..lsn_clock /\ synced_lsn' \in 0..(Last + SegmentSize)
  BY <1>1, <1>2, WalWriterAssumption DEF TypeOK, LogShape, Last, FIRST
<1>4. cover.pending \in Nat /\ cover.pending <= pending /\ pending \in Nat
  BY <1>1 DEF TypeOK, Wave
<1>5. pending' \in 0..MaxLsn /\ pending' < lsn_clock
  BY <1>1, <1>4, WalWriterAssumption DEF TypeOK, LogShape, FIRST
<1>6. TypeOK'
  BY <1>1, <1>3, <1>5 DEF TypeOK, disk, threads
<1>7. Stopping' /\ Wave' /\ Synced'
  BY <1>1 DEF Stopping, Wave, Synced
<1>8. LogShape'
  BY <1>1, <1>3, <1>5 DEF LogShape, disk
<1>9. Promises'
  <2>1. \A b \in written : b < synced_lsn' => b \in fsynced
    BY <1>1, <1>2 DEF Promises
  <2>2. ASSUME pending' = 0, ~last_error PROVE written \subseteq fsynced
    <3>1. cover.lsn = lsn_clock /\ cover.segment = current_segment_id
      BY <1>1, <1>4, <2>2 DEF Wave
    <3>2. Durable = lsn_clock
      BY <3>1 DEF Durable
    <3> QED
      BY <1>2, <3>2 DEF LogShape, Prefix, TypeOK, FIRST
  <2> QED
    BY <1>1, <2>1, <2>2 DEF Promises, disk, threads
<1> QED
  BY <1>6, <1>7, <1>8, <1>9

LEMMA DropIInv ==
  ASSUME IInv, drop
  PROVE  IInv'
<1>1. sleeping' \subseteq sleeping
  BY NotifyShrinks DEF drop
<1> QED
  BY <1>1 DEF IInv, drop, TypeOK, Stopping, LogShape, Wave, Synced, Promises, disk, threads

LEMMA NextIInv == IInv /\ [Next]_vars => IInv'
<1> SUFFICES ASSUME IInv, [Next]_vars PROVE IInv'
  OBVIOUS
<1>1. CASE UNCHANGED vars
  BY <1>1 DEF vars, state, disk, threads, IInv, TypeOK, Stopping, LogShape, Wave, Synced,
              Promises
<1>2. CASE worker_step
  BY <1>2, WorkerIInv, PublishIInv DEF worker_step
<1>3. ASSUME NEW t \in Threads,
             \/ \E n \in Sizes : append(t, n) \/ append_fails(t, n)
             \/ carry_on(t) \/ commit(t) \/ flush(t) \/ thread_step(t)
      PROVE  IInv'
  BY <1>3, AppendIInv, ThreadIInv DEF thread_step
<1>4. CASE drop
  BY <1>4, DropIInv
<1>5. CASE joined
  BY <1>1, <1>5 DEF joined
<1> QED
  BY <1>1, <1>2, <1>3, <1>4, <1>5 DEF Next

----------------------------------------------------------------------------

(* Whoever flush_to tells that a record is durable is told the truth, for   *)
(* any number of threads, any sizes of records and segments, and whatever   *)
(* rotates or fails while a wave is fsyncing; synced_lsn never covers a     *)
(* byte that is not durable; and a writer dropped without an error leaves   *)
(* every byte it wrote durable.                                             *)
THEOREM DurabilityHolds == Spec => []DurabilityIsTrue
<1>1. IInv => DurabilityIsTrue
  <2> SUFFICES ASSUME IInv PROVE DurabilityIsTrue
    OBVIOUS
  <2>1. ~last_error => Prefix(synced_lsn) \cap Prefix(lsn_clock) \subseteq fsynced
    BY DEF IInv, TypeOK, LogShape, Promises, Prefix, FIRST
  <2>2. PromisedIsDurable /\ DropIsDurable
    BY <2>1 DEF IInv, Promises, PromisedIsDurable, DropIsDurable
  <2> QED
    BY <2>2 DEF IInv, DurabilityIsTrue
<1> QED
  BY InitIInv, NextIInv, <1>1, PTL DEF Spec
=============================================================================
