------------------------ MODULE TupleRecoveryProofs ------------------------
(***************************************************************************)
(* What recovery restores of a transaction: every tuple of a committed one *)
(* is on its page, except on a page that a checkpoint met in flight.       *)
(***************************************************************************)
EXTENDS CrashRecoveryProofs

\* The log, up to n, has x's tuple on p.
Wrote(log, x, p, n) ==
    \E i \in 1..n : log[i].t = "insert" /\ log[i].page = p /\ log[i].xid = x

\* A transaction's tuples are in the log before its commit record, and in the durable
\* log once its commit shows.
Writes ==
    \A x \in Xids : \A p \in wrote[x] :
        /\ up /\ txn[x] # "ended" => Wrote(wal, x, p, Len(wal))
        /\ clog[x] = "Committed" => Wrote(wal, x, p, synced)
        /\ \A j \in 1..Len(wal) : wal[j].t = "commit" /\ wal[j].xid = x => Wrote(wal, x, p, j)

----------------------------------------------------------------------------
(* What was written stays in the log.                                      *)

LEMMA WroteKept ==
  ASSUME Typed, Log, Pool, Typed', Next, NEW x, NEW p, NEW m \in Nat, NEW n \in Nat,
         m <= n, m <= Len(wal), m <= Len(wal'), Wrote(wal, x, p, m)
  PROVE  Wrote(wal', x, p, n)
<1>1. Len(wal) \in Nat /\ Len(wal') \in Nat
  BY Numbers, NumbersNext, Zenon
<1>2. \A i \in 1..m : i \in 1..n /\ wal'[i] = wal[i]
  BY <1>1, LogSteps
<1> QED
  BY <1>2, Zenon DEF Wrote

LEMMA WroteUpTo ==
  ASSUME NEW log, NEW x, NEW p, NEW m \in Nat, NEW n \in Nat, m <= n, Wrote(log, x, p, m)
  PROVE  Wrote(log, x, p, n)
BY DEF Wrote

(* Only an insert adds to what a transaction wrote, and one that has ended  *)
(* stays ended as long as the process runs.                                 *)
LEMMA WroteSteps ==
  ASSUME Typed, Clock, Next, NEW x \in Xids
  PROVE  /\ \A p \in wrote'[x] : p \in wrote[x] \/ (log_insert(x) /\ p = Pinned(x))
         /\ up /\ up' /\ txn[x] = "ended" => txn'[x] = "ended"
         /\ recover /\ txn'[x] # "ended" => wrote'[x] = {}
<1> TypeOK
  BY Zenon DEF Typed
<1>1. CASE Transaction
  <2>0. ASSUME NEW y \in Xids, NEW pc, txn[y] # "ended", txn' = [txn EXCEPT ![y] = pc],
               txn[x] = "ended"
        PROVE  txn'[x] = "ended"
    BY <2>0, Zenon DEF TypeOK
  <2>1. CASE begin
    <3>1. txn[next_txn_id] = "none" /\ next_txn_id \in Xids /\ UNCHANGED wrote
      BY <2>1, Numbers DEF begin, Clock
    <3> QED
      BY <2>1, <3>1, Zenon DEF begin, TypeOK, recover
  <2>2. ASSUME NEW y \in Xids, NEW p \in Pages, pin_mut(y, p)
        PROVE  UNCHANGED wrote /\ (txn[x] = "ended" => txn'[x] = "ended") /\ up
    BY <2>0, <2>2, Zenon DEF pin_mut
  <2>3. ASSUME NEW y \in Xids, log_insert(y)
        PROVE  /\ \A p \in wrote'[x] : p \in wrote[x] \/ (x = y /\ p = Pinned(x))
               /\ txn[x] = "ended" => txn'[x] = "ended"
               /\ up
    BY <2>0, <2>3, Zenon DEF log_insert, TypeOK
  <2>4. ASSUME NEW y \in Xids, place_tuple(y)
        PROVE  UNCHANGED wrote /\ (txn[x] = "ended" => txn'[x] = "ended") /\ up
    BY <2>0, <2>4, Zenon DEF place_tuple
  <2>5. ASSUME NEW y \in Xids, NEW kind \in Ending, append_end(y, kind)
        PROVE  UNCHANGED wrote /\ (txn[x] = "ended" => txn'[x] = "ended") /\ up
    BY <2>0, <2>5, Zenon DEF append_end
  <2>6. ASSUME NEW y \in Xids, NEW kind \in Ending, flush_end(y, kind)
        PROVE  UNCHANGED wrote /\ (txn[x] = "ended" => txn'[x] = "ended") /\ up
    <3>1. kind # "ended"
      BY Zenon DEF Ending
    <3>2. \A z \in Xids : z # y => txn'[z] = txn[z]
      BY <2>6, Zenon DEF flush_end, TypeOK
    <3> QED
      BY <2>6, <3>1, <3>2, Zenon DEF flush_end
  <2>7. ASSUME NEW y \in Xids, NEW state \in {"Committed", "Aborted"}, end_txn(y, state)
        PROVE  UNCHANGED wrote /\ (txn[x] = "ended" => txn'[x] = "ended") /\ up
    BY <2>7, Zenon DEF end_txn, TypeOK
  <2> QED
    BY <1>1, <2>1, <2>2, <2>3, <2>4, <2>5, <2>6, <2>7, Zenon DEF Transaction, Ending, recover
<1>2. CASE Flush \/ clog_evict
  BY <1>2, Zenon DEF Flush, FlushClaim, FlushWrite, FlushSync, FlushFail, clog_evict, txnVars, recover
<1>3. CASE Checkpoint
  BY <1>3, Zenon DEF Checkpoint, ck_begin, ck_publish, ck_snapshot, ck_collect, ck_skip, ck_clog, ck_end,
              ck_sync, ck_superblock, ck_recycle, ck_fail, txnVars, recover, At
<1>4. CASE crash \/ crash_in_recovery
  BY <1>4, Zenon DEF crash, crash_in_recovery, Down, recover
<1>5. CASE recover
  BY <1>5, Zenon DEF recover
<1> QED
  BY <1>1, <1>2, <1>3, <1>4, <1>5, Zenon DEF Next

LEMMA NextWrites ==
  ASSUME IInv, Writes, IInv', Next
  PROVE  Writes'
<1> Typed /\ Log /\ Clock /\ Pool /\ Downtime /\ Traces /\ Fates
  BY Zenon DEF IInv
<1> Typed' /\ Log' /\ Clock' /\ Pool' /\ Downtime' /\ Traces' /\ Fates'
  BY Zenon DEF IInv
<1> TypeOK
  BY Zenon DEF Typed
<1> TypeOK'
  BY Zenon DEF Typed
<1>0. /\ Len(wal) \in Nat /\ synced \in Nat /\ synced <= Len(wal)
      /\ Len(wal') \in Nat /\ synced' \in Nat /\ synced' <= Len(wal')
      /\ synced <= synced' /\ (~crash => Len(wal) <= Len(wal'))
  BY Numbers, NumbersNext, LogSteps, Zenon
<1>1. SUFFICES ASSUME NEW x \in Xids, NEW p \in wrote'[x]
               PROVE  /\ up' /\ txn'[x] # "ended" => Wrote(wal', x, p, Len(wal'))
                      /\ clog'[x] = "Committed" => Wrote(wal', x, p, synced')
                      /\ \A j \in 1..Len(wal') :
                           wal'[j].t = "commit" /\ wal'[j].xid = x => Wrote(wal', x, p, j)
  BY Zenon DEF Writes
<1>2. FateOfTxn(x) /\ FateOfTxn(x)'
  BY Zenon DEF Fates
<1>3. CASE log_insert(x) /\ p = Pinned(x)
  <2>1. /\ up /\ up' /\ txn[x] = "pinned" /\ UNCHANGED clog
        /\ Len(wal') = Len(wal) + 1 /\ wal'[Len(wal) + 1] = Rec("insert", Pinned(x), x, <<>>)
    BY <1>3, AppendWal, InsertFormed, Zenon DEF log_insert, clogVars
  <2>2. Wrote(wal', x, p, Len(wal'))
    <3>1. Len(wal') \in 1..Len(wal')
      BY <1>0, <2>1
    <3> QED
      BY <1>3, <2>1, <3>1 DEF Wrote, Rec
  <2>3. clog'[x] # "Committed"
    BY <1>2, <2>1, Zenon DEF FateOfTxn
  <2>4. ASSUME NEW j \in 1..Len(wal'), wal'[j].t = "commit", wal'[j].xid = x PROVE FALSE
    <3>1. FateOf(j)'
      BY <2>4, Zenon DEF Fates, Ending
    <3>2. txn'[x] = "logged"
      BY <1>3 DEF log_insert, TypeOK
    <3> QED
      BY <2>1, <2>4, <3>1, <3>2, Zenon DEF FateOf, Committing
  <2> QED
    BY <2>2, <2>3, <2>4, Zenon
<1>4. CASE p \in wrote[x]
  <2>1. /\ up /\ txn[x] # "ended" => Wrote(wal, x, p, Len(wal))
        /\ clog[x] = "Committed" => Wrote(wal, x, p, synced)
        /\ \A j \in 1..Len(wal) : wal[j].t = "commit" /\ wal[j].xid = x => Wrote(wal, x, p, j)
    BY <1>4, Zenon DEF Writes
  <2>2. ASSUME up', txn'[x] # "ended" PROVE Wrote(wal', x, p, Len(wal'))
    <3>1. ~recover /\ up /\ txn[x] # "ended"
      BY <1>1, <2>2, WroteSteps, UpSteps, Zenon
    <3>2. ~crash
      BY <2>2, Zenon DEF crash, Down
    <3> QED
      BY <1>0, <2>1, <3>1, <3>2, WroteKept
  <2>3. Wrote(wal, x, p, synced) => Wrote(wal', x, p, synced')
    BY <1>0, WroteKept
  <2>4. ASSUME NEW j \in 1..synced, wal[j].t = "commit", wal[j].xid = x
        PROVE  Wrote(wal, x, p, synced)
    <3>1. j \in 1..Len(wal) /\ j \in Nat /\ j <= synced
      BY <1>0, <2>4
    <3> QED
      BY <1>0, <2>1, <2>4, <3>1, WroteUpTo, Zenon
  <2>5. ASSUME clog'[x] = "Committed" PROVE Wrote(wal, x, p, synced)
    <3>1. CASE clog[x] = "Committed"
      BY <2>1, <3>1, Zenon
    <3>2. clog_cache[x] = "Committed" \/ clog_file[x] = "Committed" => clog[x] = "Committed"
      BY <1>2, Zenon DEF FateOfTxn
    <3>3. ASSUME NEW y \in Xids, NEW state \in {"Committed", "Aborted"}, end_txn(y, state),
                 clog[x] # "Committed"
          PROVE  Wrote(wal, x, p, synced)
      <4>1. y = x /\ state = "Committed" /\ txn[x] = "commit_synced"
        BY <2>5, <3>3 DEF end_txn, TypeOK
      <4>2. PICK j \in 1..Len(wal) : wal[j].t = "commit" /\ wal[j].xid = x /\ j <= synced
        BY <1>2, <4>1, Zenon DEF FateOfTxn
      <4> QED
        BY <1>0, <2>4, <4>2
    <3>4. CASE recover \/ crash_in_recovery
      <4>1. clog'[x] = RecoveredClog[x] \/ clog'[x] = clog_file[x]
        <5>1. CASE recover
          BY <5>1, Zenon DEF recover
        <5>2. CASE crash_in_recovery
          BY <5>2, ClogsAfter DEF crash_in_recovery, Down
        <5> QED
          BY <3>4, <5>1, <5>2, Zenon
      <4>2. synced = Len(wal)
        BY <3>4, Zenon DEF Downtime, recover, crash_in_recovery
      <4>3. RecoveredClog[x] = "Committed" =>
              \/ clog_file[x] = "Committed"
              \/ \E j \in Replayed : wal[j].t = "commit" /\ wal[j].xid = x
        BY RecoveredOutcomes, Zenon DEF Traces
      <4>4. \A j \in Replayed : j \in 1..synced
        BY <4>2, Numbers DEF Replayed
      <4> QED
        BY <2>4, <2>5, <3>1, <3>2, <4>1, <4>3, <4>4, Zenon
    <3>5. CASE crash
      <4>1. clog'[x] = clog_cache[x] \/ clog'[x] = clog_file[x]
        BY <3>5, ClogsAfter DEF crash, Down
      <4> QED
        BY <2>5, <3>1, <3>2, <4>1, Zenon
    <3>6. CASE clog_evict \/ ck_clog
      BY <2>5, <3>1, <3>6, Zenon DEF clog_evict, ck_clog
    <3> QED
      BY <2>5, <3>1, <3>3, <3>4, <3>5, <3>6, OutcomeSteps, Zenon
  <2>6. ASSUME NEW j \in 1..Len(wal'), wal'[j].t = "commit", wal'[j].xid = x
        PROVE  Wrote(wal', x, p, j)
    <3>1. CASE j \in 1..Len(wal) /\ wal'[j] = wal[j]
      <4>1. Wrote(wal, x, p, j) /\ j \in Nat /\ j <= Len(wal) /\ j <= Len(wal')
        BY <1>0, <2>1, <2>6, <3>1
      <4> QED
        BY <4>1, WroteKept
    <3>2. CASE j = Len(wal) + 1 /\ Len(wal') > Len(wal)
      <4>1. append_end(x, "commit")
        BY <2>6, <3>2, NewRecords, Zenon DEF Ending
      <4>2. up /\ txn[x] = "active"
        BY <4>1, Zenon DEF append_end
      <4>3. Len(wal) <= j /\ Len(wal) <= Len(wal') /\ j \in Nat
        BY <1>0, <3>2
      <4> QED
        BY <1>0, <2>1, <4>2, <4>3, WroteKept
    <3> QED
      BY <3>1, <3>2, OldOrNew, Zenon
  <2> QED
    BY <2>2, <2>3, <2>5, <2>6, Zenon
<1> QED
  BY <1>1, <1>3, <1>4, WroteSteps, Zenon

----------------------------------------------------------------------------
(* What a step may do to one page while the process runs.                  *)

Untouched(p) ==
    /\ mem'[p] = mem[p] /\ page_cache'[p] = page_cache[p] /\ data_file'[p] = data_file[p]
    /\ latch'[p] = latch[p] /\ dirty'[p] = dirty[p] /\ flusher'[p] = flusher[p]
    /\ written'[p] = written[p] /\ needs_fpi'[p] = needs_fpi[p]

\* The page is latched, and its image logged if one is due.
Latched(x, p) ==
    /\ mem[p] # Torn /\ txn[x] = "active" /\ latch[p] = 0 /\ latch'[p] = x /\ dirty'[p]
    /\ page_cache'[p] = page_cache[p] /\ data_file'[p] = data_file[p]
    /\ flusher'[p] = flusher[p] /\ written'[p] = written[p] /\ needs_fpi'[p] = needs_fpi[p]
    /\ \/ /\ FpiDue(p) /\ Len(wal') = Len(wal) + 1
          /\ wal'[Len(wal) + 1] = Rec("fpi", p, 0, mem[p])
          /\ mem'[p] = [lsn |-> Len(wal) + 1, tuples |-> mem[p].tuples]
       \/ ~FpiDue(p) /\ wal' = wal /\ mem'[p] = mem[p]

Placed(x, p) ==
    /\ mem[p] # Torn /\ txn[x] = "logged" /\ latch[p] = x /\ latch'[p] = 0 /\ dirty'[p]
    /\ page_cache'[p] = page_cache[p] /\ data_file'[p] = data_file[p]
    /\ flusher'[p] = flusher[p] /\ written'[p] = written[p] /\ needs_fpi'[p] = needs_fpi[p]
    /\ p = Pinned(x) /\ wal' = wal
    /\ mem'[p] = [lsn |-> Max({mem[p].lsn, LastOf(x)}), tuples |-> mem[p].tuples \union {x}]

Claimed(t, p) ==
    /\ flusher[p] = None /\ dirty[p] /\ flusher'[p] = t /\ t # None /\ ~dirty'[p]
    /\ t = Checkpointer => ck.pc = "flush" /\ p \in ck.todo
    /\ mem'[p] = mem[p] /\ page_cache'[p] = page_cache[p] /\ data_file'[p] = data_file[p]
    /\ latch'[p] = latch[p] /\ written'[p] = written[p] /\ needs_fpi'[p] = needs_fpi[p]

Written(p) ==
    /\ flusher[p] # None /\ ~written[p] /\ latch[p] = 0 /\ mem[p] # Torn
    /\ page_cache'[p] = mem[p] /\ needs_fpi'[p] /\ written'[p]
    /\ mem'[p] = mem[p] /\ data_file'[p] = data_file[p] /\ latch'[p] = latch[p]
    /\ dirty'[p] = dirty[p] /\ flusher'[p] = flusher[p]

\* The data file is fsynced for the flush of q.
Synced(q, p) ==
    /\ data_file'[p] = page_cache[p] /\ page_cache'[p] = page_cache[p] /\ mem'[p] = mem[p]
    /\ latch'[p] = latch[p] /\ dirty'[p] = dirty[p] /\ needs_fpi'[p] = needs_fpi[p]
    /\ \/ q # p /\ flusher'[p] = flusher[p] /\ written'[p] = written[p]
       \/ q = p /\ flusher[p] # None /\ written[p] /\ flusher'[p] = None /\ ~written'[p]

Failed(p) ==
    /\ flusher[p] # None /\ flusher'[p] = None /\ dirty'[p] /\ ~written'[p]
    /\ mem'[p] = mem[p] /\ page_cache'[p] = page_cache[p] /\ data_file'[p] = data_file[p]
    /\ latch'[p] = latch[p] /\ needs_fpi'[p] = needs_fpi[p]

LEMMA PageSteps ==
  ASSUME Typed, Pool, Next, up, up', NEW p \in Pages
  PROVE  \/ Untouched(p)
         \/ \E x \in Xids : pin_mut(x, p) /\ Latched(x, p)
         \/ \E x \in Xids : place_tuple(x) /\ Placed(x, p)
         \/ \E t \in Threads : FlushClaim(t, p) /\ Claimed(t, p)
         \/ FlushWrite(p) /\ Written(p)
         \/ \E q \in Pages : FlushSync(q) /\ Synced(q, p)
         \/ FlushFail(p) /\ Failed(p)
<1> TypeOK
  BY Zenon DEF Typed
<1>1. CASE Transaction
  <2>1. CASE begin \/ (\E x \in Xids : log_insert(x))
                   \/ (\E x \in Xids, kind \in Ending : append_end(x, kind) \/ flush_end(x, kind))
                   \/ (\E x \in Xids, state \in {"Committed", "Aborted"} : end_txn(x, state))
    <3>1. UNCHANGED <<poolVars, fileVars>>
      BY <2>1, Zenon DEF begin, log_insert, append_end, flush_end, end_txn
    <3> QED
      BY <3>1, Zenon DEF Untouched, poolVars, fileVars
  <2>2. ASSUME NEW x \in Xids, NEW q \in Pages, pin_mut(x, q)
        PROVE  Untouched(p) \/ (q = p /\ Latched(x, p))
    <3>1. /\ latch'[p] = (IF p = q THEN x ELSE latch[p])
          /\ dirty'[p] = (IF p = q THEN TRUE ELSE dirty[p])
          /\ UNCHANGED <<page_cache, data_file, flusher, written, needs_fpi>>
      BY <2>2, Zenon DEF pin_mut, TypeOK, fileVars
    <3>2. mem[q] # Torn /\ mem[q] \in [lsn : 0..MaxLsn, tuples : SUBSET Xids]
      BY <2>2, ImageLsns, Zenon DEF pin_mut
    <3>3. CASE FpiDue(q)
      <4>1. /\ wal' = Append(wal, Rec("fpi", q, 0, mem[q]))
            /\ mem' = [mem EXCEPT ![q].lsn = Len(wal')]
        BY <2>2, <3>3, Zenon DEF pin_mut
      <4>2. Len(wal') = Len(wal) + 1 /\ wal'[Len(wal) + 1] = Rec("fpi", q, 0, mem[q])
        BY <3>2, <4>1, AppendWal, ImageFormed, Zenon
      <4>3. mem'[p] = IF p = q THEN [mem[q] EXCEPT !.lsn = Len(wal')] ELSE mem[p]
        BY <4>1, Zenon DEF TypeOK
      <4>4. [mem[q] EXCEPT !.lsn = Len(wal')] = [lsn |-> Len(wal) + 1, tuples |-> mem[q].tuples]
        BY <3>2, <4>2
      <4> QED
        BY <2>2, <3>1, <3>2, <3>3, <4>2, <4>3, <4>4, Zenon DEF Untouched, Latched, pin_mut
    <3>4. CASE ~FpiDue(q)
      BY <2>2, <3>1, <3>2, <3>4, Zenon DEF Untouched, Latched, pin_mut
    <3> QED
      BY <3>3, <3>4, Zenon
  <2>3. ASSUME NEW x \in Xids, place_tuple(x)
        PROVE  Untouched(p) \/ Placed(x, p)
    <3>1. Pinned(x) \in Pages /\ latch[Pinned(x)] = x /\ txn[x] = "logged"
      BY <2>3, PinnedPage, Zenon DEF place_tuple
    <3>2. mem[Pinned(x)] # Torn
      BY <3>1, Holders DEF Pool, Latches
    <3>3. /\ latch'[p] = (IF p = Pinned(x) THEN 0 ELSE latch[p])
          /\ dirty'[p] = (IF p = Pinned(x) THEN TRUE ELSE dirty[p])
          /\ UNCHANGED <<wal, page_cache, data_file, flusher, written, needs_fpi>>
      BY <2>3, <3>1, Zenon DEF place_tuple, TypeOK, fileVars, walVars
    <3>4. mem'[p] = IF p = Pinned(x)
                    THEN [lsn |-> Max({mem[p].lsn, LastOf(x)}), tuples |-> mem[p].tuples \union {x}]
                    ELSE mem[p]
      BY <2>3, <3>1, Zenon DEF place_tuple, TypeOK
    <3> QED
      BY <3>1, <3>2, <3>3, <3>4, Zenon DEF Untouched, Placed
  <2> QED
    BY <1>1, <2>1, <2>2, <2>3, Zenon DEF Transaction, Ending
<1>2. CASE Flush
  <2>1. ASSUME NEW q \in Pages, NEW t \in Threads, FlushClaim(t, q)
        PROVE  Untouched(p) \/ (q = p /\ Claimed(t, p))
    <3>1. t # None
      BY CrashRecoveryAssumption, Zenon DEF Threads, None
    <3> QED
      BY <2>1, <3>1, Zenon DEF FlushClaim, TypeOK, Untouched, Claimed, fileVars, MayFlush
  <2>2. ASSUME NEW q \in Pages, FlushWrite(q)
        PROVE  Untouched(p) \/ (q = p /\ Written(p))
    <3>1. mem[q] # Torn
      BY <2>2, Zenon DEF Pool, Latches, FlushWrite
    <3> QED
      BY <2>2, <3>1, Zenon DEF FlushWrite, TypeOK, Untouched, Written
  <2>3. ASSUME NEW q \in Pages, FlushSync(q)
        PROVE  Synced(q, p)
    BY <2>3, Zenon DEF FlushSync, TypeOK, Synced
  <2>4. ASSUME NEW q \in Pages, FlushFail(q)
        PROVE  Untouched(p) \/ (q = p /\ Failed(p))
    BY <2>4, Zenon DEF FlushFail, TypeOK, Untouched, Failed, fileVars
  <2> QED
    BY <1>2, <2>1, <2>2, <2>3, <2>4, Zenon DEF Flush
<1>3. CASE clog_evict \/ Checkpoint
  <2>1. UNCHANGED <<mem, latch, dirty, needs_fpi, flusher, written, page_cache, data_file>>
    BY <1>3, Zenon DEF clog_evict, Checkpoint, ck_begin, ck_publish, ck_snapshot, ck_collect, ck_skip,
                ck_clog, ck_end, ck_sync, ck_superblock, ck_recycle, ck_fail, poolVars, fileVars
  <2> QED
    BY <2>1, Zenon DEF Untouched
<1>4. CASE crash \/ crash_in_recovery \/ recover
  BY <1>4, Zenon DEF crash, crash_in_recovery, recover, Down
<1> QED
  BY <1>1, <1>2, <1>3, <1>4, Zenon DEF Next

----------------------------------------------------------------------------
(* Clean pages.                                                            *)

\* The image a holds no more than b.
Below(a, b) == a.lsn <= b.lsn /\ a.tuples \subseteq b.tuples

\* A page that is neither dirty nor being flushed is on disk as it is in memory, nobody
\* writes it, and its next modification is the first since it was written.  While a page
\* is not torn, what is on disk is behind what is in memory.
CleanPage(p) ==
    /\ written[p] => flusher[p] # None /\ needs_fpi[p]
    /\ up /\ ~dirty[p] /\ flusher[p] = None =>
         /\ mem[p] = page_cache[p] /\ page_cache[p] = data_file[p]
         /\ latch[p] = 0 /\ needs_fpi[p]
    /\ up /\ ~dirty[p] /\ written[p] => mem[p] = page_cache[p] /\ latch[p] = 0
    /\ up /\ (mem[p] = Torn \/ page_cache[p] = Torn \/ data_file[p] = Torn) =>
         mem[p] = Torn /\ page_cache[p] = Torn /\ data_file[p] = Torn
    /\ up /\ mem[p] # Torn => Below(data_file[p], page_cache[p]) /\ Below(page_cache[p], mem[p])

\* A checkpoint saves the CLOG when it is done with every page; a page it is done with
\* needs an image at its next modification.
CkPages ==
    /\ ck.pc \in ClogSaved => ck.todo = {}
    /\ ck.pc \in Collected => \A p \in Pages \ (ck.todo \union inflight) : needs_fpi[p]

Clean == (\A p \in Pages : CleanPage(p)) /\ CkPages

LEMMA NextCleanPage ==
  ASSUME IInv, Next, IInv', NEW p \in Pages, CleanPage(p)
  PROVE  CleanPage(p)'
<1> Typed /\ Log /\ Clock /\ Pool /\ Downtime /\ Traces /\ Fates
  BY Zenon DEF IInv
<1> Typed' /\ Log' /\ Clock' /\ Pool' /\ Downtime' /\ Traces' /\ Fates'
  BY Zenon DEF IInv
<1> TypeOK
  BY Zenon DEF Typed
<1> TypeOK'
  BY Zenon DEF Typed
<1>1. CASE up /\ up'
  <2>0. /\ mem[p] # Torn => mem[p].lsn \in Nat /\ mem[p].lsn <= Len(wal)
        /\ page_cache[p] # Torn => page_cache[p].lsn \in Nat
        /\ data_file[p] # Torn => data_file[p].lsn \in Nat
        /\ Len(wal) \in Nat
    BY ImageLsns, Numbers, Zenon DEF Pool, Lsns
  <2>1. CASE Untouched(p)
    BY <1>1, <2>1, Zenon DEF Untouched, CleanPage
  <2>2. ASSUME NEW x \in Xids, Latched(x, p) PROVE CleanPage(p)'
    <3>1. mem'[p] # Torn
      BY <2>2, Numbers, Zenon DEF Latched, Pool, Latches, CleanPage
    <3>2. Below(page_cache[p], mem'[p])
      BY <1>1, <2>0, <2>2 DEF Latched, CleanPage, Below
    <3> QED
      BY <1>1, <2>2, <3>1, <3>2, Zenon DEF Latched, CleanPage
  <2>3. ASSUME NEW x \in Xids, Placed(x, p) PROVE CleanPage(p)'
    <3> DEFINE l == Max({mem[p].lsn, LastOf(x)})
    <3>1. mem[p].lsn <= l /\ l \in 0..MaxLsn
      BY <2>3, PlacedLsn, Zenon DEF Placed
    <3>2. Below(page_cache[p], mem'[p])
      <4>1. mem'[p].lsn = l /\ mem'[p].tuples = mem[p].tuples \union {x}
        BY <2>3 DEF Placed
      <4>2. page_cache[p] # Torn /\ Below(page_cache[p], mem[p]) /\ mem[p] # Torn
        BY <1>1, <2>3, Zenon DEF Placed, CleanPage
      <4> HIDE DEF l
      <4> QED
        <5>1. mem[p].lsn \in Nat /\ page_cache[p].lsn \in Nat
          BY <4>2, ImageLsns, Zenon
        <5> QED
          BY <3>1, <4>1, <4>2, <5>1 DEF Below
    <3>3. mem'[p] # Torn
      <4>1. dirty'[p]
        BY <2>3, Zenon DEF Placed
      <4> QED
        BY <4>1, Zenon DEF Pool, Latches
    <3> QED
      BY <1>1, <2>3, <3>2, <3>3, Zenon DEF Placed, CleanPage
  <2>4. ASSUME NEW t \in Threads, Claimed(t, p) PROVE CleanPage(p)'
    BY <1>1, <2>4, Zenon DEF Claimed, CleanPage
  <2>5. CASE Written(p)
    <3>1. /\ Below(data_file[p], page_cache[p]) /\ Below(page_cache[p], mem[p])
          /\ mem[p] # Torn /\ page_cache[p] # Torn /\ data_file[p] # Torn
      BY <1>1, <2>5, Zenon DEF Written, CleanPage
    <3>2. Below(data_file[p], mem[p]) /\ Below(mem[p], mem[p])
      BY <2>0, <3>1 DEF Below
    <3> QED
      BY <1>1, <2>5, <3>1, <3>2, Zenon DEF Written, CleanPage
  <2>6. ASSUME NEW q \in Pages, Synced(q, p) PROVE CleanPage(p)'
    <3>1. page_cache[p] # Torn => Below(page_cache[p], page_cache[p])
      BY <2>0 DEF Below
    <3> QED
      BY <1>1, <2>6, <3>1, Zenon DEF Synced, CleanPage
  <2>7. CASE Failed(p)
    BY <1>1, <2>7, Zenon DEF Failed, CleanPage
  <2> QED
    BY <1>1, <2>1, <2>2, <2>3, <2>4, <2>5, <2>6, <2>7, PageSteps, Zenon
<1>2. CASE ~up'
  BY <1>2, Zenon DEF Downtime, CleanPage
<1>3. CASE recover
  <2>1. /\ mem'[p] = RedoPage(p) /\ page_cache'[p] = RedoPage(p) /\ data_file'[p] = RedoPage(p)
        /\ latch'[p] = 0 /\ ~dirty'[p] /\ needs_fpi'[p] /\ flusher'[p] = None /\ ~written'[p]
    BY <1>3 DEF recover, RecoveredPages, Downtime
  <2>2. RedoPage(p) # Torn => Below(RedoPage(p), RedoPage(p))
    <3>1. RedoPage(p) # Torn => RedoPage(p).lsn \in Nat
      BY RedoTypes, Numbers DEF Image
    <3> QED
      BY <3>1 DEF Below
  <2> QED
    BY <2>1, <2>2, Zenon DEF CleanPage
<1> QED
  BY <1>1, <1>2, <1>3, UpSteps, Zenon DEF TypeOK

LEMMA NextCkPages ==
  ASSUME IInv, Next, IInv', Clean
  PROVE  CkPages'
<1> Typed /\ Log /\ Clock /\ Pool /\ Downtime /\ Traces /\ Fates
  BY Zenon DEF IInv
<1> Typed' /\ Log' /\ Clock' /\ Pool' /\ Downtime' /\ Traces' /\ Fates'
  BY Zenon DEF IInv
<1> TypeOK
  BY Zenon DEF Typed
<1> TypeOK'
  BY Zenon DEF Typed
<1>1. CASE ck' = ck /\ inflight' = inflight
  <2>1. \A p \in Pages : ck.pc \in Collected /\ needs_fpi[p] => needs_fpi'[p]
    <3>1. ck.pc \in Collected => up /\ up'
      BY <1>1 DEF Downtime, Resting, Collected
    <3> QED
      BY <3>1, PageSteps, Zenon DEF Untouched, Latched, Placed, Claimed, Written, Synced, Failed
  <2> QED
    BY <1>1, <2>1, Zenon DEF Clean, CkPages
<1>2. CASE ck' = Resting
  BY <1>2, Zenon DEF CkPages, Resting, Collected, ClogSaved
<1>3. ASSUME NEW p \in Pages, FlushSync(p) PROVE CkPages'
  <2>1. /\ ck'.pc = ck.pc /\ ck'.todo \subseteq ck.todo /\ ck.todo \subseteq ck'.todo \union {p}
        /\ needs_fpi' = needs_fpi /\ inflight' = inflight /\ needs_fpi[p]
    BY <1>3 DEF FlushSync, Done, TypeOK, runVars, ghostVars, Clean, CleanPage
  <2> QED
    BY <2>1, Zenon DEF Clean, CkPages
<1>4. ASSUME NEW p \in Pages, ck_skip(p) PROVE CkPages'
  <2>1. /\ ck'.pc = ck.pc /\ ck'.todo \subseteq ck.todo /\ ck.todo \subseteq ck'.todo \union {p}
        /\ needs_fpi' = needs_fpi /\ inflight' = inflight /\ needs_fpi[p]
    BY <1>4 DEF ck_skip, At, Done, TypeOK, runVars, ghostVars, poolVars, Clean, CleanPage
  <2> QED
    BY <2>1, Zenon DEF Clean, CkPages
<1>5. CASE ck_collect
  <2>1. /\ up /\ ck'.pc = "flush" /\ ck'.todo = DirtyPages /\ needs_fpi' = needs_fpi
        /\ inflight' = inflight \union {p \in Pages : flusher[p] # None}
    BY <1>5 DEF ck_collect, At, TypeOK, poolVars
  <2> QED
    BY <2>1, Zenon DEF Clean, CleanPage, CkPages, DirtyPages, ClogSaved
<1>6. CASE ck_clog \/ ck_end \/ ck_sync
  <2>1. /\ ck'.todo = ck.todo /\ ck.pc \in Collected /\ ck.todo = {}
        /\ needs_fpi' = needs_fpi /\ inflight' = inflight
    BY <1>6, Zenon DEF ck_clog, ck_end, ck_sync, At, CkGo, TypeOK, poolVars, runVars, ghostVars,
                Collected, ClogSaved, Clean, CkPages
  <2> QED
    BY <2>1, Zenon DEF Clean, CkPages
<1>7. CASE ck_begin \/ ck_publish \/ ck_snapshot \/ ck_superblock
  <2>1. ck'.pc \notin Collected
    BY <1>7, Zenon DEF ck_begin, ck_publish, ck_snapshot, ck_superblock, CkGo, TypeOK, Collected,
                       Resting
  <2> QED
    BY <2>1, Zenon DEF CkPages, Collected, ClogSaved
<1>8. CASE Transaction \/ clog_evict
  BY <1>1, <1>8, TransactionFrame, Zenon DEF clog_evict, ckVars, runVars, ghostVars
<1>9. CASE crash \/ crash_in_recovery
  BY <1>2, <1>9, Zenon DEF crash, crash_in_recovery, Down
<1>10. CASE recover
  BY <1>1, <1>10, Zenon DEF recover, ckVars, ghostVars
<1>11. CASE ck_recycle \/ ck_fail
  BY <1>2, <1>11, Zenon DEF ck_recycle, ck_fail
<1>12. CASE Flush
  <2>1. ASSUME NEW p \in Pages, (\E t \in Threads : FlushClaim(t, p)) \/ FlushWrite(p)
        PROVE  CkPages'
    BY <1>1, <2>1, Zenon DEF FlushClaim, FlushWrite, ckVars, runVars, ghostVars
  <2>2. ASSUME NEW p \in Pages, FlushFail(p) PROVE CkPages'
    BY <1>1, <1>2, <2>2, Zenon DEF FlushFail, runVars, ghostVars
  <2> QED
    BY <1>3, <1>12, <2>1, <2>2, Zenon DEF Flush
<1> QED
  BY <1>3, <1>4, <1>5, <1>6, <1>7, <1>8, <1>9, <1>10, <1>11, <1>12, Zenon DEF Next, Checkpoint

LEMMA NextClean ==
  ASSUME IInv, Next, IInv', Clean
  PROVE  Clean'
<1>1. ASSUME NEW p \in Pages PROVE CleanPage(p)'
  BY NextCleanPage, Zenon DEF Clean
<1> QED
  BY <1>1, NextCkPages, Zenon DEF Clean

----------------------------------------------------------------------------
(* What the images hold.                                                   *)

\* An image has the tuples of every insert up to n.
Holds(log, img, p, n) ==
    img # Torn => \A i \in 1..n : log[i].t = "insert" /\ log[i].page = p =>
                                     log[i].xid \in img.tuples

\* Every image is complete up to its LSN, in the log up to its position, and in memory
\* but for the tuple being placed; the data file has all that is before the redo point,
\* and, once a checkpoint is done with the page, all that is before its begin record.
Contents(p) ==
    /\ \A i \in 1..Len(wal) : ImageOf(i, p) => Holds(wal, wal[i].body, p, i - 1)
    /\ Holds(wal, data_file[p], p, RedoStart - 1)
    /\ data_file[p] # Torn => Holds(wal, data_file[p], p, data_file[p].lsn)
    /\ page_cache[p] # Torn => Holds(wal, page_cache[p], p, page_cache[p].lsn)
    /\ mem[p] # Torn => Holds(wal, mem[p], p, mem[p].lsn)
    /\ up /\ mem[p] # Torn => \A i \in 1..Len(wal) :
         InsertOn(i, p) => wal[i].xid \in mem[p].tuples \/ latch[p] = wal[i].xid
    /\ ck.pc \in Collected /\ p \notin ck.todo => Holds(wal, data_file[p], p, ck.begin - 1)
    /\ ck.pc = "flush" /\ flusher[p] = Checkpointer /\ written[p] =>
         Holds(wal, page_cache[p], p, ck.begin - 1)

LEMMA HoldsKept ==
  ASSUME Typed, Log, Pool, Typed', Next, NEW p, NEW img, NEW m \in Int, NEW n \in Int,
         n <= m, n <= Len(wal), n <= Len(wal'), Holds(wal, img, p, m)
  PROVE  Holds(wal', img, p, n)
<1>1. Len(wal) \in Nat /\ Len(wal') \in Nat
  BY Numbers, NumbersNext, Zenon
<1>2. \A i \in 1..n : i \in 1..m /\ wal'[i] = wal[i]
  BY <1>1, LogSteps
<1> QED
  BY <1>2, Zenon DEF Holds

LEMMA HoldsMore ==
  ASSUME NEW log, NEW a, NEW b, NEW p, NEW n, Holds(log, a, p, n), a # Torn,
         a.tuples \subseteq b.tuples
  PROVE  Holds(log, b, p, n)
BY Zenon DEF Holds

LEMMA HoldsLess ==
  ASSUME NEW log, NEW img, NEW p, NEW m \in Int, NEW n \in Int, n <= m, Holds(log, img, p, m)
  PROVE  Holds(log, img, p, n)
BY DEF Holds

(* A page nobody is writing holds every tuple logged for it.               *)
LEMMA HoldsAll ==
  ASSUME Typed, Log, up, NEW p \in Pages, Contents(p), latch[p] = 0
  PROVE  Holds(wal, mem[p], p, Len(wal))
<1>1. \A i \in 1..Len(wal) : InsertOn(i, p) => wal[i].xid # 0
  BY Holders, Zenon DEF Log, Formed, InsertOn
<1> QED
  BY <1>1, Zenon DEF Contents, Holds, InsertOn

LEMMA RedoHolds ==
  ASSUME Typed, Log, Pool, NEW p \in Pages, Contents(p)
  PROVE  Holds(wal, RedoPage(p), p, Len(wal))
<1> TypeOK
  BY Zenon DEF Typed
<1> DEFINE Good(i, img) == /\ Holds(wal, img, p, i)
                           /\ img # Torn => Holds(wal, img, p, img.lsn)
           G == [i \in (RedoStart - 1)..Len(wal) |-> {img \in Image : Good(i, img)}]
<1>0. /\ RedoStart \in Nat /\ Len(wal) \in Nat /\ RedoStart >= 1 /\ RedoStart <= Len(wal)
      /\ MaxLsn \in Nat
  BY Numbers DEF Log
<1>1. data_file[p] \in G[RedoStart - 1]
  BY <1>0 DEF Contents, TypeOK
<1>2. ASSUME NEW i \in RedoStart..Len(wal), NEW img \in G[i - 1]
      PROVE  RedoRecord(img, p, i) \in G[i]
  <2>0. /\ img \in Image /\ Good(i - 1, img) /\ i \in 1..Len(wal)
        /\ i \in (RedoStart - 1)..Len(wal) /\ i \in Int /\ i - 1 \in Int
    BY <1>0, <1>2
  <2> DEFINE new == RedoRecord(img, p, i)
  <2>1. SUFFICES new \in Image /\ Good(i, new)
    BY <2>0, Zenon
  <2>2. CASE wal[i].page # p
    <3>1. new = img
      BY <2>0, <2>2, RedoCases, Zenon
    <3>2. Holds(wal, img, p, i)
      BY <2>0, <2>2 DEF Holds
    <3> QED
      BY <2>0, <3>1, <3>2, Zenon
  <2>3. CASE ImageOf(i, p)
    <3>1. new = [lsn |-> i, tuples |-> wal[i].body.tuples]
      BY <2>0, <2>3, RedoCases
    <3>2. wal[i].body \in Image \ {Torn} /\ Holds(wal, wal[i].body, p, i - 1)
      BY <2>0, <2>3, Zenon DEF Log, Formed, ImageOf, Contents
    <3>3. new \in Image
      <4>1. i \in 0..MaxLsn
        BY <1>0, <2>0, Numbers
      <4>2. wal[i].body.tuples \in SUBSET Xids
        BY <3>2, Zenon DEF Image
      <4>3. [lsn |-> i, tuples |-> wal[i].body.tuples] \in [lsn : 0..MaxLsn, tuples : SUBSET Xids]
        BY <4>1, <4>2, Zenon
      <4> QED
        BY <3>1, <4>3, Zenon DEF Image
    <3>4. Holds(wal, new, p, i)
      BY <2>0, <2>3, <3>1, <3>2 DEF Holds, ImageOf
    <3> QED
      BY <3>1, <3>3, <3>4
  <2>4. CASE InsertOn(i, p)
    <3>1. CASE img = Torn
      BY <2>0, <2>4, <3>1, RedoCases DEF Holds
    <3>2. CASE img # Torn /\ img.lsn >= i
      <4>1. new = img
        BY <2>0, <2>4, <3>2, RedoCases
      <4>2. Holds(wal, img, p, i)
        BY <2>0, <3>2, HoldsLess DEF Image
      <4> QED
        BY <2>0, <4>1, <4>2, Zenon
    <3>3. CASE img # Torn /\ img.lsn < i
      <4>1. new = [lsn |-> i, tuples |-> img.tuples \union {wal[i].xid}]
        BY <2>0, <2>4, <3>3, RedoCases
      <4>2. new \in Image
        <5>1. wal[i].xid \in Xids /\ i \in 0..MaxLsn
          BY <1>0, <2>0, <2>4, Numbers DEF Log, Formed, InsertOn
        <5> QED
          BY <2>0, <3>3, <4>1, <5>1 DEF Image
      <4>3. Holds(wal, new, p, i)
        BY <2>0, <3>3, <4>1 DEF Holds
      <4> QED
        BY <4>1, <4>2, <4>3
    <3>4. img = Torn \/ img.lsn \in Int
      BY <1>0, <2>0 DEF Image
    <3> QED
      BY <2>0, <3>1, <3>2, <3>3, <3>4
  <2> QED
    BY <2>0, <2>2, <2>3, <2>4, RedoCases, Zenon
<1>3. RedoPage(p) \in G[Len(wal)]
  <2> HIDE DEF G
  <2> QED
    BY <1>0, <1>1, <1>2, RedoInduction, Zenon
<1> QED
  BY <1>0, <1>3

(* How the data file and the OS page cache get their images.               *)
LEMMA FileSteps ==
  ASSUME IInv, Next, IInv', NEW p \in Pages
  PROVE  /\ \/ data_file'[p] = data_file[p]
            \/ up /\ data_file'[p] = page_cache[p]
            \/ ~up' /\ data_file'[p] = Torn
            \/ ~up /\ data_file'[p] = RedoPage(p)
         /\ \/ page_cache'[p] = page_cache[p]
            \/ up /\ up' /\ Written(p)
            \/ page_cache'[p] = data_file'[p]
         /\ (up /\ up') \/ mem'[p] = data_file'[p]
<1> Typed /\ Log /\ Clock /\ Pool /\ Downtime /\ Traces /\ Fates
  BY Zenon DEF IInv
<1> Typed' /\ Log' /\ Clock' /\ Pool' /\ Downtime' /\ Traces' /\ Fates'
  BY Zenon DEF IInv
<1> TypeOK
  BY Zenon DEF Typed
<1> TypeOK'
  BY Zenon DEF Typed
<1>1. CASE up /\ up'
  BY <1>1, PageSteps, Zenon DEF Untouched, Latched, Placed, Claimed, Written, Synced, Failed
<1>2. CASE recover
  BY <1>2, Zenon DEF recover, RecoveredPages
<1>3. CASE ~up'
  <2>1. mem' = data_file' /\ page_cache' = data_file'
    BY <1>3, Zenon DEF Downtime
  <2>2. CASE crash
    <3>1. PICK files \in FileAfter(page_cache, data_file) : data_file' = files
      BY <2>2, Zenon DEF crash, Down
    <3>2. up /\ page_cache \in [Pages -> Image] /\ data_file \in [Pages -> Image]
      BY <2>2, Zenon DEF crash, TypeOK
    <3>3. files[p] = page_cache[p] \/ files[p] = data_file[p] \/ files[p] = Torn
      BY <3>1, <3>2, FilesAfter
    <3> QED
      BY <1>3, <2>1, <3>1, <3>2, <3>3, Zenon
  <2>3. CASE crash_in_recovery
    <3>1. PICK files \in FileAfter(RecoveredPages, data_file) : data_file' = files
      BY <2>3, Zenon DEF crash_in_recovery, Down
    <3>2. /\ RecoveredPages \in [Pages -> Image] /\ RecoveredPages[p] = RedoPage(p)
          /\ ~up /\ data_file \in [Pages -> Image]
      BY <2>3, RedoTypes, Zenon DEF RecoveredPages, crash_in_recovery, TypeOK
    <3>3. files[p] = RecoveredPages[p] \/ files[p] = data_file[p] \/ files[p] = Torn
      BY <3>1, <3>2, FilesAfter
    <3> QED
      BY <1>3, <2>1, <3>1, <3>2, <3>3, Zenon
  <2>4. CASE recover
    BY <1>2, <2>4, Zenon
  <2>5. up' = up \/ crash \/ crash_in_recovery \/ recover
    BY Zenon DEF Next, Transaction, Flush, Checkpoint, begin, pin_mut, log_insert, place_tuple,
           append_end, flush_end, end_txn, FlushClaim, FlushWrite, FlushSync, FlushFail, clog_evict,
           ck_begin, ck_publish, ck_snapshot, ck_collect, ck_skip, ck_clog, ck_end, ck_sync,
           ck_superblock, ck_recycle, ck_fail, runVars
  <2>6. ~up /\ ~up' /\ Next => crash_in_recovery
    BY Zenon DEF Next, Transaction, Flush, Checkpoint, begin, pin_mut, log_insert, place_tuple,
           append_end, flush_end, end_txn, FlushClaim, FlushWrite, FlushSync, FlushFail, clog_evict,
           ck_begin, ck_publish, ck_snapshot, ck_collect, ck_skip, ck_clog, ck_end, ck_sync,
           ck_superblock, ck_recycle, ck_fail, At, crash, recover
  <2> QED
    BY <1>3, <2>2, <2>3, <2>4, <2>5, <2>6 DEF TypeOK
<1> QED
  BY <1>1, <1>2, <1>3, UpSteps, Zenon

(* A checkpoint is done with a page when it has flushed it, or found it clean. *)
LEMMA TodoSteps ==
  ASSUME Typed, Log, Next
  PROVE  /\ inflight \subseteq inflight'
         /\ ck'.pc = "flush" => ck_collect \/ ck.pc = "flush"
         /\ ck.pc \in Collected /\ ck'.pc \in Collected =>
              \A p \in ck.todo \ ck'.todo :
                 (FlushSync(p) /\ flusher[p] = Checkpointer) \/ ck_skip(p)
<1> TypeOK
  BY Zenon DEF Typed
<1>1. CASE Transaction \/ clog_evict \/ recover
  BY <1>1, TransactionFrame, Zenon DEF clog_evict, recover, ckVars, runVars, ghostVars
<1>2. CASE crash \/ crash_in_recovery
  BY <1>2 DEF crash, crash_in_recovery, Down, Resting, Collected, ghostVars
<1>3. ASSUME NEW p \in Pages, NEW t \in Threads, FlushClaim(t, p) \/ FlushWrite(p)
      PROVE  ck' = ck /\ inflight' = inflight
  BY <1>3, Zenon DEF FlushClaim, FlushWrite, ckVars, runVars, ghostVars
<1>4. ASSUME NEW p \in Pages, FlushSync(p)
      PROVE  /\ ck'.pc = ck.pc /\ inflight' = inflight
             /\ \A q \in ck.todo \ ck'.todo : q = p /\ flusher[p] = Checkpointer
  BY <1>4, Zenon DEF FlushSync, Done, runVars, ghostVars, TypeOK
<1>5. ASSUME NEW p \in Pages, FlushFail(p)
      PROVE  (ck' = ck \/ ck'.pc = "idle") /\ inflight' = inflight
  BY <1>5, Zenon DEF FlushFail, Resting, runVars, ghostVars
<1>6. ASSUME NEW p \in Pages, ck_skip(p)
      PROVE  /\ ck'.pc = ck.pc /\ inflight' = inflight
             /\ \A q \in ck.todo \ ck'.todo : q = p
  BY <1>6, Zenon DEF ck_skip, Done, runVars, ghostVars, TypeOK
<1>7. CASE Checkpoint
  <2>1. CASE ck_collect
    BY <2>1, Zenon DEF ck_collect, At, Collected
  <2>2. CASE ck_begin \/ ck_publish \/ ck_snapshot \/ ck_superblock \/ ck_recycle \/ ck_fail
    <3>1. ck'.pc \notin Collected
      <4>1. CASE ck_begin \/ ck_publish \/ ck_snapshot \/ ck_superblock
        BY <4>1, Zenon DEF ck_begin, ck_publish, ck_snapshot, ck_superblock, CkGo, Collected, Resting,
                    TypeOK
      <4>2. CASE ck_recycle \/ ck_fail
        BY <4>2 DEF ck_recycle, ck_fail, Collected, Resting
      <4> QED
        BY <2>2, <4>1, <4>2, Zenon
    <3>2. inflight' = inflight
      BY <2>2, Zenon DEF ck_begin, ck_publish, ck_snapshot, ck_superblock, ck_recycle, ck_fail, runVars,
                  ghostVars
    <3> QED
      BY <3>1, <3>2, Zenon DEF Collected
  <2>3. CASE ck_clog \/ ck_end \/ ck_sync
    <3>1. ck'.todo = ck.todo /\ inflight' = inflight /\ ck'.pc # "flush"
      BY <2>3, Zenon DEF ck_clog, ck_end, ck_sync, CkGo, runVars, ghostVars, TypeOK
    <3> QED
      BY <3>1, Zenon
  <2> QED
    BY <1>6, <1>7, <2>1, <2>2, <2>3, Zenon DEF Checkpoint
<1>8. CASE Flush
  BY <1>3, <1>4, <1>5, <1>8, CrashRecoveryAssumption, Zenon DEF Flush, Threads, Collected
<1> QED
  BY <1>1, <1>2, <1>7, <1>8, Zenon DEF Next

LEMMA NextImagesHold ==
  ASSUME IInv, Next, IInv', Clean, NEW p \in Pages, Contents(p)
  PROVE  \A i \in 1..Len(wal') : wal'[i].t = "fpi" /\ wal'[i].page = p =>
            Holds(wal', wal'[i].body, p, i - 1)
<1> Typed /\ Log /\ Clock /\ Pool /\ Downtime /\ Traces /\ Fates
  BY Zenon DEF IInv
<1> Typed' /\ Log' /\ Clock' /\ Pool' /\ Downtime' /\ Traces' /\ Fates'
  BY Zenon DEF IInv
<1>0. Len(wal) \in Nat /\ Len(wal') \in Nat
  BY Numbers, NumbersNext, Zenon
<1>1. SUFFICES ASSUME NEW i \in 1..Len(wal'), wal'[i].t = "fpi", wal'[i].page = p
               PROVE  Holds(wal', wal'[i].body, p, i - 1)
  BY Zenon
<1>2. i \in Int /\ i - 1 \in Int /\ i - 1 <= i - 1 /\ i - 1 <= Len(wal')
  BY <1>0
<1>3. CASE i \in 1..Len(wal) /\ wal'[i] = wal[i]
  <2>1. Holds(wal, wal[i].body, p, i - 1) /\ i - 1 <= Len(wal)
    BY <1>0, <1>1, <1>3 DEF Contents, ImageOf
  <2> QED
    BY <1>2, <1>3, <2>1, HoldsKept, Zenon
<1>4. CASE i = Len(wal) + 1 /\ Len(wal') > Len(wal)
  <2>1. PICK x \in Xids, q \in Pages :
           pin_mut(x, q) /\ wal'[i].page = q /\ wal'[i].body = mem[q]
    BY <1>1, <1>4, NewRecords, Zenon
  <2>2. up /\ latch[p] = 0 /\ wal'[i].body = mem[p]
    BY <1>1, <2>1, Zenon DEF pin_mut
  <2>3. Holds(wal, mem[p], p, Len(wal)) /\ i - 1 <= Len(wal)
    BY <1>0, <1>4, <2>2, HoldsAll
  <2> QED
    BY <1>0, <1>2, <2>2, <2>3, HoldsKept
<1> QED
  BY <1>1, <1>3, <1>4, OldOrNew, Zenon

LEMMA NextFileHolds ==
  ASSUME IInv, Next, IInv', Clean, NEW p \in Pages, Contents(p)
  PROVE  /\ Holds(wal', data_file'[p], p, superblock'.checkpoint_lsn - 1)
         /\ data_file'[p] # Torn => Holds(wal', data_file'[p], p, data_file'[p].lsn)
<1> Typed /\ Log /\ Clock /\ Pool /\ Downtime /\ Traces /\ Fates
  BY Zenon DEF IInv
<1> Typed' /\ Log' /\ Clock' /\ Pool' /\ Downtime' /\ Traces' /\ Fates'
  BY Zenon DEF IInv
<1> TypeOK
  BY Zenon DEF Typed
<1> TypeOK'
  BY Zenon DEF Typed
<1>0. /\ Len(wal) \in Nat /\ synced \in Nat /\ synced <= Len(wal)
      /\ Len(wal') \in Nat /\ synced' <= Len(wal') /\ synced' \in Nat /\ synced <= synced'
      /\ RedoStart \in Nat /\ RedoStart <= synced /\ ck.begin \in Nat
      /\ superblock'.checkpoint_lsn <= synced' /\ superblock'.checkpoint_lsn \in Nat
      /\ data_file[p] # Torn => data_file[p].lsn \in Nat /\ data_file[p].lsn <= synced
      /\ page_cache[p] # Torn => page_cache[p].lsn \in Nat /\ page_cache[p].lsn <= synced
  <2>1. superblock' \in [checkpoint_lsn : 1..MaxLsn, next_txn_id : 1..(MaxXid + 1)]
    BY DEF TypeOK
  <2>2. RedoStart' <= synced' /\ RedoStart' = superblock'.checkpoint_lsn
    BY Zenon DEF Log, RedoStart
  <2> QED
    <3>1. superblock'.checkpoint_lsn \in Nat
      BY <2>1
    <3> QED
      BY <2>2, <3>1, Numbers, NumbersNext, LogSteps, ImageLsns, Zenon DEF Log, Pool, Lsns
<1> DEFINE S == superblock'.checkpoint_lsn
<1>1. Holds(wal, data_file[p], p, S - 1) /\ S <= synced
  <2>1. CASE superblock' = superblock
    BY <1>0, <2>1, Zenon DEF Contents, RedoStart
  <2>2. CASE ck_superblock
    <3>1. ck.pc = "super" /\ superblock'.checkpoint_lsn = ck.begin /\ ck.begin <= synced
      BY <2>2, SuperblockMoves, Zenon
    <3>2. p \notin ck.todo
      BY <3>1, Zenon DEF Clean, CkPages, ClogSaved
    <3> QED
      BY <3>1, <3>2, Zenon DEF Contents, Collected
  <2> QED
    BY <2>1, <2>2, CkSteps, Zenon
<1>2. S - 1 \in Int /\ S - 1 <= Len(wal) /\ S - 1 <= Len(wal') /\ S - 1 <= S - 1
  BY <1>0, <1>1
<1> HIDE DEF S
<1>3. CASE data_file'[p] = data_file[p]
  <2>1. Holds(wal', data_file[p], p, S - 1)
    BY <1>1, <1>2, HoldsKept, Zenon
  <2>2. data_file[p] # Torn => Holds(wal', data_file[p], p, data_file[p].lsn)
    BY <1>0, HoldsKept DEF Contents
  <2> QED
    BY <1>3, <2>1, <2>2, Zenon DEF S
<1>4. CASE up /\ data_file'[p] = page_cache[p]
  <2>1. CASE page_cache[p] = Torn
    BY <1>4, <2>1, Zenon DEF Holds
  <2>2. CASE page_cache[p] # Torn
    <3>1. data_file[p] # Torn /\ data_file[p].tuples \subseteq page_cache[p].tuples
      BY <1>4, <2>2, Zenon DEF Clean, CleanPage, Below
    <3>2. Holds(wal, page_cache[p], p, S - 1)
      BY <1>1, <3>1, HoldsMore, Zenon
    <3>3. Holds(wal', page_cache[p], p, S - 1)
      BY <1>2, <3>2, HoldsKept, Zenon
    <3>4. Holds(wal', page_cache[p], p, page_cache[p].lsn)
      BY <1>0, <2>2, HoldsKept DEF Contents
    <3> QED
      BY <1>4, <3>3, <3>4, Zenon DEF S
  <2> QED
    BY <2>1, <2>2, Zenon
<1>5. CASE ~up' /\ data_file'[p] = Torn
  BY <1>5, Zenon DEF Holds
<1>6. CASE ~up /\ data_file'[p] = RedoPage(p)
  <2>1. Holds(wal, RedoPage(p), p, Len(wal))
    BY RedoHolds, Zenon
  <2>2. Len(wal) <= Len(wal')
    BY <1>6, LogSteps, Zenon DEF crash
  <2>3. Holds(wal', RedoPage(p), p, S - 1)
    BY <1>0, <1>2, <2>1, HoldsKept
  <2>4. RedoPage(p) # Torn => RedoPage(p).lsn <= Len(wal) /\ RedoPage(p).lsn \in Nat
    BY RedoLsns, RedoTypes, Numbers DEF Image, Pool
  <2>5. RedoPage(p) # Torn => Holds(wal', RedoPage(p), p, RedoPage(p).lsn)
    BY <1>0, <2>1, <2>2, <2>4, HoldsKept
  <2> QED
    BY <1>6, <2>3, <2>5, Zenon DEF S
<1> QED
  BY <1>3, <1>4, <1>5, <1>6, FileSteps, Zenon

LEMMA NextMemoryHolds ==
  ASSUME IInv, Next, IInv', Clean, NEW p \in Pages, Contents(p)
  PROVE  /\ page_cache'[p] # Torn => Holds(wal', page_cache'[p], p, page_cache'[p].lsn)
         /\ mem'[p] # Torn => Holds(wal', mem'[p], p, mem'[p].lsn)
         /\ up' /\ mem'[p] # Torn => \A i \in 1..Len(wal') :
              wal'[i].t = "insert" /\ wal'[i].page = p =>
                 wal'[i].xid \in mem'[p].tuples \/ latch'[p] = wal'[i].xid
<1> Typed /\ Log /\ Clock /\ Pool /\ Downtime /\ Traces /\ Fates
  BY Zenon DEF IInv
<1> Typed' /\ Log' /\ Clock' /\ Pool' /\ Downtime' /\ Traces' /\ Fates'
  BY Zenon DEF IInv
<1> TypeOK
  BY Zenon DEF Typed
<1> TypeOK'
  BY Zenon DEF Typed
<1>0. /\ Len(wal) \in Nat /\ synced \in Nat /\ synced <= Len(wal)
      /\ Len(wal') \in Nat /\ synced' <= Len(wal') /\ synced' \in Nat /\ synced <= synced'
      /\ page_cache[p] # Torn => page_cache[p].lsn \in Nat /\ page_cache[p].lsn <= synced
      /\ mem[p] # Torn => mem[p].lsn \in Nat /\ mem[p].lsn <= Len(wal)
      /\ up' => Len(wal) <= Len(wal')
  <2>1. up' => ~crash
    BY Zenon DEF crash, Down
  <2> QED
    BY <2>1, Numbers, NumbersNext, LogSteps, ImageLsns, Zenon DEF Pool, Lsns
<1>1. /\ page_cache[p] # Torn => Holds(wal', page_cache[p], p, page_cache[p].lsn)
      /\ up' /\ mem[p] # Torn => Holds(wal', mem[p], p, mem[p].lsn)
  BY <1>0, HoldsKept DEF Contents
<1>2. page_cache'[p] # Torn => Holds(wal', page_cache'[p], p, page_cache'[p].lsn)
  BY <1>1, FileSteps, NextFileHolds, Zenon DEF Written
<1>3. CASE up /\ up'
  <2>1. CASE mem'[p] = mem[p] /\ latch'[p] = latch[p]
    <3>1. ASSUME mem[p] # Torn, NEW i \in 1..Len(wal'), wal'[i].t = "insert", wal'[i].page = p
          PROVE  wal'[i].xid \in mem[p].tuples \/ latch[p] = wal'[i].xid
      <4>1. CASE i \in 1..Len(wal) /\ wal'[i] = wal[i]
        BY <1>3, <3>1, <4>1, Zenon DEF Contents, InsertOn
      <4>2. CASE i = Len(wal) + 1 /\ Len(wal') > Len(wal)
        <5>1. PICK x \in Xids : log_insert(x) /\ wal'[i].page = Pinned(x) /\ wal'[i].xid = x
          BY <3>1, <4>2, NewRecords, Zenon
        <5>2. latch[Pinned(x)] = x
          BY <5>1, PinnedPage, Zenon DEF log_insert
        <5> QED
          BY <3>1, <5>1, <5>2, Zenon
      <4> QED
        BY <4>1, <4>2, OldOrNew, Zenon
    <3> QED
      BY <1>1, <1>2, <1>3, <2>1, <3>1, Zenon
  <2>2. ASSUME NEW x \in Xids, Latched(x, p)
        PROVE  /\ Holds(wal', mem'[p], p, mem'[p].lsn)
               /\ Holds(wal', mem'[p], p, Len(wal'))
    <3>1. Holds(wal, mem[p], p, Len(wal))
      BY <1>3, <2>2, HoldsAll, Zenon DEF Latched
    <3>2. Holds(wal', mem[p], p, Len(wal)) /\ mem[p] # Torn
      BY <1>0, <1>3, <2>2, <3>1, HoldsKept DEF Latched
    <3>3. CASE FpiDue(p)
      <4>1. /\ Len(wal') = Len(wal) + 1 /\ wal'[Len(wal) + 1].t = "fpi"
            /\ mem'[p].lsn = Len(wal) + 1 /\ mem'[p].tuples = mem[p].tuples
        BY <2>2, <3>3 DEF Latched, Rec
      <4>2. Holds(wal', mem'[p], p, Len(wal) + 1)
        BY <1>0, <3>2, <4>1 DEF Holds
      <4> QED
        BY <4>1, <4>2, Zenon
    <3>4. CASE ~FpiDue(p)
      <4>1. mem'[p] = mem[p] /\ wal' = wal
        BY <2>2, <3>4, Zenon DEF Latched
      <4> QED
        BY <1>1, <1>3, <3>2, <4>1, Zenon
    <3> QED
      BY <3>3, <3>4, Zenon
  <2>3. ASSUME NEW x \in Xids, Placed(x, p)
        PROVE  /\ Holds(wal', mem'[p], p, mem'[p].lsn)
               /\ Holds(wal', mem'[p], p, Len(wal'))
    <3>1. mem[p] # Torn /\ latch[p] = x /\ wal' = wal /\ mem'[p].tuples = mem[p].tuples \union {x}
      BY <2>3 DEF Placed
    <3>2. Holds(wal, mem'[p], p, Len(wal))
      BY <1>3, <3>1, Zenon DEF Contents, Holds, InsertOn
    <3>3. mem'[p].lsn \in Nat /\ mem'[p].lsn <= Len(wal)
      <4> DEFINE l == Max({mem[p].lsn, LastOf(x)})
      <4>1. mem'[p].lsn = l
        BY <2>3 DEF Placed
      <4>2. l \in 0..MaxLsn /\ l <= Len(wal)
        BY <2>3, PlacedLsn, Zenon DEF Placed
      <4> HIDE DEF l
      <4> QED
        BY <4>1, <4>2, CrashRecoveryAssumption
    <3> QED
      BY <1>0, <3>1, <3>2, <3>3, HoldsLess
  <2>4. Holds(wal', mem'[p], p, Len(wal')) /\ mem'[p] # Torn =>
          \A i \in 1..Len(wal') : wal'[i].t = "insert" /\ wal'[i].page = p =>
             wal'[i].xid \in mem'[p].tuples
    BY Zenon DEF Holds
  <2> QED
    BY <1>2, <1>3, <2>1, <2>2, <2>3, <2>4, PageSteps, Zenon
       DEF Untouched, Claimed, Written, Synced, Failed
<1>4. CASE ~up'
  BY <1>2, <1>4, FileSteps, NextFileHolds, Zenon
<1>5. CASE recover
  <2>1. mem'[p] = RedoPage(p) /\ wal' = wal /\ mem'[p] = data_file'[p]
    BY <1>5, Zenon DEF recover, RecoveredPages, walVars
  <2>2. Holds(wal', mem'[p], p, Len(wal'))
    BY <2>1, RedoHolds, Zenon
  <2> QED
    BY <1>2, <2>1, <2>2, NextFileHolds, Zenon DEF Holds
<1> QED
  BY <1>3, <1>4, <1>5, UpSteps, Zenon DEF TypeOK

(* A page found clean by a checkpoint is complete on disk.                 *)
LEMMA CleanHolds ==
  ASSUME IInv, Clean, up, NEW p \in Pages, Contents(p), ~dirty[p], flusher[p] = None
  PROVE  Holds(wal, data_file[p], p, Len(wal))
<1> Typed /\ Log /\ Clock /\ Pool /\ Downtime /\ Traces /\ Fates
  BY Zenon DEF IInv
<1>1. mem[p] = data_file[p] /\ latch[p] = 0
  BY Zenon DEF Clean, CleanPage
<1> QED
  BY <1>1, HoldsAll, Zenon

LEMMA NextCheckpointHolds ==
  ASSUME IInv, Next, IInv', Clean, NEW p \in Pages \ inflight', Contents(p)
  PROVE  /\ ck'.pc \in Collected /\ p \notin ck'.todo =>
              Holds(wal', data_file'[p], p, ck'.begin - 1)
         /\ ck'.pc = "flush" /\ flusher'[p] = Checkpointer /\ written'[p] =>
              Holds(wal', page_cache'[p], p, ck'.begin - 1)
<1> Typed /\ Log /\ Clock /\ Pool /\ Downtime /\ Traces /\ Fates
  BY Zenon DEF IInv
<1> Typed' /\ Log' /\ Clock' /\ Pool' /\ Downtime' /\ Traces' /\ Fates'
  BY Zenon DEF IInv
<1> TypeOK
  BY Zenon DEF Typed
<1> TypeOK'
  BY Zenon DEF Typed
<1>1. SUFFICES ASSUME ck'.pc \in Collected
               PROVE  /\ p \notin ck'.todo => Holds(wal', data_file'[p], p, ck'.begin - 1)
                      /\ ck'.pc = "flush" /\ flusher'[p] = Checkpointer /\ written'[p] =>
                           Holds(wal', page_cache'[p], p, ck'.begin - 1)
  BY Zenon DEF Collected
<1>2. up /\ up'
  <2>1. up'
    BY <1>1 DEF Downtime, Resting, Collected
  <2>2. ~recover
    BY <1>1 DEF Downtime, Resting, Collected, recover, ckVars
  <2> QED
    BY <2>1, <2>2, UpSteps, Zenon
<1>3. /\ Len(wal) \in Nat /\ Len(wal') \in Nat /\ Len(wal) <= Len(wal')
      /\ ck.begin \in Nat
      /\ ck.pc \in Collected => ck.begin <= Len(wal)
  <2>1. ~crash
    BY <1>2, Zenon DEF crash, Down
  <2> QED
    <3>1. ck.pc \in Collected => ck.begin \in (RedoStart + 1)..Len(wal)
      BY Zenon DEF Log, Collected, Running
    <3>2. RedoStart \in Nat /\ Len(wal) \in Nat
      BY Numbers, Zenon
    <3>3. ck.pc \in Collected => ck.begin <= Len(wal)
      BY <3>1, <3>2
    <3> QED
      BY <2>1, <3>3, Numbers, NumbersNext, LogSteps, Zenon
<1>4. CASE ck_collect
  <2>1. /\ ck'.begin = ck.begin /\ ck.pc = "sampled" /\ wal' = wal /\ data_file' = data_file
        /\ flusher' = flusher /\ ck'.todo = DirtyPages /\ flusher[p] = None
    BY <1>4 DEF ck_collect, At, TypeOK, walVars, fileVars, poolVars
  <2>2. ck.begin <= Len(wal)
    BY <1>3, <2>1 DEF Log, Running
  <2>3. ASSUME p \notin ck'.todo PROVE Holds(wal, data_file[p], p, ck.begin - 1)
    <3>1. Holds(wal, data_file[p], p, Len(wal))
      BY <1>2, <2>1, <2>3, CleanHolds, Zenon DEF DirtyPages
    <3> QED
      BY <1>3, <2>2, <3>1, HoldsLess
  <2>4. flusher'[p] # Checkpointer
    BY <2>1, CrashRecoveryAssumption, Zenon DEF None
  <2> QED
    BY <2>1, <2>3, <2>4, Zenon
<1>5. CASE ck.pc \in Collected /\ ck'.begin = ck.begin
  <2>0. /\ ck.begin - 1 \in Int /\ ck.begin - 1 <= Len(wal) /\ ck.begin - 1 <= Len(wal')
        /\ Len(wal) \in Int
    BY <1>3, <1>5
  <2>1. ASSUME NEW img, Holds(wal, img, p, ck.begin - 1) \/ Holds(wal, img, p, Len(wal))
        PROVE  Holds(wal', img, p, ck'.begin - 1)
    BY <1>5, <2>0, <2>1, HoldsKept
  <2>2. ASSUME p \notin ck'.todo PROVE Holds(wal', data_file'[p], p, ck'.begin - 1)
    <3>1. CASE p \notin ck.todo
      <4>1. Holds(wal, data_file[p], p, ck.begin - 1)
        BY <1>5, <3>1, Zenon DEF Contents
      <4>2. Holds(wal, page_cache[p], p, ck.begin - 1)
        <5>1. page_cache[p] # Torn =>
                 data_file[p] # Torn /\ data_file[p].tuples \subseteq page_cache[p].tuples
          BY <1>2, Zenon DEF Clean, CleanPage, Below
        <5> QED
          BY <4>1, <5>1, HoldsMore, Zenon DEF Holds
      <4>3. data_file'[p] = data_file[p] \/ data_file'[p] = page_cache[p]
        BY <1>2, FileSteps, Zenon
      <4> QED
        BY <2>1, <4>1, <4>2, <4>3, Zenon
    <3>2. CASE FlushSync(p) /\ flusher[p] = Checkpointer /\ p \in ck.todo
      <4>1. written[p] /\ data_file'[p] = page_cache[p]
        BY <3>2, Zenon DEF FlushSync
      <4>2. ck.pc = "flush"
        BY <1>5, <3>2, Zenon DEF Clean, CkPages, ClogSaved, Collected
      <4>3. Holds(wal, page_cache[p], p, ck.begin - 1)
        BY <3>2, <4>1, <4>2, Zenon DEF Contents
      <4> QED
        BY <2>1, <4>1, <4>3, Zenon
    <3>3. CASE ck_skip(p)
      <4>1. ~dirty[p] /\ flusher[p] = None /\ data_file' = data_file
        BY <3>3, Zenon DEF ck_skip, fileVars
      <4>2. Holds(wal, data_file[p], p, Len(wal))
        BY <1>2, <4>1, CleanHolds, Zenon
      <4> QED
        BY <2>1, <4>1, <4>2, Zenon
    <3> QED
      BY <1>1, <1>5, <2>2, <3>1, <3>2, <3>3, TodoSteps, Zenon
  <2>3. ASSUME ck'.pc = "flush", flusher'[p] = Checkpointer, written'[p]
        PROVE  Holds(wal', page_cache'[p], p, ck'.begin - 1)
    <3>0. flusher'[p] # None /\ ck.pc = "flush"
      <4>1. ~ck_collect
        BY <1>5, Zenon DEF ck_collect, At, Collected
      <4> QED
        BY <2>3, <4>1, TodoSteps, CrashRecoveryAssumption, Zenon DEF None
    <3>1. CASE page_cache'[p] = page_cache[p] /\ flusher[p] = Checkpointer /\ written[p]
      <4>1. Holds(wal, page_cache[p], p, ck.begin - 1)
        BY <3>0, <3>1, Zenon DEF Contents
      <4> QED
        BY <2>1, <3>1, <4>1, Zenon
    <3>2. CASE Written(p)
      <4>1. Holds(wal, mem[p], p, Len(wal)) /\ page_cache'[p] = mem[p]
        BY <1>2, <3>2, HoldsAll, Zenon DEF Written
      <4> QED
        BY <2>1, <4>1, Zenon
    <3>3. CASE flusher[p] = None
      <4>1. ~written[p]
        BY <3>3, Zenon DEF Clean, CleanPage
      <4> QED
        BY <1>2, <2>3, <3>0, <3>2, <3>3, <4>1, PageSteps, Zenon
           DEF Untouched, Latched, Placed, Claimed, Synced, Failed
    <3> QED
      BY <1>2, <2>3, <3>0, <3>1, <3>2, <3>3, PageSteps, Zenon
         DEF Untouched, Latched, Placed, Claimed, Synced, Failed
  <2> QED
    BY <2>2, <2>3, Zenon
<1> QED
  BY <1>1, <1>4, <1>5, CkSteps, Zenon

LEMMA NextContents ==
  ASSUME IInv, Next, IInv', Clean, NEW p \in Pages \ inflight', Contents(p)
  PROVE  Contents(p)'
<1>1. \A i \in 1..Len(wal') : wal'[i].t = "fpi" /\ wal'[i].page = p =>
         Holds(wal', wal'[i].body, p, i - 1)
  BY NextImagesHold, Zenon
<1>2. /\ Holds(wal', data_file'[p], p, superblock'.checkpoint_lsn - 1)
      /\ data_file'[p] # Torn => Holds(wal', data_file'[p], p, data_file'[p].lsn)
  BY NextFileHolds, Zenon
<1>3. /\ page_cache'[p] # Torn => Holds(wal', page_cache'[p], p, page_cache'[p].lsn)
      /\ mem'[p] # Torn => Holds(wal', mem'[p], p, mem'[p].lsn)
      /\ up' /\ mem'[p] # Torn => \A i \in 1..Len(wal') :
           wal'[i].t = "insert" /\ wal'[i].page = p =>
              wal'[i].xid \in mem'[p].tuples \/ latch'[p] = wal'[i].xid
  BY NextMemoryHolds, Zenon
<1>4. /\ ck'.pc \in Collected /\ p \notin ck'.todo =>
           Holds(wal', data_file'[p], p, ck'.begin - 1)
      /\ ck'.pc = "flush" /\ flusher'[p] = Checkpointer /\ written'[p] =>
           Holds(wal', page_cache'[p], p, ck'.begin - 1)
  BY NextCheckpointHolds, Zenon
<1> QED
  BY <1>1, <1>2, <1>3, <1>4, Zenon DEF Contents, ImageOf, InsertOn, RedoStart

\* The inductive invariant behind the tuples of committed transactions.
TupleInv == IInv /\ Writes /\ Clean /\ \A p \in Pages \ inflight : Contents(p)

LEMMA InitialTuples ==
  ASSUME Init
  PROVE  TupleInv
<1>1. IInv
  BY InitialOutcomes, Zenon
<1>0. PICK n \in 0..(MaxLsn - 2), fresh \in SUBSET Pages :
        \E inits \in Bijection(1..n, fresh) : InitWith(n, fresh, inits)
  BY Zenon DEF Init
<1>2. PICK inits \in Bijection(1..n, fresh) : InitWith(n, fresh, inits)
  BY <1>0, Zenon
<1>3. /\ up /\ ck = Resting /\ superblock.checkpoint_lsn = 1 /\ inflight = {}
      /\ wrote = [x \in Xids |-> {}]
      /\ page_cache = [p \in Pages |-> Blank] /\ data_file = page_cache
      /\ latch = [p \in Pages |-> 0] /\ flusher = [p \in Pages |-> None]
      /\ written = [p \in Pages |-> FALSE]
  BY Zenon DEF Init
<1>4. /\ dirty = [p \in Pages |-> p \in fresh] /\ needs_fpi = [p \in Pages |-> p \notin fresh]
  BY <1>2, Zenon DEF InitWith
<1>5. Writes
  BY <1>3, Zenon DEF Writes
<1>6. ASSUME NEW p \in Pages
      PROVE  \E k \in Nat : mem[p] = [lsn |-> k, tuples |-> {}] /\ (p \notin fresh => k = 0)
  <2>1. PICK k \in 0..Len(wal) : mem[p] = [lsn |-> k, tuples |-> {}] /\ (p \notin fresh => k = 0)
    BY <1>2, InitialLog, Zenon
  <2>2. k \in Nat
    BY <1>1, Numbers DEF IInv
  <2> QED
    BY <2>1, <2>2, Zenon
<1>7. Torn # Blank /\ \A p \in Pages : mem[p] # Torn
  <2>1. Blank \in [lsn : 0..MaxLsn, tuples : SUBSET (1..MaxXid)]
    BY CrashRecoveryAssumption DEF Blank
  <2>2. \A p \in Pages : mem[p] # Torn
    <3>1. TAKE p \in Pages
    <3>2. PICK k \in 0..Len(wal) : mem[p] = [lsn |-> k, tuples |-> {}]
      BY <1>2, InitialLog, Zenon
    <3>3. mem[p] \in [lsn : 0..MaxLsn, tuples : SUBSET (1..MaxXid)]
      BY <1>1, <3>2, Numbers DEF IInv
    <3> QED
      BY <3>3, CrashRecoveryAssumption, Zenon
  <2> QED
    BY <2>1, <2>2, CrashRecoveryAssumption, Zenon
<1>8. ASSUME NEW p \in Pages PROVE CleanPage(p)
  <2>1. PICK k \in Nat : mem[p] = [lsn |-> k, tuples |-> {}] /\ (p \notin fresh => k = 0)
    BY <1>6, Zenon
  <2>2. page_cache[p] = Blank /\ data_file[p] = Blank /\ (p \notin fresh => mem[p] = Blank)
    BY <1>3, <2>1, Zenon DEF Blank
  <2>3. Below(data_file[p], page_cache[p]) /\ Below(page_cache[p], mem[p])
    BY <2>1, <2>2 DEF Below, Blank
  <2> QED
    BY <1>3, <1>4, <1>7, <2>2, <2>3, Zenon DEF CleanPage
<1>9. CkPages
  BY <1>3, Zenon DEF CkPages, Resting, ClogSaved, Collected
<1>10. ASSUME NEW p \in Pages PROVE Contents(p)
  <2>1. \A i \in 1..Len(wal) : wal[i].t # "insert"
    <3>1. TAKE i \in 1..Len(wal)
    <3>2. i = 1 \/ i = 2 \/ i \in 3..Len(wal)
      BY <1>1, Numbers DEF IInv
    <3>3. CASE i \in 3..Len(wal)
      <4>1. PICK q \in fresh : wal[i] = Rec("fpi", q, 0, Blank)
        BY <1>2, <3>3, InitialLog, Zenon
      <4> QED
        BY <4>1 DEF Rec
    <3>4. wal[1].t = "begin" /\ wal[2].t = "end"
      BY <1>2, InitialLog DEF Rec
    <3> QED
      BY <3>2, <3>3, <3>4, Zenon
  <2>2. ASSUME NEW img, NEW m \in Int, m <= Len(wal) PROVE Holds(wal, img, p, m)
    BY <1>1, <2>1, <2>2, Numbers DEF Holds, IInv
  <2>3. /\ Len(wal) \in Nat /\ Len(wal) >= 1
        /\ data_file[p] # Torn => data_file[p].lsn \in Int /\ data_file[p].lsn <= Len(wal)
        /\ page_cache[p] # Torn => page_cache[p].lsn \in Int /\ page_cache[p].lsn <= Len(wal)
        /\ mem[p] # Torn => mem[p].lsn \in Int /\ mem[p].lsn <= Len(wal)
    <3>1. Len(wal) \in 2..MaxLsn
      BY <1>2, InitialLog, Zenon
    <3>2. Typed /\ Lsns
      BY <1>1, Zenon DEF IInv, Pool
    <3>3. synced \in Nat /\ synced <= Len(wal) /\ Len(wal) \in Nat
      BY <3>2, Numbers, Zenon
    <3>4. /\ data_file[p] # Torn => data_file[p].lsn \in Nat /\ data_file[p].lsn <= synced
          /\ page_cache[p] # Torn => page_cache[p].lsn \in Nat /\ page_cache[p].lsn <= synced
          /\ mem[p] # Torn => mem[p].lsn \in Nat /\ mem[p].lsn <= Len(wal)
      BY <3>2, ImageLsns, Zenon DEF Lsns
    <3> QED
      BY <3>1, <3>3, <3>4
  <2>4. RedoStart = 1 /\ ck.pc = "idle"
    BY <1>3, Zenon DEF RedoStart, Resting
  <2> QED
    BY <2>1, <2>2, <2>3, <2>4 DEF Contents, InsertOn, Collected
<1> QED
  BY <1>1, <1>5, <1>8, <1>9, <1>10, Zenon DEF TupleInv, Clean

LEMMA TuplesKept ==
  ASSUME TupleInv, [Next]_vars
  PROVE  TupleInv'
<1>1. IInv'
  BY InvariantKept, Zenon DEF TupleInv
<1>2. CASE Next
  <2>0. Typed /\ Log
    BY Zenon DEF TupleInv, IInv
  <2>1. Writes'
    BY <1>1, <1>2, NextWrites, Zenon DEF TupleInv
  <2>2. Clean'
    BY <1>1, <1>2, NextClean, Zenon DEF TupleInv
  <2>3. ASSUME NEW p \in Pages \ inflight' PROVE Contents(p)'
    <3>1. p \notin inflight
      BY <1>2, <2>0, TodoSteps, Zenon
    <3> QED
      BY <1>1, <1>2, <3>1, NextContents, Zenon DEF TupleInv
  <2> QED
    BY <1>1, <2>1, <2>2, <2>3, Zenon DEF TupleInv
<1>3. CASE UNCHANGED vars
  <2>1. Writes'
    BY <1>3, Zenon DEF TupleInv, Writes, vars, walVars, clogVars, txnVars, runVars, ghostVars
  <2>2. Clean'
    BY <1>3, Zenon DEF TupleInv, Clean, CleanPage, CkPages, vars, poolVars, fileVars, ckVars, runVars,
                       ghostVars
  <2>3. ASSUME NEW p \in Pages, Contents(p) PROVE Contents(p)'
    BY <1>3, <2>3, Zenon DEF Contents, InsertOn, ImageOf, RedoStart, vars, walVars, poolVars, fileVars,
                             ckVars, runVars
  <2>4. inflight' = inflight
    BY <1>3, Zenon DEF vars, runVars, ghostVars
  <2> QED
    BY <1>1, <2>1, <2>2, <2>3, <2>4, Zenon DEF TupleInv
<1> QED
  BY <1>2, <1>3, Zenon

(* Every tuple of a committed transaction is on its page after every restart, whatever *)
(* crashes and checkpoints did in between, except on a page that a flush by another    *)
(* thread had in flight when a checkpoint collected the dirty pages.                   *)
THEOREM CommitsAreAtomic == Spec => []CommitAtomic
<1>1. TupleInv => CommitAtomic
  <2>1. SUFFICES ASSUME TupleInv, up, NEW x \in Xids, clog[x] = "Committed",
                        NEW p \in wrote[x] \ inflight, mem[p] # Torn
                 PROVE  x \in mem[p].tuples
    BY Zenon DEF CommitAtomic
  <2>2. p \in Pages /\ Contents(p)
    BY <2>1, Zenon DEF TupleInv, IInv, Typed, TypeOK
  <2>3. Wrote(wal, x, p, synced)
    BY <2>1, Zenon DEF TupleInv, Writes
  <2>4. PICK i \in 1..Len(wal) : InsertOn(i, p) /\ wal[i].xid = x
    BY <2>1, <2>3, Numbers DEF Wrote, InsertOn, TupleInv, IInv
  <2>5. txn[x] = "ended"
    BY <2>1, Zenon DEF TupleInv, IInv, Fates, FateOfTxn
  <2>6. latch[p] # x
    BY <2>1, <2>2, <2>5, Holders DEF TupleInv, IInv, Pool, Latches
  <2> QED
    BY <2>1, <2>2, <2>4, <2>6, Zenon DEF Contents
<1> QED
  BY <1>1, InitialTuples, TuplesKept, PTL DEF Spec
=============================================================================
