------------------------ MODULE CrashRecoveryProofs ------------------------
(***************************************************************************)
(* What recovery restores of the outcomes of transactions, proved for any  *)
(* number of pages, transactions, log records, crashes and flushing        *)
(* threads.                                                                *)
(***************************************************************************)
EXTENDS WriteAheadProofs

Outcome(i) == IF wal[i].t = "commit" THEN "Committed" ELSE "Aborted"

\* A replay of the log up to n, from the redo point, meets x, or the superblock does.
Knows(sb, log, x, n) ==
    x < sb.next_txn_id \/ \E i \in sb.checkpoint_lsn..n : log[i].xid = x

\* The XID clock the superblock saves covers everything before the redo point.
ClockTraces ==
    /\ \A i \in 1..(RedoStart - 1) : wal[i].xid < superblock.next_txn_id
    /\ up => /\ superblock.next_txn_id <= next_txn_id
             /\ \A i \in 1..Len(wal) : wal[i].xid < next_txn_id
             /\ \A x \in ck.att : x < next_txn_id
    /\ ck.pc \in Numbered =>
         /\ superblock.next_txn_id <= ck.next /\ ck.next <= next_txn_id
         /\ \A i \in 1..(ck.begin - 1) : wal[i].xid < ck.next

\* So do the snapshots of active transactions that a restart reads.
SnapshotTraces ==
    \A i \in 1..Len(wal) : wal[i].t = "end" =>
        /\ wal[i].body.ck = RedoStart =>
              \A x \in wal[i].body.att : x < superblock.next_txn_id
        /\ wal[i].body.ck = ck.begin /\ ck.pc \in Numbered =>
              \A x \in wal[i].body.att : x < ck.next
        /\ ck.pc \in Running \ Numbered => wal[i].body.ck # ck.begin

\* A tuple on a page comes from a transaction that a replay up to the page's LSN
\* knows, ...
Traced(sb, log, img) ==
    img # Torn => \A x \in img.tuples : Knows(sb, log, x, img.lsn)

PageTraces ==
    /\ \A p \in Pages : /\ Traced(superblock, wal, mem[p])
                        /\ Traced(superblock, wal, page_cache[p])
                        /\ Traced(superblock, wal, data_file[p])
    /\ \A i \in 1..Len(wal) : wal[i].t = "fpi" =>
         \A x \in wal[i].body.tuples : Knows(superblock, wal, x, i)

\* ... and so does an outcome.
ClogTraces ==
    \A x \in Xids :
        \/ clog[x] # "InProgress" \/ clog_cache[x] # "InProgress"
        \/ clog_file[x] # "InProgress" \/ told[x] # "InProgress"
        => Knows(superblock, wal, x, synced)

\* The CLOG, in all its copies, and whoever was told an outcome agree with the one
\* record that ends the transaction; before the redo point the fsynced CLOG has it.
FateOf(i) ==
    LET x == wal[i].xid IN
    /\ clog[x] \in {"InProgress", Outcome(i)}
    /\ clog_cache[x] \in {"InProgress", Outcome(i)}
    /\ clog_file[x] \in {"InProgress", Outcome(i)}
    /\ told[x] \in {"InProgress", Outcome(i)}
    /\ up => x \in Committing \/ (txn[x] = "ended" /\ clog[x] = Outcome(i))
    /\ i < RedoStart => clog_file[x] = Outcome(i)
    /\ ck.pc \in ClogSaved /\ i < ck.begin => clog_file[x] = Outcome(i)

\* An outcome reaches the CLOG, its file and the durable file in this order, and is
\* made visible only when a restart would find it.
FateOfTxn(x) ==
    /\ txn[x] \in {"commit", "commit_synced"} =>
         \E i \in 1..Len(wal) : /\ wal[i].t = "commit" /\ wal[i].xid = x
                                /\ txn[x] = "commit_synced" => i <= synced
    /\ txn[x] \in {"abort", "abort_synced"} =>
         \E i \in 1..Len(wal) : /\ wal[i].t = "abort" /\ wal[i].xid = x
                                /\ txn[x] = "abort_synced" => i <= synced
    /\ up /\ txn[x] # "ended" => clog[x] = "InProgress" /\ told[x] = "InProgress"
    /\ clog_file[x] \in {"InProgress", clog_cache[x]}
    /\ clog_cache[x] \in {"InProgress", clog[x]}
    /\ told[x] = "Committed" =>
         /\ up => clog[x] = "Committed"
         /\ ck.pc \in ClogSaved => clog_file[x] = "Committed"
         /\ \/ clog_file[x] = "Committed"
            \/ \E i \in RedoStart..synced : wal[i].t = "commit" /\ wal[i].xid = x
    /\ told[x] = "Aborted" => clog[x] # "Committed"

Fates ==
    /\ \A i, j \in 1..Len(wal) :
         wal[i].t \in Ending /\ wal[j].t \in Ending /\ wal[i].xid = wal[j].xid => i = j
    /\ \A i \in 1..Len(wal) : wal[i].t \in Ending => FateOf(i)
    /\ \A x \in Xids : FateOfTxn(x)
    /\ ck.pc # "idle" => Committing = {}

Traces == ClockTraces /\ SnapshotTraces /\ PageTraces /\ ClogTraces

\* The inductive invariant behind the outcomes.
IInv == Typed /\ Log /\ Clock /\ Pool /\ Downtime /\ Traces /\ Fates

(***************************************************************************)
(* What a step does to the log and to the checkpoint in progress.          *)
(***************************************************************************)

(* A step adds at most one record, and only a crash takes some away.       *)
LEMMA LogSteps ==
  ASSUME Typed, Log, Pool, Typed', Next
  PROVE  /\ synced <= synced'
         /\ \A i \in 1..Len(wal) : i <= Len(wal') => wal'[i] = wal[i]
         /\ ~crash => Len(wal) <= Len(wal')
         /\ Len(wal') <= Len(wal) + 1
         /\ Len(wal') > Len(wal) =>
              /\ up /\ up' /\ UNCHANGED <<synced, superblock, next_txn_id>>
              /\ \/ \E x \in Xids, p \in Pages :
                      /\ pin_mut(x, p) /\ FpiDue(p)
                      /\ wal'[Len(wal) + 1] = Rec("fpi", p, 0, mem[p])
                 \/ \E x \in Xids :
                      /\ log_insert(x)
                      /\ wal'[Len(wal) + 1] = Rec("insert", Pinned(x), x, <<>>)
                 \/ \E x \in Xids, kind \in Ending :
                      /\ append_end(x, kind)
                      /\ wal'[Len(wal) + 1] = Rec(kind, None, x, <<>>)
                 \/ ck_begin /\ wal'[Len(wal) + 1] = Rec("begin", None, 0, <<>>)
                 \/ /\ ck_end
                    /\ wal'[Len(wal) + 1] =
                         Rec("end", None, 0, [ck |-> ck.begin, att |-> ck.att])
<1> DEFINE Adds(r) == /\ Len(wal') = Len(wal) + 1 /\ wal'[Len(wal) + 1] = r
                      /\ \A i \in 1..Len(wal) : wal'[i] = wal[i]
<1>0. Len(wal) \in Nat /\ synced \in Nat /\ synced <= Len(wal) /\ synced' \in Nat
      /\ Len(wal') \in Nat
  BY Numbers, NumbersNext, Zenon
<1>1. ASSUME NEW r \in Record, wal' = Append(wal, r) PROVE Adds(r)
  BY <1>1, AppendWal, Zenon
<1>2. CASE Transaction
  <2>1. CASE begin
    BY <1>0, <2>1 DEF begin, walVars
  <2>2. ASSUME NEW x \in Xids, NEW p \in Pages, pin_mut(x, p), FpiDue(p)
        PROVE  Adds(Rec("fpi", p, 0, mem[p]))
    BY <1>1, <2>2, ImageFormed, Zenon DEF pin_mut
  <2>3. ASSUME NEW x \in Xids, NEW p \in Pages, pin_mut(x, p), ~FpiDue(p)
        PROVE  wal' = wal
    BY <2>3, Zenon DEF pin_mut
  <2>4. ASSUME NEW x \in Xids, NEW p \in Pages, pin_mut(x, p)
        PROVE  up /\ up' /\ UNCHANGED <<synced, superblock, next_txn_id>>
    BY <2>4, Zenon DEF pin_mut, runVars, ckVars
  <2>5. ASSUME NEW x \in Xids, log_insert(x)
        PROVE  /\ Adds(Rec("insert", Pinned(x), x, <<>>))
               /\ up /\ up' /\ UNCHANGED <<synced, superblock, next_txn_id>>
    BY <1>1, <2>5, InsertFormed, Zenon DEF log_insert, ckVars
  <2>6. ASSUME NEW x \in Xids, place_tuple(x) PROVE UNCHANGED <<wal, synced>>
    BY <2>6, Zenon DEF place_tuple, walVars
  <2>7. ASSUME NEW x \in Xids, NEW kind \in Ending, append_end(x, kind)
        PROVE  /\ Adds(Rec(kind, None, x, <<>>))
               /\ up /\ up' /\ UNCHANGED <<synced, superblock, next_txn_id>>
    BY <1>1, <2>7, EndFormed, Zenon DEF append_end, ckVars, runVars
  <2>8. ASSUME NEW x \in Xids, NEW kind \in Ending, flush_end(x, kind)
        PROVE  wal' = wal /\ synced' = Len(wal)
    BY <2>8, Zenon DEF flush_end
  <2>9. ASSUME NEW x \in Xids, NEW state \in {"Committed", "Aborted"}, end_txn(x, state)
        PROVE  UNCHANGED <<wal, synced>>
    BY <2>9, Zenon DEF end_txn, walVars
  <2>10. CASE UNCHANGED wal /\ (synced' = synced \/ synced' = Len(wal))
    BY <1>0, <2>10, SMTT(30)
  <2>11. CASE \E x \in Xids, p \in Pages : pin_mut(x, p)
    BY <1>0, <2>2, <2>3, <2>4, <2>10, <2>11
  <2>12. CASE \E x \in Xids : log_insert(x)
    BY <1>0, <2>5, <2>12
  <2>13. CASE \E x \in Xids : \E kind \in Ending : append_end(x, kind)
    BY <1>0, <2>7, <2>13
  <2> QED
    BY <1>2, <2>1, <2>6, <2>8, <2>9, <2>10, <2>11, <2>12, <2>13, Zenon DEF Transaction, Ending
<1>3. CASE Flush \/ clog_evict \/ recover \/ crash_in_recovery
  <2>1. UNCHANGED wal /\ (synced' = synced \/ synced' = Len(wal))
    BY <1>3, Zenon DEF Flush, FlushClaim, FlushWrite, FlushSync, FlushFail, clog_evict, recover,
                crash_in_recovery, walVars
  <2> QED
    BY <1>0, <2>1
<1>4. CASE Checkpoint
  <2>1. CASE ck_begin
    <3>1. Adds(Rec("begin", None, 0, <<>>))
      BY <1>1, <2>1, BeginFormed, Zenon DEF ck_begin
    <3> QED
      BY <1>0, <2>1, <3>1 DEF ck_begin, At, runVars, txnVars
  <2>2. CASE ck_end
    <3>1. Adds(Rec("end", None, 0, [ck |-> ck.begin, att |-> ck.att]))
      BY <1>1, <2>2, CkEndFormed, Zenon DEF ck_end, At
    <3> QED
      BY <1>0, <2>2, <3>1 DEF ck_end, At, runVars, txnVars
  <2>3. CASE ~ck_begin /\ ~ck_end
    <3>1. UNCHANGED wal /\ (synced' = synced \/ synced' = Len(wal))
      BY <1>4, <2>3, Zenon DEF Checkpoint, ck_publish, ck_snapshot, ck_collect, ck_skip, ck_clog,
                        ck_sync, ck_superblock, ck_recycle, ck_fail, walVars
    <3> QED
      BY <1>0, <3>1
  <2> QED
    BY <2>1, <2>2, <2>3, Zenon
<1>5. CASE crash
  <2>1. PICK n \in synced..Len(wal) : wal' = SubSeq(wal, 1, n) /\ synced' = n
    BY <1>5, Zenon DEF crash
  <2>2. Len(wal') = n /\ \A i \in 1..n : wal'[i] = wal[i]
    BY <1>0, <2>1, CutWal
  <2> QED
    BY <1>0, <1>5, <2>1, <2>2
<1> QED
  BY <1>2, <1>3, <1>4, <1>5, Zenon DEF Next

(* What the steps of a transaction leave alone.                            *)
LEMMA TransactionFrame ==
  ASSUME Transaction
  PROVE  /\ up /\ up'
         /\ UNCHANGED <<wal_start, needs_fpi, flusher, written, checkpoint_lsn, page_cache,
                        data_file, clog_cache, clog_file, ck, superblock, crashes, inflight>>
<1> DEFINE Frame == /\ up /\ up'
                    /\ UNCHANGED <<wal_start, needs_fpi, flusher, written, checkpoint_lsn,
                                   page_cache, data_file, clog_cache, clog_file, ck,
                                   superblock, crashes, inflight>>
<1> USE DEF walVars, poolVars, fileVars, clogVars, ckVars, runVars, ghostVars
<1>1. CASE begin
  BY <1>1, Zenon DEF begin
<1>2. ASSUME NEW x \in Xids, NEW p \in Pages, pin_mut(x, p) PROVE Frame
  BY <1>2, Zenon DEF pin_mut
<1>3. ASSUME NEW x \in Xids, log_insert(x) PROVE Frame
  BY <1>3, Zenon DEF log_insert
<1>4. ASSUME NEW x \in Xids, place_tuple(x) PROVE Frame
  BY <1>4, Zenon DEF place_tuple
<1>5. ASSUME NEW x \in Xids, NEW kind \in Ending, append_end(x, kind) \/ flush_end(x, kind)
      PROVE  Frame
  BY <1>5 DEF append_end, flush_end
<1>6. ASSUME NEW x \in Xids, NEW state \in {"Committed", "Aborted"}, end_txn(x, state)
      PROVE  Frame
  BY <1>6, Zenon DEF end_txn
<1> QED
  BY <1>1, <1>2, <1>3, <1>4, <1>5, <1>6, Zenon DEF Transaction, Ending

(* How the checkpoint in progress, and the superblock, move on.            *)
LEMMA CkSteps ==
  ASSUME Typed, Log, Next
  PROVE  /\ superblock' = superblock \/ ck_superblock
         /\ ck'.pc # "idle" => ck.pc # "idle" \/ ck_begin
         /\ ck'.pc \in Running => ck_begin \/ (ck.pc \in Running /\ ck'.begin = ck.begin)
         /\ ck'.pc \in Running \ Numbered =>
              ck_begin \/ (ck.pc \in Running \ Numbered /\ ck'.begin = ck.begin)
         /\ ck'.pc \in Numbered =>
              \/ ck_end
              \/ ck.pc \in Numbered /\ ck'.begin = ck.begin /\ ck'.next = ck.next
         /\ ck'.pc \in Collected =>
              ck_collect \/ (ck.pc \in Collected /\ ck'.begin = ck.begin)
         /\ ck'.pc \in ClogSaved =>
              ck_clog \/ (ck.pc \in ClogSaved /\ ck'.begin = ck.begin)
         /\ ck'.att \subseteq ck.att \/ ck_snapshot
<1> TypeOK
  BY Zenon DEF Typed
<1> DEFINE Same == /\ ck'.pc = ck.pc /\ ck'.begin = ck.begin /\ ck'.next = ck.next
                   /\ ck'.att = ck.att /\ superblock' = superblock
           Rests == ck' = Resting /\ superblock' = superblock
           Goes(a, b) == /\ ck.pc = a /\ ck'.pc = b /\ ck'.begin = ck.begin
                         /\ superblock' = superblock
<1>1. CASE Same
  BY <1>1, Zenon
<1>2. CASE Rests
  BY <1>2, Zenon DEF Resting, Running, Numbered, Collected, ClogSaved
<1>3. CASE Transaction
  <2>1. UNCHANGED ckVars
    BY <1>3, Zenon DEF Transaction, begin, pin_mut, log_insert, place_tuple, append_end, flush_end, end_txn
  <2> QED
    BY <1>1, <2>1, Zenon DEF ckVars
<1>4. CASE Flush
  <2>1. ASSUME NEW p \in Pages, NEW t \in Threads, FlushClaim(t, p) PROVE Same
    BY <2>1, Zenon DEF FlushClaim, ckVars
  <2>2. ASSUME NEW p \in Pages, FlushWrite(p) PROVE Same
    BY <2>2, Zenon DEF FlushWrite, ckVars
  <2>3. ASSUME NEW p \in Pages, FlushSync(p) PROVE Same
    BY <2>3, Zenon DEF FlushSync, Done, TypeOK
  <2>4. ASSUME NEW p \in Pages, FlushFail(p) PROVE Same \/ Rests
    BY <2>4, Zenon DEF FlushFail
  <2> QED
    BY <1>1, <1>2, <1>4, <2>1, <2>2, <2>3, <2>4, Zenon DEF Flush
<1>5. CASE clog_evict \/ recover
  BY <1>1, <1>5, Zenon DEF clog_evict, recover, ckVars
<1>6. CASE crash \/ crash_in_recovery
  BY <1>2, <1>6, Zenon DEF crash, crash_in_recovery, Down
<1>7. CASE Checkpoint
  <2> USE DEF At, CkGo
  <2>1. CASE ck_begin
    <3>1. ck'.pc = "begun" /\ ck'.att = {} /\ superblock' = superblock
      BY <2>1, Zenon DEF ck_begin, Resting
    <3> QED
      BY <2>1, <3>1, Zenon DEF Running, Numbered, Collected, ClogSaved
  <2>2. CASE ck_publish
    <3>1. Goes("begun", "published") /\ ck'.att = ck.att
      BY <2>2, Zenon DEF ck_publish, TypeOK
    <3> QED
      BY <2>2, <3>1, Zenon DEF Running, Numbered, Collected, ClogSaved
  <2>3. CASE ck_snapshot
    <3>1. Goes("published", "sampled")
      BY <2>3, Zenon DEF ck_snapshot, TypeOK
    <3> QED
      BY <2>3, <3>1, Zenon DEF Running, Numbered, Collected, ClogSaved
  <2>4. CASE ck_collect
    <3>1. Goes("sampled", "flush") /\ ck'.att = ck.att
      BY <2>4, Zenon DEF ck_collect, TypeOK
    <3> QED
      BY <2>4, <3>1, Zenon DEF Running, Numbered, Collected, ClogSaved
  <2>5. ASSUME NEW p \in Pages, ck_skip(p) PROVE Same
    BY <2>5, Zenon DEF ck_skip, Done, TypeOK
  <2>6. CASE ck_clog
    <3>1. Goes("flush", "ending") /\ ck'.att = ck.att
      BY <2>6, Zenon DEF ck_clog, TypeOK
    <3> QED
      BY <2>6, <3>1, Zenon DEF Running, Numbered, Collected, ClogSaved
  <2>7. CASE ck_end
    <3>1. Goes("ending", "syncing") /\ ck'.att = ck.att
      BY <2>7, Zenon DEF ck_end, TypeOK
    <3> QED
      BY <2>7, <3>1, Zenon DEF Running, Numbered, Collected, ClogSaved
  <2>8. CASE ck_sync
    <3>1. Goes("syncing", "super") /\ ck'.att = ck.att /\ ck'.next = ck.next
      BY <2>8, Zenon DEF ck_sync, TypeOK
    <3> QED
      BY <2>8, <3>1, Zenon DEF Running, Numbered, Collected, ClogSaved
  <2>9. CASE ck_superblock
    <3>1. ck.pc = "super" /\ ck'.pc = "recycle" /\ ck'.att = ck.att
      BY <2>9, Zenon DEF ck_superblock, TypeOK
    <3> QED
      BY <2>9, <3>1, Zenon DEF Running, Numbered, Collected, ClogSaved
  <2>10. CASE ck_recycle \/ ck_fail
    BY <1>2, <2>10, Zenon DEF ck_recycle, ck_fail
  <2> QED
    BY <1>1, <1>7, <2>1, <2>2, <2>3, <2>4, <2>5, <2>6, <2>7, <2>8, <2>9, <2>10, Zenon DEF Checkpoint
<1> QED
  BY <1>3, <1>4, <1>5, <1>6, <1>7, Zenon DEF Next

(* What the superblock takes over from the checkpoint.                      *)
LEMMA SuperblockMoves ==
  ASSUME Typed, Log, ck_superblock
  PROVE  /\ ck.pc = "super" /\ ck'.pc = "recycle" /\ ck'.begin = ck.begin
         /\ superblock'.checkpoint_lsn = ck.begin /\ superblock'.next_txn_id = ck.next
         /\ ck.begin > RedoStart /\ ck.begin <= synced
         /\ UNCHANGED <<walVars, poolVars, fileVars, clogVars, txnVars, runVars>>
<1> TypeOK
  BY Zenon DEF Typed
<1>1. ck.pc = "super" /\ ck'.pc = "recycle" /\ ck'.begin = ck.begin
  BY Zenon DEF ck_superblock, At, CkGo, TypeOK
<1>2. ck.begin > RedoStart /\ ck.begin <= synced
  BY <1>1, Numbers DEF Log, Running
<1> QED
  BY <1>1, <1>2, Zenon DEF ck_superblock

(* What a replay knows, it goes on knowing.                                *)
LEMMA KnowsMore ==
  ASSUME Typed, Log, Pool, ClockTraces, Typed', Next,
         NEW x \in Nat, NEW m \in Nat, NEW n \in Nat, m <= n, m <= Len(wal), m <= Len(wal'),
         Knows(superblock, wal, x, m)
  PROVE  Knows(superblock', wal', x, n)
<1>0. RedoStart \in Nat /\ RedoStart >= 1 /\ Len(wal) \in Nat /\ superblock.next_txn_id \in Nat
      /\ ck.next \in Nat /\ ck.begin \in Nat
  BY Numbers, Zenon
<1>1. \A i \in 1..m : wal'[i] = wal[i]
  BY <1>0, LogSteps
<1>2. CASE superblock' = superblock
  BY <1>0, <1>1, <1>2 DEF Knows, RedoStart
<1>3. CASE ck_superblock
  <2>1. /\ superblock.next_txn_id <= ck.next
        /\ \A i \in 1..(ck.begin - 1) : wal[i].xid < ck.next
        /\ superblock'.checkpoint_lsn = ck.begin /\ superblock'.next_txn_id = ck.next
    BY <1>3, SuperblockMoves, Zenon DEF ClockTraces, Numbered
  <2>2. CASE x < superblock.next_txn_id
    BY <1>0, <2>1, <2>2 DEF Knows
  <2>3. ASSUME NEW i \in RedoStart..m, wal[i].xid = x PROVE Knows(superblock', wal', x, n)
    <3>1. CASE i < ck.begin
      <4>1. wal[i].xid < ck.next
        BY <1>0, <2>1, <2>3, <3>1
      <4> QED
        BY <2>1, <2>3, <4>1, Zenon DEF Knows
    <3>2. CASE i >= ck.begin
      BY <1>0, <1>1, <2>1, <2>3, <3>2 DEF Knows
    <3> QED
      BY <1>0, <3>1, <3>2
  <2> QED
    BY <2>2, <2>3, Zenon DEF Knows, RedoStart
<1> QED
  BY <1>2, <1>3, CkSteps, Zenon

(***************************************************************************)
(* The traces that transactions leave.                                     *)
(***************************************************************************)

(* The clock while the process runs.                                       *)
LEMMA ClockSteps ==
  ASSUME Typed, Log, Typed', Next, up, up'
  PROVE  next_txn_id <= next_txn_id'
<1>1. next_txn_id \in Nat
  BY Numbers, Zenon
<1>2. CASE begin
  BY <1>1, <1>2 DEF begin
<1>3. CASE ~begin
  <2>1. next_txn_id' = next_txn_id
    <3>1. CASE Transaction
      BY <1>3, <3>1, Zenon DEF Transaction, pin_mut, log_insert, place_tuple, append_end, flush_end, end_txn
    <3>2. CASE Flush \/ clog_evict
      BY <3>2, Zenon DEF Flush, FlushClaim, FlushWrite, FlushSync, FlushFail, clog_evict, txnVars
    <3>3. CASE Checkpoint
      BY <3>3, Zenon DEF Checkpoint, ck_begin, ck_publish, ck_snapshot, ck_collect, ck_skip, ck_clog,
                  ck_end, ck_sync, ck_superblock, ck_recycle, ck_fail, txnVars
    <3>4. CASE crash \/ recover \/ crash_in_recovery
      BY <3>4, Zenon DEF crash, recover, crash_in_recovery, Down
    <3> QED
      BY <3>1, <3>2, <3>3, <3>4, Zenon DEF Next
  <2> QED
    BY <1>1, <2>1
<1> QED
  BY <1>2, <1>3, Zenon

(* Only recovery brings the process back.                                  *)
LEMMA UpSteps ==
  ASSUME Next, up'
  PROVE  up \/ recover
<1>1. CASE Transaction
  BY <1>1, Zenon DEF Transaction, begin, pin_mut, log_insert, place_tuple, append_end, flush_end, end_txn
<1>2. CASE Flush \/ clog_evict
  BY <1>2, Zenon DEF Flush, FlushClaim, FlushWrite, FlushSync, FlushFail, clog_evict
<1>3. CASE Checkpoint
  BY <1>3, Zenon DEF Checkpoint, ck_begin, ck_publish, ck_snapshot, ck_collect, ck_skip, ck_clog,
              ck_end, ck_sync, ck_superblock, ck_recycle, ck_fail, At
<1>4. CASE crash \/ crash_in_recovery
  BY <1>4, Zenon DEF crash, crash_in_recovery, Down
<1> QED
  BY <1>1, <1>2, <1>3, <1>4, Zenon DEF Next

(* A record names no transaction that has not begun.                       *)
LEMMA NewRecordXid ==
  ASSUME Typed, Log, Clock, Pool, Typed', Next, Len(wal') > Len(wal)
  PROVE  wal'[Len(wal) + 1].xid < next_txn_id
<1>1. next_txn_id \in Nat /\ next_txn_id >= 1 /\ up
  BY Numbers, LogSteps, Zenon
<1>2. ASSUME NEW x \in Xids, txn[x] # "none" PROVE x < next_txn_id
  BY <1>1, <1>2 DEF Clock, Xids
<1>3. ASSUME NEW x \in Xids, log_insert(x) PROVE x < next_txn_id
  BY <1>2, <1>3, Zenon DEF log_insert
<1>4. ASSUME NEW x \in Xids, NEW kind \in Ending, append_end(x, kind) PROVE x < next_txn_id
  BY <1>2, <1>4, Zenon DEF append_end
<1> DEFINE r == wal'[Len(wal) + 1]
<1>5. \/ \E p \in Pages : r = Rec("fpi", p, 0, mem[p])
      \/ \E x \in Xids : x < next_txn_id /\ r = Rec("insert", Pinned(x), x, <<>>)
      \/ \E x \in Xids, kind \in Ending : x < next_txn_id /\ r = Rec(kind, None, x, <<>>)
      \/ r = Rec("begin", None, 0, <<>>)
      \/ r = Rec("end", None, 0, [ck |-> ck.begin, att |-> ck.att])
  BY <1>3, <1>4, LogSteps, Zenon
<1> HIDE DEF r
<1>6. r.xid = 0 \/ \E x \in Xids : x < next_txn_id /\ r.xid = x
  BY <1>5 DEF Rec
<1> QED
  BY <1>1, <1>6 DEF r

LEMMA NextClockTraces ==
  ASSUME Typed, Log, Clock, Pool, Downtime, ClockTraces, Typed', Log', Next
  PROVE  ClockTraces'
<1> TypeOK
  BY Zenon DEF Typed
<1> TypeOK'
  BY Zenon DEF Typed
<1> USE DEF RedoStart
<1>0. /\ Len(wal) \in Nat /\ synced \in Nat /\ synced <= Len(wal) /\ superblock.checkpoint_lsn \in Nat
      /\ Len(wal') \in Nat /\ synced' \in Nat /\ synced' <= Len(wal')
      /\ next_txn_id \in Nat /\ next_txn_id' \in Nat /\ superblock.next_txn_id \in Nat
      /\ ck.begin \in Nat /\ ck.next \in Nat /\ ck'.begin \in Nat /\ ck'.next \in Nat
  <2>1. ck'.begin \in Nat /\ ck'.next \in Nat
    BY DEF TypeOK
  <2> QED
    BY <2>1, Numbers, NumbersNext, Zenon
<1>1. /\ superblock.checkpoint_lsn <= synced /\ synced <= synced'
      /\ \A i \in 1..Len(wal) : i <= Len(wal') => wal'[i] = wal[i]
      /\ Len(wal') <= Len(wal) + 1
  BY LogSteps, Zenon DEF Log
<1>2. \A i \in 1..Len(wal') : i \in 1..Len(wal) \/ (i = Len(wal) + 1 /\ Len(wal') > Len(wal))
  BY <1>0, <1>1
<1>3. \A i \in 1..Len(wal) : wal[i].xid \in Nat
  <2>1. wal \in Seq(Record)
    BY Zenon DEF TypeOK
  <2>2. \A i \in 1..Len(wal) : wal[i] \in Record
    BY <2>1
  <2> QED
    BY <2>2 DEF Record
<1>4. \A i \in 1..(superblock'.checkpoint_lsn - 1) : wal'[i].xid < superblock'.next_txn_id
  <2>1. CASE superblock' = superblock
    <3>1. \A i \in 1..(superblock.checkpoint_lsn - 1) : wal'[i] = wal[i]
      <4>1. \A i \in 1..(superblock.checkpoint_lsn - 1) : i \in 1..Len(wal) /\ i <= Len(wal')
        BY <1>0, <1>1
      <4> QED
        BY <1>1, <4>1, Zenon
    <3>2. \A i \in 1..(superblock.checkpoint_lsn - 1) : wal[i].xid < superblock.next_txn_id
      BY Zenon DEF ClockTraces
    <3> QED
      BY <2>1, <3>1, <3>2, Zenon
  <2>2. CASE ck_superblock
    <3>1. UNCHANGED wal
      BY <2>2, Zenon DEF ck_superblock, walVars
    <3> QED
      BY <2>2, <3>1, SuperblockMoves, Zenon DEF ClockTraces, Numbered
  <2> QED
    BY <2>1, <2>2, CkSteps, Zenon
<1>5. ASSUME up' PROVE superblock'.next_txn_id <= next_txn_id'
  <2>1. CASE up
    <3>1. next_txn_id <= next_txn_id'
      BY <1>5, <2>1, ClockSteps, Zenon
    <3>2. CASE superblock' = superblock
      BY <1>0, <2>1, <3>1, <3>2 DEF ClockTraces
    <3>3. CASE ck_superblock
      BY <1>0, <3>1, <3>3, SuperblockMoves DEF ClockTraces, Numbered
    <3> QED
      BY <3>2, <3>3, CkSteps, Zenon
  <2>2. CASE recover
    BY <2>2, NextFacts, Zenon DEF recover, ckVars
  <2> QED
    BY <1>5, <2>1, <2>2, UpSteps, Zenon
<1>6. ASSUME up', NEW i \in 1..Len(wal') PROVE wal'[i].xid < next_txn_id'
  <2>1. CASE up
    <3>1. next_txn_id <= next_txn_id'
      BY <1>6, <2>1, ClockSteps, Zenon
    <3>2. CASE i \in 1..Len(wal)
      <4>1. wal'[i] = wal[i] /\ wal[i].xid < next_txn_id /\ wal[i].xid \in Nat
        <5>1. i <= Len(wal')
          BY <1>0, <1>6
        <5> QED
          BY <1>1, <1>3, <2>1, <3>2, <5>1, Zenon DEF ClockTraces
      <4> QED
        BY <1>0, <3>1, <4>1
    <3>3. CASE i = Len(wal) + 1 /\ Len(wal') > Len(wal)
      <4>1. wal'[i].xid < next_txn_id /\ next_txn_id' = next_txn_id
        BY <3>3, NewRecordXid, LogSteps, Zenon
      <4> QED
        BY <4>1, Zenon
    <3> QED
      BY <1>2, <1>6, <3>2, <3>3, Zenon
  <2>2. CASE recover
    <3>1. UNCHANGED <<wal, superblock>> /\ next_txn_id' = RecoveredNext
      BY <2>2, Zenon DEF recover, walVars, ckVars
    <3>2. CASE i < superblock.checkpoint_lsn
      <4>1. wal[i].xid < superblock.next_txn_id /\ wal[i].xid \in Nat
        BY <1>0, <1>3, <1>6, <3>1, <3>2 DEF ClockTraces
      <4>2. superblock.next_txn_id <= RecoveredNext /\ RecoveredNext \in Nat
        BY <1>0, <3>1, NextFacts, Zenon
      <4> QED
        BY <1>0, <3>1, <4>1, <4>2
    <3>3. CASE ~(i < superblock.checkpoint_lsn)
      BY <1>0, <1>6, <3>1, <3>3, NextFacts DEF Replayed
    <3> QED
      BY <3>2, <3>3, Zenon
  <2> QED
    BY <1>6, <2>1, <2>2, UpSteps, Zenon
<1>7. ASSUME up', NEW x \in ck'.att PROVE x < next_txn_id'
  <2>1. CASE ck_snapshot
    <3>1. x \in Xids /\ txn[x] # "none" /\ up /\ UNCHANGED next_txn_id
      BY <1>7, <2>1, Zenon DEF ck_snapshot, Active, TypeOK, At, txnVars
    <3> QED
      BY <1>0, <3>1, SMTT(30) DEF Clock, Xids
  <2>2. CASE recover
    BY <1>7, <2>2 DEF recover, Downtime, Resting, ckVars
  <2>3. CASE up /\ ck'.att \subseteq ck.att
    <3>1. x \in Xids /\ x < next_txn_id /\ next_txn_id <= next_txn_id'
      BY <1>7, <2>3, ClockSteps, ZenonT(30) DEF ClockTraces, TypeOK
    <3> QED
      BY <1>0, <3>1, SMTT(30) DEF Xids
  <2> QED
    BY <1>7, <2>1, <2>2, <2>3, CkSteps, UpSteps, Zenon
<1>8. ASSUME ck'.pc \in Numbered
      PROVE  /\ superblock'.next_txn_id <= ck'.next /\ ck'.next <= next_txn_id'
             /\ \A i \in 1..(ck'.begin - 1) : wal'[i].xid < ck'.next
  <2>1. up /\ up'
    <3>1. ck' # Resting
      BY <1>8 DEF Resting, Numbered
    <3>2. ~crash /\ ~crash_in_recovery
      BY <3>1, Zenon DEF crash, crash_in_recovery, Down
    <3>3. ~recover
      BY <3>1, Zenon DEF recover, ckVars, Downtime
    <3>4. up'
      BY <3>1, NextDowntime, Zenon DEF Downtime
    <3> QED
      BY <3>3, <3>4, UpSteps, Zenon
  <2>2. next_txn_id <= next_txn_id'
    BY <2>1, ClockSteps, Zenon
  <2>3. superblock' = superblock
    BY <1>8, CkSteps, SuperblockMoves, Zenon DEF Numbered
  <2>4. CASE ck_end
    <3>1. /\ ck.pc = "ending" /\ ck'.next = next_txn_id /\ ck'.begin = ck.begin
          /\ UNCHANGED next_txn_id
      BY <2>4, Zenon DEF ck_end, At, TypeOK, txnVars
    <3>2. ck.begin <= Len(wal)
      BY <1>0, <3>1 DEF Log, Running
    <3>3. \A i \in 1..(ck.begin - 1) : wal'[i] = wal[i] /\ wal[i].xid < next_txn_id
      BY <1>0, <1>1, <2>1, <2>4, <3>2, LogSteps DEF ClockTraces, ck_end, crash, Down
    <3>4. superblock.next_txn_id <= next_txn_id
      BY <2>1, Zenon DEF ClockTraces
    <3> QED
      BY <1>0, <2>3, <3>1, <3>3, <3>4
  <2>5. CASE ck.pc \in Numbered /\ ck'.begin = ck.begin /\ ck'.next = ck.next
    <3>1. ck.begin <= Len(wal) /\ ck.begin <= Len(wal')
      BY <1>0, <1>8, <2>5 DEF Log, Running, Numbered
    <3>2. \A i \in 1..(ck.begin - 1) : wal'[i] = wal[i]
      <4>1. \A i \in 1..(ck.begin - 1) : i \in 1..Len(wal) /\ i <= Len(wal')
        BY <1>0, <3>1
      <4> QED
        BY <1>1, <4>1, Zenon
    <3>3. /\ superblock.next_txn_id <= ck.next /\ ck.next <= next_txn_id
          /\ \A i \in 1..(ck.begin - 1) : wal[i].xid < ck.next
      BY <2>5, Zenon DEF ClockTraces
    <3>4. \A i \in 1..(ck.begin - 1) : wal'[i].xid < ck.next
      BY <3>2, <3>3, Zenon
    <3>5. ck.next <= next_txn_id'
      BY <1>0, <2>2, <3>3
    <3> QED
      BY <2>3, <2>5, <3>3, <3>4, <3>5, Zenon
  <2> QED
    BY <1>8, <2>4, <2>5, CkSteps, Zenon
<1> QED
  BY <1>4, <1>5, <1>6, <1>7, <1>8, Zenon DEF ClockTraces

(* The record a step adds, by its kind.                                    *)
LEMMA NewRecords ==
  ASSUME Typed, Log, Pool, Typed', Next, Len(wal') > Len(wal)
  PROVE  LET r == wal'[Len(wal) + 1] IN
         /\ r.t = "end" => ck_end /\ r.body = [ck |-> ck.begin, att |-> ck.att]
         /\ r.t = "begin" => ck_begin
         /\ r.t = "fpi" => \E x \in Xids, p \in Pages :
              pin_mut(x, p) /\ FpiDue(p) /\ r.page = p /\ r.body = mem[p]
         /\ r.t = "insert" => \E x \in Xids :
              log_insert(x) /\ r.page = Pinned(x) /\ r.xid = x
         /\ r.t \in Ending => r.xid \in Xids /\ append_end(r.xid, r.t)
<1> DEFINE r == wal'[Len(wal) + 1]
<1>1. \/ \E x \in Xids, p \in Pages :
           pin_mut(x, p) /\ FpiDue(p) /\ r = Rec("fpi", p, 0, mem[p])
      \/ \E x \in Xids : log_insert(x) /\ r = Rec("insert", Pinned(x), x, <<>>)
      \/ \E x \in Xids, kind \in Ending :
           append_end(x, kind) /\ r = Rec(kind, None, x, <<>>)
      \/ ck_begin /\ r = Rec("begin", None, 0, <<>>)
      \/ ck_end /\ r = Rec("end", None, 0, [ck |-> ck.begin, att |-> ck.att])
  BY LogSteps, Zenon
<1> HIDE DEF r
<1>2. CASE \E x \in Xids, p \in Pages :
             pin_mut(x, p) /\ FpiDue(p) /\ r = Rec("fpi", p, 0, mem[p])
  BY <1>2 DEF Rec, r, Ending
<1>3. CASE \E x \in Xids : log_insert(x) /\ r = Rec("insert", Pinned(x), x, <<>>)
  BY <1>3 DEF Rec, r, Ending
<1>4. CASE \E x \in Xids, kind \in Ending :
             append_end(x, kind) /\ r = Rec(kind, None, x, <<>>)
  BY <1>4 DEF Rec, r, Ending
<1>5. CASE ck_begin /\ r = Rec("begin", None, 0, <<>>)
  BY <1>5 DEF Rec, r, Ending
<1>6. CASE ck_end /\ r = Rec("end", None, 0, [ck |-> ck.begin, att |-> ck.att])
  BY <1>6 DEF Rec, r, Ending
<1> QED
  BY <1>1, <1>2, <1>3, <1>4, <1>5, <1>6, Zenon

(* A record of the new log is one of the old log, or the one just added.   *)
LEMMA OldOrNew ==
  ASSUME Typed, Log, Pool, Typed', Next, NEW i \in 1..Len(wal')
  PROVE  \/ i \in 1..Len(wal) /\ wal'[i] = wal[i]
         \/ i = Len(wal) + 1 /\ Len(wal') > Len(wal)
<1>1. Len(wal) \in Nat /\ Len(wal') \in Nat /\ Len(wal') <= Len(wal) + 1
  BY Numbers, NumbersNext, LogSteps, Zenon
<1>2. \A j \in 1..Len(wal) : j <= Len(wal') => wal'[j] = wal[j]
  BY LogSteps, Zenon
<1>3. i \in 1..Len(wal) \/ (i = Len(wal) + 1 /\ Len(wal') > Len(wal))
  BY <1>1
<1> QED
  BY <1>1, <1>2, <1>3

LEMMA NextSnapshotTraces ==
  ASSUME Typed, Log, Pool, ClockTraces, SnapshotTraces, Typed', Next
  PROVE  SnapshotTraces'
<1> TypeOK
  BY Zenon DEF Typed
<1> TypeOK'
  BY Zenon DEF Typed
<1> USE DEF RedoStart
<1>0. Len(wal) \in Nat /\ superblock.checkpoint_lsn \in Nat /\ ck.begin \in Nat
  BY Numbers, Zenon
<1>1. SUFFICES ASSUME NEW i \in 1..Len(wal'), wal'[i].t = "end"
               PROVE  /\ wal'[i].body.ck = superblock'.checkpoint_lsn =>
                            \A x \in wal'[i].body.att : x < superblock'.next_txn_id
                      /\ wal'[i].body.ck = ck'.begin /\ ck'.pc \in Numbered =>
                            \A x \in wal'[i].body.att : x < ck'.next
                      /\ ck'.pc \in Running \ Numbered => wal'[i].body.ck # ck'.begin
  BY Zenon DEF SnapshotTraces
<1>2. CASE i \in 1..Len(wal) /\ wal'[i] = wal[i]
  <2> DEFINE b == wal[i].body
  <2>1. /\ b.ck = superblock.checkpoint_lsn => \A x \in b.att : x < superblock.next_txn_id
        /\ b.ck = ck.begin /\ ck.pc \in Numbered => \A x \in b.att : x < ck.next
        /\ ck.pc \in Running \ Numbered => b.ck # ck.begin
        /\ b.ck < i /\ b.ck \in Nat
    BY <1>1, <1>2 DEF SnapshotTraces, Log, Formed
  <2> HIDE DEF b
  <2>2. ASSUME b.ck = superblock'.checkpoint_lsn
        PROVE  \A x \in b.att : x < superblock'.next_txn_id
    <3>1. CASE superblock' = superblock
      BY <2>1, <2>2, <3>1, Zenon
    <3>2. CASE ck_superblock
      BY <2>1, <2>2, <3>2, SuperblockMoves, Zenon DEF Numbered
    <3> QED
      BY <3>1, <3>2, CkSteps, Zenon
  <2>3. ASSUME b.ck = ck'.begin, ck'.pc \in Numbered
        PROVE  \A x \in b.att : x < ck'.next
    <3>1. CASE ck_end
      <4>1. ck.pc = "ending" /\ ck'.begin = ck.begin
        BY <3>1, Zenon DEF ck_end, At, TypeOK
      <4> QED
        BY <2>1, <2>3, <4>1, Zenon DEF Running, Numbered
    <3> QED
      BY <2>1, <2>3, <3>1, CkSteps, Zenon
  <2>4. ASSUME ck'.pc \in Running \ Numbered
        PROVE  b.ck # ck'.begin
    <3>1. CASE ck_begin
      <4>1. ck'.begin = Len(wal) + 1
        BY <3>1, AppendWal, BeginFormed, Zenon DEF ck_begin, Resting
      <4> QED
        BY <1>0, <1>2, <2>1, <4>1
    <3> QED
      BY <2>1, <2>4, <3>1, CkSteps, Zenon
  <2> QED
    BY <1>2, <2>2, <2>3, <2>4, Zenon DEF b
<1>3. CASE i = Len(wal) + 1 /\ Len(wal') > Len(wal)
  <2>1. ck_end /\ wal'[i].body = [ck |-> ck.begin, att |-> ck.att]
    BY <1>1, <1>3, NewRecords, Zenon
  <2>2. ck.pc = "ending" /\ ck'.pc = "syncing" /\ ck'.begin = ck.begin
        /\ ck'.next = next_txn_id /\ up /\ UNCHANGED superblock
    BY <2>1, Zenon DEF ck_end, At, TypeOK
  <2>3. ck.begin > superblock.checkpoint_lsn
    BY <1>0, <2>2 DEF Log, Running
  <2>4. \A x \in ck.att : x < next_txn_id
    BY <2>2, Zenon DEF ClockTraces
  <2>5. ck'.pc \notin Running \ Numbered
    BY <2>2, Zenon DEF Numbered
  <2> QED
    BY <1>0, <2>1, <2>2, <2>3, <2>4, <2>5
<1> QED
  BY <1>1, <1>2, <1>3, OldOrNew, Zenon

(* An image stays traced, as long as the log reaches up to its LSN.        *)
LEMMA TracedMore ==
  ASSUME Typed, Log, Pool, ClockTraces, Typed', Next, NEW img \in Image,
         Traced(superblock, wal, img),
         img # Torn => img.lsn <= Len(wal) /\ img.lsn <= Len(wal')
  PROVE  Traced(superblock', wal', img)
<1>1. img # Torn => img.lsn \in Nat /\ \A x \in img.tuples : x \in Nat
  BY DEF Image, Xids
<1> QED
  BY <1>1, KnowsMore DEF Traced

(* The images of a page before a step are traced after it.                 *)
LEMMA OldImages ==
  ASSUME Typed, Log, Pool, ClockTraces, PageTraces, Typed', Next, NEW p \in Pages
  PROVE  /\ Traced(superblock', wal', page_cache[p])
         /\ Traced(superblock', wal', data_file[p])
         /\ ~crash => Traced(superblock', wal', mem[p])
<1> TypeOK
  BY Zenon DEF Typed
<1> TypeOK'
  BY Zenon DEF Typed
<1>0. /\ Len(wal) \in Nat /\ synced \in Nat /\ synced <= Len(wal)
      /\ Len(wal') \in Nat /\ synced' \in Nat /\ synced' <= Len(wal')
  BY Numbers, NumbersNext, Zenon
<1>1. synced <= Len(wal') /\ (~crash => Len(wal) <= Len(wal'))
  BY <1>0, LogSteps
<1>2. mem[p] \in Image /\ page_cache[p] \in Image /\ data_file[p] \in Image
  BY Zenon DEF TypeOK
<1>3. /\ mem[p] # Torn => mem[p].lsn \in Nat /\ mem[p].lsn <= Len(wal)
      /\ page_cache[p] # Torn => page_cache[p].lsn \in Nat /\ page_cache[p].lsn <= synced
      /\ data_file[p] # Torn => data_file[p].lsn \in Nat /\ data_file[p].lsn <= synced
  BY ImageLsns, Zenon DEF Pool, Lsns
<1>4. /\ page_cache[p] # Torn => page_cache[p].lsn <= Len(wal) /\ page_cache[p].lsn <= Len(wal')
      /\ data_file[p] # Torn => data_file[p].lsn <= Len(wal) /\ data_file[p].lsn <= Len(wal')
      /\ ~crash /\ mem[p] # Torn => mem[p].lsn <= Len(wal')
  BY <1>0, <1>1, <1>3
<1>5. /\ Traced(superblock, wal, mem[p]) /\ Traced(superblock, wal, page_cache[p])
      /\ Traced(superblock, wal, data_file[p])
  BY Zenon DEF PageTraces
<1> QED
  BY <1>2, <1>3, <1>4, <1>5, TracedMore, Zenon

LEMMA KnowsUpTo ==
  ASSUME NEW sb, NEW log, NEW x, NEW m \in Nat, NEW n \in Nat, m <= n,
         sb.checkpoint_lsn \in Nat, Knows(sb, log, x, m)
  PROVE  Knows(sb, log, x, n)
BY DEF Knows

(* What redo puts on a page comes from the records it replays.             *)
LEMMA RedoTraced ==
  ASSUME Typed, Log, PageTraces, NEW p \in Pages
  PROVE  Traced(superblock, wal, RedoPage(p))
<1> TypeOK
  BY Zenon DEF Typed
<1> DEFINE Ok == {img \in Image : Traced(superblock, wal, img)}
           G == [i \in (RedoStart - 1)..Len(wal) |-> Ok]
<1>1. RedoStart \in Nat /\ RedoStart >= 1 /\ Len(wal) \in Nat /\ RedoStart <= Len(wal)
      /\ synced \in Nat /\ synced <= Len(wal) /\ Len(wal) <= MaxLsn /\ MaxLsn \in Nat
  BY Numbers DEF Log
<1>2. data_file[p] \in Ok
  BY Zenon DEF TypeOK, PageTraces
<1>3. ASSUME NEW i \in RedoStart..Len(wal), NEW img \in Ok
      PROVE  RedoRecord(img, p, i) \in Ok
  <2>1. img \in Image /\ i \in 1..Len(wal) /\ i \in Nat /\ i \in superblock.checkpoint_lsn..i
        /\ superblock.checkpoint_lsn \in Nat
    BY <1>1, <1>3 DEF RedoStart
  <2> DEFINE new == RedoRecord(img, p, i)
  <2>2. CASE new = img
    BY <1>3, <2>2, Zenon
  <2>3. CASE /\ new \in [lsn : 0..MaxLsn, tuples : SUBSET Xids] /\ new.lsn = i
             /\ ImageOf(i, p) /\ new.tuples = wal[i].body.tuples
    <3>1. \A x \in new.tuples : Knows(superblock, wal, x, i)
      BY <2>1, <2>3, Zenon DEF PageTraces, ImageOf
    <3> QED
      BY <2>3, <3>1, Zenon DEF Traced, Image
  <2>4. CASE /\ new \in [lsn : 0..MaxLsn, tuples : SUBSET Xids] /\ new.lsn = i
             /\ InsertOn(i, p) /\ img # Torn /\ img.lsn < i
             /\ new.tuples = img.tuples \union {wal[i].xid}
    <3>1. img.lsn \in Nat /\ img.lsn <= i
      BY <2>1, <2>4 DEF Image
    <3>2. \A x \in img.tuples : Knows(superblock, wal, x, i)
      BY <1>3, <2>1, <2>4, <3>1, KnowsUpTo, Zenon DEF Traced
    <3>3. Knows(superblock, wal, wal[i].xid, i)
      BY <2>1, Zenon DEF Knows
    <3> QED
      BY <2>4, <3>2, <3>3, Zenon DEF Traced, Image
  <2> HIDE DEF new
  <2> QED
    BY <2>1, <2>2, <2>3, <2>4, RedoSteps DEF new
<1>4. \A i \in (RedoStart - 1)..Len(wal) : G[i] = Ok
  BY Zenon
<1> HIDE DEF G, Ok
<1>5. RedoPage(p) \in G[Len(wal)]
  <2>1. /\ RedoStart - 1 \in (RedoStart - 1)..Len(wal) /\ Len(wal) \in (RedoStart - 1)..Len(wal)
        /\ \A i \in RedoStart..Len(wal) : /\ i - 1 \in (RedoStart - 1)..Len(wal)
                                          /\ i \in (RedoStart - 1)..Len(wal)
    BY <1>1
  <2>2. data_file[p] \in G[RedoStart - 1]
    BY <1>2, <1>4, <2>1, Zenon
  <2>3. \A i \in RedoStart..Len(wal) : \A img \in G[i - 1] : RedoRecord(img, p, i) \in G[i]
    BY <1>3, <1>4, <2>1, Zenon
  <2> QED
    BY <1>1, <2>2, <2>3, RedoInduction, Zenon
<1>6. Len(wal) \in (RedoStart - 1)..Len(wal)
  BY <1>1
<1> QED
  BY <1>4, <1>5, <1>6, Zenon DEF Ok

LEMMA NextPageTraces ==
  ASSUME Typed, Log, Pool, ClockTraces, PageTraces, Typed', Next
  PROVE  PageTraces'
<1> TypeOK
  BY Zenon DEF Typed
<1> TypeOK'
  BY Zenon DEF Typed
<1>0. /\ Len(wal) \in Nat /\ Len(wal') \in Nat /\ superblock.checkpoint_lsn \in Nat
      /\ RedoStart \in Nat /\ RedoStart >= 1
  BY Numbers, NumbersNext, Zenon
<1>1. ASSUME NEW i \in 1..Len(wal'), wal'[i].t = "fpi", NEW x \in wal'[i].body.tuples
      PROVE  Knows(superblock', wal', x, i)
  <2>1. CASE i \in 1..Len(wal) /\ wal'[i] = wal[i]
    <3>1. Knows(superblock, wal, x, i) /\ i \in Nat /\ i <= Len(wal) /\ i <= Len(wal')
      BY <1>0, <1>1, <2>1 DEF PageTraces
    <3>2. x \in Nat
      BY <1>1, <2>1 DEF Log, Formed, Image, Xids
    <3> QED
      BY <3>1, <3>2, KnowsMore
  <2>2. CASE i = Len(wal) + 1 /\ Len(wal') > Len(wal)
    <3>1. PICK y \in Xids, p \in Pages : pin_mut(y, p) /\ wal'[i].body = mem[p]
      BY <1>1, <2>2, NewRecords, Zenon
    <3>2. mem[p] # Torn /\ mem[p] \in Image /\ mem[p].lsn \in Nat /\ mem[p].lsn <= Len(wal)
      BY <3>1, ImageLsns, Zenon DEF pin_mut, TypeOK, Pool, Lsns
    <3>3. x \in Nat /\ Knows(superblock, wal, x, mem[p].lsn)
      BY <1>1, <3>1, <3>2 DEF PageTraces, Traced, Image, Xids
    <3>4. mem[p].lsn <= i /\ i \in Nat /\ mem[p].lsn <= Len(wal')
      BY <1>0, <2>2, <3>2
    <3> QED
      BY <3>2, <3>3, <3>4, KnowsMore, Zenon
  <2> QED
    BY <2>1, <2>2, OldOrNew, Zenon
<1>2. SUFFICES ASSUME NEW q \in Pages
               PROVE  /\ Traced(superblock', wal', mem'[q])
                      /\ Traced(superblock', wal', page_cache'[q])
                      /\ Traced(superblock', wal', data_file'[q])
  BY <1>1, Zenon DEF PageTraces
<1>3. ASSUME NEW r \in Pages
      PROVE  /\ Traced(superblock', wal', page_cache[r])
             /\ Traced(superblock', wal', data_file[r])
             /\ ~crash => Traced(superblock', wal', mem[r])
  BY OldImages, Zenon
<1>4. ASSUME ~crash, mem'[q] = mem[q], page_cache'[q] = page_cache[q], data_file'[q] = data_file[q]
      PROVE  /\ Traced(superblock', wal', mem'[q])
             /\ Traced(superblock', wal', page_cache'[q])
             /\ Traced(superblock', wal', data_file'[q])
  BY <1>3, <1>4, Zenon
<1>5. up /\ up' => ~crash
  BY Zenon DEF crash, Down
<1>6. CASE Transaction
  <2>1. up /\ up' /\ UNCHANGED <<page_cache, data_file>>
    BY <1>6, TransactionFrame, Zenon
  <2>2. ASSUME NEW x \in Xids, NEW p \in Pages, pin_mut(x, p), FpiDue(p), p = q
        PROVE  Traced(superblock', wal', mem'[q])
    <3>1. mem[p] # Torn /\ mem[p] \in [lsn : 0..MaxLsn, tuples : SUBSET Xids]
          /\ mem[p].lsn \in Nat /\ mem[p].lsn <= Len(wal)
      BY <2>2, ImageLsns, Zenon DEF pin_mut, Pool, Lsns
    <3>2. Len(wal') = Len(wal) + 1
      BY <2>2, <3>1, AppendWal, ImageFormed, Zenon DEF pin_mut
    <3>3. mem'[q].tuples = mem[p].tuples /\ mem'[q].lsn = Len(wal')
      BY <2>2, <3>1 DEF pin_mut, TypeOK
    <3>4. \A y \in mem[p].tuples : y \in Nat /\ Knows(superblock, wal, y, mem[p].lsn)
      BY <3>1 DEF PageTraces, Traced, Xids
    <3>5. \A y \in mem[p].tuples : Knows(superblock', wal', y, Len(wal'))
      <4>1. mem[p].lsn <= Len(wal')
        BY <1>0, <3>1, <3>2
      <4> QED
        BY <1>0, <3>1, <3>4, <4>1, KnowsMore, Zenon
    <3> QED
      BY <3>3, <3>5, Zenon DEF Traced
  <2>3. ASSUME NEW x \in Xids, place_tuple(x), Pinned(x) = q
        PROVE  Traced(superblock', wal', mem'[q])
    <3> DEFINE l == Max({mem[Pinned(x)].lsn, LastOf(x)})
    <3>1. /\ l \in 0..MaxLsn /\ l <= Len(wal) /\ mem[q].lsn <= l /\ LastOf(x) <= l
          /\ LastOf(x) \in 1..Len(wal) /\ wal[LastOf(x)].xid = x
      BY <2>3, PlacedLsn, Zenon DEF place_tuple
    <3>2. /\ mem[q] # Torn /\ mem[q] \in [lsn : 0..MaxLsn, tuples : SUBSET Xids]
          /\ mem[q].lsn \in Nat
      BY <2>3, PinnedPage, ImageLsns, Holders, SMTT(30) DEF place_tuple, Pool, Latches
    <3>3. /\ mem'[q] = [lsn |-> l, tuples |-> mem[q].tuples \union {x}]
          /\ UNCHANGED <<wal, superblock>>
      BY <2>3, Zenon DEF place_tuple, TypeOK, walVars, ckVars
    <3> HIDE DEF l
    <3>4. l \in Nat /\ x \in Nat /\ LastOf(x) \in Nat
      BY <1>0, <3>1 DEF Xids
    <3>5. \A y \in mem[q].tuples : Knows(superblock, wal, y, l)
      BY <1>0, <3>1, <3>2, <3>4, KnowsUpTo, Zenon DEF PageTraces, Traced
    <3>6. Knows(superblock, wal, x, l)
      <4>1. CASE LastOf(x) < RedoStart
        <5>1. LastOf(x) \in 1..(RedoStart - 1)
          BY <1>0, <3>1, <4>1
        <5> QED
          BY <3>1, <5>1, Zenon DEF ClockTraces, Knows
      <4>2. CASE LastOf(x) >= RedoStart
        BY <1>0, <3>1, <3>4, <4>2 DEF Knows, RedoStart
      <4> QED
        BY <1>0, <3>4, <4>1, <4>2
    <3> QED
      BY <3>3, <3>5, <3>6 DEF Traced
  <2>4. \/ mem'[q] = mem[q]
        \/ \E x \in Xids : pin_mut(x, q) /\ FpiDue(q)
        \/ \E x \in Xids : place_tuple(x) /\ Pinned(x) = q
    <3>1. ASSUME NEW x \in Xids, NEW p \in Pages, pin_mut(x, p)
          PROVE  mem'[q] = mem[q] \/ (p = q /\ FpiDue(q))
      <4>1. \/ mem' = mem
            \/ FpiDue(p) /\ mem' = [mem EXCEPT ![p] = [mem[p] EXCEPT !.lsn = Len(wal')]]
        BY <3>1, Zenon DEF pin_mut
      <4> QED
        BY <4>1, Zenon DEF TypeOK
    <3>2. ASSUME NEW x \in Xids, place_tuple(x)
          PROVE  mem'[q] = mem[q] \/ Pinned(x) = q
      BY <3>2, Zenon DEF place_tuple, TypeOK
    <3>3. CASE begin
      BY <3>3, Zenon DEF begin, poolVars
    <3>4. ASSUME NEW x \in Xids, log_insert(x) PROVE mem' = mem
      BY <3>4, Zenon DEF log_insert, poolVars
    <3>5. ASSUME NEW x \in Xids, NEW kind \in Ending, append_end(x, kind) \/ flush_end(x, kind)
          PROVE  mem' = mem
      BY <3>5, Zenon DEF append_end, flush_end, poolVars
    <3>6. ASSUME NEW x \in Xids, NEW state \in {"Committed", "Aborted"}, end_txn(x, state)
          PROVE  mem' = mem
      BY <3>6, Zenon DEF end_txn, poolVars
    <3> QED
      BY <1>6, <3>1, <3>2, <3>3, <3>4, <3>5, <3>6, Zenon DEF Transaction, Ending
  <2> QED
    BY <1>3, <1>5, <2>1, <2>2, <2>3, <2>4, Zenon
<1>7. CASE Flush
  <2>1. up /\ up' /\ UNCHANGED mem
    BY <1>7 DEF Flush, FlushClaim, FlushWrite, FlushSync, FlushFail, runVars
  <2>2. page_cache'[q] \in {page_cache[q], mem[q]}
    <3>1. ASSUME NEW p \in Pages, FlushWrite(p) PROVE page_cache'[q] \in {page_cache[q], mem[q]}
      BY <3>1, Zenon DEF FlushWrite, TypeOK
    <3>2. ASSUME NEW p \in Pages, ~FlushWrite(p),
                 (\E t \in Threads : FlushClaim(t, p)) \/ FlushSync(p) \/ FlushFail(p)
          PROVE  page_cache'[q] = page_cache[q]
      BY <3>2, Zenon DEF FlushClaim, FlushSync, FlushFail, fileVars
    <3> QED
      BY <1>7, <3>1, <3>2, Zenon DEF Flush
  <2>3. data_file'[q] \in {data_file[q], page_cache[q]}
    BY <1>7, Zenon DEF Flush, FlushClaim, FlushWrite, FlushSync, FlushFail, fileVars
  <2> QED
    BY <1>3, <1>5, <2>1, <2>2, <2>3, Zenon
<1>8. CASE clog_evict
  BY <1>4, <1>5, <1>8, Zenon DEF clog_evict, poolVars, fileVars, runVars
<1>9. CASE Checkpoint
  <2>1. up /\ up' /\ UNCHANGED <<mem, page_cache, data_file>>
    BY <1>9 DEF Checkpoint, ck_begin, ck_publish, ck_snapshot, ck_collect, ck_skip, ck_clog, ck_end,
                ck_sync, ck_superblock, ck_recycle, ck_fail, At, runVars, poolVars, fileVars
  <2> QED
    BY <1>4, <1>5, <2>1, Zenon
<1>10. Traced(superblock', wal', Torn)
  BY Zenon DEF Traced
<1>11. CASE crash
  <2>1. PICK files \in FileAfter(page_cache, data_file),
             clogs \in ClogAfter(clog_cache, clog_file) : Down(files, clogs)
    BY <1>11, Zenon DEF crash
  <2>2. files[q] = page_cache[q] \/ files[q] = data_file[q] \/ files[q] = Torn
    <3>1. page_cache \in [Pages -> Image] /\ data_file \in [Pages -> Image]
      BY Zenon DEF TypeOK
    <3> QED
      BY <2>1, <3>1, FilesAfter
  <2> QED
    BY <1>3, <1>10, <2>1, <2>2, Zenon DEF Down
<1>12. CASE recover \/ crash_in_recovery
  <2>1. UNCHANGED <<wal, superblock>>
    BY <1>12, Zenon DEF recover, crash_in_recovery, Down, walVars, ckVars
  <2>2. Traced(superblock', wal', RecoveredPages[q])
    BY <2>1, RedoTraced, Zenon DEF RecoveredPages
  <2>3. CASE recover
    BY <2>2, <2>3, Zenon DEF recover
  <2>4. CASE crash_in_recovery
    <3>1. PICK files \in FileAfter(RecoveredPages, data_file),
             clogs \in ClogAfter(RecoveredClog, clog_file) : Down(files, clogs)
      BY <2>4, Zenon DEF crash_in_recovery
    <3>2. RecoveredPages \in [Pages -> Image] /\ data_file \in [Pages -> Image]
      BY RedoTypes, Zenon DEF TypeOK, RecoveredPages
    <3>3. files[q] = RecoveredPages[q] \/ files[q] = data_file[q] \/ files[q] = Torn
      BY <3>2, FilesAfter
    <3> QED
      BY <1>3, <1>10, <2>2, <3>1, <3>3, Zenon DEF Down
  <2> QED
    BY <1>12, <2>3, <2>4, Zenon
<1> QED
  BY <1>6, <1>7, <1>8, <1>9, <1>11, <1>12, Zenon DEF Next

(***************************************************************************)
(* The outcomes of transactions.                                           *)
(***************************************************************************)

(* What recovery makes of the CLOG: the outcome a replayed record states,  *)
(* else the one the file holds, else an abort of a transaction the log     *)
(* knows.                                                                  *)
LEMMA RecoveredOutcomes ==
  ASSUME Typed, Log, ClockTraces, SnapshotTraces, Fates, NEW x \in Xids
  PROVE  /\ \A i \in Replayed : wal[i].t \in Ending /\ wal[i].xid = x =>
              RecoveredClog[x] = Outcome(i)
         /\ EndsOf(x) = {} /\ clog_file[x] # "InProgress" => RecoveredClog[x] = clog_file[x]
         /\ RecoveredClog[x] = "Committed" =>
              \/ EndsOf(x) = {} /\ clog_file[x] = "Committed"
              \/ \E i \in Replayed : wal[i].t = "commit" /\ wal[i].xid = x
         /\ RecoveredClog[x] # "InProgress" =>
              clog_file[x] # "InProgress" \/ Knows(superblock, wal, x, Len(wal))
         /\ RecoveredClog[x] \in TxnState
<1> TypeOK
  BY Zenon DEF Typed
<1>0. /\ RedoStart \in Nat /\ RedoStart >= 1 /\ Len(wal) \in Nat /\ superblock.checkpoint_lsn = RedoStart
      /\ Replayed \subseteq 1..Len(wal) /\ Replayed \subseteq Nat /\ \A i \in Replayed : i <= Len(wal)
  BY Numbers DEF Replayed, RedoStart
<1>1. ASSUME EndsOf(x) # {} PROVE Max(EndsOf(x)) \in EndsOf(x)
  <2>1. EndsOf(x) \in SUBSET Nat /\ \A i \in EndsOf(x) : i <= Len(wal)
    BY <1>0, Zenon DEF EndsOf
  <2> QED
    BY <1>0, <1>1, <2>1, MaxNat, Zenon
<1>2. \A i, j \in EndsOf(x) : i = j
  BY <1>0, Zenon DEF EndsOf, Fates, Ending
<1>3. \A i \in Replayed : wal[i].t \in Ending /\ wal[i].xid = x => i \in EndsOf(x)
  BY Zenon DEF EndsOf, Ending
<1>4. \A i \in EndsOf(x) : RedoClog(x) = Outcome(i)
  BY <1>1, <1>2, Zenon DEF RedoClog, Outcome
<1>5. \A i : Outcome(i) \in {"Committed", "Aborted"}
  BY Zenon DEF Outcome
<1>6. RecoveredClog[x] = IF x \in recovered_att THEN "Aborted" ELSE RedoClog(x)
  BY Zenon DEF RecoveredClog
<1>7. x \in recovered_att => RedoClog(x) = "InProgress" /\ x \in run_analysis
  BY Zenon DEF recovered_att
<1>8. \A i \in Replayed : wal[i].t \in Ending /\ wal[i].xid = x => RecoveredClog[x] = Outcome(i)
  BY <1>3, <1>4, <1>5, <1>6, <1>7, Zenon
<1>9. EndsOf(x) = {} => RedoClog(x) = clog_file[x]
  BY Zenon DEF RedoClog
<1>10. RecoveredClog[x] = "Committed" =>
         \/ EndsOf(x) = {} /\ clog_file[x] = "Committed"
         \/ \E i \in Replayed : wal[i].t = "commit" /\ wal[i].xid = x
  <2>1. CASE EndsOf(x) = {}
    BY <2>1, <1>6, <1>9, Zenon
  <2>2. ASSUME NEW i \in EndsOf(x), RecoveredClog[x] = "Committed"
        PROVE  i \in Replayed /\ wal[i].t = "commit" /\ wal[i].xid = x
    BY <2>2, <1>4, <1>6, Zenon DEF Outcome, EndsOf
  <2> QED
    BY <2>1, <2>2, Zenon
<1>11. ASSUME RecoveredClog[x] # "InProgress", clog_file[x] = "InProgress"
       PROVE  Knows(superblock, wal, x, Len(wal))
  <2>1. CASE \E i \in Replayed : wal[i].xid = x
    BY <2>1, <1>0, Zenon DEF Knows, Replayed
  <2>2. CASE ~\E i \in Replayed : wal[i].xid = x
    <3>1. EndsOf(x) = {}
      BY <2>2, Zenon DEF EndsOf
    <3>2. x \in Baseline
      BY <1>6, <1>7, <1>9, <1>11, <2>2, <3>1, Zenon DEF run_analysis
    <3> DEFINE ends == {i \in Replayed : wal[i].t = "end"}
    <3>3. ends # {} /\ wal[Max(ends)].body.ck = RedoStart /\ x \in wal[Max(ends)].body.att
      BY <3>2, Zenon DEF Baseline
    <3>4. ends \in SUBSET Nat /\ \A i \in ends : i <= Len(wal)
      BY <1>0, Zenon
    <3>5. Max(ends) \in ends
      BY <1>0, <3>3, <3>4, MaxNat, Zenon
    <3> HIDE DEF ends
    <3>6. Max(ends) \in 1..Len(wal) /\ wal[Max(ends)].t = "end"
      BY <1>0, <3>5, Zenon DEF ends
    <3>7. x < superblock.next_txn_id
      BY <3>3, <3>6, Zenon DEF SnapshotTraces
    <3> QED
      BY <3>7, Zenon DEF Knows
  <2> QED
    BY <2>1, <2>2, Zenon
<1>12. RecoveredClog[x] \in TxnState
  BY <1>6, Zenon DEF RedoClog, TypeOK, TxnState
<1> QED
  BY <1>6, <1>7, <1>8, <1>9, <1>10, <1>11, <1>12, Zenon

(* The steps that write an outcome.                                        *)
LEMMA OutcomeSteps ==
  ASSUME Typed, Next
  PROVE  \/ UNCHANGED <<clog, clog_cache, clog_file, told>>
         \/ \E x \in Xids, state \in {"Committed", "Aborted"} : end_txn(x, state)
         \/ clog_evict \/ ck_clog \/ crash \/ recover \/ crash_in_recovery
<1> USE DEF clogVars, txnVars
<1>1. CASE Transaction
  <2>1. CASE begin
    BY <2>1, Zenon DEF begin
  <2>2. ASSUME NEW x \in Xids, NEW p \in Pages, pin_mut(x, p)
        PROVE  UNCHANGED <<clog, clog_cache, clog_file, told>>
    BY <2>2, Zenon DEF pin_mut
  <2>3. ASSUME NEW x \in Xids, log_insert(x) \/ place_tuple(x)
        PROVE  UNCHANGED <<clog, clog_cache, clog_file, told>>
    BY <2>3, Zenon DEF log_insert, place_tuple
  <2>4. ASSUME NEW x \in Xids, NEW kind \in Ending, append_end(x, kind) \/ flush_end(x, kind)
        PROVE  UNCHANGED <<clog, clog_cache, clog_file, told>>
    BY <2>4, Zenon DEF append_end, flush_end
  <2> QED
    BY <1>1, <2>1, <2>2, <2>3, <2>4, Zenon DEF Transaction, Ending
<1>2. CASE Flush
  BY <1>2, Zenon DEF Flush, FlushClaim, FlushWrite, FlushSync, FlushFail
<1>3. CASE Checkpoint
  BY <1>3, Zenon DEF Checkpoint, ck_begin, ck_publish, ck_snapshot, ck_collect, ck_skip, ck_end,
              ck_sync, ck_superblock, ck_recycle, ck_fail
<1> QED
  BY <1>1, <1>2, <1>3, Zenon DEF Next

LEMMA NextClogTraces ==
  ASSUME Typed, Log, Pool, Downtime, Traces, Fates, Typed', Next
  PROVE  ClogTraces'
<1> TypeOK
  BY Zenon DEF Typed
<1> TypeOK'
  BY Zenon DEF Typed
<1> DEFINE Open(x) == /\ clog[x] = "InProgress" /\ clog_cache[x] = "InProgress"
                      /\ clog_file[x] = "InProgress" /\ told[x] = "InProgress"
<1>0. /\ Len(wal) \in Nat /\ synced \in Nat /\ synced <= Len(wal) /\ RedoStart \in Nat
      /\ Len(wal') \in Nat /\ synced' \in Nat /\ synced' <= Len(wal')
      /\ superblock.checkpoint_lsn = RedoStart
  BY Numbers, NumbersNext, Zenon DEF RedoStart
<1>1. ASSUME NEW x \in Xids, Knows(superblock, wal, x, synced)
      PROVE  Knows(superblock', wal', x, synced')
  <2>1. synced <= synced' /\ synced <= Len(wal') /\ x \in Nat
    BY <1>0, LogSteps DEF Xids
  <2> QED
    BY <1>0, <1>1, <2>1, KnowsMore, Zenon DEF Traces
<1>2. \A x \in Xids : Open(x) \/ Knows(superblock', wal', x, synced')
  BY <1>1, Zenon DEF Traces, ClogTraces
<1>3. ASSUME \A x \in Xids : Open(x) => /\ clog'[x] = "InProgress" /\ clog_cache'[x] = "InProgress"
                                        /\ clog_file'[x] = "InProgress" /\ told'[x] = "InProgress"
      PROVE  ClogTraces'
  BY <1>2, <1>3, Zenon DEF ClogTraces
<1>4. CASE UNCHANGED <<clog, clog_cache, clog_file, told>>
  BY <1>3, <1>4, Zenon
<1>5. ASSUME NEW x \in Xids, NEW state \in {"Committed", "Aborted"}, end_txn(x, state)
      PROVE  ClogTraces'
  <2>1. PICK i \in 1..Len(wal) : wal[i].xid = x /\ i <= synced
    BY <1>5, Zenon DEF end_txn, Fates, FateOfTxn
  <2>2. Knows(superblock, wal, x, synced)
    <3>1. CASE i < RedoStart
      BY <1>0, <2>1, <3>1 DEF Traces, ClockTraces, Knows
    <3>2. CASE ~(i < RedoStart)
      BY <1>0, <2>1, <3>2 DEF Knows
    <3> QED
      BY <3>1, <3>2, Zenon
  <2>3. \A y \in Xids : y # x => clog'[y] = clog[y] /\ told'[y] = told[y]
    BY <1>5, Zenon DEF end_txn, TypeOK
  <2>4. UNCHANGED <<clog_cache, clog_file>>
    BY <1>5, Zenon DEF end_txn
  <2> QED
    BY <1>1, <1>2, <2>2, <2>3, <2>4, Zenon DEF ClogTraces
<1>6. CASE clog_evict \/ ck_clog
  BY <1>3, <1>6, Zenon DEF clog_evict, ck_clog, txnVars
<1>7. CASE crash
  <2>1. PICK files \in FileAfter(page_cache, data_file),
             clogs \in ClogAfter(clog_cache, clog_file) : Down(files, clogs)
    BY <1>7, Zenon DEF crash
  <2>2. \A x \in Xids : clogs[x] = clog_cache[x] \/ clogs[x] = clog_file[x]
    BY <2>1, ClogsAfter
  <2> QED
    BY <1>3, <2>1, <2>2, Zenon DEF Down
<1>8. CASE recover \/ crash_in_recovery
  <2>1. UNCHANGED <<wal, synced, superblock>> /\ synced = Len(wal)
    BY <1>8, Zenon DEF recover, crash_in_recovery, Down, Downtime, walVars, ckVars
  <2>2. \A x \in Xids : RecoveredClog[x] # "InProgress" =>
          clog_file[x] # "InProgress" \/ Knows(superblock', wal', x, synced')
    BY <2>1, RecoveredOutcomes, Zenon DEF Traces
  <2>3. CASE recover
    <3>1. \A x \in Xids : /\ clog'[x] = RecoveredClog[x]
                          /\ told'[x] = IF clog'[x] # "InProgress" THEN clog'[x] ELSE told[x]
      BY <2>3, Zenon DEF recover
    <3>2. UNCHANGED <<clog_cache, clog_file>>
      BY <2>3, Zenon DEF recover
    <3> QED
      BY <1>2, <2>2, <3>1, <3>2, Zenon DEF ClogTraces
  <2>4. CASE crash_in_recovery
    <3>1. PICK files \in FileAfter(RecoveredPages, data_file),
               clogs \in ClogAfter(RecoveredClog, clog_file) : Down(files, clogs)
      BY <2>4, Zenon DEF crash_in_recovery
    <3>2. \A x \in Xids : clogs[x] = RecoveredClog[x] \/ clogs[x] = clog_file[x]
      BY <3>1, ClogsAfter
    <3>3. clog' = clogs /\ clog_cache' = clogs /\ clog_file' = clogs /\ told' = told
      BY <3>1, Zenon DEF Down
    <3> QED
      BY <1>2, <2>2, <3>2, <3>3, Zenon DEF ClogTraces
  <2> QED
    BY <1>8, <2>3, <2>4, Zenon
<1> QED
  BY <1>4, <1>5, <1>6, <1>7, <1>8, OutcomeSteps, Zenon

\* A transaction past its end record, or over.
Final == {"commit", "commit_synced", "abort", "abort_synced", "ended"}

(* An outcome that stands keeps standing as long as nobody writes one.     *)
LEMMA QuietFates ==
  ASSUME Typed, Log, Pool, Fates, Typed', Next, up, up',
         UNCHANGED <<clog, clog_cache, clog_file, told>>,
         \A x \in Xids : txn[x] \in Final \/ txn'[x] \in Final => txn'[x] = txn[x]
  PROVE  Fates'
<1> TypeOK
  BY Zenon DEF Typed
<1> TypeOK'
  BY Zenon DEF Typed
<1> USE DEF RedoStart
<1>0. /\ Len(wal) \in Nat /\ synced \in Nat /\ synced <= Len(wal) /\ superblock.checkpoint_lsn \in Nat
      /\ Len(wal') \in Nat /\ synced' \in Nat /\ synced' <= Len(wal') /\ ck.begin \in Nat
  BY Numbers, NumbersNext, Zenon
<1>1. /\ Len(wal) <= Len(wal') /\ synced <= synced'
      /\ \A i \in 1..Len(wal) : i \in 1..Len(wal') /\ wal'[i] = wal[i]
  BY <1>0, LogSteps DEF crash, Down
<1>2. \A i \in 1..Len(wal') : wal'[i].t \in Ending => i \in 1..Len(wal) /\ wal'[i] = wal[i]
  <2>1. ASSUME NEW x \in Xids, NEW kind \in Ending, append_end(x, kind) PROVE FALSE
    <3>1. txn[x] = "active" /\ txn'[x] = kind
      BY <2>1, Zenon DEF append_end, TypeOK
    <3> QED
      BY <3>1, Zenon DEF Ending, Final
  <2>2. Len(wal') > Len(wal) => wal'[Len(wal) + 1].t \notin Ending
    BY <2>1, NewRecords, Zenon
  <2> QED
    BY <2>2, OldOrNew, Zenon
<1>3. Committing' = Committing
  BY Zenon DEF Committing, Final
<1>4. ck'.pc # "idle" => Committing' = {}
  BY <1>3, CkSteps, Zenon DEF Fates, ck_begin
<1>5. \/ superblock' = superblock
      \/ /\ ck.pc \in ClogSaved /\ superblock'.checkpoint_lsn = ck.begin
         /\ ck'.pc \notin ClogSaved /\ UNCHANGED <<wal, synced>>
  BY CkSteps, SuperblockMoves, Zenon DEF ClogSaved, walVars
<1>6. ck'.pc \in ClogSaved => \/ ck.pc \in ClogSaved /\ ck'.begin = ck.begin
                              \/ ck_clog
  BY CkSteps, Zenon
<1>7. ck_clog => clog_file = clog /\ Committing = {}
  BY Zenon DEF ck_clog, At, Fates
<1>8. ASSUME NEW i \in 1..Len(wal'), wal'[i].t \in Ending PROVE FateOf(i)'
  <2>1. i \in 1..Len(wal) /\ wal'[i] = wal[i] /\ FateOf(i) /\ wal[i].xid \in Xids
    BY <1>2, <1>8, Zenon DEF Fates, Log, Formed
  <2> DEFINE x == wal[i].xid
             o == Outcome(i)
  <2>2. Outcome(i)' = o
    BY <2>1, Zenon DEF Outcome
  <2>3. /\ clog[x] \in {"InProgress", o} /\ clog_cache[x] \in {"InProgress", o}
        /\ clog_file[x] \in {"InProgress", o} /\ told[x] \in {"InProgress", o}
        /\ x \in Committing \/ (txn[x] = "ended" /\ clog[x] = o)
        /\ i < superblock.checkpoint_lsn => clog_file[x] = o
        /\ ck.pc \in ClogSaved /\ i < ck.begin => clog_file[x] = o
    BY <2>1, Zenon DEF FateOf
  <2>4. x \in Committing' \/ (txn'[x] = "ended" /\ clog[x] = o)
    BY <1>3, <2>1, <2>3, Zenon DEF Final
  <2>5. i < superblock'.checkpoint_lsn => clog_file[x] = o
    BY <1>5, <2>3, Zenon
  <2>6. ck'.pc \in ClogSaved /\ i < ck'.begin => clog_file[x] = o
    BY <1>6, <1>7, <2>3, Zenon
  <2>7. wal'[i].xid = x
    BY <2>1, Zenon
  <2> HIDE DEF x, o
  <2> QED
    BY <2>2, <2>3, <2>4, <2>5, <2>6, <2>7, SMTT(30) DEF FateOf
<1>9. ASSUME NEW x \in Xids PROVE FateOfTxn(x)'
  <2>1. FateOfTxn(x)
    BY Zenon DEF Fates
  <2>2. /\ txn'[x] \in {"commit", "commit_synced"} =>
             \E i \in 1..Len(wal') : /\ wal'[i].t = "commit" /\ wal'[i].xid = x
                                     /\ txn'[x] = "commit_synced" => i <= synced'
        /\ txn'[x] \in {"abort", "abort_synced"} =>
             \E i \in 1..Len(wal') : /\ wal'[i].t = "abort" /\ wal'[i].xid = x
                                     /\ txn'[x] = "abort_synced" => i <= synced'
    <3>1. txn'[x] \in Final => txn'[x] = txn[x]
      BY Zenon
    <3>2. ASSUME NEW i \in 1..Len(wal), i <= synced PROVE i <= synced'
      BY <1>0, <1>1, <3>2
    <3> QED
      BY <1>1, <2>1, <3>1, <3>2, Zenon DEF FateOfTxn, Final
  <2>3. txn'[x] # "ended" => clog[x] = "InProgress" /\ told[x] = "InProgress"
    BY <2>1, Zenon DEF FateOfTxn, Final
  <2>4. ASSUME told[x] = "Committed"
        PROVE  /\ clog[x] = "Committed"
               /\ ck'.pc \in ClogSaved => clog_file[x] = "Committed"
               /\ \/ clog_file[x] = "Committed"
                  \/ \E i \in superblock'.checkpoint_lsn..synced' :
                       wal'[i].t = "commit" /\ wal'[i].xid = x
    <3>1. /\ clog[x] = "Committed"
          /\ ck.pc \in ClogSaved => clog_file[x] = "Committed"
          /\ \/ clog_file[x] = "Committed"
             \/ \E i \in superblock.checkpoint_lsn..synced : wal[i].t = "commit" /\ wal[i].xid = x
      BY <2>1, <2>4, Zenon DEF FateOfTxn
    <3>2. CASE superblock' = superblock
      <4>1. \A i \in superblock.checkpoint_lsn..synced :
              i \in superblock'.checkpoint_lsn..synced' /\ wal'[i] = wal[i]
        <5>1. superblock.checkpoint_lsn >= 1
          BY Numbers, Zenon
        <5> QED
          BY <1>0, <1>1, <3>2, <5>1
      <4> QED
        BY <1>6, <1>7, <3>1, <4>1, Zenon
    <3>3. CASE ck.pc \in ClogSaved /\ ck'.pc \notin ClogSaved
      BY <3>1, <3>3, Zenon
    <3> QED
      BY <1>5, <3>2, <3>3, Zenon
  <2> QED
    BY <2>1, <2>2, <2>3, <2>4, Zenon DEF FateOfTxn
<1>10. \A i, j \in 1..Len(wal') :
         wal'[i].t \in Ending /\ wal'[j].t \in Ending /\ wal'[i].xid = wal'[j].xid => i = j
  BY <1>2, Zenon DEF Fates
<1> QED
  BY <1>4, <1>8, <1>9, <1>10, Zenon DEF Fates

(* A transaction that is running has no end record.                        *)
LEMMA RunningHasNoEnd ==
  ASSUME Typed, Log, Fates, up, NEW x \in Xids, txn[x] = "active"
  PROVE  /\ \A i \in 1..Len(wal) : wal[i].t \in Ending => wal[i].xid # x
         /\ clog[x] = "InProgress" /\ clog_cache[x] = "InProgress"
         /\ clog_file[x] = "InProgress" /\ told[x] = "InProgress"
<1>1. ASSUME NEW i \in 1..Len(wal), wal[i].t \in Ending, wal[i].xid = x PROVE FALSE
  <2>1. FateOf(i)
    BY <1>1, Zenon DEF Fates
  <2> QED
    BY <1>1, <2>1, Zenon DEF FateOf, Committing
<1>2. FateOfTxn(x)
  BY Zenon DEF Fates
<1> QED
  BY <1>1, <1>2, Zenon DEF FateOfTxn

(* Appending the end record decides the outcome ...                        *)
LEMMA AppendEndFates ==
  ASSUME Typed, Log, Fates, Typed', NEW x \in Xids, NEW kind \in Ending, append_end(x, kind)
  PROVE  Fates'
<1> TypeOK
  BY Zenon DEF Typed
<1> TypeOK'
  BY Zenon DEF Typed
<1> USE DEF RedoStart
<1>0. /\ Len(wal) \in Nat /\ synced \in Nat /\ synced <= Len(wal) /\ superblock.checkpoint_lsn \in Nat
      /\ superblock.checkpoint_lsn >= 1 /\ superblock.checkpoint_lsn <= synced
  BY Numbers, Zenon DEF Log
<1>1. /\ up /\ up' /\ txn[x] = "active" /\ ck.pc = "idle"
      /\ UNCHANGED <<clog, clog_cache, clog_file, told, synced, superblock, ck>>
      /\ \A y \in Xids : txn'[y] = IF y = x THEN kind ELSE txn[y]
  BY Zenon DEF append_end, BarrierFree, clogVars, ckVars, runVars, TypeOK
<1>2. /\ Len(wal') = Len(wal) + 1 /\ wal'[Len(wal) + 1] = Rec(kind, None, x, <<>>)
      /\ \A i \in 1..Len(wal) : wal'[i] = wal[i]
  BY AppendWal, EndFormed, Zenon DEF append_end
<1>3. wal'[Len(wal) + 1].t = kind /\ wal'[Len(wal) + 1].xid = x
  BY <1>2 DEF Rec
<1>4. \A i \in 1..Len(wal') : i \in 1..Len(wal) \/ i = Len(wal) + 1
  BY <1>0, <1>2
<1>5. /\ \A i \in 1..Len(wal) : wal[i].t \in Ending => wal[i].xid # x
      /\ clog[x] = "InProgress" /\ clog_cache[x] = "InProgress"
      /\ clog_file[x] = "InProgress" /\ told[x] = "InProgress"
  BY <1>1, RunningHasNoEnd, Zenon
<1>6. \A i, j \in 1..Len(wal') :
         wal'[i].t \in Ending /\ wal'[j].t \in Ending /\ wal'[i].xid = wal'[j].xid => i = j
  BY <1>2, <1>3, <1>4, <1>5, Zenon DEF Fates
<1>7. ASSUME NEW i \in 1..Len(wal'), wal'[i].t \in Ending PROVE FateOf(i)'
  <2>1. CASE i \in 1..Len(wal)
    <3>1. wal'[i] = wal[i] /\ FateOf(i) /\ wal[i].xid \in Xids /\ wal[i].xid # x
      BY <1>2, <1>5, <1>7, <2>1, Zenon DEF Fates, Log, Formed
    <3>2. Outcome(i)' = Outcome(i)
      BY <3>1, Zenon DEF Outcome
    <3> QED
      BY <1>1, <3>1, <3>2, Zenon DEF FateOf, Committing
  <2>2. CASE i = Len(wal) + 1
    <3>1. x \in Committing'
      BY <1>1, Zenon DEF Committing, Ending
    <3>2. ~(i < superblock.checkpoint_lsn)
      BY <1>0, <2>2
    <3>3. ck'.pc \notin ClogSaved
      BY <1>1, Zenon DEF ClogSaved
    <3> QED
      BY <1>1, <1>3, <1>5, <2>2, <3>1, <3>2, <3>3, Zenon DEF FateOf
  <2> QED
    BY <1>4, <1>7, <2>1, <2>2, Zenon
<1>8. ASSUME NEW y \in Xids PROVE FateOfTxn(y)'
  <2>1. FateOfTxn(y)
    BY Zenon DEF Fates
  <2>2. \A i \in 1..Len(wal) : i \in 1..Len(wal') /\ wal'[i] = wal[i]
    BY <1>0, <1>2
  <2>3. Len(wal) + 1 \in 1..Len(wal')
    BY <1>0, <1>2
  <2>4. /\ txn'[y] \in {"commit", "commit_synced"} =>
             \E i \in 1..Len(wal') : /\ wal'[i].t = "commit" /\ wal'[i].xid = y
                                     /\ txn'[y] = "commit_synced" => i <= synced'
        /\ txn'[y] \in {"abort", "abort_synced"} =>
             \E i \in 1..Len(wal') : /\ wal'[i].t = "abort" /\ wal'[i].xid = y
                                     /\ txn'[y] = "abort_synced" => i <= synced'
    <3>1. CASE y = x
      BY <1>1, <1>3, <2>3, <3>1, Zenon DEF Ending
    <3>2. CASE y # x
      BY <1>1, <2>1, <2>2, <3>2, Zenon DEF FateOfTxn
    <3> QED
      BY <3>1, <3>2, Zenon
  <2>5. \A i \in superblock.checkpoint_lsn..synced : wal'[i] = wal[i]
    BY <1>0, <2>2
  <2> QED
    BY <1>1, <1>5, <2>1, <2>4, <2>5 DEF FateOfTxn
<1> QED
  BY <1>1, <1>6, <1>7, <1>8, Zenon DEF Fates

(* ... flushing it makes the outcome durable ...                           *)
LEMMA FlushEndFates ==
  ASSUME Typed, Log, Fates, Typed', NEW x \in Xids, NEW kind \in Ending, flush_end(x, kind)
  PROVE  Fates'
<1> TypeOK
  BY Zenon DEF Typed
<1> TypeOK'
  BY Zenon DEF Typed
<1> USE DEF RedoStart
<1>0. Len(wal) \in Nat /\ synced \in Nat /\ synced <= Len(wal)
  BY Numbers, Zenon
<1>1. /\ up /\ up' /\ txn[x] = kind /\ synced' = Len(wal)
      /\ UNCHANGED <<clog, clog_cache, clog_file, told, wal, superblock, ck>>
      /\ \A y \in Xids : txn'[y] = IF y # x THEN txn[y]
                                   ELSE IF kind = "commit" THEN "commit_synced" ELSE "abort_synced"
  BY Zenon DEF flush_end, clogVars, ckVars, runVars, TypeOK
<1>2. Committing' = Committing
  BY <1>1, Zenon DEF Committing, Ending
<1>3. ASSUME NEW i \in 1..Len(wal), wal[i].t \in Ending PROVE FateOf(i)'
  <2>1. FateOf(i) /\ wal[i].xid \in Xids
    BY <1>3, Zenon DEF Fates, Log, Formed
  <2>2. Outcome(i)' = Outcome(i)
    BY <1>1, Zenon DEF Outcome
  <2>3. txn[wal[i].xid] = "ended" => txn'[wal[i].xid] = "ended"
    BY <1>1, <2>1, Zenon DEF Ending
  <2> QED
    BY <1>1, <1>2, <2>1, <2>2, <2>3, Zenon DEF FateOf
<1>4. ASSUME NEW y \in Xids PROVE FateOfTxn(y)'
  <2>1. FateOfTxn(y)
    BY Zenon DEF Fates
  <2>2. \A i \in 1..Len(wal) : i <= synced'
    BY <1>0, <1>1
  <2>3. /\ txn'[y] \in {"commit", "commit_synced"} =>
             \E i \in 1..Len(wal') : /\ wal'[i].t = "commit" /\ wal'[i].xid = y
                                     /\ txn'[y] = "commit_synced" => i <= synced'
        /\ txn'[y] \in {"abort", "abort_synced"} =>
             \E i \in 1..Len(wal') : /\ wal'[i].t = "abort" /\ wal'[i].xid = y
                                     /\ txn'[y] = "abort_synced" => i <= synced'
    BY <1>1, <2>1, <2>2, Zenon DEF FateOfTxn, Ending
  <2>4. superblock.checkpoint_lsn..synced \subseteq superblock'.checkpoint_lsn..synced'
    <3>1. superblock.checkpoint_lsn \in Nat
      BY Numbers, Zenon
    <3> QED
      BY <1>0, <1>1, <3>1
  <2>5. txn'[y] # "ended" => txn[y] # "ended"
    BY <1>1, Zenon DEF Ending
  <2>6. told[y] = "Committed" =>
          \/ clog_file[y] = "Committed"
          \/ \E i \in superblock'.checkpoint_lsn..synced' : wal'[i].t = "commit" /\ wal'[i].xid = y
    BY <1>1, <2>1, <2>4, Zenon DEF FateOfTxn
  <2> QED
    BY <1>1, <2>1, <2>3, <2>5, <2>6, Zenon DEF FateOfTxn
<1> QED
  BY <1>1, <1>2, <1>3, <1>4, Zenon DEF Fates

(* ... and end_txn lets others see it.                                     *)
LEMMA EndTxnFates ==
  ASSUME Typed, Log, Fates, Typed', NEW x \in Xids,
         NEW state \in {"Committed", "Aborted"}, end_txn(x, state)
  PROVE  Fates'
<1> TypeOK
  BY Zenon DEF Typed
<1> TypeOK'
  BY Zenon DEF Typed
<1> USE DEF RedoStart
<1>0. /\ Len(wal) \in Nat /\ synced \in Nat /\ synced <= Len(wal) /\ superblock.checkpoint_lsn \in Nat
  BY Numbers, Zenon
<1>1. /\ up /\ up' /\ txn[x] = IF state = "Committed" THEN "commit_synced" ELSE "abort_synced"
      /\ UNCHANGED <<clog_cache, clog_file, wal, synced, superblock, ck>>
      /\ \A y \in Xids : /\ txn'[y] = IF y = x THEN "ended" ELSE txn[y]
                         /\ clog'[y] = IF y = x THEN state ELSE clog[y]
                         /\ told'[y] = IF y = x THEN state ELSE told[y]
  BY Zenon DEF end_txn, walVars, ckVars, runVars, TypeOK
<1>2. PICK e \in 1..Len(wal) : /\ wal[e].t \in Ending /\ wal[e].xid = x /\ e <= synced
                               /\ Outcome(e) = state
                               /\ state = "Committed" => wal[e].t = "commit"
  BY <1>1 DEF Fates, FateOfTxn, Outcome, Ending
<1>3. FateOf(e) /\ FateOfTxn(x)
  BY <1>2, Zenon DEF Fates
<1>4. ck.pc = "idle"
  BY <1>1, Zenon DEF Fates, Committing
<1>5. \A y \in Xids : y \in Committing /\ y # x => y \in Committing'
  BY <1>1, Zenon DEF Committing
<1>6. ASSUME NEW i \in 1..Len(wal), wal[i].t \in Ending PROVE FateOf(i)'
  <2>1. FateOf(i) /\ wal[i].xid \in Xids /\ (wal[i].xid = x => i = e)
    BY <1>2, <1>6, Zenon DEF Fates, Log, Formed
  <2>2. Outcome(i)' = Outcome(i)
    BY <1>1, Zenon DEF Outcome
  <2> QED
    BY <1>1, <1>2, <1>5, <2>1, <2>2, SMTT(30) DEF FateOf
<1>7. ASSUME NEW y \in Xids PROVE FateOfTxn(y)'
  <2>1. FateOfTxn(y)
    BY Zenon DEF Fates
  <2>2. CASE y # x
    BY <1>1, <2>1, <2>2, Zenon DEF FateOfTxn
  <2>3. CASE y = x
    <3>1. /\ clog_file[x] \in {"InProgress", clog_cache[x]}
          /\ clog_cache[x] \in {"InProgress", clog'[x]}
      BY <1>1, <1>2, <1>3, Zenon DEF FateOf, FateOfTxn
    <3>2. state = "Committed" =>
            \/ clog_file[x] = "Committed"
            \/ \E i \in superblock.checkpoint_lsn..synced : wal[i].t = "commit" /\ wal[i].xid = x
      <4>1. CASE e < superblock.checkpoint_lsn
        BY <1>2, <1>3, <4>1, Zenon DEF FateOf
      <4>2. CASE ~(e < superblock.checkpoint_lsn)
        BY <1>0, <1>2, <4>2
      <4> QED
        BY <4>1, <4>2, Zenon
    <3>3. ck'.pc \notin ClogSaved
      BY <1>1, <1>4, Zenon DEF ClogSaved
    <3> QED
      BY <1>1, <2>3, <3>1, <3>2, <3>3, Zenon DEF FateOfTxn
  <2> QED
    BY <2>2, <2>3, Zenon
<1> QED
  BY <1>1, <1>4, <1>6, <1>7, Zenon DEF Fates

(* The CLOG buffer may write its pages back at any time ...                 *)
LEMMA EvictFates ==
  ASSUME Typed, Log, Fates, Typed', clog_evict
  PROVE  Fates'
<1> USE DEF RedoStart
<1>1. /\ up /\ up' /\ clog_cache' = clog
      /\ UNCHANGED <<clog, clog_file, told, txn, wal, synced, superblock, ck>>
  BY Zenon DEF clog_evict, walVars, txnVars, ckVars, runVars
<1>2. Committing' = Committing
  BY <1>1, Zenon DEF Committing
<1>3. ASSUME NEW i \in 1..Len(wal), wal[i].t \in Ending PROVE FateOf(i)'
  <2>1. FateOf(i)
    BY <1>3, Zenon DEF Fates
  <2>2. Outcome(i)' = Outcome(i)
    BY <1>1, Zenon DEF Outcome
  <2> QED
    BY <1>1, <1>2, <2>1, <2>2, Zenon DEF FateOf
<1>4. ASSUME NEW x \in Xids PROVE FateOfTxn(x)'
  <2>1. FateOfTxn(x)
    BY Zenon DEF Fates
  <2> QED
    BY <1>1, <2>1, Zenon DEF FateOfTxn
<1> QED
  BY <1>1, <1>2, <1>3, <1>4, Zenon DEF Fates

(* ... and a checkpoint, which no commit or abort overlaps, makes all the   *)
(* outcomes of the log so far durable.                                      *)
LEMMA CkClogFates ==
  ASSUME Typed, Log, Fates, Typed', ck_clog
  PROVE  Fates'
<1> USE DEF RedoStart
<1>1. /\ up /\ up' /\ clog_cache' = clog /\ clog_file' = clog
      /\ UNCHANGED <<clog, told, txn, wal, synced, superblock>>
      /\ ck.pc = "flush"
  BY Zenon DEF ck_clog, At, walVars, txnVars, runVars
<1>2. Committing' = Committing /\ Committing = {}
  BY <1>1, Zenon DEF Committing, Fates
<1>3. ASSUME NEW i \in 1..Len(wal), wal[i].t \in Ending PROVE FateOf(i)'
  <2>1. FateOf(i)
    BY <1>3, Zenon DEF Fates
  <2>2. Outcome(i)' = Outcome(i)
    BY <1>1, Zenon DEF Outcome
  <2> QED
    BY <1>1, <1>2, <2>1, <2>2, Zenon DEF FateOf
<1>4. ASSUME NEW x \in Xids PROVE FateOfTxn(x)'
  <2>1. FateOfTxn(x)
    BY Zenon DEF Fates
  <2> QED
    BY <1>1, <2>1, Zenon DEF FateOfTxn
<1> QED
  BY <1>1, <1>2, <1>3, <1>4, Zenon DEF Fates

(* A crash loses no outcome that anybody has seen.                         *)
LEMMA CrashFates ==
  ASSUME Typed, Log, Pool, Fates, Typed', Next, crash
  PROVE  Fates'
<1> USE DEF RedoStart
<1>0. /\ Len(wal) \in Nat /\ synced \in Nat /\ synced <= Len(wal) /\ superblock.checkpoint_lsn \in Nat
      /\ superblock.checkpoint_lsn >= 1 /\ Len(wal') \in Nat /\ synced' \in Nat /\ synced' <= Len(wal')
  BY Numbers, NumbersNext, Zenon
<1>1. synced <= synced'
  BY LogSteps, Zenon
<1>2. \A i \in 1..Len(wal') : i \in 1..Len(wal) /\ wal'[i] = wal[i]
  <2>1. PICK n \in synced..Len(wal) : wal' = SubSeq(wal, 1, n)
    BY Zenon DEF crash
  <2> QED
    BY <1>0, <2>1, CutWal
<1>3. PICK files \in FileAfter(page_cache, data_file),
           clogs \in ClogAfter(clog_cache, clog_file) : Down(files, clogs)
  BY Zenon DEF crash
<1>4. /\ up /\ ~up' /\ clog' = clogs /\ clog_cache' = clogs /\ clog_file' = clogs
      /\ ck' = Resting /\ UNCHANGED <<superblock, told>> /\ txn' = [x \in Xids |-> "ended"]
  BY <1>3, Zenon DEF crash, Down
<1>5. \A x \in Xids : clogs[x] = clog_cache[x] \/ clogs[x] = clog_file[x]
  BY <1>3, ClogsAfter
<1>6. ck'.pc = "idle" /\ ck'.pc \notin ClogSaved
  BY <1>4, Zenon DEF Resting, ClogSaved
<1>7. \A x \in Xids : FateOfTxn(x)
  BY Zenon DEF Fates
<1>8. ASSUME NEW i \in 1..Len(wal'), wal'[i].t \in Ending PROVE FateOf(i)'
  <2>1. wal'[i] = wal[i] /\ FateOf(i) /\ wal[i].xid \in Xids
    BY <1>2, <1>8, Zenon DEF Fates, Log, Formed
  <2>2. Outcome(i)' = Outcome(i)
    BY <2>1, Zenon DEF Outcome
  <2>3. clog_file[wal[i].xid] = Outcome(i) => clog_cache[wal[i].xid] = Outcome(i)
    BY <1>7, <2>1 DEF FateOfTxn, Outcome
  <2> QED
    BY <1>4, <1>5, <1>6, <2>1, <2>2, <2>3, Zenon DEF FateOf
<1>9. ASSUME NEW x \in Xids PROVE FateOfTxn(x)'
  <2>1. txn'[x] = "ended"
    BY <1>4, Zenon
  <2>2. ASSUME told[x] = "Committed"
        PROVE  \/ clogs[x] = "Committed"
               \/ \E i \in superblock'.checkpoint_lsn..synced' :
                    wal'[i].t = "commit" /\ wal'[i].xid = x
    <3>1. CASE clog_file[x] = "Committed"
      BY <1>5, <1>7, <3>1 DEF FateOfTxn
    <3>2. ASSUME NEW i \in superblock.checkpoint_lsn..synced, wal[i].t = "commit", wal[i].xid = x
          PROVE  /\ i \in superblock'.checkpoint_lsn..synced'
                 /\ wal'[i].t = "commit" /\ wal'[i].xid = x
      BY <1>0, <1>1, <1>2, <1>4, <3>2
    <3> QED
      BY <1>7, <2>2, <3>1, <3>2 DEF FateOfTxn
  <2>3. told[x] = "Aborted" => clogs[x] # "Committed"
    BY <1>5, <1>7 DEF FateOfTxn
  <2> QED
    BY <1>4, <1>6, <2>1, <2>2, <2>3, Zenon DEF FateOfTxn
<1>10. Committing' = {}
  BY <1>4, Zenon DEF Committing
<1> QED
  BY <1>2, <1>6, <1>8, <1>9, <1>10, Zenon DEF Fates

(* Recovery restores them, ...                                             *)
LEMMA RecoverFates ==
  ASSUME Typed, Log, Downtime, Traces, Fates, Typed', ClogTraces', ClockTraces', recover
  PROVE  Fates'
<1> USE DEF RedoStart
<1>0. /\ Len(wal) \in Nat /\ superblock.checkpoint_lsn \in Nat /\ superblock.checkpoint_lsn >= 1
      /\ next_txn_id' \in Nat /\ superblock.next_txn_id \in Nat
  BY Numbers, NumbersNext, Zenon
<1>1. /\ ~up /\ up' /\ UNCHANGED <<wal, synced, superblock, ck, clog_cache, clog_file>>
      /\ synced = Len(wal) /\ ck = Resting /\ clog = clog_file /\ clog_cache = clog_file
      /\ \A x \in Xids : /\ clog'[x] = RecoveredClog[x]
                         /\ told'[x] = IF clog'[x] # "InProgress" THEN clog'[x] ELSE told[x]
                         /\ txn'[x] = IF x < next_txn_id' THEN "ended" ELSE "none"
  BY Zenon DEF recover, Downtime, ckVars, walVars
<1>2. ck'.pc = "idle" /\ ck'.pc \notin ClogSaved /\ ck.pc \notin ClogSaved
  BY <1>1, Zenon DEF Resting, ClogSaved
<1>3. ASSUME NEW i \in 1..Len(wal), wal[i].t \in Ending
      PROVE  wal[i].xid \in Xids /\ clog'[wal[i].xid] = Outcome(i)
  <2>1. wal[i].xid \in Xids /\ FateOf(i)
    BY <1>3, Zenon DEF Fates, Log, Formed
  <2>2. CASE i < superblock.checkpoint_lsn
    <3>1. EndsOf(wal[i].xid) = {}
      <4>1. \A j \in EndsOf(wal[i].xid) : j \in 1..Len(wal) /\ j # i /\ wal[j].t \in Ending
                                          /\ wal[j].xid = wal[i].xid
        BY <1>0, <2>2 DEF EndsOf, Replayed, Ending
      <4> QED
        BY <1>3, <4>1, Zenon DEF Fates
    <3>2. clog_file[wal[i].xid] = Outcome(i) /\ Outcome(i) # "InProgress"
      BY <2>1, <2>2, Zenon DEF FateOf, Outcome
    <3> QED
      BY <1>1, <2>1, <3>1, <3>2, RecoveredOutcomes DEF Traces
  <2>3. CASE ~(i < superblock.checkpoint_lsn)
    <3>1. i \in Replayed
      BY <1>0, <1>3, <2>3 DEF Replayed
    <3> QED
      BY <1>1, <1>3, <2>1, <3>1, RecoveredOutcomes DEF Traces
  <2> QED
    BY <2>2, <2>3, Zenon
<1>4. ASSUME NEW x \in Xids, clog_file[x] # "InProgress" PROVE clog'[x] = clog_file[x]
  <2>1. CASE EndsOf(x) = {}
    BY <1>1, <1>4, <2>1, RecoveredOutcomes, Zenon DEF Traces
  <2>2. ASSUME NEW i \in EndsOf(x) PROVE clog'[x] = clog_file[x]
    <3>1. i \in 1..Len(wal) /\ wal[i].t \in Ending /\ wal[i].xid = x
      BY <1>0, <2>2 DEF EndsOf, Replayed, Ending
    <3> QED
      BY <1>3, <1>4, <3>1, Zenon DEF Fates, FateOf
  <2> QED
    BY <2>1, <2>2, Zenon
<1>5. ASSUME NEW i \in 1..Len(wal'), wal'[i].t \in Ending PROVE FateOf(i)'
  <2>1. wal[i].xid \in Xids /\ FateOf(i) /\ clog'[wal[i].xid] = Outcome(i)
    BY <1>1, <1>3, <1>5, Zenon DEF Fates
  <2>2. Outcome(i)' = Outcome(i) /\ Outcome(i) # "InProgress"
    BY <1>1, Zenon DEF Outcome
  <2>3. wal[i].xid < next_txn_id'
    BY <1>1, <1>5, Zenon DEF ClockTraces
  <2> QED
    BY <1>1, <1>2, <2>1, <2>2, <2>3, Zenon DEF FateOf
<1>6. ASSUME NEW x \in Xids PROVE FateOfTxn(x)'
  <2>1. FateOfTxn(x)
    BY Zenon DEF Fates
  <2>2. txn'[x] # "ended" => clog'[x] = "InProgress" /\ told'[x] = "InProgress"
    <3>1. SUFFICES ASSUME txn'[x] # "ended",
                          ~(clog'[x] = "InProgress" /\ told'[x] = "InProgress")
                   PROVE  FALSE
      BY Zenon
    <3>2. Knows(superblock', wal', x, synced')
      BY <3>1, Zenon DEF ClogTraces
    <3>3. x < superblock.next_txn_id
          \/ \E i \in superblock.checkpoint_lsn..Len(wal) : wal[i].xid = x
      BY <1>1, <3>2, Zenon DEF Knows
    <3>4. \A i \in superblock.checkpoint_lsn..Len(wal) : wal[i].xid < next_txn_id'
      BY <1>0, <1>1 DEF ClockTraces
    <3>5. superblock.next_txn_id <= next_txn_id'
      BY <1>1, Zenon DEF ClockTraces
    <3>6. x < next_txn_id'
      BY <1>0, <3>3, <3>4, <3>5 DEF Xids
    <3> QED
      BY <1>1, <3>1, <3>6, Zenon
  <2>3. ASSUME told[x] = "Committed" PROVE clog'[x] = "Committed"
    <3>1. CASE clog_file[x] = "Committed"
      BY <1>4, <3>1, Zenon
    <3>2. ASSUME NEW i \in superblock.checkpoint_lsn..synced, wal[i].t = "commit", wal[i].xid = x
          PROVE  clog'[x] = "Committed"
      BY <1>0, <1>1, <1>3, <3>2 DEF Outcome, Ending
    <3> QED
      BY <2>1, <2>3, <3>1, <3>2, Zenon DEF FateOfTxn
  <2>4. ASSUME clog'[x] = "Committed"
        PROVE  \/ clog_file[x] = "Committed"
               \/ \E i \in superblock.checkpoint_lsn..synced : wal[i].t = "commit" /\ wal[i].xid = x
    BY <1>1, <2>4, RecoveredOutcomes, Zenon DEF Traces, Replayed
  <2> QED
    BY <1>1, <1>2, <1>4, <2>2, <2>3, <2>4, Zenon DEF FateOfTxn
<1>7. Committing' = {}
  BY <1>1, Zenon DEF Committing
<1> QED
  BY <1>1, <1>5, <1>6, <1>7, Zenon DEF Fates

(* ... and a crash before it is done leaves nothing it could not redo.     *)
LEMMA CrashAgainFates ==
  ASSUME Typed, Log, Downtime, Traces, Fates, Typed', crash_in_recovery
  PROVE  Fates'
<1> USE DEF RedoStart
<1>0. Len(wal) \in Nat /\ superblock.checkpoint_lsn \in Nat /\ superblock.checkpoint_lsn >= 1
  BY Numbers, Zenon
<1>1. PICK files \in FileAfter(RecoveredPages, data_file),
           clogs \in ClogAfter(RecoveredClog, clog_file) : Down(files, clogs)
  BY Zenon DEF crash_in_recovery
<1>2. /\ ~up /\ ~up' /\ clog' = clogs /\ clog_cache' = clogs /\ clog_file' = clogs
      /\ ck' = Resting /\ UNCHANGED <<superblock, told, wal, synced>>
      /\ txn' = [x \in Xids |-> "ended"] /\ clog = clog_file /\ synced = Len(wal)
  BY <1>1, Zenon DEF crash_in_recovery, Down, Downtime
<1>3. \A x \in Xids : clogs[x] = RecoveredClog[x] \/ clogs[x] = clog_file[x]
  BY <1>1, ClogsAfter
<1>4. ck'.pc = "idle" /\ ck'.pc \notin ClogSaved
  BY <1>2, Zenon DEF Resting, ClogSaved
<1>5. ASSUME NEW i \in 1..Len(wal), wal[i].t \in Ending, i >= superblock.checkpoint_lsn
      PROVE  RecoveredClog[wal[i].xid] = Outcome(i)
  <2>1. wal[i].xid \in Xids /\ i \in Replayed
    BY <1>0, <1>5 DEF Log, Formed, Replayed
  <2> QED
    BY <1>5, <2>1, RecoveredOutcomes, Zenon DEF Traces
<1>6. ASSUME NEW x \in Xids, clog_file[x] # "InProgress" PROVE RecoveredClog[x] = clog_file[x]
  <2>1. CASE EndsOf(x) = {}
    BY <1>6, <2>1, RecoveredOutcomes, Zenon DEF Traces
  <2>2. ASSUME NEW i \in EndsOf(x) PROVE RecoveredClog[x] = clog_file[x]
    <3>1. i \in 1..Len(wal) /\ i >= superblock.checkpoint_lsn /\ wal[i].t \in Ending
          /\ wal[i].xid = x
      BY <1>0, <2>2 DEF EndsOf, Replayed, Ending
    <3>2. FateOf(i)
      BY <3>1, Zenon DEF Fates
    <3> QED
      BY <1>5, <1>6, <3>1, <3>2, Zenon DEF FateOf
  <2> QED
    BY <2>1, <2>2, Zenon
<1>7. ASSUME NEW i \in 1..Len(wal'), wal'[i].t \in Ending PROVE FateOf(i)'
  <2>1. wal[i].xid \in Xids /\ FateOf(i)
    BY <1>2, <1>7, Zenon DEF Fates, Log, Formed
  <2>2. Outcome(i)' = Outcome(i) /\ Outcome(i) # "InProgress"
    BY <1>2, SMTT(30) DEF Outcome
  <2>3. i < superblock.checkpoint_lsn => clogs[wal[i].xid] = Outcome(i)
    BY <1>3, <1>6, <2>1, <2>2, SMTT(30) DEF FateOf
  <2>4. i >= superblock.checkpoint_lsn => clogs[wal[i].xid] \in {"InProgress", Outcome(i)}
    BY <1>2, <1>3, <1>5, <1>7, <2>1, Zenon DEF FateOf
  <2>5. i < superblock.checkpoint_lsn \/ i >= superblock.checkpoint_lsn
    BY <1>0
  <2> QED
    <3>1. /\ clogs[wal[i].xid] \in {"InProgress", Outcome(i)}
          /\ told[wal[i].xid] \in {"InProgress", Outcome(i)}
      BY <2>1, <2>3, <2>4, <2>5, Zenon DEF FateOf
    <3> QED
      BY <1>2, <1>4, <2>2, <2>3, <3>1, Zenon DEF FateOf
<1>8. ASSUME NEW x \in Xids PROVE FateOfTxn(x)'
  <2>1. FateOfTxn(x) /\ txn'[x] = "ended"
    BY <1>2, Zenon DEF Fates
  <2>2. clog_file[x] = "Committed" => clogs[x] = "Committed"
    BY <1>3, <1>6, Zenon
  <2>3. ASSUME told[x] = "Aborted" PROVE clogs[x] # "Committed"
    <3>1. clog_file[x] # "Committed"
      BY <1>2, <2>1, <2>3, Zenon DEF FateOfTxn
    <3>2. RecoveredClog[x] # "Committed"
      <4>1. ASSUME NEW i \in Replayed, wal[i].t = "commit", wal[i].xid = x PROVE FALSE
        <5>1. i \in 1..Len(wal)
          BY <1>0 DEF Replayed
        <5>2. FateOf(i) /\ Outcome(i) = "Committed"
          BY <4>1, <5>1, Zenon DEF Fates, Ending, Outcome
        <5> QED
          BY <2>3, <4>1, <5>2, Zenon DEF FateOf
      <4> QED
        BY <3>1, <4>1, RecoveredOutcomes, Zenon DEF Traces
    <3> QED
      BY <1>3, <3>1, <3>2, Zenon
  <2> QED
    BY <1>2, <1>4, <2>1, <2>2, <2>3, Zenon DEF FateOfTxn
<1>9. Committing' = {}
  BY <1>2, Zenon DEF Committing
<1> QED
  BY <1>2, <1>4, <1>7, <1>8, <1>9, Zenon DEF Fates

LEMMA NextFates ==
  ASSUME Typed, Log, Clock, Pool, Downtime, Traces, Fates,
         Typed', ClockTraces', ClogTraces', Next
  PROVE  Fates'
<1> TypeOK
  BY Zenon DEF Typed
<1> TypeOK'
  BY Zenon DEF Typed
<1>1. CASE Transaction
  <2>0. up /\ up'
    BY <1>1, TransactionFrame, Zenon
  <2>1. ASSUME NEW x \in Xids, NEW kind \in Ending, append_end(x, kind) PROVE Fates'
    BY <2>1, AppendEndFates, Zenon
  <2>2. ASSUME NEW x \in Xids, NEW kind \in Ending, flush_end(x, kind) PROVE Fates'
    BY <2>2, FlushEndFates, Zenon
  <2>3. ASSUME NEW x \in Xids, NEW state \in {"Committed", "Aborted"}, end_txn(x, state)
        PROVE  Fates'
    BY <2>3, EndTxnFates, Zenon
  <2>4. CASE begin
    <3>1. txn[next_txn_id] = "none" /\ next_txn_id \in Xids /\ UNCHANGED wal
      BY <2>4, Numbers DEF begin, Clock, walVars
    <3>2. \A y \in Xids : txn'[y] = IF y = next_txn_id THEN "active" ELSE txn[y]
      BY <2>4, Zenon DEF begin, TypeOK
    <3>3. UNCHANGED <<clog, clog_cache, clog_file, told>>
      BY <2>4, Zenon DEF begin, clogVars
    <3>4. \A x \in Xids : txn[x] \in Final \/ txn'[x] \in Final => txn'[x] = txn[x]
      BY <3>1, <3>2, Zenon DEF Final
    <3> QED
      BY <2>0, <3>3, <3>4, QuietFates, Zenon
  <2>5. ASSUME NEW x \in Xids, NEW p \in Pages, pin_mut(x, p) PROVE Fates'
    <3>1. \A y \in Xids : txn'[y] = IF y = x THEN "pinned" ELSE txn[y]
      BY <2>5 DEF pin_mut, TypeOK
    <3>2. txn[x] = "active" /\ UNCHANGED <<clog, clog_cache, clog_file, told>>
      BY <2>5, Zenon DEF pin_mut, clogVars
    <3>3. \A y \in Xids : txn[y] \in Final \/ txn'[y] \in Final => txn'[y] = txn[y]
      BY <3>1, <3>2, Zenon DEF Final
    <3> QED
      BY <2>0, <3>2, <3>3, QuietFates, Zenon
  <2>6. ASSUME NEW x \in Xids, log_insert(x) PROVE Fates'
    <3>1. \A y \in Xids : txn'[y] = IF y = x THEN "logged" ELSE txn[y]
      BY <2>6, Zenon DEF log_insert, TypeOK
    <3>2. txn[x] = "pinned" /\ UNCHANGED <<clog, clog_cache, clog_file, told>>
      BY <2>6, Zenon DEF log_insert, clogVars
    <3>3. \A y \in Xids : txn[y] \in Final \/ txn'[y] \in Final => txn'[y] = txn[y]
      BY <3>1, <3>2, Zenon DEF Final
    <3> QED
      BY <2>0, <3>2, <3>3, QuietFates, Zenon
  <2>7. ASSUME NEW x \in Xids, place_tuple(x) PROVE Fates'
    <3>1. \A y \in Xids : txn'[y] = IF y = x THEN "active" ELSE txn[y]
      BY <2>7, Zenon DEF place_tuple, TypeOK
    <3>2. txn[x] = "logged" /\ UNCHANGED <<clog, clog_cache, clog_file, told>>
      BY <2>7, Zenon DEF place_tuple, clogVars
    <3>3. \A y \in Xids : txn[y] \in Final \/ txn'[y] \in Final => txn'[y] = txn[y]
      BY <3>1, <3>2, Zenon DEF Final
    <3> QED
      BY <2>0, <3>2, <3>3, QuietFates, Zenon
  <2> QED
    BY <1>1, <2>1, <2>2, <2>3, <2>4, <2>5, <2>6, <2>7, Zenon DEF Transaction, Ending
<1>2. CASE Flush
  <2>1. up /\ up' /\ UNCHANGED <<clog, clog_cache, clog_file, told, txn>>
    BY <1>2 DEF Flush, FlushClaim, FlushWrite, FlushSync, FlushFail, clogVars, txnVars, runVars
  <2> QED
    BY <2>1, QuietFates, Zenon
<1>3. CASE Checkpoint
  <2>1. CASE ck_clog
    BY <2>1, CkClogFates, Zenon
  <2>2. CASE ~ck_clog
    <3>1. up /\ up' /\ UNCHANGED <<clog, clog_cache, clog_file, told, txn>>
      BY <1>3, <2>2 DEF Checkpoint, ck_begin, ck_publish, ck_snapshot, ck_collect, ck_skip, ck_end,
                        ck_sync, ck_superblock, ck_recycle, ck_fail, At, clogVars, txnVars, runVars
    <3> QED
      BY <3>1, QuietFates, Zenon
  <2> QED
    BY <2>1, <2>2, Zenon
<1> QED
  BY <1>1, <1>2, <1>3, EvictFates, CrashFates, RecoverFates, CrashAgainFates, Zenon DEF Next

(* The initial state satisfies the invariant.                              *)
LEMMA InitialOutcomes ==
  ASSUME Init
  PROVE  IInv
<1>1. /\ synced = 2 /\ superblock = [checkpoint_lsn |-> 1, next_txn_id |-> 1] /\ RedoStart = 1
      /\ ck = Resting /\ up /\ next_txn_id = 1 /\ txn = [x \in Xids |-> "none"]
      /\ page_cache = [p \in Pages |-> Blank] /\ data_file = [p \in Pages |-> Blank]
      /\ clog = [x \in Xids |-> "InProgress"] /\ clog_cache = clog /\ clog_file = clog /\ told = clog
  BY Zenon DEF Init, RedoStart
<1>2. Typed /\ Len(wal) \in Nat /\ Blank.tuples = {}
  BY InitialState, Numbers DEF Blank
<1>3. Traces
  <2>1. ClockTraces
    BY <1>1, <1>2, InitialState DEF ClockTraces, Resting, Numbered
  <2>2. SnapshotTraces
    BY <1>1, <1>2, InitialState DEF SnapshotTraces, Resting, Numbered, Running
  <2>3. PageTraces
    BY <1>1, <1>2, InitialState, Zenon DEF PageTraces, Traced
  <2>4. ClogTraces
    BY <1>1, Zenon DEF ClogTraces
  <2> QED
    BY <2>1, <2>2, <2>3, <2>4, Zenon DEF Traces
<1>4. Fates
  <2>1. Committing = {}
    BY <1>1, Zenon DEF Committing
  <2>2. \A x \in Xids : FateOfTxn(x)
    BY <1>1, Zenon DEF FateOfTxn
  <2> QED
    BY InitialState, <2>1, <2>2, Zenon DEF Fates, Ending
<1> QED
  BY <1>3, <1>4, InitialState, Zenon DEF IInv

(* Every step keeps it.                                                    *)
LEMMA InvariantKept ==
  ASSUME IInv, [Next]_vars
  PROVE  IInv'
<1>0. Typed' /\ Log' /\ Clock' /\ Pool' /\ Downtime'
  BY BaseKept, Zenon DEF IInv, BaseInv
<1>1. CASE Next
  <2>4. ClockTraces' /\ SnapshotTraces' /\ PageTraces'
    BY <1>0, <1>1, NextClockTraces, NextSnapshotTraces, NextPageTraces, Zenon DEF IInv, Traces
  <2>5. ClogTraces'
    BY <1>0, <1>1, NextClogTraces, Zenon DEF IInv
  <2>6. Fates'
    BY <1>0, <1>1, <2>4, <2>5, NextFates, Zenon DEF IInv
  <2> QED
    BY <1>0, <2>4, <2>5, <2>6, Zenon DEF IInv, Traces
<1>2. CASE UNCHANGED vars
  <2> USE <1>2 DEF vars, walVars, poolVars, fileVars, clogVars, txnVars, ckVars, runVars, ghostVars
  <2>3. Traces'
    <3>1. ClockTraces' /\ ClogTraces'
      BY Zenon DEF IInv, Traces, ClockTraces, ClogTraces, RedoStart
    <3>2. SnapshotTraces' /\ PageTraces'
      BY Zenon DEF IInv, Traces, SnapshotTraces, PageTraces, RedoStart
    <3> QED
      BY <3>1, <3>2, Zenon DEF Traces
  <2>4. Fates'
    <3>1. Committing' = Committing /\ RedoStart' = RedoStart
      BY Zenon DEF Committing, RedoStart
    <3>2. \A i : FateOf(i)' <=> FateOf(i)
      BY <3>1, Zenon DEF FateOf, Outcome
    <3>3. ASSUME NEW x, FateOfTxn(x) PROVE FateOfTxn(x)'
      BY <3>1, <3>3 DEF FateOfTxn
    <3> QED
      BY <3>1, <3>2, <3>3, Zenon DEF IInv, Fates
  <2> QED
    BY <1>0, <2>3, <2>4, Zenon DEF IInv
<1> QED
  BY <1>1, <1>2, Zenon

(* The invariant gives what recovery promises about outcomes.              *)
LEMMA OutcomesFollow ==
  ASSUME IInv
  PROVE  OutcomesRecovered
<1>1. OutcomeStable
  BY Zenon DEF IInv, Fates, FateOfTxn, OutcomeStable
<1>2. ASSUME up, NEW x \in Xids, x >= next_txn_id, NEW n \in Nat, n <= Len(wal),
             Knows(superblock, wal, x, n)
      PROVE  FALSE
  <2>0. Typed /\ ClockTraces
    BY Zenon DEF IInv, Traces
  <2>1. /\ next_txn_id \in Nat /\ Len(wal) \in Nat /\ superblock.next_txn_id \in Nat
        /\ superblock.checkpoint_lsn \in Nat /\ superblock.checkpoint_lsn >= 1
    BY <2>0, Numbers, Zenon DEF RedoStart
  <2>2. \A i \in superblock.checkpoint_lsn..n : i \in 1..Len(wal)
    BY <1>2, <2>1
  <2>3. superblock.next_txn_id <= next_txn_id /\ \A i \in 1..Len(wal) : wal[i].xid < next_txn_id
    BY <1>2, <2>0, Zenon DEF ClockTraces
  <2>4. x < next_txn_id
    BY <1>2, <2>1, <2>2, <2>3 DEF Knows, Xids
  <2> QED
    BY <1>2, <2>1, <2>4 DEF Xids
<1>3. ASSUME up, NEW x \in Xids, x >= next_txn_id
      PROVE  /\ \A p \in Pages : mem[p] # Torn => x \notin mem[p].tuples
             /\ clog[x] = "InProgress" /\ clog_file[x] = "InProgress"
             /\ \A i \in Replayed : wal[i].xid # x
  <2>0. Typed /\ Log /\ Pool /\ PageTraces /\ ClogTraces
    BY Zenon DEF IInv, Traces
  <2>1. Len(wal) \in Nat /\ synced \in Nat /\ synced <= Len(wal)
    BY <2>0, Numbers, Zenon
  <2>2. ASSUME NEW p \in Pages, mem[p] # Torn PROVE x \notin mem[p].tuples
    <3>1. mem[p].lsn \in Nat /\ mem[p].lsn <= Len(wal)
      BY <2>0, <2>2, ImageLsns, Zenon DEF Pool, Lsns
    <3> QED
      BY <1>2, <1>3, <2>0, <2>2, <3>1, Zenon DEF PageTraces, Traced
  <2>3. clog[x] = "InProgress" /\ clog_file[x] = "InProgress"
    BY <1>2, <1>3, <2>0, <2>1, Zenon DEF ClogTraces
  <2>4. ASSUME NEW i \in Replayed, wal[i].xid = x PROVE FALSE
    <3>1. Knows(superblock, wal, x, Len(wal))
      BY <2>4, Zenon DEF Knows, Replayed, RedoStart
    <3> QED
      BY <1>2, <1>3, <2>1, <3>1
  <2> QED
    BY <2>2, <2>3, <2>4, Zenon
<1>4. NoXidReuse
  BY <1>3, Zenon DEF NoXidReuse
<1> QED
  BY <1>1, <1>4, Zenon DEF OutcomesRecovered

(* Outcomes survive.  Whatever the interleaving of transactions, page       *)
(* flushes, CLOG evictions, checkpoints, crashes and crashes of recovery    *)
(* itself, a transaction somebody could see committed stays committed, one  *)
(* seen aborted never becomes visible, and no XID is handed out that a      *)
(* page, the CLOG or the replayed log still knows.                          *)
THEOREM OutcomesAreRecovered == Spec => []OutcomesRecovered
<1>1. Init => IInv
  BY InitialOutcomes, Zenon
<1>2. IInv /\ [Next]_vars => IInv'
  BY InvariantKept, Zenon
<1>3. IInv => OutcomesRecovered
  BY OutcomesFollow, Zenon
<1> QED
  BY <1>1, <1>2, <1>3, PTL DEF Spec
=============================================================================
