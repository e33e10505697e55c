------------------------- MODULE PageRecoveryProofs -------------------------
(***************************************************************************)
(* What recovery restores of a page: an image for every page that a crash  *)
(* tore, except for those that a checkpoint met in flight or that were     *)
(* modified across one.                                                    *)
(***************************************************************************)
EXTENDS TupleRecoveryProofs

\* The log has an image of p between s and n.
Imgs(log, s, n, p) == \E k \in s..n : log[k].t = "fpi" /\ log[k].page = p

\* The LSN of an image is that of a record of its page.
Stamped(log, img, p) ==
    img # Torn => \/ img.lsn = 0
                  \/ log[img.lsn].t \in {"fpi", "insert"} /\ log[img.lsn].page = p

\* The pool's checkpoint LSN, which decides whether an image is due, is not behind the
\* redo point, and is a running checkpoint's own once that is published.
Published ==
    /\ up => checkpoint_lsn >= RedoStart
    /\ ck.pc \in Running \ {"begun"} => checkpoint_lsn = ck.begin

\* The last tuple that the holder of a page logged is for this page; a page in memory
\* is past all its images that a restart would replay.
Stamps(p) ==
    /\ Stamped(wal, mem[p], p) /\ Stamped(wal, page_cache[p], p) /\ Stamped(wal, data_file[p], p)
    /\ latch[p] # 0 /\ txn[latch[p]] = "logged" =>
         \E i \in 1..Len(wal) :
            /\ InsertOn(i, p) /\ wal[i].xid = latch[p]
            /\ \A j \in (i + 1)..Len(wal) : wal[j].t = "insert" => wal[j].xid # latch[p]
    /\ up /\ mem[p] # Torn => \A i \in RedoStart..Len(wal) : ImageOf(i, p) => i <= mem[p].lsn

\* A tuple that a restart would replay is behind an image of its page, and so is one
\* logged since a running checkpoint began.
InsertsImaged(p) ==
    /\ \A i \in RedoStart..Len(wal) : InsertOn(i, p) => Imgs(wal, RedoStart, i, p)
    /\ ck.pc \in Running =>
         \A i \in ck.begin..Len(wal) : InsertOn(i, p) => Imgs(wal, ck.begin, i, p)

\* A page that a crash could tear, or has torn, has an image in the durable log from the
\* redo point on; no page is torn while the process runs.
FileImaged(p) ==
    /\ page_cache[p] # data_file[p] => Imgs(wal, RedoStart, synced, p)
    /\ data_file[p] = Torn => ~up /\ Imgs(wal, RedoStart, synced, p)

\* A page ahead of the disk, or held by a writer, has an image in the log.
PoolImaged(p) ==
    up /\ (mem[p] # data_file[p] \/ latch[p] # 0 \/ ~needs_fpi[p]) =>
        Imgs(wal, RedoStart, Len(wal), p)

\* From the begin record of a running checkpoint on, so have the pages the checkpoint is
\* done with, ...
DoneImaged(p) ==
    ck.pc \in Collected /\ p \notin ck.todo =>
        /\ mem[p] # data_file[p] \/ latch[p] # 0 => Imgs(wal, ck.begin, Len(wal), p)
        /\ page_cache[p] # data_file[p] => Imgs(wal, ck.begin, synced, p)

\* ... and the page it has written and not yet fsynced.
FlushImaged(p) ==
    ck.pc = "flush" /\ flusher[p] = Checkpointer /\ written[p] =>
        (mem[p] # page_cache[p] \/ latch[p] # 0 => Imgs(wal, ck.begin, Len(wal), p))

Tears(p) ==
    InsertsImaged(p) /\ FileImaged(p) /\ PoolImaged(p) /\ DoneImaged(p) /\ FlushImaged(p)

\* The inductive invariant behind the torn pages.
TearInv ==
    /\ IInv /\ Clean /\ Published
    /\ \A p \in Pages : Stamps(p)
    /\ \A p \in Pages \ (straddled \union inflight) : Tears(p)

LEMMA ImgsKept ==
  ASSUME Typed, Log, Pool, Typed', Next, NEW p, NEW s \in Nat, NEW m \in Nat, NEW n \in Nat,
         s >= 1, m <= n, m <= Len(wal), m <= Len(wal'), Imgs(wal, s, m, p)
  PROVE  Imgs(wal', s, n, p)
<1>1. Len(wal) \in Nat /\ Len(wal') \in Nat
  BY Numbers, NumbersNext, Zenon
<1>2. \A k \in s..m : k \in s..n /\ wal'[k] = wal[k]
  BY <1>1, LogSteps
<1> QED
  BY <1>2, Zenon DEF Imgs

LEMMA NextPublished ==
  ASSUME IInv, Next, IInv', Published
  PROVE  Published'
<1> Typed /\ Log /\ Clock /\ Pool /\ Downtime /\ Traces /\ Fates
  BY Zenon DEF IInv
<1> Typed' /\ Log' /\ Clock' /\ Pool' /\ Downtime' /\ Traces' /\ Fates'
  BY Zenon DEF IInv
<1> TypeOK
  BY Zenon DEF Typed
<1> TypeOK'
  BY Zenon DEF Typed
<1>0. /\ RedoStart \in Nat /\ checkpoint_lsn \in Nat /\ ck.begin \in Nat
      /\ ck.pc \in Running => ck.begin > RedoStart
  BY Numbers DEF Log
<1>1. CASE ck_publish
  <2>1. /\ checkpoint_lsn' = ck.begin /\ ck'.begin = ck.begin /\ superblock' = superblock
        /\ ck.pc = "begun"
    BY <1>1 DEF ck_publish, CkGo, At, TypeOK
  <2> QED
    BY <1>0, <2>1 DEF Published, RedoStart, Running
<1>2. CASE recover
  <2>1. checkpoint_lsn' = RedoStart /\ superblock' = superblock /\ ck'.pc = "idle"
    BY <1>2 DEF recover, ckVars, Downtime, Resting
  <2> QED
    BY <1>0, <2>1 DEF Published, RedoStart, Running
<1>3. CASE crash \/ crash_in_recovery
  <2>1. ~up' /\ ck'.pc = "idle"
    BY <1>3 DEF crash, crash_in_recovery, Down, Resting
  <2> QED
    BY <2>1, Zenon DEF Published, Running
<1>4. CASE ck_superblock
  <2>1. /\ superblock'.checkpoint_lsn = ck.begin /\ ck'.pc = "recycle" /\ ck.pc = "super"
        /\ checkpoint_lsn' = checkpoint_lsn
    BY <1>4, SuperblockMoves, Zenon DEF poolVars
  <2> QED
    BY <1>0, <2>1 DEF Published, RedoStart, Running
<1>5. CASE /\ checkpoint_lsn' = checkpoint_lsn /\ superblock' = superblock
           /\ up' => up
           /\ ck'.pc \in Running \ {"begun"} =>
                ck.pc \in Running \ {"begun"} /\ ck'.begin = ck.begin
  BY <1>5, Zenon DEF Published, RedoStart
<1>6. CASE Transaction \/ clog_evict
  BY <1>5, <1>6, TransactionFrame, Zenon DEF clog_evict, poolVars, ckVars, runVars
<1>7. CASE Flush
  <2>1. checkpoint_lsn' = checkpoint_lsn /\ up' = up /\ superblock' = superblock
    BY <1>7, Zenon DEF Flush, FlushClaim, FlushWrite, FlushSync, FlushFail, ckVars, runVars
  <2>2. (ck'.pc = ck.pc /\ ck'.begin = ck.begin) \/ ck'.pc = "idle"
    <3>1. ck' = ck \/ ck' = Resting \/ \E p \in Pages : ck' = Done(flusher[p], p)
      BY <1>7, Zenon DEF Flush, FlushClaim, FlushWrite, FlushSync, FlushFail, ckVars
    <3>2. ASSUME NEW p \in Pages, ck' = Done(flusher[p], p)
          PROVE  ck'.pc = ck.pc /\ ck'.begin = ck.begin
      BY <3>2 DEF Done, TypeOK
    <3> QED
      BY <3>1, <3>2 DEF Resting
  <2> QED
    BY <1>5, <2>1, <2>2, Zenon DEF Running
<1>8. CASE Checkpoint /\ ~ck_publish /\ ~ck_superblock
  <2>1. checkpoint_lsn' = checkpoint_lsn /\ up' = up /\ superblock' = superblock
    BY <1>8, Zenon DEF Checkpoint, ck_begin, ck_snapshot, ck_collect, ck_skip, ck_clog, ck_end, ck_sync,
                ck_recycle, ck_fail, poolVars, ckVars, runVars
  <2>2. CASE ck_begin \/ ck_recycle \/ ck_fail
    <3>1. ck'.pc = "begun" \/ ck'.pc = "idle"
      <4>1. CASE ck_begin
        BY <4>1, Zenon DEF ck_begin, Resting
      <4>2. CASE ck_recycle \/ ck_fail
        BY <4>2 DEF ck_recycle, ck_fail, Resting
      <4> QED
        BY <2>2, <4>1, <4>2, Zenon
    <3> QED
      BY <1>5, <2>1, <3>1, Zenon DEF Running
  <2>3. ASSUME NEW p \in Pages,
               ck_snapshot \/ ck_collect \/ ck_skip(p) \/ ck_clog \/ ck_end \/ ck_sync
        PROVE  ck.pc \in Running \ {"begun"} /\ ck'.begin = ck.begin
    BY <2>3, Zenon DEF ck_snapshot, ck_collect, ck_skip, ck_clog, ck_end, ck_sync, At, CkGo, Done,
                       TypeOK, Running
  <2>4. ASSUME ck_snapshot \/ ck_collect \/ ck_clog \/ ck_end \/ ck_sync
        PROVE  ck.pc \in Running \ {"begun"} /\ ck'.begin = ck.begin
    BY <2>4, Zenon DEF ck_snapshot, ck_collect, ck_clog, ck_end, ck_sync, At, CkGo, TypeOK, Running
  <2> QED
    BY <1>5, <1>8, <2>1, <2>2, <2>3, <2>4, Zenon DEF Checkpoint
<1> QED
  BY <1>1, <1>2, <1>3, <1>4, <1>6, <1>7, <1>8, Zenon DEF Next

(* The images of p that a step leaves on disk and in the OS page cache come from records of p. *)
LEMMA StampedKept ==
  ASSUME Typed, Log, Pool, Typed', Next, NEW p, NEW img \in Image, Stamped(wal, img, p),
         img # Torn => img.lsn <= Len(wal) /\ img.lsn <= Len(wal')
  PROVE  Stamped(wal', img, p)
<1>1. Len(wal) \in Nat /\ Len(wal') \in Nat /\ (img # Torn => img.lsn \in Nat)
  BY Numbers, NumbersNext DEF Image
<1>2. img # Torn /\ img.lsn # 0 => wal'[img.lsn] = wal[img.lsn]
  BY <1>1, LogSteps
<1> QED
  BY <1>2, Zenon DEF Stamped

(* Redo stamps a page with its records, and is past the images it replays.  *)
LEMMA RedoStamps ==
  ASSUME Typed, Log, Pool, NEW p \in Pages, Stamped(wal, data_file[p], p)
  PROVE  /\ Stamped(wal, RedoPage(p), p)
         /\ RedoPage(p) # Torn =>
              \A k \in RedoStart..Len(wal) : ImageOf(k, p) => k <= RedoPage(p).lsn
<1> TypeOK
  BY Zenon DEF Typed
<1> DEFINE Past(i, img) == img # Torn => \A k \in RedoStart..i : ImageOf(k, p) => k <= img.lsn
           Good(i, img) == Stamped(wal, img, p) /\ Past(i, img)
           G == [i \in (RedoStart - 1)..Len(wal) |-> {img \in Image : Good(i, img)}]
<1>0. /\ RedoStart \in Nat /\ Len(wal) \in Nat /\ RedoStart >= 1 /\ RedoStart <= Len(wal)
      /\ MaxLsn \in Nat
  BY Numbers DEF Log
<1>1. data_file[p] \in G[RedoStart - 1]
  BY <1>0 DEF TypeOK
<1>2. ASSUME NEW i \in RedoStart..Len(wal), NEW img \in G[i - 1]
      PROVE  RedoRecord(img, p, i) \in G[i]
  <2>0. /\ img \in Image /\ Stamped(wal, img, p) /\ Past(i - 1, img)
        /\ i \in (RedoStart - 1)..Len(wal) /\ i \in Int /\ i # 0
    BY <1>0, <1>2
  <2> DEFINE new == RedoRecord(img, p, i)
  <2>1. SUFFICES new \in Image /\ Good(i, new)
    BY <2>0, Zenon
  <2>2. CASE new = img
    <3>1. ASSUME img # Torn, ImageOf(i, p) PROVE i <= img.lsn
      BY <2>0, <2>2, <3>1, RedoCases
    <3>2. Past(i, img)
      BY <1>0, <2>0, <3>1
    <3> QED
      BY <2>0, <2>2, <3>2, Zenon
  <2>3. CASE /\ new \in [lsn : 0..MaxLsn, tuples : SUBSET Xids] /\ new.lsn = i
             /\ ImageOf(i, p) \/ InsertOn(i, p)
    <3>1. Past(i, new)
      BY <1>0, <2>3
    <3>2. Stamped(wal, new, p)
      BY <2>3, Zenon DEF Stamped, ImageOf, InsertOn
    <3> QED
      BY <2>3, <3>1, <3>2, Zenon DEF Image
  <2> QED
    BY <2>0, <2>2, <2>3, RedoSteps
<1>3. RedoPage(p) \in G[Len(wal)]
  <2> HIDE DEF G
  <2> QED
    BY <1>0, <1>1, <1>2, RedoInduction, Zenon
<1> QED
  BY <1>0, <1>3

LEMMA LoggedSteps ==
  ASSUME Typed, Clock, Next, up, up', NEW x \in Xids, txn'[x] = "logged"
  PROVE  txn[x] = "logged" \/ log_insert(x)
<1> TypeOK
  BY Zenon DEF Typed
<1>1. CASE Transaction
  <2>1. CASE begin
    BY <2>1, Zenon DEF begin, TypeOK
  <2>2. ASSUME NEW y \in Xids, NEW p \in Pages, pin_mut(y, p) PROVE txn[x] = "logged"
    BY <2>2, Zenon DEF pin_mut, TypeOK
  <2>3. ASSUME NEW y \in Xids, log_insert(y) PROVE txn[x] = "logged" \/ x = y
    BY <2>3, Zenon DEF log_insert, TypeOK
  <2>4. ASSUME NEW y \in Xids, place_tuple(y) PROVE txn[x] = "logged"
    BY <2>4, Zenon DEF place_tuple, TypeOK
  <2>5. ASSUME NEW y \in Xids, NEW kind \in Ending, append_end(y, kind) PROVE txn[x] = "logged"
    BY <2>5, Zenon DEF append_end, TypeOK, Ending
  <2>6. ASSUME NEW y \in Xids, NEW kind \in Ending, flush_end(y, kind) PROVE txn[x] = "logged"
    BY <2>6, Zenon DEF flush_end, TypeOK, Ending
  <2>7. ASSUME NEW y \in Xids, NEW state \in {"Committed", "Aborted"}, end_txn(y, state)
        PROVE  txn[x] = "logged"
    BY <2>7, Zenon DEF end_txn, TypeOK
  <2> QED
    BY <1>1, <2>1, <2>2, <2>3, <2>4, <2>5, <2>6, <2>7, Zenon DEF Transaction, Ending
<1>2. CASE Flush \/ clog_evict \/ Checkpoint
  BY <1>2, Zenon DEF Flush, FlushClaim, FlushWrite, FlushSync, FlushFail, clog_evict, Checkpoint, ck_begin,
              ck_publish, ck_snapshot, ck_collect, ck_skip, ck_clog, ck_end, ck_sync,
              ck_superblock, ck_recycle, ck_fail, txnVars
<1>3. CASE crash \/ crash_in_recovery \/ recover
  BY <1>3, Zenon DEF crash, crash_in_recovery, recover, Down
<1> QED
  BY <1>1, <1>2, <1>3, Zenon DEF Next

LEMMA NextStamps ==
  ASSUME IInv, Next, IInv', Clean, NEW p \in Pages, Stamps(p)
  PROVE  Stamps(p)'
<1> Typed /\ Log /\ Clock /\ Pool /\ Downtime /\ Traces /\ Fates
  BY Zenon DEF IInv
<1> Typed' /\ Log' /\ Clock' /\ Pool' /\ Downtime' /\ Traces' /\ Fates'
  BY Zenon DEF IInv
<1> TypeOK
  BY Zenon DEF Typed
<1> TypeOK'
  BY Zenon DEF Typed
<1>0. /\ Len(wal) \in Nat /\ synced \in Nat /\ synced <= Len(wal)
      /\ Len(wal') \in Nat /\ synced' <= Len(wal') /\ synced' \in Nat /\ synced <= synced'
      /\ data_file[p] \in Image /\ page_cache[p] \in Image /\ mem[p] \in Image
      /\ data_file[p] # Torn => data_file[p].lsn \in Nat /\ data_file[p].lsn <= synced
      /\ page_cache[p] # Torn => page_cache[p].lsn \in Nat /\ page_cache[p].lsn <= synced
      /\ mem[p] # Torn => mem[p].lsn \in Nat /\ mem[p].lsn <= Len(wal)
      /\ up' => Len(wal) <= Len(wal')
  <2>1. up' => ~crash
    BY Zenon DEF crash, Down
  <2> QED
    BY <2>1, Numbers, NumbersNext, LogSteps, ImageLsns, Zenon DEF Pool, Lsns, TypeOK
<1>1. /\ Stamped(wal', data_file[p], p) /\ Stamped(wal', page_cache[p], p)
      /\ up' => Stamped(wal', mem[p], p)
  BY <1>0, StampedKept DEF Stamps
<1>2. ~up => Stamped(wal', RedoPage(p), p)
  <2>1. ASSUME ~up PROVE Len(wal) <= Len(wal')
    BY <2>1, LogSteps, Zenon DEF crash
  <2>2. RedoPage(p) \in Image /\ (RedoPage(p) # Torn => RedoPage(p).lsn <= Len(wal))
    BY RedoTypes, RedoLsns, Zenon DEF Pool
  <2>3. RedoPage(p) # Torn => RedoPage(p).lsn \in Nat
    BY <2>2, Numbers DEF Image
  <2> QED
    BY <1>0, <2>1, <2>2, <2>3, RedoStamps, StampedKept DEF Stamps
<1>3. Stamped(wal', data_file'[p], p)
  BY <1>1, <1>2, FileSteps, Zenon DEF Stamped
<1>4. Stamped(wal', page_cache'[p], p)
  BY <1>1, <1>3, FileSteps, Zenon DEF Written
<1>5. RedoStart \in Nat /\ RedoStart' \in Nat /\ RedoStart <= RedoStart'
  <2>1. RedoStart' = superblock'.checkpoint_lsn /\ superblock'.checkpoint_lsn \in 1..MaxLsn
    BY DEF RedoStart, TypeOK
  <2>2. superblock' = superblock \/ superblock'.checkpoint_lsn > RedoStart
    BY CkSteps, SuperblockMoves, Numbers, Zenon
  <2> QED
    BY <2>1, <2>2, Numbers DEF RedoStart
<1>6. CASE ~up'
  <2>1. mem'[p] = data_file'[p] /\ latch'[p] = 0
    BY <1>6, Zenon DEF Downtime
  <2> QED
    BY <1>3, <1>4, <1>6, <2>1, Zenon DEF Stamps
<1>7. CASE recover
  <2>1. /\ mem'[p] = data_file'[p] /\ latch'[p] = 0 /\ wal' = wal /\ superblock' = superblock
        /\ mem'[p] = RedoPage(p)
    BY <1>7 DEF recover, Downtime, walVars, ckVars, RecoveredPages
  <2>2. RedoPage(p) # Torn => \A k \in RedoStart..Len(wal) : ImageOf(k, p) => k <= RedoPage(p).lsn
    BY RedoStamps, Zenon DEF Stamps
  <2> QED
    BY <1>3, <1>4, <2>1, <2>2, Zenon DEF Stamps, ImageOf, RedoStart
<1>8. CASE up /\ up'
  <2>1. Stamped(wal', mem'[p], p)
    <3>1. CASE mem'[p] = mem[p]
      BY <1>1, <1>8, <3>1, Zenon
    <3>2. ASSUME NEW x \in Xids, Latched(x, p), mem'[p] # mem[p]
          PROVE  Stamped(wal', mem'[p], p)
      BY <3>2 DEF Latched, Stamped, Rec
    <3>3. ASSUME NEW x \in Xids, Placed(x, p) PROVE Stamped(wal', mem'[p], p)
      <4>1. PICK i \in 1..Len(wal) :
               /\ InsertOn(i, p) /\ wal[i].xid = x
               /\ \A j \in (i + 1)..Len(wal) : wal[j].t = "insert" => wal[j].xid # x
        BY <3>3, Holders, Zenon DEF Placed, Stamps
      <4>2. LastOf(x) \in {j \in 1..Len(wal) : wal[j].t = "insert" /\ wal[j].xid = x}
        BY <3>3, PlacedLsn, Zenon DEF Placed
      <4>3. LastOf(x) <= i
        BY <1>0, <4>1, <4>2
      <4>4. LastOf(x) = i
        <5> DEFINE S == {j \in 1..Len(wal) : wal[j].t = "insert" /\ wal[j].xid = x}
        <5>1. S \in SUBSET Nat /\ i \in S /\ \A j \in S : j <= Len(wal)
          BY <1>0, <4>1 DEF InsertOn
        <5>2. i <= Max(S)
          <6> HIDE DEF S
          <6> QED
            BY <1>0, <5>1, MaxNat, Zenon
        <5> QED
          BY <1>0, <4>2, <4>3, <5>2 DEF LastOf
      <4>5. mem'[p].lsn = mem[p].lsn \/ mem'[p].lsn = LastOf(x)
        BY <3>3, PlacedLsn DEF Placed
      <4> QED
        BY <1>1, <1>8, <3>3, <4>1, <4>4, <4>5 DEF Placed, Stamped, InsertOn
    <3> QED
      BY <1>8, <3>1, <3>2, <3>3, PageSteps, Zenon DEF Untouched, Claimed, Written, Synced, Failed
  <2>2. ASSUME up', mem'[p] # Torn, NEW i \in RedoStart'..Len(wal'),
               wal'[i].t = "fpi", wal'[i].page = p
        PROVE  i <= mem'[p].lsn
    <3>0. i \in 1..Len(wal') /\ i \in Nat /\ i >= RedoStart
      <4>1. RedoStart >= 1
        BY Numbers, Zenon
      <4> QED
        BY <1>0, <1>5, <4>1
    <3>1. mem[p] # Torn /\ mem[p].lsn <= mem'[p].lsn /\ mem'[p].lsn \in Nat
      <4>1. mem[p] # Torn
        BY <1>8, <2>2, PageSteps, Zenon DEF Untouched, Latched, Placed, Claimed, Written, Synced, Failed
      <4>2. mem'[p].lsn \in Nat
        <5>1. mem'[p] \in Image
          BY Zenon DEF TypeOK
        <5> QED
          BY <2>2, <5>1, CrashRecoveryAssumption DEF Image
      <4>3. ASSUME NEW x \in Xids, Latched(x, p) PROVE mem[p].lsn <= mem'[p].lsn
        BY <1>0, <4>1, <4>3 DEF Latched
      <4>4. ASSUME NEW x \in Xids, Placed(x, p) PROVE mem[p].lsn <= mem'[p].lsn
        BY <4>4, PlacedLsn DEF Placed
      <4> QED
        BY <1>0, <1>8, <4>1, <4>2, <4>3, <4>4, PageSteps
           DEF Untouched, Claimed, Written, Synced, Failed
    <3>2. CASE i \in 1..Len(wal) /\ wal'[i] = wal[i]
      <4>1. i <= mem[p].lsn
        BY <1>0, <1>8, <2>2, <3>0, <3>1, <3>2 DEF Stamps, ImageOf
      <4> QED
        BY <1>0, <3>0, <3>1, <4>1
    <3>3. CASE i = Len(wal) + 1 /\ Len(wal') > Len(wal)
      <4>1. PICK x \in Xids, q \in Pages : pin_mut(x, q) /\ FpiDue(q) /\ wal'[i].page = q
        BY <2>2, <3>3, NewRecords, Zenon
      <4>2. mem'[p].lsn = Len(wal')
        <5>1. mem[p] \in [lsn : 0..MaxLsn, tuples : SUBSET Xids]
          BY <3>1, ImageLsns, Zenon
        <5>2. mem'[p] = [mem[p] EXCEPT !.lsn = Len(wal')]
          BY <2>2, <4>1 DEF pin_mut, TypeOK
        <5> QED
          BY <5>1, <5>2, Zenon
      <4> QED
        BY <1>0, <3>0, <4>2
    <3> QED
      BY <3>0, <3>2, <3>3, OldOrNew, Zenon
  <2>3. ASSUME latch'[p] # 0, txn'[latch'[p]] = "logged"
        PROVE  \E i \in 1..Len(wal') :
                  /\ wal'[i].t = "insert" /\ wal'[i].page = p /\ wal'[i].xid = latch'[p]
                  /\ \A j \in (i + 1)..Len(wal') : wal'[j].t = "insert" => wal'[j].xid # latch'[p]
    <3> DEFINE y == latch'[p]
    <3>0. y \in Xids
      <4>1. latch'[p] \in 0..MaxXid
        BY Zenon DEF TypeOK
      <4> QED
        BY <2>3, <4>1, CrashRecoveryAssumption DEF Xids
    <3>1. latch[p] = y
      <4>1. ASSUME NEW x \in Xids, pin_mut(x, p), Latched(x, p) PROVE FALSE
        <5>1. txn'[x] = "pinned" /\ y = x
          BY <4>1 DEF pin_mut, Latched, TypeOK
        <5> QED
          BY <2>3, <5>1, Zenon
      <4> QED
        BY <1>8, <2>3, <4>1, PageSteps, Zenon DEF Untouched, Placed, Claimed, Written, Synced, Failed
    <3> HIDE DEF y
    <3>2. CASE log_insert(y)
      <4>1. Pinned(y) \in Pages /\ latch[Pinned(y)] = y
        BY <3>0, <3>2, PinnedPage, Zenon DEF log_insert
      <4>2. p = Pinned(y)
        BY <3>0, <3>1, <4>1, Holders DEF Pool, Latches
      <4>3. Len(wal') = Len(wal) + 1 /\ wal'[Len(wal) + 1] = Rec("insert", Pinned(y), y, <<>>)
        BY <3>0, <3>2, AppendWal, InsertFormed, Zenon DEF log_insert
      <4>4. Len(wal) + 1 \in 1..Len(wal') /\ (Len(wal) + 2)..Len(wal') = {}
        BY <1>0, <4>3
      <4> QED
        BY <1>0, <4>2, <4>3, <4>4 DEF Rec, y
    <3>3. CASE txn[y] = "logged"
      <4>1. PICK i \in 1..Len(wal) :
               /\ InsertOn(i, p) /\ wal[i].xid = y
               /\ \A j \in (i + 1)..Len(wal) : wal[j].t = "insert" => wal[j].xid # y
        BY <3>0, <3>1, <3>3, Holders, Zenon DEF Stamps
      <4>2. i \in 1..Len(wal') /\ wal'[i] = wal[i]
        BY <1>0, <1>8, LogSteps
      <4>3. ASSUME NEW j \in (i + 1)..Len(wal'), wal'[j].t = "insert" PROVE wal'[j].xid # y
        <5>1. j \in 1..Len(wal')
          BY <1>0
        <5>2. CASE j \in 1..Len(wal) /\ wal'[j] = wal[j]
          BY <1>0, <4>1, <4>3, <5>2
        <5>3. CASE j = Len(wal) + 1 /\ Len(wal') > Len(wal)
          <6>1. PICK x \in Xids : log_insert(x) /\ wal'[j].xid = x
            BY <4>3, <5>3, NewRecords, Zenon
          <6> QED
            BY <3>3, <6>1, Zenon DEF log_insert
        <5> QED
          BY <5>1, <5>2, <5>3, OldOrNew, Zenon
      <4> QED
        BY <4>1, <4>2, <4>3, Zenon DEF InsertOn, y
    <3> QED
      BY <1>8, <2>3, <3>0, <3>2, <3>3, LoggedSteps, Zenon DEF y
  <2> QED
    BY <1>3, <1>4, <1>8, <2>1, <2>2, <2>3, Zenon DEF Stamps, ImageOf, InsertOn
<1> QED
  BY <1>6, <1>7, <1>8, UpSteps, Zenon DEF TypeOK

(* The log keeps the images it has.                                        *)
LEMMA ImgsGrow ==
  ASSUME IInv, Next, IInv', NEW p, NEW s \in Nat, s >= 1
  PROVE  /\ Imgs(wal, s, synced, p) => Imgs(wal', s, synced', p)
         /\ ~crash /\ Imgs(wal, s, Len(wal), p) => Imgs(wal', s, Len(wal'), p)
         /\ Imgs(wal, s, synced, p) => Imgs(wal, s, Len(wal), p)
<1> Typed /\ Log /\ Clock /\ Pool /\ Downtime /\ Traces /\ Fates
  BY Zenon DEF IInv
<1> Typed' /\ Log' /\ Clock' /\ Pool' /\ Downtime' /\ Traces' /\ Fates'
  BY Zenon DEF IInv
<1>1. /\ Len(wal) \in Nat /\ synced \in Nat /\ synced <= Len(wal)
      /\ Len(wal') \in Nat /\ synced' \in Nat /\ synced' <= Len(wal')
      /\ synced <= synced' /\ (~crash => Len(wal) <= Len(wal'))
  BY Numbers, NumbersNext, LogSteps, Zenon
<1>2. Imgs(wal, s, synced, p) => Imgs(wal', s, synced', p)
  BY <1>1, ImgsKept
<1>3. ~crash /\ Imgs(wal, s, Len(wal), p) => Imgs(wal', s, Len(wal'), p)
  BY <1>1, ImgsKept
<1>4. Imgs(wal, s, synced, p) => Imgs(wal, s, Len(wal), p)
  <2>1. \A k \in s..synced : k \in s..Len(wal)
    BY <1>1
  <2> QED
    BY <2>1, Zenon DEF Imgs
<1> QED
  BY <1>2, <1>3, <1>4, Zenon

LEMMA RunSteps ==
  ASSUME Next
  PROVE  /\ ~up => recover \/ crash_in_recovery
         /\ up /\ ~up' => crash
         /\ crash \/ crash_in_recovery => ~up'
<1>1. CASE Transaction
  BY <1>1, TransactionFrame, Zenon DEF crash, crash_in_recovery, Down
<1>2. CASE Flush \/ clog_evict
  BY <1>2 DEF Flush, FlushClaim, FlushWrite, FlushSync, FlushFail, clog_evict, runVars, crash,
              crash_in_recovery, Down
<1>3. CASE Checkpoint
  BY <1>3 DEF Checkpoint, ck_begin, ck_publish, ck_snapshot, ck_collect, ck_skip, ck_clog, ck_end,
              ck_sync, ck_superblock, ck_recycle, ck_fail, At, runVars, crash, crash_in_recovery, Down
<1>4. CASE crash \/ crash_in_recovery \/ recover
  BY <1>4, Zenon DEF crash, crash_in_recovery, recover, Down
<1> QED
  BY <1>1, <1>2, <1>3, <1>4, Zenon DEF Next

(* Redo changes a page only if it has an image of it, and then mends it.   *)
LEMMA RedoTears ==
  ASSUME Typed, Log, NEW p \in Pages, InsertsImaged(p)
  PROVE  /\ RedoPage(p) # data_file[p] => Imgs(wal, RedoStart, Len(wal), p)
         /\ RedoPage(p) = Torn => ~Imgs(wal, RedoStart, Len(wal), p)
<1> TypeOK
  BY Zenon DEF Typed
<1> DEFINE Good(i, img) == /\ img # data_file[p] => Imgs(wal, RedoStart, i, p)
                           /\ img = Torn => ~Imgs(wal, RedoStart, i, p)
           G == [i \in (RedoStart - 1)..Len(wal) |-> {img \in Image : Good(i, img)}]
<1>0. /\ RedoStart \in Nat /\ Len(wal) \in Nat /\ RedoStart >= 1 /\ RedoStart <= Len(wal)
      /\ MaxLsn \in Nat
  BY Numbers DEF Log
<1>1. data_file[p] \in G[RedoStart - 1]
  <2>1. ~Imgs(wal, RedoStart, RedoStart - 1, p)
    BY <1>0 DEF Imgs
  <2> QED
    BY <1>0, <2>1 DEF TypeOK
<1>2. ASSUME NEW i \in RedoStart..Len(wal), NEW img \in G[i - 1]
      PROVE  RedoRecord(img, p, i) \in G[i]
  <2>0. /\ img \in Image /\ Good(i - 1, img)
        /\ i \in (RedoStart - 1)..Len(wal) /\ i \in Int /\ i \in RedoStart..i
    BY <1>0, <1>2
  <2> DEFINE new == RedoRecord(img, p, i)
  <2>1. SUFFICES new \in Image /\ Good(i, new)
    BY <2>0, Zenon
  <2>2. /\ Imgs(wal, RedoStart, i - 1, p) => Imgs(wal, RedoStart, i, p)
        /\ ~ImageOf(i, p) /\ Imgs(wal, RedoStart, i, p) => Imgs(wal, RedoStart, i - 1, p)
        /\ ImageOf(i, p) => Imgs(wal, RedoStart, i, p)
    <3>1. \A k \in RedoStart..i : k = i \/ k \in RedoStart..(i - 1)
      BY <1>0, <2>0
    <3>2. \A k \in RedoStart..(i - 1) : k \in RedoStart..i
      BY <1>0, <2>0
    <3> QED
      BY <2>0, <3>1, <3>2, Zenon DEF Imgs, ImageOf
  <2>3. CASE ImageOf(i, p)
    <3>1. new \in [lsn : 0..MaxLsn, tuples : SUBSET Xids] /\ new # Torn
      <4>1. Torn \notin [lsn : 0..MaxLsn, tuples : SUBSET Xids]
        BY CrashRecoveryAssumption, Zenon DEF Xids
      <4>2. new = [lsn |-> i, tuples |-> wal[i].body.tuples]
        BY <2>0, <2>3, RedoCases
      <4>3. wal[i].body \in [lsn : 0..MaxLsn, tuples : SUBSET Xids]
        <5>1. i \in 1..Len(wal)
          BY <1>0
        <5> QED
          BY <2>3, <5>1, Zenon DEF Log, Formed, ImageOf, Image
      <4>4. i \in 0..MaxLsn
        BY <1>0, Numbers
      <4> QED
        BY <4>1, <4>2, <4>3, <4>4
    <3> QED
      BY <2>2, <2>3, <3>1, Zenon DEF Image
  <2>4. CASE InsertOn(i, p)
    <3>1. Imgs(wal, RedoStart, i, p) /\ ~ImageOf(i, p)
      BY <2>4, Zenon DEF InsertsImaged, InsertOn, ImageOf
    <3>2. new \in Image
      BY <2>0, RedoSteps, Zenon DEF Image
    <3>3. new = Torn => img = Torn
      <4>1. Torn \notin [lsn : 0..MaxLsn, tuples : SUBSET Xids]
        BY CrashRecoveryAssumption, Zenon DEF Xids
      <4>2. new = img \/ new \in [lsn : 0..MaxLsn, tuples : SUBSET Xids]
        BY <2>0, RedoSteps, Zenon
      <4> QED
        BY <4>1, <4>2, Zenon
    <3> QED
      BY <2>0, <2>2, <3>1, <3>2, <3>3, Zenon
  <2>5. CASE wal[i].page # p
    BY <2>0, <2>2, <2>5, RedoCases DEF ImageOf
  <2> QED
    BY <2>0, <2>3, <2>4, <2>5, RedoCases, Zenon
<1>3. RedoPage(p) \in G[Len(wal)]
  <2> HIDE DEF G
  <2> QED
    BY <1>0, <1>1, <1>2, RedoInduction, Zenon
<1> QED
  BY <1>0, <1>3

(* A modification that needs an image has one, from s on, when the pool decides by a  *)
(* checkpoint LSN that is not behind s.                                              *)
LEMMA LatchedImgs ==
  ASSUME IInv, Next, IInv', NEW p \in Pages, NEW x \in Xids, Latched(x, p), needs_fpi[p], Stamps(p),
         NEW s \in Nat, s >= 1, s <= Len(wal), checkpoint_lsn >= s,
         \A i \in s..Len(wal) : InsertOn(i, p) => Imgs(wal, s, i, p)
  PROVE  Imgs(wal', s, Len(wal'), p)
<1> Typed /\ Log /\ Clock /\ Pool /\ Downtime /\ Traces /\ Fates
  BY Zenon DEF IInv
<1> Typed' /\ Log' /\ Clock' /\ Pool' /\ Downtime' /\ Traces' /\ Fates'
  BY Zenon DEF IInv
<1>0. /\ Len(wal) \in Nat /\ checkpoint_lsn \in Nat
      /\ mem[p] # Torn /\ mem[p].lsn \in Nat /\ mem[p].lsn <= Len(wal)
  BY Numbers, ImageLsns, Zenon DEF Latched, Pool, Lsns
<1>1. CASE Len(wal') = Len(wal) + 1 /\ wal'[Len(wal) + 1] = Rec("fpi", p, 0, mem[p])
  <2>1. Len(wal) + 1 \in s..Len(wal')
    BY <1>0, <1>1
  <2> QED
    BY <1>1, <2>1 DEF Imgs, Rec
<1>2. CASE ~FpiDue(p) /\ wal' = wal
  <2>1. mem[p].lsn \in s..Len(wal) /\ mem[p].lsn # 0
    BY <1>0, <1>2 DEF FpiDue
  <2>2. CASE wal[mem[p].lsn].t = "fpi" /\ wal[mem[p].lsn].page = p
    BY <1>2, <2>1, <2>2, Zenon DEF Imgs
  <2>3. CASE wal[mem[p].lsn].t = "insert" /\ wal[mem[p].lsn].page = p
    <3>1. Imgs(wal, s, mem[p].lsn, p)
      BY <2>1, <2>3, Zenon DEF InsertOn
    <3>2. \A k \in s..mem[p].lsn : k \in s..Len(wal)
      BY <1>0
    <3> QED
      BY <1>2, <3>1, <3>2, Zenon DEF Imgs
  <2> QED
    BY <1>0, <2>1, <2>2, <2>3, Zenon DEF Stamps, Stamped
<1> QED
  BY <1>1, <1>2, Zenon DEF Latched

(* The redo point, and where a running checkpoint begins.                  *)
LEMMA StartNumbers ==
  ASSUME IInv, IInv'
  PROVE  /\ Len(wal) \in Nat /\ Len(wal') \in Nat /\ RedoStart \in Nat /\ RedoStart >= 1
         /\ RedoStart' \in Nat /\ RedoStart' >= 1
         /\ ck.begin \in Nat /\ ck'.begin \in Nat
         /\ ck.pc \in Running => ck.begin >= 1
         /\ ck'.pc \in Running => ck'.begin >= 1
<1> Typed /\ Log /\ Clock /\ Pool /\ Downtime /\ Traces /\ Fates
  BY Zenon DEF IInv
<1> Typed' /\ Log' /\ Clock' /\ Pool' /\ Downtime' /\ Traces' /\ Fates'
  BY Zenon DEF IInv
<1> TypeOK
  BY Zenon DEF Typed
<1> TypeOK'
  BY Zenon DEF Typed
<1>1. /\ Len(wal) \in Nat /\ Len(wal') \in Nat /\ RedoStart \in Nat /\ RedoStart >= 1
      /\ ck.begin \in Nat /\ MaxLsn \in Nat
  BY Numbers, NumbersNext, Zenon
<1>2. ck.pc \in Running => ck.begin >= 1
  BY <1>1 DEF Log
<1>3. /\ RedoStart' = superblock'.checkpoint_lsn /\ superblock'.checkpoint_lsn \in 1..MaxLsn
      /\ ck'.begin \in 0..MaxLsn
  BY DEF RedoStart, TypeOK
<1>4. ck'.pc \in Running => ck'.begin \in (RedoStart' + 1)..Len(wal')
  BY Zenon DEF Log
<1>5. RedoStart' \in Nat /\ RedoStart' >= 1 /\ ck'.begin \in Nat
  BY <1>1, <1>3
<1>6. ck'.pc \in Running => ck'.begin >= 1
  BY <1>1, <1>4, <1>5
<1> QED
  BY <1>1, <1>2, <1>5, <1>6, Zenon

LEMMA NextInsertsImaged ==
  ASSUME IInv, Next, IInv', Clean, Published, NEW p \in Pages \ (straddled' \union inflight'),
         Tears(p)
  PROVE  InsertsImaged(p)'
<1> Typed /\ Log /\ Clock /\ Pool /\ Downtime /\ Traces /\ Fates
  BY Zenon DEF IInv
<1> Typed' /\ Log' /\ Clock' /\ Pool' /\ Downtime' /\ Traces' /\ Fates'
  BY Zenon DEF IInv
<1>0. /\ Len(wal) \in Nat /\ Len(wal') \in Nat /\ RedoStart \in Nat /\ RedoStart >= 1
      /\ RedoStart' \in Nat /\ RedoStart' >= 1
      /\ ck.begin \in Nat /\ ck'.begin \in Nat
      /\ ck.pc \in Running => ck.begin >= 1
      /\ ck'.pc \in Running => ck'.begin >= 1
  BY StartNumbers, Zenon
\* A new tuple is for a page its writer holds.
<1>1. ASSUME NEW i \in 1..Len(wal'), wal'[i].t = "insert", wal'[i].page = p,
             i = Len(wal) + 1, Len(wal') > Len(wal)
      PROVE  /\ up /\ latch[p] # 0
             /\ ck.pc # "idle" => Imgs(wal, ck.begin, Len(wal), p)
  <2>1. PICK x \in Xids : log_insert(x) /\ Pinned(x) = p
    BY <1>1, NewRecords, Zenon
  <2>2. latch[p] = x /\ x # 0
    BY <2>1, PinnedPage, Holders, Zenon DEF log_insert
  <2>3. ck.pc # "idle" => Imaged(p)
    BY <2>1, Zenon DEF log_insert
  <2> QED
    BY <2>1, <2>2, <2>3, Zenon DEF log_insert, Imaged, Imgs
<1>2. ASSUME NEW i \in RedoStart'..Len(wal'), wal'[i].t = "insert", wal'[i].page = p
      PROVE  Imgs(wal', RedoStart', i, p)
  <2>0. i \in Nat /\ i \in 1..Len(wal')
    BY <1>0
  <2>1. CASE superblock' = superblock
    <3>0. RedoStart' = RedoStart
      BY <2>1, Zenon DEF RedoStart
    <3>1. CASE i \in 1..Len(wal) /\ wal'[i] = wal[i]
      <4>1. Imgs(wal, RedoStart, i, p) /\ i <= Len(wal) /\ i <= Len(wal')
        BY <1>0, <1>2, <3>0, <3>1 DEF Tears, InsertsImaged, InsertOn
      <4> QED
        BY <1>0, <2>0, <3>0, <4>1, ImgsKept
    <3>2. CASE i = Len(wal) + 1 /\ Len(wal') > Len(wal)
      <4>1. Imgs(wal, RedoStart, Len(wal), p)
        BY <1>1, <1>2, <2>0, <3>2, Zenon DEF Tears, PoolImaged
      <4>2. Len(wal) <= i /\ Len(wal) <= Len(wal')
        BY <1>0, <3>2
      <4> QED
        BY <1>0, <2>0, <3>0, <4>1, <4>2, ImgsKept
    <3> QED
      BY <2>0, <3>1, <3>2, OldOrNew, Zenon
  <2>2. CASE ck_superblock
    <3>1. RedoStart' = ck.begin /\ wal' = wal /\ ck.pc \in Running
      BY <2>2, SuperblockMoves, Zenon DEF RedoStart, walVars, Running
    <3> QED
      BY <1>2, <3>1, Zenon DEF Tears, InsertsImaged, InsertOn
  <2> QED
    BY <2>1, <2>2, CkSteps, Zenon
<1>3. ASSUME ck'.pc \in Running, NEW i \in ck'.begin..Len(wal'),
             wal'[i].t = "insert", wal'[i].page = p
      PROVE  Imgs(wal', ck'.begin, i, p)
  <2>0. i \in Nat /\ i \in 1..Len(wal')
    BY <1>0, <1>3
  <2>1. CASE ck_begin
    <3>1. /\ ck'.begin = Len(wal') /\ Len(wal') = Len(wal) + 1
          /\ wal'[Len(wal) + 1] = Rec("begin", None, 0, <<>>)
      <4>1. ck'.begin = Len(wal')
        BY <2>1, Zenon DEF ck_begin, Resting
      <4> QED
        BY <2>1, <4>1, AppendWal, BeginFormed, Zenon DEF ck_begin
    <3>2. i = Len(wal) + 1
      BY <1>0, <3>1
    <3> QED
      BY <1>3, <3>1, <3>2 DEF Rec
  <2>2. CASE ck.pc \in Running /\ ck'.begin = ck.begin
    <3>1. CASE i \in 1..Len(wal) /\ wal'[i] = wal[i]
      <4>1. Imgs(wal, ck.begin, i, p) /\ i <= Len(wal) /\ i <= Len(wal')
        BY <1>0, <1>3, <2>2, <3>1 DEF Tears, InsertsImaged, InsertOn
      <4> QED
        BY <1>0, <2>0, <2>2, <4>1, ImgsKept
    <3>2. CASE i = Len(wal) + 1 /\ Len(wal') > Len(wal)
      <4>1. Imgs(wal, ck.begin, Len(wal), p)
        BY <1>1, <1>3, <2>0, <2>2, <3>2, Zenon DEF Running
      <4>2. Len(wal) <= i /\ Len(wal) <= Len(wal')
        BY <1>0, <3>2
      <4> QED
        BY <1>0, <2>0, <2>2, <4>1, <4>2, ImgsKept
    <3> QED
      BY <2>0, <3>1, <3>2, OldOrNew, Zenon
  <2> QED
    BY <1>3, <2>1, <2>2, CkSteps, Zenon
<1> QED
  BY <1>2, <1>3, Zenon DEF InsertsImaged, InsertOn

LEMMA NextFileImaged ==
  ASSUME IInv, Next, IInv', Clean, NEW p \in Pages, Stamps(p), Tears(p)
  PROVE  FileImaged(p)'
<1> Typed /\ Log /\ Clock /\ Pool /\ Downtime /\ Traces /\ Fates
  BY Zenon DEF IInv
<1> Typed' /\ Log' /\ Clock' /\ Pool' /\ Downtime' /\ Traces' /\ Fates'
  BY Zenon DEF IInv
<1> TypeOK
  BY Zenon DEF Typed
<1> TypeOK'
  BY Zenon DEF Typed
<1>0. /\ RedoStart \in Nat /\ RedoStart >= 1 /\ CleanPage(p)
      /\ Len(wal) \in Nat /\ Len(wal') \in Nat /\ synced' \in Nat /\ synced' <= Len(wal')
  BY Numbers, NumbersNext, Zenon DEF Clean
<1>1. up => data_file[p] # Torn /\ page_cache[p] # Torn
  BY <1>0, Zenon DEF Tears, FileImaged, CleanPage
<1>2. CASE ck_superblock
  <2>1. /\ RedoStart' = ck.begin /\ ck.pc \in Collected /\ ck.pc \in ClogSaved
        /\ UNCHANGED <<wal, synced, page_cache, data_file, up>> /\ up
    BY <1>2, SuperblockMoves, Zenon DEF RedoStart, walVars, fileVars, runVars, Collected, ClogSaved,
                                 ck_superblock, At
  <2>2. page_cache[p] # data_file[p] => Imgs(wal, ck.begin, synced, p)
    BY <2>1, Zenon DEF Clean, CkPages, Tears, DoneImaged
  <2> QED
    BY <1>1, <2>1, <2>2, Zenon DEF FileImaged
<1>3. CASE superblock' = superblock
  <2>0. /\ RedoStart' = RedoStart
        /\ Imgs(wal, RedoStart, synced, p) => Imgs(wal', RedoStart, synced', p)
    BY <1>0, <1>3, ImgsGrow, Zenon DEF RedoStart
  <2>1. CASE up /\ up'
    <3>1. data_file'[p] # Torn
      BY <1>1, <2>1, FileSteps, Zenon
    <3>2. ASSUME Written(p), mem[p] # data_file[p] PROVE Imgs(wal', RedoStart, synced', p)
      <4>1. PICK k \in RedoStart..Len(wal) : ImageOf(k, p)
        BY <2>1, <3>2, Zenon DEF Tears, PoolImaged, Imgs, ImageOf
      <4>2. mem[p].lsn \in Nat /\ k <= mem[p].lsn
        BY <2>1, <3>2, <4>1, ImageLsns, Zenon DEF Written, Stamps
      <4>3. mem[p].lsn <= synced'
        BY <3>2, Zenon DEF Written, Pool, Lsns
      <4>4. k \in RedoStart..synced' /\ k \in 1..Len(wal) /\ k <= Len(wal')
        BY <1>0, <4>2, <4>3
      <4>5. wal'[k] = wal[k]
        BY <4>4, LogSteps, Zenon
      <4> QED
        BY <4>1, <4>4, <4>5, Zenon DEF Imgs, ImageOf
    <3>3. page_cache'[p] # data_file'[p] => Imgs(wal', RedoStart, synced', p)
      <4>1. CASE Written(p)
        BY <3>2, <4>1, Zenon DEF Written
      <4>2. CASE page_cache'[p] = page_cache[p]
        BY <2>0, <2>1, <4>2, FileSteps, Zenon DEF Tears, FileImaged
      <4> QED
        BY <4>1, <4>2, FileSteps, Zenon
    <3> QED
      BY <2>0, <3>1, <3>3, Zenon DEF FileImaged
  <2>2. CASE crash
    <3>1. /\ up /\ ~up' /\ page_cache'[p] = data_file'[p]
          /\ \/ data_file'[p] = page_cache[p] \/ data_file'[p] = data_file[p]
             \/ data_file'[p] = Torn /\ page_cache[p] # data_file[p]
      <4>1. PICK files \in FileAfter(page_cache, data_file) :
                ~up' /\ data_file' = files /\ page_cache' = files
        BY <2>2, Zenon DEF crash, Down
      <4>2. \/ files[p] = page_cache[p] \/ files[p] = data_file[p]
            \/ files[p] = Torn /\ page_cache[p] # data_file[p]
        <5>1. page_cache \in [Pages -> Image] /\ data_file \in [Pages -> Image]
          BY Zenon DEF TypeOK
        <5> QED
          BY <5>1, FilesAfter
      <4> QED
        BY <2>2, <4>1, <4>2, Zenon DEF crash
    <3> QED
      BY <1>1, <2>0, <3>1, Zenon DEF Tears, FileImaged
  <2>3. CASE ~up
    <3>0. /\ RedoPage(p) # data_file[p] => Imgs(wal, RedoStart, Len(wal), p)
          /\ RedoPage(p) = Torn => ~Imgs(wal, RedoStart, Len(wal), p)
          /\ synced = Len(wal)
      BY <2>3, RedoTears, Zenon DEF Tears, Downtime
    <3>1. RedoPage(p) # Torn
      BY <3>0, Zenon DEF Tears, FileImaged
    <3>2. CASE recover
      <4>1. data_file'[p] = RedoPage(p) /\ page_cache'[p] = RedoPage(p)
        BY <3>2, Zenon DEF recover, RecoveredPages
      <4> QED
        BY <3>1, <4>1, Zenon DEF FileImaged
    <3>3. CASE crash_in_recovery
      <4>1. /\ ~up' /\ page_cache'[p] = data_file'[p]
            /\ \/ data_file'[p] = RedoPage(p) \/ data_file'[p] = data_file[p]
               \/ data_file'[p] = Torn /\ RedoPage(p) # data_file[p]
        <5>1. PICK files \in FileAfter(RecoveredPages, data_file) :
                  ~up' /\ data_file' = files /\ page_cache' = files
          BY <3>3, Zenon DEF crash_in_recovery, Down
        <5>2. RecoveredPages \in [Pages -> Image] /\ RecoveredPages[p] = RedoPage(p)
          BY RedoTypes, Zenon DEF RecoveredPages
        <5>3. \/ files[p] = RedoPage(p) \/ files[p] = data_file[p]
              \/ files[p] = Torn /\ RedoPage(p) # data_file[p]
          <6>1. data_file \in [Pages -> Image]
            BY DEF TypeOK
          <6> QED
            BY <5>2, <6>1, FilesAfter
        <5> QED
          BY <5>1, <5>3, Zenon
      <4> QED
        BY <2>0, <3>0, <3>1, <4>1, Zenon DEF Tears, FileImaged
    <3> QED
      BY <2>3, <3>2, <3>3, RunSteps, Zenon
  <2> QED
    BY <2>1, <2>2, <2>3, RunSteps, Zenon DEF TypeOK
<1> QED
  BY <1>2, <1>3, CkSteps, Zenon

LEMMA NextPoolImaged ==
  ASSUME IInv, Next, IInv', Clean, Published, NEW p \in Pages \ (straddled' \union inflight'),
         Stamps(p), Tears(p)
  PROVE  PoolImaged(p)'
<1> Typed /\ Log /\ Clock /\ Pool /\ Downtime /\ Traces /\ Fates
  BY Zenon DEF IInv
<1> Typed' /\ Log' /\ Clock' /\ Pool' /\ Downtime' /\ Traces' /\ Fates'
  BY Zenon DEF IInv
<1>0. RedoStart \in Nat /\ RedoStart >= 1 /\ RedoStart <= Len(wal)
  BY Numbers DEF Log
<1>1. CASE recover
  <2>1. mem'[p] = data_file'[p] /\ latch'[p] = 0 /\ needs_fpi'[p]
    BY <1>1, Zenon DEF recover, Downtime
  <2> QED
    BY <2>1, Zenon DEF PoolImaged
<1>2. CASE ck_superblock
  <2>1. /\ RedoStart' = ck.begin /\ ck.pc \in Collected /\ ck.pc \in ClogSaved
        /\ UNCHANGED <<wal, mem, latch, needs_fpi, data_file, inflight>>
    BY <1>2, SuperblockMoves, Zenon DEF RedoStart, walVars, poolVars, fileVars, runVars, ghostVars,
                                 Collected, ClogSaved
  <2>2. ck.todo = {} /\ needs_fpi[p]
    BY <2>1, Zenon DEF Clean, CkPages
  <2> QED
    BY <2>1, <2>2, Zenon DEF PoolImaged, Tears, DoneImaged
<1>3. CASE superblock' = superblock /\ up /\ up'
  <2>0. RedoStart' = RedoStart /\ ~crash
    BY <1>3, RunSteps, Zenon DEF RedoStart
  <2>1. CASE Imgs(wal, RedoStart, Len(wal), p)
    BY <1>0, <2>0, <2>1, ImgsGrow, Zenon DEF PoolImaged
  <2>2. CASE mem[p] = data_file[p] /\ latch[p] = 0 /\ needs_fpi[p]
    <3>1. CASE page_cache[p] # data_file[p]
      BY <1>0, <2>1, <3>1, ImgsGrow, Zenon DEF Tears, FileImaged
    <3>2. ASSUME NEW x \in Xids, Latched(x, p) PROVE Imgs(wal', RedoStart, Len(wal'), p)
      <4>1. checkpoint_lsn >= RedoStart
        BY <1>3, Zenon DEF Published
      <4>2. \A i \in RedoStart..Len(wal) : InsertOn(i, p) => Imgs(wal, RedoStart, i, p)
        BY Zenon DEF Tears, InsertsImaged
      <4> QED
        BY <1>0, <2>2, <3>2, <4>1, <4>2, LatchedImgs, Zenon
    <3>3. ASSUME NEW x \in Xids, Placed(x, p) PROVE FALSE
      BY <2>2, <3>3, Holders, Zenon DEF Placed
    <3>4. CASE /\ page_cache[p] = data_file[p]
               /\ \/ Untouched(p) \/ Written(p) \/ Failed(p)
                  \/ \E t \in Threads : Claimed(t, p)
                  \/ \E q \in Pages : Synced(q, p)
      <4>1. mem'[p] = data_file'[p] /\ latch'[p] = 0 /\ needs_fpi'[p]
        BY <2>2, <3>4, Zenon DEF Untouched, Written, Failed, Claimed, Synced
      <4> QED
        BY <4>1, Zenon DEF PoolImaged
    <3> QED
      BY <1>3, <2>0, <3>1, <3>2, <3>3, <3>4, PageSteps, Zenon DEF PoolImaged
  <2> QED
    BY <1>3, <2>1, <2>2, Zenon DEF Tears, PoolImaged
<1>4. CASE ~up'
  BY <1>4, Zenon DEF PoolImaged
<1> QED
  BY <1>1, <1>2, <1>3, <1>4, CkSteps, UpSteps, Zenon

LEMMA NextDoneImaged ==
  ASSUME IInv, Next, IInv', Clean, Published, NEW p \in Pages \ (straddled' \union inflight'),
         Stamps(p), Tears(p)
  PROVE  DoneImaged(p)'
<1> Typed /\ Log /\ Clock /\ Pool /\ Downtime /\ Traces /\ Fates
  BY Zenon DEF IInv
<1> Typed' /\ Log' /\ Clock' /\ Pool' /\ Downtime' /\ Traces' /\ Fates'
  BY Zenon DEF IInv
<1> TypeOK
  BY Zenon DEF Typed
<1> TypeOK'
  BY Zenon DEF Typed
<1>0. /\ CleanPage(p) /\ p \notin inflight
      /\ Len(wal) \in Nat /\ Len(wal') \in Nat /\ synced' \in Nat /\ synced' <= Len(wal')
  BY Numbers, NumbersNext, TodoSteps, Zenon DEF Clean
<1>1. SUFFICES ASSUME ck'.pc \in Collected, p \notin ck'.todo
               PROVE  /\ mem'[p] # data_file'[p] \/ latch'[p] # 0 =>
                           Imgs(wal', ck'.begin, Len(wal'), p)
                      /\ page_cache'[p] # data_file'[p] => Imgs(wal', ck'.begin, synced', p)
  BY Zenon DEF DoneImaged
<1>2. CASE ck_collect
  <2>1. /\ UNCHANGED <<mem, latch, page_cache, data_file>> /\ up
        /\ ck'.todo = DirtyPages /\ flusher[p] = None
    BY <1>2 DEF ck_collect, At, poolVars, fileVars, TypeOK
  <2>2. ~dirty[p]
    BY <1>1, <2>1, Zenon DEF DirtyPages
  <2> QED
    BY <1>0, <2>1, <2>2, Zenon DEF CleanPage
<1>3. CASE ck.pc \in Collected /\ ck'.begin = ck.begin
  <2>0. /\ up /\ up' /\ ~crash /\ ck.pc \in Running /\ ck.begin \in Nat /\ ck.begin >= 1
        /\ ck.begin <= Len(wal) /\ ck.begin > RedoStart /\ RedoStart \in Nat
    <3>1. up /\ up' /\ ck.pc \in Running
      BY <1>1, <1>3 DEF Downtime, Resting, Collected, Running
    <3>2. ~crash
      BY <3>1, RunSteps, Zenon
    <3>3. ck.begin \in (RedoStart + 1)..Len(wal)
      BY <3>1, Zenon DEF Log
    <3> QED
      BY <1>0, <3>1, <3>2, <3>3, Numbers
  <2>1. /\ Imgs(wal, ck.begin, synced, p) => Imgs(wal', ck.begin, synced', p)
        /\ Imgs(wal, ck.begin, Len(wal), p) => Imgs(wal', ck.begin, Len(wal'), p)
        /\ Imgs(wal, ck.begin, synced, p) => Imgs(wal, ck.begin, Len(wal), p)
    BY <2>0, ImgsGrow, Zenon
  <2>2. CASE p \in ck.todo
    <3>1. CASE ck_skip(p)
      <4>1. /\ UNCHANGED <<mem, latch, page_cache, data_file>>
            /\ flusher[p] = None /\ ~dirty[p]
        BY <3>1, Zenon DEF ck_skip, poolVars, fileVars
      <4> QED
        BY <1>0, <2>0, <4>1, Zenon DEF CleanPage
    <3>2. CASE FlushSync(p) /\ flusher[p] = Checkpointer
      <4>1. /\ written[p] /\ UNCHANGED <<mem, latch, page_cache>> /\ data_file'[p] = page_cache[p]
        BY <3>2, Zenon DEF FlushSync
      <4>2. ck.pc = "flush"
        BY <1>3, <2>2, Zenon DEF Clean, CkPages, Collected, ClogSaved
      <4> QED
        BY <1>3, <2>1, <3>2, <4>1, <4>2, Zenon DEF Tears, FlushImaged
    <3> QED
      BY <1>1, <1>3, <2>2, <3>1, <3>2, TodoSteps, Zenon
  <2>3. CASE p \notin ck.todo
    <3>0. /\ mem[p] # data_file[p] \/ latch[p] # 0 => Imgs(wal, ck.begin, Len(wal), p)
          /\ page_cache[p] # data_file[p] => Imgs(wal, ck.begin, synced, p)
          /\ needs_fpi[p]
      BY <1>0, <1>3, <2>3, Zenon DEF Tears, DoneImaged, Clean, CkPages
    <3>1. CASE Untouched(p) \/ Failed(p) \/ \E t \in Threads : Claimed(t, p)
      BY <1>3, <2>1, <3>0, <3>1, Zenon DEF Untouched, Failed, Claimed
    <3>2. ASSUME NEW x \in Xids, Latched(x, p) PROVE Imgs(wal', ck.begin, Len(wal'), p)
      <4>1. checkpoint_lsn >= ck.begin
        BY <1>3, <2>0 DEF Published, Collected, Running
      <4>2. \A i \in ck.begin..Len(wal) : InsertOn(i, p) => Imgs(wal, ck.begin, i, p)
        BY <2>0, Zenon DEF Tears, InsertsImaged
      <4> QED
        BY <2>0, <3>0, <3>2, <4>1, <4>2, LatchedImgs, Zenon
    <3>3. ASSUME NEW x \in Xids, Placed(x, p) PROVE Imgs(wal', ck.begin, Len(wal'), p)
      BY <2>1, <3>0, <3>3, Holders, Zenon DEF Placed
    <3>4. ASSUME NEW x \in Xids, Latched(x, p) \/ Placed(x, p)
          PROVE  page_cache'[p] # data_file'[p] => Imgs(wal', ck.begin, synced', p)
      BY <2>1, <3>0, <3>4, Zenon DEF Latched, Placed
    <3>5. CASE Written(p)
      <4>1. ASSUME mem[p] # data_file[p] PROVE Imgs(wal', ck.begin, synced', p)
        <5>1. PICK k \in ck.begin..Len(wal) : ImageOf(k, p)
          BY <3>0, <4>1, Zenon DEF Imgs, ImageOf
        <5>2. k \in RedoStart..Len(wal)
          BY <1>0, <2>0
        <5>3. mem[p].lsn \in Nat /\ k <= mem[p].lsn
          BY <2>0, <3>5, <5>1, <5>2, ImageLsns, Zenon DEF Written, Stamps
        <5>4. mem[p].lsn <= synced'
          BY <3>5, Zenon DEF Written, Pool, Lsns
        <5>5. k \in ck.begin..synced' /\ k \in 1..Len(wal) /\ k <= Len(wal')
          BY <1>0, <2>0, <5>3, <5>4
        <5>6. wal'[k] = wal[k]
          BY <5>5, LogSteps, Zenon
        <5> QED
          BY <5>1, <5>5, <5>6, Zenon DEF Imgs, ImageOf
      <4> QED
        BY <1>3, <2>1, <3>0, <3>5, <4>1, Zenon DEF Written
    <3>6. ASSUME NEW q \in Pages, Synced(q, p)
          PROVE  /\ mem'[p] # data_file'[p] \/ latch'[p] # 0 => Imgs(wal', ck.begin, Len(wal'), p)
                 /\ page_cache'[p] = data_file'[p]
      BY <2>1, <3>0, <3>6, Zenon DEF Synced
    <3> QED
      BY <1>3, <2>0, <3>1, <3>2, <3>3, <3>4, <3>5, <3>6, PageSteps, Zenon
  <2> QED
    BY <2>2, <2>3, Zenon
<1> QED
  BY <1>1, <1>2, <1>3, CkSteps, Zenon

LEMMA NextFlushImaged ==
  ASSUME IInv, Next, IInv', Clean, Published, NEW p \in Pages \ (straddled' \union inflight'),
         Stamps(p), Tears(p)
  PROVE  FlushImaged(p)'
<1> Typed /\ Log /\ Clock /\ Pool /\ Downtime /\ Traces /\ Fates
  BY Zenon DEF IInv
<1> Typed' /\ Log' /\ Clock' /\ Pool' /\ Downtime' /\ Traces' /\ Fates'
  BY Zenon DEF IInv
<1>0. CleanPage(p) /\ Len(wal) \in Nat /\ Checkpointer # None
  BY Numbers, CrashRecoveryAssumption, Zenon DEF Clean, None
<1>1. SUFFICES ASSUME ck'.pc = "flush", flusher'[p] = Checkpointer, written'[p],
                      mem'[p] # page_cache'[p] \/ latch'[p] # 0
               PROVE  Imgs(wal', ck'.begin, Len(wal'), p)
  BY Zenon DEF FlushImaged
<1>2. CASE ck_collect
  <2>1. flusher' = flusher /\ flusher[p] = None
    BY <1>2, Zenon DEF ck_collect, poolVars
  <2> QED
    BY <1>0, <1>1, <2>1, Zenon
<1>3. CASE ck.pc = "flush"
  <2>0. /\ up /\ up' /\ ck.pc \in Running /\ ck'.begin = ck.begin
    BY <1>1, <1>3, CkSteps DEF Downtime, Resting, Running, Collected, ck_collect, ck_begin, At
  <2>1. /\ ck.begin \in Nat /\ ck.begin >= 1 /\ ck.begin <= Len(wal)
    <3>1. ck.begin \in (RedoStart + 1)..Len(wal)
      BY <2>0, Zenon DEF Log
    <3> QED
      BY <1>0, <3>1, Numbers
  <2>2. Imgs(wal, ck.begin, Len(wal), p) => Imgs(wal', ck.begin, Len(wal'), p)
    BY <2>0, <2>1, RunSteps, ImgsGrow, Zenon
  <2>3. /\ flusher[p] = Checkpointer /\ written[p]
        /\ mem[p] # page_cache[p] \/ latch[p] # 0 \/ \E x \in Xids : Latched(x, p)
    <3>1. CASE Untouched(p)
      BY <1>1, <3>1, Zenon DEF Untouched
    <3>2. ASSUME NEW x \in Xids, Latched(x, p) PROVE flusher[p] = Checkpointer /\ written[p]
      BY <1>1, <3>2, Zenon DEF Latched
    <3>3. ASSUME NEW x \in Xids, Placed(x, p)
          PROVE  flusher[p] = Checkpointer /\ written[p] /\ latch[p] # 0
      BY <1>1, <3>3, Holders, Zenon DEF Placed
    <3>4. ASSUME NEW t \in Threads, Claimed(t, p) PROVE FALSE
      BY <1>0, <1>1, <3>4, Zenon DEF Claimed, CleanPage
    <3>5. CASE Written(p)
      BY <1>1, <3>5, Zenon DEF Written
    <3>6. ASSUME NEW q \in Pages, Synced(q, p)
          PROVE  /\ flusher[p] = Checkpointer /\ written[p]
                 /\ mem[p] # page_cache[p] \/ latch[p] # 0
      BY <1>1, <3>6, Zenon DEF Synced
    <3>7. CASE Failed(p)
      BY <1>1, <3>7, Zenon DEF Failed
    <3> QED
      BY <2>0, <3>1, <3>2, <3>3, <3>4, <3>5, <3>6, <3>7, PageSteps, Zenon
  <2>4. ASSUME NEW x \in Xids, Latched(x, p) PROVE Imgs(wal', ck.begin, Len(wal'), p)
    <3>1. needs_fpi[p]
      BY <1>0, <2>3, Zenon DEF CleanPage
    <3>2. checkpoint_lsn >= ck.begin
      BY <1>3, <2>1 DEF Published, Running
    <3>3. \A i \in ck.begin..Len(wal) : InsertOn(i, p) => Imgs(wal, ck.begin, i, p)
      BY <2>0, Zenon DEF Tears, InsertsImaged
    <3> QED
      BY <2>1, <2>4, <3>1, <3>2, <3>3, LatchedImgs, Zenon
  <2> QED
    BY <1>3, <2>0, <2>2, <2>3, <2>4, Zenon DEF Tears, FlushImaged
<1> QED
  BY <1>1, <1>2, <1>3, TodoSteps, Zenon

LEMMA InitialTears ==
  ASSUME Init
  PROVE  TearInv
<1>0. PICK n \in 0..(MaxLsn - 2), fresh \in SUBSET Pages :
        \E inits \in Bijection(1..n, fresh) : InitWith(n, fresh, inits)
  BY Zenon DEF Init
<1>1. PICK inits \in Bijection(1..n, fresh) : InitWith(n, fresh, inits)
  BY <1>0, Zenon
<1>2. IInv /\ Clean
  BY InitialTuples, Zenon DEF TupleInv
<1>3. /\ up /\ ck.pc = "idle" /\ RedoStart = 1 /\ checkpoint_lsn = 1
      /\ page_cache = [p \in Pages |-> Blank] /\ data_file = page_cache
      /\ latch = [p \in Pages |-> 0]
  BY Zenon DEF Init, RedoStart, Resting
<1>4. needs_fpi = [p \in Pages |-> p \notin fresh]
  BY <1>1, Zenon DEF InitWith
<1>5. /\ Len(wal) \in Nat /\ Len(wal) >= 2
      /\ wal[1] = Rec("begin", None, 0, <<>>)
      /\ wal[2] = Rec("end", None, 0, [ck |-> 1, att |-> {}])
      /\ \A i \in 3..Len(wal) : \E p \in fresh : wal[i] = Rec("fpi", p, 0, Blank)
  <2>1. Len(wal) \in 2..MaxLsn
    BY <1>1, InitialLog, Zenon
  <2>2. Len(wal) \in Nat /\ Len(wal) >= 2
    BY <2>1, CrashRecoveryAssumption
  <2> QED
    BY <1>1, <2>2, InitialLog, Zenon
<1>6. \A i \in 1..Len(wal) : (i \in 3..Len(wal) /\ wal[i].t = "fpi") \/ wal[i].t \in {"begin", "end"}
  <2>1. TAKE i \in 1..Len(wal)
  <2>2. i = 1 \/ i = 2 \/ i \in 3..Len(wal)
    BY <1>5
  <2>3. CASE i \in 3..Len(wal)
    <3>1. PICK p \in fresh : wal[i] = Rec("fpi", p, 0, Blank)
      BY <1>5, <2>3, Zenon
    <3> QED
      BY <2>3, <3>1 DEF Rec
  <2>4. wal[1].t = "begin" /\ wal[2].t = "end"
    BY <1>5 DEF Rec
  <2> QED
    BY <2>2, <2>3, <2>4, Zenon
<1>7. Blank # Torn /\ Blank.lsn = 0
  <2>1. Blank \in [lsn : 0..MaxLsn, tuples : SUBSET (1..MaxXid)]
    BY CrashRecoveryAssumption DEF Blank
  <2> QED
    BY <2>1, CrashRecoveryAssumption, Zenon DEF Blank
<1>8. ASSUME NEW p \in Pages PROVE Stamps(p) /\ Tears(p)
  <2>1. PICK k \in 0..Len(wal) :
           /\ mem[p] = [lsn |-> k, tuples |-> {}]
           /\ p \notin fresh => k = 0
           /\ p \in fresh => k \in 3..Len(wal) /\ wal[k] = Rec("fpi", p, 0, Blank)
           /\ \A i \in 3..Len(wal) : wal[i].page = p => i <= k
    BY <1>1, InitialLog, Zenon
  <2>2. /\ page_cache[p] = Blank /\ data_file[p] = Blank /\ latch[p] = 0
        /\ needs_fpi[p] <=> p \notin fresh
    BY <1>3, <1>4, Zenon
  <2>3. Stamped(wal, mem[p], p) /\ Stamped(wal, Blank, p)
    BY <1>7, <2>1 DEF Stamped, Rec
  <2>4. \A i \in RedoStart..Len(wal) : ImageOf(i, p) => i <= mem[p].lsn
    BY <1>3, <1>6, <2>1 DEF ImageOf
  <2>5. Stamps(p)
    BY <2>2, <2>3, <2>4, Zenon DEF Stamps
  <2>6. InsertsImaged(p)
    BY <1>3, <1>6, Zenon DEF InsertsImaged, InsertOn, Running
  <2>7. FileImaged(p)
    BY <1>7, <2>2, Zenon DEF FileImaged
  <2>8. PoolImaged(p)
    <3>1. CASE p \in fresh
      <4>1. k \in RedoStart..Len(wal)
        BY <1>3, <1>5, <2>1, <3>1
      <4> QED
        BY <2>1, <3>1, <4>1 DEF PoolImaged, Imgs, Rec
    <3>2. CASE p \notin fresh
      BY <2>1, <2>2, <3>2, Zenon DEF PoolImaged, Blank
    <3> QED
      BY <3>1, <3>2, Zenon
  <2>9. DoneImaged(p) /\ FlushImaged(p)
    BY <1>3, Zenon DEF DoneImaged, FlushImaged, Collected
  <2> QED
    BY <2>5, <2>6, <2>7, <2>8, <2>9, Zenon DEF Tears
<1>9. Published
  BY <1>3 DEF Published, Running
<1> QED
  BY <1>2, <1>8, <1>9, Zenon DEF TearInv

LEMMA GhostsGrow ==
  ASSUME Next
  PROVE  straddled \subseteq straddled'
<1>1. CASE Transaction
  BY <1>1, Zenon DEF Transaction, begin, pin_mut, log_insert, place_tuple, append_end, flush_end, end_txn,
              runVars, ghostVars
<1>2. CASE Flush \/ clog_evict
  BY <1>2, Zenon DEF Flush, FlushClaim, FlushWrite, FlushSync, FlushFail, clog_evict, runVars, ghostVars
<1>3. CASE Checkpoint
  BY <1>3, Zenon DEF Checkpoint, ck_begin, ck_publish, ck_snapshot, ck_collect, ck_skip, ck_clog, ck_end,
              ck_sync, ck_superblock, ck_recycle, ck_fail, runVars, ghostVars
<1>4. CASE crash \/ crash_in_recovery \/ recover
  BY <1>4, Zenon DEF crash, crash_in_recovery, recover, Down, ghostVars
<1> QED
  BY <1>1, <1>2, <1>3, <1>4, Zenon DEF Next

LEMMA TearsKept ==
  ASSUME TearInv, [Next]_vars
  PROVE  TearInv'
<1>1. IInv'
  BY InvariantKept, Zenon DEF TearInv
<1>2. CASE Next
  <2>1. Clean' /\ Published'
    BY <1>1, <1>2, NextClean, NextPublished, Zenon DEF TearInv
  <2>2. ASSUME NEW p \in Pages PROVE Stamps(p)'
    BY <1>1, <1>2, NextStamps, Zenon DEF TearInv
  <2>3. ASSUME NEW p \in Pages \ (straddled' \union inflight') PROVE Tears(p)'
    <3>1. IInv /\ Clean /\ Published /\ Stamps(p) /\ Tears(p)
      <4>1. p \notin straddled \union inflight
        BY <1>2, GhostsGrow, TodoSteps, Zenon DEF TearInv, IInv
      <4> QED
        BY <4>1, Zenon DEF TearInv
    <3>2. InsertsImaged(p)' /\ FileImaged(p)'
      BY <1>1, <1>2, <3>1, NextInsertsImaged, NextFileImaged, Zenon
    <3>3. PoolImaged(p)' /\ DoneImaged(p)' /\ FlushImaged(p)'
      BY <1>1, <1>2, <3>1, NextPoolImaged, NextDoneImaged, NextFlushImaged, Zenon
    <3> QED
      BY <3>2, <3>3, Zenon DEF Tears
  <2> QED
    BY <1>1, <2>1, <2>2, <2>3, Zenon DEF TearInv
<1>3. CASE UNCHANGED vars
  <2>1. Clean' /\ Published'
    BY <1>3, Zenon DEF TearInv, Clean, CleanPage, CkPages, Published, RedoStart, vars, walVars, poolVars,
                fileVars, ckVars, runVars, ghostVars
  <2>2. ASSUME NEW p \in Pages, Stamps(p) PROVE Stamps(p)'
    BY <1>3, <2>2, Zenon DEF Stamps, InsertOn, ImageOf, RedoStart, vars, walVars, poolVars, fileVars,
                      txnVars, ckVars, runVars
  <2>3. ASSUME NEW p \in Pages, Tears(p) PROVE Tears(p)'
    BY <1>3, <2>3, Zenon DEF Tears, InsertsImaged, FileImaged, PoolImaged, DoneImaged, FlushImaged,
                      InsertOn, RedoStart, vars, walVars, poolVars, fileVars, ckVars, runVars
  <2>4. straddled' = straddled /\ inflight' = inflight
    BY <1>3, Zenon DEF vars, runVars, ghostVars
  <2> QED
    BY <1>1, <2>1, <2>2, <2>3, <2>4, Zenon DEF TearInv
<1> QED
  BY <1>2, <1>3, Zenon

(* What a crash leaves in the data file can be brought up to date from the log: no page *)
(* carries an LSN past the durable log, and redo repairs every page that a crash tore   *)
(* with a full-page image, except pages modified without one while a checkpoint ran and *)
(* pages another thread was flushing when it collected the dirty pages.                 *)
THEOREM PagesAreRecoverable == Spec => []PagesRecoverable
<1>1. Init => TearInv
  BY InitialTears, Zenon
<1>2. TearInv /\ [Next]_vars => TearInv'
  BY TearsKept, Zenon
<1>3. TearInv => PagesRecoverable
  <2>1. SUFFICES ASSUME TearInv PROVE PagesRecoverable
    BY Zenon
  <2>2. TypeOK /\ WalBeforeData
    BY <2>1, Zenon DEF TearInv, IInv, Typed, Pool, Lsns, WalBeforeData
  <2>3. ASSUME up, NEW p \in Pages, mem[p] = Torn PROVE p \in straddled \union inflight
    <3>1. data_file[p] = Torn
      BY <2>1, <2>3, Zenon DEF TearInv, Clean, CleanPage
    <3> QED
      BY <2>1, <2>3, <3>1, Zenon DEF TearInv, Tears, FileImaged
  <2> QED
    BY <2>2, <2>3, Zenon DEF PagesRecoverable, TornOnlyStraddled
<1> QED
  BY <1>1, <1>2, <1>3, PTL DEF Spec
=============================================================================
