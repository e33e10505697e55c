---------------------------- MODULE CrashRecovery ----------------------------
(***************************************************************************)
(* Durability of transactions: heap writes through the buffer pool, the    *)
(* commit hard order of the transaction manager, the fuzzy checkpoint and  *)
(* restart recovery, interleaved with each other and with crashes.         *)
(*                                                                         *)
(* An LSN is the position of a record in wal.  A page image is its pd_lsn  *)
(* and the set of transactions whose tuple it holds; Torn is an image that *)
(* a crash left half written.  Each transaction inserts at most one tuple  *)
(* per page.  The initial state is a database that has just completed a    *)
(* checkpoint; some of its pages have been allocated since.                *)
(*                                                                         *)
(* The data file, and the CLOG file, have two layers: what the process     *)
(* wrote (page_cache, clog_cache) and what an fsync has made durable       *)
(* (data_file, clog_file).  A crash keeps the second and any part of the   *)
(* difference.                                                             *)
(***************************************************************************)
EXTENDS Integers, Sequences, FiniteSetsExt, Functions

CONSTANTS
    Pages,        \* heap pages
    MaxXid,       \* bound: transaction identifiers are 1..MaxXid
    MaxLsn,       \* bound on the length of the WAL
    MaxCrashes,   \* bound on the number of crashes
    Flushers,     \* threads that flush a page on their own: evictions, splits
    TornWrites,   \* whether a crash may leave half of an unsynced page write
    Checkpointer, \* the thread running trigger_checkpoint
    Torn          \* the image of a half-written page

ASSUME CrashRecoveryAssumption ==
    /\ MaxXid \in Nat \ {0} /\ MaxLsn \in Nat \ {0, 1} /\ MaxCrashes \in Nat
    /\ TornWrites \in BOOLEAN /\ Checkpointer \notin Flushers
    /\ "none" \notin Pages \union Flushers \union {Checkpointer}
    /\ Torn \notin [lsn : 0..MaxLsn, tuples : SUBSET (1..MaxXid)]

VARIABLES
    wal, synced, wal_start,       \* the log, its durable prefix, what recycling kept
    mem, latch, dirty, needs_fpi, \* the buffer pool, per page
    flusher, written,             \* the flush in progress on a page, and how far it is
    checkpoint_lsn,               \* the pool's copy, which gates full-page images
    page_cache, data_file,
    clog, clog_cache, clog_file,
    next_txn_id, txn,             \* the XID clock, and where each transaction is
    ck,                           \* the checkpoint in progress
    superblock,
    up, crashes,
    told, wrote,                  \* history: outcomes made visible, pages written,
    straddled,                    \* pages modified without an image during a checkpoint,
    inflight                      \* pages being flushed when a checkpoint collected

walVars  == <<wal, synced, wal_start>>
poolVars == <<mem, latch, dirty, needs_fpi, flusher, written, checkpoint_lsn>>
fileVars == <<page_cache, data_file>>
clogVars == <<clog, clog_cache, clog_file>>
txnVars  == <<next_txn_id, txn, told, wrote>>
ckVars   == <<ck, superblock>>
ghostVars == <<straddled, inflight>>
runVars  == <<up, crashes, ghostVars>>
vars     == <<walVars, poolVars, fileVars, clogVars, txnVars, ckVars, runVars>>

Xids == 1..MaxXid
None == "none"
Threads == Flushers \union {Checkpointer}
TxnState == {"InProgress", "Committed", "Aborted"}
Image == [lsn : 0..MaxLsn, tuples : SUBSET Xids] \union {Torn}
Record == [t : {"begin", "end", "fpi", "insert", "commit", "abort"},
           page : Pages \union {None}, xid : 0..MaxXid,
           body : {<<>>} \union Image \union [ck : 1..MaxLsn, att : SUBSET Xids]]

Rec(t, p, x, body) == [t |-> t, page |-> p, xid |-> x, body |-> body]
TxnPc == {"none", "active", "pinned", "logged", "commit", "commit_synced",
          "abort", "abort_synced", "ended"}
CkPc  == {"idle", "begun", "published", "sampled", "flush", "clog", "ending",
          "syncing", "super", "recycle"}
Resting == [pc |-> "idle", begin |-> 0, att |-> {}, todo |-> {}, next |-> 0]

TypeOK ==
    /\ wal \in Seq(Record)
    /\ synced \in 0..Len(wal) /\ Len(wal) <= MaxLsn /\ wal_start \in 1..MaxLsn
    /\ mem \in [Pages -> Image] /\ page_cache \in [Pages -> Image]
    /\ data_file \in [Pages -> Image]
    /\ latch \in [Pages -> 0..MaxXid]
    /\ dirty \in [Pages -> BOOLEAN] /\ needs_fpi \in [Pages -> BOOLEAN]
    /\ flusher \in [Pages -> Threads \union {None}] /\ written \in [Pages -> BOOLEAN]
    /\ checkpoint_lsn \in 0..MaxLsn
    /\ clog \in [Xids -> TxnState] /\ clog_cache \in [Xids -> TxnState]
    /\ clog_file \in [Xids -> TxnState]
    /\ next_txn_id \in 1..(MaxXid + 1) /\ txn \in [Xids -> TxnPc]
    /\ ck \in [pc : CkPc, begin : 0..MaxLsn, att : SUBSET Xids,
               todo : SUBSET Pages, next : 0..(MaxXid + 1)]
    /\ superblock \in [checkpoint_lsn : 1..MaxLsn, next_txn_id : 1..(MaxXid + 1)]
    /\ up \in BOOLEAN /\ crashes \in 0..MaxCrashes
    /\ told \in [Xids -> TxnState] /\ wrote \in [Xids -> SUBSET Pages]
    /\ straddled \in SUBSET Pages /\ inflight \in SUBSET Pages

Blank == [lsn |-> 0, tuples |-> {}]

\* The n pages in fresh come from new_page and log_page_init, in the order of inits: they
\* have no image in the data file yet, and the log holds their initial one.
InitWith(n, fresh, inits) ==
    LET lsn == [p \in Pages |-> IF p \in fresh THEN 2 + CHOOSE i \in 1..n : inits[i] = p ELSE 0]
    IN
    /\ wal = <<Rec("begin", None, 0, <<>>), Rec("end", None, 0, [ck |-> 1, att |-> {}])>>
             \o [i \in 1..n |-> Rec("fpi", inits[i], 0, Blank)]
    /\ mem = [p \in Pages |-> [Blank EXCEPT !.lsn = lsn[p]]]
    /\ dirty = [p \in Pages |-> p \in fresh]
    /\ needs_fpi = [p \in Pages |-> p \notin fresh]

Init ==
    /\ \E n \in 0..(MaxLsn - 2), fresh \in SUBSET Pages :
         \E inits \in Bijection(1..n, fresh) : InitWith(n, fresh, inits)
    /\ synced = 2 /\ wal_start = 1
    /\ page_cache = [p \in Pages |-> Blank] /\ data_file = page_cache
    /\ latch = [p \in Pages |-> 0]
    /\ flusher = [p \in Pages |-> None] /\ written = [p \in Pages |-> FALSE]
    /\ checkpoint_lsn = 1
    /\ clog = [x \in Xids |-> "InProgress"] /\ clog_cache = clog /\ clog_file = clog
    /\ next_txn_id = 1 /\ txn = [x \in Xids |-> "none"]
    /\ ck = Resting
    /\ superblock = [checkpoint_lsn |-> 1, next_txn_id |-> 1]
    /\ up = TRUE /\ crashes = 0 /\ straddled = {} /\ inflight = {}
    /\ told = clog /\ wrote = [x \in Xids |-> {}]

----------------------------------------------------------------------------
(* Transactions.                                                           *)

Active == {x \in Xids : txn[x] \notin {"none", "ended"}}
Room(n) == Len(wal) + n <= MaxLsn

begin ==
    /\ up /\ next_txn_id \in Xids
    /\ txn' = [txn EXCEPT ![next_txn_id] = "active"]
    /\ next_txn_id' = next_txn_id + 1
    /\ UNCHANGED <<told, wrote, walVars, poolVars, fileVars, clogVars, ckVars, runVars>>

FpiDue(p) == needs_fpi[p] /\ checkpoint_lsn > 0 /\ mem[p].lsn < checkpoint_lsn

\* pin_mut: take the page's write latch, mark it dirty, and log its image when
\* this is its first modification since the last published checkpoint.  A page that
\* recovery left torn is not followed further.
pin_mut(x, p) ==
    /\ up /\ txn[x] = "active" /\ latch[p] = 0 /\ p \notin wrote[x]
    /\ mem[p] # Torn /\ Room(2)
    /\ latch' = [latch EXCEPT ![p] = x]
    /\ dirty' = [dirty EXCEPT ![p] = TRUE]
    /\ IF FpiDue(p)
       THEN /\ wal' = Append(wal, Rec("fpi", p, 0, mem[p]))
            /\ mem' = [mem EXCEPT ![p].lsn = Len(wal')]
       ELSE UNCHANGED <<wal, mem>>
    /\ txn' = [txn EXCEPT ![x] = "pinned"]
    /\ UNCHANGED <<synced, wal_start, needs_fpi, flusher, written, checkpoint_lsn,
                   next_txn_id, told, wrote, fileVars, clogVars, ckVars, runVars>>

Pinned(x) == CHOOSE p \in Pages : latch[p] = x

Imaged(p) == \E i \in ck.begin..Len(wal) : wal[i].t = "fpi" /\ wal[i].page = p

\* HeapAM::insert after acquire_page_with_room: log the tuple ...
log_insert(x) ==
    /\ up /\ txn[x] = "pinned" /\ Room(1)
    /\ wal' = Append(wal, Rec("insert", Pinned(x), x, <<>>))
    /\ txn' = [txn EXCEPT ![x] = "logged"]
    /\ wrote' = [wrote EXCEPT ![x] = @ \union {Pinned(x)}]
    /\ straddled' = straddled \union {p \in {Pinned(x)} : ck.pc # "idle" /\ ~Imaged(p)}
    /\ UNCHANGED <<synced, wal_start, next_txn_id, told, up, crashes, inflight, poolVars,
                   fileVars, clogVars, ckVars>>

LastOf(x) == Max({i \in 1..Len(wal) : wal[i].t = "insert" /\ wal[i].xid = x})

\* ... place it on the page with its LSN, and drop the guard.
place_tuple(x) ==
    LET p == Pinned(x) IN
    /\ up /\ txn[x] = "logged"
    /\ mem' = [mem EXCEPT ![p] = [lsn |-> Max({@.lsn, LastOf(x)}),
                                  tuples |-> @.tuples \union {x}]]
    /\ latch' = [latch EXCEPT ![p] = 0]
    /\ dirty' = [dirty EXCEPT ![p] = TRUE]
    /\ txn' = [txn EXCEPT ![x] = "active"]
    /\ UNCHANGED <<needs_fpi, flusher, written, checkpoint_lsn, next_txn_id, told,
                   wrote, walVars, fileVars, clogVars, ckVars, runVars>>

\* The commit barrier: commits and aborts hold it shared, a checkpoint exclusively.
BarrierFree == ck.pc = "idle"
Committing == {x \in Xids : txn[x] \in {"commit", "commit_synced", "abort", "abort_synced"}}

append_end(x, kind) ==
    /\ up /\ txn[x] = "active" /\ BarrierFree /\ Room(1)
    /\ wal' = Append(wal, Rec(kind, None, x, <<>>))
    /\ txn' = [txn EXCEPT ![x] = kind]
    /\ UNCHANGED <<synced, wal_start, next_txn_id, told, wrote, poolVars, fileVars,
                   clogVars, ckVars, runVars>>

flush_end(x, kind) ==
    /\ up /\ txn[x] = kind
    /\ synced' = Len(wal)
    /\ txn' = [txn EXCEPT ![x] = IF kind = "commit" THEN "commit_synced" ELSE "abort_synced"]
    /\ UNCHANGED <<wal, wal_start, next_txn_id, told, wrote, poolVars, fileVars,
                   clogVars, ckVars, runVars>>

\* end_txn: flip the CLOG bit, leave the active set, release the barrier.
end_txn(x, state) ==
    /\ up /\ txn[x] = (IF state = "Committed" THEN "commit_synced" ELSE "abort_synced")
    /\ clog' = [clog EXCEPT ![x] = state]
    /\ told' = [told EXCEPT ![x] = state]
    /\ txn' = [txn EXCEPT ![x] = "ended"]
    /\ UNCHANGED <<clog_cache, clog_file, next_txn_id, wrote, walVars, poolVars,
                   fileVars, ckVars, runVars>>

----------------------------------------------------------------------------
(* Flushing a page: claim its dirty epoch, write it once the WAL covers it *)
(* and nobody holds it for writing, then fsync the data file.              *)

MayFlush(t, p) ==
    t = Checkpointer => ck.pc = "flush" /\ p \in ck.todo

FlushClaim(t, p) ==
    /\ up /\ MayFlush(t, p) /\ flusher[p] = None /\ dirty[p]
    /\ flusher' = [flusher EXCEPT ![p] = t]
    /\ dirty' = [dirty EXCEPT ![p] = FALSE]
    /\ UNCHANGED <<mem, latch, needs_fpi, written, checkpoint_lsn, walVars, fileVars,
                   clogVars, txnVars, ckVars, runVars>>

\* Mutant: the page is written without flushing the WAL first.
FlushWrite_data_first(p) ==
    /\ up /\ flusher[p] # None /\ ~written[p] /\ latch[p] = 0
    /\ synced' = synced
    /\ page_cache' = [page_cache EXCEPT ![p] = mem[p]]
    /\ needs_fpi' = [needs_fpi EXCEPT ![p] = TRUE]
    /\ written' = [written EXCEPT ![p] = TRUE]
    /\ UNCHANGED <<wal, wal_start, mem, latch, dirty, flusher, checkpoint_lsn,
                   data_file, clogVars, txnVars, ckVars, runVars>>

FlushWrite(p) ==
    /\ up /\ flusher[p] # None /\ ~written[p] /\ latch[p] = 0
    /\ synced' = IF synced < mem[p].lsn THEN Len(wal) ELSE synced
    /\ page_cache' = [page_cache EXCEPT ![p] = mem[p]]
    /\ needs_fpi' = [needs_fpi EXCEPT ![p] = TRUE]
    /\ written' = [written EXCEPT ![p] = TRUE]
    /\ UNCHANGED <<wal, wal_start, mem, latch, dirty, flusher, checkpoint_lsn,
                   data_file, clogVars, txnVars, ckVars, runVars>>

\* The checkpointer is done with a page it flushed, or that somebody else had.
Done(t, p) == [ck EXCEPT !.todo = IF t = Checkpointer THEN @ \ {p} ELSE @]

FlushSync(p) ==
    /\ up /\ flusher[p] # None /\ written[p]
    /\ data_file' = page_cache
    /\ flusher' = [flusher EXCEPT ![p] = None]
    /\ written' = [written EXCEPT ![p] = FALSE]
    /\ ck' = Done(flusher[p], p)
    /\ UNCHANGED <<mem, latch, dirty, needs_fpi, checkpoint_lsn, page_cache, superblock,
                   walVars, clogVars, txnVars, runVars>>

\* The write or the fsync fails: the epoch is dirty again, and a checkpoint that
\* was flushing the page is abandoned.
FlushFail(p) ==
    /\ up /\ flusher[p] # None
    /\ dirty' = [dirty EXCEPT ![p] = TRUE]
    /\ flusher' = [flusher EXCEPT ![p] = None]
    /\ written' = [written EXCEPT ![p] = FALSE]
    /\ ck' = IF flusher[p] = Checkpointer THEN Resting ELSE ck
    /\ UNCHANGED <<mem, latch, needs_fpi, checkpoint_lsn, superblock, walVars, fileVars,
                   clogVars, txnVars, runVars>>

\* The CLOG buffer evicts a dirty frame: written, not fsynced.
clog_evict ==
    /\ up /\ clog_cache # clog
    /\ clog_cache' = clog
    /\ UNCHANGED <<clog, clog_file, walVars, poolVars, fileVars, txnVars, ckVars, runVars>>
----------------------------------------------------------------------------
(* CheckpointCoordinator::trigger_checkpoint, in the order of its steps.   *)

At(pc) == up /\ ck.pc = pc
CkGo(pc) == ck' = [ck EXCEPT !.pc = pc]

\* Mutant: the checkpoint does not wait for commits in progress.
ck_begin_no_barrier ==
    /\ At("idle") /\ Room(2)
    /\ wal' = Append(wal, Rec("begin", None, 0, <<>>))
    /\ ck' = [Resting EXCEPT !.pc = "begun", !.begin = Len(wal')]
    /\ UNCHANGED <<synced, wal_start, superblock, poolVars, fileVars, clogVars,
                   txnVars, runVars>>

\* Take the barrier and emit CheckpointBegin ...
ck_begin ==
    /\ At("idle") /\ Committing = {} /\ Room(2)
    /\ wal' = Append(wal, Rec("begin", None, 0, <<>>))
    /\ ck' = [Resting EXCEPT !.pc = "begun", !.begin = Len(wal')]
    /\ UNCHANGED <<synced, wal_start, superblock, poolVars, fileVars, clogVars,
                   txnVars, runVars>>

\* ... publish its LSN to the buffer pool ...
ck_publish ==
    /\ At("begun")
    /\ checkpoint_lsn' = ck.begin
    /\ CkGo("published")
    /\ UNCHANGED <<mem, latch, dirty, needs_fpi, flusher, written, superblock, walVars,
                   fileVars, clogVars, txnVars, runVars>>

\* ... write the active transactions to the snapshot file ...
ck_snapshot ==
    /\ At("published")
    /\ ck' = [ck EXCEPT !.pc = "sampled", !.att = Active]
    /\ UNCHANGED <<superblock, walVars, poolVars, fileVars, clogVars, txnVars, runVars>>

DirtyPages == {p \in Pages : dirty[p]}

\* ... collect the dirty pages, to flush one by one ...
ck_collect ==
    /\ At("sampled")
    /\ ck' = [ck EXCEPT !.pc = "flush", !.todo = DirtyPages]
    /\ inflight' = inflight \union {p \in Pages : flusher[p] # None}
    /\ UNCHANGED <<superblock, up, crashes, straddled, walVars, poolVars, fileVars,
                   clogVars, txnVars>>

\* ... passing over those that somebody else has flushed meanwhile ...
ck_skip(p) ==
    /\ At("flush") /\ p \in ck.todo /\ flusher[p] = None /\ ~dirty[p]
    /\ ck' = Done(Checkpointer, p)
    /\ UNCHANGED <<superblock, walVars, poolVars, fileVars, clogVars, txnVars, runVars>>

\* ... write back and fsync the CLOG ...
ck_clog ==
    /\ At("flush") /\ ck.todo = {}
    /\ clog_cache' = clog /\ clog_file' = clog
    /\ CkGo("ending")
    /\ UNCHANGED <<clog, superblock, walVars, poolVars, fileVars, txnVars, runVars>>

\* ... read the XID clock and emit CheckpointEnd ...
ck_end ==
    /\ At("ending") /\ Room(1)
    /\ wal' = Append(wal, Rec("end", None, 0, [ck |-> ck.begin, att |-> ck.att]))
    /\ ck' = [ck EXCEPT !.pc = "syncing", !.next = next_txn_id]
    /\ UNCHANGED <<synced, wal_start, superblock, poolVars, fileVars, clogVars,
                   txnVars, runVars>>

\* ... fsync the WAL through it ...
ck_sync ==
    /\ At("syncing")
    /\ synced' = Len(wal)
    /\ CkGo("super")
    /\ UNCHANGED <<wal, wal_start, superblock, poolVars, fileVars, clogVars, txnVars,
                   runVars>>

\* ... and only then move the redo point ...
ck_superblock ==
    /\ At("super")
    /\ superblock' = [checkpoint_lsn |-> ck.begin, next_txn_id |-> ck.next]
    /\ CkGo("recycle")
    /\ UNCHANGED <<walVars, poolVars, fileVars, clogVars, txnVars, runVars>>

\* ... and drop the log before it.
ck_recycle ==
    /\ At("recycle")
    /\ wal_start' = ck.begin
    /\ ck' = Resting
    /\ UNCHANGED <<wal, synced, superblock, poolVars, fileVars, clogVars, txnVars,
                   runVars>>

\* A snapshot file, the CLOG or the superblock cannot be written.
ck_fail ==
    /\ \/ At("published")
       \/ At("flush") /\ ck.todo = {}
       \/ At("super")
    /\ ck' = Resting
    /\ UNCHANGED <<superblock, walVars, poolVars, fileVars, clogVars, txnVars, runVars>>

----------------------------------------------------------------------------
(* Crashes and restart.                                                    *)

\* What a crash may leave of a page whose last write was not fsynced.
Survivors(cache, file) ==
    {cache, file} \union (IF TornWrites /\ cache # file THEN {Torn} ELSE {})

FileAfter(cache, file) ==
    {f \in [Pages -> Range(cache) \union Range(file) \union {Torn}] :
        \A p \in Pages : f[p] \in Survivors(cache[p], file[p])}

ClogAfter(cache, file) ==
    {f \in [Xids -> TxnState] : \A x \in Xids : f[x] \in {cache[x], file[x]}}

\* The process is gone; what is on disk is what recovery starts from.
Down(files, clogs) ==
    /\ up' = FALSE /\ crashes' = crashes + 1
    /\ data_file' = files /\ page_cache' = files /\ mem' = files
    /\ clog_file' = clogs /\ clog_cache' = clogs /\ clog' = clogs
    /\ latch' = [p \in Pages |-> 0]
    /\ dirty' = [p \in Pages |-> FALSE] /\ needs_fpi' = [p \in Pages |-> TRUE]
    /\ flusher' = [p \in Pages |-> None] /\ written' = [p \in Pages |-> FALSE]
    /\ checkpoint_lsn' = 0 /\ ck' = Resting
    /\ txn' = [x \in Xids |-> "ended"] /\ next_txn_id' = superblock.next_txn_id
    /\ UNCHANGED <<superblock, told, wrote, wal_start, ghostVars>>

crash ==
    /\ up /\ crashes < MaxCrashes
    /\ \E n \in synced..Len(wal) : wal' = SubSeq(wal, 1, n) /\ synced' = n
    /\ \E files \in FileAfter(page_cache, data_file),
          clogs \in ClogAfter(clog_cache, clog_file) : Down(files, clogs)

RedoStart == superblock.checkpoint_lsn

\* Mutant: the idempotency guard also skips the record after the page's pd_lsn.
RedoRecord_skips_next(img, p, i) ==
    IF wal[i].page # p THEN img
    ELSE IF wal[i].t = "fpi" THEN [wal[i].body EXCEPT !.lsn = Max({i, @})]
    ELSE IF img = Torn \/ img.lsn >= i - 1 THEN img
    ELSE [lsn |-> i, tuples |-> img.tuples \union {wal[i].xid}]

\* The redo handlers: an image is restored unconditionally, a tuple only on a
\* page that has not seen the record.
RedoRecord(img, p, i) ==
    IF wal[i].page # p THEN img
    ELSE IF wal[i].t = "fpi" THEN [wal[i].body EXCEPT !.lsn = Max({i, @})]
    ELSE IF img = Torn \/ img.lsn >= i THEN img
    ELSE [lsn |-> i, tuples |-> img.tuples \union {wal[i].xid}]

RedoPage(p) ==
    LET redo[i \in (RedoStart - 1)..Len(wal)] ==
          IF i < RedoStart THEN data_file[p] ELSE RedoRecord(redo[i - 1], p, i)
    IN redo[Len(wal)]

Replayed == RedoStart..Len(wal)
EndsOf(x) == {i \in Replayed : wal[i].t \in {"commit", "abort"} /\ wal[i].xid = x}

\* TxnCommit and TxnAbort records rebuild the CLOG.
RedoClog(x) ==
    IF EndsOf(x) = {} THEN clog_file[x]
    ELSE IF wal[Max(EndsOf(x))].t = "commit" THEN "Committed" ELSE "Aborted"

\* Analysis: the snapshot of the checkpoint the superblock names, unless the log
\* holds the end of a newer one, and the transactions of the records since.
Baseline ==
    LET ends == {i \in Replayed : wal[i].t = "end"} IN
    IF ends # {} /\ wal[Max(ends)].body.ck = RedoStart
    THEN wal[Max(ends)].body.att ELSE {}

run_analysis ==
    {x \in Xids : LET seen == {i \in Replayed : wal[i].xid = x} IN
        IF seen = {} THEN x \in Baseline
        ELSE wal[Max(seen)].t \notin {"commit", "abort"}}

\* The transactions undo marks aborted: those the rebuilt CLOG knows nothing of.
recovered_att == {x \in run_analysis : RedoClog(x) = "InProgress"}

RecoveredClog == [x \in Xids |-> IF x \in recovered_att THEN "Aborted" ELSE RedoClog(x)]
RecoveredPages == [p \in Pages |-> RedoPage(p)]

\* One past every XID the superblock or a replayed record has seen.
RecoveredNext ==
    Max({superblock.next_txn_id} \union {wal[i].xid + 1 : i \in Replayed})

\* recover_inner: analysis, redo, flush of the redone pages, undo.
recover ==
    /\ ~up
    /\ mem' = RecoveredPages /\ page_cache' = mem' /\ data_file' = mem'
    /\ clog' = RecoveredClog
    /\ checkpoint_lsn' = RedoStart
    /\ next_txn_id' = RecoveredNext
    /\ txn' = [x \in Xids |-> IF x < next_txn_id' THEN "ended" ELSE "none"]
    /\ told' = [x \in Xids |-> IF clog'[x] # "InProgress" THEN clog'[x] ELSE told[x]]
    /\ wrote' = [x \in Xids |-> IF x < next_txn_id' THEN wrote[x] ELSE {}]
    /\ up' = TRUE
    /\ UNCHANGED <<crashes, ghostVars, latch, dirty, needs_fpi, flusher, written, clog_cache,
                   clog_file, ckVars, walVars>>

\* A crash before recovery ends: any of the redone pages and CLOG entries may
\* already have been written.
crash_in_recovery ==
    /\ ~up /\ crashes < MaxCrashes
    /\ \E files \in FileAfter(RecoveredPages, data_file),
          clogs \in ClogAfter(RecoveredClog, clog_file) : Down(files, clogs)
    /\ UNCHANGED <<wal, synced>>

----------------------------------------------------------------------------

Transaction ==
    \/ begin
    \/ \E x \in Xids :
         \/ \E p \in Pages : pin_mut(x, p)
         \/ log_insert(x)
         \/ place_tuple(x)
         \/ \E kind \in {"commit", "abort"} : append_end(x, kind) \/ flush_end(x, kind)
         \/ \E state \in {"Committed", "Aborted"} : end_txn(x, state)

Flush ==
    \E p \in Pages :
        \/ \E t \in Threads : FlushClaim(t, p)
        \/ FlushWrite(p)
        \/ FlushSync(p)
        \/ FlushFail(p)

Checkpoint ==
    \/ ck_begin \/ ck_publish \/ ck_snapshot \/ ck_collect
    \/ \E p \in Pages : ck_skip(p)
    \/ ck_clog \/ ck_end \/ ck_sync \/ ck_superblock \/ ck_recycle \/ ck_fail

Next ==
    \/ Transaction
    \/ Flush
    \/ clog_evict
    \/ Checkpoint
    \/ crash
    \/ recover
    \/ crash_in_recovery

Spec == Init /\ [][Next]_vars

----------------------------------------------------------------------------
(* Properties.                                                             *)

\* WAL before data: the page image in the data file never carries an LSN past
\* the durable log, so no redo record is skipped for an LSN that a crash freed.
WalBeforeData ==
    \A p \in Pages : page_cache[p] # Torn => page_cache[p].lsn <= synced

\* A visible outcome survives every crash.  A transaction somebody could see
\* committed stays committed: its CLOG bit is in the fsynced CLOG, or its commit
\* record is in the part of the log that recovery replays.  One seen aborted never
\* becomes visible.
OutcomeStable ==
    up => \A x \in Xids :
            /\ told[x] = "Committed" => clog[x] = "Committed"
            /\ told[x] = "Aborted" => clog[x] # "Committed"

\* Every tuple of a committed transaction is on its page, whatever crashes and
\* checkpoints did in between, unless another thread was flushing that page when
\* a checkpoint collected the dirty pages.
CommitAtomic ==
    up => \A x \in Xids : clog[x] = "Committed" =>
              \A p \in wrote[x] \ inflight : mem[p] # Torn => x \in mem[p].tuples

\* What run_analysis relies on to start redo at the checkpoint: every record
\* before the redo point is in the durable image of its page.
PreBeginDurable ==
    \A i \in 1..(superblock.checkpoint_lsn - 1) :
        LET p == wal[i].page IN
        p \in Pages /\ data_file[p] # Torn => data_file[p].lsn >= i

\* No trace of a transaction identifier that is yet to be handed out: neither a
\* tuple on a page, nor a CLOG bit, nor a record that recovery would replay.
NoXidReuse ==
    up => \A x \in Xids : x >= next_txn_id =>
              /\ \A p \in Pages : mem[p] # Torn => x \notin mem[p].tuples
              /\ clog[x] = "InProgress" /\ clog_file[x] = "InProgress"
              /\ \A i \in Replayed : wal[i].xid # x

\* The image a crash tore is repaired by a full-page image in the replayed log,
\* unless the page was modified without one while a checkpoint ran, or was being
\* flushed while it collected the dirty pages: outside a checkpoint, no first
\* modification of a page on disk goes without its image.
TornOnlyStraddled ==
    up => \A p \in Pages : mem[p] = Torn => p \in straddled \union inflight

\* What a crash leaves in the data file can be brought up to date from the log.
PagesRecoverable == TypeOK /\ WalBeforeData /\ TornOnlyStraddled

\* Every transaction is after a crash what it was before, and none is taken for
\* another.
OutcomesRecovered == OutcomeStable /\ NoXidReuse
=============================================================================
