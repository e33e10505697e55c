----------------------------- MODULE ClogBuffer -----------------------------
(***************************************************************************)
(* The disk-backed commit log (pg-txn/src/clog_buffer.rs, clog_file.rs,    *)
(* redo.rs; pg-engine/src/clog_snapshot_migrate.rs; pg-am-heap/src/undo.rs)*)
(* and the parts of a checkpoint and of a restart that touch it: two XIDs  *)
(* to a byte, pages in clock-sweep frames, eviction writes without an      *)
(* fsync, one fsync point, the WAL's commit and abort records as the only  *)
(* other copy until a checkpoint recycles them, and the migration of the   *)
(* older release's snapshot file, whose WAL is long gone.                  *)
(*                                                                         *)
(* A commit's record and its bit are one step: the commit barrier keeps    *)
(* commits and aborts out of checkpoints (CrashRecovery splits the two).   *)
(***************************************************************************)
EXTENDS Integers, Sequences, FiniteSets, FiniteSetsExt, SequencesExt, Functions, TLC

CONSTANTS
    MaxXid,              \* bound: XIDs 1 .. MaxXid; 0 is TxnId::INVALID
    XidsPerPage,         \* XIDS_PER_CLOG_PAGE
    PagesPerSegment,     \* CLOG_PAGES_PER_SEGMENT
    NFrames,             \* clog_buffer_frames
    Scenarios            \* [xids: the XIDs in use; legacy: what clog-snapshot.bin holds, XID -> state;
                         \*  left: the bounds on checkpoints, errors, crashes and reads]

VARIABLES
    frames, clock_hand,  \* Inner; the page table is the frames' page_no
    written, durable,    \* page -> its bytes in the segment file, and as of the last fsync
    unsynced,            \* unsynced_segments
    log,                 \* the WAL: [xid, state], state "InProgress" for any other record of xid
    redo,                \* the first record after the superblock's checkpoint
    att,                 \* the active transactions the checkpoint recorded
    legacy,              \* clog-snapshot.bin, <<>> if there is none
    run,                 \* [pc, i, att]: up, checkpointing, down or recovering; i: a position in
                         \*  the log; att: what the checkpoint found active
    truth,               \* ghost: XID -> the outcome its owner was told
    left                 \* budgets

vars == <<frames, clock_hand, written, durable, unsynced, log, redo, att, legacy, run, truth, left>>

Xids   == DOMAIN truth
Pages  == 0 .. MaxXid \div XidsPerPage
Frames == 1 .. NFrames

-----------------------------------------------------------------------------
(* clog_file.rs: addresses and nibbles.                                     *)

page_no_of_xid(x)      == x \div XidsPerPage
byte_in_page_of_xid(x) == (x % XidsPerPage) \div 2
segment_id_of_page(p)  == p \div PagesPerSegment
Bytes                  == 0 .. XidsPerPage \div 2 - 1
Zeroes                 == [b \in Bytes |-> 0]

\* High nibble the even XID, low nibble the odd one
get_nibble(byte, x) == IF x % 2 = 0 THEN byte \div 16 ELSE byte % 16

set_nibble(byte, x, n) ==
    IF x % 2 = 0 THEN (byte % 16) + (n % 16) * 16 ELSE (byte - (byte % 16)) + (n % 16)

TxnState(n) == CASE n = 0 -> "InProgress" [] n = 1 -> "Committed" [] n = 2 -> "Aborted"
                 [] n = 3 -> "SubCommitted" [] OTHER -> "corrupt"
Nibble(s)   == CHOOSE n \in 0 .. 3 : TxnState(n) = s

State(bytes, x)     == TxnState(get_nibble(bytes[byte_in_page_of_xid(x)], x))
Stamped(bytes, x, s) == [bytes EXCEPT ![byte_in_page_of_xid(x)] = set_nibble(@, x, Nibble(s))]

-----------------------------------------------------------------------------
(* clog_buffer.rs.  The cache and the files it writes to travel together as *)
(* c = [frames, hand, written, unsynced].                                   *)

NoPage == -1
Empty  == [page_no |-> NoPage, data |-> Zeroes, dirty |-> FALSE, referenced |-> FALSE]

\* The frame the hand stops at and what it cleared on the way; spare is how many
\* frames it still passes before a dirty one will do
RECURSIVE sweep(_, _, _)
sweep(fs, hand, spare) ==
    LET f == fs[hand]
        on == (hand % NFrames) + 1
        fewer == IF spare = 0 THEN 0 ELSE spare - 1
    IN  IF f.page_no = NoPage THEN [victim |-> hand, hand |-> on, frames |-> fs]
        ELSE IF f.referenced THEN sweep([fs EXCEPT ![hand].referenced = FALSE], on, fewer)
        ELSE IF f.dirty /\ spare > 0 THEN sweep(fs, on, fewer)
        ELSE [victim |-> hand, hand |-> on, frames |-> fs]

find_victim(c) == sweep(c.frames, c.hand, NFrames)

write_page(c, p, data) ==
    [c EXCEPT !.written[p] = data, !.unsynced = @ \cup {segment_id_of_page(p)}]

Holds(c, p) == \E f \in Frames : c.frames[f].page_no = p
FrameOf(c, p) == CHOOSE f \in Frames : c.frames[f].page_no = p

\* The page resident, its victim written back but not fsynced
locate_frame(c, p) ==
    IF Holds(c, p) THEN [c EXCEPT !.frames[FrameOf(c, p)].referenced = TRUE]
    ELSE LET v == find_victim(c)
             old == v.frames[v.victim]
             w == IF old.page_no # NoPage /\ old.dirty THEN write_page(c, old.page_no, old.data) ELSE c
         IN  [w EXCEPT !.hand = v.hand,
                       !.frames = [v.frames EXCEPT ![v.victim] =
                                     [page_no |-> p, data |-> w.written[p], dirty |-> FALSE, referenced |-> TRUE]]]

set_state(c, x, s) ==
    LET l == locate_frame(c, page_no_of_xid(x))
        f == FrameOf(l, page_no_of_xid(x))
    IN  [l EXCEPT !.frames[f].data = Stamped(@, x, s), !.frames[f].dirty = TRUE]

cache == [frames |-> frames, hand |-> clock_hand, written |-> written, unsynced |-> unsynced]

Becomes(c) ==
    frames' = c.frames /\ clock_hand' = c.hand /\ written' = c.written /\ unsynced' = c.unsynced

\* What get_state answers
Answer(x) ==
    LET p == page_no_of_xid(x) IN
    State(IF Holds(cache, p) THEN frames[FrameOf(cache, p)].data ELSE written[p], x)

Dirty == {f \in Frames : frames[f].page_no # NoPage /\ frames[f].dirty}

\* The dirty frames of fs written back, in frame order
WriteBack(fs) ==
    LET w == FoldSet(LAMBDA f, c : write_page(c, frames[f].page_no, frames[f].data), cache, fs)
    IN  [w EXCEPT !.frames = [f \in Frames |-> IF f \in fs THEN [frames[f] EXCEPT !.dirty = FALSE] ELSE frames[f]]]

\* durable, once the segments of segs are fsynced
Synced(w, segs) == [p \in Pages |-> IF segment_id_of_page(p) \in segs THEN w[p] ELSE durable[p]]

\* Mutant: only the segments of the frames that are dirty now are fsynced
flush_dirty_only_dirty ==
    LET w == WriteBack(Dirty)
        segs == {segment_id_of_page(frames[f].page_no) : f \in Dirty}
    IN  Becomes([w EXCEPT !.unsynced = @ \ segs]) /\ durable' = Synced(w.written, segs)

\* flush_dirty: every dirty frame written, then every unsynced segment fsynced
flush_dirty ==
    LET w == WriteBack(Dirty) IN
    Becomes([w EXCEPT !.unsynced = {}]) /\ durable' = Synced(w.written, w.unsynced)

\* A write fails after the ones before it, or a sync after any others
flush_dirty_fails ==
    \/ \E f \in Dirty :
         Becomes(WriteBack({g \in Dirty : g < f})) /\ durable' = durable
    \/ LET w == WriteBack(Dirty) IN
       \E segs \in (SUBSET w.unsynced) \ {w.unsynced} :
         Becomes([w EXCEPT !.unsynced = @ \ segs]) /\ durable' = Synced(w.written, segs)

-----------------------------------------------------------------------------
(* Transactions, checkpoints.                                               *)

At(pc)    == run.pc = pc
Running   == run.pc \in {"up", "begun", "flushed"}
May(what) == left[what] > 0
Use(what) == left' = [left EXCEPT ![what] = @ - 1]

Started(x)  == \E i \in DOMAIN log : log[i].xid = x
Terminal(x) == truth[x] # "InProgress"
Active      == {x \in Xids : Started(x) /\ ~Terminal(x)}

\* A transaction logs its first record
start(x) ==
    /\ Running /\ ~Started(x) /\ x = Min({y \in Xids : ~Started(y)})
    /\ log' = Append(log, [xid |-> x, state |-> "InProgress"])
    /\ UNCHANGED <<frames, clock_hand, written, durable, unsynced, redo, att, legacy, run, truth, left>>

\* commit and abort, outside checkpoints: the flushed record, then the bit
finish(x, s) ==
    /\ At("up") /\ x \in Active
    /\ log' = Append(log, [xid |-> x, state |-> s])
    /\ truth' = [truth EXCEPT ![x] = s]
    /\ Becomes(set_state(cache, x, s))
    /\ UNCHANGED <<durable, redo, att, legacy, run, left>>

\* A visibility check brings a page in
get_state(x) ==
    /\ Running /\ May("reads") /\ Use("reads")
    /\ Becomes(locate_frame(cache, page_no_of_xid(x)))
    /\ UNCHANGED <<durable, log, redo, att, legacy, run, truth>>

checkpoint_begin ==
    /\ At("up") /\ May("checkpoints") /\ Use("checkpoints")
    /\ run' = [run EXCEPT !.pc = "begun", !.i = Len(log) + 1, !.att = Active]
    /\ UNCHANGED <<frames, clock_hand, written, durable, unsynced, log, redo, att, legacy, truth>>

checkpoint_flush ==
    /\ At("begun")
    /\ flush_dirty
    /\ run' = [run EXCEPT !.pc = "flushed"]
    /\ UNCHANGED <<log, redo, att, legacy, truth, left>>

\* The ClogFlush hook's error fails the checkpoint
checkpoint_fails ==
    /\ At("begun") /\ May("errors") /\ Use("errors")
    /\ flush_dirty_fails
    /\ run' = [run EXCEPT !.pc = "up"]
    /\ UNCHANGED <<log, redo, att, legacy, truth>>

\* The end record and the superblock: older WAL is recycled
checkpoint_end ==
    /\ At("flushed")
    /\ redo' = run.i /\ att' = run.att
    /\ run' = [run EXCEPT !.pc = "up"]
    /\ UNCHANGED <<frames, clock_hand, written, durable, unsynced, log, legacy, truth, left>>

-----------------------------------------------------------------------------
(* Crash and restart.                                                       *)

\* The process is gone, and with it what it knew of unsynced segments
Gone ==
    /\ frames' = [f \in Frames |-> Empty] /\ clock_hand' = 1 /\ unsynced' = {}
    /\ run' = [pc |-> "down", i |-> redo, att |-> {}]
    /\ UNCHANGED <<log, redo, att, legacy, truth>>

\* An I/O error inside get_state or set_state panics as well
process_crash ==
    /\ ~At("down") /\ May("crashes") /\ Use("crashes")
    /\ Gone
    /\ UNCHANGED <<written, durable>>

\* Each unsynced page keeps its last image or goes back to the synced one
power_loss ==
    /\ written # durable /\ May("crashes") /\ Use("crashes")
    /\ \E kept \in SUBSET {p \in Pages : written[p] # durable[p]} :
         /\ written' = [p \in Pages |-> IF p \in kept THEN written[p] ELSE durable[p]]
         /\ durable' = written'
    /\ Gone

ClogBuffer_open ==
    /\ At("down")
    /\ run' = [run EXCEPT !.pc = "redo"]
    /\ UNCHANGED <<frames, clock_hand, written, durable, unsynced, log, redo, att, legacy, truth, left>>

\* TxnCommitHandler and TxnAbortHandler, one record a step
redo_record ==
    /\ At("redo") /\ run.i <= Len(log)
    /\ LET r == log[run.i] IN
       Becomes(IF r.state = "InProgress" THEN cache ELSE set_state(cache, r.xid, r.state))
    /\ run' = [run EXCEPT !.i = @ + 1]
    /\ UNCHANGED <<durable, log, redo, att, legacy, truth, left>>

\* The checkpoint's active transactions and those seen since, but for the ended
RecoveredAtt ==
    LET since == {log[i] : i \in redo .. Len(log)} IN
    {x \in Xids : /\ x \in att \/ \E r \in since : r.xid = x
                  /\ \A r \in since : r.xid = x => r.state = "InProgress"}

\* HeapUndoHandler: stamps without a record and without a flush
undo ==
    /\ At("redo") /\ run.i > Len(log)
    /\ Becomes(FoldSet(LAMBDA x, c : set_state(c, x, "Aborted"), cache, RecoveredAtt))
    /\ truth' = [x \in Xids |-> IF x \in Active THEN "Aborted" ELSE truth[x]]
    /\ run' = [run EXCEPT !.pc = "migrate"]
    /\ UNCHANGED <<durable, log, redo, att, legacy, left>>

\* migrate_legacy_clog_snapshot: stamp, flush, and only then rename
migrate ==
    /\ At("migrate")
    /\ Becomes(FoldSet(LAMBDA x, c : set_state(c, x, legacy[x]), cache, DOMAIN legacy))
    /\ run' = [run EXCEPT !.pc = IF legacy = <<>> THEN "up" ELSE "migrated"]
    /\ UNCHANGED <<durable, log, redo, att, legacy, truth, left>>

migrate_flush ==
    /\ At("migrated")
    /\ flush_dirty
    /\ run' = [run EXCEPT !.pc = "rename"]
    /\ UNCHANGED <<log, redo, att, legacy, truth, left>>

\* The open fails, with whatever it wrote; it is tried again
migrate_fails ==
    /\ At("migrated") /\ May("errors") /\ Use("errors")
    /\ \E fs \in SUBSET Dirty : written' = WriteBack(fs).written
    /\ Gone
    /\ UNCHANGED durable

rename_legacy ==
    /\ At("rename")
    /\ legacy' = <<>>
    /\ run' = [run EXCEPT !.pc = "up"]
    /\ UNCHANGED <<frames, clock_hand, written, durable, unsynced, log, redo, att, truth, left>>

Old == DOMAIN legacy

Init ==
    /\ \E scn \in Scenarios :
         /\ legacy = scn.legacy /\ left = scn.left
         /\ truth = [x \in scn.xids |-> IF x \in Old THEN legacy[x] ELSE "InProgress"]
    /\ frames = [f \in Frames |-> Empty] /\ clock_hand = 1
    /\ written = [p \in Pages |-> Zeroes] /\ durable = written /\ unsynced = {}
    /\ log = SetToSeq({[xid |-> x, state |-> "InProgress"] : x \in Old})
    /\ redo = Len(log) + 1 /\ att = {}
    /\ run = [pc |-> "down", i |-> Len(log) + 1, att |-> {}]

Idle == At("up") /\ UNCHANGED vars

Next ==
    \/ \E x \in 1 .. MaxXid : get_state(x)
    \/ \E x \in Xids : start(x) \/ finish(x, "Committed") \/ finish(x, "Aborted")
    \/ checkpoint_begin \/ checkpoint_flush \/ checkpoint_fails \/ checkpoint_end
    \/ process_crash \/ power_loss \/ ClogBuffer_open \/ redo_record \/ undo
    \/ migrate \/ migrate_flush \/ migrate_fails \/ rename_legacy
    \/ Idle

Spec == Init /\ [][Next]_vars

-----------------------------------------------------------------------------
\* A running engine answers for every XID what its owner was told: no eviction,
\* shared byte, failed flush, checkpoint, crash or half-done migration loses or
\* turns an outcome (a commit whose WAL a checkpoint recycled has no other
\* copy).  No page is in two frames.
OutcomesKept ==
    /\ Running => \A x \in Xids : Answer(x) = truth[x]
    /\ \A f, g \in Frames : frames[f].page_no = frames[g].page_no /\ f # g => frames[f].page_no = NoPage
=============================================================================
