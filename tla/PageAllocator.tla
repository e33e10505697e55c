---------------------------- MODULE PageAllocator ---------------------------
(***************************************************************************)
(* pg-storage: the page allocator, its freelist across fuzzy checkpoints,  *)
(* and its recovery from the freelist snapshot and the log.                *)
(*                                                                         *)
(* Which pages are in use is what the log says: a page belongs to somebody *)
(* from its PageAlloc record to its next PageFree record.  The allocator   *)
(* never reads that; it has its freelist and next_page_id, and after a     *)
(* crash a snapshot of the freelist, the superblock, and the log from the  *)
(* superblock's LSN on.  An LSN is a position in the sequence wal.         *)
(***************************************************************************)
EXTENDS Integers, Sequences, SequencesExt, FiniteSets

CONSTANTS MaxPages,    \* bound on the page numbers
          MaxLsn,      \* bound on the length of the log
          MaxCrashes   \* bound on the crashes

VARIABLES
    freelist, next_page_id,  \* PageAllocator, in memory
    wal,                     \* every record appended and not lost in a crash
    synced_lsn,              \* how many of them are durable
    ckpt,                    \* the running checkpoint
    superblock,              \* checkpoint_lsn and next_page_id
    freelist_meta,           \* the snapshot file
    status, crashes,
    mismatch                 \* the superblock was, or may have been, left without its snapshot

disk == <<superblock, freelist_meta>>
vars == <<freelist, next_page_id, wal, synced_lsn, ckpt, disk, status, crashes, mismatch>>

Pages   == 1..MaxPages
Records == [kind : {"PageAlloc", "PageFree"}, page : Pages]
             \union [kind : {"CheckpointBegin", "CheckpointEnd"}, page : {0}]
NoCheckpoint == [at |-> "idle", lsn |-> 0, free |-> <<>>, next |-> 0]

TypeOK ==
    /\ freelist \in Seq(Pages) /\ next_page_id \in 1..(MaxPages + 1)
    /\ wal \in Seq(Records) /\ Len(wal) <= MaxLsn /\ synced_lsn \in 0..Len(wal)
    /\ ckpt.at \in {"idle", "begun", "ended", "snapshot"}
    /\ superblock.lsn \in 0..synced_lsn /\ superblock.next \in 1..(MaxPages + 1)
    /\ freelist_meta.lsn \in 0..Len(wal) /\ freelist_meta.free \in Seq(Pages)
    /\ status \in {"up", "poisoned", "down"} /\ crashes \in 0..MaxCrashes
    /\ mismatch \in BOOLEAN

Init ==
    /\ freelist = <<>> /\ next_page_id = 1
    /\ wal = <<>> /\ synced_lsn = 0
    /\ ckpt = NoCheckpoint
    /\ superblock = [lsn |-> 0, next |-> 1] /\ freelist_meta = [lsn |-> 0, free |-> <<>>]
    /\ status = "up" /\ crashes = 0 /\ mismatch = FALSE

Record(kind, page) == [kind |-> kind, page |-> page]

append(record) == Len(wal) < MaxLsn /\ wal' = Append(wal, record)

----------------------------------------------------------------------------
(* The allocator.                                                          *)

\* freelist.pop().unwrap_or(next_page_id)
Chosen == IF freelist = <<>> THEN next_page_id ELSE Last(freelist)
Popped == IF freelist = <<>> THEN <<>> ELSE Front(freelist)

alloc_page ==
    /\ status = "up" /\ Chosen <= MaxPages
    /\ append(Record("PageAlloc", Chosen))
    /\ freelist' = Popped
    /\ next_page_id' = IF Chosen = next_page_id THEN next_page_id + 1 ELSE next_page_id
    /\ UNCHANGED <<synced_lsn, ckpt, disk, status, crashes, mismatch>>

\* The append fails after the page has been popped: it is gone until the next
\* recovery, and the poisoned log accepts no record before that.
alloc_page_fails ==
    /\ status = "up"
    /\ freelist' = Popped
    /\ status' = "poisoned"
    /\ UNCHANGED <<next_page_id, wal, synced_lsn, ckpt, disk, crashes, mismatch>>

\* The pages in use after a log: allocated and not freed since.
Owned(log) ==
    {p \in Pages : \E i \in 1..Len(log) :
        /\ log[i] = Record("PageAlloc", p)
        /\ \A j \in (i + 1)..Len(log) : log[j] # Record("PageFree", p)}

\* reclaim and drop_table free pages they own.
free_page(p) ==
    /\ status = "up" /\ p \in Owned(wal)
    /\ p < next_page_id /\ ~Contains(freelist, p)
    /\ append(Record("PageFree", p))
    /\ freelist' = Append(freelist, p)
    /\ UNCHANGED <<next_page_id, synced_lsn, ckpt, disk, status, crashes, mismatch>>

\* A commit, a page flush or the group-commit worker.
flush ==
    /\ status = "up" /\ synced_lsn < Len(wal)
    /\ synced_lsn' = Len(wal)
    /\ UNCHANGED <<freelist, next_page_id, wal, ckpt, disk, status, crashes, mismatch>>

----------------------------------------------------------------------------
(* The checkpoint: the locks it takes are released between these steps.    *)

\* CheckpointBegin and the snapshot, under the allocator's lock.
checkpoint_begin ==
    /\ status = "up" /\ ckpt = NoCheckpoint
    /\ append(Record("CheckpointBegin", 0))
    /\ ckpt' = [at |-> "begun", lsn |-> Len(wal'), free |-> freelist, next |-> 0]
    /\ UNCHANGED <<freelist, next_page_id, synced_lsn, disk, status, crashes, mismatch>>

\* next_page_id is read, CheckpointEnd appended and flushed.
checkpoint_end ==
    /\ status = "up" /\ ckpt.at = "begun"
    /\ append(Record("CheckpointEnd", 0))
    /\ synced_lsn' = Len(wal')
    /\ ckpt' = [ckpt EXCEPT !.at = "ended", !.next = next_page_id]
    /\ UNCHANGED <<freelist, next_page_id, disk, status, crashes, mismatch>>

\* The snapshot file is replaced, or cannot be written: the checkpoint goes on.
write_freelist ==
    /\ status = "up" /\ ckpt.at = "ended"
    /\ \/ freelist_meta' = [lsn |-> ckpt.lsn, free |-> ckpt.free] /\ UNCHANGED mismatch
       \/ UNCHANGED freelist_meta /\ mismatch' = TRUE
    /\ ckpt' = [ckpt EXCEPT !.at = "snapshot"]
    /\ UNCHANGED <<freelist, next_page_id, wal, synced_lsn, superblock, status, crashes>>

write_superblock ==
    /\ status = "up" /\ ckpt.at = "snapshot"
    /\ superblock' = [lsn |-> ckpt.lsn, next |-> ckpt.next]
    /\ ckpt' = NoCheckpoint
    /\ UNCHANGED <<freelist, next_page_id, wal, synced_lsn, freelist_meta, status,
                   crashes, mismatch>>

\* A step of the checkpoint fails and the superblock keeps its old LSN.
checkpoint_fails ==
    /\ ckpt # NoCheckpoint /\ status # "down"
    /\ ckpt' = NoCheckpoint
    /\ mismatch' = (mismatch \/ ckpt.at = "snapshot")
    /\ UNCHANGED <<freelist, next_page_id, wal, synced_lsn, disk, status, crashes>>

----------------------------------------------------------------------------
(* Crash and recovery.                                                     *)

crash ==
    /\ status # "down" /\ crashes < MaxCrashes
    /\ \E n \in synced_lsn..Len(wal) :
         wal' = SubSeq(wal, 1, n) /\ synced_lsn' = n
    /\ status' = "down" /\ crashes' = crashes + 1
    /\ mismatch' = (mismatch \/ ckpt.at = "snapshot")
    /\ freelist' = <<>> /\ next_page_id' = 1 /\ ckpt' = NoCheckpoint
    /\ UNCHANGED disk

\* Mutant: the page stays on the freelist.
apply_page_alloc_kept(pa, p) ==
    [pa EXCEPT !.next = IF p >= @ THEN p + 1 ELSE @]

apply_page_alloc(pa, p) ==
    [free |-> SelectSeq(pa.free, LAMBDA q : q # p),
     next |-> IF p >= pa.next THEN p + 1 ELSE pa.next]

apply_page_free(pa, p) ==
    [pa EXCEPT !.free = IF Contains(@, p) THEN @ ELSE Append(@, p)]

replay_record(pa, record) ==
    CASE record.kind = "PageAlloc" -> apply_page_alloc(pa, record.page)
      [] record.kind = "PageFree"  -> apply_page_free(pa, record.page)
      [] OTHER -> pa

\* The snapshot counts only if it belongs to the superblock's checkpoint.
Seed == IF freelist_meta.lsn = superblock.lsn THEN freelist_meta.free ELSE <<>>

\* recover_inner, as far as the allocator goes.  It writes nothing, so a crash
\* inside it is a crash before it.
recover ==
    /\ status = "down"
    /\ LET start == IF superblock.lsn = 0 THEN 1 ELSE superblock.lsn
           pa == FoldLeft(replay_record, [free |-> Seed, next |-> superblock.next],
                          SubSeq(wal, start, Len(wal)))
       IN freelist' = pa.free /\ next_page_id' = pa.next
    /\ status' = "up"
    /\ UNCHANGED <<wal, synced_lsn, ckpt, disk, crashes, mismatch>>

Next ==
    \/ alloc_page \/ alloc_page_fails
    \/ \E p \in Pages : free_page(p)
    \/ flush
    \/ checkpoint_begin \/ checkpoint_end \/ write_freelist \/ write_superblock
    \/ checkpoint_fails
    \/ crash \/ recover

Spec == Init /\ [][Next]_vars

----------------------------------------------------------------------------
(* Properties.                                                             *)

\* No page is handed out twice: the pages the allocator would give next, those on
\* the freelist and those from next_page_id on, are in nobody's hands, and none of
\* them is listed twice.  This is what the ordering of PageFree records against the
\* snapshot and the idempotent replay are for.
NoPageTwice ==
    status # "down" =>
        /\ IsInjective(freelist)
        /\ \A p \in Owned(wal) : p < next_page_id /\ ~Contains(freelist, p)
        /\ \A p \in ToSet(freelist) : p < next_page_id

\* Every page is used or free, unless at some time the superblock and the snapshot
\* were left with different LSNs.
PagesAccountedFor ==
    status = "up" /\ ~mismatch =>
        1..(next_page_id - 1) = Owned(wal) \union ToSet(freelist)

\* The allocator's books are right after any crash.
AllocatorSound == TypeOK /\ NoPageTwice /\ PagesAccountedFor
=============================================================================
