----------------------------- MODULE BufferPool -----------------------------
(***************************************************************************)
(* The buffer pool (pg-storage/src/buffer_pool.rs): the page table, the    *)
(* frames' metadata, CLOCK eviction under the allocation lock, content     *)
(* latches, guards, the clear-before-write flush with its in-flight flag   *)
(* and shared fsyncs, and the errors on those paths.                       *)
(*                                                                         *)
(* A thread runs a program of calls; its pc names the point between two    *)
(* lock acquisitions it has reached, so a step is one critical section.    *)
(* A page's content is the LSN of its last change (0: zeroes).  The images *)
(* a page goes back to after a crash are CrashRecovery's; here an image is *)
(* in memory, written to the file, or synced.                              *)
(***************************************************************************)
EXTENDS Integers, Sequences, FiniteSets, FiniteSetsExt, SequencesExt, Functions, TLC

CONSTANTS
    Pages,       \* page ids: 1 .. n
    Frames,      \* frame numbers: 0 .. n - 1
    Threads,
    MaxLsn,      \* bound: changes
    Scenarios    \* [prog, resident, errors], see Init

VARIABLES
    frame,       \* FrameMeta, and the content
    table,       \* page -> frame or NoFrame
    latch,       \* frame -> the guards on its content: <<thread, mode>>
    hand,        \* clock_hand
    alloc_lock,  \* the thread that holds allocation_lock, or "none"
    flush_gen, synced_gen,
    written,     \* page -> its image in the data file
    durable,     \* page -> the image the last fsync covered
    free,        \* the allocator's free pages
    lsn,         \* the last LSN
    latest,      \* ghost: page -> the LSN of the last change its owner made to it
    thread,
    errors       \* budget: I/O errors

vars == <<frame, table, latch, hand, alloc_lock, flush_gen, synced_gen, written, durable, free, lsn, latest,
          thread, errors>>
pool == <<frame, table, latch, hand, alloc_lock>>
file == <<flush_gen, synced_gen, written, durable>>

INVALID == 0
NoFrame == -1
Default == [page |-> INVALID, pins |-> 0, reference |-> FALSE, dirty |-> FALSE, evicting |-> FALSE,
            flushing |-> FALSE, first_dirty_lsn |-> INVALID, content |-> 0]

Idle(prog) ==
    [prog |-> prog, pc |-> "idle", page |-> INVALID, mode |-> "none", frame |-> NoFrame, scans |-> 0,
     back |-> "idle", saved |-> INVALID, gen |-> 0, covered |-> 0, want |-> 0, held |-> {},
     batch |-> <<>>, claims |-> {}]

Call(t)   == Head(thread[t].prog)
At(t, pc) == thread[t].pc = pc
Asks(t, op) == At(t, "idle") /\ thread[t].prog # <<>> /\ Call(t).op = op

Go(t, changes) == thread' = [thread EXCEPT ![t] = changes @@ @]

\* The call returned
Return(t, changes) == Go(t, changes @@ [pc |-> "idle", prog |-> Tail(thread[t].prog)])

\* The call failed: the caller drops what it holds and gives up
Fail(t) == Go(t, [pc |-> "idle", prog |-> SetToSeq({[op |-> "drop", page |-> g.page] : g \in thread[t].held})])

Set(f, changes) == frame' = [frame EXCEPT ![f] = changes @@ @]

-----------------------------------------------------------------------------
(* pin, pin_mut and new_page.                                               *)

Pinnable(p) == table[p] # NoFrame /\ frame[table[p]].page = p /\ ~frame[table[p]].evicting

Pinned(f) == Set(f, [pins |-> frame[f].pins + 1, reference |-> TRUE])

Found(t, f) == Go(t, [pc |-> IF thread[t].mode = "new" THEN "mark" ELSE "latch", frame |-> f])

\* locate_or_load: the resident page, or the way through the allocation lock.
\* try_lock on the frame's metadata may fail though the page is resident.
locate_or_load(t, mode) ==
    /\ Asks(t, mode)
    /\ LET p == Call(t).page
           q == [page |-> p, mode |-> mode]
       IN  \/ /\ Pinnable(p)
              /\ Pinned(table[p])
              /\ Go(t, q @@ [pc |-> "latch", frame |-> table[p]])
           \/ /\ Go(t, q @@ [pc |-> "alloc"])
              /\ UNCHANGED frame
    /\ UNCHANGED <<table, latch, hand, alloc_lock, file, free, lsn, latest, errors>>

\* alloc_page, then a frame for the page
new_page(t) ==
    /\ Asks(t, "new")
    /\ free # {}
    /\ LET p == Min(free) IN
       /\ free' = free \ {p}
       /\ Go(t, [pc |-> "alloc", page |-> p, mode |-> "new"])
    /\ UNCHANGED <<pool, file, lsn, latest, errors>>

free_page(t) ==
    /\ Asks(t, "free")
    /\ free' = free \cup {Call(t).page}
    /\ latest' = [latest EXCEPT ![Call(t).page] = INVALID]
    /\ Return(t, <<>>)
    /\ UNCHANGED <<pool, file, lsn, errors>>

alloc_frame(t) ==
    /\ At(t, "alloc")
    /\ alloc_lock = "none"
    /\ alloc_lock' = t
    /\ Go(t, [pc |-> "check"])
    /\ UNCHANGED <<frame, table, latch, hand, file, free, lsn, latest, errors>>

\* Mutant: a failed try_lock is taken for a page that is not resident
alloc_frame_check_once(t) ==
    /\ At(t, "check")
    /\ \/ /\ Pinnable(thread[t].page)
          /\ Pinned(table[thread[t].page])
          /\ alloc_lock' = "none"
          /\ Found(t, table[thread[t].page])
       \/ /\ Go(t, [pc |-> "evict", scans |-> 2 * Cardinality(Frames)])
          /\ UNCHANGED <<frame, alloc_lock>>
    /\ UNCHANGED <<table, latch, hand, file, free, lsn, latest, errors>>

\* The second look: resident pages are pinned, if need be after try_lock failed
\* a few times; only a page that is not in the table gets a frame
alloc_frame_check(t) ==
    /\ At(t, "check")
    /\ \/ /\ Pinnable(thread[t].page)
          /\ Pinned(table[thread[t].page])
          /\ alloc_lock' = "none"
          /\ Found(t, table[thread[t].page])
       \/ /\ table[thread[t].page] = NoFrame
          /\ Go(t, [pc |-> "evict", scans |-> 2 * Cardinality(Frames)])
          /\ UNCHANGED <<frame, alloc_lock>>
    /\ UNCHANGED <<table, latch, hand, file, free, lsn, latest, errors>>

\* One turn of the CLOCK hand
evict_frame(t) ==
    /\ At(t, "evict")
    /\ thread[t].scans > 0
    /\ hand' = (hand + 1) % Cardinality(Frames)
    /\ LET m == frame[hand]
           scanned == [scans |-> thread[t].scans - 1]
       IN  IF m.pins > 0 \/ m.evicting \/ m.flushing THEN Go(t, scanned) /\ UNCHANGED frame
           ELSE IF m.reference THEN Go(t, scanned) /\ Set(hand, [reference |-> FALSE])
           ELSE /\ Set(hand, [evicting |-> TRUE])
                /\ Go(t, [frame |-> hand, back |-> "unmap",
                          pc |-> IF m.dirty /\ m.page # INVALID THEN "claim" ELSE "unmap"])
    /\ UNCHANGED <<table, latch, alloc_lock, file, free, lsn, latest, errors>>

\* Nothing to evict
BufferPoolFull(t) ==
    /\ At(t, "evict")
    /\ thread[t].scans = 0
    /\ alloc_lock' = "none"
    /\ Fail(t)
    /\ UNCHANGED <<frame, table, latch, hand, file, free, lsn, latest, errors>>

\* The old tenant is durable or clean: its mapping goes
unmap(t) ==
    /\ At(t, "unmap")
    /\ LET p == frame[thread[t].frame].page IN
       table' = IF p = INVALID THEN table ELSE [table EXCEPT ![p] = NoFrame]
    /\ Go(t, [pc |-> "reset"])
    /\ UNCHANGED <<frame, latch, hand, alloc_lock, file, free, lsn, latest, errors>>

reset(t) ==
    /\ At(t, "reset")
    /\ frame' = [frame EXCEPT ![thread[t].frame] = Default]
    /\ Go(t, [pc |-> "load"])
    /\ UNCHANGED <<table, latch, hand, alloc_lock, file, free, lsn, latest, errors>>

\* read_page_from_disk, or zeroes for a new page; then the metadata
load(t) ==
    /\ At(t, "load")
    /\ Set(thread[t].frame, [page |-> thread[t].page, pins |-> 1, reference |-> TRUE,
                             content |-> IF thread[t].mode = "new" THEN 0 ELSE written[thread[t].page]])
    /\ Go(t, [pc |-> "map"])
    /\ UNCHANGED <<table, latch, hand, alloc_lock, file, free, lsn, latest, errors>>

\* The read fails: the frame stays empty
load_error(t) ==
    /\ At(t, "load") /\ thread[t].mode # "new"
    /\ errors > 0 /\ errors' = errors - 1
    /\ alloc_lock' = "none"
    /\ Fail(t)
    /\ UNCHANGED <<frame, table, latch, hand, file, free, lsn, latest>>

map(t) ==
    /\ At(t, "map")
    /\ table' = [table EXCEPT ![thread[t].page] = thread[t].frame]
    /\ alloc_lock' = "none"
    /\ Found(t, thread[t].frame)
    /\ UNCHANGED <<frame, latch, hand, file, free, lsn, latest, errors>>

\* A new page is dirty before anyone can latch it
mark_new(t) ==
    /\ At(t, "mark")
    /\ Set(thread[t].frame, [dirty |-> TRUE])
    /\ Go(t, [pc |-> "latch"])
    /\ UNCHANGED <<table, latch, hand, alloc_lock, file, free, lsn, latest, errors>>

Writer(f) == \E g \in latch[f] : g[2] = "write"

\* content.read() or content.write(); a write guard makes the frame dirty at once
acquire_latch(t) ==
    /\ At(t, "latch")
    /\ LET f == thread[t].frame
           w == IF thread[t].mode = "pin" THEN "read" ELSE "write"
       IN  /\ IF w = "read" THEN ~Writer(f) ELSE latch[f] = {}
           /\ latch' = [latch EXCEPT ![f] = @ \cup {<<t, w>>}]
           /\ IF w = "write" THEN Set(f, [dirty |-> TRUE]) ELSE UNCHANGED frame
           /\ Return(t, [held |-> thread[t].held \cup {[page |-> thread[t].page, frame |-> f, mode |-> w]}])
    /\ UNCHANGED <<table, hand, alloc_lock, file, free, lsn, latest, errors>>

-----------------------------------------------------------------------------
(* Guards.                                                                  *)

Guard(t) == CHOOSE g \in thread[t].held : g.page = Call(t).page \/ Call(t).page = INVALID

\* An access method's change under its write guard: logged, then stamped
modify(t) ==
    /\ Asks(t, "modify") /\ thread[t].held # {}
    /\ lsn < MaxLsn
    /\ lsn' = lsn + 1
    /\ Set(Guard(t).frame, [content |-> lsn + 1])
    /\ latest' = [latest EXCEPT ![Guard(t).page] = lsn + 1]
    /\ Return(t, <<>>)
    /\ UNCHANGED <<table, latch, hand, alloc_lock, file, free, errors>>

\* A guard goes: the latch first, the write guard's anchor next, the pin last
drop_guard(t) ==
    /\ Asks(t, "drop")
    /\ LET g == Guard(t) IN
       /\ latch' = [latch EXCEPT ![g.frame] = @ \ {<<t, g.mode>>}]
       /\ Go(t, [pc |-> IF g.mode = "write" THEN "anchor" ELSE "unpin", frame |-> g.frame,
                 saved |-> frame[g.frame].content, held |-> thread[t].held \ {g}])
    /\ UNCHANGED <<frame, table, hand, alloc_lock, file, free, lsn, latest, errors>>

anchor(t) ==
    /\ At(t, "anchor")
    /\ LET m == frame[thread[t].frame] IN
       Set(thread[t].frame, [dirty |-> TRUE,
                             first_dirty_lsn |-> IF m.first_dirty_lsn = INVALID THEN thread[t].saved
                                                 ELSE m.first_dirty_lsn])
    /\ Go(t, [pc |-> "unpin"])
    /\ UNCHANGED <<table, latch, hand, alloc_lock, file, free, lsn, latest, errors>>

unpin(t) ==
    /\ At(t, "unpin")
    /\ Set(thread[t].frame, [pins |-> frame[thread[t].frame].pins - 1])
    /\ Return(t, <<>>)
    /\ UNCHANGED <<table, latch, hand, alloc_lock, file, free, lsn, latest, errors>>

-----------------------------------------------------------------------------
(* Flushing.  back is where the flush returns to: the end of the call, the  *)
(* evictor's unmap, or the batch.                                           *)

\* flush: a page that is not resident was made durable when it was evicted
flush(t) ==
    /\ Asks(t, "flush")
    /\ LET p == Call(t).page
           want == [page |-> p, want |-> latest[p], back |-> "flushed"]
       IN  Go(t, want @@ IF table[p] = NoFrame THEN [pc |-> "flushed"]
                         ELSE [pc |-> "claim", frame |-> table[p]])
    /\ UNCHANGED <<pool, file, free, lsn, latest, errors>>

\* Mutant: a clean frame is taken for a durable one
claim_no_wait(t) ==
    /\ At(t, "claim")
    /\ LET m == frame[thread[t].frame] IN
       IF ~m.dirty \/ m.page = INVALID THEN Go(t, [pc |-> thread[t].back]) /\ UNCHANGED frame
       ELSE /\ ~m.flushing
            /\ Set(thread[t].frame, [flushing |-> TRUE, dirty |-> FALSE, first_dirty_lsn |-> INVALID])
            /\ Go(t, [pc |-> "write", saved |-> m.first_dirty_lsn])
    /\ UNCHANGED <<table, latch, hand, alloc_lock, file, free, lsn, latest, errors>>

\* flush_frame_write: wait out the flush in flight, then claim the dirty epoch
claim(t) ==
    /\ At(t, "claim")
    /\ LET m == frame[thread[t].frame] IN
       /\ ~m.flushing
       /\ IF ~m.dirty \/ m.page = INVALID THEN Go(t, [pc |-> thread[t].back]) /\ UNCHANGED frame
          ELSE /\ Set(thread[t].frame, [flushing |-> TRUE, dirty |-> FALSE, first_dirty_lsn |-> INVALID])
               /\ Go(t, [pc |-> "write", saved |-> m.first_dirty_lsn])
    /\ UNCHANGED <<table, latch, hand, alloc_lock, file, free, lsn, latest, errors>>

\* Under the read latch: the WAL up to the page's LSN, then the page
flush_frame_write(t) ==
    /\ At(t, "write")
    /\ ~Writer(thread[t].frame)
    /\ written' = [written EXCEPT ![frame[thread[t].frame].page] = frame[thread[t].frame].content]
    /\ Go(t, IF thread[t].back = "batch" THEN [pc |-> "batch", claims |-> thread[t].claims \cup
                                                        {<<thread[t].frame, thread[t].saved>>}]
             ELSE [pc |-> "gen"])
    /\ UNCHANGED <<pool, flush_gen, synced_gen, durable, free, lsn, latest, errors>>

bump_flush_gen(t) ==
    /\ At(t, "gen")
    /\ flush_gen' = flush_gen + 1
    /\ Go(t, [pc |-> "covered", gen |-> flush_gen + 1])
    /\ UNCHANGED <<pool, synced_gen, written, durable, free, lsn, latest, errors>>

\* A sync that began after this write may have covered it
sync_needed(t) ==
    /\ At(t, "covered")
    /\ Go(t, IF synced_gen >= thread[t].gen THEN [pc |-> "done"] ELSE [pc |-> "sync", covered |-> flush_gen])
    /\ UNCHANGED <<pool, file, free, lsn, latest, errors>>

sync_all(t) ==
    /\ At(t, "sync")
    /\ durable' = written
    /\ Go(t, [pc |-> "synced"])
    /\ UNCHANGED <<pool, flush_gen, synced_gen, written, free, lsn, latest, errors>>

publish_synced(t) ==
    /\ At(t, "synced")
    /\ synced_gen' = IF thread[t].covered > synced_gen THEN thread[t].covered ELSE synced_gen
    /\ Go(t, [pc |-> "done"])
    /\ UNCHANGED <<pool, flush_gen, written, durable, free, lsn, latest, errors>>

flush_done(t) ==
    /\ At(t, "done")
    /\ Set(thread[t].frame, [flushing |-> FALSE])
    /\ Go(t, [pc |-> thread[t].back])
    /\ UNCHANGED <<table, latch, hand, alloc_lock, file, free, lsn, latest, errors>>

flushed(t) ==
    /\ At(t, "flushed")
    /\ Return(t, <<>>)
    /\ UNCHANGED <<pool, file, free, lsn, latest, errors>>

\* The older of the anchors
restore_first_dirty_lsn(current, saved) ==
    IF saved # INVALID /\ (current = INVALID \/ saved < current) THEN saved ELSE current

Restored(f, saved) ==
    [frame[f] EXCEPT !.dirty = TRUE, !.flushing = FALSE,
                     !.first_dirty_lsn = restore_first_dirty_lsn(@, saved)]

\* The write or the sync fails: the epoch is dirty again; an evictor gives its
\* victim back
flush_error(t) ==
    /\ thread[t].pc \in {"write", "sync"} /\ thread[t].back # "batch"
    /\ At(t, "write") => ~Writer(thread[t].frame)
    /\ errors > 0 /\ errors' = errors - 1
    /\ LET f == thread[t].frame IN
       frame' = [frame EXCEPT ![f] = Restored(f, thread[t].saved)]
    /\ IF thread[t].back = "unmap" THEN Go(t, [pc |-> "unevict"]) ELSE Fail(t)
    /\ UNCHANGED <<table, latch, hand, alloc_lock, file, free, lsn, latest>>

unevict(t) ==
    /\ At(t, "unevict")
    /\ Set(thread[t].frame, [evicting |-> FALSE])
    /\ alloc_lock' = "none"
    /\ Fail(t)
    /\ UNCHANGED <<table, latch, hand, file, free, lsn, latest, errors>>

dirty_page_ids == {p \in Pages : \E f \in Frames : frame[f].page = p /\ frame[f].dirty}

\* flush_all_dirty: claim and write every dirty page, one sync, then let go
flush_all_dirty(t) ==
    /\ Asks(t, "flush_all")
    /\ Go(t, [pc |-> "batch", batch |-> SetToSeq(dirty_page_ids), claims |-> {}])
    /\ UNCHANGED <<pool, file, free, lsn, latest, errors>>

claim_all_dirty_writes(t) ==
    /\ At(t, "batch")
    /\ LET b == thread[t].batch IN
       Go(t, IF b = <<>> THEN [pc |-> IF thread[t].claims = {} THEN "flushed" ELSE "batch_sync"]
             ELSE [batch |-> Tail(b)] @@
                  IF table[Head(b)] = NoFrame THEN <<>>
                  ELSE [pc |-> "claim", frame |-> table[Head(b)], back |-> "batch"])
    /\ UNCHANGED <<pool, file, free, lsn, latest, errors>>

batch_sync(t) ==
    /\ At(t, "batch_sync")
    /\ durable' = written
    /\ Go(t, [pc |-> "release"])
    /\ UNCHANGED <<pool, flush_gen, synced_gen, written, free, lsn, latest, errors>>

release_claims(t) ==
    /\ At(t, "release")
    /\ frame' = [f \in Frames |-> IF \E c \in thread[t].claims : c[1] = f
                                  THEN [frame[f] EXCEPT !.flushing = FALSE] ELSE frame[f]]
    /\ Go(t, [pc |-> "flushed", claims |-> {}])
    /\ UNCHANGED <<table, latch, hand, alloc_lock, file, free, lsn, latest, errors>>

\* Every claimed epoch is dirty again, and the one whose write failed
batch_error(t) ==
    /\ \/ At(t, "batch_sync")
       \/ At(t, "write") /\ thread[t].back = "batch" /\ ~Writer(thread[t].frame)
    /\ errors > 0 /\ errors' = errors - 1
    /\ LET claims == thread[t].claims \cup
                     IF At(t, "write") THEN {<<thread[t].frame, thread[t].saved>>} ELSE {}
       IN  frame' = [f \in Frames |-> IF \E c \in claims : c[1] = f
                                      THEN Restored(f, (CHOOSE c \in claims : c[1] = f)[2]) ELSE frame[f]]
    /\ Fail(t)
    /\ UNCHANGED <<table, latch, hand, alloc_lock, file, free, lsn, latest>>

-----------------------------------------------------------------------------
Init ==
    \E scn \in Scenarios :
        /\ frame = [f \in Frames |->
                      IF scn.resident[f] = INVALID THEN Default
                      ELSE [Default EXCEPT !.page = scn.resident[f]]]
        /\ table = [p \in Pages |-> IF \E f \in Frames : scn.resident[f] = p
                                    THEN CHOOSE f \in Frames : scn.resident[f] = p ELSE NoFrame]
        /\ latch = [f \in Frames |-> {}]
        /\ hand = 0
        /\ alloc_lock = "none"
        /\ flush_gen = 0 /\ synced_gen = 0
        /\ written = [p \in Pages |-> 0]
        /\ durable = [p \in Pages |-> 0]
        /\ free = {}
        /\ lsn = 0
        /\ latest = [p \in Pages |-> 0]
        /\ thread = [t \in Threads |-> Idle(scn.prog[t])]
        /\ errors = scn.errors

Done == (\A t \in Threads : At(t, "idle") /\ thread[t].prog = <<>>) /\ UNCHANGED vars

Next ==
    \/ Done
    \/ \E t \in Threads :
        \/ locate_or_load(t, "pin") \/ locate_or_load(t, "pin_mut") \/ new_page(t) \/ free_page(t)
        \/ alloc_frame(t) \/ alloc_frame_check(t) \/ evict_frame(t) \/ BufferPoolFull(t)
        \/ unmap(t) \/ reset(t) \/ load(t) \/ load_error(t) \/ map(t) \/ mark_new(t) \/ acquire_latch(t)
        \/ modify(t) \/ drop_guard(t) \/ anchor(t) \/ unpin(t)
        \/ flush(t) \/ claim(t) \/ flush_frame_write(t) \/ bump_flush_gen(t) \/ sync_needed(t)
        \/ sync_all(t) \/ publish_synced(t) \/ flush_done(t) \/ flushed(t) \/ flush_error(t) \/ unevict(t)
        \/ flush_all_dirty(t) \/ claim_all_dirty_writes(t) \/ batch_sync(t) \/ release_claims(t) \/ batch_error(t)

Spec == Init /\ [][Next]_vars

-----------------------------------------------------------------------------
(* Properties.                                                              *)

Undurable(p) == latest[p] \notin {INVALID, durable[p]}

Flushing(f) == \E t \in Threads : \/ thread[t].frame = f /\ thread[t].pc \in {"write", "gen", "covered", "sync", "synced", "done"}
                                  \/ \E c \in thread[t].claims : c[1] = f

\* Between its change and the end of its guard's drop a writer vouches for the page
Writing(f) == Writer(f) \/ \E t \in Threads : At(t, "anchor") /\ thread[t].frame = f

\* A page has one image: whoever holds a guard on it holds the frame the table
\* names, with the page's last change in it, however many threads missed the page
\* at once, flushed it or evicted its neighbours; and a change that is not on
\* disk yet is never forgotten: its page is in the table, in a frame that is
\* dirty or being flushed and has an anchor no later than the change, or a
\* writer is still in it.
PoolCoherent ==
    /\ \A t \in Threads : \A g \in thread[t].held :
         /\ table[g.page] = g.frame
         /\ frame[g.frame].page = g.page
         /\ latest[g.page] \in {INVALID, frame[g.frame].content}
    /\ \A p \in Pages : Undurable(p) =>
         LET f == table[p] IN
         /\ f # NoFrame
         /\ frame[f].page = p
         /\ \/ Flushing(f) \/ Writing(f)
            \/ frame[f].dirty /\ frame[f].first_dirty_lsn \in 1 .. latest[p]

\* What flush(page) promises split_copy and the checkpoint: when it returns,
\* every change made to the page before the call is on disk, though another
\* thread's flush or an eviction had claimed the page and fsyncs are shared.
FlushIsDurable ==
    \A t \in Threads : At(t, "flushed") /\ thread[t].want # 0 =>
        durable[thread[t].page] >= thread[t].want
=============================================================================
