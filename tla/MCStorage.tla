----------------------------- MODULE MCStorage -----------------------------
(* The parts of the storage engine under the recovery protocol, each on an *)
(* instance of its own: the WAL writer's group commit, the WAL's segment   *)
(* files, the page allocator, the buffer pool and the commit log's buffer. *)
(* A behaviour runs one of them, chosen at its start; the variables of     *)
(* the parts it does not run stay as they are.                             *)
EXTENDS WalWriter, Sequences, TLC

VARIABLES part,
          l_file, l_durable, l_current_segment_id, l_lsn_clock, l_recs,
          l_done, l_last_error, l_status, l_stops, l_log, l_flushed,
          a_freelist, a_next_page_id, a_wal, a_synced_lsn, a_ckpt,
          a_superblock, a_freelist_meta, a_status, a_crashes, a_mismatch,
          b_frame, b_table, b_latch, b_hand, b_alloc_lock, b_flush_gen,
          b_synced_gen, b_written, b_durable, b_free, b_lsn, b_latest,
          b_thread, b_errors,
          c_frames, c_clock_hand, c_written, c_durable, c_unsynced, c_log,
          c_redo, c_att, c_legacy, c_run, c_truth, c_left

LogVars == <<l_file, l_durable, l_current_segment_id, l_lsn_clock, l_recs,
             l_done, l_last_error, l_status, l_stops, l_log, l_flushed>>
AllocVars == <<a_freelist, a_next_page_id, a_wal, a_synced_lsn, a_ckpt,
               a_superblock, a_freelist_meta, a_status, a_crashes, a_mismatch>>
PoolVars == <<b_frame, b_table, b_latch, b_hand, b_alloc_lock, b_flush_gen,
              b_synced_gen, b_written, b_durable, b_free, b_lsn, b_latest,
              b_thread, b_errors>>
ClogVars == <<c_frames, c_clock_hand, c_written, c_durable, c_unsynced, c_log,
              c_redo, c_att, c_legacy, c_run, c_truth, c_left>>

(* The buffer pool: two or three threads, two frames, three pages.          *)

Pin(p)    == [op |-> "pin", page |-> p]
PinMut(p) == [op |-> "pin_mut", page |-> p]
Modify(p) == [op |-> "modify", page |-> p]
Drop(p)   == [op |-> "drop", page |-> p]
Flush(p)  == [op |-> "flush", page |-> p]
New       == [op |-> "new", page |-> 0]
Free(p)   == [op |-> "free", page |-> p]
FlushAll  == [op |-> "flush_all", page |-> 0]

Read(p)  == <<Pin(p), Drop(p)>>
Write(p) == <<PinMut(p), Modify(p), Drop(p)>>

PoolRun(first, second, a, b, c, e) ==
    [resident |-> (0 :> first @@ 1 :> second), prog |-> [a |-> a, b |-> b, c |-> c], errors |-> e]

PoolScenarios ==
    { PoolRun(0, 0, Write(1), Write(1), Read(1), 0),
      PoolRun(1, 2, Write(1), Write(3), Read(1), 0),
      PoolRun(1, 2, Write(1) \o <<Flush(1)>>, <<Flush(1)>>, Read(3) , 0),
      PoolRun(1, 2, Write(1) \o <<Flush(1)>>, Write(2) \o <<Flush(2)>>, Write(1), 0),
      PoolRun(1, 2, Write(1) \o <<Flush(1)>>, Read(3), <<>>, 2),
      PoolRun(1, 0, <<PinMut(1), Modify(1), PinMut(2), Modify(2), Drop(2), Flush(2), Drop(1)>>, <<Flush(2)>>, Read(3), 0),
      PoolRun(1, 2, Write(1) \o Write(2), <<FlushAll>>, Read(3), 1),
      PoolRun(1, 2, Write(1) \o <<Free(1), New, Modify(0), Drop(0)>>, Read(2) \o Read(3), <<Flush(1)>>, 0),
      PoolRun(1, 2, <<Pin(1), Pin(3), Drop(3), Drop(1)>>, <<Pin(2), Pin(3), Drop(3), Drop(2)>>, <<>>, 0) }

(* The commit log.                                                         *)

ClogRun(xids, old, checkpoints, errors, crashes, reads) ==
    [xids |-> xids, legacy |-> old,
     left |-> [checkpoints |-> checkpoints, errors |-> errors, crashes |-> crashes, reads |-> reads]]

\* Pages 0, 1 and 2 hold XIDs 1, 2-3 and 4; two frames, two segments
ClogScenarios ==
    { ClogRun({1, 2, 4}, <<>>, 1, 0, 1, 1), ClogRun({1, 4}, <<>>, 2, 1, 1, 1), ClogRun({2, 3}, <<>>, 1, 0, 2, 1),
      ClogRun({1, 2, 3, 4}, <<"Committed", "Aborted", "Committed">>, 1, 1, 1, 0) }

----------------------------------------------------------------------------
Log == INSTANCE WalLog
       WITH Lengths <- {1, 2, 3}, SegmentSize <- 4, MaxCells <- 7,
            MaxRecords <- 4, MaxStops <- 3, Reordered <- FALSE,
            file <- l_file, durable <- l_durable,
            current_segment_id <- l_current_segment_id,
            lsn_clock <- l_lsn_clock, recs <- l_recs, done <- l_done,
            last_error <- l_last_error, status <- l_status,
            stops <- l_stops, log <- l_log, flushed <- l_flushed

Alloc == INSTANCE PageAllocator
       WITH MaxPages <- 2, MaxLsn <- 7, MaxCrashes <- 2,
            freelist <- a_freelist, next_page_id <- a_next_page_id,
            wal <- a_wal, synced_lsn <- a_synced_lsn, ckpt <- a_ckpt,
            superblock <- a_superblock, freelist_meta <- a_freelist_meta,
            status <- a_status, crashes <- a_crashes, mismatch <- a_mismatch

Pool == INSTANCE BufferPool
       WITH Pages <- {1, 2, 3}, Frames <- {0, 1},
            Threads <- {"a", "b", "c"}, MaxLsn <- 4,
            Scenarios <- PoolScenarios, frame <- b_frame, table <- b_table,
            latch <- b_latch, hand <- b_hand, alloc_lock <- b_alloc_lock,
            flush_gen <- b_flush_gen, synced_gen <- b_synced_gen,
            written <- b_written, durable <- b_durable, free <- b_free,
            lsn <- b_lsn, latest <- b_latest, thread <- b_thread,
            errors <- b_errors

Clog == INSTANCE ClogBuffer
       WITH MaxXid <- 4, XidsPerPage <- 2, PagesPerSegment <- 2,
            NFrames <- 2, Scenarios <- ClogScenarios, frames <- c_frames,
            clock_hand <- c_clock_hand, written <- c_written,
            durable <- c_durable, unsynced <- c_unsynced, log <- c_log,
            redo <- c_redo, att <- c_att, legacy <- c_legacy, run <- c_run,
            truth <- c_truth, left <- c_left

LogUnused ==
  /\ l_file = 0 /\ l_durable = 0 /\ l_current_segment_id = 0 /\ l_lsn_clock = 0
  /\ l_recs = 0 /\ l_done = 0 /\ l_last_error = 0 /\ l_status = 0
  /\ l_stops = 0 /\ l_log = 0 /\ l_flushed = 0

AllocUnused ==
  /\ a_freelist = 0 /\ a_next_page_id = 0 /\ a_wal = 0 /\ a_synced_lsn = 0
  /\ a_ckpt = 0 /\ a_superblock = 0 /\ a_freelist_meta = 0 /\ a_status = 0
  /\ a_crashes = 0 /\ a_mismatch = 0

PoolUnused ==
  /\ b_frame = 0 /\ b_table = 0 /\ b_latch = 0 /\ b_hand = 0
  /\ b_alloc_lock = 0 /\ b_flush_gen = 0 /\ b_synced_gen = 0 /\ b_written = 0
  /\ b_durable = 0 /\ b_free = 0 /\ b_lsn = 0 /\ b_latest = 0
  /\ b_thread = 0 /\ b_errors = 0

ClogUnused ==
  /\ c_frames = 0 /\ c_clock_hand = 0 /\ c_written = 0 /\ c_durable = 0
  /\ c_unsynced = 0 /\ c_log = 0 /\ c_redo = 0 /\ c_att = 0
  /\ c_legacy = 0 /\ c_run = 0 /\ c_truth = 0 /\ c_left = 0

MCInit ==
  /\ Init
  /\ \/ part = "writer" /\ LogUnused /\ AllocUnused /\ PoolUnused /\ ClogUnused
     \/ part = "log" /\ Log!Init /\ AllocUnused /\ PoolUnused /\ ClogUnused
     \/ part = "alloc" /\ LogUnused /\ Alloc!Init /\ PoolUnused /\ ClogUnused
     \/ part = "pool" /\ LogUnused /\ AllocUnused /\ Pool!Init /\ ClogUnused
     \/ part = "clog" /\ LogUnused /\ AllocUnused /\ PoolUnused /\ Clog!Init

(* The WAL's files and the allocator stop when their bounds are reached.   *)
MCNext ==
  /\ UNCHANGED part
  /\ \/ part = "writer" /\ Next /\ UNCHANGED <<LogVars, AllocVars, PoolVars, ClogVars>>
     \/ part = "log" /\ Log!Next /\ UNCHANGED <<vars, AllocVars, PoolVars, ClogVars>>
     \/ part = "alloc" /\ Alloc!Next /\ UNCHANGED <<vars, LogVars, PoolVars, ClogVars>>
     \/ part = "pool" /\ Pool!Next /\ UNCHANGED <<vars, LogVars, AllocVars, ClogVars>>
     \/ part = "clog" /\ Clog!Next /\ UNCHANGED <<vars, LogVars, AllocVars, PoolVars>>
     \/ part \in {"log", "alloc"} /\ UNCHANGED <<vars, LogVars, AllocVars, PoolVars, ClogVars>>

MCSpec == MCInit /\ [][MCNext]_<<part, vars, LogVars, AllocVars, PoolVars, ClogVars>> /\ Fairness

----------------------------------------------------------------------------
(* The properties of the other parts.                                      *)

(* WalLog: an open reads the log back as it was written, as far as it was  *)
(* promised durable or further, and resumes at its end.                    *)
LogReadBack ==
  /\ [](part = "log" => Log!TypeOK /\ Log!ResumesAtEnd)
  /\ [][part = "log" => Log!Reopened]_LogVars

(* PageAllocator: no page is handed out twice or lost.                     *)
AllocatorSound == part = "alloc" => Alloc!AllocatorSound

(* BufferPool: when flush returns, the page is on disk.                    *)
FlushIsDurable == part = "pool" => Pool!FlushIsDurable

(* BufferPool: a page has one image, and no change to it is forgotten.     *)
PoolCoherent == part = "pool" => Pool!PoolCoherent

(* ClogBuffer: outcomes are neither lost nor turned.                       *)
OutcomesKept == part = "clog" => Clog!OutcomesKept
=============================================================================
