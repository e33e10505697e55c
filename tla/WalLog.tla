------------------------------- MODULE WalLog -------------------------------
(***************************************************************************)
(* pg-storage: what a crash leaves of the log files, and what the reader   *)
(* makes of it when the writer is opened again.                            *)
(*                                                                         *)
(* A log position holds one cell: a record is a header cell, which carries *)
(* its LSN, its length and the CRC, and the cells of its payload.  A cell  *)
(* is <<record, index>>; Zero is the preallocated, never written state.    *)
(* file is what a reader sees, durable what an fsync has put on the disk.  *)
(* Killing the process keeps file; losing power keeps durable and part of  *)
(* the rest: the beginning of what was written since, or, if Reordered,    *)
(* any part of it.                                                         *)
(*                                                                         *)
(* Module WalWriter has the threads; here appends, which the state mutex   *)
(* serialises, are one sequence of cell writes.  Recycling is in module    *)
(* CrashRecovery: here the scan starts at the first record.                *)
(***************************************************************************)
EXTENDS Integers, Sequences, SequencesExt, Functions

CONSTANTS Lengths,      \* record lengths in cells, header included, a segment at most
          SegmentSize,  \* cells per segment file
          MaxCells,     \* bound on the log's length
          MaxRecords,   \* bound on the records ever begun
          MaxStops,     \* bound on crashes and clean shutdowns
          Reordered     \* whether unsynced cells reach the disk in any order

VARIABLES
    file, durable,       \* the cells of all segment files
    current_segment_id,  \* the latest segment file
    lsn_clock,           \* the position of the next record
    recs,                \* LSN and length of every record begun so far
    done,                \* cells written of the record being written, or Idle
    last_error,          \* the writer is poisoned
    status, stops,
    log,                 \* the records a perfect log would hold, in order
    flushed              \* how many of them have been promised to be durable

files  == <<file, durable, current_segment_id>>
writer == <<lsn_clock, recs, done, last_error>>
vars   == <<files, writer, status, stops, log, flushed>>

Positions == 1..MaxCells
Zero == <<0, 0>>
Idle == -1
Segment(lsn) == lsn \div SegmentSize
FileEnd == (current_segment_id + 1) * SegmentSize - 1
Cell(p) == IF p \in Positions THEN file[p] ELSE Zero

TypeOK ==
    /\ file \in [Positions -> (0..MaxRecords) \X (0..SegmentSize)]
    /\ durable \in [Positions -> (0..MaxRecords) \X (0..SegmentSize)]
    /\ current_segment_id \in 0..Segment(MaxCells)
    /\ lsn_clock \in 1..(MaxCells + 1)
    /\ recs \in Seq([lsn : Positions, len : Lengths]) /\ Len(recs) <= MaxRecords
    /\ done \in {Idle} \union 0..SegmentSize /\ last_error \in BOOLEAN
    /\ status \in {"up", "down", "refused"} /\ stops \in 0..MaxStops
    /\ log \in Seq(1..MaxRecords) /\ flushed \in 0..Len(log)

Init ==
    /\ file = [p \in Positions |-> Zero] /\ durable = file /\ current_segment_id = 0
    /\ lsn_clock = 1 /\ recs = <<>> /\ done = Idle /\ last_error = FALSE
    /\ status = "up" /\ stops = 0 /\ log = <<>> /\ flushed = 0

----------------------------------------------------------------------------
(* The writer.                                                             *)

CanAppend(n) ==
    /\ status = "up" /\ done = Idle /\ ~last_error
    /\ lsn_clock + n <= MaxCells + 1 /\ Len(recs) < MaxRecords

append(n) ==
    /\ CanAppend(n) /\ Segment(lsn_clock) >= current_segment_id
    /\ recs' = Append(recs, [lsn |-> lsn_clock, len |-> n])
    /\ lsn_clock' = lsn_clock + n
    /\ done' = 0
    /\ UNCHANGED <<last_error, files, status, stops, log, flushed>>

\* ensure_for_write refuses a position before the latest segment.
append_refused(n) ==
    /\ CanAppend(n) /\ Segment(lsn_clock) < current_segment_id
    /\ lsn_clock' = lsn_clock + n
    /\ last_error' = TRUE
    /\ UNCHANGED <<recs, done, files, status, stops, log, flushed>>

Writing == Last(recs).lsn + done

\* The next segment file is created, after an fsync of the old one.
rotate ==
    /\ status = "up" /\ done # Idle /\ Segment(Writing) > current_segment_id
    /\ durable' = file
    /\ current_segment_id' = current_segment_id + 1
    /\ UNCHANGED <<file, writer, status, stops, log, flushed>>

write_cell ==
    /\ status = "up" /\ done # Idle /\ Segment(Writing) = current_segment_id
    /\ file' = [file EXCEPT ![Writing] = <<Len(recs), done>>]
    /\ IF done + 1 = Last(recs).len
       THEN done' = Idle /\ log' = Append(log, Len(recs))
       ELSE done' = done + 1 /\ UNCHANGED log
    /\ UNCHANGED <<durable, current_segment_id, lsn_clock, recs, last_error, status,
                   stops, flushed>>

\* What an fsync of the current segment makes durable.
Synced == [p \in Positions |-> IF Segment(p) = current_segment_id THEN file[p] ELSE durable[p]]

\* flush_to: the worker has fsynced the current segment.
flush ==
    /\ status = "up" /\ done = Idle /\ ~last_error /\ flushed < Len(log)
    /\ durable' = Synced
    /\ flushed' = Len(log)
    /\ UNCHANGED <<file, current_segment_id, writer, status, stops, log>>

Stop == stops < MaxStops /\ stops' = stops + 1 /\ status' = "down" /\ done' = Idle

\* Drop: the worker flushes what is pending.
close ==
    /\ status = "up" /\ done = Idle /\ ~last_error /\ Stop
    /\ durable' = Synced
    /\ flushed' = Len(log)
    /\ UNCHANGED <<file, current_segment_id, lsn_clock, recs, last_error, log>>

\* The process dies, in the middle of a write perhaps; the page cache does not.
kill ==
    /\ status = "up" /\ Stop
    /\ UNCHANGED <<files, lsn_clock, recs, last_error, log, flushed>>

Unsynced == {p \in Positions : file[p] # durable[p]}

Reached ==
    IF Reordered THEN SUBSET Unsynced
    ELSE {{p \in Unsynced : p < n} : n \in 1..(MaxCells + 1)}

\* The machine loses power, running or between two runs.
power_loss ==
    /\ status \in {"up", "down"} /\ Stop
    /\ \E kept \in Reached :
         durable' = [p \in Positions |-> IF p \in kept THEN file[p] ELSE durable[p]]
    /\ file' = durable'
    /\ UNCHANGED <<current_segment_id, lsn_clock, recs, last_error, log, flushed>>

----------------------------------------------------------------------------
(* The reader.                                                             *)

End(p) == [ok |-> TRUE, at |-> p, log |-> <<>>]
Refuse == [ok |-> FALSE, at |-> 0, log |-> <<>>]

\* Mutant: the CRC is not checked.
Intact_header_only(p) ==
    /\ Cell(p)[2] = 0
    /\ p + recs[Cell(p)[1]].len - 1 <= FileEnd

\* decode: the CRC covers the header and every byte of the payload.
Intact(p) ==
    /\ Cell(p)[2] = 0
    /\ \A i \in 0..(recs[Cell(p)[1]].len - 1) : Cell(p + i) = <<Cell(p)[1], i>>

\* Where reading stops for good: the position to resume from.
RecordEnd(p) == p

\* A header that fails its CRC: torn if its record runs past the last file, or if
\* nothing but zeros follows it.
is_torn_tail(p) ==
    LET end == p + recs[Cell(p)[1]].len IN
    \/ end - 1 > FileEnd
    \/ \A q \in end..FileEnd : Cell(q) = Zero

\* next_record until it stops.  A cell that is no header is read as one: its length
\* is arbitrary, so the record may also seem to run past the last file (short).
Scan(short) ==
    LET scan[p \in 1..(MaxCells + 1)] ==
          IF p > FileEnd THEN End(p)
          ELSE IF Cell(p) = Zero
               THEN IF p < FileEnd /\ Cell(p + 1) # Zero THEN Refuse ELSE End(RecordEnd(p))
          ELSE IF Cell(p)[2] # 0
               THEN IF short THEN End(RecordEnd(p)) ELSE Refuse
          ELSE IF Intact(p)
               THEN LET rest == scan[p + recs[Cell(p)[1]].len] IN
                    [rest EXCEPT !.log = <<Cell(p)[1]>> \o @]
          ELSE IF is_torn_tail(p) THEN End(RecordEnd(p)) ELSE Refuse
    IN scan[1]

\* open_with_scan_start: open, and fsync, the latest segment; discover_resume_lsn;
\* everything found counts as synced.
open ==
    /\ status = "down"
    /\ \E short \in BOOLEAN :
         LET found == Scan(short) IN
         IF found.ok
         THEN /\ status' = "up" /\ lsn_clock' = found.at
              /\ log' = found.log /\ flushed' = Len(log')
              /\ durable' = Synced
         ELSE status' = "refused" /\ UNCHANGED <<lsn_clock, log, flushed, durable>>
    /\ last_error' = FALSE
    /\ UNCHANGED <<file, current_segment_id, recs, done, stops>>

Next ==
    \/ \E n \in Lengths : append(n) \/ append_refused(n)
    \/ rotate \/ write_cell \/ flush
    \/ close \/ kill \/ power_loss
    \/ open

Spec == Init /\ [][Next]_vars

----------------------------------------------------------------------------
(* Properties.                                                             *)

Reopens == status = "down" /\ status' = "up"

\* The writer resumes at the end of the last complete record: it overwrites no
\* record and leaves no hole.
ResumesAtEnd ==
    status = "up" /\ done = Idle /\ ~last_error =>
        lsn_clock = 1 + FoldLeft(LAMBDA n, r : n + recs[r].len, 0, log)

\* What is read back was appended, in that order and without a gap: no torn record
\* is taken for a complete one and no record of an abandoned tail comes back.  And
\* everything flush_to promised, and everything an earlier recovery has built on,
\* is read back after any number of kills and power losses.
Reopened == Reopens => IsPrefix(log', log) /\ Len(log') >= flushed

\* Every open finds the log that was written, as far as it was promised, and the
\* writer resumes at its end.
LogReadBack == [](TypeOK /\ ResumesAtEnd) /\ [][Reopened]_vars

\* What WalWriter::open promises: the writer resumes from the log it finds.
OpenResumes == status # "refused"
=============================================================================
