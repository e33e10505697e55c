------------------------------ MODULE MCLocks ------------------------------
(* The three parts of locking, each on an instance of its own: the table   *)
(* locks, the row locks, and the deadlock detector over both.  A behaviour *)
(* runs one of them, chosen at its start.  The row locks and the detector, *)
(* which is built on them, use the same variables; variables that the part *)
(* does not use stay as they are.                                          *)
EXTENDS LockManager, TLC

CONSTANTS RRows, RRequests, ROutcomes,              \* the row locks' instance
          DRows, DRequests, DOutcomes, DTables, DModes  \* the detector's

VARIABLES part,
          t_xmax, infomask, share_locks, clog, active, row_wait_registry,
          r_pc, rowreq, r_victims, row_to_notify, held,
          d_granted, d_wait_queue, d_req, d_to_notify,
          tick, edges, cycles, interrupted

rowsVars == <<t_xmax, infomask, share_locks, clog, active, row_wait_registry,
              r_pc, rowreq, r_victims, row_to_notify, held>>
detectorVars == <<d_granted, d_wait_queue, d_req, d_to_notify,
                  tick, edges, cycles, interrupted>>
vars == <<part, lockVars, rowsVars, detectorVars>>

R == INSTANCE RowLocks
       WITH Rows <- RRows, FullPages <- RRows, Requests <- RRequests,
            Outcomes <- ROutcomes,
            pc <- r_pc, victims <- r_victims

D == INSTANCE DeadlockDetector
       WITH Rows <- DRows, FullPages <- {}, Requests <- DRequests,
            Outcomes <- DOutcomes, Tables <- DTables, Modes <- DModes,
            pc <- r_pc, victims <- r_victims,
            granted <- d_granted, wait_queue <- d_wait_queue, req <- d_req,
            to_notify <- d_to_notify

RowsUnused ==
  /\ t_xmax = 0 /\ infomask = 0 /\ share_locks = 0 /\ clog = 0 /\ active = 0
  /\ row_wait_registry = 0 /\ r_pc = 0 /\ rowreq = 0 /\ r_victims = 0
  /\ row_to_notify = 0 /\ held = 0

DetectorUnused ==
  /\ d_granted = 0 /\ d_wait_queue = 0 /\ d_req = 0 /\ d_to_notify = 0
  /\ tick = 0 /\ edges = 0 /\ cycles = 0 /\ interrupted = 0

MCInit == /\ LockInit
          /\ \/ part = "tables" /\ RowsUnused /\ DetectorUnused
             \/ part = "rows" /\ R!RowInit /\ DetectorUnused
             \/ part = "detector" /\ D!Init

MCNext == /\ UNCHANGED part
          /\ \/ part = "tables" /\ LockNext /\ UNCHANGED <<rowsVars, detectorVars>>
             \/ part = "rows" /\ R!RowNext /\ UNCHANGED <<lockVars, detectorVars>>
             \/ part = "detector" /\ D!Next /\ UNCHANGED lockVars

MCSpec == MCInit /\ [][MCNext]_vars

MCModes == {RowExclusive, Exclusive, AccessExclusive}
RowSymmetry == Permutations(DRows)

----------------------------------------------------------------------------
(* The properties of the other two parts.                                  *)

(* RowLocks: exclusion, wakeups and wait edges of the row-lock protocol.   *)
RowLocksSound == part = "rows" => R!RowLocksSound

(* RowLocks: nobody stamps over the stamp of a committed writer.           *)
FirstUpdaterWins == [][part = "rows" => R!KeepsCommittedStamps]_vars

(* DeadlockDetector: every knot is found, every victim is woken.           *)
DetectorSound == part = "detector" => D!DetectorSound

(* DeadlockDetector: only a cycle that is there costs somebody their       *)
(* transaction.                                                            *)
MarksAreDeadlocks == [][part = "detector" => D!MarkIsDeadlock]_vars
=============================================================================
