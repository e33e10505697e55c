----------------------------- MODULE MCRowLocks -----------------------------
(* A small instance of RowLocks for TLC.                                   *)
EXTENDS RowLocks

AllRequests == LockRequest
=============================================================================
