------------------------- MODULE MCDeadlockDetector -------------------------
(* Small instances of DeadlockDetector for TLC.                            *)
EXTENDS DeadlockDetector

OnlyAccessExclusive == {4}     \* LockMode::AccessExclusive, as in LockManager
=============================================================================
