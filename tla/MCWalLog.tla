------------------------------ MODULE MCWalLog ------------------------------
(* Small instances of WalLog for TLC.                                      *)
EXTENDS WalLog
=============================================================================
