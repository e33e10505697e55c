--------------------------- MODULE MCTxnManager ---------------------------
(* TxnManager for TLC: guards are interchangeable.                         *)
EXTENDS TxnManager, TLC

GuardSymmetry == Permutations(Guards)
=============================================================================
