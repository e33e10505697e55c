------------------------- MODULE SnapshotIsolation -------------------------
(***************************************************************************)
(* What pg-txn promises to the access methods, with no xmin, xmax, xip or  *)
(* commit log: a snapshot sees exactly the transactions whose commit was   *)
(* complete at the instant the snapshot was taken, and goes on seeing      *)
(* exactly those for as long as it is held.  TxnManager implements this    *)
(* specification.                                                          *)
(***************************************************************************)
CONSTANTS Xids,     \* transaction identifiers
          Guards    \* snapshot guards (one live snapshot each)

VARIABLES committed,  \* transactions whose commit is complete
          held,       \* guards that hold a snapshot
          view        \* view[g]: the transactions the snapshot of g sees

vars == <<committed, held, view>>

Init == /\ committed = {}
        /\ held = {}
        /\ view = [g \in Guards |-> {}]

Commit(x) == /\ x \notin committed
             /\ committed' = committed \cup {x}
             /\ UNCHANGED <<held, view>>

Take(g) == /\ g \notin held
           /\ held' = held \cup {g}
           /\ view' = [view EXCEPT ![g] = committed]
           /\ UNCHANGED committed

Drop(g) == /\ g \in held
           /\ held' = held \ {g}
           /\ view' = [view EXCEPT ![g] = {}]
           /\ UNCHANGED committed

Next == \/ \E x \in Xids : Commit(x)
        \/ \E g \in Guards : Take(g) \/ Drop(g)

Spec == Init /\ [][Next]_vars
=============================================================================
