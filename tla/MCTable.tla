------------------------------ MODULE MCTable ------------------------------
(* Scenarios of two or three sessions on a table of one to three pages,      *)
(* three tuples to a page.                                                   *)
EXTENDS Table

R(k, v)      == [key |-> k, vec |-> v, v |-> 0]
Ins(k, v)    == [op |-> "insert", key |-> k, vec |-> v]
Upd(w, k, v) == [op |-> "update", where |-> w, key |-> k, vec |-> v]
Bump(w)      == Upd(w, Same, Same)
Del(w)       == [op |-> "delete", where |-> w]
Lock(w)      == [op |-> "lock", where |-> w]
End          == [op |-> "end"]
Commit       == [op |-> "commit"]
Abort        == [op |-> "abort"]
Vacuum       == [op |-> "vacuum"]
Scan         == [op |-> "scan"]
Lookup(k)    == [op |-> "lookup", key |-> k]

Sc(base, chain, a, b, c, evicts, checkpoints, crashes, tenants) ==
    [base |-> base, chain |-> chain, prog |-> [a |-> a, b |-> b, c |-> c],
     used |-> [evicts |-> evicts, checkpoints |-> checkpoints, crashes |-> crashes, tenants |-> tenants]]

MCScenarios ==
    { \* HOT, non-HOT and locked, beside a scan
      Sc(<<<<R(1, 0)>>>>, <<1>>, <<Bump(1), Bump(1), End>>, <<Lock(1), Upd(1, 2, 0), End>>, <<Scan>>, 0, 0, 0, 0),
      Sc(<<<<R(1, 0)>>>>, <<1>>, <<Lock(1), Del(1), End>>, <<Bump(1), Commit>>, <<>>, 0, 1, 1, 0),
      \* chains that grow, abort, die and give their slots to others
      Sc(<<<<R(1, 0)>>>>, <<1>>, <<Bump(1), End, Bump(1), End, Del(1), End>>, <<Vacuum, Ins(2, 0), Commit, Vacuum>>,
         <<>>, 0, 0, 0, 0),
      Sc(<<<<R(1, 0)>>>>, <<1>>, <<Bump(1), End, Upd(1, 2, 0), End>>, <<Vacuum>>, <<Scan>>, 1, 0, 1, 0),
      \* updates that leave their page, cross, meet deletes, and are cut by crashes
      Sc(<<<<R(1, 0), R(4, 0), R(2, 0)>>>>, <<1>>, <<Upd(1, 3, 0), Commit>>, <<Upd(2, 3, 0), End>>, <<>>, 0, 0, 1, 0),
      Sc(<<<<R(1, 0), R(4, 0)>>, <<R(3, 0), R(5, 0), R(2, 0)>>>>, <<1, 2>>,
         <<Upd(2, 1, 0), Commit>>, <<Ins(6, 0), Commit>>, <<>>, 1, 0, 1, 0),
      Sc(<<<<R(1, 0), R(4, 0)>>, <<R(3, 0), R(5, 0), R(2, 0)>>>>, <<1, 2>>,
         <<Upd(2, 1, 0), Commit>>, <<Del(2), End>>, <<>>, 0, 0, 0, 0),
      Sc(<<<<R(1, 0), R(4, 0)>>, <<R(3, 0), R(5, 0), R(2, 0)>>>>, <<1, 2>>,
         <<Upd(2, 1, 0), Commit>>, <<Upd(1, 2, 0), End>>, <<>>, 0, 0, 0, 0),
      \* vacuum empties pages, out of page order, beside readers and another table
      Sc(<<<<R(1, 0)>>, <<R(2, 0)>>, <<R(3, 0)>>>>, <<1, 3, 2>>, <<Del(2), Del(3), Commit>>, <<Vacuum>>, <<Scan>>,
         1, 0, 1, 1),
      Sc(<<<<R(1, 0)>>, <<R(2, 0)>>>>, <<1, 2>>, <<Del(2), Commit, Ins(3, 0), Commit>>, <<Vacuum>>, <<Lookup(2)>>,
         0, 0, 1, 1),
      Sc(<<<<R(1, 0)>>, <<R(2, 0)>>>>, <<1, 2>>, <<Del(2), Abort>>, <<Del(2), Commit>>, <<Vacuum>>, 0, 0, 2, 0),
      \* vectors
      Sc(<<<<R(1, 1)>>>>, <<1>>, <<Upd(1, Same, 2), End>>, <<Upd(1, 2, Same), End>>, <<Scan, Vacuum>>, 0, 0, 0, 0),
      Sc(<<<<R(1, 1)>>>>, <<1>>, <<Upd(1, 2, Same), End>>, <<Vacuum>>, <<Scan>>, 0, 0, 1, 0),
      Sc(<<<<R(1, 1)>>>>, <<1>>, <<Del(1), End, Ins(1, 1), End>>, <<Vacuum>>, <<>>, 1, 1, 1, 0) }

\* A delete in flight when the database goes down; after the reopening another
\* transaction deletes the row, vacuum clears it, and the database goes down again
MCTwice == { Sc(<<<<R(1, 0), R(2, 0)>>>>, <<1>>, <<Del(1), Abort>>, <<Del(1), Commit>>, <<Vacuum>>, 0, 0, 2, 0) }

============================================================================
