----------------------------- MODULE FindCycles -----------------------------
(***************************************************************************)
(* pg-txn: find_cycles (deadlock.rs), the depth-first search over the      *)
(* wait-for graph.  A graph is a set of edges <<waiter, holder>>; a cycle  *)
(* is reported as the slice of the path that a back edge closes.           *)
(***************************************************************************)
EXTENDS Integers, Sequences, SequencesExt, FiniteSets, FiniteSetsExt

Ascending(S) == SetToSortSeq(S, <)

Successors(edges, n) == {e[2] : e \in {f \in edges : f[1] = n}}

PositionIn(path, n) == CHOOSE i \in DOMAIN path : path[i] = n

(* The colours: gray is the path being explored, black what is done.       *)
Black(path, s) == s.black

(* The cycle that an edge from the end of the path back to n closes.       *)
Closed(path, n) == SubSeq(path, PositionIn(path, n), Len(path))

(* Explore the last node of the path, its successors in XID order: black   *)
(* is skipped, gray closes a cycle, white is explored.                     *)
RECURSIVE Visit(_, _, _)
Visit(edges, path, s) ==
  LET VisitChild(acc, n) ==
        IF n \in Black(path, acc) THEN acc
        ELSE IF n \in ToSet(path)
             THEN [acc EXCEPT !.cycles = Append(@, Closed(path, n))]
             ELSE Visit(edges, Append(path, n), acc)
      done == FoldLeft(VisitChild, s, Ascending(Successors(edges, Last(path))))
  IN [done EXCEPT !.black = @ \cup {Last(path)}]

find_cycles(edges) ==
  FoldLeft(LAMBDA s, n : IF n \in s.black THEN s ELSE Visit(edges, <<n>>, s),
           [black |-> {}, cycles |-> <<>>],
           Ascending({e[1] : e \in edges})).cycles

CycleEdges(c) == {<<c[i], c[(i % Len(c)) + 1]>> : i \in DOMAIN c}
=============================================================================
