-------------------------- MODULE DeadlockDetector --------------------------
(***************************************************************************)
(* pg-txn: the deadlock detector (deadlock.rs) over the two wait surfaces, *)
(* the row locks of RowLocks and the table locks of LockManager.           *)
(*                                                                         *)
(* A transaction has one thread, so the two components share pc, and both  *)
(* read the one set of victim flags.  The detector takes no lock across    *)
(* its reads: rows, then tables, then rows and tables once more, then the  *)
(* checks, the mark and the two broadcasts of each victim are steps of     *)
(* their own, with anything in between.                                    *)
(***************************************************************************)
EXTENDS RowLocks, FindCycles

CONSTANTS Tables, Modes

VARIABLES granted, wait_queue, req, to_notify,   \* of LockManager
          tick,       \* the step of its tick that the detector takes next
          edges,      \* the snapshot being taken
          cycles,     \* the candidate cycles not yet resolved
          interrupted \* ghost: who consumed a victim flag since the tick began

L == INSTANCE LockManager

tableVars == <<granted, wait_queue, req, to_notify>>
rowOnlyVars == <<pageVars, endVars, row_wait_registry, rowreq, row_to_notify,
                 held>>
detVars == <<tick, edges, cycles>>
vars == <<rowVars, tableVars, detVars, interrupted>>

Init == /\ RowInit
        /\ L!LockInit
        /\ tick = "sleep"
        /\ edges = {}
        /\ cycles = <<>>
        /\ interrupted = {}

----------------------------------------------------------------------------
(* The two halves of wait_for_edges.                                       *)

RowEdges == {<<x, row_wait_registry[x]>> :
               x \in {y \in Xids : row_wait_registry[y] # NoXid}}

(* Mutant: whoever is ahead in the queue counts as a holder.               *)
TableEdges_queue_order ==
  UNION {{<<wait_queue[t][j].xid, h>> : j \in
            {k \in DOMAIN wait_queue[t] :
               /\ h # wait_queue[t][k].xid
               /\ \/ granted[t][h] # L!None
                  \/ \E i \in 1..k : wait_queue[t][i].xid = h}} :
         t \in Tables, h \in Xids}

TableEdges ==
  UNION {{<<wait_queue[t][i].xid, h>> : i \in
            {j \in DOMAIN wait_queue[t] :
               /\ h # wait_queue[t][j].xid
               /\ granted[t][h] # L!None
               /\ L!conflicts_with(granted[t][h], wait_queue[t][j].mode)}} :
         t \in Tables, h \in Xids}

(* tick: drop the flags of those that ended, then read the registry.       *)
tick_rows == /\ tick = "sleep"
             /\ victims' = victims \cap active
             /\ edges' = RowEdges
             /\ tick' = "tables"
             /\ interrupted' = {}
             /\ UNCHANGED <<cycles, pc, rowOnlyVars, tableVars>>

(* ... then the lock table, and search.                                    *)
tick_tables ==
  /\ tick = "tables"
  /\ cycles' = find_cycles(edges \cup TableEdges)
  /\ edges' = {}
  /\ tick' = IF cycles' = <<>> THEN "sleep" ELSE "rows_again"
  /\ UNCHANGED <<pc, victims, rowOnlyVars, tableVars>>

(* The re-verification snapshot, one for all candidates.                   *)
fresh_rows == /\ tick = "rows_again"
              /\ edges' = RowEdges
              /\ tick' = "tables_again"
              /\ UNCHANGED <<cycles, pc, victims, rowOnlyVars, tableVars>>

fresh_tables == /\ tick = "tables_again"
                /\ edges' = edges \cup TableEdges
                /\ tick' = "check"
                /\ UNCHANGED <<cycles, pc, victims, rowOnlyVars, tableVars>>

(* mark_victims, one candidate at a time: the youngest is the victim, if   *)
(* it is not marked, still active and every edge is in the fresh snapshot. *)
Victim == Max(ToSet(Head(cycles)))

(* Mutant: the victim must be the one that closes the reported path.       *)
Confirmed_last_only == /\ Victim \notin victims
                       /\ Victim = Head(cycles)[1]
                       /\ CycleEdges(Head(cycles)) \subseteq edges

Confirmed == /\ Victim \notin victims
             /\ Victim \in active
             /\ CycleEdges(Head(cycles)) \subseteq edges

check_cycle ==
  /\ tick = "check"
  /\ \/ /\ cycles = <<>>
        /\ tick' = "sleep"
        /\ edges' = {}
        /\ UNCHANGED cycles
     \/ /\ cycles # <<>> /\ ~Confirmed
        /\ cycles' = Tail(cycles)
        /\ UNCHANGED <<tick, edges>>
     \/ /\ cycles # <<>> /\ Confirmed
        /\ tick' = "mark"
        /\ UNCHANGED <<cycles, edges>>
  /\ UNCHANGED <<pc, victims, rowOnlyVars, tableVars>>

mark_victim == /\ tick = "mark"
               /\ mark(Victim) /\ L!mark(Victim)
               /\ tick' = "notify_rows"
               /\ UNCHANGED <<edges, cycles>>

(* Mutant: the row waiters are not woken.                                  *)
wake_rows_forgotten == /\ tick = "notify_rows"
                       /\ row_to_notify' = FALSE
                       /\ tick' = "notify_tables"
                       /\ UNCHANGED <<edges, cycles, pc, victims, pageVars, endVars,
                                      row_wait_registry, rowreq, held, tableVars>>

wake_rows == /\ tick = "notify_rows"
             /\ notify_row_waiters
             /\ tick' = "notify_tables"
             /\ UNCHANGED <<edges, cycles, tableVars>>

wake_tables == /\ tick = "notify_tables"
               /\ L!notify_waiters
               /\ cycles' = Tail(cycles)
               /\ tick' = "check"
               /\ UNCHANGED <<edges, rowOnlyVars>>

detector == \/ tick_rows
            \/ /\ \/ tick_tables \/ fresh_rows \/ fresh_tables
                  \/ check_cycle \/ mark_victim \/ wake_rows \/ wake_tables
               /\ UNCHANGED interrupted

----------------------------------------------------------------------------
(* The transactions.  Locks are asked for while active; the table locks    *)
(* go after end_txn has returned.                                          *)

(* A flag that goes while its owner stays active has been consumed.        *)
NoteInterrupt(x) ==
  interrupted' = IF x \in victims \ victims' THEN interrupted \cup {x}
                 ELSE interrupted

row_call(x) == /\ \E r \in Rows, q \in Requests : lock_row(x, r, q)
               /\ UNCHANGED <<tableVars, detVars, interrupted>>

row_step(x) == /\ \/ restart(x) \/ extended(x) \/ extended_too_late(x)
                  \/ gate_is_active(x) \/ wait_for(x)
                  \/ end_remove(x) \/ end_notify(x)
               /\ NoteInterrupt(x)
               /\ UNCHANGED <<tableVars, detVars>>

end_txn(x) == end_flip(x) /\ UNCHANGED <<tableVars, detVars, interrupted>>

table_call(x) == /\ x \in active
                 /\ \E t \in Tables, m \in Modes : L!acquire(x, t, m)
                 /\ NoteInterrupt(x)
                 /\ UNCHANGED <<rowOnlyVars, detVars>>

table_step(x) == /\ \/ L!acquire_again(x)
                    \/ x \notin active /\ L!release_all(x)
                 /\ NoteInterrupt(x)
                 /\ UNCHANGED <<rowOnlyVars, detVars>>

Next == \/ detector
        \/ \E x \in Xids : \/ row_call(x) \/ row_step(x) \/ end_txn(x)
                           \/ table_call(x) \/ table_step(x)

(* update's second pass over the gate, with the room it found still there. *)
row_extended(x) == row_step(x) /\ extended(x)

(* A thread that can run does, and the detector thread ticks; a client     *)
(* that keeps getting answers ends its transaction some time; and the room *)
(* that an update finds on another page is not taken every time (update    *)
(* asserts that its restart loop converges).                               *)
Fairness == /\ WF_vars(detector)
            /\ \A x \in Xids : /\ WF_vars(row_step(x))
                               /\ WF_vars(table_step(x))
                               /\ SF_vars(row_extended(x))
                               /\ SF_vars(end_txn(x))

Spec == Init /\ [][Next]_vars /\ Fairness

----------------------------------------------------------------------------
(* Properties.                                                             *)

WaitPc == {"ready", "asleep", "row_wait", "row_asleep", "row_restart"}

(* A victim asleep on either surface has a broadcast coming, although the  *)
(* mark, the two broadcasts and the victim's own flag check and sleep      *)
(* interleave freely: the detector never marks a transaction that then     *)
(* sleeps on.                                                              *)
VictimIsWoken ==
  \A x \in victims : /\ pc[x] = "row_asleep" => row_to_notify
                     /\ pc[x] = "asleep" => to_notify

(* What x really waits for: y has it and x is inside the call.             *)
WaitsFor(x, y) ==
  \/ pc[x] \in {"row_wait", "row_asleep"} /\ row_wait_registry[x] = y
  \/ /\ pc[x] \in {"ready", "asleep"} /\ y # x
     /\ granted[req[x].table][y] # L!None
     /\ L!conflicts_with(granted[req[x].table][y], req[x].mode)

(* The graph that tick is about to search, which may never have existed.   *)
Searched == edges \cup TableEdges

(* A path leads from n to m: whatever holds the successors of n and is     *)
(* closed under successors holds m.                                        *)
Reaches(n, m) ==
  \A S \in SUBSET Xids :
     (\A e \in Searched : e[1] \in S \cup {n} => e[2] \in S) => m \in S

(* find_cycles reports elementary cycles of the graph only, for any other  *)
(* report would abort a transaction that is not deadlocked; and every knot *)
(* of transactions that all wait for each other holds one that it reports, *)
(* so that a tick always has a victim in it, although black nodes are      *)
(* never explored twice and not every cycle is reported.                   *)
KnotsAreReported ==
  tick = "tables" =>
    LET found == ToSet(find_cycles(Searched))
    IN /\ \A c \in found : IsInjective(c) /\ CycleEdges(c) \subseteq Searched
       /\ \A n \in Xids : Reaches(n, n) =>
            \E c \in found : Reaches(n, c[1]) /\ Reaches(c[1], n)

(* The detector finds what there is to find, and wakes whom it marks.      *)
DetectorSound == VictimIsWoken /\ KnotsAreReported

(* Nobody is marked for a cycle that never was: at the moment of the mark  *)
(* every member waits for the next, for all that the cycle was put         *)
(* together from four reads at four instants, unless one of them has       *)
(* meanwhile been interrupted as a victim.                                 *)
MarkIsDeadlock ==
  victims' \ victims # {} =>
     \/ \A e \in CycleEdges(Head(cycles)) : WaitsFor(e[1], e[2])
     \/ ToSet(Head(cycles)) \cap interrupted # {}

MarksAreDeadlocks == [][MarkIsDeadlock]_vars

(* No transaction waits forever, on a row or on a table: either what it    *)
(* waits for ends, or its cycle gets a victim.                             *)
NobodyWaitsForever ==
  \A x \in Xids : pc[x] \in WaitPc ~> pc[x] \notin WaitPc

(* A flag of a transaction that has ended goes away, so that the set of    *)
(* flags stays bounded, also when the mark came after end_txn cleared it.  *)
FlagsArePruned ==
  \A x \in Xids : x \in victims /\ x \notin active ~> x \notin victims

(* Either way the detector's bookkeeping lets everybody on.                *)
WaitsEnd == NobodyWaitsForever /\ FlagsArePruned
=============================================================================
