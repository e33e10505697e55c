---------------------------- MODULE TxnManager ----------------------------
(***************************************************************************)
(* pg-txn: the transaction manager, its snapshots, the visibility rule and *)
(* the vacuum horizon.                                                     *)
(*                                                                         *)
(* Every critical section of `TxnShared` (begin_txn, snapshot, the guard's *)
(* drop, the removal in end_txn, oldest_snapshot_xmin) is one action, and  *)
(* the four steps of the commit "hard order" are four actions, so they     *)
(* interleave with every other thread as the code lets them.  The WAL is   *)
(* reduced to what commit_txn can observe of it: an append or a flush      *)
(* succeeds, or it fails and the writer stays poisoned (module WalWriter   *)
(* has the details).                                                       *)
(***************************************************************************)
EXTENDS Integers, FiniteSets, FiniteSetsExt

CONSTANTS MaxXid,   \* bound on the XIDs the clock hands out
          MaxCid,   \* bound on a snapshot's command counter
          Guards    \* SnapshotGuard values that may be live at the same time

ASSUME ConstAssumption == /\ MaxXid \in Nat \ {0}
                          /\ MaxCid \in Nat
                          /\ IsFiniteSet(Guards)

INVALID == 0
Xids == 1..MaxXid
ClockValues == 1..(MaxXid + 1)
TxnState == {"InProgress", "Committed", "Aborted"}

VARIABLES
  txn_id_clock,     \* TxnIdClock: the XID the next alloc() returns
  active,           \* TxnShared.active
  snapshot_xmins,   \* TxnShared.snapshot_xmins (0 = key absent)
  live,             \* guards not dropped yet
  snap,             \* the Snapshot handed out with each guard
  clog,             \* the commit log as get_state reads it
  phase,            \* how far each transaction is in commit_txn / abort_txn
  outcome,          \* the terminal state commit_txn / abort_txn will record
  wal_ok,           \* the WAL writer is not poisoned
  horizon           \* the horizon a running vacuum sampled (INVALID: none)

vars == <<txn_id_clock, active, snapshot_xmins, live, snap, clog, phase,
          outcome, wal_ok, horizon>>

Phase == {"unborn", "running", "logged", "durable", "flipped", "ended",
          "failed"}

Snapshot == [xmin : ClockValues, xmax : ClockValues, xip : SUBSET Xids,
             current_xid : Xids \cup {INVALID}, curcid : 0..MaxCid]

NoSnapshot == [xmin |-> 1, xmax |-> 1, xip |-> {}, current_xid |-> INVALID,
               curcid |-> 0]

(***************************************************************************)
(* The one type invariant: what the Rust types give, and that snapshots    *)
(* and registry keys only ever hold XIDs the clock has reached.            *)
(***************************************************************************)
TypeOK == /\ txn_id_clock \in ClockValues
          /\ active \subseteq Xids
          /\ snapshot_xmins \in [ClockValues -> Nat]
          /\ live \subseteq Guards
          /\ snap \in [Guards -> Snapshot]
          /\ clog \in [Xids -> TxnState]
          /\ phase \in [Xids -> Phase]
          /\ outcome \in [Xids -> {"Committed", "Aborted"}]
          /\ wal_ok \in BOOLEAN
          /\ horizon \in ClockValues \cup {INVALID}

Init == /\ txn_id_clock = 1
        /\ active = {}
        /\ snapshot_xmins = [k \in ClockValues |-> 0]
        /\ live = {}
        /\ snap = [g \in Guards |-> NoSnapshot]
        /\ clog = [x \in Xids |-> "InProgress"]
        /\ phase = [x \in Xids |-> "unborn"]
        /\ outcome = [x \in Xids |-> "Aborted"]
        /\ wal_ok = TRUE
        /\ horizon = INVALID

----------------------------------------------------------------------------
(* begin_txn: alloc and insert under one lock.                             *)

begin_txn ==
  /\ txn_id_clock <= MaxXid
  /\ txn_id_clock' = txn_id_clock + 1
  /\ active' = active \cup {txn_id_clock}
  /\ phase' = [phase EXCEPT ![txn_id_clock] = "running"]
  /\ UNCHANGED <<snapshot_xmins, live, snap, clog, outcome, wal_ok, horizon>>

(* snapshot: active set, clock and registration under one lock.            *)

XminOf == IF active = {} THEN txn_id_clock ELSE Min(active)

snapshot(g, xid) ==
  /\ g \notin live
  /\ xid # INVALID => phase[xid] = "running"
  /\ snap' = [snap EXCEPT ![g] = [xmin |-> XminOf, xmax |-> txn_id_clock,
                                  xip |-> active, current_xid |-> xid,
                                  curcid |-> 0]]
  /\ snapshot_xmins' = [snapshot_xmins EXCEPT ![XminOf] = @ + 1]
  /\ live' = live \cup {g}
  /\ UNCHANGED <<txn_id_clock, active, clog, phase, outcome, wal_ok, horizon>>

(* Snapshot::advance_curcid, before each statement.                        *)

advance_curcid(g) ==
  /\ g \in live
  /\ snap[g].curcid < MaxCid
  /\ snap' = [snap EXCEPT ![g].curcid = @ + 1]
  /\ UNCHANGED <<txn_id_clock, active, snapshot_xmins, live, clog, phase,
                 outcome, wal_ok, horizon>>

(* Drop of a SnapshotGuard.                                                *)

drop_guard(g) ==
  /\ g \in live
  /\ live' = live \ {g}
  /\ snapshot_xmins' =
       [snapshot_xmins EXCEPT ![snap[g].xmin] = IF @ > 0 THEN @ - 1 ELSE @]
  /\ snap' = [snap EXCEPT ![g] = NoSnapshot]
  /\ UNCHANGED <<txn_id_clock, active, clog, phase, outcome, wal_ok, horizon>>

----------------------------------------------------------------------------
(* commit_txn / abort_txn: the hard order, one action per step.            *)

(* Step 1: append TxnCommit (s = "Committed") or TxnAbort.                 *)
append_end_record(x, s) ==
  /\ phase[x] = "running"
  /\ wal_ok
  /\ phase' = [phase EXCEPT ![x] = "logged"]
  /\ outcome' = [outcome EXCEPT ![x] = s]
  /\ UNCHANGED <<txn_id_clock, active, snapshot_xmins, live, snap, clog,
                 wal_ok, horizon>>

(* Step 2: flush_to(record end) returned Ok.                               *)
flush_end_record(x) ==
  /\ phase[x] = "logged"
  /\ wal_ok
  /\ phase' = [phase EXCEPT ![x] = "durable"]
  /\ UNCHANGED <<txn_id_clock, active, snapshot_xmins, live, snap, clog,
                 outcome, wal_ok, horizon>>

(* The writer is poisoned by a failed write or fsync and never recovers.   *)
poison_wal ==
  /\ wal_ok
  /\ wal_ok' = FALSE
  /\ UNCHANGED <<txn_id_clock, active, snapshot_xmins, live, snap, clog,
                 phase, outcome, horizon>>

(* append or flush_to returned Err: the XID stays active, the CLOG bit is  *)
(* not flipped, and the engine's fallback abort_txn fails the same way.    *)
end_txn_error(x) ==
  /\ phase[x] \in {"running", "logged"}
  /\ ~wal_ok
  /\ phase' = [phase EXCEPT ![x] = "failed"]
  /\ UNCHANGED <<txn_id_clock, active, snapshot_xmins, live, snap, clog,
                 outcome, wal_ok, horizon>>

(* Step 3, end_txn: clog.set_state.                                        *)
set_state(x) ==
  /\ phase[x] = "durable"
  /\ clog' = [clog EXCEPT ![x] = outcome[x]]
  /\ phase' = [phase EXCEPT ![x] = "flipped"]
  /\ UNCHANGED <<txn_id_clock, active, snapshot_xmins, live, snap, outcome,
                 wal_ok, horizon>>

(* Mutant: the XID may leave the active set before its CLOG bit flips.     *)
remove_active_early(x) ==
  /\ phase[x] \in {"durable", "flipped"}
  /\ active' = active \ {x}
  /\ phase' = [phase EXCEPT ![x] = IF @ = "flipped" THEN "ended" ELSE @]
  /\ UNCHANGED <<txn_id_clock, snapshot_xmins, live, snap, clog, outcome,
                 wal_ok, horizon>>

(* Step 4, end_txn: leave the active set.                                  *)
remove_active(x) ==
  /\ phase[x] = "flipped"
  /\ active' = active \ {x}
  /\ phase' = [phase EXCEPT ![x] = "ended"]
  /\ UNCHANGED <<txn_id_clock, snapshot_xmins, live, snap, clog, outcome,
                 wal_ok, horizon>>

----------------------------------------------------------------------------
(* Vacuum: sample the horizon once, use it for the whole pass.             *)

(* Mutant: no registered snapshot, so the horizon is the clock itself.     *)
oldest_snapshot_xmin_clock ==
  LET keys == {k \in ClockValues : snapshot_xmins[k] > 0}
  IN IF keys # {} THEN Min(keys) ELSE txn_id_clock

oldest_snapshot_xmin ==
  LET keys == {k \in ClockValues : snapshot_xmins[k] > 0}
  IN IF keys # {} THEN Min(keys) ELSE XminOf

vacuum_start == /\ horizon = INVALID
                /\ horizon' = oldest_snapshot_xmin
                /\ UNCHANGED <<txn_id_clock, active, snapshot_xmins, live,
                               snap, clog, phase, outcome, wal_ok>>

vacuum_end == /\ horizon # INVALID
              /\ horizon' = INVALID
              /\ UNCHANGED <<txn_id_clock, active, snapshot_xmins, live,
                             snap, clog, phase, outcome, wal_ok>>

Next == \/ begin_txn
        \/ \E g \in Guards : \/ \E x \in Xids \cup {INVALID} : snapshot(g, x)
                             \/ advance_curcid(g)
                             \/ drop_guard(g)
        \/ \E x \in Xids : \/ \E s \in {"Committed", "Aborted"} :
                                 append_end_record(x, s)
                           \/ flush_end_record(x)
                           \/ end_txn_error(x)
                           \/ set_state(x)
                           \/ remove_active(x)
        \/ poison_wal
        \/ vacuum_start
        \/ vacuum_end

Spec == Init /\ [][Next]_vars

----------------------------------------------------------------------------
(* The visibility rule and vacuum's verdict, on the header fields of a     *)
(* tuple version.                                                          *)

(* Mutant: the CLOG alone decides, xip is not consulted.                   *)
sees_without_xip(s, x) == x < s.xmax /\ clog[x] = "Committed"

(* What a foreign XID contributes to a judgment: it is seen iff its commit *)
(* precedes the snapshot.                                                  *)
sees(s, x) == /\ x < s.xmax
              /\ x \notin s.xip
              /\ clog[x] = "Committed"

is_visible(t_xmin, t_xmax, t_cid, s) ==
  /\ \/ t_xmin = s.current_xid /\ t_cid < s.curcid
     \/ t_xmin # s.current_xid /\ sees(s, t_xmin)
  /\ \/ t_xmax = INVALID
     \/ t_xmax # INVALID /\ t_xmax = s.current_xid /\ t_cid >= s.curcid
     \/ t_xmax # INVALID /\ t_xmax # s.current_xid /\ ~sees(s, t_xmax)

(* Mutant: a deleter at the horizon itself counts as below it.             *)
is_dead_inclusive(t_xmin, t_xmax, oldest_xmin) ==
  \/ clog[t_xmin] = "Aborted"
  \/ /\ t_xmax # INVALID
     /\ t_xmax <= oldest_xmin
     /\ clog[t_xmax] = "Committed"

is_dead(t_xmin, t_xmax, oldest_xmin) ==
  \/ clog[t_xmin] = "Aborted"
  \/ /\ t_xmax # INVALID
     /\ t_xmax < oldest_xmin
     /\ clog[t_xmax] = "Committed"

(* A snapshot is read with while its transaction runs (TxnHandle is        *)
(* consumed by commit and abort) or, with no transaction, while it lives.  *)
readable(g) == /\ g \in live
               /\ \/ snap[g].current_xid = INVALID
                  \/ phase[snap[g].current_xid] = "running"

----------------------------------------------------------------------------
(* Properties.                                                             *)

(* Vacuum never judges dead a tuple version that some reader can still     *)
(* see, whatever was begun, committed or registered since it sampled its   *)
(* horizon (Engine::vacuum samples once and uses it for the whole pass).   *)
VacuumSafe ==
  horizon # INVALID =>
    \A g \in Guards : readable(g) =>
      \A t_xmin \in Xids, t_xmax \in Xids \cup {INVALID}, t_cid \in 0..MaxCid :
         is_dead(t_xmin, t_xmax, horizon)
            => ~is_visible(t_xmin, t_xmax, t_cid, snap[g])

(* Any XID below a snapshot's xmax is either in its xip or already has its *)
(* terminal CLOG state (the doc of begin_txn): no later commit can appear  *)
(* inside the snapshot.                                                    *)
SnapshotClosed ==
  \A g \in live : \A x \in Xids :
     x < snap[g].xmax /\ x \notin snap[g].xip => clog[x] # "InProgress"

(* The registry is exact: each key counts the live guards taken at that    *)
(* xmin (live_registered_snapshots "cross-checks this"), so the last drop  *)
(* releases the horizon and no drop releases somebody else's.              *)
RegistryExact ==
  \A k \in ClockValues :
     snapshot_xmins[k] = Cardinality({g \in live : snap[g].xmin = k})

(* What a snapshot says of the past is settled, and what the registry says *)
(* of the live snapshots is true, after any interleaving of begins, of the *)
(* steps of commits and aborts, and of guards taken and dropped.           *)
SnapshotsSound == TypeOK /\ SnapshotClosed /\ RegistryExact

(* The value oldest_snapshot_xmin returns never moves backwards: "XID      *)
(* monotonicity keeps every FUTURE snapshot's xmin >= this horizon".       *)
HorizonMonotone == [][oldest_snapshot_xmin' >= oldest_snapshot_xmin]_vars

(* Snapshot isolation: with the CLOG bit flipped before the XID leaves the *)
(* active set, and xip consulted before the CLOG, a snapshot sees exactly  *)
(* the commits that were complete when it was taken, until it is dropped.  *)
SI == INSTANCE SnapshotIsolation WITH
        committed <- {x \in Xids : clog[x] = "Committed" /\ x \notin active},
        held <- live,
        view <- [g \in Guards |->
                   IF g \in live THEN {x \in Xids : sees(snap[g], x)} ELSE {}]

ImplementsSI == SI!Spec
=============================================================================
