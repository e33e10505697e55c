------------------------- MODULE TxnManagerProofs -------------------------
(***************************************************************************)
(* Proofs about TxnManager, for any number of transactions and guards.     *)
(***************************************************************************)
EXTENDS TxnManager, WellFoundedInduction, FiniteSetTheorems, TLAPS

(***************************************************************************)
(* The inductive invariant.  PhaseInv ties the active set, the clock and   *)
(* the CLOG to where each transaction is in the hard order; SnapInv says   *)
(* what a live snapshot excludes; HorizonInv is the claim of               *)
(* oldest_snapshot_xmin made independent of the moment it was sampled.     *)
(***************************************************************************)
PhaseInv ==
  /\ \A x \in Xids : x \in active <=> phase[x] \notin {"unborn", "ended"}
  /\ \A x \in Xids : phase[x] = "unborn" <=> x >= txn_id_clock
  /\ \A x \in Xids : clog[x] = IF phase[x] \in {"flipped", "ended"}
                               THEN outcome[x] ELSE "InProgress"

SnapInv ==
  \A g \in live :
    /\ snap[g].xmin <= snap[g].xmax
    /\ snap[g].xmax <= txn_id_clock
    /\ \A x \in snap[g].xip : snap[g].xmin <= x
    /\ \A x \in Xids : x < snap[g].xmax /\ x \notin snap[g].xip
                          => phase[x] = "ended"

HorizonInv ==
  horizon # INVALID => /\ horizon <= txn_id_clock
                       /\ \A x \in active : horizon <= x
                       /\ \A g \in live : horizon <= snap[g].xmin

IInv == TypeOK /\ PhaseInv /\ SnapInv /\ RegistryExact /\ HorizonInv

(* A non-empty set of naturals has a least element, which Min names.       *)
LEMMA MinNat ==
  ASSUME NEW S \in SUBSET Nat, S # {}
  PROVE  Min(S) \in S /\ \A y \in S : Min(S) <= y
<1> DEFINE R == {p \in Nat \X Nat : p[1] < p[2]}
<1>1. IsWellFoundedOn(R, Nat)
  BY NatLessThanWellFounded, Zenon DEF OpToRel
<1> HIDE DEF R
<1>2. PICK m \in S : \A y \in S : ~ (<<y, m>> \in R)
  BY <1>1, WFMin, Zenon
<1>3. \A y \in S : m <= y
  <2>1. SUFFICES ASSUME NEW y \in S, y < m PROVE FALSE
    OBVIOUS
  <2>2. <<y, m>> \in R
    BY <2>1 DEF R
  <2> QED
    BY <1>2, <2>2, Zenon
<1> QED
  BY <1>3, Zenon DEF Min

(* The xmin a snapshot would get now is at most the clock and at most every*)
(* active XID, and is one of them.                                         *)
LEMMA XminFacts ==
  ASSUME TypeOK, PhaseInv
  PROVE  /\ XminOf \in ClockValues
         /\ XminOf <= txn_id_clock
         /\ \A x \in active : XminOf <= x
         /\ XminOf = txn_id_clock \/ XminOf \in active
<1>1. \A x \in active : x \in Xids /\ x < txn_id_clock
  BY ConstAssumption DEF TypeOK, PhaseInv, Xids, ClockValues
<1>2. CASE active = {}
  BY <1>2, ConstAssumption DEF XminOf, TypeOK, ClockValues
<1>3. CASE active # {}
  <2>1. active \in SUBSET Nat
    BY <1>1, ConstAssumption DEF Xids
  <2>2. Min(active) \in active /\ \A y \in active : Min(active) <= y
    BY <1>3, <2>1, MinNat
  <2>3. XminOf = Min(active)
    BY <1>3 DEF XminOf
  <2>4. Min(active) \in Xids /\ Min(active) < txn_id_clock
    BY <1>1, <2>2
  <2> QED
    BY <2>2, <2>3, <2>4, ConstAssumption DEF Xids, ClockValues, TypeOK
<1> QED
  BY <1>2, <1>3

(* A live snapshot's xmin is at most every active XID.                     *)
LEMMA LiveXmin ==
  ASSUME TypeOK, PhaseInv, SnapInv, NEW g \in live
  PROVE  /\ snap[g].xmin \in ClockValues
         /\ snap[g].xmin <= txn_id_clock
         /\ \A x \in active : snap[g].xmin <= x
<1>1. g \in Guards /\ snap[g] \in Snapshot
  BY DEF TypeOK
<1>2. snap[g].xmin \in Nat /\ snap[g].xmax \in Nat /\ txn_id_clock \in Nat
  BY <1>1, ConstAssumption DEF TypeOK, Snapshot, ClockValues
<1>3. ASSUME NEW x \in active PROVE snap[g].xmin <= x
  <2>1. x \in Xids /\ x \in Nat /\ phase[x] # "ended"
    BY ConstAssumption DEF TypeOK, PhaseInv, Xids
  <2>2. x \in snap[g].xip \/ x >= snap[g].xmax
    BY <2>1, <1>2 DEF SnapInv
  <2> QED
    BY <1>2, <2>1, <2>2 DEF SnapInv
<1> QED
  BY <1>1, <1>2, <1>3 DEF SnapInv, Snapshot

(* The keys of the registry are the xmins of the live snapshots.           *)
LEMMA RegistryKeys ==
  ASSUME TypeOK, RegistryExact, NEW k \in ClockValues
  PROVE  snapshot_xmins[k] > 0 <=> \E g \in live : snap[g].xmin = k
<1> DEFINE S == {g \in live : snap[g].xmin = k}
<1>1. IsFiniteSet(S)
  BY FS_Subset, ConstAssumption DEF TypeOK
<1>2. Cardinality(S) \in Nat /\ (Cardinality(S) = 0 <=> S = {})
  BY <1>1, FS_CardinalityType, FS_EmptySet
<1>3. snapshot_xmins[k] = Cardinality(S)
  BY DEF RegistryExact
<1> QED
  BY <1>2, <1>3

(* What oldest_snapshot_xmin returns: a lower bound of the clock, of the   *)
(* active set and of every live snapshot's xmin, and itself one of them.   *)
LEMMA OldestFacts ==
  ASSUME TypeOK, PhaseInv, SnapInv, RegistryExact
  PROVE  /\ oldest_snapshot_xmin \in ClockValues
         /\ oldest_snapshot_xmin <= txn_id_clock
         /\ \A x \in active : oldest_snapshot_xmin <= x
         /\ \A g \in live : oldest_snapshot_xmin <= snap[g].xmin
         /\ \/ oldest_snapshot_xmin = txn_id_clock
            \/ oldest_snapshot_xmin \in active
            \/ \E g \in live : oldest_snapshot_xmin = snap[g].xmin
<1> DEFINE keys == {k \in ClockValues : snapshot_xmins[k] > 0}
<1>1. \A k \in ClockValues : k \in keys <=> \E g \in live : snap[g].xmin = k
  BY RegistryKeys
<1>2. CASE keys = {}
  <2>1. live = {}
    BY <1>1, <1>2, LiveXmin
  <2>2. oldest_snapshot_xmin = XminOf
    BY <1>2 DEF oldest_snapshot_xmin
  <2> QED
    BY <2>1, <2>2, XminFacts
<1>3. CASE keys # {}
  <2>1. keys \in SUBSET Nat
    BY ConstAssumption DEF ClockValues
  <2>2. Min(keys) \in keys /\ \A y \in keys : Min(keys) <= y
    BY <1>3, <2>1, MinNat
  <2>3. oldest_snapshot_xmin = Min(keys)
    BY <1>3 DEF oldest_snapshot_xmin
  <2>4. PICK g \in live : snap[g].xmin = Min(keys)
    BY <1>1, <2>2
  <2>5. \A h \in live : Min(keys) <= snap[h].xmin
    BY <1>1, <2>2, LiveXmin
  <2> QED
    BY <2>2, <2>3, <2>4, <2>5, LiveXmin
<1> QED
  BY <1>2, <1>3

----------------------------------------------------------------------------
(* The manager starts without transactions, guards or a horizon.           *)
LEMMA InitIInv == Init => IInv
<1> SUFFICES ASSUME Init PROVE IInv
  OBVIOUS
<1>1. TypeOK
  <2>1. NoSnapshot \in Snapshot
    BY ConstAssumption DEF NoSnapshot, Snapshot, ClockValues
  <2> QED
    BY <2>1, ConstAssumption
    DEF Init, TypeOK, ClockValues, Phase, TxnState
<1>2. PhaseInv
  BY ConstAssumption DEF Init, PhaseInv, Xids
<1>3. SnapInv /\ HorizonInv
  BY DEF Init, SnapInv, HorizonInv
<1>4. RegistryExact
  <2>1. \A k \in ClockValues : {g \in live : snap[g].xmin = k} = {}
    BY DEF Init
  <2> QED
    BY <2>1, FS_EmptySet DEF Init, RegistryExact
<1> QED
  BY <1>1, <1>2, <1>3, <1>4 DEF IInv

(* Taking a snapshot registers one more guard at its xmin and no other.    *)
LEMMA RegistryAfterSnapshot ==
  ASSUME TypeOK, PhaseInv, RegistryExact,
         NEW h \in Guards, NEW x \in Xids \cup {INVALID}, snapshot(h, x)
  PROVE  RegistryExact'
<1> SUFFICES ASSUME NEW k \in ClockValues
             PROVE  snapshot_xmins'[k] =
                      Cardinality({g \in live' : snap'[g].xmin = k})
  BY DEF RegistryExact
<1> DEFINE S == {g \in live : snap[g].xmin = k}
           T == {g \in live' : snap'[g].xmin = k}
<1>1. IsFiniteSet(S) /\ h \notin S
  BY FS_Subset, ConstAssumption DEF TypeOK, snapshot
<1>2. snapshot_xmins[k] = Cardinality(S)
  BY DEF RegistryExact
<1>3. XminOf \in ClockValues
  BY XminFacts
<1>4. CASE k = XminOf
  <2>1. T = S \cup {h}
    BY <1>4 DEF snapshot, TypeOK
  <2>2. snapshot_xmins'[k] = snapshot_xmins[k] + 1
    BY <1>3, <1>4 DEF snapshot, TypeOK
  <2> QED
    BY <1>1, <1>2, <2>1, <2>2, FS_AddElement
<1>5. CASE k # XminOf
  <2>1. T = S
    BY <1>5 DEF snapshot, TypeOK
  <2>2. snapshot_xmins'[k] = snapshot_xmins[k]
    BY <1>5 DEF snapshot, TypeOK
  <2> QED
    BY <1>2, <2>1, <2>2
<1> QED
  BY <1>4, <1>5

(* Dropping a guard takes exactly its own registration away.               *)
LEMMA RegistryAfterDrop ==
  ASSUME TypeOK, RegistryExact, NEW h \in Guards, drop_guard(h)
  PROVE  RegistryExact'
<1> SUFFICES ASSUME NEW k \in ClockValues
             PROVE  snapshot_xmins'[k] =
                      Cardinality({g \in live' : snap'[g].xmin = k})
  BY DEF RegistryExact
<1> DEFINE S == {g \in live : snap[g].xmin = k}
           T == {g \in live' : snap'[g].xmin = k}
<1>1. IsFiniteSet(S)
  BY FS_Subset, ConstAssumption DEF TypeOK
<1>2. snapshot_xmins[k] = Cardinality(S)
  BY DEF RegistryExact
<1>3. T = S \ {h}
  BY DEF drop_guard, TypeOK
<1>4. snap[h].xmin \in ClockValues /\ h \in live
  BY DEF drop_guard, TypeOK, Snapshot
<1>5. CASE k = snap[h].xmin
  <2>1. h \in S
    BY <1>4, <1>5
  <2>2. snapshot_xmins[k] > 0
    BY <1>4, <1>5, RegistryKeys
  <2>3. snapshot_xmins'[k] = snapshot_xmins[k] - 1
    BY <1>5, <2>2 DEF drop_guard, TypeOK
  <2> QED
    BY <1>1, <1>2, <1>3, <2>1, <2>3, FS_RemoveElement
<1>6. CASE k # snap[h].xmin
  <2>1. h \notin S
    BY <1>6
  <2>2. snapshot_xmins'[k] = snapshot_xmins[k]
    BY <1>6 DEF drop_guard, TypeOK
  <2> QED
    BY <1>2, <1>3, <2>1, <2>2
<1> QED
  BY <1>5, <1>6

(* Every step preserves the inductive invariant, one case per action.      *)
LEMMA NextIInv == IInv /\ [Next]_vars => IInv'
<1> SUFFICES ASSUME IInv, [Next]_vars PROVE IInv'
  OBVIOUS
<1> USE ConstAssumption
<1>1. CASE begin_txn
  <2>1. txn_id_clock \in Xids /\ txn_id_clock \in Nat
    BY <1>1 DEF begin_txn, IInv, TypeOK, ClockValues, Xids
  <2>2. TypeOK'
    BY <1>1, <2>1 DEF begin_txn, IInv, TypeOK, ClockValues, Xids, Phase
  <2>3. PhaseInv'
    BY <1>1, <2>1 DEF begin_txn, IInv, TypeOK, PhaseInv, ClockValues, Xids
  <2>4. SnapInv'
    <3> SUFFICES ASSUME NEW g \in live
                 PROVE /\ snap[g].xmin <= snap[g].xmax
                       /\ snap[g].xmax <= txn_id_clock + 1
                       /\ \A x \in snap[g].xip : snap[g].xmin <= x
                       /\ \A x \in Xids :
                            x < snap[g].xmax /\ x \notin snap[g].xip
                              => phase'[x] = "ended"
      BY <1>1 DEF begin_txn, SnapInv
    <3>1. snap[g].xmax \in Nat
      BY DEF IInv, TypeOK, Snapshot, ClockValues
    <3> QED
      BY <1>1, <2>1, <3>1 DEF begin_txn, IInv, SnapInv, TypeOK, Xids
  <2>5. RegistryExact'
    BY <1>1 DEF begin_txn, IInv, RegistryExact
  <2>6. HorizonInv'
    BY <1>1, <2>1 DEF begin_txn, IInv, TypeOK, HorizonInv, ClockValues, INVALID
  <2> QED
    BY <2>2, <2>3, <2>4, <2>5, <2>6 DEF IInv
<1>2. ASSUME NEW h \in Guards, NEW y \in Xids \cup {INVALID}, snapshot(h, y)
      PROVE  IInv'
  <2> DEFINE s == [xmin |-> XminOf, xmax |-> txn_id_clock, xip |-> active,
                   current_xid |-> y, curcid |-> 0]
  <2>1. /\ XminOf \in ClockValues
        /\ XminOf <= txn_id_clock
        /\ \A x \in active : XminOf <= x
        /\ XminOf = txn_id_clock \/ XminOf \in active
    BY XminFacts DEF IInv
  <2>2. snap' = [snap EXCEPT ![h] = s]
    BY <1>2 DEF snapshot
  <2>3. s \in Snapshot
    BY <2>1 DEF IInv, TypeOK, Snapshot
  <2>4. TypeOK'
    BY <1>2, <2>1, <2>2, <2>3 DEF snapshot, IInv, TypeOK
  <2>5. PhaseInv'
    BY <1>2 DEF snapshot, IInv, PhaseInv
  <2>6. SnapInv'
    <3> SUFFICES ASSUME NEW g \in live'
                 PROVE /\ snap'[g].xmin <= snap'[g].xmax
                       /\ snap'[g].xmax <= txn_id_clock
                       /\ \A x \in snap'[g].xip : snap'[g].xmin <= x
                       /\ \A x \in Xids :
                            x < snap'[g].xmax /\ x \notin snap'[g].xip
                              => phase[x] = "ended"
      BY <1>2 DEF snapshot, SnapInv
    <3>1. CASE g = h
      <4>1. snap'[g] = s
        BY <2>2, <3>1 DEF IInv, TypeOK
      <4>2. \A x \in Xids : x < txn_id_clock /\ x \notin active
                               => phase[x] = "ended"
        BY DEF IInv, TypeOK, PhaseInv, Xids, ClockValues
      <4>3. txn_id_clock \in Nat
        BY DEF IInv, TypeOK, ClockValues
      <4> QED
        BY <2>1, <4>1, <4>2, <4>3
    <3>2. CASE g # h
      BY <1>2, <3>2 DEF snapshot, IInv, SnapInv, TypeOK
    <3> QED
      BY <3>1, <3>2
  <2>7. RegistryExact'
    BY <1>2, RegistryAfterSnapshot DEF IInv
  <2>8. HorizonInv'
    BY <1>2, <2>1, <2>2 DEF snapshot, IInv, TypeOK, HorizonInv
  <2> QED
    BY <2>4, <2>5, <2>6, <2>7, <2>8 DEF IInv
<1>3. ASSUME NEW h \in Guards, advance_curcid(h)
      PROVE  IInv'
  <2>1. /\ snap' \in [Guards -> Snapshot]
        /\ \A g \in Guards : /\ snap'[g].xmin = snap[g].xmin
                             /\ snap'[g].xmax = snap[g].xmax
                             /\ snap'[g].xip = snap[g].xip
    <3>1. snap[h] \in Snapshot /\ snap[h].curcid + 1 \in 0..MaxCid
      BY <1>3 DEF advance_curcid, IInv, TypeOK, Snapshot
    <3> QED
      BY <1>3, <3>1 DEF advance_curcid, IInv, TypeOK, Snapshot
  <2>2. TypeOK'
    BY <1>3, <2>1 DEF advance_curcid, IInv, TypeOK
  <2>3. PhaseInv'
    BY <1>3 DEF advance_curcid, IInv, PhaseInv
  <2>4. SnapInv'
    BY <1>3, <2>1 DEF advance_curcid, IInv, SnapInv, TypeOK
  <2>5. RegistryExact'
    <3>1. \A k \in ClockValues : {g \in live' : snap'[g].xmin = k}
                                 = {g \in live : snap[g].xmin = k}
      BY <1>3, <2>1 DEF advance_curcid, IInv, TypeOK
    <3> QED
      BY <1>3, <3>1 DEF advance_curcid, IInv, RegistryExact
  <2>6. HorizonInv'
    BY <1>3, <2>1 DEF advance_curcid, IInv, HorizonInv, TypeOK
  <2> QED
    BY <2>2, <2>3, <2>4, <2>5, <2>6 DEF IInv
<1>4. ASSUME NEW h \in Guards, drop_guard(h)
      PROVE  IInv'
  <2>1. NoSnapshot \in Snapshot
    BY DEF NoSnapshot, Snapshot, ClockValues
  <2>2. TypeOK'
    <3>1. snapshot_xmins' \in [ClockValues -> Nat]
      <4> DEFINE n == snapshot_xmins[snap[h].xmin]
      <4>1. snap[h].xmin \in ClockValues /\ n \in Nat
        BY DEF IInv, TypeOK, Snapshot
      <4>2. (IF n > 0 THEN n - 1 ELSE n) \in Nat
        BY <4>1
      <4> QED
        BY <1>4, <4>1, <4>2 DEF drop_guard, IInv, TypeOK
    <3> QED
      BY <1>4, <2>1, <3>1 DEF drop_guard, IInv, TypeOK
  <2>3. PhaseInv'
    BY <1>4 DEF drop_guard, IInv, PhaseInv
  <2>4. SnapInv'
    BY <1>4 DEF drop_guard, IInv, SnapInv, TypeOK
  <2>5. RegistryExact'
    BY <1>4, RegistryAfterDrop DEF IInv
  <2>6. HorizonInv'
    BY <1>4 DEF drop_guard, IInv, HorizonInv, TypeOK
  <2> QED
    BY <2>2, <2>3, <2>4, <2>5, <2>6 DEF IInv
<1>5. ASSUME NEW y \in Xids, NEW r \in {"Committed", "Aborted"},
             append_end_record(y, r)
      PROVE  IInv'
  <2>1. TypeOK'
    BY <1>5 DEF append_end_record, IInv, TypeOK, Phase
  <2>2. PhaseInv'
    BY <1>5 DEF append_end_record, IInv, TypeOK, PhaseInv
  <2>3. SnapInv'
    BY <1>5 DEF append_end_record, IInv, TypeOK, SnapInv
  <2>4. RegistryExact' /\ HorizonInv'
    BY <1>5 DEF append_end_record, IInv, RegistryExact, HorizonInv
  <2> QED
    BY <2>1, <2>2, <2>3, <2>4 DEF IInv
<1>6. ASSUME NEW y \in Xids, flush_end_record(y)
      PROVE  IInv'
  <2>1. TypeOK'
    BY <1>6 DEF flush_end_record, IInv, TypeOK, Phase
  <2>2. PhaseInv'
    BY <1>6 DEF flush_end_record, IInv, TypeOK, PhaseInv
  <2>3. SnapInv'
    BY <1>6 DEF flush_end_record, IInv, TypeOK, SnapInv
  <2>4. RegistryExact' /\ HorizonInv'
    BY <1>6 DEF flush_end_record, IInv, RegistryExact, HorizonInv
  <2> QED
    BY <2>1, <2>2, <2>3, <2>4 DEF IInv
<1>7. ASSUME NEW y \in Xids, end_txn_error(y)
      PROVE  IInv'
  <2>1. TypeOK'
    BY <1>7 DEF end_txn_error, IInv, TypeOK, Phase
  <2>2. PhaseInv'
    BY <1>7 DEF end_txn_error, IInv, TypeOK, PhaseInv
  <2>3. SnapInv'
    BY <1>7 DEF end_txn_error, IInv, TypeOK, SnapInv
  <2>4. RegistryExact' /\ HorizonInv'
    BY <1>7 DEF end_txn_error, IInv, RegistryExact, HorizonInv
  <2> QED
    BY <2>1, <2>2, <2>3, <2>4 DEF IInv
<1>8. ASSUME NEW y \in Xids, set_state(y)
      PROVE  IInv'
  <2>1. TypeOK'
    BY <1>8 DEF set_state, IInv, TypeOK, Phase, TxnState
  <2>2. PhaseInv'
    BY <1>8 DEF set_state, IInv, TypeOK, PhaseInv
  <2>3. SnapInv'
    BY <1>8 DEF set_state, IInv, TypeOK, SnapInv
  <2>4. RegistryExact' /\ HorizonInv'
    BY <1>8 DEF set_state, IInv, RegistryExact, HorizonInv
  <2> QED
    BY <2>1, <2>2, <2>3, <2>4 DEF IInv
<1>9. ASSUME NEW y \in Xids, remove_active(y)
      PROVE  IInv'
  <2>1. TypeOK'
    BY <1>9 DEF remove_active, IInv, TypeOK, Phase
  <2>2. PhaseInv'
    BY <1>9 DEF remove_active, IInv, TypeOK, PhaseInv
  <2>3. SnapInv'
    BY <1>9 DEF remove_active, IInv, TypeOK, SnapInv
  <2>4. RegistryExact' /\ HorizonInv'
    BY <1>9 DEF remove_active, IInv, RegistryExact, HorizonInv
  <2> QED
    BY <2>1, <2>2, <2>3, <2>4 DEF IInv
<1>10. CASE poison_wal
  <2>1. TypeOK'
    BY <1>10 DEF poison_wal, IInv, TypeOK
  <2>2. PhaseInv' /\ SnapInv'
    BY <1>10 DEF poison_wal, IInv, PhaseInv, SnapInv
  <2>3. RegistryExact' /\ HorizonInv'
    BY <1>10 DEF poison_wal, IInv, RegistryExact, HorizonInv
  <2> QED
    BY <2>1, <2>2, <2>3 DEF IInv
<1>11. CASE vacuum_start
  <2>1. /\ oldest_snapshot_xmin \in ClockValues
        /\ oldest_snapshot_xmin <= txn_id_clock
        /\ \A x \in active : oldest_snapshot_xmin <= x
        /\ \A g \in live : oldest_snapshot_xmin <= snap[g].xmin
    BY OldestFacts DEF IInv
  <2>2. TypeOK'
    BY <1>11, <2>1 DEF vacuum_start, IInv, TypeOK
  <2>3. PhaseInv' /\ SnapInv' /\ RegistryExact'
    BY <1>11 DEF vacuum_start, IInv, PhaseInv, SnapInv, RegistryExact
  <2>4. HorizonInv'
    BY <1>11, <2>1 DEF vacuum_start, HorizonInv
  <2> QED
    BY <2>2, <2>3, <2>4 DEF IInv
<1>12. CASE vacuum_end
  BY <1>12 DEF vacuum_end, IInv, TypeOK, PhaseInv, SnapInv, RegistryExact,
               HorizonInv
<1>13. CASE UNCHANGED vars
  BY <1>13 DEF vars, IInv, TypeOK, PhaseInv, SnapInv, RegistryExact,
               HorizonInv
<1> QED
  BY <1>1, <1>2, <1>3, <1>4, <1>5, <1>6, <1>7, <1>8, <1>9, <1>10, <1>11,
     <1>12, <1>13 DEF Next

(* The inductive invariant holds of every behaviour of TxnManager.         *)
THEOREM IInvHolds == Spec => []IInv
<1>1. Init => IInv
  BY InitIInv
<1>2. IInv /\ [Next]_vars => IInv'
  BY NextIInv
<1> QED
  BY <1>1, <1>2, PTL DEF Spec

(* Type correctness of the transaction manager's state.                    *)
THEOREM TypeCorrect == Spec => []TypeOK
<1>1. IInv => TypeOK
  BY DEF IInv
<1> QED
  BY <1>1, IInvHolds, PTL

(* Every XID a snapshot does not exclude is terminal in the CLOG.          *)
THEOREM SnapshotsClosed == Spec => []SnapshotClosed
<1>1. IInv => SnapshotClosed
  <2> SUFFICES ASSUME IInv, NEW g \in live, NEW x \in Xids,
                      x < snap[g].xmax, x \notin snap[g].xip
               PROVE  clog[x] # "InProgress"
    BY DEF SnapshotClosed
  <2>1. phase[x] = "ended"
    BY DEF IInv, SnapInv
  <2>2. clog[x] = outcome[x] /\ outcome[x] \in {"Committed", "Aborted"}
    BY <2>1 DEF IInv, PhaseInv, TypeOK
  <2> QED
    BY <2>2
<1> QED
  BY <1>1, IInvHolds, PTL

(* The horizon registry counts the live snapshots exactly.                 *)
THEOREM RegistryIsExact == Spec => []RegistryExact
<1>1. IInv => RegistryExact
  BY DEF IInv
<1> QED
  BY <1>1, IInvHolds, PTL

(* A snapshot's past is settled and the registry counts the live guards,   *)
(* for every number of transactions and guards.                            *)
THEOREM SnapshotsAreSound == Spec => []SnapshotsSound
BY TypeCorrect, SnapshotsClosed, RegistryIsExact, PTL DEF SnapshotsSound

(* No tuple version that vacuum judges dead at the horizon it sampled is   *)
(* visible to a reader, at any later moment of the pass.                   *)
THEOREM VacuumIsSafe == Spec => []VacuumSafe
<1>1. IInv => VacuumSafe
  <2> SUFFICES ASSUME IInv, horizon # INVALID, NEW g \in Guards, readable(g),
                      NEW t_xmin \in Xids, NEW t_xmax \in Xids \cup {INVALID},
                      NEW t_cid \in 0..MaxCid,
                      is_dead(t_xmin, t_xmax, horizon)
               PROVE  ~is_visible(t_xmin, t_xmax, t_cid, snap[g])
    BY DEF VacuumSafe
  <2> DEFINE s == snap[g]
  <2>1. g \in live /\ s \in Snapshot
    BY DEF readable, IInv, TypeOK
  <2>2. s.current_xid = INVALID \/ s.current_xid \in active
    BY <2>1 DEF readable, Snapshot, IInv, PhaseInv
  <2>3. horizon \in Nat /\ horizon <= s.xmin /\ s.xmin \in Nat
        /\ s.xmin <= s.xmax /\ s.xmax \in Nat
    BY <2>1, ConstAssumption
    DEF IInv, HorizonInv, SnapInv, TypeOK, Snapshot, ClockValues, INVALID
  <2>4. CASE clog[t_xmin] = "Aborted"
    <3>1. ~sees(s, t_xmin)
      BY <2>4 DEF sees
    <3>2. t_xmin # s.current_xid
      BY <2>1, <2>4, ConstAssumption
      DEF readable, IInv, PhaseInv, Xids, INVALID
    <3> QED
      BY <3>1, <3>2 DEF is_visible
  <2>5. CASE /\ t_xmax # INVALID
             /\ t_xmax < horizon
             /\ clog[t_xmax] = "Committed"
    <3>1. t_xmax \in Xids /\ t_xmax \in Nat
      BY <2>5, ConstAssumption DEF Xids
    <3>2. t_xmax # s.current_xid
      BY <2>2, <2>3, <2>5, <3>1 DEF IInv, HorizonInv
    <3>3. t_xmax \notin s.xip
      BY <2>1, <2>3, <2>5, <3>1 DEF IInv, SnapInv
    <3>4. sees(s, t_xmax)
      BY <2>3, <2>5, <3>1, <3>3 DEF sees
    <3> QED
      BY <2>5, <3>2, <3>4 DEF is_visible
  <2> QED
    BY <2>4, <2>5 DEF is_dead
<1> QED
  BY <1>1, IInvHolds, PTL

(* What OldestFacts says, as a state predicate.                            *)
OldestBound ==
  /\ oldest_snapshot_xmin \in ClockValues
  /\ oldest_snapshot_xmin <= txn_id_clock
  /\ \A x \in active : oldest_snapshot_xmin <= x
  /\ \A g \in live : oldest_snapshot_xmin <= snap[g].xmin
  /\ \/ oldest_snapshot_xmin = txn_id_clock
     \/ oldest_snapshot_xmin \in active
     \/ \E g \in live : oldest_snapshot_xmin = snap[g].xmin

(* oldest_snapshot_xmin never decreases, so a horizon sampled by vacuum    *)
(* bounds every snapshot taken after it.                                   *)
THEOREM HorizonIsMonotone == Spec => HorizonMonotone
<1>1. IInv => OldestBound
  BY OldestFacts DEF IInv, OldestBound
<1>2. IInv /\ OldestBound /\ OldestBound' /\ [Next]_vars
        => [oldest_snapshot_xmin' >= oldest_snapshot_xmin]_vars
  <2> SUFFICES ASSUME IInv, OldestBound, OldestBound', Next
               PROVE  oldest_snapshot_xmin' >= oldest_snapshot_xmin
    OBVIOUS
  <2> DEFINE o == oldest_snapshot_xmin
  <2>1. txn_id_clock' \in Nat /\ txn_id_clock' >= txn_id_clock
    BY ConstAssumption
    DEF Next, begin_txn, snapshot, advance_curcid, drop_guard,
        append_end_record, flush_end_record, end_txn_error, set_state,
        remove_active, poison_wal, vacuum_start, vacuum_end, IInv, TypeOK,
        ClockValues
  <2>2. \A x \in active' : x \in active \/ x = txn_id_clock
    BY DEF Next, begin_txn, snapshot, advance_curcid, drop_guard,
           append_end_record, flush_end_record, end_txn_error, set_state,
           remove_active, poison_wal, vacuum_start, vacuum_end
  <2>3. \A g \in live' : \/ g \in live /\ snap'[g].xmin = snap[g].xmin
                        \/ snap'[g].xmin = XminOf
    BY DEF Next, begin_txn, snapshot, advance_curcid, drop_guard,
           append_end_record, flush_end_record, end_txn_error, set_state,
           remove_active, poison_wal, vacuum_start, vacuum_end, IInv, TypeOK,
           Snapshot
  <2>4. XminOf = txn_id_clock \/ XminOf \in active
    BY XminFacts DEF IInv
  <2>5. o \in Nat /\ o' \in Nat /\ txn_id_clock \in Nat
    BY ConstAssumption DEF IInv, TypeOK, OldestBound, ClockValues
  <2> QED
    BY <2>1, <2>2, <2>3, <2>4, <2>5 DEF OldestBound
<1> QED
  BY <1>1, <1>2, IInvHolds, PTL DEF Spec, HorizonMonotone

----------------------------------------------------------------------------
(* The refinement mapping of ImplementsSI, by name.                        *)
Done == {x \in Xids : clog[x] = "Committed" /\ x \notin active}
View == [g \in Guards |->
           IF g \in live THEN {x \in Xids : sees(snap[g], x)} ELSE {}]

(* A step that leaves what the mapping reads alone is a stuttering step.   *)
LEMMA StutterSI ==
  ASSUME UNCHANGED <<active, live, clog>>,
         \A g \in live : /\ snap'[g].xmax = snap[g].xmax
                         /\ snap'[g].xip = snap[g].xip
  PROVE  UNCHANGED SI!vars
<1>1. Done' = Done
  BY DEF Done
<1>2. View' = View
  BY DEF View, sees
<1> QED
  BY <1>1, <1>2 DEF SI!vars, Done, View

(* Every step of the manager is a step, or a stuttering step, of the       *)
(* abstract snapshot specification.                                        *)
LEMMA StepSI ==
  ASSUME IInv, [Next]_vars
  PROVE  [SI!Next]_(SI!vars)
<1>0. /\ \A x \in Xids : x \in active => clog[x] = "InProgress"
                                          \/ phase[x] = "flipped"
      /\ \A x \in Xids : x >= txn_id_clock => clog[x] = "InProgress"
      /\ txn_id_clock \in Nat
  BY ConstAssumption DEF IInv, PhaseInv, TypeOK, ClockValues
<1>1. CASE begin_txn
  <2>1. txn_id_clock \in Xids
    BY <1>1, ConstAssumption DEF begin_txn, IInv, TypeOK, ClockValues, Xids
  <2>2. clog[txn_id_clock] = "InProgress"
    BY <1>0, <2>1
  <2>3. Done' = Done
    BY <1>1, <2>2 DEF begin_txn, Done
  <2>4. View' = View /\ live' = live
    BY <1>1 DEF begin_txn, View, sees
  <2> QED
    BY <2>3, <2>4 DEF SI!vars, Done, View
<1>2. ASSUME NEW h \in Guards, NEW y \in Xids \cup {INVALID}, snapshot(h, y)
      PROVE  SI!Take(h)
  <2>1. snap'[h].xmax = txn_id_clock /\ snap'[h].xip = active
    BY <1>2 DEF snapshot, IInv, TypeOK
  <2>2. {x \in Xids : sees(snap[h], x)'} = Done
    <3>1. ASSUME NEW x \in Xids
          PROVE  sees(snap[h], x)' <=> clog[x] = "Committed" /\ x \notin active
      <4>1. clog' = clog
        BY <1>2 DEF snapshot
      <4>2. x \in Nat
        BY ConstAssumption DEF Xids
      <4> QED
        BY <1>0, <2>1, <4>1, <4>2 DEF sees
    <3> QED
      BY <3>1 DEF Done
  <2>3. View' = [View EXCEPT ![h] = Done]
    <3>1. \A g \in Guards \ {h} : snap'[g] = snap[g] /\ (g \in live' <=> g \in live)
      BY <1>2 DEF snapshot, IInv, TypeOK
    <3>2. \A g \in Guards \ {h} : View'[g] = View[g]
      BY <1>2, <3>1 DEF View, sees, snapshot
    <3>3. View'[h] = Done
      BY <1>2, <2>2 DEF View, snapshot
    <3> QED
      BY <3>2, <3>3 DEF View
  <2>4. Done' = Done /\ live' = live \cup {h} /\ h \notin live
    BY <1>2 DEF snapshot, Done
  <2> QED
    BY <2>3, <2>4 DEF SI!Take, Done, View
<1>3. ASSUME NEW h \in Guards, advance_curcid(h)
      PROVE  UNCHANGED SI!vars
  <2>1. \A g \in live : snap'[g].xmax = snap[g].xmax /\ snap'[g].xip = snap[g].xip
    BY <1>3 DEF advance_curcid, IInv, TypeOK, Snapshot
  <2> QED
    BY <1>3, <2>1, StutterSI DEF advance_curcid
<1>4. ASSUME NEW h \in Guards, drop_guard(h)
      PROVE  SI!Drop(h)
  <2>1. \A g \in Guards \ {h} : snap'[g] = snap[g] /\ (g \in live' <=> g \in live)
    BY <1>4 DEF drop_guard, IInv, TypeOK
  <2>2. \A g \in Guards \ {h} : View'[g] = View[g]
    BY <1>4, <2>1 DEF View, sees, drop_guard
  <2>3. View'[h] = {}
    BY <1>4 DEF View, drop_guard
  <2>4. View' = [View EXCEPT ![h] = {}]
    BY <2>2, <2>3 DEF View
  <2>5. Done' = Done /\ live' = live \ {h} /\ h \in live
    BY <1>4 DEF drop_guard, Done
  <2> QED
    BY <2>4, <2>5 DEF SI!Drop, Done, View
<1>5. ASSUME NEW y \in Xids,
             \/ \E r \in {"Committed", "Aborted"} : append_end_record(y, r)
             \/ flush_end_record(y)
             \/ end_txn_error(y)
      PROVE  UNCHANGED SI!vars
  BY <1>5, StutterSI DEF append_end_record, flush_end_record, end_txn_error
<1>6. ASSUME NEW y \in Xids, set_state(y)
      PROVE  UNCHANGED SI!vars
  <2>1. y \in active /\ phase[y] # "ended"
    BY <1>6 DEF set_state, IInv, PhaseInv
  <2>2. Done' = Done
    BY <1>6, <2>1 DEF set_state, Done, IInv, TypeOK
  <2>3. \A g \in live : \A x \in Xids : sees(snap[g], x)' <=> sees(snap[g], x)
    BY <1>6, <2>1 DEF set_state, sees, IInv, SnapInv, TypeOK
  <2>4. View' = View /\ live' = live
    BY <1>6, <2>3 DEF set_state, View
  <2> QED
    BY <2>2, <2>4 DEF SI!vars, Done, View
<1>7. ASSUME NEW y \in Xids, remove_active(y)
      PROVE  SI!Commit(y) \/ UNCHANGED SI!vars
  <2>1. y \in active /\ clog' = clog /\ active' = active \ {y}
    BY <1>7 DEF remove_active, IInv, PhaseInv
  <2>2. View' = View /\ live' = live
    BY <1>7 DEF remove_active, View, sees
  <2>3. CASE clog[y] = "Committed"
    <3>1. Done' = Done \cup {y} /\ y \notin Done
      BY <2>1, <2>3 DEF Done
    <3> QED
      BY <2>2, <3>1 DEF SI!Commit, Done, View
  <2>4. CASE clog[y] # "Committed"
    <3>1. Done' = Done
      BY <2>1, <2>4 DEF Done
    <3> QED
      BY <2>2, <3>1 DEF SI!vars, Done, View
  <2> QED
    BY <2>3, <2>4
<1>8. CASE poison_wal \/ vacuum_start \/ vacuum_end \/ UNCHANGED vars
  BY <1>8, StutterSI DEF poison_wal, vacuum_start, vacuum_end, vars
<1> QED
  BY <1>1, <1>2, <1>3, <1>4, <1>5, <1>6, <1>7, <1>8 DEF Next, SI!Next

(* The manager implements snapshot isolation as SnapshotIsolation states   *)
(* it, for every number of transactions and guards.                        *)
THEOREM SnapshotRefinement == Spec => ImplementsSI
<1>1. Init => SI!Init
  <2> SUFFICES ASSUME Init PROVE SI!Init
    OBVIOUS
  <2>1. Done = {} /\ View = [g \in Guards |-> {}]
    BY DEF Init, Done, View
  <2> QED
    BY <2>1 DEF Init, SI!Init, Done, View
<1>2. IInv /\ [Next]_vars => [SI!Next]_(SI!vars)
  BY StepSI
<1> QED
  BY <1>1, <1>2, IInvHolds, PTL DEF Spec, ImplementsSI, SI!Spec
=============================================================================
