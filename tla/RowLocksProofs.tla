--------------------------- MODULE RowLocksProofs ---------------------------
(***************************************************************************)
(* Proofs about RowLocks, for any set of transactions, rows, requests and  *)
(* full pages.                                                             *)
(***************************************************************************)
EXTENDS RowLocks, WellFoundedInduction, TLAPS

InCall == {"row_checking", "row_wait", "row_asleep", "row_restart", "row_extending"}
Call == [row : Rows, request : LockRequest]

(* Where a transaction is in its life: the commit log says InProgress until *)
(* end_flip, the active set until end_remove, and only a running one is in  *)
(* a call.                                                                  *)
Lives ==
  \A x \in Xids : /\ clog[x] = "InProgress" <=> x \in active /\ pc[x] # "flipped"
                  /\ pc[x] = "flipped" => x \in active
                  /\ pc[x] = "removed" => x \notin active
                  /\ pc[x] \in InCall => x \in active /\ rowreq[x] \in Call

(* Whoever has read the commit log and not yet the active set has the      *)
(* latch to itself, and the stamp it judges is somebody else's and not a   *)
(* shared one.                                                             *)
Checks ==
  \A x \in Xids : pc[x] = "row_checking" =>
     /\ t_xmax[rowreq[x].row] \notin {NoXid, x}
     /\ infomask[rowreq[x].row] # "share"
     /\ \A y \in Xids : pc[y] = "row_checking" /\ rowreq[y].row = rowreq[x].row => x = y

Strong(r, x) == held[r][x] \cap {"Writer", "Exclusive"} # {}

(* What a held lock rests on.  A strong one is the stamp of the row; a     *)
(* shared one is the stamp or an entry of the registry under a shared      *)
(* stamp, unless an update of its own holder has mislaid it; and the       *)
(* stamp of a running transaction that is not a shared one is a strong     *)
(* lock, so that nobody grants itself a shared lock under it.              *)
Holds ==
  \A r \in Rows :
     /\ \A x \in Xids :
          /\ held[r][x] # {} => clog[x] = "InProgress"
          /\ Strong(r, x) => /\ t_xmax[r] = x /\ infomask[r] \in {"real", "lock"}
                             /\ "forgotten" \notin held[r][x]
          /\ held[r][x] = {"Shared"} => /\ infomask[r] = "share"
                                        /\ x \in share_locks[r] \cup {t_xmax[r]}
          /\ "forgotten" \in held[r][x] => "Shared" \in held[r][x]
     /\ infomask[r] \in {"real", "lock"} /\ clog[t_xmax[r]] = "InProgress" =>
          Strong(r, t_xmax[r])

IInv == TypeOK /\ Lives /\ Checks /\ Holds /\ RowNoLostWakeup /\ EdgesAreWaits

----------------------------------------------------------------------------
(* What a turn of the gate may do, and under which conditions.             *)

(* Nobody else holds r, but for shared locks that were mislaid.            *)
Free(x, r) == \A y \in Xids \ {x} : held[r][y] # {} => "forgotten" \in held[r][y]

CommittedReal(r) == infomask[r] = "real" /\ clog[t_xmax[r]] = "Committed"

(* Every holder the registry named is in what is written back to it.       *)
Kept(r, T) == \A y \in share_locks[r] : held[r][y] # {} => y \in T

Registry(r, T) == share_locks' = [share_locks EXCEPT ![r] = T]

Stamps(x, r, q) ==
  /\ Free(x, r) /\ ~CommittedReal(r) /\ (q = "Shared" => ~Strong(r, x))
  /\ Proceed(x, r, q)
  /\ \E T \in SUBSET Xids : Registry(r, T)

Joins(x, r, q) ==
  /\ q = "Shared" /\ NoStamp(x, r, q)
  /\ \/ Strong(r, x) /\ UNCHANGED share_locks
     \/ infomask[r] = "share" /\ \E T \in SUBSET Xids : x \in T /\ Kept(r, T) /\ Registry(r, T)

Waits(x, r, q) ==
  \E b \in Xids, T \in SUBSET Xids : Wait(x, r, q, b) /\ Kept(r, T) /\ Registry(r, T)

Looks(x, r, q) ==
  looks_active(x, r, q) /\ t_xmax[r] \notin {NoXid, x} /\ infomask[r] # "share" /\ ~Latched(r)

Verdict(x, r, q) ==
  /\ \/ Stamps(x, r, q) \/ Joins(x, r, q)
     \/ Fail(x) /\ UNCHANGED share_locks
     \/ Waits(x, r, q) \/ Looks(x, r, q)
  /\ UNCHANGED <<endVars, victims, row_to_notify>>

(* A non-empty set of naturals has a least element, which Min names.       *)
LEMMA MinNat ==
  ASSUME NEW S \in SUBSET Nat, S # {}
  PROVE  Min(S) \in S /\ \A y \in S : Min(S) <= y
<1> DEFINE R == {p \in Nat \X Nat : p[1] < p[2]}
<1>1. IsWellFoundedOn(R, Nat)
  BY NatLessThanWellFounded, Zenon DEF OpToRel
<1> HIDE DEF R
<1>2. PICK m \in S : \A y \in S : ~ (<<y, m>> \in R)
  BY <1>1, WFMin, Zenon
<1>3. \A y \in S : m <= y
  <2>1. SUFFICES ASSUME NEW y \in S, y < m PROVE FALSE
    OBVIOUS
  <2>2. <<y, m>> \in R
    BY <2>1 DEF R
  <2> QED
    BY <1>2, <2>2, Zenon
<1> QED
  BY <1>3, Zenon DEF Min

(* A held lock is a strong one, a shared one, or a mislaid one.            *)
LEMMA HeldCases ==
  ASSUME TypeOK, NEW r \in Rows, NEW y \in Xids, held[r][y] # {}
  PROVE  "forgotten" \in held[r][y] \/ Strong(r, y) \/ held[r][y] = {"Shared"}
<1>1. held[r][y] \subseteq {"Shared", "Exclusive", "Writer", "forgotten"}
  BY DEF TypeOK, LockRequest
<1> QED
  BY <1>1 DEF Strong

(* Under a stamp that is not a shared one only its transaction holds.      *)
LEMMA StamperHolds ==
  ASSUME TypeOK, Holds, NEW r \in Rows, infomask[r] # "share",
         NEW y \in Xids, held[r][y] # {}, "forgotten" \notin held[r][y]
  PROVE  t_xmax[r] = y
BY HeldCases DEF Holds

(* Whoever holds a shared lock by the stamp or the registry is found alive. *)
LEMMA LiveHolders ==
  ASSUME TypeOK, Lives, Holds, NEW r \in Rows, infomask[r] = "share",
         NEW live \in LiveSets(r)
  PROVE  /\ live \in SUBSET Xids
         /\ \A y \in share_locks[r] \cup {t_xmax[r]} :
               y \in Xids /\ held[r][y] # {} => y \in live
<1> DEFINE holders == (share_locks[r] \cup {t_xmax[r]}) \cap active
           running == {h \in holders : clog[h] = "InProgress"}
<1>1. PICK s \in SUBSET (holders \ running) : live = running \cup s
  BY DEF LiveSets
<1>2. holders \subseteq Xids
  BY DEF TypeOK
<1>3. \A y \in share_locks[r] \cup {t_xmax[r]} :
         y \in Xids /\ held[r][y] # {} => y \in running
  BY DEF Holds, Lives
<1> QED
  BY <1>1, <1>2, <1>3

(* The gate grants, over somebody else's stamp, only what nobody else      *)
(* holds; what it writes back to the registry names every holder.          *)
LEMMA TerminalVerdict ==
  ASSUME IInv, NEW x \in Xids, NEW r \in Rows, NEW q \in LockRequest,
         t_xmax[r] \notin {NoXid, x}, infomask[r] # "share",
         clog[t_xmax[r]] # "InProgress", terminal_stamp(x, r, q),
         UNCHANGED <<endVars, victims, row_to_notify>>
  PROVE  Verdict(x, r, q)
<1> USE DEF IInv
<1>1. CASE CommittedReal(r)
  BY <1>1 DEF CommittedReal, terminal_stamp, Verdict
<1>2. CASE ~CommittedReal(r)
  <2>1. note_stamp_overwrite(x, r, q) /\ Proceed(x, r, q)
    BY <1>2 DEF CommittedReal, terminal_stamp
  <2>2. Free(x, r)
    BY StamperHolds DEF Free, Holds
  <2>3. ~Strong(r, x)
    BY DEF Holds
  <2>4. \E T \in SUBSET Xids : Registry(r, T)
    BY <2>1 DEF note_stamp_overwrite, Registry
  <2> QED
    BY <1>2, <2>1, <2>2, <2>3, <2>4 DEF Verdict, Stamps
<1> QED
  BY <1>1, <1>2

LEMMA GateVerdict ==
  ASSUME IInv, NEW x \in Xids, NEW r \in Rows, NEW q \in LockRequest,
         clog[x] = "InProgress", row_lock_gate(x, r, q)
  PROVE  Verdict(x, r, q)
<1> USE DEF IInv
<1>1. ~Latched(r) /\ UNCHANGED <<endVars, victims, row_to_notify>>
  BY DEF row_lock_gate
<1>2. x # NoXid
  BY RowLockAssumption
<1>3. \E T \in SUBSET Xids : T = IF q = "Shared" THEN {x} ELSE {}
  OBVIOUS
<1>4. note_stamp_overwrite(x, r, q) => \E T \in SUBSET Xids : Registry(r, T)
  BY <1>3 DEF note_stamp_overwrite, Registry
<1>5. UNCHANGED share_locks => /\ Registry(r, share_locks[r]) /\ share_locks[r] \in SUBSET Xids
  BY DEF Registry, TypeOK
<1>6. CASE t_xmax[r] = NoXid /\ note_stamp_overwrite(x, r, q) /\ Proceed(x, r, q)
  <2>1. infomask[r] = "none"
    BY <1>6 DEF TypeOK
  <2>2. Free(x, r)
    BY <1>6, <2>1, StamperHolds, RowLockAssumption DEF Free
  <2>3. ~Strong(r, x) /\ ~CommittedReal(r)
    BY <2>1 DEF Holds, CommittedReal
  <2> QED
    BY <1>1, <1>4, <1>6, <2>2, <2>3 DEF Verdict, Stamps
<1>7. CASE infomask[r] = "share" /\ share_stamp_gate(x, r, q)
  <2>1. ~Strong(r, x) /\ ~CommittedReal(r)
    BY <1>7 DEF Holds, CommittedReal
  <2>2. CASE q = "Shared" /\ t_xmax[r] = x
    <3>1. /\ share_locks' = [share_locks EXCEPT ![r] = @ \cup {x}]
          /\ NoStamp(x, r, q)
      BY <1>7, <2>2 DEF share_stamp_gate
    <3>2. Registry(r, share_locks[r] \cup {x}) /\ share_locks[r] \cup {x} \in SUBSET Xids
      BY <3>1 DEF Registry, TypeOK
    <3>3. Kept(r, share_locks[r] \cup {x})
      BY DEF Kept
    <3> QED
      BY <1>1, <1>7, <2>2, <3>1, <3>2, <3>3 DEF Verdict, Joins
  <2>3. CASE q = "Shared" /\ t_xmax[r] # x
    <3>1. PICK live \in LiveSets(r) :
             \/ live = {} /\ note_stamp_overwrite(x, r, q) /\ Proceed(x, r, q)
             \/ /\ live # {}
                /\ share_locks' = [share_locks EXCEPT ![r] = live \cup {x}]
                /\ NoStamp(x, r, q)
      BY <1>7, <2>3 DEF share_stamp_gate
    <3>2. /\ live \in SUBSET Xids
          /\ \A y \in share_locks[r] \cup {t_xmax[r]} :
                y \in Xids /\ held[r][y] # {} => y \in live
      BY <1>7, LiveHolders
    <3>3. CASE live = {}
      <4>1. Free(x, r)
        BY <1>7, <3>2, <3>3, HeldCases DEF Free, Holds
      <4> QED
        BY <1>1, <1>4, <2>1, <3>1, <3>3, <4>1 DEF Verdict, Stamps
    <3>4. CASE live # {}
      <4>1. live \cup {x} \in SUBSET Xids /\ Registry(r, live \cup {x})
        BY <3>1, <3>2, <3>4 DEF Registry
      <4>2. Kept(r, live \cup {x})
        BY <3>2 DEF Kept, TypeOK
      <4> QED
        BY <1>1, <1>7, <2>3, <3>1, <3>4, <4>1, <4>2 DEF Verdict, Joins
    <3> QED
      BY <3>3, <3>4
  <2>4. CASE q # "Shared"
    <3>1. PICK live \in LiveSets(r) :
             \/ live \subseteq {x} /\ note_stamp_overwrite(x, r, q) /\ Proceed(x, r, q)
             \/ /\ ~ live \subseteq {x}
                /\ share_locks' = [share_locks EXCEPT ![r] = live]
                /\ Wait(x, r, q, Min(live \ {x}))
      BY <1>7, <2>4 DEF share_stamp_gate
    <3>2. /\ live \in SUBSET Xids
          /\ \A y \in share_locks[r] \cup {t_xmax[r]} :
                y \in Xids /\ held[r][y] # {} => y \in live
      BY <1>7, LiveHolders
    <3>3. CASE live \subseteq {x}
      <4>1. Free(x, r)
        BY <1>7, <3>2, <3>3, HeldCases DEF Free, Holds
      <4> QED
        BY <1>1, <1>4, <2>1, <2>4, <3>1, <3>3, <4>1 DEF Verdict, Stamps
    <3>4. CASE ~ live \subseteq {x}
      <4>1. Registry(r, live) /\ Wait(x, r, q, Min(live \ {x})) /\ Kept(r, live)
        BY <3>1, <3>2, <3>4 DEF Registry, Kept, TypeOK
      <4>2. Min(live \ {x}) \in Xids
        <5>1. live \ {x} \in SUBSET Nat /\ live \ {x} # {}
          BY <3>2, <3>4, RowLockAssumption
        <5>2. Min(live \ {x}) \in live \ {x}
          BY <5>1, MinNat
        <5> QED
          BY <3>2, <5>2
      <4> QED
        BY <1>1, <3>2, <4>1, <4>2 DEF Verdict, Waits
    <3> QED
      BY <3>3, <3>4
  <2> QED
    BY <2>2, <2>3, <2>4
<1>8. CASE t_xmax[r] = x /\ infomask[r] = "real" /\ own_real_stamp(x, r, q)
  <2>1. Free(x, r) /\ ~CommittedReal(r)
    BY <1>8, StamperHolds DEF Free, CommittedReal
  <2> QED
    BY <1>1, <1>5, <1>8, <2>1 DEF own_real_stamp, Verdict, Stamps
<1>9. CASE t_xmax[r] = x /\ infomask[r] = "lock" /\ own_lock_stamp(x, r, q)
  <2>1. Free(x, r) /\ ~CommittedReal(r) /\ Strong(r, x)
    BY <1>9, StamperHolds DEF Free, CommittedReal, Holds
  <2> QED
    BY <1>1, <1>5, <1>9, <2>1 DEF own_lock_stamp, Verdict, Stamps, Joins
<1>10. CASE /\ t_xmax[r] \notin {NoXid, x} /\ infomask[r] # "share"
            /\ looks_active(x, r, q)
  BY <1>1, <1>10 DEF Verdict, Looks
<1>11. CASE /\ t_xmax[r] \notin {NoXid, x} /\ infomask[r] # "share"
            /\ clog[t_xmax[r]] # "InProgress" /\ terminal_stamp(x, r, q)
  BY <1>1, <1>11, TerminalVerdict
<1> QED
  BY <1>6, <1>7, <1>8, <1>9, <1>10, <1>11 DEF row_lock_gate

LEMMA CheckVerdict ==
  ASSUME IInv, NEW x \in Xids, gate_is_active(x)
  PROVE  Verdict(x, rowreq[x].row, rowreq[x].request)
<1> USE DEF IInv
<1> DEFINE r == rowreq[x].row
           q == rowreq[x].request
<1>1. /\ pc[x] = "row_checking" /\ UNCHANGED <<endVars, victims, row_to_notify>>
      /\ IF t_xmax[r] \in active
         THEN Wait(x, r, q, t_xmax[r]) /\ UNCHANGED share_locks
         ELSE terminal_stamp(x, r, q)
  BY DEF gate_is_active
<1>2. /\ r \in Rows /\ q \in LockRequest
      /\ t_xmax[r] \notin {NoXid, x} /\ infomask[r] # "share" /\ t_xmax[r] \in Xids
  BY <1>1 DEF Lives, Checks, InCall, Call, TypeOK
<1> HIDE DEF r, q
<1>3. CASE t_xmax[r] \in active
  <2>1. Registry(r, share_locks[r]) /\ share_locks[r] \in SUBSET Xids /\ Kept(r, share_locks[r])
    BY <1>1, <1>2, <1>3 DEF Registry, Kept, TypeOK
  <2>2. Waits(x, r, q)
    BY <1>1, <1>2, <1>3, <2>1 DEF Waits
  <2> QED
    BY <1>1, <2>2 DEF Verdict, r, q
<1>4. CASE t_xmax[r] \notin active
  <2>1. clog[t_xmax[r]] # "InProgress"
    BY <1>2, <1>4 DEF Lives
  <2> QED
    BY <1>1, <1>2, <1>4, <2>1, TerminalVerdict DEF r, q
<1> QED
  BY <1>3, <1>4

----------------------------------------------------------------------------
(* A verdict keeps the invariant.                                          *)

(* A thread about to turn in the gate, with the latch of r to itself.      *)
AtGate(x, r) ==
  /\ pc[x] \in {"idle", "row_checking", "row_restart", "row_extending"}
  /\ clog[x] = "InProgress"
  /\ \A y \in Xids \ {x} : pc[y] = "row_checking" => rowreq[y].row # r

(* Only the locks and the stamp of r, and the thread of x, are touched.    *)
LEMMA VerdictFrame ==
  ASSUME IInv, NEW x \in Xids, NEW r \in Rows, NEW q \in LockRequest,
         AtGate(x, r), Verdict(x, r, q)
  PROVE  /\ TypeOK'
         /\ UNCHANGED <<clog, active, victims, row_to_notify>>
         /\ \A y \in Xids \ {x} : /\ pc'[y] = pc[y] /\ rowreq'[y] = rowreq[y]
                                  /\ row_wait_registry'[y] = row_wait_registry[y]
                                  /\ held'[r][y] = held[r][y]
         /\ \A s \in Rows \ {r} : /\ t_xmax'[s] = t_xmax[s] /\ infomask'[s] = infomask[s]
                                  /\ share_locks'[s] = share_locks[s] /\ held'[s] = held[s]
         /\ pc'[x] \in {"idle", "row_wait", "row_checking", "row_extending"}
         /\ pc'[x] \in InCall => rowreq'[x] \in Call
         /\ row_wait_registry'[x] # NoXid <=> pc'[x] = "row_wait"
         /\ pc'[x] = "row_checking" => Looks(x, r, q)
<1> USE DEF IInv
<1>1. row_wait_registry[x] = NoXid /\ NoXid \notin Xids
  BY RowLockAssumption DEF AtGate, EdgesAreWaits
<1>2. MaskOf(q) \in {"real", "lock", "share"}
  BY DEF MaskOf, LockRequest
<1>3. [row |-> r, request |-> q] \in Call
  BY DEF Call
<1>4. UNCHANGED <<clog, active, victims, row_to_notify>>
  BY DEF Verdict, endVars
<1>5. CASE Stamps(x, r, q) /\ Stamp(x, r, q)
  <2>1. /\ t_xmax' = [t_xmax EXCEPT ![r] = x] /\ infomask' = [infomask EXCEPT ![r] = MaskOf(q)]
        /\ held' = [held EXCEPT ![r][x] = (@ \ {"forgotten"}) \cup {q}]
        /\ pc' = [pc EXCEPT ![x] = "idle"] /\ rowreq' = [rowreq EXCEPT ![x] = NoCall]
        /\ UNCHANGED row_wait_registry
    BY <1>5 DEF Stamp, Granted, Return
  <2>2. PICK T \in SUBSET Xids : share_locks' = [share_locks EXCEPT ![r] = T]
    BY <1>5 DEF Stamps, Registry
  <2>3. TypeOK'
    BY <1>1, <1>2, <1>4, <2>1, <2>2 DEF TypeOK, RowPc
  <2> QED
    BY <1>1, <1>4, <2>1, <2>2, <2>3 DEF TypeOK, InCall
<1>6. CASE Stamps(x, r, q) /\ NoRoom(x, r, q)
  <2>1. /\ rowreq' = [rowreq EXCEPT ![x] = [row |-> r, request |-> q]]
        /\ pc' = [pc EXCEPT ![x] = "row_extending"]
        /\ held' = [held EXCEPT ![r][x] = @ \cup {"forgotten"}] \/ held' = held
        /\ UNCHANGED <<t_xmax, infomask, row_wait_registry>>
    BY <1>6 DEF NoRoom
  <2>2. PICK T \in SUBSET Xids : share_locks' = [share_locks EXCEPT ![r] = T]
    BY <1>6 DEF Stamps, Registry
  <2>3. held' \in [Rows -> [Xids -> SUBSET (LockRequest \cup {"forgotten"})]]
    <3>1. CASE held' = [held EXCEPT ![r][x] = @ \cup {"forgotten"}]
      BY <3>1 DEF TypeOK
    <3> QED
      BY <2>1, <3>1 DEF TypeOK
  <2>4. TypeOK'
    BY <1>3, <1>4, <2>1, <2>2, <2>3 DEF TypeOK, RowPc, Call
  <2> QED
    BY <1>1, <1>3, <1>4, <2>1, <2>2, <2>4 DEF TypeOK
<1>7. CASE Joins(x, r, q)
  <2>1. /\ held' = [held EXCEPT ![r][x] = (@ \ {"forgotten"}) \cup {q}]
        /\ pc' = [pc EXCEPT ![x] = "idle"] /\ rowreq' = [rowreq EXCEPT ![x] = NoCall]
        /\ UNCHANGED <<t_xmax, infomask, row_wait_registry>>
    BY <1>7 DEF Joins, NoStamp, Granted, Return
  <2>2. PICK T \in SUBSET Xids : share_locks' = [share_locks EXCEPT ![r] = T]
    BY <1>7 DEF Joins, Registry, TypeOK
  <2>3. TypeOK'
    BY <1>4, <2>1, <2>2 DEF TypeOK, RowPc
  <2> QED
    BY <1>1, <1>4, <2>1, <2>2, <2>3 DEF TypeOK, InCall
<1>8. CASE Fail(x) /\ UNCHANGED share_locks
  <2>1. /\ pc' = [pc EXCEPT ![x] = "idle"] /\ rowreq' = [rowreq EXCEPT ![x] = NoCall]
        /\ UNCHANGED <<t_xmax, infomask, row_wait_registry, held, share_locks>>
    BY <1>8 DEF Fail, Return
  <2>2. TypeOK'
    BY <1>4, <2>1 DEF TypeOK, RowPc
  <2> QED
    BY <1>1, <1>4, <2>1, <2>2 DEF TypeOK, InCall
<1>9. CASE Waits(x, r, q)
  <2>1. PICK b \in Xids, T \in SUBSET Xids : Wait(x, r, q, b) /\ Registry(r, T)
    BY <1>9 DEF Waits
  <2>2. /\ row_wait_registry' = [row_wait_registry EXCEPT ![x] = b]
        /\ rowreq' = [rowreq EXCEPT ![x] = [row |-> r, request |-> q]]
        /\ pc' = [pc EXCEPT ![x] = "row_wait"] /\ UNCHANGED <<t_xmax, infomask, held>>
        /\ share_locks' = [share_locks EXCEPT ![r] = T]
    BY <2>1 DEF Wait, Registry
  <2>3. TypeOK'
    BY <1>3, <1>4, <2>2 DEF TypeOK, RowPc, Call
  <2> QED
    BY <1>1, <1>3, <1>4, <2>2, <2>3 DEF TypeOK
<1>10. CASE Looks(x, r, q)
  <2>1. /\ rowreq' = [rowreq EXCEPT ![x] = [row |-> r, request |-> q]]
        /\ pc' = [pc EXCEPT ![x] = "row_checking"]
        /\ UNCHANGED <<t_xmax, infomask, share_locks, row_wait_registry, held>>
    BY <1>10 DEF Looks, looks_active, pageVars
  <2>2. TypeOK'
    BY <1>3, <1>4, <2>1 DEF TypeOK, RowPc, Call
  <2> QED
    BY <1>1, <1>3, <1>4, <1>10, <2>1, <2>2 DEF TypeOK
<1> QED
  BY <1>5, <1>6, <1>7, <1>8, <1>9, <1>10 DEF Verdict, Stamps, Proceed

(* The locks of the row the verdict is about.                              *)
LEMMA VerdictHolds ==
  ASSUME IInv, NEW x \in Xids, NEW r \in Rows, NEW q \in LockRequest,
         AtGate(x, r), Verdict(x, r, q)
  PROVE  Holds'
<1> USE DEF IInv
<1>1. /\ TypeOK' /\ clog' = clog
      /\ \A y \in Xids \ {x} : held'[r][y] = held[r][y]
      /\ \A s \in Rows \ {r} : /\ t_xmax'[s] = t_xmax[s] /\ infomask'[s] = infomask[s]
                               /\ share_locks'[s] = share_locks[s] /\ held'[s] = held[s]
  BY VerdictFrame
<1> DEFINE Row(s) ==
      /\ \A y \in Xids :
           /\ held'[s][y] # {} => clog[y] = "InProgress"
           /\ Strong(s, y)' => /\ t_xmax'[s] = y /\ infomask'[s] \in {"real", "lock"}
                               /\ "forgotten" \notin held'[s][y]
           /\ held'[s][y] = {"Shared"} => /\ infomask'[s] = "share"
                                          /\ y \in share_locks'[s] \cup {t_xmax'[s]}
           /\ "forgotten" \in held'[s][y] => "Shared" \in held'[s][y]
      /\ infomask'[s] \in {"real", "lock"} /\ clog[t_xmax'[s]] = "InProgress" =>
           held'[s][t_xmax'[s]] \cap {"Writer", "Exclusive"} # {}
<1>2. ASSUME NEW s \in Rows \ {r} PROVE Row(s)
  BY <1>1 DEF Holds, Strong
<1>3. Row(r)
  <2>1. CASE Stamps(x, r, q) /\ Stamp(x, r, q)
    <3>1. /\ t_xmax'[r] = x /\ infomask'[r] = MaskOf(q)
          /\ held'[r][x] = (held[r][x] \ {"forgotten"}) \cup {q}
      BY <2>1 DEF Stamp, Granted, TypeOK
    <3>2. /\ MaskOf(q) = "share" => q = "Shared"
          /\ MaskOf(q) # "share" => q \in {"Writer", "Exclusive"} /\ MaskOf(q) \in {"real", "lock"}
      BY DEF MaskOf, LockRequest
    <3>3. \A y \in Xids \ {x} : held[r][y] # {} => "forgotten" \in held[r][y]
      BY <2>1 DEF Stamps, Free
    <3>4. ASSUME NEW y \in Xids \ {x}
          PROVE  ~ Strong(r, y) /\ held[r][y] # {"Shared"}
      BY <3>3 DEF Holds, Strong
    <3>5. q = "Shared" => ~Strong(r, x)
      BY <2>1 DEF Stamps
    <3>6. clog[x] = "InProgress"
      BY DEF AtGate
    <3> QED
      BY <1>1, <3>1, <3>2, <3>3, <3>4, <3>5, <3>6 DEF Holds, Strong, LockRequest
  <2>2. CASE Stamps(x, r, q) /\ NoRoom(x, r, q)
    <3>1. t_xmax'[r] = t_xmax[r] /\ infomask'[r] = infomask[r]
      BY <2>2 DEF NoRoom
    <3>2. \A y \in Xids \ {x} : held[r][y] # {"Shared"}
      BY <2>2 DEF Stamps, Free
    <3>3. CASE infomask[r] = "share" /\ t_xmax[r] # x /\ held[r][x] # {}
      <4>1. held'[r][x] = held[r][x] \cup {"forgotten"}
        BY <2>2, <3>3 DEF NoRoom, TypeOK
      <4>2. "Shared" \in held[r][x] /\ ~Strong(r, x)
        BY <3>3, HeldCases DEF Holds
      <4> QED
        BY <1>1, <3>1, <3>2, <3>3, <4>1, <4>2 DEF Holds, Strong
    <3>4. CASE ~ (infomask[r] = "share" /\ t_xmax[r] # x /\ held[r][x] # {})
      <4>1. held' = held
        BY <2>2, <3>4 DEF NoRoom
      <4> QED
        BY <1>1, <3>1, <3>2, <3>4, <4>1 DEF Holds, Strong
    <3> QED
      BY <3>3, <3>4
  <2>3. CASE Joins(x, r, q)
    <3>1. /\ held'[r][x] = (held[r][x] \ {"forgotten"}) \cup {"Shared"}
          /\ t_xmax'[r] = t_xmax[r] /\ infomask'[r] = infomask[r]
          /\ clog[x] = "InProgress"
      BY <2>3 DEF Joins, NoStamp, Granted, TypeOK, AtGate
    <3>2. CASE Strong(r, x) /\ UNCHANGED share_locks
      BY <1>1, <3>1, <3>2 DEF Holds, Strong
    <3>3. CASE ~Strong(r, x)
      <4>1. PICK T \in SUBSET Xids : x \in T /\ Kept(r, T) /\ Registry(r, T) /\ infomask[r] = "share"
        BY <2>3, <3>3 DEF Joins
      <4>2. share_locks'[r] = T
        BY <4>1 DEF Registry, TypeOK
      <4> QED
        BY <1>1, <3>1, <3>3, <4>1, <4>2 DEF Holds, Strong, Kept
    <3>4. CASE Strong(r, x) /\ infomask[r] = "share"
      BY <3>4 DEF Holds
    <3> QED
      BY <2>3, <3>2, <3>3, <3>4 DEF Joins
  <2>4. CASE Fail(x) /\ UNCHANGED share_locks
    BY <2>4 DEF Fail, Holds, Strong
  <2>5. CASE Waits(x, r, q)
    <3>1. PICK T \in SUBSET Xids : Kept(r, T) /\ Registry(r, T)
      BY <2>5 DEF Waits
    <3>2. UNCHANGED <<t_xmax, infomask, held>> /\ share_locks'[r] = T
      BY <2>5, <3>1 DEF Waits, Wait, Registry, TypeOK
    <3> QED
      BY <3>1, <3>2 DEF Holds, Strong, Kept
  <2>6. CASE Looks(x, r, q)
    BY <2>6 DEF Looks, looks_active, pageVars, Holds, Strong
  <2> QED
    BY <2>1, <2>2, <2>3, <2>4, <2>5, <2>6 DEF Verdict, Stamps, Proceed
<1>4. \A s \in Rows : Row(s)
  BY <1>2, <1>3
<1> QED
  BY <1>1, <1>4 DEF Holds, Strong

LEMMA VerdictIInv ==
  ASSUME IInv, NEW x \in Xids, NEW r \in Rows, NEW q \in LockRequest,
         AtGate(x, r), Verdict(x, r, q)
  PROVE  IInv'
<1> USE DEF IInv
<1>1. /\ TypeOK'
      /\ UNCHANGED <<clog, active, victims, row_to_notify>>
      /\ \A y \in Xids \ {x} : /\ pc'[y] = pc[y] /\ rowreq'[y] = rowreq[y]
                               /\ row_wait_registry'[y] = row_wait_registry[y]
      /\ \A s \in Rows \ {r} : t_xmax'[s] = t_xmax[s] /\ infomask'[s] = infomask[s]
      /\ pc'[x] \in {"idle", "row_wait", "row_checking", "row_extending"}
      /\ pc'[x] \in InCall => rowreq'[x] \in Call
      /\ row_wait_registry'[x] # NoXid <=> pc'[x] = "row_wait"
      /\ pc'[x] = "row_checking" => Looks(x, r, q)
  BY VerdictFrame
<1>2. Lives'
  <2>1. x \in active /\ clog[x] = "InProgress"
    BY DEF AtGate, Lives
  <2> QED
    BY <1>1, <2>1 DEF Lives
<1>3. Checks'
  <2>1. ASSUME NEW y \in Xids \ {x}, pc[y] = "row_checking"
        PROVE  /\ rowreq[y].row \in Rows \ {r} /\ t_xmax[rowreq[y].row] \notin {NoXid, y}
               /\ infomask[rowreq[y].row] # "share"
    BY <2>1 DEF AtGate, Lives, InCall, Call, Checks
  <2>2. CASE pc'[x] # "row_checking"
    BY <1>1, <2>1, <2>2 DEF Checks
  <2>3. CASE pc'[x] = "row_checking"
    <3>1. /\ rowreq'[x].row = r /\ t_xmax'[r] \notin {NoXid, x} /\ infomask'[r] # "share"
      BY <1>1, <2>3 DEF Looks, looks_active, pageVars, TypeOK
    <3> QED
      BY <1>1, <2>1, <3>1 DEF Checks
  <2> QED
    BY <2>2, <2>3
<1>4. Holds'
  BY VerdictHolds
<1>5. RowNoLostWakeup'
  <2>1. ASSUME NEW y \in Xids, pc'[y] = "row_asleep"
        PROVE  /\ row_wait_registry'[y] \in active' \/ pc'[row_wait_registry'[y]] = "removed"
               /\ y \in victims' => row_to_notify'
    <3>1. y # x /\ pc[y] = "row_asleep" /\ row_wait_registry'[y] = row_wait_registry[y]
      BY <1>1, <2>1
    <3>2. row_wait_registry[y] \in Xids
      BY <3>1 DEF EdgesAreWaits, TypeOK
    <3>3. pc[x] # "removed"
      BY DEF AtGate
    <3> QED
      BY <1>1, <3>1, <3>2, <3>3 DEF RowNoLostWakeup
  <2> QED
    BY <2>1 DEF RowNoLostWakeup
<1>6. EdgesAreWaits'
  BY <1>1 DEF EdgesAreWaits
<1> QED
  BY <1>1, <1>2, <1>3, <1>4, <1>5, <1>6

(* The four calls of the gate.                                             *)
LEMMA GateStep ==
  ASSUME IInv, NEW x \in Xids,
         \/ \E r \in Rows, q \in Requests : lock_row(x, r, q)
         \/ restart(x) \/ extended(x) \/ gate_is_active(x)
  PROVE  \E r \in Rows, q \in LockRequest : AtGate(x, r) /\ Verdict(x, r, q)
<1> USE DEF IInv
<1>1. ASSUME NEW r \in Rows, NEW q \in LockRequest, row_lock_gate(x, r, q),
             pc[x] \in {"idle", "row_restart", "row_extending"}, x \in active
      PROVE  AtGate(x, r) /\ Verdict(x, r, q)
  <2>1. AtGate(x, r)
    BY <1>1 DEF AtGate, Lives, row_lock_gate, Latched
  <2> QED
    BY <1>1, <2>1, GateVerdict DEF AtGate
<1>2. CASE \E r \in Rows, q \in Requests : lock_row(x, r, q)
  BY <1>1, <1>2, RowLockAssumption DEF lock_row
<1>3. CASE restart(x) \/ extended(x)
  <2>1. /\ rowreq[x].row \in Rows /\ rowreq[x].request \in LockRequest /\ x \in active
        /\ pc[x] \in {"row_restart", "row_extending"}
    BY <1>3 DEF restart, extended, Lives, InCall, Call
  <2> QED
    BY <1>1, <1>3, <2>1 DEF restart, extended
<1>4. CASE gate_is_active(x)
  <2>1. pc[x] = "row_checking"
    BY <1>4 DEF gate_is_active
  <2>2. rowreq[x].row \in Rows /\ rowreq[x].request \in LockRequest
    BY <2>1 DEF Lives, InCall, Call
  <2>3. AtGate(x, rowreq[x].row)
    BY <2>1 DEF AtGate, Lives, InCall, Checks
  <2> QED
    BY <1>4, <2>2, <2>3, CheckVerdict
<1> QED
  BY <1>2, <1>3, <1>4

----------------------------------------------------------------------------
(* The other steps.                                                        *)

LEMMA InitIInv == RowInit => IInv
<1> SUFFICES ASSUME RowInit PROVE IInv
  OBVIOUS
<1> USE DEF RowInit
<1>1. NoXid \notin Xids
  BY RowLockAssumption
<1>2. TypeOK
  BY <1>1 DEF TypeOK, RowPc
<1>3. Lives /\ Checks /\ RowNoLostWakeup /\ EdgesAreWaits
  BY DEF Lives, InCall, Checks, RowNoLostWakeup, EdgesAreWaits
<1>4. Holds
  BY DEF Holds, Strong
<1> QED
  BY <1>2, <1>3, <1>4 DEF IInv

(* A step that leaves stamps, registry, locks, commit log and active set   *)
(* alone, and moves x within its call or out of it.                        *)
LEMMA WaitIInv ==
  ASSUME IInv, NEW x \in Xids, wait_for(x) \/ extended_too_late(x)
  PROVE  IInv'
<1> USE DEF IInv
<1>1. UNCHANGED <<t_xmax, infomask, share_locks, clog, active, row_to_notify, held>>
  BY DEF wait_for, extended_too_late, pageVars, endVars
<1>2. /\ pc[x] \in {"row_wait", "row_extending"}
      /\ pc[x] = "row_extending" => row_wait_registry' = row_wait_registry
      /\ victims' \subseteq victims
      /\ \/ /\ pc' = [pc EXCEPT ![x] = "idle"] /\ rowreq' = [rowreq EXCEPT ![x] = NoCall]
            /\ row_wait_registry' = [row_wait_registry EXCEPT ![x] = NoXid]
         \/ /\ pc' = [pc EXCEPT ![x] = "row_restart"] /\ rowreq' = rowreq
            /\ \/ row_wait_registry' = [row_wait_registry EXCEPT ![x] = NoXid]
               \/ pc[x] = "row_extending"
         \/ /\ pc' = [pc EXCEPT ![x] = "row_asleep"] /\ UNCHANGED <<rowreq, row_wait_registry>>
            /\ x \notin victims' /\ row_wait_registry[x] \in active /\ pc[x] = "row_wait"
  BY DEF wait_for, extended_too_late, Return
<1>3. TypeOK'
  BY <1>1, <1>2 DEF TypeOK, RowPc
<1>4. Lives' /\ Checks'
  BY <1>1, <1>2 DEF TypeOK, Lives, Checks, InCall
<1>5. Holds'
  BY <1>1 DEF Holds, Strong
<1>6. EdgesAreWaits'
  BY <1>2 DEF TypeOK, EdgesAreWaits
<1>7. RowNoLostWakeup'
  <2>1. ASSUME NEW y \in Xids \ {x}, pc[y] = "row_asleep"
        PROVE  /\ row_wait_registry'[y] = row_wait_registry[y] /\ row_wait_registry[y] \in Xids
               /\ pc'[row_wait_registry[y]] = "removed" <=> pc[row_wait_registry[y]] = "removed"
    BY <1>2, <2>1 DEF TypeOK, EdgesAreWaits
  <2> QED
    BY <1>1, <1>2, <2>1 DEF TypeOK, RowNoLostWakeup
<1> QED
  BY <1>3, <1>4, <1>5, <1>6, <1>7

LEMMA FlipIInv ==
  ASSUME IInv, NEW x \in Xids, end_flip(x)
  PROVE  IInv'
<1> USE DEF IInv
<1>1. PICK s \in {"Committed", "Aborted"} : clog' = [clog EXCEPT ![x] = s]
  BY RowLockAssumption DEF end_flip
<1>2. /\ pc[x] = "idle" /\ x \in active /\ victims' = victims \ {x}
      /\ held' = [r \in Rows |-> [held[r] EXCEPT ![x] = {}]]
      /\ pc' = [pc EXCEPT ![x] = "flipped"]
      /\ UNCHANGED <<t_xmax, infomask, share_locks, active, row_wait_registry, rowreq, row_to_notify>>
  BY DEF end_flip, pageVars
<1>3. TypeOK'
  <2>1. held' \in [Rows -> [Xids -> SUBSET (LockRequest \cup {"forgotten"})]]
    BY <1>2 DEF TypeOK
  <2> QED
    BY <1>1, <1>2, <2>1 DEF TypeOK, RowPc
<1>4. Lives' /\ Checks' /\ EdgesAreWaits'
  BY <1>1, <1>2 DEF TypeOK, Lives, Checks, InCall, EdgesAreWaits
<1>5. Holds'
  <2>1. \A r \in Rows : /\ held'[r][x] = {}
                        /\ \A y \in Xids \ {x} : held'[r][y] = held[r][y] /\ clog'[y] = clog[y]
    BY <1>1, <1>2 DEF TypeOK
  <2>2. clog'[x] # "InProgress"
    BY <1>1 DEF TypeOK
  <2>3. \A r \in Rows : infomask[r] \in {"real", "lock"} => t_xmax[r] \in Xids
    BY DEF TypeOK
  <2>4. ASSUME NEW r \in Rows, NEW y \in Xids
        PROVE  (/\ held[r][y] # {} => clog[y] = "InProgress"
                /\ Strong(r, y) => /\ t_xmax[r] = y /\ infomask[r] \in {"real", "lock"}
                                   /\ "forgotten" \notin held[r][y]
                /\ held[r][y] = {"Shared"} => /\ infomask[r] = "share"
                                              /\ y \in share_locks[r] \cup {t_xmax[r]}
                /\ "forgotten" \in held[r][y] => "Shared" \in held[r][y])'
    <3>1. CASE y = x
      BY <2>1, <3>1 DEF Strong
    <3>2. CASE y # x
      BY <1>2, <2>1, <3>2 DEF Holds, Strong
    <3> QED
      BY <3>1, <3>2
  <2>5. ASSUME NEW r \in Rows
        PROVE  (infomask[r] \in {"real", "lock"} /\ clog[t_xmax[r]] = "InProgress" =>
                  Strong(r, t_xmax[r]))'
    BY <1>2, <2>1, <2>2, <2>3 DEF Holds, Strong
  <2> QED
    BY <2>4, <2>5 DEF Holds
<1>6. RowNoLostWakeup'
  BY <1>2 DEF TypeOK, RowNoLostWakeup
<1> QED
  BY <1>3, <1>4, <1>5, <1>6

LEMMA EndIInv ==
  ASSUME IInv, NEW x \in Xids, end_remove(x) \/ end_notify(x)
  PROVE  IInv'
<1> USE DEF IInv
<1>1. CASE end_remove(x)
  <2>1. /\ pc[x] = "flipped" /\ active' = active \ {x} /\ pc' = [pc EXCEPT ![x] = "removed"]
        /\ UNCHANGED <<t_xmax, infomask, share_locks, clog, row_wait_registry, rowreq, victims,
                       row_to_notify, held>>
    BY <1>1 DEF end_remove, pageVars
  <2>2. TypeOK'
    BY <2>1 DEF TypeOK, RowPc
  <2>3. Lives' /\ Checks' /\ EdgesAreWaits'
    BY <2>1 DEF TypeOK, Lives, Checks, InCall, EdgesAreWaits
  <2>4. Holds'
    BY <2>1 DEF Holds, Strong
  <2>5. RowNoLostWakeup'
    BY <2>1 DEF TypeOK, RowNoLostWakeup
  <2> QED
    BY <2>2, <2>3, <2>4, <2>5
<1>2. CASE end_notify(x)
  <2>1. /\ pc[x] = "removed" /\ pc' = [RowWoken(pc) EXCEPT ![x] = "idle"]
        /\ UNCHANGED <<t_xmax, infomask, share_locks, clog, active, row_wait_registry, rowreq,
                       victims, row_to_notify, held>>
    BY <1>2 DEF end_notify, pageVars, endVars
  <2>2. /\ pc'[x] = "idle"
        /\ \A y \in Xids \ {x} : pc'[y] = IF pc[y] = "row_asleep" THEN "row_wait" ELSE pc[y]
    BY <2>1 DEF RowWoken
  <2>3. TypeOK'
    BY <2>1 DEF TypeOK, RowPc, RowWoken
  <2>4. Lives' /\ Checks' /\ EdgesAreWaits' /\ RowNoLostWakeup'
    BY <2>1, <2>2 DEF Lives, Checks, InCall, EdgesAreWaits, RowNoLostWakeup
  <2>5. Holds'
    BY <2>1 DEF Holds, Strong
  <2> QED
    BY <2>3, <2>4, <2>5
<1> QED
  BY <1>1, <1>2

LEMMA DetectorIInv ==
  ASSUME IInv, notify_row_waiters \/ \E x \in Xids : mark(x)
  PROVE  IInv'
<1> USE DEF IInv
<1>1. CASE \E x \in Xids : mark(x)
  BY <1>1 DEF mark, pageVars, endVars, TypeOK, Lives, Checks, Holds, Strong, RowNoLostWakeup,
              EdgesAreWaits
<1>2. CASE notify_row_waiters
  <2>1. /\ row_to_notify' = FALSE /\ pc' = RowWoken(pc)
        /\ UNCHANGED <<t_xmax, infomask, share_locks, clog, active, row_wait_registry, rowreq,
                       victims, held>>
    BY <1>2 DEF notify_row_waiters, pageVars, endVars
  <2>2. \A y \in Xids : pc'[y] = IF pc[y] = "row_asleep" THEN "row_wait" ELSE pc[y]
    BY <2>1 DEF RowWoken
  <2>3. TypeOK'
    BY <2>1 DEF TypeOK, RowPc, RowWoken
  <2>4. Lives' /\ Checks' /\ EdgesAreWaits' /\ RowNoLostWakeup'
    BY <2>1, <2>2 DEF Lives, Checks, InCall, EdgesAreWaits, RowNoLostWakeup
  <2>5. Holds'
    BY <2>1 DEF Holds, Strong
  <2> QED
    BY <2>3, <2>4, <2>5
<1> QED
  BY <1>1, <1>2

LEMMA NextIInv == IInv /\ [RowNext]_rowVars => IInv'
<1> SUFFICES ASSUME IInv, [RowNext]_rowVars PROVE IInv'
  OBVIOUS
<1>1. CASE UNCHANGED rowVars
  BY <1>1 DEF rowVars, pageVars, endVars, IInv, TypeOK, Lives, Checks, Holds, Strong,
              RowNoLostWakeup, EdgesAreWaits
<1>2. ASSUME NEW x \in Xids,
             \/ \E r \in Rows, q \in Requests : lock_row(x, r, q)
             \/ restart(x) \/ extended(x) \/ gate_is_active(x)
      PROVE  IInv'
  BY <1>2, GateStep, VerdictIInv
<1>3. ASSUME NEW x \in Xids, extended_too_late(x) \/ wait_for(x) PROVE IInv'
  BY <1>3, WaitIInv
<1>4. ASSUME NEW x \in Xids, end_flip(x) PROVE IInv'
  BY <1>4, FlipIInv
<1>5. ASSUME NEW x \in Xids, end_remove(x) \/ end_notify(x) PROVE IInv'
  BY <1>5, EndIInv
<1>6. CASE notify_row_waiters \/ \E x \in Xids : mark(x)
  BY <1>6, DetectorIInv
<1> QED
  BY <1>1, <1>2, <1>3, <1>4, <1>5, <1>6 DEF RowNext

----------------------------------------------------------------------------

(* Two running transactions hold a row together only if both share it, but *)
(* for the shared lock that an update of its own holder mislays; a sleeper *)
(* has a broadcast coming; and a wait edge is registered exactly while its *)
(* owner waits.  For any number of transactions and rows, any mix of       *)
(* requests, and whichever pages are full.                                 *)
THEOREM RowLocksAreSound == RowSpec => []RowLocksSound
<1>1. IInv => RowLocksSound
  <2> SUFFICES ASSUME IInv PROVE RowExclusionElse
    BY DEF IInv, RowLocksSound
  <2> USE DEF IInv
  <2>1. ASSUME NEW r \in Rows, NEW x \in Xids, NEW y \in Xids, x # y, Held(r, x) # {},
               Held(r, y) # {}, ~ (Held(r, x) \subseteq {"Shared"})
        PROVE  held[r][y] = {"Shared", "forgotten"}
    <3>1. Strong(r, x) /\ held[r][y] # {}
      BY <2>1 DEF Held, Strong, LockRequest
    <3>2. t_xmax[r] = x /\ infomask[r] \in {"real", "lock"}
      BY <3>1 DEF Holds
    <3>3. ~Strong(r, y) /\ held[r][y] # {"Shared"}
      BY <2>1, <3>2 DEF Holds
    <3>4. "forgotten" \in held[r][y] /\ "Shared" \in held[r][y]
      BY <3>1, <3>3, HeldCases DEF Holds
    <3>5. held[r][y] \subseteq {"Shared", "Exclusive", "Writer", "forgotten"}
      BY DEF TypeOK, LockRequest
    <3> QED
      BY <3>3, <3>4, <3>5 DEF Strong
  <2> QED
    BY <2>1 DEF RowExclusionElse, Compatible
<1> QED
  BY InitIInv, NextIInv, <1>1, PTL DEF RowSpec

(* First updater wins: once the transaction of a real stamp has committed, *)
(* no gate stamps over it, not even one that read the commit log before    *)
(* the commit and the active set after the end.                            *)
THEOREM FirstUpdaterAlwaysWins == RowSpec => FirstUpdaterWins
<1>1. IInv /\ [RowNext]_rowVars => [KeepsCommittedStamps]_rowVars
  <2> SUFFICES ASSUME IInv, RowNext PROVE KeepsCommittedStamps
    OBVIOUS
  <2>1. CASE UNCHANGED <<t_xmax, infomask>>
    BY <2>1 DEF KeepsCommittedStamps
  <2>2. ASSUME NEW x \in Xids, NEW r \in Rows, NEW q \in LockRequest, Verdict(x, r, q)
        PROVE  KeepsCommittedStamps
    <3>1. CASE Stamps(x, r, q)
      <4>1. \A s \in Rows \ {r} : t_xmax'[s] = t_xmax[s] /\ infomask'[s] = infomask[s]
        BY <3>1 DEF Stamps, Proceed, Stamp, NoRoom, IInv, TypeOK
      <4>2. ~CommittedReal(r)
        BY <3>1 DEF Stamps
      <4> QED
        BY <4>1, <4>2 DEF KeepsCommittedStamps, CommittedReal
    <3>2. CASE ~Stamps(x, r, q)
      BY <2>1, <2>2, <3>2 DEF Verdict, Joins, NoStamp, Fail, Waits, Wait, Looks, looks_active,
                              pageVars
    <3> QED
      BY <3>1, <3>2
  <2>3. ASSUME NEW x \in Xids,
               \/ \E r \in Rows, q \in Requests : lock_row(x, r, q)
               \/ restart(x) \/ extended(x) \/ gate_is_active(x)
        PROVE  KeepsCommittedStamps
    BY <2>2, <2>3, GateStep
  <2>4. ASSUME NEW x \in Xids,
               \/ extended_too_late(x) \/ wait_for(x) \/ end_flip(x) \/ end_remove(x)
               \/ end_notify(x) \/ mark(x)
        PROVE  KeepsCommittedStamps
    BY <2>1, <2>4 DEF extended_too_late, wait_for, end_flip, end_remove, end_notify, mark, pageVars
  <2>5. CASE notify_row_waiters
    BY <2>1, <2>5 DEF notify_row_waiters, pageVars
  <2> QED
    BY <2>3, <2>4, <2>5 DEF RowNext
<1> QED
  BY InitIInv, NextIInv, <1>1, PTL DEF RowSpec, FirstUpdaterWins
=============================================================================
