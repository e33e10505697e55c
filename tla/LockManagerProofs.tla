------------------------- MODULE LockManagerProofs -------------------------
(***************************************************************************)
(* Proofs about LockManager, for any set of transactions and tables.       *)
(***************************************************************************)
EXTENDS LockManager, WellFoundedInduction, SequenceTheorems, TLAPS

(***************************************************************************)
(* The invariants of one LockEntry, on a granted map g and a queue q.      *)
(* EWeaker is the strengthening: a queued request is stronger than what    *)
(* its owner holds, or a turn of the loop could grant it by the first gate *)
(* of can_grant and leave it in the middle of the queue.                   *)
(***************************************************************************)
EType(g, q) == g \in [Xids -> LockMode \cup {None}] /\ q \in Seq(Waiter)

ECompatible(g) ==
  \A x, y \in Xids : x # y /\ g[x] # None /\ g[y] # None
                        => ~conflicts_with(g[x], g[y])

EUnique(q) == \A i, j \in DOMAIN q : q[i].xid = q[j].xid => i = j

EWeaker(g, q) == \A i \in DOMAIN q : g[q[i].xid] < q[i].mode

EHeadBlocked(g, q) ==
  q # <<>> => ~FreeOfConflict(g, Head(q).xid, Head(q).mode)

Owners ==
  \A t \in Tables : \A i \in DOMAIN wait_queue[t] :
     LET w == wait_queue[t][i]
     IN /\ pc[w.xid] \in {"ready", "asleep"}
        /\ req[w.xid] = [table |-> t, mode |-> w.mode]

IInv == /\ TypeOK
        /\ \A t \in Tables : /\ ECompatible(granted[t])
                             /\ EUnique(wait_queue[t])
                             /\ EWeaker(granted[t], wait_queue[t])
                             /\ EHeadBlocked(granted[t], wait_queue[t])
        /\ Owners
        /\ NoLostWakeup

----------------------------------------------------------------------------
(* Facts about the conflict matrix and the queue operators.                *)

(* A non-empty set of naturals has a least element, which Min names.       *)
LEMMA MinNat ==
  ASSUME NEW S \in SUBSET Nat, S # {}
  PROVE  Min(S) \in S /\ \A y \in S : Min(S) <= y
<1> DEFINE R == {p \in Nat \X Nat : p[1] < p[2]}
<1>1. IsWellFoundedOn(R, Nat)
  BY NatLessThanWellFounded, Zenon DEF OpToRel
<1> HIDE DEF R
<1>2. PICK m \in S : \A y \in S : ~ (<<y, m>> \in R)
  BY <1>1, WFMin, Zenon
<1>3. \A y \in S : m <= y
  <2>1. SUFFICES ASSUME NEW y \in S, y < m PROVE FALSE
    OBVIOUS
  <2>2. <<y, m>> \in R
    BY <2>1 DEF R
  <2> QED
    BY <1>2, <2>2, Zenon
<1> QED
  BY <1>3, Zenon DEF Min

(* The matrix is symmetric, and a stronger mode conflicts with more.       *)
LEMMA ConflictFacts ==
  /\ \A a, b \in LockMode : conflicts_with(a, b) = conflicts_with(b, a)
  /\ \A a, b, c \in LockMode : a <= b /\ conflicts_with(a, c)
                                  => conflicts_with(b, c)
BY DEF conflicts_with, LockMode, AccessShare, RowExclusive, Exclusive,
       AccessExclusive

(* An element of a queue is a request.                                     *)
LEMMA QueueElement ==
  ASSUME NEW q \in Seq(Waiter), NEW i \in DOMAIN q
  PROVE  q[i] \in Waiter /\ q[i].xid \in Xids /\ q[i].mode \in LockMode
<1>1. i \in 1..Len(q)
  BY LenProperties
<1>2. q[i] \in Waiter
  BY <1>1, ElementOfSeq
<1> QED
  BY <1>2 DEF Waiter

(* Retain removes the request of x and nothing else, keeping the order.    *)
LEMMA RetainFacts ==
  ASSUME NEW q \in Seq(Waiter), EUnique(q), NEW x \in Xids
  PROVE  /\ Retain(q, x) \in Seq(Waiter)
         /\ EUnique(Retain(q, x))
         /\ ~Queued(Retain(q, x), x)
         /\ \A i \in DOMAIN Retain(q, x) :
               \E j \in DOMAIN q : /\ Retain(q, x)[i] = q[j]
                                   /\ j >= i
                                   /\ \A k \in 1..(j - 1) :
                                         \/ q[k].xid = x
                                         \/ \E l \in 1..(i - 1) :
                                               Retain(q, x)[l] = q[k]
         /\ \A j \in DOMAIN q : q[j].xid # x =>
               \E i \in DOMAIN Retain(q, x) : Retain(q, x)[i] = q[j]
<1>1. CASE ~Queued(q, x)
  BY <1>1 DEF Retain, Queued
<1>2. CASE Queued(q, x)
  <2> DEFINE at == CHOOSE i \in DOMAIN q : q[i].xid = x
             r == [i \in 1..(Len(q) - 1) |-> IF i < at THEN q[i] ELSE q[i + 1]]
  <2>1. at \in 1..Len(q) /\ q[at].xid = x
    BY <1>2 DEF Queued
  <2>2. Retain(q, x) = r
    BY <1>2 DEF Retain
  <2> HIDE DEF at
  <2>3. Len(q) \in Nat /\ Len(q) - 1 \in Nat /\ q \in [1..Len(q) -> Waiter]
    BY <2>1
  <2>4. r \in Seq(Waiter) /\ Len(r) = Len(q) - 1 /\ DOMAIN r = 1..(Len(q) - 1)
    <3>1. r \in [1..(Len(q) - 1) -> Waiter]
      BY <2>1, <2>3
    <3> QED
      BY <3>1, <2>3, IsASeq, LenProperties
  <2>5. \A i \in DOMAIN r : r[i] = IF i < at THEN q[i] ELSE q[i + 1]
    BY <2>4
  <2> HIDE DEF r
  <2>6. EUnique(r)
    BY <2>1, <2>3, <2>4, <2>5 DEF EUnique
  <2>7. ~Queued(r, x)
    BY <2>1, <2>3, <2>4, <2>5 DEF EUnique, Queued
  <2>8. ASSUME NEW i \in DOMAIN r
        PROVE  \E j \in DOMAIN q : /\ r[i] = q[j]
                                   /\ j >= i
                                   /\ \A k \in 1..(j - 1) :
                                         \/ q[k].xid = x
                                         \/ \E l \in 1..(i - 1) : r[l] = q[k]
    <3> DEFINE j == IF i < at THEN i ELSE i + 1
    <3>1. j \in DOMAIN q /\ r[i] = q[j] /\ j >= i
      BY <2>1, <2>3, <2>4, <2>5
    <3>2. ASSUME NEW k \in 1..(j - 1), q[k].xid # x
          PROVE  \E l \in 1..(i - 1) : r[l] = q[k]
      <4> DEFINE l == IF k < at THEN k ELSE k - 1
      <4>1. k # at
        BY <2>1, <3>2
      <4>2. l \in 1..(i - 1) /\ l \in DOMAIN r
        BY <2>1, <2>3, <2>4, <3>1, <4>1
      <4>3. r[l] = q[k]
        BY <2>1, <2>3, <2>4, <2>5, <4>1, <4>2
      <4> QED
        BY <4>2, <4>3
    <3> QED
      BY <3>1, <3>2
  <2>9. ASSUME NEW j \in DOMAIN q, q[j].xid # x
        PROVE  \E i \in DOMAIN r : r[i] = q[j]
    <3> DEFINE i == IF j < at THEN j ELSE j - 1
    <3>1. j # at
      BY <2>1, <2>9
    <3>2. i \in DOMAIN r /\ r[i] = q[j]
      BY <2>1, <2>3, <2>4, <2>5, <3>1
    <3> QED
      BY <3>2
  <2> QED
    BY <2>2, <2>4, <2>6, <2>7, <2>8, <2>9
<1> QED
  BY <1>1, <1>2

(* The granted map after n turns of regrant_heads: the owners of the first *)
(* n requests hold what they asked for, the others what they held.         *)
LEMMA AfterHeadsFacts ==
  ASSUME NEW g, NEW q, EType(g, q), EUnique(q), EWeaker(g, q),
         NEW n \in 0..Len(q)
  PROVE  /\ AfterHeads(g, q, n) \in [Xids -> LockMode \cup {None}]
         /\ \A i \in 1..n : AfterHeads(g, q, n)[q[i].xid] = q[i].mode
         /\ \A x \in Xids : (\A i \in 1..n : q[i].xid # x)
                               => AfterHeads(g, q, n)[x] = g[x]
<1> DEFINE h == AfterHeads(g, q, n)
<1>1. \A i \in 1..n : i \in DOMAIN q /\ q[i] \in Waiter
  BY DEF EType
<1>2. ASSUME NEW i \in 1..n PROVE h[q[i].xid] = q[i].mode
  <2>1. q[i].xid \in Xids /\ q[i].mode \in LockMode
    BY <1>1 DEF Waiter
  <2>2. (CHOOSE j \in 1..n : q[j].xid = q[i].xid) = i
    BY <1>1 DEF EUnique
  <2>3. h[q[i].xid] = Stronger(g[q[i].xid], q[i].mode)
    BY <2>1, <2>2 DEF AfterHeads
  <2>4. g[q[i].xid] < q[i].mode /\ g[q[i].xid] \in LockMode \cup {None}
    BY <1>1, <2>1 DEF EWeaker, EType
  <2> QED
    BY <2>1, <2>3, <2>4 DEF Stronger, LockMode, None, AccessShare, AccessExclusive
<1>3. ASSUME NEW x \in Xids, \A i \in 1..n : q[i].xid # x PROVE h[x] = g[x]
  BY <1>3 DEF AfterHeads
<1>4. ASSUME NEW x \in Xids PROVE h[x] \in LockMode \cup {None}
  <2>1. CASE \E i \in 1..n : q[i].xid = x
    BY <2>1, <1>1, <1>2 DEF Waiter
  <2>2. CASE \A i \in 1..n : q[i].xid # x
    BY <2>2, <1>3 DEF EType
  <2> QED
    BY <2>1, <2>2
<1>5. h = [x \in Xids |-> h[x]]
  BY DEF AfterHeads
<1> QED
  BY <1>2, <1>3, <1>4, <1>5

(* The walk of regrant_heads: it grants a prefix of the queue, each        *)
(* request free of conflict when its turn came, and stops at the end or at *)
(* a request that really conflicts.                                        *)
LEMMA WalkFacts ==
  ASSUME NEW g, NEW q, EType(g, q), EUnique(q), EWeaker(g, q)
  PROVE  /\ HeadsGranted(g, q) \in 0..Len(q)
         /\ \A i \in 1..HeadsGranted(g, q) :
               FreeOfConflict(AfterHeads(g, q, i - 1), q[i].xid, q[i].mode)
         /\ HeadsGranted(g, q) < Len(q) =>
               LET w == q[HeadsGranted(g, q) + 1]
               IN ~FreeOfConflict(RegrantGranted(g, q), w.xid, w.mode)
<1> DEFINE n == HeadsGranted(g, q)
           R == Refused(g, q)
<1>1. Len(q) \in Nat /\ DOMAIN q = 1..Len(q) /\ \A i \in 1..Len(q) : q[i] \in Waiter
  BY DEF EType
<1>2. ASSUME NEW i \in 1..Len(q)
      PROVE  i \in R <=> ~FreeOfConflict(AfterHeads(g, q, i - 1),
                                         q[i].xid, q[i].mode)
  <2> DEFINE h == AfterHeads(g, q, i - 1)
  <2>1. q[i].xid \in Xids /\ q[i].mode \in LockMode
    BY <1>1 DEF Waiter
  <2>2. i - 1 \in 0..Len(q)
    BY <1>1
  <2>3. \A j \in 1..(i - 1) : q[j].xid # q[i].xid
    BY <1>1 DEF EUnique
  <2>4. h[q[i].xid] = g[q[i].xid]
    BY <2>1, <2>2, <2>3, AfterHeadsFacts
  <2>5. ~(h[q[i].xid] >= q[i].mode)
    <3>1. g[q[i].xid] < q[i].mode /\ g[q[i].xid] \in LockMode \cup {None}
      BY <1>1, <2>1 DEF EWeaker, EType
    <3> QED
      BY <3>1, <2>1, <2>4 DEF LockMode, None, AccessShare, AccessExclusive
  <2>6. <<q[i]>> # <<>> /\ Head(<<q[i]>>) = q[i]
    OBVIOUS
  <2>7. can_grant(h, <<q[i]>>, q[i].xid, q[i].mode)
           <=> FreeOfConflict(h, q[i].xid, q[i].mode)
    BY <2>5, <2>6 DEF can_grant
  <2> QED
    BY <2>7 DEF Refused
<1>3. R \subseteq 1..Len(q)
  BY DEF Refused
<1>4. CASE R = {}
  <2>1. n = Len(q)
    BY <1>4 DEF HeadsGranted
  <2> QED
    BY <1>1, <1>2, <1>4, <2>1
<1>5. CASE R # {}
  <2>1. Min(R) \in R /\ \A y \in R : Min(R) <= y
    BY <1>3, <1>5, MinNat
  <2>2. n = Min(R) - 1
    BY <1>5 DEF HeadsGranted
  <2>3. Min(R) \in 1..Len(q)
    BY <1>3, <2>1
  <2> HIDE DEF R
  <2>4. n \in 0..Len(q) /\ n + 1 = Min(R) /\ n + 1 \in 1..Len(q)
    BY <1>1, <2>2, <2>3
  <2>5. \A i \in 1..n : i \in 1..Len(q) /\ i \notin R
    BY <1>1, <2>1, <2>3, <2>4
  <2>6. ~FreeOfConflict(AfterHeads(g, q, n), q[n + 1].xid, q[n + 1].mode)
    <3>1. (n + 1) - 1 = n
      BY <2>4
    <3> QED
      BY <1>2, <2>1, <2>4, <3>1
  <2> QED
    BY <1>2, <2>4, <2>5, <2>6 DEF RegrantGranted
<1> QED
  BY <1>4, <1>5

(* What regrant_heads does to an entry: every entry invariant holds after  *)
(* it, the queue is a suffix of what it was, and a grant only grows, for   *)
(* the owners of the requests it took off the queue.                       *)
LEMMA RegrantFacts ==
  ASSUME NEW g, NEW q, EType(g, q), ECompatible(g), EUnique(q), EWeaker(g, q)
  PROVE  LET n == HeadsGranted(g, q)
             h == RegrantGranted(g, q)
             r == RegrantQueue(g, q)
         IN /\ n \in 0..Len(q)
            /\ EType(h, r) /\ ECompatible(h) /\ EUnique(r)
            /\ EWeaker(h, r) /\ EHeadBlocked(h, r)
            /\ DOMAIN r = 1..(Len(q) - n)
            /\ \A i \in DOMAIN r : i + n \in DOMAIN q /\ r[i] = q[i + n]
            /\ \A i \in 1..n : ~Queued(r, q[i].xid)
            /\ \A x \in Xids : h[x] >= g[x]
            /\ \A x \in Xids : h[x] # g[x] => \E i \in 1..n : q[i].xid = x
<1> DEFINE n == HeadsGranted(g, q)
           h == RegrantGranted(g, q)
           r == RegrantQueue(g, q)
<1>1. Len(q) \in Nat /\ DOMAIN q = 1..Len(q) /\ \A i \in 1..Len(q) : q[i] \in Waiter
  BY DEF EType
<1>2. n \in 0..Len(q)
  BY WalkFacts
<1>3. h = AfterHeads(g, q, n)
  BY DEF RegrantGranted
<1>4. /\ h \in [Xids -> LockMode \cup {None}]
      /\ \A i \in 1..n : h[q[i].xid] = q[i].mode
      /\ \A x \in Xids : (\A i \in 1..n : q[i].xid # x) => h[x] = g[x]
  BY <1>2, <1>3, AfterHeadsFacts
<1>5. /\ r \in Seq(Waiter) /\ Len(r) = Len(q) - n /\ DOMAIN r = 1..(Len(q) - n)
      /\ \A i \in DOMAIN r : i + n \in DOMAIN q /\ r[i] = q[i + n]
  <2>1. q \in Seq(Waiter) /\ n + 1 \in 1..(Len(q) + 1) /\ Len(q) \in n..Len(q)
    BY <1>1, <1>2 DEF EType
  <2>2. /\ SubSeq(q, n + 1, Len(q)) \in Seq(Waiter)
        /\ Len(SubSeq(q, n + 1, Len(q))) = Len(q) - n
        /\ \A i \in 1..(Len(q) - n) :
              SubSeq(q, n + 1, Len(q))[i] = q[i + n]
    BY <1>1, <1>2, <2>1
  <2> QED
    BY <1>1, <1>2, <2>2 DEF RegrantQueue
<1>6. \A i \in 1..n : i \in DOMAIN q /\ i - 1 \in 0..Len(q)
  BY <1>1, <1>2
<1> HIDE DEF n, h, r
<1>7. EUnique(r)
  BY <1>1, <1>2, <1>5 DEF EUnique
<1>8. \A i \in 1..n : ~Queued(r, q[i].xid)
  BY <1>1, <1>2, <1>5, <1>6 DEF EUnique, Queued
<1>9. EWeaker(h, r)
  <2>1. SUFFICES ASSUME NEW i \in DOMAIN r PROVE h[r[i].xid] < r[i].mode
    BY DEF EWeaker
  <2>2. \A j \in 1..n : q[j].xid # r[i].xid
    BY <1>8 DEF Queued
  <2>3. r[i] \in Waiter /\ i + n \in DOMAIN q /\ r[i] = q[i + n]
    BY <1>1, <1>5
  <2> QED
    BY <1>4, <2>2, <2>3 DEF EWeaker, Waiter
<1>10. EHeadBlocked(h, r)
  <2>1. SUFFICES ASSUME r # <<>> PROVE ~FreeOfConflict(h, Head(r).xid, Head(r).mode)
    BY DEF EHeadBlocked
  <2>2. 1 \in DOMAIN r /\ Head(r) = r[1]
    BY <1>5, <2>1
  <2>3. n < Len(q) /\ Head(r) = q[n + 1]
    BY <1>1, <1>2, <1>5, <2>2
  <2> QED
    BY <2>3, WalkFacts DEF n, h
<1>11. ECompatible(h)
  <2>1. \A i \in 1..n : FreeOfConflict(AfterHeads(g, q, i - 1), q[i].xid, q[i].mode)
    BY WalkFacts DEF n
  <2>2. ASSUME NEW i \in 1..n, NEW j \in 1..n, i < j
        PROVE  ~conflicts_with(q[i].mode, q[j].mode)
    <3>1. i \in 1..(j - 1) /\ i # j
      BY <2>2, <1>2
    <3>2. AfterHeads(g, q, j - 1)[q[i].xid] = q[i].mode
      BY <1>6, <3>1, AfterHeadsFacts
    <3>3. q[i].xid # q[j].xid /\ q[i].xid \in Xids /\ q[i].mode # None
      BY <1>1, <1>6, <3>1 DEF EUnique, Waiter, LockMode, None, AccessShare
    <3> QED
      BY <2>1, <3>2, <3>3 DEF FreeOfConflict
  <2>3. ASSUME NEW i \in 1..n, NEW y \in Xids, \A k \in 1..n : q[k].xid # y,
               g[y] # None
        PROVE  ~conflicts_with(g[y], q[i].mode)
    <3>1. \A k \in 1..(i - 1) : k \in 1..n
      BY <1>2
    <3>2. AfterHeads(g, q, i - 1)[y] = g[y]
      BY <1>6, <2>3, <3>1, AfterHeadsFacts
    <3> QED
      BY <2>1, <2>3, <3>2 DEF FreeOfConflict
  <2>4. SUFFICES ASSUME NEW x \in Xids, NEW y \in Xids, x # y,
                        h[x] # None, h[y] # None
                 PROVE  ~conflicts_with(h[x], h[y])
    BY DEF ECompatible
  <2>5. h[x] \in LockMode /\ h[y] \in LockMode
    BY <1>4, <2>4
  <2>6. conflicts_with(h[x], h[y]) = conflicts_with(h[y], h[x])
    BY <2>5, ConflictFacts
  <2>7. CASE \E i, j \in 1..n : q[i].xid = x /\ q[j].xid = y
    <3>1. PICK i \in 1..n, j \in 1..n : q[i].xid = x /\ q[j].xid = y
      BY <2>7
    <3>2. h[x] = q[i].mode /\ h[y] = q[j].mode
      BY <1>4, <3>1
    <3>3. i < j \/ j < i
      BY <1>2, <2>4, <3>1
    <3> QED
      BY <2>2, <2>6, <3>2, <3>3
  <2>8. CASE /\ \E i \in 1..n : q[i].xid = x
             /\ \A j \in 1..n : q[j].xid # y
    BY <1>4, <2>3, <2>4, <2>6, <2>8
  <2>9. CASE /\ \E i \in 1..n : q[i].xid = y
             /\ \A j \in 1..n : q[j].xid # x
    BY <1>4, <2>3, <2>4, <2>6, <2>9
  <2>10. CASE /\ \A j \in 1..n : q[j].xid # x
              /\ \A j \in 1..n : q[j].xid # y
    BY <1>4, <2>4, <2>10 DEF ECompatible
  <2> QED
    BY <2>7, <2>8, <2>9, <2>10
<1>12. ASSUME NEW x \in Xids
       PROVE  h[x] >= g[x] /\ (h[x] # g[x] => \E i \in 1..n : q[i].xid = x)
  <2>1. CASE \A i \in 1..n : q[i].xid # x
    BY <1>4, <2>1 DEF EType, LockMode, None, AccessShare, AccessExclusive
  <2>2. CASE \E i \in 1..n : q[i].xid = x
    <3>1. PICK i \in 1..n : q[i].xid = x
      BY <2>2
    <3>2. g[x] < q[i].mode /\ h[x] = q[i].mode
      BY <1>4, <1>6, <3>1 DEF EWeaker
    <3>3. g[x] \in Int /\ h[x] \in Int
      BY <1>4 DEF EType, LockMode, None, AccessShare, AccessExclusive
    <3> QED
      BY <3>1, <3>2, <3>3
  <2> QED
    BY <2>1, <2>2
<1>13. EType(h, r)
  BY <1>4, <1>5 DEF EType
<1> QED
  BY <1>2, <1>5, <1>7, <1>8, <1>9, <1>10, <1>11, <1>12, <1>13 DEF n, h, r

(* h and r are the granted map and the queue left of f and q when x has    *)
(* left the queue and the heads are regranted.                             *)
Left(f, q, x, h, r) ==
  /\ EType(h, r) /\ ECompatible(h) /\ EUnique(r)
  /\ EWeaker(h, r) /\ EHeadBlocked(h, r)
  /\ \A i \in DOMAIN r : \E j \in DOMAIN q : r[i] = q[j] /\ q[j].xid # x
  /\ \A y \in Xids : h[y] >= f[y]
  /\ \A y \in Xids : h[y] # f[y] =>
        \A i \in DOMAIN q : \/ ~Queued(r, q[i].xid)
                            \/ \E j \in 1..(i - 1) : q[j].xid = y

(* A transaction leaves a queue, keeping its grant (victim) or not         *)
(* (release_all): the entry invariants survive and nobody is overtaken.    *)
LEMMA LeaveFacts ==
  ASSUME NEW g, NEW q, NEW x \in Xids, NEW f, f \in {g, [g EXCEPT ![x] = None]},
         EType(g, q), ECompatible(g), EUnique(q), EWeaker(g, q)
  PROVE  Left(f, q, x, RegrantGranted(f, Retain(q, x)),
                       RegrantQueue(f, Retain(q, x)))
<1> DEFINE p == Retain(q, x)
           h == RegrantGranted(f, p)
           r == RegrantQueue(f, p)
           n == HeadsGranted(f, p)
<1>1. /\ p \in Seq(Waiter) /\ EUnique(p) /\ ~Queued(p, x)
      /\ \A i \in DOMAIN p :
            \E j \in DOMAIN q : /\ p[i] = q[j]
                                /\ j >= i
                                /\ \A k \in 1..(j - 1) :
                                      \/ q[k].xid = x
                                      \/ \E l \in 1..(i - 1) : p[l] = q[k]
  BY RetainFacts DEF EType
<1> HIDE DEF p
<1>2. f \in [Xids -> LockMode \cup {None}] /\ \A y \in Xids \ {x} : f[y] = g[y]
  BY DEF EType
<1>3. EType(f, p)
  BY <1>1, <1>2 DEF EType
<1>4. ECompatible(f)
  BY <1>2 DEF ECompatible, EType
<1>5. EWeaker(f, p)
  <2>1. SUFFICES ASSUME NEW i \in DOMAIN p PROVE f[p[i].xid] < p[i].mode
    BY DEF EWeaker
  <2>2. PICK j \in DOMAIN q : p[i] = q[j]
    BY <1>1
  <2>3. p[i].xid # x /\ p[i].xid \in Xids
    BY <1>1, QueueElement DEF Queued
  <2> QED
    BY <1>2, <2>2, <2>3 DEF EWeaker
<1>6. /\ n \in 0..Len(p)
      /\ EType(h, r) /\ ECompatible(h) /\ EUnique(r)
      /\ EWeaker(h, r) /\ EHeadBlocked(h, r)
      /\ \A i \in DOMAIN r : i + n \in DOMAIN p /\ r[i] = p[i + n]
      /\ \A i \in 1..n : ~Queued(r, p[i].xid)
      /\ \A y \in Xids : h[y] >= f[y]
      /\ \A y \in Xids : h[y] # f[y] => \E i \in 1..n : p[i].xid = y
  BY <1>1, <1>3, <1>4, <1>5, RegrantFacts
<1> HIDE DEF h, r, n
<1>7. ASSUME NEW i \in DOMAIN r
      PROVE  \E j \in DOMAIN q : r[i] = q[j] /\ q[j].xid # x
  <2>1. i + n \in DOMAIN p /\ r[i] = p[i + n]
    BY <1>6
  <2>2. PICK j \in DOMAIN q : p[i + n] = q[j]
    BY <1>1, <2>1
  <2> QED
    BY <1>1, <2>1, <2>2 DEF Queued
<1>8. ~Queued(r, x)
  BY <1>7 DEF Queued
<1>9. ASSUME NEW y \in Xids, h[y] # f[y], NEW i \in DOMAIN q
      PROVE  ~Queued(r, q[i].xid) \/ \E j \in 1..(i - 1) : q[j].xid = y
  <2>1. PICK m \in 1..n : p[m].xid = y
    BY <1>6, <1>9
  <2>2. m \in DOMAIN p
    BY <1>1, <1>6
  <2>3. PICK j \in DOMAIN q : /\ p[m] = q[j]
                              /\ \A k \in 1..(j - 1) :
                                    \/ q[k].xid = x
                                    \/ \E l \in 1..(m - 1) : p[l] = q[k]
    BY <1>1, <2>2
  <2>4. i \in Nat /\ j \in Nat /\ i >= 1 /\ j >= 1
    BY DEF EType
  <2>5. CASE i > j
    BY <2>1, <2>3, <2>4, <2>5
  <2>6. CASE i = j
    BY <1>6, <2>3, <2>6
  <2>7. CASE i < j
    <3>1. i \in 1..(j - 1)
      BY <2>4, <2>7
    <3>2. q[i].xid = x \/ \E l \in 1..(m - 1) : p[l] = q[i]
      BY <2>3, <3>1
    <3>3. \A l \in 1..(m - 1) : l \in 1..n
      BY <1>6
    <3> QED
      BY <1>6, <1>8, <3>2, <3>3
  <2> QED
    BY <2>4, <2>5, <2>6, <2>7
<1> QED
  BY <1>6, <1>7, <1>9 DEF h, r, p, Left

----------------------------------------------------------------------------
(* The invariant holds initially and every step preserves it.              *)

(* The manager starts with empty maps and queues and nobody in a call.     *)
LEMMA InitIInv == LockInit => IInv
<1> SUFFICES ASSUME LockInit PROVE IInv
  OBVIOUS
<1>1. TypeOK
  <2>1. wait_queue \in [Tables -> Seq(Waiter)]
    BY DEF LockInit
  <2>2. req \in [Xids -> [table : Tables, mode : LockMode]]
    BY DEF LockInit, LockMode, AccessShare, AccessExclusive
  <2> QED
    BY <2>1, <2>2 DEF LockInit, TypeOK, Pc
<1>2. ASSUME NEW t \in Tables
      PROVE  /\ ECompatible(granted[t]) /\ EUnique(wait_queue[t])
             /\ EWeaker(granted[t], wait_queue[t])
             /\ EHeadBlocked(granted[t], wait_queue[t])
  BY DEF LockInit, ECompatible, EUnique, EWeaker, EHeadBlocked
<1>3. Owners
  BY DEF LockInit, Owners
<1>4. NoLostWakeup
  BY DEF LockInit, NoLostWakeup
<1> QED
  BY <1>1, <1>2, <1>3, <1>4 DEF IInv

(* The call a thread is in: x's first turn, or another turn of the acquire *)
(* whose request is on record.                                             *)
InCall(x, t, m) == \/ pc[x] = "idle"
                   \/ pc[x] = "ready" /\ req[x] = [table |-> t, mode |-> m]

(* A thread that takes its turn is queued nowhere but on its own table,    *)
(* with its own mode.                                                      *)
LEMMA OwnQueue ==
  ASSUME IInv, NEW x \in Xids, NEW t \in Tables, NEW m \in LockMode,
         InCall(x, t, m), NEW u \in Tables, NEW i \in DOMAIN wait_queue[u],
         wait_queue[u][i].xid = x
  PROVE  pc[x] = "ready" /\ u = t /\ wait_queue[u][i].mode = m
<1>1. /\ pc[x] \in {"ready", "asleep"}
      /\ req[x] = [table |-> u, mode |-> wait_queue[u][i].mode]
  BY DEF IInv, Owners
<1> QED
  BY <1>1 DEF InCall

(* Every entry is well typed.                                              *)
LEMMA EntryType ==
  ASSUME TypeOK, NEW t \in Tables
  PROVE  EType(granted[t], wait_queue[t])
BY DEF TypeOK, EType

(* A victim leaving its queue with an error preserves the invariant.       *)
LEMMA TakeVictimStep ==
  ASSUME IInv, NEW x \in Xids, NEW t \in Tables, NEW m \in LockMode,
         InCall(x, t, m), TakeVictim(x, t)
  PROVE  IInv'
<1> DEFINE p == Retain(wait_queue[t], x)
           h == RegrantGranted(granted[t], p)
           r == RegrantQueue(granted[t], p)
<1>0. TypeOK /\ Owners /\ EType(granted[t], wait_queue[t])
  BY EntryType DEF IInv
<1>1. /\ EType(h, r) /\ ECompatible(h) /\ EUnique(r)
      /\ EWeaker(h, r) /\ EHeadBlocked(h, r)
      /\ \A i \in DOMAIN r : \E j \in DOMAIN wait_queue[t] :
            r[i] = wait_queue[t][j] /\ wait_queue[t][j].xid # x
  <2>1. /\ ECompatible(granted[t]) /\ EUnique(wait_queue[t])
        /\ EWeaker(granted[t], wait_queue[t])
    BY DEF IInv
  <2>2. granted[t] \in {granted[t], [granted[t] EXCEPT ![x] = None]}
    OBVIOUS
  <2>3. Left(granted[t], wait_queue[t], x, h, r)
    BY <1>0, <2>1, <2>2, LeaveFacts
  <2> QED
    BY <2>3 DEF Left
<1> HIDE DEF h, r
<1>2. /\ granted' = [granted EXCEPT ![t] = h]
      /\ wait_queue' = [wait_queue EXCEPT ![t] = r]
      /\ pc' = [Woken(pc) EXCEPT ![x] = "idle"]
      /\ req' = req /\ to_notify' = to_notify /\ victims' = victims \ {x}
  BY DEF TakeVictim, h, r
<1>3. \A y \in Xids : pc'[y] # "asleep" /\ pc'[y] \in Pc
                      /\ (y # x /\ pc[y] \in {"ready", "asleep"} => pc'[y] = "ready")
  BY <1>0, <1>2 DEF Woken, TypeOK, Pc
<1>4. TypeOK'
  <2>1. pc' \in [Xids -> Pc]
    BY <1>2, <1>3 DEF Woken
  <2>2. granted' \in [Tables -> [Xids -> LockMode \cup {None}]]
    BY <1>0, <1>1, <1>2 DEF TypeOK, EType
  <2>3. wait_queue' \in [Tables -> Seq(Waiter)]
    BY <1>0, <1>1, <1>2 DEF TypeOK, EType
  <2> QED
    BY <1>0, <1>2, <2>1, <2>2, <2>3 DEF TypeOK
<1>5. ASSUME NEW u \in Tables
      PROVE  /\ ECompatible(granted'[u]) /\ EUnique(wait_queue'[u])
             /\ EWeaker(granted'[u], wait_queue'[u])
             /\ EHeadBlocked(granted'[u], wait_queue'[u])
  <2>1. CASE u = t
    <3>1. granted'[u] = h /\ wait_queue'[u] = r
      BY <1>0, <1>2, <2>1 DEF TypeOK
    <3> QED
      BY <1>1, <3>1
  <2>2. CASE u # t
    <3>1. granted'[u] = granted[u] /\ wait_queue'[u] = wait_queue[u]
      BY <1>0, <1>2, <2>2 DEF TypeOK
    <3> QED
      BY <3>1 DEF IInv
  <2> QED
    BY <2>1, <2>2
<1>6. Owners'
  <2>1. SUFFICES ASSUME NEW u \in Tables, NEW i \in DOMAIN wait_queue'[u]
                 PROVE  LET w == wait_queue'[u][i]
                        IN /\ pc'[w.xid] \in {"ready", "asleep"}
                           /\ req'[w.xid] = [table |-> u, mode |-> w.mode]
    BY DEF Owners
  <2>2. \E j \in DOMAIN wait_queue[u] : /\ wait_queue'[u][i] = wait_queue[u][j]
                                        /\ wait_queue[u][j].xid # x
    <3>1. CASE u = t
      <4>1. wait_queue'[u] = r
        BY <1>0, <1>2, <3>1 DEF TypeOK
      <4> QED
        BY <1>1, <3>1, <4>1
    <3>2. CASE u # t
      <4>1. wait_queue'[u] = wait_queue[u]
        BY <1>0, <1>2, <3>2 DEF TypeOK
      <4> QED
        BY <3>2, <4>1, OwnQueue
    <3> QED
      BY <3>1, <3>2
  <2>3. PICK j \in DOMAIN wait_queue[u] :
           /\ wait_queue'[u][i] = wait_queue[u][j]
           /\ wait_queue[u][j].xid # x
    BY <2>2
  <2>4. wait_queue[u][j].xid \in Xids
    BY <1>0, QueueElement DEF TypeOK
  <2> QED
    BY <1>0, <1>2, <1>3, <2>3, <2>4 DEF Owners
<1>7. NoLostWakeup'
  BY <1>3 DEF NoLostWakeup
<1> QED
  BY <1>4, <1>5, <1>6, <1>7 DEF IInv

(* A grant either changes nothing in the entry (the mode was held) or      *)
(* finds the queue empty: a head that is free of conflict has already been *)
(* regranted, by EHeadBlocked.                                             *)
LEMMA GrantCases ==
  ASSUME IInv, NEW x \in Xids, NEW t \in Tables, NEW m \in LockMode,
         InCall(x, t, m), can_grant(granted[t], wait_queue[t], x, m)
  PROVE  /\ ~Queued(wait_queue[t], x)
         /\ PopOwn(wait_queue[t], x) = wait_queue[t]
         /\ \/ GrantTo(granted[t], x, m) = granted[t]
            \/ /\ wait_queue[t] = <<>>
               /\ FreeOfConflict(granted[t], x, m)
               /\ GrantTo(granted[t], x, m) = [granted[t] EXCEPT ![x] = m]
<1> DEFINE g == granted[t]
           q == wait_queue[t]
<1>1. /\ g \in [Xids -> LockMode \cup {None}] /\ q \in Seq(Waiter)
      /\ EWeaker(g, q) /\ EHeadBlocked(g, q) /\ EUnique(q)
  BY DEF IInv, TypeOK
<1>2. \A i \in DOMAIN q : q[i].xid = x => q[i].mode = m
  BY OwnQueue
<1> HIDE DEF g, q
<1>3. g[x] \in Int /\ m \in Int
  BY <1>1 DEF LockMode, None, AccessShare, AccessExclusive
<1>4. ~Queued(q, x)
  <2>1. SUFFICES ASSUME NEW i \in DOMAIN q, q[i].xid = x PROVE FALSE
    BY DEF Queued
  <2>2. g[x] < m
    BY <1>1, <1>2, <2>1 DEF EWeaker
  <2>3. Head(q).xid = x /\ FreeOfConflict(g, x, m) /\ q # <<>>
    BY <1>1, <1>3, <2>1, <2>2 DEF can_grant, g, q
  <2>4. 1 \in DOMAIN q /\ Head(q) = q[1]
    BY <1>1, <2>3
  <2> QED
    BY <1>1, <1>2, <2>3, <2>4 DEF EHeadBlocked
<1>5. PopOwn(q, x) = q
  <2>1. q # <<>> => Head(q).xid # x
    BY <1>1, <1>4 DEF Queued
  <2> QED
    BY <2>1 DEF PopOwn
<1>6. CASE g[x] >= m
  <2>1. GrantTo(g, x, m) = g
    BY <1>1, <1>6 DEF GrantTo, Stronger
  <2> QED
    BY <1>4, <1>5, <2>1 DEF g, q
<1>7. CASE ~(g[x] >= m)
  <2>1. FreeOfConflict(g, x, m) /\ (q # <<>> => Head(q).xid = x)
    BY <1>7 DEF can_grant, g, q
  <2>2. q = <<>>
    BY <1>1, <1>4, <2>1 DEF Queued
  <2>3. GrantTo(g, x, m) = [g EXCEPT ![x] = m]
    BY <1>7, <1>1 DEF GrantTo, Stronger
  <2> QED
    BY <1>4, <1>5, <2>1, <2>2, <2>3 DEF g, q
<1> QED
  BY <1>6, <1>7

(* A grant inside acquire preserves the invariant.                         *)
LEMMA GrantStep ==
  ASSUME IInv, NEW x \in Xids, NEW t \in Tables, NEW m \in LockMode,
         InCall(x, t, m), Grant(x, t, m)
  PROVE  IInv'
<1> DEFINE h == GrantTo(granted[t], x, m)
<1>0. TypeOK /\ Owners /\ NoLostWakeup
  BY DEF IInv
<1>1. /\ ~Queued(wait_queue[t], x)
      /\ PopOwn(wait_queue[t], x) = wait_queue[t]
      /\ \/ h = granted[t]
         \/ /\ wait_queue[t] = <<>>
            /\ FreeOfConflict(granted[t], x, m)
            /\ h = [granted[t] EXCEPT ![x] = m]
  BY GrantCases DEF Grant
<1>2. /\ granted' = [granted EXCEPT ![t] = h]
      /\ wait_queue' = wait_queue
      /\ pc' = [pc EXCEPT ![x] = "idle"]
      /\ UNCHANGED <<req, victims, to_notify>>
  BY <1>0, <1>1 DEF Grant, TypeOK
<1> HIDE DEF h
<1>3. h \in [Xids -> LockMode \cup {None}]
  <2>1. granted[t] \in [Xids -> LockMode \cup {None}]
    BY <1>0 DEF TypeOK
  <2>2. [granted[t] EXCEPT ![x] = m] \in [Xids -> LockMode \cup {None}]
    BY <2>1
  <2> QED
    BY <1>1, <2>1, <2>2
<1>4. TypeOK'
  BY <1>0, <1>2, <1>3 DEF TypeOK, Pc
<1>5. ECompatible(h)
  <2>1. CASE h = granted[t]
    BY <2>1 DEF IInv
  <2>2. CASE FreeOfConflict(granted[t], x, m) /\ h = [granted[t] EXCEPT ![x] = m]
    <3>1. granted[t] \in [Xids -> LockMode \cup {None}] /\ ECompatible(granted[t])
      BY DEF IInv, TypeOK
    <3>2. \A y \in Xids \ {x} : h[y] = granted[t][y]
      BY <2>2, <3>1
    <3>3. h[x] = m
      BY <2>2, <3>1
    <3>4. \A y \in Xids \ {x} : h[y] # None =>
             ~conflicts_with(h[y], h[x]) /\ ~conflicts_with(h[x], h[y])
      BY <2>2, <3>1, <3>2, <3>3, ConflictFacts DEF FreeOfConflict
    <3> QED
      BY <3>1, <3>2, <3>4 DEF ECompatible
  <2> QED
    BY <1>1, <2>1, <2>2
<1>6. EWeaker(h, wait_queue[t]) /\ EHeadBlocked(h, wait_queue[t])
  <2>1. CASE h = granted[t]
    BY <2>1 DEF IInv
  <2>2. CASE wait_queue[t] = <<>>
    BY <2>2 DEF EWeaker, EHeadBlocked
  <2> QED
    BY <1>1, <2>1, <2>2
<1>7. ASSUME NEW u \in Tables
      PROVE  /\ ECompatible(granted'[u]) /\ EUnique(wait_queue'[u])
             /\ EWeaker(granted'[u], wait_queue'[u])
             /\ EHeadBlocked(granted'[u], wait_queue'[u])
  <2>1. CASE u = t
    <3>1. granted'[u] = h /\ wait_queue'[u] = wait_queue[t]
      BY <1>0, <1>2, <2>1 DEF TypeOK
    <3> QED
      BY <1>5, <1>6, <3>1 DEF IInv
  <2>2. CASE u # t
    <3>1. granted'[u] = granted[u] /\ wait_queue'[u] = wait_queue[u]
      BY <1>0, <1>2, <2>2 DEF TypeOK
    <3> QED
      BY <3>1 DEF IInv
  <2> QED
    BY <2>1, <2>2
<1>8. \A u \in Tables : \A i \in DOMAIN wait_queue[u] : wait_queue[u][i].xid # x
  BY <1>1, OwnQueue DEF Queued
<1>9. Owners'
  BY <1>0, <1>2, <1>8 DEF Owners, TypeOK
<1>10. NoLostWakeup'
  <2>1. ASSUME NEW y \in Xids, pc'[y] = "asleep" PROVE y # x /\ pc[y] = "asleep"
    BY <1>0, <1>2, <2>1 DEF TypeOK
  <2> QED
    BY <1>0, <1>2, <2>1 DEF NoLostWakeup
<1> QED
  BY <1>4, <1>7, <1>9, <1>10 DEF IInv

(* Queueing a request, or going back to sleep, preserves the invariant.    *)
LEMMA SleepStep ==
  ASSUME IInv, NEW x \in Xids, NEW t \in Tables, NEW m \in LockMode,
         InCall(x, t, m), x \notin victims, Sleep(x, t, m)
  PROVE  IInv'
<1> DEFINE q == wait_queue[t]
           r == enqueue_if_absent(q, x, m)
           w == [xid |-> x, mode |-> m]
<1>0. TypeOK /\ Owners /\ NoLostWakeup
  BY DEF IInv
<1>1. /\ granted[t] \in [Xids -> LockMode \cup {None}] /\ q \in Seq(Waiter)
      /\ EUnique(q) /\ EWeaker(granted[t], q) /\ EHeadBlocked(granted[t], q)
  BY DEF IInv, TypeOK
<1>2. \A i \in DOMAIN q : q[i].xid = x => q[i].mode = m
  BY OwnQueue
<1>3. /\ granted' = granted
      /\ wait_queue' = [wait_queue EXCEPT ![t] = r]
      /\ pc' = [pc EXCEPT ![x] = "asleep"]
      /\ req' = [req EXCEPT ![x] = [table |-> t, mode |-> m]]
      /\ UNCHANGED <<victims, to_notify>>
      /\ ~can_grant(granted[t], q, x, m)
  BY DEF Sleep
<1>4. w \in Waiter
  BY DEF Waiter
<1>5. (q # <<>> /\ Head(q).xid # x) \/ ~FreeOfConflict(granted[t], x, m)
  BY <1>1, <1>3 DEF can_grant, LockMode, None, AccessShare, AccessExclusive
<1>6. granted[t][x] < m
  BY <1>1, <1>3 DEF can_grant, LockMode, None, AccessShare, AccessExclusive
<1> HIDE DEF q, w
<1>7. /\ r \in Seq(Waiter) /\ EUnique(r) /\ EWeaker(granted[t], r)
      /\ EHeadBlocked(granted[t], r) /\ Queued(r, x)
      /\ \A i \in DOMAIN r : \/ r[i].xid = x /\ r[i].mode = m
                             \/ i \in DOMAIN q /\ r[i] = q[i] /\ q[i].xid # x
  <2>1. CASE Queued(q, x)
    <3>1. r = q
      BY <2>1 DEF enqueue_if_absent
    <3> QED
      BY <1>1, <1>2, <2>1, <3>1
  <2>2. CASE ~Queued(q, x)
    <3>1. r = Append(q, w)
      BY <2>2 DEF enqueue_if_absent, w
    <3>2. /\ r \in Seq(Waiter) /\ DOMAIN r = 1..(Len(q) + 1)
          /\ DOMAIN q = 1..Len(q) /\ Len(q) \in Nat
          /\ \A i \in 1..Len(q) : r[i] = q[i]
          /\ r[Len(q) + 1] = w
      BY <1>1, <1>4, <3>1
    <3>3. w.xid = x /\ w.mode = m
      BY DEF w
    <3> HIDE DEF r
    <3>4. EUnique(r) /\ Queued(r, x)
      BY <1>1, <2>2, <3>2, <3>3 DEF EUnique, Queued
    <3>5. EWeaker(granted[t], r)
      BY <1>1, <1>6, <3>2, <3>3 DEF EWeaker
    <3>6. EHeadBlocked(granted[t], r)
      <4>1. CASE q = <<>>
        <5>1. Head(r) = w
          BY <3>2, <4>1
        <5> QED
          BY <1>5, <3>3, <4>1, <5>1 DEF EHeadBlocked
      <4>2. CASE q # <<>>
        <5>1. Head(r) = Head(q)
          BY <1>1, <3>2, <4>2
        <5> QED
          BY <1>1, <4>2, <5>1 DEF EHeadBlocked
      <4> QED
        BY <4>1, <4>2
    <3>7. \A i \in DOMAIN r : \/ r[i].xid = x /\ r[i].mode = m
                              \/ i \in DOMAIN q /\ r[i] = q[i] /\ q[i].xid # x
      BY <2>2, <3>2, <3>3 DEF Queued
    <3> QED
      BY <3>2, <3>4, <3>5, <3>6, <3>7
  <2> QED
    BY <2>1, <2>2
<1> HIDE DEF r
<1>8. TypeOK'
  <2>1. wait_queue' \in [Tables -> Seq(Waiter)]
    BY <1>0, <1>3, <1>7 DEF TypeOK
  <2>2. req' \in [Xids -> [table : Tables, mode : LockMode]]
    BY <1>0, <1>3 DEF TypeOK
  <2> QED
    BY <1>0, <1>3, <2>1, <2>2 DEF TypeOK, Pc
<1>9. ASSUME NEW u \in Tables
      PROVE  /\ ECompatible(granted'[u]) /\ EUnique(wait_queue'[u])
             /\ EWeaker(granted'[u], wait_queue'[u])
             /\ EHeadBlocked(granted'[u], wait_queue'[u])
  <2>1. CASE u = t
    <3>1. granted'[u] = granted[t] /\ wait_queue'[u] = r
      BY <1>0, <1>3, <2>1 DEF TypeOK
    <3> QED
      BY <1>7, <3>1 DEF IInv
  <2>2. CASE u # t
    <3>1. granted'[u] = granted[u] /\ wait_queue'[u] = wait_queue[u]
      BY <1>0, <1>3, <2>2 DEF TypeOK
    <3> QED
      BY <3>1 DEF IInv
  <2> QED
    BY <2>1, <2>2
<1>10. Owners'
  <2>1. SUFFICES ASSUME NEW u \in Tables, NEW i \in DOMAIN wait_queue'[u]
                 PROVE  LET v == wait_queue'[u][i]
                        IN /\ pc'[v.xid] \in {"ready", "asleep"}
                           /\ req'[v.xid] = [table |-> u, mode |-> v.mode]
    BY DEF Owners
  <2>2. CASE u = t /\ wait_queue'[u][i].xid = x
    <3>1. wait_queue'[u][i].mode = m
      BY <1>0, <1>2, <1>3, <1>7, <2>2 DEF TypeOK
    <3> QED
      BY <1>0, <1>3, <2>2, <3>1 DEF TypeOK
  <2>3. CASE u # t \/ wait_queue'[u][i].xid # x
    <3>1. /\ i \in DOMAIN wait_queue[u]
          /\ wait_queue'[u][i] = wait_queue[u][i]
          /\ wait_queue[u][i].xid # x
      BY <1>0, <1>3, <1>7, <2>1, <2>3, OwnQueue DEF TypeOK, q
    <3>2. wait_queue[u][i].xid \in Xids
      BY <1>0, <3>1, QueueElement DEF TypeOK
    <3> QED
      BY <1>0, <1>3, <3>1, <3>2 DEF Owners, TypeOK
  <2> QED
    BY <2>2, <2>3
<1>11. NoLostWakeup'
  <2>1. SUFFICES ASSUME NEW y \in Xids, pc'[y] = "asleep"
                 PROVE  /\ Queued(wait_queue'[req'[y].table], y)
                        /\ y \in victims' => to_notify'
    BY DEF NoLostWakeup
  <2>2. CASE y = x
    BY <1>0, <1>3, <1>7, <2>2 DEF TypeOK
  <2>3. CASE y # x
    <3>1. pc[y] = "asleep" /\ req'[y] = req[y] /\ req[y].table \in Tables
      BY <1>0, <1>3, <2>1, <2>3 DEF TypeOK
    <3>2. Queued(wait_queue[req[y].table], y) /\ (y \in victims => to_notify)
      BY <1>0, <3>1 DEF NoLostWakeup
    <3>3. Queued(wait_queue'[req[y].table], y)
      <4>1. CASE req[y].table # t
        BY <1>0, <1>3, <3>1, <3>2, <4>1 DEF TypeOK
      <4>2. CASE req[y].table = t
        <5>1. Queued(q, y) /\ wait_queue'[t] = r
          BY <1>0, <1>3, <3>2, <4>2 DEF TypeOK, q
        <5>2. Queued(r, y)
          <6>1. CASE Queued(q, x)
            BY <5>1, <6>1 DEF r, enqueue_if_absent
          <6>2. CASE ~Queued(q, x)
            <7>1. r = Append(q, w)
              BY <6>2 DEF r, enqueue_if_absent, w
            <7> QED
              BY <1>1, <1>4, <5>1, <7>1 DEF Queued
          <6> QED
            BY <6>1, <6>2
        <5> QED
          BY <4>2, <5>1, <5>2
      <4> QED
        BY <4>1, <4>2
    <3> QED
      BY <1>3, <3>1, <3>2, <3>3
  <2> QED
    BY <2>2, <2>3
<1> QED
  BY <1>8, <1>9, <1>10, <1>11 DEF IInv

(* release_all preserves the invariant on every table at once.             *)
LEMMA ReleaseStep ==
  ASSUME IInv, NEW x \in Xids, release_all(x)
  PROVE  IInv'
<1> DEFINE f(t) == [granted[t] EXCEPT ![x] = None]
           h(t) == RegrantGranted(f(t), Retain(wait_queue[t], x))
           r(t) == RegrantQueue(f(t), Retain(wait_queue[t], x))
<1>0. TypeOK /\ Owners
  BY DEF IInv
<1>1. /\ granted' = [t \in Tables |-> h(t)]
      /\ wait_queue' = [t \in Tables |-> r(t)]
      /\ pc' = [Woken(pc) EXCEPT ![x] = "ended"]
      /\ UNCHANGED <<req, victims, to_notify>>
  BY DEF release_all
<1>2. ASSUME NEW t \in Tables
      PROVE  Left(f(t), wait_queue[t], x, h(t), r(t))
  <2>1. /\ EType(granted[t], wait_queue[t]) /\ ECompatible(granted[t])
        /\ EUnique(wait_queue[t]) /\ EWeaker(granted[t], wait_queue[t])
    BY <1>0, EntryType DEF IInv
  <2>2. f(t) \in {granted[t], [granted[t] EXCEPT ![x] = None]}
    OBVIOUS
  <2> QED
    BY <2>1, <2>2, LeaveFacts
<1> HIDE DEF h, r
<1>3. \A y \in Xids : pc'[y] # "asleep" /\ pc'[y] \in Pc
                      /\ (y # x /\ pc[y] \in {"ready", "asleep"} => pc'[y] = "ready")
  BY <1>0, <1>1 DEF Woken, TypeOK, Pc
<1>4. TypeOK'
  <2>1. pc' \in [Xids -> Pc]
    BY <1>1, <1>3 DEF Woken
  <2>2. \A t \in Tables : EType(h(t), r(t))
    BY <1>2 DEF Left
  <2>3. granted' \in [Tables -> [Xids -> LockMode \cup {None}]]
    BY <1>1, <2>2 DEF EType
  <2>4. wait_queue' \in [Tables -> Seq(Waiter)]
    BY <1>1, <2>2 DEF EType
  <2> QED
    BY <1>0, <1>1, <2>1, <2>3, <2>4 DEF TypeOK
<1>5. ASSUME NEW u \in Tables
      PROVE  /\ ECompatible(granted'[u]) /\ EUnique(wait_queue'[u])
             /\ EWeaker(granted'[u], wait_queue'[u])
             /\ EHeadBlocked(granted'[u], wait_queue'[u])
  <2>1. granted'[u] = h(u) /\ wait_queue'[u] = r(u)
    BY <1>1
  <2> QED
    BY <1>2, <2>1 DEF Left
<1>6. Owners'
  <2>1. SUFFICES ASSUME NEW u \in Tables, NEW i \in DOMAIN wait_queue'[u]
                 PROVE  LET w == wait_queue'[u][i]
                        IN /\ pc'[w.xid] \in {"ready", "asleep"}
                           /\ req'[w.xid] = [table |-> u, mode |-> w.mode]
    BY DEF Owners
  <2>2. wait_queue'[u] = r(u)
    BY <1>1
  <2>3. PICK j \in DOMAIN wait_queue[u] :
           r(u)[i] = wait_queue[u][j] /\ wait_queue[u][j].xid # x
    BY <1>2, <2>1, <2>2 DEF Left
  <2>4. wait_queue[u][j].xid \in Xids
    BY <1>0, QueueElement DEF TypeOK
  <2> QED
    BY <1>0, <1>1, <1>3, <2>2, <2>3, <2>4 DEF Owners
<1>7. NoLostWakeup'
  BY <1>3 DEF NoLostWakeup
<1> QED
  BY <1>4, <1>5, <1>6, <1>7 DEF IInv

(* A turn of acquire's loop preserves the invariant.                       *)
LEMMA TurnStep ==
  ASSUME IInv, NEW x \in Xids, NEW t \in Tables, NEW m \in LockMode,
         InCall(x, t, m), Turn(x, t, m)
  PROVE  IInv'
BY TakeVictimStep, GrantStep, SleepStep DEF Turn

(* Every step preserves the inductive invariant, one case per action.      *)
LEMMA NextIInv == IInv /\ [LockNext]_lockVars => IInv'
<1> SUFFICES ASSUME IInv, [LockNext]_lockVars PROVE IInv'
  OBVIOUS
<1>0. TypeOK /\ Owners /\ NoLostWakeup
  BY DEF IInv
<1>1. ASSUME NEW x \in Xids, NEW t \in Tables, NEW m \in Modes, acquire(x, t, m)
      PROVE  IInv'
  <2>1. m \in LockMode /\ InCall(x, t, m)
    BY <1>1, LockAssumption DEF acquire, InCall
  <2> QED
    BY <1>1, <2>1, TurnStep DEF acquire
<1>2. ASSUME NEW x \in Xids, NEW t \in Tables, NEW m \in Modes,
             try_acquire(x, t, m)
      PROVE  IInv'
  <2>1. m \in LockMode /\ InCall(x, t, m)
    BY <1>2, LockAssumption DEF try_acquire, InCall
  <2> QED
    BY <1>2, <2>1, GrantStep DEF try_acquire
<1>3. ASSUME NEW x \in Xids, acquire_again(x)
      PROVE  IInv'
  <2> DEFINE t == req[x].table
             m == req[x].mode
  <2>1. t \in Tables /\ m \in LockMode /\ req[x] = [table |-> t, mode |-> m]
    BY <1>0 DEF TypeOK
  <2>2. InCall(x, t, m)
    BY <1>3, <2>1 DEF acquire_again, InCall
  <2>3. Turn(x, t, m)
    BY <1>3 DEF acquire_again
  <2> HIDE DEF t, m
  <2> QED
    BY <2>1, <2>2, <2>3, TurnStep
<1>4. ASSUME NEW x \in Xids, release_all(x)
      PROVE  IInv'
  BY <1>4, ReleaseStep
<1>5. ASSUME NEW x \in Xids, mark(x)
      PROVE  IInv'
  <2>1. TypeOK'
    BY <1>0, <1>5 DEF mark, TypeOK
  <2>2. NoLostWakeup'
    BY <1>0, <1>5 DEF mark, NoLostWakeup
  <2>3. Owners'
    BY <1>0, <1>5 DEF mark, Owners
  <2> QED
    BY <1>5, <2>1, <2>2, <2>3 DEF IInv, mark
<1>6. ASSUME NEW x \in Xids, clear(x)
      PROVE  IInv'
  <2>1. TypeOK'
    BY <1>0, <1>6 DEF clear, TypeOK
  <2>2. NoLostWakeup'
    BY <1>0, <1>6 DEF clear, NoLostWakeup
  <2>3. Owners'
    BY <1>0, <1>6 DEF clear, Owners
  <2> QED
    BY <1>6, <2>1, <2>2, <2>3 DEF IInv, clear
<1>7. CASE notify_waiters
  <2>1. \A y \in Xids : pc'[y] # "asleep" /\ pc'[y] \in Pc
                        /\ (pc[y] \in {"ready", "asleep"} => pc'[y] = "ready")
    BY <1>0, <1>7 DEF notify_waiters, Woken, TypeOK, Pc
  <2>2. TypeOK'
    BY <1>0, <1>7, <2>1 DEF notify_waiters, TypeOK, Woken
  <2>3. NoLostWakeup'
    BY <2>1 DEF NoLostWakeup
  <2>4. Owners'
    <3>1. \A u \in Tables : \A i \in DOMAIN wait_queue[u] :
             wait_queue[u][i].xid \in Xids
      BY <1>0, QueueElement DEF TypeOK
    <3> QED
      BY <1>0, <1>7, <2>1, <3>1 DEF notify_waiters, Owners
  <2> QED
    BY <1>7, <2>2, <2>3, <2>4 DEF IInv, notify_waiters
<1>8. CASE UNCHANGED lockVars
  <2>1. TypeOK'
    BY <1>0, <1>8 DEF TypeOK, lockVars
  <2>2. NoLostWakeup'
    BY <1>0, <1>8 DEF NoLostWakeup, lockVars
  <2>3. Owners'
    BY <1>0, <1>8 DEF Owners, lockVars
  <2> QED
    BY <1>8, <2>1, <2>2, <2>3 DEF IInv, lockVars
<1> QED
  BY <1>1, <1>2, <1>3, <1>4, <1>5, <1>6, <1>7, <1>8 DEF LockNext

----------------------------------------------------------------------------
(* The inductive invariant holds in every reachable state.                 *)
THEOREM IInvHolds == LockSpec => []IInv
BY InitIInv, NextIInv, PTL DEF LockSpec

(* Every reachable state is well typed.                                    *)
THEOREM TypeCorrect == LockSpec => []TypeOK
<1>1. IInv => TypeOK
  BY DEF IInv
<1> QED
  BY <1>1, IInvHolds, PTL

(* Conflicting modes are never granted together on a table.                *)
THEOREM GrantsCompatible == LockSpec => []Compatible
<1>1. IInv => Compatible
  BY DEF IInv, Compatible, ECompatible
<1> QED
  BY <1>1, IInvHolds, PTL

(* The head of every queue conflicts with a holder: regrant_heads leaves   *)
(* no grantable request behind, whoever left the queue or the table.       *)
THEOREM HeadsBlocked == LockSpec => []HeadBlocked
<1>1. IInv => HeadBlocked
  BY DEF IInv, HeadBlocked, EHeadBlocked
<1> QED
  BY <1>1, IInvHolds, PTL

(* A queued request belongs to the one blocked acquire that made it.       *)
THEOREM QueuesOwned == LockSpec => []NoOrphans
<1>1. IInv => NoOrphans
  BY DEF IInv, NoOrphans, Owners, EUnique
<1> QED
  BY <1>1, IInvHolds, PTL

(* No thread sleeps on a request that was granted or on a flag that nobody *)
(* is about to broadcast.                                                  *)
THEOREM WakeupsKept == LockSpec => []NoLostWakeup
<1>1. IInv => NoLostWakeup
  BY DEF IInv
<1> QED
  BY <1>1, IInvHolds, PTL

----------------------------------------------------------------------------
(* What one step may do to the grants.                                     *)
KeepsGrants ==
  \A t \in Tables, x \in Xids :
    granted'[t][x] < granted[t][x] => pc'[x] = "ended"

OvertakesNobody ==
  \A t \in Tables, x \in Xids :
    granted'[t][x] > granted[t][x] =>
      \A i \in DOMAIN wait_queue[t] :
         \/ ~Queued(wait_queue'[t], wait_queue[t][i].xid)
         \/ \E j \in 1..(i - 1) : wait_queue[t][j].xid = x

(* Modes are compared as integers, None below them all.                    *)
LEMMA ModeInt == \A m \in LockMode \cup {None} : m \in Int /\ m >= None
BY DEF LockMode, None, AccessShare, AccessExclusive

(* What is granted is a mode or None.                                      *)
LEMMA GrantedMode ==
  ASSUME TypeOK, NEW t \in Tables, NEW x \in Xids
  PROVE  granted[t][x] \in LockMode \cup {None}
BY DEF TypeOK

(* A step that leaves the granted maps alone.                              *)
LEMMA NoGrantStep ==
  ASSUME TypeOK, granted' = granted
  PROVE  KeepsGrants /\ OvertakesNobody
<1>1. \A t \in Tables, x \in Xids : granted[t][x] \in Int
  BY GrantedMode, ModeInt
<1> QED
  BY <1>1 DEF KeepsGrants, OvertakesNobody

(* A victim leaving a queue weakens no grant and overtakes nobody.         *)
LEMMA VictimGrants ==
  ASSUME IInv, NEW x \in Xids, NEW t \in Tables, TakeVictim(x, t)
  PROVE  KeepsGrants /\ OvertakesNobody
<1> DEFINE h == RegrantGranted(granted[t], Retain(wait_queue[t], x))
           r == RegrantQueue(granted[t], Retain(wait_queue[t], x))
<1>0. TypeOK
  BY DEF IInv
<1>1. Left(granted[t], wait_queue[t], x, h, r)
  <2>1. /\ EType(granted[t], wait_queue[t]) /\ ECompatible(granted[t])
        /\ EUnique(wait_queue[t]) /\ EWeaker(granted[t], wait_queue[t])
    BY <1>0, EntryType DEF IInv
  <2>2. granted[t] \in {granted[t], [granted[t] EXCEPT ![x] = None]}
    OBVIOUS
  <2> QED
    BY <2>1, <2>2, LeaveFacts
<1>2. /\ granted' = [granted EXCEPT ![t] = h]
      /\ wait_queue' = [wait_queue EXCEPT ![t] = r]
  BY DEF TakeVictim
<1> HIDE DEF h, r
<1>3. /\ \A u \in Tables, y \in Xids : granted[u][y] \in Int
      /\ \A y \in Xids : h[y] \in Int
  BY <1>0, <1>1, GrantedMode, ModeInt DEF Left, EType
<1>4. granted'[t] = h /\ wait_queue'[t] = r
      /\ \A u \in Tables \ {t} : granted'[u] = granted[u]
  BY <1>0, <1>2 DEF TypeOK
<1>5. KeepsGrants
  BY <1>1, <1>3, <1>4 DEF KeepsGrants, Left
<1>6. OvertakesNobody
  <2>1. SUFFICES ASSUME NEW u \in Tables, NEW y \in Xids,
                        granted'[u][y] > granted[u][y],
                        NEW i \in DOMAIN wait_queue[u]
                 PROVE  \/ ~Queued(wait_queue'[u], wait_queue[u][i].xid)
                        \/ \E j \in 1..(i - 1) : wait_queue[u][j].xid = y
    BY DEF OvertakesNobody
  <2>2. u = t /\ h[y] # granted[t][y]
    BY <1>3, <1>4, <2>1
  <2> QED
    BY <1>1, <1>4, <2>1, <2>2 DEF Left
<1> QED
  BY <1>5, <1>6

(* A grant inside acquire weakens no grant and overtakes nobody.           *)
LEMMA GrantGrants ==
  ASSUME IInv, NEW x \in Xids, NEW t \in Tables, NEW m \in LockMode,
         InCall(x, t, m), Grant(x, t, m)
  PROVE  KeepsGrants /\ OvertakesNobody
<1> DEFINE h == GrantTo(granted[t], x, m)
<1>0. TypeOK
  BY DEF IInv
<1>1. h = granted[t] \/ wait_queue[t] = <<>>
  BY GrantCases DEF Grant
<1>2. granted' = [granted EXCEPT ![t] = h]
  BY DEF Grant
<1>3. granted[t] \in [Xids -> LockMode \cup {None}]
  BY <1>0 DEF TypeOK
<1>4. \A y \in Xids : h[y] >= granted[t][y]
  BY <1>3 DEF GrantTo, Stronger, LockMode, None, AccessShare, AccessExclusive
<1>5. \A y \in Xids : h[y] \in LockMode \cup {None}
  BY <1>3 DEF GrantTo, Stronger
<1> HIDE DEF h
<1>6. /\ \A u \in Tables, y \in Xids : granted[u][y] \in Int
      /\ \A y \in Xids : h[y] \in Int
  BY <1>0, <1>5, GrantedMode, ModeInt
<1>7. granted'[t] = h /\ \A u \in Tables \ {t} : granted'[u] = granted[u]
  BY <1>0, <1>2 DEF TypeOK
<1>8. KeepsGrants
  BY <1>4, <1>6, <1>7 DEF KeepsGrants
<1>9. OvertakesNobody
  <2>1. SUFFICES ASSUME NEW u \in Tables, NEW y \in Xids,
                        granted'[u][y] > granted[u][y],
                        NEW i \in DOMAIN wait_queue[u]
                 PROVE  FALSE
    BY DEF OvertakesNobody
  <2>2. u = t /\ h # granted[t]
    BY <1>6, <1>7, <2>1
  <2>3. wait_queue[u] = <<>>
    BY <1>1, <2>2
  <2> QED
    BY <2>1, <2>3
<1> QED
  BY <1>8, <1>9

(* release_all weakens only the grants of its caller and overtakes nobody. *)
LEMMA ReleaseGrants ==
  ASSUME IInv, NEW x \in Xids, release_all(x)
  PROVE  KeepsGrants /\ OvertakesNobody
<1> DEFINE f(t) == [granted[t] EXCEPT ![x] = None]
           h(t) == RegrantGranted(f(t), Retain(wait_queue[t], x))
           r(t) == RegrantQueue(f(t), Retain(wait_queue[t], x))
<1>0. TypeOK
  BY DEF IInv
<1>1. /\ granted' = [t \in Tables |-> h(t)]
      /\ wait_queue' = [t \in Tables |-> r(t)]
      /\ pc' = [Woken(pc) EXCEPT ![x] = "ended"]
  BY DEF release_all
<1>2. ASSUME NEW t \in Tables
      PROVE  Left(f(t), wait_queue[t], x, h(t), r(t))
  <2>1. /\ EType(granted[t], wait_queue[t]) /\ ECompatible(granted[t])
        /\ EUnique(wait_queue[t]) /\ EWeaker(granted[t], wait_queue[t])
    BY <1>0, EntryType DEF IInv
  <2>2. f(t) \in {granted[t], [granted[t] EXCEPT ![x] = None]}
    OBVIOUS
  <2> QED
    BY <2>1, <2>2, LeaveFacts
<1> HIDE DEF h, r
<1>3. pc'[x] = "ended"
  BY <1>1 DEF Woken
<1>4. ASSUME NEW t \in Tables, NEW y \in Xids
      PROVE  /\ granted[t][y] \in Int /\ granted[t][y] >= None
             /\ h(t)[y] \in Int
             /\ f(t)[y] = IF y = x THEN None ELSE granted[t][y]
  <2>1. granted[t] \in [Xids -> LockMode \cup {None}]
    BY <1>0 DEF TypeOK
  <2>2. f(t)[y] = IF y = x THEN None ELSE granted[t][y]
    BY <2>1
  <2>3. h(t)[y] \in LockMode \cup {None}
    BY <1>2 DEF Left, EType
  <2> QED
    BY <1>0, <2>2, <2>3, GrantedMode, ModeInt
<1>5. \A t \in Tables : granted'[t] = h(t) /\ wait_queue'[t] = r(t)
  BY <1>1
<1> HIDE DEF f
<1>6. KeepsGrants
  <2>1. SUFFICES ASSUME NEW t \in Tables, NEW y \in Xids, y # x
                 PROVE  ~(granted'[t][y] < granted[t][y])
    BY <1>3 DEF KeepsGrants
  <2>2. h(t)[y] >= f(t)[y]
    BY <1>2 DEF Left
  <2> QED
    BY <1>4, <1>5, <2>1, <2>2
<1>7. OvertakesNobody
  <2>1. SUFFICES ASSUME NEW t \in Tables, NEW y \in Xids,
                        granted'[t][y] > granted[t][y],
                        NEW i \in DOMAIN wait_queue[t]
                 PROVE  \/ ~Queued(wait_queue'[t], wait_queue[t][i].xid)
                        \/ \E j \in 1..(i - 1) : wait_queue[t][j].xid = y
    BY DEF OvertakesNobody
  <2>2. h(t)[y] > granted[t][y]
    BY <1>5, <2>1
  <2>3. h(t)[y] # f(t)[y]
    BY <1>4, <2>2 DEF None
  <2> QED
    BY <1>2, <1>5, <2>1, <2>3 DEF Left
<1> QED
  BY <1>6, <1>7

(* No step weakens a grant that was not released, or overtakes a request.  *)
LEMMA StepGrants ==
  ASSUME IInv, LockNext
  PROVE  KeepsGrants /\ OvertakesNobody
<1>0. TypeOK
  BY DEF IInv
<1>1. ASSUME NEW x \in Xids, NEW t \in Tables, NEW m \in LockMode,
             InCall(x, t, m), Turn(x, t, m)
      PROVE  KeepsGrants /\ OvertakesNobody
  <2>1. CASE TakeVictim(x, t)
    BY <2>1, VictimGrants
  <2>2. CASE Grant(x, t, m)
    BY <1>1, <2>2, GrantGrants
  <2>3. CASE Sleep(x, t, m)
    BY <1>0, <2>3, NoGrantStep DEF Sleep
  <2> QED
    BY <1>1, <2>1, <2>2, <2>3 DEF Turn
<1>2. ASSUME NEW x \in Xids, NEW t \in Tables, NEW m \in Modes,
             acquire(x, t, m) \/ try_acquire(x, t, m)
      PROVE  KeepsGrants /\ OvertakesNobody
  <2>1. m \in LockMode /\ InCall(x, t, m)
    BY <1>2, LockAssumption DEF acquire, try_acquire, InCall
  <2> QED
    BY <1>1, <1>2, <2>1, GrantGrants DEF acquire, try_acquire
<1>3. ASSUME NEW x \in Xids, acquire_again(x)
      PROVE  KeepsGrants /\ OvertakesNobody
  <2> DEFINE t == req[x].table
             m == req[x].mode
  <2>1. t \in Tables /\ m \in LockMode /\ req[x] = [table |-> t, mode |-> m]
    BY <1>0 DEF TypeOK
  <2>2. InCall(x, t, m) /\ Turn(x, t, m)
    BY <1>3, <2>1 DEF acquire_again, InCall
  <2> HIDE DEF t, m
  <2> QED
    BY <1>1, <2>1, <2>2
<1>4. ASSUME NEW x \in Xids, release_all(x)
      PROVE  KeepsGrants /\ OvertakesNobody
  BY <1>4, ReleaseGrants
<1>5. ASSUME NEW x \in Xids, mark(x) \/ clear(x)
      PROVE  KeepsGrants /\ OvertakesNobody
  BY <1>0, <1>5, NoGrantStep DEF mark, clear
<1>6. CASE notify_waiters
  BY <1>0, <1>6, NoGrantStep DEF notify_waiters
<1> QED
  BY <1>2, <1>3, <1>4, <1>5, <1>6 DEF LockNext

(* A held lock stays at least as strong until its owner's release_all.     *)
THEOREM LocksAreTwoPhase == LockSpec => TwoPhase
<1>1. IInv /\ [LockNext]_lockVars => [KeepsGrants]_lockVars
  BY StepGrants
<1>2. LockSpec => [][KeepsGrants]_lockVars
  BY <1>1, IInvHolds, PTL DEF LockSpec
<1> QED
  BY <1>2 DEF TwoPhase, KeepsGrants

(* No grant overtakes a request that was queued before it and stays        *)
(* queued.                                                                 *)
THEOREM GrantsAreFifo == LockSpec => NoBarging
<1>1. IInv /\ [LockNext]_lockVars => [OvertakesNobody]_lockVars
  BY StepGrants
<1>2. LockSpec => [][OvertakesNobody]_lockVars
  BY <1>1, IInvHolds, PTL DEF LockSpec
<1> QED
  BY <1>2 DEF NoBarging, OvertakesNobody

(* The lock table's three promises, as the model checker is asked them:    *)
(* compatible grants, queues of waiters that will be woken, grants in      *)
(* queue order that only release_all takes back.                           *)
THEOREM GrantsAreSound == LockSpec => []GrantsSound
BY TypeCorrect, GrantsCompatible, PTL DEF GrantsSound

(* acquire, regrant_heads, release_all and the detector's marks keep the   *)
(* queues as HeadBlocked, NoOrphans and NoLostWakeup state.                *)
THEOREM QueuesAreSound == LockSpec => []QueuesSound
BY HeadsBlocked, QueuesOwned, WakeupsKept, PTL DEF QueuesSound

(* No grant is taken back early, none overtakes an earlier request.        *)
THEOREM GrantsAreByTheRules == LockSpec => GrantsByTheRules
BY LocksAreTwoPhase, GrantsAreFifo DEF GrantsByTheRules
=============================================================================
