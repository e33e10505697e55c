------------------------- MODULE WriteAheadProofs -------------------------
(***************************************************************************)
(* The write-ahead rule, proved for any number of pages, transactions, log *)
(* records, crashes and flushing threads: the types of the state, the form *)
(* of the log, the latches on the pages and the LSNs of their images.      *)
(***************************************************************************)
EXTENDS CrashRecovery, WellFoundedInduction, TLAPS

\* The type invariant, as the statements of the lemmas name it: a proof that expands TypeOK
\* then expands its own copy and not those of every statement above it.
Typed == TypeOK

Ending == {"commit", "abort"}
InsertOn(i, p) == wal[i].t = "insert" /\ wal[i].page = p
ImageOf(i, p) == wal[i].t = "fpi" /\ wal[i].page = p

\* The steps of a checkpoint before the superblock names it ...
Running == {"begun", "published", "sampled", "flush", "ending", "syncing", "super"}
\* ... those after the dirty pages were collected ...
Collected == {"flush", "ending", "syncing", "super"}
\* ... and those after the CLOG was made durable.
ClogSaved == {"ending", "syncing", "super"}
Numbered == {"syncing", "super"}

\* A record of the log is what one of the actions writes.
Formed(r, i) ==
    /\ r.t = "fpi" => /\ r.page \in Pages /\ r.xid = 0
                      /\ r.body \in Image \ {Torn} /\ r.body.lsn < i
    /\ r.t = "insert" => r.page \in Pages /\ r.xid \in Xids
    /\ r.t \in Ending => r.page = None /\ r.xid \in Xids
    /\ r.t = "begin" => r.page = None /\ r.xid = 0
    /\ r.t = "end" => /\ r.page = None /\ r.xid = 0 /\ r.body.ck < i
                      /\ r.body \in [ck : 1..MaxLsn, att : SUBSET Xids]

\* The redo point is durable, and a running checkpoint began after it.
Log ==
    /\ RedoStart <= synced
    /\ \A i \in 1..Len(wal) : Formed(wal[i], i)
    /\ ck.pc \in Running => ck.begin \in (RedoStart + 1)..Len(wal)
    /\ ck.pc = "super" => ck.begin <= synced
    /\ ck.pc \in Numbered => ck.next >= 1
    /\ ck.pc = "recycle" => ck.begin = RedoStart
    /\ ck.pc # "clog"

\* A latch is held by one transaction, which is writing that one page; a page that
\* recovery left torn is neither written nor flushed.
Latches ==
    /\ \A p \in Pages :
         /\ latch[p] # 0 \/ dirty[p] \/ flusher[p] # None => mem[p] # Torn
         /\ latch[p] # 0 => txn[latch[p]] \in {"pinned", "logged"}
         /\ latch[p] # 0 => \A q \in Pages : latch[q] = latch[p] => q = p
    /\ \A x \in Xids :
         /\ txn[x] \in {"pinned", "logged"} => \E p \in Pages : latch[p] = x
         /\ txn[x] = "logged" =>
              \E i \in 1..Len(wal) : wal[i].t = "insert" /\ wal[i].xid = x

\* No image is ahead of the log, and none in the data file ahead of the durable log.
Lsns ==
    \A p \in Pages :
        /\ mem[p] # Torn => mem[p].lsn <= Len(wal)
        /\ page_cache[p] # Torn => page_cache[p].lsn <= synced
        /\ data_file[p] # Torn => data_file[p].lsn <= synced

Pool == Latches /\ Lsns

\* The XID clock is ahead of every transaction that has begun, and of no other.
Clock == up => \A x \in Xids : txn[x] = "none" <=> x >= next_txn_id

\* Between a crash and the end of recovery only the disk is left.
Downtime ==
    ~up => /\ synced = Len(wal) /\ ck = Resting
           /\ mem = data_file /\ page_cache = data_file
           /\ clog = clog_file /\ clog_cache = clog_file
           /\ latch = [p \in Pages |-> 0] /\ dirty = [p \in Pages |-> FALSE]
           /\ flusher = [p \in Pages |-> None] /\ written = [p \in Pages |-> FALSE]
           /\ needs_fpi = [p \in Pages |-> TRUE]
           /\ txn = [x \in Xids |-> "ended"]

\* The part of the invariant that says nothing of outcomes.
BaseInv == Typed /\ Log /\ Clock /\ Pool /\ Downtime

----------------------------------------------------------------------------
(* The log, and what replaying it does to a page.                          *)

(* A non-empty set of naturals has a least element, which Min names.       *)
LEMMA MinNat ==
  ASSUME NEW S \in SUBSET Nat, S # {}
  PROVE  Min(S) \in S /\ \A y \in S : Min(S) <= y
<1> DEFINE R == {p \in Nat \X Nat : p[1] < p[2]}
<1>1. IsWellFoundedOn(R, Nat)
  BY NatLessThanWellFounded, Zenon DEF OpToRel
<1> HIDE DEF R
<1>2. PICK m \in S : \A y \in S : ~ (<<y, m>> \in R)
  BY <1>1, WFMin, Zenon
<1>3. \A y \in S : m <= y
  <2>1. SUFFICES ASSUME NEW y \in S, y < m PROVE FALSE
    OBVIOUS
  <2>2. <<y, m>> \in R
    BY <2>1 DEF R
  <2> QED
    BY <1>2, <2>2, Zenon
<1> QED
  BY <1>3, Zenon DEF Min

(* A non-empty set of naturals with an upper bound has a greatest element,   *)
(* which Max names.                                                        *)
LEMMA MaxNat ==
  ASSUME NEW S \in SUBSET Nat, S # {}, NEW n \in Nat, \A y \in S : y <= n
  PROVE  Max(S) \in S /\ \A y \in S : y <= Max(S)
<1> DEFINE D == {n - y : y \in S}
<1>1. D \in SUBSET Nat /\ D # {}
  <2>1. \A y \in S : n - y \in Nat
    OBVIOUS
  <2> QED
    BY <2>1, Zenon
<1>2. Min(D) \in D /\ \A d \in D : Min(D) <= d
  BY <1>1, MinNat, Zenon
<1>3. PICK m \in S : Min(D) = n - m
  BY <1>2, Zenon
<1>4. ASSUME NEW y \in S PROVE y <= m
  <2>1. n - m <= n - y
    BY <1>2, <1>3, Zenon
  <2> QED
    BY <2>1
<1>5. \A y \in S : m >= y
  BY <1>4
<1> QED
  BY <1>4, <1>5, Zenon DEF Max

(* The numbers of a state.                                                 *)
LEMMA Numbers ==
  ASSUME Typed
  PROVE  /\ Len(wal) \in Nat /\ synced \in Nat /\ synced <= Len(wal) /\ Len(wal) <= MaxLsn
         /\ RedoStart \in Nat /\ superblock.checkpoint_lsn \in Nat /\ RedoStart >= 1
         /\ ck.begin \in Nat /\ ck.next \in Nat /\ checkpoint_lsn \in Nat
         /\ superblock.next_txn_id \in Nat /\ superblock.next_txn_id >= 1
         /\ next_txn_id \in Nat /\ next_txn_id >= 1 /\ MaxXid \in Nat /\ MaxLsn \in Nat
<1> TypeOK
  BY Zenon DEF Typed
<1>1. Len(wal) \in Nat
  BY DEF TypeOK
<1>2. /\ superblock.checkpoint_lsn \in 1..MaxLsn /\ superblock.next_txn_id \in 1..(MaxXid + 1)
      /\ ck.begin \in 0..MaxLsn /\ ck.next \in 0..(MaxXid + 1)
  BY Zenon DEF TypeOK
<1> QED
  BY <1>1, <1>2, CrashRecoveryAssumption DEF TypeOK, RedoStart

(* A record is appended behind all others.                                 *)
LEMMA AppendWal ==
  ASSUME Typed, NEW rec \in Record, wal' = Append(wal, rec)
  PROVE  /\ wal' \in Seq(Record)
         /\ Len(wal') = Len(wal) + 1
         /\ \A i \in 1..Len(wal) : wal'[i] = wal[i]
         /\ wal'[Len(wal) + 1] = rec
<1> TypeOK
  BY Zenon DEF Typed
<1> QED
  BY DEF TypeOK

(* A crash keeps a prefix of the log.                                      *)
LEMMA CutWal ==
  ASSUME Typed, NEW n \in 0..Len(wal), wal' = SubSeq(wal, 1, n)
  PROVE  /\ wal' \in Seq(Record)
         /\ Len(wal') = n
         /\ \A i \in 1..n : wal'[i] = wal[i]
<1> TypeOK
  BY Zenon DEF Typed
<1> QED
  BY DEF TypeOK

(* The records of two sequences, one behind the other.                     *)
LEMMA Joined ==
  ASSUME NEW A, NEW s \in Seq(A), NEW t \in Seq(A)
  PROVE  /\ s \o t \in Seq(A)
         /\ Len(s \o t) = Len(s) + Len(t)
         /\ \A i \in 1..(Len(s) + Len(t)) :
              (s \o t)[i] = IF i <= Len(s) THEN s[i] ELSE t[i - Len(s)]
OBVIOUS

(* redo[i] is defined for every position, and is what the handlers make of  *)
(* redo[i - 1].                                                             *)
LEMMA RedoUnfolds ==
  ASSUME Typed, RedoStart <= Len(wal), NEW p \in Pages
  PROVE  \E R : /\ R = [i \in (RedoStart - 1)..Len(wal) |->
                          IF i < RedoStart THEN data_file[p] ELSE RedoRecord(R[i - 1], p, i)]
                /\ RedoPage(p) = R[Len(wal)]
<1> TypeOK
  BY Zenon DEF Typed
<1> DEFINE s == RedoStart
           F(R, n) == [i \in (s - 1)..n |->
                         IF i < s THEN data_file[p] ELSE RedoRecord(R[i - 1], p, i)]
           Bad == {n \in Nat : n >= s - 1 /\ ~ \E R : R = F(R, n)}
<1>1. s \in Nat /\ s >= 1 /\ Len(wal) \in Nat
  BY DEF TypeOK, RedoStart
<1>2. Bad = {}
  <2>1. SUFFICES ASSUME Bad # {} PROVE FALSE
    BY Zenon
  <2>2. PICK n \in Bad : \A m \in Bad : n <= m
    BY <2>1, MinNat, Zenon
  <2>3. n \in Nat /\ n >= s - 1 /\ ~ \E R : R = F(R, n)
    BY <2>2, Zenon
  <2>4. CASE n = s - 1
    <3> DEFINE R == [i \in (s - 1)..n |-> data_file[p]]
    <3>1. R = F(R, n)
      BY <1>1, <2>4
    <3> QED
      BY <3>1, <2>3, Zenon
  <2>5. CASE n # s - 1
    <3>1. n - 1 \in Nat /\ n - 1 >= s - 1 /\ n - 1 \notin Bad
      BY <1>1, <2>2, <2>3, <2>5
    <3>2. PICK Q : Q = F(Q, n - 1)
      BY <3>1, Zenon
    <3> DEFINE R == [i \in (s - 1)..n |-> IF i < n THEN Q[i] ELSE RedoRecord(Q[n - 1], p, n)]
    <3>3. ASSUME NEW i \in (s - 1)..n
          PROVE  R[i] = IF i < s THEN data_file[p] ELSE RedoRecord(R[i - 1], p, i)
      <4> HIDE DEF F
      <4>1. CASE i < s
        BY <4>1, <1>1, <3>1, <3>2, <2>3 DEF F
      <4>2. CASE i >= s /\ i < n
        <5>1. R[i] = Q[i] /\ R[i - 1] = Q[i - 1]
          BY <4>2, <1>1, <2>3
        <5>2. Q[i] = RedoRecord(Q[i - 1], p, i)
          <6> HIDE DEF R
          <6> QED
          BY <4>2, <1>1, <2>3, <3>2 DEF F
        <5> QED
          BY <5>1, <5>2, <4>2, <1>1, <2>3
      <4>3. CASE i = n
        <5>1. R[i] = RedoRecord(Q[n - 1], p, n) /\ R[i - 1] = Q[n - 1]
          BY <4>3, <1>1, <2>3, <3>1
        <5> QED
          BY <5>1, <4>3, <3>1, <2>3, <1>1
      <4> QED
        BY <4>1, <4>2, <4>3, <1>1, <2>3
    <3>4. R = F(R, n)
      <4> DEFINE G == F(R, n)
      <4>1. \A i \in (s - 1)..n : R[i] = G[i]
        BY <3>3, Zenon
      <4> QED
        BY <4>1, Zenon
    <3> QED
      BY <3>4, <2>3, Zenon
  <2> QED
    BY <2>4, <2>5, Zenon
<1>3. \E R : R = F(R, Len(wal))
  BY <1>1, <1>2
<1>4. RedoPage(p) = (CHOOSE R : R = F(R, Len(wal)))[Len(wal)]
  BY Zenon DEF RedoPage
<1> HIDE DEF F
<1> QED
  BY <1>3, <1>4, Zenon DEF F

(* A set of images that holds the page on disk, and that no record leads     *)
(* out of, holds the page that redo ends with.                               *)
LEMMA RedoInduction ==
  ASSUME Typed, RedoStart <= Len(wal), NEW p \in Pages, NEW G,
         data_file[p] \in G[RedoStart - 1],
         \A i \in RedoStart..Len(wal) : \A img \in G[i - 1] : RedoRecord(img, p, i) \in G[i]
  PROVE  RedoPage(p) \in G[Len(wal)]
<1> TypeOK
  BY Zenon DEF Typed
<1> DEFINE s == RedoStart
<1>1. s \in Nat /\ s >= 1 /\ Len(wal) \in Nat
  BY DEF TypeOK, RedoStart
<1>2. PICK R : /\ R = [i \in (s - 1)..Len(wal) |->
                         IF i < s THEN data_file[p] ELSE RedoRecord(R[i - 1], p, i)]
               /\ RedoPage(p) = R[Len(wal)]
  BY RedoUnfolds, Zenon
<1> DEFINE Bad == {i \in (s - 1)..Len(wal) : R[i] \notin G[i]}
<1>3. Bad = {}
  <2>1. SUFFICES ASSUME Bad # {} PROVE FALSE
    BY Zenon
  <2>2. Bad \in SUBSET Nat
    BY <1>1
  <2>3. PICK n \in Bad : \A m \in Bad : n <= m
    BY <2>1, <2>2, MinNat, Zenon
  <2>4. n \in (s - 1)..Len(wal) /\ R[n] \notin G[n]
    BY <2>3, Zenon
  <2>5. CASE n = s - 1
    <3>1. R[n] = data_file[p]
      BY <1>1, <1>2, <2>4, <2>5
    <3> QED
      BY <3>1, <2>4, <2>5, Zenon
  <2>6. CASE n # s - 1
    <3>1. n \in s..Len(wal) /\ n - 1 \in (s - 1)..Len(wal) /\ n - 1 \notin Bad
      BY <1>1, <2>3, <2>4, <2>6
    <3>2. R[n - 1] \in G[n - 1]
      BY <3>1, Zenon
    <3>3. R[n] = RedoRecord(R[n - 1], p, n)
      BY <1>1, <1>2, <2>4, <3>1
    <3> QED
      BY <2>4, <3>1, <3>2, <3>3, Zenon
  <2> QED
    BY <2>5, <2>6, Zenon
<1>4. Len(wal) \in (s - 1)..Len(wal) /\ Len(wal) \notin Bad
  BY <1>1, <1>3
<1> QED
  BY <1>2, <1>4, Zenon

(* What each record does to the page it is for.                             *)
LEMMA RedoCases ==
  ASSUME Typed, Log, NEW p \in Pages, NEW i \in RedoStart..Len(wal), NEW img \in Image
  PROVE  /\ wal[i].page = p => ImageOf(i, p) \/ InsertOn(i, p)
         /\ wal[i].page # p => RedoRecord(img, p, i) = img
         /\ ImageOf(i, p) =>
              RedoRecord(img, p, i) = [lsn |-> i, tuples |-> wal[i].body.tuples]
         /\ InsertOn(i, p) /\ img = Torn => RedoRecord(img, p, i) = img
         /\ InsertOn(i, p) /\ img # Torn /\ img.lsn >= i => RedoRecord(img, p, i) = img
         /\ InsertOn(i, p) /\ img # Torn /\ img.lsn < i =>
              RedoRecord(img, p, i) = [lsn |-> i, tuples |-> img.tuples \union {wal[i].xid}]
<1> TypeOK
  BY Zenon DEF Typed
<1>1. i \in 1..Len(wal) /\ wal[i] \in Record
  BY DEF TypeOK, RedoStart
<1>2. wal[i].page = p => ImageOf(i, p) \/ InsertOn(i, p)
  BY <1>1, CrashRecoveryAssumption, Zenon DEF Log, Formed, Record, ImageOf, InsertOn, Ending, None
<1>3. ASSUME ImageOf(i, p)
      PROVE  RedoRecord(img, p, i) = [lsn |-> i, tuples |-> wal[i].body.tuples]
  <2>1. wal[i].body \in [lsn : 0..MaxLsn, tuples : SUBSET Xids] /\ wal[i].body.lsn < i
    BY <1>1, <1>3, Zenon DEF Log, Formed, ImageOf, Image
  <2>2. Max({i, wal[i].body.lsn}) = i
    <3>1. {i, wal[i].body.lsn} \in SUBSET Nat /\ \A y \in {i, wal[i].body.lsn} : y <= i
      BY <1>1, <2>1 DEF TypeOK
    <3>2. Max({i, wal[i].body.lsn}) \in {i, wal[i].body.lsn}
          /\ i <= Max({i, wal[i].body.lsn})
      BY <3>1, <1>1, MaxNat, Zenon
    <3> QED
      BY <3>1, <3>2, <1>1
  <2>3. RedoRecord(img, p, i) = [wal[i].body EXCEPT !.lsn = Max({i, wal[i].body.lsn})]
    BY <1>3, Zenon DEF RedoRecord, ImageOf
  <2> QED
    BY <2>1, <2>2, <2>3, Zenon
<1>4. ASSUME InsertOn(i, p)
      PROVE  RedoRecord(img, p, i) =
               IF img = Torn \/ img.lsn >= i THEN img
               ELSE [lsn |-> i, tuples |-> img.tuples \union {wal[i].xid}]
  BY <1>4, Zenon DEF InsertOn, RedoRecord
<1>5. img # Torn => img.lsn \in Nat
  BY DEF Image
<1> QED
  BY <1>1, <1>2, <1>3, <1>4, <1>5 DEF RedoRecord

(* What a record leaves behind is an image: the one before it, or one that *)
(* carries the record's LSN.                                               *)
LEMMA RedoSteps ==
  ASSUME Typed, Log, NEW p \in Pages, NEW i \in RedoStart..Len(wal), NEW img \in Image
  PROVE  \/ RedoRecord(img, p, i) = img
         \/ /\ RedoRecord(img, p, i) \in [lsn : 0..MaxLsn, tuples : SUBSET Xids]
            /\ RedoRecord(img, p, i).lsn = i
            /\ \/ ImageOf(i, p) /\ RedoRecord(img, p, i).tuples = wal[i].body.tuples
               \/ /\ InsertOn(i, p) /\ img # Torn /\ img.lsn < i
                  /\ RedoRecord(img, p, i).tuples = img.tuples \union {wal[i].xid}
<1>1. i \in 0..MaxLsn /\ i \in 1..Len(wal)
  BY Numbers
<1>2. CASE wal[i].page # p
  BY <1>2, RedoCases
<1>3. CASE ImageOf(i, p)
  <2>1. wal[i].body.tuples \in SUBSET Xids
    BY <1>1, <1>3, Zenon DEF Log, Formed, ImageOf, Image
  <2> QED
    BY <1>1, <1>3, <2>1, RedoCases
<1>4. CASE InsertOn(i, p)
  <2>1. wal[i].xid \in Xids
    BY <1>1, <1>4, Zenon DEF Log, Formed, InsertOn
  <2>2. CASE img = Torn \/ img.lsn >= i
    BY <1>4, <2>2, RedoCases
  <2>3. CASE img # Torn /\ ~(img.lsn >= i)
    <3>1. img.lsn < i /\ img.tuples \in SUBSET Xids
      BY <1>1, <2>3 DEF Image
    <3> QED
      BY <1>1, <1>4, <2>1, <2>3, <3>1, RedoCases
  <2> QED
    BY <2>2, <2>3, Zenon
<1> QED
  BY <1>2, <1>3, <1>4, RedoCases, Zenon

(* In short: it leaves the page alone, or stamps it with its own LSN.      *)
LEMMA RedoStep ==
  ASSUME Typed, Log, NEW p \in Pages, NEW i \in RedoStart..Len(wal), NEW img \in Image
  PROVE  \/ RedoRecord(img, p, i) = img
         \/ RedoRecord(img, p, i) \in Image /\ RedoRecord(img, p, i).lsn = i
<1>1. \/ RedoRecord(img, p, i) = img
      \/ /\ RedoRecord(img, p, i) \in [lsn : 0..MaxLsn, tuples : SUBSET Xids]
         /\ RedoRecord(img, p, i).lsn = i
  BY RedoSteps
<1> QED
  BY <1>1, Zenon DEF Image

(***************************************************************************)
(* Type correctness.                                                       *)
(***************************************************************************)

(* The page a writing transaction has latched.                             *)
LEMMA PinnedPage ==
  ASSUME Typed, Pool, NEW x \in Xids, txn[x] \in {"pinned", "logged"}
  PROVE  Pinned(x) \in Pages /\ latch[Pinned(x)] = x
BY Zenon DEF Pool, Latches, Pinned

(* The LSN place_tuple stamps on the page is that of a record.             *)
LEMMA PlacedLsn ==
  ASSUME Typed, Pool, NEW x \in Xids, txn[x] = "logged"
  PROVE  LET l == Max({mem[Pinned(x)].lsn, LastOf(x)}) IN
         /\ l \in 0..MaxLsn /\ l <= Len(wal)
         /\ mem[Pinned(x)].lsn <= l /\ LastOf(x) <= l
         /\ l = mem[Pinned(x)].lsn \/ l = LastOf(x)
         /\ LastOf(x) \in {i \in 1..Len(wal) : wal[i].t = "insert" /\ wal[i].xid = x}
<1> TypeOK
  BY Zenon DEF Typed
<1> DEFINE S == {i \in 1..Len(wal) : wal[i].t = "insert" /\ wal[i].xid = x}
           m == mem[Pinned(x)].lsn
<1>1. LastOf(x) \in S
  <2>1. S # {}
    BY Zenon DEF Pool, Latches
  <2>2. S \in SUBSET Nat /\ Len(wal) \in Nat /\ \A y \in S : y <= Len(wal)
    BY DEF TypeOK
  <2> QED
    BY <2>1, <2>2, MaxNat, Zenon DEF LastOf
<1>2. m \in 0..MaxLsn /\ m <= Len(wal) /\ Len(wal) \in Nat
  <2>1. Pinned(x) \in Pages /\ latch[Pinned(x)] = x
    BY PinnedPage, Zenon
  <2>2. mem[Pinned(x)] # Torn /\ mem[Pinned(x)] \in Image
    BY <2>1 DEF Pool, Latches, Lsns, TypeOK, Xids
  <2> QED
    BY <2>1, <2>2 DEF Pool, Latches, Lsns, TypeOK, Image
<1>3. LastOf(x) \in 1..Len(wal)
  BY <1>1, Zenon
<1> HIDE DEF m
<1>4. LET T == {m, LastOf(x)} IN Max(T) \in T /\ \A y \in T : y <= Max(T)
  <2>1. {m, LastOf(x)} \in SUBSET Nat /\ \A y \in {m, LastOf(x)} : y <= Len(wal)
    BY <1>2, <1>3
  <2> QED
    BY <2>1, <1>2, MaxNat, Zenon
<1> DEFINE l == Max({m, LastOf(x)})
<1>5. (l = m \/ l = LastOf(x)) /\ m <= l /\ LastOf(x) <= l
  BY <1>4, Zenon
<1> HIDE DEF l
<1>6. l \in 0..MaxLsn /\ l <= Len(wal)
  BY <1>2, <1>3, <1>5, CrashRecoveryAssumption DEF TypeOK
<1> QED
  BY <1>1, <1>5, <1>6, Zenon DEF m, l

(* A step of a transaction keeps the types.                                *)
LEMMA TransactionTypes ==
  ASSUME Typed, Pool, Transaction
  PROVE  Typed'
<1> SUFFICES TypeOK'
  BY Zenon DEF Typed
<1> TypeOK
  BY Zenon DEF Typed
<1> USE CrashRecoveryAssumption
<1>1. CASE begin
  <2>1. txn \in [Xids -> TxnPc] /\ next_txn_id \in Xids
    BY <1>1, Zenon DEF TypeOK, begin
  <2>2. txn' = [txn EXCEPT ![next_txn_id] = "active"] /\ next_txn_id' = next_txn_id + 1
    BY <1>1, Zenon DEF begin
  <2>3. next_txn_id' \in 1..(MaxXid + 1)
    BY <2>1, <2>2 DEF Xids
  <2>4. txn' \in [Xids -> TxnPc]
    BY <2>1, <2>2, Zenon DEF TxnPc
  <2> QED
    BY <1>1, <2>3, <2>4, Zenon DEF TypeOK, begin, walVars, poolVars, fileVars, clogVars, ckVars, runVars, ghostVars
<1>2. ASSUME NEW x \in Xids, NEW p \in Pages, pin_mut(x, p) PROVE TypeOK'
  <2>1. /\ wal' \in Seq(Record) /\ mem' \in [Pages -> Image] /\ Len(wal') <= MaxLsn
        /\ synced' \in 0..Len(wal')
    <3>1. CASE FpiDue(p)
      <4>1. Rec("fpi", p, 0, mem[p]) \in Record
        BY DEF TypeOK, Rec, Record
      <4>2. wal' \in Seq(Record) /\ Len(wal') = Len(wal) + 1
        BY <1>2, <3>1, <4>1, AppendWal, Zenon DEF pin_mut
      <4>3. mem[p] \in [lsn : 0..MaxLsn, tuples : SUBSET Xids] /\ Len(wal') \in 0..MaxLsn
        <5>1. mem[p] \in Image /\ mem[p] # Torn /\ Room(2)
          BY <1>2, Zenon DEF pin_mut, TypeOK
        <5>2. Len(wal) \in Nat /\ MaxLsn \in Nat
          BY Numbers, Zenon
        <5> QED
          BY <4>2, <5>1, <5>2 DEF Image, Room
      <4>4. mem' = [mem EXCEPT ![p] = [lsn |-> Len(wal'), tuples |-> mem[p].tuples]]
        <5>1. mem' = [mem EXCEPT ![p] = [mem[p] EXCEPT !.lsn = Len(wal')]]
          BY <1>2, <3>1, Zenon DEF pin_mut
        <5>2. [mem[p] EXCEPT !.lsn = Len(wal')] = [lsn |-> Len(wal'), tuples |-> mem[p].tuples]
          BY <4>3
        <5> QED
          BY <5>1, <5>2, Zenon
      <4>5. mem' \in [Pages -> Image]
        BY <4>3, <4>4, Zenon DEF TypeOK, Image
      <4> QED
        <5>1. synced' = synced /\ synced \in 0..Len(wal) /\ Len(wal) \in Nat
          BY <1>2, Numbers, Zenon DEF pin_mut, TypeOK
        <5>2. synced' \in 0..Len(wal') /\ Len(wal') <= MaxLsn
          BY <4>2, <4>3, <5>1, CrashRecoveryAssumption
        <5> QED
          BY <4>2, <4>5, <5>2, Zenon
    <3>2. CASE ~FpiDue(p)
      BY <1>2, <3>2, Zenon DEF pin_mut, TypeOK
    <3> QED
      BY <3>1, <3>2, Zenon
  <2>2. /\ latch' \in [Pages -> 0..MaxXid] /\ dirty' \in [Pages -> BOOLEAN]
        /\ txn' \in [Xids -> TxnPc]
    <3>1. x \in 0..MaxXid
      BY CrashRecoveryAssumption DEF Xids
    <3> QED
      BY <1>2, <3>1, Zenon DEF pin_mut, TypeOK, TxnPc
  <2> QED
    BY <1>2, <2>1, <2>2, Zenon DEF pin_mut, TypeOK, fileVars, clogVars, ckVars, runVars, ghostVars
<1>3. ASSUME NEW x \in Xids, log_insert(x) PROVE TypeOK'
  <2>1. Pinned(x) \in Pages
    BY <1>3, PinnedPage, Zenon DEF log_insert
  <2>2. Rec("insert", Pinned(x), x, <<>>) \in Record
    BY <2>1 DEF Rec, Record, Xids
  <2>3. wal' \in Seq(Record) /\ Len(wal') = Len(wal) + 1
    BY <1>3, <2>2, AppendWal, Zenon DEF log_insert
  <2>4. wrote' \in [Xids -> SUBSET Pages] /\ txn' \in [Xids -> TxnPc]
        /\ straddled' \in SUBSET Pages
    BY <1>3, <2>1, Zenon DEF log_insert, TypeOK, TxnPc
  <2> QED
    BY <1>3, <2>3, <2>4 DEF log_insert, TypeOK, Room, poolVars, fileVars, clogVars, ckVars
<1>4. ASSUME NEW x \in Xids, place_tuple(x) PROVE TypeOK'
  <2> DEFINE p == Pinned(x)
  <2>1. p \in Pages /\ latch[p] = x
    BY <1>4, PinnedPage, Zenon DEF place_tuple
  <2>2. mem[p] \in [lsn : 0..MaxLsn, tuples : SUBSET Xids]
    BY <2>1 DEF Pool, Latches, Lsns, TypeOK, Image, Xids
  <2>3. Max({mem[p].lsn, LastOf(x)}) \in 0..MaxLsn
    BY <1>4, PlacedLsn, Zenon DEF place_tuple
  <2> HIDE DEF p
  <2>4. mem' = [mem EXCEPT ![p] = [lsn |-> Max({mem[p].lsn, LastOf(x)}),
                                   tuples |-> mem[p].tuples \union {x}]]
    BY <1>4, Zenon DEF place_tuple, p
  <2>5. mem' \in [Pages -> Image]
    BY <2>1, <2>2, <2>3, <2>4, Zenon DEF TypeOK, Image
  <2>6. /\ latch' \in [Pages -> 0..MaxXid] /\ dirty' \in [Pages -> BOOLEAN]
        /\ txn' \in [Xids -> TxnPc]
    BY <1>4, <2>1 DEF place_tuple, TypeOK, TxnPc, p
  <2> QED
    BY <1>4, <2>5, <2>6, Zenon DEF place_tuple, TypeOK, walVars, fileVars, clogVars, ckVars, runVars, ghostVars
<1>5. ASSUME NEW x \in Xids, NEW kind \in Ending, append_end(x, kind) PROVE TypeOK'
  <2>1. Rec(kind, None, x, <<>>) \in Record
    BY DEF Rec, Record, Xids, Ending
  <2>2. wal' \in Seq(Record) /\ Len(wal') = Len(wal) + 1
    BY <1>5, <2>1, AppendWal, Zenon DEF append_end
  <2>3. txn' \in [Xids -> TxnPc]
    BY <1>5, Zenon DEF append_end, TypeOK, TxnPc, Ending
  <2> QED
    BY <1>5, <2>2, <2>3 DEF append_end, TypeOK, Room, poolVars, fileVars, clogVars, ckVars, runVars, ghostVars
<1>6. ASSUME NEW x \in Xids, NEW kind \in Ending, flush_end(x, kind) PROVE TypeOK'
  <2>1. txn' \in [Xids -> TxnPc]
    BY <1>6, Zenon DEF flush_end, TypeOK, TxnPc
  <2> QED
    BY <1>6, <2>1 DEF flush_end, TypeOK, poolVars, fileVars, clogVars, ckVars, runVars, ghostVars
<1>7. ASSUME NEW x \in Xids, NEW state \in {"Committed", "Aborted"}, end_txn(x, state)
      PROVE  TypeOK'
  <2>1. /\ txn' \in [Xids -> TxnPc] /\ clog' \in [Xids -> TxnState]
        /\ told' \in [Xids -> TxnState]
    BY <1>7, Zenon DEF end_txn, TypeOK, TxnPc, TxnState
  <2> QED
    BY <1>7, <2>1, Zenon DEF end_txn, TypeOK, walVars, poolVars, fileVars, ckVars, runVars, ghostVars
<1> QED
  BY <1>1, <1>2, <1>3, <1>4, <1>5, <1>6, <1>7, Zenon DEF Transaction, Ending

(* A step of a flush keeps the types.                                      *)
LEMMA FlushTypes ==
  ASSUME Typed, Pool, Flush
  PROVE  Typed'
<1> SUFFICES TypeOK'
  BY Zenon DEF Typed
<1> TypeOK
  BY Zenon DEF Typed
<1>1. ASSUME NEW p \in Pages, NEW t \in Threads, FlushClaim(t, p) PROVE TypeOK'
  <2>1. flusher' \in [Pages -> Threads \union {None}] /\ dirty' \in [Pages -> BOOLEAN]
    BY <1>1, Zenon DEF FlushClaim, TypeOK
  <2> QED
    BY <1>1, <2>1, Zenon DEF FlushClaim, TypeOK, walVars, fileVars, clogVars, txnVars, ckVars,
                      runVars, ghostVars
<1>2. ASSUME NEW p \in Pages, FlushWrite(p) PROVE TypeOK'
  <2>1. /\ page_cache' \in [Pages -> Image] /\ needs_fpi' \in [Pages -> BOOLEAN]
        /\ written' \in [Pages -> BOOLEAN]
    BY <1>2, Zenon DEF FlushWrite, TypeOK
  <2>2. synced' \in 0..Len(wal)
    BY <1>2 DEF FlushWrite, TypeOK
  <2> QED
    BY <1>2, <2>1, <2>2, Zenon DEF FlushWrite, TypeOK, clogVars, txnVars, ckVars, runVars, ghostVars
<1>3. ASSUME NEW p \in Pages, FlushSync(p) PROVE TypeOK'
  <2>1. /\ flusher' \in [Pages -> Threads \union {None}] /\ written' \in [Pages -> BOOLEAN]
        /\ data_file' \in [Pages -> Image]
    BY <1>3, Zenon DEF FlushSync, TypeOK
  <2>2. ck' \in [pc : CkPc, begin : 0..MaxLsn, att : SUBSET Xids,
                 todo : SUBSET Pages, next : 0..(MaxXid + 1)]
    BY <1>3, Zenon DEF FlushSync, Done, TypeOK
  <2> QED
    BY <1>3, <2>1, <2>2, Zenon DEF FlushSync, TypeOK, walVars, clogVars, txnVars, runVars, ghostVars
<1>4. ASSUME NEW p \in Pages, FlushFail(p) PROVE TypeOK'
  <2>1. /\ flusher' \in [Pages -> Threads \union {None}] /\ written' \in [Pages -> BOOLEAN]
        /\ dirty' \in [Pages -> BOOLEAN]
    BY <1>4, Zenon DEF FlushFail, TypeOK
  <2>2. ck' \in [pc : CkPc, begin : 0..MaxLsn, att : SUBSET Xids,
                 todo : SUBSET Pages, next : 0..(MaxXid + 1)]
    BY <1>4, CrashRecoveryAssumption DEF FlushFail, TypeOK, Resting, CkPc
  <2> QED
    BY <1>4, <2>1, <2>2, SMTT(30) DEF FlushFail, TypeOK, walVars, fileVars, clogVars, txnVars,
                            runVars, ghostVars
<1> QED
  BY <1>1, <1>2, <1>3, <1>4, Zenon DEF Flush

(* A step of a checkpoint keeps the types.                                 *)
LEMMA CheckpointTypes ==
  ASSUME Typed, Log, Checkpoint
  PROVE  Typed'
<1> SUFFICES TypeOK'
  BY Zenon DEF Typed
<1> TypeOK
  BY Zenon DEF Typed
<1> USE CrashRecoveryAssumption
<1> DEFINE CkType == [pc : CkPc, begin : 0..MaxLsn, att : SUBSET Xids,
                      todo : SUBSET Pages, next : 0..(MaxXid + 1)]
<1>1. CASE ck_begin
  <2>1. Rec("begin", None, 0, <<>>) \in Record
    BY DEF Rec, Record
  <2>2. wal' \in Seq(Record) /\ Len(wal') = Len(wal) + 1
    BY <1>1, <2>1, AppendWal, Zenon DEF ck_begin
  <2>3. Len(wal') \in 0..MaxLsn
    BY <1>1, <2>2 DEF ck_begin, Room, TypeOK
  <2>4. ck' = [pc |-> "begun", begin |-> Len(wal'), att |-> {}, todo |-> {}, next |-> 0]
    BY <1>1, Zenon DEF ck_begin, Resting
  <2>5. ck' \in CkType
    BY <2>3, <2>4 DEF CkPc
  <2> QED
    <3>1. Len(wal) \in Nat /\ synced \in 0..Len(wal) /\ synced' = synced
      BY <1>1, Numbers, Zenon DEF ck_begin, TypeOK
    <3>2. synced' \in 0..Len(wal') /\ Len(wal') <= MaxLsn
      BY <2>2, <2>3, <3>1
    <3> QED
      BY <1>1, <2>2, <2>5, <3>2, Zenon DEF ck_begin, TypeOK, poolVars, fileVars, clogVars, txnVars,
                                           runVars, ghostVars
<1>2. CASE ck_publish
  <2>1. ck' \in CkType /\ checkpoint_lsn' \in 0..MaxLsn
    BY <1>2, Zenon DEF ck_publish, CkGo, TypeOK, CkPc
  <2> QED
    BY <1>2, <2>1, Zenon DEF ck_publish, TypeOK, walVars, fileVars, clogVars, txnVars, runVars,
                      ghostVars
<1>3. CASE ck_snapshot
  <2>1. ck' \in CkType
    BY <1>3, Zenon DEF ck_snapshot, Active, TypeOK, CkPc
  <2> QED
    BY <1>3, <2>1, Zenon DEF ck_snapshot, TypeOK, walVars, poolVars, fileVars, clogVars, txnVars,
                      runVars, ghostVars
<1>4. CASE ck_collect
  <2>1. ck' \in CkType /\ inflight' \in SUBSET Pages
    BY <1>4, Zenon DEF ck_collect, DirtyPages, TypeOK, CkPc
  <2> QED
    BY <1>4, <2>1, SMTT(30) DEF ck_collect, TypeOK, walVars, poolVars, fileVars, clogVars, txnVars
<1>5. ASSUME NEW p \in Pages, ck_skip(p) PROVE TypeOK'
  <2>1. ck' \in CkType
    BY <1>5, Zenon DEF ck_skip, Done, TypeOK
  <2> QED
    BY <1>5, <2>1, Zenon DEF ck_skip, TypeOK, walVars, poolVars, fileVars, clogVars, txnVars,
                      runVars, ghostVars
<1>6. CASE ck_clog
  <2>1. ck' \in CkType
    BY <1>6, Zenon DEF ck_clog, CkGo, TypeOK, CkPc
  <2> QED
    BY <1>6, <2>1, Zenon DEF ck_clog, TypeOK, walVars, poolVars, fileVars, txnVars, runVars, ghostVars
<1>7. CASE ck_end
  <2>1. ck.begin \in 1..MaxLsn /\ ck.att \in SUBSET Xids
    BY <1>7 DEF ck_end, At, Log, Running, RedoStart, TypeOK
  <2>2. Rec("end", None, 0, [ck |-> ck.begin, att |-> ck.att]) \in Record
    BY <2>1 DEF Rec, Record
  <2>3. wal' \in Seq(Record) /\ Len(wal') = Len(wal) + 1
    BY <1>7, <2>2, AppendWal, Zenon DEF ck_end
  <2>4. next_txn_id \in 0..(MaxXid + 1) /\ ck \in CkType
    BY DEF TypeOK
  <2>5. ck' \in CkType
    BY <1>7, <2>4, Zenon DEF ck_end, CkPc
  <2> QED
    <3>1. Len(wal) \in Nat /\ synced \in 0..Len(wal) /\ synced' = synced /\ Room(1)
      BY <1>7, Numbers, Zenon DEF ck_end, TypeOK
    <3>2. synced' \in 0..Len(wal') /\ Len(wal') <= MaxLsn
      BY <2>3, <3>1 DEF Room
    <3> QED
      BY <1>7, <2>3, <2>5, <3>2, Zenon DEF ck_end, TypeOK, poolVars, fileVars, clogVars, txnVars,
                                           runVars, ghostVars
<1>8. CASE ck_sync
  <2>1. ck' \in CkType
    BY <1>8, Zenon DEF ck_sync, CkGo, TypeOK, CkPc
  <2> QED
    BY <1>8, <2>1 DEF ck_sync, TypeOK, poolVars, fileVars, clogVars, txnVars, runVars, ghostVars
<1>9. CASE ck_superblock
  <2>1. ck.begin \in 1..MaxLsn /\ ck.next \in 1..(MaxXid + 1)
    BY <1>9 DEF ck_superblock, At, Log, Running, Numbered, RedoStart, TypeOK
  <2>2. ck' \in CkType
    BY <1>9, Zenon DEF ck_superblock, CkGo, TypeOK, CkPc
  <2>3. superblock' \in [checkpoint_lsn : 1..MaxLsn, next_txn_id : 1..(MaxXid + 1)]
    BY <1>9, <2>1, Zenon DEF ck_superblock
  <2> QED
    BY <1>9, <2>2, <2>3, Zenon DEF ck_superblock, TypeOK, walVars, poolVars, fileVars, clogVars,
                            txnVars, runVars, ghostVars
<1>10. CASE ck_recycle
  <2>1. ck' \in CkType
    BY <1>10 DEF ck_recycle, Resting, CkPc
  <2>2. wal_start' \in 1..MaxLsn
    BY <1>10, Zenon DEF ck_recycle, At, Log, RedoStart, TypeOK
  <2> QED
    BY <1>10, <2>1, <2>2, Zenon DEF ck_recycle, TypeOK, poolVars, fileVars, clogVars, txnVars,
                             runVars, ghostVars
<1>11. CASE ck_fail
  <2>1. ck' \in CkType
    BY <1>11 DEF ck_fail, Resting, CkPc
  <2> QED
    BY <1>11, <2>1, Zenon DEF ck_fail, TypeOK, walVars, poolVars, fileVars, clogVars, txnVars,
                       runVars, ghostVars
<1> QED
  BY <1>1, <1>2, <1>3, <1>4, <1>5, <1>6, <1>7, <1>8, <1>9, <1>10, <1>11, Zenon DEF Checkpoint

(* What a crash may find in the files: the page that was written, the one  *)
(* that was fsynced or, where these differ, a mixture.                     *)
LEMMA FilesAfter ==
  ASSUME NEW cache \in [Pages -> Image], NEW file \in [Pages -> Image],
         NEW files \in FileAfter(cache, file)
  PROVE  /\ files \in [Pages -> Image]
         /\ \A p \in Pages :
              \/ files[p] = cache[p]
              \/ files[p] = file[p]
              \/ files[p] = Torn /\ cache[p] # file[p]
<1>1. Range(cache) \union Range(file) \union {Torn} \subseteq Image
  BY Zenon DEF Range, Image
<1> QED
  BY <1>1, Zenon DEF FileAfter, Survivors

LEMMA ClogsAfter ==
  ASSUME NEW cache, NEW file, NEW clogs \in ClogAfter(cache, file)
  PROVE  /\ clogs \in [Xids -> TxnState]
         /\ \A x \in Xids : clogs[x] = cache[x] \/ clogs[x] = file[x]
BY Zenon DEF ClogAfter

(* The XID clock recovery restarts from.                                   *)
LEMMA NextFacts ==
  ASSUME Typed, Log
  PROVE  /\ RecoveredNext \in 1..(MaxXid + 1)
         /\ superblock.next_txn_id <= RecoveredNext
         /\ \A i \in Replayed : wal[i].xid < RecoveredNext
<1> TypeOK
  BY Zenon DEF Typed
<1> DEFINE S == {superblock.next_txn_id} \union {wal[i].xid + 1 : i \in Replayed}
<1>1. superblock.next_txn_id \in 1..(MaxXid + 1) /\ MaxXid \in Nat
  BY CrashRecoveryAssumption, Zenon DEF TypeOK
<1>2. ASSUME NEW i \in Replayed PROVE wal[i].xid \in 0..MaxXid
  <2>1. i \in 1..Len(wal)
    BY DEF Replayed, RedoStart, TypeOK
  <2>2. wal[i] \in Record
    BY <2>1 DEF TypeOK
  <2> QED
    BY <2>2, Zenon DEF Record
<1>3. S \in SUBSET Nat /\ S # {} /\ \A y \in S : y <= MaxXid + 1
  BY <1>1, <1>2
<1>4. Max(S) \in S /\ \A y \in S : y <= Max(S)
  <2>1. MaxXid + 1 \in Nat
    BY <1>1
  <2> QED
    BY <2>1, <1>3, MaxNat, Zenon
<1>5. RecoveredNext = Max(S)
  BY Zenon DEF RecoveredNext
<1> HIDE DEF S
<1>6. Max(S) \in Nat /\ Max(S) <= MaxXid + 1
  BY <1>3, <1>4, Zenon
<1>7. superblock.next_txn_id \in S /\ \A i \in Replayed : wal[i].xid + 1 \in S
  BY Zenon DEF S
<1>8. superblock.next_txn_id <= Max(S) /\ \A i \in Replayed : wal[i].xid + 1 <= Max(S)
  BY <1>4, <1>7, Zenon
<1> QED
  BY <1>1, <1>2, <1>5, <1>6, <1>8

(* Redo makes an image of an image.                                        *)
LEMMA RedoTypes ==
  ASSUME Typed, Log, NEW p \in Pages
  PROVE  RedoPage(p) \in Image
<1> TypeOK
  BY Zenon DEF Typed
<1> DEFINE G == [i \in (RedoStart - 1)..Len(wal) |-> Image]
<1>1. RedoStart \in Nat /\ RedoStart >= 1 /\ Len(wal) \in Nat /\ RedoStart <= Len(wal)
      /\ Len(wal) <= MaxLsn
  BY DEF TypeOK, RedoStart, Log
<1>2. data_file[p] \in G[RedoStart - 1]
  BY <1>1 DEF TypeOK
<1>3. ASSUME NEW i \in RedoStart..Len(wal), NEW img \in G[i - 1]
      PROVE  RedoRecord(img, p, i) \in G[i]
  <2>1. i \in 0..MaxLsn /\ i \in 1..Len(wal) /\ i - 1 \in (RedoStart - 1)..Len(wal)
        /\ i \in (RedoStart - 1)..Len(wal)
    BY <1>1, <1>3, CrashRecoveryAssumption
  <2>4. img \in Image /\ G[i] = Image
    BY <1>3, <2>1, Zenon
  <2> QED
    BY <2>4, RedoSteps, Zenon DEF Image
<1> HIDE DEF G
<1>4. RedoPage(p) \in G[Len(wal)]
  BY <1>1, <1>2, <1>3, RedoInduction, Zenon
<1> QED
  BY <1>1, <1>4 DEF G

(* A crash keeps the types.                                                *)
LEMMA DownTypes ==
  ASSUME Typed, crashes < MaxCrashes, NEW files \in [Pages -> Image],
         NEW clogs \in [Xids -> TxnState], Down(files, clogs),
         wal' \in Seq(Record), Len(wal') <= MaxLsn, synced' \in 0..Len(wal')
  PROVE  Typed'
<1> SUFFICES TypeOK'
  BY Zenon DEF Typed
<1> TypeOK
  BY Zenon DEF Typed
<1>1. /\ latch' \in [Pages -> 0..MaxXid] /\ dirty' \in [Pages -> BOOLEAN]
      /\ needs_fpi' \in [Pages -> BOOLEAN] /\ written' \in [Pages -> BOOLEAN]
      /\ flusher' \in [Pages -> Threads \union {None}]
  BY CrashRecoveryAssumption DEF Down
<1>2. txn' \in [Xids -> TxnPc] /\ next_txn_id' \in 1..(MaxXid + 1)
  BY Zenon DEF Down, TxnPc, TypeOK
<1>3. ck' \in [pc : CkPc, begin : 0..MaxLsn, att : SUBSET Xids,
               todo : SUBSET Pages, next : 0..(MaxXid + 1)]
  BY CrashRecoveryAssumption DEF Down, Resting, CkPc
<1>4. checkpoint_lsn' \in 0..MaxLsn /\ crashes' \in 0..MaxCrashes
  BY CrashRecoveryAssumption DEF Down, TypeOK
<1>5. up' \in BOOLEAN
  BY Zenon DEF Down
<1> QED
  BY <1>1, <1>2, <1>3, <1>4, <1>5, Zenon DEF Down, TypeOK, ghostVars

LEMMA CrashTypes ==
  ASSUME Typed, Log, crash \/ crash_in_recovery
  PROVE  Typed'
<1> SUFFICES TypeOK'
  BY Zenon DEF Typed
<1> TypeOK
  BY Zenon DEF Typed
<1>1. CASE crash
  <2>1. PICK n \in synced..Len(wal) : wal' = SubSeq(wal, 1, n) /\ synced' = n
    BY <1>1, Zenon DEF crash
  <2>2. n \in 0..Len(wal) /\ n <= MaxLsn
    BY <2>1, CrashRecoveryAssumption DEF TypeOK
  <2>3. wal' \in Seq(Record) /\ Len(wal') = n
    BY <2>1, <2>2, CutWal, Zenon
  <2>4. PICK files \in FileAfter(page_cache, data_file),
             clogs \in ClogAfter(clog_cache, clog_file) : Down(files, clogs)
    BY <1>1, Zenon DEF crash
  <2>5. files \in [Pages -> Image] /\ clogs \in [Xids -> TxnState]
    BY FilesAfter, ClogsAfter, Zenon DEF TypeOK
  <2> QED
    BY <1>1, <2>1, <2>2, <2>3, <2>4, <2>5, DownTypes DEF crash, Typed
<1>2. CASE crash_in_recovery
  <2>1. RecoveredPages \in [Pages -> Image]
    BY RedoTypes, Zenon DEF RecoveredPages
  <2>2. PICK files \in FileAfter(RecoveredPages, data_file),
             clogs \in ClogAfter(RecoveredClog, clog_file) : Down(files, clogs)
    BY <1>2, Zenon DEF crash_in_recovery
  <2>3. files \in [Pages -> Image] /\ clogs \in [Xids -> TxnState]
    BY <2>1, FilesAfter, ClogsAfter, Zenon DEF TypeOK
  <2>4. wal' \in Seq(Record) /\ Len(wal') <= MaxLsn /\ synced' \in 0..Len(wal')
    BY <1>2, Zenon DEF crash_in_recovery, TypeOK
  <2> QED
    BY <1>2, <2>2, <2>3, <2>4, DownTypes, Zenon DEF crash_in_recovery, Typed
<1> QED
  BY <1>1, <1>2, Zenon

(* Recovery keeps the types.                                               *)
LEMMA RecoverTypes ==
  ASSUME Typed, Log, recover
  PROVE  Typed'
<1> SUFFICES TypeOK'
  BY Zenon DEF Typed
<1> TypeOK
  BY Zenon DEF Typed
<1>1. /\ mem' \in [Pages -> Image] /\ page_cache' \in [Pages -> Image]
      /\ data_file' \in [Pages -> Image]
  BY RedoTypes, Zenon DEF recover, RecoveredPages
<1>2. clog' \in [Xids -> TxnState]
  <2>1. \A x \in Xids : RedoClog(x) \in TxnState
    BY Zenon DEF RedoClog, TypeOK, TxnState
  <2> QED
    BY <2>1, Zenon DEF recover, RecoveredClog, TxnState
<1>3. next_txn_id' \in 1..(MaxXid + 1)
  BY NextFacts, Zenon DEF recover
<1>4. txn' \in [Xids -> TxnPc] /\ told' \in [Xids -> TxnState] /\ wrote' \in [Xids -> SUBSET Pages]
  BY <1>2, Zenon DEF recover, TypeOK, TxnPc
<1>5. checkpoint_lsn' \in 0..MaxLsn /\ up' \in BOOLEAN
  BY DEF recover, RedoStart, TypeOK
<1> QED
  BY <1>1, <1>2, <1>3, <1>4, <1>5, Zenon DEF recover, TypeOK, ghostVars, ckVars, walVars

LEMMA NextTypes ==
  ASSUME Typed, Log, Pool, [Next]_vars
  PROVE  Typed'
<1> SUFFICES TypeOK'
  BY Zenon DEF Typed
<1> TypeOK
  BY Zenon DEF Typed
<1>1. CASE clog_evict
  BY <1>1, Zenon DEF clog_evict, TypeOK, walVars, poolVars, fileVars, txnVars, ckVars, runVars, ghostVars
<1>2. CASE UNCHANGED vars
  BY <1>2, Zenon DEF vars, TypeOK, walVars, poolVars, fileVars, clogVars, txnVars, ckVars, runVars, ghostVars
<1> QED
  BY <1>1, <1>2, TransactionTypes, FlushTypes, CheckpointTypes, CrashTypes, RecoverTypes, Zenon
     DEF Next, Typed

(***************************************************************************)
(* The log.                                                                *)
(***************************************************************************)

LEMMA AppendFormed ==
  ASSUME Typed, Log, NEW rec \in Record, wal' = Append(wal, rec),
         Formed(rec, Len(wal) + 1)
  PROVE  \A i \in 1..Len(wal') : Formed(wal'[i], i)
<1> TypeOK
  BY Zenon DEF Typed
<1>1. /\ Len(wal') = Len(wal) + 1 /\ wal'[Len(wal) + 1] = rec /\ Len(wal) \in Nat
      /\ \A i \in 1..Len(wal) : wal'[i] = wal[i]
  BY AppendWal DEF TypeOK
<1>2. ASSUME NEW i \in 1..Len(wal') PROVE Formed(wal'[i], i)
  <2>1. i \in 1..Len(wal) \/ i = Len(wal) + 1
    BY <1>1, <1>2
  <2> QED
    BY <1>1, <2>1, Zenon DEF Log
<1> QED
  BY <1>2, Zenon

(* What a writing transaction's image record holds.                        *)
LEMMA ImageFormed ==
  ASSUME Typed, Pool, NEW p \in Pages, mem[p] # Torn
  PROVE  /\ Rec("fpi", p, 0, mem[p]) \in Record
         /\ Formed(Rec("fpi", p, 0, mem[p]), Len(wal) + 1)
<1> TypeOK
  BY Zenon DEF Typed
<1>1. mem[p] \in Image /\ mem[p].lsn \in Nat /\ mem[p].lsn <= Len(wal) /\ Len(wal) \in Nat
  BY DEF TypeOK, Pool, Lsns, Image
<1>2. mem[p].lsn < Len(wal) + 1
  BY <1>1
<1> QED
  BY <1>1, <1>2, CrashRecoveryAssumption DEF Rec, Record, Formed, Ending

LEMMA InsertFormed ==
  ASSUME Typed, Pool, NEW x \in Xids, txn[x] = "pinned"
  PROVE  /\ Rec("insert", Pinned(x), x, <<>>) \in Record
         /\ Formed(Rec("insert", Pinned(x), x, <<>>), Len(wal) + 1)
<1>1. Pinned(x) \in Pages
  BY PinnedPage, Zenon
<1> QED
  BY <1>1 DEF Rec, Record, Formed, Ending, Xids

LEMMA EndFormed ==
  ASSUME Typed, NEW x \in Xids, NEW kind \in Ending
  PROVE  /\ Rec(kind, None, x, <<>>) \in Record
         /\ Formed(Rec(kind, None, x, <<>>), Len(wal) + 1)
BY DEF Rec, Record, Formed, Ending, Xids

LEMMA BeginFormed ==
  ASSUME Typed
  PROVE  /\ Rec("begin", None, 0, <<>>) \in Record
         /\ Formed(Rec("begin", None, 0, <<>>), Len(wal) + 1)
BY CrashRecoveryAssumption DEF Rec, Record, Formed, Ending

LEMMA CkEndFormed ==
  ASSUME Typed, Log, ck.pc = "ending"
  PROVE  /\ Rec("end", None, 0, [ck |-> ck.begin, att |-> ck.att]) \in Record
         /\ Formed(Rec("end", None, 0, [ck |-> ck.begin, att |-> ck.att]), Len(wal) + 1)
<1> TypeOK
  BY Zenon DEF Typed
<1>1. ck.begin \in 1..MaxLsn /\ ck.att \in SUBSET Xids /\ ck.begin < Len(wal) + 1
  BY DEF Log, Running, RedoStart, TypeOK
<1> QED
  BY <1>1, CrashRecoveryAssumption DEF Rec, Record, Formed, Ending

(* Every step keeps the log well formed and the redo point durable.        *)
LEMMA NextLog ==
  ASSUME Typed, Log, Pool, Typed', Next
  PROVE  Log'
<1> TypeOK
  BY Zenon DEF Typed
<1> TypeOK'
  BY Zenon DEF Typed
<1> USE DEF RedoStart
<1>0. /\ Len(wal) \in Nat /\ synced \in Nat /\ synced <= Len(wal)
      /\ superblock.checkpoint_lsn \in Nat /\ ck.begin \in Nat
  BY Numbers, Zenon
<1>1. ASSUME wal' = wal, synced' = synced \/ synced' = Len(wal), UNCHANGED <<superblock, ck>>
      PROVE  Log'
  BY <1>0, <1>1 DEF Log
<1>2. ASSUME NEW rec \in Record, wal' = Append(wal, rec), Formed(rec, Len(wal) + 1),
             UNCHANGED <<synced, superblock, ck>>
      PROVE  Log'
  <2>1. \A i \in 1..Len(wal') : Formed(wal'[i], i)
    BY <1>2, AppendFormed, Zenon
  <2>2. Len(wal') = Len(wal) + 1
    BY <1>2, AppendWal, Zenon
  <2> QED
    BY <1>0, <1>2, <2>1, <2>2 DEF Log
<1>3. ASSUME UNCHANGED <<wal, synced, superblock>>,
             ck' = Resting \/ (/\ ck'.pc = ck.pc /\ ck'.begin = ck.begin /\ ck'.next = ck.next)
      PROVE  Log'
  BY <1>3 DEF Log, Resting, Running, Numbered
<1>4. CASE Transaction
  <2>1. CASE begin
    BY <1>1, <2>1, Zenon DEF begin, walVars, ckVars
  <2>2. ASSUME NEW x \in Xids, NEW p \in Pages, pin_mut(x, p) PROVE Log'
    <3>1. CASE FpiDue(p)
      BY <1>2, <2>2, <3>1, ImageFormed, Zenon DEF pin_mut, ckVars
    <3>2. CASE ~FpiDue(p)
      BY <1>1, <2>2, <3>2, Zenon DEF pin_mut, ckVars
    <3> QED
      BY <3>1, <3>2, Zenon
  <2>3. ASSUME NEW x \in Xids, log_insert(x) PROVE Log'
    BY <1>2, <2>3, InsertFormed, Zenon DEF log_insert, ckVars
  <2>4. ASSUME NEW x \in Xids, place_tuple(x) PROVE Log'
    BY <1>1, <2>4, Zenon DEF place_tuple, walVars, ckVars
  <2>5. ASSUME NEW x \in Xids, NEW kind \in Ending, append_end(x, kind) PROVE Log'
    BY <1>2, <2>5, EndFormed, Zenon DEF append_end, ckVars
  <2>6. ASSUME NEW x \in Xids, NEW kind \in Ending, flush_end(x, kind) PROVE Log'
    BY <1>1, <2>6, Zenon DEF flush_end, ckVars
  <2>7. ASSUME NEW x \in Xids, NEW state \in {"Committed", "Aborted"}, end_txn(x, state)
        PROVE  Log'
    BY <1>1, <2>7, Zenon DEF end_txn, walVars, ckVars
  <2> QED
    BY <1>4, <2>1, <2>2, <2>3, <2>4, <2>5, <2>6, <2>7, Zenon DEF Transaction, Ending
<1>5. CASE Flush
  <2>1. ASSUME NEW p \in Pages, NEW t \in Threads, FlushClaim(t, p) PROVE Log'
    BY <1>1, <2>1, Zenon DEF FlushClaim, walVars, ckVars
  <2>2. ASSUME NEW p \in Pages, FlushWrite(p) PROVE Log'
    BY <1>1, <2>2, Zenon DEF FlushWrite, ckVars
  <2>3. ASSUME NEW p \in Pages, FlushSync(p) PROVE Log'
    <3>1. ck'.pc = ck.pc /\ ck'.begin = ck.begin /\ ck'.next = ck.next
      BY <2>3, Zenon DEF FlushSync, Done, TypeOK
    <3> QED
      BY <1>3, <2>3, <3>1, Zenon DEF FlushSync, walVars
  <2>4. ASSUME NEW p \in Pages, FlushFail(p) PROVE Log'
    BY <1>3, <2>4, Zenon DEF FlushFail, walVars
  <2> QED
    BY <1>5, <2>1, <2>2, <2>3, <2>4, Zenon DEF Flush
<1>6. CASE clog_evict
  BY <1>1, <1>6, Zenon DEF clog_evict, walVars, ckVars
<1>7. CASE Checkpoint
  <2>1. CASE ck_begin
    <3>1. \A i \in 1..Len(wal') : Formed(wal'[i], i)
      BY <2>1, AppendFormed, BeginFormed, Zenon DEF ck_begin
    <3>2. Len(wal') = Len(wal) + 1
      BY <2>1, AppendWal, BeginFormed, Zenon DEF ck_begin
    <3>3. ck'.pc = "begun" /\ ck'.begin = Len(wal) + 1
      BY <2>1, <3>2, Zenon DEF ck_begin, Resting
    <3> QED
      BY <1>0, <2>1, <3>1, <3>2, <3>3 DEF ck_begin, Log, Running, Numbered
  <2>2. CASE ck_publish
    <3>1. ck.pc = "begun" /\ ck'.pc = "published" /\ ck'.begin = ck.begin
      BY <2>2, Zenon DEF ck_publish, CkGo, At, TypeOK
    <3> QED
      BY <2>2, <3>1, Zenon DEF ck_publish, walVars, Log, Running, Numbered
  <2>3. CASE ck_snapshot
    <3>1. ck.pc = "published" /\ ck'.pc = "sampled" /\ ck'.begin = ck.begin
      BY <2>3, Zenon DEF ck_snapshot, At, TypeOK
    <3> QED
      BY <2>3, <3>1, Zenon DEF ck_snapshot, walVars, Log, Running, Numbered
  <2>4. CASE ck_collect
    <3>1. ck.pc = "sampled" /\ ck'.pc = "flush" /\ ck'.begin = ck.begin
      BY <2>4, Zenon DEF ck_collect, At, TypeOK
    <3> QED
      BY <2>4, <3>1, Zenon DEF ck_collect, walVars, Log, Running, Numbered
  <2>5. ASSUME NEW p \in Pages, ck_skip(p) PROVE Log'
    <3>1. ck'.pc = ck.pc /\ ck'.begin = ck.begin /\ ck'.next = ck.next
      BY <2>5, Zenon DEF ck_skip, Done, TypeOK
    <3> QED
      BY <1>3, <2>5, <3>1, Zenon DEF ck_skip, walVars
  <2>6. CASE ck_clog
    <3>1. ck.pc = "flush" /\ ck'.pc = "ending" /\ ck'.begin = ck.begin
      BY <2>6, Zenon DEF ck_clog, CkGo, At, TypeOK
    <3> QED
      BY <2>6, <3>1, Zenon DEF ck_clog, walVars, Log, Running, Numbered
  <2>7. CASE ck_end
    <3>1. ck.pc = "ending" /\ ck'.pc = "syncing" /\ ck'.begin = ck.begin
          /\ ck'.next = next_txn_id
      BY <2>7, Zenon DEF ck_end, At, TypeOK
    <3>2. \A i \in 1..Len(wal') : Formed(wal'[i], i)
      BY <2>7, <3>1, AppendFormed, CkEndFormed, Zenon DEF ck_end
    <3>3. Len(wal') = Len(wal) + 1
      BY <2>7, <3>1, AppendWal, CkEndFormed, Zenon DEF ck_end
    <3>4. next_txn_id >= 1
      BY DEF TypeOK
    <3> QED
      BY <1>0, <2>7, <3>1, <3>2, <3>3, <3>4 DEF ck_end, Log, Running, Numbered
  <2>8. CASE ck_sync
    <3>1. ck.pc = "syncing" /\ ck'.pc = "super" /\ ck'.begin = ck.begin /\ ck'.next = ck.next
      BY <2>8, Zenon DEF ck_sync, CkGo, At, TypeOK
    <3> QED
      BY <1>0, <2>8, <3>1 DEF ck_sync, Log, Running, Numbered
  <2>9. CASE ck_superblock
    <3>1. /\ ck.pc = "super" /\ ck'.pc = "recycle" /\ ck'.begin = ck.begin
          /\ superblock'.checkpoint_lsn = ck.begin
      BY <2>9, Zenon DEF ck_superblock, CkGo, At, TypeOK
    <3> QED
      BY <1>0, <2>9, <3>1, Zenon DEF ck_superblock, walVars, Log, Running, Numbered
  <2>10. CASE ck_recycle
    BY <1>3, <2>10, Zenon DEF ck_recycle
  <2>11. CASE ck_fail
    BY <1>3, <2>11, Zenon DEF ck_fail, walVars
  <2> QED
    BY <1>7, <2>1, <2>2, <2>3, <2>4, <2>5, <2>6, <2>7, <2>8, <2>9, <2>10, <2>11, Zenon DEF Checkpoint
<1>8. CASE crash
  <2>1. PICK n \in synced..Len(wal) : wal' = SubSeq(wal, 1, n) /\ synced' = n
    BY <1>8, Zenon DEF crash
  <2>2. Len(wal') = n /\ \A i \in 1..n : wal'[i] = wal[i]
    BY <1>0, <2>1, CutWal
  <2>3. ck' = Resting /\ superblock' = superblock
    BY <1>8, Zenon DEF crash, Down
  <2>4. \A i \in 1..Len(wal') : Formed(wal'[i], i)
    BY <1>0, <2>1, <2>2 DEF Log
  <2> QED
    BY <1>0, <2>1, <2>2, <2>3, <2>4 DEF Log, Resting, Running, Numbered
<1>9. CASE recover
  BY <1>1, <1>9, Zenon DEF recover, walVars, ckVars
<1>10. CASE crash_in_recovery
  BY <1>3, <1>10, Zenon DEF crash_in_recovery, Down
<1> QED
  BY <1>4, <1>5, <1>6, <1>7, <1>8, <1>9, <1>10, Zenon DEF Next

(***************************************************************************)
(* Latches, and the LSNs of the images.                                    *)
(***************************************************************************)

LEMMA Holders ==
  ASSUME Typed
  PROVE  0 \notin Xids /\ \A p \in Pages : latch[p] # 0 => latch[p] \in Xids
<1> TypeOK
  BY Zenon DEF Typed
<1>1. \A p \in Pages : latch[p] \in 0..MaxXid
  BY Zenon DEF TypeOK
<1> QED
  BY <1>1, CrashRecoveryAssumption DEF Xids

LEMMA NumbersNext ==
  ASSUME Typed'
  PROVE  /\ Len(wal') \in Nat /\ synced' \in Nat /\ synced' <= Len(wal')
         /\ next_txn_id' \in Nat /\ next_txn_id' >= 1
<1> TypeOK'
  BY Zenon DEF Typed
<1>1. Len(wal') \in Nat
  BY DEF TypeOK
<1> QED
  BY <1>1 DEF TypeOK

LEMMA ImageLsns ==
  ASSUME Typed, NEW p \in Pages
  PROVE  /\ mem[p] # Torn => mem[p] \in [lsn : 0..MaxLsn, tuples : SUBSET Xids]
         /\ mem[p] # Torn => mem[p].lsn \in Nat
         /\ page_cache[p] # Torn => page_cache[p] \in [lsn : 0..MaxLsn, tuples : SUBSET Xids]
         /\ page_cache[p] # Torn => page_cache[p].lsn \in Nat
         /\ data_file[p] # Torn => data_file[p] \in [lsn : 0..MaxLsn, tuples : SUBSET Xids]
         /\ data_file[p] # Torn => data_file[p].lsn \in Nat
<1> TypeOK
  BY Zenon DEF Typed
<1>1. mem[p] \in Image /\ page_cache[p] \in Image /\ data_file[p] \in Image
  BY Zenon DEF TypeOK
<1> QED
  BY <1>1 DEF Image

(* Where the steps that change neither the pages in memory nor what is     *)
(* known of them leave both.                                               *)
LEMMA LatchesStay ==
  ASSUME Typed, Latches, UNCHANGED <<latch, dirty, flusher, mem, wal, txn>>
  PROVE  Latches'
BY Zenon DEF Latches

LEMMA LsnsStay ==
  ASSUME Typed, Lsns, UNCHANGED <<mem, page_cache, data_file>>,
         Len(wal') >= Len(wal), synced' >= synced, Len(wal') \in Nat, synced' \in Nat
  PROVE  Lsns'
<1>1. Len(wal) \in Nat /\ synced \in Nat
  BY Numbers, Zenon
<1>2. \A p \in Pages : /\ mem[p] # Torn => mem[p].lsn \in Nat
                       /\ page_cache[p] # Torn => page_cache[p].lsn \in Nat
                       /\ data_file[p] # Torn => data_file[p].lsn \in Nat
  BY ImageLsns, Zenon
<1> QED
  BY <1>1, <1>2 DEF Lsns

(* Transactions that hold no latch move on.                                *)
LEMMA LatchesOfOthers ==
  ASSUME Typed, Latches, UNCHANGED <<latch, dirty, flusher, mem>>,
         \A x \in Xids : {txn[x], txn'[x]} \intersect {"pinned", "logged"} # {} => txn'[x] = txn[x],
         Len(wal') \in Nat, Len(wal') >= Len(wal),
         \A i \in 1..Len(wal) : wal'[i] = wal[i]
  PROVE  Latches'
<1>1. \A x \in Xids : txn[x] \in {"pinned", "logged"} \/ txn'[x] \in {"pinned", "logged"}
                      => txn'[x] = txn[x]
  BY Zenon
<1>2. \A p \in Pages : latch[p] # 0 => latch[p] \in Xids
  BY Holders, Zenon
<1>3. \A i \in 1..Len(wal) : i \in 1..Len(wal')
  BY Numbers
<1> QED
  BY <1>1, <1>2, <1>3 DEF Latches

(* Beginning, and every later step of a transaction, moves it on from a    *)
(* state it can be in.                                                      *)
LEMMA NextClock ==
  ASSUME Typed, Log, Clock, Typed', Next
  PROVE  Clock'
<1> TypeOK
  BY Zenon DEF Typed
<1> TypeOK'
  BY Zenon DEF Typed
<1>0. next_txn_id \in Nat /\ MaxXid \in Nat
  BY Numbers, Zenon
<1>1. ASSUME UNCHANGED <<up, txn, next_txn_id>> PROVE Clock'
  BY <1>1, Zenon DEF Clock
<1>2. ASSUME NEW x \in Xids, NEW pc, up, txn[x] # "none", pc # "none",
             txn' = [txn EXCEPT ![x] = pc], UNCHANGED <<up, next_txn_id>>
      PROVE  Clock'
  <2>1. \A y \in Xids : txn'[y] = IF y = x THEN pc ELSE txn[y]
    BY <1>2, Zenon DEF TypeOK
  <2> QED
    BY <1>2, <2>1, Zenon DEF Clock
<1>3. CASE Transaction
  <2>1. CASE begin
    <3>1. \A y \in Xids : txn'[y] = IF y = next_txn_id THEN "active" ELSE txn[y]
      BY <2>1, Zenon DEF begin, TypeOK
    <3>2. \A y \in Xids : y >= next_txn_id + 1 <=> y >= next_txn_id /\ y # next_txn_id
      BY <1>0 DEF Xids
    <3> QED
      BY <2>1, <3>1, <3>2 DEF begin, Clock
  <2>2. ASSUME NEW x \in Xids, NEW p \in Pages, pin_mut(x, p) PROVE Clock'
    BY <1>2, <2>2, Zenon DEF pin_mut, runVars
  <2>3. ASSUME NEW x \in Xids, log_insert(x) PROVE Clock'
    BY <1>2, <2>3, Zenon DEF log_insert
  <2>4. ASSUME NEW x \in Xids, place_tuple(x) PROVE Clock'
    BY <1>2, <2>4, Zenon DEF place_tuple, runVars
  <2>5. ASSUME NEW x \in Xids, NEW kind \in Ending, append_end(x, kind) PROVE Clock'
    BY <1>2, <2>5, Zenon DEF append_end, runVars, Ending
  <2>6. ASSUME NEW x \in Xids, NEW kind \in Ending, flush_end(x, kind) PROVE Clock'
    <3>1. (IF kind = "commit" THEN "commit_synced" ELSE "abort_synced") # "none"
      BY Zenon
    <3>2. up /\ txn[x] # "none" /\ UNCHANGED <<up, next_txn_id>>
      BY <2>6, Zenon DEF flush_end, runVars, Ending
    <3> QED
      BY <1>2, <2>6, <3>1, <3>2, Zenon DEF flush_end
  <2>7. ASSUME NEW x \in Xids, NEW state \in {"Committed", "Aborted"}, end_txn(x, state)
        PROVE  Clock'
    BY <1>2, <2>7, Zenon DEF end_txn, runVars
  <2> QED
    BY <1>3, <2>1, <2>2, <2>3, <2>4, <2>5, <2>6, <2>7, Zenon DEF Transaction, Ending
<1>4. CASE Flush
  BY <1>1, <1>4, Zenon DEF Flush, FlushClaim, FlushWrite, FlushSync, FlushFail, txnVars, runVars
<1>5. CASE clog_evict
  BY <1>1, <1>5, Zenon DEF clog_evict, txnVars, runVars
<1>6. CASE Checkpoint
  BY <1>1, <1>6, Zenon DEF Checkpoint, ck_begin, ck_publish, ck_snapshot, ck_collect, ck_skip, ck_clog,
                    ck_end, ck_sync, ck_superblock, ck_recycle, ck_fail, txnVars, runVars
<1>7. CASE crash \/ crash_in_recovery
  BY <1>7, Zenon DEF crash, crash_in_recovery, Down, Clock
<1>8. CASE recover
  <2>1. next_txn_id' \in Nat
    BY DEF TypeOK
  <2>2. \A x \in Xids : txn'[x] = IF x < next_txn_id' THEN "ended" ELSE "none"
    BY <1>8, Zenon DEF recover
  <2>3. \A x \in Xids : x >= next_txn_id' <=> ~(x < next_txn_id')
    BY <2>1 DEF Xids
  <2> QED
    BY <2>2, <2>3, Zenon DEF Clock
<1> QED
  BY <1>3, <1>4, <1>5, <1>6, <1>7, <1>8, Zenon DEF Next

LEMMA TransactionPool ==
  ASSUME Typed, Log, Clock, Pool, Typed', Transaction
  PROVE  Pool'
<1> TypeOK
  BY Zenon DEF Typed
<1> TypeOK'
  BY Zenon DEF Typed
<1> USE DEF Pool
<1>0. /\ Len(wal) \in Nat /\ synced \in Nat /\ synced <= Len(wal)
      /\ Len(wal') \in Nat /\ synced' \in Nat /\ synced' <= Len(wal')
  BY Numbers, NumbersNext, Zenon
<1>1. CASE begin
  <2>1. Latches'
    <3>1. next_txn_id \in Xids /\ txn[next_txn_id] \notin {"pinned", "logged"}
      BY <1>1 DEF begin, Clock, Xids
    <3>2. \A y \in Xids : txn'[y] = IF y = next_txn_id THEN "active" ELSE txn[y]
      BY <1>1, Zenon DEF begin, TypeOK
    <3>3. UNCHANGED <<latch, dirty, flusher, mem, wal>>
      BY <1>1, Zenon DEF begin, poolVars, walVars
    <3> QED
      BY <1>0, <3>1, <3>2, <3>3, LatchesOfOthers
  <2>2. Lsns'
    BY <1>0, <1>1, LsnsStay DEF begin, poolVars, fileVars, walVars
  <2> QED
    BY <2>1, <2>2, Zenon
<1>2. ASSUME NEW x \in Xids, NEW p \in Pages, pin_mut(x, p) PROVE Pool'
  <2>1. \A q \in Pages : latch'[q] = IF q = p THEN x ELSE latch[q]
    BY <1>2, Zenon DEF pin_mut, TypeOK
  <2>2. \A y \in Xids : txn'[y] = IF y = x THEN "pinned" ELSE txn[y]
    BY <1>2, Zenon DEF pin_mut, TypeOK
  <2>3. \A q \in Pages : dirty'[q] = IF q = p THEN TRUE ELSE dirty[q]
    BY <1>2, Zenon DEF pin_mut, TypeOK
  <2>4. /\ \A i \in 1..Len(wal) : i \in 1..Len(wal') /\ wal'[i] = wal[i]
        /\ Len(wal') >= Len(wal)
        /\ \A q \in Pages : mem'[q] # mem[q] =>
              q = p /\ mem'[q] # Torn /\ mem'[q].lsn = Len(wal')
    <3>1. CASE FpiDue(p)
      <4>1. /\ Len(wal') = Len(wal) + 1 /\ \A i \in 1..Len(wal) : wal'[i] = wal[i]
        BY <1>2, <3>1, AppendWal, ImageFormed, Zenon DEF pin_mut
      <4>2. mem[p] \in [lsn : 0..MaxLsn, tuples : SUBSET Xids] /\ Len(wal') \in 0..MaxLsn
        BY <1>2, <1>0 DEF pin_mut, TypeOK, Image
      <4>3. mem' = [mem EXCEPT ![p] = [mem[p] EXCEPT !.lsn = Len(wal')]]
        BY <1>2, <3>1, Zenon DEF pin_mut
      <4>4. /\ [mem[p] EXCEPT !.lsn = Len(wal')] \in [lsn : 0..MaxLsn, tuples : SUBSET Xids]
            /\ [mem[p] EXCEPT !.lsn = Len(wal')].lsn = Len(wal')
        BY <4>2, Zenon
      <4>5. [mem[p] EXCEPT !.lsn = Len(wal')] # Torn
        BY <4>4, CrashRecoveryAssumption, Zenon DEF Xids
      <4>6. \A q \in Pages : mem'[q] # mem[q] =>
              q = p /\ mem'[q] # Torn /\ mem'[q].lsn = Len(wal')
        <5>1. \A q \in Pages :
                mem'[q] = IF q = p THEN [mem[p] EXCEPT !.lsn = Len(wal')] ELSE mem[q]
          BY <4>3, Zenon DEF TypeOK
        <5> QED
          BY <4>4, <4>5, <5>1, Zenon
      <4> QED
        BY <1>0, <4>1, <4>6
    <3>2. CASE ~FpiDue(p)
      BY <1>0, <1>2, <3>2 DEF pin_mut
    <3> QED
      BY <3>1, <3>2, Zenon
  <2>5. latch[p] = 0 /\ mem[p] # Torn /\ txn[x] = "active" /\ x # 0
    BY <1>2 DEF pin_mut, Xids
  <2>6. \A q \in Pages : latch[q] # x
    BY <2>5, Zenon DEF Latches, TypeOK
  <2>7. flusher' = flusher /\ \A q \in Pages : latch[q] # 0 => latch[q] \in Xids
    BY <1>2, Holders, Zenon DEF pin_mut
  <2>8. ASSUME NEW q \in Pages
        PROVE  /\ latch'[q] # 0 \/ dirty'[q] \/ flusher'[q] # None => mem'[q] # Torn
               /\ latch'[q] # 0 => txn'[latch'[q]] \in {"pinned", "logged"}
               /\ latch'[q] # 0 => \A r \in Pages : latch'[r] = latch'[q] => r = q
    <3>1. latch'[q] # 0 \/ dirty'[q] \/ flusher'[q] # None => mem'[q] # Torn
      <4>1. CASE q = p
        BY <2>4, <2>5, <4>1, Zenon
      <4>2. CASE q # p
        <5>1. latch'[q] = latch[q] /\ (dirty'[q] <=> dirty[q]) /\ mem'[q] = mem[q]
          BY <2>1, <2>3, <2>4, <4>2, Zenon
        <5> QED
          BY <2>7, <5>1, Zenon DEF Latches
      <4> QED
        BY <4>1, <4>2, Zenon
    <3>2. latch'[q] # 0 => txn'[latch'[q]] \in {"pinned", "logged"}
      BY <2>1, <2>2, <2>6, <2>7 DEF Latches
    <3>3. latch'[q] # 0 => \A r \in Pages : latch'[r] = latch'[q] => r = q
      BY <2>1, <2>5, <2>6 DEF Latches
    <3> QED
      BY <3>1, <3>2, <3>3, Zenon
  <2>9. ASSUME NEW y \in Xids
        PROVE  /\ txn'[y] \in {"pinned", "logged"} => \E q \in Pages : latch'[q] = y
               /\ txn'[y] = "logged" =>
                    \E i \in 1..Len(wal') : wal'[i].t = "insert" /\ wal'[i].xid = y
    <3>1. CASE y = x
      BY <2>1, <2>2, <3>1, Zenon
    <3>2. CASE y # x
      <4>1. txn'[y] = txn[y] /\ y # 0
        BY <2>2, <3>2 DEF Xids
      <4> QED
        BY <2>1, <2>4, <2>5, <4>1 DEF Latches
    <3> QED
      BY <3>1, <3>2, Zenon
  <2>10. Latches'
    BY <2>8, <2>9, Zenon DEF Latches
  <2>11. Lsns'
    <3>1. \A q \in Pages : mem[q] # Torn => mem[q].lsn \in Nat
      BY ImageLsns, Zenon
    <3>2. UNCHANGED <<page_cache, data_file, synced>>
      BY <1>2, Zenon DEF pin_mut, fileVars
    <3> QED
      BY <1>0, <2>4, <3>1, <3>2 DEF Lsns
  <2> QED
    BY <2>10, <2>11, Zenon
<1>3. ASSUME NEW x \in Xids, log_insert(x) PROVE Pool'
  <2>1. /\ Len(wal') = Len(wal) + 1 /\ \A i \in 1..Len(wal) : wal'[i] = wal[i]
        /\ wal'[Len(wal) + 1] = Rec("insert", Pinned(x), x, <<>>)
    BY <1>3, AppendWal, InsertFormed, Zenon DEF log_insert
  <2>2. \A y \in Xids : txn'[y] = IF y = x THEN "logged" ELSE txn[y]
    BY <1>3, Zenon DEF log_insert, TypeOK
  <2>3. UNCHANGED <<latch, dirty, flusher, mem, page_cache, data_file, synced>>
    BY <1>3, Zenon DEF log_insert, poolVars, fileVars
  <2>4. Len(wal) + 1 \in 1..Len(wal') /\ \A i \in 1..Len(wal) : i \in 1..Len(wal')
    BY <1>0, <2>1
  <2>5. wal'[Len(wal) + 1].t = "insert" /\ wal'[Len(wal) + 1].xid = x
    BY <2>1 DEF Rec
  <2>6. txn[x] = "pinned" /\ \A q \in Pages : latch[q] # 0 => latch[q] \in Xids
    BY <1>3, Holders, Zenon DEF log_insert
  <2>7. ASSUME NEW q \in Pages
        PROVE  /\ latch'[q] # 0 \/ dirty'[q] \/ flusher'[q] # None => mem'[q] # Torn
               /\ latch'[q] # 0 => txn'[latch'[q]] \in {"pinned", "logged"}
               /\ latch'[q] # 0 => \A r \in Pages : latch'[r] = latch'[q] => r = q
    BY <2>2, <2>3, <2>6, Zenon DEF Latches
  <2>8. ASSUME NEW y \in Xids
        PROVE  /\ txn'[y] \in {"pinned", "logged"} => \E q \in Pages : latch'[q] = y
               /\ txn'[y] = "logged" =>
                    \E i \in 1..Len(wal') : wal'[i].t = "insert" /\ wal'[i].xid = y
    BY <2>1, <2>2, <2>3, <2>4, <2>5, <2>6 DEF Latches
  <2>9. Latches'
    BY <2>7, <2>8, Zenon DEF Latches
  <2>10. Lsns'
    BY <1>0, <2>1, <2>3, LsnsStay
  <2> QED
    BY <2>9, <2>10, Zenon
<1>4. ASSUME NEW x \in Xids, place_tuple(x) PROVE Pool'
  <2> DEFINE p == Pinned(x)
             l == Max({mem[p].lsn, LastOf(x)})
  <2>1. p \in Pages /\ latch[p] = x /\ x # 0
    BY <1>4, PinnedPage DEF place_tuple, Xids
  <2>2. l \in 0..MaxLsn /\ l <= Len(wal)
    BY <1>4, PlacedLsn, Zenon DEF place_tuple
  <2>3. mem' = [mem EXCEPT ![p] = [lsn |-> l, tuples |-> mem[p].tuples \union {x}]]
    BY <1>4, SMTT(30) DEF place_tuple
  <2> HIDE DEF p, l
  <2>4. mem[p] \in [lsn : 0..MaxLsn, tuples : SUBSET Xids]
    BY <2>1, ImageLsns, Zenon DEF Latches
  <2>5. [lsn |-> l, tuples |-> mem[p].tuples \union {x}] # Torn
    BY <2>2, <2>4, CrashRecoveryAssumption DEF Xids
  <2>6. /\ mem'[p] # Torn /\ mem'[p].lsn = l
        /\ \A q \in Pages : q # p => mem'[q] = mem[q]
    BY <2>1, <2>3, <2>5, Zenon DEF TypeOK
  <2>7. /\ \A q \in Pages : latch'[q] = IF q = p THEN 0 ELSE latch[q]
        /\ \A q \in Pages : dirty'[q] = IF q = p THEN TRUE ELSE dirty[q]
        /\ \A y \in Xids : txn'[y] = IF y = x THEN "active" ELSE txn[y]
    BY <1>4 DEF place_tuple, TypeOK, p
  <2>8. UNCHANGED <<flusher, wal, synced, page_cache, data_file>>
    BY <1>4, Zenon DEF place_tuple, walVars, fileVars
  <2>9. \A q \in Pages : latch[q] # 0 => latch[q] \in Xids
    BY Holders, Zenon
  <2>10. ASSUME NEW q \in Pages
         PROVE  /\ latch'[q] # 0 \/ dirty'[q] \/ flusher'[q] # None => mem'[q] # Torn
                /\ latch'[q] # 0 => txn'[latch'[q]] \in {"pinned", "logged"}
                /\ latch'[q] # 0 => \A r \in Pages : latch'[r] = latch'[q] => r = q
    <3>1. latch'[q] # 0 \/ dirty'[q] \/ flusher'[q] # None => mem'[q] # Torn
      BY <2>6, <2>7, <2>8, Zenon DEF Latches
    <3>2. latch'[q] # 0 => txn'[latch'[q]] \in {"pinned", "logged"}
      BY <2>1, <2>7, <2>9 DEF Latches
    <3>3. latch'[q] # 0 => \A r \in Pages : latch'[r] = latch'[q] => r = q
      BY <2>7 DEF Latches
    <3> QED
      BY <3>1, <3>2, <3>3, Zenon
  <2>11. ASSUME NEW y \in Xids
         PROVE  /\ txn'[y] \in {"pinned", "logged"} => \E q \in Pages : latch'[q] = y
                /\ txn'[y] = "logged" =>
                     \E i \in 1..Len(wal') : wal'[i].t = "insert" /\ wal'[i].xid = y
    BY <2>1, <2>7, <2>8 DEF Latches
  <2>12. Latches'
    BY <2>10, <2>11, Zenon DEF Latches
  <2>13. Lsns'
    BY <2>2, <2>6, <2>8, Zenon DEF Lsns
  <2> QED
    BY <2>12, <2>13, Zenon
<1>5. ASSUME NEW x \in Xids, NEW kind \in Ending, append_end(x, kind) PROVE Pool'
  <2>1. /\ Len(wal') = Len(wal) + 1 /\ \A i \in 1..Len(wal) : wal'[i] = wal[i]
    BY <1>5, AppendWal, EndFormed, Zenon DEF append_end
  <2>2. Latches'
    <3>1. UNCHANGED <<latch, dirty, flusher, mem>>
      BY <1>5, Zenon DEF append_end, poolVars
    <3>2. /\ \A y \in Xids : txn'[y] = IF y = x THEN kind ELSE txn[y]
          /\ txn[x] = "active" /\ kind \notin {"pinned", "logged"}
      BY <1>5, SMTT(30) DEF append_end, TypeOK, Ending
    <3> QED
      BY <1>0, <2>1, <3>1, <3>2, LatchesOfOthers
  <2>3. Lsns'
    BY <1>0, <1>5, <2>1, LsnsStay DEF append_end, poolVars, fileVars
  <2> QED
    BY <2>2, <2>3, Zenon
<1>6. ASSUME NEW x \in Xids, NEW kind \in Ending, flush_end(x, kind) PROVE Pool'
  <2>1. Latches'
    <3>1. UNCHANGED <<latch, dirty, flusher, mem, wal>>
      BY <1>6, SMTT(30) DEF flush_end, poolVars
    <3>2. /\ \A y \in Xids : y # x => txn'[y] = txn[y]
          /\ {txn[x], txn'[x]} \intersect {"pinned", "logged"} = {}
      BY <1>6, Zenon DEF flush_end, TypeOK, Ending
    <3> QED
      BY <1>0, <3>1, <3>2, LatchesOfOthers
  <2>2. Lsns'
    BY <1>0, <1>6, LsnsStay, Zenon DEF flush_end, poolVars, fileVars
  <2> QED
    BY <2>1, <2>2, Zenon
<1>7. ASSUME NEW x \in Xids, NEW state \in {"Committed", "Aborted"}, end_txn(x, state)
      PROVE  Pool'
  <2>1. Latches'
    <3>1. UNCHANGED <<latch, dirty, flusher, mem, wal>>
      BY <1>7, SMTT(30) DEF end_txn, poolVars, walVars
    <3>2. /\ \A y \in Xids : y # x => txn'[y] = txn[y]
          /\ {txn[x], txn'[x]} \intersect {"pinned", "logged"} = {}
      BY <1>7, Zenon DEF end_txn, TypeOK
    <3> QED
      BY <1>0, <3>1, <3>2, LatchesOfOthers
  <2>2. Lsns'
    BY <1>0, <1>7, LsnsStay DEF end_txn, poolVars, fileVars, walVars
  <2> QED
    BY <2>1, <2>2, SMTT(30)
<1> QED
  BY <1>1, <1>2, <1>3, <1>4, <1>5, <1>6, <1>7, Zenon DEF Transaction, Ending

LEMMA FlushPool ==
  ASSUME Typed, Log, Pool, Typed', Flush \/ clog_evict
  PROVE  Pool'
<1> TypeOK
  BY Zenon DEF Typed
<1> TypeOK'
  BY Zenon DEF Typed
<1> USE DEF Pool
<1>0. /\ Len(wal) \in Nat /\ synced \in Nat /\ synced <= Len(wal)
      /\ Len(wal') \in Nat /\ synced' \in Nat /\ synced' <= Len(wal')
  BY Numbers, NumbersNext, Zenon
<1>1. CASE clog_evict
  BY <1>0, <1>1, LatchesStay, LsnsStay DEF clog_evict, poolVars, fileVars, walVars, txnVars
<1>2. ASSUME NEW p \in Pages, NEW t \in Threads, FlushClaim(t, p) PROVE Pool'
  <2>1. UNCHANGED <<mem, page_cache, data_file, wal, synced, latch, txn>>
    BY <1>2, Zenon DEF FlushClaim, walVars, fileVars, txnVars
  <2>2. \A q \in Pages : q # p => flusher'[q] = flusher[q] /\ dirty'[q] = dirty[q]
    BY <1>2, Zenon DEF FlushClaim, TypeOK
  <2>3. mem[p] # Torn
    BY <1>2, Zenon DEF FlushClaim, Latches
  <2>4. Latches'
    BY <2>1, <2>2, <2>3 DEF Latches
  <2> QED
    BY <1>0, <2>1, <2>4, LsnsStay
<1>3. ASSUME NEW p \in Pages, FlushWrite(p) PROVE Pool'
  <2>1. UNCHANGED <<latch, dirty, flusher, mem, wal, txn, data_file>>
    BY <1>3, Zenon DEF FlushWrite, txnVars
  <2>2. Latches'
    BY <2>1, LatchesStay, Zenon
  <2>3. mem[p] # Torn /\ mem[p].lsn \in Nat
    BY <1>3, ImageLsns, Zenon DEF FlushWrite, Latches
  <2>4. synced' >= synced /\ mem[p].lsn <= synced'
    BY <1>0, <1>3, <2>3 DEF FlushWrite, Lsns
  <2>5. \A q \in Pages : page_cache'[q] = IF q = p THEN mem[p] ELSE page_cache[q]
    BY <1>3, Zenon DEF FlushWrite, TypeOK
  <2>6. \A q \in Pages : /\ page_cache[q] # Torn => page_cache[q].lsn \in Nat
                         /\ data_file[q] # Torn => data_file[q].lsn \in Nat
    BY ImageLsns, Zenon
  <2>7. Lsns'
    BY <1>0, <2>1, <2>3, <2>4, <2>5, <2>6 DEF Lsns
  <2> QED
    BY <2>2, <2>7, Zenon
<1>4. ASSUME NEW p \in Pages, FlushSync(p) PROVE Pool'
  <2>1. UNCHANGED <<latch, dirty, mem, wal, synced, txn, page_cache>> /\ data_file' = page_cache
    BY <1>4, Zenon DEF FlushSync, txnVars, walVars
  <2>2. \A q \in Pages : flusher'[q] # None => flusher[q] # None
    BY <1>4, Zenon DEF FlushSync, TypeOK
  <2>3. Latches'
    BY <2>1, <2>2, Zenon DEF Latches
  <2>4. Lsns'
    BY <2>1, Zenon DEF Lsns
  <2> QED
    BY <2>3, <2>4, Zenon
<1>5. ASSUME NEW p \in Pages, FlushFail(p) PROVE Pool'
  <2>1. UNCHANGED <<latch, mem, wal, synced, txn, page_cache, data_file>>
    BY <1>5, Zenon DEF FlushFail, txnVars, walVars, fileVars
  <2>2. \A q \in Pages : /\ flusher'[q] # None => flusher[q] # None
                         /\ dirty'[q] => dirty[q] \/ flusher[q] # None
    BY <1>5, Zenon DEF FlushFail, TypeOK
  <2>3. Latches'
    BY <2>1, <2>2, Zenon DEF Latches
  <2> QED
    BY <1>0, <2>1, <2>3, LsnsStay
<1> QED
  BY <1>1, <1>2, <1>3, <1>4, <1>5, Zenon DEF Flush

LEMMA CheckpointPool ==
  ASSUME Typed, Log, Pool, Typed', Checkpoint
  PROVE  Pool'
<1> USE DEF Pool
<1>0. /\ Len(wal) \in Nat /\ synced \in Nat /\ synced <= Len(wal)
      /\ Len(wal') \in Nat /\ synced' \in Nat /\ synced' <= Len(wal')
  BY Numbers, NumbersNext, Zenon
<1>1. ASSUME UNCHANGED <<latch, dirty, flusher, mem, wal, txn, page_cache, data_file>>,
             synced' = synced \/ synced' = Len(wal)
      PROVE  Pool'
  BY <1>0, <1>1, LatchesStay, LsnsStay
<1>2. ASSUME UNCHANGED <<latch, dirty, flusher, mem, txn, page_cache, data_file, synced>>,
             Len(wal') = Len(wal) + 1, \A i \in 1..Len(wal) : wal'[i] = wal[i]
      PROVE  Pool'
  BY <1>0, <1>2, LatchesOfOthers, LsnsStay
<1>3. CASE ck_begin
  BY <1>2, <1>3, AppendWal, BeginFormed, Zenon DEF ck_begin, poolVars, fileVars, txnVars
<1>4. CASE ck_end
  <2>1. ck.pc = "ending"
    BY <1>4, Zenon DEF ck_end, At
  <2> QED
    BY <1>2, <1>4, <2>1, AppendWal, CkEndFormed, Zenon DEF ck_end, poolVars, fileVars, txnVars
<1>5. CASE ck_publish \/ ck_snapshot \/ ck_collect \/ (\E p \in Pages : ck_skip(p)) \/ ck_clog
  BY <1>1, <1>5, SMTT(30) DEF ck_publish, ck_snapshot, ck_collect, ck_skip, ck_clog,
                    poolVars, fileVars, txnVars, walVars
<1>6. CASE ck_sync \/ ck_superblock \/ ck_recycle \/ ck_fail
  BY <1>1, <1>6, Zenon DEF ck_sync, ck_superblock, ck_recycle, ck_fail,
                    poolVars, fileVars, txnVars, walVars
<1> QED
  BY <1>3, <1>4, <1>5, <1>6, Zenon DEF Checkpoint

(* No record that redo applies is ahead of the log it reads.               *)
LEMMA RedoLsns ==
  ASSUME Typed, Log, Lsns, NEW p \in Pages, RedoPage(p) # Torn
  PROVE  RedoPage(p).lsn <= Len(wal)
<1> TypeOK
  BY Zenon DEF Typed
<1> DEFINE Ok == {img \in Image : img # Torn => img.lsn <= Len(wal)}
           G == [i \in (RedoStart - 1)..Len(wal) |-> Ok]
<1>1. RedoStart \in Nat /\ RedoStart >= 1 /\ Len(wal) \in Nat /\ RedoStart <= Len(wal)
      /\ synced \in Nat /\ synced <= Len(wal) /\ Len(wal) <= MaxLsn /\ MaxLsn \in Nat
  BY Numbers DEF Log
<1>2. data_file[p] \in Ok
  <2>1. data_file[p] # Torn => data_file[p].lsn \in Nat
    BY DEF TypeOK, Image
  <2> QED
    BY <1>1, <2>1 DEF TypeOK, Lsns
<1>3. ASSUME NEW i \in RedoStart..Len(wal), NEW img \in Ok
      PROVE  RedoRecord(img, p, i) \in Ok
  <2>1. img \in Image /\ i \in 1..Len(wal) /\ i \in 0..MaxLsn
    <3>1. img \in Image
      BY <1>3, Zenon
    <3>2. i \in RedoStart..Len(wal)
      BY <1>3, Zenon
    <3> HIDE DEF Ok, G
    <3> QED
      BY <1>1, <3>1, <3>2
  <2>2. RedoRecord(img, p, i) = img \/ (/\ RedoRecord(img, p, i) \in Image
                                        /\ RedoRecord(img, p, i).lsn = i)
    <3> HIDE DEF Ok, G
    <3>1. img \in Image
      BY <2>1, Zenon
    <3> QED
      BY <3>1, RedoStep, Zenon
  <2> QED
    BY <1>1, <1>3, <2>1, <2>2
<1>4. \A i \in (RedoStart - 1)..Len(wal) : G[i] = Ok
  BY Zenon
<1> HIDE DEF G, Ok
<1>5. RedoPage(p) \in G[Len(wal)]
  <2>1. /\ RedoStart - 1 \in (RedoStart - 1)..Len(wal) /\ Len(wal) \in (RedoStart - 1)..Len(wal)
        /\ \A i \in RedoStart..Len(wal) : /\ i - 1 \in (RedoStart - 1)..Len(wal)
                                          /\ i \in (RedoStart - 1)..Len(wal)
    BY <1>1
  <2>2. data_file[p] \in G[RedoStart - 1]
    BY <1>2, <1>4, <2>1, Zenon
  <2>3. \A i \in RedoStart..Len(wal) : \A img \in G[i - 1] : RedoRecord(img, p, i) \in G[i]
    BY <1>3, <1>4, <2>1, Zenon
  <2> QED
    BY <1>1, <2>2, <2>3, RedoInduction, Zenon
<1>6. Len(wal) \in (RedoStart - 1)..Len(wal)
  BY <1>1
<1> QED
  BY <1>4, <1>5, <1>6, Zenon DEF Ok

LEMMA RestartPool ==
  ASSUME Typed, Log, Pool, Downtime, Typed', crash \/ recover \/ crash_in_recovery
  PROVE  Pool'
<1> TypeOK
  BY Zenon DEF Typed
<1> TypeOK'
  BY Zenon DEF Typed
<1> USE DEF Pool
<1>0. /\ Len(wal) \in Nat /\ synced \in Nat /\ synced <= Len(wal)
      /\ Len(wal') \in Nat /\ synced' \in Nat /\ synced' <= Len(wal')
  BY Numbers, NumbersNext, Zenon
<1>1. ASSUME latch' = [p \in Pages |-> 0], dirty' = [p \in Pages |-> FALSE],
             flusher' = [p \in Pages |-> None],
             \A x \in Xids : txn'[x] \in {"ended", "none"}
      PROVE  Latches'
  BY <1>1, Zenon DEF Latches
<1>2. CASE crash
  <2>1. PICK n \in synced..Len(wal) : wal' = SubSeq(wal, 1, n) /\ synced' = n
    BY <1>2, Zenon DEF crash
  <2>2. Len(wal') = n /\ n \in Nat /\ n >= synced
    BY <1>0, <2>1, CutWal
  <2>3. PICK files \in FileAfter(page_cache, data_file),
             clogs \in ClogAfter(clog_cache, clog_file) : Down(files, clogs)
    BY <1>2, Zenon DEF crash
  <2>4. /\ page_cache \in [Pages -> Image] /\ data_file \in [Pages -> Image]
        /\ \A p \in Pages : files[p] = page_cache[p] \/ files[p] = data_file[p] \/ files[p] = Torn
    <3>1. page_cache \in [Pages -> Image] /\ data_file \in [Pages -> Image]
      BY Zenon DEF TypeOK
    <3> QED
      BY <2>3, <3>1, FilesAfter
  <2>5. \A p \in Pages : files[p] # Torn => files[p].lsn \in Nat /\ files[p].lsn <= synced
    BY <2>4, ImageLsns, Zenon DEF Lsns
  <2>6. Lsns'
    <3>1. n \in Nat /\ synced' = n /\ Len(wal') = n /\ synced <= n
      BY <2>1, <2>2
    <3>2. \A p \in Pages : files[p] # Torn => files[p].lsn <= n
      BY <1>0, <2>5, <3>1
    <3> QED
      BY <2>3, <3>1, <3>2, Zenon DEF Lsns, Down
  <2>7. Latches'
    BY <1>1, <2>3, Zenon DEF Down
  <2> QED
    BY <2>6, <2>7, Zenon
<1>3. \A p \in Pages : RecoveredPages[p] \in Image /\ (RecoveredPages[p] # Torn =>
           RecoveredPages[p].lsn \in Nat /\ RecoveredPages[p].lsn <= Len(wal))
  <2>1. \A p \in Pages : RedoPage(p) \in Image /\ (RedoPage(p) # Torn =>
           RedoPage(p).lsn \in Nat /\ RedoPage(p).lsn <= Len(wal))
    BY RedoTypes, RedoLsns DEF Image
  <2> QED
    BY <2>1, Zenon DEF RecoveredPages
<1>4. CASE recover
  <2>1. UNCHANGED <<wal, synced, latch, dirty, flusher>> /\ synced = Len(wal) /\ ~up
    BY <1>4, Zenon DEF recover, walVars, Downtime
  <2>2. Lsns'
    BY <1>0, <1>3, <1>4, <2>1, Zenon DEF Lsns, recover
  <2>3. \A x \in Xids : txn'[x] \in {"ended", "none"}
    BY <1>4, Zenon DEF recover
  <2>4. Latches'
    BY <1>1, <2>1, <2>3, Zenon DEF Downtime
  <2> QED
    BY <2>2, <2>4, Zenon
<1>5. CASE crash_in_recovery
  <2>1. UNCHANGED <<wal, synced>> /\ synced = Len(wal)
    BY <1>5, Zenon DEF crash_in_recovery, Downtime
  <2>2. PICK files \in FileAfter(RecoveredPages, data_file),
             clogs \in ClogAfter(RecoveredClog, clog_file) : Down(files, clogs)
    BY <1>5, Zenon DEF crash_in_recovery
  <2>3. RecoveredPages \in [Pages -> Image] /\ data_file \in [Pages -> Image]
    BY <1>3, Zenon DEF TypeOK, RecoveredPages
  <2>4. \A p \in Pages : files[p] = RecoveredPages[p] \/ files[p] = data_file[p] \/ files[p] = Torn
    BY <2>3, FilesAfter
  <2>5. \A p \in Pages : files[p] # Torn => files[p].lsn \in Nat /\ files[p].lsn <= Len(wal)
    BY <1>3, <2>1, <2>3, <2>4 DEF Lsns, Image
  <2>6. Lsns'
    BY <2>1, <2>2, <2>5, Zenon DEF Lsns, Down
  <2>7. Latches'
    BY <1>1, <2>2, Zenon DEF Down
  <2> QED
    BY <2>6, <2>7, Zenon
<1> QED
  BY <1>2, <1>4, <1>5, Zenon

LEMMA NextPool ==
  ASSUME Typed, Log, Clock, Pool, Downtime, Typed', Next
  PROVE  Pool'
BY TransactionPool, FlushPool, CheckpointPool, RestartPool, Zenon DEF Next

(* Only a crash takes the process down, and it leaves nothing but the disk. *)
LEMMA NextDowntime ==
  ASSUME Typed, Downtime, Typed', Next
  PROVE  Downtime'
<1>1. CASE Transaction
  <2>1. up /\ UNCHANGED up
    <3>1. CASE begin
      BY <3>1, Zenon DEF begin, runVars
    <3>2. ASSUME NEW x \in Xids, NEW p \in Pages, pin_mut(x, p) PROVE up /\ UNCHANGED up
      BY <3>2, Zenon DEF pin_mut, runVars
    <3>3. ASSUME NEW x \in Xids, log_insert(x) \/ place_tuple(x) PROVE up /\ UNCHANGED up
      BY <3>3, Zenon DEF log_insert, place_tuple, runVars
    <3>4. ASSUME NEW x \in Xids, NEW kind \in Ending, append_end(x, kind) \/ flush_end(x, kind)
          PROVE  up /\ UNCHANGED up
      BY <3>4, Zenon DEF append_end, flush_end, runVars
    <3>5. ASSUME NEW x \in Xids, NEW state \in {"Committed", "Aborted"}, end_txn(x, state)
          PROVE  up /\ UNCHANGED up
      BY <3>5, Zenon DEF end_txn, runVars
    <3> QED
      BY <1>1, <3>1, <3>2, <3>3, <3>4, <3>5, Zenon DEF Transaction, Ending
  <2> QED
    BY <2>1, Zenon DEF Downtime
<1>2. CASE Flush \/ clog_evict
  BY <1>2, Zenon DEF Flush, FlushClaim, FlushWrite, FlushSync, FlushFail, clog_evict, runVars, Downtime
<1>3. CASE Checkpoint
  BY <1>3 DEF Checkpoint, ck_begin, ck_publish, ck_snapshot, ck_collect, ck_skip, ck_clog, ck_end,
              ck_sync, ck_superblock, ck_recycle, ck_fail, At, runVars, Downtime
<1>4. CASE crash
  <2>1. PICK n \in synced..Len(wal) : wal' = SubSeq(wal, 1, n) /\ synced' = n
    BY <1>4, Zenon DEF crash
  <2>2. synced' = Len(wal')
    BY <2>1, Numbers, CutWal
  <2> QED
    BY <1>4, <2>2, Zenon DEF crash, Down, Downtime
<1>5. CASE crash_in_recovery
  BY <1>5, Zenon DEF crash_in_recovery, Down, Downtime
<1>6. CASE recover
  BY <1>6, Zenon DEF recover, Downtime
<1> QED
  BY <1>1, <1>2, <1>3, <1>4, <1>5, <1>6, Zenon DEF Next

(***************************************************************************)
(* The initial state.                                                      *)
(***************************************************************************)

(* A database that has just completed a checkpoint: the log is that         *)
(* checkpoint and the images of the pages allocated since.                  *)
LEMMA InitialLog ==
  ASSUME NEW n \in 0..(MaxLsn - 2), NEW fresh \in SUBSET Pages,
         NEW inits \in Bijection(1..n, fresh), InitWith(n, fresh, inits)
  PROVE  /\ wal \in Seq(Record) /\ Len(wal) \in 2..MaxLsn
         /\ wal[1] = Rec("begin", None, 0, <<>>)
         /\ wal[2] = Rec("end", None, 0, [ck |-> 1, att |-> {}])
         /\ \A i \in 3..Len(wal) : \E p \in fresh : wal[i] = Rec("fpi", p, 0, Blank)
         /\ \A p \in Pages :
              \E k \in 0..Len(wal) :
                 /\ mem[p] = [lsn |-> k, tuples |-> {}]
                 /\ p \notin fresh => k = 0
                 /\ p \in fresh => k \in 3..Len(wal) /\ wal[k] = Rec("fpi", p, 0, Blank)
                 /\ \A i \in 3..Len(wal) : wal[i].page = p => i <= k
<1> DEFINE head  == <<Rec("begin", None, 0, <<>>), Rec("end", None, 0, [ck |-> 1, att |-> {}])>>
           tail  == [i \in 1..n |-> Rec("fpi", inits[i], 0, Blank)]
<1>1. MaxLsn \in Nat /\ MaxXid \in Nat /\ n \in Nat /\ n + 2 <= MaxLsn
  BY CrashRecoveryAssumption
<1>2. /\ \A i \in 1..n : inits[i] \in fresh
      /\ \A p \in fresh : \E i \in 1..n : inits[i] = p
      /\ \A i, j \in 1..n : inits[i] = inits[j] => i = j
  BY Zenon DEF Bijection, Injection, Surjection, IsInjective
<1>3. wal = head \o tail
  BY Zenon DEF InitWith
<1>4. Blank \in [lsn : 0..MaxLsn, tuples : SUBSET Xids]
  BY <1>1 DEF Blank
<1>5. tail \in Seq(Record) /\ Len(tail) = n
  <2>1. \A i \in 1..n : Rec("fpi", inits[i], 0, Blank) \in Record
    BY <1>1, <1>2, <1>4 DEF Rec, Record, Image
  <2>2. tail \in [1..n -> Record]
    BY <2>1, Zenon
  <2> HIDE DEF tail
  <2> QED
    BY <1>1, <2>2
<1>6. head \in Seq(Record) /\ Len(head) = 2
  <2>1. Rec("begin", None, 0, <<>>) \in Record
    BY <1>1 DEF Rec, Record
  <2>2. Rec("end", None, 0, [ck |-> 1, att |-> {}]) \in Record
    BY <1>1 DEF Rec, Record
  <2> QED
    BY <2>1, <2>2
<1>7. head[1] = Rec("begin", None, 0, <<>>) /\ head[2] = Rec("end", None, 0, [ck |-> 1, att |-> {}])
  BY Zenon
<1>8. \A i \in 1..n : tail[i] = Rec("fpi", inits[i], 0, Blank)
  BY Zenon
<1> HIDE DEF head, tail
<1>9. /\ wal \in Seq(Record) /\ Len(wal) = n + 2
      /\ \A i \in 1..(n + 2) : wal[i] = IF i <= 2 THEN head[i] ELSE tail[i - 2]
  <2>1. /\ head \o tail \in Seq(Record) /\ Len(head \o tail) = 2 + n
        /\ \A i \in 1..(2 + n) : (head \o tail)[i] = IF i <= 2 THEN head[i] ELSE tail[i - 2]
    <3>1. /\ head \o tail \in Seq(Record) /\ Len(head \o tail) = Len(head) + Len(tail)
          /\ \A i \in 1..(Len(head) + Len(tail)) :
               (head \o tail)[i] = IF i <= Len(head) THEN head[i] ELSE tail[i - Len(head)]
      BY <1>5, <1>6, Joined, Zenon
    <3> QED
      BY <1>5, <1>6, <3>1, Zenon
  <2>2. 2 + n = n + 2
    BY <1>1
  <2> QED
    BY <1>3, <2>1, <2>2, Zenon
<1>10. /\ wal[1] = Rec("begin", None, 0, <<>>)
       /\ wal[2] = Rec("end", None, 0, [ck |-> 1, att |-> {}])
  BY <1>1, <1>7, <1>9
<1>11. \A i \in 1..n : wal[2 + i] = Rec("fpi", inits[i], 0, Blank)
  <2>1. ASSUME NEW i \in 1..n PROVE wal[2 + i] = tail[i]
    BY <1>1, <1>9, <2>1
  <2> QED
    BY <2>1, <1>8, Zenon
<1>12. ASSUME NEW i \in 3..Len(wal)
       PROVE  /\ i - 2 \in 1..n /\ wal[i].page = inits[i - 2] /\ wal[i].page \in fresh
              /\ \E p \in fresh : wal[i] = Rec("fpi", p, 0, Blank)
  <2>1. i - 2 \in 1..n /\ 2 + (i - 2) = i
    BY <1>1, <1>9, <1>12
  <2>2. wal[i] = Rec("fpi", inits[i - 2], 0, Blank) /\ inits[i - 2] \in fresh
    BY <1>2, <1>11, <2>1, Zenon
  <2> QED
    BY <2>1, <2>2 DEF Rec
<1>13. ASSUME NEW p \in Pages
       PROVE  \E k \in 0..Len(wal) :
                 /\ mem[p] = [lsn |-> k, tuples |-> {}]
                 /\ p \notin fresh => k = 0
                 /\ p \in fresh => k \in 3..Len(wal) /\ wal[k] = Rec("fpi", p, 0, Blank)
                 /\ \A i \in 3..Len(wal) : wal[i].page = p => i <= k
  <2>1. CASE p \notin fresh
    <3>1. mem[p] = [Blank EXCEPT !.lsn = 0]
      BY <2>1, Zenon DEF InitWith
    <3>2. mem[p] = [lsn |-> 0, tuples |-> {}]
      BY <3>1, Zenon DEF Blank
    <3>3. 0 \in 0..Len(wal)
      BY <1>1, <1>9
    <3>4. \A i \in 3..Len(wal) : wal[i].page # p
      BY <1>12, <2>1, Zenon
    <3> QED
      BY <2>1, <3>2, <3>3, <3>4, Zenon
  <2>2. CASE p \in fresh
    <3> DEFINE c == CHOOSE i \in 1..n : inits[i] = p
    <3>1. c \in 1..n /\ inits[c] = p
      BY <1>2, <2>2, Zenon
    <3>2. mem[p] = [Blank EXCEPT !.lsn = 2 + c]
      BY <2>2, Zenon DEF InitWith
    <3> HIDE DEF c
    <3>3. mem[p] = [lsn |-> 2 + c, tuples |-> {}]
      BY <3>2, Zenon DEF Blank
    <3>4. 2 + c \in 3..Len(wal) /\ 2 + c \in 0..Len(wal)
      BY <1>1, <1>9, <3>1
    <3>5. wal[2 + c] = Rec("fpi", p, 0, Blank)
      BY <1>11, <3>1, Zenon
    <3>6. ASSUME NEW i \in 3..Len(wal), wal[i].page = p PROVE i <= 2 + c
      <4>1. inits[i - 2] = p /\ i - 2 \in 1..n
        BY <1>12, <3>6, Zenon
      <4>2. i - 2 = c
        BY <1>2, <3>1, <4>1, Zenon
      <4> QED
        BY <1>1, <1>9, <3>1, <4>2
    <3> QED
      BY <2>2, <3>3, <3>4, <3>5, <3>6, Zenon
  <2> QED
    BY <2>1, <2>2, Zenon
<1>14. Len(wal) \in 2..MaxLsn
  BY <1>1, <1>9
<1> QED
  BY <1>9, <1>10, <1>12, <1>13, <1>14, Zenon

(* The initial state satisfies the invariant.                              *)
LEMMA InitialState ==
  ASSUME Init
  PROVE  /\ Typed /\ Log /\ Clock /\ Pool /\ Downtime
         /\ \A p \in Pages : mem[p].tuples = {}
         /\ \A i \in 1..Len(wal) : /\ wal[i].xid = 0
                                   /\ wal[i].t \in {"begin", "end", "fpi"}
                                   /\ wal[i].t = "end" => wal[i].body = [ck |-> 1, att |-> {}]
                                   /\ wal[i].t = "fpi" => wal[i].body.tuples = {}
<1>0. PICK n \in 0..(MaxLsn - 2), fresh \in SUBSET Pages :
        \E inits \in Bijection(1..n, fresh) : InitWith(n, fresh, inits)
  BY Zenon DEF Init
<1>1. PICK inits \in Bijection(1..n, fresh) : InitWith(n, fresh, inits)
  BY <1>0, Zenon
<1>2. /\ wal \in Seq(Record) /\ Len(wal) \in 2..MaxLsn
      /\ wal[1] = Rec("begin", None, 0, <<>>)
      /\ wal[2] = Rec("end", None, 0, [ck |-> 1, att |-> {}])
      /\ \A i \in 3..Len(wal) : \E p \in fresh : wal[i] = Rec("fpi", p, 0, Blank)
      /\ \A p \in Pages : \E k \in 0..Len(wal) : mem[p] = [lsn |-> k, tuples |-> {}]
  BY <1>1, InitialLog, Zenon
<1>3. MaxLsn \in Nat /\ MaxLsn >= 2 /\ MaxXid \in Nat /\ MaxXid >= 1 /\ MaxCrashes \in Nat
      /\ Len(wal) \in Nat /\ Len(wal) >= 2
  BY <1>2, CrashRecoveryAssumption
<1>4. \A i \in 1..Len(wal) : i = 1 \/ i = 2 \/ i \in 3..Len(wal)
  BY <1>3
<1>5. /\ synced = 2 /\ superblock = [checkpoint_lsn |-> 1, next_txn_id |-> 1] /\ RedoStart = 1
      /\ ck = Resting /\ up /\ next_txn_id = 1
      /\ txn = [x \in Xids |-> "none"] /\ latch = [p \in Pages |-> 0]
      /\ page_cache = [p \in Pages |-> Blank] /\ data_file = [p \in Pages |-> Blank]
      /\ clog = [x \in Xids |-> "InProgress"] /\ clog_cache = clog /\ clog_file = clog /\ told = clog
  BY Zenon DEF Init, RedoStart
<1>6. Blank \in [lsn : 0..MaxLsn, tuples : SUBSET Xids] /\ Blank.lsn = 0 /\ Blank.tuples = {}
  BY <1>3 DEF Blank
<1>7. \A p \in Pages : /\ mem[p] \in [lsn : 0..MaxLsn, tuples : SUBSET Xids]
                       /\ mem[p].lsn \in 0..Len(wal) /\ mem[p].tuples = {} /\ mem[p] # Torn
  <2>1. ASSUME NEW p \in Pages, NEW k \in 0..Len(wal), mem[p] = [lsn |-> k, tuples |-> {}]
        PROVE  /\ mem[p] \in [lsn : 0..MaxLsn, tuples : SUBSET Xids]
               /\ mem[p].lsn \in 0..Len(wal) /\ mem[p].tuples = {}
    BY <1>2, <1>3, <2>1
  <2> QED
    BY <1>2, <2>1, CrashRecoveryAssumption, ZenonT(30) DEF Xids
<1>8. TypeOK
  <2>1. mem \in [Pages -> Image] /\ page_cache \in [Pages -> Image] /\ data_file \in [Pages -> Image]
    <3>1. \E f : mem = [p \in Pages |-> f[p]]
      <4>1. mem = [p \in Pages |-> mem[p]]
        BY <1>1 DEF InitWith
      <4> QED
        BY <4>1, Zenon
    <3> QED
      BY <1>5, <1>6, <1>7, <3>1, Zenon DEF Image
  <2>2. dirty \in [Pages -> BOOLEAN] /\ needs_fpi \in [Pages -> BOOLEAN]
        /\ written \in [Pages -> BOOLEAN]
    BY <1>1 DEF InitWith, Init
  <2>3. latch \in [Pages -> 0..MaxXid] /\ flusher \in [Pages -> Threads \union {None}]
    BY <1>3 DEF Init
  <2>4. clog \in [Xids -> TxnState] /\ told \in [Xids -> TxnState] /\ txn \in [Xids -> TxnPc]
        /\ clog_cache \in [Xids -> TxnState] /\ clog_file \in [Xids -> TxnState]
        /\ wrote \in [Xids -> SUBSET Pages]
    BY Zenon DEF Init, TxnState, TxnPc
  <2>5. ck \in [pc : CkPc, begin : 0..MaxLsn, att : SUBSET Xids,
                todo : SUBSET Pages, next : 0..(MaxXid + 1)]
    BY <1>3, <1>5 DEF Resting, CkPc
  <2>6. /\ superblock \in [checkpoint_lsn : 1..MaxLsn, next_txn_id : 1..(MaxXid + 1)]
        /\ synced \in 0..Len(wal) /\ Len(wal) <= MaxLsn /\ wal_start \in 1..MaxLsn
        /\ checkpoint_lsn \in 0..MaxLsn /\ next_txn_id \in 1..(MaxXid + 1)
        /\ crashes \in 0..MaxCrashes
    BY <1>2, <1>3, <1>5 DEF Init
  <2>7. up \in BOOLEAN /\ straddled \in SUBSET Pages /\ inflight \in SUBSET Pages
    BY Zenon DEF Init
  <2> QED
    BY <1>2, <2>1, <2>2, <2>3, <2>4, <2>5, <2>6, <2>7, Zenon DEF TypeOK
<1>9. \A i \in 1..Len(wal) : /\ wal[i].xid = 0
                             /\ wal[i].t \in {"begin", "end", "fpi"}
                             /\ wal[i].t = "end" => wal[i].body = [ck |-> 1, att |-> {}]
                             /\ wal[i].t = "fpi" => wal[i].body.tuples = {}
  <2>1. /\ wal[1].xid = 0 /\ wal[1].t = "begin" /\ wal[2].xid = 0 /\ wal[2].t = "end"
        /\ wal[2].body = [ck |-> 1, att |-> {}]
    BY <1>2 DEF Rec
  <2>2. ASSUME NEW i \in 3..Len(wal)
        PROVE  wal[i].xid = 0 /\ wal[i].t = "fpi" /\ wal[i].body = Blank
    <3>1. PICK p \in fresh : wal[i] = Rec("fpi", p, 0, Blank)
      BY <1>2, Zenon
    <3> QED
      BY <3>1 DEF Rec
  <2> QED
    BY <1>4, <1>6, <2>1, <2>2, Zenon
<1>10. Log
  <2>1. Formed(wal[1], 1)
    BY <1>2 DEF Formed, Rec, Ending
  <2>2. Formed(wal[2], 2)
    <3>1. wal[2].t = "end" /\ wal[2].page = None /\ wal[2].xid = 0
          /\ wal[2].body = [ck |-> 1, att |-> {}]
      BY <1>2 DEF Rec
    <3>2. /\ [ck |-> 1, att |-> {}] \in [ck : 1..MaxLsn, att : SUBSET Xids]
          /\ [ck |-> 1, att |-> {}].ck < 2
      BY <1>3
    <3> QED
      BY <3>1, <3>2, Zenon DEF Formed, Ending
  <2>3. ASSUME NEW i \in 3..Len(wal) PROVE Formed(wal[i], i)
    <3>1. PICK p \in fresh : wal[i] = Rec("fpi", p, 0, Blank)
      BY <1>2, Zenon
    <3>2. wal[i].t = "fpi" /\ wal[i].page \in Pages /\ wal[i].xid = 0 /\ wal[i].body = Blank
      BY <3>1 DEF Rec
    <3>3. Blank # Torn /\ Blank.lsn < i
      BY <1>6, CrashRecoveryAssumption DEF Xids
    <3> QED
      BY <1>6, <3>2, <3>3, Zenon DEF Formed, Ending, Image
  <2>4. \A i \in 1..Len(wal) : Formed(wal[i], i)
    BY <1>4, <2>1, <2>2, <2>3, Zenon
  <2> QED
    BY <1>5, <2>4 DEF Log, Resting, Running, Numbered
<1>11. Clock
  BY <1>3, <1>5 DEF Clock, Xids
<1>12. Pool
  <2>1. Latches
    BY <1>5, <1>7, Zenon DEF Latches
  <2>2. Lsns
    BY <1>3, <1>5, <1>6, <1>7 DEF Lsns
  <2> QED
    BY <2>1, <2>2, Zenon DEF Pool
<1>13. Downtime
  BY <1>5, Zenon DEF Downtime
<1> QED
  BY <1>7, <1>8, <1>9, <1>10, <1>11, <1>12, <1>13, Zenon DEF Typed

(* Every step keeps the base of the invariant.                             *)
LEMMA BaseKept ==
  ASSUME BaseInv, [Next]_vars
  PROVE  BaseInv'
<1>1. Typed'
  BY NextTypes, Zenon DEF BaseInv
<1>2. CASE Next
  BY <1>1, <1>2, NextLog, NextClock, NextPool, NextDowntime, Zenon DEF BaseInv
<1>3. CASE UNCHANGED vars
  <2>1. Log' /\ Clock' /\ Pool' /\ Downtime'
    BY <1>3 DEF BaseInv, Log, Clock, Pool, Latches, Lsns, Downtime, RedoStart, vars, walVars,
                poolVars, fileVars, clogVars, txnVars, ckVars, runVars, ghostVars
  <2> QED
    BY <1>1, <2>1, Zenon DEF BaseInv
<1> QED
  BY <1>2, <1>3, Zenon

(* Write-ahead logging.  Whatever the interleaving of transactions, page    *)
(* flushes, checkpoints and crashes, no page image reaches the data file    *)
(* with an LSN that the durable log does not cover, so flush_frame never    *)
(* leaves a page that recovery would take for newer than it is.             *)
THEOREM WriteAheadLogging == Spec => [](TypeOK /\ WalBeforeData)
<1>1. Init => BaseInv
  BY InitialState, Zenon DEF BaseInv
<1>2. BaseInv /\ [Next]_vars => BaseInv'
  BY BaseKept, Zenon
<1>3. BaseInv => TypeOK /\ WalBeforeData
  BY Zenon DEF BaseInv, Typed, Pool, Lsns, WalBeforeData
<1> QED
  BY <1>1, <1>2, <1>3, PTL DEF Spec
=============================================================================
