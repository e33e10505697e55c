------------------------------ MODULE HeapPage ------------------------------
(***************************************************************************)
(* One heap page (pg-am-heap/src/slotted_page.rs), the tuple versions on   *)
(* it and what heap_am.rs and redo.rs do to a single page: placing a tuple *)
(* at a chosen slot, stamping a delete, an update or a row lock, walking a *)
(* HOT chain either way, choosing what vacuum kills, and compacting.       *)
(*                                                                         *)
(* A page is                                                               *)
(*   [upper |-> pd_upper, next |-> the special area's next_page,           *)
(*    lps |-> the line pointers, each [flags, off, len, tup]]              *)
(* where tup is the version whose bytes lie at off.  Bytes are counted in  *)
(* units; slots count from 1 (the code's from 0).  A page of zeroes, never *)
(* initialised, has upper = 0.                                             *)
(***************************************************************************)
EXTENDS Integers, Sequences, FiniteSets, FiniteSetsExt, SequencesExt

CONSTANTS
    HeaderSize,    \* PAGE_HEADER_SIZE, in units
    LpSize,        \* LINE_POINTER_SIZE
    Special        \* where the special area starts: PAGE_SIZE - HEAP_SPECIAL_SIZE

INVALID == 0
NoTid   == <<INVALID, 0>>

Fresh == [upper |-> 0, next |-> INVALID, lps |-> <<>>]

\* init_with_special: the page zeroed, its header written
init_with_special == [upper |-> Special, next |-> INVALID, lps |-> <<>>]

init_if_fresh(p) == IF p.upper = 0 THEN init_with_special ELSE p

lower(p) == IF p.upper = 0 THEN 0 ELSE HeaderSize + LpSize * Len(p.lps)

free_space(p) == IF p.upper > lower(p) THEN p.upper - lower(p) ELSE 0

\* checked_header: what add_tuple_at and compact demand of the page's header
checked_header(p) == p.upper # 0 /\ lower(p) <= p.upper /\ p.upper <= Special

Slots(p) == 1 .. Len(p.lps)

Normal(p, s) == s \in Slots(p) /\ p.lps[s].flags = "normal"

Tuple(p, s) == p.lps[s].tup

\* The first Unused slot, or the one past the last (first_fit_slot and its callers)
first_fit_slot(p) ==
    LET unused == {s \in Slots(p) : p.lps[s].flags = "unused"} IN
    IF unused = {} THEN Len(p.lps) + 1 ELSE Min(unused)

\* The line pointer a new slot costs, on top of the tuple
cost(p, s, len) == len + IF s = Len(p.lps) + 1 THEN LpSize ELSE 0

can_add(p, s, len) ==
    /\ checked_header(p)
    /\ len > 0
    /\ s \in 1 .. Len(p.lps) + 1
    /\ s \in Slots(p) => p.lps[s].flags = "unused"
    /\ free_space(p) >= cost(p, s, len)

add_tuple_at(p, s, t) ==
    LET lp == [flags |-> "normal", off |-> p.upper - t.len, len |-> t.len, tup |-> t] IN
    [p EXCEPT !.upper = @ - t.len,
              !.lps = IF s = Len(@) + 1 THEN Append(@, lp) ELSE [@ EXCEPT ![s] = lp]]

can_compact(p, dead) ==
    /\ checked_header(p)
    /\ \A s \in dead : s \in Slots(p) /\ p.lps[s].flags # "unused"

\* A killed line pointer keeps its place in the array, not its bytes
Unused == [flags |-> "unused", off |-> 0, len |-> 0, tup |-> NoTid]

\* Survivors in slot order, packed downwards from the special area
compact(p, dead) ==
    LET stays(s) == s \notin dead /\ p.lps[s].flags # "unused"
        packed(s) == MapThenSumSet(LAMBDA i : p.lps[i].len, {i \in 1 .. s : stays(i)})
    IN  [p EXCEPT !.upper = Special - packed(Len(p.lps)),
                  !.lps = [s \in Slots(p) |->
                             IF stays(s) THEN [p.lps[s] EXCEPT !.off = Special - packed(s)]
                             ELSE Unused]]

set_next_page(p, q) == [p EXCEPT !.next = q]

\* What debug_assert_invariants asserts: nothing below pd_upper or in the
\* special area, no two tuples on the same bytes
debug_assert_invariants(p) ==
    /\ checked_header(p)
    /\ \A s \in Slots(p) : \/ p.lps[s].flags = "unused"
                           \/ p.lps[s].off >= p.upper /\ p.lps[s].off + p.lps[s].len <= Special
    /\ \A s, r \in Slots(p) :
         s # r /\ p.lps[s].flags # "unused" /\ p.lps[r].flags # "unused"
         => \/ p.lps[s].off + p.lps[s].len <= p.lps[r].off
            \/ p.lps[r].off + p.lps[r].len <= p.lps[s].off

-----------------------------------------------------------------------------
(* Tuple headers.  lock is HEAP_XMAX_LOCK_ONLY, hot HEAP_HOT_UPDATED, only  *)
(* HEAP_ONLY_TUPLE.  HEAP_UPDATED is not kept: nothing reads it.            *)

new_tuple(tbl, xid, cid, row, node, len) ==
    [tbl |-> tbl, xmin |-> xid, xmax |-> INVALID, cid |-> cid, lock |-> FALSE, hot |-> FALSE,
     only |-> FALSE, ctid |-> NoTid, row |-> row, node |-> node, len |-> len]

stamp_hot_only(t) == [t EXCEPT !.only = TRUE]

Restamp(p, s, t) == [p EXCEPT !.lps[s].tup = t]

\* HOT_UPDATED and t_ctid of an earlier, aborted HOT update stay as they are
stamp_deleted(p, s, xmax, cid) ==
    Restamp(p, s, [Tuple(p, s) EXCEPT !.xmax = xmax, !.cid = cid, !.lock = FALSE])

stamp_hot_update(p, s, xmax, cid, new) ==
    Restamp(p, s, [Tuple(p, s) EXCEPT !.xmax = xmax, !.cid = cid, !.lock = FALSE,
                                      !.ctid = new, !.hot = TRUE])

stamp_lock_only(p, s, xid, cid) ==
    Restamp(p, s, [Tuple(p, s) EXCEPT !.xmax = xid, !.cid = cid, !.lock = TRUE])

visibility_xmax(t) == IF t.lock THEN INVALID ELSE t.xmax

\* An XID some snapshot counts as committed: in the snapshot's past and committed
is_effectively_committed(x, snap, clog) ==
    x # INVALID /\ x < snap.xmax /\ x \notin snap.xip /\ clog[x] = "committed"

is_visible(t, snap, clog) ==
    LET xmax == visibility_xmax(t) IN
    /\ IF t.xmin = snap.xid /\ snap.xid # INVALID THEN t.cid < snap.curcid
       ELSE is_effectively_committed(t.xmin, snap, clog)
    /\ \/ xmax = INVALID
       \/ IF xmax = snap.xid THEN t.cid >= snap.curcid
          ELSE ~is_effectively_committed(xmax, snap, clog)

\* Where a chain goes on from slot s of page q
links(p, q, s) ==
    Tuple(p, s).hot /\ Tuple(p, s).ctid # <<q, s>>

RECURSIVE follow(_, _, _, _, _, _)
follow(p, q, tid, snap, clog, hops) ==
    CASE hops = 0 -> NoTid
      [] tid[1] # q -> NoTid
      [] ~Normal(p, tid[2]) -> NoTid
      [] is_visible(Tuple(p, tid[2]), snap, clog) -> tid
      [] links(p, q, tid[2]) -> follow(p, q, Tuple(p, tid[2]).ctid, snap, clog, hops - 1)
      [] OTHER -> NoTid

\* The visible version of the chain that goes on at tid, or NoTid
follow_hot_chain(p, q, tid, snap, clog) == follow(p, q, tid, snap, clog, Len(p.lps))

RECURSIVE root_from(_, _, _, _)
root_from(p, q, s, hops) ==
    LET before == {r \in Slots(p) : Normal(p, r) /\ Tuple(p, r).hot /\ Tuple(p, r).ctid = <<q, s>>} IN
    IF hops = 0 \/ ~Normal(p, s) \/ ~Tuple(p, s).only \/ before = {} THEN s
    ELSE root_from(p, q, Max(before), hops - 1)

\* The version that owns the index entries of the chain tid is on
hot_chain_root(p, q, tid) == <<q, root_from(p, q, tid[2], Len(p.lps))>>

\* The versions of one page a scan returns under a snapshot
scan_page(p, q, snap, clog) ==
    LET roots == {s \in Slots(p) : Normal(p, s) /\ ~Tuple(p, s).only}
        seen(s) == IF is_visible(Tuple(p, s), snap, clog) THEN <<q, s>>
                   ELSE IF links(p, q, s) THEN follow_hot_chain(p, q, Tuple(p, s).ctid, snap, clog)
                   ELSE NoTid
    IN  {seen(s) : s \in roots} \ {NoTid}

-----------------------------------------------------------------------------
(* Vacuum's reading of a page.                                              *)

dead_at(t, horizon, clog) ==
    \/ clog[t.xmin] = "aborted"
    \/ ~t.lock /\ t.xmax # INVALID /\ t.xmax < horizon /\ clog[t.xmax] = "committed"

\* The slots scan_dead_tuples reports
scan_dead_slots(p, horizon, clog) ==
    {s \in Slots(p) : Normal(p, s) /\ dead_at(Tuple(p, s), horizon, clog)}

RECURSIVE chain_on(_, _, _, _)
chain_on(p, q, s, seen) ==
    IF ~Normal(p, s) \/ ~links(p, q, s) \/ Tuple(p, s).ctid[1] # q \/ Tuple(p, s).ctid[2] \in seen
    THEN seen \cup {s}
    ELSE chain_on(p, q, Tuple(p, s).ctid[2], seen \cup {s})

\* The slots of the chain that starts at slot s
chain_from(p, q, s) == chain_on(p, q, s, {})

\* Chains dead to the last version: their roots own the index entries, their
\* slots are killed.  A chain with one version left is not touched.
classify_dead_tuples(p, q, dead) ==
    LET root(s) == IF Tuple(p, s).only THEN hot_chain_root(p, q, <<q, s>>)[2] ELSE s
        gone == {r \in {root(s) : s \in dead} : chain_from(p, q, r) \subseteq dead}
    IN  [roots |-> gone, kills |-> UNION {chain_from(p, q, r) : r \in gone}]
=============================================================================
