------------------------------- MODULE BTree -------------------------------
(***************************************************************************)
(* pg-am-btree/src/index.rs: inserts, deletes, lookups and scans of one    *)
(* B+Tree by several threads, at the grain of its page latches.            *)
(*                                                                         *)
(* A thread holds its read latches in rd and its write latches in wr, and  *)
(* a step of a thread is everything it does between two latch acquisitions *)
(* (what it does under a latch nobody else can see half done).  So every   *)
(* drop-and-relatch of the code, where the tree may change, is a boundary  *)
(* between two steps.  The write-ahead log and crashes are the subject of  *)
(* BTreeRecovery; here only the effects on the pages count.  The bound on  *)
(* chain hops (1,000,000, a guard against cycles) is left out.             *)
(***************************************************************************)
EXTENDS BTreePages

CONSTANTS Procs,        \* the threads
          Workloads,    \* what they are given: [tree, drained, todo]
          MaxRestarts,  \* MAX_INSERT_RESTARTS
          MaxAllocFails \* bound on the allocations that find no frame

VARIABLES pages,      \* the pages of the index
          meta,       \* the last record of the meta page: [root, level]
          ps,         \* the threads
          todo,       \* the operations each has still to do
          fails,      \* allocations that failed so far
          seen        \* history: what the index held while a thread's operation ran

vars == <<pages, meta, ps, todo, fails, seen>>

leaf_pages == {q \in DOMAIN pages : pages[q].level = 0}
Contents   == UNION {ToSet(pages[q].entries) : q \in leaf_pages}

NoOp == [kind |-> "none", key |-> 0, tid |-> 0]
Idle == [pc |-> "idle", op |-> NoOp, rd |-> {}, wr |-> {}, at |-> INVALID, nx |-> INVALID,
         walk |-> INVALID, found |-> INVALID, verified |-> INVALID, moved |-> FALSE,
         stack |-> <<>>, splits |-> <<>>, halves |-> <<>>, out |-> <<>>, restarts |-> 0, result |-> "none"]

probe(s) == <<s.op.key, s.op.tid>>
at(s)    == pages[s.at]

\* The thread's operation ends: every guard is dropped
finish(s, result) ==
    [Idle EXCEPT !.op = s.op, !.out = s.out, !.result = result]

begin_at(s, root) ==
    [Idle EXCEPT !.pc = "pin", !.op = s.op, !.at = root, !.restarts = s.restarts]

\* restart_or_fail, then the root is read again from the meta page
restart(s) ==
    IF s.restarts + 1 > MaxRestarts THEN finish(s, "unsupported")
    ELSE [begin_at(s, meta.root) EXCEPT !.restarts = s.restarts + 1]

----------------------------------------------------------------------------
(* Where a page stands to the probe.                                       *)

dominated(s, page) ==
    count(page) > 0 /\ IF page.level = 0 THEN Before(probe(s), first(page))
                                         ELSE first(page)[1] > s.op.key

\* The non-empty right sibling owns the probe.  An empty first key is the
\* -infinity marker and owns nothing a walk could be missing.
owns(s, level, page) ==
    IF level = 0 THEN AtOrBefore(first(page), probe(s))
    ELSE first(page)[1] # 0 /\ first(page)[1] <= s.op.key

left_edge(s, page) == count(page) = 0 \/ Before(probe(s), first(page))

----------------------------------------------------------------------------
(* lookup, lookup_all and range_scan: the guarded leaf gives what matches, *)
(* up to the first entry past the range; then the walk goes on to the      *)
(* right sibling, latched before this one is released.                     *)

matches(op, e) == CASE op.kind = "range" -> e[1] < op.end
                    [] OTHER             -> e[1] = op.key

\* Mutant: a scan ends with the leaf it began on.
collect_one_leaf(s, slot) ==
    LET page == at(s)
        hits == {i \in (slot + 1)..count(page) : \A j \in (slot + 1)..i : matches(s.op, page.entries[j])}
    IN  finish([s EXCEPT !.out = SubSeq(page.entries, slot + 1, slot + Cardinality(hits))], "ok")

collect(s, slot) ==
    LET page == at(s)
        rest == SubSeq(page.entries, slot + 1, count(page))
        hits == {i \in 1..Len(rest) : \A j \in 1..i : matches(s.op, rest[j])}
        got  == [s EXCEPT !.out = @ \o SubSeq(rest, 1, Cardinality(hits))]
    IN  CASE s.op.kind = "lookup" /\ rest # <<>> ->
               finish([s EXCEPT !.out = IF 1 \in hits THEN <<rest[1]>> ELSE <<>>], "ok")
          [] Cardinality(hits) < Len(rest) \/ page.next = INVALID -> finish(got, "ok")
          [] OTHER -> [got EXCEPT !.pc = "collect", !.nx = page.next]

----------------------------------------------------------------------------
(* walk_to_position_guard.  The walk owns its page when neither side takes *)
(* it further: an internal page then leads down, a leaf to the operation.  *)

arrived(s) ==
    CASE at(s).level > 0        -> [s EXCEPT !.pc = "crab", !.nx = find_child(at(s), s.op.key)]
      [] s.op.kind = "insert"   -> [s EXCEPT !.pc = "ipin", !.rd = {}]
      [] s.op.kind = "delete"   -> [s EXCEPT !.pc = "dpin", !.rd = {}]
      [] OTHER                  -> collect(s, leaf_lower_bound(at(s), s.op.key, s.op.tid))

\* A left candidate of an insert is judged by the nearest non-empty leaf on
\* its left; every other walk simply steps left.  Either way the latch on
\* this page is dropped first.
judged(s) == at(s).level = 0 /\ s.op.kind = "insert"
goes_left(s) ==
    /\ at(s).prev # INVALID
    /\ IF judged(s) THEN left_edge(s, at(s)) /\ s.verified # s.at
       ELSE dominated(s, at(s)) \/ (at(s).level = 0 /\ count(at(s)) = 0)

loop_top(s) ==
    CASE goes_left(s) /\ judged(s)  -> [s EXCEPT !.pc = "prev", !.rd = {}, !.moved = FALSE]
      [] goes_left(s) /\ ~judged(s) -> [s EXCEPT !.pc = "pinl", !.rd = {}, !.at = at(s).prev,
                                                 !.moved = FALSE]
      [] ~goes_left(s) /\ at(s).next = INVALID -> arrived([s EXCEPT !.moved = FALSE])
      [] OTHER -> [s EXCEPT !.pc = "skip", !.nx = at(s).next, !.moved = FALSE]

\* After the left part: the right part of the same round of the loop
right_part(s) ==
    IF at(s).next = INVALID THEN loop_top(s)
    ELSE [s EXCEPT !.pc = "skip", !.nx = at(s).next, !.moved = TRUE]

Turn(p, s) == ps' = [ps EXCEPT ![p] = s]
Same       == UNCHANGED <<pages, meta, fails>>

pin(p) == LET s == ps[p] IN
    /\ s.pc \in {"pin", "pinl"}
    /\ Turn(p, LET t == [s EXCEPT !.rd = {s.at}]
               IN  IF s.pc = "pin" THEN loop_top(t) ELSE right_part(t))
    /\ Same

\* The right walk skips through empty siblings and never lands on one
skip(p) == LET s == ps[p]
               page == pages[s.nx] IN
    /\ s.pc = "skip"
    /\ Turn(p, CASE count(page) = 0 /\ page.next # INVALID -> [s EXCEPT !.nx = page.next]
                 [] count(page) > 0 /\ owns(s, at(s).level, page) ->
                      loop_top([s EXCEPT !.at = s.nx, !.rd = {s.nx}])
                 [] OTHER -> IF s.moved THEN loop_top(s) ELSE arrived(s))
    /\ Same

crab(p) == LET s == ps[p] IN
    /\ s.pc = "crab"
    /\ Turn(p, loop_top([s EXCEPT !.at = s.nx, !.rd = {s.nx}]))
    /\ Same

collect_next(p) == LET s == ps[p] IN
    /\ s.pc = "collect"
    /\ Turn(p, collect([s EXCEPT !.at = s.nx, !.rd = {s.nx}], 0))
    /\ Same

----------------------------------------------------------------------------
(* nearest_nonempty_left: from the prev hint, which splits leave stale,    *)
(* right again to the page itself.  Three callers: the walk, the placement *)
(* of an insert (splits = <<>>, no stack) and the write descent.           *)

Caller(s) == CASE s.pc \in {"prev", "near"}   -> "walk"
               [] s.pc \in {"iprev", "inear"} -> "place"
               [] s.pc \in {"wprev", "wnear"} -> "path"

\* No page left of this one holds an entry
none_left(s) ==
    CASE Caller(s) = "walk"  -> [s EXCEPT !.pc = "pinl", !.rd = {}, !.verified = s.at]
      [] Caller(s) = "place" -> [s EXCEPT !.pc = "irelatch", !.rd = {}]
      [] Caller(s) = "path"  -> [s EXCEPT !.pc = "wpin", !.rd = {}, !.verified = s.at]

some_left(s, q) ==
    CASE Caller(s) = "walk"  -> [s EXCEPT !.pc = "judge", !.rd = {}, !.found = q]
      [] Caller(s) = "place" -> [s EXCEPT !.pc = "ileft", !.rd = {}, !.found = q]
      [] Caller(s) = "path"  -> [s EXCEPT !.pc = "wjudge", !.rd = {}, !.found = q]

prev_hint(p) == LET s == ps[p] IN
    /\ s.pc \in {"prev", "iprev", "wprev"}
    /\ Turn(p, IF at(s).prev = INVALID THEN none_left(s)
               ELSE [s EXCEPT !.walk = at(s).prev, !.found = INVALID,
                              !.pc = CASE s.pc = "prev"  -> "near"
                                       [] s.pc = "iprev" -> "inear"
                                       [] s.pc = "wprev" -> "wnear"])
    /\ Same

near(p) == LET s == ps[p]
               page == pages[s.walk]
               last == IF count(page) > 0 THEN s.walk ELSE s.found IN
    /\ s.pc \in {"near", "inear", "wnear"}
    /\ Turn(p, CASE page.next = s.at ->
                      IF last = INVALID THEN none_left([s EXCEPT !.walk = INVALID])
                      ELSE some_left([s EXCEPT !.walk = INVALID], last)
                 [] page.next # s.at /\ page.next = INVALID -> finish(s, "corrupted")
                 [] OTHER -> [s EXCEPT !.rd = {s.walk}, !.walk = page.next, !.found = last])
    /\ Same

\* The last entry of that leaf decides.  It may have been drained meanwhile,
\* and then the code asks for slot 65535 of it.
judge(p) == LET s == ps[p]
                page == pages[s.found]
                t == [s EXCEPT !.found = INVALID] IN
    /\ s.pc \in {"judge", "wjudge"}
    /\ LET next == IF s.pc = "judge" THEN "pinl" ELSE "wpin"
       IN  Turn(p, CASE count(page) = 0 -> finish(s, "drained")
                     [] count(page) > 0 /\ Before(probe(s), final(page)) ->
                          [t EXCEPT !.pc = next, !.at = s.found]
                     [] OTHER -> [t EXCEPT !.pc = next, !.verified = s.at])
    /\ Same

----------------------------------------------------------------------------
(* delete, under the write latch of the leaf it re-validates               *)
(* (pin_leaf_for_write).                                                   *)

delete_here(p, s) ==
    LET slot == leaf_lower_bound(at(s), s.op.key, s.op.tid)
    IN  IF slot < count(at(s)) /\ entry(at(s), slot) = probe(s)
          THEN /\ pages' = [pages EXCEPT ![s.at] = remove_entry_at(@, slot)]
               /\ Turn(p, finish(s, "ok"))
               /\ UNCHANGED <<meta, fails>>
          ELSE Turn(p, finish(s, "notfound")) /\ Same

delete_pin(p) == LET s == ps[p]
                     t == [s EXCEPT !.wr = {s.at}] IN
    /\ s.pc = "dpin"
    /\ CASE left_edge(s, at(s)) /\ at(s).prev # INVALID ->
              Turn(p, [s EXCEPT !.at = at(s).prev]) /\ Same
         [] ~(left_edge(s, at(s)) /\ at(s).prev # INVALID) /\ at(s).next # INVALID ->
              Turn(p, [t EXCEPT !.pc = "dskip", !.nx = at(s).next]) /\ Same
         [] OTHER -> delete_here(p, t)

delete_skip(p) == LET s == ps[p]
                      page == pages[s.nx] IN
    /\ s.pc = "dskip"
    /\ CASE count(page) = 0 /\ page.next # INVALID ->
              Turn(p, [s EXCEPT !.nx = page.next]) /\ Same
         [] count(page) > 0 /\ owns(s, 0, page) ->
              Turn(p, [s EXCEPT !.pc = "dpin", !.at = s.nx, !.wr = {}]) /\ Same
         [] OTHER -> delete_here(p, s)

----------------------------------------------------------------------------
(* The optimistic insert (pin_leaf_for_insert).  An entry that lands on    *)
(* slot 0 sits on the boundary with the left neighbour, so the neighbour   *)
(* that decides is latched before the verdict and held until the entry is  *)
(* in.  All of s.wr is dropped when the insert ends or turns pessimistic.  *)

insert_into_page(q, slot, e) == pages' = [pages EXCEPT ![q] = insert_entry_at(@, slot, e)]

place(p, s) ==
    IF fits(at(s))
      THEN /\ insert_into_page(s.at, leaf_lower_bound(at(s), s.op.key, s.op.tid), probe(s))
           /\ Turn(p, finish(s, "ok"))
           /\ UNCHANGED <<meta, fails>>
      ELSE /\ Turn(p, [begin_at(s, meta.root) EXCEPT !.pc = "wroot"])
           /\ Same

landed(p, s) ==
    LET slot == leaf_lower_bound(at(s), s.op.key, s.op.tid)
    IN  CASE slot < count(at(s)) /\ entry(at(s), slot) = probe(s) ->
               Turn(p, finish(s, "duplicate")) /\ Same
          [] slot > 0 -> place(p, s)
          [] OTHER    -> Turn(p, [s EXCEPT !.pc = "iprev", !.wr = {}]) /\ Same

place_top(p, s) ==
    IF at(s).next = INVALID THEN landed(p, s)
    ELSE Turn(p, [s EXCEPT !.pc = "iskip", !.nx = at(s).next]) /\ Same

insert_pin(p) == LET s == ps[p] IN
    /\ s.pc = "ipin"
    /\ place_top(p, [s EXCEPT !.wr = {s.at}])


insert_skip(p) == LET s == ps[p]
                      page == pages[s.nx] IN
    /\ s.pc = "iskip"
    /\ CASE count(page) = 0 /\ page.next # INVALID ->
              Turn(p, [s EXCEPT !.nx = page.next]) /\ Same
         [] count(page) > 0 /\ owns(s, 0, page) ->
              Turn(p, [s EXCEPT !.pc = "ipin", !.at = s.nx, !.wr = {}]) /\ Same
         [] OTHER -> landed(p, s)

\* The left neighbour L is latched; if it has been drained the placement starts over
insert_left(p) == LET s == ps[p] IN
    /\ s.pc = "ileft"
    /\ Turn(p, IF count(pages[s.found]) = 0 THEN [s EXCEPT !.pc = "ipin", !.found = INVALID]
               ELSE [s EXCEPT !.pc = "icur", !.wr = {s.found}])
    /\ Same

\* The verdict under both latches
verdict(p, s) ==
    LET l == pages[s.found]
        only(q) == [s EXCEPT !.wr = {q}, !.at = q, !.found = INVALID]
    IN  CASE ~left_edge(s, at(s))         -> place_top(p, only(s.at))
          [] left_edge(s, at(s)) /\ Before(probe(s), final(l)) -> place_top(p, only(s.found))
          [] OTHER                        -> place(p, s)

insert_relatch(p) == LET s == ps[p]
                         t == [s EXCEPT !.wr = @ \union {s.at}] IN
    /\ s.pc = "icur"
    /\ IF pages[s.found].next = s.at THEN verdict(p, t)
       ELSE Turn(p, [t EXCEPT !.pc = "iseg", !.nx = pages[s.found].next]) /\ Same

\* From L to this page there must be only empty pages
insert_segment(p) == LET s == ps[p]
                         page == pages[s.nx] IN
    /\ s.pc = "iseg"
    /\ CASE count(page) > 0 -> place_top(p, [s EXCEPT !.wr = {s.at}, !.found = INVALID])
         [] count(page) = 0 /\ page.next = s.at    -> verdict(p, s)
         [] count(page) = 0 /\ page.next = INVALID -> Turn(p, finish(s, "corrupted")) /\ Same
         [] OTHER -> Turn(p, [s EXCEPT !.nx = page.next]) /\ Same

\* Nothing on the left: the nearest non-empty page on the right is held
insert_alone(p) == LET s == ps[p]
                       t == [s EXCEPT !.wr = {s.at}] IN
    /\ s.pc = "irelatch"
    /\ CASE ~left_edge(s, at(s)) -> place_top(p, t)
         [] left_edge(s, at(s)) /\ at(s).next = INVALID -> place(p, t)
         [] OTHER -> Turn(p, [t EXCEPT !.pc = "iright", !.nx = at(s).next]) /\ Same

insert_right(p) == LET s == ps[p]
                       page == pages[s.nx] IN
    /\ s.pc = "iright"
    /\ CASE count(page) = 0 /\ page.next # INVALID -> Turn(p, [s EXCEPT !.nx = page.next]) /\ Same
         [] count(page) > 0 /\ owns(s, 0, page) ->
              place_top(p, [s EXCEPT !.at = s.nx, !.wr = {s.nx}])
         [] OTHER -> place(p, [s EXCEPT !.wr = @ \union {s.nx}])

----------------------------------------------------------------------------
(* The pessimistic insert: descend_write_path keeps the write latches of   *)
(* the whole path; whatever it did not expect restarts the insert.         *)

Retry(p, s) == Turn(p, restart(s)) /\ Same

parent_of(s) == pages[Last(s.stack)]

descend(p, s) ==
    IF at(s).level = 0 THEN Turn(p, [s EXCEPT !.pc = "wleaf"]) /\ Same
    ELSE Turn(p, [s EXCEPT !.pc = "wcrab", !.nx = find_child(at(s), s.op.key)]) /\ Same

path_top(p, s) ==
    CASE at(s).incomplete -> Retry(p, s)
      [] ~at(s).incomplete /\ at(s).level > 0 /\ dominated(s, at(s)) /\ at(s).prev # INVALID ->
           Retry(p, s)
      [] ~at(s).incomplete /\ at(s).level = 0 /\ at(s).prev # INVALID
           /\ s.verified # s.at /\ left_edge(s, at(s)) ->
           Turn(p, [s EXCEPT !.pc = "wprev", !.wr = @ \ {s.at}]) /\ Same
      [] OTHER -> IF at(s).next = INVALID THEN descend(p, s)
                  ELSE Turn(p, [s EXCEPT !.pc = "wskip", !.nx = at(s).next]) /\ Same

write_root(p) == LET s == ps[p] IN
    /\ s.pc = "wroot"
    /\ IF at(s).root THEN path_top(p, [s EXCEPT !.wr = {s.at}]) ELSE Retry(p, s)

write_pin(p) == LET s == ps[p] IN
    /\ s.pc = "wpin"
    /\ path_top(p, [s EXCEPT !.wr = @ \union {s.at}])

\* A right sibling that owns the probe is entered only when the parent has
\* its downlink: otherwise its split is not committed yet
write_skip(p) == LET s == ps[p]
                     page == pages[s.nx] IN
    /\ s.pc = "wskip"
    /\ CASE count(page) = 0 /\ page.next # INVALID -> Turn(p, [s EXCEPT !.nx = page.next]) /\ Same
         [] count(page) > 0 /\ owns(s, at(s).level, page) ->
              IF s.stack # <<>> /\ internal_page_points_at(parent_of(s), s.nx)
                THEN Turn(p, [s EXCEPT !.pc = "wpin", !.at = s.nx, !.wr = @ \ {s.at}]) /\ Same
                ELSE Retry(p, s)
         [] OTHER -> descend(p, s)

write_crab(p) == LET s == ps[p] IN
    /\ s.pc = "wcrab"
    /\ path_top(p, [s EXCEPT !.stack = Append(@, s.at), !.at = s.nx, !.wr = @ \union {s.nx}])

----------------------------------------------------------------------------
(* The split.  Prepare and Copy run under the latch of the page that is    *)
(* split, and nothing leads to the right page until they are done.         *)

\* Mutant: the left page is truncated before its upper entries are copied.
split_truncates_first(left, right, slot) ==
    LET l == truncated(apply_prepare_left(pages[left], right), slot)
        r == init_right_page(left, pages[left].next, l.level)
    IN  Append([pages EXCEPT ![left] = l], extended(r, l, slot))

\* The pages after Prepare and Copy at `slot'
split(left, right, slot) ==
    LET l == apply_prepare_left(pages[left], right)
        r == init_right_page(left, pages[left].next, l.level)
    IN  Append([pages EXCEPT ![left] = truncated(l, slot)], extended(r, l, slot))

\* An allocation that finds no frame and no page left to evict
alloc_fails == /\ fails < MaxAllocFails
               /\ fails' = fails + 1
               /\ UNCHANGED <<pages, meta>>

Split(left, right, e, edge) == [left |-> left, right |-> right, at |-> e, edge |-> edge]

\* A left-edge entry is not carried into the split: the next pass places it
split_leaf(p, s, edge) ==
    LET right == Len(pages) + 1
        slot  == IF edge THEN median(at(s)) ELSE split_slot(at(s), probe(s))
        e     == entry(at(s), slot)
        half  == IF Before(probe(s), e) THEN s.at ELSE right
        after == split(s.at, right, slot)
    IN  IF count(at(s)) < 2 THEN Turn(p, finish(s, "deadspace")) /\ Same
        ELSE /\ right \in PageIds
             /\ pages' = IF edge THEN after
                         ELSE [after EXCEPT ![half] = insert_entry_at(@, lower_bound(@, probe(s)), probe(s))]
             /\ Turn(p, [s EXCEPT !.pc = "commit", !.wr = @ \ {s.at}, !.at = INVALID,
                                  !.splits = <<Split(s.at, right, e, edge)>>])
             /\ UNCHANGED <<meta, fails>>

insert_pessimistic(p) == LET s == ps[p]
                             slot == leaf_lower_bound(at(s), s.op.key, s.op.tid)
                             edge == slot = 0 /\ at(s).prev # INVALID IN
    /\ s.pc = "wleaf"
    /\ CASE slot < count(at(s)) /\ entry(at(s), slot) = probe(s) ->
              Turn(p, finish(s, "duplicate")) /\ Same
         [] fits(at(s)) /\ edge  -> Retry(p, s)
         [] fits(at(s)) /\ ~edge -> place(p, s)
         [] OTHER -> \/ split_leaf(p, s, edge)
                     \/ alloc_fails /\ Turn(p, restart(s))

----------------------------------------------------------------------------
(* split_commit_guarded, up the latched path.  s.splits holds the split to *)
(* commit on top of those that wait for it.                                *)

top(s)  == Last(s.splits)
downlink(sp) == <<sp.at[1], sp.right>>

\* The root was split: a new root above it, published by its meta record
new_root(p) == LET s == ps[p] IN
    /\ s.pc = "commit" /\ s.stack = <<>>
    /\ IF meta.root # top(s).left THEN Turn(p, finish(s, "stale")) /\ Same
       ELSE \/ /\ Len(pages) < MaxPages
               /\ LET r == Len(pages) + 1
                      l == pages[top(s).left].level + 1
                  IN  /\ pages' = Append(pages, insert_entry_at(init(l, TRUE), 0, <<0, top(s).left>>))
                      /\ meta' = [root |-> r, level |-> l]
                      /\ Turn(p, [s EXCEPT !.pc = "ctouch", !.at = r])
               /\ UNCHANGED fails
            \/ alloc_fails /\ Turn(p, restart(s))

\* The popped page must hold the downlink of the split page, and have room
commit_parent(p) == LET s == ps[p]
                        par == Last(s.stack) IN
    /\ s.pc = "commit" /\ s.stack # <<>>
    /\ CASE ~internal_page_points_at(pages[par], top(s).left) -> Turn(p, finish(s, "gap")) /\ Same
         [] internal_page_points_at(pages[par], top(s).left) /\ fits(pages[par]) ->
              Turn(p, [s EXCEPT !.pc = "ctouch", !.at = par, !.stack = Front(@)]) /\ Same
         [] OTHER ->
              \/ LET right == Len(pages) + 1
                     slot  == split_slot(pages[par], downlink(top(s)))
                 IN  /\ right \in PageIds
                     /\ pages' = split(par, right, slot)
                     /\ Turn(p, [s EXCEPT !.stack = Front(@), !.wr = @ \ {par},
                                  !.splits = Append(@, Split(par, right, entry(pages[par], slot), FALSE))])
                     /\ UNCHANGED <<meta, fails>>
              \/ alloc_fails /\ Turn(p, restart(s))

\* The page whose parent was split first: its downlink goes to the half it
\* sorts into, latched anew
half_for(s) == LET sp == s.halves[1]
               IN  IF Before(downlink(top(s)), sp.at) THEN sp.left ELSE sp.right

commit_target(p) == LET s == ps[p] IN
    /\ s.pc = "ctarget"
    /\ Turn(p, [s EXCEPT !.pc = "ctouch", !.at = half_for(s), !.wr = @ \union {half_for(s)},
                         !.halves = <<>>])
    /\ Same

\* Both pages of the Commit are touched before its record is written; then
\* the downlink goes in and the parent is released
commit_touch(p) == LET s == ps[p]
                       sp == top(s) IN
    /\ s.pc = "ctouch"
    /\ IF fits(at(s))
         THEN /\ insert_into_page(s.at, internal_lower_bound(at(s), sp.at[1], sp.right), downlink(sp))
              /\ Turn(p, [s EXCEPT !.pc = "cclear", !.wr = @ \ {s.at}, !.at = INVALID])
              /\ UNCHANGED <<meta, fails>>
         ELSE Turn(p, finish(s, "pagefull")) /\ Same

\* The left page is latched once more and its flags cleared
commit_clear(p) == LET s == ps[p]
                       sp == top(s)
                       left == Front(s.splits) IN
    /\ s.pc = "cclear"
    /\ pages' = [pages EXCEPT ![sp.left] = apply_commit_left(@)]
    /\ Turn(p, CASE left # <<>>           -> [s EXCEPT !.pc = "ctarget", !.splits = left, !.halves = <<sp>>]
                 [] left = <<>> /\ sp.edge  -> restart(s)
                 [] left = <<>> /\ ~sp.edge -> finish(s, "ok"))
    /\ UNCHANGED <<meta, fails>>

----------------------------------------------------------------------------
(* The latch a thread is waiting for: the pages, and whether to write.     *)

wanted(s) ==
    CASE s.pc \in {"pin", "pinl", "prev", "iprev", "wprev"}           -> {s.at}
      [] s.pc \in {"skip", "crab", "collect", "dskip", "iskip", "iseg", "wskip"} -> {s.nx}
      [] s.pc \in {"near", "inear", "wnear"}                          -> {s.walk}
      [] s.pc \in {"judge", "wjudge", "ileft"}                        -> {s.found}
      [] s.pc \in {"dpin", "ipin", "icur", "irelatch", "wroot", "wpin"} -> {s.at}
      [] s.pc \in {"iright", "wcrab"}                                 -> {s.nx}
      [] s.pc = "ctarget"                                             -> {half_for(s)}
      [] s.pc = "ctouch"                                              -> {s.at, top(s).left}
      [] s.pc = "cclear"                                              -> {top(s).left}
      [] OTHER                                                        -> {}

exclusive(s) == s.pc \in {"dpin", "ipin", "icur", "irelatch", "iright", "ileft", "wroot",
                          "wpin", "wcrab", "ctarget", "ctouch", "cclear"}

Granted(p) == \A o \in Procs \ {p} : \A q \in wanted(ps[p]) :
                 q \notin ps[o].wr /\ (exclusive(ps[p]) => q \notin ps[o].rd)

----------------------------------------------------------------------------

\* A handle is opened for the operation: it reads the root from the meta page
begin(p) ==
    /\ ps[p].pc = "idle" /\ todo[p] # <<>>
    /\ Turn(p, [begin_at(Idle, meta.root) EXCEPT !.op = Head(todo[p])])
    /\ todo' = [todo EXCEPT ![p] = Tail(@)]
    /\ seen' = [seen EXCEPT ![p] = [must |-> Contents, may |-> Contents]]
    /\ Same

step(p) ==
    \/ pin(p) \/ skip(p) \/ crab(p) \/ collect_next(p)
    \/ prev_hint(p) \/ near(p) \/ judge(p)
    \/ delete_pin(p) \/ delete_skip(p)
    \/ insert_pin(p) \/ insert_skip(p) \/ insert_left(p) \/ insert_relatch(p)
    \/ insert_segment(p) \/ insert_alone(p) \/ insert_right(p)
    \/ write_root(p) \/ write_pin(p) \/ write_skip(p) \/ write_crab(p)
    \/ insert_pessimistic(p) \/ new_root(p) \/ commit_parent(p) \/ commit_target(p)
    \/ commit_touch(p) \/ commit_clear(p)

\* What the others see: every entry there is now, none that is gone
observe(p) ==
    seen' = [o \in Procs |->
               IF o = p \/ ps[o].pc = "idle" THEN seen[o]
               ELSE [must |-> seen[o].must \intersect Contents', may |-> seen[o].may \union Contents']]

run(p) == Granted(p) /\ step(p) /\ observe(p) /\ UNCHANGED todo

finished == \A p \in Procs : ps[p].pc = "idle" /\ todo[p] = <<>>

Init == \E w \in Workloads :
    LET t == build(w.tree)
        left(q) == SelectSeq(t.pages[q].entries, LAMBDA e : e \notin w.drained)
    IN  /\ pages = [q \in DOMAIN t.pages |->
                      IF t.pages[q].level # 0 THEN t.pages[q]
                      ELSE [t.pages[q] EXCEPT !.entries = left(q)]]
        /\ meta = [root |-> t.root, level |-> t.level]
        /\ todo = w.todo
        /\ ps = [p \in Procs |-> Idle]
        /\ fails = 0
        /\ seen = [p \in Procs |-> [must |-> {}, may |-> {}]]

Next == \/ \E p \in Procs : begin(p) \/ run(p)
        \/ finished /\ UNCHANGED vars

Spec == Init /\ [][Next]_vars

----------------------------------------------------------------------------
(* Properties.                                                             *)

Stuck == /\ \E p \in Procs : ps[p].pc # "idle"
         /\ \A p \in Procs : ps[p].pc # "idle" => ~Granted(p)

\* Threads never come to wait for each other's latches in a circle.  The source
\* says the acquisition order (down and right only) makes it so; it does not
\* hold, and OnlyTheSegmentWalkSticks says why.
NoLatchDeadlock == ~Stuck

\* The walk from the left neighbour back to a page already latched is the only
\* acquisition to the left of a held latch, and no circle closes without it
OnlyTheSegmentWalkSticks == Stuck => \E p \in Procs : ps[p].pc = "iseg"

\* A tree nobody is writing passes validate, whatever inserts, splits and
\* deletes went on at the same time, and no operation met a page it takes
\* for corrupted, a root it takes for stale, or a page its split left full
ValidWhenQuiet ==
    /\ \A p \in Procs : ps[p].result \notin {"corrupted", "stale", "pagefull"}
    /\ (\A p \in Procs : ps[p].pc = "idle") =>
         /\ Strictly(chain_entries(pages, meta.root))
         /\ fails = 0 => validate(pages, meta.root, meta.level)

\* What an operation answers was so while it ran: a scan returns, in order and
\* once, every matching entry that was there throughout and only entries that were
\* there; a duplicate was there, an entry not found was not there throughout
AnswersHeld ==
    \A p \in Procs : LET s == ps[p]
                         hit(E) == {e \in E : e[1] >= s.op.key /\ matches(s.op, e)} IN
       /\ s.result = "ok" /\ s.op.kind \in {"lookup_all", "range"} =>
            /\ Strictly(s.out)
            /\ hit(seen[p].must) \subseteq ToSet(s.out)
            /\ ToSet(s.out) \subseteq hit(seen[p].may)
       /\ s.result = "ok" /\ s.op.kind = "lookup" =>
            /\ ToSet(s.out) \subseteq hit(seen[p].may)
            /\ s.out = <<>> => hit(seen[p].must) = {}
       /\ s.result = "duplicate" => probe(s) \in seen[p].may \/ fails > 0
       /\ s.result = "notfound"  => probe(s) \notin seen[p].must

\* The index as a set of entries: an insert that ends well adds its entry, a
\* delete that ends well removes its own, and no other step (a split of any
\* depth, a root promotion, a restart) changes what the leaves hold together
AtMostOneEntry ==
    \/ Contents' = Contents
    \/ \E p \in Procs : LET s == ps'[p] IN
         \/ s.op.kind = "insert" /\ Contents' = Contents \union {probe(s)}
                                 /\ probe(s) \notin Contents
         \/ s.op.kind = "delete" /\ Contents' = Contents \ {probe(s)} /\ s.result = "ok"

OneEntryPerOperation == [][AtMostOneEntry]_vars

=============================================================================
