------------------------------- MODULE Table -------------------------------
(***************************************************************************)
(* One table: its heap (pg-am-heap/src/heap_am.rs, redo.rs, undo.rs), one  *)
(* B+Tree index on column key, one HNSW index on column vec with its       *)
(* sidecar NodeId -> ctid map, and the engine's statements, transaction    *)
(* ends, vacuum and recovery over them (pg-engine/src/engine.rs).          *)
(*                                                                         *)
(* A session runs a program of statements.  A statement is a list of steps *)
(* (todo): each heap operation is one step, under the page's latch, and    *)
(* each index operation another, so sessions, lock-free readers, eviction, *)
(* a checkpoint and a crash come between any two of them.                  *)
(*                                                                         *)
(* The B+Trees are the sets of entries BTreeRecovery shows them to be, and *)
(* an HNSW node is LIVE or tombstoned (HnswIndex); their records are in    *)
(* the log, in order.  Pages are written whole and a checkpoint is one     *)
(* step: CrashRecovery models both in detail.  Shared row locks are        *)
(* RowLocks'.                                                              *)
(***************************************************************************)
EXTENDS HeapPage

CONSTANTS
    Pages,       \* bound: the page ids there are
    Xids,        \* bound: the XIDs there are; 1 wrote the base rows
    Sessions,
    SegRecords,  \* how many records a log segment holds
    Scenarios    \* [base, prog, used], see Init

VARIABLES
    db,          \* pages, log, indexes: see Empty
    clog,        \* XID -> "running" | "committed" | "aborted"
    next_xid,
    session,     \* what each session is doing
    committed,   \* ghost: the rows of every committed transaction
    phase,       \* "up" | "compensating" | "wedged" | "corrupt"
    victims,     \* what is left to compensate after a crash
    used         \* budgets left: evictions, checkpoints, crashes, tenants

vars == <<db, clog, next_xid, session, committed, phase, victims, used>>

Head1  == 1                        \* RelationDesc::first_page
NULL   == 0                        \* a NULL vector, and no NodeId
NoSnap == [xid |-> 0, xmin |-> 0, xmax |-> 0, xip |-> {}, curcid |-> 0]
Need   == 2 + LpSize               \* a tuple and its line pointer

Idle(prog) ==
    [prog |-> prog, pc |-> "idle", xid |-> 0, snap |-> NoSnap, lock |-> "none", todo |-> <<>>,
     undo |-> <<>>, pend |-> <<>>, base |-> {}, adds |-> {}, dels |-> {}, got |-> {}]

-----------------------------------------------------------------------------
(* The log and the pages.                                                   *)

log(d, rec) == [d EXCEPT !.wal = Append(@, rec)]

\* A page changed under the record just logged
put(d, q, page) == [d EXCEPT !.mem[q] = page, !.lsn[q] = Len(d.wal)]

\* pin_mut: the first touch since the checkpoint logs the page as it was
touch(d, q) ==
    IF q \in d.owed /\ d.lsn[q] < d.redo
    THEN LET e == log(d, [type |-> "fpi", page |-> q, image |-> d.mem[q]])
         IN  [put(e, q, d.mem[q]) EXCEPT !.owed = @ \ {q}]
    ELSE d

Available(d) == IF d.free # {} THEN d.free ELSE {q \in Pages : q > d.hwm}

\* new_page and log_page_init
new_page(d, q) ==
    LET e == log([d EXCEPT !.free = @ \ {q}, !.hwm = IF q > @ THEN q ELSE @, !.owed = @ \ {q}],
                 [type |-> "alloc", page |-> q])
    IN  put(log(e, [type |-> "fpi", page |-> q, image |-> init_with_special]), q, init_with_special)

\* seed_from_chain: the pages next_page leads through
RECURSIVE seed_from_chain(_, _, _)
seed_from_chain(d, q, seen) ==
    IF q = INVALID \/ q \in Range(seen) THEN seen
    ELSE seed_from_chain(d, d.mem[q].next, Append(seen, q))

\* A new tail, and the old one linked to it by a page image
extend_chain(d) ==
    LET q == Min(Available(d))
        tail == Last(d.cache)
        e == touch(new_page(d, q), tail)
        linked == set_next_page(init_if_fresh(e.mem[tail]), q)
        f == put(log(e, [type |-> "fpi", page |-> tail, image |-> linked]), tail, linked)
    IN  [f EXCEPT !.cache = Append(@, q)]

RECURSIVE acquire(_, _)
acquire(d, order) ==
    IF order = <<>> THEN LET e == extend_chain(d) IN [d |-> e, page |-> Last(e.cache)]
    ELSE LET q == Head(order)
             t == touch(d, q)
             e == [t EXCEPT !.mem[q] = init_if_fresh(@)]
         IN  IF free_space(e.mem[q]) >= Need THEN [d |-> e, page |-> q]
             ELSE acquire(e, Tail(order))

\* The newest page with room, or a new one
acquire_page_with_room(d, exclude) ==
    acquire(d, SelectSeq(Reverse(d.cache), LAMBDA q : q # exclude))

-----------------------------------------------------------------------------
(* Redo.  A page record is applied if the page has not seen it; a record   *)
(* the page cannot take makes recovery fail (ok).                          *)

unseen(d, q, i) == d.lsn[q] < i

at(d, q, page, i) == [d EXCEPT !.mem[q] = page, !.lsn[q] = i]

redo_add(d, q, s, t, i) ==
    LET p == init_if_fresh(d.mem[q]) IN
    IF can_add(p, s, t.len) THEN at(d, q, add_tuple_at(p, s, t), i) ELSE [d EXCEPT !.ok = FALSE]

HeapInsertHandler(d, r, i) ==
    IF unseen(d, r.tid[1], i) THEN redo_add(d, r.tid[1], r.tid[2], r.tup, i) ELSE d

\* t_cid is not in the record
redo_stamp(d, tid, xmax, i) ==
    IF Normal(d.mem[tid[1]], tid[2])
    THEN at(d, tid[1], stamp_deleted(d.mem[tid[1]], tid[2], xmax, Tuple(d.mem[tid[1]], tid[2]).cid), i)
    ELSE [d EXCEPT !.ok = FALSE]

\* The two pages of an update may have reached the disk at different times
HeapUpdateHandler(d, r, i) ==
    LET e == IF unseen(d, r.old[1], i) THEN redo_stamp(d, r.old, r.xid, i) ELSE d
    IN  IF unseen(d, r.tid[1], i) THEN redo_add(e, r.tid[1], r.tid[2], r.tup, i) ELSE e

HeapDeleteHandler(d, r, i) ==
    IF unseen(d, r.tid[1], i) THEN redo_stamp(d, r.tid, r.xid, i) ELSE d

HeapHotUpdateHandler(d, r, i) ==
    IF ~unseen(d, r.tid[1], i) THEN d
    ELSE IF ~Normal(d.mem[r.tid[1]], r.old[2]) THEN [d EXCEPT !.ok = FALSE]
    ELSE LET p == d.mem[r.tid[1]]
             stamped == stamp_hot_update(p, r.old[2], r.xid, Tuple(p, r.old[2]).cid, r.tid)
         IN  redo_add([d EXCEPT !.mem[r.tid[1]] = stamped], r.tid[1], r.tid[2], r.tup, i)

HeapCleanupRedoHandler(d, r, i) ==
    LET p == init_if_fresh(d.mem[r.page])
        e == IF ~unseen(d, r.page, i) THEN d
             ELSE IF can_compact(p, r.dead) THEN at(d, r.page, compact(p, r.dead), i)
             ELSE [d EXCEPT !.ok = FALSE]
    IN  IF r.prev # INVALID /\ unseen(d, r.prev, i)
        THEN at(e, r.prev, set_next_page(init_if_fresh(e.mem[r.prev]), r.to), i) ELSE e

\* One record: a page's, if the redo point is not past it, or an index's
redo(d, i) ==
    LET r == d.wal[i] IN
    CASE r.type = "alloc" -> [d EXCEPT !.free = @ \ {r.page}, !.hwm = IF r.page > @ THEN r.page ELSE @]
      [] r.type = "free"  -> [d EXCEPT !.free = @ \cup {r.page}]
      [] r.type = "bins"  -> [d EXCEPT !.index = @ \cup {<<r.key, r.tid>>}]
      [] r.type = "bdel"  -> [d EXCEPT !.index = @ \ {<<r.key, r.tid>>}]
      [] r.type = "mput"  -> [d EXCEPT !.map = @ \cup {<<r.key, r.tid>>}]
      [] r.type = "mdel"  -> [d EXCEPT !.map = @ \ {<<r.key, r.tid>>}]
      [] r.type = "node"  -> [d EXCEPT !.graph = Append(@, "live")]
      [] r.type = "tomb"  -> [d EXCEPT !.graph[r.key] = "tombstoned"]
      [] r.type \in {"commit", "abort"} -> d
      [] i < d.redo -> d
      [] r.type = "fpi"     -> at(d, r.page, r.image, i)
      [] r.type = "insert"  -> HeapInsertHandler(d, r, i)
      [] r.type = "update"  -> HeapUpdateHandler(d, r, i)
      [] r.type = "delete"  -> HeapDeleteHandler(d, r, i)
      [] r.type = "hot"     -> HeapHotUpdateHandler(d, r, i)
      [] r.type = "cleanup" -> HeapCleanupRedoHandler(d, r, i)

-----------------------------------------------------------------------------
(* Sessions.                                                                *)

Init ==
    \E sc \in Scenarios :
      LET n == Len(sc.base)
          row(i, k) == [sc.base[i][k] EXCEPT !.v = <<i, k>>]
          Cells == {<<i, k>> \in (1 .. n) \X (1 .. 9) : k <= Len(sc.base[i])}
          order == SetToSeq({c \in Cells : row(c[1], c[2]).vec # NULL})
          node(i, k) == IF row(i, k).vec = NULL THEN NULL
                        ELSE CHOOSE j \in DOMAIN order : order[j] = <<i, k>>
          tup(i, k) == new_tuple("a", 1, 0, row(i, k), node(i, k), 2)
          RECURSIVE fill(_, _)
          fill(i, k) == IF k = 0 THEN init_with_special
                        ELSE add_tuple_at(fill(i, k - 1), k, tup(i, k))
          page(q) == IF q \notin Range(sc.chain) THEN Fresh
                     ELSE LET i == CHOOSE i \in 1 .. n : sc.chain[i] = q IN
                          set_next_page(fill(i, Len(sc.base[i])), IF i < n THEN sc.chain[i + 1] ELSE INVALID)
          pages == [q \in Pages |-> page(q)]
          index == {<<row(c[1], c[2]).key, <<sc.chain[c[1]], c[2]>>>> : c \in Cells}
          map == {<<node(c[1], c[2]), <<sc.chain[c[1]], c[2]>>>> : c \in Range(order)}
          graph == [j \in DOMAIN order |-> "live"]
          none == [q \in Pages |-> 0]
          xids == [x \in Xids |-> IF x = 1 THEN "committed" ELSE "running"]
      IN  /\ db = [mem |-> pages, lsn |-> none, disk |-> pages, dlsn |-> none, owed |-> Pages,
                   redo |-> 1, wal |-> <<>>, synced |-> 0, free |-> {}, hwm |-> Max(Range(sc.chain)),
                   cache |-> sc.chain, index |-> index, map |-> map, graph |-> graph, att |-> {},
                   dclog |-> xids, ok |-> TRUE,
                   start |-> [free |-> {}, hwm |-> Max(Range(sc.chain)), index |-> index, map |-> map,
                              graph |-> graph]]
          /\ clog = xids
          /\ next_xid = 2
          /\ session = [s \in Sessions |-> Idle(sc.prog[s])]
          /\ committed = {row(c[1], c[2]) : c \in Cells}
          /\ phase = "up"
          /\ victims = {}
          /\ used = sc.used

Active == {session[s].xid : s \in Sessions} \ {0}

Snapshots == {session[s].snap : s \in Sessions} \ {NoSnap}

oldest_snapshot_xmin(snaps, active) ==
    IF snaps # {} THEN Min({n.xmin : n \in snaps}) ELSE Min(active \cup {next_xid})

\* What a snapshot taken now sees: one with an XID, or a reader's
take_snapshot(xid) ==
    [xid |-> xid, xmin |-> Min(Active \cup {next_xid}),
     xmax |-> IF xid = 0 THEN next_xid ELSE next_xid + 1, xip |-> Active, curcid |-> 1]

Op(s) == Head(session[s].todo).op

Doing(s, pc, op) == session[s].pc = pc /\ session[s].todo # <<>> /\ Op(s) = op

Asks(s, ops) == phase = "up" /\ session[s].prog # <<>> /\ Head(session[s].prog).op \in ops

TupleAt(d, tid) == Tuple(d.mem[tid[1]], tid[2])

\* The versions a scan of the whole chain returns
scan(d, snap) == UNION {scan_page(d.mem[q], q, snap, clog) : q \in Range(d.cache)}

\* lock_table: RowExclusive waits for vacuum's AccessExclusive
CanWrite(s) == \A t \in Sessions \ {s} : session[t].lock # "exclusive"

Set(s, x) == session' = [session EXCEPT ![s] = x]

\* A statement whose steps are done; the next one sees what it wrote
Settle(x) ==
    IF x.pc = "run" /\ x.todo = <<>>
    THEN [x EXCEPT !.pc = "ready", !.snap.curcid = @ + 1, !.prog = Tail(@)] ELSE x

begin(s) ==
    /\ session[s].pc = "idle"
    /\ Asks(s, {"insert", "update", "delete", "lock"})
    /\ next_xid \in Xids
    /\ Set(s, [session[s] EXCEPT !.pc = "ready", !.xid = next_xid, !.snap = take_snapshot(next_xid),
                                 !.base = committed])
    /\ next_xid' = next_xid + 1
    /\ UNCHANGED <<db, clog, committed, phase, victims, used>>

\* A node for a new vector: its record, and its tombstone should the
\* transaction abort
hnsw_insert_unflushed(d) == [log(d, [type |-> "node"]) EXCEPT !.graph = Append(@, "live")]

Start(s, x, steps) ==
    Set(s, Settle([x EXCEPT !.pc = "run", !.lock = "row", !.todo = steps]))

Tomb(n) == [op |-> "tomb", key |-> n, tid |-> NoTid]

\* insert_inner, up to the heap
insert_start(s) ==
    LET x == session[s]
        st == Head(x.prog)
        node == IF st.vec = NULL THEN NULL ELSE Len(db.graph) + 1
        row == [key |-> st.key, vec |-> st.vec, v |-> <<x.xid, x.snap.curcid>>]
    IN  /\ x.pc = "ready"
        /\ Asks(s, {"insert"})
        /\ CanWrite(s)
        /\ db' = IF node = NULL THEN db ELSE hnsw_insert_unflushed(db)
        /\ Start(s, [x EXCEPT !.undo = IF node = NULL THEN @ ELSE Append(@, Tomb(node))],
                 <<[op |-> "insert", row |-> row, node |-> node]>>)
        /\ UNCHANGED <<clog, next_xid, committed, phase, victims, used>>

Targets(s) == {tid \in scan(db, session[s].snap) : TupleAt(db, tid).row.key = Head(session[s].prog).where}

Same == 99

\* update_inner, up to the heap: the old row read back, a node drawn if the
\* vector changes
update_start(s) ==
    LET x == session[s]
        st == Head(x.prog)
    IN  /\ x.pc = "ready"
        /\ Asks(s, {"update"})
        /\ CanWrite(s)
        /\ \E tid \in Targets(s) :
             LET old == TupleAt(db, tid)
                 row == [key |-> IF st.key = Same THEN old.row.key ELSE st.key,
                         vec |-> IF st.vec = Same THEN old.row.vec ELSE st.vec,
                         v |-> <<x.xid, x.snap.curcid>>]
                 changed == row.vec # old.row.vec
                 drawn == changed /\ row.vec # NULL
                 node == IF drawn THEN Len(db.graph) + 1 ELSE IF changed THEN NULL ELSE old.node
             IN  /\ db' = IF drawn THEN hnsw_insert_unflushed(db) ELSE db
                 /\ Start(s, [x EXCEPT !.undo = IF drawn THEN Append(@, Tomb(node)) ELSE @],
                          <<[op |-> "update", tid |-> tid, row |-> row, node |-> node, old |-> old,
                             hot |-> row.key = old.row.key /\ ~changed]>>)
        /\ UNCHANGED <<clog, next_xid, committed, phase, victims, used>>

\* delete_inner, up to the heap
delete_start(s) ==
    LET x == session[s] IN
    /\ x.pc = "ready"
    /\ Asks(s, {"delete"})
    /\ CanWrite(s)
    /\ \E tid \in Targets(s) :
         Start(s, x, <<[op |-> "delete", tid |-> tid, old |-> TupleAt(db, tid),
                        root |-> hot_chain_root(db.mem[tid[1]], tid[1], tid)]>>)
    /\ UNCHANGED <<db, clog, next_xid, committed, phase, victims, used>>

\* SELECT ... FOR UPDATE
lock_start(s) ==
    LET x == session[s] IN
    /\ x.pc = "ready"
    /\ Asks(s, {"lock"})
    /\ CanWrite(s)
    /\ \E tid \in Targets(s) : Start(s, x, <<[op |-> "lock", tid |-> tid]>>)
    /\ UNCHANGED <<db, clog, next_xid, committed, phase, victims, used>>

\* A statement that finds no row does nothing
no_row(s) ==
    /\ session[s].pc = "ready"
    /\ Asks(s, {"update", "delete", "lock"})
    /\ CanWrite(s)
    /\ Targets(s) = {}
    /\ Start(s, session[s], <<>>)
    /\ UNCHANGED <<db, clog, next_xid, committed, phase, victims, used>>

-----------------------------------------------------------------------------
(* Heap steps.                                                              *)

\* Pages another session holds the write latch of, between the two halves of
\* an update across pages
Latched(s) ==
    {Head(session[t].todo).page :
       t \in {u \in Sessions \ {s} : Doing(u, "run", "cross") /\ Head(session[u].todo).held}}

\* Pages acquire_page_with_room latched on its way to page q
Visited(d, q) == {d.cache[i] : i \in {j \in DOMAIN d.cache : \A k \in j + 1 .. Len(d.cache) : d.cache[k] # q}}

Then(x, steps) == Settle([x EXCEPT !.todo = steps \o Tail(@)])

Bins(k, tid) == [op |-> "bins", key |-> k, tid |-> tid]
Bdel(k, tid) == [op |-> "bdel", key |-> k, tid |-> tid]
Mput(n, tid) == [op |-> "mput", key |-> n, tid |-> tid]
Mdel(n, tid) == [op |-> "mdel", key |-> n, tid |-> tid]

\* HeapAM::insert, and the index steps insert_inner goes on with
heap_insert(s) ==
    LET x == session[s]
        o == Head(x.todo)
        a == acquire_page_with_room(db, INVALID)
        slot == first_fit_slot(a.d.mem[a.page])
        tid == <<a.page, slot>>
        tup == new_tuple("a", x.xid, x.snap.curcid, o.row, o.node, 2)
        e == log(a.d, [type |-> "insert", xid |-> x.xid, tid |-> tid, tup |-> tup])
    IN  /\ Doing(s, "run", "insert")
        /\ Visited(a.d, a.page) \cap Latched(s) = {}
        /\ db' = put(e, a.page, add_tuple_at(e.mem[a.page], slot, tup))
        /\ Set(s, Then([x EXCEPT !.adds = @ \cup {o.row}],
                       <<Bins(o.row.key, tid)>> \o IF o.node = NULL THEN <<>> ELSE <<Mput(o.node, tid)>>))
        /\ UNCHANGED <<clog, next_xid, committed, phase, victims, used>>

\* Mutant: a committed deleter does not stop the second writer
row_lock_gate_last_wins(t, xid) ==
    IF t.xmax = INVALID \/ t.xmax = xid THEN "proceed"
    ELSE IF clog[t.xmax] = "running" /\ t.xmax \in Active THEN "wait" ELSE "proceed"

\* What the stamp on a version means to a writer
row_lock_gate(t, xid) ==
    IF t.xmax = INVALID \/ t.xmax = xid THEN "proceed"
    ELSE IF clog[t.xmax] = "running" /\ t.xmax \in Active THEN "wait"
    ELSE IF clog[t.xmax] = "committed" /\ ~t.lock THEN "conflict"
    ELSE "proceed"

Gate(s) == row_lock_gate(TupleAt(db, Head(session[s].todo).tid), session[s].xid)

Failed(x) == [x EXCEPT !.pc = "failed", !.todo = <<>>]

\* A gate that sends the writer to sleep, or away: its pin may have logged an image
heap_blocked(s) ==
    /\ \E op \in {"update", "delete", "lock"} : Doing(s, "run", op)
    /\ LET q == Head(session[s].todo).tid[1] IN
       /\ q \notin Latched(s)
       /\ db' = touch(db, q)
       /\ \/ /\ Gate(s) = "wait"
             /\ db' # db
             /\ UNCHANGED session
          \/ /\ Gate(s) = "conflict"
             /\ Set(s, Failed(session[s]))
    /\ UNCHANGED <<clog, next_xid, committed, phase, victims, used>>

\* update_inner after the heap: the root's entry goes, the new version's comes
after_update(d, o, tid) ==
    <<Bdel(o.old.row.key, hot_chain_root(d.mem[o.tid[1]], o.tid[1], o.tid)), Bins(o.row.key, tid)>>
    \o IF o.node = NULL THEN <<>> ELSE <<Mput(o.node, tid)>>

\* What update_inner leaves for after the commit: the old node's tombstone if
\* the vector changed, and the old map entry
pending_update(d, o) ==
    LET root == hot_chain_root(d.mem[o.tid[1]], o.tid[1], o.tid) IN
    IF o.old.node = NULL THEN <<>>
    ELSE (IF o.row.vec # o.old.row.vec THEN <<Tomb(o.old.node)>> ELSE <<>>) \o <<Mdel(o.old.node, root)>>

Replaced(x, o) == [x EXCEPT !.adds = (@ \ {o.old.row}) \cup {o.row}, !.dels = @ \cup {o.old.row}]

\* The new version logged and placed in slot of page q, the old one stamped
NonHot(s, d, q) ==
    LET x == session[s]
        o == Head(x.todo)
        new == <<q, first_fit_slot(d.mem[q])>>
        tup == new_tuple("a", x.xid, x.snap.curcid, o.row, o.node, 2)
        e == log(d, [type |-> "update", xid |-> x.xid, old |-> o.tid, tid |-> new, tup |-> tup])
        f == put(e, o.tid[1], stamp_deleted(e.mem[o.tid[1]], o.tid[2], x.xid, x.snap.curcid))
        g == put(f, q, add_tuple_at(f.mem[q], new[2], tup))
    IN  /\ db' = g
        /\ Set(s, Then([Replaced(x, o) EXCEPT !.pend = @ \o pending_update(g, o)],
                       after_update(g, o, new)))

\* HeapAM::update on the old version's page
heap_update(s) ==
    LET x == session[s]
        o == Head(x.todo)
        q == o.tid[1]
        d == touch(db, q)
        slot == first_fit_slot(d.mem[q])
        tup == stamp_hot_only(new_tuple("a", x.xid, x.snap.curcid, o.row, o.node, 2))
        e == log(d, [type |-> "hot", xid |-> x.xid, old |-> o.tid, tid |-> <<q, slot>>, tup |-> tup])
    IN  /\ Doing(s, "run", "update")
        /\ q \notin Latched(s)
        /\ Gate(s) = "proceed"
        /\ free_space(d.mem[q]) >= Need
        /\ IF o.hot
           THEN /\ db' = put(e, q, add_tuple_at(stamp_hot_update(d.mem[q], o.tid[2], x.xid, x.snap.curcid,
                                                                 <<q, slot>>), slot, tup))
                /\ Set(s, Then(Replaced(x, o), <<>>))
           ELSE NonHot(s, d, q)
        /\ UNCHANGED <<clog, next_xid, committed, phase, victims, used>>

\* No room: the latch is dropped and a page with room acquired, held on to if
\* it comes before the old one
heap_update_elsewhere(s) ==
    LET x == session[s]
        o == Head(x.todo)
        q == o.tid[1]
        d == touch(db, q)
        a == acquire_page_with_room(d, q)
    IN  /\ Doing(s, "run", "update")
        /\ q \notin Latched(s)
        /\ Gate(s) = "proceed"
        /\ free_space(d.mem[q]) < Need
        /\ Visited(a.d, a.page) \cap Latched(s) = {}
        /\ db' = a.d
        /\ Set(s, [x EXCEPT !.todo = <<[tid |-> o.tid, row |-> o.row, node |-> o.node, old |-> o.old,
                                        hot |-> o.hot, op |-> "cross", page |-> a.page,
                                        held |-> a.page < q]>>])
        /\ UNCHANGED <<clog, next_xid, committed, phase, victims, used>>

\* Both pages latched in page order: the room and the gate are looked at again
cross_page_update(s) ==
    LET x == session[s]
        o == Head(x.todo)
        d == IF o.held THEN touch(db, o.tid[1]) ELSE touch(touch(db, o.tid[1]), o.page)
        again == [tid |-> o.tid, row |-> o.row, node |-> o.node, old |-> o.old, hot |-> o.hot,
                  op |-> "update"]
    IN  /\ Doing(s, "run", "cross")
        /\ {o.tid[1], o.page} \cap Latched(s) = {}
        /\ IF Gate(s) = "wait" \/ free_space(d.mem[o.page]) < Need
           THEN /\ db' = d
                /\ Set(s, [x EXCEPT !.todo = <<again>>])
           ELSE IF Gate(s) = "conflict"
           THEN /\ db' = d
                /\ Set(s, Failed(x))
           ELSE NonHot(s, d, o.page)
        /\ UNCHANGED <<clog, next_xid, committed, phase, victims, used>>

\* HeapAM::delete, and what delete_inner goes on with
heap_delete(s) ==
    LET x == session[s]
        o == Head(x.todo)
        q == o.tid[1]
        e == log(touch(db, q), [type |-> "delete", xid |-> x.xid, tid |-> o.tid])
    IN  /\ Doing(s, "run", "delete")
        /\ q \notin Latched(s)
        /\ Gate(s) = "proceed"
        /\ db' = put(e, q, stamp_deleted(e.mem[q], o.tid[2], x.xid, x.snap.curcid))
        /\ Set(s, Then([x EXCEPT !.adds = @ \ {o.old.row}, !.dels = @ \cup {o.old.row},
                                 !.pend = @ \o IF o.old.node = NULL THEN <<>>
                                               ELSE <<Tomb(o.old.node), Mdel(o.old.node, o.root)>>],
                       <<Bdel(o.old.row.key, o.root)>>))
        /\ UNCHANGED <<clog, next_xid, committed, phase, victims, used>>

\* lock_tuple: a stamp that is not logged
lock_tuple(s) ==
    LET x == session[s]
        o == Head(x.todo)
        d == touch(db, o.tid[1])
    IN  /\ Doing(s, "run", "lock")
        /\ o.tid[1] \notin Latched(s)
        /\ Gate(s) = "proceed"
        /\ db' = [d EXCEPT !.mem[o.tid[1]] = stamp_lock_only(@, o.tid[2], x.xid, x.snap.curcid)]
        /\ Set(s, Then(x, <<>>))
        /\ UNCHANGED <<clog, next_xid, committed, phase, victims, used>>

-----------------------------------------------------------------------------
(* Index steps.                                                             *)

Entry(o) == <<o.key, o.tid>>

Found(d, o) ==
    CASE o.op \in {"bins", "bdel"} -> Entry(o) \in d.index
      [] o.op \in {"mput", "mdel"} -> Entry(o) \in d.map

Logged(d, o) == log(d, [type |-> o.op, key |-> o.key, tid |-> o.tid])

\* BTreeIndex::insert and ::delete, on the index or the sidecar map
btree_apply(d, o) ==
    CASE o.op = "bins" -> [Logged(d, o) EXCEPT !.index = @ \cup {Entry(o)}]
      [] o.op = "bdel" -> [Logged(d, o) EXCEPT !.index = @ \ {Entry(o)}]
      [] o.op = "mput" -> [Logged(d, o) EXCEPT !.map = @ \cup {Entry(o)}]
      [] o.op = "mdel" -> [Logged(d, o) EXCEPT !.map = @ \ {Entry(o)}]

\* record_index_undo: the operation that takes this one back
record_index_undo(o) ==
    CASE o.op = "bins" -> Bdel(o.key, o.tid)
      [] o.op = "bdel" -> Bins(o.key, o.tid)
      [] o.op = "mput" -> Mdel(o.key, o.tid)

BtreeOp(s) == \E op \in {"bins", "bdel", "mput", "mdel"} : session[s].todo # <<>> /\ Op(s) = op

\* DuplicateKey or EntryNotFound: the two sides of a statement disagree
Refused(d, o) == (o.op \in {"bins", "mput"}) = Found(d, o)

\* A statement's index step, its undo recorded
index_step(s) ==
    LET x == session[s]
        o == Head(x.todo)
    IN  /\ x.pc = "run"
        /\ BtreeOp(s)
        /\ IF Refused(db, o)
           THEN /\ Set(s, [Failed(x) EXCEPT !.pc = "broken"])
                /\ UNCHANGED db
           ELSE /\ db' = btree_apply(db, o)
                /\ Set(s, Then([x EXCEPT !.undo = Append(@, record_index_undo(o))], <<>>))
        /\ UNCHANGED <<clog, next_xid, committed, phase, victims, used>>

\* An index step of an abort, of the work after a commit or of vacuum: an entry
\* that is not there is passed over
cleanup_step(s) ==
    LET x == session[s]
        o == Head(x.todo)
    IN  /\ x.pc \in {"undo", "post", "vacuum"}
        /\ BtreeOp(s)
        /\ db' = IF Refused(db, o) THEN db ELSE btree_apply(db, o)
        /\ Set(s, Then(x, <<>>))
        /\ UNCHANGED <<clog, next_xid, committed, phase, victims, used>>

\* HnswIndex::delete: a node that is tombstoned already is left alone
hnsw_delete(d, n) ==
    IF d.graph[n] = "tombstoned" THEN d
    ELSE [log(d, [type |-> "tomb", key |-> n]) EXCEPT !.graph[n] = "tombstoned"]

tombstone_step(s) ==
    LET x == session[s] IN
    /\ x.pc \in {"undo", "post"}
    /\ x.todo # <<>> /\ Op(s) = "tomb"
    /\ db' = hnsw_delete(db, Head(x.todo).key)
    /\ Set(s, Then(x, <<>>))
    /\ UNCHANGED <<clog, next_xid, committed, phase, victims, used>>

-----------------------------------------------------------------------------
(* Transaction ends.                                                        *)

\* Mutant: the map entry goes though older snapshots still need it
run_pending_hnsw_all(pend, xid, oldest_xmin) == pend

\* Map entries are removed only when no snapshot is older than the commit
run_pending_hnsw(pend, xid, oldest_xmin) ==
    SelectSeq(pend, LAMBDA o : o.op = "mdel" => oldest_xmin > xid)

\* commit: durable, then visible, then the deferred graph work
commit(s) ==
    LET x == session[s]
        d == log(db, [type |-> "commit", xid |-> x.xid])
        old == oldest_snapshot_xmin({session[t].snap : t \in Sessions \ {s}} \ {NoSnap}, Active \ {x.xid})
    IN  /\ x.pc = "ready"
        /\ Asks(s, {"end", "commit"})
        /\ db' = [d EXCEPT !.synced = Len(d.wal)]
        /\ clog' = [clog EXCEPT ![x.xid] = "committed"]
        /\ committed' = (committed \ x.dels) \cup x.adds
        /\ Set(s, [x EXCEPT !.pc = "post", !.xid = 0, !.snap = NoSnap, !.prog = Tail(@),
                            !.todo = run_pending_hnsw(x.pend, x.xid, old)])
        /\ UNCHANGED <<next_xid, phase, victims, used>>

apply_index_undo(undo) == Reverse(undo)

\* abort and Drop: the index undo first
abort(s) ==
    LET x == session[s] IN
    /\ \/ x.pc \in {"failed", "broken"}
       \/ x.pc = "ready" /\ Asks(s, {"end", "abort"})
    /\ Set(s, [x EXCEPT !.pc = "undo", !.todo = apply_index_undo(x.undo)])
    /\ UNCHANGED <<db, clog, next_xid, committed, phase, victims, used>>

\* What is left of a program after the transaction it is in
RECURSIVE Rest(_)
Rest(prog) ==
    IF prog = <<>> THEN <<>>
    ELSE IF Head(prog).op \in {"end", "commit", "abort"} THEN Tail(prog) ELSE Rest(Tail(prog))

abort_done(s) ==
    LET x == session[s] IN
    /\ x.pc = "undo" /\ x.todo = <<>>
    /\ db' = log(db, [type |-> "abort", xid |-> x.xid])
    /\ clog' = [clog EXCEPT ![x.xid] = "aborted"]
    /\ Set(s, Idle(Rest(x.prog)))
    /\ UNCHANGED <<next_xid, committed, phase, victims, used>>

\* release_all, last
commit_done(s) ==
    /\ session[s].pc = "post" /\ session[s].todo = <<>>
    /\ Set(s, Idle(session[s].prog))
    /\ UNCHANGED <<db, clog, next_xid, committed, phase, victims, used>>

-----------------------------------------------------------------------------
(* Vacuum, under AccessExclusive.                                           *)

\* Mutant: the graph and its map are left alone
vacuum_index_steps_btree(d, gone, horizon) ==
    LET seq == SetToSeq(gone) IN
    [i \in DOMAIN seq |-> Bdel(TupleAt(d, seq[i]).row.key, seq[i])]

\* Phase 4: the index entry, then the node and the map entry, of every dead root
vacuum_index_steps(d, gone, horizon) ==
    LET seq == SetToSeq(gone)
        noded == SelectSeq(seq, LAMBDA tid : TupleAt(d, tid).node # NULL)
        of(tid) == LET n == TupleAt(d, tid).node IN
                   <<[op |-> "vtomb", key |-> n, tid |-> tid, horizon |-> horizon], Mdel(n, tid)>>
    IN  [i \in DOMAIN seq |-> Bdel(TupleAt(d, seq[i]).row.key, seq[i])]
        \o FlattenSeq([i \in DOMAIN noded |-> of(noded[i])])

\* Phases 1 to 3: one horizon, the dead tuples, their chains' roots and slots
vacuum_start(s) ==
    LET x == session[s]
        horizon == Min({n.xmin : n \in Snapshots} \cup Active \cup {next_xid})
        class(q) == classify_dead_tuples(db.mem[q], q, scan_dead_slots(db.mem[q], horizon, clog))
        gone == UNION {{<<q, r>> : r \in class(q).roots} : q \in Range(db.cache)}
        pages == SetToSortSeq({q \in Range(db.cache) : class(q).kills # {}}, <)
    IN  /\ x.pc = "idle"
        /\ Asks(s, {"vacuum"})
        /\ \A t \in Sessions \ {s} : session[t].lock = "none"
        /\ Set(s, [x EXCEPT !.pc = "vacuum", !.lock = "exclusive", !.prog = Tail(@),
                     !.todo = vacuum_index_steps(db, gone, horizon)
                              \o [i \in DOMAIN pages |->
                                    [op |-> "compact", page |-> pages[i], dead |-> class(pages[i]).kills]]])
        /\ UNCHANGED <<db, clog, next_xid, committed, phase, victims, used>>

\* A slot that is empty is as dead as it gets
tuple_dead_at_horizon(d, tid, horizon) ==
    ~Normal(d.mem[tid[1]], tid[2]) \/ dead_at(TupleAt(d, tid), horizon, clog)

\* The node is tombstoned unless another map entry of it names a live version
vacuum_tombstone(s) ==
    LET x == session[s]
        o == Head(x.todo)
        live_version == \E e \in db.map : e[1] = o.key /\ e[2] # o.tid
                                          /\ ~tuple_dead_at_horizon(db, e[2], o.horizon)
    IN  /\ Doing(s, "vacuum", "vtomb")
        /\ db' = IF live_version THEN db ELSE hnsw_delete(db, o.key)
        /\ Set(s, Then(x, <<>>))
        /\ UNCHANGED <<clog, next_xid, committed, phase, victims, used>>

\* Mutant: the page is logged before its predecessor's image
compact_prev_last(d, q, dead, prev, to) ==
    LET e == log(touch(d, q), [type |-> "cleanup", page |-> q, dead |-> dead, prev |-> prev, to |-> to])
        f == put(e, q, compact(e.mem[q], dead))
    IN  IF prev = INVALID THEN f
        ELSE LET g == touch(f, prev) IN put(g, prev, set_next_page(g.mem[prev], to))

\* compact_page: the predecessor pinned first, so that its image precedes the record
compact_page(d, q, dead, prev, to) ==
    LET pinned == touch(IF prev = INVALID THEN d ELSE touch(d, prev), q)
        e == log(pinned, [type |-> "cleanup", page |-> q, dead |-> dead, prev |-> prev, to |-> to])
        f == put(e, q, compact(e.mem[q], dead))
    IN  IF prev = INVALID THEN f ELSE put(f, prev, set_next_page(f.mem[prev], to))

\* reclaim, one page: a page that empties leaves the chain and the cache, then
\* is freed; the head stays
reclaim(s) ==
    LET x == session[s]
        o == Head(x.todo)
        p == db.mem[o.page]
        pos == CHOOSE i \in DOMAIN db.cache : db.cache[i] = o.page
        empty == o.page # Head1 /\ {i \in Slots(p) : p.lps[i].flags # "unused"} = o.dead
    IN  /\ Doing(s, "vacuum", "compact")
        /\ IF empty
           THEN /\ db' = [compact_page(db, o.page, o.dead, db.cache[pos - 1], p.next)
                          EXCEPT !.cache = SelectSeq(@, LAMBDA q : q # o.page)]
                /\ Set(s, Then(x, <<[op |-> "free", page |-> o.page]>>))
           ELSE /\ db' = compact_page(db, o.page, o.dead, INVALID, INVALID)
                /\ Set(s, Then(x, <<>>))
        /\ UNCHANGED <<clog, next_xid, committed, phase, victims, used>>

free_page(s) ==
    LET x == session[s]
        q == Head(x.todo).page
    IN  /\ Doing(s, "vacuum", "free")
        /\ db' = [log(db, [type |-> "free", page |-> q]) EXCEPT !.free = @ \cup {q}]
        /\ Set(s, Then(x, <<>>))
        /\ UNCHANGED <<clog, next_xid, committed, phase, victims, used>>

vacuum_done(s) ==
    /\ session[s].pc = "vacuum" /\ session[s].todo = <<>>
    /\ Set(s, Idle(session[s].prog))
    /\ UNCHANGED <<db, clog, next_xid, committed, phase, victims, used>>

-----------------------------------------------------------------------------
(* Readers take no lock: a scan page by page, a lookup entry by entry.      *)

\* scan_inner: the page list is read once
scan_start(s) ==
    /\ session[s].pc = "idle"
    /\ Asks(s, {"scan"})
    /\ Set(s, [session[s] EXCEPT !.pc = "read", !.snap = take_snapshot(0), !.base = committed,
                 !.todo = [i \in DOMAIN db.cache |-> [op |-> "page", page |-> db.cache[i]]]])
    /\ UNCHANGED <<db, clog, next_xid, committed, phase, victims, used>>

\* A page that has gone to another table may fail to decode
scan_step(s) ==
    LET x == session[s]
        q == Head(x.todo).page
        p == db.mem[q]
    IN  /\ Doing(s, "read", "page")
        /\ q \notin Latched(s)
        /\ \/ Set(s, [x EXCEPT !.todo = Tail(@),
                               !.got = @ \cup {Tuple(p, tid[2]).row : tid \in scan_page(p, q, x.snap, clog)}])
           \/ /\ \E i \in Slots(p) : Normal(p, i) /\ Tuple(p, i).tbl # "a"
              /\ Set(s, Idle(Tail(x.prog)))
        /\ UNCHANGED <<db, clog, next_xid, committed, phase, victims, used>>

\* index_lookup: the snapshot first
lookup_start(s) ==
    /\ session[s].pc = "idle"
    /\ Asks(s, {"lookup"})
    /\ Set(s, [session[s] EXCEPT !.pc = "read", !.snap = take_snapshot(0), !.base = committed,
                 !.todo = <<[op |-> "entries"]>>])
    /\ UNCHANGED <<db, clog, next_xid, committed, phase, victims, used>>

\* lookup_all
lookup_entries(s) ==
    LET x == session[s] IN
    /\ Doing(s, "read", "entries")
    /\ Set(s, [x EXCEPT !.todo = SetToSeq({[op |-> "check", tid |-> e[2]] :
                                             e \in {f \in db.index : f[1] = Head(x.prog).key}})])
    /\ UNCHANGED <<db, clog, next_xid, committed, phase, victims, used>>

\* heap_tuple_visible: the version tid's chain shows to a snapshot
heap_tuple_visible(d, snap, tid) ==
    LET p == d.mem[tid[1]] IN
    IF ~Normal(p, tid[2]) THEN NoTid
    ELSE IF is_visible(Tuple(p, tid[2]), snap, clog) THEN tid
    ELSE IF links(p, tid[1], tid[2]) THEN follow_hot_chain(p, tid[1], Tuple(p, tid[2]).ctid, snap, clog)
    ELSE NoTid

\* The first entry that resolves to a visible version is the answer
lookup_check(s) ==
    LET x == session[s]
        tid == Head(x.todo).tid
        seen == heap_tuple_visible(db, x.snap, tid)
    IN  /\ Doing(s, "read", "check")
        /\ tid[1] \notin Latched(s)
        /\ Set(s, IF seen = NoTid THEN [x EXCEPT !.todo = Tail(@)]
                  ELSE [x EXCEPT !.todo = <<>>, !.got = {TupleAt(db, seen).row}])
        /\ UNCHANGED <<db, clog, next_xid, committed, phase, victims, used>>

read_done(s) ==
    /\ session[s].pc = "read" /\ session[s].todo = <<>>
    /\ Set(s, Idle(Tail(session[s].prog)))
    /\ UNCHANGED <<db, clog, next_xid, committed, phase, victims, used>>

-----------------------------------------------------------------------------
(* The pool, the checkpoint, other tables, crashes and reopening.           *)

May(c) == used[c] > 0
Use(c) == used' = [used EXCEPT ![c] = @ - 1]

\* Write-back syncs the log first
evict(q) ==
    /\ May("evicts")
    /\ q \notin UNION {Latched(s) : s \in Sessions}
    /\ db.disk[q] # db.mem[q]
    /\ db' = [db EXCEPT !.disk[q] = db.mem[q], !.dlsn[q] = db.lsn[q], !.owed = @ \cup {q},
                        !.synced = Len(db.wal)]
    /\ Use("evicts")
    /\ UNCHANGED <<clog, next_xid, session, committed, phase, victims>>

checkpoint ==
    /\ May("checkpoints")
    /\ phase = "up"
    /\ UNION {Latched(s) : s \in Sessions} = {}
    /\ db' = [db EXCEPT !.disk = db.mem, !.dlsn = db.lsn, !.owed = @ \cup {q \in Pages : q <= db.hwm},
                        !.redo = Len(db.wal) + 1, !.synced = Len(db.wal), !.att = Active, !.dclog = clog]
    /\ Use("checkpoints")
    /\ UNCHANGED <<clog, next_xid, session, committed, phase, victims>>

\* Another table takes a freed page and commits a row to it, with the key and
\* the NodeId of one here
tenant(q, k, n) ==
    LET d == new_page(db, q)
        tup == new_tuple("b", next_xid, 1, [key |-> k, vec |-> 1, v |-> <<next_xid, 1>>], n, 2)
        e == log(d, [type |-> "insert", xid |-> next_xid, tid |-> <<q, 1>>, tup |-> tup])
        f == log(put(e, q, add_tuple_at(e.mem[q], 1, tup)), [type |-> "commit", xid |-> next_xid])
    IN  /\ May("tenants")
        /\ phase = "up"
        /\ next_xid \in Xids
        /\ q \in db.free
        /\ db' = [f EXCEPT !.synced = Len(f.wal)]
        /\ clog' = [clog EXCEPT ![next_xid] = "committed"]
        /\ next_xid' = next_xid + 1
        /\ Use("tenants")
        /\ UNCHANGED <<session, committed, phase, victims>>

HasXid(r) == r.type \in {"insert", "update", "delete", "hot", "commit", "abort"}

Ended(d, x, how) == \E i \in d.redo .. Len(d.wal) : d.wal[i].type = how /\ d.wal[i].xid = x

\* The analysis: running at the checkpoint or seen since, and no end
recovered_active_xids(d) ==
    {x \in d.att \cup {d.wal[i].xid : i \in {j \in d.redo .. Len(d.wal) : HasXid(d.wal[j])}} :
       ~Ended(d, x, "commit") /\ ~Ended(d, x, "abort")}

\* The pages as the disk has them, what the log replays, and the chain read anew
recover(d) ==
    LET bare == [d EXCEPT !.mem = d.disk, !.lsn = d.dlsn, !.owed = Pages, !.ok = TRUE,
                          !.free = d.start.free, !.hwm = d.start.hwm, !.index = d.start.index,
                          !.map = d.start.map, !.graph = d.start.graph, !.synced = Len(d.wal)]
        done == FoldLeft(redo, bare, [i \in DOMAIN d.wal |-> i])
    IN  [done EXCEPT !.cache = seed_from_chain(done, Head1, <<>>)]

\* first_record_lsn_in_segment: from the start of the redo point's segment
compensation_start(d) ==
    LET seg(i) == (i - 1) \div SegRecords IN
    IF seg(d.redo) = 0 THEN 1 ELSE seg(d.redo) * SegRecords + 1

\* The versions whose entries the losers took out of the index
victim_tids(d, losers) ==
    LET scanned == {d.wal[i] : i \in compensation_start(d) .. Len(d.wal)} IN
    {r.tid : r \in {q \in scanned : q.type = "delete" /\ q.xid \in losers}}
    \cup {r.old : r \in {q \in scanned : q.type = "update" /\ q.xid \in losers}}

\* A crash that keeps the log up to record n, and the reopening up to redo and
\* undo: HeapUndoHandler marks the losers aborted
crash(n) ==
    LET d == recover([db EXCEPT !.wal = SubSeq(@, 1, n)])
        losers == recovered_active_xids(d)
    IN  /\ May("crashes")
        /\ phase \in {"up", "compensating"}
        /\ Use("crashes")
        /\ db' = d
        /\ clog' = [x \in Xids |-> IF Ended(d, x, "commit") THEN "committed"
                                   ELSE IF Ended(d, x, "abort") \/ x \in losers THEN "aborted"
                                   ELSE d.dclog[x]]
        /\ session' = [s \in Sessions |->
                         Idle(IF session[s].xid # 0 THEN Rest(session[s].prog) ELSE session[s].prog)]
        /\ phase' = IF d.ok THEN "compensating" ELSE "corrupt"
        /\ victims' = victim_tids(d, losers)
        /\ UNCHANGED <<next_xid, committed>>

\* compensate_loser_index_entries, one version; read_row_by_tid fails on a slot
\* that holds none
compensate ==
    LET tid == CHOOSE t \in victims : \A u \in victims : t[1] < u[1] \/ (t[1] = u[1] /\ t[2] <= u[2])
        p == db.mem[tid[1]]
        o == Bins(Tuple(p, tid[2]).row.key, hot_chain_root(p, tid[1], tid))
    IN  /\ phase = "compensating"
        /\ victims # {}
        /\ IF tid[1] \notin Range(db.cache)
           THEN UNCHANGED <<db, phase>>
           ELSE IF ~Normal(p, tid[2])
           THEN /\ phase' = "wedged"
                /\ UNCHANGED db
           ELSE /\ db' = IF Found(db, o) THEN db ELSE btree_apply(db, o)
                /\ UNCHANGED phase
        /\ victims' = victims \ {tid}
        /\ UNCHANGED <<clog, next_xid, session, committed, used>>

open_done ==
    /\ phase = "compensating"
    /\ victims = {}
    /\ phase' = "up"
    /\ UNCHANGED <<db, clog, next_xid, session, committed, victims, used>>

Next ==
    \/ \E s \in Sessions :
         \/ begin(s) \/ insert_start(s) \/ update_start(s) \/ delete_start(s) \/ lock_start(s) \/ no_row(s)
         \/ heap_insert(s) \/ heap_blocked(s) \/ heap_update(s) \/ heap_update_elsewhere(s)
         \/ cross_page_update(s) \/ heap_delete(s) \/ lock_tuple(s)
         \/ index_step(s) \/ cleanup_step(s) \/ tombstone_step(s)
         \/ commit(s) \/ abort(s) \/ abort_done(s) \/ commit_done(s)
         \/ vacuum_start(s) \/ vacuum_tombstone(s) \/ reclaim(s) \/ free_page(s) \/ vacuum_done(s)
         \/ scan_start(s) \/ scan_step(s) \/ lookup_start(s) \/ lookup_entries(s) \/ lookup_check(s)
         \/ read_done(s)
    \/ \E q \in Pages : evict(q) \/ \E e \in db.index : tenant(q, e[1], 1)
    \/ checkpoint
    \/ \E n \in db.synced .. Len(db.wal) : crash(n)
    \/ compensate
    \/ open_done

Spec == Init /\ [][Next]_vars

-----------------------------------------------------------------------------
(* Properties.                                                              *)

Fresh0 == take_snapshot(0)

RowsAt(tids) == {TupleAt(db, tid).row : tid \in tids}

\* SnapshotReads: a scan returns exactly what its snapshot has a right to.
\* A new snapshot sees the committed rows and no other; a transaction between
\* two statements sees the rows of its snapshot with its own changes; and a
\* scan that went page by page, with writers, aborts, HOT updates and a vacuum
\* that moves and frees pages in between, returns the rows committed when it
\* began - all of it across crashes.  (HeapAM::scan, follow_hot_chain,
\* scan_dead_tuples' horizon, redo.)
SnapshotReads ==
    phase = "up" =>
      /\ RowsAt(scan(db, Fresh0)) = committed
      /\ Cardinality(scan(db, Fresh0)) = Cardinality(committed)
      /\ \A s \in Sessions :
           LET x == session[s] IN
           /\ x.pc = "ready" => RowsAt(scan(db, x.snap)) = (x.base \ x.dels) \cup x.adds
           /\ x.pc = "read" /\ x.todo = <<>> /\ Head(x.prog).op = "scan" => x.got = x.base

\* NoEntryOutlivesItsRow: an entry of the index or of the sidecar map always
\* names a slot that holds a version of this table with that key or NodeId,
\* through vacuum, slot reuse, pages that go to other tables, and crashes; and
\* an index lookup whose entries were read before a vacuum answers with a row
\* of its snapshot and its key.  (engine.rs heap_tuple_visible: a stale entry
\* "requires a phase-ordering violation".)
NoEntryOutlivesItsRow ==
    /\ phase = "up" =>
         /\ \A e \in db.index \cup db.map : Normal(db.mem[e[2][1]], e[2][2]) /\ TupleAt(db, e[2]).tbl = "a"
         /\ \A e \in db.index : TupleAt(db, e[2]).row.key = e[1]
         /\ \A e \in db.map : TupleAt(db, e[2]).node = e[1]
    /\ \A s \in Sessions :
         LET x == session[s] IN
         x.pc = "read" /\ x.todo = <<>> /\ Head(x.prog).op = "lookup"
         => x.got \subseteq {r \in x.base : r.key = Head(x.prog).key}

\* RowsKeepEntries: a row that is committed and that nobody is changing has its
\* index entry, under its chain's root, whatever transactions deleted it and
\* aborted or were cut off by a crash.  (index undo, loser compensation.)
RowsKeepEntries ==
    phase = "up" =>
      \A tid \in scan(db, Fresh0) :
        LET t == TupleAt(db, tid) IN
        t.xmax = INVALID \/ t.lock \/ clog[t.xmax] = "aborted"
        => <<t.row.key, hot_chain_root(db.mem[tid[1]], tid[1], tid)>> \in db.index

\* EntriesMatchRows: entries name rows of their key, and rows have their entries.
EntriesMatchRows == NoEntryOutlivesItsRow /\ RowsKeepEntries

\* The rows an exhaustive hnsw_search_visible returns: through the map, the
\* visibility check and the NodeId in the row; the tombstone is no filter
hnsw_search_visible(d, snap) ==
    {tid \in {heap_tuple_visible(d, snap, e[2]) : e \in d.map} \ {NoTid} :
       \E e \in d.map : heap_tuple_visible(d, snap, e[2]) = tid /\ TupleAt(d, tid).node = e[1]}

\* AnnMatches: a vector search that reaches every node returns every row with a
\* vector that its snapshot sees, and no other: the map keeps the entries old
\* snapshots need and never shows one row for another.
AnnMatches ==
    phase = "up" =>
      \A snap \in {Fresh0} \cup {session[s].snap : s \in {t \in Sessions : session[t].pc = "ready"}} :
        hnsw_search_visible(db, snap) = {tid \in scan(db, snap) : TupleAt(db, tid).row.vec # NULL}

\* ChainSound: the cached page list is the chain the pages spell, the pages of
\* the chain are this table's alone - none is free, none holds another table's
\* rows - and their tuples overlap nowhere.
ChainSound ==
    phase \in {"up", "compensating"} =>
      /\ db.cache = seed_from_chain(db, Head1, <<>>)
      /\ Range(db.cache) \cap db.free = {}
      /\ \A q \in Range(db.cache) :
           LET p == db.mem[q] IN
           /\ p.upper # 0 => debug_assert_invariants(p)
           /\ \A i \in Slots(p) : Normal(p, i) => Tuple(p, i).tbl = "a"

\* NoSurprise: no record is refused by the page it is replayed on, no statement
\* finds its index entry missing or there already, and no undo step fails.
NoSurprise ==
    /\ phase # "corrupt"
    /\ \A s \in Sessions :
         /\ session[s].pc # "broken"
         /\ session[s].pc = "undo" /\ BtreeOp(s) => ~Refused(db, Head(session[s].todo))

\* PagesKept: the chain of pages is sound, and no step of any path, replay or undo
\* meets a page or an index in a state it refuses.
PagesKept == ChainSound /\ NoSurprise

\* ReopenNeverFails: a database that was recovered once can be recovered again
\* (engine.rs compensate_loser_index_entries: "a crash mid-compensation re-runs
\* cleanly, and a second recovery after a clean one is a no-op").
ReopenNeverFails == phase # "wedged"

\* LiveNodesStayLive: the node of a committed row is not tombstoned (engine.rs
\* vacuum: "tombstone ONLY when no map entry names a version live at this
\* pass's horizon").
LiveNodesStayLive ==
    phase = "up" =>
      \A tid \in scan(db, Fresh0) :
        TupleAt(db, tid).node # NULL => db.graph[TupleAt(db, tid).node] = "live"
=============================================================================
