------------------------------ MODULE Catalog ------------------------------
(***************************************************************************)
(* The system catalog (pg-catalog/src/bootstrap.rs, catalog.rs, oid.rs)    *)
(* and the engine's DDL over it (pg-engine/src/engine.rs): bootstrap,      *)
(* create_table, drop_table, create_index, the two create_hnsw_index, the  *)
(* OIDs they draw, what an insert does beside them, and what opening       *)
(* rebuilds from the catalog's rows after a crash.                         *)
(*                                                                         *)
(* Everything DDL and inserts do is logged, one record per step, so the    *)
(* stored state st is the fold of the log over the last checkpoint's, and  *)
(* a crash keeps st's fold over a prefix of the log (CrashRecovery, Table  *)
(* and BTreeRecovery show that of pages).  The bootstrap content is not    *)
(* logged: the system pages have an image in memory and one on disk.       *)
(*                                                                         *)
(* A session runs a program of statements, each a list of steps (todo), so *)
(* other sessions and crashes come between any two.  A lock is granted     *)
(* when no holder conflicts: its queue is LockManager's.                   *)
(***************************************************************************)
EXTENDS Integers, Sequences, FiniteSets, FiniteSetsExt, SequencesExt, Functions

CONSTANTS
    SysPages,    \* SYSTEM_TABLES' first pages, 1 .. LAST_SYSTEM_PAGE
    EmptySys,    \* those of them bootstrap writes no row to (pg_index, pg_rust_relpages)
    Pages,       \* bound: the other page ids
    Xids,        \* bound: the XIDs
    FirstUser,   \* Oid::FIRST_USER
    Room,        \* user rows a system table's first page has room for
    PageRows,    \* rows a heap page has room for
    Sessions,
    Scenarios    \* [fresh, prog, used], see Init

VARIABLES
    st,          \* what the log says: system tables, pages, allocator, CLOG
    base,        \* st at the last checkpoint
    wal,         \* the records since
    synced,      \* how many of them are on disk
    sys,         \* system page -> [mem, disk]: "zero" | "torn" | "full"
    owed,        \* system pages whose next pin_mut logs a full page image
    superblock,  \* [next_oid, checkpointed]: what the last checkpoint stored
    oid,         \* OidAllocator: the next OID
    registry,    \* name -> [oid, first_page]
    indexes,     \* the index registry
    ddl_lock,    \* the session that holds it, or "none"
    locks,       \* table locks granted: [oid, xid, mode]
    next_xid,
    session,
    phase,       \* "alloc" | "check" | "write" | "checkpoint" | "load" | "up" | "refused" | "corrupt"
    todo_sys,    \* system pages bootstrap has yet to write
    ghost,       \* what was acknowledged and what was begun, see Init
    used         \* budgets left: checkpoints, crashes, errors, flushes

disk    == <<st, base, wal, synced>>
boot    == <<sys, owed, todo_sys>>
engine  == <<registry, indexes, ddl_lock, locks, session>>
vars    == <<disk, boot, engine, superblock, oid, next_xid, phase, ghost, used>>

INVALID == 0
Blank == [owner |-> 0, next |-> INVALID, items |-> {}]

Idle(prog) ==
    [prog |-> prog, pc |-> "idle", xid |-> 0, oid |-> 0, entry |-> [oid |-> 0, first_page |-> INVALID],
     meta |-> INVALID, map |-> INVALID, todo |-> <<>>]

May(c) == used[c] > 0
Use(c) == used' = [used EXCEPT ![c] = @ - 1]

-----------------------------------------------------------------------------
(* Records and what they do.  A catalog row is appended to its table: slots *)
(* of system tables are never recycled.  xid 0 stands for no transaction.   *)

Tables == {"class", "attr", "index", "rel"}

apply(s, r) ==
    CASE r.type \in Tables -> [s EXCEPT ![r.type] = Append(@, r.row)]
      [] r.type = "page"   -> [s EXCEPT !.page[r.page] = r.image,
                                        !.free = @ \ {r.page},
                                        !.hwm = IF r.page > @ THEN r.page ELSE @]
      [] r.type = "link"   -> [s EXCEPT !.page[r.page].next = r.next]
      [] r.type = "free"   -> [s EXCEPT !.free = @ \cup {r.page}]
      [] r.type = "item"   -> [s EXCEPT !.page[r.page].items = @ \cup {r.item}]
      [] r.type = "erase"  -> [s EXCEPT !.page[r.page].items = @ \ {r.item}]
      [] r.type = "end"    -> [s EXCEPT !.clog[r.xid] = r.how]
      [] OTHER             -> s        \* "fpi", a system page's: see crash

Log(recs) ==
    /\ wal' = wal \o recs
    /\ st' = FoldLeft(apply, st, recs)

\* A commit is durable, and with it every record before it
LogDurable(recs) ==
    /\ Log(recs)
    /\ synced' = Len(wal) + Len(recs)

Available == IF st.free # {} THEN st.free ELSE {q \in Pages : q > st.hwm}

PageRec(q, owner, items) ==
    [type |-> "page", page |-> q, image |-> [owner |-> owner, next |-> INVALID, items |-> items]]

Row(table, row) == [type |-> table, row |-> row]

committed(s) == {x \in Xids : s.clog[x] = "committed"}

RECURSIVE chain(_, _, _)
chain(s, q, seen) ==
    IF q = INVALID \/ q \in Range(seen) THEN seen ELSE chain(s, s.page[q].next, Append(seen, q))

walk_chain(s, first_page) == chain(s, first_page, <<>>)

\* HeapAM::scan: the rows of the chain whose inserters the snapshot counts as committed
scan(s, first_page, snap) ==
    {i \in UNION {s.page[q].items : q \in Range(walk_chain(s, first_page))} : i.xid \in snap}

-----------------------------------------------------------------------------
(* What opening reads.  System tables are read raw, whoever wrote the row,  *)
(* except pg_index, which is scanned for committed rows.                    *)

Oids(rows) == {r.oid : r \in Range(rows)}

max_in_use(s) == Max(Oids(s.class) \cup Oids(s.rel) \cup {FirstUser - 1})

\* The larger of what the last checkpoint stored and what the tables use
next_oid(s) == Max({superblock.next_oid, max_in_use(s) + 1, FirstUser})

relpages_of(s, o) == SelectSeq(s.rel, LAMBDA r : r.oid = o)

\* Last version wins, 'd' removes
live_relations(s) ==
    FoldLeft(LAMBDA live, r : IF r.kind = "d" THEN {l \in live : l.oid # r.oid}
                              ELSE {l \in live : l.oid # r.oid} \cup {r},
             {}, s.class)

live_tables(s) == {r \in live_relations(s) : r.kind = "r" /\ relpages_of(s, r.oid) # <<>>}

\* Two live tables of one name: EngineError::Corrupted
duplicate_name(s) == \E a, b \in live_tables(s) : a # b /\ a.name = b.name

build_registry(s) ==
    [n \in {r.name : r \in live_tables(s)} |->
        LET o == (CHOOSE r \in live_tables(s) : r.name = n).oid
        IN  [oid |-> o, first_page |-> relpages_of(s, o)[1].first]]

\* Half-built indexes, without an attribute or pages, are skipped
build_index_registry(s) ==
    {[oid |-> r.oid, table |-> r.table,
      meta |-> relpages_of(s, r.oid)[1].first, map |-> relpages_of(s, r.oid)[1].last] :
        r \in {i \in Range(s.index) : /\ i.xid \in committed(s)
                                      /\ i.oid \in Oids(s.attr)
                                      /\ relpages_of(s, i.oid) # <<>>}}

\* Where an HNSW index is: its committed pg_rust_relpages row, looked up at every
\* use; equal pages mean there is no map
hnsw_relpages_field(s, o) ==
    LET rows == SelectSeq(s.rel, LAMBDA r : r.oid = o /\ r.xid \in committed(s)) IN
    IF rows = <<>> THEN [first |-> INVALID, map |-> INVALID]
    ELSE [first |-> rows[1].first, map |-> IF rows[1].last = rows[1].first THEN INVALID ELSE rows[1].last]

user_ddl_present(s) == s.class # <<>> \/ s.attr # <<>> \/ s.rel # <<>>

-----------------------------------------------------------------------------
(* Opening: Catalog::open and the rest of Engine::open.                     *)

system_pages_are_valid == \A q \in SysPages : sys[q].mem # "zero"

\* new_page until next_page_id is past the system pages
ensure_system_pages_allocated ==
    /\ phase = "alloc"
    /\ IF st.hwm < Max(SysPages)
       THEN /\ Log(<<PageRec(st.hwm + 1, 0, {})>>)
            /\ UNCHANGED phase
       ELSE /\ phase' = "check"
            /\ UNCHANGED <<st, wal>>
    /\ UNCHANGED <<base, synced, boot, engine, superblock, oid, next_xid, ghost, used>>

bootstrap_if_needed ==
    /\ phase = "check"
    /\ phase' = IF system_pages_are_valid THEN "load"
                ELSE IF user_ddl_present(st) THEN "refused" ELSE "write"
    /\ todo_sys' = IF phase' = "write" THEN SysPages ELSE {}
    /\ UNCHANGED <<disk, sys, owed, engine, superblock, oid, next_xid, ghost, used>>

\* pin_mut logs the old image if one is owed; then the page and all its rows
\* change under one guard.  A rewritten page has lost every user row.
write_system_table ==
    /\ phase = "write"
    /\ LET q == Min(todo_sys) IN
       /\ Log(IF q \in owed THEN <<[type |-> "fpi", page |-> q, image |-> sys[q].mem]>> ELSE <<>>)
       /\ sys' = [sys EXCEPT ![q].mem = "full"]
       /\ owed' = owed \ {q}
       /\ todo_sys' = todo_sys \ {q}
    /\ phase' = IF todo_sys' = {} THEN "checkpoint" ELSE "write"
    /\ UNCHANGED <<base, synced, engine, superblock, oid, next_xid, ghost, used>>

\* Eviction or a background checkpoint writes one system page
flush_frame(q) ==
    /\ phase \in {"alloc", "check", "write", "checkpoint"}
    /\ sys[q].disk # sys[q].mem
    /\ May("flushes") /\ Use("flushes")
    /\ sys' = [sys EXCEPT ![q].disk = sys[q].mem]
    /\ synced' = Len(wal)
    /\ UNCHANGED <<st, base, wal, owed, todo_sys, engine, superblock, oid, next_xid, phase, ghost>>

Checkpointed ==
    /\ base' = st
    /\ wal' = <<>>
    /\ synced' = 0
    /\ sys' = [q \in SysPages |-> [sys[q] EXCEPT !.disk = sys[q].mem]]
    /\ owed' = SysPages

\* trigger_checkpoint at the end of write_all_system_tables: the allocator of
\* OIDs is not wired yet, so next_oid is stored as the superblock has it
bootstrap_checkpoint ==
    /\ phase = "checkpoint"
    /\ Checkpointed
    /\ superblock' = [superblock EXCEPT !.checkpointed = TRUE]
    /\ phase' = "load"
    /\ UNCHANGED <<st, todo_sys, engine, oid, next_xid, ghost, used>>

\* A table without bootstrap rows reads back as it should from any page
read_validated == \A q \in SysPages \ EmptySys : sys[q].mem = "full"

\* read_validated, then the registries; content that does not decode is
\* rewritten once, unless that would lose user tables
Catalog_open ==
    /\ phase = "load"
    /\ IF ~read_validated
       THEN /\ phase' = IF user_ddl_present(st) THEN "refused" ELSE "write"
            /\ todo_sys' = IF phase' = "write" THEN SysPages ELSE {}
            /\ UNCHANGED <<oid, registry, indexes>>
       ELSE /\ oid' = next_oid(st)
            /\ phase' = IF duplicate_name(st) THEN "corrupt" ELSE "up"
            /\ registry' = build_registry(st)
            /\ indexes' = build_index_registry(st)
            /\ UNCHANGED todo_sys
    /\ UNCHANGED <<disk, sys, owed, ddl_lock, locks, session, superblock, next_xid, ghost, used>>

trigger_checkpoint ==
    /\ phase = "up"
    /\ May("checkpoints") /\ Use("checkpoints")
    /\ Checkpointed
    /\ superblock' = [next_oid |-> oid, checkpointed |-> TRUE]
    /\ UNCHANGED <<st, todo_sys, engine, oid, next_xid, phase, ghost>>

\* The log up to n survives.  A system page has its disk image, torn if a
\* write of it was in flight (torn), or the image of the last FPI that
\* survived.  Running transactions have no terminal record: not committed.
crash(n, torn) ==
    /\ May("crashes") /\ Use("crashes")
    /\ LET kept == SubSeq(wal, 1, n)
           fpis(q) == SelectSeq(kept, LAMBDA r : r.type = "fpi" /\ r.page = q)
           left(q) == IF fpis(q) # <<>> THEN Last(fpis(q)).image
                      ELSE IF q \in torn THEN "torn" ELSE sys[q].disk
       IN  /\ wal' = kept
           /\ synced' = n
           /\ st' = FoldLeft(apply, base, kept)
           /\ sys' = [q \in SysPages |-> [mem |-> left(q), disk |-> left(q)]]
    /\ owed' = IF superblock.checkpointed THEN SysPages ELSE {}
    /\ phase' = "alloc"
    /\ todo_sys' = {}
    /\ registry' = <<>>
    /\ indexes' = {}
    /\ ddl_lock' = "none"
    /\ locks' = {}
    /\ session' = [s \in Sessions |-> IF session[s].pc = "idle" THEN session[s]
                                      ELSE Idle(Tail(session[s].prog))]
    /\ UNCHANGED <<base, superblock, oid, next_xid, ghost>>

-----------------------------------------------------------------------------
(* Statements.                                                              *)

Up(s) == phase = "up" /\ session[s].prog # <<>>

Stmt(s) == Head(session[s].prog)

Asks(s, op) == Up(s) /\ session[s].pc = "idle" /\ Stmt(s).op = op

Go(s, changes) == session' = [session EXCEPT ![s] = changes @@ @]

Over(s) == session' = [session EXCEPT ![s] = Idle(Tail(@.prog))]

\* A statement that found out before it did anything
Refuse(s) ==
    /\ Over(s)
    /\ UNCHANGED <<disk, boot, registry, indexes, ddl_lock, locks, superblock, oid, next_xid, phase, ghost, used>>

begin_txn(s) == next_xid \in Xids /\ next_xid' = next_xid + 1

conflicts(m, n) == ~(m = "RowExclusive" /\ n = "RowExclusive")

Grantable(s, o, mode) ==
    \A l \in locks : l.oid = o /\ l.xid # session[s].xid => ~conflicts(l.mode, mode)

Lock(o, x, mode) == locks' = locks \cup {[oid |-> o, xid |-> x, mode |-> mode]}

Held(s) == {l \in locks : l.xid = session[s].xid}

Op(op) == [op |-> op]

\* create_table: under ddl_lock, the name free, a new OID and its lock, a transaction
create_table(s) ==
    /\ Asks(s, "create") /\ ddl_lock = "none"
    /\ IF Stmt(s).name \in DOMAIN registry THEN Refuse(s)
       ELSE /\ begin_txn(s)
            /\ ddl_lock' = s
            /\ oid' = oid + 1
            /\ Lock(oid, next_xid, "AccessExclusive")
            /\ Go(s, [pc |-> "run", xid |-> next_xid, oid |-> oid,
                      todo |-> <<Op("heap"), Op("class"), Op("attr"), Op("rel"), Op("commit")>>])
            /\ UNCHANGED <<disk, boot, registry, indexes, superblock, phase, ghost, used>>

\* A DDL statement on a table that is there; it goes on to wait for its lock
on_table(s, draws) ==
    /\ begin_txn(s)
    /\ ddl_lock' = s
    /\ oid' = oid + draws
    /\ Go(s, [pc |-> "lock", xid |-> next_xid, oid |-> oid, entry |-> registry[Stmt(s).name]])
    /\ UNCHANGED <<disk, boot, registry, indexes, locks, superblock, phase, ghost, used>>

drop_table(s) ==
    /\ Asks(s, "drop") /\ ddl_lock = "none"
    /\ IF Stmt(s).name \notin DOMAIN registry THEN Refuse(s) ELSE on_table(s, 0)

IndexesOf(o) == {i \in indexes : i.table = o}

HasRoom(t) == Len(st[t]) < Room

\* The column has an index, or its catalog rows will not fit: nothing is begun,
\* but create_index has drawn its OID by then
create_index(s) ==
    /\ Asks(s, "index") /\ ddl_lock = "none"
    /\ IF Stmt(s).name \notin DOMAIN registry
          \/ \E i \in IndexesOf(registry[Stmt(s).name].oid) : i.map = i.meta
       THEN Refuse(s)
       ELSE IF \E t \in Tables : ~HasRoom(t)
       THEN /\ oid' = oid + 1
            /\ Over(s)
            /\ UNCHANGED <<disk, boot, registry, indexes, ddl_lock, locks, superblock, next_xid, phase, ghost, used>>
       ELSE on_table(s, 1)

\* One HNSW index per table
create_hnsw_index_on(s) ==
    /\ Asks(s, "hnsw_on") /\ ddl_lock = "none"
    /\ IF Stmt(s).name \notin DOMAIN registry
          \/ \E i \in IndexesOf(registry[Stmt(s).name].oid) : i.map # i.meta
       THEN Refuse(s)
       ELSE on_table(s, 1)

\* Not tied to a table: the graph is made first, then the OIDs are drawn, then
\* the map is made; the transaction is only for the pg_rust_relpages row
create_hnsw_index(s) ==
    /\ Asks(s, "hnsw") /\ ddl_lock = "none"
    /\ ddl_lock' = s
    /\ Go(s, [pc |-> "run",
              todo |-> <<Op("graph"), Op("oid"), Op("map"), Op("begin"), Op("rel"), Op("commit")>>])
    /\ UNCHANGED <<disk, boot, registry, indexes, locks, superblock, oid, next_xid, phase, ghost, used>>

\* insert, to the point where it has resolved the table and queues for its lock
insert(s) ==
    /\ Asks(s, "insert")
    /\ IF Stmt(s).name \notin DOMAIN registry THEN Refuse(s)
       ELSE /\ begin_txn(s)
            /\ Go(s, [pc |-> "lock", xid |-> next_xid, entry |-> registry[Stmt(s).name]])
            /\ UNCHANGED <<disk, boot, registry, indexes, ddl_lock, locks, superblock, oid, phase, ghost, used>>

Mode(s) == CASE Stmt(s).op = "insert" -> "RowExclusive"
             [] Stmt(s).op = "drop" -> "AccessExclusive"
             [] OTHER -> "Exclusive"

\* lock_table_entry's second look; drop_table locks what it resolved, nothing
\* else can have dropped it
still_registered(s) ==
    \/ Stmt(s).op = "drop"
    \/ /\ Stmt(s).name \in DOMAIN registry
       /\ registry[Stmt(s).name].oid = session[s].entry.oid

\* The 'd' version first, then the pages, then the registry, then the commit
drop_table_inner == <<Op("mark"), Op("walk"), Op("forget"), Op("commit")>>

Steps(s) ==
    CASE Stmt(s).op = "insert"  -> <<Op("row"), Op("entries"), Op(Stmt(s).end)>>
      [] Stmt(s).op = "drop"    -> drop_table_inner
      [] Stmt(s).op = "index"   -> <<Op("build"), Op("class"), Op("attr"), Op("index"), Op("rel"),
                                     Op("push"), Op("commit")>>
      [] Stmt(s).op = "hnsw_on" -> <<Op("empty"), Op("graph"), Op("map"), Op("class"), Op("attr"),
                                     Op("index"), Op("rel"), Op("push"), Op("commit")>>

lock_table_entry(s) ==
    /\ Up(s) /\ session[s].pc = "lock"
    /\ Grantable(s, session[s].entry.oid, Mode(s))
    /\ Lock(session[s].entry.oid, session[s].xid, Mode(s))
    /\ Go(s, [pc |-> "run", todo |-> IF still_registered(s) THEN Steps(s) ELSE <<Op("abort")>>])
    /\ UNCHANGED <<disk, boot, registry, indexes, ddl_lock, superblock, oid, next_xid, phase, ghost, used>>

-----------------------------------------------------------------------------
(* Steps of a statement that runs.                                          *)

Does(s, op) == Up(s) /\ session[s].pc = "run" /\ Head(session[s].todo).op = op

Rest(s) == [todo |-> Tail(session[s].todo)]

Doomed == [todo |-> <<Op("abort")>>]

\* A page for this statement's relation, logged as its initial image
NewPage(s, items, field) ==
    /\ Available # {}
    /\ LET q == Min(Available)
           owner == IF session[s].oid = 0 THEN oid ELSE session[s].oid
       IN  /\ Log(<<PageRec(q, owner, items)>>)
           /\ Go(s, [f \in field |-> q] @@ Rest(s))

create_heap(s) ==
    /\ Does(s, "heap")
    /\ NewPage(s, {}, {"meta", "map"})
    /\ UNCHANGED <<base, synced, boot, registry, indexes, ddl_lock, locks, superblock, oid, next_xid, phase, ghost, used>>

hnsw_create(s) ==
    /\ Does(s, "graph")
    /\ NewPage(s, {}, {"meta"})
    /\ UNCHANGED <<base, synced, boot, registry, indexes, ddl_lock, locks, superblock, oid, next_xid, phase, ghost, used>>

draw_oid(s) ==
    /\ Does(s, "oid")
    /\ oid' = oid + 1
    /\ Go(s, [oid |-> oid] @@ Rest(s))
    /\ UNCHANGED <<disk, boot, registry, indexes, ddl_lock, locks, superblock, next_xid, phase, ghost, used>>

\* The sidecar map is a B+Tree with an OID of its own, which no catalog row names
create_map(s) ==
    /\ Does(s, "map")
    /\ oid' = oid + 1
    /\ NewPage(s, {}, {"map"})
    /\ UNCHANGED <<base, synced, boot, registry, indexes, ddl_lock, locks, superblock, next_xid, phase, ghost, used>>

auto_commit_begin(s) ==
    /\ Does(s, "begin")
    /\ begin_txn(s)
    /\ Go(s, [xid |-> next_xid] @@ Rest(s))
    /\ UNCHANGED <<disk, boot, registry, indexes, ddl_lock, locks, superblock, oid, phase, ghost, used>>

CatalogRow(s, table) ==
    CASE table = "class" -> [oid |-> session[s].oid, name |-> Stmt(s).name,
                             kind |-> IF Stmt(s).op = "create" THEN "r" ELSE "i"]
      [] table = "attr"  -> [oid |-> session[s].oid]
      [] table = "index" -> [oid |-> session[s].oid, table |-> session[s].entry.oid, xid |-> session[s].xid]
      [] table = "rel"   -> [oid |-> session[s].oid, first |-> session[s].meta, last |-> session[s].map,
                             xid |-> session[s].xid]

\* ensure_catalog_room, then a heap insert into the table's first page
insert_catalog_row(s, table) ==
    /\ Does(s, table)
    /\ IF HasRoom(table) THEN Log(<<Row(table, CatalogRow(s, table))>>) /\ Go(s, Rest(s))
       ELSE Go(s, Doomed) /\ UNCHANGED <<st, wal>>
    /\ UNCHANGED <<base, synced, boot, registry, indexes, ddl_lock, locks, superblock, oid, next_xid, phase, ghost, used>>

\* A new version of the table's pg_class row, relkind 'd'
mark_dropped(s) ==
    /\ Does(s, "mark")
    /\ ghost' = [ghost EXCEPT !.begun = @ \cup {session[s].entry.oid}]
    /\ IF HasRoom("class")
       THEN /\ Log(<<Row("class", [oid |-> session[s].entry.oid, name |-> Stmt(s).name, kind |-> "d"])>>)
            /\ Go(s, Rest(s))
       ELSE Go(s, Doomed) /\ UNCHANGED <<st, wal>>
    /\ UNCHANGED <<base, synced, boot, registry, indexes, ddl_lock, locks, superblock, oid, next_xid, phase, used>>

walk(s) ==
    /\ Does(s, "walk")
    /\ LET pages == walk_chain(st, session[s].entry.first_page) IN
       Go(s, [todo |-> [i \in DOMAIN pages |-> [op |-> "free", page |-> pages[i]]] \o Tail(session[s].todo)])
    /\ UNCHANGED <<disk, boot, registry, indexes, ddl_lock, locks, superblock, oid, next_xid, phase, ghost, used>>

free_page(s) ==
    /\ Does(s, "free")
    /\ Log(<<[type |-> "free", page |-> Head(session[s].todo).page]>>)
    /\ Go(s, Rest(s))
    /\ UNCHANGED <<base, synced, boot, registry, indexes, ddl_lock, locks, superblock, oid, next_xid, phase, ghost, used>>

\* The registry entry goes while the AccessExclusive lock is still held
forget(s) ==
    /\ Does(s, "forget")
    /\ registry' = [n \in DOMAIN registry \ {Stmt(s).name} |-> registry[n]]
    /\ Go(s, Rest(s))
    /\ UNCHANGED <<disk, boot, indexes, ddl_lock, locks, superblock, oid, next_xid, phase, ghost, used>>

\* An HNSW index is only made on an empty table
require_empty(s) ==
    /\ Does(s, "empty")
    /\ Go(s, IF scan(st, session[s].entry.first_page, committed(st)) = {} THEN Rest(s) ELSE Doomed)
    /\ UNCHANGED <<disk, boot, registry, indexes, ddl_lock, locks, superblock, oid, next_xid, phase, ghost, used>>

\* Mutant: the snapshot is the one auto_commit took before the lock wait
build_index_snapshot_first(s) ==
    /\ Does(s, "build")
    /\ LET snap == {x \in committed(st) : x < session[s].xid} IN
       NewPage(s, {i.v : i \in scan(st, session[s].entry.first_page, snap)}, {"meta", "map"})
    /\ UNCHANGED <<base, synced, boot, registry, indexes, ddl_lock, locks, superblock, oid, next_xid, phase, ghost, used>>

\* A snapshot taken with the lock held, the scan, the bulk load
build_index(s) ==
    /\ Does(s, "build")
    /\ NewPage(s, {i.v : i \in scan(st, session[s].entry.first_page, committed(st))}, {"meta", "map"})
    /\ UNCHANGED <<base, synced, boot, registry, indexes, ddl_lock, locks, superblock, oid, next_xid, phase, ghost, used>>

Entry(s) == [oid |-> session[s].oid, table |-> session[s].entry.oid, meta |-> session[s].meta, map |-> session[s].map]

push_index(s) ==
    /\ Does(s, "push")
    /\ indexes' = indexes \cup {Entry(s)}
    /\ Go(s, Rest(s))
    /\ UNCHANGED <<disk, boot, registry, ddl_lock, locks, superblock, oid, next_xid, phase, ghost, used>>

Item(s) == [v |-> Stmt(s).v, xid |-> session[s].xid, table |-> session[s].entry.oid]

\* The row goes to the chain's last page, or to a new one linked to it
heap_insert(s) ==
    /\ Does(s, "row")
    /\ LET tail == Last(walk_chain(st, session[s].entry.first_page))
           item(q) == [type |-> "item", page |-> q, item |-> Item(s)]
       IN  IF Cardinality(st.page[tail].items) < PageRows THEN Log(<<item(tail)>>)
           ELSE /\ Available # {}
                /\ LET q == Min(Available) IN
                   Log(<<PageRec(q, session[s].entry.oid, {}), [type |-> "link", page |-> tail, next |-> q], item(q)>>)
    /\ Go(s, Rest(s))
    /\ UNCHANGED <<base, synced, boot, registry, indexes, ddl_lock, locks, superblock, oid, next_xid, phase, ghost, used>>

Entries(s, type) ==
    LET pages == SetToSeq({i.map : i \in IndexesOf(session[s].entry.oid)})
    IN  [k \in DOMAIN pages |-> [type |-> type, page |-> pages[k], item |-> Stmt(s).v]]

index_insert(s) ==
    /\ Does(s, "entries")
    /\ Log(Entries(s, "item"))
    /\ Go(s, Rest(s))
    /\ UNCHANGED <<base, synced, boot, registry, indexes, ddl_lock, locks, superblock, oid, next_xid, phase, ghost, used>>

Release(s) ==
    /\ locks' = locks \ Held(s)
    /\ ddl_lock' = IF ddl_lock = s THEN "none" ELSE ddl_lock

Acknowledge(s) ==
    ghost' = CASE Stmt(s).op = "insert" -> [ghost EXCEPT !.rows = @ \cup {[oid |-> session[s].entry.oid, v |-> Stmt(s).v]}]
               [] Stmt(s).op = "drop" -> [ghost EXCEPT !.dropped = @ \cup {session[s].entry.oid}]
               [] Stmt(s).op \in {"index", "hnsw_on"} -> [ghost EXCEPT !.indexes = @ \cup {Entry(s)}]
               [] Stmt(s).op = "hnsw" -> [ghost EXCEPT !.hnsw = @ \cup {Entry(s)}]

\* Mutant: the commit record is not waited for
commit_unflushed(s) ==
    /\ Does(s, "commit")
    /\ Log(<<[type |-> "end", xid |-> session[s].xid, how |-> "committed"]>>)
    /\ locks' = locks \ Held(s)
    /\ IF Stmt(s).op = "create"
       THEN Go(s, [todo |-> <<Op("register")>>]) /\ UNCHANGED <<ddl_lock, ghost>>
       ELSE Over(s) /\ Release(s) /\ Acknowledge(s)
    /\ UNCHANGED <<base, synced, boot, registry, indexes, superblock, oid, next_xid, phase, used>>

\* Commit, then release_all; create_table still has its registry entry to make
commit(s) ==
    /\ Does(s, "commit")
    /\ LogDurable(<<[type |-> "end", xid |-> session[s].xid, how |-> "committed"]>>)
    /\ locks' = locks \ Held(s)
    /\ IF Stmt(s).op = "create"
       THEN Go(s, [todo |-> <<Op("register")>>]) /\ UNCHANGED <<ddl_lock, ghost>>
       ELSE Over(s) /\ Release(s) /\ Acknowledge(s)
    /\ UNCHANGED <<base, boot, registry, indexes, superblock, oid, next_xid, phase, used>>

register(s) ==
    /\ Does(s, "register")
    /\ registry' = (Stmt(s).name :> [oid |-> session[s].oid, first_page |-> session[s].meta]) @@ registry
    /\ ghost' = [ghost EXCEPT !.created = @ \cup {[name |-> Stmt(s).name, oid |-> session[s].oid,
                                                  first_page |-> session[s].meta]}]
    /\ Over(s)
    /\ Release(s)
    /\ UNCHANGED <<disk, boot, indexes, superblock, oid, next_xid, phase, used>>

\* apply_index_undo, the abort record, release_all
abort(s) ==
    /\ Does(s, "abort")
    /\ Log(IF session[s].xid = 0 THEN <<>>
           ELSE (IF Stmt(s).op = "insert" THEN Entries(s, "erase") ELSE <<>>)
                \o <<[type |-> "end", xid |-> session[s].xid, how |-> "aborted"]>>)
    /\ Over(s)
    /\ Release(s)
    /\ UNCHANGED <<base, synced, boot, registry, indexes, superblock, oid, next_xid, phase, ghost, used>>

\* The storage engine refuses a step, for want of a frame or of room on disk
step_error(s) ==
    /\ Up(s) /\ session[s].pc = "run"
    /\ Head(session[s].todo).op \in Tables \cup {"heap", "graph", "map", "mark", "walk", "build", "row", "entries"}
    /\ May("errors") /\ Use("errors")
    /\ Go(s, Doomed)
    /\ UNCHANGED <<disk, boot, registry, indexes, ddl_lock, locks, superblock, oid, next_xid, phase, ghost>>

-----------------------------------------------------------------------------
\* A fresh directory, or one that was bootstrapped and closed
Init ==
    \E scn \in Scenarios :
        LET empty == [t \in Tables |-> <<>>] @@
                     [page |-> [q \in SysPages \cup Pages |-> Blank], free |-> {},
                      hwm |-> IF scn.fresh THEN 0 ELSE Max(SysPages), clog |-> [x \in Xids |-> "running"]]
            image == IF scn.fresh THEN "zero" ELSE "full"
        IN  /\ st = empty
            /\ base = empty
            /\ wal = <<>>
            /\ synced = 0
            /\ sys = [q \in SysPages |-> [mem |-> image, disk |-> image]]
            /\ owed = IF scn.fresh THEN {} ELSE SysPages
            /\ todo_sys = {}
            /\ superblock = [next_oid |-> FirstUser, checkpointed |-> ~scn.fresh]
            /\ oid = FirstUser
            /\ registry = <<>>
            /\ indexes = {}
            /\ ddl_lock = "none"
            /\ locks = {}
            /\ next_xid = Min(Xids)
            /\ session = [s \in Sessions |-> Idle(scn.prog[s])]
            /\ phase = "alloc"
            /\ ghost = [created |-> {}, begun |-> {}, dropped |-> {}, rows |-> {}, indexes |-> {}, hnsw |-> {}]
            /\ used = scn.used

Dirty == {q \in SysPages : sys[q].mem # sys[q].disk}

Next ==
    \/ ensure_system_pages_allocated \/ bootstrap_if_needed \/ write_system_table
    \/ bootstrap_checkpoint \/ Catalog_open \/ trigger_checkpoint
    \/ \E q \in SysPages : flush_frame(q)
    \/ \E n \in synced .. Len(wal) : \E torn \in {{}} \cup {{q} : q \in Dirty \ EmptySys} : crash(n, torn)
    \/ \E s \in Sessions :
        \/ create_table(s) \/ drop_table(s) \/ create_index(s) \/ create_hnsw_index_on(s)
        \/ create_hnsw_index(s) \/ insert(s) \/ lock_table_entry(s)
        \/ create_heap(s) \/ hnsw_create(s) \/ draw_oid(s) \/ create_map(s) \/ auto_commit_begin(s)
        \/ \E t \in Tables : insert_catalog_row(s, t)
        \/ mark_dropped(s) \/ walk(s) \/ free_page(s) \/ forget(s)
        \/ require_empty(s) \/ build_index(s) \/ push_index(s)
        \/ heap_insert(s) \/ index_insert(s) \/ commit(s) \/ register(s) \/ abort(s) \/ step_error(s)

Spec == Init /\ [][Next]_vars

-----------------------------------------------------------------------------
(* Properties.                                                              *)

Live == {t \in Range(registry) : \A l \in locks : ~(l.oid = t.oid /\ l.mode = "AccessExclusive")}

Owned(q, o) == q \notin st.free /\ q <= st.hwm /\ st.page[q].owner = o

\* "every half-state degrades to a leak, never to corruption" (engine.rs, DDL
\* crash atomicity): wherever a crash or an error cuts a CREATE or a DROP, a
\* database that is up has under each table, and each index of a table, only
\* pages that are the relation's own, not free and not another's, and on a table's
\* pages only rows that were meant for it; and opening never refuses or finds the
\* catalog corrupt.
LeakNeverCorruption ==
    /\ phase \notin {"refused", "corrupt"}
    /\ phase = "up" =>
         /\ \A t \in Live : \A q \in Range(walk_chain(st, t.first_page)) :
               Owned(q, t.oid) /\ \A i \in st.page[q].items : i.table = t.oid
         /\ \A i \in indexes : Owned(i.meta, i.oid) /\ Owned(i.map, i.oid)

\* DDL and rows that were acknowledged are there after any crash and reopening:
\* created tables no DROP was begun on, under their name, OID and first page and
\* with their rows, and their indexes, and the free-standing HNSW indexes; and a table whose DROP returned is gone.
AckedDdlSurvives ==
    phase = "up" =>
        /\ \A t \in ghost.created : t.oid \notin ghost.begun =>
              /\ t.name \in DOMAIN registry
              /\ registry[t.name] = [oid |-> t.oid, first_page |-> t.first_page]
              /\ {r.v : r \in {w \in ghost.rows : w.oid = t.oid}}
                     \subseteq {i.v : i \in scan(st, t.first_page, committed(st))}
        /\ ghost.indexes \subseteq indexes
        /\ \A i \in ghost.hnsw : hnsw_relpages_field(st, i.oid) = [first |-> i.meta, map |-> i.map]
        /\ \A t \in Range(registry) : t.oid \notin ghost.dropped

\* The index a writer maintains and a reader trusts is complete: every
\* committed row of a table is in every registered index of it, whatever waited
\* for whom while the index was built and whatever crash came after.
IndexCovers ==
    phase = "up" =>
        \A t \in Live : \A i \in IndexesOf(t.oid) :
            {r.v : r \in scan(st, t.first_page, committed(st))} \subseteq st.page[i.map].items

\* A database that is up has its whole bootstrap content, whichever system pages
\* a crash during bootstrap had let reach the disk; and no OID was given to two
\* relations of the catalog, though next_oid goes back to the last checkpoint's
\* at every crash.
CatalogSound ==
    phase = "up" =>
        /\ \A q \in SysPages : sys[q].mem = "full"
        /\ \A t \in {"class", "rel"} : \A j, k \in DOMAIN st[t] :
              j # k /\ st[t][j].oid = st[t][k].oid => t = "class" /\ st[t][Max({j, k})].kind = "d"
        /\ \A t \in {"class", "rel"} : \A o \in Oids(st[t]) : o < oid

\* CatalogKept: what is registered is whole, on pages of its own and under an OID
\* of its own, wherever a crash, an error or another session cut in.
CatalogKept == LeakNeverCorruption /\ CatalogSound /\ IndexCovers
=============================================================================
