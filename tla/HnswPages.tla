----------------------------- MODULE HnswPages -----------------------------
(***************************************************************************)
(* pg-am-hnsw: the pages of an HNSW index, the seven primitives that       *)
(* change them (apply.rs), the redo handlers of the seven log records      *)
(* (redo.rs, validate.rs), and the walks over the pages: the directory     *)
(* chain (dir.rs), the resolution of a node (paged.rs) and the audits of   *)
(* audit.rs.                                                               *)
(*                                                                         *)
(* An index has a meta page, a chain of directory pages that gives node n  *)
(* its place <<page, slot>>, and node pages with the entries.  Pages are a *)
(* sequence; `lsn' is pd_lsn, the position in the log of the last record   *)
(* applied.  An entry keeps its vector, its top level, its two state bits  *)
(* and a neighbour list per level.                                         *)
(***************************************************************************)
EXTENDS HnswGraph

CONSTANTS DirEntriesPerPage, \* DIR_ENTRIES_PER_PAGE
          Room               \* what a node page has room for, in units of entry_size

ASSUME HnswPagesAssumption ==
    DirEntriesPerPage \in Nat \ {0} /\ Room \in Nat /\ Room > LMax

INVALID == 0     \* PageId::INVALID
Corrupted == [type |-> "corrupted", lsn |-> 0]

\* A page the data file does not hold yet
NoPage == [type |-> "none", lsn |-> 0]

init_dir_page(ordinal) ==
    [type |-> "dir", lsn |-> 0, ordinal |-> ordinal, next |-> INVALID, entries |-> <<>>]
init_node_page == [type |-> "node", lsn |-> 0, slots |-> <<>>]
init_meta_page(dir_head) ==
    [type |-> "meta", lsn |-> 0, ep |-> NONE, max |-> 0, dir_head |-> dir_head]

entry_size(level) == 1 + level

\* The bytes of a node page in use
filled(page) == FoldFunction(+, 0, [i \in DOMAIN page.slots |-> entry_size(page.slots[i].top)])

slot_is_occupied(page, slot) == slot < Len(page.slots)
entry_at(page, slot)         == page.slots[slot + 1]

----------------------------------------------------------------------------
(* The seven primitives.                                                   *)

fits(page, level)   == filled(page) + entry_size(level) <= Room
select_slot(page)   == Len(page.slots)

write_entry(level, vector) ==
    [vec |-> vector, top |-> level, live |-> FALSE, tomb |-> FALSE,
     adj |-> [l \in 0..level |-> {}]]

\* Create the entry in the next free slot, or write it again while it is
\* INITIALIZING
apply_node_at(page, slot, level, vector) ==
    IF slot_is_occupied(page, slot)
      THEN IF entry_at(page, slot).top # level \/ entry_at(page, slot).live THEN Corrupted
           ELSE [page EXCEPT !.slots[slot + 1] = write_entry(level, vector)]
      ELSE IF slot # Len(page.slots) \/ ~fits(page, level) THEN Corrupted
           ELSE [page EXCEPT !.slots = Append(@, write_entry(level, vector))]

dir_hwm(page) == page.ordinal * DirEntriesPerPage + Len(page.entries)

dir_append(page, node_id, place) ==
    LET base == page.ordinal * DirEntriesPerPage
    IN  CASE node_id < base -> Corrupted
          [] node_id >= base /\ node_id < dir_hwm(page) ->
               IF page.entries[node_id - base + 1] = place THEN page ELSE Corrupted
          [] node_id > dir_hwm(page) -> Corrupted
          [] OTHER -> IF Len(page.entries) >= DirEntriesPerPage THEN Corrupted
                      ELSE [page EXCEPT !.entries = Append(@, place)]

set_neighbors(page, slot, level, content) ==
    IF ~slot_is_occupied(page, slot) \/ Cardinality(content) > m_max(level) THEN Corrupted
    ELSE IF level > entry_at(page, slot).top THEN Corrupted
    ELSE [page EXCEPT !.slots[slot + 1].adj[level] = content]

apply_meta(page, ep, max) == [page EXCEPT !.ep = ep, !.max = max]

publish_live(page, slot) ==
    IF slot_is_occupied(page, slot) THEN [page EXCEPT !.slots[slot + 1].live = TRUE]
    ELSE Corrupted

apply_tombstone(page, slot) ==
    IF slot_is_occupied(page, slot) THEN [page EXCEPT !.slots[slot + 1].tomb = TRUE]
    ELSE Corrupted

dir_link(page, next) == [page EXCEPT !.next = next]

----------------------------------------------------------------------------
(* Walks: the directory chain, the place of a node, the graph they hold.   *)

\* The pages of the chain in order: consecutive ordinals, only the last page
\* not full, no page twice.  <<>> stands for the error.
RECURSIVE walk_chain(_, _, _)
walk_chain(pages, at, seen) ==
    IF at \notin DOMAIN pages \/ Contains(seen, at) THEN <<>>
    ELSE LET page == pages[at]
         IN  CASE page.type # "dir" -> <<>>
               [] page.type = "dir" /\ page.ordinal # Len(seen) -> <<>>
               [] page.type = "dir" /\ page.ordinal = Len(seen) /\ page.next = INVALID ->
                    Append(seen, at)
               [] OTHER -> IF Len(page.entries) # DirEntriesPerPage \/ page.next = at THEN <<>>
                           ELSE walk_chain(pages, page.next, Append(seen, at))

check_dir_chain(pages, head) == walk_chain(pages, head, <<>>)

chain_hwm(pages, chain) == dir_hwm(pages[Last(chain)])

dir_entry(pages, chain, id) ==
    pages[chain[(id \div DirEntriesPerPage) + 1]].entries[(id % DirEntriesPerPage) + 1]

resolve(pages, chain, id) == dir_entry(pages, chain, id)

with_node(pages, chain, id) ==
    LET place == resolve(pages, chain, id) IN entry_at(pages[place[1]], place[2])

\* The graph a reader sees through the directory when it counts `hwm' nodes
PagedGraph(pages, chain, hwm, meta) ==
    LET ids == 0..(chain_hwm(pages, chain) - 1)
    IN  [n |-> hwm, ep |-> meta.ep, max |-> meta.max,
         vec |-> [i \in ids |-> with_node(pages, chain, i).vec],
         top |-> [i \in ids |-> with_node(pages, chain, i).top],
         adj |-> [i \in ids |-> with_node(pages, chain, i).adj]]

----------------------------------------------------------------------------
(* Redo.  A handler changes one page, skips a record the page has already  *)
(* got, and refuses one that does not fit it.  The meta page it checks     *)
(* against, and the other page of a directory record, are read as they are *)
(* now, which may be ahead of the record.                                  *)

already_applied(page, lsn) == page.lsn >= lsn
stamp_pd_lsn(page, lsn)    == IF page.type = "corrupted" THEN page ELSE [page EXCEPT !.lsn = lsn]

TypeOf(pages, q) == IF q \in DOMAIN pages THEN pages[q].type ELSE "none"

validate_node_init(rec) == rec.level <= LMax

validate_set_neighbors(rec, page) ==
    /\ slot_is_occupied(page, rec.slot) /\ rec.level <= entry_at(page, rec.slot).top
    /\ Cardinality(rec.list) <= m_max(rec.level) /\ rec.node \notin rec.list

NodeInitRedo(pages, rec) ==
    IF validate_node_init(rec) THEN apply_node_at(pages[rec.page], rec.slot, rec.level, rec.vec)
    ELSE Corrupted

SetNeighborsRedo(pages, rec) ==
    IF validate_set_neighbors(rec, pages[rec.page])
      THEN set_neighbors(pages[rec.page], rec.slot, rec.level, rec.list)
      ELSE Corrupted

MetaUpdateRedo(pages, rec) ==
    IF rec.max <= LMax THEN apply_meta(pages[rec.page], rec.ep, rec.max) ELSE Corrupted

TombstoneRedo(pages, rec) ==
    IF slot_is_occupied(pages[rec.page], rec.slot) /\ entry_at(pages[rec.page], rec.slot).live
      THEN apply_tombstone(pages[rec.page], rec.slot)
      ELSE Corrupted

DirAppendRedo(pages, rec) ==
    IF /\ rec.place[1] # rec.page /\ TypeOf(pages, rec.place[1]) = "node"
       /\ slot_is_occupied(pages[rec.place[1]], rec.place[2])
      THEN dir_append(pages[rec.page], rec.node, rec.place)
      ELSE Corrupted

DirLinkRedo(pages, rec) ==
    IF /\ pages[rec.page].next = INVALID /\ rec.next # rec.page
       /\ Len(pages[rec.page].entries) = DirEntriesPerPage
       /\ TypeOf(pages, rec.next) = "dir"
       /\ pages[rec.next].ordinal = pages[rec.page].ordinal + 1
      THEN dir_link(pages[rec.page], rec.next)
      ELSE Corrupted

PublishLiveRedo(pages, rec) == publish_live(pages[rec.page], rec.slot)

PageKind(kind) == CASE kind = "MetaUpdate" -> "meta"
                    [] kind \in {"DirAppend", "DirLink"} -> "dir"
                    [] OTHER -> "node"

replayed(pages, rec) ==
    CASE rec.kind = "Fpi"          -> rec.image
      [] rec.kind = "NodeInit"     -> NodeInitRedo(pages, rec)
      [] rec.kind = "SetNeighbors" -> SetNeighborsRedo(pages, rec)
      [] rec.kind = "MetaUpdate"   -> MetaUpdateRedo(pages, rec)
      [] rec.kind = "Tombstone"    -> TombstoneRedo(pages, rec)
      [] rec.kind = "DirAppend"    -> DirAppendRedo(pages, rec)
      [] rec.kind = "DirLink"      -> DirLinkRedo(pages, rec)
      [] rec.kind = "PublishLive"  -> PublishLiveRedo(pages, rec)

redo(pages, rec, lsn) ==
    IF already_applied(pages[rec.page], lsn) THEN pages
    ELSE IF rec.kind # "Fpi" /\ pages[rec.page].type # PageKind(rec.kind)
           THEN [pages EXCEPT ![rec.page] = Corrupted]
    ELSE [pages EXCEPT ![rec.page] = stamp_pd_lsn(replayed(pages, rec), lsn)]

\* The log is replayed until a handler fails
RECURSIVE replay(_, _, _)
replay(pages, wal, n) ==
    IF n > Len(wal) \/ \E q \in DOMAIN pages : pages[q].type = "corrupted" THEN pages
    ELSE replay(redo(pages, wal[n], n), wal, n + 1)

----------------------------------------------------------------------------
(* The audits.                                                             *)

\* audit_index, first pass: every directory entry maps to an entry of its own
audit_entries(pages, chain, ids) ==
    LET place(i) == resolve(pages, chain, i)
        node(i)  == with_node(pages, chain, i)
    IN  /\ \A i \in ids : TypeOf(pages, place(i)[1]) = "node"
                         /\ slot_is_occupied(pages[place(i)[1]], place(i)[2])
        /\ \A i, j \in ids : place(i) = place(j) => i = j
        /\ \A i \in ids : (node(i).tomb => node(i).live) /\ node(i).top <= LMax

audit_entry_point(pages, chain, ids, meta) ==
    IF ids = {} THEN meta.ep = NONE /\ meta.max = 0
    ELSE meta.ep \in ids /\ with_node(pages, chain, meta.ep).top = meta.max

\* Second pass: the lists lead to other nodes, of that level or above
audit_lists(pages, chain, ids) ==
    LET node(i) == with_node(pages, chain, i)
    IN  \A i \in ids : \A l \in 0..node(i).top : \A nb \in node(i).adj[l] :
            nb # i /\ nb \in ids /\ node(nb).top >= l

audit_index(pages, meta) ==
    LET chain == check_dir_chain(pages, meta.dir_head)
        ids   == 0..(chain_hwm(pages, chain) - 1)
    IN  /\ chain # <<>>
        /\ audit_entries(pages, chain, ids)
        /\ audit_entry_point(pages, chain, ids, meta)
        /\ audit_lists(pages, chain, ids)

\* audit_reachability: level by level from the entry point down
RECURSIVE audit_reachability(_, _, _)
audit_reachability(g, level, seen) ==
    IF level < 0 THEN seen ELSE audit_reachability(g, level - 1, closure(g, level, seen))

reachable(g) == IF g.ep = NONE THEN {} ELSE audit_reachability(g, g.max, {g.ep})

\* audit_symmetry: the edges between LIVE nodes without their reverse
audit_symmetry(g, live) ==
    {e \in (live \X live) \X (0..LMax) :
        /\ e[2] \in DOMAIN g.adj[e[1][1]] /\ e[1][2] \in g.adj[e[1][1]][e[2]]
        /\ e[1][1] \notin g.adj[e[1][2]][e[2]]}
============================================================================
