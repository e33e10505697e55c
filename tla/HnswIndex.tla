----------------------------- MODULE HnswIndex -----------------------------
(***************************************************************************)
(* pg-am-hnsw: the page-resident HNSW index (index.rs).                    *)
(*                                                                         *)
(* Inserts run concurrently: each allocates its node under the `alloc'     *)
(* mutex, searches without a latch, writes its own lists, then the edges   *)
(* back to it under one node latch at a time, publishes itself as entry    *)
(* point under the mutex and at last as LIVE.  Every change of a page is a *)
(* log record; the pages are written back on their own and a crash keeps a *)
(* prefix of the log.  Deletes set a tombstone, and the redirect pass      *)
(* takes the edges that lead to tombstones elsewhere.  An operation may    *)
(* also fail in between, for want of a frame or because the log cannot be  *)
(* written, and then leaves what it did.                                   *)
(*                                                                         *)
(* A read-modify-write under a node latch is one step.  A search is one    *)
(* step per level.  The log has no checkpoint: replay starts at its        *)
(* beginning.                                                              *)
(***************************************************************************)
EXTENDS HnswPages, TLC

CONSTANTS Procs,     \* the threads
          Scenarios  \* [base, dead, draws, ops, after, used]: what the index holds at first, the
                     \* levels drawn, what each thread does and what is done after a crash, and
                     \* how often what may happen: bounds

VARIABLES mem,     \* the pages in the pool
          disk,    \* the pages in the data file
          wal,     \* the log
          synced,  \* how much of it is durable
          h,       \* the handle: HnswIndex
          alloc,   \* who holds the alloc mutex
          todo,    \* what each thread still has to do
          job,     \* what each thread is doing
          acked,   \* ghost: the operations that returned Ok and promised to be durable
          scn,     \* the scenario
          used     \* how often what may still happen

vars == <<mem, disk, wal, synced, h, alloc, todo, job, acked, scn, used>>

DIR_HEAD == 1
META == 2
NOBODY == "nobody"

Closed == [open |-> FALSE, hwm |-> 0, ep |-> NONE, max |-> 0, dirs |-> <<>>, cur |-> INVALID,
           drawn |-> 0]
Idle == [pc |-> "idle"]

\* create: the directory's first page, then the meta page
create == <<init_dir_page(0), init_meta_page(DIR_HEAD)>>

\* The pages on which the inserts of graph g, one after the other, have put its
\* nodes 0..n-1: the last entry's node page is the last node page
RECURSIVE laid(_, _, _)
laid(g, dead, n) ==
    IF n = 0 THEN [pages |-> create, dirs |-> <<DIR_HEAD>>, cur |-> INVALID]
    ELSE LET at    == laid(g, dead, n - 1)
             i     == n - 1
             a1    == IF at.cur # INVALID /\ fits(at.pages[at.cur], g.top[i]) THEN at
                      ELSE [at EXCEPT !.pages = Append(@, init_node_page),
                                      !.cur = Len(at.pages) + 1]
             tail  == Last(a1.dirs)
             a2    == IF Len(a1.pages[tail].entries) < DirEntriesPerPage THEN a1
                      ELSE [a1 EXCEPT !.pages = Append([@ EXCEPT ![tail].next = Len(a1.pages) + 1],
                                                       init_dir_page(Len(a1.dirs))),
                                      !.dirs = Append(@, Len(a1.pages) + 1)]
             slot  == select_slot(a2.pages[a2.cur])
             entry == [vec |-> g.vec[i], top |-> g.top[i], live |-> TRUE, tomb |-> i \in dead,
                       adj |-> g.adj[i]]
         IN  [a2 EXCEPT !.pages = [@ EXCEPT ![a2.cur].slots = Append(@, entry),
                                            ![Last(a2.dirs)].entries = Append(@, <<a2.cur, slot>>)]]

\* An index that scn.base has filled and of which scn.dead has been deleted,
\* just after a checkpoint
Init ==
    /\ scn \in Scenarios
    /\ \E g \in {build(scn.base)} : \E at \in {laid(g, scn.dead, g.n)} :
       LET all  == [at.pages EXCEPT ![META].ep = g.ep, ![META].max = g.max]
       IN  /\ wal = [q \in DOMAIN all |-> [kind |-> "Fpi", page |-> q, image |-> all[q]]]
           /\ mem = [q \in DOMAIN all |-> stamp_pd_lsn(all[q], q)]
           /\ h = [open |-> TRUE, hwm |-> g.n, ep |-> g.ep, max |-> g.max, dirs |-> at.dirs,
                   cur |-> at.cur, drawn |-> g.n]
    /\ disk = [q \in DOMAIN mem |-> NoPage] /\ synced = Len(wal) /\ alloc = NOBODY
    /\ todo = [p \in Procs |-> scn.ops[p]]
    /\ job = [p \in Procs |-> Idle]
    /\ acked = {} /\ used = scn.used

may(c) == used[c] > 0
Use(c) == used' = [used EXCEPT ![c] = @ - 1]

----------------------------------------------------------------------------
(* Logging a change.                                                       *)

\* The record is appended and applied to its page under the page's guard
Write(rec, page) ==
    /\ wal' = Append(wal, rec)
    /\ mem' = [mem EXCEPT ![rec.page] = stamp_pd_lsn(page, Len(wal) + 1)]

\* new_page, initialised and logged as an image: log_page_init
NewPage(page) ==
    /\ wal' = Append(wal, [kind |-> "Fpi", page |-> Len(mem) + 1, image |-> page])
    /\ mem' = Append(mem, stamp_pd_lsn(page, Len(wal) + 1))
    /\ disk' = Append(disk, NoPage)

Go(p, j)  == job' = [job EXCEPT ![p] = j]
At(p, pc) == job[p].pc = pc

\* An operation that found the index corrupt
Fail(p) == Go(p, [pc |-> "corrupted"])

NodePage(place) == mem[place[1]]

Live(i)  == with_node(mem, h.dirs, i).live /\ ~with_node(mem, h.dirs, i).tomb
Graph    == PagedGraph(mem, h.dirs, h.hwm, mem[META])

----------------------------------------------------------------------------
(* insert_impl.                                                            *)

\* Steps 0-2: the level is drawn, and a node page with room for the entry
\* found or allocated
insert_begin(p) ==
    /\ At(p, "idle") /\ todo[p] # <<>> /\ Head(todo[p]).kind = "insert"
    /\ h.open /\ alloc = NOBODY /\ h.drawn < Len(scn.draws)
    /\ alloc' = p
    /\ todo' = [todo EXCEPT ![p] = Tail(@)]
    /\ LET level == scn.draws[h.drawn + 1]
           j     == [pc |-> "dir", vec |-> Head(todo[p]).vec, flush |-> Head(todo[p]).flush,
                     level |-> level, id |-> h.hwm, ran |-> FALSE]
       IN  IF h.cur # INVALID /\ fits(mem[h.cur], level)
             THEN /\ h' = [h EXCEPT !.drawn = @ + 1]
                  /\ Go(p, j @@ [page |-> h.cur]) /\ UNCHANGED <<mem, disk, wal>>
             ELSE /\ NewPage(init_node_page)
                  /\ h' = [h EXCEPT !.drawn = @ + 1, !.cur = Len(mem) + 1]
                  /\ Go(p, j @@ [page |-> Len(mem) + 1])
    /\ UNCHANGED <<synced, acked, scn, used>>

\* Step 3: a full directory tail gets a successor
extend_directory(p) ==
    /\ At(p, "dir") /\ Len(mem[Last(h.dirs)].entries) = DirEntriesPerPage
    /\ NewPage(init_dir_page(Len(h.dirs)))
    /\ Go(p, [job[p] EXCEPT !.pc = "link"])
    /\ UNCHANGED <<synced, h, alloc, todo, acked, scn, used>>

link_directory(p) ==
    /\ At(p, "link")
    /\ LET tail == Last(h.dirs)
           new  == Max({q \in DOMAIN mem : mem[q].type = "dir"})
       IN  /\ Write([kind |-> "DirLink", page |-> tail, next |-> new], dir_link(mem[tail], new))
           /\ h' = [h EXCEPT !.dirs = Append(@, new)]
    /\ Go(p, [job[p] EXCEPT !.pc = "dir"])
    /\ UNCHANGED <<disk, synced, alloc, todo, acked, scn, used>>

\* Step 4: the INITIALIZING entry
node_init(p) ==
    /\ At(p, "dir") /\ Len(mem[Last(h.dirs)].entries) < DirEntriesPerPage
    /\ LET j    == job[p]
           slot == select_slot(mem[j.page])
       IN  /\ Write([kind |-> "NodeInit", page |-> j.page, slot |-> slot, node |-> j.id,
                     level |-> j.level, vec |-> j.vec],
                    apply_node_at(mem[j.page], slot, j.level, j.vec))
           /\ Go(p, [j EXCEPT !.pc = "append"] @@ [slot |-> slot])
    /\ UNCHANGED <<disk, synced, h, alloc, todo, acked, scn, used>>

\* Step 5: the directory entry is the allocation of the node id; an empty
\* index has nothing to connect to
append_mapping(p) ==
    /\ At(p, "append")
    /\ LET j    == job[p]
           tail == Last(h.dirs)
       IN  /\ Write([kind |-> "DirAppend", page |-> tail, node |-> j.id, place |-> <<j.page, j.slot>>],
                    dir_append(mem[tail], j.id, <<j.page, j.slot>>))
           /\ Go(p, [j EXCEPT !.pc = "connect?"])
    /\ h' = [h EXCEPT !.hwm = job[p].id + 1]
    /\ alloc' = NOBODY
    /\ UNCHANGED <<disk, synced, todo, acked, scn, used>>

connect_or_not(p) ==
    /\ At(p, "connect?")
    /\ Go(p, [job[p] EXCEPT !.pc = IF h.ep # NONE THEN "pair" ELSE "meta"])
    /\ UNCHANGED <<mem, disk, wal, synced, h, alloc, todo, acked, scn, used>>

----------------------------------------------------------------------------
(* connect_phases.                                                         *)

\* The entry point and its level in one load; the lists start empty
connect_begin(p) ==
    /\ At(p, "pair")
    /\ Go(p, [pc |-> "view", ep |-> h.ep, l |-> h.max,
              own |-> [l \in 0..job[p].level |-> {}],
              top |-> IF job[p].level < h.max THEN job[p].level ELSE h.max] @@ job[p])
    /\ UNCHANGED <<mem, disk, wal, synced, h, alloc, todo, acked, scn, used>>

\* The high-water mark of the search's view, read after the pair
read_view(p) ==
    /\ At(p, "view")
    /\ Go(p, [pc |-> "search", hwm |-> h.hwm] @@ job[p])
    /\ UNCHANGED <<mem, disk, wal, synced, h, alloc, todo, acked, scn, used>>

\* One level: above the node's own level a greedy step down, at or below it a
\* beam search and a selection.  Nothing is written yet.
search_level(p) ==
    /\ At(p, "search")
    /\ LET j == job[p]
           g == PagedGraph(mem, h.dirs, j.hwm, mem[META])
           w == search_layer(g, j.vec, j.ep, IF j.l > j.level THEN 1 ELSE EfConstruction, j.l)
           found == [j EXCEPT !.ep = nearest(w).id, !.l = @ - 1,
                              !.own = IF j.l > j.level THEN @
                                      ELSE [@ EXCEPT ![j.l] = select_neighbors(g, w, M)]]
           edges == SelectSeq([n \in 1..((j.top + 1) * j.hwm) |->
                                  <<j.top - ((n - 1) \div j.hwm), (n - 1) % j.hwm>>],
                              LAMBDA e : e[2] \in found.own[e[1]])
       IN  Go(p, IF j.l = 0
                   THEN [pc |-> "own", edges |-> edges,
                         lists |-> {l \in 0..j.top : found.own[l] # {}}] @@ found
                   ELSE found)
    /\ UNCHANGED <<mem, disk, wal, synced, h, alloc, todo, acked, scn, used>>

\* Step 5: the node's own lists, lowest level first
own_list(p) ==
    /\ At(p, "own")
    /\ LET j == job[p]
           l == Min(j.lists)
       IN  /\ Write([kind |-> "SetNeighbors", page |-> j.page, slot |-> j.slot, node |-> j.id,
                     level |-> l, list |-> j.own[l], why |-> "own", owes |-> j.lists \ {l}],
                    set_neighbors(mem[j.page], j.slot, l, j.own[l]))
           /\ Go(p, [j EXCEPT !.lists = @ \ {l}, !.pc = IF j.lists = {l} THEN "back" ELSE "own"])
    /\ UNCHANGED <<disk, synced, h, alloc, todo, acked, scn, used>>

\* Step 6: one edge back, under the neighbour's latch
back_edge(p) ==
    /\ At(p, "back")
    /\ LET j     == job[p]
           l     == Head(j.edges)[1]
           nb    == Head(j.edges)[2]
           place == resolve(mem, h.dirs, nb)
           g     == PagedGraph(mem, h.dirs, j.hwm, mem[META])
           list  == g.adj[nb][l]
           final == shrink(g, nb, l, list \union {j.id})
       IN  IF j.id \in list THEN Fail(p) /\ UNCHANGED <<mem, wal>>
           ELSE /\ Write([kind |-> "SetNeighbors", page |-> place[1], slot |-> place[2],
                          node |-> nb, level |-> l, list |-> final, why |-> "back",
                          owes |-> (list \union {j.id}) \ final],
                         set_neighbors(NodePage(place), place[2], l, final))
                /\ Go(p, [j EXCEPT !.edges = Tail(@),
                                   !.ran = (Len(j.edges) = 1),
                                   !.pc = IF Len(j.edges) = 1 THEN "meta" ELSE "back"])
    /\ UNCHANGED <<disk, synced, h, alloc, todo, acked, scn, used>>

----------------------------------------------------------------------------
(* insert_impl, steps 8 to 10.                                             *)

\* Under the mutex: a racing first insert that lost connects after all; a node
\* above the current level, or the first one, becomes the entry point
meta_decision(p) ==
    /\ At(p, "meta") /\ alloc = NOBODY
    /\ LET j == job[p]
       IN  IF h.ep # NONE /\ ~j.ran
             THEN Go(p, [j EXCEPT !.pc = "pair"]) /\ UNCHANGED <<mem, wal, h>>
           ELSE IF h.ep = NONE \/ j.level > h.max
             THEN /\ Write([kind |-> "MetaUpdate", page |-> META, ep |-> j.id, max |-> j.level],
                           apply_meta(mem[META], j.id, j.level))
                  /\ h' = [h EXCEPT !.ep = j.id, !.max = j.level]
                  /\ Go(p, [j EXCEPT !.pc = "publish"])
           ELSE Go(p, [j EXCEPT !.pc = "publish"]) /\ UNCHANGED <<mem, wal, h>>
    /\ UNCHANGED <<disk, synced, alloc, todo, acked, scn, used>>

publish(p) ==
    /\ At(p, "publish")
    /\ LET j == job[p]
       IN  /\ Write([kind |-> "PublishLive", page |-> j.page, slot |-> j.slot, node |-> j.id],
                    publish_live(mem[j.page], j.slot))
           /\ Go(p, IF j.flush THEN [pc |-> "flush", ok |-> {<<"insert", j.id, j.vec>>}] ELSE Idle)
    /\ UNCHANGED <<disk, synced, h, alloc, todo, acked, scn, used>>

\* Mutant: Ok before the log is synced
flush_later(p) ==
    /\ At(p, "flush")
    /\ acked' = acked \union job[p].ok
    /\ Go(p, Idle)
    /\ UNCHANGED <<mem, disk, wal, synced, h, alloc, todo, scn, used>>

\* The success boundary: durable before Ok
flush(p) ==
    /\ At(p, "flush")
    /\ synced' = Len(wal)
    /\ acked' = acked \union job[p].ok
    /\ Go(p, Idle)
    /\ UNCHANGED <<mem, disk, wal, h, alloc, todo, scn, used>>

----------------------------------------------------------------------------
(* delete_impl and redirect_tombstoned_in_edges.                           *)

\* Under the node's latch
delete(p) ==
    /\ At(p, "idle") /\ todo[p] # <<>> /\ Head(todo[p]).kind = "delete" /\ h.open
    /\ todo' = [todo EXCEPT ![p] = Tail(@)]
    /\ LET id    == Head(todo[p]).id
           place == resolve(mem, h.dirs, id)
           node  == with_node(mem, h.dirs, id)
       IN  IF id >= h.hwm THEN UNCHANGED <<mem, wal, job>>
           ELSE IF node.tomb \/ ~node.live THEN UNCHANGED <<mem, wal, job>>
           ELSE /\ Write([kind |-> "Tombstone", page |-> place[1], slot |-> place[2], node |-> id],
                         apply_tombstone(NodePage(place), place[2]))
                /\ Go(p, IF Head(todo[p]).flush
                            THEN [pc |-> "flush", ok |-> {<<"delete", id>>}] ELSE Idle)
    /\ UNCHANGED <<disk, synced, h, alloc, acked, scn, used>>

\* Phase A: the states and the lists of all nodes, without a latch; then the
\* edges of LIVE nodes to tombstones, in the order of the loops
redirect_scan(p) ==
    /\ At(p, "idle") /\ todo[p] # <<>> /\ Head(todo[p]).kind = "redirect" /\ h.open
    /\ todo' = [todo EXCEPT ![p] = Tail(@)]
    /\ LET ids   == 0..(h.hwm - 1)
           nodes == [i \in ids |-> with_node(mem, h.dirs, i)]
           all   == [n \in 1..(h.hwm * (LMax + 1) * h.hwm) |->
                       <<(n - 1) \div (h.hwm * (LMax + 1)), ((n - 1) \div h.hwm) % (LMax + 1),
                         (n - 1) % h.hwm>>]
           hits  == SelectSeq(all, LAMBDA e :
                        /\ nodes[e[1]].live /\ ~nodes[e[1]].tomb /\ e[2] <= nodes[e[1]].top
                        /\ e[3] \in nodes[e[1]].adj[e[2]] /\ nodes[e[3]].tomb)
       IN  Go(p, [pc |-> IF hits = <<>> THEN "flush" ELSE "redirect", nodes |-> nodes,
                  edges |-> hits, ok |-> {}])
    /\ UNCHANGED <<mem, disk, wal, synced, h, alloc, acked, scn, used>>

\* What takes the tombstone's place in x's list: its LIVE neighbour, first one
\* that has an edge back to x, then the nearest to it, then the smallest
substitute(nodes, x, l, t) ==
    LET cands   == {c \in nodes[t].adj[l] :
                      c \in DOMAIN nodes /\ nodes[c].live /\ ~nodes[c].tomb /\ c # x}
        paired  == {c \in cands : x \in nodes[c].adj[l]}
        pool    == IF paired # {} THEN paired ELSE cands
        ranked  == {[dist |-> distance(nodes[t].vec, nodes[c].vec), id |-> c] : c \in pool}
    IN  IF cands = {} THEN NONE ELSE nearest(ranked).id

\* Phases B and C: one edge, under the holder's latch
redirect_edge(p) ==
    /\ At(p, "redirect")
    /\ LET j     == job[p]
           x     == Head(j.edges)[1]
           l     == Head(j.edges)[2]
           t     == Head(j.edges)[3]
           to    == substitute(j.nodes, x, l, t)
           place == resolve(mem, h.dirs, x)
           list  == with_node(mem, h.dirs, x).adj[l]
           new   == (list \ {t}) \union {to}
       IN  /\ IF t \notin list \/ to = NONE THEN UNCHANGED <<mem, wal>>
              ELSE Write([kind |-> "SetNeighbors", page |-> place[1], slot |-> place[2],
                          node |-> x, level |-> l, list |-> new, why |-> "redirect",
                          owes |-> {t}],
                         set_neighbors(NodePage(place), place[2], l, new))
           /\ Go(p, [j EXCEPT !.edges = Tail(@),
                              !.pc = IF Len(j.edges) = 1 THEN "flush" ELSE "redirect"])
    /\ UNCHANGED <<disk, synced, h, alloc, todo, acked, scn, used>>

----------------------------------------------------------------------------
(* Failures, write-back, crashes and the open.                             *)

\* An operation returns an error at one of its steps; the mutex it holds is
\* released, what it logged stays
give_up(p) ==
    /\ may("errors") /\ Use("errors")
    /\ job[p].pc \notin {"idle", "corrupted"}
    /\ alloc' = IF alloc = p THEN NOBODY ELSE alloc
    /\ Go(p, Idle)
    /\ UNCHANGED <<mem, disk, wal, synced, h, todo, acked, scn>>

\* Mutant: a page is written back before the log
evict_unlogged(q) ==
    /\ may("evicts") /\ Use("evicts")
    /\ h.open /\ disk[q] # mem[q]
    /\ disk' = [disk EXCEPT ![q] = mem[q]]
    /\ UNCHANGED <<mem, wal, synced, h, alloc, todo, job, acked, scn>>

\* A page is written back; if its last record is not durable the log is synced
\* first, all of it
evict(q) ==
    /\ may("evicts") /\ Use("evicts")
    /\ h.open /\ disk[q] # mem[q]
    /\ disk' = [disk EXCEPT ![q] = mem[q]]
    /\ synced' = IF mem[q].lsn > synced THEN Len(wal) ELSE synced
    /\ UNCHANGED <<mem, wal, h, alloc, todo, job, acked, scn>>

\* A prefix of the log survives, at least what was synced, and what the data
\* file holds; the pages allocated are those whose image is in the log
crash ==
    /\ may("crashes") /\ Use("crashes")
    /\ h.open
    /\ \E k \in synced..Len(wal) :
         LET n == Cardinality({i \in 1..k : wal[i].kind = "Fpi"})
         IN  /\ wal' = SubSeq(wal, 1, k) /\ synced' = k
             /\ disk' = SubSeq(disk, 1, n) /\ mem' = SubSeq(disk, 1, n)
    /\ h' = Closed /\ alloc' = NOBODY
    /\ job' = [p \in Procs |-> Idle]
    /\ todo' = [p \in Procs |-> scn.after[p]]
    /\ UNCHANGED <<acked, scn>>

\* The page of the last directory entry, which is not always on the last page
current_node_page(pages, chain, hwm) ==
    IF hwm = 0 THEN INVALID ELSE resolve(pages, chain, hwm - 1)[1]

\* Redo, then open: the chain is walked, an entry point that was never
\* published is repaired, and the level draws are skipped that were used
reopen ==
    /\ ~h.open
    /\ LET pages == replay(mem, wal, 1)
           chain == check_dir_chain(pages, pages[META].dir_head)
           hwm   == chain_hwm(pages, chain)
           broken == \E q \in DOMAIN pages : pages[q].type = "corrupted"
           repair == hwm > 0 /\ pages[META].ep = NONE
           top    == with_node(pages, chain, 0).top
           fixed  == IF repair
                       THEN [pages EXCEPT ![META] = stamp_pd_lsn(apply_meta(@, 0, top), Len(wal) + 1)]
                       ELSE pages
           lost   == repair /\ LET first == resolve(pages, chain, 0)
                               IN  TypeOf(pages, first[1]) = "node"
                                     => ~slot_is_occupied(pages[first[1]], first[2])
       IN  IF broken \/ chain = <<>> \/ pages[META].ep >= hwm \/ lost
             THEN /\ job' = [p \in Procs |-> [pc |-> "corrupted"]]
                  /\ UNCHANGED <<mem, wal, h>>
           ELSE /\ wal' = IF repair
                            THEN Append(wal, [kind |-> "MetaUpdate", page |-> META, ep |-> 0, max |-> top])
                            ELSE wal
                /\ mem' = fixed
                /\ h' = [open |-> TRUE, hwm |-> hwm, ep |-> fixed[META].ep, max |-> fixed[META].max,
                         dirs |-> chain, cur |-> current_node_page(fixed, chain, hwm), drawn |-> hwm]
                /\ UNCHANGED job
    /\ UNCHANGED <<disk, synced, alloc, todo, acked, scn, used>>

Step(p) ==
    \/ insert_begin(p) \/ extend_directory(p) \/ link_directory(p) \/ node_init(p)
    \/ append_mapping(p) \/ connect_or_not(p) \/ connect_begin(p) \/ read_view(p)
    \/ search_level(p) \/ own_list(p) \/ back_edge(p) \/ meta_decision(p) \/ publish(p)
    \/ flush(p) \/ delete(p) \/ redirect_scan(p) \/ redirect_edge(p) \/ give_up(p)

Next == \/ \E p \in Procs : Step(p)
        \/ \E q \in DOMAIN mem : evict(q)
        \/ crash \/ reopen

Spec == Init /\ [][Next]_vars

----------------------------------------------------------------------------
(* What the index promises.                                                *)

Nodes   == 0..(h.hwm - 1)
Node(i) == with_node(mem, h.dirs, i)
Quiet   == h.open /\ \A p \in Procs : At(p, "idle")

\* Neither an operation nor a redo handler nor an open finds the index corrupt,
\* whatever prefix of the log survived and whichever pages had been written
\* back; the audit passes on the pages between any two steps of concurrent
\* inserts, and the handle's cached words are the pages' (audit.rs, index.rs:
\* insert_impl, open)
IndexSound ==
    /\ \A p \in Procs : ~At(p, "corrupted")
    /\ h.open =>
         /\ \A q \in DOMAIN mem : mem[q].type # "corrupted"
         /\ h.dirs = check_dir_chain(mem, DIR_HEAD) /\ h.hwm = chain_hwm(mem, h.dirs)
         /\ h.ep = mem[META].ep /\ h.max = mem[META].max
         /\ (h.hwm = 0 \/ h.ep # NONE) => audit_index(mem, mem[META])

\* A node that a search can reach has all the lists its insert had to write,
\* even when the insert failed or the crash cut it off: the edges to a node come
\* after its own lists (index.rs: connect_phases, steps 5 and 6).  Only a node
\* that became entry point of an index without one has none.
ReachableIsComplete ==
    h.open => \A i \in reachable(Graph) :
        \/ i < Len(scn.base)
        \/ \E n \in DOMAIN wal : /\ wal[n].kind = "SetNeighbors" /\ wal[n].node = i
                                 /\ wal[n].why = "own" /\ wal[n].owes = {}
        \/ \E n \in DOMAIN wal : /\ wal[n].kind = "MetaUpdate" /\ wal[n].ep = i
                                 /\ \A k \in 1..(n - 1) : wal[k].kind # "MetaUpdate"

\* As long as no list was cut to its limit and no edge redirected, every LIVE node
\* is found from the entry point and the edges between LIVE nodes go both ways:
\* also when an insert raced the first one of an empty index or a promotion, and
\* after a crash or an open's repair (index.rs: insert_impl, steps 8 and 9)
LiveIsReachable ==
    (/\ h.open /\ scn.base = <<>>
     /\ \A n \in DOMAIN wal : wal[n].kind = "SetNeighbors" /\ wal[n].why # "own" => wal[n].owes = {})
        => LET live == {i \in Nodes : Node(i).live}
           IN  live \subseteq reachable(Graph) /\ audit_symmetry(Graph, live) = {}

\* What returned Ok survives every later crash: an inserted node is in the index
\* with its vector and LIVE, a deleted one is tombstoned (index.rs: insert,
\* delete, open)
AckedSurvives ==
    h.open => \A a \in acked :
        /\ a[2] \in Nodes /\ Node(a[2]).live
        /\ a[1] = "insert" => Node(a[2]).vec = a[3]
        /\ a[1] = "delete" => Node(a[2]).tomb

\* A redirect pass that no other operation disturbed leaves a LIVE node no edge to
\* a tombstone that has a LIVE neighbour to offer, and the lists it wrote respect
\* their limits (index.rs: redirect_tombstoned_in_edges)
RedirectConverges ==
    \A p \in Procs :
        (/\ At(p, "flush") /\ "nodes" \in DOMAIN job[p] /\ DOMAIN job[p].nodes = Nodes
         /\ \A i \in Nodes : job[p].nodes[i].tomb = Node(i).tomb /\ job[p].nodes[i].live = Node(i).live)
            => \A x \in Nodes : Node(x).live /\ ~Node(x).tomb =>
                 \A l \in 0..Node(x).top : \A t \in Node(x).adj[l] :
                    Node(t).tomb => \A c \in Node(t).adj[l] \ {x} : Node(c).tomb \/ ~Node(c).live

\* Inserts one after the other, none failing, build on the pages the graph that
\* the in-memory index builds of the same vectors and levels (graph.rs: insert)
MatchesTwin ==
    (/\ Quiet /\ Cardinality({p \in Procs : scn.ops[p] # <<>>}) = 1 /\ acked # {}
     /\ \A c \in DOMAIN used : scn.used[c] = 0
     /\ \A p \in Procs : \A k \in DOMAIN scn.ops[p] : scn.ops[p][k].kind = "insert")
        => Graph = build([i \in 1..h.hwm |-> [vec |-> Node(i - 1).vec, level |-> scn.draws[i]]])

\* What a search can reach is what inserts completed (connect_phases, insert_impl):
\* ReachableIsComplete and LiveIsReachable
Findable == ReachableIsComplete /\ LiveIsReachable

\* What an operation leaves when nothing disturbed it (insert_impl,
\* redirect_tombstoned_in_edges): RedirectConverges and MatchesTwin
LeavesWhatItShould == RedirectConverges /\ MatchesTwin

\* Between any two steps the pages are an index in which searches find what they
\* should (insert_impl, redo.rs, open).
HnswSound == IndexSound /\ Findable

\* What an operation reports done is done, and stays so.
HnswKept == AckedSurvives /\ LeavesWhatItShould

\* The beam search, the neighbour selection and the graphs they build do what
\* their contracts in graph.rs say (HnswGraph: GraphAlgorithms); asked once, at the
\* start
AlgorithmsHold == used = scn.used => GraphAlgorithms

\* The redirect pass never takes a LIVE node out of reach: its documentation says
\* that `connectivity NEVER degrades' (index.rs: redirect_tombstoned_in_edges).
\* It does not hold.
ReachNeverDegrades ==
    [][h.open /\ h'.open =>
         {i \in reachable(Graph) : Node(i).live /\ ~Node(i).tomb} \subseteq reachable(Graph)']_vars
============================================================================
