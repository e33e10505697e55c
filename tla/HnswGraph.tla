----------------------------- MODULE HnswGraph -----------------------------
(***************************************************************************)
(* pg-am-hnsw: the algorithms of the HNSW graph (graph.rs, distance.rs)    *)
(* and the graph kept in memory.                                           *)
(*                                                                         *)
(* A graph is [n, ep, max, vec, top, adj]: n nodes, numbered from 0, the   *)
(* entry point and its level, and for each node its vector, its top level  *)
(* and, per level, its neighbours.  A neighbour list is strictly ascending *)
(* in the code, so it is a set here and is walked from its minimum up.     *)
(* The components of a vector are whole numbers, for which the arithmetic  *)
(* of the squared and of the inner-product distance is exact.              *)
(***************************************************************************)
EXTENDS Integers, Sequences, SequencesExt, FiniteSets, FiniteSetsExt, Functions

CONSTANTS M, MMax0, EfConstruction, \* HnswParams
          Metric,                   \* "l2" or "ip"
          Selection,                \* "heuristic" or "simple"
          LMax,                     \* bound on the levels drawn: l_max
          Vectors,                  \* the vectors stored and asked for
          MaxGraph                  \* bound on the nodes of the graphs the algorithms are checked on

\* HnswParams::new
ASSUME HnswParamsAssumption ==
    /\ M \in Nat /\ MMax0 \in Nat /\ EfConstruction \in Nat /\ LMax \in Nat
    /\ M >= 2 /\ MMax0 >= M /\ EfConstruction >= M
    /\ Metric \in {"l2", "ip"} /\ Selection \in {"heuristic", "simple"}

NONE == -1

m_max(level) == IF level = 0 THEN MMax0 ELSE M

----------------------------------------------------------------------------
(* Distances, and the total order of candidates.                           *)

l2_squared(a, b) ==
    FoldFunction(+, 0, [i \in DOMAIN a |-> (a[i] - b[i]) * (a[i] - b[i])])

negative_inner_product(a, b) == 0 - FoldFunction(+, 0, [i \in DOMAIN a |-> a[i] * b[i]])

distance(a, b) == IF Metric = "l2" THEN l2_squared(a, b) ELSE negative_inner_product(a, b)

Cand(g, q, id) == [dist |-> distance(q, g.vec[id]), id |-> id]

cmp(c, d)      == c.dist < d.dist \/ (c.dist = d.dist /\ c.id < d.id)
nearest(cands) == CHOOSE c \in cands : \A d \in cands : d = c \/ cmp(c, d)
worst(cands)   == CHOOSE c \in cands : \A d \in cands : d = c \/ cmp(d, c)
Ids(cands)     == {c.id : c \in cands}

----------------------------------------------------------------------------
(* Algorithm 2: beam search on one level.  g.n is the reader's view of the *)
(* node count: a neighbour at or above it is not there yet.                *)

\* The neighbours of an expanded candidate, in ascending order of their ids.
\* One that is admitted to the beam is expanded later even if it is evicted.
RECURSIVE admit(_, _, _, _, _)
admit(g, q, ef, pending, s) ==
    IF pending = {} THEN s
    ELSE LET e    == Min(pending)
             c    == Cand(g, q, e)
             into == s.results \union {c}
             next == CASE e >= g.n \/ e \in s.visited -> s
                       [] Cardinality(s.results) < ef \/ cmp(c, worst(s.results)) ->
                            [visited    |-> s.visited \union {e},
                             candidates |-> s.candidates \union {c},
                             results    |-> IF Cardinality(into) > ef
                                              THEN into \ {worst(into)} ELSE into]
                       [] OTHER -> [s EXCEPT !.visited = @ \union {e}]
         IN  admit(g, q, ef, pending \ {e}, next)

RECURSIVE beam(_, _, _, _, _)
beam(g, q, ef, level, s) ==
    IF s.candidates = {} THEN s.results
    ELSE LET c == nearest(s.candidates)
         IN  IF c.dist > worst(s.results).dist THEN s.results
             ELSE beam(g, q, ef, level,
                       admit(g, q, ef, g.adj[c.id][level], [s EXCEPT !.candidates = @ \ {c}]))

search_layer(g, q, ep, ef, level) ==
    LET c == Cand(g, q, ep)
    IN  beam(g, q, ef, level, [visited |-> {ep}, candidates |-> {c}, results |-> {c}])

\* Greedy descent from level `from' down to level `to'
RECURSIVE descend(_, _, _, _, _)
descend(g, q, ep, from, to) ==
    IF from < to THEN ep
    ELSE descend(g, q, nearest(search_layer(g, q, ep, 1, from)).id, from - 1, to)

----------------------------------------------------------------------------
(* Algorithm 4, with keep_pruned.                                          *)

RECURSIVE nearest_first(_, _)
nearest_first(cands, limit) ==
    IF cands = {} \/ limit = 0 THEN {}
    ELSE {nearest(cands)} \union nearest_first(cands \ {nearest(cands)}, limit - 1)

\* The candidates none of the kept ones is strictly nearer to than the
\* reference vector is, in ascending order, until there are `limit' of them
RECURSIVE keep(_, _, _, _)
keep(g, rest, limit, kept) ==
    IF rest = {} \/ Cardinality(kept) = limit THEN kept
    ELSE LET c        == nearest(rest)
             shadowed == \E r \in kept : distance(g.vec[c.id], g.vec[r.id]) < c.dist
         IN  keep(g, rest \ {c}, limit, IF shadowed THEN kept ELSE kept \union {c})

select_neighbors(g, cands, limit) ==
    LET kept == keep(g, cands, limit, {})
    IN  Ids(IF Cardinality(cands) <= limit THEN cands
            ELSE IF Selection = "simple" THEN nearest_first(cands, limit)
            ELSE kept \union nearest_first(cands \ kept, limit - Cardinality(kept)))

\* An over-full list goes through the same selection, from its owner's vector
shrink(g, owner, level, list) ==
    IF Cardinality(list) <= m_max(level) THEN list
    ELSE select_neighbors(g, {Cand(g, g.vec[owner], c) : c \in list}, m_max(level))

----------------------------------------------------------------------------
(* The graph in memory: Hnsw.                                              *)

NewGraph == [n |-> 0, ep |-> NONE, max |-> 0, vec |-> <<>>, top |-> <<>>, adj |-> <<>>]

\* f, with one more element at the end of its domain 0..n-1
Extend(f, n, x) == [i \in 0..n |-> IF i = n THEN x ELSE f[i]]

push_edge(g, nb, level, id) ==
    [g EXCEPT !.adj[nb][level] = shrink(g, nb, level, @ \union {id})]

RECURSIVE push_edges(_, _, _, _)
push_edges(g, nbs, level, id) ==
    IF nbs = {} THEN g
    ELSE push_edges(push_edge(g, Min(nbs), level, id), nbs \ {Min(nbs)}, level, id)

\* Phase 2 of insert, from level `level' down to 0.  The graph searched has
\* the new node (g.n counts it) but no edge leads to it on this level yet.
RECURSIVE link(_, _, _, _)
link(g, id, ep, level) ==
    IF level < 0 THEN g
    ELSE LET w   == search_layer(g, g.vec[id], ep, EfConstruction, level)
             nbs == select_neighbors(g, w, M)
             g1  == push_edges(g, nbs, level, id)
         IN  link([g1 EXCEPT !.adj[id][level] = nbs], id, nearest(w).id, level - 1)

insert(g, vector, level) ==
    LET id == g.n
        g1 == [g EXCEPT !.n = id + 1, !.vec = Extend(@, id, vector),
                        !.top = Extend(@, id, level),
                        !.adj = Extend(@, id, [l \in 0..level |-> {}])]
        g2 == link(g1, id, descend(g1, vector, g.ep, g.max, level + 1),
                   IF level < g.max THEN level ELSE g.max)
    IN  IF g.ep = NONE THEN [g1 EXCEPT !.ep = id, !.max = level]
        ELSE IF level > g.max THEN [g2 EXCEPT !.ep = id, !.max = level]
        ELSE g2

\* The k nearest found, as a set: the code lists them in the order of cmp
search(g, q, k, ef) ==
    IF g.ep = NONE \/ k = 0 THEN {}
    ELSE nearest_first(search_layer(g, q, descend(g, q, g.ep, g.max, 1), ef, 0), k)

RECURSIVE build(_)
build(inserts) ==
    IF inserts = <<>> THEN NewGraph
    ELSE insert(build(Front(inserts)), Last(inserts).vec, Last(inserts).level)
----------------------------------------------------------------------------
(* What the algorithms promise, on every graph of at most MaxGraph nodes.  *)

\* Every one-level graph of n nodes
LevelGraphs(n) ==
    {[n |-> n, vec |-> v, adj |-> [i \in 0..(n - 1) |-> [l \in {0} |-> a[i] \ {i}]]] :
        v \in [0..(n - 1) -> Vectors], a \in [0..(n - 1) -> SUBSET (0..(n - 1))]}

RECURSIVE closure(_, _, _)
closure(g, level, seen) ==
    LET more == seen \union UNION {g.adj[i][level] : i \in {j \in seen : level \in DOMAIN g.adj[j]}}
    IN  IF more = seen THEN seen ELSE closure(g, level, more)

\* A beam finds only what it can reach, no more than its width, and all of it
\* when it is wide enough; it never stops above a nearer neighbour
SearchFinds ==
    \A g \in LevelGraphs(MaxGraph), q \in Vectors, ef \in 1..MaxGraph :
        LET w     == search_layer(g, q, 0, ef, 0)
            reach == closure(g, 0, {0})
        IN  /\ Ids(w) \subseteq reach /\ Cardinality(w) <= ef
            /\ Cardinality(reach) <= ef => Ids(w) = reach
            /\ \A nb \in g.adj[nearest(w).id][0] : ~cmp(Cand(g, q, nb), nearest(w))

\* A selection is full when it can be, has the nearest candidate, and prefers
\* the candidates of the one set whose members no nearer member shadows
SelectionIsDiverse ==
    \A v \in [0..MaxGraph -> Vectors], q \in Vectors, limit \in 1..MaxGraph :
        LET g     == [n |-> MaxGraph + 1, vec |-> v]
            cands == {Cand(g, q, i) : i \in 0..MaxGraph}
            Shadowed(c, set) ==
                \E r \in set : cmp(r, c) /\ distance(v[c.id], v[r.id]) < c.dist
            lit   == CHOOSE set \in SUBSET cands :
                         \A c \in cands : c \in set <=> ~Shadowed(c, set)
            sel   == select_neighbors(g, cands, limit)
        IN  /\ Cardinality(sel) = IF limit < MaxGraph + 1 THEN limit ELSE MaxGraph + 1
            /\ nearest(cands).id \in sel
            /\ Selection = "heuristic" => Ids(lit) \subseteq sel \/ sel \subseteq Ids(lit)

\* Every level's lists lead to nodes of that level and stay within the cap, the
\* entry point is of the highest level, and as long as no list had to shrink a
\* wide search is exact
SoundGraph(g) ==
    LET nodes == 0..(g.n - 1)
    IN  /\ g.top[g.ep] = g.max /\ \A i \in nodes : g.top[i] <= g.max
        /\ \A i \in nodes : \A l \in 0..g.top[i] :
               /\ Cardinality(g.adj[i][l]) <= m_max(l)
               /\ i \notin g.adj[i][l]
               /\ \A nb \in g.adj[i][l] : g.top[nb] >= l
        /\ \A q \in Vectors, k \in 1..g.n :
               g.n <= M + 1 =>
                 search(g, q, k, g.n) = nearest_first({Cand(g, q, i) : i \in nodes}, k)

RECURSIVE SoundAfter(_, _)
SoundAfter(g, inserts) ==
    /\ g.n > 0 => SoundGraph(g)
    /\ inserts > 0 => \A v \in Vectors, level \in 0..LMax :
         \A next \in {insert(g, v, level)} : SoundAfter(next, inserts - 1)

\* Whatever is inserted, the graph stays sound
BuiltGraphsAreSound == SoundAfter(NewGraph, MaxGraph + 1)

\* The beam search, the neighbour selection and the graphs built with them do
\* what their contracts in graph.rs say: see the three claims
GraphAlgorithms == \A claim \in {SearchFinds, SelectionIsDiverse, BuiltGraphsAreSound} : claim
============================================================================
