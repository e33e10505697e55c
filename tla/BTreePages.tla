----------------------------- MODULE BTreePages ----------------------------
(***************************************************************************)
(* pg-am-btree: what one B+Tree page holds, what the operations do to it,  *)
(* and how a tree of pages is built and validated.                         *)
(*                                                                         *)
(* An entry is <<key, trailer>>: the trailer of a leaf entry is the heap   *)
(* TID, that of an internal entry the child page.  Keys and trailers are   *)
(* numbers: the code compares the bytes of a key, then the trailer.  The   *)
(* empty key, the -infinity marker of a leftmost child, is key 0, and no   *)
(* probe is below it.  A page holds Cap entries; `used' counts the tuples  *)
(* carved out of its data area, which a delete does not give back.         *)
(***************************************************************************)
EXTENDS Integers, Sequences, SequencesExt, FiniteSets, FiniteSetsExt

CONSTANTS Cap,       \* entries a page has room for: 3 at least, for a key is at
                     \* most a third of a page (MAX_INDEX_KEY_BYTES)
          MaxPages   \* bound on the page numbers

INVALID == 0
PageIds == 1..MaxPages

Before(a, b)   == a[1] < b[1] \/ (a[1] = b[1] /\ a[2] < b[2])
AtOrBefore(a, b) == a = b \/ Before(a, b)
Strictly(es)   == \A i \in 1..(Len(es) - 1) : Before(es[i], es[i + 1])

----------------------------------------------------------------------------
(* The page.                                                               *)

\* A page nobody has initialised: all zeros
Zero == [level |-> -1, root |-> FALSE, incomplete |-> FALSE, prev |-> INVALID,
         next |-> INVALID, entries |-> <<>>, used |-> 0]

init(level, root) == [Zero EXCEPT !.level = level, !.root = root]

count(page)     == Len(page.entries)
entry(page, slot) == page.entries[slot + 1]        \* slots count from 0
first(page)     == page.entries[1]
final(page)     == page.entries[count(page)]
fits(page)      == page.used < Cap

page_never_had_entries(page) == page.used = 0

insert_entry_at(page, slot, e) ==
    [page EXCEPT !.entries = InsertAt(@, slot + 1, e), !.used = @ + 1]

\* The tuple's bytes stay behind as dead space
remove_entry_at(page, slot) == [page EXCEPT !.entries = RemoveAt(@, slot + 1)]

apply_prepare_left(page, right) == [page EXCEPT !.incomplete = TRUE, !.next = right]
apply_commit_left(page)         == [page EXCEPT !.incomplete = FALSE, !.root = FALSE]

init_right_page(left, old_next, level) ==
    [init(level, FALSE) EXCEPT !.prev = left, !.next = old_next]

\* The entries from slot on go to the right page; the left page is rebuilt
\* with the others, which is what gives its dead space back.
truncated(left, slot) == LET kept == SubSeq(left.entries, 1, slot)
                         IN  [left EXCEPT !.entries = kept, !.used = Len(kept)]

extended(right, left, slot) ==
    LET moved == SubSeq(left.entries, slot + 1, count(left))
    IN  [right EXCEPT !.entries = @ \o moved, !.used = @ + Len(moved)]

----------------------------------------------------------------------------
(* Searching a page.  below[s] says that slot s sorts below the probe.     *)

RECURSIVE bisect(_, _, _)
bisect(below, lo, hi) ==
    IF lo >= hi THEN lo
    ELSE LET mid == (lo + hi) \div 2
         IN  IF below[mid] THEN bisect(below, mid + 1, hi) ELSE bisect(below, lo, mid)

lower_bound(page, e) ==
    bisect([s \in 0..(count(page) - 1) |-> Before(entry(page, s), e)], 0, count(page))

leaf_lower_bound(page, key, tid)       == lower_bound(page, <<key, tid>>)
internal_lower_bound(page, key, child) == lower_bound(page, <<key, child>>)

\* Mutant: a key equal to the separator stays on its left.
find_child_below(page, key) ==
    LET lo == bisect([s \in 0..(count(page) - 1) |-> entry(page, s)[1] < key], 0, count(page))
    IN  entry(page, IF lo = 0 THEN 0 ELSE lo - 1)[2]

\* The last entry whose key is at or below the probe's
find_child(page, key) ==
    LET lo == bisect([s \in 0..(count(page) - 1) |-> entry(page, s)[1] <= key], 0, count(page))
    IN  entry(page, IF lo = 0 THEN 0 ELSE lo - 1)[2]

internal_page_points_at(page, child) == \E i \in 1..count(page) : page.entries[i][2] = child

----------------------------------------------------------------------------
(* choose_split_slot, over the cost of every entry: the pending entry goes *)
(* to the left half when the split point is at or after its position.      *)

Sum(costs, a, b) == MapThenSumSet(LAMBDA i : costs[i], a..b)

valid_split(costs, p, pending, capacity, s) ==
    LET lands_left == s >= p
        left_need  == Sum(costs, 1, s) + (IF lands_left THEN pending ELSE 0)
        right_need == Sum(costs, s + 1, Len(costs)) + (IF lands_left THEN 0 ELSE pending)
    IN  left_need <= capacity /\ right_need <= capacity

\* The slots in the order they are tried: the median, then ever farther from it
candidates(n) ==
    FlattenSeq([d \in 1..(n \div 2 + 2) |->
                   <<n \div 2 + d - 1, IF d - 1 > n \div 2 THEN 0 ELSE n \div 2 - (d - 1)>>])

\* -1 is the PageFull error
choose_split_slot(costs, p, pending, capacity) ==
    LET n    == Len(costs)
        good == SelectSeq(candidates(n),
                          LAMBDA s : s \in 1..(n - 1)
                                       /\ valid_split(costs, p, pending, capacity, s))
    IN  IF good = <<>> THEN -1 ELSE Head(good)

Units(page) == [i \in 1..count(page) |-> 1]

median(page)              == count(page) \div 2
split_slot(page, pending) == choose_split_slot(Units(page), lower_bound(page, pending), 1, Cap)

----------------------------------------------------------------------------
(* Bulk load: the sorted entries fill the leaves left to right, then each  *)
(* level of low keys fills the level above, until one page is left.  The   *)
(* meta page is page 1; it gets its root record last.                      *)

runs(n) == IF n = 0 THEN 1 ELSE (n + Cap - 1) \div Cap

\* One level: the built pages in chain order, the first of them page `base'
pack_level(items, level, base) ==
    [i \in 1..runs(Len(items)) |->
        LET es  == [j \in 1..Min({Cap, Len(items) - (i - 1) * Cap}) |->
                       IF i = 1 /\ j = 1 /\ level > 0 THEN <<0, items[1][2]>>
                                                      ELSE items[(i - 1) * Cap + j]]
        IN  [init(level, runs(Len(items)) = 1) EXCEPT
                !.prev    = IF i = 1 THEN INVALID ELSE base + i - 2,
                !.next    = IF i = runs(Len(items)) THEN INVALID ELSE base + i,
                !.entries = es, !.used = Len(es)]]

RECURSIVE build_up(_, _, _)
build_up(items, level, built) ==
    LET base  == Len(built) + 1
        pages == pack_level(items, level, base)
        lows  == [i \in 1..Len(pages) |-> <<items[(i - 1) * Cap + 1][1], base + i - 1>>]
    IN  IF Len(pages) = 1
          THEN [pages |-> built \o pages, root |-> base, level |-> level]
          ELSE build_up(lows, level + 1, built \o pages)

sorted(entries) ==
    [i \in 1..Cardinality(entries) |->
        CHOOSE e \in entries : Cardinality({d \in entries : Before(d, e)}) = i - 1]

build(entries) == build_up(sorted(entries), 0, <<[Zero EXCEPT !.level = -2]>>)

----------------------------------------------------------------------------
(* validate: what a tree nobody is writing must look like.                 *)

RECURSIVE leaves(_, _)
leaves(pages, q) ==
    IF pages[q].level = 0 THEN <<q>>
    ELSE FlattenSeq([i \in 1..count(pages[q]) |-> leaves(pages, pages[q].entries[i][2])])

filled(pages, q) == SelectSeq(leaves(pages, q), LAMBDA l : count(pages[l]) > 0)

RECURSIVE validate_page(_, _, _)
validate_page(pages, q, level) ==
    LET page     == pages[q]
        child(i) == page.entries[i][2]
        owning   == {i \in 1..count(page) : filled(pages, child(i)) # <<>>}
        adjacent(i, j) == i < j /\ \A k \in owning : k <= i \/ j <= k
    IN  /\ page.level = level /\ ~page.incomplete
        /\ Strictly(page.entries)
        /\ level > 0 =>
             /\ count(page) > 0
             /\ \A i \in 1..count(page) : validate_page(pages, child(i), level - 1)
             /\ \A i, j \in owning : adjacent(i, j) =>
                  \/ Before(final(pages[Last(filled(pages, child(i)))]),
                            first(pages[Head(filled(pages, child(j)))]))
                  \/ page.entries[i][1] = page.entries[j][1]

RECURSIVE chain_head(_, _)
chain_head(pages, q) == IF pages[q].prev = INVALID THEN q ELSE chain_head(pages, pages[q].prev)

RECURSIVE chain_from(_, _)
chain_from(pages, q) == IF q = INVALID THEN <<>> ELSE <<q>> \o chain_from(pages, pages[q].next)

leaf_chain(pages, root) ==
    chain_from(pages, chain_head(pages, Head(leaves(pages, root))))

chain_entries(pages, root) ==
    LET chain == leaf_chain(pages, root)
    IN  FlattenSeq([i \in 1..Len(chain) |-> pages[chain[i]].entries])

validate(pages, root, level) ==
    IF count(pages[root]) = 0 THEN level = 0
    ELSE LET chain == leaf_chain(pages, root)
         IN  /\ validate_page(pages, root, level)
             /\ Strictly(chain_entries(pages, root))
             /\ Len(chain) = Len(leaves(pages, root))
             /\ ToSet(chain) = ToSet(leaves(pages, root))

----------------------------------------------------------------------------
(* Properties of the page algorithms, over small pages.                    *)

SmallPages  == {sorted(E) : E \in SUBSET ((1..3) \X (1..2))}
SmallPage(es) == [init(0, FALSE) EXCEPT !.entries = es, !.used = Len(es)]

\* The binary searches find what a scan of the page finds: the number of entries
\* before the probe, and the child whose range holds the key (leaf_lower_bound,
\* find_child); the tree bulk load builds from any entries validates and holds
\* exactly them (build, pack_level)
SearchesAndBuilds ==
    \A es \in SmallPages :
       /\ \A e \in (0..4) \X (0..3) :
            lower_bound(SmallPage(es), e) = Cardinality({i \in DOMAIN es : Before(es[i], e)})
       /\ \A k \in 0..4 : es # <<>> =>
            find_child(SmallPage(es), k) = es[Max({1} \union {i \in DOMAIN es : es[i][1] <= k})][2]
       /\ LET t == build(ToSet(es))
          IN  validate(t.pages, t.root, t.level) /\ chain_entries(t.pages, t.root) = es

\* A full page of entries that are each at most a third of it can be split so that
\* the pending entry fits the half it sorts into, wherever that is: the PageFull
\* error at the end of choose_split_slot is unreachable, as its comment says
SplitAlwaysFits ==
    \A n \in 2..5, pending \in 1..3 : \A costs \in [1..n -> 1..3] : \A p \in 0..n :
       LET capacity == 9
           s == choose_split_slot(costs, p, pending, capacity)
           side(a, b, mine) == Sum(costs, a, b) + (IF mine THEN pending ELSE 0)
       IN  Sum(costs, 1, n) \in (capacity - pending + 1)..capacity =>
             /\ s \in 1..(n - 1)
             /\ side(1, s, s >= p) <= capacity /\ side(s + 1, n, s < p) <= capacity

\* Both together, as the run checks them
PageAlgorithms == \A claim \in {SearchesAndBuilds, SplitAlwaysFits} : claim

=============================================================================
