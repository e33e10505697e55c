---------------------------- MODULE BTreeRecovery --------------------------
(***************************************************************************)
(* pg-am-btree: the log records of a B+Tree, their redo handlers and the   *)
(* undo pass that finishes the splits a crash left incomplete.             *)
(*                                                                         *)
(* An insert that splits logs one record per step (index.rs), each page is *)
(* written back on its own, and a crash keeps a prefix of the log and what *)
(* the data file holds.  Recovery replays the log from the last checkpoint *)
(* (redo.rs), scans for flagged pages and finishes their splits (undo.rs,  *)
(* finish_incomplete_split and below), and may crash itself.  The latches  *)
(* are the subject of BTree; what matters of them here is which pages      *)
(* cannot be written back (latched) and that others may write to the       *)
(* leaves between the copy and the commit of a split.                      *)
(*                                                                         *)
(* The LSN of a record is its position in the log.  Page 1 is the meta     *)
(* page: its last entry is <<root, level>>.  Checkpoints are taken while   *)
(* no record is appended and not yet applied, and page writes are not      *)
(* torn: CrashRecovery is about those two.                                 *)
(***************************************************************************)
EXTENDS BTreePages, TLC

CONSTANT Scenarios   \* [tree, entries, used]: what the index holds at first, what may be
                     \* inserted and deleted, and how often what may happen (bounds)

VARIABLES db,      \* data file, pool, log: see Start
          phase,   \* "up", "redo", "undo", or the error with which the open failed
          job,     \* the insert that is splitting
          pos,     \* redo: the next record to replay
          track,   \* the incomplete-split tracker: left page -> [right, level, slot]
          queue,   \* undo: the splits still to be finished
          jobs,    \* undo: the split being finished and the cascade above it
          settle,  \* undo: the pages still to be written back for the last CLR
          left_open, \* an insert gave its split up for want of a frame
          used     \* how often what may still happen

vars == <<db, phase, job, pos, track, queue, jobs, settle, left_open, used>>

META == 1
NoTrack == [q \in {} |-> INVALID]
Idle == [pc |-> "idle", e |-> <<0, 0>>, carry |-> FALSE, path |-> <<>>, splits |-> <<>>]

root_of(mem)  == final(mem[META])[1]
level_of(mem) == final(mem[META])[2]

----------------------------------------------------------------------------
(* Writing a page and its record.                                          *)

log(d, rec) == [d EXCEPT !.wal = Append(@, rec)]

\* The page as the last record left it: stamp_pd_lsn
put(d, q, page) == [d EXCEPT !.mem[q] = page, !.lsn[q] = Len(d.wal)]

\* pin_mut / ensure_fpi: the page's image is logged before its first change
\* after a checkpoint
touch(d, q) ==
    IF q \in d.owed /\ d.lsn[q] < d.redo
      THEN LET d1 == log(d, [kind |-> "fpi", page |-> q, image |-> d.mem[q]])
           IN  [d1 EXCEPT !.lsn[q] = Len(d1.wal)]
      ELSE d

RECURSIVE touch_all(_, _)
touch_all(d, qs) == IF qs = <<>> THEN d ELSE touch_all(touch(d, Head(qs)), Tail(qs))

\* BufferPool::flush: the log first
flush(d, q) == [d EXCEPT !.disk[q] = d.mem[q], !.dlsn[q] = d.lsn[q],
                         !.owed = @ \union {q}, !.synced = Len(d.wal)]

dirty(d, q) == d.disk[q] # d.mem[q] \/ d.dlsn[q] # d.lsn[q]

\* The allocator is rebuilt from the PageAlloc records
allocs(d)  == SelectSeq(d.wal, LAMBDA r : r.kind = "alloc")
next_id(d) == d.base + Len(allocs(d))

\* new_page, then the initialised page logged as an image: log_page_init
new_page(d, page) ==
    LET q  == next_id(d)
        d1 == log(d, [kind |-> "alloc", page |-> q])
        d2 == log(d1, [kind |-> "fpi", page |-> q, image |-> page])
    IN  [put(d2, q, page) EXCEPT !.owed = @ \ {q}]

insert_into_page(d, q, slot, e) ==
    LET page == d.mem[q]
        d1   == log(d, [kind |-> "insert", page |-> q, slot |-> slot, e |-> e,
                        level |-> page.level, root |-> page.root])
    IN  put(d1, q, insert_entry_at(page, slot, e))

write_meta_record(d, root, level) ==
    insert_into_page(touch(d, META), META, count(d.mem[META]), <<root, level>>)

----------------------------------------------------------------------------
(* The three steps of a split.                                             *)

split_prepare_on_guards(d, left, slot) ==
    LET page == d.mem[left]
        d1   == new_page(d, init_right_page(left, page.next, page.level))
        d2   == log(d1, [kind |-> "prepare", left |-> left, right |-> next_id(d),
                         level |-> page.level, old_next |-> page.next,
                         high |-> final(page)[1]])
    IN  put(put(d2, next_id(d), d1.mem[next_id(d)]), left,
            apply_prepare_left(page, next_id(d)))

\* The right page reaches the data file before the left page's latch is released
split_copy_on_guards(d, s) ==
    LET d1 == log(d, [kind |-> "copy", left |-> s.left, right |-> s.right,
                      slot |-> s.slot, pre |-> d.lsn[s.left]])
        d2 == put(d1, s.right, extended(d.mem[s.right], d.mem[s.left], s.slot))
    IN  flush(put(d2, s.left, truncated(d.mem[s.left], s.slot)), s.right)

split_commit(d, s, parent) ==
    LET d0   == touch(touch(d, parent), s.left)
        slot == internal_lower_bound(d0.mem[parent], s.sep, s.right)
        d1   == log(d0, [kind |-> "commit", left |-> s.left, right |-> s.right,
                         parent |-> parent, sep |-> s.sep, slot |-> slot])
        d2   == put(d1, parent, insert_entry_at(d0.mem[parent], slot, <<s.sep, s.right>>))
    IN  put(d2, s.left, apply_commit_left(d0.mem[s.left]))

\* The new root is seeded with the old one and published in the meta page
create_new_root(d, s) ==
    LET new == next_id(d)
        d1  == new_page(d, init(s.level + 1, TRUE))
    IN  write_meta_record(insert_into_page(d1, new, 0, <<0, s.left>>), new, s.level + 1)

----------------------------------------------------------------------------
(* Online.  The leaf an entry belongs to is found by descent, then right.  *)

RECURSIVE path_to(_, _, _)
path_to(mem, q, e) ==
    IF mem[q].level = 0 THEN <<q>> ELSE <<q>> \o path_to(mem, find_child(mem[q], e[1]), e)

RECURSIVE hop_right(_, _, _)
hop_right(mem, q, e) ==
    LET next == mem[q].next
    IN  IF next = INVALID THEN q
        ELSE IF count(mem[next]) > 0 /\ ~Before(e, first(mem[next])) THEN hop_right(mem, next, e)
        ELSE q

leaf_for(mem, e) == hop_right(mem, Last(path_to(mem, root_of(mem), e)), e)
holds(mem, e)    == e \in ToSet(mem[leaf_for(mem, e)].entries)

Running == {"up", "redo", "undo"}
Up == phase = "up" /\ UNCHANGED <<phase, pos, track, queue, jobs, settle>>
Stays == UNCHANGED left_open
Count(c) == used[c] > 0 /\ used' = [used EXCEPT ![c] = @ - 1]

\* The pages the splitting insert holds write latches on
latched ==
    CASE job.pc \in {"prepared", "copied"} ->
           ToSet(job.path) \union {Last(job.splits).left, Last(job.splits).right}
      [] job.pc = "commit" -> ToSet(job.path)
      [] OTHER -> {}

\* Others write to the leaves the splitting insert does not hold
insert(e) ==
    LET leaf == leaf_for(db.mem, e)
    IN  /\ Up /\ Stays /\ Count("writes") /\ ~holds(db.mem, e)
        /\ leaf \notin latched /\ fits(db.mem[leaf]) /\ job.e # e
        /\ LET d == IF db.mem[leaf].incomplete THEN db ELSE touch(db, leaf)
           IN  db' = insert_into_page(d, leaf, lower_bound(d.mem[leaf], e), e)
        /\ UNCHANGED job

\* e in the record is history: a delete logs the slot only
delete(e) ==
    LET leaf == leaf_for(db.mem, e)
    IN  /\ Up /\ Stays /\ Count("writes") /\ holds(db.mem, e) /\ leaf \notin latched
        /\ LET d    == IF db.mem[leaf].incomplete THEN db ELSE touch(db, leaf)
               slot == lower_bound(d.mem[leaf], e)
               d1   == log(d, [kind |-> "delete", page |-> leaf, slot |-> slot, e |-> e])
           IN  db' = put(d1, leaf, remove_entry_at(d.mem[leaf], slot))
        /\ UNCHANGED job

\* insert_pessimistic: the path is latched, the right page reserved and the
\* leaf split around the new entry, or at its median when the entry would
\* become the first of a leaf that has a left sibling.
begin_split(e) ==
    LET path == path_to(db.mem, root_of(db.mem), e)
        leaf == Last(path)
        page == db.mem[leaf]
        edge == lower_bound(page, e) = 0 /\ page.prev # INVALID
        slot == IF edge THEN median(page) ELSE split_slot(page, e)
    IN  /\ Up /\ Stays /\ Count("splits") /\ job.pc = "idle" /\ ~holds(db.mem, e)
        /\ hop_right(db.mem, leaf, e) = leaf /\ ~fits(page) /\ count(page) >= 2 /\ slot > 0
        /\ \A i \in 1..Len(path) : ~db.mem[path[i]].incomplete
        /\ LET d == touch_all(db, path)
           IN  db' = split_prepare_on_guards(d, leaf, slot)
        /\ job' = [pc |-> "prepared", e |-> e, carry |-> ~edge, path |-> Front(path),
                   splits |-> <<[left |-> leaf, right |-> next_id(db), level |-> 0, slot |-> slot,
                                 sep |-> entry(page, slot)[1], first |-> entry(page, slot),
                                 target |-> INVALID]>>]

split_copy ==
    /\ Up /\ Stays /\ job.pc = "prepared"
    /\ db' = split_copy_on_guards(db, Last(job.splits))
    /\ job' = [job EXCEPT !.pc = IF Len(job.splits) = 1 /\ job.carry THEN "copied" ELSE "commit"]
    /\ UNCHANGED used

\* The new entry goes to the half it sorts into; then the leaf latch is released
pending_insert ==
    LET s    == job.splits[1]
        half == IF Before(job.e, s.first) THEN s.left ELSE s.right
    IN  /\ Up /\ Stays /\ job.pc = "copied"
        /\ LET d == IF half = s.right THEN touch(db, half) ELSE db
           IN  db' = insert_into_page(d, half, lower_bound(d.mem[half], job.e), job.e)
        /\ job' = [job EXCEPT !.pc = "commit"]
        /\ UNCHANGED used

\* split_commit_guarded: a root split makes a new root first,
promote_root ==
    LET s == Last(job.splits)
    IN  /\ Up /\ Stays /\ job.pc = "commit" /\ s.target = INVALID /\ job.path = <<>>
        /\ db' = create_new_root(db, s)
        /\ job' = [job EXCEPT !.pc = "promoted", !.splits[Len(job.splits)].target = next_id(db)]
        /\ UNCHANGED used

\* a parent without room is split first,
split_parent ==
    LET s      == Last(job.splits)
        parent == Last(job.path)
        page   == db.mem[parent]
        slot   == split_slot(page, <<s.sep, s.right>>)
    IN  /\ Up /\ Stays /\ job.pc = "commit" /\ s.target = INVALID /\ job.path # <<>>
        /\ ~fits(page)
        /\ db' = split_prepare_on_guards(db, parent, slot)
        /\ job' = [job EXCEPT !.pc = "prepared",
                              !.path = Front(@),
                              !.splits = Append(@, [left |-> parent, right |-> next_id(db),
                                                    level |-> page.level, slot |-> slot,
                                                    sep |-> entry(page, slot)[1],
                                                    first |-> entry(page, slot),
                                                    target |-> INVALID])]
        /\ UNCHANGED used

\* and the downlink goes to the parent, or to the half of it it sorts into.
commit ==
    LET s     == Last(job.splits)
        below == Front(job.splits)
        parent == IF s.target # INVALID THEN s.target ELSE Last(job.path)
        half(t) == IF Before(<<t.sep, t.right>>, s.first) THEN s.left ELSE s.right
    IN  /\ Up /\ Stays /\ job.pc \in {"commit", "promoted"}
        /\ s.target # INVALID \/ (job.path # <<>> /\ fits(db.mem[Last(job.path)]))
        /\ db' = split_commit(db, s, parent)
        /\ job' = IF below = <<>> THEN Idle
                  ELSE [job EXCEPT !.pc = "commit", !.path = <<>>,
                                   !.splits = [below EXCEPT ![Len(below)].target =
                                                   half(below[Len(below)])]]
        /\ UNCHANGED used

\* No frame for the new page of a cascade: the error is returned, and what
\* was logged so far stays
alloc_fails ==
    /\ Up /\ left_open' = TRUE /\ Count("failures") /\ job.pc = "commit" /\ Last(job.splits).target = INVALID
    /\ job.path # <<>> => ~fits(db.mem[Last(job.path)])
    /\ job' = Idle /\ UNCHANGED db

\* A page is written back: eviction, or a checkpoint in progress
write_back(q) ==
    /\ Up /\ Stays /\ Count("flushes") /\ q \notin latched /\ dirty(db, q)
    /\ db' = flush(db, q)
    /\ UNCHANGED job

\* A fuzzy checkpoint: redo will start where it began, once every page
\* that is dirty then has reached the data file
begin_checkpoint ==
    /\ Up /\ Stays /\ Count("checkpoints") /\ db.begin = 0
    /\ db' = [db EXCEPT !.begin = Len(db.wal) + 1]
    /\ UNCHANGED job

complete_checkpoint ==
    /\ Up /\ Stays /\ db.begin # 0
    /\ \A q \in PageIds : dirty(db, q) => q \notin latched
    /\ db' = [db EXCEPT !.disk = db.mem, !.dlsn = db.lsn, !.synced = Len(db.wal),
                        !.redo = db.begin, !.begin = 0, !.owed = PageIds]
    /\ UNCHANGED <<job, used>>

----------------------------------------------------------------------------
(* Redo.  r.bad is the error a handler returns.                            *)

Redo(d, t) == [d |-> d, track |-> t, bad |-> "none"]
bad(r, why) == [r EXCEPT !.bad = why]

\* A handler changes a page only when the page is older than the record
older(r, q, l) == r.d.lsn[q] < l
redo_put(r, q, page, l) == [r EXCEPT !.d.mem[q] = page, !.d.lsn[q] = l]

slot_insert(r, q, page, slot, e, l) ==
    IF slot > count(page) THEN bad(r, "slot") ELSE redo_put(r, q, insert_entry_at(page, slot, e), l)

redo_fpi(r, rec, l) == redo_put(r, rec.page, rec.image, l)

\* Mutant: the record is replayed on a page that has it already.
redo_insert_again(r, rec, l) ==
    LET page == r.d.mem[rec.page]
    IN  slot_insert(r, rec.page, IF page.level = -1 THEN init(rec.level, rec.root) ELSE page,
                    rec.slot, rec.e, l)

redo_insert(r, rec, l) ==
    LET page == r.d.mem[rec.page]
    IN  IF ~older(r, rec.page, l) THEN r
        ELSE slot_insert(r, rec.page, IF page.level = -1 THEN init(rec.level, rec.root) ELSE page,
                         rec.slot, rec.e, l)

redo_delete(r, rec, l) ==
    IF ~older(r, rec.page, l) THEN r
    ELSE IF rec.slot >= count(r.d.mem[rec.page]) THEN bad(r, "slot")
    ELSE redo_put(r, rec.page, remove_entry_at(r.d.mem[rec.page], rec.slot), l)

redo_prepare(r, rec, l) ==
    LET r1   == [r EXCEPT !.track = (rec.left :> [right |-> rec.right, level |-> rec.level,
                                                  slot |-> -1]) @@ @]
        r2   == IF older(r, rec.right, l)
                  THEN redo_put(r1, rec.right, init_right_page(rec.left, rec.old_next, rec.level), l)
                  ELSE r1
        left == r2.d.mem[rec.left]
        page == IF left.level = -1 THEN init(rec.level, FALSE) ELSE left
    IN  IF ~older(r, rec.left, l) THEN r2
        ELSE IF count(page) > 0 /\ final(page)[1] # rec.high THEN bad(r2, "high key")
        ELSE redo_put(r2, rec.left, apply_prepare_left(page, rec.right), l)

\* The moved entries are recomputed from the left page's image before the
\* copy; once that is gone they are taken from the data file.
redo_copy(r, rec, l) ==
    LET r1    == IF rec.left \in DOMAIN r.track
                   THEN [r EXCEPT !.track[rec.left].slot = rec.slot] ELSE r
        left  == r.d.mem[rec.left]
        right == r.d.mem[rec.right]
        cut   == redo_put(r1, rec.left, truncated(left, rec.slot), l)
        moved == redo_put(cut, rec.right, extended(right, left, rec.slot), l)
    IN  IF r.d.lsn[rec.left] = rec.pre
          THEN LET done == IF older(r, rec.right, l) THEN moved ELSE cut
               IN  [done EXCEPT !.d = flush(@, rec.right)]
        ELSE IF ~older(r, rec.left, l)
          THEN IF ~older(r, rec.right, l) THEN r1
               ELSE IF r.d.dlsn[rec.right] >= l
                 THEN redo_put(r1, rec.right, r.d.disk[rec.right], r.d.dlsn[rec.right])
               ELSE bad(r1, "moved entries lost")
        ELSE IF ~older(r, rec.right, l) THEN cut
        ELSE bad(r1, "not the image before the copy")

redo_commit(r, rec, l) ==
    LET r1     == [r EXCEPT !.track = Restrict(@, DOMAIN @ \ {rec.left})]
        parent == r.d.mem[rec.parent]
        r2     == IF ~older(r, rec.parent, l) THEN r1
                  ELSE IF parent.level = -1 THEN bad(r1, "no parent image")
                  ELSE slot_insert(r1, rec.parent, parent, rec.slot, <<rec.sep, rec.right>>, l)
    IN  IF r2.bad # "none" \/ ~older(r2, rec.left, l) THEN r2
        ELSE IF r2.d.mem[rec.left].level = -1 THEN bad(r2, "no left image")
        ELSE redo_put(r2, rec.left, apply_commit_left(r2.d.mem[rec.left]), l)

----------------------------------------------------------------------------
(* The compensation record, shared by redo and undo.                       *)

clr_is_unlink(rec) == rec.parent = INVALID /\ rec.new_root = INVALID /\ rec.meta = INVALID

\* The left and the right page, by what the right page holds
clr_pair(r, rec, l) ==
    LET left  == r.d.mem[rec.left]
        right == r.d.mem[rec.right]
        cut   == lower_bound(left, first(right))
        kept  == IF count(left) > 0 THEN truncated(left, cut) ELSE left
        linked(page) == apply_commit_left([page EXCEPT !.next = rec.right])
    IN  IF ~older(r, rec.left, l)
          THEN IF ~clr_is_unlink(rec) /\ page_never_had_entries(right)
                 THEN bad(r, "left past the CLR") ELSE r
        ELSE IF clr_is_unlink(rec)
          THEN redo_put(redo_put(r, rec.right, right, l), rec.left,
                        [left EXCEPT !.next = right.next, !.incomplete = FALSE], l)
        ELSE IF count(right) > 0
          THEN IF count(left) > 0 /\ cut = 0 THEN bad(r, "boundary inverted")
               ELSE redo_put(redo_put(r, rec.right, right, l), rec.left, linked(kept), l)
        ELSE IF ~page_never_had_entries(right) THEN bad(r, "would resurrect")
        ELSE redo_put(redo_put(r, rec.right, extended(right, left, rec.slot), l),
                      rec.left, linked(truncated(left, rec.slot)), l)

clr_downlink(r, rec, l) ==
    IF rec.new_root # INVALID
      THEN IF ~older(r, rec.new_root, l) THEN r
           ELSE redo_put(r, rec.new_root,
                         [init(rec.level + 1, TRUE) EXCEPT
                             !.entries = <<<<0, rec.left>>, <<rec.sep, rec.right>>>>, !.used = 2], l)
    ELSE IF rec.parent # INVALID /\ older(r, rec.parent, l)
      THEN slot_insert(r, rec.parent, r.d.mem[rec.parent], rec.pslot, <<rec.sep, rec.right>>, l)
    ELSE r

clr_meta(r, rec, l) ==
    IF rec.meta = INVALID \/ ~older(r, rec.meta, l) THEN r
    ELSE LET page == r.d.mem[rec.meta]
         IN  redo_put(r, rec.meta, insert_entry_at(page, count(page), <<rec.new_root, rec.level + 1>>), l)

apply_split_clr(r, rec, l) ==
    LET r1 == clr_pair(r, rec, l)
        r2 == [r1 EXCEPT !.d = flush(@, rec.right)]
        r3 == clr_downlink(r2, rec, l)
    IN  IF r1.bad # "none" THEN r1 ELSE IF r3.bad # "none" THEN r3 ELSE clr_meta(r3, rec, l)

redo_clr(r, rec, l) ==
    apply_split_clr([r EXCEPT !.track = Restrict(@, DOMAIN @ \ {rec.left})], rec, l)

apply(r, rec, l) ==
    CASE rec.kind = "fpi"     -> redo_fpi(r, rec, l)
      [] rec.kind = "insert"  -> redo_insert(r, rec, l)
      [] rec.kind = "delete"  -> redo_delete(r, rec, l)
      [] rec.kind = "prepare" -> redo_prepare(r, rec, l)
      [] rec.kind = "copy"    -> redo_copy(r, rec, l)
      [] rec.kind = "commit"  -> redo_commit(r, rec, l)
      [] rec.kind = "clr"     -> redo_clr(r, rec, l)
      [] OTHER                -> r      \* PageAlloc: next_id counts it

----------------------------------------------------------------------------
(* Crash and replay.                                                       *)

\* What was not synced may survive, or not, as a prefix
crash(n) ==
    /\ phase \in Running /\ Count("crashes")
    /\ n \in db.synced..Len(db.wal)
    /\ db' = [db EXCEPT !.mem = db.disk, !.lsn = db.dlsn, !.owed = PageIds,
                        !.wal = SubSeq(@, 1, n), !.synced = n, !.begin = 0]
    /\ phase' = "redo" /\ pos' = db.redo
    /\ job' = Idle /\ track' = NoTrack /\ queue' = <<>> /\ jobs' = <<>> /\ settle' = <<>>
    /\ Stays

replay ==
    /\ phase = "redo" /\ pos <= Len(db.wal)
    /\ LET r == apply(Redo(db, track), db.wal[pos], pos)
       IN  /\ db' = r.d /\ track' = r.track
           /\ phase' = IF r.bad = "none" THEN "redo" ELSE r.bad
    /\ pos' = pos + 1
    /\ UNCHANGED <<job, queue, jobs, settle, used, left_open>>

\* A small pool writes a page back between two records
evict(q) ==
    /\ phase \in {"redo", "undo"} /\ Count("evictions") /\ dirty(db, q)
    /\ db' = flush(db, q)
    /\ UNCHANGED <<phase, job, pos, track, queue, jobs, settle, left_open>>

\* Pages whose flag redo could not know of
scan_split_incomplete_pages(mem, upto) ==
    {q \in 1..(upto - 1) : mem[q].level >= 0 /\ mem[q].incomplete}

\* The end of replay_wal, and the order in which the undo handler works
undo ==
    LET known   == track
        found   == scan_split_incomplete_pages(db.mem, next_id(db)) \ DOMAIN known
        scanned == [q \in found |-> [right |-> db.mem[q].next, level |-> db.mem[q].level,
                                     slot |-> -1]]
        splits  == known @@ scanned
        earlier(a, b) == splits[a].level > splits[b].level
                           \/ (splits[a].level = splits[b].level /\ a < b)
        order   == [i \in 1..Cardinality(DOMAIN splits) |->
                       CHOOSE q \in DOMAIN splits :
                          Cardinality({p \in DOMAIN splits : earlier(p, q)}) = i - 1]
    IN  /\ phase = "redo" /\ pos > Len(db.wal)
        /\ db' = [db EXCEPT !.disk = db.mem, !.dlsn = db.lsn]
        /\ phase' = IF \E q \in found : db.mem[q].next = INVALID THEN "no twin" ELSE "undo"
        /\ queue' = [i \in 1..Len(order) |->
                        [left |-> order[i], right |-> splits[order[i]].right,
                         level |-> splits[order[i]].level, slot |-> splits[order[i]].slot]]
        /\ UNCHANGED <<job, pos, track, jobs, settle, used, left_open>>

----------------------------------------------------------------------------
(* Undo: finish_incomplete_split, and split_page_in_undo for a parent that *)
(* has no room for the downlink.                                           *)

Undoing == phase = "undo" /\ settle = <<>> /\ UNCHANGED <<job, pos, track, used>> /\ Stays


plan(mem, s) ==
    IF count(mem[s.right]) > 0 THEN "NoMove"
    ELSE IF page_never_had_entries(mem[s.right]) THEN "Move" ELSE "Unlink"

finish_incomplete_split ==
    LET s     == Head(queue)
        how   == plan(db.mem, s)
        left  == db.mem[s.left]
        slot  == IF s.slot # -1 THEN s.slot ELSE median(left)
        small == s.slot = -1 /\ count(left) < 2      \* choose_split_slot's error
        short == how = "Move" /\ slot >= count(left)
        sep   == IF how = "NoMove" THEN first(db.mem[s.right])[1]
                 ELSE IF how = "Move" /\ ~short THEN entry(left, slot)[1] ELSE 0
    IN  /\ Undoing /\ jobs = <<>> /\ queue # <<>>
        /\ phase' = IF small THEN "left page too small" ELSE IF short THEN "nothing to move" ELSE "undo"
        /\ jobs' = <<[left |-> s.left, right |-> s.right, level |-> s.level, slot |-> slot,
                      sep |-> sep, first |-> <<sep, 0>>, unlink |-> how = "Unlink", target |-> INVALID]>>
        /\ queue' = Tail(queue)
        /\ UNCHANGED <<db, settle>>

\* Both look at the pages in page order and take the first that fits
find_meta_page_for_root(d, root) ==
    {q \in 1..(next_id(d) - 1) : d.mem[q].level = -2 /\ count(d.mem[q]) > 0
                                   /\ final(d.mem[q])[1] = root}
find_parent_page(d, child, level) ==
    {q \in 1..(next_id(d) - 1) : d.mem[q].level = level + 1
                                   /\ internal_page_points_at(d.mem[q], child)}

NoClr(j) == [kind |-> "clr", left |-> j.left, right |-> j.right, level |-> j.level, slot |-> j.slot,
             sep |-> j.sep, parent |-> INVALID, pslot |-> 0, new_root |-> INVALID, meta |-> INVALID]

touched(rec) == SelectSeq(<<rec.left, rec.right, rec.parent, rec.new_root, rec.meta>>,
                          LAMBDA q : q # INVALID)

RECURSIVE log_images(_, _)
log_images(d, qs) ==
    IF qs = <<>> THEN d
    ELSE log_images(log(d, [kind |-> "fpi", page |-> Head(qs), image |-> d.mem[Head(qs)]]), Tail(qs))

\* emit_and_apply_clr: the images and the record are logged and the log
\* synced; then the record is applied and its pages are written back, the
\* left one last (settle: APPLY, then the pages).
APPLY == INVALID

emit(d, rec, rest) ==
    LET d1 == log(log_images(d, touched(rec)), rec)
    IN  /\ db' = [d1 EXCEPT !.synced = Len(d1.wal)]
        /\ jobs' = rest
        /\ settle' = <<APPLY>> \o SelectSeq(<<rec.new_root, rec.parent, rec.meta, rec.left>>,
                                            LAMBDA q : q # INVALID)
        /\ UNCHANGED <<queue, phase>>

apply_clr ==
    LET r == apply_split_clr(Redo(db, track), Last(db.wal), Len(db.wal))
    IN  /\ phase = "undo" /\ settle # <<>> /\ Head(settle) = APPLY
        /\ db' = r.d /\ settle' = Tail(settle)
        /\ phase' = IF r.bad = "none" THEN "undo" ELSE r.bad
        /\ UNCHANGED <<job, pos, track, queue, jobs, used, left_open>>

write_settled ==
    /\ phase = "undo" /\ settle # <<>> /\ Head(settle) # APPLY
    /\ db' = flush(db, Head(settle)) /\ settle' = Tail(settle)
    /\ UNCHANGED <<phase, job, pos, track, queue, jobs, used, left_open>>

abandon == LET j == Last(jobs)
           IN  /\ Undoing /\ jobs # <<>> /\ j.unlink
               /\ emit(db, NoClr(j), Front(jobs))

\* The root's split: a new root page, and the meta page that names the old one
promote(d, j) ==
    LET d1    == log(d, [kind |-> "alloc", page |-> next_id(d)])
        d2    == [d1 EXCEPT !.mem[next_id(d)] = Zero, !.lsn[next_id(d)] = 0]
        metas == find_meta_page_for_root(d2, j.left)
    IN  [d |-> d2, ok |-> metas # {},
         rec |-> [NoClr(j) EXCEPT !.pslot = 1, !.new_root = next_id(d),
                                  !.meta = IF metas = {} THEN INVALID ELSE Min(metas)]]

\* What the caller of a finished cascade does next: the half for its downlink
resume(rest, j) ==
    IF rest = <<>> THEN rest
    ELSE LET k    == Last(rest)
             half == IF Before(<<k.sep, k.right>>, j.first) THEN j.left ELSE j.right
         IN  [rest EXCEPT ![Len(rest)].target = half]

finish_root ==
    LET j == Last(jobs)
        p == promote(db, j)
    IN  /\ Undoing /\ jobs # <<>> /\ ~j.unlink /\ j.target = INVALID /\ db.mem[j.left].root
        /\ IF p.ok THEN emit(p.d, p.rec, resume(Front(jobs), j))
           ELSE /\ phase' = "no meta page" /\ db' = p.d
                /\ UNCHANGED <<jobs, settle, queue>>

ensure_downlink_slot(target, j) ==
    emit(db, [NoClr(j) EXCEPT !.parent = target,
                              !.pslot = internal_lower_bound(db.mem[target], j.sep, j.right)],
         resume(Front(jobs), j))

parent_of(j) == LET found == find_parent_page(db, j.left, j.level)
                IN  IF found = {} THEN INVALID ELSE Min(found)

\* The downlink goes to the half a cascade left for it, or to the parent
finish_parent ==
    LET j      == Last(jobs)
        parent == IF j.target # INVALID THEN j.target ELSE parent_of(j)
    IN  /\ Undoing /\ jobs # <<>> /\ ~j.unlink
        /\ j.target = INVALID => ~db.mem[j.left].root
        /\ IF parent = INVALID
             THEN phase' = "no parent" /\ UNCHANGED <<db, jobs, settle, queue>>
             ELSE /\ j.target # INVALID \/ fits(db.mem[parent])
                  /\ ensure_downlink_slot(parent, j)

\* A fresh split of the full parent: its right page now, its record later
split_page_in_undo ==
    LET j      == Last(jobs)
        parent == parent_of(j)
        page   == db.mem[parent]
        slot   == split_slot(page, <<j.sep, j.right>>)
    IN  /\ Undoing /\ jobs # <<>> /\ ~j.unlink /\ j.target = INVALID /\ ~db.mem[j.left].root
        /\ parent # INVALID /\ ~fits(page)
        /\ IF page.incomplete \/ slot = -1
             THEN /\ phase' = "cannot cascade" /\ UNCHANGED <<db, jobs>>
             ELSE /\ db' = new_page(db, init_right_page(parent, page.next, page.level))
                  /\ jobs' = Append(jobs, [left |-> parent, right |-> next_id(db),
                                           level |-> page.level, slot |-> slot,
                                           sep |-> entry(page, slot)[1], first |-> entry(page, slot),
                                           unlink |-> FALSE, target |-> INVALID])
                  /\ UNCHANGED phase
        /\ UNCHANGED <<settle, queue>>

\* Every page is written back and the engine is open
opened ==
    /\ phase = "undo" /\ settle = <<>> /\ jobs = <<>> /\ queue = <<>> /\ left_open' = FALSE
    /\ db' = [db EXCEPT !.disk = db.mem, !.dlsn = db.lsn, !.synced = Len(db.wal)]
    /\ phase' = "up"
    /\ UNCHANGED <<job, pos, track, queue, jobs, settle, used>>

----------------------------------------------------------------------------

\* A page of a previous tenant: still in the data file of a recycled page
Stale == [init(0, FALSE) EXCEPT !.entries = <<<<99, 99>>>>, !.used = 1]

\* The tree is in the data file.  The pages behind it are new, or recycled:
\* then the previous tenant's image may also be in the log to be replayed.
Start(entries, keys, recycled, logged) ==
    LET t    == build(entries)
        n    == Len(t.pages)
        page(q) == IF q = META
                     THEN [t.pages[1] EXCEPT !.entries = <<<<t.root, t.level>>>>, !.used = 1]
                   ELSE IF q <= n THEN t.pages[q]
                   ELSE IF recycled THEN Stale ELSE Zero
        file == [q \in PageIds |-> page(q)]
        wal  == IF logged THEN <<[kind |-> "fpi", page |-> n + 1, image |-> Stale]>> ELSE <<>>
    IN  [mem |-> file, lsn |-> [q \in PageIds |-> 0], disk |-> file, dlsn |-> [q \in PageIds |-> 0],
         wal |-> wal, synced |-> Len(wal), redo |-> 1, begin |-> 0, owed |-> PageIds,
         base |-> n + 1,
         held |-> entries, keys |-> keys]

Init ==
    /\ \E sc \in Scenarios, recycled \in BOOLEAN, logged \in BOOLEAN :
          /\ logged => recycled
          /\ db = Start(sc.tree, sc.entries, recycled, logged) /\ used = sc.used
    /\ phase = "up" /\ job = Idle /\ pos = 1 /\ track = NoTrack
    /\ queue = <<>> /\ jobs = <<>> /\ settle = <<>> /\ left_open = FALSE

Next ==
    \/ \E e \in db.keys : insert(e) \/ delete(e) \/ begin_split(e)
    \/ split_copy \/ pending_insert \/ promote_root \/ split_parent \/ commit \/ alloc_fails
    \/ \E q \in PageIds : write_back(q) \/ evict(q)
    \/ begin_checkpoint \/ complete_checkpoint
    \/ \E n \in 0..Len(db.wal) : crash(n)
    \/ replay \/ undo \/ finish_incomplete_split
    \/ abandon \/ finish_root \/ finish_parent \/ split_page_in_undo
    \/ apply_clr \/ write_settled \/ opened

Spec == Init /\ [][Next]_vars

----------------------------------------------------------------------------

\* What the log says the index holds
RECURSIVE replayed(_, _)
replayed(wal, held) ==
    IF wal = <<>> THEN held
    ELSE LET r == Head(wal)
         IN  replayed(Tail(wal),
                      CASE r.kind = "insert" /\ r.page # META /\ r.level = 0 -> held \union {r.e}
                        [] r.kind = "delete" -> held \ {r.e}
                        [] OTHER -> held)

\* A reader that walks the leaves of an open index finds exactly the entries
\* the log says are there, in order: no crash, at whatever point of a split
\* or of its repair, loses, resurrects or doubles one (redo.rs, undo.rs).
RecoveredExactly ==
    phase = "up" =>
      LET es == chain_entries(db.mem, root_of(db.mem))
      IN  Strictly(es) /\ ToSet(es) = replayed(db.wal, db.held)

\* An open index on which no insert is splitting validates: undo finished
\* every split the crash had left behind (BTreeIndex::validate).  A split
\* given up for want of a frame waits for the next recovery.
RecoveredTree ==
    phase = "up" /\ job = Idle /\ ~left_open =>
      validate(db.mem, root_of(db.mem), level_of(db.mem))

\* Recovery gives up in two cases only: a root split whose new root was
\* published and whose commit was not logged (no meta page names the old
\* root any more), and a split found by the page scan whose left page has
\* fewer than two entries (choose_split_slot_readonly refuses it).
GivesUpOnlyWhen == phase \in Running \union {"no meta page", "left page too small"}


\* Every split that reached Prepare but not Commit is finished by recovery
\* ("Finishes incomplete B+Tree splits detected during redo", undo.rs).  It does not hold:
\* GivesUpOnlyWhen names the exceptions.
RecoveryCompletes == phase \in Running

=============================================================================
