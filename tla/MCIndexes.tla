----------------------------- MODULE MCIndexes -----------------------------
(* The indexes, each on an instance of its own: the HNSW index, concurrent *)
(* operations on a B+Tree, and crashes and recovery of a B+Tree.  A        *)
(* behaviour runs one of them, chosen at its start; the variables of those *)
(* it does not run stay as they are.                                       *)
EXTENDS HnswIndex

VARIABLES part,
          b_pages, b_meta, b_ps, b_todo, b_fails, b_seen,
          r_db, r_phase, r_job, r_pos, r_track, r_queue, r_jobs, r_settle,
          r_left_open, r_used

TreeVars == <<b_pages, b_meta, b_ps, b_todo, b_fails, b_seen>>
RecVars == <<r_db, r_phase, r_job, r_pos, r_track, r_queue, r_jobs, r_settle,
             r_left_open, r_used>>

(* The HNSW index: a line and a corner of vectors, two directory entries   *)
(* to a page, two threads.                                                 *)

MCVectors == {<<0, 0>>, <<0, 1>>, <<1, 1>>, <<2, 0>>}

At0(v)    == [vec |-> v, level |-> 0]
Put(v)    == [kind |-> "insert", vec |-> v, flush |-> TRUE]
Late(v)   == [kind |-> "insert", vec |-> v, flush |-> FALSE]
Del(i)    == [kind |-> "delete", id |-> i, flush |-> TRUE]
Redirect  == [kind |-> "redirect"]

HnswRun(base, dead, draws, a, b, after, errors, evicts, crashes) ==
    [base |-> base, dead |-> dead, draws |-> draws, ops |-> [a |-> a, b |-> b],
     after |-> [a |-> after, b |-> <<>>],
     used |-> [errors |-> errors, evicts |-> evicts, crashes |-> crashes]]

Line == <<At0(<<0, 0>>), At0(<<0, 1>>), At0(<<1, 1>>)>>

\* For the behaviours that run another part
NoHnswRun == HnswRun(<<>>, {}, <<>>, <<>>, <<>>, <<>>, 0, 0, 0)

MCScenarios ==
    { \* two first inserts of an empty index
      HnswRun(<<>>, {}, <<0, 1, 0>>, <<Put(<<0, 0>>)>>, <<Late(<<0, 1>>)>>, <<Put(<<1, 1>>)>>, 0, 1, 1),
      HnswRun(<<>>, {}, <<1, 0, 0>>, <<Put(<<0, 0>>)>>, <<Put(<<0, 1>>)>>, <<>>, 1, 0, 0),
      \* two inserts that would both become the entry point
      HnswRun(<<At0(<<0, 0>>)>>, {}, <<0, 1, 1, 0>>, <<Put(<<0, 1>>)>>, <<Late(<<2, 0>>)>>, <<>>, 0, 0, 1),
      \* lists that are full, beside a delete
      HnswRun(Line, {}, <<0, 0, 0, 1, 0>>, <<Put(<<2, 0>>)>>, <<Del(1)>>, <<Put(<<2, 0>>)>>, 1, 1, 1),
      \* one thread, the twin in memory
      HnswRun(<<>>, {}, <<0, 1, 0, 1, 0>>, <<Put(<<0, 0>>), Put(<<0, 1>>), Put(<<1, 1>>), Put(<<2, 0>>)>>,
         <<>>, <<>>, 0, 0, 0),
      \* deletes, then the redirect pass, beside an insert and across a crash
      HnswRun(Line, {1}, <<0, 0, 0, 0>>, <<Redirect>>, <<Late(<<2, 0>>)>>, <<Redirect>>, 0, 0, 1),
      HnswRun(Line, {}, <<0, 0, 0, 0>>, <<Del(1), Redirect>>, <<Del(0)>>, <<Redirect>>, 1, 1, 1),
      NoHnswRun }

(* The B+Tree.  Pages of three entries; the trees of nine entries have a   *)
(* full root above three full leaves, so one insert splits up to the root. *)

ins(k, t)   == [kind |-> "insert", key |-> k, tid |-> t]
del(k, t)   == [kind |-> "delete", key |-> k, tid |-> t]
look(k)     == [kind |-> "lookup_all", key |-> k, tid |-> 0]
get(k)      == [kind |-> "lookup", key |-> k, tid |-> 0]
scan(k, e)  == [kind |-> "range", key |-> k, tid |-> 0, end |-> e]

Work(tree, drained, a, b, c) == [tree |-> tree, drained |-> drained, todo |-> <<a, b, c>>]

Full   == {<<2 * i, 1>> : i \in 1..9}
Single == {<<2, 1>>, <<4, 1>>, <<6, 1>>}
Runs   == {<<2, 1>>} \union {<<4, t>> : t \in 1..5}

\* The middle leaf drained by deletes
Drained == {<<8, 1>>, <<10, 1>>, <<12, 1>>}

TreeWorkloads ==
    { Work(Single, {}, <<ins(3, 1)>>, <<ins(5, 1)>>, <<look(4)>>),
      Work(Full, {}, <<ins(11, 1)>>, <<>>, <<scan(0, 99)>>),
      Work(Full, {}, <<ins(11, 1)>>, <<ins(13, 1)>>, <<get(12)>>),
      Work(Full, {}, <<ins(7, 1)>>, <<del(8, 1)>>, <<ins(9, 1)>>),
      Work(Full, {<<14, 1>>}, <<ins(13, 1)>>, <<ins(5, 1), del(6, 1)>>, <<look(6)>>),
      Work(Runs, {}, <<ins(4, 6)>>, <<del(4, 3), ins(4, 3)>>, <<look(4)>>),
      Work(Runs, {<<4, 2>>}, <<ins(4, 2)>>, <<ins(4, 2)>>, <<look(4)>>),
      Work(Runs, {}, <<del(4, 3)>>, <<del(4, 3)>>, <<ins(4, 6)>>),
      Work(Full, {<<2, 1>>, <<4, 1>>, <<8, 1>>}, <<ins(9, 1)>>, <<del(6, 1)>>, <<>>),
      Work(Full, Drained, <<ins(9, 1)>>, <<look(14)>>, <<del(6, 1)>>) }

(* Recovery of the B+Tree: two crashes around a root split, the whole      *)
(* right half deleted before its commit, a cascade up to a new root, and a *)
(* pool that evicts during redo.                                           *)

OneLeaf   == {<<2, 1>>, <<4, 1>>, <<6, 1>>}
TwoLevels == {<<2 * i, 1>> : i \in 1..9}

Case(tree, entries, splits, writes, flushes, checkpoints, crashes, failures, evictions) ==
    [tree |-> tree, entries |-> entries,
     used |-> [splits |-> splits, writes |-> writes, flushes |-> flushes, checkpoints |-> checkpoints,
               crashes |-> crashes, failures |-> failures, evictions |-> evictions]]

RecScenarios == {Case(OneLeaf, {<<3, 1>>, <<6, 1>>}, 1, 1, 1, 1, 2, 0, 0),
                Case(OneLeaf, {<<3, 1>>, <<4, 1>>, <<6, 1>>}, 1, 2, 0, 0, 2, 0, 0),
                Case(TwoLevels, {<<11, 1>>, <<12, 1>>}, 1, 0, 1, 1, 1, 1, 0),
                Case(TwoLevels, {<<11, 1>>, <<12, 1>>}, 1, 0, 1, 0, 1, 0, 1)}

----------------------------------------------------------------------------
Tree == INSTANCE BTree
       WITH Cap <- 3, MaxPages <- 12, Procs <- {1, 2, 3},
            Workloads <- TreeWorkloads, MaxRestarts <- 2, MaxAllocFails <- 1,
            pages <- b_pages, meta <- b_meta, ps <- b_ps, todo <- b_todo,
            fails <- b_fails, seen <- b_seen

Rec == INSTANCE BTreeRecovery
       WITH Cap <- 3, MaxPages <- 12, Scenarios <- RecScenarios, db <- r_db,
            phase <- r_phase, job <- r_job, pos <- r_pos, track <- r_track,
            queue <- r_queue, jobs <- r_jobs, settle <- r_settle,
            left_open <- r_left_open, used <- r_used

TreeUnused ==
  /\ b_pages = 0 /\ b_meta = 0 /\ b_ps = 0 /\ b_todo = 0 /\ b_fails = 0
  /\ b_seen = 0

RecUnused ==
  /\ r_db = 0 /\ r_phase = 0 /\ r_job = 0 /\ r_pos = 0 /\ r_track = 0
  /\ r_queue = 0 /\ r_jobs = 0 /\ r_settle = 0 /\ r_left_open = 0 /\ r_used = 0

MCInit ==
  /\ Init
  /\ \/ part = "hnsw" /\ TreeUnused /\ RecUnused
     \/ part = "btree" /\ scn = NoHnswRun /\ Tree!Init /\ RecUnused
     \/ part = "recovery" /\ scn = NoHnswRun /\ TreeUnused /\ Rec!Init

MCNext ==
  /\ UNCHANGED part
  /\ \/ part = "hnsw" /\ Next /\ UNCHANGED <<TreeVars, RecVars>>
     \/ part = "btree" /\ Tree!Next /\ UNCHANGED <<vars, RecVars>>
     \/ part = "recovery" /\ Rec!Next /\ UNCHANGED <<vars, TreeVars>>

MCSpec == MCInit /\ [][MCNext]_<<part, vars, TreeVars, RecVars>>

----------------------------------------------------------------------------
(* The properties of the parts.                                            *)

(* HnswIndex: pages, handle and graph are sound between any two steps.     *)
HnswStaysSound == part = "hnsw" => HnswSound

(* HnswIndex: what an operation reports done is done, and stays so.        *)
HnswKeepsWord == part = "hnsw" => HnswKept

(* BTree: an operation's answer was true while it ran.                     *)
AnswersHeld == part = "btree" => Tree!AnswersHeld


(* BTree: every step changes the set of entries by one or not at all.      *)
OneEntryPerOperation == [][part = "btree" => Tree!AtMostOneEntry]_TreeVars

(* BTreeRecovery: no crash loses, resurrects or doubles an entry.          *)
RecoveredExactly == part = "recovery" => Rec!RecoveredExactly


(* BTreePages and HnswGraph: the searches, builds and splits within pages, *)
(* the beam search and the neighbour selection do what their contracts     *)
(* say, on every small input; asked once, at one initial state.            *)
PureAlgorithms ==
  part = "hnsw" /\ scn = NoHnswRun => AlgorithmsHold /\ Tree!PageAlgorithms
=============================================================================
