------------------------------ MODULE MCEngine ------------------------------
(* The engine's tables and its catalog, each on an instance of its own.  A   *)
(* behaviour runs one of them, chosen at its start; the other stays as it is.*)
EXTENDS MCTable

VARIABLES part,
          c_st, c_base, c_wal, c_synced, c_sys, c_owed, c_superblock, c_oid,
          c_registry, c_indexes, c_ddl_lock, c_locks, c_next_xid, c_session,
          c_phase, c_todo_sys, c_ghost, c_used

CatVars == <<c_st, c_base, c_wal, c_synced, c_sys, c_owed, c_superblock, c_oid,
             c_registry, c_indexes, c_ddl_lock, c_locks, c_next_xid, c_session,
             c_phase, c_todo_sys, c_ghost, c_used>>

\* For the behaviours that run the catalog: a table nobody uses
AtRest == Sc(<<<<R(1, 0)>>>>, <<1>>, <<>>, <<>>, <<>>, 0, 0, 0, 0)
EngineScenarios == MCScenarios \cup {AtRest}

(* Programs of two or three sessions over one or two table names.            *)

Create(n)    == [op |-> "create", name |-> n]
Drop(n)      == [op |-> "drop", name |-> n]
Index(n)     == [op |-> "index", name |-> n]
HnswOn(n)    == [op |-> "hnsw_on", name |-> n]
Hnsw         == [op |-> "hnsw", name |-> "none"]
InsInto(n, v) == [op |-> "insert", name |-> n, v |-> v, end |-> "commit"]
InsFail(n, v) == [op |-> "insert", name |-> n, v |-> v, end |-> "abort"]

DdlRun(fresh, a, b, c, checkpoints, crashes, errors, flushes) ==
    [fresh |-> fresh, prog |-> [a |-> a, b |-> b, c |-> c],
     used |-> [checkpoints |-> checkpoints, crashes |-> crashes, errors |-> errors, flushes |-> flushes]]

DdlScenarios ==
    { \* bootstrap cut short, twice
      DdlRun(TRUE, <<Create("t")>>, <<>>, <<>>, 0, 2, 0, 3),
      \* a table replaced under a writer that has resolved it
      DdlRun(FALSE, <<Create("t"), Drop("t"), Create("t")>>, <<InsInto("t", 1), InsInto("t", 2)>>, <<>>, 0, 1, 0, 0),
      DdlRun(FALSE, <<Create("t"), Drop("t"), Create("u")>>, <<InsInto("t", 1), InsInto("u", 2)>>, <<>>, 1, 1, 0, 0),
      \* an index built among writers
      DdlRun(FALSE, <<Create("t"), Index("t"), Index("t")>>, <<InsInto("t", 1)>>, <<InsFail("t", 2)>>, 0, 1, 0, 0),
      DdlRun(FALSE, <<Create("t"), HnswOn("t"), HnswOn("t")>>, <<InsInto("t", 1)>>, <<InsInto("t", 2)>>, 0, 1, 0, 0),
      DdlRun(FALSE, <<Create("t"), Drop("t")>>, <<Index("t"), HnswOn("t")>>, <<InsInto("t", 1)>>, 0, 1, 0, 0),
      \* errors in the middle, catalogs that fill up
      DdlRun(FALSE, <<Create("t"), Create("t"), Index("t"), Drop("t")>>, <<InsInto("t", 1)>>, <<>>, 0, 1, 1, 0),
      DdlRun(FALSE, <<Create("t"), Create("u"), Index("t"), Create("v"), Drop("t"), Index("u"), Create("w")>>, <<>>, <<>>, 0, 1, 0, 0),
      \* OIDs across crashes
      DdlRun(FALSE, <<Hnsw, Create("t")>>, <<Hnsw>>, <<>>, 1, 2, 0, 0),
      DdlRun(FALSE, <<Hnsw, Create("t")>>, <<>>, <<>>, 0, 1, 1, 0) }

-----------------------------------------------------------------------------
Cat == INSTANCE Catalog
       WITH SysPages <- {1, 2, 3}, EmptySys <- {3}, Pages <- 4 .. 10,
            Xids <- 1 .. 8, FirstUser <- 10, Room <- 4, PageRows <- 1,
            Scenarios <- DdlScenarios, st <- c_st, base <- c_base, wal <- c_wal,
            synced <- c_synced, sys <- c_sys, owed <- c_owed,
            superblock <- c_superblock, oid <- c_oid, registry <- c_registry,
            indexes <- c_indexes, ddl_lock <- c_ddl_lock, locks <- c_locks,
            next_xid <- c_next_xid, session <- c_session, phase <- c_phase,
            todo_sys <- c_todo_sys, ghost <- c_ghost, used <- c_used

CatUnused ==
  /\ c_st = 0 /\ c_base = 0 /\ c_wal = 0 /\ c_synced = 0 /\ c_sys = 0
  /\ c_owed = 0 /\ c_superblock = 0 /\ c_oid = 0 /\ c_registry = 0
  /\ c_indexes = 0 /\ c_ddl_lock = 0 /\ c_locks = 0 /\ c_next_xid = 0
  /\ c_session = 0 /\ c_phase = 0 /\ c_todo_sys = 0 /\ c_ghost = 0 /\ c_used = 0

TableAtRest == \A s \in Sessions : session[s].prog = <<>>

MCInit ==
  /\ Init
  /\ \/ part = "table" /\ CatUnused
     \/ part = "catalog" /\ TableAtRest /\ Cat!Init

MCNext ==
  /\ UNCHANGED part
  /\ \/ part = "table" /\ Next /\ UNCHANGED CatVars
     \/ part = "catalog" /\ Cat!Next /\ UNCHANGED vars

MCSpec == MCInit /\ [][MCNext]_<<part, vars, CatVars>>

-----------------------------------------------------------------------------
(* Catalog: DDL and rows that were acknowledged survive any crash.           *)
AckedDdlSurvives == part = "catalog" => Cat!AckedDdlSurvives

(* Catalog: what is registered is whole and its own, wherever a crash, an    *)
(* error or another session cut in.                                          *)
CatalogKept == part = "catalog" => Cat!CatalogKept
=============================================================================
