----------------------------- MODULE WireSession -----------------------------
(***************************************************************************)
(* The PostgreSQL wire server (pg-wire): server.rs's thread per            *)
(* connection, the Session each runs (session.rs), the framing under it    *)
(* (codec.rs), and the clients on the other side, who may send ahead and   *)
(* may hang up anywhere, inside a frame included.                          *)
(*                                                                         *)
(* A connection carries units: a tag, a length word or one token of a      *)
(* body is a unit, a length counts its own unit.  A query's body is its    *)
(* tokens and a NUL; a token is a word, ";", "'" or " ".  Reads only block *)
(* or fail on missing units, so how the units were chunked is not kept.    *)
(*                                                                         *)
(* The engine is what the session sees of it: an explicit transaction or   *)
(* an auto-commit one, rows whose writers exclude one another while they   *)
(* run, statements that fail with part of their work done (exec's "no      *)
(* statement-level rollback"), a deadlock victim, and a WAL that may die,  *)
(* after which no transaction can end.                                     *)
(***************************************************************************)
EXTENDS Integers, Sequences, FiniteSets, FiniteSetsExt, SequencesExt, TLC

CONSTANTS
    Conns,        \* the connections
    Scripts,      \* what the clients may send: for each, its startup frames and the others
    MaxLen,       \* MAX_MESSAGE_LEN and MAX_STARTUP_PACKET_LEN, in units
    MaxXid,       \* bound: transactions ever begun
    MaxAhead,     \* bound: units a client has sent and nobody has read
    WalMayDie     \* bound: whether the WAL writer may fail

VARIABLES
    script,       \* the clients' frames, all of them
    todo,         \* those not sent yet
    units,        \* sent and not read
    eof,          \* the client has closed its end
    pc,           \* where the connection's thread is
    pieces,       \* the statements of the query that are left to run
    txn,          \* Session::txn: the explicit transaction's XID, or 0
    auto,         \* the auto-commit transaction of the statement in exec, or 0
    out,          \* the response buffer
    got,          \* what write_all handed over
    clog, wrote,  \* the engine's transactions and the rows each wrote
    xmax,         \* who wrote a row last
    next_xid,
    wal_dead,
    ran           \* history: per query read, <<statement, succeeded>> in order

vars == <<script, todo, units, eof, pc, pieces, txn, auto, out, got, clog, wrote, xmax, next_xid,
          wal_dead, ran>>

NUL  == "NUL"
Rows == {"w1", "w2"}      \* a write statement is named for the row it writes
Xids == 1 .. MaxXid

-----------------------------------------------------------------------------
(* codec.rs.  A read yields what it was, its body and what is left.         *)

Read(is, body, rest) == [is |-> is, body |-> body, rest |-> rest]
Blocked == Read("block", <<>>, <<>>)
Broken  == Read("err", <<>>, <<>>)
Hangup  == Read("none", <<>>, <<>>)

Drop(s, n) == SubSeq(s, n + 1, Len(s))

\* Mutant: a read of zero bytes is taken for "nothing yet"
read_body_spins(u, closed, len, min) ==
    CASE len \notin min .. MaxLen -> Broken
      [] Len(u) < len - min -> Blocked
      [] OTHER -> Read("ok", SubSeq(u, 1, len - min), Drop(u, len - min))

read_body(u, closed, len, min) ==
    CASE len \notin min .. MaxLen -> Broken
      [] Len(u) < len - min -> IF closed THEN Broken ELSE Blocked
      [] OTHER -> Read("ok", SubSeq(u, 1, len - min), Drop(u, len - min))

\* The frame's first units, or a clean end of the stream before them
read_exact_or_eof(u, closed) ==
    IF u # <<>> THEN "ok" ELSE IF closed THEN "none" ELSE "block"

Nul(s) == LET at == {i \in 1 .. Len(s) : s[i] = NUL} IN IF at = {} THEN 0 ELSE Min(at)

BadParams == << <<"bad">> >>

\* name NUL value NUL ... NUL, the last NUL at the very end
RECURSIVE parse_startup_body(_)
parse_startup_body(body) ==
    LET nul  == Nul(body)
        rest == Drop(body, nul)
        next == Nul(rest)
        more == parse_startup_body(Drop(rest, next))
    IN  CASE nul = 0 -> BadParams
          [] nul = 1 -> IF Len(body) = 1 THEN <<>> ELSE BadParams
          [] next = 0 -> BadParams
          [] OTHER -> IF more = BadParams THEN BadParams
                      ELSE << <<SubSeq(body, 1, nul - 1), SubSeq(rest, 1, next - 1)>> >> \o more

read_startup_packet(u, closed) ==
    IF read_exact_or_eof(u, closed) # "ok" THEN IF closed THEN Hangup ELSE Blocked
    ELSE LET b    == read_body(Tail(u), closed, Head(u), 1)
             code == Head(b.body)
         IN  CASE b.is # "ok" -> b
               [] b.body = <<>> -> Broken
               [] code = "startup" ->
                    IF parse_startup_body(Tail(b.body)) = BadParams THEN Broken
                    ELSE Read("startup", parse_startup_body(Tail(b.body)), b.rest)
               [] code \in {"ssl", "gssenc"} -> Read("encrypt", <<>>, b.rest)
               [] code = "cancel" -> IF Len(b.body) # 3 THEN Broken ELSE Read("cancel", <<>>, b.rest)
               [] OTHER -> Broken

read_message(u, closed) ==
    IF read_exact_or_eof(u, closed) # "ok" THEN IF closed THEN Hangup ELSE Blocked
    ELSE IF Len(u) = 1 THEN IF closed THEN Broken ELSE Blocked
    ELSE LET b == read_body(Drop(u, 2), closed, u[2], 1) IN
         CASE b.is # "ok" -> b
           [] Head(u) = "Q" -> IF Nul(b.body) # Len(b.body) \/ b.body = <<>> THEN Broken
                               ELSE Read("query", Front(b.body), b.rest)
           [] Head(u) = "X" -> Read("terminate", <<>>, b.rest)
           [] OTHER -> Read("unsupported", <<>>, b.rest)

-----------------------------------------------------------------------------
(* session.rs, the parts without state.                                     *)

\* One left-to-right pass with a one-token lookahead inside a literal
split_statements(sql) ==
    LET RECURSIVE scan(_, _, _, _)
        scan(i, start, in_quote, parts) ==
            CASE i > Len(sql) -> Append(parts, SubSeq(sql, start, Len(sql)))
              [] sql[i] = "'" /\ in_quote ->
                   IF i < Len(sql) /\ sql[i + 1] = "'" THEN scan(i + 2, start, TRUE, parts)
                   ELSE scan(i + 1, start, FALSE, parts)
              [] sql[i] = "'" /\ ~in_quote -> scan(i + 1, start, TRUE, parts)
              [] sql[i] = ";" /\ ~in_quote ->
                   scan(i + 1, i + 1, FALSE, Append(parts, SubSeq(sql, start, i - 1)))
              [] OTHER -> scan(i + 1, start, in_quote, parts)
    IN  scan(1, 1, FALSE, <<>>)

trim(p) ==
    LET ink == {i \in 1 .. Len(p) : p[i] # " "} IN
    IF ink = {} THEN <<>> ELSE SubSeq(p, Min(ink), Max(ink))

\* The statements of a query string that handle_query hands on
Statements(sql) ==
    LET parts == split_statements(sql) IN
    SelectSeq([i \in 1 .. Len(parts) |-> trim(parts[i])], LAMBDA p : p # <<>>)

Quotes(p) == Cardinality({i \in 1 .. Len(p) : p[i] = "'"})

\* The first word names the statement; BEGIN, COMMIT and ROLLBACK stand alone,
\* and neither an open literal nor a ';' outside one parses
parse(p) ==
    IF /\ Head(p) \in Rows \cup {"begin", "commit", "rollback", "create", "select", "toasted"}
       /\ Head(p) \in {"begin", "commit", "rollback"} => Len(p) = 1
       /\ Quotes(p) % 2 = 0
       /\ \A i \in 2 .. Len(p) : p[i] = ";" => Quotes(SubSeq(p, 1, i)) % 2 = 1
    THEN Head(p) ELSE "error"

\* Backend messages; x is not on the wire, it records which transaction it is about
Msg(m, s, x) == [m |-> m, s |-> s, x |-> x]

\* A result set with a TOASTed value breaks off: its rows so far, then the error
write_result(stmt, x) ==
    CASE stmt = "select" -> <<Msg("RowDescription", "", 0), Msg("DataRow", "", 0),
                              Msg("CommandComplete", stmt, 0)>>
      [] stmt = "toasted" -> <<Msg("RowDescription", "", 0)>>
      [] OTHER -> <<Msg("CommandComplete", stmt, x)>>

status_byte(t) == IF t # 0 THEN "T" ELSE "I"

get(params, name) ==
    LET at == {i \in 1 .. Len(params) : params[i][1] = <<name>>} IN
    IF at = {} THEN <<>> ELSE params[Min(at)][2]

\* AuthenticationOk, the fixed parameters as one, the two the client chose
Greeting(params) ==
    <<Msg("AuthenticationOk", "", 0), Msg("ParameterStatus", "fixed", 0),
      Msg("ParameterStatus", IF get(params, "user") = <<>> THEN "pg_rust"
                             ELSE Head(get(params, "user")), 0)>>
    \o (IF get(params, "app") = <<>> THEN <<>>
        ELSE <<Msg("ParameterStatus", Head(get(params, "app")), 0)>>)
    \o <<Msg("ReadyForQuery", "I", 0)>>

-----------------------------------------------------------------------------
Init ==
    /\ script \in Scripts
    /\ todo = [c \in Conns |-> script[c].first \o script[c].then]
    /\ units = [c \in Conns |-> <<>>]
    /\ eof = [c \in Conns |-> FALSE]
    /\ pc = [c \in Conns |-> "startup"]
    /\ pieces = [c \in Conns |-> <<>>]
    /\ txn = [c \in Conns |-> 0]
    /\ auto = [c \in Conns |-> 0]
    /\ out = [c \in Conns |-> <<>>]
    /\ got = [c \in Conns |-> <<>>]
    /\ clog = [x \in Xids |-> "unused"]
    /\ wrote = [x \in Xids |-> {}]
    /\ xmax = [k \in Rows |-> 0]
    /\ next_xid = 1
    /\ wal_dead = FALSE
    /\ ran = [c \in Conns |-> <<>>]

engine_vars == <<clog, wrote, xmax, next_xid>>
client_vars == <<script, todo, eof>>

(* The clients. *)

send(c) ==
    /\ ~eof[c] /\ todo[c] # <<>> /\ Len(units[c]) <= MaxAhead
    /\ units' = [units EXCEPT ![c] = @ \o Head(todo[c])]
    /\ todo' = [todo EXCEPT ![c] = Tail(@)]
    /\ UNCHANGED <<script, eof, pc, pieces, txn, auto, out, got, engine_vars, wal_dead, ran>>

\* The client is gone, perhaps with part of a frame already sent
hang_up(c) ==
    /\ ~eof[c]
    /\ eof' = [eof EXCEPT ![c] = TRUE]
    /\ \E n \in IF todo[c] = <<>> THEN {0} ELSE {0, 1, Len(Head(todo[c])) - 1} :
         units' = [units EXCEPT ![c] = @ \o (IF n = 0 THEN <<>> ELSE SubSeq(Head(todo[c]), 1, n))]
    /\ UNCHANGED <<script, todo, pc, pieces, txn, auto, out, got, engine_vars, wal_dead, ran>>

wal_dies ==
    /\ WalMayDie /\ ~wal_dead
    /\ wal_dead' = TRUE
    /\ UNCHANGED <<client_vars, units, pc, pieces, txn, auto, out, got, engine_vars, ran>>

(* The connection's thread. *)

\* write_all: a closed client's socket may take the bytes or refuse them
write_all(c, msgs, then) ==
    /\ out' = [out EXCEPT ![c] = <<>>]
    /\ \/ /\ got' = [got EXCEPT ![c] = @ \o msgs]
          /\ pc' = [pc EXCEPT ![c] = then]
       \/ /\ eof[c]
          /\ got' = got
          /\ pc' = [pc EXCEPT ![c] = "end"]

startup(c) ==
    LET r == read_startup_packet(units[c], eof[c]) IN
    /\ pc[c] = "startup"
    /\ r.is # "block"
    /\ units' = [units EXCEPT ![c] = r.rest]
    /\ CASE r.is = "startup" -> write_all(c, Greeting(r.body), "regular")
         [] r.is = "encrypt" -> write_all(c, <<Msg("N", "", 0)>>, "startup")
         [] OTHER -> pc' = [pc EXCEPT ![c] = "end"] /\ UNCHANGED <<out, got>>
    /\ UNCHANGED <<client_vars, pieces, txn, auto, engine_vars, wal_dead, ran>>

\* Refused without being looked at; the status is the session's own
unsupported(c) ==
    write_all(c, <<Msg("ErrorResponse", "0A000", 0), Msg("ReadyForQuery", status_byte(txn[c]), txn[c])>>,
              "regular")

regular(c) ==
    LET r == read_message(units[c], eof[c]) IN
    /\ pc[c] = "regular"
    /\ r.is # "block"
    /\ units' = [units EXCEPT ![c] = r.rest]
    /\ \/ /\ r.is = "query"
          /\ pieces' = [pieces EXCEPT ![c] = Statements(r.body)]
          /\ out' = [out EXCEPT ![c] = IF Statements(r.body) = <<>> THEN <<Msg("EmptyQueryResponse", "", 0)>>
                                       ELSE <<>>]
          /\ pc' = [pc EXCEPT ![c] = "query"]
          /\ ran' = [ran EXCEPT ![c] = Append(@, <<>>)]
          /\ got' = got
       \/ r.is = "unsupported" /\ unsupported(c) /\ UNCHANGED <<pieces, ran>>
       \/ /\ r.is \in {"terminate", "none", "err"}
          /\ pc' = [pc EXCEPT ![c] = "end"]
          /\ UNCHANGED <<pieces, out, got, ran>>
    /\ UNCHANGED <<client_vars, txn, auto, engine_vars, wal_dead>>

\* How a statement leaves handle_query's loop: on to the next, or out of it
Recorded(c, ok) ==
    ran' = [ran EXCEPT ![c][Len(ran[c])] = Append(@, <<parse(Head(pieces[c])), ok>>)]

Completes(c, msgs) ==
    /\ out' = [out EXCEPT ![c] = @ \o msgs]
    /\ pieces' = [pieces EXCEPT ![c] = Tail(@)]
    /\ pc' = [pc EXCEPT ![c] = "query"]
    /\ Recorded(c, TRUE)

\* Mutant: the loop goes on after an error
fails_on(c, msgs, sqlstate) ==
    /\ out' = [out EXCEPT ![c] = @ \o msgs \o <<Msg("ErrorResponse", sqlstate, 0)>>]
    /\ pieces' = [pieces EXCEPT ![c] = Tail(@)]
    /\ pc' = [pc EXCEPT ![c] = "query"]
    /\ Recorded(c, FALSE)

Fails(c, msgs, sqlstate) ==
    /\ out' = [out EXCEPT ![c] = @ \o msgs \o <<Msg("ErrorResponse", sqlstate, 0)>>]
    /\ pieces' = [pieces EXCEPT ![c] = <<>>]
    /\ pc' = [pc EXCEPT ![c] = "query"]
    /\ Recorded(c, FALSE)

\* commit_txn and abort_txn: with the WAL gone the transaction stays in progress,
\* and the fallback abort of a failed commit fails with it
end_txn(x, state) == clog' = IF wal_dead THEN clog ELSE [clog EXCEPT ![x] = state]

begin(c) ==
    /\ pc[c] = "query" /\ pieces[c] # <<>> /\ parse(Head(pieces[c])) = "begin"
    /\ IF txn[c] # 0 THEN Fails(c, <<>>, "25001") /\ UNCHANGED <<txn, clog, next_xid>>
       ELSE /\ next_xid \in Xids
            /\ txn' = [txn EXCEPT ![c] = next_xid]
            /\ clog' = [clog EXCEPT ![next_xid] = "active"]
            /\ next_xid' = next_xid + 1
            /\ Completes(c, <<Msg("CommandComplete", "begin", next_xid)>>)
    /\ UNCHANGED <<client_vars, units, auto, got, wrote, xmax, wal_dead>>

\* Mutant: the outcome of commit() and abort() is not looked at
finish_unchecked(c, word, state) ==
    /\ pc[c] = "query" /\ pieces[c] # <<>> /\ parse(Head(pieces[c])) = word
    /\ IF txn[c] = 0 THEN Fails(c, <<>>, "25P01") /\ UNCHANGED <<txn, clog>>
       ELSE /\ txn' = [txn EXCEPT ![c] = 0]
            /\ end_txn(txn[c], state)
            /\ Completes(c, <<Msg("CommandComplete", word, txn[c])>>)
    /\ UNCHANGED <<client_vars, units, auto, got, wrote, xmax, next_xid, wal_dead>>

\* COMMIT and ROLLBACK: the handle is taken first, whatever comes of it
finish(c, word, state) ==
    /\ pc[c] = "query" /\ pieces[c] # <<>> /\ parse(Head(pieces[c])) = word
    /\ IF txn[c] = 0 THEN Fails(c, <<>>, "25P01") /\ UNCHANGED <<txn, clog>>
       ELSE /\ txn' = [txn EXCEPT ![c] = 0]
            /\ end_txn(txn[c], state)
            /\ IF wal_dead THEN Fails(c, <<>>, "XX000")
               ELSE Completes(c, <<Msg("CommandComplete", word, txn[c])>>)
    /\ UNCHANGED <<client_vars, units, auto, got, wrote, xmax, next_xid, wal_dead>>

commit(c)   == finish(c, "commit", "committed")
rollback(c) == finish(c, "rollback", "aborted")

\* Statements that write no row (DDL only outside a block), and text that is no statement
passthrough(c) ==
    /\ pc[c] = "query" /\ pieces[c] # <<>>
    /\ LET stmt == parse(Head(pieces[c])) IN
       \/ stmt = "select" /\ Completes(c, write_result(stmt, 0))
       \/ stmt = "toasted" /\ Fails(c, write_result(stmt, 0), "XX000")
       \/ stmt = "create" /\ txn[c] # 0 /\ Fails(c, <<>>, "42601")
       \/ stmt = "create" /\ txn[c] = 0 /\ Completes(c, write_result(stmt, 0))
       \/ stmt = "error" /\ Fails(c, <<>>, "42601")
    /\ UNCHANGED <<client_vars, units, txn, auto, got, engine_vars, wal_dead>>

\* exec of a write: without a transaction it begins one of its own
exec(c) ==
    /\ pc[c] = "query" /\ pieces[c] # <<>> /\ parse(Head(pieces[c])) \in Rows
    /\ pc' = [pc EXCEPT ![c] = "exec"]
    /\ IF txn[c] # 0 THEN UNCHANGED <<auto, clog, next_xid>>
       ELSE /\ next_xid \in Xids
            /\ auto' = [auto EXCEPT ![c] = next_xid]
            /\ clog' = [clog EXCEPT ![next_xid] = "active"]
            /\ next_xid' = next_xid + 1
    /\ UNCHANGED <<client_vars, units, pieces, txn, out, got, wrote, xmax, wal_dead, ran>>

Writer(c) == IF txn[c] # 0 THEN txn[c] ELSE auto[c]
Row(c)    == parse(Head(pieces[c]))

\* The running transaction the statement has to wait for, or 0
WaitsFor(c) ==
    LET x == xmax[Row(c)] IN
    IF pc[c] = "exec" /\ x # 0 /\ x # Writer(c) /\ clog[x] = "active" THEN x ELSE 0

Wrote(c) ==
    /\ wrote' = [wrote EXCEPT ![Writer(c)] = @ \cup {Row(c)}]
    /\ xmax' = [xmax EXCEPT ![Row(c)] = Writer(c)]

exec_writes(c) ==
    /\ pc[c] = "exec" /\ WaitsFor(c) = 0 /\ ~wal_dead
    /\ Wrote(c)
    /\ IF auto[c] # 0 THEN pc' = [pc EXCEPT ![c] = "auto_commit"] /\ UNCHANGED <<pieces, out, ran>>
       ELSE Completes(c, write_result(Row(c), txn[c]))
    /\ UNCHANGED <<client_vars, units, txn, auto, got, clog, next_xid, wal_dead>>

auto_commit(c) ==
    /\ pc[c] = "auto_commit"
    /\ auto' = [auto EXCEPT ![c] = 0]
    /\ end_txn(auto[c], "committed")
    /\ IF wal_dead THEN Fails(c, <<>>, "XX000") ELSE Completes(c, write_result(Row(c), auto[c]))
    /\ UNCHANGED <<client_vars, units, txn, got, wrote, xmax, next_xid, wal_dead>>

\* An error: an auto-commit transaction is aborted, an explicit one lives on
\* with what the statement had done
ExecErr(c) ==
    /\ IF auto[c] # 0 THEN end_txn(auto[c], "aborted") ELSE clog' = clog
    /\ auto' = [auto EXCEPT ![c] = 0]
    /\ Fails(c, <<>>, "XX000")
    /\ UNCHANGED <<client_vars, units, txn, got, next_xid, wal_dead>>

exec_fails(c) ==
    /\ pc[c] = "exec" /\ WaitsFor(c) = 0
    /\ \/ ~wal_dead /\ Wrote(c)
       \/ UNCHANGED <<wrote, xmax>>
    /\ ExecErr(c)

\* Two statements wait for each other's transaction
WaitsInCircle(c) ==
    /\ WaitsFor(c) # 0
    /\ \E d \in Conns : Writer(d) = WaitsFor(c) /\ WaitsFor(d) # 0 /\ WaitsFor(d) = Writer(c)

victim(c) ==
    /\ pc[c] = "exec" /\ WaitsInCircle(c)
    /\ ExecErr(c)
    /\ UNCHANGED <<wrote, xmax>>

\* The end of handle_query and of its turn of the loop
respond(c) ==
    /\ pc[c] = "query" /\ pieces[c] = <<>>
    /\ write_all(c, Append(out[c], Msg("ReadyForQuery", status_byte(txn[c]), txn[c])), "regular")
    /\ UNCHANGED <<client_vars, units, pieces, txn, auto, engine_vars, wal_dead, ran>>

\* Mutant: TxnHandle has no Drop
end_leaks(c) ==
    /\ pc[c] = "end"
    /\ pc' = [pc EXCEPT ![c] = "done"]
    /\ txn' = [txn EXCEPT ![c] = 0]
    /\ eof' = [eof EXCEPT ![c] = TRUE]
    /\ UNCHANGED <<script, todo, units, pieces, auto, out, got, engine_vars, wal_dead, ran>>

\* run returned: the session is dropped, its transaction with it, the socket closed
end(c) ==
    /\ pc[c] = "end"
    /\ pc' = [pc EXCEPT ![c] = "done"]
    /\ IF txn[c] # 0 THEN end_txn(txn[c], "aborted") ELSE clog' = clog
    /\ txn' = [txn EXCEPT ![c] = 0]
    /\ eof' = [eof EXCEPT ![c] = TRUE]
    /\ UNCHANGED <<script, todo, units, pieces, auto, out, got, wrote, xmax, next_xid, wal_dead, ran>>

thread(c) ==
    \/ startup(c) \/ regular(c) \/ begin(c) \/ commit(c) \/ rollback(c) \/ passthrough(c)
    \/ exec(c) \/ exec_writes(c) \/ auto_commit(c) \/ exec_fails(c) \/ respond(c) \/ end(c)

\* Every connection over, or stuck behind a transaction the dead WAL cannot end
Over ==
    /\ \A c \in Conns : eof[c] /\ (pc[c] = "done" \/ wal_dead)
    /\ UNCHANGED vars

Next ==
    \/ \E c \in Conns : send(c) \/ hang_up(c) \/ thread(c) \/ victim(c)
    \/ wal_dies
    \/ Over

\* When a connection's thread has a step to take
Runnable(c) ==
    CASE pc[c] = "startup" -> read_startup_packet(units[c], eof[c]).is # "block"
      [] pc[c] = "regular" -> read_message(units[c], eof[c]).is # "block"
      [] pc[c] = "exec" -> WaitsFor(c) = 0
      [] OTHER -> pc[c] # "done"

(* Threads run, clients send what they have and in the end hang up, and the *)
(* deadlock detector comes by: weak fairness, its ENABLED spelled out.      *)
Fairness ==
    \A c \in Conns : /\ []<>~Runnable(c) \/ []<><<thread(c)>>_vars
                     /\ []<>eof[c] \/ []<><<send(c) \/ hang_up(c)>>_vars
                     /\ []<>~WaitsInCircle(c) \/ []<><<victim(c)>>_vars

Spec == Init /\ [][Next]_vars /\ Fairness
-----------------------------------------------------------------------------
(* Properties.                                                              *)

Running(x) == clog[x] = "active"

\* A transaction that is in progress belongs to a session that still has it,
\* as its handle or as the statement in exec: neither Terminate, a hang-up
\* inside a frame or between two statements, a refused reply, a protocol error
\* nor a failed statement leaves an XID (and the rows it blocks) behind.  Only
\* a WAL that died can.
NothingLeaks ==
    ~wal_dead => \A x \in Xids : Running(x) => \E c \in Conns : Writer(c) = x /\ pc[c] # "done"

Told(c) == got[c] \o out[c]

\* The messages that end the block a BEGIN at position b opened
Closes(m) == \/ m.m = "CommandComplete" /\ m.s \in {"commit", "rollback"}
             \/ m.m = "ReadyForQuery" /\ m.s = "I"
BlockEnd(t, b) == LET at == {i \in b .. Len(t) : Closes(t[i])} IN IF at = {} THEN 0 ELSE Min(at)
BlockOf(t, i)  == {b \in 1 .. i : /\ t[b].m = "CommandComplete" /\ t[b].s = "begin"
                                  /\ BlockEnd(t, b) = 0 \/ BlockEnd(t, b) > i}

\* What a client concludes from its replies alone is so.  A write reported
\* complete outside a block is committed; inside one it is in the block's
\* transaction, which is committed once COMMIT is reported, rolled back once
\* ROLLBACK is, and not committed when the status byte says the block is over
\* without either.  A session that waits for the next message has last reported
\* the status it is in.
RepliesAreTrue ==
    \A c \in Conns :
      LET t == Told(c) IN
      /\ \A i \in 1 .. Len(t) :
           t[i].m = "CommandComplete" /\ t[i].s \in Rows =>
             IF BlockOf(t, i) = {} THEN clog[t[i].x] = "committed" /\ t[i].s \in wrote[t[i].x]
             ELSE \E b \in BlockOf(t, i) : t[i].s \in wrote[t[b].x]
      /\ \A b \in 1 .. Len(t) :
           t[b].m = "CommandComplete" /\ t[b].s = "begin" =>
             LET e == BlockEnd(t, b) IN
             CASE e = 0 -> \/ txn[c] = t[b].x
                           \/ pc[c] \in {"end", "done"}
                           \/ wal_dead /\ out[c] # <<>> /\ Last(out[c]).m = "ErrorResponse"
               [] e # 0 /\ t[e].m = "ReadyForQuery" -> clog[t[b].x] # "committed"
               [] OTHER -> clog[t[b].x] = IF t[e].s = "commit" THEN "committed" ELSE "aborted"
      /\ pc[c] = "regular" =>
           /\ Last(got[c]).m = "ReadyForQuery"
           /\ Last(got[c]).s = "T" <=> \E x \in Xids : Running(x) /\ x = txn[c]

\* Where a query string is cut: at the ';' with an even number of quotes before
Cuts(sql) == {i \in 1 .. Len(sql) : sql[i] = ";" /\ Quotes(SubSeq(sql, 1, i)) % 2 = 0}
Between(sql) ==
    LET ends == Cuts(sql) \cup {Len(sql) + 1}
        nth(n) == CHOOSE e \in ends : Cardinality({f \in ends : f <= e}) = n
    IN  [n \in 1 .. Cardinality(ends) |->
           SubSeq(sql, IF n = 1 THEN 1 ELSE nth(n - 1) + 1, nth(n) - 1)]

\* The query strings of a client, in order, and the statements each is made of
Queries(c) == SelectSeq(script[c].then, LAMBDA f : Head(f) = "Q" /\ Last(f) = NUL)
Meant(f) ==
    LET sql == SubSeq(f, 3, Len(f) - 1)
        all == SelectSeq(Between(sql), LAMBDA p : \E i \in 1 .. Len(p) : p[i] # " ")
    IN  [i \in 1 .. Len(all) |-> parse(trim(all[i]))]

\* For every string of up to five tokens the one-pass splitter finds the pieces
\* the quotes' parity defines; for every startup body of up to six the parser
\* accepts exactly what lists of parameters with non-empty names encode to
Strings(S, n) == UNION {[1 .. m -> S] : m \in 0 .. n}
Encoded(ps) == FoldLeft(LAMBDA acc, p : acc \o p[1] \o <<NUL>> \o p[2] \o <<NUL>>, <<>>, ps) \o <<NUL>>
ParamLists == Strings((Strings({"a"}, 3) \ {<<>>}) \X Strings({"a"}, 3), 2)
CodecHolds ==
    /\ \A sql \in Strings({";", "'", "a"}, 5) : split_statements(sql) = Between(sql)
    /\ \A ps \in ParamLists : parse_startup_body(Encoded(ps)) = ps
    /\ \A body \in Strings({NUL, "a"}, 6) :
         LET ps == parse_startup_body(body) IN ps # BadParams => Encoded(ps) = body

\* What ran is what was sent: the n-th query the session ran is the n-th the
\* client sent whole (a frame cut off by a hang-up runs nothing), its statements
\* ran in order, and nothing ran after one that failed.  The splitter and the
\* startup parser this rests on are exact (asked once, before anything is sent).
RunsWhatWasSent ==
    /\ (\A c \in Conns : todo[c] = script[c].first \o script[c].then /\ ~eof[c]) /\ ~wal_dead => CodecHolds
    /\ \A c \in Conns : \A n \in 1 .. Len(ran[c]) :
         LET r == ran[c][n]
             q == Meant(Queries(c)[n])
         IN  /\ n <= Len(Queries(c)) /\ Len(r) <= Len(q)
             /\ \A i \in 1 .. Len(r) : r[i][1] = q[i] /\ (i < Len(r) => r[i][2])
             /\ \/ n = Len(ran[c]) /\ pc[c] \notin {"regular", "done"}
                \/ Len(r) = Len(q)
                \/ ~r[Len(r)][2]

\* Every query gets its answer, and a client that hangs up, wherever it does, is
\* let go of with all it held, unless the WAL dies: a session waits only for
\* units that may still come and for transactions that end.
Served ==
    \A c \in Conns : /\ pc[c] = "query" ~> (pc[c] \in {"regular", "done"} \/ wal_dead)
                     /\ eof[c] ~> (pc[c] = "done" \/ wal_dead)
=============================================================================
