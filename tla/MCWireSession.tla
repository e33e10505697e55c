---------------------------- MODULE MCWireSession ----------------------------
(***************************************************************************)
(* Two clients.  A script is what each sends: c1 the first, c2 the second. *)
(***************************************************************************)
EXTENDS WireSession

CONSTANTS c1, c2

Q(sql)       == <<"Q", Len(sql) + 2>> \o sql \o <<NUL>>
Terminate    == <<"X", 1>>
Parse        == <<"P", 2, "payload">>
Startup(b)   == <<Len(b) + 2, "startup">> \o b
Hello        == Startup(<<"user", NUL, "ann", NUL, NUL>>)
Anonymous    == Startup(<<"app", NUL, "psql", NUL, NUL>>)
SslRequest   == <<2, "ssl">>
GssRequest   == <<2, "gssenc">>
Cancel       == <<4, "cancel", "pid", "key">>

Pair(p, q) == c1 :> p @@ c2 :> q
Client(fs, gs) == [first |-> fs, then |-> gs]

MCScripts == {
    \* two blocks over the same rows in opposite orders
    Pair(Client(<<Hello>>, <<Q(<<"begin", ";", "w1">>), Q(<<"w2", ";", "commit">>)>>),
         Client(<<Hello>>, <<Q(<<"begin", ";", "w2">>), Q(<<"w1", ";", "commit">>)>>)),
    \* a block whose statements fail, refused messages in it, an auto-commit rival
    Pair(Client(<<SslRequest, Anonymous>>,
                <<Q(<<"begin", ";", "w1", "'", ";", "'", ";", "begin">>), Parse, Q(<<"toasted", ";", "w2">>), Q(<<"create">>),
                  Terminate>>),
         Client(<<Hello>>, <<Q(<<"w1">>)>>)),
    Pair(Client(<<Hello>>, <<Q(<<"begin", ";", "w1", ";", "rollback", ";", " ">>), Q(<<"commit">>)>>),
         Client(<<Hello>>, <<Q(<<"w2", ";", "w1">>)>>)),
    \* strings that are empty, unterminated, nothing but separators
    Pair(Client(<<GssRequest, Hello>>,
                <<Q(<<>>), Q(<<" ", ";", "create", ";">>), Q(<<"select", ";", "w1", ";", "error", ";", "w2">>),
                  Q(<<"w1", "'", ";", "w2">>)>>),
         Client(<<Cancel>>, <<>>)),
    \* frames that are not well formed: the connection ends, the rest of it is not read
    Pair(Client(<<Hello>>, <<Q(<<"begin", ";", "w1">>), <<"Q", 3, "w2", "w2">>, Q(<<"commit">>)>>),
         Client(<<Startup(<<"user", NUL>>)>>, <<Q(<<"w1">>)>>)),
    Pair(Client(<<Hello>>, <<Q(<<"begin">>), Q(<<"w1">>), <<"Q", MaxLen + 1, "w2", NUL>>>>),
         Client(<< <<2, "v2">> >>, <<Q(<<"w1">>)>>)),
    Pair(Client(<<Hello>>, <<Q(<<"begin">>), <<"Q", 4, "w2", NUL, "w2">>, Q(<<"commit">>)>>),
         Client(<< <<3, "cancel", "pid">> >>, <<>>)),
    Pair(Client(<<Hello>>, << <<"Q", 1>> >>), Client(<< <<1>>, Hello>>, <<>>))}
=============================================================================
