------------------------------ MODULE Session ------------------------------
(***************************************************************************)
(* The command phase of a session: src/client/conn.go, resp.go and stmt.go *)
(* against src/server/command.go, resp.go and stmt.go.                     *)
(*                                                                         *)
(* A packet to the client has a kind, its sequence number, the status it   *)
(* carries and whether it answers the call in progress (`fresh`, which no  *)
(* program sees).  What a handler does is the server application's choice. *)
(* The application on the client's side closes the connection after an     *)
(* error that is not an error packet, as src/driver/driver.go:331 does, but *)
(* goes on after an error of its own callback.                             *)
(***************************************************************************)
EXTENDS Integers, Sequences, SequencesExt

CONSTANTS SeqModulus,   \* sequence numbers wrap here (256)
          MaxRows,      \* rows of a result
          MaxStmts,     \* statements that may be prepared on a connection
          MaxParams,    \* parameters of any two statements together
          MaxChunks,    \* pieces of long data kept for a parameter
          Arguments,    \* arguments other than NULL: Go type and value
          Width,        \* bits of the integer types on the wire
          MaxPipelined, \* commands without an answer that may be on their way
          CloseFails,   \* HandleStmtClose may return an error
          Null          \* the NULL argument, and no value

ASSUME SessionAssumption ==
  /\ SeqModulus \in Nat \ {0} /\ MaxRows \in Nat /\ MaxStmts \in Nat /\ MaxParams \in Nat
  /\ MaxChunks \in Nat /\ MaxPipelined \in Nat /\ CloseFails \in BOOLEAN /\ Null \notin Arguments

VARIABLES dep,      \* CLIENT_DEPRECATE_EOF was negotiated
          stmts,    \* the server's statements: Null or the arguments kept for one
          stmtID,   \* the last statement id given out
          srv,      \* the server's status and database, and whether it is connected
          cli,      \* what the client believes they are, and its sequence number
          held,     \* statements that the application has and has not closed
          call,     \* the client's call in progress
          req,      \* commands to the server
          ans,      \* packets to the client
          handed    \* the arguments of the last execution: sent and received

ssVars == <<dep, stmts, stmtID, srv, cli, held, call, req, ans, handed>>

Schemas == {"a", "b"}
NoCall == [op |-> "none"]
NothingHanded == [sent |-> <<>>, got |-> <<>>]

SessionInit ==
  /\ dep \in BOOLEAN
  /\ stmts = [i \in 1 .. MaxStmts |-> Null]
  /\ stmtID = 0
  /\ srv = [trans |-> FALSE, db |-> "a", open |-> TRUE]
  /\ cli = [trans |-> FALSE, db |-> "a", open |-> TRUE, seq |-> 0]
  /\ held = {}
  /\ call = NoCall
  /\ req = <<>> /\ ans = <<>>
  /\ handed = NothingHanded

(***************************************************************************)
(* The client sends a command                                              *)
(***************************************************************************)
\* writeCommand: ResetSequence and WritePacket.  Packets that are still on their
\* way answer an earlier command.
Stale(packets) == [i \in DOMAIN packets |-> [packets[i] EXCEPT !.fresh = FALSE]]
Sent(cmd) ==
  /\ req' = Append(req, cmd)
  /\ ans' = Stale(ans)
  /\ cli' = [cli EXCEPT !.seq = 1]

Free == call = NoCall /\ cli.open

Start(cmd, c) ==
  /\ Free /\ Len(req) <= MaxPipelined
  /\ Sent(cmd)
  /\ call' = c /\ handed' = NothingHanded
  /\ UNCHANGED <<dep, stmts, stmtID, srv, held>>

Simple(d) == [op |-> "ok", db |-> d, auto |-> FALSE]
Ping == Start([cmd |-> "ping", awaited |-> TRUE], Simple(cli.db))
UseDB(d) == Start([cmd |-> "initdb", db |-> d, awaited |-> TRUE], Simple(d))

Query(q) == [cmd |-> "query", query |-> q, awaited |-> TRUE]
Reading(op, auto) == 
  [op |-> op, todo |-> <<>>, auto |-> auto, id |-> 0, params |-> 0, args |-> <<>>]

\* exec (Begin, Commit, Rollback and the like are queries), ExecuteMultiple and
\* ExecuteSelectStreaming.
exec(q) == Start(Query(q), Reading("result", FALSE))
ExecuteMultiple(q) == Start(Query(q), Reading("multiple", FALSE))
ExecuteSelectStreaming(q) == Start(Query(q), Reading("streaming", FALSE))
FieldList == Start([cmd |-> "fieldlist", awaited |-> TRUE], Reading("fields", FALSE))

Args(n) == [1 .. n -> Arguments \cup {Null}]
PrepareCmd(n) == [cmd |-> "prepare", params |-> n, awaited |-> TRUE]

Room(n) == /\ stmtID < MaxStmts
           /\ \A i \in DOMAIN stmts : stmts[i] # Null => Len(stmts[i]) + n <= MaxParams

\* Prepare a statement of n parameters.
Prepare(n) == Room(n) /\ Start(PrepareCmd(n), Reading("prepare", FALSE))

\* Execute with arguments: Prepare, Stmt.Execute and Stmt.Close in one call.
Execute(args) ==
  /\ Room(Len(args))
  /\ Start(PrepareCmd(Len(args)), [Reading("prepare", TRUE) EXCEPT !.args = args])

\* Stmt.write: the type, flag and bytes of an argument.
WireType(go) ==
  CASE go \in {"int8", "uint8", "bool"} -> "TINY"
    [] go \in {"int16", "uint16"} -> "SHORT"
    [] go \in {"int32", "uint32"} -> "LONG"
    [] go \in {"int", "int64", "uint", "uint64"} -> "LONGLONG"
    [] go = "float32" -> "FLOAT"
    [] go = "float64" -> "DOUBLE"
    [] OTHER -> "STRING"
Integer(type) == type \in DOMAIN Width
UnsignedFlagOf32(go) == go \in {"uint8", "uint16", "uint32"}
UnsignedFlag(go) == go \in {"uint8", "uint16", "uint32", "uint", "uint64"}
Encode(a) ==
  LET t == WireType(a.go)
  IN  [type |-> t, unsigned |-> UnsignedFlag(a.go),
       bytes |-> IF Integer(t) THEN a.v % 2 ^ Width[t] ELSE a.v]

GoIntegers == {"int8", "uint8", "int16", "uint16", "int32", "uint32", "int", "int64", "uint", "uint64"}
Values(go) ==
  LET w == Width[WireType(go)]
  IN  IF go \in {"int8", "int16", "int32", "int", "int64"} THEN -(2 ^ (w - 1)) .. 2 ^ (w - 1) - 1
      ELSE 0 .. 2 ^ w - 1

\* Types and values are sent only when an argument is not NULL.
Bound(args) == \E i \in DOMAIN args : args[i] # Null
ExecuteCmd(id, args) ==
  [cmd |-> "execute", id |-> id, args |-> args, bound |-> Bound(args), awaited |-> TRUE,
   wire |-> [i \in DOMAIN args |-> IF args[i] = Null THEN Null ELSE Encode(args[i])]]
CloseCmd(id) == [cmd |-> "close", id |-> id, awaited |-> FALSE]

\* Stmt.Execute and Stmt.ExecuteSelectStreaming
StmtExecute(h, args) ==
  \E op \in {"result", "streaming"} : Start(ExecuteCmd(h.id, args), Reading(op, FALSE))

\* Stmt.Close waits for no answer.
StmtClose(h) ==
  /\ Free /\ Len(req) < MaxPipelined
  /\ Sent(CloseCmd(h.id))
  /\ held' = held \ {h} /\ handed' = NothingHanded
  /\ UNCHANGED <<dep, stmts, stmtID, srv, call>>

\* Commands of other clients that the server knows.
SendLongData(h, i) ==
  /\ Free /\ Len(req) < MaxPipelined /\ MaxChunks > 0
  /\ Sent([cmd |-> "longdata", id |-> h.id, param |-> i, awaited |-> FALSE])
  /\ UNCHANGED <<dep, stmts, stmtID, srv, held, call, handed>>

StmtReset(h) == Start([cmd |-> "reset", id |-> h.id, awaited |-> TRUE], Simple(cli.db))

Quit ==
  /\ Free
  /\ req' = Append(req, [cmd |-> "quit", awaited |-> FALSE])
  /\ cli' = [cli EXCEPT !.open = FALSE]
  /\ UNCHANGED <<dep, stmts, stmtID, srv, held, call, ans, handed>>

(***************************************************************************)
(* The server                                                              *)
(***************************************************************************)
\* A packet as WriteValue makes it.  EOF and OK carry the status; `more` is
\* SERVER_MORE_RESULTS_EXISTS.
P(k) == [k |-> k, id |-> 0, n |-> 0, m |-> 0, more |-> FALSE]
PMore(k) == [P(k) EXCEPT !.more = TRUE]

\* The packets after a command was read: numbered from 1.
Answer(cmd, packets, s) ==
  ans' = ans \o [i \in DOMAIN packets |->
                   [k |-> packets[i].k, id |-> packets[i].id, n |-> packets[i].n, m |-> packets[i].m,
                    more |-> packets[i].more, seq |-> i % SeqModulus,
                    trans |-> s.trans, fresh |-> cmd.awaited]]

NoEOF == <<>>

\* writeEOF after the definitions of columns or parameters.  This server never
\* negotiates CLIENT_DEPRECATE_EOF; a MySQL server that does leaves it out.
writeEOF == IF dep THEN <<>> ELSE <<P("eof")>>

Rep(p, n) == [i \in 1 .. n |-> p]

\* writeResultset of one column
writeResultset(rows, last) ==
  <<[P("count") EXCEPT !.n = 1], P("field")>> \o writeEOF \o Rep(P("row"), rows) \o <<last>>

\* writePrepare
writePrepare(id, params, columns) ==
  <<[P("prepared") EXCEPT !.id = id, !.n = params, !.m = columns]>>
    \o (IF params > 0 THEN Rep(P("field"), params) \o writeEOF ELSE <<>>)
    \o (IF columns > 0 THEN Rep(P("field"), columns) \o writeEOF ELSE <<>>)

\* What a handler may return for a query: an error, OK, a result, or several
\* results that it wrote itself (StreamingMultiple).
Responses ==
  {<<P("err")>>, <<P("ok")>>}
    \cup {writeResultset(r, P("eof")) : r \in 0 .. MaxRows}
Multiple ==
  {writeResultset(1, PMore("eof")) \o <<P("ok")>>,
   <<PMore("ok")>> \o writeResultset(1, P("eof")),
   <<PMore("ok"), P("err")>>}

\* The status that a query leaves.
Status(q) == [srv EXCEPT !.trans = IF q = "begin" THEN TRUE ELSE IF q = "commit" THEN FALSE ELSE @]

HandleQuery(cmd) ==
  \/ cmd.query # "multi"
     /\ \E r \in Responses :
          LET s == IF r = <<P("err")>> THEN srv ELSE Status(cmd.query)
          IN  Answer(cmd, r, s) /\ srv' = s
  \/ cmd.query = "multi" /\ UNCHANGED srv /\ \E r \in Multiple : Answer(cmd, r, srv)

\* HandleFieldList: fields and EOF
HandleFieldList(cmd) ==
  \E r \in {<<P("err")>>, <<P("field"), P("eof")>>} : Answer(cmd, r, srv)

\* ResetParams
ResetParams(n) == [i \in 1 .. n |-> Null]

HandlePrepare(cmd) ==
  LET id == stmtID + 1
  IN  /\ stmtID' = id
      /\ \/ Answer(cmd, <<P("err")>>, srv) /\ UNCHANGED stmts
         \/ \E columns \in 0 .. 1 :
              /\ Answer(cmd, writePrepare(id, cmd.params, columns), srv)
              /\ stmts' = [stmts EXCEPT ![id] = ResetParams(cmd.params)]

\* The Go value that bindStmtArgs makes of one parameter.
Signed(u, t) == IF u >= 2 ^ (Width[t] - 1) THEN u - 2 ^ Width[t] ELSE u
Decode(w) ==
  IF Integer(w.type) THEN [go |-> w.type, v |-> IF w.unsigned THEN w.bytes ELSE Signed(w.bytes, w.type)]
  ELSE [go |-> w.type, v |-> w.bytes]

BindKeepingNull(old, w) == IF w = Null THEN old ELSE Decode(w)

\* A bit of the NULL bitmap stands for NULL.
Bind(old, w) == IF w = Null THEN Null ELSE Decode(w)
bindStmtArgs(args, wire) == [i \in DOMAIN args |-> Bind(args[i], wire[i])]

\* What HandleStmtExecute gets: nothing is bound unless the flag is set.
ArgsToExecute(cmd) ==
  IF cmd.bound THEN bindStmtArgs(stmts[cmd.id], cmd.wire) ELSE stmts[cmd.id]

\* handleStmtExecute.  After an error of the handler the arguments stay.
handleStmtExecute(cmd) ==
  IF stmts[cmd.id] = Null
  THEN Answer(cmd, <<P("err")>>, srv) /\ UNCHANGED <<stmts, handed>>
  ELSE /\ handed' = [sent |-> cmd.args, got |-> ArgsToExecute(cmd)]
       /\ \E r \in Responses :
            /\ Answer(cmd, r, srv)
            /\ stmts' = [stmts EXCEPT ![cmd.id] =
                           IF r = <<P("err")>> THEN ArgsToExecute(cmd) ELSE ResetParams(Len(@))]

\* handleStmtSendLongData: long data is kept as a number of pieces.  It is added
\* to long data only.
AppendLong(a) ==
  IF a = Null THEN [go |-> "bytes", v |-> 1]
  ELSE IF a.go = "bytes" /\ a.v < MaxChunks THEN [a EXCEPT !.v = @ + 1]
  ELSE a
handleStmtSendLongData(cmd) ==
  /\ UNCHANGED ans
  /\ IF stmts[cmd.id] = Null THEN UNCHANGED stmts
     ELSE stmts' = [stmts EXCEPT ![cmd.id] =
                      [i \in DOMAIN @ |-> IF i = cmd.param THEN AppendLong(@[i]) ELSE @[i]]]

handleStmtReset(cmd) ==
  IF stmts[cmd.id] = Null THEN Answer(cmd, <<P("err")>>, srv) /\ UNCHANGED stmts
  ELSE Answer(cmd, <<P("ok")>>, srv) /\ stmts' = [stmts EXCEPT ![cmd.id] = ResetParams(Len(@))]

\* handleStmtClose: an error of the handler is written, and the statement stays.
handleStmtClose(cmd) ==
  \E err \in {FALSE, CloseFails} :
    IF stmts[cmd.id] = Null THEN UNCHANGED <<stmts, ans>>
    ELSE IF err THEN Answer(cmd, <<P("err")>>, srv) /\ UNCHANGED stmts
    ELSE stmts' = [stmts EXCEPT ![cmd.id] = Null] /\ UNCHANGED ans

\* dispatch and WriteValue
Dispatch(cmd) ==
  \/ /\ cmd.cmd = "quit"
     /\ srv' = [srv EXCEPT !.open = FALSE]
     /\ UNCHANGED <<stmts, stmtID, ans, handed>>
  \/ /\ cmd.cmd = "ping"
     /\ Answer(cmd, <<P("ok")>>, srv) /\ UNCHANGED <<stmts, stmtID, srv, handed>>
  \/ /\ cmd.cmd = "initdb"
     /\ \/ Answer(cmd, <<P("ok")>>, srv) /\ srv' = [srv EXCEPT !.db = cmd.db]
        \/ Answer(cmd, <<P("err")>>, srv) /\ UNCHANGED srv
     /\ UNCHANGED <<stmts, stmtID, handed>>
  \/ cmd.cmd = "query" /\ HandleQuery(cmd) /\ UNCHANGED <<stmts, stmtID, handed>>
  \/ cmd.cmd = "fieldlist" /\ HandleFieldList(cmd) /\ UNCHANGED <<stmts, stmtID, srv, handed>>
  \/ cmd.cmd = "prepare" /\ HandlePrepare(cmd) /\ UNCHANGED <<srv, handed>>
  \/ cmd.cmd = "execute" /\ handleStmtExecute(cmd) /\ UNCHANGED <<stmtID, srv>>
  \/ cmd.cmd = "longdata" /\ handleStmtSendLongData(cmd) /\ UNCHANGED <<stmtID, srv, handed>>
  \/ cmd.cmd = "reset" /\ handleStmtReset(cmd) /\ UNCHANGED <<stmtID, srv, handed>>
  \/ cmd.cmd = "close" /\ handleStmtClose(cmd) /\ UNCHANGED <<stmtID, srv, handed>>

HandleCommand ==
  /\ srv.open /\ req # <<>>
  /\ Dispatch(Head(req))
  /\ req' = Tail(req)
  /\ UNCHANGED <<dep, cli, held, call>>

\* The connection breaks, or WriteValue fails half way and HandleCommand closes
\* it: what was not yet received is lost from some packet on.
Break ==
  /\ srv.open
  /\ srv' = [srv EXCEPT !.open = FALSE]
  /\ \E n \in 0 .. Len(ans) : ans' = SubSeq(ans, 1, n)
  /\ req' = <<>>
  /\ UNCHANGED <<dep, stmts, stmtID, cli, held, call, handed>>

(***************************************************************************)
(* The client reads an answer                                              *)
(***************************************************************************)
\* One packet was read: the client's new state, its call, and what it sends at
\* once.
Step(c, newCall, cmds) ==
  /\ call' = newCall
  /\ req' = req \o cmds
  /\ ans' = IF cmds = <<>> THEN Tail(ans) ELSE Stale(Tail(ans))
  /\ cli' = IF cmds = <<>> THEN c ELSE [c EXCEPT !.seq = 1]

\* Only after a result, not after an error.
ReturnLeaving(c) ==
  Step(c, NoCall, IF call.auto /\ Head(ans).k # "err" THEN <<CloseCmd(call.id)>> ELSE <<>>)

\* A call that prepared a statement of its own closes it before it returns.
Return(c) == Step(c, NoCall, IF call.auto THEN <<CloseCmd(call.id)>> ELSE <<>>)

\* An error that is not an error packet.
Bad == /\ cli' = [cli EXCEPT !.open = FALSE]
       /\ call' = NoCall
       /\ UNCHANGED <<req, ans, held>>

Took == [cli EXCEPT !.seq = (@ + 1) % SeqModulus]

TookNoStatus(p) == Took

\* The status that OK and the EOF of a result bring.
TookStatus(p) == [Took EXCEPT !.trans = p.trans]

\* readOK; UseDB remembers the database only now.
ReadOK(p) ==
  CASE p.k = "ok" -> Return([TookStatus(p) EXCEPT !.db = call.db]) /\ UNCHANGED held
    [] p.k = "err" -> Return(Took) /\ UNCHANGED held
    [] OTHER -> Bad

\* The end of one result: ExecuteMultiple goes on if another one is announced.
ResultEnds(p) ==
  IF p.more /\ call.op = "multiple" THEN Step(TookStatus(p), [call EXCEPT !.todo = <<>>], <<>>)
  ELSE Return(TookStatus(p))

\* What is still to be read after the first packet.
EOFToRead == IF dep THEN <<>> ELSE <<"eof">>
ColumnsToRead(n) == Rep("field", n) \o EOFToRead \o <<"rows">>
PreparedToRead(n, m) ==
  (IF n > 0 THEN Rep("field", n) \o EOFToRead ELSE <<>>)
    \o (IF m > 0 THEN Rep("field", m) \o EOFToRead ELSE <<>>)

\* readResult, readResultStreaming and the loop of ExecuteMultiple.
ReadFirst(p) ==
  /\ UNCHANGED held
  /\ CASE p.k = "ok" -> ResultEnds(p)
       [] p.k = "err" -> Return(Took)
       [] OTHER -> Step(Took, [call EXCEPT !.todo = ColumnsToRead(p.n)], <<>>)

\* Prepare has read the last packet: a call with arguments goes on with
\* Stmt.Execute, else the application has a statement.
Prepared(c) ==
  IF c.auto
  THEN /\ Step(Took, [c EXCEPT !.op = "result", !.todo = <<>>], <<ExecuteCmd(c.id, c.args)>>)
       /\ UNCHANGED held
  ELSE Step(Took, NoCall, <<>>) /\ held' = held \cup {[id |-> c.id, n |-> c.params]}

ReadPrepared(p) ==
  LET c == [call EXCEPT !.id = p.id, !.params = p.n, !.todo = PreparedToRead(p.n, p.m)]
  IN  CASE p.k = "err" -> Step(Took, NoCall, <<>>) /\ UNCHANGED held
        [] p.k # "prepared" -> Bad
        [] OTHER -> IF c.todo = <<>> THEN Prepared(c) ELSE Step(Took, c, <<>>) /\ UNCHANGED held

\* readResultColumns and the definitions after Prepare.  Reading the EOF of a
\* result's columns brings the status too.
ReadDefinition(p) ==
  LET c == [call EXCEPT !.todo = Tail(@)]
  IN  IF Head(call.todo) = "eof" /\ p.k # "eof" THEN Bad
      ELSE IF call.op = "prepare" /\ c.todo = <<>> THEN Prepared(c)
      ELSE /\ Step(IF Head(call.todo) = "eof" /\ call.op # "prepare" THEN TookStatus(p) ELSE Took,
                   c, <<>>)
           /\ UNCHANGED held

\* readResultRows; when streaming, the callback of a row may fail.
ReadRow(p) ==
  /\ UNCHANGED held
  /\ CASE p.k = "eof" -> ResultEnds(p)
       [] p.k = "err" -> Return(Took)
       [] OTHER -> Step(Took, call, <<>>) \/ (call.op = "streaming" /\ Return(Took))

\* FieldList
ReadField(p) ==
  /\ IF p.k \in {"err", "eof"} THEN Return(Took) ELSE Step(Took, call, <<>>)
  /\ UNCHANGED held

AnySequence(p) == TRUE

\* A packet with the expected sequence number (Packet!HeaderRead) is used.
InSequence(p) == p.seq = cli.seq

ReadPacket ==
  /\ call # NoCall /\ ans # <<>>
  /\ LET p == Head(ans)
     IN  IF ~ InSequence(p) THEN Bad
         ELSE CASE call.op = "ok" -> ReadOK(p)
                [] call.op = "fields" -> ReadField(p)
                [] call.op = "prepare" /\ call.id = 0 -> ReadPrepared(p)
                [] call.todo = <<>> -> ReadFirst(p)
                [] Head(call.todo) = "rows" -> ReadRow(p)
                [] OTHER -> ReadDefinition(p)
  /\ UNCHANGED <<dep, stmts, stmtID, srv, handed>>

\* The connection was closed on the other side.
ReadFails ==
  /\ call # NoCall /\ ans = <<>> /\ ~ srv.open
  /\ Bad
  /\ UNCHANGED <<dep, stmts, stmtID, srv, handed>>

\* The application connects again.
Reconnect ==
  /\ ~ cli.open
  /\ stmts' = [i \in 1 .. MaxStmts |-> Null]
  /\ stmtID' = 0
  /\ srv' = [trans |-> FALSE, db |-> "a", open |-> TRUE]
  /\ cli' = [trans |-> FALSE, db |-> "a", open |-> TRUE, seq |-> 0]
  /\ held' = {} /\ call' = NoCall
  /\ req' = <<>> /\ ans' = <<>> /\ handed' = NothingHanded
  /\ UNCHANGED dep

Client ==
  \/ Ping \/ FieldList \/ Quit
  \/ \E d \in Schemas : UseDB(d)
  \/ \E q \in {"begin", "commit", "multi"} : exec(q)
  \/ ExecuteMultiple("multi") \/ ExecuteSelectStreaming("select")
  \/ \E n \in 0 .. MaxParams : Prepare(n)
  \/ \E n \in 1 .. MaxParams : \E args \in Args(n) : Execute(args)
  \/ \E h \in held : StmtClose(h) \/ StmtReset(h) \/ (\E args \in Args(h.n) : StmtExecute(h, args))
  \/ \E h \in held : \E i \in 1 .. h.n : SendLongData(h, i)

SessionNext == Client \/ HandleCommand \/ ReadPacket \/ ReadFails \/ Break \/ Reconnect

(***************************************************************************)
(* Properties                                                              *)
(***************************************************************************)
\* A call reads only packets that answer it.  Rows left behind by a callback
\* that failed, or by exec of several statements, are never taken for the answer
\* of the next call: the sequence number tells them apart.
AnswersMatch ==
  call # NoCall /\ ans # <<>> /\ InSequence(Head(ans)) => Head(ans).fresh

\* The client never waits for a packet that nobody will write: both sides count
\* the same definitions, EOF packets and results.
NoHang ==
  call # NoCall /\ ans = <<>> => ~ srv.open \/ \E i \in DOMAIN req : req[i].awaited

\* Between calls the client's idea of transaction status and database is the
\* server's.
SettingsAgree ==
  call = NoCall /\ cli.open /\ srv.open => cli.trans = srv.trans /\ cli.db = srv.db

\* The server keeps a statement exactly as long as the application holds it;
\* Conn.Execute leaves none behind, whatever fails in it.
StatementsHeld ==
  call = NoCall /\ cli.open /\ srv.open /\ req = <<>> =>
    {i \in DOMAIN stmts : stmts[i] # Null} = {h.id : h \in held}

\* The handler's argument is the one of the call, with its value and sign.
SameArg(got, sent) ==
  IF sent = Null THEN got = Null ELSE got # Null /\ got.go # "bytes" /\ got.v = sent.v

\* An integer of every Go type has its value and sign after the way through the
\* wire types, for every value that its width can hold.
IntegersKept ==
  \A go \in GoIntegers : \A v \in Values(go) :
    Decode(Encode([go |-> go, v |-> v])).v = v

\* An execution with an argument other than NULL gets exactly its arguments,
\* whatever earlier executions or long data left in the statement; integers of
\* every type arrive in an open session (IntegersKept).
ArgsExact ==
  /\ Bound(handed.sent) => \A i \in DOMAIN handed.sent : SameArg(handed.got[i], handed.sent[i])
  /\ srv.open => IntegersKept
=============================================================================
