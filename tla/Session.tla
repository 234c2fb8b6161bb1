------------------------------ MODULE Session ------------------------------
(***************************************************************************)
(* The command phase of one connection of the MySQL driver: what           *)
(* connection.go, statement.go, transaction.go and rows.go send, and the   *)
(* packets they read until they return.  A call is the sequence `todo' of  *)
(* routines that still have to read; each step reads one packet.  The      *)
(* caller is database/sql: one call at a time, no command while a Rows is  *)
(* open, Close as soon as a Rows has failed.  The server is the            *)
(* environment; the connection may break at any packet.                    *)
(***************************************************************************)
EXTENDS Naturals, Sequences

CONSTANTS
  MaxCommands,      \* bound: commands sent in a behaviour
  MaxRows,          \* bound: rows of a result set
  SeqMod            \* modulus of the sequence number (256 in the code)

ASSUME SessionAssumption ==
  /\ MaxCommands \in Nat /\ MaxRows \in Nat
  /\ SeqMod \in Nat \ {0}

VARIABLES
  op,         \* the running or last call
  todo,       \* the routines of the call that still read, <<>> when it has returned
  result,     \* what the last call returned
  more,       \* mc.status & statusMoreResultsExists
  closed,     \* mc.closed
  rows,       \* the Rows of the connection
  prepared,   \* there is a prepared statement
  sequence,   \* mc.sequence
  stream,     \* packets sent by the server and not consumed
  buffered,   \* how many of them are in mc.buf
  peer,       \* the server: what it is about to do
  lost,       \* the connection is broken
  command,    \* number of commands sent
  history     \* what properties look at

driverVars == <<op, todo, result, more, closed, rows, prepared, sequence, buffered>>
sessionVars == <<op, todo, result, more, closed, rows, prepared, sequence, stream,
                 buffered, peer, lost, command, history>>

\* Exec, Begin, Commit, Rollback and the SET of handleParams are "exec".
Command == {"sysVar", "exec", "query", "prepare", "stmtExec", "stmtQuery", "ping"}
Idle == todo = <<>>

\* held: the caller has the Rows; binary: they are binaryRows; mc: rows.mc is not
\* nil; failed: what returned an error.
NoRows == [held |-> FALSE, binary |-> FALSE, mc |-> FALSE, done |-> FALSE, failed |-> "none"]

SessionInit ==
  /\ op = "none" /\ todo = <<>> /\ result = "ok"
  /\ more = FALSE /\ closed = FALSE /\ prepared = FALSE
  /\ rows = NoRows
  /\ sequence = 0 /\ stream = <<>> /\ buffered = 0
  /\ peer = [does |-> "wait", last |-> 0, bad |-> FALSE]
  /\ lost = FALSE
  /\ command = 0
  /\ history = [foreign |-> 0, garbled |-> FALSE, wide |-> FALSE, overrun |-> FALSE,
                got |-> 0, exact |-> TRUE]

-----------------------------------------------------------------------------
(* The server.  A packet has the command it answers, its place in the      *)
(* answer, which is its sequence number until it wraps, the flag for more  *)
(* results (OK, EOF) and the rows before it (EOF).                         *)
(* "Wide" is a row whose first value has 2^24 bytes or more: like an EOF   *)
(* it begins with 0xfe, but it is longer than five bytes.                  *)

P(type, flag, n) == [type |-> type, more |-> flag, n |-> n]

RowLists == UNION {[1..k -> {"Row", "Wide"}] : k \in 0..MaxRows}

ResultSet(list, flag, end) ==
  <<P("Cols", FALSE, 0), P("Def", FALSE, 0), P("EOF", flag, 0)>>
    \o [i \in 1..Len(list) |-> P(list[i], FALSE, 0)] \o <<P(end, flag, Len(list))>>

Success(flag) == {<<P("OK", flag, 0)>>} \cup {ResultSet(l, flag, "EOF") : l \in RowLists}
Failure == {<<P("ERR", FALSE, 0)>>, <<P("ReadOnly", FALSE, 0)>>,
            ResultSet(<<"Row">>, FALSE, "ERR")}
File == {<<P("InFile", FALSE, 0)>>}

\* Two statements in one query: the results of both, or an error of the second.
Joined(first, second) == {a \o b : a \in first, b \in second}

Definitions(n) == IF n = 0 THEN <<>> ELSE <<P("Def", FALSE, 0), P("EOF", FALSE, 0)>>

TextResponses ==
  LET last == Success(FALSE) \cup Failure IN last \cup File \cup Joined(Success(TRUE), last)

\* A statement that calls a procedure ends with an OK behind its result sets.
\* The rows of the binary protocol begin with 0: none of them is wide.
StmtResponses ==
  LET lists == UNION {[1..k -> {"Row"}] : k \in 0..MaxRows}
      Sets(flag) == {ResultSet(l, flag, "EOF") : l \in lists}
      ok == {<<P("OK", FALSE, 0)>>}
  IN ok \cup Sets(FALSE) \cup Failure \cup Joined(Sets(TRUE), ok)
        \cup Joined(Sets(TRUE), Joined(Sets(TRUE), ok))

Statement(params, cols) ==
  <<[type |-> "Prep", more |-> FALSE, n |-> 0, params |-> params, cols |-> cols]>>
    \o Definitions(params) \o Definitions(cols)

Statements == {Statement(p, c) : p, c \in 0..1}

VariableResponses == {ResultSet(<<"Row">>, FALSE, "EOF"), <<P("ERR", FALSE, 0)>>}

Responses(asked) ==
  CASE asked \in {"exec", "query"}         -> TextResponses
    [] asked \in {"stmtExec", "stmtQuery"} -> StmtResponses
    [] asked = "prepare"                   -> {<<P("ERR", FALSE, 0)>>} \cup Statements
    [] asked = "ping"                      -> {<<P("OK", FALSE, 0)>>}
    [] asked = "sysVar"                    -> VariableResponses
    [] asked = "file"                      -> {<<P("OK", FALSE, 0)>>, <<P("ERR", FALSE, 0)>>}

Bad(response) ==
  \E i \in DOMAIN response : response[i].type \in {"ERR", "ReadOnly"}

Stamp(response, from) ==
  [i \in DOMAIN response |->
     [packet |-> response[i], of |-> command, pos |-> from + i]]

Respond ==
  /\ peer.does # "wait" /\ ~lost
  /\ \E response \in Responses(peer.does) :
       /\ stream' = stream \o Stamp(response, peer.last)
       /\ peer' = [peer EXCEPT !.does = "wait", !.bad = @ \/ Bad(response),
                               !.last = @ + Len(response)]
  /\ UNCHANGED <<driverVars, lost, command, history>>

\* The connection breaks; what is in the driver's buffer stays readable.
Lose ==
  /\ ~lost
  /\ lost' = TRUE
  /\ \E k \in buffered..Len(stream) : stream' = SubSeq(stream, 1, k)
  /\ UNCHANGED <<driverVars, peer, command, history>>

-----------------------------------------------------------------------------
(* Calls.                                                                  *)

Return(r) == todo' = <<>> /\ result' = r
Goto(routines) == todo' = routines /\ result' = (IF routines = <<>> THEN "ok" ELSE "none")

\* The routines of a command, in the order in which they read.
Routines(o) ==
  CASE o = "sysVar"                -> <<"header", "sysRow", "untilEOF">>
    [] o \in {"exec", "stmtExec"}  -> <<"header", "discard">>
    [] o \in {"query", "stmtQuery"} -> <<"queryHeader">>
    [] o = "prepare"               -> <<"prepare">>
    [] o = "ping"                  -> <<"ok">>

MayCall == Idle /\ ~closed /\ result # "badConn"

\* writeCommandPacket...: the command is refused (driver.ErrBadConn, to be tried
\* on another connection) when the buffer is busy, when the check of a connection
\* fresh from the pool sees an end or unexpected data, or when nothing is written.
Refuse ==
  /\ \/ buffered > 0 /\ UNCHANGED closed
     \/ buffered = 0 /\ (lost \/ stream # <<>>) /\ closed' = TRUE
     \/ buffered = 0 /\ lost /\ UNCHANGED closed
  /\ Return("badConn")
  /\ UNCHANGED <<sequence, peer, command, history>>

\* The command is written; unread packets that have not arrived yet do not show.
Send(o) ==
  /\ buffered = 0
  /\ sequence' = 1 % SeqMod
  /\ peer' = [does |-> o, last |-> 0, bad |-> FALSE]
  /\ command' = command + 1
  /\ history' = [history EXCEPT !.got = 0]
  /\ Goto(Routines(o))
  /\ UNCHANGED closed

\* A command of Connect (getSystemVar), or of the caller.
Call(o) ==
  /\ MayCall /\ ~rows.held
  /\ command < MaxCommands
  /\ (command = 0) = (o = "sysVar")
  /\ o \in {"stmtExec", "stmtQuery"} => prepared
  /\ op' = o
  /\ Refuse \/ Send(o)
  /\ rows' = [NoRows EXCEPT !.binary = o = "stmtQuery"]
  /\ UNCHANGED <<more, prepared, stream, buffered, lost>>

\* mysqlStmt.Close: a command without an answer.
StmtClose ==
  /\ MayCall /\ ~rows.held /\ prepared
  /\ op' = "stmtClose" /\ prepared' = FALSE
  /\ \/ Refuse
     \/ /\ buffered = 0 /\ Return("ok")
        /\ UNCHANGED <<sequence, closed, peer, command, history>>
  /\ UNCHANGED <<more, rows, stream, buffered, lost>>

RowsCall(o) ==
  /\ Idle /\ rows.held
  /\ op' = o
  /\ UNCHANGED <<more, closed, prepared, sequence, stream, buffered, peer, lost, command>>

\* textRows.Next asks rs.done whether the result set has ended; binaryRows.Next
\* does not, and reads on behind a set that has more behind it.
RowsNext ==
  /\ RowsCall("next")
  /\ rows.failed = "none"
  /\ IF ~rows.mc THEN Return("eof")
     ELSE IF closed THEN Return("invalid")
     ELSE IF rows.done /\ ~rows.binary THEN Return("eof")
     ELSE Goto(<<"row">>)
  /\ rows' = [rows EXCEPT !.failed = IF rows.mc /\ closed THEN "row" ELSE @]
  /\ history' = [history EXCEPT !.overrun =
                   @ \/ (rows.mc /\ ~closed /\ rows.done /\ rows.binary)]

NextResultSet ==
  /\ RowsCall("nextSet")
  /\ rows.failed = "none"
  /\ IF ~rows.mc THEN Return("eof")
     ELSE IF closed THEN Return("invalid")
     ELSE Goto(IF rows.done THEN <<"nextSet">> ELSE <<"skipRows", "nextSet">>)
  /\ rows' = [rows EXCEPT !.failed = IF rows.mc /\ closed THEN "row" ELSE @]
  /\ UNCHANGED history

\* Mutant: the rest of the rows is left in the stream.
CloseAtOnce ==
  /\ RowsCall("close")
  /\ IF ~rows.mc THEN Return("ok")
     ELSE IF closed THEN Return("invalid")
     ELSE Goto(<<"discard">>)
  /\ rows' = [rows EXCEPT !.held = FALSE]
  /\ UNCHANGED history

\* mysqlRows.Close: reads what is left.
Close ==
  /\ RowsCall("close")
  /\ IF ~rows.mc THEN Return("ok")
     ELSE IF closed THEN Return("invalid")
     ELSE Goto((IF rows.done THEN <<>> ELSE <<"untilEOF">>) \o <<"discard">>)
  /\ rows' = [rows EXCEPT !.held = FALSE]
  /\ UNCHANGED history

-----------------------------------------------------------------------------
(* Reading.                                                                *)

Top(routine) == ~Idle /\ todo[1] = routine
Rest == Tail(todo)
Packet == stream[1].packet
Is(types) == Packet.type \in types

\* Mutant: the sequence number is not compared.
InAnySequence(item) == TRUE

\* The packet has the expected sequence number.
InSequence(item) == item.pos % SeqMod = sequence

\* Mutant: the buffer is not filled when it is empty.
TakeUnfilled ==
  /\ sequence' = (sequence + 1) % SeqMod
  /\ stream' = Tail(stream)
  /\ buffered' = buffered - 1

\* Any number of the packets behind it may have come into the buffer with it.
Take ==
  /\ sequence' = (sequence + 1) % SeqMod
  /\ stream' = Tail(stream)
  /\ buffered' \in IF buffered > 0 THEN {buffered - 1} ELSE 0..Len(stream) - 1

\* readPacket of a packet that answers the command.
Consume ==
  /\ ~history.garbled
  /\ stream # <<>> /\ InSequence(stream[1]) /\ stream[1].of = command
  /\ Take

Accept == UNCHANGED history

Quiet == UNCHANGED <<op, peer, lost, command>>
Same  == UNCHANGED <<more, closed, rows, prepared>>

\* handleErrorPacket: an error, or with RejectReadOnly a connection to give up.
ErrorPacket ==
  /\ Is({"ERR", "ReadOnly"})
  /\ IF Is({"ERR"})
     THEN Return("err") /\ closed' = (closed \/ op = "sysVar")
     ELSE Return("badConn") /\ closed' = TRUE
  /\ UNCHANGED <<more, prepared>>

\* A row or an EOF where a header should be: ErrMalformPkt.
Malformed == Is({"Row", "Wide", "EOF"}) /\ Return("err")

Header ==
  /\ Top("header")
  /\ Consume /\ Accept
  /\ \/ ErrorPacket /\ UNCHANGED rows
     \/ Is({"OK"}) /\ Goto(Rest) /\ more' = Packet.more /\ UNCHANGED <<closed, rows, prepared>>
     \/ Is({"Cols"}) /\ Same
        /\ Goto(IF op = "sysVar" THEN <<"untilEOF">> \o Rest
                ELSE <<"untilEOF", "untilEOF">> \o Rest)
     \/ Is({"InFile"}) /\ Goto(<<"sendFile">> \o Rest) /\ Same
     \/ Malformed /\ Same
  /\ Quiet

\* The header of a query or of its next result set.  When it fails, rows.mc
\* stays and rs.done is false.
QueryHeader ==
  /\ Top("queryHeader")
  /\ Consume /\ Accept
  /\ \/ ErrorPacket /\ rows' = [rows EXCEPT !.failed = "set"]
     \/ Is({"OK"}) /\ Goto(<<"nextSet">>) /\ more' = Packet.more
        /\ rows' = [rows EXCEPT !.mc = @ \/ op = "query", !.done = TRUE]
        /\ UNCHANGED <<closed, prepared>>
     \/ Is({"Cols"}) /\ Goto(<<"columns">>) /\ Same
     \/ Malformed /\ rows' = [rows EXCEPT !.failed = "set"] /\ UNCHANGED <<more, closed, prepared>>
     \/ Is({"InFile"}) /\ Goto(<<"sendFile", "nextSet">>)
        /\ rows' = [rows EXCEPT !.mc = @ \/ op = "query", !.done = TRUE]
        /\ UNCHANGED <<more, closed, prepared>>
  /\ Quiet

\* handleInFileRequest: the content (or none, when the file is not allowed) and
\* the empty packet.  On a broken connection nothing is written, which reads as
\* errBadConnNoWrite and lets the caller try the statement again.
SendFile ==
  /\ Top("sendFile")
  /\ \/ /\ ~lost
        /\ \E written \in 1..2 :
             /\ sequence' = (sequence + written) % SeqMod
             /\ peer' = [peer EXCEPT !.does = "file", !.last = @ + written]
        /\ \E wanted \in {"ok", "refusedFile"} : Goto(<<wanted>> \o Rest)
        /\ UNCHANGED closed
     \/ lost /\ Return("badConn") /\ UNCHANGED <<sequence, peer, closed>>
     \/ lost /\ Return("invalid") /\ closed' = TRUE /\ UNCHANGED <<sequence, peer>>
  /\ UNCHANGED <<op, more, rows, prepared, stream, buffered, lost, command, history>>

\* readResultOK.
ResultOK ==
  /\ Top("ok")
  /\ Consume /\ Accept
  /\ \/ ErrorPacket
     \/ Is({"OK"}) /\ Goto(Rest) /\ more' = Packet.more /\ UNCHANGED <<closed, prepared>>
  /\ UNCHANGED rows
  /\ Quiet

\* The answer to a file that was not sent: read and ignored, an error returned.
RefusedFile ==
  /\ Top("refusedFile")
  /\ Consume /\ Accept
  /\ Return("err")
  /\ Same /\ Quiet

\* Mutant: ends at any packet that begins like an EOF.
EndsRowsAny == Is({"EOF", "Wide"})

\* The test for EOF in readRow: first byte and length.
EndsRows == Is({"EOF"})

\* readUntilEOF looks at the first byte only.
EndsSkip == Is({"EOF", "Wide"})

Skip(routine) ==
  /\ Top(routine)
  /\ Consume
  /\ history' = [history EXCEPT !.wide = @ \/ (EndsSkip /\ ~EndsRows)]
  /\ \/ ErrorPacket
     \/ EndsSkip /\ Goto(Rest) /\ UNCHANGED <<closed, prepared>>
        /\ more' = IF EndsRows THEN Packet.more ELSE more
     \/ ~EndsSkip /\ ~Is({"ERR", "ReadOnly"}) /\ UNCHANGED <<todo, result, more, closed, prepared>>
  /\ Quiet

UntilEOF == Skip("untilEOF") /\ UNCHANGED rows

\* readUntilEOF in nextResultSet.
SkipRows ==
  /\ Skip("skipRows")
  /\ rows' = [rows EXCEPT !.done = EndsSkip, !.failed = IF Is({"ERR", "ReadOnly"}) THEN "set" ELSE @]

\* nextResultSet once the rows of the last one are gone.
NextSet ==
  /\ Top("nextSet")
  /\ IF rows.mc /\ more
     THEN /\ Goto(<<"queryHeader">>)
          /\ rows' = [rows EXCEPT !.done = FALSE]
     ELSE /\ Return(IF op = "nextSet" THEN "eof" ELSE "ok")
          /\ rows' = [rows EXCEPT !.mc = FALSE, !.held = TRUE]
  /\ history' = [history EXCEPT !.got = 0]
  /\ UNCHANGED <<op, more, closed, prepared, sequence, stream, buffered, peer, lost, command>>

\* readColumns: the caller has the result set.
Columns ==
  /\ Top("columns")
  /\ Consume
  /\ history' = [history EXCEPT !.got = 0]
  /\ IF Is({"EOF"})
     THEN Return("ok") /\ rows' = [rows EXCEPT !.held = TRUE, !.mc = TRUE, !.done = FALSE]
     ELSE UNCHANGED <<todo, result, rows>>
  /\ UNCHANGED <<more, closed, prepared>>
  /\ Quiet

\* readRow; a value that cannot be converted is an error and leaves the rows open.
\* A Next too many takes the header of the next result set for a malformed packet,
\* and drops the connection from the rows; it takes an OK for a row of the binary
\* protocol, whatever it makes of its bytes.
Row ==
  /\ Top("row")
  /\ Consume
  /\ history' = [history EXCEPT !.got = @ + 1,
                                !.exact = @ /\ (EndsRows => Packet.n = history.got)]
  /\ \/ ErrorPacket /\ rows' = [rows EXCEPT !.mc = FALSE, !.failed = "row"]
     \/ /\ EndsRows
        /\ Return("eof")
        /\ more' = Packet.more
        /\ rows' = [rows EXCEPT !.done = TRUE, !.mc = Packet.more]
        /\ UNCHANGED <<closed, prepared>>
     \/ /\ ~EndsRows /\ Is({"Row", "Wide", "OK"})
        /\ \E r \in {"ok", "err"} \cup (IF Is({"OK"}) THEN {"eof"} ELSE {}) :
             Return(r) /\ rows' = [rows EXCEPT !.failed = IF r = "err" THEN "row" ELSE @]
        /\ UNCHANGED <<more, closed, prepared>>
     \/ /\ Is({"Cols"})
        /\ Return("err") /\ rows' = [rows EXCEPT !.mc = FALSE, !.failed = "row"]
        /\ UNCHANGED <<more, closed, prepared>>
  /\ Quiet

\* getSystemVar's readRow.
SysRow ==
  /\ Top("sysRow")
  /\ Consume /\ Accept
  /\ Goto(Rest)
  /\ Same /\ Quiet

\* Mutant: definitions are expected whether or not there are any.
PreparedWithBoth ==
  /\ Top("prepare")
  /\ Consume /\ Accept
  /\ \/ ErrorPacket
     \/ /\ Is({"Prep"})
        /\ Goto(<<"untilEOF", "untilEOF">>)
        /\ prepared' = TRUE
        /\ UNCHANGED <<more, closed>>
  /\ UNCHANGED rows
  /\ Quiet

\* readPrepareResultPacket.
Prepared ==
  /\ Top("prepare")
  /\ Consume /\ Accept
  /\ \/ ErrorPacket
     \/ /\ Is({"Prep"})
        /\ Goto([i \in 1..(Packet.params + Packet.cols) |-> "untilEOF"])
        /\ prepared' = TRUE
        /\ UNCHANGED <<more, closed>>
  /\ UNCHANGED rows
  /\ Quiet

\* discardResults.
DiscardResults ==
  /\ Top("discard")
  /\ Goto(IF more THEN <<"header">> \o todo ELSE Rest)
  /\ UNCHANGED <<op, more, closed, rows, prepared, sequence, stream, buffered, peer, lost, command, history>>

Reading == ~Idle /\ todo[1] \notin {"sendFile", "nextSet", "discard"}

\* readPacket on a broken connection: mc.Close, ErrInvalidConn.
ReadFails ==
  /\ Reading /\ stream = <<>> /\ lost
  /\ Return("invalid")
  /\ closed' = TRUE
  /\ rows' = [rows EXCEPT !.failed = "row"]
  /\ UNCHANGED <<op, more, prepared, sequence, stream, buffered, peer, lost, command, history>>

\* ErrPktSync: the header is gone, and the connection stays in use.  The body may
\* be in the buffer or still to come; what is read from here on is garbled.
OutOfSync ==
  /\ Reading /\ stream # <<>> /\ ~history.garbled /\ ~InSequence(stream[1])
  /\ Return("err")
  /\ buffered' \in buffered..Len(stream)
  /\ history' = [history EXCEPT !.garbled = TRUE]
  /\ UNCHANGED <<op, more, closed, rows, prepared, sequence, stream, peer, lost, command>>

\* A packet of an earlier command, with the right sequence number.  What the call
\* makes of it is left open.
TakeForeign ==
  /\ Reading /\ stream # <<>> /\ ~history.garbled
  /\ InSequence(stream[1]) /\ stream[1].of # command
  /\ Take
  /\ history' = [history EXCEPT !.foreign = stream[1].pos, !.garbled = TRUE]
  /\ \E r \in {"ok", "err", "eof"} : Return(r)
  /\ UNCHANGED <<op, more, closed, rows, prepared, peer, lost, command>>

ReadGarbled ==
  /\ Reading /\ stream # <<>> /\ history.garbled
  /\ \E r \in {"ok", "err", "eof"} : Return(r)
  /\ buffered' \in 0..Len(stream)
  /\ UNCHANGED <<op, more, closed, rows, prepared, sequence, stream, peer, lost, command, history>>

Caller == StmtClose \/ RowsNext \/ NextResultSet \/ Close \/ \E o \in Command : Call(o)

Work ==
  \/ Header \/ QueryHeader \/ SendFile \/ ResultOK \/ RefusedFile \/ UntilEOF \/ SkipRows
  \/ NextSet \/ Columns \/ Row \/ SysRow \/ Prepared \/ DiscardResults \/ ReadFails \/ OutOfSync
  \/ TakeForeign \/ ReadGarbled

SessionNext == Caller \/ Work \/ Respond \/ Lose

\* The goroutine of the caller runs and the server answers; nobody has to
\* issue calls, and the connection need not break.
FairSession ==
  SessionInit /\ [][SessionNext]_sessionVars /\ WF_sessionVars(Work) /\ WF_sessionVars(Respond)

-----------------------------------------------------------------------------
(* Properties.                                                             *)

Routine ==
  {"header", "queryHeader", "sendFile", "ok", "refusedFile", "untilEOF", "skipRows", "nextSet",
   "columns", "row", "sysRow", "prepare", "discard"}

ServerPacket ==
  [type : {"Cols", "Def", "EOF", "Row", "Wide", "OK", "ERR", "ReadOnly", "InFile"},
   more : BOOLEAN, n : Nat]
    \cup [type : {"Prep"}, more : {FALSE}, n : {0}, params : 0..1, cols : 0..1]

Item == [packet : ServerPacket, of : 0..MaxCommands, pos : Nat \ {0}]

\* The session's part of the driver's type.
SessionTypeOK ==
  /\ op \in Command \cup {"none", "stmtClose", "next", "nextSet", "close"}
  /\ todo \in Seq(Routine)
  /\ result \in {"ok", "err", "eof", "badConn", "invalid", "none"}
  /\ more \in BOOLEAN /\ closed \in BOOLEAN /\ prepared \in BOOLEAN /\ lost \in BOOLEAN
  /\ rows \in [held : BOOLEAN, binary : BOOLEAN, mc : BOOLEAN, done : BOOLEAN,
              failed : {"none", "row", "set"}]
  /\ command \in 0..MaxCommands
  /\ stream \in Seq(Item)
  /\ sequence \in 0..SeqMod - 1 /\ buffered \in 0..Len(stream)
  /\ peer \in [does : Command \cup {"wait", "file"}, last : Nat, bad : BOOLEAN]
  /\ history \in [foreign : Nat, garbled : BOOLEAN, wide : BOOLEAN, overrun : BOOLEAN,
                 got : Nat, exact : BOOLEAN]

\* A call accepts a packet of an earlier command only where the sequence number
\* has come round: a leftover is met by the busy buffer, by the check of pooled
\* connections or by the sequence number, whatever of it had arrived when, unless
\* it is a packet behind the first SeqMod of its answer (packets.go:45-50).
AnswersMatch == history.foreign # 0 => history.foreign > SeqMod

\* When a call has returned, no Rows is open and the connection goes on to be
\* used, there is nothing left to read and nothing left to come, unless a wide
\* row was skipped or the caller asked for a row behind the end of a set of a
\* statement that has more.
InSync ==
  MayCall /\ ~rows.held /\ ~lost /\ ~history.wide /\ ~history.overrun =>
    stream = <<>> /\ peer.does = "wait"

\* A call that waits for a packet will get one, except Close after a
\* NextResultSet that failed, and after the same two accidents.
WaitsForSomething ==
  Reading /\ stream = <<>> /\ ~lost =>
    peer.does # "wait" \/ rows.failed = "set" \/ history.wide \/ history.overrun

\* What a call returns is true: Next has delivered every row of a result set when
\* it reports the end, and Exec and its relatives succeed only if no statement of
\* the command failed (again but for the two accidents).
ResultsAreTrue ==
  /\ history.exact
  /\ op \in {"exec", "stmtExec"} /\ result = "ok" /\ ~history.wide /\ ~history.overrun =>
       ~peer.bad

\* Closing a Rows comes to an end: what it has to skip is there to be skipped
\* (rows.go:121, "Remove unread packets from stream"; README.md:254, "all other
\* results are silently discarded").
CloseReturns == (op = "close" /\ ~Idle) ~> Idle

=============================================================================
