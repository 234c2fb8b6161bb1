-------------------------------- MODULE Conn --------------------------------
(***************************************************************************)
(* Contexts, cancellation and retries of the MySQL driver: each connection *)
(* has a watcher goroutine that closes it when the context of the running  *)
(* call is done.  The caller is one goroutine of database/sql, which takes *)
(* a connection of the pool or a new one, and tries again with another     *)
(* when it gets driver.ErrBadConn.  A call is the sequence `todo' of the   *)
(* steps it still has to take on the connection `conn'; a step is what     *)
(* happens between two points where the other goroutine can come in.       *)
(***************************************************************************)
EXTENDS Naturals, Sequences

CONSTANTS
  Conns,        \* the connections there is room for at one time
  MaxCalls,     \* bound: calls made in a behaviour
  Retries,      \* tries with connections of the pool (2 in database/sql)
  FaultyCalls,  \* bound: calls that can meet a fault (see Faulty)
  Background    \* a context that is never done

ASSUME ConnAssumption ==
  /\ MaxCalls \in Nat /\ Retries \in Nat
  /\ 0 \notin Conns /\ Background \notin 1..MaxCalls

VARIABLES
  mysqlConn,    \* the connections
  watcher,      \* their watcher goroutines
  caller,       \* the goroutine of the caller
  done,         \* contexts that are done; call k has context k, or Background
  executed      \* how often the server acted on the statement of the call

connVars == <<mysqlConn, watcher, caller, done, executed>>

Calls == 1..MaxCalls
None == 0           \* no context, no connection
Ops == {"exec", "query", "prepare"}    \* Ping and Begin are "exec"

\* closech: how often it was closed (a channel is closed once).
\* pool: none (never made), free, used, gone (dropped), leaked (see Connect).
\* canceled, chan: a context or None; net: the socket is open; peer: the server
\* is there.
NoConn == [pool |-> "none", closed |-> FALSE, canceled |-> None, closech |-> 0, net |-> FALSE,
           peer |-> FALSE, reset |-> FALSE, watching |-> FALSE, chan |-> None]

\* fault: a time limit has passed or a packet was malformed.  again: how often the
\* call is tried again although the server has acted on the statement.
NoCall(k) == [todo |-> <<>>, op |-> "exec", call |-> k, ctx |-> Background, conn |-> None,
              tries |-> 0, err |-> "none", fault |-> FALSE, again |-> 0]

ConnInit ==
  /\ mysqlConn = [c \in Conns |-> NoConn]
  /\ watcher = [c \in Conns |-> [at |-> "dead", ctx |-> None]]
  /\ caller = NoCall(0)
  /\ done = {}
  /\ executed = 0

-----------------------------------------------------------------------------
(* The caller.                                                             *)

At(step) == caller.todo # <<>> /\ caller.todo[1] = step
Busy == caller.todo # <<>>
Goto(steps) == caller' = [caller EXCEPT !.todo = steps]
Continue == Goto(Tail(caller.todo))
Fail(err, steps) == caller' = [caller EXCEPT !.todo = steps, !.err = err]
FailFaulty(err, steps) ==
  caller' = [caller EXCEPT !.todo = steps, !.err = err, !.fault = TRUE]

c == caller.conn
mc == mysqlConn[c]
Set(fields) == mysqlConn' = [mysqlConn EXCEPT ![c] = fields]

Cleanup == <<"trySet", "closeChannel", "closeNet">>

\* Mutant: an error path without finish.
FinishForgotten == <<"return">>

Finish == <<"finish", "return">>

\* The steps of an operation on a connection.
Steps(o) ==
  CASE o = "exec"    -> <<"watch", "check", "write", "read", "finish", "return">>
    [] o = "query"   -> <<"watch", "check", "write", "read", "rows", "finish", "drain", "return">>
    [] o = "prepare" -> <<"watch", "check", "write", "read", "finish", "prepared", "return">>

\* The steps of Connect up to a connection that can be used.
Connecting == <<"connect", "handshake", "finish">>

Garbage(d) == mysqlConn[d].pool = "gone" /\ ~mysqlConn[d].net /\ watcher[d].at = "dead"

Start(o) ==
  /\ ~Busy /\ caller.call < MaxCalls
  /\ \E ctx \in {Background, caller.call + 1} :
       caller' = [NoCall(caller.call + 1) EXCEPT !.todo = <<"pool">>, !.op = o, !.ctx = ctx]
  /\ executed' = 0
  /\ mysqlConn' = [d \in Conns |-> IF Garbage(d) THEN NoConn ELSE mysqlConn[d]]
  /\ UNCHANGED <<watcher, done>>

Free == {d \in Conns : mysqlConn[d].pool = "free"}

\* database/sql takes a free connection, with ResetSession, at most Retries times...
Take ==
  /\ At("pool") /\ caller.ctx \notin done /\ caller.tries < Retries
  /\ \E d \in Free :
       IF mysqlConn[d].closed
       THEN /\ caller' = [caller EXCEPT !.conn = None, !.todo = <<"return">>, !.err = "badConn"]
            /\ mysqlConn' = [mysqlConn EXCEPT ![d].pool = "gone"]
       ELSE /\ caller' = [caller EXCEPT !.conn = d, !.todo = Steps(caller.op)]
            /\ mysqlConn' = [mysqlConn EXCEPT ![d].pool = "used", ![d].reset = TRUE]
  /\ UNCHANGED <<watcher, done, executed>>

Room == {d \in Conns : mysqlConn[d].pool = "none" \/ Garbage(d)}

\* ... or else connects; the dial may fail.
Dial ==
  /\ At("pool") /\ caller.ctx \notin done
  /\ Free = {} \/ caller.tries = Retries
  /\ \/ /\ Room # {}
        /\ LET d == CHOOSE d \in Room : TRUE IN
          /\ mysqlConn' = [mysqlConn EXCEPT ![d] = [NoConn EXCEPT !.pool = "used", !.net = TRUE, !.peer = TRUE]]
          /\ watcher' = [watcher EXCEPT ![d] = [at |-> "wait", ctx |-> None]]
          /\ caller' = [caller EXCEPT !.conn = d, !.todo = Connecting \o Steps(caller.op)]
     \/ \E err \in {"badConn", "err"} :
          /\ caller' = [caller EXCEPT !.conn = None, !.todo = <<"return">>, !.err = err]
          /\ UNCHANGED <<mysqlConn, watcher>>
  /\ UNCHANGED <<done, executed>>

TooLate ==
  /\ At("pool") /\ caller.ctx \in done
  /\ caller' = [caller EXCEPT !.conn = None, !.todo = <<"return">>, !.err = "ctx"]
  /\ UNCHANGED <<mysqlConn, watcher, done, executed>>

\* Mutants: the watcher is not told; it is told of a context that is never done.
TellNobody == Continue /\ Set([mc EXCEPT !.watching = (caller.ctx # Background)])
TellAlways == Continue /\ Set([mc EXCEPT !.watching = TRUE, !.chan = caller.ctx])

TellWatcher ==
  /\ Continue
  /\ IF caller.ctx = Background THEN UNCHANGED mysqlConn
     ELSE Set([mc EXCEPT !.watching = TRUE, !.chan = caller.ctx])

\* A context that is done is not watched.
WatchCancel ==
  IF mc.watching THEN Goto(Cleanup \o Tail(caller.todo)) /\ UNCHANGED mysqlConn
  ELSE IF caller.ctx \in done THEN Fail("ctx", <<"return">>) /\ UNCHANGED mysqlConn
  ELSE TellWatcher

\* Connect leaves the connection as it is when its context is done by now.
Connect ==
  /\ At("connect")
  /\ IF caller.ctx \in done
     THEN Fail("ctx", <<"return">>) /\ Set([mc EXCEPT !.pool = "leaked"])
     ELSE TellWatcher
  /\ UNCHANGED <<watcher, done, executed>>

Watch == At("watch") /\ WatchCancel /\ UNCHANGED <<watcher, done, executed>>

\* Mutant: as if nothing had been sent.
ReadErrorRetried(rest) ==
  IF mc.canceled # None THEN Fail("ctx", rest) ELSE Fail("badConn", Cleanup \o rest)

\* What a call makes of a failed read: the error of its context when that closed
\* the connection, else ErrInvalidConn after closing it.
ReadError(rest) ==
  IF mc.canceled # None THEN Fail("ctx", rest) ELSE Fail("invalid", Cleanup \o rest)

\* A time limit may pass, a packet be malformed or not written, or a statement be
\* refused as read-only.
Faulty == caller.call \in FaultyCalls
Broken == ~mc.net \/ ~mc.peer

\* The server accepts the login, or refuses it.
Handshake ==
  /\ At("handshake") /\ ~Broken
  /\ \/ Continue /\ UNCHANGED mysqlConn
     \/ Fail("err", Cleanup \o Finish) /\ Set([mc EXCEPT !.pool = "gone"])
  /\ UNCHANGED <<watcher, done, executed>>

\* Connect cleans up after a handshake that fails, also when a context did it.
HandshakeFails ==
  /\ At("handshake") /\ Broken
  /\ \E err \in (IF mc.canceled # None THEN {"ctx"} ELSE {"badConn", "invalid"})
                  \cup (IF mc.net THEN {} ELSE {"err"}) :
       Fail(err, Cleanup \o Finish)
  /\ Set([mc EXCEPT !.pool = "gone"])
  /\ UNCHANGED <<watcher, done, executed>>

CheckClosed ==
  /\ At("check")
  /\ IF mc.closed THEN Fail("badConn", Finish) ELSE Continue
  /\ UNCHANGED <<mysqlConn, watcher, done, executed>>

\* A write that fails: nothing was written, or a part that the server discards.
\* With writeTimeout the closed socket is an error of its own.
WriteError ==
  \/ mc.canceled # None /\ Fail("ctx", Finish)
  \/ ~mc.net /\ Fail("err", Finish)
  \/ mc.canceled = None /\ Broken /\ Fail("invalid", Cleanup \o Finish)
  \/ mc.canceled = None /\ ~Broken /\ Faulty /\ FailFaulty("invalid", Cleanup \o Finish)

\* writePacket: the check of a connection fresh from the pool, then the write,
\* which may also exceed writeTimeout.
WritePacket ==
  /\ At("write")
  /\ Set([mc EXCEPT !.reset = FALSE])
  /\ \/ mc.reset /\ Broken /\ Fail("badConn", Cleanup \o Finish) /\ UNCHANGED executed
     \/ /\ mc.reset => ~Broken
        /\ \/ mc.net /\ Continue
              /\ executed' = IF mc.peer THEN executed + 1 ELSE executed
           \/ /\ WriteError \/ (mc.canceled = None /\ Fail("badConn", Finish))
              /\ UNCHANGED executed
  /\ UNCHANGED <<watcher, done>>

\* The server answers: with the result, or with an error.
Answer ==
  /\ At("read") /\ ~Broken
  /\ Continue \/ Fail("err", Finish)
  /\ UNCHANGED <<mysqlConn, watcher, done, executed>>

\* The server has acted on the statement of this try.
Acted == executed > caller.again

TryAgain(steps) ==
  caller' = [caller EXCEPT !.todo = steps, !.err = "badConn", !.again = @ + 1]

\* handleErrorPacket with rejectReadOnly: the server has refused the statement, or
\* a later one of the same query; the connection is closed and another one tried.
RejectReadOnly ==
  /\ At("read") /\ ~Broken /\ Faulty /\ Acted
  /\ \/ Fail("badConn", Cleanup \o Finish) /\ executed' = executed - 1
     \/ caller.op # "prepare" /\ TryAgain(Cleanup \o Finish) /\ UNCHANGED executed
  /\ UNCHANGED <<mysqlConn, watcher, done>>

\* handleInFileRequest: the server has asked for a file, and a packet of it cannot
\* be written, which reads as if nothing had been sent.
SendFileFails ==
  /\ At("read") /\ Faulty /\ Acted /\ caller.op # "prepare"
  /\ WriteError \/ (mc.canceled = None /\ TryAgain(Finish))
  /\ UNCHANGED <<mysqlConn, watcher, done, executed>>

\* An error packet in place of a row ends the rows.
RowsFail ==
  /\ At("rows") /\ ~Broken /\ ~mc.closed
  /\ Fail("err", Finish) \/ Fail("err", Cleanup \o Finish)
  /\ UNCHANGED <<mysqlConn, watcher, done, executed>>

\* The read of an answer, of the next row, or of what Close skips.
ReadFails ==
  /\ \/ At("read") /\ Broken /\ ReadError(Finish)
     \/ At("rows") /\ (Broken \/ mc.closed) /\ ReadError(Tail(caller.todo))
     \/ At("drain") /\ (Broken \/ mc.closed) /\ ReadError(<<"return">>)
  /\ UNCHANGED <<mysqlConn, watcher, done, executed>>

\* readTimeout has passed, or a packet is empty where none may be.
FaultError(rest) ==
  \/ mc.canceled # None /\ Fail("ctx", rest)
  \/ FailFaulty("invalid", Cleanup \o rest)

ReadFaulty ==
  /\ Faulty
  /\ \/ At("read") /\ ~Broken /\ FaultError(Finish)
     \/ At("rows") /\ ~Broken /\ ~mc.closed /\ FaultError(Tail(caller.todo))
     \/ At("drain") /\ ~Broken /\ ~mc.closed /\ FaultError(<<"return">>)
  /\ UNCHANGED <<mysqlConn, watcher, done, executed>>

HandshakeFaulty ==
  /\ At("handshake") /\ ~Broken /\ Faulty
  /\ \E err \in {"badConn", "invalid"} \cup (IF mc.canceled # None THEN {"ctx"} ELSE {}) :
       FailFaulty(err, Cleanup \o Finish)
  /\ Set([mc EXCEPT !.pool = "gone"])
  /\ UNCHANGED <<watcher, done, executed>>

\* Rows.Close, by the caller or by database/sql when the context is done.
CloseRows ==
  /\ At("rows")
  /\ Continue
  /\ UNCHANGED <<mysqlConn, watcher, done, executed>>

\* What is left has come; it is read without a watcher.
Drained ==
  /\ At("drain") /\ ~Broken /\ ~mc.closed
  /\ Continue
  /\ UNCHANGED <<mysqlConn, watcher, done, executed>>

\* PrepareContext looks at the context again.
PrepareContext ==
  /\ At("prepared")
  /\ IF caller.ctx \in done THEN Fail("ctx", <<"return">>) ELSE Continue
  /\ UNCHANGED <<mysqlConn, watcher, done, executed>>

\* Mutant: does not wait for the watcher.
FinishAtOnce ==
  /\ At("finish") /\ Continue
  /\ Set([mc EXCEPT !.watching = FALSE])
  /\ watcher' = [watcher EXCEPT ![c] = IF mc.watching /\ @.at = "watch" THEN [at |-> "wait", ctx |-> None] ELSE @]
  /\ UNCHANGED <<done, executed>>

\* finish: the send on `finished' meets the watcher in its select.
FinishCall ==
  /\ At("finish") /\ Continue
  /\ \/ ~mc.watching /\ UNCHANGED <<mysqlConn, watcher>>
     \/ mc.watching /\ watcher[c].at = "watch"
        /\ watcher' = [watcher EXCEPT ![c] = [at |-> "wait", ctx |-> None]]
        /\ Set([mc EXCEPT !.watching = FALSE])
     \/ mc.watching /\ mc.closech > 0 /\ UNCHANGED <<mysqlConn, watcher>>
  /\ UNCHANGED <<done, executed>>

\* Mutant: goes on when somebody else has set it.
TrySetAlways(closed, rest) == rest

\* cleanup goes on only if this call set `closed'.
TrySet(closed, rest) == IF closed THEN SubSeq(rest, 3, Len(rest)) ELSE rest

CallerCleanup ==
  /\ UNCHANGED <<watcher, done, executed>>
  /\ \/ At("trySet")
        /\ Goto(TrySet(mc.closed, Tail(caller.todo)))
        /\ Set([mc EXCEPT !.closed = TRUE])
     \/ At("closeChannel") /\ Continue
        /\ Set([mc EXCEPT !.closech = @ + 1])
     \/ At("closeNet") /\ Continue
        /\ Set([mc EXCEPT !.net = FALSE])

DropConn == IF c = None THEN <<>> ELSE Cleanup

\* database/sql: after driver.ErrBadConn the connection is closed and the call
\* tried again, Retries times; any other result frees it.
Return ==
  /\ At("return")
  /\ caller' =
       IF caller.err # "badConn" THEN NoCall(caller.call)
       ELSE IF caller.tries = Retries THEN [caller EXCEPT !.todo = DropConn]
       ELSE [caller EXCEPT !.todo = DropConn \o <<"pool">>, !.err = "none", !.tries = @ + 1,
                           !.fault = FALSE]
  /\ mysqlConn' =
       IF c = None \/ mc.pool # "used" THEN mysqlConn
       ELSE [mysqlConn EXCEPT ![c].pool = IF caller.err = "badConn" THEN "gone" ELSE "free"]
  /\ UNCHANGED <<watcher, done, executed>>

CallerStep ==
  \/ Take \/ Dial \/ TooLate \/ Connect \/ HandshakeFails \/ Watch \/ CheckClosed \/ WritePacket \/ ReadFails
  \/ CloseRows \/ PrepareContext \/ FinishCall \/ CallerCleanup \/ Return

-----------------------------------------------------------------------------
(* The watcher of connection d (startWatcher), and the environment.        *)

Watching(d, at, ctx) == watcher' = [watcher EXCEPT ![d] = [at |-> at, ctx |-> ctx]]

WatcherReceives(d) ==
  /\ watcher[d].at = "wait" /\ mysqlConn[d].chan # None
  /\ Watching(d, "watch", mysqlConn[d].chan)
  /\ mysqlConn' = [mysqlConn EXCEPT ![d].chan = None]
  /\ UNCHANGED <<caller, done, executed>>

\* Mutant: only the first select has closech.
WatcherEndsIdle(d) ==
  /\ watcher[d].at = "wait" /\ mysqlConn[d].closech > 0
  /\ Watching(d, "dead", None)
  /\ UNCHANGED <<mysqlConn, caller, done, executed>>

WatcherEnds(d) ==
  /\ watcher[d].at \in {"wait", "watch"} /\ mysqlConn[d].closech > 0
  /\ Watching(d, "dead", None)
  /\ UNCHANGED <<mysqlConn, caller, done, executed>>

\* cancel, when the context is done.
WatcherWakes(d) ==
  /\ watcher[d].at = "watch" /\ watcher[d].ctx \in done
  /\ Watching(d, "cancel", watcher[d].ctx)
  /\ UNCHANGED <<mysqlConn, caller, done, executed>>

\* Mutant: the connection is closed without a word.
CancelSilently(d) ==
  /\ watcher[d].at = "cancel"
  /\ Watching(d, "trySet", watcher[d].ctx)
  /\ UNCHANGED <<mysqlConn, caller, done, executed>>

Cancel(d) ==
  /\ watcher[d].at = "cancel"
  /\ mysqlConn' = [mysqlConn EXCEPT ![d].canceled = watcher[d].ctx]
  /\ Watching(d, "trySet", watcher[d].ctx)
  /\ UNCHANGED <<caller, done, executed>>

WatcherCleanup(d) ==
  /\ UNCHANGED <<caller, done, executed>>
  /\ \/ watcher[d].at = "trySet"
        /\ Watching(d, TrySet(mysqlConn[d].closed, <<"closeChannel", "closeNet", "wait">>)[1], None)
        /\ mysqlConn' = [mysqlConn EXCEPT ![d].closed = TRUE]
     \/ watcher[d].at = "closeChannel"
        /\ Watching(d, "closeNet", None)
        /\ mysqlConn' = [mysqlConn EXCEPT ![d].closech = @ + 1]
     \/ watcher[d].at = "closeNet"
        /\ Watching(d, "wait", None)
        /\ mysqlConn' = [mysqlConn EXCEPT ![d].net = FALSE]

WatcherStep(d) ==
  WatcherReceives(d) \/ WatcherEnds(d) \/ WatcherWakes(d) \/ Cancel(d) \/ WatcherCleanup(d)

\* A context may be done at any time, also after its call.
ContextDone(k) ==
  /\ k <= caller.call /\ k \notin done
  /\ k = caller.call => caller.ctx = k
  /\ done' = done \cup {k}
  /\ UNCHANGED <<mysqlConn, watcher, caller, executed>>

LosePeer(d) ==
  /\ mysqlConn[d].peer /\ mysqlConn[d].net /\ mysqlConn[d].pool \in {"free", "used"}
  /\ mysqlConn' = [mysqlConn EXCEPT ![d].peer = FALSE]
  /\ UNCHANGED <<watcher, caller, done, executed>>

ConnNext ==
  \/ CallerStep \/ Handshake \/ Answer \/ RejectReadOnly \/ SendFileFails \/ RowsFail \/ Drained
  \/ ReadFaulty \/ HandshakeFaulty
  \/ \E o \in Ops : Start(o)
  \/ \E d \in Conns : WatcherStep(d) \/ LosePeer(d)
  \/ \E k \in Calls : ContextDone(k)

\* The goroutines run, and a broken connection is noticed.  The server need not
\* answer and no time limit need be set: no fairness on the actions outside CallerStep.
ConnSpec ==
  /\ ConnInit /\ [][ConnNext]_connVars
  /\ WF_connVars(CallerStep)
  /\ \A d \in Conns : WF_connVars(WatcherStep(d))

-----------------------------------------------------------------------------
(* Properties.                                                             *)

Errors == {"none", "ok", "err", "ctx", "badConn", "invalid"}
Contexts == Calls \cup {None}

ConnRecord ==
  [pool : {"none", "free", "used", "gone", "leaked"}, closed : BOOLEAN, canceled : Contexts,
   closech : Nat, net : BOOLEAN, peer : BOOLEAN, reset : BOOLEAN, watching : BOOLEAN, chan : Contexts]

ConnTypeOK ==
  /\ mysqlConn \in [Conns -> ConnRecord]
  /\ watcher \in
       [Conns -> [at : {"dead", "wait", "watch", "cancel", "trySet", "closeChannel", "closeNet"},
                  ctx : Contexts]]
  /\ caller.op \in Ops /\ caller.call \in 0..MaxCalls /\ caller.ctx \in Calls \cup {Background}
  /\ caller.conn \in Conns \cup {None} /\ caller.tries \in 0..Retries /\ caller.err \in Errors
  /\ caller.fault \in BOOLEAN /\ caller.again \in Nat
  /\ done \subseteq Calls
  /\ executed \in Nat

\* A watcher closes the connection for the call that is using it: a context that
\* is done late, when its call has returned, does not reach the next call.  A
\* connection that is taken with its watcher still at work is closed already
\* (connection.go:588, "Reach here if canceled, so the connection is already
\* invalid").
CancelsOwnCall ==
  \A d \in Conns :
    /\ watcher[d].at = "cancel" /\ ~mysqlConn[d].closed =>
         Busy /\ caller.conn = d /\ caller.ctx = watcher[d].ctx
    /\ mysqlConn[d].watching /\ (mysqlConn[d].pool = "free" \/ (At("watch") /\ caller.conn = d)) =>
         mysqlConn[d].closed

\* closech is closed once (a second close panics), whoever of the caller and the
\* watcher closes the connection, and whenever the other does it too.
ClosedOnce == \A d \in Conns : mysqlConn[d].closech <= 1

\* However often database/sql tries, the server acts on a statement once at most
\* (errors.go:33-37), but for the two cases in which the driver asks for another try
\* although the server has acted: a content packet of LOAD DATA that was not
\* written, and the read-only rejection of a later statement of the same query.
AtMostOnce == Busy => executed <= 1 + caller.again

\* A call says "invalid connection" only if the server was lost, a time limit has
\* passed or a packet was malformed, and never for the context that closed the
\* connection under it; it returns its context's error only if that is done.
TellsCancellation ==
  At("return") =>
  /\ caller.err = "ctx" => caller.ctx \in done
  /\ caller.err = "invalid" => ~mc.peer \/ caller.fault

\* A call whose context is done returns, whatever the server does; only what
\* Rows.Close still skips is read without a watcher.
CancelledReturns ==
  (Busy /\ caller.ctx \in done) ~> (~Busy \/ At("drain"))

\* The watcher of a closed connection ends.
WatchersEnd == \A d \in Conns : mysqlConn[d].closed ~> watcher[d].at = "dead"

==============================================================================
