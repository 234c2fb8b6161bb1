----------------------------- MODULE ConnProofs -----------------------------
(***************************************************************************)
(* Proofs about Conn, for any number of connections, calls and retries:    *)
(* closech is closed once, the server acts on a statement once at most but *)
(* for two ways of trying again, a watcher only ever cancels the call that *)
(* is using its connection, and a call that fails names the reason.        *)
(*                                                                         *)
(* The argument rests on the order of the steps in caller.todo (Plan): the *)
(* three steps of cleanup stay together, no step that leads to a write     *)
(* comes after one, and whoever tells the watcher of a context still has   *)
(* `finish' before it.                                                     *)
(***************************************************************************)
EXTENDS Conn, SequenceTheorems, TLAPS

Step == {"pool", "connect", "handshake", "watch", "check", "write", "read", "rows", "finish",
         "drain", "prepared", "return", "trySet", "closeChannel", "closeNet"}

\* Steps up to the write, with which the statement leaves.
Before == {"pool", "connect", "handshake", "watch", "check", "write"}

\* Steps in which no watcher is at work.
Alone == {"pool", "connect", "watch", "drain", "prepared", "return"}

\* From place i on, `finish' comes before any step of Alone.
FinishFrom(s, i) ==
  \E k \in i..Len(s) : s[k] = "finish" /\ \A j \in i..k : s[j] \notin Alone

Plan(s) ==
  /\ s \in Seq(Step)
  /\ \A i \in 1..Len(s) : s[i] = "trySet" =>
       i + 2 <= Len(s) /\ s[i + 1] = "closeChannel" /\ s[i + 2] = "closeNet"
  /\ \A i \in 2..Len(s) : s[i] = "closeChannel" => s[i - 1] = "trySet"
  /\ \A i, j \in 1..Len(s) : i < j /\ s[i] \in {"write", "rows"} => s[j] \notin Before
  /\ \A i \in 1..Len(s) : s[i] \in {"connect", "watch"} => FinishFrom(s, i + 1)

CallerType ==
  caller \in [todo : Seq(Step), op : Ops, call : 0..MaxCalls, ctx : Calls \cup {Background},
              conn : Conns \cup {None}, tries : 0..Retries, err : Errors,
              fault : BOOLEAN, again : Nat]

\* Steps on a connection have one, which is not in the pool meanwhile.
HasConn ==
  /\ \A i \in 1..Len(caller.todo) :
       caller.todo[i] \notin {"pool", "return"} => caller.conn \in Conns
  /\ caller.conn \in Conns => mysqlConn[caller.conn].pool # "free"

Shape == ConnTypeOK /\ CallerType /\ Plan(caller.todo) /\ HasConn

-----------------------------------------------------------------------------

CallerCloses(d) == At("closeChannel") /\ caller.conn = d
WatcherCloses(d) == watcher[d].at = "closeChannel"

\* Who is about to close the channel is the one who set `closed'.
Closing ==
  \A d \in Conns :
    /\ mysqlConn[d].closech <= 1
    /\ ~(CallerCloses(d) /\ WatcherCloses(d))
    /\ CallerCloses(d) \/ WatcherCloses(d) =>
         mysqlConn[d].closed /\ mysqlConn[d].closech = 0
    /\ mysqlConn[d].closech # 0 => mysqlConn[d].closed

\* Before the write this try has executed nothing and nothing has failed; what is
\* tried again was not executed, but for the tries that `again' counts.
Executing ==
  /\ Busy => executed <= 1 + caller.again
  /\ (\E i \in 1..Len(caller.todo) : caller.todo[i] \in Before) =>
       executed <= caller.again /\ caller.err = "none"
  /\ caller.err = "badConn" => executed <= caller.again

\* As long as d is open, whoever is told of a context is told by the caller, who
\* uses d for it and has not finished.
Watched ==
  \A d \in Conns : ~mysqlConn[d].closed =>
    /\ mysqlConn[d].watching => caller.conn = d /\ FinishFrom(caller.todo, 1)
    /\ mysqlConn[d].chan # None =>
         /\ mysqlConn[d].watching /\ mysqlConn[d].chan = caller.ctx
         /\ watcher[d].at \notin {"watch", "cancel", "trySet"}
    /\ watcher[d].at \in {"watch", "cancel"} =>
         mysqlConn[d].watching /\ watcher[d].ctx = caller.ctx
    /\ watcher[d].at = "trySet" => mysqlConn[d].watching

IInv == Shape /\ Closing /\ Executing /\ Watched

-----------------------------------------------------------------------------
(* The order of the steps.                                                 *)

NoBefore(s) == \A i \in 1..Len(s) : s[i] \notin Before
Head1(s) == s # <<>> => s[1] # "closeChannel"

\* What is left of a plan is a plan.
LEMMA Rest ==
  ASSUME NEW s, Plan(s), NEW n \in 0..Len(s), NEW t \in Seq(Step), Len(t) = Len(s) - n,
         \A i \in 1..Len(t) : t[i] = s[i + n]
  PROVE  /\ Plan(t)
         /\ \A i \in 1..(Len(t) + 1) : FinishFrom(s, i + n) => FinishFrom(t, i)
<1>1. ASSUME NEW i \in 1..(Len(t) + 1), FinishFrom(s, i + n) PROVE FinishFrom(t, i)
  <2>1. PICK k \in (i + n)..Len(s) : s[k] = "finish" /\ \A j \in (i + n)..k : s[j] \notin Alone
    BY <1>1 DEF FinishFrom
  <2>2. k - n \in i..Len(t) /\ t[k - n] = "finish"
    BY <2>1, <1>1 DEF Plan
  <2>3. \A j \in i..(k - n) : t[j] \notin Alone
    <3> SUFFICES ASSUME NEW j \in i..(k - n) PROVE t[j] \notin Alone
      OBVIOUS
    <3>1. j + n \in (i + n)..k /\ j \in 1..Len(t)
      BY <2>2
    <3> QED
      BY <2>1, <3>1
  <2> QED
    BY <2>2, <2>3 DEF FinishFrom
<1>2. \A i \in 1..Len(t) : t[i] = "trySet" =>
        i + 2 <= Len(t) /\ t[i + 1] = "closeChannel" /\ t[i + 2] = "closeNet"
  BY DEF Plan
<1>3. \A i \in 2..Len(t) : t[i] = "closeChannel" => t[i - 1] = "trySet"
  BY DEF Plan
<1>4. \A i, j \in 1..Len(t) : i < j /\ t[i] \in {"write", "rows"} => t[j] \notin Before
  BY DEF Plan
<1>5. \A i \in 1..Len(t) : t[i] \in {"connect", "watch"} => FinishFrom(t, i + 1)
  <2> SUFFICES ASSUME NEW i \in 1..Len(t), t[i] \in {"connect", "watch"} PROVE FinishFrom(t, i + 1)
    OBVIOUS
  <2>1. FinishFrom(s, (i + n) + 1)
    BY DEF Plan
  <2> QED
    BY <2>1, <1>1, (i + n) + 1 = (i + 1) + n DEF Plan
<1> QED
  BY <1>1, <1>2, <1>3, <1>4, <1>5 DEF Plan

LEMMA RestTail ==
  ASSUME NEW s, Plan(s), s # <<>>
  PROVE  /\ Plan(Tail(s)) /\ Len(Tail(s)) = Len(s) - 1 /\ Len(s) \in Nat \ {0}
         /\ \A i \in 1..Len(Tail(s)) : Tail(s)[i] = s[i + 1]
         /\ FinishFrom(s, 2) => FinishFrom(Tail(s), 1)
         /\ FinishFrom(s, 1) /\ s[1] # "finish" => FinishFrom(Tail(s), 1)
         /\ Head1(Tail(s)) \/ s[1] = "trySet"
         /\ \A i \in 1..Len(s) : s[i] \in Step
<1>1. /\ Tail(s) \in Seq(Step) /\ Len(Tail(s)) = Len(s) - 1 /\ Len(s) \in Nat \ {0}
      /\ \A i \in 1..Len(Tail(s)) : Tail(s)[i] = s[i + 1]
      /\ \A i \in 1..Len(s) : s[i] \in Step
  BY DEF Plan
<1>2. /\ Plan(Tail(s))
      /\ \A i \in 1..(Len(Tail(s)) + 1) : FinishFrom(s, i + 1) => FinishFrom(Tail(s), i)
  <2>1. 1 \in 0..Len(s)
    BY <1>1
  <2> QED
    BY ONLY <1>1, <2>1, Plan(s), Rest
<1>3. FinishFrom(s, 1) /\ s[1] # "finish" => FinishFrom(s, 2)
  BY <1>1 DEF FinishFrom
<1>4. FinishFrom(s, 2) => FinishFrom(Tail(s), 1)
  BY <1>1, <1>2
<1>5. Head1(Tail(s)) \/ s[1] = "trySet"
  BY <1>1 DEF Plan, Head1
<1> QED
  BY <1>1, <1>2, <1>3, <1>4, <1>5

\* After trySet come the channel and the socket, which are skipped together.
LEMMA RestSkip ==
  ASSUME NEW s, Plan(s), s # <<>>, s[1] = "trySet", NEW t, t = SubSeq(Tail(s), 3, Len(Tail(s)))
  PROVE  /\ Plan(t) /\ Len(t) = Len(s) - 3
         /\ \A i \in 1..Len(t) : t[i] = s[i + 3]
         /\ Head1(t)
<1>1. Len(s) >= 3 /\ s \in Seq(Step) /\ Tail(s) \in Seq(Step) /\ Len(Tail(s)) = Len(s) - 1
      /\ s[2] = "closeChannel" /\ s[3] = "closeNet"
  BY RestTail DEF Plan
<1>2. t \in Seq(Step) /\ Len(t) = Len(s) - 3
  BY <1>1
<1>3. \A i \in 1..Len(t) : t[i] = s[i + 3]
  BY <1>1, <1>2, RestTail
<1>4. Plan(t)
  <2>1. 3 \in 0..Len(s)
    BY <1>1
  <2> QED
    BY ONLY <1>2, <1>3, <2>1, Plan(s), Rest
<1>5. Head1(t)
  BY <1>1, <1>2, <1>3 DEF Plan, Head1
<1> QED
  BY <1>2, <1>3, <1>4, <1>5

LEMMA CleanupFirst ==
  ASSUME NEW s, Plan(s), Head1(s), NEW t, t = Cleanup \o s
  PROVE  /\ Plan(t) /\ t # <<>> /\ Head1(t) /\ Len(t) = Len(s) + 3
         /\ t[1] = "trySet" /\ t[2] = "closeChannel" /\ t[3] = "closeNet"
         /\ \A i \in 4..Len(t) : t[i] = s[i - 3]
         /\ FinishFrom(s, 1) => FinishFrom(t, 1)
         /\ NoBefore(s) => NoBefore(t)
<1>1. s \in Seq(Step) /\ Cleanup \in Seq(Step) /\ Len(Cleanup) = 3 /\ Cleanup[1] = "trySet"
      /\ Cleanup[2] = "closeChannel" /\ Cleanup[3] = "closeNet"
  BY DEF Plan, Cleanup, Step
<1>2. /\ t \in Seq(Step) /\ t # <<>> /\ Len(t) = Len(s) + 3
      /\ t[1] = "trySet" /\ t[2] = "closeChannel" /\ t[3] = "closeNet"
      /\ \A i \in 4..Len(t) : t[i] = s[i - 3]
  <2>1. t \in Seq(Step) /\ Len(t) = Len(s) + 3
    <3>1. Cleanup \o s \in Seq(Step)
      BY <1>1, ConcatProperties
    <3>2. Len(Cleanup \o s) = Len(Cleanup) + Len(s)
      BY <1>1, ConcatProperties
    <3>3. Len(s) \in Nat
      BY <1>1
    <3> QED
      BY <1>1, <3>1, <3>2, <3>3
  <2>2. \A i \in 1..Len(t) : t[i] = IF i <= 3 THEN Cleanup[i] ELSE s[i - 3]
    BY <1>1, <2>1, ConcatProperties
  <2> QED
    BY <1>1, <2>1, <2>2
<1>3. Head1(t)
  BY <1>2 DEF Head1
<1>4. ASSUME NEW i \in 1..(Len(s) + 1), FinishFrom(s, i) PROVE FinishFrom(t, i + 3)
  <2>1. PICK k \in i..Len(s) : s[k] = "finish" /\ \A j \in i..k : s[j] \notin Alone
    BY <1>4 DEF FinishFrom
  <2>2. k + 3 \in (i + 3)..Len(t) /\ t[k + 3] = "finish"
    BY <2>1, <1>1, <1>2, <1>4
  <2>3. \A j \in (i + 3)..(k + 3) : t[j] \notin Alone
    BY <2>1, <2>2, <1>1, <1>2, <1>4
  <2> QED
    BY <2>2, <2>3 DEF FinishFrom
<1>5. FinishFrom(s, 1) => FinishFrom(t, 1)
  <2> SUFFICES ASSUME FinishFrom(s, 1) PROVE FinishFrom(t, 1)
    OBVIOUS
  <2>1. FinishFrom(t, 4)
    BY <1>4, <1>1
  <2>2. PICK k \in 4..Len(t) : t[k] = "finish" /\ \A j \in 4..k : t[j] \notin Alone
    BY <2>1 DEF FinishFrom
  <2>3. \A j \in 1..k : t[j] \notin Alone
    BY <1>2, <2>2 DEF Alone
  <2> QED
    BY <1>1, <1>2, <2>2, <2>3 DEF FinishFrom
<1>6. \A i \in 1..Len(t) : t[i] = "trySet" =>
        i + 2 <= Len(t) /\ t[i + 1] = "closeChannel" /\ t[i + 2] = "closeNet"
  BY <1>1, <1>2 DEF Plan
<1>7. \A i \in 2..Len(t) : t[i] = "closeChannel" => t[i - 1] = "trySet"
  BY <1>1, <1>2 DEF Plan, Head1
<1>8. \A i, j \in 1..Len(t) : i < j /\ t[i] \in {"write", "rows"} => t[j] \notin Before
  BY <1>1, <1>2 DEF Plan
<1>9. \A i \in 1..Len(t) : t[i] \in {"connect", "watch"} => FinishFrom(t, i + 1)
  <2> SUFFICES ASSUME NEW i \in 1..Len(t), t[i] \in {"connect", "watch"} PROVE FinishFrom(t, i + 1)
    OBVIOUS
  <2>1. i \in 4..Len(t) /\ s[i - 3] \in {"connect", "watch"} /\ i - 3 \in 1..Len(s)
    BY <1>1, <1>2
  <2>2. FinishFrom(s, (i - 3) + 1)
    BY <2>1 DEF Plan
  <2> QED
    BY <2>1, <2>2, <1>4, <1>1, ((i - 3) + 1) + 3 = i + 1
<1>10. NoBefore(s) => NoBefore(t)
  BY <1>1, <1>2 DEF NoBefore, Before
<1> QED
  BY <1>2, <1>3, <1>5, <1>6, <1>7, <1>8, <1>9, <1>10 DEF Plan

LEMMA ShortPlans ==
  /\ Plan(<<>>) /\ Plan(<<"return">>) /\ Plan(<<"pool">>) /\ Plan(Finish)
  /\ Head1(<<>>) /\ Head1(<<"return">>) /\ Head1(<<"pool">>) /\ Head1(Finish)
  /\ NoBefore(<<>>) /\ NoBefore(<<"return">>) /\ NoBefore(Finish)
  /\ FinishFrom(Finish, 1)
<1>1. Plan(<<>>) /\ Head1(<<>>) /\ NoBefore(<<>>)
  BY DEF Plan, Head1, NoBefore
<1>2. Plan(<<"return">>) /\ Head1(<<"return">>) /\ NoBefore(<<"return">>)
  BY DEF Plan, Head1, NoBefore, Step, Before
<1>3. Plan(<<"pool">>) /\ Head1(<<"pool">>)
  BY DEF Plan, Head1, Step
<1>4. Plan(Finish) /\ Head1(Finish) /\ NoBefore(Finish)
  BY DEF Plan, Head1, NoBefore, Step, Before, Finish
<1>5. FinishFrom(Finish, 1)
  BY DEF FinishFrom, Finish, Alone
<1> QED
  BY <1>1, <1>2, <1>3, <1>4, <1>5

LEMMA PlannedOperation ==
  ASSUME NEW o \in Ops
  PROVE  /\ Plan(Steps(o)) /\ Steps(o) # <<>> /\ Steps(o)[1] = "watch"
         /\ \A i \in 1..Len(Steps(o)) : Steps(o)[i] \notin {"pool", "trySet", "closeChannel"}
<1>1. CASE o = "exec"
  <2>1. Steps(o) = <<"watch", "check", "write", "read", "finish", "return">>
    BY <1>1 DEF Steps
  <2>2. FinishFrom(Steps(o), 2)
    BY <2>1 DEF FinishFrom, Alone
  <2> QED
    BY <2>1, <2>2 DEF Plan, Step, Before
<1>2. CASE o = "query"
  <2>1. Steps(o) = <<"watch", "check", "write", "read", "rows", "finish", "drain", "return">>
    BY <1>2 DEF Steps
  <2>2. FinishFrom(Steps(o), 2)
    BY <2>1 DEF FinishFrom, Alone
  <2> QED
    BY <2>1, <2>2 DEF Plan, Step, Before
<1>3. CASE o = "prepare"
  <2>1. Steps(o) = <<"watch", "check", "write", "read", "finish", "prepared", "return">>
    BY <1>3 DEF Steps
  <2>2. FinishFrom(Steps(o), 2)
    BY <2>1 DEF FinishFrom, Alone
  <2> QED
    BY <2>1, <2>2 DEF Plan, Step, Before
<1> QED
  BY <1>1, <1>2, <1>3 DEF Ops

LEMMA PlannedConnect ==
  ASSUME NEW o \in Ops, NEW t, t = Connecting \o Steps(o)
  PROVE  /\ Plan(t) /\ t # <<>> /\ t[1] = "connect"
         /\ \A i \in 1..Len(t) : t[i] # "pool"
<1>1. /\ Plan(Steps(o)) /\ Steps(o) \in Seq(Step) /\ Len(Steps(o)) \in Nat \ {0} /\ Steps(o)[1] = "watch"
      /\ \A i \in 1..Len(Steps(o)) : Steps(o)[i] # "pool"
  BY PlannedOperation DEF Plan
<1>2. Connecting \in Seq(Step) /\ Len(Connecting) = 3 /\ Connecting[1] = "connect"
      /\ Connecting[2] = "handshake" /\ Connecting[3] = "finish"
  BY DEF Connecting, Step
<1>3. t \in Seq(Step) /\ Len(t) = Len(Steps(o)) + 3
  <2>1. t \in Seq(Step)
    BY <1>1, <1>2, ConcatProperties
  <2>2. Len(Connecting \o Steps(o)) = Len(Connecting) + Len(Steps(o))
    BY <1>1, <1>2, ConcatProperties
  <2> QED
    BY <1>1, <1>2, <2>1, <2>2
<1>4. \A i \in 1..Len(t) : t[i] = IF i <= 3 THEN Connecting[i] ELSE Steps(o)[i - 3]
  BY <1>1, <1>2, <1>3, ConcatProperties
<1>5. t[1] = "connect" /\ t[2] = "handshake" /\ t[3] = "finish" /\ t # <<>>
  BY <1>1, <1>2, <1>3, <1>4
<1>6. \A i \in 4..Len(t) : t[i] = Steps(o)[i - 3] /\ i - 3 \in 1..Len(Steps(o))
  BY <1>1, <1>3, <1>4
<1>7. \A i \in 1..Len(t) : t[i] = "trySet" =>
        i + 2 <= Len(t) /\ t[i + 1] = "closeChannel" /\ t[i + 2] = "closeNet"
  <2> SUFFICES ASSUME NEW i \in 1..Len(t), t[i] = "trySet" PROVE FALSE
    OBVIOUS
  <2>1. i \in 4..Len(t) /\ Steps(o)[i - 3] = "trySet" /\ i - 3 \in 1..Len(Steps(o))
    BY <1>1, <1>3, <1>5, <1>6
  <2> QED
    BY <2>1, PlannedOperation
<1>8. \A i \in 2..Len(t) : t[i] # "closeChannel"
  BY <1>1, <1>3, <1>5, <1>6, PlannedOperation
<1>9. \A i, j \in 1..Len(t) : i < j /\ t[i] \in {"write", "rows"} => t[j] \notin Before
  <2> SUFFICES ASSUME NEW i \in 1..Len(t), NEW j \in 1..Len(t), i < j, t[i] \in {"write", "rows"}
               PROVE  t[j] \notin Before
    OBVIOUS
  <2>1. i \in 4..Len(t) /\ j \in 4..Len(t)
    BY <1>1, <1>3, <1>5
  <2>2. /\ i - 3 \in 1..Len(Steps(o)) /\ j - 3 \in 1..Len(Steps(o)) /\ i - 3 < j - 3
        /\ t[i] = Steps(o)[i - 3] /\ t[j] = Steps(o)[j - 3]
    BY <1>1, <1>3, <1>6, <2>1
  <2>3. \A k, l \in 1..Len(Steps(o)) : k < l /\ Steps(o)[k] \in {"write", "rows"} => Steps(o)[l] \notin Before
    BY <1>1 DEF Plan
  <2> QED
    BY <2>2, <2>3
<1>10. \A i \in 1..Len(t) : t[i] \in {"connect", "watch"} => FinishFrom(t, i + 1)
  <2> SUFFICES ASSUME NEW i \in 1..Len(t), t[i] \in {"connect", "watch"} PROVE FinishFrom(t, i + 1)
    OBVIOUS
  <2>1. CASE i \in 1..3
    <3>1. i = 1
      BY <1>5, <2>1
    <3> QED
      BY <1>1, <1>3, <1>5, <3>1 DEF FinishFrom, Alone
  <2>2. CASE i \in 4..Len(t)
    <3>1. FinishFrom(Steps(o), (i - 3) + 1)
      BY <1>1, <1>6, <2>2 DEF Plan
    <3>2. PICK k \in ((i - 3) + 1)..Len(Steps(o)) :
            Steps(o)[k] = "finish" /\ \A j \in ((i - 3) + 1)..k : Steps(o)[j] \notin Alone
      BY <3>1 DEF FinishFrom
    <3>3. k + 3 \in (i + 1)..Len(t) /\ t[k + 3] = "finish"
      BY <1>1, <1>3, <1>6, <2>2, <3>2
    <3>4. \A j \in (i + 1)..(k + 3) : t[j] \notin Alone
      BY <1>1, <1>3, <1>6, <2>2, <3>2, <3>3
    <3> QED
      BY <3>3, <3>4 DEF FinishFrom
  <2> QED
    BY <1>1, <1>3, <2>1, <2>2
<1>11. \A i \in 1..Len(t) : t[i] # "pool"
  BY <1>1, <1>3, <1>5, <1>6
<1> QED
  BY <1>3, <1>5, <1>7, <1>8, <1>9, <1>10, <1>11 DEF Plan

-----------------------------------------------------------------------------
(* Steps of the caller that leave the watcher and `closed' alone.          *)

\* The caller goes on with steps T and result e.
Proceeds(T, e) ==
  /\ CallerType' /\ caller'.todo = T /\ caller'.err = e
  /\ caller'.op = caller.op /\ caller'.call = caller.call /\ caller'.ctx = caller.ctx
  /\ caller'.conn = caller.conn /\ caller'.tries = caller.tries
  /\ caller.fault => caller'.fault

\* It does, and asks for no other try of what the server has acted on.
Moves(T, e) == Proceeds(T, e) /\ caller'.again = caller.again

\* T may follow the steps of the caller.
Follows(T, e) ==
  /\ Plan(T) /\ Head1(T) /\ e \in Errors
  /\ \A i \in 1..Len(T) : T[i] \notin {"pool", "return"} => caller.conn \in Conns
  /\ FinishFrom(caller.todo, 1) => FinishFrom(T, 1)
  /\ NoBefore(T) \/ (e = caller.err /\ \E i \in 1..Len(caller.todo) : caller.todo[i] \in Before)

\* What the invariants say of the connections stays.
Harmless ==
  /\ watcher' = watcher
  /\ \A d \in Conns :
       /\ mysqlConn'[d].closed = mysqlConn[d].closed /\ mysqlConn'[d].closech = mysqlConn[d].closech
       /\ mysqlConn'[d].watching = mysqlConn[d].watching /\ mysqlConn'[d].chan = mysqlConn[d].chan
       /\ caller.conn = d => mysqlConn'[d].pool # "free"

LEMMA GotoMoves ==
  ASSUME CallerType, NEW T \in Seq(Step), Goto(T)
  PROVE  Moves(T, caller.err)
BY DEF CallerType, Goto, Moves, Proceeds

LEMMA FailMoves ==
  ASSUME CallerType, NEW T \in Seq(Step), NEW e \in Errors, Fail(e, T) \/ FailFaulty(e, T)
  PROVE  Moves(T, e)
BY DEF CallerType, Fail, FailFaulty, Moves, Proceeds

\* Steps that tell the watcher nothing, and close nothing.
LEMMA CallerProceeds ==
  ASSUME IInv, NEW T, NEW e, Proceeds(T, e), Follows(T, e), Harmless, ConnTypeOK', Executing'
  PROVE  IInv'
<1>1. Shape'
  BY DEF IInv, Shape, Proceeds, Follows, Harmless, HasConn
<1>2. Closing'
  BY DEF IInv, Closing, CallerCloses, WatcherCloses, At, Proceeds, Follows, Harmless, Head1
<1>3. Watched'
  BY DEF IInv, Watched, Proceeds, Follows, Harmless
<1> QED
  BY <1>1, <1>2, <1>3 DEF IInv

\* After the write nothing comes that leads to another one.
LEMMA Executed ==
  ASSUME NEW T, NEW e, Proceeds(T, e), NoBefore(T), executed' <= 1 + caller'.again,
         e = "badConn" => executed' <= caller'.again
  PROVE  Executing'
<1>1. ~\E i \in 1..Len(caller'.todo) : caller'.todo[i] \in Before
  BY DEF Proceeds, NoBefore
<1>2. caller'.err = "badConn" => executed' <= caller'.again
  BY DEF Proceeds
<1> QED
  BY <1>1, <1>2 DEF Executing

LEMMA CallerMoves ==
  ASSUME IInv, Busy, NEW T, NEW e, Moves(T, e), Follows(T, e), Harmless,
         ConnTypeOK',
         \/ executed' = executed /\ (e = "badConn" => executed <= caller.again)
         \/ executed' <= 1 + caller.again /\ e # "badConn" /\ NoBefore(T)
  PROVE  IInv'
<1>0. executed \in Nat /\ caller.again \in Nat /\ Proceeds(T, e) /\ caller'.again = caller.again
  BY DEF IInv, Shape, ConnTypeOK, Moves, Proceeds
<1>3. Executing'
  <2>1. CASE NoBefore(T)
    <3>1. executed' <= 1 + caller.again
      BY DEF IInv, Executing
    <3> QED
      BY <1>0, <2>1, <3>1, Executed
  <2>2. CASE e = caller.err /\ \E i \in 1..Len(caller.todo) : caller.todo[i] \in Before
    <3>1. executed <= caller.again /\ caller.err = "none"
      BY <2>2 DEF IInv, Executing
    <3>2. CASE executed' = executed
      BY <1>0, <2>2, <3>1, <3>2 DEF Executing, Proceeds
    <3> QED
      BY <2>1, <3>2
  <2> QED
    BY <2>1, <2>2 DEF Follows
<1> QED
  BY <1>0, <1>3, CallerProceeds

\* The rest of the steps may follow, and so may the ways out of an operation.
LEMMA RestFollows ==
  ASSUME IInv, Busy, caller.todo[1] \notin {"finish", "trySet"}
  PROVE  /\ Follows(Tail(caller.todo), caller.err)
         /\ caller.todo[1] \notin Before => \A e \in Errors : NoBefore(Tail(caller.todo)) =>
              Follows(Tail(caller.todo), e)
<1> DEFINE T == Tail(caller.todo)
<1>1. Plan(caller.todo) /\ caller.todo # <<>> /\ caller.err \in Errors
  BY DEF IInv, Shape, CallerType, Busy
<1>2. /\ Plan(T) /\ Len(T) = Len(caller.todo) - 1 /\ Len(caller.todo) \in Nat \ {0}
      /\ \A i \in 1..Len(T) : T[i] = caller.todo[i + 1]
      /\ Head1(T)
      /\ FinishFrom(caller.todo, 1) => FinishFrom(T, 1)
  BY <1>1, RestTail
<1>3. \A i \in 1..Len(T) : T[i] \notin {"pool", "return"} => caller.conn \in Conns
  BY <1>2 DEF IInv, Shape, HasConn
<1>4. NoBefore(T) \/ \E i \in 1..Len(caller.todo) : caller.todo[i] \in Before
  BY <1>2 DEF NoBefore
<1> QED
  BY <1>1, <1>2, <1>3, <1>4 DEF Follows

LEMMA WaysOut ==
  ASSUME IInv, Busy, NEW e \in Errors
  PROVE  /\ caller.conn \in Conns => Follows(Finish, e) /\ Follows(Cleanup \o Finish, e)
         /\ caller.todo[1] \in Alone => Follows(<<"return">>, e)
         /\ caller.todo[1] \in Alone /\ caller.conn \in Conns =>
              Follows(Cleanup \o <<"return">>, e)
<1>1. Plan(caller.todo) /\ caller.todo # <<>> /\ Len(caller.todo) \in Nat \ {0}
  BY DEF IInv, Shape, Busy, Plan
<1>2. caller.todo[1] \in Alone => ~FinishFrom(caller.todo, 1)
  BY <1>1 DEF FinishFrom
<1>3. Plan(Cleanup \o Finish) /\ Head1(Cleanup \o Finish) /\ NoBefore(Cleanup \o Finish)
      /\ FinishFrom(Cleanup \o Finish, 1)
  BY ShortPlans, CleanupFirst
<1>4. /\ Plan(Cleanup \o <<"return">>) /\ Head1(Cleanup \o <<"return">>)
      /\ NoBefore(Cleanup \o <<"return">>)
  BY ShortPlans, CleanupFirst
<1>5. caller.todo[1] \in Alone => Follows(<<"return">>, e)
  BY <1>2, ShortPlans DEF Follows
<1> QED
  BY <1>2, <1>3, <1>4, <1>5, ShortPlans DEF Follows

LEMMA CleanupFollows ==
  ASSUME IInv, NEW T, NEW e, Follows(T, e), caller.conn \in Conns
  PROVE  Follows(Cleanup \o T, e)
<1>1. /\ Plan(Cleanup \o T) /\ Head1(Cleanup \o T)
      /\ FinishFrom(T, 1) => FinishFrom(Cleanup \o T, 1)
      /\ NoBefore(T) => NoBefore(Cleanup \o T)
  BY CleanupFirst DEF Follows
<1> QED
  BY <1>1 DEF Follows

-----------------------------------------------------------------------------
(* One lemma for each step of the caller.                                  *)

LEMMA OnConn ==
  ASSUME IInv, Busy, caller.todo[1] \notin {"pool", "return"}
  PROVE  c \in Conns /\ mc.pool # "free"
<1>1. 1 \in 1..Len(caller.todo)
  BY DEF IInv, Shape, CallerType, Busy
<1> QED
  BY <1>1 DEF IInv, Shape, HasConn, c, mc

LEMMA OnlyCaller ==
  ASSUME IInv, Busy, NEW T, NEW e, Moves(T, e), Follows(T, e),
         UNCHANGED <<mysqlConn, watcher, done, executed>>,
         e = "badConn" => executed <= caller.again
  PROVE  IInv'
<1>1. Harmless
  BY DEF IInv, Shape, HasConn, Harmless
<1>2. ConnTypeOK'
  BY DEF IInv, Shape, ConnTypeOK, Moves, Proceeds, CallerType
<1> QED
  BY <1>1, <1>2, CallerMoves

\* A change of one field that the invariants say nothing of.
LEMMA HarmlessSet ==
  ASSUME IInv, c \in Conns, mc.pool # "free", UNCHANGED <<watcher, done>>, CallerType',
         \/ Set([mc EXCEPT !.pool = "gone"]) \/ Set([mc EXCEPT !.pool = "leaked"])
         \/ Set([mc EXCEPT !.reset = FALSE]) \/ Set([mc EXCEPT !.net = FALSE]),
         executed' \in Nat
  PROVE  Harmless /\ ConnTypeOK'
<1>1. mysqlConn \in [Conns -> ConnRecord] /\ mc \in ConnRecord
  BY DEF IInv, Shape, ConnTypeOK, mc
<1> DEFINE Others == mysqlConn' \in [Conns -> ConnRecord]
                     /\ \A d \in Conns \ {c} : mysqlConn'[d] = mysqlConn[d]
<1>2. PICK r : Set(r) /\ r \in ConnRecord /\ r.closed = mc.closed /\ r.closech = mc.closech
              /\ r.watching = mc.watching /\ r.chan = mc.chan /\ r.pool # "free"
  <2>1. CASE Set([mc EXCEPT !.pool = "gone"])
    <3> DEFINE r == [mc EXCEPT !.pool = "gone"]
    <3>1. r \in ConnRecord /\ r.closed = mc.closed /\ r.closech = mc.closech
          /\ r.watching = mc.watching /\ r.chan = mc.chan /\ r.pool # "free"
      BY <1>1 DEF ConnRecord
    <3> QED
      BY <2>1, <3>1
  <2>2. CASE Set([mc EXCEPT !.pool = "leaked"])
    <3> DEFINE r == [mc EXCEPT !.pool = "leaked"]
    <3>1. r \in ConnRecord /\ r.closed = mc.closed /\ r.closech = mc.closech
          /\ r.watching = mc.watching /\ r.chan = mc.chan /\ r.pool # "free"
      BY <1>1 DEF ConnRecord
    <3> QED
      BY <2>2, <3>1
  <2>3. CASE Set([mc EXCEPT !.reset = FALSE])
    <3> DEFINE r == [mc EXCEPT !.reset = FALSE]
    <3>1. r \in ConnRecord /\ r.closed = mc.closed /\ r.closech = mc.closech
          /\ r.watching = mc.watching /\ r.chan = mc.chan /\ r.pool # "free"
      BY <1>1 DEF ConnRecord
    <3> QED
      BY <2>3, <3>1
  <2>4. CASE Set([mc EXCEPT !.net = FALSE])
    <3> DEFINE r == [mc EXCEPT !.net = FALSE]
    <3>1. r \in ConnRecord /\ r.closed = mc.closed /\ r.closech = mc.closech
          /\ r.watching = mc.watching /\ r.chan = mc.chan /\ r.pool # "free"
      BY <1>1 DEF ConnRecord
    <3> QED
      BY <2>4, <3>1
  <2> QED
    BY <2>1, <2>2, <2>3, <2>4
<1>3. Others
  BY <1>1, <1>2 DEF Set
<1>4. mysqlConn'[c] = r
  BY <1>1, <1>2 DEF Set
<1>5. Harmless
  BY <1>2, <1>3, <1>4 DEF mc, c, Harmless
<1> QED
  BY <1>3, <1>5 DEF IInv, Shape, ConnTypeOK, CallerType

\* The watcher is told of a context only by a caller that will finish.
LEMMA TellWatcherStep ==
  ASSUME IInv, Busy, caller.todo[1] \in {"connect", "watch"}, TellWatcher,
         UNCHANGED <<watcher, done, executed>>
  PROVE  IInv'
<1> DEFINE T == Tail(caller.todo)
<1>1. Plan(caller.todo) /\ caller.todo # <<>> /\ CallerType /\ c \in Conns /\ mc.pool # "free"
  BY OnConn DEF IInv, Shape, Busy
<1>2. Plan(T) /\ T \in Seq(Step) /\ FinishFrom(T, 1)
  BY <1>1, RestTail DEF Plan
<1>3. Follows(T, caller.err) /\ Moves(T, caller.err)
  BY <1>1, <1>2, RestFollows, GotoMoves DEF TellWatcher, Continue
<1>4. CASE UNCHANGED mysqlConn
  <2>1. caller.err = "badConn" => executed <= caller.again
    BY DEF IInv, Executing
  <2> QED
    BY <1>3, <1>4, <2>1, OnlyCaller
<1>5. CASE caller.ctx # Background /\ Set([mc EXCEPT !.watching = TRUE, !.chan = caller.ctx])
  <2> DEFINE r == [mc EXCEPT !.watching = TRUE, !.chan = caller.ctx]
  <2>0. /\ mysqlConn \in [Conns -> ConnRecord] /\ mc \in ConnRecord /\ caller.ctx \in Contexts
        /\ mysqlConn' = [mysqlConn EXCEPT ![c] = r]
    BY <1>1, <1>5 DEF IInv, Shape, ConnTypeOK, CallerType, mc, Set, Contexts
  <2>r. /\ r \in ConnRecord /\ r.closed = mc.closed /\ r.closech = mc.closech /\ r.pool = mc.pool
        /\ r.watching /\ r.chan = caller.ctx
    BY <2>0 DEF ConnRecord
  <2> HIDE DEF r
  <2>1. /\ mysqlConn' \in [Conns -> ConnRecord]
        /\ \A d \in Conns : mysqlConn'[d].closed = mysqlConn[d].closed
              /\ mysqlConn'[d].closech = mysqlConn[d].closech /\ mysqlConn'[d].pool = mysqlConn[d].pool
        /\ \A d \in Conns \ {c} : mysqlConn'[d] = mysqlConn[d]
        /\ mysqlConn'[c].watching /\ mysqlConn'[c].chan = caller.ctx
    BY <1>1, <2>0, <2>r DEF mc
  <2>2. Shape'
    BY <1>1, <1>3, <2>1 DEF IInv, Shape, ConnTypeOK, CallerType, HasConn, Moves, Proceeds, Follows, c
  <2>3. Closing'
    BY <1>3, <2>1 DEF IInv, Closing, CallerCloses, WatcherCloses, At, Moves, Proceeds, Follows, Head1
  <2>4. Executing'
    BY <1>3 DEF IInv, Executing, Moves, Proceeds, Follows, NoBefore
  <2>5. ~FinishFrom(caller.todo, 1)
    BY <1>1 DEF FinishFrom, Alone, Plan
  <2>6. Watched'
    BY <1>1, <1>2, <1>3, <2>1, <2>5 DEF IInv, Watched, Moves, Proceeds, c
  <2> QED
    BY <2>2, <2>3, <2>4, <2>6 DEF IInv
<1> QED
  BY <1>4, <1>5 DEF TellWatcher

LEMMA ConnectStep == IInv /\ Connect => IInv'
<1> SUFFICES ASSUME IInv, Connect PROVE IInv'
  OBVIOUS
<1>1. Busy /\ caller.todo[1] = "connect" /\ c \in Conns /\ mc.pool # "free" /\ CallerType
      /\ "connect" \in Alone
  BY OnConn DEF Connect, At, Busy, IInv, Shape, Alone
<1>2. CASE Fail("ctx", <<"return">>) /\ Set([mc EXCEPT !.pool = "leaked"])
  <2>1. Moves(<<"return">>, "ctx") /\ Follows(<<"return">>, "ctx")
    BY <1>1, <1>2, FailMoves, WaysOut, ShortPlans DEF Errors, Plan
  <2>2. Harmless /\ ConnTypeOK'
    BY <1>1, <1>2, <2>1, HarmlessSet DEF Connect, Moves, Proceeds, IInv, Shape, ConnTypeOK
  <2> QED
    BY <1>1, <2>1, <2>2, CallerMoves DEF Connect
<1>3. CASE TellWatcher
  BY <1>1, <1>3, TellWatcherStep DEF Connect
<1> QED
  BY <1>2, <1>3 DEF Connect

LEMMA WatchStep == IInv /\ Watch => IInv'
<1> SUFFICES ASSUME IInv, Watch PROVE IInv'
  OBVIOUS
<1>1. Busy /\ caller.todo[1] = "watch" /\ c \in Conns /\ CallerType /\ "watch" \in Alone
      /\ UNCHANGED <<watcher, done, executed>>
  BY OnConn DEF Watch, At, Busy, IInv, Shape, Alone
<1>2. CASE Goto(Cleanup \o Tail(caller.todo)) /\ UNCHANGED mysqlConn
  <2>1. Follows(Cleanup \o Tail(caller.todo), caller.err)
    BY <1>1, RestFollows, CleanupFollows DEF c
  <2>2. Moves(Cleanup \o Tail(caller.todo), caller.err)
    BY <1>1, <1>2, <2>1, GotoMoves DEF Follows, Plan
  <2> QED
    BY <1>1, <1>2, <2>1, <2>2, OnlyCaller DEF IInv, Executing
<1>3. CASE Fail("ctx", <<"return">>) /\ UNCHANGED mysqlConn
  <2>1. Moves(<<"return">>, "ctx") /\ Follows(<<"return">>, "ctx")
    BY <1>1, <1>3, FailMoves, WaysOut, ShortPlans DEF Errors, Plan
  <2> QED
    BY <1>1, <1>3, <2>1, OnlyCaller
<1>4. CASE TellWatcher
  BY <1>1, <1>4, TellWatcherStep
<1> QED
  BY <1>2, <1>3, <1>4 DEF Watch, WatchCancel

LEMMA HandshakeStep == IInv /\ (Handshake \/ HandshakeFails \/ HandshakeFaulty) => IInv'
<1> SUFFICES ASSUME IInv, Handshake \/ HandshakeFails \/ HandshakeFaulty PROVE IInv'
  OBVIOUS
<1>1. Busy /\ caller.todo[1] = "handshake" /\ c \in Conns /\ mc.pool # "free" /\ CallerType
      /\ UNCHANGED <<watcher, done, executed>> /\ 1 \in 1..Len(caller.todo)
  BY OnConn DEF Handshake, HandshakeFails, HandshakeFaulty, At, Busy, IInv, Shape, CallerType
<1>2. executed <= caller.again
  BY <1>1 DEF IInv, Executing, Before
<1>3. CASE Continue /\ UNCHANGED mysqlConn
  <2>1. Follows(Tail(caller.todo), caller.err)
    BY <1>1, RestFollows
  <2>2. Moves(Tail(caller.todo), caller.err)
    BY <1>1, <1>3, <2>1, GotoMoves DEF Follows, Plan, Continue
  <2> QED
    BY <1>1, <1>2, <1>3, <2>1, <2>2, OnlyCaller
<1>4. ASSUME NEW e \in Errors, Fail(e, Cleanup \o Finish) \/ FailFaulty(e, Cleanup \o Finish),
             Set([mc EXCEPT !.pool = "gone"])
      PROVE  IInv'
  <2>1. Follows(Cleanup \o Finish, e)
    BY <1>1, WaysOut DEF c
  <2>2. Moves(Cleanup \o Finish, e)
    BY <1>1, <1>4, <2>1, FailMoves DEF Follows, Plan
  <2>3. Harmless /\ ConnTypeOK'
    BY <1>1, <1>2, <1>4, <2>2, HarmlessSet DEF Moves, Proceeds, IInv, Shape, ConnTypeOK
  <2> QED
    BY <1>1, <1>2, <2>1, <2>2, <2>3, CallerMoves
<1> QED
  BY <1>1, <1>3, <1>4 DEF Handshake, HandshakeFails, HandshakeFaulty, Errors

LEMMA CheckStep == IInv /\ CheckClosed => IInv'
<1> SUFFICES ASSUME IInv, CheckClosed PROVE IInv'
  OBVIOUS
<1>1. Busy /\ caller.todo[1] = "check" /\ c \in Conns /\ CallerType /\ 1 \in 1..Len(caller.todo)
  BY OnConn DEF CheckClosed, At, Busy, IInv, Shape, CallerType
<1>2. executed <= caller.again
  BY <1>1 DEF IInv, Executing, Before
<1>3. CASE Fail("badConn", Finish)
  <2>1. Follows(Finish, "badConn")
    BY <1>1, WaysOut DEF c, Errors
  <2>2. Moves(Finish, "badConn")
    BY <1>1, <1>3, <2>1, FailMoves DEF Follows, Plan
  <2> QED
    BY <1>1, <1>2, <2>1, <2>2, OnlyCaller DEF CheckClosed
<1>4. CASE Continue
  <2>1. Follows(Tail(caller.todo), caller.err)
    BY <1>1, RestFollows
  <2>2. Moves(Tail(caller.todo), caller.err)
    BY <1>1, <1>4, <2>1, GotoMoves DEF Follows, Plan, Continue
  <2> QED
    BY <1>1, <1>2, <2>1, <2>2, OnlyCaller DEF CheckClosed
<1> QED
  BY <1>3, <1>4 DEF CheckClosed

\* The only step in which the server may receive the statement.
LEMMA WriteStep == IInv /\ WritePacket => IInv'
<1> SUFFICES ASSUME IInv, WritePacket PROVE IInv'
  OBVIOUS
<1>1. Busy /\ caller.todo[1] = "write" /\ c \in Conns /\ mc.pool # "free" /\ CallerType
      /\ UNCHANGED <<watcher, done>> /\ 1 \in 1..Len(caller.todo) /\ Set([mc EXCEPT !.reset = FALSE])
      /\ Plan(caller.todo) /\ caller.todo # <<>>
  BY OnConn DEF WritePacket, At, Busy, IInv, Shape, CallerType
<1>2. executed <= caller.again /\ caller.err = "none"
  BY <1>1 DEF IInv, Executing, Before
<1>3. ASSUME NEW e \in Errors, NEW T \in {Finish, Cleanup \o Finish}, Fail(e, T) \/ FailFaulty(e, T),
             UNCHANGED executed
      PROVE  IInv'
  <2>1. Follows(T, e)
    BY <1>1, <1>3, WaysOut DEF c
  <2>2. Moves(T, e)
    BY <1>1, <1>3, <2>1, FailMoves DEF Follows, Plan
  <2>3. Harmless /\ ConnTypeOK'
    BY <1>1, <1>2, <1>3, <2>2, HarmlessSet DEF Moves, Proceeds, IInv, Shape, ConnTypeOK
  <2> QED
    BY <1>1, <1>2, <1>3, <2>1, <2>2, <2>3, CallerMoves
<1>4. ASSUME Continue, executed' \in {executed, executed + 1} PROVE IInv'
  <2>1. Follows(Tail(caller.todo), caller.err)
    BY <1>1, RestFollows
  <2>2. Moves(Tail(caller.todo), caller.err)
    BY <1>1, <1>4, <2>1, GotoMoves DEF Follows, Plan, Continue
  <2>3. Harmless /\ ConnTypeOK'
    BY <1>1, <1>2, <1>4, <2>2, HarmlessSet DEF Moves, Proceeds, IInv, Shape, ConnTypeOK
  <2>4. NoBefore(Tail(caller.todo))
    <3>1. \A j \in 2..Len(caller.todo) : caller.todo[j] \notin Before
      BY <1>1 DEF Plan
    <3> QED
      BY <1>1, <3>1, RestTail DEF NoBefore
  <2>5. executed' <= 1 + caller.again
    BY <1>2, <1>4 DEF IInv, Shape, ConnTypeOK
  <2>6. caller.err # "badConn"
    BY <1>2
  <2> QED
    BY <1>1, <2>1, <2>2, <2>3, <2>4, <2>5, <2>6, CallerMoves
<1>5. \/ \E e \in Errors, T \in {Finish, Cleanup \o Finish} :
           (Fail(e, T) \/ FailFaulty(e, T)) /\ UNCHANGED executed
      \/ Continue /\ executed' \in {executed, executed + 1}
  BY DEF WritePacket, WriteError, Errors
<1> QED
  BY <1>3, <1>4, <1>5

\* Steps that end in one of the ways below leave all but the caller alone.
Reading == \/ Answer \/ ReadFails \/ ReadFaulty \/ RowsFail \/ CloseRows \/ Drained \/ PrepareContext
           \/ SendFileFails /\ WriteError

LEMMA ReadStep == IInv /\ Reading => IInv'
<1> SUFFICES ASSUME IInv, Reading PROVE IInv'
  OBVIOUS
<1>1. Busy /\ caller.todo[1] \in {"read", "rows", "drain", "prepared"} /\ c \in Conns /\ CallerType
      /\ UNCHANGED <<mysqlConn, watcher, done, executed>>
      /\ Plan(caller.todo) /\ caller.todo # <<>>
  BY OnConn DEF Reading, Answer, ReadFails, ReadFaulty, RowsFail, SendFileFails, CloseRows, Drained,
     PrepareContext, At, Busy, IInv, Shape, CallerType
<1>2. ASSUME NEW e \in Errors \ {"badConn"}, NEW T, Follows(T, e),
             \/ Fail(e, T) \/ Fail(e, Cleanup \o T)
             \/ FailFaulty(e, T) \/ FailFaulty(e, Cleanup \o T)
      PROVE  IInv'
  <2>1. Follows(Cleanup \o T, e)
    BY <1>1, <1>2, CleanupFollows DEF c
  <2>2. Moves(T, e) \/ Moves(Cleanup \o T, e)
    BY <1>1, <1>2, <2>1, FailMoves DEF Follows, Plan
  <2> QED
    BY <1>1, <1>2, <2>1, <2>2, OnlyCaller
<1>3. CASE Continue
  <2>1. Follows(Tail(caller.todo), caller.err)
    BY <1>1, RestFollows
  <2>2. Moves(Tail(caller.todo), caller.err)
    BY <1>1, <1>3, <2>1, GotoMoves DEF Follows, Plan, Continue
  <2> QED
    BY <1>1, <2>1, <2>2, OnlyCaller DEF IInv, Executing
<1>4. \A e \in Errors : Follows(Finish, e)
  BY <1>1, WaysOut DEF c
<1>5. caller.todo[1] \in Alone => \A e \in Errors : Follows(<<"return">>, e)
  BY <1>1, WaysOut
<1>6. caller.todo[1] = "rows" => \A e \in Errors : Follows(Tail(caller.todo), e)
  <2> SUFFICES ASSUME caller.todo[1] = "rows" PROVE \A e \in Errors : Follows(Tail(caller.todo), e)
    OBVIOUS
  <2>1. NoBefore(Tail(caller.todo))
    <3>1. \A j \in 2..Len(caller.todo) : caller.todo[j] \notin Before
      BY <1>1 DEF Plan
    <3> QED
      BY <1>1, <3>1, RestTail DEF NoBefore
  <2> QED
    BY <1>1, <2>1, RestFollows DEF Before
<1>7. {"ctx", "err", "invalid"} \subseteq Errors \ {"badConn"}
  BY DEF Errors
<1>8. \/ Continue
      \/ \E e \in {"ctx", "err", "invalid"} :
           Fail(e, Finish) \/ Fail(e, Cleanup \o Finish) \/ FailFaulty(e, Cleanup \o Finish)
      \/ At("rows") /\ \E e \in {"ctx", "invalid"} :
           \/ Fail(e, Tail(caller.todo)) \/ Fail(e, Cleanup \o Tail(caller.todo))
           \/ FailFaulty(e, Cleanup \o Tail(caller.todo))
      \/ (At("drain") \/ At("prepared")) /\ \E e \in {"ctx", "invalid"} :
           \/ Fail(e, <<"return">>) \/ Fail(e, Cleanup \o <<"return">>)
           \/ FailFaulty(e, Cleanup \o <<"return">>)
  BY DEF Reading, Answer, ReadFails, ReadError, ReadFaulty, FaultError, RowsFail, SendFileFails, WriteError,
     CloseRows, Drained, PrepareContext
<1> QED
  BY <1>2, <1>3, <1>4, <1>5, <1>6, <1>7, <1>8 DEF At, Alone

\* A try that is made again although the server has got the statement: it has refused
\* it, or `again' counts the try.
LEMMA AgainStep == IInv /\ (RejectReadOnly \/ (SendFileFails /\ TryAgain(Finish))) => IInv'
<1> SUFFICES ASSUME IInv, RejectReadOnly \/ (SendFileFails /\ TryAgain(Finish)) PROVE IInv'
  OBVIOUS
<1>1. Busy /\ caller.todo[1] = "read" /\ c \in Conns /\ CallerType /\ Acted
      /\ UNCHANGED <<mysqlConn, watcher, done>> /\ executed \in Nat /\ caller.again \in Nat
  BY OnConn DEF RejectReadOnly, SendFileFails, At, Busy, IInv, Shape, ConnTypeOK, CallerType
<1>2. PICK T \in {Finish, Cleanup \o Finish} :
        \/ Fail("badConn", T) /\ executed' = executed - 1
        \/ TryAgain(T) /\ executed' = executed
  BY DEF RejectReadOnly, SendFileFails
<1>3. Follows(T, "badConn") /\ NoBefore(T) /\ T \in Seq(Step)
  <2>1. Follows(Finish, "badConn") /\ Follows(Cleanup \o Finish, "badConn")
    BY <1>1, WaysOut DEF c, Errors
  <2>2. NoBefore(Finish) /\ NoBefore(Cleanup \o Finish)
    BY ShortPlans, CleanupFirst
  <2> QED
    BY <1>2, <2>1, <2>2 DEF Follows, Plan
<1>4. Proceeds(T, "badConn") /\ executed' \in Nat /\ executed' <= caller'.again
      /\ caller'.again \in Nat
  <2>1. executed <= 1 + caller.again /\ executed > caller.again
    BY <1>1 DEF IInv, Executing, Acted
  <2>2. CASE Fail("badConn", T) /\ executed' = executed - 1
    <3>1. Moves(T, "badConn")
      BY <1>1, <1>3, <2>2, FailMoves DEF Errors
    <3> QED
      BY <1>1, <2>1, <2>2, <3>1 DEF Moves
  <2>3. CASE TryAgain(T) /\ executed' = executed
    <3>1. Proceeds(T, "badConn") /\ caller'.again = caller.again + 1
      <4>1. caller.again + 1 \in Nat /\ "badConn" \in Errors
        BY <1>1 DEF Errors
      <4>2. caller' = [caller EXCEPT !.todo = T, !.err = "badConn", !.again = caller.again + 1]
        BY <2>3 DEF TryAgain
      <4> QED
        BY ONLY <4>1, <4>2, <1>1, <1>3 DEF CallerType, Proceeds
    <3> QED
      BY <1>1, <2>1, <2>3, <3>1
  <2> QED
    BY <1>2, <2>2, <2>3
<1>5. Executing'
  BY <1>3, <1>4, Executed
<1>6. Harmless
  BY <1>1 DEF IInv, Shape, HasConn, Harmless
<1>7. ConnTypeOK'
  BY <1>1, <1>4 DEF IInv, Shape, ConnTypeOK, Proceeds, CallerType
<1> QED
  BY <1>3, <1>4, <1>5, <1>6, <1>7, CallerProceeds

\* The rest of the steps, whatever the first one was.
LEMMA RestLeads ==
  ASSUME IInv, Busy, Moves(Tail(caller.todo), caller.err), ConnTypeOK', executed' = executed,
         \A d \in Conns : mysqlConn'[d].pool = mysqlConn[d].pool
  PROVE  Shape' /\ Executing' /\ Plan(Tail(caller.todo))
         /\ (caller.todo[1] = "trySet" \/ Head1(Tail(caller.todo)))
<1> DEFINE T == Tail(caller.todo)
<1>1. Plan(caller.todo) /\ caller.todo # <<>>
  BY DEF IInv, Shape, Busy
<1>2. /\ Plan(T) /\ Len(T) = Len(caller.todo) - 1 /\ Len(caller.todo) \in Nat \ {0}
      /\ \A i \in 1..Len(T) : T[i] = caller.todo[i + 1]
      /\ caller.todo[1] = "trySet" \/ Head1(T)
  BY <1>1, RestTail
<1>3. HasConn'
  BY <1>2 DEF IInv, Shape, HasConn, Moves, Proceeds
<1>4. Executing'
  BY <1>2 DEF IInv, Executing, Moves, Proceeds
<1> QED
  BY <1>2, <1>3, <1>4 DEF IInv, Shape, Moves, Proceeds

\* finish returns when the watcher waits again, or is about to end.
LEMMA FinishStep == IInv /\ FinishCall => IInv'
<1> SUFFICES ASSUME IInv, FinishCall PROVE IInv'
  OBVIOUS
<1> DEFINE T == Tail(caller.todo)
<1>1. Busy /\ caller.todo[1] = "finish" /\ c \in Conns /\ CallerType
      /\ Plan(caller.todo) /\ caller.todo # <<>> /\ UNCHANGED <<done, executed>>
  BY OnConn DEF FinishCall, At, Busy, IInv, Shape
<1>2. Moves(T, caller.err)
  BY <1>1, GotoMoves, RestTail DEF FinishCall, Continue, Plan
<1>3. mysqlConn \in [Conns -> ConnRecord] /\ mc \in ConnRecord /\ mc = mysqlConn[caller.conn]
      /\ caller.conn \in Conns
  BY <1>1 DEF IInv, Shape, ConnTypeOK, mc, c
<1>4. CASE UNCHANGED <<mysqlConn, watcher>>
  <2>1. ConnTypeOK'
    BY <1>1, <1>2, <1>4 DEF IInv, Shape, ConnTypeOK, Moves, Proceeds, CallerType
  <2>2. Shape' /\ Executing' /\ Head1(T)
    BY <1>1, <1>2, <1>4, <2>1, RestLeads
  <2>3. Closing'
    BY <1>2, <1>4, <2>2 DEF IInv, Closing, CallerCloses, WatcherCloses, At, Moves, Proceeds, Head1
  <2>4. ~mysqlConn[caller.conn].closed => ~mysqlConn[caller.conn].watching
    <3>1. ~mc.watching \/ mc.closech > 0 \/ (mc.watching /\ watcher'[c].at = "wait" /\ watcher[c].at = "watch")
      BY <1>1 DEF FinishCall, IInv, Shape, ConnTypeOK
    <3> QED
      BY <1>3, <1>4, <3>1 DEF IInv, Closing, ConnRecord
  <2>5. Watched'
    BY <1>2, <1>3, <1>4, <2>4 DEF IInv, Watched, Moves, Proceeds
  <2> QED
    BY <2>2, <2>3, <2>5 DEF IInv
<1>5. CASE /\ watcher[c].at = "watch" /\ watcher' = [watcher EXCEPT ![c] = [at |-> "wait", ctx |-> None]]
           /\ Set([mc EXCEPT !.watching = FALSE])
  <2> DEFINE r == [mc EXCEPT !.watching = FALSE]
  <2>1. /\ r \in ConnRecord /\ r.closed = mc.closed /\ r.closech = mc.closech /\ r.pool = mc.pool
        /\ ~r.watching /\ r.chan = mc.chan /\ mysqlConn' = [mysqlConn EXCEPT ![c] = r]
    BY <1>3, <1>5 DEF ConnRecord, Set
  <2> HIDE DEF r
  <2>2. /\ mysqlConn' \in [Conns -> ConnRecord] /\ mysqlConn'[c] = r
        /\ \A d \in Conns \ {c} : mysqlConn'[d] = mysqlConn[d]
    BY <1>1, <1>3, <2>1
  <2>3. /\ \A d \in Conns \ {c} : watcher'[d] = watcher[d]
        /\ watcher'[c].at = "wait" /\ watcher'[c].ctx = None
        /\ watcher' \in [Conns -> [at : {"dead", "wait", "watch", "cancel", "trySet", "closeChannel",
                                        "closeNet"}, ctx : Contexts]]
    BY <1>1, <1>5 DEF IInv, Shape, ConnTypeOK, Contexts
  <2>4. ConnTypeOK'
    BY <1>1, <1>2, <2>2, <2>3 DEF IInv, Shape, ConnTypeOK, Moves, Proceeds, CallerType
  <2>5. \A d \in Conns : mysqlConn'[d].pool = mysqlConn[d].pool /\ mysqlConn'[d].closed = mysqlConn[d].closed
           /\ mysqlConn'[d].closech = mysqlConn[d].closech /\ mysqlConn'[d].chan = mysqlConn[d].chan
    BY <2>1, <2>2 DEF mc
  <2>6. Shape' /\ Executing' /\ Head1(T)
    BY <1>1, <1>2, <2>4, <2>5, RestLeads
  <2>7. Closing'
    BY <1>2, <2>3, <2>5, <2>6 DEF IInv, Closing, CallerCloses, WatcherCloses, At, Moves, Proceeds, Head1
  <2>8. Watched'
    BY <1>2, <1>3, <1>5, <2>1, <2>2, <2>3, <2>5 DEF IInv, Watched, Moves, Proceeds, c
  <2> QED
    BY <2>6, <2>7, <2>8 DEF IInv
<1> QED
  BY <1>4, <1>5 DEF FinishCall

\* Whoever sets `closed' closes the channel; who comes later skips it.
LEMMA CleanupStep == IInv /\ CallerCleanup => IInv'
<1> SUFFICES ASSUME IInv, CallerCleanup PROVE IInv'
  OBVIOUS
<1>1. Busy /\ caller.todo[1] \in {"trySet", "closeChannel", "closeNet"} /\ c \in Conns /\ mc.pool # "free"
      /\ CallerType /\ Plan(caller.todo) /\ caller.todo # <<>> /\ UNCHANGED <<watcher, done, executed>>
  BY OnConn DEF CallerCleanup, At, Busy, IInv, Shape
<1>2. PICK k \in Conns : /\ k = caller.conn /\ c = k /\ mc = mysqlConn[k]
                         /\ mysqlConn \in [Conns -> ConnRecord] /\ mc \in ConnRecord
  BY <1>1 DEF IInv, Shape, ConnTypeOK, mc, c
<1>3. CASE At("closeNet")
  <2>1. Follows(Tail(caller.todo), caller.err)
    BY <1>1, <1>3, RestFollows DEF At
  <2>2. Moves(Tail(caller.todo), caller.err)
    BY <1>1, <1>3, <2>1, GotoMoves DEF Follows, Plan, CallerCleanup, Continue, At
  <2>3. Harmless /\ ConnTypeOK'
    BY <1>1, <1>3, <2>2, HarmlessSet DEF CallerCleanup, At, Moves, Proceeds, IInv, Shape, ConnTypeOK
  <2> QED
    BY <1>1, <2>1, <2>2, <2>3, CallerMoves DEF IInv, Executing
<1>4. CASE At("closeChannel")
  <2> DEFINE T == Tail(caller.todo)
             r == [mc EXCEPT !.closech = @ + 1]
  <2>1. /\ r \in ConnRecord /\ r.closed = mc.closed /\ r.closech = mc.closech + 1 /\ r.pool = mc.pool
        /\ r.watching = mc.watching /\ r.chan = mc.chan /\ mysqlConn' = [mysqlConn EXCEPT ![k] = r]
    BY <1>2, <1>4 DEF ConnRecord, Set, CallerCleanup, At
  <2> HIDE DEF r
  <2>2. Moves(T, caller.err)
    BY <1>1, <1>4, GotoMoves, RestTail DEF CallerCleanup, Continue, Plan, At
  <2>3. /\ mysqlConn' \in [Conns -> ConnRecord] /\ mysqlConn'[k] = r
        /\ \A d \in Conns \ {k} : mysqlConn'[d] = mysqlConn[d]
    BY <1>1, <1>2, <2>1
  <2>4. ConnTypeOK'
    BY <1>1, <2>2, <2>3 DEF IInv, Shape, ConnTypeOK, Moves, Proceeds, CallerType
  <2>5. \A d \in Conns : mysqlConn'[d].pool = mysqlConn[d].pool /\ mysqlConn'[d].closed = mysqlConn[d].closed
    BY <1>2, <2>1, <2>3
  <2>6. Shape' /\ Executing' /\ Head1(T)
    BY <1>1, <1>4, <2>2, <2>4, <2>5, RestLeads DEF At
  <2>7. mysqlConn[k].closed /\ mysqlConn[k].closech = 0 /\ ~WatcherCloses(k)
    BY <1>1, <1>2, <1>4 DEF IInv, Closing, CallerCloses
  <2>8. Closing'
    <3>1. ~CallerCloses(k)' /\ ~WatcherCloses(k)' /\ mysqlConn'[k].closech = 1 /\ mysqlConn'[k].closed
      <4>1. ~CallerCloses(k)'
        BY <2>2, <2>6 DEF CallerCloses, At, Moves, Proceeds, Head1
      <4>2. ~WatcherCloses(k)'
        BY <1>1, <2>7 DEF WatcherCloses
      <4>3. mysqlConn'[k].closech = 1
        BY <1>2, <2>1, <2>3, <2>7
      <4>4. mysqlConn'[k].closed
        BY <2>5, <2>7
      <4> QED
        BY <4>1, <4>2, <4>3, <4>4
    <3>2. \A d \in Conns \ {k} : ~CallerCloses(d)' /\ (WatcherCloses(d)' <=> WatcherCloses(d))
      BY <1>1, <1>2, <2>2 DEF CallerCloses, WatcherCloses, Moves, Proceeds
    <3> QED
      BY <2>3, <3>1, <3>2 DEF IInv, Closing
  <2>9. Watched'
    <3>1. FinishFrom(caller.todo, 1) => FinishFrom(T, 1)
      BY <1>1, <1>4, RestTail DEF At
    <3> QED
      BY <1>1, <1>2, <2>2, <2>3, <2>5, <2>7, <3>1 DEF IInv, Watched, Moves, Proceeds
  <2> QED
    BY <2>6, <2>8, <2>9 DEF IInv
<1>5. CASE At("trySet")
  <2> DEFINE T == TrySet(mc.closed, Tail(caller.todo))
             r == [mc EXCEPT !.closed = TRUE]
  <2>1. /\ r \in ConnRecord /\ r.closed /\ r.closech = mc.closech /\ r.pool = mc.pool
        /\ r.watching = mc.watching /\ r.chan = mc.chan /\ mysqlConn' = [mysqlConn EXCEPT ![k] = r]
    BY <1>2, <1>5 DEF ConnRecord, Set, CallerCleanup, At
  <2> HIDE DEF r
  <2>2. PICK n \in {1, 3} :
          /\ Plan(T) /\ Len(T) = Len(caller.todo) - n /\ Len(caller.todo) \in Nat
          /\ \A i \in 1..Len(T) : T[i] = caller.todo[i + n]
          /\ mc.closed => Head1(T)
    <3>1. CASE mc.closed
      <4>1. T = SubSeq(Tail(caller.todo), 3, Len(Tail(caller.todo)))
        BY <3>1 DEF TrySet
      <4>2. /\ Plan(T) /\ Len(T) = Len(caller.todo) - 3 /\ Head1(T)
            /\ \A i \in 1..Len(T) : T[i] = caller.todo[i + 3]
        BY <1>1, <1>5, <4>1, RestSkip DEF At
      <4> QED
        BY <1>1, <4>2 DEF Plan
    <3>2. CASE ~mc.closed
      <4>1. T = Tail(caller.todo)
        BY <3>2 DEF TrySet
      <4> QED
        BY <1>1, <3>2, <4>1, RestTail
    <3> QED
      BY <3>1, <3>2
  <2>3. Moves(T, caller.err)
    BY <1>1, <1>5, <2>2, GotoMoves DEF CallerCleanup, Plan, At
  <2>4. /\ mysqlConn' \in [Conns -> ConnRecord] /\ mysqlConn'[k] = r
        /\ \A d \in Conns \ {k} : mysqlConn'[d] = mysqlConn[d]
    BY <1>1, <1>2, <2>1
  <2>5. ConnTypeOK'
    BY <1>1, <2>3, <2>4 DEF IInv, Shape, ConnTypeOK, Moves, Proceeds, CallerType
  <2>6. Shape'
    BY <1>1, <1>2, <2>1, <2>2, <2>3, <2>4, <2>5 DEF IInv, Shape, HasConn, Moves, Proceeds
  <2>7. Executing'
    <3>1. \A i \in 1..Len(T) : i + n \in 1..Len(caller.todo)
      BY <2>2
    <3>2. (\E i \in 1..Len(T) : T[i] \in Before) => \E i \in 1..Len(caller.todo) : caller.todo[i] \in Before
      BY <2>2, <3>1
    <3> HIDE DEF T
    <3> QED
      BY <1>1, <2>3, <3>2 DEF IInv, Executing, Moves, Proceeds
  <2>8. Closing'
    <3>1. mc.closed => ~CallerCloses(k)'
      BY <2>2, <2>3 DEF CallerCloses, At, Moves, Proceeds, Head1
    <3>2. ~CallerCloses(k)
      BY <1>5 DEF CallerCloses, At
    <3>3. \A d \in Conns \ {k} : ~CallerCloses(d)' /\ (WatcherCloses(d)' <=> WatcherCloses(d))
      BY <1>1, <1>2, <2>3 DEF CallerCloses, WatcherCloses, Moves, Proceeds
    <3>4. (WatcherCloses(k)' <=> WatcherCloses(k)) /\ mysqlConn'[k].closed
          /\ mysqlConn'[k].closech = mysqlConn[k].closech
      BY <1>1, <1>2, <2>1, <2>4 DEF WatcherCloses
    <3>5. ~mc.closed => ~WatcherCloses(k) /\ mysqlConn[k].closech = 0
      BY <1>1, <1>2 DEF IInv, Closing
    <3> QED
      BY <1>2, <2>4, <3>1, <3>3, <3>4, <3>5 DEF IInv, Closing
  <2>9. Watched'
    BY <1>1, <1>2, <2>1, <2>3, <2>4 DEF IInv, Watched, Moves, Proceeds
  <2> QED
    BY <2>6, <2>7, <2>8, <2>9 DEF IInv
<1> QED
  BY <1>1, <1>3, <1>4, <1>5 DEF At

\* A call that returns has told no watcher that still runs; what is tried again
\* was not executed.
LEMMA ReturnStep == IInv /\ Return => IInv'
<1> SUFFICES ASSUME IInv, Return PROVE IInv'
  OBVIOUS
<1>1. Busy /\ caller.todo[1] = "return" /\ CallerType /\ Plan(caller.todo) /\ caller.todo # <<>>
      /\ UNCHANGED <<watcher, done, executed>> /\ mysqlConn \in [Conns -> ConnRecord]
      /\ caller.conn \in Conns \cup {None} /\ None \notin Conns
  BY ConnAssumption DEF Return, At, Busy, IInv, Shape, ConnTypeOK, CallerType, None
<1>2. PICK T, e : /\ caller'.todo = T /\ caller'.err = e /\ CallerType' /\ Plan(T) /\ Head1(T)
                  /\ \/ T = <<>> /\ e = "none"
                     \/ caller.err = "badConn" /\ caller'.again = caller.again
                  /\ caller'.conn \in {caller.conn, None}
                  /\ \A i \in 1..Len(T) : T[i] # "pool" => caller'.conn \in Conns
                  /\ e = "badConn" => caller.err = "badConn" /\ NoBefore(T)
                  /\ NoBefore(T) \/ (caller.err = "badConn" /\ e = "none")
  <2>1. CASE caller.err # "badConn"
    <3>1. caller' = NoCall(caller.call)
      BY <2>1 DEF Return
    <3>2. CallerType' /\ caller'.todo = <<>> /\ caller'.err = "none" /\ caller'.conn = None
      BY <1>1, <3>1, ConnAssumption DEF NoCall, CallerType, Ops, Errors, Calls
    <3> QED
      BY <3>2, ShortPlans
  <2>2. Plan(DropConn) /\ Head1(DropConn) /\ NoBefore(DropConn)
        /\ \A i \in 1..Len(DropConn) : DropConn[i] # "pool" => caller.conn \in Conns
    <3>1. CASE c = None
      BY <3>1, ShortPlans DEF DropConn
    <3>2. CASE c # None
      <4>1. Cleanup = Cleanup \o <<>>
        BY DEF Cleanup
      <4>2. Plan(Cleanup) /\ Head1(Cleanup) /\ NoBefore(Cleanup)
        BY <4>1, ShortPlans, CleanupFirst
      <4> QED
        BY <1>1, <3>2, <4>2 DEF DropConn, c
    <3> QED
      BY <3>1, <3>2
  <2>3. CASE caller.err = "badConn" /\ caller.tries = Retries
    <3>1. caller' = [caller EXCEPT !.todo = DropConn]
      BY <2>3 DEF Return
    <3>2. CallerType' /\ caller'.todo = DropConn /\ caller'.err = "badConn" /\ caller'.conn = caller.conn
          /\ caller'.again = caller.again
      BY <1>1, <2>2, <2>3, <3>1 DEF CallerType, Plan
    <3> QED
      BY <2>2, <2>3, <3>2
  <2>4. CASE caller.err = "badConn" /\ caller.tries # Retries
    <3> DEFINE T == DropConn \o <<"pool">>
    <3>1. Plan(T) /\ Head1(T) /\ \A i \in 1..Len(T) : T[i] # "pool" => caller.conn \in Conns
      <4>1. CASE c = None
        <5>1. T = <<"pool">>
          BY <4>1 DEF DropConn
        <5>2. \A i \in 1..Len(<<"pool">>) : <<"pool">>[i] = "pool"
          OBVIOUS
        <5> QED
          BY <5>1, <5>2, ShortPlans
      <4>2. CASE c # None
        <5>1. T = Cleanup \o <<"pool">>
          BY <4>2 DEF DropConn
        <5>2. Plan(T) /\ Head1(T)
          BY <5>1, ShortPlans, CleanupFirst
        <5>3. caller.conn \in Conns
          BY <1>1, <4>2 DEF c
        <5> QED
          BY <5>2, <5>3
      <4> QED
        BY <4>1, <4>2
    <3>2. caller' = [caller EXCEPT !.todo = T, !.err = "none", !.tries = @ + 1, !.fault = FALSE]
      BY <2>4 DEF Return
    <3>3. CallerType' /\ caller'.todo = T /\ caller'.err = "none" /\ caller'.conn = caller.conn
          /\ caller'.again = caller.again
      <4>1. caller.tries + 1 \in 0..Retries
        BY <1>1, <2>4, ConnAssumption DEF CallerType
      <4> QED
        BY <1>1, <3>1, <3>2, <4>1 DEF CallerType, Plan, Errors
    <3> QED
      BY <2>4, <3>1, <3>3
  <2> QED
    BY <2>1, <2>3, <2>4
<1>3. /\ mysqlConn' \in [Conns -> ConnRecord]
      /\ \A d \in Conns :
           /\ mysqlConn'[d].closed = mysqlConn[d].closed /\ mysqlConn'[d].closech = mysqlConn[d].closech
           /\ mysqlConn'[d].watching = mysqlConn[d].watching /\ mysqlConn'[d].chan = mysqlConn[d].chan
           /\ caller'.conn = d => mysqlConn'[d].pool # "free"
  <2>1. caller'.conn \in Conns => caller.err = "badConn" /\ caller'.conn = caller.conn
    BY <1>1, <1>2 DEF Return, NoCall
  <2>2. CASE c = None \/ mc.pool # "used"
    <3>1. UNCHANGED mysqlConn
      BY <2>2 DEF Return
    <3> QED
      BY <1>1, <2>1, <3>1 DEF IInv, Shape, HasConn
  <2>3. CASE c # None /\ mc.pool = "used"
    <3> DEFINE p == IF caller.err = "badConn" THEN "gone" ELSE "free"
    <3>1. mysqlConn' = [mysqlConn EXCEPT ![c].pool = p]
      BY <2>3 DEF Return
    <3>2. p \in {"gone", "free"} /\ c \in Conns /\ c = caller.conn
      BY <1>1, <2>3 DEF c
    <3>3. [mysqlConn[c] EXCEPT !.pool = p] \in ConnRecord
      BY <1>1, <3>2 DEF ConnRecord
    <3> HIDE DEF p
    <3>4. mysqlConn' \in [Conns -> ConnRecord]
      BY <1>1, <3>1, <3>2, <3>3
    <3>5. \A d \in Conns :
            /\ mysqlConn'[d].closed = mysqlConn[d].closed /\ mysqlConn'[d].closech = mysqlConn[d].closech
            /\ mysqlConn'[d].watching = mysqlConn[d].watching /\ mysqlConn'[d].chan = mysqlConn[d].chan
      BY <1>1, <3>1, <3>2 DEF ConnRecord
    <3>6. caller'.conn \in Conns => mysqlConn'[caller'.conn].pool # "free"
      BY <1>1, <2>1, <3>1, <3>2 DEF ConnRecord, p
    <3> QED
      BY <3>4, <3>5, <3>6
  <2> QED
    BY <2>2, <2>3
<1>4. Shape'
  BY <1>1, <1>2, <1>3 DEF IInv, Shape, ConnTypeOK, CallerType, HasConn
<1>5. Closing'
  BY <1>1, <1>2, <1>3 DEF IInv, Closing, CallerCloses, WatcherCloses, At, Head1
<1>6. Executing'
  <2>1. CASE T = <<>> /\ e = "none"
    BY <1>2, <2>1 DEF Executing, Busy
  <2>2. CASE caller.err = "badConn" /\ caller'.again = caller.again
    <3>1. executed' <= caller'.again /\ executed' \in Nat /\ caller'.again \in Nat
      BY <1>1, <1>2, <2>2 DEF IInv, Executing, Shape, ConnTypeOK
    <3>2. executed' <= 1 + caller'.again
      BY <3>1
    <3> QED
      BY <1>2, <3>1, <3>2 DEF Executing, NoBefore
  <2> QED
    BY <1>2, <2>1, <2>2
<1>7. Watched'
  <2>1. ~FinishFrom(caller.todo, 1)
    BY <1>1 DEF FinishFrom, Alone, Plan
  <2> QED
    BY <1>1, <1>3, <2>1 DEF IInv, Watched
<1> QED
  BY <1>4, <1>5, <1>6, <1>7 DEF IInv

-----------------------------------------------------------------------------
(* Steps of the pool.                                                      *)

\* While the caller chooses a connection no open one is watched.
LEMMA Unwatched ==
  ASSUME IInv, caller.todo # <<>> => caller.todo[1] \in Alone
  PROVE  \A d \in Conns : ~mysqlConn[d].closed =>
               ~mysqlConn[d].watching /\ mysqlConn[d].chan = None
               /\ watcher[d].at \notin {"watch", "cancel", "trySet"}
<1>1. ~FinishFrom(caller.todo, 1)
  <2>1. caller.todo \in Seq(Step)
    BY DEF IInv, Shape, CallerType
  <2>2. CASE caller.todo = <<>>
    BY <2>2 DEF FinishFrom
  <2>3. CASE caller.todo # <<>>
    BY <2>1, <2>3 DEF FinishFrom
  <2> QED
    BY <2>2, <2>3
<1> QED
  BY <1>1 DEF IInv, Watched

\* The end of a call without a connection.
LEMMA GiveUp ==
  ASSUME IInv, At("pool"), NEW e \in Errors,
         caller' = [caller EXCEPT !.conn = None, !.todo = <<"return">>, !.err = e],
         UNCHANGED <<watcher, done, executed>>, mysqlConn' \in [Conns -> ConnRecord],
         \A d \in Conns : /\ mysqlConn'[d].closed = mysqlConn[d].closed
                          /\ mysqlConn'[d].closech = mysqlConn[d].closech
                          /\ mysqlConn'[d].watching = mysqlConn[d].watching
                          /\ mysqlConn'[d].chan = mysqlConn[d].chan
  PROVE  IInv'
<1>1. CallerType /\ caller.todo # <<>> /\ caller.todo[1] = "pool" /\ 1 \in 1..Len(caller.todo)
      /\ "pool" \in Alone /\ None \notin Conns
  BY ConnAssumption DEF IInv, Shape, CallerType, At, Alone, None
<1>2. CallerType' /\ caller'.todo = <<"return">> /\ caller'.conn = None /\ caller'.err = e
      /\ caller'.again = caller.again
  BY <1>1, ShortPlans DEF CallerType, Plan
<1>3. executed <= caller.again /\ executed \in Nat /\ caller.again \in Nat
  BY <1>1 DEF IInv, Executing, Before, Shape, ConnTypeOK
<1>4. Shape'
  BY <1>1, <1>2, ShortPlans DEF IInv, Shape, ConnTypeOK, CallerType, HasConn
<1>5. Closing'
  BY <1>2 DEF IInv, Closing, CallerCloses, WatcherCloses, At
<1>6. Executing'
  <2>1. executed' = executed /\ executed <= 1 + caller.again
    BY <1>3
  <2> QED
    BY <1>2, <1>3, <2>1, ShortPlans DEF Executing, NoBefore
<1>7. Watched'
  BY <1>1, Unwatched DEF Watched
<1> QED
  BY <1>4, <1>5, <1>6, <1>7 DEF IInv

LEMMA TooLateStep == IInv /\ TooLate => IInv'
BY GiveUp DEF TooLate, IInv, Shape, ConnTypeOK, Errors

LEMMA TakeStep == IInv /\ Take => IInv'
<1> SUFFICES ASSUME IInv, Take PROVE IInv'
  OBVIOUS
<1>1. PICK d \in Free :
        IF mysqlConn[d].closed
        THEN /\ caller' = [caller EXCEPT !.conn = None, !.todo = <<"return">>, !.err = "badConn"]
             /\ mysqlConn' = [mysqlConn EXCEPT ![d].pool = "gone"]
        ELSE /\ caller' = [caller EXCEPT !.conn = d, !.todo = Steps(caller.op)]
             /\ mysqlConn' = [mysqlConn EXCEPT ![d].pool = "used", ![d].reset = TRUE]
  BY DEF Take
<1>2. d \in Conns /\ mysqlConn \in [Conns -> ConnRecord] /\ mysqlConn[d] \in ConnRecord
      /\ UNCHANGED <<watcher, done, executed>> /\ At("pool")
  BY DEF Free, IInv, Shape, ConnTypeOK, Take
<1>3. CASE mysqlConn[d].closed
  <2>1. [mysqlConn[d] EXCEPT !.pool = "gone"] \in ConnRecord
    BY <1>2 DEF ConnRecord
  <2>2. mysqlConn' \in [Conns -> ConnRecord]
    BY <1>1, <1>2, <1>3, <2>1
  <2>3. \A b \in Conns : /\ mysqlConn'[b].closed = mysqlConn[b].closed
                         /\ mysqlConn'[b].closech = mysqlConn[b].closech
                         /\ mysqlConn'[b].watching = mysqlConn[b].watching
                         /\ mysqlConn'[b].chan = mysqlConn[b].chan
    BY <1>1, <1>2, <1>3 DEF ConnRecord
  <2> QED
    BY <1>1, <1>2, <1>3, <2>2, <2>3, GiveUp DEF Errors
<1>4. CASE ~mysqlConn[d].closed
  <2> DEFINE r == [mysqlConn[d] EXCEPT !.pool = "used", !.reset = TRUE]
  <2>1. /\ r \in ConnRecord /\ mysqlConn' = [mysqlConn EXCEPT ![d] = r] /\ r.pool = "used"
        /\ r.closed = mysqlConn[d].closed /\ r.closech = mysqlConn[d].closech
        /\ r.watching = mysqlConn[d].watching /\ r.chan = mysqlConn[d].chan
    BY <1>1, <1>2, <1>4 DEF ConnRecord
  <2> HIDE DEF r
  <2>2. mysqlConn' \in [Conns -> ConnRecord]
        /\ \A b \in Conns : /\ mysqlConn'[b].closed = mysqlConn[b].closed
                            /\ mysqlConn'[b].closech = mysqlConn[b].closech
                            /\ mysqlConn'[b].watching = mysqlConn[b].watching
                            /\ mysqlConn'[b].chan = mysqlConn[b].chan
        /\ mysqlConn'[d].pool = "used"
    BY <1>2, <2>1
  <2>3. CallerType /\ caller.op \in Ops /\ caller.todo # <<>> /\ caller.todo[1] \in Alone
        /\ 1 \in 1..Len(caller.todo) /\ caller.todo[1] \in Before
    BY <1>2 DEF IInv, Shape, CallerType, At, Alone, Before
  <2>4. /\ Plan(Steps(caller.op)) /\ Steps(caller.op)[1] = "watch"
    BY <2>3, PlannedOperation
  <2>5. CallerType' /\ caller'.todo = Steps(caller.op) /\ caller'.conn = d /\ caller'.err = caller.err
        /\ caller'.again = caller.again
    BY <1>1, <1>2, <1>4, <2>3, <2>4 DEF CallerType, Plan
  <2>6. Shape'
    BY <1>2, <2>2, <2>4, <2>5 DEF IInv, Shape, ConnTypeOK, CallerType, HasConn
  <2>7. Closing'
    BY <1>2, <2>2, <2>4, <2>5 DEF IInv, Closing, CallerCloses, WatcherCloses, At
  <2>8. Executing'
    BY <1>2, <2>3, <2>5 DEF IInv, Executing, Busy
  <2>9. Watched'
    BY <1>2, <2>2, <2>3, Unwatched DEF Watched
  <2> QED
    BY <2>6, <2>7, <2>8, <2>9 DEF IInv
<1> QED
  BY <1>3, <1>4

LEMMA DialStep == IInv /\ Dial => IInv'
<1> SUFFICES ASSUME IInv, Dial PROVE IInv'
  OBVIOUS
<1>1. CallerType /\ caller.op \in Ops /\ caller.todo # <<>> /\ caller.todo[1] \in Alone
      /\ 1 \in 1..Len(caller.todo) /\ caller.todo[1] \in Before /\ At("pool")
      /\ UNCHANGED <<done, executed>> /\ mysqlConn \in [Conns -> ConnRecord]
  BY DEF IInv, Shape, ConnTypeOK, CallerType, At, Alone, Before, Dial
<1>2. ASSUME NEW e \in {"badConn", "err"},
             caller' = [caller EXCEPT !.conn = None, !.todo = <<"return">>, !.err = e],
             UNCHANGED <<mysqlConn, watcher>>
      PROVE  IInv'
  BY <1>1, <1>2, GiveUp DEF Errors
<1>3. ASSUME NEW d \in Room,
             mysqlConn' = [mysqlConn EXCEPT ![d] = [NoConn EXCEPT !.pool = "used", !.net = TRUE, !.peer = TRUE]],
             watcher' = [watcher EXCEPT ![d] = [at |-> "wait", ctx |-> None]],
             caller' = [caller EXCEPT !.conn = d, !.todo = Connecting \o Steps(caller.op)]
      PROVE  IInv'
  <2> DEFINE r == [NoConn EXCEPT !.pool = "used", !.net = TRUE, !.peer = TRUE]
             T == Connecting \o Steps(caller.op)
  <2>1. d \in Conns
    BY DEF Room
  <2>2. /\ r \in ConnRecord /\ r.pool = "used" /\ ~r.closed /\ r.closech = 0 /\ ~r.watching /\ r.chan = None
    BY DEF NoConn, ConnRecord, Contexts
  <2> HIDE DEF r
  <2>3. /\ mysqlConn' \in [Conns -> ConnRecord] /\ mysqlConn'[d] = r
        /\ \A b \in Conns \ {d} : mysqlConn'[b] = mysqlConn[b]
    BY <1>1, <1>3, <2>1, <2>2 DEF r
  <2>4. /\ watcher' \in [Conns -> [at : {"dead", "wait", "watch", "cancel", "trySet", "closeChannel",
                                        "closeNet"}, ctx : Contexts]]
        /\ watcher'[d].at = "wait" /\ \A b \in Conns \ {d} : watcher'[b] = watcher[b]
    BY <1>3, <2>1 DEF IInv, Shape, ConnTypeOK, Contexts
  <2>5. Plan(T) /\ T # <<>> /\ T[1] = "connect"
    BY <1>1, PlannedConnect
  <2>6. CallerType' /\ caller'.todo = T /\ caller'.conn = d /\ caller'.err = caller.err
        /\ caller'.again = caller.again
    BY <1>1, <1>3, <2>1, <2>5 DEF CallerType, Plan
  <2>7. Shape'
    BY <1>1, <2>1, <2>2, <2>3, <2>4, <2>5, <2>6 DEF IInv, Shape, ConnTypeOK, CallerType, HasConn
  <2>8. Closing'
    BY <2>2, <2>3, <2>4, <2>5, <2>6 DEF IInv, Closing, CallerCloses, WatcherCloses, At
  <2>9. Executing'
    BY <1>1, <2>6 DEF IInv, Executing, Busy
  <2>10. Watched'
    BY <1>1, <2>2, <2>3, <2>4, Unwatched DEF Watched
  <2> QED
    BY <2>7, <2>8, <2>9, <2>10 DEF IInv
<1> QED
  BY <1>2, <1>3 DEF Dial

LEMMA StartStep == ASSUME NEW o \in Ops, IInv, Start(o) PROVE IInv'
<1>1. CallerType /\ caller.todo = <<>> /\ UNCHANGED <<watcher, done>> /\ executed' = 0
      /\ mysqlConn \in [Conns -> ConnRecord] /\ caller.call + 1 \in 1..MaxCalls
      /\ mysqlConn' = [d \in Conns |-> IF Garbage(d) THEN NoConn ELSE mysqlConn[d]]
  BY ConnAssumption DEF IInv, Shape, ConnTypeOK, CallerType, Start, Busy
<1>2. PICK ctx \in {Background, caller.call + 1} :
        caller' = [NoCall(caller.call + 1) EXCEPT !.todo = <<"pool">>, !.op = o, !.ctx = ctx]
  BY DEF Start
<1>3. CallerType' /\ caller'.todo = <<"pool">> /\ caller'.conn = None /\ caller'.err = "none"
      /\ caller'.again = 0 /\ None \notin Conns
  <2>1. <<"pool">> \in Seq(Step) /\ "none" \in Errors /\ 0 \in 0..Retries
    BY ShortPlans, ConnAssumption DEF Plan, Errors
  <2>2. ctx \in Calls \cup {Background} /\ caller.call + 1 \in 0..MaxCalls
    BY <1>1, <1>2, ConnAssumption DEF Calls
  <2> QED
    BY <1>1, <1>2, <2>1, <2>2, ConnAssumption DEF CallerType, NoCall, None
<1>4. NoConn \in ConnRecord /\ NoConn.pool = "none" /\ ~NoConn.closed /\ NoConn.closech = 0
      /\ ~NoConn.watching /\ NoConn.chan = None
  BY DEF NoConn, ConnRecord, Contexts
<1>5. /\ mysqlConn' \in [Conns -> ConnRecord]
      /\ \A d \in Conns : \/ mysqlConn'[d] = mysqlConn[d]
                          \/ mysqlConn'[d] = NoConn /\ watcher[d].at = "dead"
  BY <1>1, <1>4 DEF Garbage
<1>6. Shape'
  BY <1>1, <1>3, <1>4, <1>5, ShortPlans DEF IInv, Shape, ConnTypeOK, CallerType, HasConn
<1>7. Closing'
  BY <1>1, <1>3, <1>4, <1>5 DEF IInv, Closing, CallerCloses, WatcherCloses, At
<1>8. Executing'
  BY <1>1, <1>3 DEF Executing
<1>9. Watched'
  BY <1>1, <1>4, <1>5, Unwatched DEF Watched
<1> QED
  BY <1>6, <1>7, <1>8, <1>9 DEF IInv

-----------------------------------------------------------------------------
(* Steps of the watchers and of the environment.                           *)

WatcherRecord ==
  [at : {"dead", "wait", "watch", "cancel", "trySet", "closeChannel", "closeNet"}, ctx : Contexts]

LEMMA WatcherMoves == ASSUME NEW d \in Conns, IInv, WatcherStep(d) PROVE IInv'
<1> DEFINE old == mysqlConn[d]
<1>1. /\ old \in ConnRecord /\ watcher[d] \in WatcherRecord
      /\ mysqlConn = [mysqlConn EXCEPT ![d] = old] /\ UNCHANGED <<caller, done, executed>>
      /\ CallerCloses(d)' <=> CallerCloses(d)
      /\ \A b \in Conns : CallerCloses(b)' <=> CallerCloses(b)
  BY DEF IInv, Shape, ConnTypeOK, WatcherRecord, WatcherStep, WatcherReceives, WatcherEnds, WatcherWakes,
     Cancel, WatcherCleanup, CallerCloses, At
<1>2. ASSUME NEW w \in WatcherRecord, NEW r \in ConnRecord, r.pool = old.pool,
             watcher' = [watcher EXCEPT ![d] = w], mysqlConn' = [mysqlConn EXCEPT ![d] = r],
             /\ r.closech <= 1 /\ (r.closech # 0 => r.closed)
             /\ ~(CallerCloses(d) /\ w.at = "closeChannel")
             /\ CallerCloses(d) \/ w.at = "closeChannel" => r.closed /\ r.closech = 0,
             ~r.closed =>
               /\ r.watching => caller.conn = d /\ FinishFrom(caller.todo, 1)
               /\ r.chan # None => r.watching /\ r.chan = caller.ctx /\ w.at \notin {"watch", "cancel", "trySet"}
               /\ w.at \in {"watch", "cancel"} => r.watching /\ w.ctx = caller.ctx
               /\ w.at = "trySet" => r.watching
      PROVE  IInv'
  <2>1. /\ Shape' /\ Executing' /\ watcher'[d] = w /\ mysqlConn'[d] = r
        /\ \A b \in Conns \ {d} : watcher'[b] = watcher[b] /\ mysqlConn'[b] = mysqlConn[b]
    <3>1. mysqlConn \in [Conns -> ConnRecord] /\ watcher \in [Conns -> WatcherRecord]
      BY DEF IInv, Shape, ConnTypeOK, WatcherRecord
    <3>2. /\ mysqlConn' \in [Conns -> ConnRecord] /\ watcher' \in [Conns -> WatcherRecord]
          /\ watcher'[d] = w /\ mysqlConn'[d] = r
          /\ \A b \in Conns \ {d} : watcher'[b] = watcher[b] /\ mysqlConn'[b] = mysqlConn[b]
      BY <1>2, <3>1
    <3>3. Shape'
      BY <1>1, <1>2, <3>2 DEF IInv, Shape, ConnTypeOK, CallerType, HasConn, WatcherRecord
    <3>4. Executing'
      BY <1>1 DEF IInv, Executing, Busy
    <3> QED
      BY <3>2, <3>3, <3>4
  <2>2. Closing'
    BY <1>1, <1>2, <2>1 DEF IInv, Closing, WatcherCloses
  <2>3. Watched'
    BY <1>1, <1>2, <2>1 DEF IInv, Watched
  <2> QED
    BY <2>1, <2>2, <2>3 DEF IInv
<1>3. /\ old.closech <= 1 /\ (old.closech # 0 => old.closed)
      /\ ~(CallerCloses(d) /\ watcher[d].at = "closeChannel")
      /\ CallerCloses(d) \/ watcher[d].at = "closeChannel" => old.closed /\ old.closech = 0
  BY DEF IInv, Closing, WatcherCloses
<1>4. ~old.closed =>
        /\ old.watching => caller.conn = d /\ FinishFrom(caller.todo, 1)
        /\ old.chan # None =>
             old.watching /\ old.chan = caller.ctx /\ watcher[d].at \notin {"watch", "cancel", "trySet"}
        /\ watcher[d].at \in {"watch", "cancel"} => old.watching /\ watcher[d].ctx = caller.ctx
        /\ watcher[d].at = "trySet" => old.watching
  BY DEF IInv, Watched
<1> HIDE DEF old
<1>5. CASE WatcherReceives(d)
  <2> DEFINE w == [at |-> "watch", ctx |-> old.chan]
             r == [old EXCEPT !.chan = None]
  <2>1. /\ w \in WatcherRecord /\ w.at = "watch" /\ w.ctx = old.chan
        /\ r \in ConnRecord /\ r.chan = None /\ r.pool = old.pool /\ r.closech = old.closech
        /\ r.closed = old.closed /\ r.watching = old.watching
    BY <1>1 DEF WatcherRecord, ConnRecord, Contexts
  <2>2. watcher' = [watcher EXCEPT ![d] = w] /\ mysqlConn' = [mysqlConn EXCEPT ![d] = r] /\ old.chan # None
    BY <1>5 DEF WatcherReceives, Watching, old
  <2> HIDE DEF w, r
  <2> QED
    BY <1>2, <1>3, <1>4, <2>1, <2>2
<1>6. CASE WatcherEnds(d)
  <2> DEFINE w == [at |-> "dead", ctx |-> None]
  <2>1. w \in WatcherRecord /\ w.at = "dead"
    BY DEF WatcherRecord, Contexts
  <2>2. watcher' = [watcher EXCEPT ![d] = w] /\ mysqlConn' = [mysqlConn EXCEPT ![d] = old]
    BY <1>1, <1>6 DEF WatcherEnds, Watching
  <2> HIDE DEF w
  <2> QED
    BY <1>1, <1>2, <1>3, <1>4, <2>1, <2>2
<1>7. CASE WatcherWakes(d)
  <2> DEFINE w == [at |-> "cancel", ctx |-> watcher[d].ctx]
  <2>1. w \in WatcherRecord /\ w.at = "cancel" /\ w.ctx = watcher[d].ctx
    BY <1>1 DEF WatcherRecord
  <2>2. watcher' = [watcher EXCEPT ![d] = w] /\ mysqlConn' = [mysqlConn EXCEPT ![d] = old]
        /\ watcher[d].at = "watch"
    BY <1>1, <1>7 DEF WatcherWakes, Watching
  <2> HIDE DEF w
  <2> QED
    BY <1>1, <1>2, <1>3, <1>4, <2>1, <2>2
<1>8. CASE Cancel(d)
  <2> DEFINE w == [at |-> "trySet", ctx |-> watcher[d].ctx]
             r == [old EXCEPT !.canceled = watcher[d].ctx]
  <2>1. /\ w \in WatcherRecord /\ w.at = "trySet"
        /\ r \in ConnRecord /\ r.chan = old.chan /\ r.pool = old.pool /\ r.closech = old.closech
        /\ r.closed = old.closed /\ r.watching = old.watching
    BY <1>1 DEF WatcherRecord, ConnRecord
  <2>2. watcher' = [watcher EXCEPT ![d] = w] /\ mysqlConn' = [mysqlConn EXCEPT ![d] = r]
        /\ watcher[d].at = "cancel"
    BY <1>8 DEF Cancel, Watching, old
  <2> HIDE DEF w, r
  <2> QED
    BY <1>2, <1>3, <1>4, <2>1, <2>2
<1>9. CASE WatcherCleanup(d) /\ watcher[d].at = "trySet"
  <2> DEFINE w == [at |-> IF old.closed THEN "wait" ELSE "closeChannel", ctx |-> None]
             r == [old EXCEPT !.closed = TRUE]
  <2>1. /\ w \in WatcherRecord /\ w.at = IF old.closed THEN "wait" ELSE "closeChannel"
        /\ r \in ConnRecord /\ r.pool = old.pool /\ r.closech = old.closech /\ r.closed
    BY <1>1 DEF WatcherRecord, ConnRecord, Contexts
  <2>2. TrySet(old.closed, <<"closeChannel", "closeNet", "wait">>)[1] = w.at
    <3>1. SubSeq(<<"closeChannel", "closeNet", "wait">>, 3, 3)[1] = "wait"
      OBVIOUS
    <3> QED
      BY <2>1, <3>1 DEF TrySet
  <2>3. watcher' = [watcher EXCEPT ![d] = w] /\ mysqlConn' = [mysqlConn EXCEPT ![d] = r]
    BY <1>9, <2>2 DEF WatcherCleanup, Watching, old
  <2> HIDE DEF w, r
  <2> QED
    BY <1>2, <1>3, <2>1, <2>3
<1>10. CASE WatcherCleanup(d) /\ watcher[d].at = "closeChannel"
  <2> DEFINE w == [at |-> "closeNet", ctx |-> None]
             r == [old EXCEPT !.closech = @ + 1]
  <2>1. /\ w \in WatcherRecord /\ w.at = "closeNet"
        /\ r \in ConnRecord /\ r.pool = old.pool /\ r.closech = old.closech + 1 /\ r.closed = old.closed
    BY <1>1 DEF WatcherRecord, ConnRecord, Contexts
  <2>2. watcher' = [watcher EXCEPT ![d] = w] /\ mysqlConn' = [mysqlConn EXCEPT ![d] = r]
    BY <1>10 DEF WatcherCleanup, Watching, old
  <2> HIDE DEF w, r
  <2> QED
    <3>1. r.closed /\ r.closech = 1 /\ ~CallerCloses(d)
      <4>1. old.closed /\ old.closech = 0 /\ ~CallerCloses(d)
        BY <1>3, <1>10
      <4>2. r.closed
        BY <2>1, <4>1
      <4> QED
        BY <2>1, <4>1, <4>2
    <3>2. /\ r.closech <= 1 /\ (r.closech # 0 => r.closed)
          /\ ~(CallerCloses(d) /\ w.at = "closeChannel")
          /\ CallerCloses(d) \/ w.at = "closeChannel" => r.closed /\ r.closech = 0
      BY <2>1, <3>1
    <3>3. r.pool = old.pool /\ r.closed /\ w \in WatcherRecord /\ r \in ConnRecord
      BY <2>1, <3>1
    <3> QED
      BY ONLY <1>2, <2>2, <3>2, <3>3
<1>11. CASE WatcherCleanup(d) /\ watcher[d].at = "closeNet"
  <2> DEFINE w == [at |-> "wait", ctx |-> None]
             r == [old EXCEPT !.net = FALSE]
  <2>1. /\ w \in WatcherRecord /\ w.at = "wait"
        /\ r \in ConnRecord /\ r.chan = old.chan /\ r.pool = old.pool /\ r.closech = old.closech
        /\ r.closed = old.closed /\ r.watching = old.watching
    BY <1>1 DEF WatcherRecord, ConnRecord, Contexts
  <2>2. watcher' = [watcher EXCEPT ![d] = w] /\ mysqlConn' = [mysqlConn EXCEPT ![d] = r]
    BY <1>11 DEF WatcherCleanup, Watching, old
  <2> HIDE DEF w, r
  <2> QED
    BY <1>2, <1>3, <1>4, <2>1, <2>2
<1> QED
  BY <1>5, <1>6, <1>7, <1>8, <1>9, <1>10, <1>11 DEF WatcherStep, WatcherCleanup

LEMMA LosePeerStep == ASSUME NEW d \in Conns, IInv, LosePeer(d) PROVE IInv'
<1> DEFINE r == [mysqlConn[d] EXCEPT !.peer = FALSE]
<1>1. mysqlConn \in [Conns -> ConnRecord] /\ mysqlConn[d] \in ConnRecord
      /\ mysqlConn' = [mysqlConn EXCEPT ![d] = r] /\ UNCHANGED <<watcher, caller, done, executed>>
  BY DEF IInv, Shape, ConnTypeOK, LosePeer
<1>2. r \in ConnRecord /\ r.closed = mysqlConn[d].closed /\ r.closech = mysqlConn[d].closech
      /\ r.watching = mysqlConn[d].watching /\ r.chan = mysqlConn[d].chan /\ r.pool = mysqlConn[d].pool
  BY <1>1 DEF ConnRecord
<1> HIDE DEF r
<1>3. /\ mysqlConn' \in [Conns -> ConnRecord]
      /\ \A b \in Conns :
           /\ mysqlConn'[b].closed = mysqlConn[b].closed /\ mysqlConn'[b].closech = mysqlConn[b].closech
           /\ mysqlConn'[b].watching = mysqlConn[b].watching /\ mysqlConn'[b].chan = mysqlConn[b].chan
           /\ mysqlConn'[b].pool = mysqlConn[b].pool
  BY <1>1, <1>2
<1>4. Shape' /\ Executing'
  BY <1>1, <1>3 DEF IInv, Shape, ConnTypeOK, CallerType, HasConn, Executing, Busy
<1>5. Closing'
  BY <1>1, <1>3 DEF IInv, Closing, CallerCloses, WatcherCloses, At
<1>6. Watched'
  BY <1>1, <1>3 DEF IInv, Watched
<1> QED
  BY <1>4, <1>5, <1>6 DEF IInv

\* `done' occurs in no invariant but the types.
LEMMA QuietStep ==
  ASSUME IInv, UNCHANGED <<mysqlConn, watcher, caller, executed>>, done' \subseteq Calls
  PROVE  IInv'
BY DEF IInv, Shape, ConnTypeOK, CallerType, HasConn, Closing, CallerCloses, WatcherCloses, At, Executing, Busy, Watched

-----------------------------------------------------------------------------
(* The theorems.                                                           *)

LEMMA InitEstablishes == ConnInit => IInv
<1> SUFFICES ASSUME ConnInit PROVE IInv
  OBVIOUS
<1>1. NoConn \in ConnRecord /\ NoConn.pool = "none" /\ ~NoConn.closed /\ NoConn.closech = 0
      /\ ~NoConn.watching /\ NoConn.chan = None
  BY DEF NoConn, ConnRecord, Contexts
<1>2. CallerType /\ caller.todo = <<>> /\ caller.err = "none" /\ caller.conn = None /\ None \notin Conns
  BY ConnAssumption DEF ConnInit, NoCall, CallerType, Ops, Errors, None, Calls
<1>3. Shape
  BY <1>1, <1>2, ShortPlans DEF ConnInit, Shape, ConnTypeOK, CallerType, HasConn, Contexts
<1>4. Closing /\ Executing /\ Watched
  BY <1>1, <1>2 DEF ConnInit, Closing, CallerCloses, WatcherCloses, At, Executing, Busy, Watched
<1> QED
  BY <1>3, <1>4 DEF IInv

LEMMA NextPreserves == IInv /\ [ConnNext]_connVars => IInv'
<1> SUFFICES ASSUME IInv, [ConnNext]_connVars PROVE IInv'
  OBVIOUS
<1>1. CASE CallerStep
  BY <1>1, TakeStep, DialStep, TooLateStep, ConnectStep, HandshakeStep, WatchStep, CheckStep, WriteStep,
     ReadStep, FinishStep, CleanupStep, ReturnStep DEF CallerStep, Reading
<1>2. CASE \/ Handshake \/ Answer \/ RejectReadOnly \/ SendFileFails \/ RowsFail \/ Drained
           \/ ReadFaulty \/ HandshakeFaulty
  BY <1>2, HandshakeStep, ReadStep, AgainStep DEF Reading, SendFileFails
<1>3. CASE \E o \in Ops : Start(o)
  BY <1>3, StartStep
<1>4. CASE \E d \in Conns : WatcherStep(d) \/ LosePeer(d)
  BY <1>4, WatcherMoves, LosePeerStep
<1>5. CASE \E k \in Calls : ContextDone(k)
  <2>1. done' \subseteq Calls
    BY <1>5 DEF ContextDone, IInv, Shape, ConnTypeOK
  <2> QED
    BY <1>5, <2>1, QuietStep DEF ContextDone
<1>6. CASE UNCHANGED connVars
  BY <1>6, QuietStep DEF connVars, IInv, Shape, ConnTypeOK
<1> QED
  BY <1>1, <1>2, <1>3, <1>4, <1>5, <1>6 DEF ConnNext

\* The order of steps, who closes, what was executed and who is watched are one
\* inductive invariant of connection.go, connector.go and the pool.
THEOREM ConnInvariance == ConnSpec => []IInv
BY InitEstablishes, NextPreserves, PTL DEF ConnSpec

\* Every variable keeps its type.
THEOREM ConnTypes == ConnSpec => []ConnTypeOK
<1>1. IInv => ConnTypeOK
  BY DEF IInv, Shape
<1> QED
  BY <1>1, ConnInvariance, PTL

\* cleanup closes the channel closech at most once per connection, however often
\* and by whomever of caller and watcher it is called (a second close panics).
THEOREM NoDoubleClose == ConnSpec => []ClosedOnce
<1>1. IInv => ClosedOnce
  BY DEF IInv, Closing, ClosedOnce
<1> QED
  BY <1>1, ConnInvariance, PTL

\* errBadConnNoWrite and driver.ErrBadConn are returned only when the server has
\* not acted on the statement, so that retries run it once at most, but for the two
\* ways out that `again' counts: a file that could not be sent (infile.go:157-173) and
\* a read-only rejection of a later statement of the same query (packets.go:574-588).
THEOREM NoDoubleExecution == ConnSpec => []AtMostOnce
<1>1. IInv => AtMostOnce
  BY DEF IInv, Executing, AtMostOnce
<1> QED
  BY <1>1, ConnInvariance, PTL

\* A watcher that is about to cancel an open connection does so for the call that
\* uses it; a connection that is free or just taken is watched only if closed.
THEOREM NoStrayCancel == ConnSpec => []CancelsOwnCall
<1>1. ASSUME IInv PROVE CancelsOwnCall
  <2> SUFFICES ASSUME NEW d \in Conns
               PROVE  /\ watcher[d].at = "cancel" /\ ~mysqlConn[d].closed =>
                           Busy /\ caller.conn = d /\ caller.ctx = watcher[d].ctx
                      /\ mysqlConn[d].watching
                           /\ (mysqlConn[d].pool = "free" \/ (At("watch") /\ caller.conn = d)) =>
                           mysqlConn[d].closed
    BY DEF CancelsOwnCall
  <2>1. caller.todo \in Seq(Step)
    BY <1>1 DEF IInv, Shape, CallerType
  <2>2. FinishFrom(caller.todo, 1) => Busy /\ ~At("watch")
    BY <2>1 DEF FinishFrom, Busy, At, Alone
  <2>3. ~mysqlConn[d].closed /\ mysqlConn[d].watching =>
          caller.conn = d /\ FinishFrom(caller.todo, 1) /\ mysqlConn[d].pool # "free"
    BY <1>1 DEF IInv, Watched, Shape, HasConn
  <2>4. ~mysqlConn[d].closed /\ watcher[d].at = "cancel" =>
          mysqlConn[d].watching /\ watcher[d].ctx = caller.ctx
    BY <1>1 DEF IInv, Watched
  <2> QED
    BY <2>2, <2>3, <2>4
<1> QED
  BY <1>1, ConnInvariance, PTL
-----------------------------------------------------------------------------
(* What a call says of its connection.                                     *)

\* Steps that talk to the server, and those of cleanup.
Talks(s) == \E i \in 1..Len(s) : s[i] \in {"handshake", "write", "read", "rows", "drain"}
Cleans(s) == \E i \in 1..Len(s) : s[i] \in {"trySet", "closeChannel", "closeNet"}

AfterChannel(s) == \A i \in 2..Len(s) : s[i] = "closeNet" => s[i - 1] = "closeChannel"

\* There is a reason to call d invalid: the server is lost, a time limit has passed
\* or a packet was malformed; and one to close it, which is also its context.
Lost(d) == ~mysqlConn[d].peer \/ caller.fault
Hurt(d) == mysqlConn[d].canceled # None \/ Lost(d)

Uses(d) == caller.conn = d /\ \E i \in 1..Len(caller.todo) : caller.todo[i] # "pool"

\* The two errors have the reason they name.
Reasoned ==
  /\ caller.err = "ctx" => caller.ctx \in done
  /\ caller.err = "invalid" => c \in Conns /\ Lost(c)

\* database/sql knows the connection.
InPool(r) == r.pool \in {"free", "used"}

\* The socket goes after `closed' is set.
Sockets ==
  /\ AfterChannel(caller.todo)
  /\ At("closeNet") => mc.closed
  /\ \A d \in Conns :
       /\ ~mysqlConn[d].closed /\ InPool(mysqlConn[d]) => mysqlConn[d].net
       /\ watcher[d].at = "closeNet" => mysqlConn[d].closed

\* A watcher notes the context before it closes.
Canceling ==
  \A d \in Conns :
    /\ ~mysqlConn[d].closed /\ mysqlConn[d].canceled # None => watcher[d].at = "trySet"
    /\ watcher[d].at \in {"trySet", "closeChannel", "closeNet"} => mysqlConn[d].canceled # None
    /\ watcher[d].at = "cancel" => watcher[d].ctx \in done

\* The connection of a call knows no context but the call's.
OwnContext ==
  \A d \in Conns : Uses(d) =>
    /\ mysqlConn[d].canceled # None => mysqlConn[d].canceled = caller.ctx /\ caller.ctx \in done
    /\ watcher[d].at \in {"watch", "cancel"} => watcher[d].ctx = caller.ctx
    /\ mysqlConn[d].chan # None => mysqlConn[d].chan = caller.ctx

\* A call that still has to talk finds its connection closed only for a reason.
ClosedForAReason ==
  \A d \in Conns :
    /\ caller.conn = d /\ Talks(caller.todo)
    /\ Cleans(caller.todo) \/ mysqlConn[d].closed \/ ~mysqlConn[d].net
    => Hurt(d)

Telling == Reasoned /\ Sockets /\ Canceling /\ OwnContext /\ ClosedForAReason

LEMMA RestTalks ==
  ASSUME NEW s, Plan(s), s # <<>>, AfterChannel(s)
  PROVE  /\ AfterChannel(Tail(s))
         /\ Talks(Tail(s)) => Talks(s)
         /\ Cleans(Tail(s)) => Cleans(s)
         /\ Tail(s) # <<>> /\ Tail(s)[1] = "closeNet" => s[1] = "closeChannel"
<1>1. /\ Len(Tail(s)) = Len(s) - 1 /\ Len(s) \in Nat \ {0} /\ Tail(s) \in Seq(Step)
      /\ \A i \in 1..Len(Tail(s)) : Tail(s)[i] = s[i + 1]
  BY RestTail DEF Plan
<1>2. \A i \in 1..Len(Tail(s)) : i + 1 \in 1..Len(s) /\ Tail(s)[i] = s[i + 1]
  BY <1>1
<1>3. AfterChannel(Tail(s))
  <2> SUFFICES ASSUME NEW i \in 2..Len(Tail(s)), Tail(s)[i] = "closeNet"
               PROVE  Tail(s)[i - 1] = "closeChannel"
    BY DEF AfterChannel
  <2>1. i + 1 \in 2..Len(s) /\ s[i + 1] = "closeNet" /\ i - 1 \in 1..Len(Tail(s))
    BY <1>1
  <2>2. s[(i + 1) - 1] = "closeChannel"
    BY <2>1 DEF AfterChannel
  <2> QED
    BY <1>1, <2>1, <2>2, (i + 1) - 1 = (i - 1) + 1
<1>4. (Talks(Tail(s)) => Talks(s)) /\ (Cleans(Tail(s)) => Cleans(s))
  BY <1>2 DEF Talks, Cleans
<1>5. Tail(s) # <<>> /\ Tail(s)[1] = "closeNet" => s[1] = "closeChannel"
  <2> SUFFICES ASSUME Tail(s) # <<>>, Tail(s)[1] = "closeNet" PROVE s[1] = "closeChannel"
    OBVIOUS
  <2>1. 1 \in 1..Len(Tail(s)) /\ 2 \in 2..Len(s)
    BY <1>1
  <2>2. s[2] = "closeNet"
    BY <1>1, <2>1
  <2> QED
    BY <2>1, <2>2 DEF AfterChannel
<1> QED
  BY <1>3, <1>4, <1>5

LEMMA SkipTalks ==
  ASSUME NEW s, Plan(s), s # <<>>, s[1] = "trySet", AfterChannel(s),
         NEW t, t = SubSeq(Tail(s), 3, Len(Tail(s)))
  PROVE  /\ AfterChannel(t) /\ (t # <<>> => t[1] # "closeNet")
         /\ Talks(t) => Talks(s)
<1>1. /\ Len(t) = Len(s) - 3 /\ Len(s) \in Nat /\ t \in Seq(Step)
      /\ \A i \in 1..Len(t) : t[i] = s[i + 3]
      /\ Len(s) >= 3 /\ s[3] = "closeNet"
  <2>1. Plan(t) /\ Len(t) = Len(s) - 3 /\ \A i \in 1..Len(t) : t[i] = s[i + 3]
    BY RestSkip
  <2>2. t \in Seq(Step) /\ s \in Seq(Step)
    BY <2>1 DEF Plan
  <2>3. 1 \in 1..Len(s)
    BY <2>2
  <2>4. 1 + 2 <= Len(s) /\ s[1 + 2] = "closeNet"
    BY <2>3 DEF Plan
  <2> QED
    BY <2>1, <2>2, <2>4
<1>2. AfterChannel(t)
  <2> SUFFICES ASSUME NEW i \in 2..Len(t), t[i] = "closeNet" PROVE t[i - 1] = "closeChannel"
    BY DEF AfterChannel
  <2>1. i + 3 \in 2..Len(s) /\ s[i + 3] = "closeNet" /\ i - 1 \in 1..Len(t)
    BY <1>1
  <2>2. s[(i + 3) - 1] = "closeChannel"
    BY <2>1 DEF AfterChannel
  <2> QED
    BY <1>1, <2>1, <2>2, (i + 3) - 1 = (i - 1) + 3
<1>3. t # <<>> => t[1] # "closeNet"
  <2> SUFFICES ASSUME t # <<>>, t[1] = "closeNet" PROVE FALSE
    OBVIOUS
  <2>1. 1 \in 1..Len(t) /\ 4 \in 2..Len(s) /\ s[4] = "closeNet"
    BY <1>1
  <2>2. s[4 - 1] = "closeChannel"
    BY <2>1 DEF AfterChannel
  <2> QED
    BY <1>1, <2>2
<1>4. \A i \in 1..Len(t) : i + 3 \in 1..Len(s) /\ t[i] = s[i + 3]
  BY <1>1
<1> QED
  BY <1>2, <1>3, <1>4 DEF Talks

LEMMA CleanupTalks ==
  ASSUME NEW s, Plan(s), Head1(s), AfterChannel(s), s # <<>> => s[1] # "closeNet",
         NEW t, t = Cleanup \o s
  PROVE  /\ AfterChannel(t) /\ t # <<>> /\ t[1] = "trySet"
         /\ Talks(t) => Talks(s)
<1>1. /\ Len(t) = Len(s) + 3 /\ Len(s) \in Nat /\ t # <<>>
      /\ t[1] = "trySet" /\ t[2] = "closeChannel" /\ t[3] = "closeNet"
      /\ \A i \in 4..Len(t) : t[i] = s[i - 3]
  BY CleanupFirst DEF Plan
<1>2. AfterChannel(t)
  <2> SUFFICES ASSUME NEW i \in 2..Len(t), t[i] = "closeNet" PROVE t[i - 1] = "closeChannel"
    BY DEF AfterChannel
  <2>1. CASE i = 2 \/ i = 3
    BY <1>1, <2>1
  <2>2. CASE i = 4
    <3>1. s # <<>> /\ s[1] = "closeNet"
      BY <1>1, <2>2
    <3> QED
      BY <3>1
  <2>3. CASE i > 4
    <3>1. i - 3 \in 2..Len(s) /\ s[i - 3] = "closeNet" /\ i - 1 \in 4..Len(t)
      BY <1>1, <2>3
    <3>2. s[(i - 3) - 1] = "closeChannel"
      BY <3>1 DEF AfterChannel
    <3> QED
      BY <1>1, <3>1, <3>2, (i - 3) - 1 = (i - 1) - 3
  <2> QED
    BY <2>1, <2>2, <2>3
<1>3. \A i \in 1..Len(t) : i \in {1, 2, 3} \/ (i - 3 \in 1..Len(s) /\ t[i] = s[i - 3])
  BY <1>1
<1>4. Talks(t) => Talks(s)
  BY <1>1, <1>3 DEF Talks
<1> QED
  BY <1>1, <1>2, <1>4

\* Ways out of a call, on which nothing is said to the server.
Leaves(T) == AfterChannel(T) /\ ~Talks(T) /\ (T # <<>> => T[1] # "closeNet")

LEMMA WaysOutLeave ==
  /\ \A T \in {<<>>, <<"return">>, <<"pool">>, Finish} : Leaves(T) /\ Leaves(Cleanup \o T)
  /\ Leaves(Cleanup)
<1>1. ASSUME NEW T \in {<<>>, <<"return">>, <<"pool">>, Finish} PROVE Leaves(T) /\ Leaves(Cleanup \o T)
  <2>1. Leaves(T)
    BY DEF Leaves, AfterChannel, Talks, Finish
  <2>2. Plan(T) /\ Head1(T)
    BY ShortPlans
  <2>3. AfterChannel(Cleanup \o T) /\ (Cleanup \o T)[1] = "trySet" /\ ~Talks(Cleanup \o T)
    BY <2>1, <2>2, CleanupTalks DEF Leaves
  <2> QED
    BY <2>1, <2>3 DEF Leaves
<1>2. Cleanup = Cleanup \o <<>>
  BY DEF Cleanup
<1> QED
  BY <1>1, <1>2

\* An operation begins with nothing to clean.
LEMMA OperationTalks ==
  ASSUME NEW o \in Ops, NEW T \in {Steps(o), Connecting \o Steps(o)}
  PROVE  AfterChannel(T) /\ ~Cleans(T) /\ T # <<>> /\ T[1] # "closeNet" /\ T \in Seq(Step)
<1>1. /\ Steps(o) \in Seq(Step) /\ Steps(o) # <<>>
      /\ \A i \in 1..Len(Steps(o)) : Steps(o)[i] \notin {"trySet", "closeChannel", "closeNet"}
  <2>1. CASE o = "exec"
    <3>1. Steps(o) = <<"watch", "check", "write", "read", "finish", "return">>
      BY <2>1 DEF Steps
    <3> QED
      BY <3>1 DEF Step
  <2>2. CASE o = "query"
    <3>1. Steps(o) = <<"watch", "check", "write", "read", "rows", "finish", "drain", "return">>
      BY <2>2 DEF Steps
    <3> QED
      BY <3>1 DEF Step
  <2>3. CASE o = "prepare"
    <3>1. Steps(o) = <<"watch", "check", "write", "read", "finish", "prepared", "return">>
      BY <2>3 DEF Steps
    <3> QED
      BY <3>1 DEF Step
  <2> QED
    BY <2>1, <2>2, <2>3 DEF Ops
<1>2. Connecting \o Steps(o) \in Seq(Step) /\ Connecting \o Steps(o) # <<>>
      /\ \A i \in 1..Len(Connecting \o Steps(o)) :
           (Connecting \o Steps(o))[i] \notin {"trySet", "closeChannel", "closeNet"}
  <2>1. Connecting \in Seq(Step) /\ Len(Connecting) = 3
        /\ \A i \in 1..3 : Connecting[i] \notin {"trySet", "closeChannel", "closeNet"}
    BY DEF Connecting, Step
  <2>2. Len(Connecting \o Steps(o)) = Len(Connecting) + Len(Steps(o))
        /\ Connecting \o Steps(o) \in Seq(Step)
    BY <1>1, <2>1, ConcatProperties
  <2>3. \A i \in 1..Len(Connecting \o Steps(o)) :
          (Connecting \o Steps(o))[i] = IF i <= 3 THEN Connecting[i] ELSE Steps(o)[i - 3]
    BY <1>1, <2>1, <2>2, ConcatProperties
  <2>4. Len(Connecting \o Steps(o)) >= 3
    BY <1>1, <2>1, <2>2
  <2>5. \A i \in 1..Len(Connecting \o Steps(o)) : i <= 3 \/ i - 3 \in 1..Len(Steps(o))
    BY <1>1, <2>1, <2>2
  <2> QED
    BY <1>1, <2>1, <2>2, <2>3, <2>4, <2>5
<1>3. T \in Seq(Step) /\ T # <<>>
      /\ \A i \in 1..Len(T) : T[i] \notin {"trySet", "closeChannel", "closeNet"}
  BY <1>1, <1>2
<1>4. 1 \in 1..Len(T)
  BY <1>3
<1> QED
  BY <1>3, <1>4 DEF AfterChannel, Cleans

-----------------------------------------------------------------------------
(* Its steps.                                                              *)

\* What a step of the caller on its connection does to d.
Touched(d) ==
  /\ \/ watcher'[d] = watcher[d]
     \/ watcher[d].at = "watch" /\ watcher'[d].at = "wait"
  /\ mysqlConn'[d].canceled = mysqlConn[d].canceled /\ mysqlConn'[d].peer = mysqlConn[d].peer
  /\ mysqlConn[d].closed => mysqlConn'[d].closed
  /\ InPool(mysqlConn'[d]) => InPool(mysqlConn[d])
  /\ mysqlConn'[d].net = mysqlConn[d].net \/ mysqlConn'[d].closed
  /\ mysqlConn'[d].chan = mysqlConn[d].chan \/ mysqlConn'[d].chan = caller.ctx

LEMMA CallerTells ==
  ASSUME IInv, Telling, NEW T, NEW e, Proceeds(T, e), caller.todo # <<>>, caller.todo[1] # "pool",
         done' = done, \A d \in Conns : Touched(d),
         AfterChannel(T), T # <<>> /\ T[1] = "closeNet" => mysqlConn'[c].closed,
         e = "ctx" => caller.ctx \in done,
         e = "invalid" => c \in Conns /\ (Lost(c) \/ caller'.fault),
         c \in Conns /\ Talks(T) /\ (Cleans(T) \/ mysqlConn'[c].closed \/ ~mysqlConn'[c].net) =>
           Hurt(c) \/ caller'.fault
  PROVE  Telling'
<1>1. Reasoned'
  BY DEF Proceeds, Reasoned, Lost, Touched, c, mc
<1>2. Sockets'
  BY DEF Proceeds, Telling, Sockets, Touched, At, c, mc
<1>3. Canceling'
  BY DEF Telling, Canceling, Touched
<1>4. 1 \in 1..Len(caller.todo)
  BY DEF IInv, Shape, CallerType
<1>5. OwnContext'
  <2>1. \A d \in Conns : Uses(d)' => Uses(d)
    BY <1>4 DEF Uses, Proceeds
  <2> QED
    BY <2>1 DEF Telling, OwnContext, Touched, Proceeds
<1>6. ClosedForAReason'
  BY DEF ClosedForAReason, Hurt, Lost, Proceeds, Touched, c
<1> QED
  BY <1>1, <1>2, <1>3, <1>5, <1>6 DEF Telling

\* The caller goes on with the rest of its steps.
LEMMA ProceedTells ==
  ASSUME IInv, Telling, Proceeds(Tail(caller.todo), caller.err), caller.todo # <<>>,
         caller.todo[1] # "pool", done' = done, \A d \in Conns : Touched(d),
         c \in Conns => mysqlConn'[c].closed = mc.closed
                        /\ (mysqlConn'[c].net = mc.net \/ mc.closed)
  PROVE  Telling'
<1> DEFINE T == Tail(caller.todo)
<1>1. Plan(caller.todo) /\ AfterChannel(caller.todo)
  BY DEF IInv, Shape, Telling, Sockets
<1>2. AfterChannel(T) /\ (Talks(T) => Talks(caller.todo)) /\ (Cleans(T) => Cleans(caller.todo))
      /\ (T # <<>> /\ T[1] = "closeNet" => caller.todo[1] = "closeChannel")
  BY <1>1, RestTalks
<1>3. caller.todo[1] = "closeChannel" => c \in Conns /\ mc.closed
  <2>1. caller.todo[1] = "closeChannel" => c \in Conns
    BY OnConn DEF Busy
  <2> QED
    BY <2>1 DEF IInv, Closing, CallerCloses, At, c, mc
<1>4. c \in Conns /\ Talks(T) /\ (Cleans(T) \/ mysqlConn'[c].closed \/ ~mysqlConn'[c].net) => Hurt(c)
  BY <1>2 DEF Telling, ClosedForAReason, c, mc
<1>5. /\ caller.err = "ctx" => caller.ctx \in done
      /\ caller.err = "invalid" => c \in Conns /\ Lost(c)
  BY DEF Telling, Reasoned
<1> HIDE DEF T
<1> QED
  BY <1>2, <1>3, <1>4, <1>5, CallerTells DEF T

\* The caller gives up.
LEMMA LeaveTells ==
  ASSUME IInv, Telling, NEW T, NEW e, Proceeds(T, e), Leaves(T), caller.todo # <<>>,
         caller.todo[1] # "pool", done' = done, \A d \in Conns : Touched(d),
         e = "ctx" => caller.ctx \in done,
         e = "invalid" => c \in Conns /\ (Lost(c) \/ caller'.fault)
  PROVE  Telling'
BY CallerTells DEF Leaves

\* The caller lets go of its connection.
LEMMA LetGoTells ==
  ASSUME IInv, Telling, caller'.conn = None, caller'.todo \in {<<>>, <<"return">>},
         caller'.err # "invalid", caller'.err = "ctx" => caller'.ctx \in done, done' = done,
         watcher' = watcher,
         \A d \in Conns : /\ mysqlConn'[d].canceled = mysqlConn[d].canceled
                          /\ mysqlConn'[d].closed = mysqlConn[d].closed
                          /\ mysqlConn'[d].net = mysqlConn[d].net
                          /\ InPool(mysqlConn'[d]) => InPool(mysqlConn[d])
  PROVE  Telling'
<1>0. None \notin Conns
  BY ConnAssumption DEF None
<1>1. Reasoned'
  BY DEF Reasoned
<1>2. Sockets'
  BY WaysOutLeave DEF Telling, Sockets, At, Leaves
<1>3. Canceling'
  BY DEF Telling, Canceling
<1>4. OwnContext' /\ ClosedForAReason'
  BY <1>0 DEF OwnContext, Uses, ClosedForAReason
<1> QED
  BY <1>1, <1>2, <1>3, <1>4 DEF Telling

\* A step that leaves the connections and the watchers alone, or changes a field
\* that does not matter here.
LEMMA TouchedBySet ==
  ASSUME IInv, c \in Conns, watcher' = watcher,
         NEW r \in ConnRecord, mysqlConn' = [mysqlConn EXCEPT ![c] = r],
         r.canceled = mc.canceled, r.peer = mc.peer, mc.closed => r.closed,
         InPool(r) => InPool(mc), r.net = mc.net \/ r.closed,
         r.chan = mc.chan \/ r.chan = caller.ctx
  PROVE  mysqlConn'[c] = r /\ \A d \in Conns : Touched(d)
<1>1. mysqlConn \in [Conns -> ConnRecord]
  BY DEF IInv, Shape, ConnTypeOK
<1>2. mysqlConn'[c] = r /\ \A d \in Conns \ {c} : mysqlConn'[d] = mysqlConn[d]
  BY <1>1
<1> QED
  BY <1>1, <1>2 DEF Touched, mc, ConnRecord

LEMMA Untouched ==
  ASSUME UNCHANGED <<mysqlConn, watcher>>, IInv
  PROVE  \A d \in Conns : Touched(d)
BY DEF Touched, IInv, Shape, ConnTypeOK, ConnRecord

\* A step on the connection, with the type of its outcome.
LEMMA Steered ==
  ASSUME IInv, IInv', NEW T, NEW e
  PROVE  /\ Goto(T) => Proceeds(T, caller.err)
         /\ Fail(e, T) => Proceeds(T, e)
         /\ FailFaulty(e, T) => Proceeds(T, e) /\ caller'.fault
         /\ TryAgain(T) => Proceeds(T, "badConn")
<1>1. CallerType /\ CallerType'
  BY DEF IInv, Shape
<1>2. ASSUME Goto(T) PROVE Proceeds(T, caller.err)
  BY <1>1, <1>2 DEF CallerType, Goto, Proceeds
<1>3. ASSUME Fail(e, T) PROVE Proceeds(T, e)
  BY <1>1, <1>3 DEF CallerType, Fail, Proceeds
<1>4. ASSUME FailFaulty(e, T) PROVE Proceeds(T, e) /\ caller'.fault
  BY <1>1, <1>4 DEF CallerType, FailFaulty, Proceeds
<1>5. ASSUME TryAgain(T) PROVE Proceeds(T, "badConn")
  BY <1>1, <1>5 DEF CallerType, TryAgain, Proceeds
<1> QED
  BY <1>2, <1>3, <1>4, <1>5

\* What a step at s finds: the connection, and a reason if it is broken.
LEMMA Finds ==
  ASSUME IInv, Telling, Busy, caller.todo[1] \notin {"pool", "return"}
  PROVE  /\ c \in Conns /\ mysqlConn \in [Conns -> ConnRecord] /\ mc \in ConnRecord
         /\ mc = mysqlConn[c] /\ caller.conn = c /\ 1 \in 1..Len(caller.todo)
         /\ mc.canceled # None => caller.ctx \in done
         /\ Talks(caller.todo) /\ (mc.closed \/ Broken) /\ mc.canceled = None => Lost(c)
         /\ Talks(caller.todo) /\ (mc.closed \/ Cleans(caller.todo)) => Hurt(c)
<1>1. c \in Conns /\ caller.conn = c /\ 1 \in 1..Len(caller.todo) /\ mc = mysqlConn[c]
      /\ mysqlConn \in [Conns -> ConnRecord] /\ mc \in ConnRecord
  BY OnConn DEF c, mc, IInv, Shape, CallerType, ConnTypeOK, Busy
<1>2. Uses(c)
  BY <1>1 DEF Uses
<1>3. mc.canceled # None => caller.ctx \in done
  BY <1>1, <1>2 DEF Telling, OwnContext
<1>4. Talks(caller.todo) /\ (mc.closed \/ Cleans(caller.todo) \/ ~mc.net) => Hurt(c)
  BY <1>1 DEF Telling, ClosedForAReason
<1>5. Talks(caller.todo) /\ (mc.closed \/ Broken) /\ mc.canceled = None => Lost(c)
  BY <1>1, <1>4 DEF Broken, Hurt, Lost
<1> QED
  BY <1>1, <1>3, <1>4, <1>5

LEMMA ConnectTells == ASSUME IInv, IInv', Telling, Connect \/ Watch PROVE Telling'
<1>1. Busy /\ caller.todo # <<>> /\ caller.todo[1] \in {"connect", "watch"}
      /\ UNCHANGED <<watcher, done>>
  BY DEF Connect, Watch, At, Busy
<1>2. /\ c \in Conns /\ mysqlConn \in [Conns -> ConnRecord] /\ mc \in ConnRecord
      /\ mc = mysqlConn[c] /\ caller.conn = c
      /\ Talks(caller.todo) /\ mc.closed => Hurt(c)
  BY <1>1, Finds
<1>3. CASE caller.ctx \in done /\ Fail("ctx", <<"return">>)
           /\ (UNCHANGED mysqlConn \/ Set([mc EXCEPT !.pool = "leaked"]))
  <2>1. Proceeds(<<"return">>, "ctx") /\ Leaves(<<"return">>)
    BY <1>3, Steered, WaysOutLeave
  <2>2. \A d \in Conns : Touched(d)
    <3>1. CASE UNCHANGED mysqlConn
      BY <1>1, <3>1, Untouched
    <3>2. CASE Set([mc EXCEPT !.pool = "leaked"])
      <4> DEFINE r == [mc EXCEPT !.pool = "leaked"]
      <4>1. /\ r \in ConnRecord /\ r.canceled = mc.canceled /\ r.peer = mc.peer /\ r.closed = mc.closed
            /\ r.net = mc.net /\ r.chan = mc.chan /\ mysqlConn' = [mysqlConn EXCEPT ![c] = r]
            /\ ~InPool(r)
        BY <1>2, <3>2 DEF ConnRecord, Set, InPool
      <4> HIDE DEF r
      <4> QED
        BY <1>1, <1>2, <4>1, TouchedBySet
    <3> QED
      BY <1>3, <3>1, <3>2
  <2> QED
    BY <1>1, <1>3, <2>1, <2>2, LeaveTells
<1>4. CASE TellWatcher
  <2>1. Proceeds(Tail(caller.todo), caller.err)
    BY <1>4, Steered DEF TellWatcher, Continue
  <2>2. CASE UNCHANGED mysqlConn
    BY <1>1, <2>1, <2>2, Untouched, ProceedTells DEF mc
  <2>3. CASE Set([mc EXCEPT !.watching = TRUE, !.chan = caller.ctx]) /\ caller.ctx # Background
    <3> DEFINE r == [mc EXCEPT !.watching = TRUE, !.chan = caller.ctx]
    <3>1. /\ r \in ConnRecord /\ r.canceled = mc.canceled /\ r.peer = mc.peer /\ r.closed = mc.closed
          /\ r.net = mc.net /\ r.chan = caller.ctx /\ InPool(r) = InPool(mc)
          /\ mysqlConn' = [mysqlConn EXCEPT ![c] = r]
      BY <1>2, <2>3 DEF ConnRecord, InPool, Set, IInv, Shape, CallerType, Contexts
    <3> HIDE DEF r
    <3>2. mysqlConn'[c] = r /\ \A d \in Conns : Touched(d)
      BY <1>1, <1>2, <3>1, TouchedBySet
    <3> QED
      BY <1>1, <2>1, <3>1, <3>2, ProceedTells
  <2> QED
    BY <1>4, <2>2, <2>3 DEF TellWatcher
<1>5. CASE mc.watching /\ At("watch") /\ Goto(Cleanup \o Tail(caller.todo)) /\ UNCHANGED mysqlConn
  <2> DEFINE T == Tail(caller.todo)
  <2>1. Plan(caller.todo) /\ AfterChannel(caller.todo)
    BY DEF IInv, Shape, Telling, Sockets
  <2>2. Plan(T) /\ Head1(T) /\ AfterChannel(T) /\ (T # <<>> => T[1] # "closeNet")
        /\ (Talks(T) => Talks(caller.todo))
    BY <1>1, <2>1, RestTail, RestTalks
  <2>3. /\ AfterChannel(Cleanup \o T) /\ (Cleanup \o T)[1] # "closeNet"
        /\ Talks(Cleanup \o T) => Talks(caller.todo)
    BY <2>2, CleanupTalks
  <2>4. mc.closed
    <3>1. caller.todo[1] \in Alone
      BY <1>1 DEF Alone
    <3> QED
      BY <1>2, <1>5, <3>1, Unwatched
  <2>5. Proceeds(Cleanup \o T, caller.err)
    BY <1>5, Steered
  <2>6. /\ caller.err = "ctx" => caller.ctx \in done
        /\ caller.err = "invalid" => c \in Conns /\ Lost(c)
    BY DEF Telling, Reasoned
  <2> HIDE DEF T
  <2> QED
    BY <1>1, <1>2, <1>5, <2>3, <2>4, <2>5, <2>6, Untouched, CallerTells
<1> QED
  BY <1>3, <1>4, <1>5 DEF Connect, Watch, WatchCancel
LEMMA TalkTells ==
  ASSUME IInv, IInv', Telling,
         Handshake \/ HandshakeFails \/ HandshakeFaulty \/ CheckClosed \/ WritePacket
  PROVE  Telling'
<1>1. Busy /\ caller.todo # <<>> /\ caller.todo[1] \in {"handshake", "check", "write"}
      /\ UNCHANGED <<watcher, done>>
  BY DEF Handshake, HandshakeFails, HandshakeFaulty, CheckClosed, WritePacket, At, Busy
<1>2. /\ c \in Conns /\ mysqlConn \in [Conns -> ConnRecord] /\ mc \in ConnRecord
      /\ mc = mysqlConn[c] /\ caller.conn = c
      /\ mc.canceled # None => caller.ctx \in done
      /\ Talks(caller.todo) /\ Broken /\ mc.canceled = None => Lost(c)
      /\ caller.todo[1] # "check" => Talks(caller.todo)
  BY <1>1, Finds DEF Talks
<1>3. UNCHANGED mysqlConn \/ Set([mc EXCEPT !.pool = "gone"]) \/ Set([mc EXCEPT !.reset = FALSE])
  BY DEF Handshake, HandshakeFails, HandshakeFaulty, CheckClosed, WritePacket
<1>4. mysqlConn'[c].closed = mc.closed /\ mysqlConn'[c].net = mc.net /\ \A d \in Conns : Touched(d)
  <2>1. CASE UNCHANGED mysqlConn
    BY <1>1, <1>2, <2>1, Untouched
  <2>2. CASE Set([mc EXCEPT !.pool = "gone"])
    <3> DEFINE r == [mc EXCEPT !.pool = "gone"]
    <3>1. /\ r \in ConnRecord /\ r.canceled = mc.canceled /\ r.peer = mc.peer /\ r.closed = mc.closed
          /\ r.net = mc.net /\ r.chan = mc.chan /\ mysqlConn' = [mysqlConn EXCEPT ![c] = r] /\ ~InPool(r)
      BY <1>2, <2>2 DEF ConnRecord, Set, InPool
    <3> HIDE DEF r
    <3> QED
      BY <1>1, <1>2, <3>1, TouchedBySet
  <2>3. CASE Set([mc EXCEPT !.reset = FALSE])
    <3> DEFINE r == [mc EXCEPT !.reset = FALSE]
    <3>1. /\ r \in ConnRecord /\ r.canceled = mc.canceled /\ r.peer = mc.peer /\ r.closed = mc.closed
          /\ r.net = mc.net /\ r.chan = mc.chan /\ mysqlConn' = [mysqlConn EXCEPT ![c] = r]
          /\ InPool(r) = InPool(mc)
      BY <1>2, <2>3 DEF ConnRecord, Set, InPool
    <3> HIDE DEF r
    <3> QED
      BY <1>1, <1>2, <3>1, TouchedBySet
  <2> QED
    BY <1>3, <2>1, <2>2, <2>3
<1>5. CASE Continue
  BY <1>1, <1>4, <1>5, Steered, ProceedTells DEF Continue
<1>6. ASSUME NEW e, NEW T \in {Finish, Cleanup \o Finish}, Fail(e, T) \/ FailFaulty(e, T),
             e = "ctx" => mc.canceled # None,
             e = "invalid" => \/ mc.canceled = None /\ Broken /\ Talks(caller.todo)
                              \/ FailFaulty(e, T)
      PROVE  Telling'
  BY <1>1, <1>2, <1>4, <1>6, Steered, WaysOutLeave, LeaveTells
<1>7. CASE Handshake
  <2>1. CASE Continue
    BY <1>5, <2>1
  <2>2. CASE Fail("err", Cleanup \o Finish)
    BY <1>6, <2>2
  <2> QED
    BY <1>7, <2>1, <2>2 DEF Handshake
<1>8. CASE HandshakeFails
  <2>1. caller.todo[1] = "handshake" /\ Broken
    BY <1>8 DEF HandshakeFails, At
  <2>2. PICK e \in (IF mc.canceled # None THEN {"ctx"} ELSE {"badConn", "invalid"})
                     \cup (IF mc.net THEN {} ELSE {"err"}) :
           Fail(e, Cleanup \o Finish)
    BY <1>8 DEF HandshakeFails
  <2> QED
    BY <1>2, <1>6, <2>1, <2>2
<1>9. CASE CheckClosed
  <2>1. CASE Fail("badConn", Finish)
    BY <1>6, <2>1
  <2> QED
    BY <1>5, <1>9, <2>1 DEF CheckClosed
<1>10. CASE WritePacket
  <2>1. caller.todo[1] = "write" /\ Talks(caller.todo)
    BY <1>1, <1>2, <1>10 DEF WritePacket, At
  <2>2. \/ Continue
        \/ Fail("badConn", Finish) \/ Fail("badConn", Cleanup \o Finish)
        \/ Fail("ctx", Finish) /\ mc.canceled # None
        \/ Fail("invalid", Cleanup \o Finish) /\ mc.canceled = None /\ Broken
        \/ Fail("err", Finish) \/ FailFaulty("invalid", Cleanup \o Finish)
    BY <1>10 DEF WritePacket, WriteError
  <2>3. CASE \/ Fail("badConn", Finish) \/ Fail("badConn", Cleanup \o Finish)
             \/ Fail("err", Finish) \/ FailFaulty("invalid", Cleanup \o Finish)
    BY <1>6, <2>3
  <2>4. CASE Fail("ctx", Finish) /\ mc.canceled # None
    BY <1>6, <2>4
  <2>5. CASE Fail("invalid", Cleanup \o Finish) /\ mc.canceled = None /\ Broken
    BY <1>6, <2>1, <2>5
  <2> QED
    BY <1>5, <2>2, <2>3, <2>4, <2>5
<1>11. CASE HandshakeFaulty
  <2>1. PICK e \in {"badConn", "invalid"} \cup (IF mc.canceled # None THEN {"ctx"} ELSE {}) :
           FailFaulty(e, Cleanup \o Finish)
    BY <1>11 DEF HandshakeFaulty
  <2> QED
    BY <1>6, <2>1
<1> QED
  BY <1>7, <1>8, <1>9, <1>10, <1>11

\* A read that fails names the context if that closed the connection, and else
\* the server is gone or a time limit has passed.
LEMMA ReadTells ==
  ASSUME IInv, IInv', Telling,
         Reading \/ RejectReadOnly \/ (SendFileFails /\ TryAgain(Finish))
  PROVE  Telling'
<1> DEFINE T == Tail(caller.todo)
<1>1. Busy /\ caller.todo # <<>> /\ caller.todo[1] \in {"read", "rows", "drain", "prepared"}
      /\ UNCHANGED <<mysqlConn, watcher, done>>
  BY DEF Reading, Answer, ReadFails, ReadFaulty, RowsFail, RejectReadOnly, SendFileFails, CloseRows,
     Drained, PrepareContext, At, Busy
<1>2. /\ c \in Conns /\ mc = mysqlConn[c] /\ caller.conn = c
      /\ mc.canceled # None => caller.ctx \in done
      /\ Talks(caller.todo) /\ (mc.closed \/ Broken) /\ mc.canceled = None => Lost(c)
      /\ caller.todo[1] # "prepared" => Talks(caller.todo)
  BY <1>1, Finds DEF Talks
<1>3. \A d \in Conns : Touched(d)
  BY <1>1, Untouched
<1>4. CASE Continue
  BY <1>1, <1>2, <1>3, <1>4, Steered, ProceedTells DEF Continue, mc
<1>5. ASSUME NEW e, NEW U \in {<<"return">>, Finish}, NEW V \in {U, Cleanup \o U},
             Fail(e, V) \/ FailFaulty(e, V) \/ (e = "badConn" /\ TryAgain(V)),
             e = "ctx" => caller.ctx \in done, e = "invalid" => Lost(c) \/ FailFaulty(e, V)
      PROVE  Telling'
  BY <1>1, <1>2, <1>3, <1>5, Steered, WaysOutLeave, LeaveTells
<1>6. CASE Answer \/ RowsFail \/ CloseRows \/ Drained
  <2>1. Continue \/ Fail("err", Finish) \/ Fail("err", Cleanup \o Finish)
    BY <1>6 DEF Answer, RowsFail, CloseRows, Drained
  <2> QED
    BY <1>4, <1>5, <2>1
<1>7. CASE PrepareContext
  <2>1. Continue \/ (Fail("ctx", <<"return">>) /\ caller.ctx \in done)
    BY <1>7 DEF PrepareContext
  <2> QED
    BY <1>4, <1>5, <2>1
<1>8. ASSUME NEW U \in {<<"return">>, Finish}, ReadError(U), mc.closed \/ Broken, Talks(caller.todo)
      PROVE  Telling'
  <2>1. \/ Fail("ctx", U) /\ mc.canceled # None
        \/ Fail("invalid", Cleanup \o U) /\ mc.canceled = None
    BY <1>8 DEF ReadError
  <2> QED
    BY <1>2, <1>5, <1>8, <2>1
<1>9. CASE At("rows") /\ ((ReadError(T) /\ (mc.closed \/ Broken)) \/ FaultError(T))
  <2>1. Plan(caller.todo) /\ AfterChannel(caller.todo) /\ caller.todo[1] = "rows"
    BY <1>9 DEF IInv, Shape, Telling, Sockets, At
  <2>2. Plan(T) /\ Head1(T) /\ AfterChannel(T) /\ (T # <<>> => T[1] # "closeNet")
    BY <1>1, <2>1, RestTail, RestTalks
  <2>3. AfterChannel(Cleanup \o T) /\ (Cleanup \o T)[1] # "closeNet"
    BY <2>2, CleanupTalks
  <2>4. mc.closed \/ Broken \/ mc.canceled # None => Hurt(c)
    BY <1>2, <1>9, <2>1 DEF Hurt
  <2>5. \/ Fail("ctx", T) /\ mc.canceled # None
        \/ Fail("invalid", Cleanup \o T) /\ mc.canceled = None /\ (mc.closed \/ Broken)
        \/ FailFaulty("invalid", Cleanup \o T)
    BY <1>9 DEF ReadError, FaultError
  <2> HIDE DEF T
  <2>6. CASE Fail("ctx", T) /\ mc.canceled # None
    BY <1>1, <1>2, <1>3, <2>2, <2>4, <2>6, Steered, CallerTells
  <2>7. CASE Fail("invalid", Cleanup \o T) /\ mc.canceled = None /\ (mc.closed \/ Broken)
    BY <1>1, <1>2, <1>3, <2>1, <2>3, <2>4, <2>7, Steered, CallerTells
  <2>8. CASE FailFaulty("invalid", Cleanup \o T)
    BY <1>1, <1>2, <1>3, <2>3, <2>8, Steered, CallerTells
  <2> QED
    BY <2>5, <2>6, <2>7, <2>8
<1>10. CASE ReadFails
  <2>1. CASE At("read") /\ Broken /\ ReadError(Finish)
    BY <1>2, <1>8, <2>1 DEF At
  <2>2. CASE At("rows") /\ (Broken \/ mc.closed) /\ ReadError(T)
    BY <1>9, <2>2
  <2>3. CASE At("drain") /\ (Broken \/ mc.closed) /\ ReadError(<<"return">>)
    BY <1>2, <1>8, <2>3 DEF At
  <2> QED
    BY <1>10, <2>1, <2>2, <2>3 DEF ReadFails
<1>11. CASE ReadFaulty
  <2>1. ASSUME NEW U \in {<<"return">>, Finish}, FaultError(U) PROVE Telling'
    <3>1. \/ Fail("ctx", U) /\ mc.canceled # None
          \/ FailFaulty("invalid", Cleanup \o U)
      BY <2>1 DEF FaultError
    <3> QED
      BY <1>2, <1>5, <2>1, <3>1
  <2> QED
    BY <1>9, <1>11, <2>1 DEF ReadFaulty
<1>12. CASE SendFileFails /\ WriteError
  <2>1. At("read")
    BY <1>12 DEF SendFileFails
  <2>2. \/ Fail("ctx", Finish) /\ mc.canceled # None
        \/ Fail("err", Finish)
        \/ Fail("invalid", Cleanup \o Finish) /\ mc.canceled = None /\ Broken
        \/ FailFaulty("invalid", Cleanup \o Finish)
    BY <1>12 DEF WriteError
  <2> QED
    BY <1>2, <1>5, <2>1, <2>2 DEF At
<1>13. CASE RejectReadOnly \/ (SendFileFails /\ TryAgain(Finish))
  <2>1. \/ Fail("badConn", Cleanup \o Finish) \/ TryAgain(Cleanup \o Finish)
        \/ TryAgain(Finish)
    BY <1>13 DEF RejectReadOnly
  <2> QED
    BY <1>5, <2>1
<1> QED
  BY <1>6, <1>7, <1>10, <1>11, <1>12, <1>13 DEF Reading

LEMMA FinishTells == ASSUME IInv, IInv', Telling, FinishCall PROVE Telling'
<1>1. Busy /\ caller.todo # <<>> /\ caller.todo[1] = "finish" /\ done' = done /\ Continue
  BY DEF FinishCall, At, Busy
<1>2. /\ c \in Conns /\ mysqlConn \in [Conns -> ConnRecord] /\ mc \in ConnRecord
      /\ mc = mysqlConn[c] /\ caller.conn = c
  BY <1>1, Finds
<1>3. CASE UNCHANGED <<mysqlConn, watcher>>
  BY <1>1, <1>2, <1>3, Untouched, Steered, ProceedTells DEF Continue, mc
<1>4. CASE /\ watcher[c].at = "watch" /\ watcher' = [watcher EXCEPT ![c] = [at |-> "wait", ctx |-> None]]
           /\ Set([mc EXCEPT !.watching = FALSE])
  <2> DEFINE r == [mc EXCEPT !.watching = FALSE]
  <2>1. /\ r \in ConnRecord /\ r.canceled = mc.canceled /\ r.peer = mc.peer /\ r.closed = mc.closed
        /\ r.net = mc.net /\ r.chan = mc.chan /\ mysqlConn' = [mysqlConn EXCEPT ![c] = r]
        /\ InPool(r) = InPool(mc)
    BY <1>2, <1>4 DEF ConnRecord, Set, InPool
  <2> HIDE DEF r
  <2>2. /\ mysqlConn'[c] = r /\ \A d \in Conns \ {c} : mysqlConn'[d] = mysqlConn[d] /\ watcher'[d] = watcher[d]
        /\ watcher'[c].at = "wait"
    BY <1>2, <1>4, <2>1 DEF IInv, Shape, ConnTypeOK
  <2>3. \A d \in Conns : Touched(d)
    BY <1>2, <1>4, <2>1, <2>2 DEF Touched, ConnRecord
  <2> QED
    BY <1>1, <1>2, <2>1, <2>2, <2>3, Steered, ProceedTells DEF Continue
<1> QED
  BY <1>3, <1>4 DEF FinishCall

LEMMA CleanupTells == ASSUME IInv, IInv', Telling, CallerCleanup PROVE Telling'
<1>1. Busy /\ caller.todo # <<>> /\ caller.todo[1] \in {"trySet", "closeChannel", "closeNet"}
      /\ UNCHANGED <<watcher, done>>
  BY DEF CallerCleanup, At, Busy
<1>2. /\ c \in Conns /\ mysqlConn \in [Conns -> ConnRecord] /\ mc \in ConnRecord
      /\ mc = mysqlConn[c] /\ caller.conn = c
      /\ Talks(caller.todo) => Hurt(c)
  BY <1>1, Finds DEF Cleans
<1>3. CASE At("closeChannel") /\ Continue /\ Set([mc EXCEPT !.closech = @ + 1])
  <2> DEFINE r == [mc EXCEPT !.closech = @ + 1]
  <2>1. /\ r \in ConnRecord /\ r.canceled = mc.canceled /\ r.peer = mc.peer /\ r.closed = mc.closed
        /\ r.net = mc.net /\ r.chan = mc.chan /\ mysqlConn' = [mysqlConn EXCEPT ![c] = r]
        /\ InPool(r) = InPool(mc)
    BY <1>2, <1>3 DEF ConnRecord, Set, InPool
  <2> HIDE DEF r
  <2>2. mysqlConn'[c] = r /\ \A d \in Conns : Touched(d)
    BY <1>1, <1>2, <2>1, TouchedBySet
  <2> QED
    BY <1>1, <1>3, <2>1, <2>2, Steered, ProceedTells DEF Continue
<1>4. CASE At("closeNet") /\ Continue /\ Set([mc EXCEPT !.net = FALSE])
  <2> DEFINE r == [mc EXCEPT !.net = FALSE]
  <2>0. mc.closed
    BY <1>4 DEF Telling, Sockets
  <2>1. /\ r \in ConnRecord /\ r.canceled = mc.canceled /\ r.peer = mc.peer /\ r.closed = mc.closed
        /\ ~r.net /\ r.chan = mc.chan /\ mysqlConn' = [mysqlConn EXCEPT ![c] = r]
        /\ InPool(r) = InPool(mc)
    BY <1>2, <1>4 DEF ConnRecord, Set, InPool
  <2> HIDE DEF r
  <2>2. mysqlConn' = [mysqlConn EXCEPT ![c] = r] /\ mysqlConn'[c] = r
        /\ \A d \in Conns \ {c} : mysqlConn'[d] = mysqlConn[d]
    BY <1>2, <2>1
  <2>3. \A d \in Conns : Touched(d)
    BY <1>1, <1>2, <2>0, <2>1, <2>2 DEF Touched, ConnRecord
  <2> QED
    BY <1>1, <1>4, <2>0, <2>1, <2>2, <2>3, Steered, ProceedTells DEF Continue
<1>5. CASE At("trySet") /\ Goto(TrySet(mc.closed, Tail(caller.todo))) /\ Set([mc EXCEPT !.closed = TRUE])
  <2> DEFINE T == TrySet(mc.closed, Tail(caller.todo))
             r == [mc EXCEPT !.closed = TRUE]
  <2>1. /\ r \in ConnRecord /\ r.canceled = mc.canceled /\ r.peer = mc.peer /\ r.closed
        /\ r.net = mc.net /\ r.chan = mc.chan /\ mysqlConn' = [mysqlConn EXCEPT ![c] = r]
        /\ InPool(r) = InPool(mc)
    BY <1>2, <1>5 DEF ConnRecord, Set, InPool
  <2> HIDE DEF r
  <2>2. mysqlConn'[c] = r /\ \A d \in Conns \ {c} : mysqlConn'[d] = mysqlConn[d]
    BY <1>2, <2>1
  <2>3. Plan(caller.todo) /\ AfterChannel(caller.todo) /\ caller.todo[1] = "trySet"
    BY <1>5 DEF IInv, Shape, Telling, Sockets, At
  <2>4. AfterChannel(T) /\ (T # <<>> => T[1] # "closeNet") /\ (Talks(T) => Talks(caller.todo))
    <3>1. CASE mc.closed
      BY <1>1, <2>3, <3>1, SkipTalks DEF TrySet
    <3>2. CASE ~mc.closed
      BY <1>1, <2>3, <3>2, RestTalks DEF TrySet
    <3> QED
      BY <3>1, <3>2
  <2>5. Proceeds(T, caller.err)
    BY <1>5, Steered
  <2>6. /\ caller.err = "ctx" => caller.ctx \in done
        /\ caller.err = "invalid" => c \in Conns /\ Lost(c)
    BY DEF Telling, Reasoned
  <2> HIDE DEF T
  <2> QED
    BY <1>1, <1>2, <2>1, <2>2, <2>4, <2>5, <2>6, CallerTells DEF Touched
<1> QED
  BY <1>3, <1>4, <1>5 DEF CallerCleanup
LEMMA ReturnTells == ASSUME IInv, IInv', Telling, Return PROVE Telling'
<1>1. CallerType /\ CallerType' /\ caller.todo # <<>> /\ caller.todo[1] = "return"
      /\ UNCHANGED <<watcher, done>> /\ mysqlConn \in [Conns -> ConnRecord]
      /\ caller.conn \in Conns \cup {None} /\ None \notin Conns
  BY ConnAssumption DEF Return, At, IInv, Shape, ConnTypeOK, CallerType, None
<1>2. \A d \in Conns :
        /\ mysqlConn'[d].canceled = mysqlConn[d].canceled /\ mysqlConn'[d].peer = mysqlConn[d].peer
        /\ mysqlConn'[d].closed = mysqlConn[d].closed /\ mysqlConn'[d].net = mysqlConn[d].net
        /\ mysqlConn'[d].chan = mysqlConn[d].chan
        /\ InPool(mysqlConn'[d]) => InPool(mysqlConn[d])
  <2>1. CASE UNCHANGED mysqlConn
    BY <2>1
  <2>2. CASE c # None /\ mc.pool = "used"
    <3> DEFINE p == IF caller.err = "badConn" THEN "gone" ELSE "free"
    <3>1. mysqlConn' = [mysqlConn EXCEPT ![c].pool = p] /\ c \in Conns /\ InPool(mysqlConn[c])
      BY <1>1, <2>2 DEF Return, c, mc, InPool
    <3> HIDE DEF p
    <3> QED
      BY <1>1, <3>1 DEF ConnRecord, InPool
  <2> QED
    BY <2>1, <2>2 DEF Return
<1>3. CASE caller.err # "badConn"
  <2>1. caller' = NoCall(caller.call)
    BY <1>3 DEF Return
  <2>2. caller'.todo = <<>> /\ caller'.err = "none" /\ caller'.conn = None
    BY <2>1 DEF NoCall
  <2> QED
    BY <1>1, <1>2, <2>2, LetGoTells
<1>4. ASSUME NEW T \in {DropConn, DropConn \o <<"pool">>}, NEW e \in {"badConn", "none"},
             caller'.todo = T, caller'.err = e, caller'.ctx = caller.ctx, caller'.conn = caller.conn
      PROVE  Telling'
  <2>1. Leaves(T)
    <3>1. DropConn \in {<<>>, Cleanup}
      BY DEF DropConn
    <3>2. <<>> \o <<"pool">> = <<"pool">>
      OBVIOUS
    <3> QED
      BY <1>4, <3>1, <3>2, WaysOutLeave
  <2>2. Reasoned' /\ ClosedForAReason'
    BY <1>4, <2>1 DEF Reasoned, ClosedForAReason, Leaves
  <2>3. Sockets' /\ Canceling'
    BY <1>1, <1>2, <1>4, <2>1 DEF Telling, Sockets, Canceling, Leaves, At
  <2>4. OwnContext'
    <3>1. \A d \in Conns : Uses(d)' => Uses(d)
      <4>1. 1 \in 1..Len(caller.todo) /\ caller.todo[1] # "pool"
        BY <1>1 DEF CallerType
      <4> QED
        BY <1>4, <4>1 DEF Uses
    <3> QED
      BY <1>1, <1>2, <1>4, <3>1 DEF Telling, OwnContext
  <2> QED
    BY <2>2, <2>3, <2>4 DEF Telling
<1>5. CASE caller.err = "badConn" /\ caller.tries = Retries
  <2>1. caller' = [caller EXCEPT !.todo = DropConn]
    BY <1>5 DEF Return
  <2>2. caller'.todo = DropConn /\ caller'.err = "badConn" /\ caller'.ctx = caller.ctx
        /\ caller'.conn = caller.conn
    BY <1>1, <1>5, <2>1 DEF CallerType
  <2> QED
    BY <1>4, <2>2
<1>6. CASE caller.err = "badConn" /\ caller.tries # Retries
  <2>1. caller' = [caller EXCEPT !.todo = DropConn \o <<"pool">>, !.err = "none", !.tries = @ + 1,
                                !.fault = FALSE]
    BY <1>6 DEF Return
  <2>2. caller'.todo = DropConn \o <<"pool">> /\ caller'.err = "none" /\ caller'.ctx = caller.ctx
        /\ caller'.conn = caller.conn
    BY <1>1, <2>1 DEF CallerType
  <2> QED
    BY <1>4, <2>2
<1> QED
  BY <1>3, <1>5, <1>6

LEMMA PoolTells == ASSUME IInv, IInv', Telling, Take \/ Dial \/ TooLate PROVE Telling'
<1>1. /\ CallerType /\ caller.op \in Ops /\ caller.todo # <<>> /\ caller.todo[1] = "pool"
      /\ 1 \in 1..Len(caller.todo) /\ done' = done /\ mysqlConn \in [Conns -> ConnRecord]
      /\ caller.todo[1] \in Alone /\ caller.todo[1] \in Before
  <2>1. At("pool") /\ done' = done
    BY DEF Take, Dial, TooLate
  <2>2. CallerType /\ mysqlConn \in [Conns -> ConnRecord]
    BY DEF IInv, Shape, ConnTypeOK
  <2>3. caller.todo \in Seq(Step) /\ caller.op \in Ops
    BY <2>2 DEF CallerType
  <2> QED
    BY <2>1, <2>2, <2>3 DEF At, Alone, Before
<1>2. caller.err = "none"
  BY <1>1 DEF IInv, Executing
<1>3. ASSUME NEW e, caller' = [caller EXCEPT !.conn = None, !.todo = <<"return">>, !.err = e],
             watcher' = watcher, e # "invalid", e = "ctx" => caller.ctx \in done,
             \/ UNCHANGED mysqlConn
             \/ \E d \in Conns : mysqlConn' = [mysqlConn EXCEPT ![d].pool = "gone"]
      PROVE  Telling'
  <2>1. caller'.conn = None /\ caller'.todo = <<"return">> /\ caller'.err = e /\ caller'.ctx = caller.ctx
    BY <1>1, <1>3 DEF CallerType
  <2>2. \A d \in Conns : /\ mysqlConn'[d].canceled = mysqlConn[d].canceled
                         /\ mysqlConn'[d].closed = mysqlConn[d].closed
                         /\ mysqlConn'[d].net = mysqlConn[d].net
                         /\ InPool(mysqlConn'[d]) => InPool(mysqlConn[d])
    <3>1. CASE UNCHANGED mysqlConn
      BY <3>1
    <3>2. ASSUME NEW d \in Conns, mysqlConn' = [mysqlConn EXCEPT ![d].pool = "gone"]
          PROVE  /\ mysqlConn'[d] = [mysqlConn[d] EXCEPT !.pool = "gone"] /\ mysqlConn[d] \in ConnRecord
                 /\ \A b \in Conns \ {d} : mysqlConn'[b] = mysqlConn[b]
      BY <1>1, <3>2
    <3> QED
      BY <1>3, <3>1, <3>2 DEF ConnRecord, InPool
  <2> QED
    BY <1>1, <1>3, <2>1, <2>2, LetGoTells
<1>4. ASSUME NEW d \in Conns, NEW r \in ConnRecord, NEW T \in {Steps(caller.op), Connecting \o Steps(caller.op)},
             caller' = [caller EXCEPT !.conn = d, !.todo = T], mysqlConn' = [mysqlConn EXCEPT ![d] = r],
             \A b \in Conns \ {d} : watcher'[b] = watcher[b],
             ~r.closed, r.net, r.canceled = None, r.chan = None,
             watcher'[d].at \in {"wait", "dead"}
      PROVE  Telling'
  <2>1. AfterChannel(T) /\ ~Cleans(T) /\ T # <<>> /\ T[1] # "closeNet"
    BY <1>1, <1>4, OperationTalks
  <2>2. caller'.conn = d /\ caller'.todo = T /\ caller'.err = "none" /\ caller'.ctx = caller.ctx
    BY <1>1, <1>2, <1>4 DEF CallerType
  <2>3. mysqlConn'[d] = r /\ \A b \in Conns \ {d} : mysqlConn'[b] = mysqlConn[b]
    BY <1>1, <1>4
  <2>4. Reasoned'
    BY <2>2 DEF Reasoned
  <2>5. Sockets'
    BY <1>4, <2>1, <2>2, <2>3 DEF Telling, Sockets, At
  <2>6. Canceling'
    BY <1>1, <1>4, <2>3 DEF Telling, Canceling
  <2>7. OwnContext' /\ ClosedForAReason'
    BY <1>4, <2>1, <2>2, <2>3 DEF OwnContext, Uses, ClosedForAReason
  <2> QED
    BY <2>4, <2>5, <2>6, <2>7 DEF Telling
<1>5. CASE TooLate
  BY <1>3, <1>5 DEF TooLate
<1>6. CASE Take
  <2>1. PICK d \in Free :
          IF mysqlConn[d].closed
          THEN /\ caller' = [caller EXCEPT !.conn = None, !.todo = <<"return">>, !.err = "badConn"]
               /\ mysqlConn' = [mysqlConn EXCEPT ![d].pool = "gone"]
          ELSE /\ caller' = [caller EXCEPT !.conn = d, !.todo = Steps(caller.op)]
               /\ mysqlConn' = [mysqlConn EXCEPT ![d].pool = "used", ![d].reset = TRUE]
    BY <1>6 DEF Take
  <2>2. d \in Conns /\ mysqlConn[d] \in ConnRecord /\ InPool(mysqlConn[d]) /\ watcher' = watcher
    BY <1>1, <1>6 DEF Free, InPool, Take
  <2>3. CASE mysqlConn[d].closed
    BY <1>3, <2>1, <2>2, <2>3
  <2>4. CASE ~mysqlConn[d].closed
    <3> DEFINE r == [mysqlConn[d] EXCEPT !.pool = "used", !.reset = TRUE]
    <3>1. /\ r \in ConnRecord /\ mysqlConn' = [mysqlConn EXCEPT ![d] = r]
          /\ r.closed = mysqlConn[d].closed /\ r.canceled = mysqlConn[d].canceled
          /\ r.net = mysqlConn[d].net /\ r.chan = mysqlConn[d].chan
      BY <1>1, <2>1, <2>2, <2>4 DEF ConnRecord
    <3> HIDE DEF r
    <3>2. mysqlConn[d].chan = None /\ watcher[d].at \notin {"watch", "cancel", "trySet"}
      BY <1>1, <2>2, <2>4, Unwatched
    <3>3. mysqlConn[d].net /\ mysqlConn[d].canceled = None
      BY <2>2, <2>4, <3>2 DEF Telling, Sockets, Canceling
    <3>4. watcher[d].at \in {"wait", "dead"}
      <4>1. watcher[d].at \notin {"closeChannel", "closeNet"}
        BY <2>2, <3>3 DEF Telling, Canceling
      <4> QED
        BY <2>2, <3>2, <4>1 DEF IInv, Shape, ConnTypeOK
    <3> QED
      BY <1>4, <2>1, <2>2, <2>4, <3>1, <3>2, <3>3, <3>4
  <2> QED
    BY <2>3, <2>4
<1>7. CASE Dial
  <2>1. ASSUME NEW e \in {"badConn", "err"},
               caller' = [caller EXCEPT !.conn = None, !.todo = <<"return">>, !.err = e],
               UNCHANGED <<mysqlConn, watcher>>
        PROVE  Telling'
    BY <1>3, <2>1
  <2>2. ASSUME NEW d \in Room,
               mysqlConn' = [mysqlConn EXCEPT ![d] = [NoConn EXCEPT !.pool = "used", !.net = TRUE, !.peer = TRUE]],
               watcher' = [watcher EXCEPT ![d] = [at |-> "wait", ctx |-> None]],
               caller' = [caller EXCEPT !.conn = d, !.todo = Connecting \o Steps(caller.op)]
        PROVE  Telling'
    <3> DEFINE r == [NoConn EXCEPT !.pool = "used", !.net = TRUE, !.peer = TRUE]
    <3>1. d \in Conns /\ r \in ConnRecord /\ ~r.closed /\ r.net /\ r.canceled = None /\ r.chan = None
      BY DEF Room, NoConn, ConnRecord, Contexts
    <3>2. watcher'[d].at = "wait" /\ \A b \in Conns \ {d} : watcher'[b] = watcher[b]
      BY <2>2, <3>1 DEF IInv, Shape, ConnTypeOK
    <3>3. mysqlConn' = [mysqlConn EXCEPT ![d] = r]
      BY <2>2
    <3> HIDE DEF r
    <3> QED
      BY <1>4, <2>2, <3>1, <3>2, <3>3
  <2> QED
    BY <1>7, <2>1, <2>2 DEF Dial
<1> QED
  BY <1>5, <1>6, <1>7

LEMMA StartTells == ASSUME NEW o \in Ops, IInv, Telling, Start(o) PROVE Telling'
<1>1. CallerType /\ UNCHANGED <<watcher, done>> /\ mysqlConn \in [Conns -> ConnRecord]
      /\ \E ctx \in {Background, caller.call + 1} :
           caller' = [NoCall(caller.call + 1) EXCEPT !.todo = <<"pool">>, !.op = o, !.ctx = ctx]
      /\ mysqlConn' = [d \in Conns |-> IF Garbage(d) THEN NoConn ELSE mysqlConn[d]]
  BY DEF Start, IInv, Shape, ConnTypeOK
<1>2. caller'.todo = <<"pool">> /\ caller'.err = "none" /\ caller'.conn = None
  BY <1>1 DEF NoCall
<1>3. \A d \in Conns : \/ mysqlConn'[d] = mysqlConn[d]
                       \/ /\ mysqlConn'[d].canceled = None /\ ~InPool(mysqlConn'[d])
                          /\ watcher[d].at = "dead"
  BY <1>1 DEF Garbage, NoConn, InPool
<1>4. Leaves(caller'.todo)
  BY <1>2, WaysOutLeave
<1>5. Reasoned' /\ Sockets' /\ Canceling' /\ ClosedForAReason'
  BY <1>1, <1>2, <1>3, <1>4 DEF Telling, Reasoned, Sockets, Canceling, ClosedForAReason, Leaves, At
<1>6. OwnContext'
  BY <1>2 DEF OwnContext, Uses
<1> QED
  BY <1>5, <1>6 DEF Telling


LEMMA WatcherTells == ASSUME NEW d \in Conns, IInv, Telling, WatcherStep(d) PROVE Telling'
<1> DEFINE old == mysqlConn[d]
<1>1. /\ mysqlConn \in [Conns -> ConnRecord] /\ watcher \in [Conns -> WatcherRecord]
      /\ old \in ConnRecord /\ watcher[d] \in WatcherRecord /\ UNCHANGED <<caller, done>>
      /\ old.closed \in BOOLEAN /\ done \subseteq Calls
  BY DEF IInv, Shape, ConnTypeOK, WatcherRecord, WatcherStep, WatcherReceives, WatcherEnds, WatcherWakes,
     Cancel, WatcherCleanup, ConnRecord
<1>2. /\ ~old.closed /\ old.canceled # None => watcher[d].at = "trySet"
      /\ watcher[d].at \in {"trySet", "closeChannel", "closeNet"} => old.canceled # None
      /\ watcher[d].at = "cancel" => watcher[d].ctx \in done /\ watcher[d].ctx # None
      /\ watcher[d].at = "closeNet" => old.closed
      /\ watcher[d].at = "closeChannel" => old.closed
      /\ Uses(d) => /\ old.canceled # None => old.canceled = caller.ctx /\ caller.ctx \in done
                    /\ watcher[d].at \in {"watch", "cancel"} => watcher[d].ctx = caller.ctx
                    /\ old.chan # None => old.chan = caller.ctx
  BY <1>1 DEF Telling, Canceling, Sockets, OwnContext, IInv, Closing, WatcherCloses, Calls, None
<1>3. ASSUME NEW w \in WatcherRecord, NEW r \in ConnRecord,
             watcher' = [watcher EXCEPT ![d] = w], mysqlConn' = [mysqlConn EXCEPT ![d] = r],
             r.peer = old.peer, InPool(r) = InPool(old), old.closed => r.closed,
             r.closed => old.closed \/ r.canceled # None,
             ~r.net => ~old.net \/ (r.closed /\ r.canceled # None),
             old.canceled # None => r.canceled # None,
             ~r.closed /\ r.canceled # None => w.at = "trySet",
             w.at \in {"trySet", "closeChannel", "closeNet"} => r.canceled # None,
             w.at = "cancel" => w.ctx \in done,
             w.at = "closeNet" => r.closed,
             Uses(d) => /\ r.canceled # None => r.canceled = caller.ctx /\ caller.ctx \in done
                        /\ w.at \in {"watch", "cancel"} => w.ctx = caller.ctx
                        /\ r.chan # None => r.chan = caller.ctx
      PROVE  Telling'
  <2>1. /\ watcher'[d] = w /\ mysqlConn'[d] = r
        /\ \A b \in Conns \ {d} : watcher'[b] = watcher[b] /\ mysqlConn'[b] = mysqlConn[b]
    BY <1>1, <1>3
  <2>2. Reasoned'
    BY <1>1, <1>3, <2>1 DEF Telling, Reasoned, Lost, c, mc
  <2>3. Sockets'
    <3>1. ~r.closed /\ InPool(r) => r.net
      BY <1>1, <1>3 DEF Telling, Sockets, ConnRecord
    <3>2. At("closeNet")' => mc'.closed
      <4>1. At("closeNet") => c \in Conns /\ mc.closed
        BY OnConn DEF At, Busy, Telling, Sockets
      <4> QED
        BY <1>1, <1>3, <2>1, <4>1 DEF At, c, mc
    <3> QED
      BY <1>1, <1>3, <2>1, <3>1, <3>2 DEF Telling, Sockets
  <2>4. Canceling'
    BY <1>1, <1>3, <2>1 DEF Telling, Canceling
  <2>5. OwnContext'
    <3>1. \A b \in Conns : Uses(b)' <=> Uses(b)
      BY <1>1 DEF Uses
    <3> QED
      BY <1>1, <1>3, <2>1, <3>1 DEF Telling, OwnContext
  <2>6. ClosedForAReason'
    BY <1>1, <1>3, <2>1 DEF Telling, ClosedForAReason, Hurt, Lost, ConnRecord
  <2> QED
    BY <2>2, <2>3, <2>4, <2>5, <2>6 DEF Telling
<1>4. mysqlConn = [mysqlConn EXCEPT ![d] = old]
  BY <1>1
<1> HIDE DEF old
<1>5. CASE WatcherReceives(d)
  <2> DEFINE w == [at |-> "watch", ctx |-> old.chan]
             r == [old EXCEPT !.chan = None]
  <2>1. /\ w \in WatcherRecord /\ w.at = "watch" /\ w.ctx = old.chan
        /\ r \in ConnRecord /\ r.chan = None /\ r.peer = old.peer /\ InPool(r) = InPool(old)
        /\ r.closed = old.closed /\ r.net = old.net /\ r.canceled = old.canceled
    BY <1>1 DEF WatcherRecord, ConnRecord, Contexts, InPool
  <2>2. watcher' = [watcher EXCEPT ![d] = w] /\ mysqlConn' = [mysqlConn EXCEPT ![d] = r] /\ old.chan # None
        /\ watcher[d].at = "wait"
    BY <1>5 DEF WatcherReceives, Watching, old
  <2> HIDE DEF w, r
  <2> QED
    BY <1>2, <1>3, <2>1, <2>2
<1>6. CASE WatcherEnds(d)
  <2> DEFINE w == [at |-> "dead", ctx |-> None]
  <2>1. w \in WatcherRecord /\ w.at = "dead"
    BY DEF WatcherRecord, Contexts
  <2>2. watcher' = [watcher EXCEPT ![d] = w] /\ mysqlConn' = [mysqlConn EXCEPT ![d] = old]
        /\ watcher[d].at # "trySet"
    BY <1>4, <1>6 DEF WatcherEnds, Watching
  <2> HIDE DEF w
  <2> QED
    BY <1>1, <1>2, <1>3, <2>1, <2>2
<1>7. CASE WatcherWakes(d)
  <2> DEFINE w == [at |-> "cancel", ctx |-> watcher[d].ctx]
  <2>1. w \in WatcherRecord /\ w.at = "cancel" /\ w.ctx = watcher[d].ctx
    BY <1>1 DEF WatcherRecord
  <2>2. watcher' = [watcher EXCEPT ![d] = w] /\ mysqlConn' = [mysqlConn EXCEPT ![d] = old]
        /\ watcher[d].at = "watch" /\ watcher[d].ctx \in done
    BY <1>4, <1>7 DEF WatcherWakes, Watching
  <2> HIDE DEF w
  <2> QED
    BY <1>1, <1>2, <1>3, <2>1, <2>2
<1>8. CASE Cancel(d)
  <2> DEFINE w == [at |-> "trySet", ctx |-> watcher[d].ctx]
             r == [old EXCEPT !.canceled = watcher[d].ctx]
  <2>1. /\ w \in WatcherRecord /\ w.at = "trySet"
        /\ r \in ConnRecord /\ r.chan = old.chan /\ r.peer = old.peer /\ InPool(r) = InPool(old)
        /\ r.closed = old.closed /\ r.net = old.net /\ r.canceled = watcher[d].ctx
    BY <1>1 DEF WatcherRecord, ConnRecord, InPool
  <2>2. watcher' = [watcher EXCEPT ![d] = w] /\ mysqlConn' = [mysqlConn EXCEPT ![d] = r]
        /\ watcher[d].at = "cancel"
    BY <1>8 DEF Cancel, Watching, old
  <2> HIDE DEF w, r
  <2> QED
    BY <1>2, <1>3, <2>1, <2>2
<1>9. CASE WatcherCleanup(d) /\ watcher[d].at = "trySet"
  <2> DEFINE w == [at |-> IF old.closed THEN "wait" ELSE "closeChannel", ctx |-> None]
             r == [old EXCEPT !.closed = TRUE]
  <2>1. /\ w \in WatcherRecord /\ w.at \in {"wait", "closeChannel"}
        /\ r \in ConnRecord /\ r.chan = old.chan /\ r.peer = old.peer /\ InPool(r) = InPool(old)
        /\ r.closed /\ r.net = old.net /\ r.canceled = old.canceled
    BY <1>1 DEF WatcherRecord, ConnRecord, Contexts, InPool
  <2>2. TrySet(old.closed, <<"closeChannel", "closeNet", "wait">>)[1] = w.at
    <3>1. SubSeq(<<"closeChannel", "closeNet", "wait">>, 3, 3)[1] = "wait"
      OBVIOUS
    <3> QED
      BY <3>1 DEF TrySet
  <2>3. watcher' = [watcher EXCEPT ![d] = w] /\ mysqlConn' = [mysqlConn EXCEPT ![d] = r]
    BY <1>9, <2>2 DEF WatcherCleanup, Watching, old
  <2> HIDE DEF w, r
  <2> QED
    BY <1>2, <1>3, <1>9, <2>1, <2>3
<1>10. CASE WatcherCleanup(d) /\ watcher[d].at = "closeChannel"
  <2> DEFINE w == [at |-> "closeNet", ctx |-> None]
             r == [old EXCEPT !.closech = @ + 1]
  <2>1. /\ w \in WatcherRecord /\ w.at = "closeNet"
        /\ r \in ConnRecord /\ r.chan = old.chan /\ r.peer = old.peer /\ InPool(r) = InPool(old)
        /\ r.closed = old.closed /\ r.net = old.net /\ r.canceled = old.canceled
    BY <1>1 DEF WatcherRecord, ConnRecord, Contexts, InPool
  <2>2. watcher' = [watcher EXCEPT ![d] = w] /\ mysqlConn' = [mysqlConn EXCEPT ![d] = r]
    BY <1>10 DEF WatcherCleanup, Watching, old
  <2> HIDE DEF w, r
  <2> QED
    BY <1>2, <1>3, <1>10, <2>1, <2>2
<1>11. CASE WatcherCleanup(d) /\ watcher[d].at = "closeNet"
  <2> DEFINE w == [at |-> "wait", ctx |-> None]
             r == [old EXCEPT !.net = FALSE]
  <2>1. /\ w \in WatcherRecord /\ w.at = "wait"
        /\ r \in ConnRecord /\ r.chan = old.chan /\ r.peer = old.peer /\ InPool(r) = InPool(old)
        /\ r.closed = old.closed /\ ~r.net /\ r.canceled = old.canceled
    BY <1>1 DEF WatcherRecord, ConnRecord, Contexts, InPool
  <2>2. watcher' = [watcher EXCEPT ![d] = w] /\ mysqlConn' = [mysqlConn EXCEPT ![d] = r]
    BY <1>11 DEF WatcherCleanup, Watching, old
  <2> HIDE DEF w, r
  <2> QED
    BY <1>2, <1>3, <1>11, <2>1, <2>2
<1> QED
  BY <1>5, <1>6, <1>7, <1>8, <1>9, <1>10, <1>11 DEF WatcherStep, WatcherCleanup

\* The server may be lost, and a context done, at any time.
LEMMA WorldTells ==
  ASSUME IInv, Telling,
         \/ \E d \in Conns : LosePeer(d)
         \/ \E k \in Calls : ContextDone(k)
         \/ UNCHANGED connVars
  PROVE  Telling'
<1>1. mysqlConn \in [Conns -> ConnRecord]
  BY DEF IInv, Shape, ConnTypeOK
<1>2. caller' = caller /\ watcher' = watcher /\ done \subseteq done'
  BY DEF LosePeer, ContextDone, connVars
<1>3. \A d \in Conns :
        /\ mysqlConn'[d].canceled = mysqlConn[d].canceled /\ mysqlConn'[d].closed = mysqlConn[d].closed
        /\ mysqlConn'[d].net = mysqlConn[d].net /\ mysqlConn'[d].chan = mysqlConn[d].chan
        /\ mysqlConn'[d].pool = mysqlConn[d].pool
        /\ mysqlConn'[d].peer => mysqlConn[d].peer
  <2>1. CASE \E d \in Conns : LosePeer(d)
    <3>1. PICK d \in Conns : mysqlConn' = [mysqlConn EXCEPT ![d].peer = FALSE]
      BY <2>1 DEF LosePeer
    <3> QED
      BY <1>1, <3>1 DEF ConnRecord
  <2>2. CASE ~\E d \in Conns : LosePeer(d)
    BY <2>2 DEF ContextDone, connVars
  <2> QED
    BY <2>1, <2>2
<1>4. At("closeNet") => c \in Conns
  BY OnConn DEF At, Busy
<1>5. Reasoned' /\ Sockets'
  BY <1>2, <1>3, <1>4 DEF Telling, Reasoned, Lost, Sockets, InPool, At, c, mc
<1>6. Canceling' /\ OwnContext' /\ ClosedForAReason'
  BY <1>2, <1>3 DEF Telling, Canceling, OwnContext, Uses, ClosedForAReason, Hurt, Lost
<1> QED
  BY <1>5, <1>6 DEF Telling

LEMMA InitTells == ConnInit => Telling
<1> SUFFICES ASSUME ConnInit PROVE Telling
  OBVIOUS
<1>1. /\ caller.todo = <<>> /\ caller.err = "none"
      /\ \A d \in Conns : /\ mysqlConn[d].canceled = None /\ ~InPool(mysqlConn[d])
                          /\ watcher[d].at = "dead"
  BY DEF ConnInit, NoCall, NoConn, InPool
<1>2. Leaves(caller.todo) /\ ~Busy
  BY <1>1, WaysOutLeave DEF Busy
<1> QED
  BY <1>1, <1>2 DEF Telling, Reasoned, Sockets, Canceling, OwnContext, Uses, ClosedForAReason, Leaves, At, Busy

LEMMA NextTells == ASSUME IInv, IInv', Telling, [ConnNext]_connVars PROVE Telling'
<1>1. CASE CallerStep
  BY <1>1, PoolTells, ConnectTells, TalkTells, ReadTells, FinishTells, CleanupTells, ReturnTells
     DEF CallerStep, Reading
<1>2. CASE \/ Handshake \/ Answer \/ RejectReadOnly \/ SendFileFails \/ RowsFail \/ Drained
           \/ ReadFaulty \/ HandshakeFaulty
  BY <1>2, TalkTells, ReadTells DEF Reading, SendFileFails
<1>3. CASE \E o \in Ops : Start(o)
  BY <1>3, StartTells
<1>4. CASE \E d \in Conns : WatcherStep(d) \/ LosePeer(d)
  BY <1>4, WatcherTells, WorldTells
<1>5. CASE (\E k \in Calls : ContextDone(k)) \/ UNCHANGED connVars
  BY <1>5, WorldTells
<1> QED
  BY <1>1, <1>2, <1>3, <1>4, <1>5 DEF ConnNext

\* mc.error and writePacket's errors: a call reports its context only if that is
\* done, and an invalid connection only if the server was lost, a time limit has
\* passed or a packet was malformed, whichever of the caller and its watcher closed
\* the connection, and when.
THEOREM ErrorsAreTrue == ConnSpec => []TellsCancellation
<1>1. Telling => TellsCancellation
  BY DEF Telling, Reasoned, Lost, TellsCancellation, mc
<1>2. ConnInit => Telling
  BY InitTells
<1>3. IInv /\ IInv' /\ Telling /\ [ConnNext]_connVars => Telling'
  BY NextTells
<1> QED
  BY <1>1, <1>2, <1>3, ConnInvariance, PTL DEF ConnSpec
=============================================================================
