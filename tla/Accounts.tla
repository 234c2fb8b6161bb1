------------------------------ MODULE Accounts ------------------------------
(***************************************************************************)
(* Signing up and logging in (Server/dataHandle/handler.go).               *)
(*                                                                         *)
(* The handlers SIGNIN_CODE and LOGIN_CODE run concurrently, one per       *)
(* datagram, and share the table users of a MySQL database; no lock covers *)
(* their queries, which the database executes one at a time.  Any query    *)
(* may fail.  A panic is recovered in HandleMsg: the handler ends and the  *)
(* client gets no answer.  Rows are never deleted and passwords never      *)
(* updated.  The repository shows no key on userId, so a second row with   *)
(* the same id is stored like any other; a table with such a key is a      *)
(* table where that query fails.                                           *)
(***************************************************************************)
EXTENDS Integers, FiniteSets, SequencesExt

CONSTANTS
  Handler,     \* goroutine slots
  UserId,      \* the ids clients send
  Name,        \* nicknames
  Psw,         \* passwords
  Request,     \* the requests clients send, as parsed by HandleMsg
  NoRequest,   \* the request of a goroutine slot that is not in use
  MaxRequests, \* bound: how many datagrams the server reads in a behaviour
  MaxFailures  \* bound: how many queries fail

ASSUME AccountsAssumption ==
  /\ Request \subseteq [op : {"login", "signin"}, id : UserId, name : Name, psw : Psw]
  /\ NoRequest \notin Request \cup [id : UserId, psw : Psw]
  /\ MaxRequests \in Nat
  /\ MaxFailures \in Nat

VARIABLES
  users,       \* the table users, in the order in which rows were inserted
  pc,          \* where each goroutine is
  req,         \* the request it handles
  flag,        \* the status code that its query returned
  received,    \* how many datagrams were read
  failures,    \* how many queries failed
  userReaders, \* how often userMutex is read-locked
  answers,     \* status codes sent, with their requests (history)
  raced        \* ids that two sign-ups found free at a time (history)

vars == <<users, pc, req, flag, received, failures, userReaders, answers, raced>>

Row == [userId : UserId, userName : Name, userPsw : Psw]

Status == {"LOGIN_SUCCESS", "LOGIN_FAILED", "SIGNIN_SUCCESS", "SIGNIN_FAILED"}

\* "recovered": HandleMsg has recovered from a panic and is about to return.
Label == {"idle", "select", "update", "count", "insert", "reply", "recovered"}

-----------------------------------------------------------------------------
(* Helpers.                                                                *)

Goto(g, label) == pc' = [pc EXCEPT ![g] = label]

Return(g, status) ==
  /\ Goto(g, "reply")
  /\ flag' = [flag EXCEPT ![g] = status]

\* checkErr or panic(err), or the use of a nil *sql.Stmt.
Panic(g) ==
  /\ Goto(g, "recovered")
  /\ UNCHANGED <<users, req, flag, received, userReaders, answers, raced>>

\* The query that g is about to make fails, with whatever HandleMsg makes of it.
FailedQuery(g) ==
  /\ failures < MaxFailures
  /\ failures' = failures + 1
  /\ Panic(g)

RowsOf(table, id) == {i \in DOMAIN table : table[i].userId = id}

-----------------------------------------------------------------------------
(* SIGNIN_CODE.                                                            *)

Receive(g) ==
  /\ pc[g] = "idle"
  /\ received < MaxRequests
  /\ received' = received + 1
  /\ \E m \in Request :
       /\ req' = [req EXCEPT ![g] = m]
       /\ Goto(g, IF m.op = "login" THEN "select" ELSE "count")
  /\ UNCHANGED <<users, flag, failures, userReaders, answers, raced>>

\* The handlers that have found the id free and not yet inserted their row.
Finders(id) == {g \in Handler : pc[g] = "insert" /\ req[g].id = id}

\* Mutant: a sign-up is refused only for an id with the same password.
CountPair(g) ==
  /\ pc[g] = "count"
  /\ \/ /\ \A i \in RowsOf(users, req[g].id) : users[i].userPsw # req[g].psw
        /\ Goto(g, "insert")
        /\ raced' = IF Finders(req[g].id) = {} THEN raced ELSE raced \cup {req[g].id}
        /\ UNCHANGED <<users, req, flag, received, failures, userReaders, answers>>
     \/ /\ \E i \in RowsOf(users, req[g].id) : users[i].userPsw = req[g].psw
        /\ Return(g, "SIGNIN_FAILED")
        /\ UNCHANGED <<users, req, received, failures, userReaders, answers, raced>>
     \/ FailedQuery(g)

\* SELECT COUNT.
Count(g) ==
  /\ pc[g] = "count"
  /\ \/ /\ RowsOf(users, req[g].id) = {}
        /\ Goto(g, "insert")
        /\ raced' = IF Finders(req[g].id) = {} THEN raced ELSE raced \cup {req[g].id}
        /\ UNCHANGED <<users, req, flag, received, failures, userReaders, answers>>
     \/ /\ RowsOf(users, req[g].id) # {}
        /\ Return(g, "SIGNIN_FAILED")
        /\ UNCHANGED <<users, req, received, failures, userReaders, answers, raced>>
     \/ FailedQuery(g)

NewRow(m) == [userId |-> m.id, userName |-> m.name, userPsw |-> m.psw]

\* Mutant: INSERT ... ON DUPLICATE KEY UPDATE.
InsertOrReplace(g) ==
  /\ pc[g] = "insert"
  /\ users' = IF RowsOf(users, req[g].id) = {}
              THEN Append(users, NewRow(req[g]))
              ELSE [i \in DOMAIN users |->
                      IF users[i].userId = req[g].id THEN NewRow(req[g]) ELSE users[i]]
  /\ Return(g, "SIGNIN_SUCCESS")
  /\ UNCHANGED <<req, received, failures, userReaders, answers, raced>>

\* Mutant: the error of INSERT is ignored, as it is for UPDATE.
InsertUnchecked(g) ==
  /\ pc[g] = "insert"
  /\ \/ /\ users' = Append(users, NewRow(req[g]))
        /\ UNCHANGED failures
     \/ /\ failures < MaxFailures
        /\ failures' = failures + 1
        /\ UNCHANGED users
  /\ Return(g, "SIGNIN_SUCCESS")
  /\ UNCHANGED <<req, received, userReaders, answers, raced>>

\* INSERT.  Its error may also come after the database has stored the row.
Insert(g) ==
  /\ pc[g] = "insert"
  /\ \/ /\ users' = Append(users, NewRow(req[g]))
        /\ Return(g, "SIGNIN_SUCCESS")
        /\ UNCHANGED <<req, received, failures, userReaders, answers, raced>>
     \/ /\ failures < MaxFailures
        /\ failures' = failures + 1
        /\ users' = Append(users, NewRow(req[g]))
        /\ Goto(g, "recovered")
        /\ UNCHANGED <<req, flag, received, userReaders, answers, raced>>
     \/ FailedQuery(g)

-----------------------------------------------------------------------------
(* LOGIN_CODE.                                                             *)

\* SELECT *.  Scan takes one of the rows, and fails if there is none.
Select(g) ==
  /\ pc[g] = "select"
  /\ \/ \E i \in RowsOf(users, req[g].id) :
          /\ IF users[i].userPsw = req[g].psw
             THEN Goto(g, "update") /\ UNCHANGED flag
             ELSE Return(g, "LOGIN_FAILED")
          /\ UNCHANGED <<users, req, received, failures, userReaders, answers, raced>>
     \/ /\ RowsOf(users, req[g].id) = {}
        /\ Panic(g)
        /\ UNCHANGED failures
     \/ FailedQuery(g)

\* UPDATE of the nickname.  A failed Prepare leaves stmt nil, and its use
\* panics; the error of Exec is dropped.
Update(g) ==
  /\ pc[g] = "update"
  /\ \/ /\ users' = [i \in DOMAIN users |->
                       IF users[i].userId = req[g].id
                       THEN [users[i] EXCEPT !.userName = req[g].name]
                       ELSE users[i]]
        /\ Return(g, "LOGIN_SUCCESS")
        /\ UNCHANGED <<req, received, failures, userReaders, answers, raced>>
     \/ /\ failures < MaxFailures
        /\ failures' = failures + 1
        /\ Return(g, "LOGIN_SUCCESS")
        /\ UNCHANGED <<users, req, received, userReaders, answers, raced>>
     \/ FailedQuery(g)

-----------------------------------------------------------------------------
(* The end of both handlers.                                               *)

End(g) ==
  /\ Goto(g, "idle")
  /\ req' = [req EXCEPT ![g] = NoRequest]

\* A successful login read-locks userMutex and never unlocks it.
Reply(g) ==
  /\ pc[g] = "reply"
  /\ answers' = Append(answers, [req |-> req[g], status |-> flag[g]])
  /\ userReaders' = IF flag[g] = "LOGIN_SUCCESS" THEN userReaders + 1 ELSE userReaders
  /\ End(g)
  /\ UNCHANGED <<users, flag, received, failures, raced>>

Recovered(g) ==
  /\ pc[g] = "recovered"
  /\ End(g)
  /\ UNCHANGED <<users, flag, received, failures, userReaders, answers, raced>>

HandleMsg(g) ==
  Count(g) \/ Insert(g) \/ Select(g) \/ Update(g) \/ Reply(g) \/ Recovered(g)

Init ==
  /\ users = <<>>
  /\ pc = [g \in Handler |-> "idle"]
  /\ req = [g \in Handler |-> NoRequest]
  /\ flag = [g \in Handler |-> "LOGIN_FAILED"]
  /\ received = 0
  /\ failures = 0
  /\ userReaders = 0
  /\ answers = <<>>
  /\ raced = {}

Next == \E g \in Handler : Receive(g) \/ HandleMsg(g)

Spec == Init /\ [][Next]_vars

-----------------------------------------------------------------------------
(* Properties that hold.                                                   *)

\* Every variable keeps its type; a goroutine that is not idle has a request.
TypeOK ==
  /\ users \in Seq(Row)
  /\ pc \in [Handler -> Label]
  /\ req \in [Handler -> Request \cup {NoRequest}]
  /\ \A g \in Handler : pc[g] # "idle" => req[g] \in Request
  /\ flag \in [Handler -> Status]
  /\ received \in Nat
  /\ failures \in Nat
  /\ userReaders \in Nat
  /\ answers \in Seq([req : Request, status : Status])
  /\ raced \subseteq UserId

Told(m, status) == \E i \in DOMAIN answers : answers[i] = [req |-> m, status |-> status]

\* The rows of the id are there and have the password of the request.
SignedUp(table, m) ==
  /\ RowsOf(table, m.id) # {}
  /\ \A i \in RowsOf(table, m.id) : table[i].userPsw = m.psw

\* Whoever was told SIGNIN_SUCCESS can log in from then on, whatever other
\* sign-ups and logins of the same id do, unless another sign-up had found the
\* id free before the first one's row was stored: then there may be two rows,
\* and which of them a login reads is up to the database (SignInQuery and
\* LoginQuery, handler.go:415-465).
SignedUpCanLogIn ==
  \A m \in Request :
    Told(m, "SIGNIN_SUCCESS") /\ m.id \notin raced => SignedUp(users, m)

\* A login succeeds with a stored password and fails with another one; a
\* sign-up succeeds or is refused for an id that is stored by then.
IsTrue(table, status, m) ==
  /\ status = "LOGIN_SUCCESS" => \E i \in RowsOf(table, m.id) : table[i].userPsw = m.psw
  /\ status = "LOGIN_FAILED" => \E i \in RowsOf(table, m.id) : table[i].userPsw # m.psw
  /\ status \in {"SIGNIN_SUCCESS", "SIGNIN_FAILED"} => RowsOf(table, m.id) # {}

\* A verdict is true when it is told, though it was reached before, and it
\* stays true (handler.go:113-127, 139-153).
VerdictsAreTrue ==
  \A i \in DOMAIN answers : IsTrue(users, answers[i].status, answers[i].req)

Pair(m) == [id |-> m.id, psw |-> m.psw]

\* The row of a sign-up is stored and its client is not yet told.
Owner(g) == pc[g] = "reply" /\ flag[g] = "SIGNIN_SUCCESS"

Passwords(table, id) == {table[i].userPsw : i \in RowsOf(table, id)}

Account == [id \in UserId |-> Passwords(users, id)]

FoundFree == [id \in UserId |-> Finders(id)]

Opened == [g \in Handler |-> IF Owner(g) THEN Pair(req[g]) ELSE NoRequest]

\* What the owners were told.
Granted == {Pair(answers[i].req) : i \in {j \in DOMAIN answers : answers[j].status = "SIGNIN_SUCCESS"}}

\* The promise of AccountBook: what concurrent sign-ups and logins can do to
\* the accounts, and what the owners are told of them.
Book == INSTANCE AccountBook WITH
          NoPair <- NoRequest, account <- Account, finders <- FoundFree,
          opened <- Opened, granted <- Granted

BookSpec == Book!Spec

=============================================================================
