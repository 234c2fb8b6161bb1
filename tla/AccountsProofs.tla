--------------------------- MODULE AccountsProofs ---------------------------
(***************************************************************************)
(* What signing up and logging in guarantee for any number of goroutines,  *)
(* ids, passwords and failing queries.                                     *)
(***************************************************************************)
EXTENDS Accounts, TLAPS, SequenceTheorems

\* How the table may change: rows stay, with their ids and passwords, and a new
\* row has a new id unless two sign-ups have found the id free.
Extends(old, new) ==
  /\ \A i \in DOMAIN old : /\ i \in DOMAIN new
                           /\ new[i].userId = old[i].userId
                           /\ new[i].userPsw = old[i].userPsw
  /\ \A i \in DOMAIN new \ DOMAIN old :
       RowsOf(old, new[i].userId) = {} \/ new[i].userId \in raced

\* A verdict that is true of a table stays true when the table is extended.
LEMMA TruthStays ==
  ASSUME NEW old, NEW new, Extends(old, new), NEW status, NEW m, IsTrue(old, status, m)
  PROVE  IsTrue(new, status, m)
BY DEF Extends, IsTrue, RowsOf

\* A stored password stays stored.
LEMMA PasswordStays ==
  ASSUME NEW old, NEW new, Extends(old, new), NEW m,
         \E i \in RowsOf(old, m.id) : old[i].userPsw = m.psw
  PROVE  \E i \in RowsOf(new, m.id) : new[i].userPsw = m.psw
BY DEF Extends, RowsOf

\* Nobody can add a row to the account of an id that nobody raced for.
LEMMA SignedUpStays ==
  ASSUME NEW old, NEW new, Extends(old, new), NEW m, m.id \notin raced, SignedUp(old, m)
  PROVE  SignedUp(new, m)
<1>1. RowsOf(new, m.id) = RowsOf(old, m.id)
  BY DEF Extends, SignedUp, RowsOf
<1>2. QED
  BY <1>1 DEF Extends, SignedUp, RowsOf

-----------------------------------------------------------------------------
(* The inductive invariant: what a goroutine has found out about the table *)
(* is true of the table as it is now.                                      *)

Pending ==
  \A g \in Handler :
    /\ pc[g] \in {"select", "update"} => req[g].op = "login"
    /\ pc[g] \in {"count", "insert"} => req[g].op = "signin"
    /\ pc[g] = "update" => \E i \in RowsOf(users, req[g].id) : users[i].userPsw = req[g].psw
    /\ pc[g] = "reply" => IsTrue(users, flag[g], req[g])
    /\ Owner(g) /\ req[g].id \notin raced => SignedUp(users, req[g])

\* For an id that nobody raced for there is one row, or one sign-up that has
\* found it free.
Alone ==
  \A id \in UserId \ raced :
    /\ \A i, j \in RowsOf(users, id) : i = j
    /\ \A g, h \in Finders(id) : g = h
    /\ RowsOf(users, id) # {} => Finders(id) = {}

IInv == TypeOK /\ Alone /\ Pending /\ VerdictsAreTrue /\ SignedUpCanLogIn

\* The steps that leave the table and the answers alone, or extend the table.
LEMMA ExtendStep ==
  ASSUME IInv, TypeOK', Extends(users, users'), raced \subseteq raced', UNCHANGED answers,
         NEW g \in Handler,
         \A h \in Handler \ {g} : pc'[h] = pc[h] /\ req'[h] = req[h] /\ flag'[h] = flag[h],
         pc'[g] \in {"select", "update"} => req'[g].op = "login",
         pc'[g] \in {"count", "insert"} => req'[g].op = "signin",
         pc'[g] = "update" =>
           \E i \in RowsOf(users', req'[g].id) : users'[i].userPsw = req'[g].psw,
         pc'[g] = "reply" => IsTrue(users', flag'[g], req'[g]),
         Owner(g)' /\ req'[g].id \notin raced' => SignedUp(users', req'[g])
  PROVE  Pending' /\ VerdictsAreTrue' /\ SignedUpCanLogIn'
<1>1. Pending'
  <2> SUFFICES ASSUME NEW h \in Handler
               PROVE  /\ pc'[h] \in {"select", "update"} => req'[h].op = "login"
                      /\ pc'[h] \in {"count", "insert"} => req'[h].op = "signin"
                      /\ pc'[h] = "update" =>
                           \E i \in RowsOf(users', req'[h].id) : users'[i].userPsw = req'[h].psw
                      /\ pc'[h] = "reply" => IsTrue(users', flag'[h], req'[h])
                      /\ Owner(h)' /\ req'[h].id \notin raced' => SignedUp(users', req'[h])
    BY DEF Pending, IsTrue, SignedUp, RowsOf
  <2>1. CASE h = g
    BY <2>1
  <2>2. CASE h # g
    <3>1. pc'[h] = pc[h] /\ req'[h] = req[h] /\ flag'[h] = flag[h]
      BY <2>2
    <3>2. pc[h] = "update" =>
            \E i \in RowsOf(users', req[h].id) : users'[i].userPsw = req[h].psw
      BY PasswordStays DEF IInv, Pending
    <3>3. pc[h] = "reply" => IsTrue(users', flag[h], req[h])
      BY TruthStays DEF IInv, Pending
    <3>4. Owner(h) /\ req[h].id \notin raced' => SignedUp(users', req[h])
      BY SignedUpStays DEF IInv, Pending
    <3>5. QED
      BY <3>1, <3>2, <3>3, <3>4 DEF IInv, Pending, Owner
  <2>3. QED
    BY <2>1, <2>2
<1>2. VerdictsAreTrue'
  <2>1. \A i \in DOMAIN answers : IsTrue(users', answers[i].status, answers[i].req)
    BY TruthStays DEF IInv, VerdictsAreTrue
  <2>2. QED
    BY <2>1 DEF VerdictsAreTrue, IsTrue, RowsOf
<1>3. SignedUpCanLogIn'
  <2>1. \A m \in Request : Told(m, "SIGNIN_SUCCESS") /\ m.id \notin raced' => SignedUp(users', m)
    BY SignedUpStays DEF IInv, SignedUpCanLogIn
  <2>2. QED
    BY <2>1 DEF SignedUpCanLogIn, Told, SignedUp, RowsOf
<1>4. QED
  BY <1>1, <1>2, <1>3

-----------------------------------------------------------------------------
(* The three things that happen to the table.                              *)

\* No id gets a row or somebody who has found it free.
LEMMA AloneStays ==
  ASSUME Alone, UNCHANGED raced, \A id \in UserId : RowsOf(users', id) = RowsOf(users, id),
         \A h \in Handler : pc'[h] = "insert" => pc[h] = "insert" /\ req'[h] = req[h]
  PROVE  Alone'
<1>1. \A id \in UserId : Finders(id)' \subseteq Finders(id)
  BY DEF Finders
<1>2. \A id \in UserId : RowsOf(users, id)' = RowsOf(users, id)
  BY DEF RowsOf
<1> QED
  BY <1>1, <1>2 DEF Alone

\* Nothing.
LEMMA SameTable ==
  ASSUME IInv, users' = users
  PROVE  Extends(users, users') /\ \A id \in UserId : RowsOf(users', id) = RowsOf(users, id)
BY DEF Extends

\* A row is appended.
LEMMA NewRowTable ==
  ASSUME IInv, NEW g \in Handler, pc[g] = "insert", NEW m \in Request, m = req[g],
         users' = Append(users, NewRow(m)),
         pc'[g] # "insert", \A h \in Handler \ {g} : pc'[h] = pc[h],
         UNCHANGED <<req, raced>>
  PROVE  /\ users' \in Seq(Row)
         /\ Extends(users, users')
         /\ Alone'
         /\ RowsOf(users', m.id) # {}
         /\ m.id \notin raced => SignedUp(users', m)
<1> DEFINE n == Len(users) + 1
<1>1. users \in Seq(Row) /\ Len(users) \in Nat /\ DOMAIN users = 1..Len(users)
  BY LenProperties DEF IInv, TypeOK
<1>2. NewRow(m) \in Row
  BY AccountsAssumption DEF NewRow, Row
<1>3. /\ users' \in Seq(Row)
      /\ Len(users') = n
      /\ \A i \in 1..Len(users) : users'[i] = users[i]
      /\ users'[n] = NewRow(m)
  BY <1>1, <1>2, AppendProperties
<1>4. DOMAIN users' = DOMAIN users \cup {n} /\ n \notin DOMAIN users
  BY <1>1, <1>3, LenProperties
<1>5. users'[n].userId = m.id /\ users'[n].userPsw = m.psw
  BY <1>3 DEF NewRow
<1> HIDE DEF n
<1>6. \A i \in DOMAIN users : users'[i] = users[i]
  BY <1>1, <1>3
<1>7. m.id \in UserId /\ g \in Finders(m.id)
  BY AccountsAssumption DEF Finders
<1>8. m.id \notin raced => RowsOf(users, m.id) = {} /\ Finders(m.id) = {g}
  BY <1>7 DEF IInv, Alone
<1>9. Extends(users, users')
  BY <1>4, <1>5, <1>6, <1>8 DEF Extends
<1>10. \A id \in UserId : RowsOf(users', id) = IF id = m.id THEN RowsOf(users, id) \cup {n}
                                               ELSE RowsOf(users, id)
  BY <1>4, <1>5, <1>6 DEF RowsOf
<1>11. \A id \in UserId : Finders(id)' = Finders(id) \ {g}
  BY DEF Finders
<1>12. Alone'
  <2> SUFFICES ASSUME NEW id \in UserId \ raced
               PROVE  /\ \A i, j \in RowsOf(users', id) : i = j
                      /\ \A h, k \in Finders(id)' : h = k
                      /\ RowsOf(users', id) # {} => Finders(id)' = {}
    BY DEF Alone, RowsOf
  <2>1. CASE id = m.id
    BY <1>8, <1>10, <1>11, <2>1
  <2>2. CASE id # m.id
    BY <1>10, <1>11, <2>2 DEF IInv, Alone
  <2> QED
    BY <2>1, <2>2
<1>13. RowsOf(users', m.id) # {} /\ (m.id \notin raced => SignedUp(users', m))
  BY <1>5, <1>7, <1>8, <1>10 DEF SignedUp
<1>14. QED
  BY <1>3, <1>9, <1>12, <1>13

\* The rows of an id get a nickname.
LEMMA NewNameTable ==
  ASSUME IInv, NEW m \in Request,
         users' = [i \in DOMAIN users |->
                     IF users[i].userId = m.id
                     THEN [users[i] EXCEPT !.userName = m.name]
                     ELSE users[i]]
  PROVE  /\ users' \in Seq(Row)
         /\ Extends(users, users')
         /\ \A id \in UserId : RowsOf(users', id) = RowsOf(users, id)
<1>1. users \in Seq(Row) /\ Len(users) \in Nat /\ DOMAIN users = 1..Len(users)
  BY LenProperties DEF IInv, TypeOK
<1>2. ASSUME NEW i \in DOMAIN users
      PROVE  /\ users'[i] \in Row
             /\ users'[i].userId = users[i].userId
             /\ users'[i].userPsw = users[i].userPsw
  <2>1. users[i] \in Row
    BY <1>1, ElementOfSeq
  <2>2. [users[i] EXCEPT !.userName = m.name]
          = [userId |-> users[i].userId, userName |-> m.name, userPsw |-> users[i].userPsw]
    BY <2>1 DEF Row
  <2>3. m.name \in Name
    BY AccountsAssumption
  <2>4. QED
    BY <2>1, <2>2, <2>3 DEF Row
<1>3. DOMAIN users' = DOMAIN users
  OBVIOUS
<1>4. users' \in Seq(Row)
  BY <1>1, <1>2, SeqDef
<1>5. Extends(users, users')
  BY <1>2, <1>3 DEF Extends
<1>6. \A id \in UserId : RowsOf(users', id) = RowsOf(users, id)
  BY <1>2, <1>3 DEF RowsOf
<1>7. QED
  BY <1>4, <1>5, <1>6

-----------------------------------------------------------------------------
(* The steps of a goroutine.                                               *)

\* What the action of one goroutine leaves of the type invariant to show.
LEMMA GotoType ==
  ASSUME IInv, NEW g \in Handler, NEW label \in Label, Goto(g, label),
         UNCHANGED req, pc[g] # "idle"
  PROVE  /\ pc' \in [Handler -> Label] /\ pc'[g] = label
         /\ \A h \in Handler \ {g} : pc'[h] = pc[h]
         /\ \A h \in Handler : pc'[h] # "idle" => req'[h] \in Request
BY DEF IInv, TypeOK, Goto

\* A panic: the goroutine knows nothing and tells nothing.
LEMMA PanicStep ==
  ASSUME IInv, NEW g \in Handler, Panic(g), pc[g] # "idle", failures' \in Nat
  PROVE  IInv'
<1>1. UNCHANGED <<users, req, flag, received, userReaders, answers, raced>>
      /\ Goto(g, "recovered") /\ "recovered" \in Label
  BY DEF Panic, Label
<1>2. /\ pc' \in [Handler -> Label] /\ pc'[g] = "recovered"
      /\ \A h \in Handler \ {g} : pc'[h] = pc[h]
      /\ \A h \in Handler : pc'[h] # "idle" => req'[h] \in Request
  BY <1>1, GotoType
<1>3. TypeOK'
  BY <1>1, <1>2 DEF IInv, TypeOK
<1>4. Extends(users, users') /\ Alone'
  BY <1>1, <1>2, SameTable, AloneStays DEF IInv
<1>5. Pending' /\ VerdictsAreTrue' /\ SignedUpCanLogIn'
  BY <1>1, <1>2, <1>3, <1>4, ExtendStep DEF Owner
<1>6. QED
  BY <1>3, <1>4, <1>5 DEF IInv

\* A query that fails is a panic.
LEMMA FailedQueryStep ==
  ASSUME IInv, NEW g \in Handler, FailedQuery(g), pc[g] # "idle"
  PROVE  IInv'
<1>1. failures' \in Nat
  BY DEF FailedQuery, IInv, TypeOK
<1>2. QED
  BY <1>1, PanicStep DEF FailedQuery

\* A datagram is read.
LEMMA ReceiveStep ==
  ASSUME IInv, NEW g \in Handler, Receive(g)
  PROVE  IInv'
<1>1. PICK m \in Request : /\ req' = [req EXCEPT ![g] = m]
                           /\ Goto(g, IF m.op = "login" THEN "select" ELSE "count")
  BY DEF Receive
<1>2. UNCHANGED <<users, flag, failures, userReaders, answers, raced>> /\ received' = received + 1
  BY DEF Receive
<1>3. m.op \in {"login", "signin"}
  BY AccountsAssumption
<1>4. /\ req'[g] = m
      /\ \A h \in Handler \ {g} : pc'[h] = pc[h] /\ req'[h] = req[h]
      /\ pc'[g] = IF m.op = "login" THEN "select" ELSE "count"
  BY <1>1 DEF IInv, TypeOK, Goto
<1>5. TypeOK'
  BY <1>1, <1>2, <1>4 DEF IInv, TypeOK, Goto, Label
<1>6. Extends(users, users') /\ Alone'
  BY <1>2, <1>4, SameTable, AloneStays DEF IInv
<1>7. Pending' /\ VerdictsAreTrue' /\ SignedUpCanLogIn'
  BY <1>2, <1>3, <1>4, <1>5, <1>6, ExtendStep DEF Owner
<1>8. QED
  BY <1>5, <1>6, <1>7 DEF IInv

\* A goroutine that goes on to anything but the insertion.
LEMMA ReturnLeaves ==
  ASSUME IInv, NEW g \in Handler, NEW label, label # "insert", Goto(g, label) \/ Return(g, label),
         UNCHANGED <<req, raced>>, \A id \in UserId : RowsOf(users', id) = RowsOf(users, id)
  PROVE  Alone'
BY AloneStays DEF IInv, TypeOK, Goto, Return

\* A goroutine has its verdict, true of the table as it now is.
LEMMA ReturnStep ==
  ASSUME IInv, NEW g \in Handler, pc[g] # "idle",
         NEW status \in Status, Return(g, status),
         UNCHANGED <<req, received, userReaders, answers, raced>>, failures' \in Nat,
         users' \in Seq(Row), Extends(users, users'), Alone',
         IsTrue(users', status, req[g]),
         status = "SIGNIN_SUCCESS" /\ req[g].id \notin raced => SignedUp(users', req[g])
  PROVE  IInv'
<1>1. /\ pc' \in [Handler -> Label] /\ pc'[g] = "reply"
      /\ \A h \in Handler \ {g} : pc'[h] = pc[h]
      /\ \A h \in Handler : pc'[h] # "idle" => req'[h] \in Request
  BY GotoType DEF Return, Label
<1>2. /\ flag' \in [Handler -> Status] /\ flag'[g] = status
      /\ \A h \in Handler \ {g} : flag'[h] = flag[h]
  BY DEF Return, IInv, TypeOK
<1>3. TypeOK'
  BY <1>1, <1>2 DEF IInv, TypeOK
<1>4. Pending' /\ VerdictsAreTrue' /\ SignedUpCanLogIn'
  BY <1>1, <1>2, <1>3, ExtendStep DEF Owner
<1>5. QED
  BY <1>3, <1>4 DEF IInv

\* A goroutine goes on to its second query, without a verdict.
LEMMA GoOnStep ==
  ASSUME IInv, NEW g \in Handler, NEW label \in {"insert", "update"}, Goto(g, label),
         pc[g] # "idle",
         UNCHANGED <<users, req, flag, received, failures, userReaders, answers>>,
         raced \subseteq raced', raced' \subseteq UserId, Alone',
         label = "insert" => req[g].op = "signin",
         label = "update" =>
           /\ req[g].op = "login"
           /\ \E i \in RowsOf(users, req[g].id) : users[i].userPsw = req[g].psw
  PROVE  IInv'
<1>1. /\ pc' \in [Handler -> Label] /\ pc'[g] = label
      /\ \A h \in Handler \ {g} : pc'[h] = pc[h]
      /\ \A h \in Handler : pc'[h] # "idle" => req'[h] \in Request
  BY GotoType DEF Label
<1>2. TypeOK'
  BY <1>1 DEF IInv, TypeOK
<1>3. Extends(users, users')
  BY SameTable
<1>4. Pending' /\ VerdictsAreTrue' /\ SignedUpCanLogIn'
  BY <1>1, <1>2, <1>3, ExtendStep DEF Owner
<1>5. QED
  BY <1>2, <1>3, <1>4 DEF IInv

\* SELECT COUNT finds the id stored, or not, or fails.
LEMMA CountStep ==
  ASSUME IInv, NEW g \in Handler, Count(g)
  PROVE  IInv'
<1>1. pc[g] = "count" /\ pc[g] # "idle" /\ req[g].op = "signin"
  BY DEF Count, IInv, Pending
<1>2. CASE FailedQuery(g)
  BY <1>1, <1>2, FailedQueryStep
<1>3. CASE /\ RowsOf(users, req[g].id) = {}
           /\ Goto(g, "insert")
           /\ raced' = IF Finders(req[g].id) = {} THEN raced ELSE raced \cup {req[g].id}
           /\ UNCHANGED <<users, req, flag, received, failures, userReaders, answers>>
  <2>1. req[g].id \in UserId
    BY <1>1, AccountsAssumption DEF IInv, TypeOK
  <2>2. raced \subseteq raced' /\ raced' \subseteq UserId
    BY <1>3, <2>1 DEF IInv, TypeOK
  <2>3. pc'[g] = "insert" /\ \A h \in Handler \ {g} : pc'[h] = pc[h]
    BY <1>3 DEF Goto, IInv, TypeOK
  <2>4. \A id \in UserId : Finders(id)' = IF id = req[g].id THEN Finders(id) \cup {g} ELSE Finders(id)
    BY <1>3, <2>3 DEF Finders
  <2>5. \A id \in UserId : RowsOf(users, id)' = RowsOf(users, id)
    BY <1>3 DEF RowsOf
  <2>6. Alone'
    BY <1>3, <2>2, <2>4, <2>5 DEF IInv, Alone
  <2> QED
    BY <1>1, <1>3, <2>2, <2>6, GoOnStep
<1>4. CASE /\ RowsOf(users, req[g].id) # {}
           /\ Return(g, "SIGNIN_FAILED")
           /\ UNCHANGED <<users, req, received, failures, userReaders, answers, raced>>
  <2>1. Extends(users, users') /\ Alone' /\ users' \in Seq(Row) /\ failures' \in Nat
    BY <1>4, SameTable, ReturnLeaves DEF IInv, TypeOK
  <2>2. IsTrue(users', "SIGNIN_FAILED", req[g]) /\ "SIGNIN_FAILED" \in Status
    BY <1>4 DEF IsTrue, Status
  <2>3. QED
    BY <1>1, <1>4, <2>1, <2>2, ReturnStep
<1>5. QED
  BY <1>2, <1>3, <1>4 DEF Count

\* INSERT opens an account, or fails before or after the row is stored.
LEMMA InsertStep ==
  ASSUME IInv, NEW g \in Handler, Insert(g)
  PROVE  IInv'
<1> DEFINE m == req[g]
<1>1. pc[g] = "insert" /\ pc[g] # "idle" /\ m.op = "signin" /\ m \in Request
  BY DEF Insert, IInv, Pending, TypeOK
<1>2. ASSUME NEW label \in {"reply", "recovered"}, users' = Append(users, NewRow(m)), Goto(g, label),
             UNCHANGED <<req, raced>>
      PROVE  /\ users' \in Seq(Row) /\ Extends(users, users') /\ Alone'
             /\ RowsOf(users', m.id) # {}
             /\ m.id \notin raced => SignedUp(users', m)
  <2>1. pc'[g] # "insert" /\ \A h \in Handler \ {g} : pc'[h] = pc[h]
    BY <1>2 DEF Goto, IInv, TypeOK
  <2>2. PICK n \in Request : n = req[g]
    BY <1>1
  <2>3. users' = Append(users, NewRow(n))
    BY <1>2, <2>2
  <2>4. /\ users' \in Seq(Row) /\ Extends(users, users') /\ Alone'
        /\ RowsOf(users', n.id) # {}
        /\ n.id \notin raced => SignedUp(users', n)
    BY <1>1, <1>2, <2>1, <2>2, <2>3, NewRowTable
  <2> QED
    BY <2>2, <2>4
<1>3. CASE /\ users' = Append(users, NewRow(m))
           /\ Return(g, "SIGNIN_SUCCESS")
           /\ UNCHANGED <<req, received, failures, userReaders, answers, raced>>
  <2>1. /\ users' \in Seq(Row) /\ Extends(users, users') /\ Alone'
        /\ RowsOf(users', m.id) # {}
        /\ m.id \notin raced => SignedUp(users', m)
    BY <1>2, <1>3 DEF Return
  <2> HIDE DEF m
  <2>2. IsTrue(users', "SIGNIN_SUCCESS", m) /\ "SIGNIN_SUCCESS" \in Status /\ failures' \in Nat
    BY <1>3, <2>1 DEF IsTrue, Status, IInv, TypeOK
  <2>3. QED
    BY <1>1, <1>3, <2>1, <2>2, ReturnStep DEF m
<1>4. CASE /\ failures' = failures + 1
           /\ users' = Append(users, NewRow(m))
           /\ Goto(g, "recovered")
           /\ UNCHANGED <<req, flag, received, userReaders, answers, raced>>
  <2>1. /\ pc' \in [Handler -> Label] /\ pc'[g] = "recovered"
        /\ \A h \in Handler \ {g} : pc'[h] = pc[h]
        /\ \A h \in Handler : pc'[h] # "idle" => req'[h] \in Request
    BY <1>1, <1>4, GotoType DEF Label
  <2>2. users' \in Seq(Row) /\ Extends(users, users') /\ Alone'
    BY <1>2, <1>4
  <2> HIDE DEF m
  <2>3. TypeOK'
    BY <1>4, <2>1, <2>2 DEF IInv, TypeOK
  <2>4. Pending' /\ VerdictsAreTrue' /\ SignedUpCanLogIn'
    BY <1>4, <2>1, <2>2, <2>3, ExtendStep DEF Owner
  <2>5. QED
    BY <2>2, <2>3, <2>4 DEF IInv
<1>5. CASE FailedQuery(g)
  BY <1>1, <1>5, FailedQueryStep
<1>6. QED
  BY <1>3, <1>4, <1>5 DEF Insert

\* SELECT finds the password of the request, another one, no row, or fails.
LEMMA SelectStep ==
  ASSUME IInv, NEW g \in Handler, Select(g)
  PROVE  IInv'
<1>1. pc[g] = "select" /\ pc[g] # "idle" /\ req[g].op = "login"
  BY DEF Select, IInv, Pending
<1>2. CASE FailedQuery(g)
  BY <1>1, <1>2, FailedQueryStep
<1>3. CASE Panic(g) /\ UNCHANGED failures
  <2>1. failures' \in Nat
    BY <1>3 DEF IInv, TypeOK
  <2>2. QED
    BY <1>1, <1>3, <2>1, PanicStep
<1>4. ASSUME NEW i \in RowsOf(users, req[g].id),
             IF users[i].userPsw = req[g].psw
             THEN Goto(g, "update") /\ UNCHANGED flag
             ELSE Return(g, "LOGIN_FAILED"),
             UNCHANGED <<users, req, received, failures, userReaders, answers, raced>>
      PROVE  IInv'
  <2>1. CASE users[i].userPsw = req[g].psw
    <3>1. Goto(g, "update") /\ UNCHANGED flag
      BY <1>4, <2>1
    <3>2. Alone' /\ raced \subseteq raced' /\ raced' \subseteq UserId
      BY <1>4, <3>1, SameTable, ReturnLeaves DEF IInv, TypeOK
    <3>3. QED
      BY <1>1, <1>4, <2>1, <3>1, <3>2, GoOnStep
  <2>2. CASE users[i].userPsw # req[g].psw
    <3>1. Extends(users, users') /\ Alone' /\ users' \in Seq(Row) /\ failures' \in Nat
      BY <1>4, <2>2, SameTable, ReturnLeaves DEF IInv, TypeOK
    <3>2. IsTrue(users', "LOGIN_FAILED", req[g]) /\ "LOGIN_FAILED" \in Status
      BY <1>4, <2>2 DEF IsTrue, Status
    <3>3. Return(g, "LOGIN_FAILED")
      BY <1>4, <2>2
    <3>4. QED
      BY <1>1, <1>4, <3>1, <3>2, <3>3, ReturnStep
  <2>3. QED
    BY <2>1, <2>2
<1>5. QED
  BY <1>2, <1>3, <1>4 DEF Select

\* UPDATE renames the user, or fails with or without a trace.
LEMMA UpdateStep ==
  ASSUME IInv, NEW g \in Handler, Update(g)
  PROVE  IInv'
<1> DEFINE m == req[g]
           Renamed == [i \in DOMAIN users |->
                         IF users[i].userId = m.id
                         THEN [users[i] EXCEPT !.userName = m.name]
                         ELSE users[i]]
<1>1. /\ pc[g] = "update" /\ pc[g] # "idle" /\ m \in Request
      /\ \E i \in RowsOf(users, m.id) : users[i].userPsw = m.psw
  BY DEF Update, IInv, Pending, TypeOK
<1>2. CASE FailedQuery(g)
  BY <1>1, <1>2, FailedQueryStep
<1>3. CASE /\ users' \in {users, Renamed}
           /\ failures' \in {failures, failures + 1}
           /\ Return(g, "LOGIN_SUCCESS")
           /\ UNCHANGED <<req, received, userReaders, answers, raced>>
  <2>1. m \in Request
    BY <1>1
  <2>2. CASE users' = users
    <3>1. users' \in Seq(Row) /\ Extends(users, users') /\ Alone'
      BY <1>3, <2>2, SameTable, ReturnLeaves DEF IInv, TypeOK
    <3>2. IsTrue(users', "LOGIN_SUCCESS", m) /\ "LOGIN_SUCCESS" \in Status /\ failures' \in Nat
      BY <1>1, <1>3, <2>2 DEF IsTrue, Status, IInv, TypeOK
    <3>3. QED
      BY <1>1, <1>3, <3>1, <3>2, ReturnStep
  <2>3. CASE users' = Renamed
    <3> HIDE DEF m
    <3>1. users' \in Seq(Row) /\ Extends(users, users') /\ Alone'
      BY <1>3, <2>1, <2>3, NewNameTable, ReturnLeaves
    <3>2. \E i \in RowsOf(users', m.id) : users'[i].userPsw = m.psw
      BY <1>1, <3>1, PasswordStays
    <3>3. IsTrue(users', "LOGIN_SUCCESS", m) /\ "LOGIN_SUCCESS" \in Status /\ failures' \in Nat
      BY <1>3, <3>2 DEF IsTrue, Status, IInv, TypeOK
    <3>4. QED
      BY <1>1, <1>3, <3>1, <3>3, ReturnStep DEF m
  <2>4. QED
    BY <1>3, <2>2, <2>3
<1>4. QED
  BY <1>2, <1>3 DEF Update

\* A handler that ends has no request.
LEMMA EndType ==
  ASSUME IInv, NEW g \in Handler, End(g)
  PROVE  /\ pc' \in [Handler -> Label] /\ pc'[g] = "idle"
         /\ req' \in [Handler -> Request \cup {NoRequest}]
         /\ \A h \in Handler \ {g} : pc'[h] = pc[h] /\ req'[h] = req[h]
         /\ \A h \in Handler : pc'[h] # "idle" => req'[h] \in Request
BY DEF End, Goto, IInv, TypeOK, Label

\* HandleMsg returns after a panic.
LEMMA RecoveredStep ==
  ASSUME IInv, NEW g \in Handler, Recovered(g)
  PROVE  IInv'
<1>1. End(g) /\ UNCHANGED <<users, flag, received, failures, userReaders, answers, raced>>
  BY DEF Recovered
<1>2. /\ pc' \in [Handler -> Label] /\ pc'[g] = "idle"
      /\ req' \in [Handler -> Request \cup {NoRequest}]
      /\ \A h \in Handler \ {g} : pc'[h] = pc[h] /\ req'[h] = req[h]
      /\ \A h \in Handler : pc'[h] # "idle" => req'[h] \in Request
  BY <1>1, EndType
<1>3. TypeOK'
  BY <1>1, <1>2 DEF IInv, TypeOK
<1>4. Extends(users, users') /\ Alone'
  BY <1>1, <1>2, SameTable, AloneStays DEF IInv
<1>5. Pending' /\ VerdictsAreTrue' /\ SignedUpCanLogIn'
  BY <1>1, <1>2, <1>3, <1>4, ExtendStep DEF Owner
<1>6. QED
  BY <1>3, <1>4, <1>5 DEF IInv

\* A verdict is told: it was true when it was reached and still is.
LEMMA ReplyStep ==
  ASSUME IInv, NEW g \in Handler, Reply(g)
  PROVE  IInv'
<1> DEFINE a == [req |-> req[g], status |-> flag[g]]
<1>1. /\ pc[g] = "reply" /\ End(g) /\ answers' = Append(answers, a)
      /\ UNCHANGED <<users, flag, received, failures, raced>>
      /\ userReaders' \in Nat
  BY DEF Reply, IInv, TypeOK
<1>2. /\ pc' \in [Handler -> Label] /\ pc'[g] = "idle"
      /\ req' \in [Handler -> Request \cup {NoRequest}]
      /\ \A h \in Handler \ {g} : pc'[h] = pc[h] /\ req'[h] = req[h]
      /\ \A h \in Handler : pc'[h] # "idle" => req'[h] \in Request
  BY <1>1, EndType
<1>3. /\ a \in [req : Request, status : Status]
      /\ IsTrue(users, a.status, a.req)
      /\ a.status = "SIGNIN_SUCCESS" /\ a.req.id \notin raced => SignedUp(users, a.req)
  BY <1>1 DEF IInv, TypeOK, Pending, Owner
<1> HIDE DEF a
<1>4. /\ answers' \in Seq([req : Request, status : Status])
      /\ \A i \in DOMAIN answers' : answers'[i] = a \/ \E j \in DOMAIN answers : answers'[i] = answers[j]
  <2>1. answers \in Seq([req : Request, status : Status]) /\ Len(answers) \in Nat
        /\ DOMAIN answers = 1..Len(answers)
    BY LenProperties DEF IInv, TypeOK
  <2>2. /\ answers' \in Seq([req : Request, status : Status])
        /\ Len(answers') = Len(answers) + 1
        /\ \A i \in 1..Len(answers) : answers'[i] = answers[i]
        /\ answers'[Len(answers) + 1] = a
    BY <1>1, <1>3, <2>1, AppendProperties
  <2>3. DOMAIN answers' = 1..Len(answers) + 1
    BY <2>2, LenProperties
  <2>4. QED
    BY <2>1, <2>2, <2>3
<1>5. TypeOK'
  BY <1>1, <1>2, <1>4 DEF IInv, TypeOK
<1>6. Alone'
  BY <1>1, <1>2, SameTable, AloneStays DEF IInv
<1>7. Pending'
  <2>1. \A h \in Handler : pc'[h] # "idle" => pc'[h] = pc[h] /\ req'[h] = req[h]
    BY <1>2
  <2>2. QED
    BY <1>1, <2>1 DEF IInv, Pending, IsTrue, SignedUp, RowsOf, Owner
<1>8. VerdictsAreTrue'
  <2>1. \A i \in DOMAIN answers' : IsTrue(users, answers'[i].status, answers'[i].req)
    BY <1>3, <1>4 DEF IInv, VerdictsAreTrue
  <2>2. QED
    BY <1>1, <2>1 DEF VerdictsAreTrue
<1>9. SignedUpCanLogIn'
  <2>1. ASSUME NEW m \in Request, m.id \notin raced, Told(m, "SIGNIN_SUCCESS")'
        PROVE  SignedUp(users, m)
    <3>1. PICK i \in DOMAIN answers' : answers'[i] = [req |-> m, status |-> "SIGNIN_SUCCESS"]
      BY <2>1 DEF Told
    <3>2. CASE answers'[i] = a
      BY <1>3, <2>1, <3>1, <3>2
    <3>3. CASE \E j \in DOMAIN answers : answers'[i] = answers[j]
      BY <2>1, <3>1, <3>3 DEF IInv, SignedUpCanLogIn, Told
    <3>4. QED
      BY <1>4, <3>2, <3>3
  <2>2. QED
    BY <1>1, <2>1 DEF SignedUpCanLogIn
<1>10. QED
  BY <1>5, <1>6, <1>7, <1>8, <1>9 DEF IInv

-----------------------------------------------------------------------------
(* The theorems.                                                           *)

\* Nothing is stored and nobody was told anything in the beginning.
LEMMA InitIInv == Init => IInv
<1> SUFFICES ASSUME Init PROVE IInv
  OBVIOUS
<1>1. users = <<>> /\ answers = <<>> /\ DOMAIN users = {} /\ DOMAIN answers = {}
  BY EmptySeq DEF Init
<1>2. <<>> \in Seq(Row) /\ <<>> \in Seq([req : Request, status : Status])
  BY EmptySeq
<1>3. TypeOK
  BY <1>2 DEF Init, TypeOK, Label, Status
<1>4. Alone /\ Pending /\ VerdictsAreTrue /\ SignedUpCanLogIn
  BY <1>1 DEF Init, Alone, Finders, RowsOf, Pending, Owner, VerdictsAreTrue, SignedUpCanLogIn, Told
<1>5. QED
  BY <1>3, <1>4 DEF IInv

\* Every step keeps what the goroutines and the clients know true.
LEMMA NextIInv == IInv /\ [Next]_vars => IInv'
<1> SUFFICES ASSUME IInv, [Next]_vars PROVE IInv'
  OBVIOUS
<1>1. ASSUME NEW g \in Handler, Receive(g) PROVE IInv'
  BY <1>1, ReceiveStep
<1>2. ASSUME NEW g \in Handler, HandleMsg(g) PROVE IInv'
  BY <1>2, CountStep, InsertStep, SelectStep, UpdateStep, ReplyStep, RecoveredStep DEF HandleMsg
<1>3. CASE UNCHANGED vars
  <2>1. TypeOK' /\ Alone'
    BY <1>3, AloneStays DEF IInv, TypeOK, vars
  <2>2. Pending' /\ VerdictsAreTrue'
    BY <1>3 DEF IInv, Pending, Owner, VerdictsAreTrue, vars
  <2>3. SignedUpCanLogIn'
    BY <1>3 DEF IInv, SignedUpCanLogIn, Told, vars
  <2>4. QED
    BY <2>1, <2>2, <2>3 DEF IInv
<1>4. QED
  BY <1>1, <1>2, <1>3 DEF Next

\* The inductive invariant of the accounts.
THEOREM Invariance == Spec => []IInv
BY InitIInv, NextIInv, PTL DEF Spec

\* Every variable of the accounts keeps its type (handler.go:101-153, 410-466).
THEOREM TypeCorrect == Spec => []TypeOK
<1>1. IInv => TypeOK
  BY DEF IInv
<1>2. QED
  BY <1>1, Invariance, PTL

\* No client is ever told a verdict that is not true of the table
\* (handler.go:113-127, 139-153).
THEOREM Truth == Spec => []VerdictsAreTrue
<1>1. IInv => VerdictsAreTrue
  BY DEF IInv
<1>2. QED
  BY <1>1, Invariance, PTL

\* Whoever was told SIGNIN_SUCCESS can log in for ever after, unless two
\* sign-ups had found the id free at a time (handler.go:415-465).
THEOREM SignUpsHold == Spec => []SignedUpCanLogIn
<1>1. IInv => SignedUpCanLogIn
  BY DEF IInv
<1>2. QED
  BY <1>1, Invariance, PTL

-----------------------------------------------------------------------------
(* The refinement of AccountBook.                                          *)

bookState == <<Account, FoundFree, Opened, Granted>>

\* What the actions of one goroutine leave alone of what others are at.
LEMMA OthersStay ==
  ASSUME IInv, NEW g \in Handler,
         \A h \in Handler \ {g} : pc'[h] = pc[h] /\ req'[h] = req[h] /\ flag'[h] = flag[h]
  PROVE  /\ \A id \in UserId : Finders(id)' \ {g} = Finders(id) \ {g}
         /\ \A h \in Handler \ {g} : Opened'[h] = Opened[h]
BY DEF Finders, Opened, Owner, Pair

\* A goroutine that had nothing to do with an account still has not.
LEMMA Bystander ==
  ASSUME IInv, NEW g \in Handler,
         \A h \in Handler \ {g} : pc'[h] = pc[h] /\ req'[h] = req[h] /\ flag'[h] = flag[h],
         pc[g] # "insert", pc'[g] # "insert", ~Owner(g), ~Owner(g)'
  PROVE  UNCHANGED <<FoundFree, Opened>>
<1>1. \A id \in UserId : Finders(id)' = Finders(id)
  BY DEF Finders
<1>2. FoundFree' = FoundFree
  BY <1>1 DEF FoundFree
<1>3. \A h \in Handler : Opened'[h] = Opened[h]
  BY OthersStay DEF Opened
<1>4. Opened' = Opened
  BY <1>3 DEF Opened
<1> QED
  BY <1>2, <1>4

\* A goroutine that no longer has found its id free.
LEMMA FinderLeaves ==
  ASSUME IInv, NEW g \in Handler, pc[g] = "insert", pc'[g] # "insert",
         \A h \in Handler \ {g} : pc'[h] = pc[h], UNCHANGED req
  PROVE  /\ req[g] \in Request /\ req[g].id \in UserId /\ req[g].psw \in Psw
         /\ g \in FoundFree[req[g].id]
         /\ FoundFree' = [FoundFree EXCEPT ![req[g].id] = @ \ {g}]
<1>1. req[g] \in Request /\ req[g].id \in UserId /\ req[g].psw \in Psw
  BY AccountsAssumption DEF IInv, TypeOK
<1>2. \A id \in UserId : Finders(id)' = IF id = req[g].id THEN Finders(id) \ {g} ELSE Finders(id)
  BY DEF Finders
<1>3. g \in Finders(req[g].id)
  BY DEF Finders
<1> QED
  BY <1>1, <1>2, <1>3 DEF FoundFree

\* A row under an id.
LEMMA RowOpens ==
  ASSUME IInv, NEW m \in Request, users' = Append(users, NewRow(m))
  PROVE  Account' = [Account EXCEPT ![m.id] = @ \cup {m.psw}]
<1> DEFINE n == Len(users) + 1
<1>1. m.id \in UserId
  BY AccountsAssumption
<1>2. /\ DOMAIN users' = DOMAIN users \cup {n} /\ n \notin DOMAIN users
      /\ \A i \in DOMAIN users : users'[i] = users[i]
      /\ users'[n].userId = m.id /\ users'[n].userPsw = m.psw
  BY DEF IInv, TypeOK, NewRow
<1> HIDE DEF n
<1>3. ASSUME NEW id \in UserId
      PROVE  Passwords(users', id)
               = IF id = m.id THEN Passwords(users, id) \cup {m.psw} ELSE Passwords(users, id)
  <2>1. RowsOf(users', id) = IF id = m.id THEN RowsOf(users, id) \cup {n} ELSE RowsOf(users, id)
    BY <1>2 DEF RowsOf
  <2>2. \A i \in RowsOf(users, id) : users'[i] = users[i]
    BY <1>2 DEF RowsOf
  <2>3. CASE id = m.id
    <3>1. \A i \in RowsOf(users', id) :
            users'[i].userPsw = IF i = n THEN m.psw ELSE users[i].userPsw
      BY <1>2, <2>1, <2>2, <2>3
    <3>2. n \notin RowsOf(users, id)
      BY <1>2 DEF RowsOf
    <3>3. \A x : x \in Passwords(users', id) <=> x = m.psw \/ x \in Passwords(users, id)
      BY <2>1, <2>3, <3>1, <3>2 DEF Passwords
    <3> QED
      BY <2>3, <3>3
  <2>4. CASE id # m.id
    BY <2>1, <2>2, <2>4 DEF Passwords
  <2> QED
    BY <2>3, <2>4
<1>4. Account' = [id \in UserId |-> Passwords(users', id)]
  BY DEF Account, Passwords, RowsOf
<1> QED
  BY <1>1, <1>3, <1>4 DEF Account

\* The accounts stay what they are while no row comes and the passwords stay.
LEMMA SamePasswords ==
  ASSUME IInv, Extends(users, users'), \A id \in UserId : RowsOf(users', id) = RowsOf(users, id)
  PROVE  Account' = Account
<1>1. ASSUME NEW id \in UserId
      PROVE  Passwords(users', id) = Passwords(users, id)
  BY DEF Extends, RowsOf, Passwords
<1>2. Account' = [id \in UserId |-> Passwords(users', id)]
  BY DEF Account, Passwords, RowsOf
<1> QED
  BY <1>1, <1>2 DEF Account

\* What a step of one goroutine leaves alone of the others.
LEMMA OnlyItself ==
  ASSUME IInv, NEW g \in Handler, Receive(g) \/ HandleMsg(g)
  PROVE  \A h \in Handler \ {g} : pc'[h] = pc[h] /\ req'[h] = req[h] /\ flag'[h] = flag[h]
BY DEF IInv, TypeOK, Receive, HandleMsg, Count, Insert, Select, Update, Reply, Recovered, End,
       FailedQuery, Panic, Return, Goto

\* A look-up that finds the id free.
LEMMA CountFinds ==
  ASSUME IInv, NEW g \in Handler, Count(g)
  PROVE  Book!Next \/ UNCHANGED bookState
<1>1. /\ pc[g] = "count" /\ req[g] \in Request /\ req[g].id \in UserId
      /\ pc \in [Handler -> Label] /\ flag \in [Handler -> Status]
  BY AccountsAssumption DEF Count, IInv, TypeOK
<1>2. \A h \in Handler \ {g} : pc'[h] = pc[h] /\ req'[h] = req[h] /\ flag'[h] = flag[h]
  BY OnlyItself DEF HandleMsg
<1>3. UNCHANGED <<users, req, answers>>
  BY DEF Count, FailedQuery, Panic
<1>4. UNCHANGED <<Account, Granted>>
  BY <1>3 DEF Account, Granted
<1>5. CASE RowsOf(users, req[g].id) = {} /\ Goto(g, "insert") /\ UNCHANGED flag
  <2>1. pc'[g] = "insert"
    BY <1>1, <1>5 DEF Goto
  <2>2. \A id \in UserId : Finders(id)' = IF id = req[g].id THEN Finders(id) \cup {g} ELSE Finders(id)
    BY <1>2, <1>3, <2>1 DEF Finders
  <2>3. FoundFree' = [FoundFree EXCEPT ![req[g].id] = @ \cup {g}]
    BY <1>1, <2>2 DEF FoundFree
  <2>4. ~Owner(g) /\ ~Owner(g)'
    BY <1>1, <2>1 DEF Owner
  <2>5. \A h \in Handler : Opened'[h] = Opened[h]
    BY <1>2, <2>4, OthersStay DEF Opened
  <2>6. Opened' = Opened
    BY <2>5 DEF Opened
  <2>7. Account[req[g].id] = {}
    BY <1>1, <1>5 DEF Account, Passwords
  <2>8. Book!Find(req[g].id, g)
    BY <1>4, <2>3, <2>6, <2>7 DEF Book!Find
  <2> QED
    BY <1>1, <2>8 DEF Book!Next
<1>6. CASE Return(g, "SIGNIN_FAILED") \/ FailedQuery(g)
  <2>1. pc'[g] # "insert" /\ ~Owner(g) /\ ~Owner(g)'
    BY <1>1, <1>6 DEF Return, FailedQuery, Panic, Goto, Owner
  <2>2. UNCHANGED <<FoundFree, Opened>>
    BY <1>1, <1>2, <2>1, Bystander
  <2> QED
    BY <1>4, <2>2 DEF bookState
<1> QED
  BY <1>5, <1>6 DEF Count

\* A row that is stored opens an account; an insertion that fails gives up.
LEMMA InsertRefines ==
  ASSUME IInv, NEW g \in Handler, Insert(g)
  PROVE  Book!Next
<1>1. /\ pc[g] = "insert" /\ UNCHANGED <<req, answers>>
      /\ pc \in [Handler -> Label] /\ flag \in [Handler -> Status]
  BY DEF Insert, FailedQuery, Panic, IInv, TypeOK
<1>2. \A h \in Handler \ {g} : pc'[h] = pc[h] /\ req'[h] = req[h] /\ flag'[h] = flag[h]
  BY OnlyItself DEF HandleMsg
<1>3. pc'[g] # "insert"
  BY <1>1 DEF Insert, FailedQuery, Panic, Return, Goto
<1>4. /\ req[g] \in Request /\ req[g].id \in UserId /\ req[g].psw \in Psw
      /\ g \in FoundFree[req[g].id]
      /\ FoundFree' = [FoundFree EXCEPT ![req[g].id] = @ \ {g}]
  BY <1>1, <1>2, <1>3, FinderLeaves
<1>5. UNCHANGED Granted
  BY <1>1 DEF Granted
<1>6. ~Owner(g)' => UNCHANGED Opened
  <2> SUFFICES ASSUME ~Owner(g)' PROVE UNCHANGED Opened
    OBVIOUS
  <2>1. ~Owner(g)
    BY <1>1 DEF Owner
  <2>2. \A h \in Handler : Opened'[h] = Opened[h]
    BY <1>2, <2>1, OthersStay DEF Opened
  <2> QED
    BY <2>2 DEF Opened
<1>7. Owner(g)' => Opened' = [Opened EXCEPT ![g] = [id |-> req[g].id, psw |-> req[g].psw]]
  <2> SUFFICES ASSUME Owner(g)'
               PROVE  Opened' = [Opened EXCEPT ![g] = [id |-> req[g].id, psw |-> req[g].psw]]
    OBVIOUS
  <2>1. Opened'[g] = [id |-> req[g].id, psw |-> req[g].psw]
    BY <1>1 DEF Opened, Pair
  <2>2. \A h \in Handler \ {g} : Opened'[h] = Opened[h]
    BY <1>2, OthersStay
  <2> QED
    BY <2>1, <2>2 DEF Opened
<1>8. CASE users' = Append(users, NewRow(req[g]))
  <2>1. Account' = [Account EXCEPT ![req[g].id] = @ \cup {req[g].psw}]
    BY <1>4, <1>8, RowOpens
  <2>2. Book!Open(req[g].id, g, req[g].psw)
    BY <1>4, <1>5, <1>6, <1>7, <2>1 DEF Book!Open
  <2> QED
    BY <1>4, <2>2 DEF Book!Next
<1>9. CASE FailedQuery(g)
  <2>1. UNCHANGED Account /\ ~Owner(g)'
    BY <1>1, <1>9 DEF FailedQuery, Panic, Goto, Owner, Account
  <2>2. Book!GiveUp(req[g].id, g)
    BY <1>4, <1>5, <1>6, <2>1 DEF Book!GiveUp
  <2> QED
    BY <1>4, <2>2 DEF Book!Next
<1> QED
  BY <1>8, <1>9 DEF Insert

\* What a verdict adds to what the owners were told.
LEMMA GrantedReply ==
  ASSUME IInv, NEW g \in Handler, Reply(g)
  PROVE  Granted' = IF Owner(g) THEN Granted \cup {Pair(req[g])} ELSE Granted
<1> DEFINE a == [req |-> req[g], status |-> flag[g]]
<1>1. answers' = Append(answers, a) /\ pc[g] = "reply" /\ a \in [req : Request, status : Status]
      /\ answers \in Seq([req : Request, status : Status])
  BY DEF Reply, IInv, TypeOK
<1>2. a.req = req[g] /\ a.status = flag[g]
  OBVIOUS
<1> HIDE DEF a
<1>3. /\ DOMAIN answers' = DOMAIN answers \cup {Len(answers) + 1}
      /\ Len(answers) + 1 \notin DOMAIN answers
      /\ \A i \in DOMAIN answers : answers'[i] = answers[i]
      /\ answers'[Len(answers) + 1] = a
  BY <1>1
<1>4. {j \in DOMAIN answers' : answers'[j].status = "SIGNIN_SUCCESS"}
        = {j \in DOMAIN answers : answers[j].status = "SIGNIN_SUCCESS"}
            \cup (IF Owner(g) THEN {Len(answers) + 1} ELSE {})
  BY <1>1, <1>2, <1>3 DEF Owner
<1> QED
  BY <1>2, <1>3, <1>4 DEF Granted, Pair

\* A verdict grants an account to its owner, or changes nothing.
LEMMA ReplyRefines ==
  ASSUME IInv, NEW g \in Handler, Reply(g)
  PROVE  Book!Next \/ UNCHANGED bookState
<1>1. UNCHANGED Account /\ pc[g] = "reply" /\ pc'[g] = "idle"
  BY DEF Reply, End, Goto, IInv, TypeOK, Account
<1>2. \A h \in Handler \ {g} : pc'[h] = pc[h] /\ req'[h] = req[h] /\ flag'[h] = flag[h]
  BY OnlyItself DEF HandleMsg
<1>3. ~Owner(g)'
  BY <1>1 DEF Owner
<1>4. CASE ~Owner(g)
  BY <1>1, <1>2, <1>3, <1>4, GrantedReply, Bystander DEF bookState
<1>5. CASE Owner(g)
  <2>1. req[g] \in Request /\ Opened[g] = Pair(req[g])
    BY <1>5 DEF IInv, TypeOK, Owner, Opened
  <2>2. Opened[g] # NoRequest
    BY <2>1, AccountsAssumption DEF Pair
  <2>3. Opened' = [Opened EXCEPT ![g] = NoRequest]
    <3>1. Opened'[g] = NoRequest
      BY <1>3 DEF Opened
    <3>2. \A h \in Handler \ {g} : Opened'[h] = Opened[h]
      BY <1>2, OthersStay
    <3> QED
      BY <3>1, <3>2 DEF Opened
  <2>4. UNCHANGED FoundFree
    <3>1. \A id \in UserId : Finders(id)' = Finders(id)
      BY <1>1, <1>2 DEF Finders
    <3> QED
      BY <3>1 DEF FoundFree
  <2>5. Granted' = Granted \cup {Opened[g]}
    BY <1>5, <2>1, GrantedReply
  <2>6. Book!Grant(g)
    BY <1>1, <2>2, <2>3, <2>4, <2>5 DEF Book!Grant
  <2> QED
    BY <2>6 DEF Book!Next
<1> QED
  BY <1>4, <1>5

\* A login changes no account.
LEMMA OthersRefine ==
  ASSUME IInv, NEW g \in Handler, Receive(g) \/ Select(g) \/ Update(g) \/ Recovered(g)
  PROVE  UNCHANGED bookState
<1>1. UNCHANGED answers /\ pc \in [Handler -> Label] /\ flag \in [Handler -> Status]
  BY DEF Receive, Select, Update, Recovered, FailedQuery, Panic, IInv, TypeOK
<1>2. \A h \in Handler \ {g} : pc'[h] = pc[h] /\ req'[h] = req[h] /\ flag'[h] = flag[h]
  BY OnlyItself DEF HandleMsg
<1>3. UNCHANGED Granted
  BY <1>1 DEF Granted
<1>4. pc[g] # "insert" /\ ~Owner(g)
  BY DEF Receive, Select, Update, Recovered, Owner
<1>5. pc'[g] # "insert" /\ ~Owner(g)'
  BY <1>1 DEF Receive, Select, Update, Recovered, End, FailedQuery, Panic, Return, Goto, Owner
<1>6. UNCHANGED <<FoundFree, Opened>>
  BY <1>2, <1>4, <1>5, Bystander
<1>7. UNCHANGED Account
  <2>1. CASE UNCHANGED users
    BY <2>1 DEF Account
  <2>2. CASE /\ Update(g)
             /\ users' = [i \in DOMAIN users |->
                            IF users[i].userId = req[g].id
                            THEN [users[i] EXCEPT !.userName = req[g].name]
                            ELSE users[i]]
    <3>1. PICK m \in Request : m = req[g]
      BY <2>2 DEF IInv, TypeOK, Update
    <3>2. Extends(users, users') /\ \A id \in UserId : RowsOf(users', id) = RowsOf(users, id)
      BY <2>2, <3>1, NewNameTable
    <3> QED
      BY <3>2, SamePasswords
  <2> QED
    BY <2>1, <2>2 DEF Receive, Select, Update, Recovered, FailedQuery, Panic
<1> QED
  BY <1>3, <1>6, <1>7 DEF bookState

\* The accounts implement AccountBook: only a handler that has found an id free
\* opens an account under it, the passwords stay, and an owner is told once, of
\* the account that was opened for him, whatever sign-ups and logins run
\* concurrently and whichever of their queries fail (handler.go:101-153,
\* 410-466).
THEOREM Refinement == Spec => BookSpec
<1>1. Init => Book!Init
  <2> SUFFICES ASSUME Init PROVE Book!Init
    OBVIOUS
  <2>1. DOMAIN users = {} /\ DOMAIN answers = {}
    BY DEF Init
  <2>2. Granted = {}
    BY <2>1 DEF Granted
  <2>3. Account = [id \in UserId |-> {}]
    BY <2>1 DEF Account, Passwords, RowsOf
  <2>4. FoundFree = [id \in UserId |-> {}] /\ Opened = [g \in Handler |-> NoRequest]
    BY DEF Init, FoundFree, Finders, Opened, Owner
  <2> QED
    BY <2>2, <2>3, <2>4 DEF Book!Init
<1>2. ASSUME IInv, [Next]_vars
      PROVE  [Book!Next]_bookState
  <2>1. CASE UNCHANGED vars
    BY <2>1 DEF vars, bookState, Account, FoundFree, Finders, Opened, Owner, Granted
  <2>2. ASSUME NEW g \in Handler, Receive(g) \/ HandleMsg(g)
        PROVE  Book!Next \/ UNCHANGED bookState
    <3>1. CASE Receive(g) \/ Select(g) \/ Update(g) \/ Recovered(g)
      BY <1>2, <3>1, OthersRefine
    <3>2. CASE Count(g)
      BY <1>2, <3>2, CountFinds
    <3>3. CASE Insert(g)
      BY <1>2, <3>3, InsertRefines
    <3>4. CASE Reply(g)
      BY <1>2, <3>4, ReplyRefines
    <3> QED
      BY <2>2, <3>1, <3>2, <3>3, <3>4 DEF HandleMsg
  <2> QED
    BY <1>2, <2>1, <2>2 DEF Next
<1>3. IInv /\ [Next]_vars => [Book!Next]_Book!bookVars
  BY <1>2 DEF Book!bookVars, bookState
<1> QED
  BY <1>1, <1>3, Invariance, PTL DEF Spec, BookSpec, Book!Spec

=============================================================================
