-------------------------- MODULE RoomServerProofs --------------------------
(***************************************************************************)
(* What the room service guarantees for any number of goroutines, rooms,   *)
(* users and addresses.                                                    *)
(***************************************************************************)
EXTENDS RoomServer, TLAPS, SequenceTheorems, FiniteSetTheorems,
        WellFoundedInduction

\* Removing a position of a sequence leaves a sequence that is one shorter.
LEMMA RemoveAtType ==
  ASSUME NEW S, NEW s \in Seq(S), NEW i \in 1..Len(s)
  PROVE  /\ RemoveAt(s, i) \in Seq(S)
         /\ Len(RemoveAt(s, i)) = Len(s) - 1
<1>0. Len(s) \in Nat
  BY LenProperties
<1> DEFINE left == SubSeq(s, 1, i - 1)
           right == SubSeq(s, i + 1, Len(s))
<1>1. left \in Seq(S) /\ Len(left) = i - 1
  BY <1>0, SubSeqProperties
<1>2. right \in Seq(S) /\ Len(right) = Len(s) - i
  BY <1>0, SubSeqProperties
<1> HIDE DEF left, right
<1>3. /\ left \o right \in Seq(S)
      /\ Len(left \o right) = Len(left) + Len(right)
  BY <1>1, <1>2, ConcatProperties
<1>4. Len(left \o right) = Len(s) - 1
  BY <1>0, <1>1, <1>2, <1>3
<1>5. QED
  BY <1>3, <1>4 DEF RemoveAt, left, right

\* The search loop of QUIT_THE_ROOM stops inside a sequence that is not empty.
LEMMA QuitIndexInRange ==
  ASSUME NEW clients \in Seq(Client), clients # <<>>, NEW user
  PROVE  QuitIndex(clients, user) \in 1..Len(clients)
<1>1. Len(clients) \in Nat \ {0}
  BY EmptySeq
<1>2. CASE \E i \in 1..Len(clients) : clients[i].id = user
  <2> DEFINE Found == {i \in 1..Len(clients) : clients[i].id = user}
  <2>1. Found \subseteq Nat /\ Found # {}
    BY <1>2
  <2>2. \E i \in Found : \A j \in Found : i <= j
    <3>1. PICK i \in Found : \A j \in Found : <<j, i>> \notin OpToRel(<, Nat)
      BY <2>1, NatLessThanWellFounded, WFMin
    <3>2. \A j \in Found : ~(j < i)
      BY <2>1, <3>1 DEF OpToRel
    <3>3. QED
      BY <2>1, <3>2
  <2>3. QED
    BY <1>2, <2>2 DEF QuitIndex
<1>3. CASE ~ \E i \in 1..Len(clients) : clients[i].id = user
  BY <1>1, <1>3 DEF QuitIndex
<1>4. QED
  BY <1>2, <1>3

-----------------------------------------------------------------------------
(* The inductive invariant.  memCnt stays positive because it follows the  *)
(* number of clients (RoomsConsistent), which it does because nobody else  *)
(* is between Lock and Unlock (MutexInv) and because a goroutine that has  *)
(* changed a room finds it again (PhaseInv).                               *)

IInv == TypeOK /\ MutexInv /\ PhaseInv /\ RoomsConsistent

\* A datagram that is sent keeps the type of sent.
LEMMA WriteToUDPType ==
  ASSUME TypeOK, NEW g \in Handler, NEW a \in Addr, NEW code \in Code,
         NEW what \in Room \cup {EmptyCode} \cup User,
         WriteToUDP(g, a, code, what)
  PROVE  sent' \in [Addr -> Seq(Datagram)]
<1>1. [code |-> code, num |-> num[g], what |-> what] \in Datagram
  BY DEF TypeOK, Datagram
<1>2. sent[a] \in Seq(Datagram)
  BY DEF TypeOK
<1>3. Append(sent[a], [code |-> code, num |-> num[g], what |-> what]) \in Seq(Datagram)
  BY <1>1, <1>2, AppendProperties
<1>4. QED
  BY <1>3 DEF TypeOK, WriteToUDP

\* A handler that ends leaves nothing of its request behind.
LEMMA EndType ==
  ASSUME TypeOK, NEW g \in Handler, End(g)
  PROVE  /\ pc' \in [Handler -> Label]
         /\ req' \in [Handler -> Request \cup {NoRequest}]
         /\ \A h \in Handler : pc'[h] # "idle" => req'[h] \in Request
         /\ num' \in [Handler -> Nat]
         /\ todo' \in [Handler -> Seq(Client \cup Room)]
<1>1. pc' \in [Handler -> Label]
  BY DEF TypeOK, End, Goto, Label
<1>2. /\ req' \in [Handler -> Request \cup {NoRequest}]
      /\ \A h \in Handler : pc'[h] # "idle" => req'[h] \in Request
  BY DEF TypeOK, End, Goto
<1>3. num' \in [Handler -> Nat]
  BY DEF TypeOK, End
<1>4. todo' \in [Handler -> Seq(Client \cup Room)]
  <2>1. <<>> \in Seq(Client \cup Room)
    BY EmptySeq
  <2>2. QED
    BY <2>1 DEF TypeOK, End
<1>5. QED
  BY <1>1, <1>2, <1>3, <1>4

\* The fields of a request.
LEMMA RequestFields ==
  ASSUME NEW m \in Request
  PROVE  m.op \in Op /\ m.room \in Room \cup {EmptyCode} /\ m.user \in User /\ m.addr \in Addr
BY ConstantAssumption

\* The values of Lag.
LEMMA LagValues ==
  /\ Lag("quitCnt") = 1
  /\ Lag("joinCnt") = -1
  /\ \A label : label \notin {"quitCnt", "joinCnt"} => Lag(label) = 0
BY DEF Lag

\* Reading a datagram: the goroutine had nothing to do with the rooms so far.
LEMMA ReceiveStep ==
  ASSUME IInv, NEW g \in Handler, Receive(g)
  PROVE  IInv'
<1>1. PICK m \in Request :
        \/ UNCHANGED <<pc, jobVars>>
        \/ /\ ~(m.op \in {"create", "enter"} /\ m.room = EmptyCode)
           /\ Goto(g, FirstLabel(m))
           /\ req' = [req EXCEPT ![g] = m]
           /\ num' = [num EXCEPT ![g] = received + 1]
           /\ UNCHANGED todo
  BY DEF Receive
<1>2. UNCHANGED <<up, rooms, writer, readers, sent>> /\ received' = received + 1 /\ pc[g] = "idle"
  BY DEF Receive, mutexVars
<1>3. CASE UNCHANGED <<pc, jobVars>>
  <2>1. TypeOK'
    BY <1>2, <1>3 DEF IInv, TypeOK, jobVars
  <2>2. MutexInv' /\ PhaseInv'
    BY <1>2, <1>3 DEF IInv, MutexInv, PhaseInv, jobVars
  <2>3. RoomsConsistent'
    BY <1>2, <1>3 DEF IInv, RoomsConsistent, CountLag, jobVars
  <2>4. QED
    BY <2>1, <2>2, <2>3 DEF IInv
<1>4. CASE /\ ~(m.op \in {"create", "enter"} /\ m.room = EmptyCode)
           /\ Goto(g, FirstLabel(m))
           /\ req' = [req EXCEPT ![g] = m]
           /\ num' = [num EXCEPT ![g] = received + 1]
           /\ UNCHANGED todo
  <2>1. FirstLabel(m) \in {"rlock", "print", "lock"}
    BY DEF FirstLabel
  <2>2. TypeOK'
    BY <1>2, <1>4, <2>1 DEF IInv, TypeOK, Goto, Label
  <2>3. MutexInv'
    BY <1>2, <1>4, <2>1 DEF IInv, TypeOK, MutexInv, Goto, Critical
  <2>4. PhaseInv'
    BY <1>2, <1>4, <2>1, RequestFields DEF IInv, TypeOK, PhaseInv, Goto, FirstLabel, Op
  <2>5. RoomsConsistent'
    <3>1. writer # g
      BY <1>2 DEF IInv, MutexInv, Critical
    <3>2. QED
      BY <1>2, <1>4, <3>1 DEF IInv, TypeOK, RoomsConsistent, CountLag, Goto
  <2>6. QED
    BY <2>2, <2>3, <2>4, <2>5 DEF IInv
<1>5. QED
  BY <1>1, <1>3, <1>4

\* Taking the read lock.
LEMMA RLockStep ==
  ASSUME IInv, NEW g \in Handler, RLock(g)
  PROVE  IInv'
<1>1. TypeOK'
  BY DEF IInv, TypeOK, RLock, Goto, Label, jobVars
<1>2. MutexInv'
  BY ConstantAssumption DEF IInv, TypeOK, MutexInv, RLock, Goto, Critical
<1>3. PhaseInv'
  BY DEF IInv, TypeOK, PhaseInv, RLock, Goto, jobVars
<1>4. RoomsConsistent'
  BY ConstantAssumption DEF IInv, RoomsConsistent, CountLag, RLock
<1>5. QED
  BY <1>1, <1>2, <1>3, <1>4 DEF IInv

\* Looking the room up and giving the read lock back: somebody reads, so
\* nobody is between Lock and Unlock.
LEMMA CheckStep ==
  ASSUME IInv, NEW g \in Handler, Check(g)
  PROVE  IInv'
<1>1. writer = NoOne
  BY DEF IInv, MutexInv, Check
<1> DEFINE to == IF req[g].room \in DOMAIN rooms THEN "lockJoin" ELSE "lockMake"
<1>2. to \in {"lockJoin", "lockMake"} /\ pc' = [pc EXCEPT ![g] = to]
  BY DEF Check, Goto
<1>3. pc[g] = "check" /\ readers' = readers \ {g} /\ UNCHANGED <<up, rooms, writer, req, num, todo, received, sent>>
  BY DEF Check, jobVars
<1> HIDE DEF to
<1>4. TypeOK'
  BY <1>2, <1>3 DEF IInv, TypeOK, Label
<1>5. MutexInv'
  BY <1>1, <1>2, <1>3 DEF IInv, TypeOK, MutexInv, Critical
<1>6. PhaseInv'
  BY <1>2, <1>3 DEF IInv, TypeOK, PhaseInv
<1>7. RoomsConsistent'
  BY <1>1, <1>3, ConstantAssumption DEF IInv, RoomsConsistent, CountLag
<1>8. QED
  BY <1>4, <1>5, <1>6, <1>7 DEF IInv

\* Taking the write lock: from NoOne to g, who starts before any assignment.
LEMMA LockStep ==
  ASSUME IInv, NEW g \in Handler, Lock(g)
  PROVE  IInv'
<1>1. PICK to \in {"make", "join", "quit", "chat", "roomInfo", "memList"} :
        /\ pc' = [pc EXCEPT ![g] = to]
        /\ to \in {"make", "join"} => req[g].op \in {"create", "enter"} /\ req[g].room \in Room
        /\ to \notin {"make", "join"} => req[g].op = to
  BY DEF IInv, PhaseInv, Lock, LockAs, Goto
<1>2. /\ writer = NoOne /\ readers = {} /\ writer' = g
      /\ pc[g] \in {"lockMake", "lockJoin", "lock"}
      /\ UNCHANGED <<up, rooms, readers, req, num, todo, received, sent>>
  BY DEF Lock, LockAs, jobVars
<1>3. TypeOK'
  BY <1>1, <1>2 DEF IInv, TypeOK, Label, Critical
<1>4. MutexInv'
  BY <1>1, <1>2, ConstantAssumption DEF IInv, TypeOK, MutexInv, Critical
<1>5. PhaseInv'
  BY <1>1, <1>2 DEF IInv, TypeOK, PhaseInv
<1>6. RoomsConsistent'
  <2>1. pc'[g] \notin {"quitCnt", "joinCnt"}
    BY <1>1 DEF IInv, TypeOK
  <2>2. \A r : CountLag(r) = 0 /\ CountLag(r)' = 0
    BY <1>2, <2>1, ConstantAssumption, LagValues DEF CountLag, Lag
  <2>3. QED
    BY <1>2, <2>2 DEF IInv, RoomsConsistent
<1>7. QED
  BY <1>3, <1>4, <1>5, <1>6 DEF IInv

\* Giving the write lock back: all assignments have been made.
LEMMA UnlockStep ==
  ASSUME IInv, NEW g \in Handler, Unlock(g)
  PROVE  IInv'
<1>1. /\ pc[g] \in {"unlock", "loop"} /\ writer' = NoOne
      /\ UNCHANGED <<up, rooms, readers, received, sent>>
  BY DEF Unlock
<1>2. writer = g /\ readers = {}
  BY <1>1, ConstantAssumption DEF IInv, MutexInv, Critical
<1>3. RoomsConsistent'
  <2>1. \A r : CountLag(r) = 0 /\ CountLag(r)' = 0
    BY <1>1, <1>2, ConstantAssumption, LagValues DEF CountLag
  <2>2. QED
    BY <1>1, <2>1 DEF IInv, RoomsConsistent
<1>4. CASE /\ req[g].op \in {"create", "enter", "roomInfo"}
           /\ Goto(g, "reply") /\ UNCHANGED jobVars
  <2>1. TypeOK'
    BY <1>1, <1>4 DEF IInv, TypeOK, Goto, Label, jobVars
  <2>2. MutexInv'
    BY <1>1, <1>2, <1>4, ConstantAssumption DEF IInv, TypeOK, MutexInv, Goto, Critical
  <2>3. PhaseInv'
    BY <1>1, <1>4 DEF IInv, TypeOK, PhaseInv, Goto, jobVars
  <2>4. QED
    BY <1>3, <2>1, <2>2, <2>3 DEF IInv
<1>5. CASE End(g)
  <2>1. TypeOK'
    BY <1>1, <1>5, EndType DEF IInv, TypeOK
  <2>2. MutexInv'
    BY <1>1, <1>2, <1>5, ConstantAssumption DEF IInv, TypeOK, MutexInv, End, Goto, Critical
  <2>3. PhaseInv'
    BY <1>1, <1>5 DEF IInv, TypeOK, PhaseInv, End, Goto
  <2>4. QED
    BY <1>3, <2>1, <2>2, <2>3 DEF IInv
<1>6. QED
  BY <1>4, <1>5 DEF Unlock

\* A panic between Lock and Unlock, before or after all assignments: the
\* lock is orphaned, the rooms are as consistent as before.
LEMMA PanicStep ==
  ASSUME IInv, NEW g \in Handler, pc[g] \in Critical \ {"joinCnt", "quitCnt"}, PanicLocked(g)
  PROVE  IInv'
<1>1. /\ writer' = Gone /\ End(g)
      /\ UNCHANGED <<up, rooms, readers, received, sent>>
  BY DEF PanicLocked
<1>2. writer = g /\ readers = {}
  BY ConstantAssumption DEF IInv, MutexInv
<1>3. TypeOK'
  BY <1>1, EndType DEF IInv, TypeOK
<1>4. MutexInv'
  BY <1>1, <1>2, ConstantAssumption DEF IInv, TypeOK, MutexInv, End, Goto, Critical
<1>5. PhaseInv'
  BY <1>1 DEF IInv, TypeOK, PhaseInv, End, Goto
<1>6. RoomsConsistent'
  <2>1. \A r : CountLag(r) = 0 /\ CountLag(r)' = 0
    BY <1>1, <1>2, ConstantAssumption, LagValues DEF CountLag
  <2>2. QED
    BY <1>1, <2>1 DEF IInv, RoomsConsistent
<1>7. QED
  BY <1>3, <1>4, <1>5, <1>6 DEF IInv

\* A client of the goroutine's request.
LEMMA NewClientType ==
  ASSUME IInv, NEW g \in Handler, req[g] \in Request
  PROVE  NewClient(g) \in Client
BY RequestFields DEF NewClient, Client

\* What the invariant says of one room, in the terms of its two fields.
LEMMA RoomFacts ==
  ASSUME IInv, NEW r \in DOMAIN rooms
  PROVE  /\ r \in Room
         /\ rooms[r].memCnt \in Nat
         /\ rooms[r].clients \in Seq(Client)
         /\ Len(rooms[r].clients) \in Nat
         /\ rooms[r] = [memCnt |-> rooms[r].memCnt, clients |-> rooms[r].clients]
         /\ rooms[r].memCnt = Len(rooms[r].clients) + CountLag(r)
         /\ rooms[r].memCnt > 0
<1>1. r \in Room /\ rooms[r] \in ChatRoom
  BY DEF IInv, TypeOK
<1>2. /\ rooms[r].memCnt \in Nat
      /\ rooms[r].clients \in Seq(Client)
      /\ rooms[r] = [memCnt |-> rooms[r].memCnt, clients |-> rooms[r].clients]
  BY <1>1 DEF ChatRoom
<1>3. Len(rooms[r].clients) \in Nat
  BY <1>2, LenProperties
<1>4. QED
  BY <1>1, <1>2, <1>3 DEF IInv, RoomsConsistent

\* The holder of roomMutex gives its room a new value, which is as consistent
\* as the label it goes to says: the rooms stay typed and consistent.
LEMMA RoomSet ==
  ASSUME IInv, NEW g \in Handler, writer = g, UNCHANGED <<writer, req>>,
         NEW r \in Room, req[g].room = r,
         NEW to \in Label, pc' = [pc EXCEPT ![g] = to],
         NEW n \in Nat, NEW clients \in Seq(Client),
         rooms' = [x \in DOMAIN rooms \cup {r} |->
                     IF x = r THEN [memCnt |-> n, clients |-> clients] ELSE rooms[x]],
         n > 0, n = Len(clients) + Lag(to)
  PROVE  /\ DOMAIN rooms' \subseteq Room
         /\ rooms' \in [DOMAIN rooms' -> ChatRoom]
         /\ RoomsConsistent'
<1>1. DOMAIN rooms' = DOMAIN rooms \cup {r}
  OBVIOUS
<1>2. DOMAIN rooms' \subseteq Room
  BY <1>1 DEF IInv, TypeOK
<1>3. rooms' \in [DOMAIN rooms' -> ChatRoom]
  <2>1. [memCnt |-> n, clients |-> clients] \in ChatRoom
    BY DEF ChatRoom
  <2>2. QED
    BY <1>1, <2>1 DEF IInv, TypeOK
<1>4. RoomsConsistent'
  <2> SUFFICES ASSUME NEW q \in DOMAIN rooms'
               PROVE  /\ rooms'[q].memCnt = Len(rooms'[q].clients) + CountLag(q)'
                      /\ rooms'[q].memCnt > 0
    BY DEF RoomsConsistent
  <2>1. CASE q = r
    <3>1. rooms'[q].memCnt = n /\ rooms'[q].clients = clients
      BY <2>1
    <3>2. pc'[g] = to
      BY DEF IInv, TypeOK
    <3>3. CountLag(q)' = Lag(to)
      BY <2>1, <3>2 DEF CountLag, Lag
    <3>4. QED
      BY <3>1, <3>3
  <2>2. CASE q # r
    <3>1. q \in DOMAIN rooms /\ rooms'[q] = rooms[q]
      BY <2>2
    <3>2. CountLag(q)' = 0 /\ CountLag(q) = 0
      BY <2>2 DEF CountLag
    <3>3. QED
      BY <3>1, <3>2, RoomFacts
  <2>3. QED
    BY <2>1, <2>2
<1>5. QED
  BY <1>2, <1>3, <1>4

\* What the two remaining parts of the invariant need of a step of the
\* holder of roomMutex that stays in the critical section.
LEMMA CriticalStep ==
  ASSUME IInv, NEW g \in Handler, writer = g,
         UNCHANGED <<up, writer, readers, req, num, todo, received, sent>>,
         NEW to \in Critical, pc' = [pc EXCEPT ![g] = to],
         DOMAIN rooms' \subseteq Room,
         rooms' \in [DOMAIN rooms' -> ChatRoom]
  PROVE  TypeOK' /\ MutexInv'
<1>1. pc[g] \in Critical
  BY DEF IInv, MutexInv
<1>2. TypeOK'
  BY <1>1 DEF IInv, TypeOK, Label, Critical
<1>3. MutexInv'
  BY <1>1 DEF IInv, TypeOK, MutexInv, Critical
<1>4. QED
  BY <1>2, <1>3

\* Creating a room: one client and memCnt = 1.
LEMMA MakeStep ==
  ASSUME IInv, NEW g \in Handler, Make(g)
  PROVE  IInv'
<1> DEFINE r == req[g].room
           n == 1
           clients == <<NewClient(g)>>
<1>1. /\ pc[g] = "make" /\ pc' = [pc EXCEPT ![g] = "unlock"]
      /\ UNCHANGED <<up, writer, readers, req, num, todo, received, sent>>
      /\ writer = g /\ r \in Room /\ req[g] \in Request
  BY DEF Make, Goto, mutexVars, jobVars, IInv, TypeOK, MutexInv, PhaseInv, Critical
<1>2. rooms' = [x \in DOMAIN rooms \cup {r} |->
                  IF x = r THEN [memCnt |-> n, clients |-> clients] ELSE rooms[x]]
  BY DEF Make, SetRoom
<1>3. clients \in Seq(Client) /\ Len(clients) = 1
  BY <1>1, NewClientType
<1>4. /\ DOMAIN rooms' \subseteq Room
      /\ rooms' \in [DOMAIN rooms' -> ChatRoom]
      /\ RoomsConsistent'
  <2>1. n \in Nat /\ n > 0 /\ n = Len(clients) + Lag("unlock")
    BY <1>3, LagValues
  <2> HIDE DEF r, n, clients
  <2>2. req[g].room = r
    BY DEF r
  <2>3. QED
    BY <1>1, <1>2, <1>3, <2>1, <2>2, RoomSet DEF Label, Critical
<1>5. TypeOK' /\ MutexInv'
  BY <1>1, <1>4, CriticalStep DEF Critical
<1>6. PhaseInv'
  BY <1>1, <1>2 DEF IInv, TypeOK, PhaseInv
<1>7. QED
  BY <1>4, <1>5, <1>6 DEF IInv

\* Joining a room: the list of clients grows first.
LEMMA JoinStep ==
  ASSUME IInv, NEW g \in Handler, Join(g)
  PROVE  IInv'
<1>1. CASE PanicLocked(g)
  BY <1>1, PanicStep DEF Join, Critical
<1>2. CASE ~PanicLocked(g)
  <2> DEFINE r == req[g].room
             n == rooms[r].memCnt
             clients == Append(rooms[r].clients, NewClient(g))
  <2>1. /\ pc[g] = "join" /\ pc' = [pc EXCEPT ![g] = "joinCnt"]
        /\ UNCHANGED <<up, writer, readers, req, num, todo, received, sent>>
        /\ writer = g /\ r \in DOMAIN rooms /\ req[g] \in Request
        /\ req[g].op \in {"create", "enter"} /\ r \in Room
    BY <1>2 DEF Join, Goto, mutexVars, jobVars, IInv, TypeOK, MutexInv, PhaseInv, Critical
  <2>2. rooms' = [rooms EXCEPT ![r].clients = clients]
    BY <1>2 DEF Join
  <2>3. clients \in Seq(Client) /\ Len(clients) = Len(rooms[r].clients) + 1
    BY <2>1, RoomFacts, NewClientType, AppendProperties
  <2>4. CountLag(r) = 0
    BY <2>1, LagValues DEF CountLag
  <2>5. n \in Nat /\ n > 0 /\ n = Len(clients) + Lag("joinCnt")
    <3>1. /\ n \in Nat /\ n > 0 /\ Len(rooms[r].clients) \in Nat
          /\ n = Len(rooms[r].clients) + CountLag(r)
      BY <2>1, RoomFacts
    <3> HIDE DEF n, r, clients
    <3>2. QED
      BY <2>3, <2>4, <3>1, LagValues
  <2>6. rooms' = [x \in DOMAIN rooms \cup {r} |->
                    IF x = r THEN [memCnt |-> n, clients |-> clients] ELSE rooms[x]]
    <3>1. rooms[r] = [memCnt |-> n, clients |-> rooms[r].clients]
      BY <2>1, RoomFacts
    <3>2. rooms = [x \in DOMAIN rooms |-> rooms[x]] /\ DOMAIN rooms = DOMAIN rooms \cup {r}
      BY <2>1 DEF IInv, TypeOK
    <3>3. [rooms[r] EXCEPT !.clients = clients] = [memCnt |-> n, clients |-> clients]
      <4> DEFINE room == rooms[r]
                 old == room.clients
      <4>1. room = [memCnt |-> n, clients |-> old]
        BY <3>1
      <4> HIDE DEF room, old, n, clients
      <4>2. [room EXCEPT !.clients = clients] = [memCnt |-> n, clients |-> clients]
        BY <4>1
      <4>3. QED
        BY <4>2 DEF room
    <3> HIDE DEF r, n, clients
    <3>4. QED
      BY <2>2, <3>2, <3>3
  <2>7. /\ DOMAIN rooms' \subseteq Room
        /\ rooms' \in [DOMAIN rooms' -> ChatRoom]
        /\ RoomsConsistent'
    <3> HIDE DEF r, n, clients
    <3>1. req[g].room = r
      BY DEF r
    <3>2. QED
      BY <2>1, <2>3, <2>5, <2>6, <3>1, RoomSet DEF Label, Critical
  <2>8. TypeOK' /\ MutexInv'
    BY <2>1, <2>7, CriticalStep DEF Critical
  <2>9. PhaseInv'
    BY <2>1, <2>2 DEF IInv, TypeOK, PhaseInv
  <2>10. QED
    BY <2>7, <2>8, <2>9 DEF IInv
<1>3. QED
  BY <1>1, <1>2

\* Joining a room: memCnt catches up.
LEMMA JoinCountStep ==
  ASSUME IInv, NEW g \in Handler, JoinCount(g)
  PROVE  IInv'
<1> DEFINE r == req[g].room
           n == rooms[r].memCnt + 1
           clients == rooms[r].clients
<1>1. /\ pc[g] = "joinCnt" /\ pc' = [pc EXCEPT ![g] = "unlock"]
      /\ UNCHANGED <<up, writer, readers, req, num, todo, received, sent>>
      /\ writer = g /\ r \in DOMAIN rooms /\ r \in Room
      /\ rooms' = [rooms EXCEPT ![r].memCnt = n]
  BY DEF JoinCount, Goto, mutexVars, jobVars, IInv, TypeOK, MutexInv, PhaseInv, Critical
<1>2. CountLag(r) = -1
  BY <1>1, LagValues DEF CountLag
<1>3. clients \in Seq(Client) /\ n \in Nat /\ n > 0 /\ n = Len(clients) + Lag("unlock")
  <2>1. /\ rooms[r].memCnt \in Nat /\ clients \in Seq(Client) /\ Len(clients) \in Nat
        /\ rooms[r].memCnt = Len(clients) + CountLag(r)
    BY <1>1, RoomFacts
  <2> HIDE DEF r, clients
  <2>2. QED
    BY <1>2, <2>1, LagValues
<1>4. rooms' = [x \in DOMAIN rooms \cup {r} |->
                  IF x = r THEN [memCnt |-> n, clients |-> clients] ELSE rooms[x]]
  <2>1. rooms[r] = [memCnt |-> rooms[r].memCnt, clients |-> clients]
    BY <1>1, RoomFacts
  <2>2. rooms = [x \in DOMAIN rooms |-> rooms[x]] /\ DOMAIN rooms = DOMAIN rooms \cup {r}
    BY <1>1 DEF IInv, TypeOK
  <2>3. [rooms[r] EXCEPT !.memCnt = n] = [memCnt |-> n, clients |-> clients]
    BY <2>1
  <2> HIDE DEF r, n, clients
  <2>4. QED
    BY <1>1, <2>2, <2>3
<1>5. /\ DOMAIN rooms' \subseteq Room
      /\ rooms' \in [DOMAIN rooms' -> ChatRoom]
      /\ RoomsConsistent'
  <2> HIDE DEF r, n, clients
  <2>1. req[g].room = r
    BY DEF r
  <2>2. /\ "unlock" \in Label /\ pc' = [pc EXCEPT ![g] = "unlock"] /\ r \in Room
        /\ writer = g /\ UNCHANGED <<writer, req>>
    BY <1>1 DEF Label, Critical
  <2>3. QED
    BY <1>3, <1>4, <2>1, <2>2, RoomSet
<1>6. TypeOK' /\ MutexInv'
  BY <1>1, <1>5, CriticalStep DEF Critical
<1>7. PhaseInv'
  BY <1>1 DEF IInv, TypeOK, PhaseInv
<1>8. QED
  BY <1>5, <1>6, <1>7 DEF IInv

\* Leaving a room: the list of clients shrinks first.
LEMMA QuitStep ==
  ASSUME IInv, NEW g \in Handler, Quit(g)
  PROVE  IInv'
<1> DEFINE r == req[g].room
<1>1. /\ pc[g] = "quit" /\ writer = g /\ req[g].op = "quit"
      /\ UNCHANGED <<up, writer, readers, req, num, todo, received, sent>>
  BY DEF Quit, mutexVars, jobVars, IInv, MutexInv, PhaseInv, Critical
<1>2. CASE ~(r \in DOMAIN rooms /\ rooms[r].clients # <<>>)
  <2>1. pc' = [pc EXCEPT ![g] = "unlock"] /\ UNCHANGED rooms
    BY <1>2 DEF Quit, Goto
  <2>2. TypeOK' /\ MutexInv'
    BY <1>1, <2>1, CriticalStep DEF IInv, TypeOK, Critical
  <2>3. PhaseInv'
    BY <1>1, <2>1 DEF IInv, TypeOK, PhaseInv
  <2>4. RoomsConsistent'
    <3>1. \A q : CountLag(q)' = CountLag(q)
      BY <1>1, <2>1, LagValues DEF CountLag, IInv, TypeOK
    <3>2. QED
      BY <2>1, <3>1 DEF IInv, RoomsConsistent
  <2>5. QED
    BY <2>2, <2>3, <2>4 DEF IInv
<1>3. CASE r \in DOMAIN rooms /\ rooms[r].clients # <<>>
  <2> DEFINE n == rooms[r].memCnt
             clients == RemoveAt(rooms[r].clients, QuitIndex(rooms[r].clients, req[g].user))
  <2>1. pc' = [pc EXCEPT ![g] = "quitCnt"] /\ rooms' = [rooms EXCEPT ![r].clients = clients]
    BY <1>3 DEF Quit, Goto
  <2>2. clients \in Seq(Client) /\ Len(clients) = Len(rooms[r].clients) - 1
    BY <1>3, RoomFacts, QuitIndexInRange, RemoveAtType
  <2>3. CountLag(r) = 0
    BY <1>1, LagValues DEF CountLag
  <2>4. r \in Room /\ n \in Nat /\ n > 0 /\ n = Len(clients) + Lag("quitCnt")
    <3>1. /\ r \in Room /\ n \in Nat /\ n > 0 /\ Len(rooms[r].clients) \in Nat
          /\ n = Len(rooms[r].clients) + CountLag(r)
      BY <1>3, RoomFacts
    <3> HIDE DEF n, r, clients
    <3>2. QED
      BY <2>2, <2>3, <3>1, LagValues
  <2>5. rooms' = [x \in DOMAIN rooms \cup {r} |->
                    IF x = r THEN [memCnt |-> n, clients |-> clients] ELSE rooms[x]]
    <3>1. rooms[r] = [memCnt |-> n, clients |-> rooms[r].clients]
      BY <1>3, RoomFacts
    <3>2. rooms = [x \in DOMAIN rooms |-> rooms[x]] /\ DOMAIN rooms = DOMAIN rooms \cup {r}
      BY <1>3 DEF IInv, TypeOK
    <3>3. [rooms[r] EXCEPT !.clients = clients] = [memCnt |-> n, clients |-> clients]
      <4> DEFINE room == rooms[r]
                 old == room.clients
      <4>1. room = [memCnt |-> n, clients |-> old]
        BY <3>1
      <4> HIDE DEF room, old, n, clients
      <4>2. [room EXCEPT !.clients = clients] = [memCnt |-> n, clients |-> clients]
        BY <4>1
      <4>3. QED
        BY <4>2 DEF room
    <3> HIDE DEF r, n, clients
    <3>4. QED
      BY <2>1, <3>2, <3>3
  <2>6. /\ DOMAIN rooms' \subseteq Room
        /\ rooms' \in [DOMAIN rooms' -> ChatRoom]
        /\ RoomsConsistent'
    <3> HIDE DEF r, n, clients
    <3>1. req[g].room = r
      BY DEF r
    <3>2. /\ "quitCnt" \in Label /\ pc' = [pc EXCEPT ![g] = "quitCnt"]
          /\ writer = g /\ UNCHANGED <<writer, req>>
      BY <1>1, <2>1 DEF Label, Critical
    <3>3. QED
      BY <2>2, <2>4, <2>5, <3>1, <3>2, RoomSet
  <2>7. TypeOK' /\ MutexInv'
    BY <1>1, <2>1, <2>6, CriticalStep DEF Critical
  <2>8. PhaseInv'
    BY <1>1, <1>3, <2>1 DEF IInv, TypeOK, PhaseInv
  <2>9. QED
    BY <2>6, <2>7, <2>8 DEF IInv
<1>4. QED
  BY <1>2, <1>3

\* Leaving a room: memCnt catches up, or the empty room is deleted.
LEMMA QuitCountStep ==
  ASSUME IInv, NEW g \in Handler, QuitCount(g)
  PROVE  IInv'
<1> DEFINE r == req[g].room
           n == rooms[r].memCnt - 1
           clients == rooms[r].clients
<1>1. /\ pc[g] = "quitCnt" /\ pc' = [pc EXCEPT ![g] = "unlock"]
      /\ UNCHANGED <<up, writer, readers, req, num, todo, received, sent>>
      /\ writer = g /\ r \in DOMAIN rooms
  BY DEF QuitCount, Goto, mutexVars, jobVars, IInv, MutexInv, PhaseInv, Critical
<1>2. PhaseInv'
  <2>1. \A h \in Handler : h # g => pc[h] \notin {"joinCnt", "quitCnt"}
    BY <1>1 DEF IInv, MutexInv, Critical
  <2>2. QED
    BY <1>1, <2>1 DEF IInv, TypeOK, PhaseInv
<1>3. CASE rooms[r].memCnt = 1
  <2>1. rooms' = [x \in DOMAIN rooms \ {r} |-> rooms[x]]
    BY <1>3 DEF QuitCount, DeleteRoom
  <2>2. DOMAIN rooms' \subseteq Room /\ rooms' \in [DOMAIN rooms' -> ChatRoom]
    BY <2>1 DEF IInv, TypeOK
  <2>3. TypeOK' /\ MutexInv'
    BY <1>1, <2>2, CriticalStep DEF Critical
  <2>4. RoomsConsistent'
    <3>1. \A q \in DOMAIN rooms' : /\ q \in DOMAIN rooms /\ rooms'[q] = rooms[q]
                                   /\ CountLag(q) = 0 /\ CountLag(q)' = 0
      BY <1>1, <2>1 DEF CountLag
    <3>2. QED
      BY <3>1 DEF IInv, RoomsConsistent
  <2>5. QED
    BY <1>2, <2>3, <2>4 DEF IInv
<1>4. CASE rooms[r].memCnt # 1
  <2>1. rooms' = [rooms EXCEPT ![r].memCnt = n]
    BY <1>4 DEF QuitCount
  <2>2. CountLag(r) = 1
    BY <1>1, LagValues DEF CountLag
  <2>3. /\ r \in Room /\ clients \in Seq(Client)
        /\ n \in Nat /\ n > 0 /\ n = Len(clients) + Lag("unlock")
    BY <1>1, <1>4, <2>2, RoomFacts, LagValues
  <2>4. rooms' = [x \in DOMAIN rooms \cup {r} |->
                    IF x = r THEN [memCnt |-> n, clients |-> clients] ELSE rooms[x]]
    <3>1. rooms[r] = [memCnt |-> rooms[r].memCnt, clients |-> clients]
      BY <1>1, RoomFacts
    <3>2. rooms = [x \in DOMAIN rooms |-> rooms[x]] /\ DOMAIN rooms = DOMAIN rooms \cup {r}
      BY <1>1 DEF IInv, TypeOK
    <3>3. [rooms[r] EXCEPT !.memCnt = n] = [memCnt |-> n, clients |-> clients]
      BY <3>1
    <3> HIDE DEF r, n, clients
    <3>4. QED
      BY <2>1, <3>2, <3>3
  <2>5. /\ DOMAIN rooms' \subseteq Room
        /\ rooms' \in [DOMAIN rooms' -> ChatRoom]
        /\ RoomsConsistent'
    <3> HIDE DEF r, n, clients
    <3>1. req[g].room = r
      BY DEF r
    <3>2. /\ "unlock" \in Label /\ pc' = [pc EXCEPT ![g] = "unlock"]
          /\ writer = g /\ UNCHANGED <<writer, req>>
      BY <1>1 DEF Label, Critical
    <3>3. QED
      BY <2>3, <2>4, <3>1, <3>2, RoomSet
  <2>6. TypeOK' /\ MutexInv'
    BY <1>1, <2>5, CriticalStep DEF Critical
  <2>7. QED
    BY <1>2, <2>5, <2>6 DEF IInv
<1>5. QED
  BY <1>3, <1>4

\* A loop starts: only where g is and what it has to visit change.
LEMMA StartLoopStep ==
  ASSUME IInv, NEW g \in Handler, pc[g] \in {"chat", "roomInfo", "memList"},
         NEW values \in Seq(Client) \cup Seq(Room),
         req[g].op = "roomInfo" => values \in Seq(Room),
         req[g].op # "roomInfo" => values \in Seq(Client),
         StartLoop(g, values)
  PROVE  IInv'
<1>1. /\ todo' = [todo EXCEPT ![g] = values]
      /\ pc' = [pc EXCEPT ![g] = "loop"]
      /\ UNCHANGED <<up, rooms, writer, readers, req, num, received, sent>>
      /\ writer = g
  BY DEF StartLoop, Goto, mutexVars, IInv, MutexInv, Critical
<1>2. TypeOK'
  <2>1. values \in Seq(Client \cup Room)
    BY SeqMonotonic
  <2>2. todo' \in [Handler -> Seq(Client \cup Room)]
    BY <1>1, <2>1 DEF IInv, TypeOK
  <2>3. pc' \in [Handler -> Label] /\ \A h \in Handler : pc'[h] # "idle" => req[h] \in Request
    BY <1>1 DEF IInv, TypeOK, Label, Critical
  <2>4. QED
    BY <1>1, <2>2, <2>3 DEF IInv, TypeOK
<1>3. MutexInv'
  BY <1>1 DEF IInv, TypeOK, MutexInv, Critical
<1>4. PhaseInv'
  <2>1. \/ req[g].op \in {"chat", "memList"} /\ values \in Seq(Client)
        \/ req[g].op = "roomInfo" /\ values \in Seq(Room)
    <3>1. req[g].op \in {"chat", "roomInfo", "memList"}
      BY DEF IInv, PhaseInv
    <3>2. QED
      BY <3>1
  <2>2. ASSUME NEW h \in Handler
        PROVE  pc'[h] = "loop" => \/ req'[h].op \in {"chat", "memList"} /\ todo'[h] \in Seq(Client)
                                  \/ req'[h].op = "roomInfo" /\ todo'[h] \in Seq(Room)
    <3>1. CASE h = g
      BY <1>1, <2>1, <3>1 DEF IInv, TypeOK
    <3>2. CASE h # g
      BY <1>1, <3>2 DEF IInv, TypeOK, PhaseInv
    <3>3. QED
      BY <3>1, <3>2
  <2>3. QED
    BY <1>1, <2>2 DEF IInv, TypeOK, PhaseInv
<1>5. RoomsConsistent'
  <2>1. \A q : CountLag(q) = CountLag(q)'
    BY <1>1, LagValues DEF CountLag, IInv, TypeOK
  <2>2. QED
    BY <1>1, <2>1 DEF IInv, RoomsConsistent
<1>6. QED
  BY <1>2, <1>3, <1>4, <1>5 DEF IInv

\* A chat message: a loop over the members, or a panic.
LEMMA ChatStep ==
  ASSUME IInv, NEW g \in Handler, Chat(g)
  PROVE  IInv'
<1>1. pc[g] = "chat" /\ req[g].op = "chat"
  BY DEF Chat, IInv, PhaseInv
<1>2. CASE req[g].room \in DOMAIN rooms
  <2>1. rooms[req[g].room].clients \in Seq(Client)
    BY <1>2, RoomFacts
  <2>2. StartLoop(g, rooms[req[g].room].clients)
    BY <1>2 DEF Chat
  <2>3. QED
    BY <1>1, <2>1, <2>2, StartLoopStep
<1>3. CASE req[g].room \notin DOMAIN rooms
  BY <1>1, <1>3, PanicStep DEF Chat, Critical
<1>4. QED
  BY <1>2, <1>3

\* The list of the rooms: a loop over their codes in any order.
LEMMA RoomInfoStep ==
  ASSUME IInv, NEW g \in Handler, RoomInfo(g)
  PROVE  IInv'
<1>1. pc[g] = "roomInfo" /\ req[g].op = "roomInfo"
  BY DEF RoomInfo, IInv, PhaseInv
<1>2. PICK order \in SetToSeqs(DOMAIN rooms) : StartLoop(g, order)
  BY DEF RoomInfo
<1>3. Cardinality(DOMAIN rooms) \in Nat
  BY ConstantAssumption, FS_Subset, FS_CardinalityType DEF IInv, TypeOK
<1>4. order \in [1..Cardinality(DOMAIN rooms) -> Room]
  BY <1>2 DEF SetToSeqs, IInv, TypeOK
<1>5. order \in Seq(Room)
  BY <1>3, <1>4
<1>6. QED
  BY <1>1, <1>2, <1>5, StartLoopStep

\* The list of the members: clients[0] exists ("will be ok").
LEMMA MemListStep ==
  ASSUME IInv, NEW g \in Handler, MemList(g)
  PROVE  IInv'
<1>1. pc[g] = "memList" /\ req[g].op = "memList"
  BY DEF MemList, IInv, PhaseInv
<1>2. CASE PanicLocked(g)
  BY <1>1, <1>2, PanicStep DEF Critical
<1>3. CASE req[g].room \in DOMAIN rooms /\ StartLoop(g, rooms[req[g].room].clients)
  <2>1. rooms[req[g].room].clients \in Seq(Client)
    BY <1>3, RoomFacts
  <2>2. QED
    BY <1>1, <1>3, <2>1, StartLoopStep
<1>4. CASE StartLoop(g, <<>>)
  <2>1. <<>> \in Seq(Client)
    BY EmptySeq
  <2>2. QED
    BY <1>1, <1>4, <2>1, StartLoopStep
<1>5. QED
  BY <1>2, <1>3, <1>4 DEF MemList

\* One iteration of a loop: one value less to visit, at most one datagram more.
LEMMA VisitStep ==
  ASSUME IInv, NEW g \in Handler, Visit(g)
  PROVE  IInv'
<1>1. /\ pc[g] = "loop" /\ todo[g] # <<>>
      /\ todo' = [todo EXCEPT ![g] = Tail(todo[g])]
      /\ UNCHANGED <<up, rooms, writer, readers, pc, req, num, received>>
  BY DEF Visit, mutexVars
<1>2. \/ req[g].op \in {"chat", "memList"} /\ todo[g] \in Seq(Client)
      \/ req[g].op = "roomInfo" /\ todo[g] \in Seq(Room)
  BY <1>1 DEF IInv, PhaseInv
<1>3. req[g] \in Request
  BY <1>1 DEF IInv, TypeOK
<1>4. sent' \in [Addr -> Seq(Datagram)]
  <2> DEFINE value == Head(todo[g])
  <2>1. CASE UNCHANGED sent
    BY <2>1 DEF IInv, TypeOK
  <2>2. CASE /\ req[g].op = "chat"
             /\ WriteToUDP(g, value.clientAddr, "GET_MSG_CODE", req[g].user)
    <3>1. value \in Client
      BY <1>1, <1>2, <2>2, HeadTailProperties
    <3>2. value.clientAddr \in Addr /\ req[g].user \in User
      BY <1>3, <3>1, RequestFields DEF Client
    <3>3. QED
      BY <2>2, <3>2, WriteToUDPType DEF IInv, Code
  <2>3. CASE /\ req[g].op = "memList"
             /\ WriteToUDP(g, req[g].addr, "GET_MEM_LIST", value.id)
    <3>1. value \in Client
      BY <1>1, <1>2, <2>3, HeadTailProperties
    <3>2. value.id \in User /\ req[g].addr \in Addr
      BY <1>3, <3>1, RequestFields DEF Client
    <3>3. QED
      BY <2>3, <3>2, WriteToUDPType DEF IInv, Code
  <2>4. CASE /\ req[g].op = "roomInfo"
             /\ WriteToUDP(g, req[g].addr, "NEW_ROOM", value)
    <3>1. value \in Room
      BY <1>1, <1>2, <2>4, HeadTailProperties
    <3>2. req[g].addr \in Addr
      BY <1>3, RequestFields
    <3>3. QED
      BY <2>4, <3>1, <3>2, WriteToUDPType DEF IInv, Code
  <2>5. QED
    BY <2>1, <2>2, <2>3, <2>4 DEF Visit
<1>5. /\ todo[g] \in Seq(Client) => Tail(todo[g]) \in Seq(Client)
      /\ todo[g] \in Seq(Room) => Tail(todo[g]) \in Seq(Room)
      /\ Tail(todo[g]) \in Seq(Client \cup Room)
  BY <1>1, <1>2, HeadTailProperties, SeqMonotonic
<1>6. TypeOK'
  <2>1. todo' \in [Handler -> Seq(Client \cup Room)]
    BY <1>1, <1>5 DEF IInv, TypeOK
  <2>2. QED
    BY <1>1, <1>4, <2>1 DEF IInv, TypeOK
<1>7. MutexInv'
  BY <1>1 DEF IInv, MutexInv
<1>8. PhaseInv'
  BY <1>1, <1>2, <1>5 DEF IInv, TypeOK, PhaseInv
<1>9. RoomsConsistent'
  BY <1>1 DEF IInv, RoomsConsistent, CountLag
<1>10. QED
  BY <1>6, <1>7, <1>8, <1>9 DEF IInv

\* The answer after Unlock.
LEMMA AnswerStep ==
  ASSUME IInv, NEW g \in Handler, Answer(g)
  PROVE  IInv'
<1>1. /\ pc[g] = "reply"
      /\ UNCHANGED <<up, rooms, writer, readers, received>>
      /\ writer # g /\ g \notin readers
  BY DEF Answer, mutexVars, IInv, MutexInv, Critical
<1>2. req[g] \in Request
  BY <1>1 DEF IInv, TypeOK
<1>3. sent' \in [Addr -> Seq(Datagram)]
  <2>1. req[g].addr \in Addr /\ req[g].user \in User /\ req[g].room \in Room \cup {EmptyCode}
    BY <1>2, RequestFields
  <2>2. \E code \in Code, what \in Room \cup {EmptyCode} \cup User :
          WriteToUDP(g, req[g].addr, code, what)
    BY <2>1 DEF Answer, Code
  <2>3. QED
    BY <2>1, <2>2, WriteToUDPType DEF IInv
<1>4. CASE End(g)
  <2>1. TypeOK'
    BY <1>1, <1>3, <1>4, EndType DEF IInv, TypeOK
  <2>2. MutexInv' /\ PhaseInv'
    BY <1>1, <1>4 DEF IInv, TypeOK, MutexInv, PhaseInv, End, Goto, Critical
  <2>3. RoomsConsistent'
    BY <1>1, <1>4 DEF IInv, TypeOK, RoomsConsistent, CountLag, End, Goto
  <2>4. QED
    BY <2>1, <2>2, <2>3 DEF IInv
<1>5. CASE Goto(g, "print") /\ UNCHANGED jobVars
  <2>1. TypeOK'
    BY <1>1, <1>3, <1>5 DEF IInv, TypeOK, Goto, Label, jobVars
  <2>2. MutexInv' /\ PhaseInv'
    BY <1>1, <1>5 DEF IInv, TypeOK, MutexInv, PhaseInv, Goto, Critical, jobVars
  <2>3. RoomsConsistent'
    BY <1>1, <1>5 DEF IInv, TypeOK, RoomsConsistent, CountLag, Goto, jobVars
  <2>4. QED
    BY <2>1, <2>2, <2>3 DEF IInv
<1>6. QED
  BY <1>4, <1>5 DEF Answer

\* PrintStatus, which holds no lock.
LEMMA PrintStep ==
  ASSUME IInv, NEW g \in Handler, PrintStatus(g) \/ PrintStatusEnd(g)
  PROVE  IInv'
<1>1. /\ pc[g] \in {"print", "printing"}
      /\ UNCHANGED <<up, rooms, writer, readers, received, sent>>
      /\ writer # g /\ g \notin readers
  BY DEF PrintStatus, PrintStatusEnd, mutexVars, IInv, MutexInv, Critical
<1>2. CASE End(g)
  <2>1. TypeOK'
    BY <1>1, <1>2, EndType DEF IInv, TypeOK
  <2>2. MutexInv' /\ PhaseInv'
    BY <1>1, <1>2 DEF IInv, TypeOK, MutexInv, PhaseInv, End, Goto, Critical
  <2>3. RoomsConsistent'
    BY <1>1, <1>2 DEF IInv, TypeOK, RoomsConsistent, CountLag, End, Goto
  <2>4. QED
    BY <2>1, <2>2, <2>3 DEF IInv
<1>3. CASE Goto(g, "printing") /\ UNCHANGED jobVars
  <2>1. TypeOK'
    BY <1>1, <1>3 DEF IInv, TypeOK, Goto, Label, jobVars
  <2>2. MutexInv' /\ PhaseInv'
    BY <1>1, <1>3 DEF IInv, TypeOK, MutexInv, PhaseInv, Goto, Critical, jobVars
  <2>3. RoomsConsistent'
    BY <1>1, <1>3 DEF IInv, TypeOK, RoomsConsistent, CountLag, Goto, jobVars
  <2>4. QED
    BY <2>1, <2>2, <2>3 DEF IInv
<1>4. QED
  BY <1>2, <1>3 DEF PrintStatus, PrintStatusEnd

\* A process that has just started, whatever was received and sent before.
Fresh ==
  /\ up \in BOOLEAN
  /\ rooms = NoRooms
  /\ writer = NoOne
  /\ readers = {}
  /\ pc = [h \in Handler |-> "idle"]
  /\ req = [h \in Handler |-> NoRequest]
  /\ num = [h \in Handler |-> 0]
  /\ todo = [h \in Handler |-> <<>>]
  /\ received \in Nat
  /\ sent \in [Addr -> Seq(Datagram)]

\* A fresh process is consistent: there is no room and no goroutine.
LEMMA FreshProcess == Fresh => IInv
<1> SUFFICES ASSUME Fresh PROVE IInv
  OBVIOUS
<1>1. <<>> \in Seq(Client \cup Room)
  BY EmptySeq
<1>2. DOMAIN rooms = {}
  BY DEF Fresh, NoRooms
<1>3. rooms \in [DOMAIN rooms -> ChatRoom]
  BY <1>2 DEF Fresh, NoRooms
<1>4. TypeOK
  BY <1>1, <1>2, <1>3 DEF Fresh, TypeOK, Label
<1>5. MutexInv /\ PhaseInv /\ RoomsConsistent
  BY <1>2, ConstantAssumption DEF Fresh, MutexInv, PhaseInv, RoomsConsistent, Critical
<1>6. QED
  BY <1>4, <1>5 DEF IInv

\* The runtime ends the process; what is left is what a start finds.
LEMMA MapRaceStep ==
  ASSUME IInv, NEW g \in Handler, MapRace(g)
  PROVE  IInv'
<1>1. Fresh'
  BY DEF MapRace, Fresh, IInv, TypeOK, NoRooms
<1>2. Fresh' => IInv'
  BY FreshProcess, PTL
<1>3. QED
  BY <1>1, <1>2

-----------------------------------------------------------------------------
(* The theorems.                                                           *)

\* IInv holds when the server starts.
LEMMA InitIInv == Init => IInv
<1>1. ASSUME Init PROVE Fresh
  <2>1. <<>> \in Seq(Datagram)
    BY EmptySeq
  <2>2. QED
    BY <1>1, <2>1 DEF Init, Fresh
<1>2. QED
  BY <1>1, FreshProcess

\* Every step of a goroutine, of the runtime and of main keeps IInv.
LEMMA NextIInv == IInv /\ [Next]_vars => IInv'
<1> SUFFICES ASSUME IInv, [Next]_vars
             PROVE  IInv'
  OBVIOUS
<1>1. ASSUME NEW g \in Handler, Receive(g) PROVE IInv'
  BY <1>1, ReceiveStep
<1>2. ASSUME NEW g \in Handler, HandleMsg(g) PROVE IInv'
  <2>1. CASE RLock(g) \/ Check(g) \/ Lock(g) \/ Unlock(g)
    BY <2>1, RLockStep, CheckStep, LockStep, UnlockStep
  <2>2. CASE Make(g) \/ Join(g) \/ JoinCount(g)
    BY <2>2, MakeStep, JoinStep, JoinCountStep
  <2>3. CASE Quit(g) \/ QuitCount(g)
    BY <2>3, QuitStep, QuitCountStep
  <2>4. CASE Chat(g) \/ RoomInfo(g) \/ MemList(g) \/ Visit(g)
    BY <2>4, ChatStep, RoomInfoStep, MemListStep, VisitStep
  <2>5. CASE Answer(g) \/ PrintStatus(g) \/ PrintStatusEnd(g)
    BY <2>5, AnswerStep, PrintStep
  <2>6. QED
    BY <1>2, <2>1, <2>2, <2>3, <2>4, <2>5 DEF HandleMsg
<1>3. ASSUME NEW g \in Handler, MapRace(g) PROVE IInv'
  BY <1>3, MapRaceStep
<1>4. CASE Restart
  <2>1. up' \in BOOLEAN /\ UNCHANGED <<rooms, writer, readers, pc, req, num, todo, received, sent>>
    BY <1>4 DEF Restart, mutexVars, jobVars
  <2>2. TypeOK'
    BY <2>1 DEF IInv, TypeOK
  <2>3. MutexInv' /\ PhaseInv'
    BY <2>1 DEF IInv, MutexInv, PhaseInv
  <2>4. RoomsConsistent'
    BY <2>1 DEF IInv, RoomsConsistent, CountLag
  <2>5. QED
    BY <2>2, <2>3, <2>4 DEF IInv
<1>5. CASE UNCHANGED vars
  <2>1. TypeOK'
    BY <1>5 DEF IInv, TypeOK, vars
  <2>2. MutexInv' /\ PhaseInv'
    BY <1>5 DEF IInv, MutexInv, PhaseInv, vars
  <2>3. RoomsConsistent'
    BY <1>5 DEF IInv, RoomsConsistent, CountLag, vars
  <2>4. QED
    BY <2>1, <2>2, <2>3 DEF IInv
<1>6. QED
  BY <1>1, <1>2, <1>3, <1>4, <1>5 DEF Next

\* The inductive invariant of the room service.
THEOREM Invariance == Spec => []IInv
BY InitIInv, NextIInv, PTL DEF Spec

\* Every variable of the room service keeps its type (handler.go:61-407).
THEOREM TypeCorrect == Spec => []TypeOK
<1>1. IInv => TypeOK
  BY DEF IInv
<1>2. QED
  BY <1>1, Invariance, PTL

\* Any number of goroutines exclude each other between Lock and Unlock
\* (handler.go:157-182, 198-222, 235-275, 280-288, 311-334, 365-398).
THEOREM Exclusion == Spec => []MutexInv
<1>1. IInv => MutexInv
  BY DEF IInv
<1>2. QED
  BY <1>1, Invariance, PTL

\* Goroutines are where their request says (the switch of HandleMsg).
THEOREM Phases == Spec => []PhaseInv
<1>1. IInv => PhaseInv
  BY DEF IInv
<1>2. QED
  BY <1>1, Invariance, PTL

\* memCnt counts the clients and no room is empty, through every
\* interleaving, orphaned lock and restart (handler.go:198-222, 260-272).
THEOREM Consistency == Spec => []RoomsConsistent
<1>1. IInv => RoomsConsistent
  BY DEF IInv
<1>2. QED
  BY <1>1, Invariance, PTL

\* The read of clients[0] in REQ_MEM_LIST never panics: the list of the
\* members is not a way to orphan roomMutex ("will be ok", handler.go:378).
THEOREM MemListIsSafe == Spec => [](\A g \in Handler :
                                      pc[g] = "memList" /\ req[g].room \in DOMAIN rooms
                                        => rooms[req[g].room].clients # <<>>)
<1>1. ASSUME IInv, NEW g \in Handler, pc[g] = "memList", req[g].room \in DOMAIN rooms
      PROVE  rooms[req[g].room].clients # <<>>
  <2> DEFINE r == req[g].room
  <2>1. writer = g
    BY <1>1 DEF IInv, MutexInv, Critical
  <2>2. CountLag(r) = 0
    BY <1>1, <2>1, LagValues DEF CountLag
  <2>3. /\ rooms[r].clients \in Seq(Client)
        /\ rooms[r].memCnt = Len(rooms[r].clients) + CountLag(r)
        /\ rooms[r].memCnt > 0 /\ Len(rooms[r].clients) \in Nat
    BY <1>1, RoomFacts
  <2> HIDE DEF r
  <2>4. Len(rooms[r].clients) # 0
    BY <2>2, <2>3
  <2>5. QED
    BY <2>3, <2>4, EmptySeq DEF r
<1>2. IInv => \A g \in Handler : pc[g] = "memList" /\ req[g].room \in DOMAIN rooms
                                   => rooms[req[g].room].clients # <<>>
  BY <1>1
<1>3. QED
  BY <1>2, Invariance, PTL

-----------------------------------------------------------------------------
(* The loops and the order of the chat messages.  The history of what was  *)
(* written needs an invariant of its own: the datagrams of one request are *)
(* told from those of the others (Numbered), a request writes nothing      *)
(* before its loop and writes chat messages only if it is one (Kinds), and *)
(* once a chat loop has written to an address nobody else's chat message   *)
(* follows there until the loop is over (OneRun).                          *)

\* The goroutine handles a datagram, or has not written anything for it yet.
Active(g) == pc[g] # "idle"
Unsent(g) == pc[g] \notin {"idle", "loop", "reply", "print", "printing"}

\* No two goroutines handle the same datagram, and no answer is ahead of
\* the datagrams that were read.
Numbered ==
  /\ \A g \in Handler : Active(g) => num[g] \in 1..received
  /\ \A g, h \in Handler : Active(g) /\ Active(h) /\ num[g] = num[h] => g = h
  /\ \A a \in Addr : \A i \in DOMAIN sent[a] : sent[a][i].num <= received

IsChat(d) == d.code = "GET_MSG_CODE"

\* What a request writes is of the kind the request is.
Kinds ==
  /\ \A g \in Handler, a \in Addr : Unsent(g) => Written(g, a) = {}
  /\ \A g \in Handler, a \in Addr : Active(g) =>
       \A i \in Written(g, a) : IsChat(sent[a][i]) <=> req[g].op = "chat"
  /\ \A a, b \in Addr : \A i \in DOMAIN sent[a], j \in DOMAIN sent[b] :
       sent[a][i].num = sent[b][j].num /\ IsChat(sent[a][i]) => IsChat(sent[b][j])

\* The messages of the chat loop that runs are the last at every address.
LastAt(g, a) ==
  \A i \in Written(g, a) : \A j \in DOMAIN sent[a] :
    i < j /\ IsChat(sent[a][j]) => j \in Written(g, a)

OneRun ==
  \A g \in Handler : pc[g] = "loop" /\ req[g].op = "chat" =>
    /\ req[g].room \in DOMAIN rooms
    /\ \A a \in Addr : LastAt(g, a)

\* What LoopsCurrent says of one goroutine.
Serving(g) ==
  LET r == req[g].room
      to == req[g].addr
  IN CASE req[g].op = "chat" ->
            \A a \in Addr : Cardinality(Written(g, a)) + Recipients(g, a, todo[g])
                              = Recipients(g, a, rooms[r].clients)
       [] req[g].op = "memList" ->
            Cardinality(Written(g, to)) + Len(todo[g]) =
              IF r \in DOMAIN rooms THEN Len(rooms[r].clients) ELSE 0
       [] req[g].op = "roomInfo" ->
            {sent[to][i].what : i \in Written(g, to)} \cup ToSet(todo[g])
              = DOMAIN rooms

HInv == Numbered /\ Kinds /\ OneRun /\ LoopsCurrent /\ ChatOrder

LEMMA LoopsServing == LoopsCurrent <=> \A g \in Handler : pc[g] = "loop" => Serving(g)
BY DEF LoopsCurrent, Serving

\* The other goroutines stay where they are.
OthersStay(g) ==
  \A h \in Handler \ {g} :
    pc'[h] = pc[h] /\ req'[h] = req[h] /\ num'[h] = num[h] /\ todo'[h] = todo[h]

\* g goes on with its request, or ends.
GoesOn(g) == Active(g)' => Active(g) /\ req'[g] = req[g] /\ num'[g] = num[g]

\* A loop stays as it is while its rooms and its datagrams do.
LEMMA ServingKept ==
  ASSUME IInv, NEW h \in Handler, pc[h] = "loop", Serving(h),
         req'[h] = req[h], num'[h] = num[h], todo'[h] = todo[h], rooms' = rooms,
         \A a \in Addr : Written(h, a)' = Written(h, a),
         \A a \in Addr : \A i \in Written(h, a) : sent'[a][i] = sent[a][i]
  PROVE  Serving(h)'
<1> DEFINE r == req[h].room
           to == req[h].addr
<1>1. req[h] \in Request /\ to \in Addr
  BY RequestFields DEF IInv, TypeOK
<1>2. Written(h, to)' = Written(h, to)
  BY <1>1
<1>3. \A a \in Addr : /\ Recipients(h, a, todo[h])' = Recipients(h, a, todo[h])
                      /\ Recipients(h, a, rooms[r].clients)' = Recipients(h, a, rooms[r].clients)
  BY DEF Recipients
<1>4. {sent'[to][i].what : i \in Written(h, to)'} = {sent[to][i].what : i \in Written(h, to)}
  BY <1>1, <1>2
<1>5. CASE req[h].op = "chat"
  BY <1>3, <1>5 DEF Serving
<1>6. CASE req[h].op = "memList"
  BY <1>2, <1>6 DEF Serving
<1>7. CASE req[h].op = "roomInfo"
  <2> DEFINE Told == {sent[to][i].what : i \in Written(h, to)}
             Served(told) == told \cup ToSet(todo[h]) = DOMAIN rooms
  <2>1. Served(Told)
    BY <1>7 DEF Serving
  <2>2. Served(Told') => Serving(h)'
    BY <1>7 DEF Serving
  <2>3. Told' = Told
    BY <1>1, <1>4
  <2> HIDE DEF Told, Served
  <2>4. QED
    BY <2>1, <2>2, <2>3
<1>8. req[h].op \in {"chat", "memList", "roomInfo"}
  BY DEF IInv, PhaseInv
<1>9. QED
  BY <1>5, <1>6, <1>7, <1>8

\* Only the goroutine in the loop holds roomMutex.
LEMMA LoopHolder ==
  ASSUME IInv, NEW g \in Handler, NEW h \in Handler,
         pc[h] = "loop", pc[g] \in Critical
  PROVE  g = h
BY DEF IInv, MutexInv, Critical

\* A step that writes no datagram and does not end in a loop.
LEMMA NothingWrittenStep ==
  ASSUME IInv, HInv, NEW g \in Handler,
         UNCHANGED <<sent, received>>, OthersStay(g), GoesOn(g),
         pc'[g] # "loop", Unsent(g)' => Unsent(g),
         \A h \in Handler \ {g} : pc[h] = "loop" => rooms' = rooms
  PROVE  HInv'
<1>1. \A h \in Handler : Active(h)' => Active(h) /\ req'[h] = req[h] /\ num'[h] = num[h]
  BY DEF OthersStay, GoesOn, Active
<1>2. \A h \in Handler : Unsent(h)' => Unsent(h)
  BY DEF OthersStay, Unsent
<1>3. \A h \in Handler, a \in Addr : Active(h)' => Written(h, a)' = Written(h, a)
  BY <1>1 DEF Written
<1>4. \A h \in Handler : Unsent(h)' => Active(h)'
  BY DEF Unsent, Active
<1>5. Numbered'
  BY <1>1 DEF HInv, Numbered
<1>6. Kinds'
  <2>1. \A h \in Handler, a \in Addr : Unsent(h)' => Written(h, a)' = {}
    BY <1>2, <1>3, <1>4 DEF HInv, Kinds
  <2>2. \A h \in Handler, a \in Addr : Active(h)' =>
          \A i \in Written(h, a)' : IsChat(sent[a][i]) <=> req'[h].op = "chat"
    BY <1>1, <1>3 DEF HInv, Kinds
  <2>3. QED
    BY <2>1, <2>2 DEF HInv, Kinds, IsChat
<1>7. ASSUME NEW h \in Handler, pc'[h] = "loop"
      PROVE  /\ h # g /\ pc[h] = "loop" /\ rooms' = rooms /\ Active(h)'
             /\ req'[h] = req[h] /\ num'[h] = num[h] /\ todo'[h] = todo[h]
  BY <1>7 DEF OthersStay, Active
<1>8. OneRun'
  BY <1>3, <1>7 DEF HInv, OneRun, LastAt, IsChat
<1>9. LoopsCurrent'
  <2> SUFFICES ASSUME NEW h \in Handler, pc'[h] = "loop" PROVE Serving(h)'
    BY DEF LoopsCurrent, Serving
  <2>1. Serving(h)
    BY <1>7, LoopsServing DEF HInv
  <2>2. \A a \in Addr : Written(h, a)' = Written(h, a)
    BY <1>3, <1>7
  <2>3. QED
    BY <1>7, <2>1, <2>2, ServingKept
<1>10. ChatOrder'
  BY DEF HInv, ChatOrder
<1>11. QED
  BY <1>5, <1>6, <1>8, <1>9, <1>10 DEF HInv
\* The places of a sequence are finitely many.
LEMMA SeqDomain ==
  ASSUME NEW S, NEW s \in Seq(S)
  PROVE  Len(s) \in Nat /\ DOMAIN s = 1..Len(s) /\ IsFiniteSet(DOMAIN s)
<1>1. Len(s) \in Nat /\ DOMAIN s = 1..Len(s)
  BY LenProperties
<1>2. \A n \in Nat : IsFiniteSet(1..n)
  BY FS_Interval
<1>3. QED
  BY <1>1, <1>2

\* A datagram that was written.
LEMMA SentType ==
  ASSUME IInv, NEW a \in Addr, NEW i \in DOMAIN sent[a]
  PROVE  sent[a][i] \in Datagram /\ sent[a][i].num \in Nat
<1>1. sent[a] \in Seq(Datagram)
  BY DEF IInv, TypeOK
<1>2. sent[a][i] \in Datagram
  BY <1>1, ElementOfSeq, LenProperties
<1>3. QED
  BY <1>2 DEF Datagram

\* A datagram that is read gets a number that nothing was written for.
LEMMA ReceiveNumbers ==
  ASSUME IInv, HInv, NEW g \in Handler, Receive(g)
  PROVE  HInv'
<1>1. PICK m \in Request :
        \/ UNCHANGED <<pc, req, num, todo>>
        \/ /\ pc' = [pc EXCEPT ![g] = FirstLabel(m)]
           /\ req' = [req EXCEPT ![g] = m]
           /\ num' = [num EXCEPT ![g] = received + 1]
           /\ todo' = todo
  BY DEF Receive, jobVars, Goto
<1>2. received' = received + 1 /\ pc[g] = "idle" /\ rooms' = rooms /\ sent' = sent
  BY DEF Receive
<1>3. received \in Nat
  BY DEF IInv, TypeOK
<1>4. FirstLabel(m) \in {"rlock", "print", "lock"}
  BY DEF FirstLabel
<1>5. \A h \in Handler \ {g} : pc'[h] = pc[h] /\ req'[h] = req[h] /\ num'[h] = num[h] /\ todo'[h] = todo[h]
  BY <1>1 DEF IInv, TypeOK
<1>6. Active(g)' => /\ num'[g] = received + 1
                    /\ \A a \in Addr : Written(g, a)' = {}
                    /\ pc'[g] # "loop"
  <2> SUFFICES ASSUME Active(g)'
               PROVE  /\ num'[g] = received + 1
                      /\ \A a \in Addr : Written(g, a)' = {}
                      /\ pc'[g] # "loop"
    OBVIOUS
  <2>1. num'[g] = received + 1 /\ pc'[g] # "loop"
    BY <1>1, <1>2, <1>4 DEF Active, IInv, TypeOK
  <2>2. \A a \in Addr : \A i \in DOMAIN sent[a] : sent[a][i].num # received + 1
    <3>1. \A a \in Addr : \A i \in DOMAIN sent[a] : sent[a][i].num <= received
      BY DEF HInv, Numbered
    <3>2. ~(received + 1 <= received)
      BY <1>3
    <3>3. QED
      BY <3>1, <3>2
  <2>3. \A a \in Addr : Written(g, a)' = {}
    BY <1>2, <2>1, <2>2 DEF Written
  <2>4. QED
    BY <2>1, <2>3
<1>7. \A h \in Handler \ {g}, a \in Addr : Written(h, a)' = Written(h, a)
  BY <1>2, <1>5 DEF Written
<1>8. Numbered'
  <2>1. \A h \in Handler : Active(h)' => num'[h] \in 1..received + 1
    BY <1>3, <1>5, <1>6 DEF HInv, Numbered, Active
  <2>2. \A h, k \in Handler : Active(h)' /\ Active(k)' /\ num'[h] = num'[k] => h = k
    <3>1. \A h \in Handler \ {g} : Active(h)' => num'[h] \in 1..received
      BY <1>5 DEF HInv, Numbered, Active
    <3>2. \A h, k \in Handler \ {g} : Active(h)' /\ Active(k)' /\ num'[h] = num'[k] => h = k
      BY <1>5 DEF HInv, Numbered, Active
    <3>3. QED
      BY <1>3, <1>6, <3>1, <3>2
  <2>3. QED
    <3>1. \A a \in Addr : \A i \in DOMAIN sent[a] : sent[a][i].num <= received + 1
      <4> SUFFICES ASSUME NEW a \in Addr, NEW i \in DOMAIN sent[a]
                   PROVE  sent[a][i].num <= received + 1
        OBVIOUS
      <4>1. sent[a][i].num \in Nat
        BY SentType
      <4>2. sent[a][i].num <= received
        BY DEF HInv, Numbered
      <4>3. QED
        BY <1>3, <4>1, <4>2
    <3>2. QED
      BY <1>2, <2>1, <2>2, <3>1 DEF Numbered
<1>9. Kinds'
  <2>1. \A h \in Handler, a \in Addr : Unsent(h)' => Written(h, a)' = {}
    BY <1>5, <1>6, <1>7 DEF HInv, Kinds, Unsent, Active
  <2>2. \A h \in Handler, a \in Addr : Active(h)' =>
          \A i \in Written(h, a)' : IsChat(sent[a][i]) <=> req'[h].op = "chat"
    BY <1>5, <1>6, <1>7 DEF HInv, Kinds, Active
  <2>3. QED
    BY <1>2, <2>1, <2>2 DEF HInv, Kinds, IsChat
<1>10. ASSUME NEW h \in Handler, pc'[h] = "loop"
       PROVE  /\ h # g /\ pc[h] = "loop"
              /\ req'[h] = req[h] /\ num'[h] = num[h] /\ todo'[h] = todo[h]
  BY <1>5, <1>6, <1>10 DEF Active
<1>11. OneRun'
  BY <1>2, <1>7, <1>10 DEF HInv, OneRun, LastAt, IsChat
<1>12. LoopsCurrent'
  <2> SUFFICES ASSUME NEW h \in Handler, pc'[h] = "loop" PROVE Serving(h)'
    BY DEF LoopsCurrent, Serving
  <2>1. Serving(h)
    BY <1>10, LoopsServing DEF HInv
  <2>2. QED
    BY <1>2, <1>7, <1>10, <2>1, ServingKept
<1>13. ChatOrder'
  BY <1>2 DEF HInv, ChatOrder
<1>14. QED
  BY <1>8, <1>9, <1>11, <1>12, <1>13 DEF HInv

\* The steps that take or give back a lock.
LEMMA LocksAreSilent ==
  ASSUME IInv, HInv, NEW g \in Handler,
         RLock(g) \/ Check(g) \/ Lock(g) \/ Unlock(g)
  PROVE  HInv'
<1>1. UNCHANGED <<sent, received>> /\ rooms' = rooms
  BY DEF RLock, Check, Lock, LockAs, Unlock
<1>2. OthersStay(g) /\ GoesOn(g)
  BY DEF RLock, Check, Lock, LockAs, Unlock, Goto, End, jobVars, OthersStay, GoesOn, Active, IInv, TypeOK
<1>3. pc'[g] # "loop" /\ (Unsent(g)' => Unsent(g))
  <2>1. CASE RLock(g) \/ Check(g)
    BY <2>1 DEF RLock, Check, Goto, Unsent, IInv, TypeOK
  <2>2. CASE Lock(g)
    BY <2>2 DEF Lock, LockAs, Goto, Unsent, IInv, TypeOK, PhaseInv
  <2>3. CASE Unlock(g)
    BY <2>3 DEF Unlock, Goto, End, Unsent, IInv, TypeOK
  <2>4. QED
    BY <2>1, <2>2, <2>3
<1>4. QED
  BY <1>1, <1>2, <1>3, NothingWrittenStep

\* A panic between Lock and Unlock.
LEMMA PanicIsSilent ==
  ASSUME IInv, HInv, NEW g \in Handler, PanicLocked(g)
  PROVE  HInv'
<1>1. UNCHANGED <<sent, received>> /\ rooms' = rooms
  BY DEF PanicLocked
<1>2. OthersStay(g) /\ GoesOn(g) /\ pc'[g] = "idle"
  BY DEF PanicLocked, Goto, End, OthersStay, GoesOn, Active, IInv, TypeOK
<1>3. QED
  BY <1>1, <1>2, NothingWrittenStep DEF Unsent

\* The assignments to a room: no loop runs while its goroutine holds roomMutex.
LEMMA AssignmentsAreSilent ==
  ASSUME IInv, HInv, NEW g \in Handler,
         Make(g) \/ Join(g) \/ JoinCount(g) \/ Quit(g) \/ QuitCount(g)
  PROVE  HInv'
<1>1. CASE PanicLocked(g)
  BY <1>1, PanicIsSilent
<1>2. CASE ~PanicLocked(g)
  <2>1. /\ UNCHANGED <<sent, received, req, num, todo>>
        /\ pc[g] \in {"make", "join", "joinCnt", "quit", "quitCnt"}
        /\ \/ pc' = [pc EXCEPT ![g] = "unlock"]
           \/ pc' = [pc EXCEPT ![g] = "joinCnt"]
           \/ pc' = [pc EXCEPT ![g] = "quitCnt"]
    BY <1>2 DEF Make, Join, JoinCount, Quit, QuitCount, Goto, jobVars
  <2>2. OthersStay(g) /\ GoesOn(g) /\ pc'[g] # "loop" /\ Unsent(g)
    BY <2>1 DEF OthersStay, GoesOn, Active, Unsent, IInv, TypeOK
  <2>3. \A h \in Handler \ {g} : pc[h] # "loop"
    BY <2>1, LoopHolder DEF Critical
  <2>4. QED
    BY <2>1, <2>2, <2>3, NothingWrittenStep
<1>3. QED
  BY <1>1, <1>2

\* PrintStatus writes nothing to a client.
LEMMA PrintIsSilent ==
  ASSUME IInv, HInv, NEW g \in Handler, PrintStatus(g) \/ PrintStatusEnd(g)
  PROVE  HInv'
<1>1. UNCHANGED <<sent, received>> /\ rooms' = rooms
  BY DEF PrintStatus, PrintStatusEnd
<1>2. OthersStay(g) /\ GoesOn(g) /\ pc'[g] \in {"idle", "printing"}
  BY DEF PrintStatus, PrintStatusEnd, Goto, End, jobVars, OthersStay, GoesOn, Active, IInv, TypeOK
<1>3. QED
  BY <1>1, <1>2, NothingWrittenStep DEF Unsent

\* A loop starts with everything still to visit and nothing written.
LEMMA StartLoopServes ==
  ASSUME IInv, HInv, NEW g \in Handler,
         pc[g] \in {"chat", "roomInfo", "memList"},
         NEW values \in Seq(Client) \cup Seq(Room), StartLoop(g, values),
         req[g].op = "chat" => /\ req[g].room \in DOMAIN rooms
                               /\ values = rooms[req[g].room].clients,
         req[g].op = "memList" =>
           Len(values) = IF req[g].room \in DOMAIN rooms
                         THEN Len(rooms[req[g].room].clients) ELSE 0,
         req[g].op = "roomInfo" => ToSet(values) = DOMAIN rooms
  PROVE  HInv'
<1>1. /\ pc' = [pc EXCEPT ![g] = "loop"] /\ todo' = [todo EXCEPT ![g] = values]
      /\ UNCHANGED <<rooms, req, num, received, sent>>
  BY DEF StartLoop, Goto
<1>2. /\ pc'[g] = "loop" /\ todo'[g] = values
      /\ \A h \in Handler \ {g} : pc'[h] = pc[h] /\ todo'[h] = todo[h]
  BY <1>1 DEF IInv, TypeOK
<1>3. \A h \in Handler, a \in Addr : Written(h, a)' = Written(h, a)
  BY <1>1 DEF Written
<1>4. \A a \in Addr : Written(g, a) = {} /\ Written(g, a)' = {}
  BY <1>3 DEF HInv, Kinds, Unsent
<1>5. \A h \in Handler : /\ Active(h)' => Active(h)
                         /\ Unsent(h)' => Unsent(h)
  BY <1>2 DEF Active, Unsent
<1>6. \A h \in Handler \ {g} : pc'[h] # "loop"
  BY <1>2, LoopHolder DEF Critical
<1>7. Numbered'
  BY <1>1, <1>5 DEF HInv, Numbered
<1>8. Kinds'
  BY <1>1, <1>3, <1>5 DEF HInv, Kinds, IsChat
<1>9. OneRun'
  <2>1. \A a \in Addr : LastAt(g, a)'
    BY <1>4 DEF LastAt
  <2>2. QED
    BY <1>1, <1>6, <2>1 DEF OneRun
<1>10. Serving(g)'
  <2>1. req[g] \in Request /\ req[g].addr \in Addr
    BY RequestFields DEF IInv, TypeOK
  <2>2. CASE req[g].op = "chat"
    <3>1. \A a \in Addr : Recipients(g, a, values)' \in Nat
      <4>2. IsFiniteSet(DOMAIN values)
        BY SeqDomain
      <4>3. QED
        BY <1>1, <4>2, FS_Subset, FS_CardinalityType DEF Recipients
    <3>2. \A a \in Addr : Cardinality(Written(g, a)') = 0
      BY <1>4, FS_EmptySet
    <3>3. \A a \in Addr : Recipients(g, a, todo[g])' = Recipients(g, a, values)'
      BY <1>2 DEF Recipients
    <3>4. \A a \in Addr : Recipients(g, a, rooms[req[g].room].clients)' = Recipients(g, a, values)'
      BY <1>1, <2>2 DEF Recipients
    <3>5. QED
      BY <1>1, <2>2, <3>1, <3>2, <3>3, <3>4 DEF Serving
  <2>3. CASE req[g].op = "memList"
    <3>1. Written(g, req[g].addr) = {}
      BY <1>4, <2>1
    <3>4. Cardinality(Written(g, req[g].addr)') = 0
      BY <1>1, <3>1, FS_EmptySet DEF Written
    <3>2. Len(values) \in Nat
      BY LenProperties
    <3>3. QED
      BY <1>1, <1>2, <2>3, <3>2, <3>4 DEF Serving
  <2>4. CASE req[g].op = "roomInfo"
    BY <1>1, <1>2, <1>4, <2>1, <2>4 DEF Serving
  <2>5. req[g].op \in {"chat", "memList", "roomInfo"}
    BY DEF IInv, PhaseInv
  <2>6. QED
    BY <2>2, <2>3, <2>4, <2>5
<1>11. LoopsCurrent'
  <2> SUFFICES ASSUME NEW h \in Handler, pc'[h] = "loop" PROVE Serving(h)'
    BY DEF LoopsCurrent, Serving
  <2>1. QED
    BY <1>6, <1>10
<1>12. ChatOrder'
  BY <1>1 DEF HInv, ChatOrder
<1>13. QED
  BY <1>7, <1>8, <1>9, <1>11, <1>12 DEF HInv
\* A sequence that visits every member of a finite set once leaves none out.
LEMMA OrderComplete ==
  ASSUME NEW S, IsFiniteSet(S), NEW order \in SetToSeqs(S)
  PROVE  ToSet(order) = S
<1> DEFINE D == 1..Cardinality(S)
<1>1. Cardinality(S) \in Nat
  BY FS_CardinalityType
<1>2. Cardinality(D) = Cardinality(S)
  BY <1>1, FS_Interval
<1>3. order \in [D -> S] /\ \A i, j \in D : i # j => order[i] # order[j]
  BY DEF SetToSeqs
<1> HIDE DEF D
<1>4. order \in Injection(D, S)
  BY <1>3 DEF Injection, IsInjective
<1>5. order \in Surjection(D, S)
  BY <1>2, <1>4, FS_Injection
<1>6. QED
  BY <1>3, <1>5 DEF Surjection, ToSet

\* The recipients of a message: the first client counts if it is one.
LEMMA RecipientsFirst ==
  ASSUME NEW g \in Handler, NEW a \in Addr,
         NEW clients \in Seq(Client), clients # <<>>
  PROVE  /\ Recipients(g, a, Tail(clients)) \in Nat
         /\ Recipients(g, a, clients) =
              Recipients(g, a, Tail(clients)) +
                IF Head(clients).id # req[g].user /\ Head(clients).clientAddr = a
                THEN 1 ELSE 0
<1> DEFINE Hits(s) == {i \in DOMAIN s : s[i].id # req[g].user /\ s[i].clientAddr = a}
           rest == Hits(Tail(clients))
           later == Hits(clients) \ {1}
           shift == [i \in rest |-> i + 1]
<1>1. /\ Tail(clients) \in Seq(Client) /\ Len(clients) \in Nat \ {0}
      /\ DOMAIN clients = 1..Len(clients)
      /\ DOMAIN Tail(clients) = 1..(Len(clients) - 1)
      /\ \A i \in 1..(Len(clients) - 1) : Tail(clients)[i] = clients[i + 1]
      /\ Head(clients) = clients[1]
  BY HeadTailProperties, LenProperties, EmptySeq
<1>2. IsFiniteSet(rest) /\ IsFiniteSet(Hits(clients)) /\ rest \subseteq Nat
  <2>1. IsFiniteSet(DOMAIN clients) /\ IsFiniteSet(DOMAIN Tail(clients))
    BY <1>1, SeqDomain
  <2>2. QED
    BY <1>1, <2>1, FS_Subset
<1>3. \A i \in rest : i + 1 \in later
  BY <1>1
<1>4. \A i \in later : i - 1 \in rest /\ (i - 1) + 1 = i
  BY <1>1
<1> HIDE DEF rest, later
<1>5. shift \in Bijection(rest, later)
  <2>1. shift \in [rest -> later]
    BY <1>3
  <2>2. \A i, j \in rest : shift[i] = shift[j] => i = j
    BY <1>2
  <2>3. \A i \in later : \E j \in rest : shift[j] = i
    BY <1>4
  <2>4. QED
    BY <2>1, <2>2, <2>3 DEF Bijection, Injection, Surjection, IsInjective
<1>6. Cardinality(later) = Cardinality(rest)
  BY <1>2, <1>5, FS_Bijection DEF ExistsBijection
<1>7. Cardinality(rest) \in Nat /\ Cardinality(Hits(clients)) \in Nat
  BY <1>2, FS_CardinalityType
<1>8. Cardinality(later) =
        IF 1 \in Hits(clients) THEN Cardinality(Hits(clients)) - 1 ELSE Cardinality(Hits(clients))
  BY <1>2, FS_RemoveElement DEF later
<1>9. 1 \in Hits(clients) <=> Head(clients).id # req[g].user /\ Head(clients).clientAddr = a
  BY <1>1
<1>10. /\ Recipients(g, a, clients) = Cardinality(Hits(clients))
       /\ Recipients(g, a, Tail(clients)) = Cardinality(rest)
  BY DEF Recipients, rest
<1> HIDE DEF Hits
<1>11. QED
  BY <1>6, <1>7, <1>8, <1>9, <1>10

\* The values of a sequence are its first one and those of the rest.
LEMMA HeadFirst ==
  ASSUME NEW S, NEW s \in Seq(S), s # <<>>
  PROVE  ToSet(s) = {Head(s)} \cup ToSet(Tail(s))
<1>1. /\ Len(s) \in Nat \ {0} /\ DOMAIN s = 1..Len(s)
      /\ DOMAIN Tail(s) = 1..(Len(s) - 1)
      /\ \A i \in 1..(Len(s) - 1) : Tail(s)[i] = s[i + 1]
      /\ Head(s) = s[1]
  BY HeadTailProperties, LenProperties, EmptySeq
<1>2. \A i \in DOMAIN s : i = 1 \/ (i - 1 \in DOMAIN Tail(s) /\ Tail(s)[i - 1] = s[i])
  BY <1>1
<1>3. \A i \in DOMAIN Tail(s) : i + 1 \in DOMAIN s /\ s[i + 1] = Tail(s)[i]
  BY <1>1
<1>4. 1 \in DOMAIN s
  BY <1>1
<1>5. ASSUME NEW x \in ToSet(s) PROVE x \in {Head(s)} \cup ToSet(Tail(s))
  BY <1>1, <1>2 DEF ToSet
<1>6. ASSUME NEW x \in {Head(s)} \cup ToSet(Tail(s)) PROVE x \in ToSet(s)
  BY <1>1, <1>3, <1>4 DEF ToSet
<1>7. QED
  BY <1>5, <1>6

\* The loops of GET_MSG_CODE, REQ_ROOM_INFO and REQ_MEM_LIST start.
LEMMA LoopsStart ==
  ASSUME IInv, HInv, NEW g \in Handler, Chat(g) \/ RoomInfo(g) \/ MemList(g)
  PROVE  HInv'
<1>1. CASE PanicLocked(g)
  BY <1>1, PanicIsSilent
<1>2. CASE Chat(g) /\ ~PanicLocked(g)
  <2>1. /\ pc[g] = "chat" /\ req[g].op = "chat" /\ req[g].room \in DOMAIN rooms
        /\ StartLoop(g, rooms[req[g].room].clients)
    BY <1>2 DEF Chat, IInv, PhaseInv
  <2>2. rooms[req[g].room].clients \in Seq(Client)
    BY <2>1, RoomFacts
  <2>3. QED
    BY <2>1, <2>2, StartLoopServes
<1>3. CASE RoomInfo(g)
  <2>1. pc[g] = "roomInfo" /\ req[g].op = "roomInfo"
    BY <1>3 DEF RoomInfo, IInv, PhaseInv
  <2>2. PICK order \in SetToSeqs(DOMAIN rooms) : StartLoop(g, order)
    BY <1>3 DEF RoomInfo
  <2>3. DOMAIN rooms \subseteq Room /\ IsFiniteSet(DOMAIN rooms)
    BY ConstantAssumption, FS_Subset DEF IInv, TypeOK
  <2>4. ToSet(order) = DOMAIN rooms
    BY <2>3, OrderComplete
  <2>5. order \in Seq(Room)
    <3>1. Cardinality(DOMAIN rooms) \in Nat
      BY <2>3, FS_CardinalityType
    <3>2. order \in [1..Cardinality(DOMAIN rooms) -> Room]
      BY <2>3 DEF SetToSeqs
    <3>3. QED
      BY <3>1, <3>2
  <2>6. QED
    BY <2>1, <2>2, <2>4, <2>5, StartLoopServes
<1>4. CASE MemList(g) /\ ~PanicLocked(g)
  <2>1. pc[g] = "memList" /\ req[g].op = "memList"
    BY <1>4 DEF MemList, IInv, PhaseInv
  <2>2. CASE req[g].room \in DOMAIN rooms
    <3> DEFINE values == rooms[req[g].room].clients
    <3>1. StartLoop(g, values)
      BY <1>4, <2>2 DEF MemList
    <3>2. /\ values \in Seq(Client)
          /\ Len(values) = IF req[g].room \in DOMAIN rooms
                           THEN Len(rooms[req[g].room].clients) ELSE 0
      BY <2>2, RoomFacts
    <3> HIDE DEF values
    <3>3. QED
      BY <2>1, <2>2, <3>1, <3>2, StartLoopServes
  <2>3. CASE req[g].room \notin DOMAIN rooms
    <3> DEFINE values == <<>>
    <3>1. StartLoop(g, values)
      BY <1>4, <2>3 DEF MemList
    <3>2. values \in Seq(Client) /\ Len(values) = 0
      BY EmptySeq
    <3> HIDE DEF values
    <3>3. QED
      BY <2>1, <2>3, <3>1, <3>2, StartLoopServes
  <2>4. QED
    BY <2>2, <2>3
<1>5. QED
  BY <1>1, <1>2, <1>3, <1>4
\* The datagram d is written to a, behind those that were sent there before.
Appends(a, new, d) ==
  /\ DOMAIN sent'[a] = DOMAIN sent[a] \cup {new}
  /\ new \notin DOMAIN sent[a]
  /\ \A i \in DOMAIN sent'[a] : ~(new < i)
  /\ sent'[a][new] = d
  /\ \A i \in DOMAIN sent[a] : sent'[a][i] = sent[a][i]
  /\ \A b \in Addr \ {a} : sent'[b] = sent[b]

LEMMA WriteAppends ==
  ASSUME IInv, NEW g \in Handler, NEW a \in Addr, NEW code, NEW what,
         WriteToUDP(g, a, code, what)
  PROVE  Appends(a, Len(sent[a]) + 1, [code |-> code, num |-> num[g], what |-> what])
<1> DEFINE d == [code |-> code, num |-> num[g], what |-> what]
<1>1. sent' = [sent EXCEPT ![a] = Append(sent[a], d)]
  BY DEF WriteToUDP
<1> HIDE DEF d
<1>2. sent[a] \in Seq(Datagram) /\ sent \in [Addr -> Seq(Datagram)]
  BY DEF IInv, TypeOK
<1>3. sent'[a] = Append(sent[a], d) /\ \A b \in Addr \ {a} : sent'[b] = sent[b]
  BY <1>1, <1>2
<1>4. sent[a] \in Seq(Datagram \cup {d}) /\ d \in Datagram \cup {d}
  BY <1>2, SeqMonotonic
<1>5. /\ Len(Append(sent[a], d)) = Len(sent[a]) + 1
      /\ Append(sent[a], d) \in Seq(Datagram \cup {d})
      /\ \A i \in 1..Len(sent[a]) : Append(sent[a], d)[i] = sent[a][i]
      /\ Append(sent[a], d)[Len(sent[a]) + 1] = d
  BY <1>4, AppendProperties
<1>6. /\ Len(sent[a]) \in Nat /\ DOMAIN sent[a] = 1..Len(sent[a])
      /\ DOMAIN sent'[a] = 1..(Len(sent[a]) + 1)
  BY <1>2, <1>3, <1>5, LenProperties
<1>7. Appends(a, Len(sent[a]) + 1, d)
  BY <1>3, <1>5, <1>6 DEF Appends
<1>8. QED
  BY <1>7 DEF d

\* What the writing goroutine, and every other one, has written then.
LEMMA WrittenGrows ==
  ASSUME IInv, HInv, NEW g \in Handler, NEW a \in Addr, NEW new, NEW d,
         Appends(a, new, d), d.num = num[g],
         pc[g] \in {"loop", "reply"}, OthersStay(g), GoesOn(g)
  PROVE  /\ Active(g)' => Written(g, a)' = Written(g, a) \cup {new}
         /\ Active(g)' => \A b \in Addr \ {a} : Written(g, b)' = Written(g, b)
         /\ \A h \in Handler \ {g}, b \in Addr : Active(h) => Written(h, b)' = Written(h, b)
         /\ new \notin Written(g, a) /\ IsFiniteSet(Written(g, a))
<1>1. /\ DOMAIN sent'[a] = DOMAIN sent[a] \cup {new}
      /\ new \notin DOMAIN sent[a]
      /\ sent'[a][new].num = num[g]
      /\ \A i \in DOMAIN sent[a] : sent'[a][i] = sent[a][i]
      /\ \A b \in Addr \ {a} : sent'[b] = sent[b]
  BY DEF Appends
<1>2. Active(g)' => num'[g] = num[g]
  BY DEF GoesOn
<1>3. Active(g)' => Written(g, a)' = Written(g, a) \cup {new}
  BY <1>1, <1>2 DEF Written
<1>4. Active(g)' => \A b \in Addr \ {a} : Written(g, b)' = Written(g, b)
  BY <1>1, <1>2 DEF Written
<1>5. ASSUME NEW h \in Handler \ {g}, NEW b \in Addr, Active(h)
      PROVE  Written(h, b)' = Written(h, b)
  <2>1. num'[h] = num[h] /\ num[h] # num[g]
    BY <1>5 DEF OthersStay, HInv, Numbered, Active
  <2>2. CASE b = a
    BY <1>1, <2>1, <2>2 DEF Written
  <2>3. CASE b # a
    BY <1>1, <2>1, <2>3 DEF Written
  <2>4. QED
    BY <2>2, <2>3
<1>6. new \notin Written(g, a)
  BY <1>1 DEF Written
<1>7. IsFiniteSet(Written(g, a))
  <2>1. sent[a] \in Seq(Datagram)
    BY DEF IInv, TypeOK
  <2>2. IsFiniteSet(DOMAIN sent[a])
    BY <2>1, SeqDomain
  <2>3. QED
    BY <2>2, FS_Subset DEF Written
<1>8. QED
  BY <1>3, <1>4, <1>5, <1>6, <1>7

\* What is written keeps the numbers, the kinds and the order.
LEMMA WriteKeepsHistory ==
  ASSUME IInv, HInv, NEW g \in Handler, NEW a \in Addr, NEW new, NEW d,
         Appends(a, new, d), d.num = num[g], IsChat(d) <=> req[g].op = "chat",
         pc[g] \in {"loop", "reply"}, OthersStay(g), GoesOn(g),
         ~Unsent(g)', pc'[g] = "loop" => pc[g] = "loop",
         UNCHANGED <<rooms, received>>
  PROVE  Numbered' /\ Kinds' /\ OneRun' /\ ChatOrder'
<1>1. /\ DOMAIN sent'[a] = DOMAIN sent[a] \cup {new}
      /\ new \notin DOMAIN sent[a]
      /\ \A i \in DOMAIN sent'[a] : ~(new < i)
      /\ sent'[a][new] = d
      /\ \A i \in DOMAIN sent[a] : sent'[a][i] = sent[a][i]
      /\ \A b \in Addr \ {a} : sent'[b] = sent[b]
  BY DEF Appends
<1>2. /\ Active(g)' => Written(g, a)' = Written(g, a) \cup {new}
      /\ Active(g)' => \A b \in Addr \ {a} : Written(g, b)' = Written(g, b)
      /\ \A h \in Handler \ {g}, b \in Addr : Active(h) => Written(h, b)' = Written(h, b)
  BY WrittenGrows
<1>3. \A h \in Handler : Active(h)' => Active(h) /\ req'[h] = req[h] /\ num'[h] = num[h]
  BY DEF OthersStay, GoesOn, Active
<1>4. Active(g) /\ num[g] \in 1..received
  BY DEF Active, HInv, Numbered
<1>5. \A b \in Addr : \A i \in DOMAIN sent'[b] :
        \/ i \in DOMAIN sent[b] /\ sent'[b][i] = sent[b][i]
        \/ b = a /\ i = new /\ sent'[b][i] = d
  BY <1>1
\* A place that g wrote for its request, and what is found there.
<1>6. \A b \in Addr : \A i \in DOMAIN sent[b] :
        sent[b][i].num = num[g] => (i \in Written(g, b) /\ (IsChat(sent[b][i]) <=> req[g].op = "chat"))
  BY <1>4 DEF HInv, Kinds, Written
<1>7. Numbered'
  <2>1. \A b \in Addr : \A i \in DOMAIN sent'[b] : sent'[b][i].num <= received
    <3>1. num[g] <= received
      BY <1>4 DEF IInv, TypeOK
    <3>2. QED
      BY <1>5, <3>1 DEF HInv, Numbered
  <2>2. QED
    BY <1>3, <2>1 DEF HInv, Numbered
<1>8. Kinds'
  <2>1. \A h \in Handler, b \in Addr : Unsent(h)' => Written(h, b)' = {}
    <3> SUFFICES ASSUME NEW h \in Handler, NEW b \in Addr, Unsent(h)'
                 PROVE  Written(h, b)' = {}
      OBVIOUS
    <3>1. h # g /\ Unsent(h) /\ Active(h)
      BY DEF OthersStay, Unsent, Active
    <3>2. QED
      BY <1>2, <3>1 DEF HInv, Kinds
  <2>2. \A h \in Handler, b \in Addr : Active(h)' =>
          \A i \in Written(h, b)' : IsChat(sent'[b][i]) <=> req'[h].op = "chat"
    <3> SUFFICES ASSUME NEW h \in Handler, NEW b \in Addr, Active(h)', NEW i \in Written(h, b)'
                 PROVE  IsChat(sent'[b][i]) <=> req[h].op = "chat"
      BY <1>3
    <3>1. Active(h) /\ num'[h] = num[h]
      BY <1>3
    <3>2. i \in DOMAIN sent'[b] /\ sent'[b][i].num = num[h]
      BY <3>1 DEF Written
    <3>3. CASE i \in DOMAIN sent[b] /\ sent'[b][i] = sent[b][i]
      BY <3>1, <3>2, <3>3 DEF HInv, Kinds, Written
    <3>4. CASE b = a /\ i = new /\ sent'[b][i] = d
      BY <1>4, <3>1, <3>2, <3>4 DEF HInv, Numbered
    <3>5. QED
      BY <1>5, <3>2, <3>3, <3>4
  <2>3. \A b, c \in Addr : \A i \in DOMAIN sent'[b], j \in DOMAIN sent'[c] :
          sent'[b][i].num = sent'[c][j].num /\ IsChat(sent'[b][i]) => IsChat(sent'[c][j])
    <3> SUFFICES ASSUME NEW b \in Addr, NEW c \in Addr,
                        NEW i \in DOMAIN sent'[b], NEW j \in DOMAIN sent'[c],
                        sent'[b][i].num = sent'[c][j].num, IsChat(sent'[b][i])
                 PROVE  IsChat(sent'[c][j])
      OBVIOUS
    <3>1. CASE sent'[b][i] = d
      BY <1>5, <1>6, <3>1
    <3>2. CASE sent'[c][j] = d
      BY <1>5, <1>6, <3>2
    <3>3. CASE i \in DOMAIN sent[b] /\ sent'[b][i] = sent[b][i] /\ j \in DOMAIN sent[c] /\ sent'[c][j] = sent[c][j]
      BY <3>3 DEF HInv, Kinds
    <3>4. QED
      BY <1>5, <3>1, <3>2, <3>3
  <2>4. QED
    BY <2>1, <2>2, <2>3 DEF Kinds, IsChat
<1>9. OneRun'
  <2> SUFFICES ASSUME NEW h \in Handler, pc'[h] = "loop", req'[h].op = "chat"
               PROVE  req[h].room \in DOMAIN rooms /\ \A b \in Addr : LastAt(h, b)'
    BY <1>3 DEF OneRun, Active
  <2>1. pc[h] = "loop" /\ req[h].op = "chat" /\ Active(h)' /\ Active(h)
    BY <1>3 DEF OthersStay, Active
  <2>2. req[h].room \in DOMAIN rooms /\ \A b \in Addr : LastAt(h, b)
    BY <2>1 DEF HInv, OneRun
  <2>3. ASSUME NEW b \in Addr
        PROVE  LastAt(h, b)'
    <3> SUFFICES ASSUME NEW i \in Written(h, b)', NEW j \in DOMAIN sent'[b],
                        i < j, IsChat(sent'[b][j])
                 PROVE  j \in Written(h, b)'
      BY DEF LastAt, IsChat
    <3>1. i \in DOMAIN sent'[b]
      BY DEF Written
    <3>2. CASE i \in DOMAIN sent[b] /\ i \in Written(h, b)
      <4>1. CASE j \in DOMAIN sent[b] /\ sent'[b][j] = sent[b][j]
        <5>1. j \in Written(h, b)
          BY <2>2, <3>2, <4>1 DEF LastAt
        <5>2. QED
          BY <1>3, <2>1, <4>1, <5>1 DEF Written
      <4>2. CASE b = a /\ j = new /\ sent'[b][j] = d
        <5>1. req[g].op = "chat" /\ pc[g] = "loop"
          BY <4>2 DEF IInv, PhaseInv
        <5>2. h = g
          BY <2>1, <5>1, LoopHolder DEF Critical
        <5>3. QED
          BY <1>2, <2>1, <4>2, <5>2
      <4>3. QED
        BY <1>5, <4>1, <4>2
    <3>3. CASE b = a /\ i = new
      BY <1>1, <3>3
    <3>4. QED
      <4>1. i \in DOMAIN sent[b] => i \in Written(h, b)
        BY <1>2, <1>1, <2>1 DEF OthersStay
      <4>2. QED
        BY <1>5, <3>1, <3>2, <3>3, <4>1
  <2>4. QED
    BY <2>2, <2>3
<1>10. ChatOrder'
  <2> SUFFICES ASSUME NEW b \in Addr, NEW c \in Addr,
                      NEW i \in DOMAIN sent'[b], NEW j \in DOMAIN sent'[b],
                      NEW k \in DOMAIN sent'[c], NEW l \in DOMAIN sent'[c],
                      i < j, k < l, IsChat(sent'[b][i]), IsChat(sent'[b][j]),
                      sent'[b][i].num = sent'[c][l].num, sent'[b][j].num = sent'[c][k].num
               PROVE  sent'[b][i].num = sent'[b][j].num
    BY DEF ChatOrder, IsChat
  <2>1. /\ i \in DOMAIN sent[b] /\ sent'[b][i] = sent[b][i]
        /\ k \in DOMAIN sent[c] /\ sent'[c][k] = sent[c][k]
    BY <1>1, <1>5
  <2>2. \A x \in Addr : \A p, q \in DOMAIN sent[x] :
          /\ sent[x][p].num = num[g] /\ IsChat(sent[x][p])
          /\ p < q /\ IsChat(sent[x][q])
          => sent[x][q].num = num[g]
    <3> SUFFICES ASSUME NEW x \in Addr, NEW p \in DOMAIN sent[x], NEW q \in DOMAIN sent[x],
                        sent[x][p].num = num[g], IsChat(sent[x][p]),
                        p < q, IsChat(sent[x][q])
                 PROVE  sent[x][q].num = num[g]
      OBVIOUS
    <3>1. p \in Written(g, x) /\ req[g].op = "chat"
      BY <1>6
    <3>2. pc[g] = "loop"
      BY <3>1 DEF IInv, PhaseInv
    <3>3. LastAt(g, x)
      BY <3>1, <3>2 DEF HInv, OneRun
    <3>4. QED
      BY <3>1, <3>3 DEF LastAt, Written
  <2>3. CASE sent'[b][j] = d
    <3>1. sent[c][k].num = num[g] /\ IsChat(sent[c][k])
      BY <1>6, <2>1, <2>3
    <3>2. CASE sent'[c][l] = d
      BY <2>3, <3>2
    <3>3. CASE l \in DOMAIN sent[c] /\ sent'[c][l] = sent[c][l]
      <4>1. IsChat(sent[c][l])
        BY <2>1, <3>3 DEF HInv, Kinds
      <4>2. QED
        BY <2>1, <2>2, <2>3, <3>1, <3>3, <4>1
    <3>4. QED
      BY <1>5, <3>2, <3>3
  <2>4. CASE j \in DOMAIN sent[b] /\ sent'[b][j] = sent[b][j]
    <3>1. CASE sent'[c][l] = d
      BY <2>1, <2>2, <2>4, <3>1
    <3>2. CASE l \in DOMAIN sent[c] /\ sent'[c][l] = sent[c][l]
      BY <2>1, <2>4, <3>2 DEF HInv, ChatOrder, IsChat
    <3>3. QED
      BY <1>5, <3>1, <3>2
  <2>5. QED
    BY <1>5, <2>3, <2>4
<1>11. QED
  BY <1>7, <1>8, <1>9, <1>10
\* A write of one goroutine leaves the loops of the others as they are.
LEMMA WriteKeepsOthers ==
  ASSUME IInv, HInv, NEW g \in Handler, NEW a \in Addr, NEW new, NEW d,
         Appends(a, new, d), d.num = num[g],
         pc[g] \in {"loop", "reply"}, OthersStay(g), GoesOn(g), rooms' = rooms
  PROVE  \A h \in Handler \ {g} : pc'[h] = "loop" => Serving(h)'
<1> SUFFICES ASSUME NEW h \in Handler \ {g}, pc'[h] = "loop" PROVE Serving(h)'
  OBVIOUS
<1>1. pc[h] = "loop" /\ req'[h] = req[h] /\ num'[h] = num[h] /\ todo'[h] = todo[h]
  BY DEF OthersStay
<1>2. Serving(h)
  BY <1>1, LoopsServing DEF HInv
<1>3. \A b \in Addr : Written(h, b)' = Written(h, b)
  BY <1>1, WrittenGrows DEF Active
<1>4. \A b \in Addr : \A i \in Written(h, b) : sent'[b][i] = sent[b][i]
  BY DEF Appends, Written
<1>5. QED
  BY <1>1, <1>2, <1>3, <1>4, ServingKept

\* An iteration of a loop passes one value from what is left to what is
\* written, and a member who is the sender of the message counts nowhere.
LEMMA VisitServes ==
  ASSUME IInv, HInv, NEW g \in Handler, Visit(g)
  PROVE  HInv'
<1> DEFINE value == Head(todo[g])
           to == req[g].addr
<1>1. /\ pc[g] = "loop" /\ todo[g] # <<>>
      /\ todo' = [todo EXCEPT ![g] = Tail(todo[g])]
      /\ UNCHANGED <<rooms, pc, req, num, received>>
  BY DEF Visit
<1>2. todo'[g] = Tail(todo[g])
  BY <1>1 DEF IInv, TypeOK
<1>3. OthersStay(g) /\ GoesOn(g) /\ ~Unsent(g)' /\ Active(g)'
  BY <1>1 DEF OthersStay, GoesOn, Active, Unsent, IInv, TypeOK
<1>4. req[g] \in Request /\ to \in Addr
  BY <1>1, RequestFields DEF IInv, TypeOK
<1>5. Serving(g)
  BY <1>1, LoopsServing DEF HInv
<1>6. \A h \in Handler \ {g} : pc'[h] # "loop"
  BY <1>1, LoopHolder DEF Critical
<1>7. ASSUME Serving(g)' PROVE LoopsCurrent'
  <2> SUFFICES ASSUME NEW h \in Handler, pc'[h] = "loop" PROVE Serving(h)'
    BY DEF LoopsCurrent, Serving
  <2>1. QED
    BY <1>6, <1>7
<1>8. CASE req[g].op = "chat"
  <2>1. todo[g] \in Seq(Client)
    BY <1>1, <1>8 DEF IInv, PhaseInv
  <2>2. value \in Client
    BY <1>1, <2>1, HeadTailProperties
  <2> DEFINE room == rooms[req[g].room].clients
  <2>3. \A a \in Addr : Cardinality(Written(g, a)) + Recipients(g, a, todo[g])
                          = Recipients(g, a, room)
    BY <1>5, <1>8 DEF Serving
  <2>4. \A a \in Addr :
          /\ Recipients(g, a, Tail(todo[g])) \in Nat
          /\ Recipients(g, a, todo[g]) = Recipients(g, a, Tail(todo[g])) +
               IF value.id # req[g].user /\ value.clientAddr = a THEN 1 ELSE 0
    BY <1>1, <2>1, RecipientsFirst
  <2>5. \A a \in Addr : /\ Recipients(g, a, todo[g])' = Recipients(g, a, Tail(todo[g]))
                        /\ Recipients(g, a, room)' = Recipients(g, a, room)
    BY <1>1, <1>2 DEF Recipients
  <2> DEFINE Left(a) == Recipients(g, a, Tail(todo[g]))
             All(a) == Recipients(g, a, room)
             Sent(a) == Cardinality(Written(g, a))
  <2>6. ASSUME \A a \in Addr : Sent(a)' + Left(a) = All(a)
        PROVE  Serving(g)'
    BY <1>1, <1>8, <2>5, <2>6 DEF Serving
  <2>7. CASE value.id = req[g].user /\ UNCHANGED sent
    <3>1. \A a \in Addr : Written(g, a)' = Written(g, a)
      BY <1>1, <2>7 DEF Written
    <3>2. \A a \in Addr : Sent(a)' + Left(a) = All(a)
      BY <2>3, <2>4, <2>7, <3>1
    <3>3. LoopsCurrent'
      BY <1>7, <2>6, <3>2
    <3>4. Numbered' /\ ChatOrder'
      BY <1>1, <2>7 DEF HInv, Numbered, ChatOrder, Active
    <3>5. \A h \in Handler, a \in Addr : Written(h, a)' = Written(h, a)
      BY <1>1, <2>7 DEF Written
    <3>6. Kinds'
      BY <1>1, <2>7, <3>5 DEF HInv, Kinds, Active, Unsent, IsChat
    <3>7. OneRun'
      BY <1>1, <2>7, <3>5 DEF HInv, OneRun, LastAt, IsChat
    <3>8. QED
      BY <3>3, <3>4, <3>6, <3>7 DEF HInv
  <2>8. CASE /\ value.id # req[g].user
             /\ WriteToUDP(g, value.clientAddr, "GET_MSG_CODE", req[g].user)
    <3>0. PICK at \in Addr : at = value.clientAddr
      BY <2>2 DEF Client
    <3> DEFINE new == Len(sent[at]) + 1
               d == [code |-> "GET_MSG_CODE", num |-> num[g], what |-> req[g].user]
    <3>1. Appends(at, new, d)
      BY <2>8, <3>0, WriteAppends
    <3>2. d.num = num[g] /\ IsChat(d)
      BY DEF IsChat
    <3> HIDE DEF new, d
    <3>3. Numbered' /\ Kinds' /\ OneRun' /\ ChatOrder'
      BY <1>1, <1>3, <1>8, <3>0, <3>1, <3>2, WriteKeepsHistory
    <3>4. /\ Written(g, at)' = Written(g, at) \cup {new}
          /\ \A b \in Addr \ {at} : Written(g, b)' = Written(g, b)
          /\ new \notin Written(g, at) /\ IsFiniteSet(Written(g, at))
      BY <1>1, <1>3, <3>0, <3>1, <3>2, WrittenGrows
    <3>5. Sent(at)' = Sent(at) + 1 /\ Sent(at) \in Nat
      BY <3>4, FS_AddElement, FS_CardinalityType
    <3>6. \A a \in Addr : Sent(a)' + Left(a) = All(a)
      <4> SUFFICES ASSUME NEW a \in Addr PROVE Sent(a)' + Left(a) = All(a)
        OBVIOUS
      <4>1. CASE a = at
        <5>1. Sent(at) + (Left(at) + 1) = All(at) /\ Left(at) \in Nat
          BY <2>3, <2>4, <2>8, <3>0
        <5>2. Sent(at)' + Left(at) = All(at)
          <6> HIDE DEF Left, All, Sent
          <6>1. QED
            BY <3>5, <5>1
        <5>3. QED
          BY <4>1, <5>2
      <4>2. CASE a # at
        <5>1. Sent(a) + Left(a) = All(a)
          BY <2>3, <2>4, <3>0, <4>2
        <5>2. Sent(a)' = Sent(a)
          BY <3>4, <4>2
        <5>3. QED
          BY <5>1, <5>2
      <4>3. QED
        BY <4>1, <4>2
    <3>7. LoopsCurrent'
      BY <1>7, <2>6, <3>6
    <3>8. QED
      BY <3>3, <3>7 DEF HInv
  <2>9. QED
    BY <1>8, <2>7, <2>8 DEF Visit
<1>9. CASE req[g].op = "memList"
  <2>1. todo[g] \in Seq(Client)
    BY <1>1, <1>9 DEF IInv, PhaseInv
  <2> DEFINE new == Len(sent[to]) + 1
             d == [code |-> "GET_MEM_LIST", num |-> num[g], what |-> value.id]
  <2>2. Appends(to, new, d)
    BY <1>4, <1>9, WriteAppends DEF Visit
  <2>3. d.num = num[g] /\ ~IsChat(d)
    BY DEF IsChat
  <2> HIDE DEF new, d
  <2>4. Numbered' /\ Kinds' /\ OneRun' /\ ChatOrder'
    BY <1>1, <1>3, <1>4, <1>9, <2>2, <2>3, WriteKeepsHistory
  <2>5. /\ Written(g, to)' = Written(g, to) \cup {new}
        /\ new \notin Written(g, to) /\ IsFiniteSet(Written(g, to))
    BY <1>1, <1>3, <1>4, <2>2, <2>3, WrittenGrows
  <2>6. Cardinality(Written(g, to)') = Cardinality(Written(g, to)) + 1
        /\ Cardinality(Written(g, to)) \in Nat
    BY <2>5, FS_AddElement, FS_CardinalityType
  <2>7. Len(Tail(todo[g])) = Len(todo[g]) - 1 /\ Len(todo[g]) \in Nat
    BY <1>1, <2>1, HeadTailProperties
  <2> DEFINE n == IF req[g].room \in DOMAIN rooms THEN Len(rooms[req[g].room].clients) ELSE 0
  <2>8. Cardinality(Written(g, to)) + Len(todo[g]) = n
    BY <1>5, <1>9 DEF Serving
  <2>9. Cardinality(Written(g, to)') + Len(Tail(todo[g])) = n
    <3> HIDE DEF n, to
    <3>1. QED
      BY <2>6, <2>7, <2>8
  <2>10. Serving(g)'
    BY <1>1, <1>2, <1>9, <2>9 DEF Serving
  <2>11. QED
    BY <1>7, <2>4, <2>10 DEF HInv
<1>10. CASE req[g].op = "roomInfo"
  <2>1. todo[g] \in Seq(Room)
    BY <1>1, <1>10 DEF IInv, PhaseInv
  <2> DEFINE new == Len(sent[to]) + 1
             d == [code |-> "NEW_ROOM", num |-> num[g], what |-> value]
  <2>2. Appends(to, new, d)
    BY <1>4, <1>10, WriteAppends DEF Visit
  <2>3. d.num = num[g] /\ ~IsChat(d) /\ d.what = value
    BY DEF IsChat
  <2> HIDE DEF new, d
  <2>4. Numbered' /\ Kinds' /\ OneRun' /\ ChatOrder'
    BY <1>1, <1>3, <1>4, <1>10, <2>2, <2>3, WriteKeepsHistory
  <2>5. Written(g, to)' = Written(g, to) \cup {new}
    BY <1>1, <1>3, <1>4, <2>2, <2>3, WrittenGrows
  <2>6. ToSet(todo[g]) = {value} \cup ToSet(Tail(todo[g]))
    BY <1>1, <2>1, HeadFirst
  <2> DEFINE Told == {sent[to][i].what : i \in Written(g, to)}
  <2>7. Told \cup ToSet(todo[g]) = DOMAIN rooms
    BY <1>5, <1>10 DEF Serving
  <2>8. {sent'[to][i].what : i \in Written(g, to)'} = Told \cup {value}
    <3>1. sent'[to][new].what = value
      BY <2>2, <2>3 DEF Appends
    <3>2. \A i \in Written(g, to) : sent'[to][i] = sent[to][i]
      BY <2>2 DEF Appends, Written
    <3>3. QED
      BY <2>5, <3>1, <3>2
  <2>9. ({sent'[to][i].what : i \in Written(g, to)'} \cup ToSet(Tail(todo[g]))) = DOMAIN rooms
    <3> HIDE DEF Told
    <3>1. QED
      BY <2>6, <2>7, <2>8
  <2>10. Serving(g)'
    BY <1>1, <1>2, <1>10, <2>9 DEF Serving
  <2>11. QED
    BY <1>7, <2>4, <2>10 DEF HInv
<1>11. QED
  BY <1>1, <1>8, <1>9, <1>10 DEF IInv, PhaseInv
\* The answers after Unlock are not chat messages, and nobody's loop waits
\* for them.
LEMMA AnswerKeepsLoops ==
  ASSUME IInv, HInv, NEW g \in Handler, Answer(g)
  PROVE  HInv'
<1>1. /\ pc[g] = "reply" /\ UNCHANGED <<rooms, received>>
      /\ req[g].op \in {"create", "enter", "roomInfo"}
  BY DEF Answer
<1>2. OthersStay(g) /\ GoesOn(g) /\ pc'[g] \in {"idle", "print"}
  BY <1>1 DEF Answer, Goto, End, jobVars, OthersStay, GoesOn, Active, IInv, TypeOK
<1>3. req[g].addr \in Addr
  BY <1>1, RequestFields DEF IInv, TypeOK
<1>4. PICK code \in Code \ {"GET_MSG_CODE"}, what \in Room \cup {EmptyCode} \cup User :
        WriteToUDP(g, req[g].addr, code, what)
  <2>1. req[g].user \in User /\ req[g].room \in Room \cup {EmptyCode}
    BY <1>1, RequestFields DEF IInv, TypeOK
  <2>2. QED
    BY <2>1 DEF Answer, Code
<1> DEFINE to == req[g].addr
           new == Len(sent[to]) + 1
           d == [code |-> code, num |-> num[g], what |-> what]
<1>5. Appends(to, new, d)
  BY <1>3, <1>4, WriteAppends
<1>6. d.num = num[g] /\ ~IsChat(d)
  BY <1>4 DEF IsChat
<1> HIDE DEF new, d
<1>7. Numbered' /\ Kinds' /\ OneRun' /\ ChatOrder'
  BY <1>1, <1>2, <1>3, <1>5, <1>6, WriteKeepsHistory DEF Unsent
<1>8. LoopsCurrent'
  <2> SUFFICES ASSUME NEW h \in Handler, pc'[h] = "loop" PROVE Serving(h)'
    BY DEF LoopsCurrent, Serving
  <2>1. h # g
    BY <1>2
  <2>2. QED
    BY <1>1, <1>2, <1>3, <1>5, <1>6, <2>1, WriteKeepsOthers
<1>9. QED
  BY <1>7, <1>8 DEF HInv

\* The process ends: no goroutine is left, the datagrams are as they were.
LEMMA MapRaceKeepsOrder ==
  ASSUME IInv, HInv, NEW g \in Handler, MapRace(g)
  PROVE  HInv'
<1>1. /\ \A h \in Handler : pc'[h] = "idle"
      /\ UNCHANGED <<received, sent>>
  BY DEF MapRace
<1>2. Numbered'
  BY <1>1 DEF HInv, Numbered, Active
<1>3. Kinds'
  BY <1>1 DEF HInv, Kinds, Active, Unsent, IsChat
<1>4. OneRun' /\ LoopsCurrent'
  BY <1>1 DEF OneRun, LoopsCurrent
<1>5. ChatOrder'
  BY <1>1 DEF HInv, ChatOrder
<1>6. QED
  BY <1>2, <1>3, <1>4, <1>5 DEF HInv

\* Nothing is written and nobody loops when the server starts.
LEMMA InitHInv == Init => HInv
<1> SUFFICES ASSUME Init PROVE HInv
  OBVIOUS
<1>1. /\ \A h \in Handler : pc[h] = "idle"
      /\ \A a \in Addr : DOMAIN sent[a] = {}
  BY DEF Init
<1>2. QED
  BY <1>1 DEF HInv, Numbered, Kinds, OneRun, LoopsCurrent, ChatOrder, Active, Unsent

\* Every step keeps the invariant of the history.
LEMMA NextHInv == IInv /\ HInv /\ [Next]_vars => HInv'
<1> SUFFICES ASSUME IInv, HInv, [Next]_vars
             PROVE  HInv'
  OBVIOUS
<1>1. ASSUME NEW g \in Handler, Receive(g) PROVE HInv'
  BY <1>1, ReceiveNumbers
<1>2. ASSUME NEW g \in Handler, HandleMsg(g) PROVE HInv'
  <2>1. CASE RLock(g) \/ Check(g) \/ Lock(g) \/ Unlock(g)
    BY <2>1, LocksAreSilent
  <2>2. CASE Make(g) \/ Join(g) \/ JoinCount(g) \/ Quit(g) \/ QuitCount(g)
    BY <2>2, AssignmentsAreSilent
  <2>3. CASE Chat(g) \/ RoomInfo(g) \/ MemList(g)
    BY <2>3, LoopsStart
  <2>4. CASE Visit(g)
    BY <2>4, VisitServes
  <2>5. CASE Answer(g)
    BY <2>5, AnswerKeepsLoops
  <2>6. CASE PrintStatus(g) \/ PrintStatusEnd(g)
    BY <2>6, PrintIsSilent
  <2>7. QED
    BY <1>2, <2>1, <2>2, <2>3, <2>4, <2>5, <2>6 DEF HandleMsg
<1>3. ASSUME NEW g \in Handler, MapRace(g) PROVE HInv'
  BY <1>3, MapRaceKeepsOrder
<1>4. CASE Restart \/ UNCHANGED vars
  <2>1. UNCHANGED <<rooms, pc, req, num, todo, received, sent>>
    BY <1>4 DEF Restart, vars, jobVars
  <2>2. Numbered' /\ ChatOrder'
    BY <2>1 DEF HInv, Numbered, ChatOrder, Active
  <2>3. \A h \in Handler, a \in Addr : Written(h, a)' = Written(h, a)
    BY <2>1 DEF Written
  <2>4. Kinds'
    BY <2>1, <2>3 DEF HInv, Kinds, Active, Unsent, IsChat
  <2>5. OneRun'
    BY <2>1, <2>3 DEF HInv, OneRun, LastAt, IsChat
  <2>6. LoopsCurrent'
    <3> SUFFICES ASSUME NEW h \in Handler, pc'[h] = "loop" PROVE Serving(h)'
      BY DEF LoopsCurrent, Serving
    <3>1. pc[h] = "loop" /\ Serving(h)
      BY <2>1, LoopsServing DEF HInv
    <3>2. QED
      BY <2>1, <2>3, <3>1, ServingKept
  <2>7. QED
    BY <2>2, <2>4, <2>5, <2>6 DEF HInv
<1>5. QED
  BY <1>1, <1>2, <1>3, <1>4 DEF Next

\* The inductive invariant of what the server has written.
THEOREM HistoryInvariance == Spec => []HInv
BY InitHInv, NextHInv, Invariance, PTL DEF Spec

\* A loop over a room's members or over the rooms serves those of one
\* instant, none missed and none twice, with any number of goroutines
\* (GET_MSG_CODE, REQ_ROOM_INFO, REQ_MEM_LIST; handler.go:157-182, 280-288,
\* 365-398).
THEOREM LoopsServeNow == Spec => []LoopsCurrent
<1>1. HInv => LoopsCurrent
  BY DEF HInv
<1>2. QED
  BY <1>1, HistoryInvariance, PTL

\* All clients get the chat messages in one order (handler.go:157-182).
THEOREM SameOrder == Spec => []ChatOrder
<1>1. HInv => ChatOrder
  BY DEF HInv
<1>2. QED
  BY <1>1, HistoryInvariance, PTL

-----------------------------------------------------------------------------
(***************************************************************************)
(* The room service keeps the promise of RoomTable.                        *)
(***************************************************************************)

\* A process that does not run has no goroutines.
Quiet == ~up => \A g \in Handler : pc[g] = "idle"

\* A goroutine that makes a step is not idle and does not end the process.
LEMMA HandleMsgRuns ==
  ASSUME NEW g \in Handler, HandleMsg(g)
  PROVE  pc[g] # "idle" /\ up' = up
<1>1. CASE RLock(g) \/ Check(g) \/ Lock(g) \/ Unlock(g)
  BY <1>1 DEF RLock, Check, Lock, LockAs, Unlock
<1>2. CASE Make(g) \/ Join(g) \/ JoinCount(g) \/ Quit(g) \/ QuitCount(g)
  BY <1>2 DEF Make, Join, JoinCount, Quit, QuitCount, PanicLocked
<1>3. CASE Chat(g) \/ RoomInfo(g) \/ MemList(g) \/ Visit(g)
  BY <1>3 DEF Chat, RoomInfo, MemList, Visit, StartLoop, PanicLocked
<1>4. CASE Answer(g) \/ PrintStatus(g) \/ PrintStatusEnd(g)
  BY <1>4 DEF Answer, PrintStatus, PrintStatusEnd
<1>5. QED
  BY <1>1, <1>2, <1>3, <1>4 DEF HandleMsg

\* The server reads datagrams, and goroutines run, in a process that runs.
THEOREM Quietness == Spec => []Quiet
<1>1. Init => Quiet
  BY DEF Init, Quiet
<1>2. Quiet /\ [Next]_vars => Quiet'
  <2> SUFFICES ASSUME Quiet, [Next]_vars PROVE Quiet'
    OBVIOUS
  <2>1. ASSUME NEW g \in Handler, Receive(g) PROVE Quiet'
    BY <2>1 DEF Receive, Quiet
  <2>2. ASSUME NEW g \in Handler, HandleMsg(g) PROVE Quiet'
    BY <2>2, HandleMsgRuns DEF Quiet
  <2>3. ASSUME NEW g \in Handler, MapRace(g) PROVE Quiet'
    BY <2>3 DEF MapRace, Quiet
  <2>4. CASE Restart
    BY <2>4 DEF Restart, Quiet
  <2>5. CASE UNCHANGED vars
    BY <2>5 DEF Quiet, vars
  <2>6. QED
    BY <2>1, <2>2, <2>3, <2>4, <2>5 DEF Next
<1>3. QED
  BY <1>1, <1>2, PTL DEF Spec

-----------------------------------------------------------------------------
(* Changes of rooms, seen as changes of the table of members.              *)

\* A room is set to have these clients: only its entry of the table changes.
LEMMA SetEntry ==
  ASSUME IInv, NEW r \in Room, NEW clients,
         DOMAIN rooms' = DOMAIN rooms \cup {r},
         rooms'[r].clients = clients,
         \A x \in DOMAIN rooms \ {r} : rooms'[x] = rooms[x]
  PROVE  MemTable' = [MemTable EXCEPT ![r] = clients]
<1>1. \A x \in Room : (IF x \in DOMAIN rooms' THEN rooms'[x].clients ELSE <<>>)
                        = IF x = r THEN clients ELSE MemTable[x]
  BY DEF MemTable
<1>2. QED
  BY <1>1 DEF MemTable

\* Nothing about the clients of a room changes: neither does the table.
LEMMA SameTable ==
  ASSUME \A r \in Room : (IF r \in DOMAIN rooms' THEN rooms'[r].clients ELSE <<>>)
                           = IF r \in DOMAIN rooms THEN rooms[r].clients ELSE <<>>
  PROVE  MemTable' = MemTable
BY DEF MemTable

\* What a goroutine between Lock and Unlock knows.
LEMMA Inside ==
  ASSUME IInv, Quiet, NEW g \in Handler, pc[g] \in Critical
  PROVE  /\ up
         /\ writer = g
         /\ writer # Gone
         /\ req[g] \in Request
BY ConstantAssumption DEF IInv, TypeOK, MutexInv, Quiet, Critical

-----------------------------------------------------------------------------
(* The steps.                                                              *)

\* A step of a goroutine leaves the others where they are.
LEMMA OnlyOwnStep ==
  ASSUME IInv, NEW g \in Handler, HandleMsg(g) \/ Receive(g)
  PROVE  \A h \in Handler \ {g} : pc'[h] = pc[h] /\ req'[h] = req[h]
<1>1. pc \in [Handler -> Label] /\ req \in [Handler -> Request \cup {NoRequest}]
  BY DEF IInv, TypeOK
<1>2. CASE Receive(g)
  BY <1>1, <1>2 DEF Receive, Goto, jobVars
<1>3. CASE RLock(g) \/ Check(g)
  BY <1>1, <1>3 DEF RLock, Check, Goto, jobVars
<1>4. CASE Lock(g)
  BY <1>1, <1>4 DEF Lock, LockAs, Goto, jobVars
<1>5. CASE Unlock(g)
  BY <1>1, <1>5 DEF Unlock, End, Goto, jobVars
<1>6. CASE Make(g) \/ Join(g) \/ JoinCount(g)
  BY <1>1, <1>6 DEF Make, Join, JoinCount, PanicLocked, End, Goto, jobVars
<1>7. CASE Quit(g) \/ QuitCount(g)
  BY <1>1, <1>7 DEF Quit, QuitCount, Goto, jobVars
<1>8. CASE Chat(g) \/ RoomInfo(g) \/ MemList(g)
  BY <1>1, <1>8 DEF Chat, RoomInfo, MemList, StartLoop, PanicLocked, End, Goto
<1>9. CASE Visit(g)
  BY <1>1, <1>9 DEF Visit
<1>10. CASE Answer(g) \/ PrintStatus(g) \/ PrintStatusEnd(g)
  BY <1>1, <1>10 DEF Answer, PrintStatus, PrintStatusEnd, End, Goto, jobVars
<1>11. QED
  BY <1>2, <1>3, <1>4, <1>5, <1>6, <1>7, <1>8, <1>9, <1>10 DEF HandleMsg

\* g is about to make the room, which it has found missing.
Seeks(g, r) == pc[g] \in {"lockMake", "make"} /\ req[g].room = r

\* As long as g seeks no other room than before, nobody does.
LEMMA SameFinders ==
  ASSUME NEW g \in Handler,
         \A h \in Handler \ {g} : pc'[h] = pc[h] /\ req'[h] = req[h],
         \A r \in Room : Seeks(g, r)' <=> Seeks(g, r)
  PROVE  Finders' = Finders
<1>1. \A r \in Room, h \in Handler : Seeks(h, r)' <=> Seeks(h, r)
  BY DEF Seeks
<1>2. \A r \in Room : {h \in Handler : Seeks(h, r)}' = {h \in Handler : Seeks(h, r)}
  BY <1>1
<1>3. QED
  BY <1>2 DEF Finders, Seeks

\* Only a look-up that finds no room makes a finder, only making the room ends one.
LEMMA FindersStay ==
  ASSUME IInv, NEW g \in Handler, HandleMsg(g) \/ Receive(g), ~Check(g), ~Make(g)
  PROVE  Finders' = Finders
<1>1. pc \in [Handler -> Label] /\ req \in [Handler -> Request \cup {NoRequest}]
  BY DEF IInv, TypeOK
<1>2. \A r \in Room : Seeks(g, r)' <=> Seeks(g, r)
  <2>. TAKE r \in Room
  <2>0. CASE Receive(g)
    BY <1>1, <2>0 DEF Receive, Goto, jobVars, FirstLabel, Seeks
  <2>1. CASE RLock(g)
    BY <1>1, <2>1 DEF RLock, Goto, jobVars, Seeks
  <2>2. CASE Lock(g)
    <3>1. CASE LockAs(g, "lockMake", "make")
      BY <1>1, <3>1 DEF LockAs, Goto, jobVars, Seeks
    <3>2. CASE LockAs(g, "lockJoin", "join")
      BY <1>1, <3>2 DEF LockAs, Goto, jobVars, Seeks
    <3>3. CASE LockAs(g, "lock", req[g].op)
      <4>1. pc[g] = "lock" /\ req[g].op \in {"quit", "chat", "roomInfo", "memList"}
        BY <3>3 DEF LockAs, IInv, PhaseInv
      <4>. QED
        BY <1>1, <3>3, <4>1 DEF LockAs, Goto, jobVars, Seeks
    <3>. QED
      BY <2>2, <3>1, <3>2, <3>3 DEF Lock
  <2>3. CASE Unlock(g)
    BY <1>1, <2>3 DEF Unlock, End, Goto, jobVars, Seeks
  <2>4. CASE Join(g) \/ JoinCount(g) \/ Quit(g) \/ QuitCount(g)
    BY <1>1, <2>4 DEF Join, JoinCount, Quit, QuitCount, PanicLocked, End, Goto, jobVars, Seeks
  <2>5. CASE Chat(g) \/ RoomInfo(g) \/ MemList(g) \/ Visit(g)
    BY <1>1, <2>5 DEF Chat, RoomInfo, MemList, Visit, StartLoop, PanicLocked, End, Goto, Seeks
  <2>6. CASE Answer(g) \/ PrintStatus(g) \/ PrintStatusEnd(g)
    BY <1>1, <2>6 DEF Answer, PrintStatus, PrintStatusEnd, End, Goto, jobVars, Seeks
  <2>7. QED
    BY <2>0, <2>1, <2>2, <2>3, <2>4, <2>5, <2>6 DEF HandleMsg
<1>3. QED
  BY <1>2, OnlyOwnStep, SameFinders

\* Steps that change no room, do not orphan the lock and do not end the
\* process: taking locks, walking rooms, answering.
LEMMA SilentStep ==
  ASSUME rooms' = rooms, up' = up, (writer' = Gone) <=> (writer = Gone), Finders' = Finders
  PROVE  UNCHANGED Table!tableVars
<1>1. MemTable' = MemTable
  BY DEF MemTable
<1>2. QED
  BY <1>1 DEF Table!tableVars

\* A room is looked up: a room that is missing is found closed.
LEMMA CheckFinds ==
  ASSUME IInv, Quiet, NEW g \in Handler, Check(g)
  PROVE  Table!Next \/ UNCHANGED Table!tableVars
<1> DEFINE r == req[g].room
<1>1. /\ pc[g] = "check" /\ r \in Room
      /\ UNCHANGED <<rooms, up, writer, req>>
      /\ pc' = [pc EXCEPT ![g] = IF r \in DOMAIN rooms THEN "lockJoin" ELSE "lockMake"]
      /\ pc \in [Handler -> Label] /\ req \in [Handler -> Request \cup {NoRequest}]
  BY DEF Check, Goto, jobVars, IInv, PhaseInv, TypeOK
<1>2. up /\ writer = NoOne /\ writer # Gone
  BY <1>1, ConstantAssumption DEF IInv, MutexInv, TypeOK, Quiet
<1>3. \A h \in Handler \ {g} : pc'[h] = pc[h] /\ req'[h] = req[h]
  BY <1>1
<1>4. CASE r \in DOMAIN rooms
  <2>1. \A x \in Room : Seeks(g, x)' <=> Seeks(g, x)
    BY <1>1, <1>4 DEF Seeks
  <2>2. Finders' = Finders
    BY <1>3, <2>1, SameFinders
  <2>. QED
    BY <1>1, <2>2, SilentStep
<1>5. CASE r \notin DOMAIN rooms
  <2> HIDE DEF r
  <2>1. \A x \in Room, h \in Handler : Seeks(h, x)' <=> (Seeks(h, x) \/ (x = r /\ h = g))
    BY <1>1, <1>3, <1>5 DEF Seeks, r
  <2>2. \A x \in Room : {h \in Handler : Seeks(h, x)}'
                          = IF x = r THEN {h \in Handler : Seeks(h, x)} \cup {g}
                            ELSE {h \in Handler : Seeks(h, x)}
    BY <2>1
  <2>3. Finders' = [Finders EXCEPT ![r] = @ \cup {g}]
    <3>1. Finders = [x \in Room |-> {h \in Handler : Seeks(h, x)}]
      BY DEF Finders, Seeks
    <3>2. Finders' = [x \in Room |-> {h \in Handler : Seeks(h, x)}']
      BY DEF Finders, Seeks
    <3>. QED
      BY <1>1, <2>2, <3>1, <3>2
  <2>4. MemTable' = MemTable /\ MemTable[r] = <<>>
    BY <1>1, <1>5 DEF MemTable
  <2>5. Table!Find(r, g)
    BY <1>1, <1>2, <2>3, <2>4 DEF Table!Find, Table!Serving
  <2>. QED
    BY <1>1, <2>5 DEF Table!Next
<1>6. QED
  BY <1>4, <1>5

\* The lock is orphaned, and the table frozen, by a panic inside.
LEMMA PanicFreezes ==
  ASSUME IInv, Quiet, NEW g \in Handler, pc[g] \in Critical, PanicLocked(g), Finders' = Finders
  PROVE  Table!Next
<1>1. up /\ writer # Gone
  BY Inside
<1>2. MemTable' = MemTable
  BY DEF MemTable, PanicLocked
<1>3. Table!Freeze
  BY <1>1, <1>2 DEF Table!Freeze, Table!Serving, PanicLocked
<1>4. QED
  BY <1>3 DEF Table!Next

\* A room is made: the creator is its only member, whoever has come in since
\* he found it missing.
LEMMA MakeCreates ==
  ASSUME IInv, Quiet, NEW g \in Handler, Make(g)
  PROVE  Table!Next
<1> DEFINE r == req[g].room
           c == NewClient(g)
<1>1. pc[g] \in Critical /\ r \in Room
  BY DEF Make, Critical, IInv, PhaseInv
<1>2. up /\ writer # Gone /\ req[g] \in Request
  BY <1>1, Inside
<1>3. c \in Client
  BY <1>2, NewClientType
<1>4. /\ DOMAIN rooms' = DOMAIN rooms \cup {r}
      /\ rooms'[r].clients = <<c>>
      /\ \A x \in DOMAIN rooms \ {r} : rooms'[x] = rooms[x]
  BY DEF Make, SetRoom
<1>5. UNCHANGED <<writer, up>>
  BY DEF Make, mutexVars
<1> HIDE DEF r, c
<1>6. MemTable' = [MemTable EXCEPT ![r] = <<c>>]
  BY <1>1, <1>4, SetEntry
<1>7. /\ pc[g] = "make" /\ req[g].room = r /\ req' = req
      /\ pc' = [pc EXCEPT ![g] = "unlock"]
      /\ pc \in [Handler -> Label] /\ req \in [Handler -> Request \cup {NoRequest}]
  BY DEF Make, Goto, jobVars, IInv, TypeOK, r
<1>8. \A x \in Room, h \in Handler : Seeks(h, x)' <=> (Seeks(h, x) /\ ~(x = r /\ h = g))
  BY <1>7 DEF Seeks
<1>9. \A x \in Room : {h \in Handler : Seeks(h, x)}'
                        = IF x = r THEN {h \in Handler : Seeks(h, x)} \ {g}
                          ELSE {h \in Handler : Seeks(h, x)}
  BY <1>8
<1>10. Finders' = [Finders EXCEPT ![r] = @ \ {g}]
  <2>1. Finders = [x \in Room |-> {h \in Handler : Seeks(h, x)}]
    BY DEF Finders, Seeks
  <2>2. Finders' = [x \in Room |-> {h \in Handler : Seeks(h, x)}']
    BY DEF Finders, Seeks
  <2>. QED
    BY <1>1, <1>9, <2>1, <2>2
<1>11. g \in Finders[r]
  BY <1>1, <1>7 DEF Finders
<1>12. Table!Create(r, g, c)
  BY <1>2, <1>5, <1>6, <1>10, <1>11 DEF Table!Create, Table!Serving
<1>13. QED
  BY <1>1, <1>3, <1>12 DEF Table!Next

\* A client joins, or the room is gone and the lock is orphaned.
LEMMA JoinEnters ==
  ASSUME IInv, Quiet, NEW g \in Handler, Join(g), Finders' = Finders
  PROVE  Table!Next
<1> DEFINE r == req[g].room
           c == NewClient(g)
<1>1. pc[g] \in Critical /\ r \in Room
  BY DEF Join, Critical, IInv, PhaseInv
<1>2. up /\ writer # Gone /\ req[g] \in Request
  BY <1>1, Inside
<1>3. CASE r \notin DOMAIN rooms
  BY <1>1, <1>3, PanicFreezes DEF Join
<1>4. CASE r \in DOMAIN rooms
  <2>1. c \in Client
    BY <1>2, NewClientType
  <2>2. /\ rooms' = [rooms EXCEPT ![r].clients = Append(@, c)]
        /\ UNCHANGED <<writer, up>>
    BY <1>4 DEF Join, mutexVars
  <2>3. rooms[r] = [memCnt |-> rooms[r].memCnt, clients |-> rooms[r].clients]
    BY <1>4, RoomFacts
  <2>4. MemTable[r] = rooms[r].clients
    BY <1>1, <1>4 DEF MemTable
  <2>9. rooms[r].clients # <<>>
    <3>1. pc[g] = "join" /\ writer = g
      BY <1>1 DEF Join, IInv, MutexInv
    <3>2. CountLag(r) = 0
      BY <3>1, LagValues DEF CountLag
    <3>3. rooms[r].memCnt = Len(rooms[r].clients) + CountLag(r) /\ rooms[r].memCnt > 0
      BY <1>4 DEF IInv, RoomsConsistent
    <3>4. Len(<<>>) = 0
      OBVIOUS
    <3>. QED
      BY <3>2, <3>3, <3>4
  <2> HIDE DEF r, c
  <2>5. /\ DOMAIN rooms' = DOMAIN rooms \cup {r}
        /\ rooms'[r].clients = Append(rooms[r].clients, c)
        /\ \A x \in DOMAIN rooms \ {r} : rooms'[x] = rooms[x]
    BY <1>4, <2>2, <2>3
  <2>6. MemTable' = [MemTable EXCEPT ![r] = Append(MemTable[r], c)]
    BY <1>1, <2>4, <2>5, SetEntry
  <2>7. Table!Enter(r, c)
    BY <1>2, <2>2, <2>4, <2>6, <2>9 DEF Table!Enter, Table!Serving
  <2>8. QED
    BY <1>1, <2>1, <2>7 DEF Table!Next
<1>5. QED
  BY <1>3, <1>4

\* A quit removes one member, or finds no room and changes nothing.
LEMMA QuitLeaves ==
  ASSUME IInv, Quiet, NEW g \in Handler, Quit(g), Finders' = Finders
  PROVE  Table!Next \/ UNCHANGED Table!tableVars
<1> DEFINE r == req[g].room
           i == QuitIndex(rooms[r].clients, req[g].user)
<1>1. pc[g] \in Critical /\ UNCHANGED <<writer, up>>
  BY DEF Quit, Critical, mutexVars
<1>2. up /\ writer # Gone
  BY <1>1, Inside
<1>3. CASE ~(r \in DOMAIN rooms /\ rooms[r].clients # <<>>)
  <2>1. rooms' = rooms
    BY <1>3 DEF Quit
  <2>2. QED
    BY <1>1, <2>1, SilentStep
<1>4. CASE r \in DOMAIN rooms /\ rooms[r].clients # <<>>
  <2>1. rooms' = [rooms EXCEPT ![r].clients = RemoveAt(@, i)]
    BY <1>4 DEF Quit
  <2>2. /\ r \in Room
        /\ rooms[r].clients \in Seq(Client)
        /\ rooms[r] = [memCnt |-> rooms[r].memCnt, clients |-> rooms[r].clients]
    BY <1>4, RoomFacts
  <2>3. i \in 1..Len(rooms[r].clients)
    BY <1>4, <2>2, QuitIndexInRange
  <2>4. MemTable[r] = rooms[r].clients
    BY <1>4, <2>2 DEF MemTable
  <2> HIDE DEF r, i
  <2>5. /\ DOMAIN rooms' = DOMAIN rooms \cup {r}
        /\ rooms'[r].clients = RemoveAt(rooms[r].clients, i)
        /\ \A x \in DOMAIN rooms \ {r} : rooms'[x] = rooms[x]
    BY <1>4, <2>1, <2>2
  <2>6. MemTable' = [MemTable EXCEPT ![r] = RemoveAt(MemTable[r], i)]
    BY <2>2, <2>4, <2>5, SetEntry
  <2>7. Table!Leave(r)
    BY <1>1, <1>2, <2>3, <2>4, <2>6 DEF Table!Leave, Table!Serving, RemoveAt, Table!RemoveAt
  <2>8. QED
    BY <2>2, <2>7 DEF Table!Next
<1>5. QED
  BY <1>3, <1>4

\* memCnt is no part of the table.
LEMMA JoinCountStutters ==
  ASSUME IInv, Quiet, NEW g \in Handler, JoinCount(g), Finders' = Finders
  PROVE  UNCHANGED Table!tableVars
<1> DEFINE r == req[g].room
           n == rooms[r].memCnt + 1
<1>1. r \in DOMAIN rooms
  BY DEF JoinCount, IInv, PhaseInv
<1>2. rooms[r] = [memCnt |-> rooms[r].memCnt, clients |-> rooms[r].clients]
  BY <1>1, RoomFacts
<1>3. rooms' = [rooms EXCEPT ![r].memCnt = n] /\ UNCHANGED <<writer, up>>
  BY DEF JoinCount, mutexVars
<1> HIDE DEF r, n
<1>4. DOMAIN rooms' = DOMAIN rooms /\ \A x \in DOMAIN rooms : rooms'[x].clients = rooms[x].clients
  BY <1>1, <1>2, <1>3
<1>5. MemTable' = MemTable
  BY <1>4, SameTable
<1>6. QED
  BY <1>3, <1>5 DEF Table!tableVars

\* The room that is deleted has no members left: the table does not see it.
LEMMA QuitCountStutters ==
  ASSUME IInv, Quiet, NEW g \in Handler, QuitCount(g), Finders' = Finders
  PROVE  UNCHANGED Table!tableVars
<1> DEFINE r == req[g].room
<1>1. /\ r \in DOMAIN rooms
      /\ pc[g] = "quitCnt"
      /\ writer = g
  BY DEF QuitCount, IInv, PhaseInv, MutexInv, Critical
<1>2. /\ rooms[r] = [memCnt |-> rooms[r].memCnt, clients |-> rooms[r].clients]
      /\ rooms[r].clients \in Seq(Client)
      /\ Len(rooms[r].clients) \in Nat
      /\ rooms[r].memCnt = Len(rooms[r].clients) + CountLag(r)
  BY <1>1, RoomFacts
<1>3. CountLag(r) = 1
  BY <1>1, LagValues DEF CountLag
<1>4. UNCHANGED <<writer, up>>
  BY DEF QuitCount, mutexVars
<1>5. CASE rooms[r].memCnt = 1
  <2>1. rooms' = [x \in DOMAIN rooms \ {r} |-> rooms[x]]
    BY <1>5 DEF QuitCount, DeleteRoom
  <2> HIDE DEF r
  <2>2. rooms[r].clients = <<>>
    BY <1>2, <1>3, <1>5, EmptySeq
  <2>3. MemTable' = MemTable
    BY <2>1, <2>2, SameTable
  <2>4. QED
    BY <1>4, <2>3 DEF Table!tableVars
<1>6. CASE rooms[r].memCnt # 1
  <2>1. rooms' = [rooms EXCEPT ![r].memCnt = @ - 1]
    BY <1>6 DEF QuitCount
  <2> HIDE DEF r
  <2>2. DOMAIN rooms' = DOMAIN rooms /\ \A x \in DOMAIN rooms : rooms'[x].clients = rooms[x].clients
    BY <1>1, <1>2, <2>1
  <2>3. MemTable' = MemTable
    BY <2>2, SameTable
  <2>4. QED
    BY <1>4, <2>3 DEF Table!tableVars
<1>7. QED
  BY <1>5, <1>6

\* Chatting and listing start a loop, or panic.
LEMMA StartLoopStutters ==
  ASSUME NEW g \in Handler, NEW values, StartLoop(g, values), Finders' = Finders
  PROVE  UNCHANGED Table!tableVars
<1>1. UNCHANGED <<rooms, up, writer>>
  BY DEF StartLoop, mutexVars
<1>2. QED
  BY <1>1, SilentStep

LEMMA LoopsStartOrFreeze ==
  ASSUME IInv, Quiet, NEW g \in Handler, Chat(g) \/ RoomInfo(g) \/ MemList(g), Finders' = Finders
  PROVE  Table!Next \/ UNCHANGED Table!tableVars
<1>1. pc[g] \in Critical
  BY DEF Chat, RoomInfo, MemList, Critical
<1>2. CASE PanicLocked(g)
  BY <1>1, <1>2, PanicFreezes
<1>3. CASE \E values : StartLoop(g, values)
  BY <1>3, StartLoopStutters
<1>4. QED
  BY <1>2, <1>3 DEF Chat, RoomInfo, MemList

-----------------------------------------------------------------------------

(* The theorem.                                                            *)

\* Every step of a goroutine changes the table as RoomTable may, or not at all.
LEMMA HandleMsgRefines ==
  ASSUME IInv, Quiet, NEW g \in Handler, HandleMsg(g)
  PROVE  Table!Next \/ UNCHANGED Table!tableVars
<1>1. CASE Check(g)
  BY <1>1, CheckFinds
<1>2. CASE Make(g)
  BY <1>2, MakeCreates
<1>3. CASE ~Check(g) /\ ~Make(g)
  <2>0. Finders' = Finders
    BY <1>3, FindersStay
  <2>1. CASE RLock(g) \/ Answer(g) \/ PrintStatus(g) \/ PrintStatusEnd(g) \/ Visit(g)
    <3>1. UNCHANGED <<rooms, up, writer>>
      BY <2>1 DEF RLock, Answer, PrintStatus, PrintStatusEnd, Visit, mutexVars
    <3>2. QED
      BY <2>0, <3>1, SilentStep
  <2>2. CASE Lock(g)
    <3>1. UNCHANGED <<rooms, up>> /\ writer = NoOne /\ writer' = g
      BY <2>2 DEF Lock, LockAs
    <3>2. QED
      BY <2>0, <3>1, SilentStep, ConstantAssumption
  <2>3. CASE Unlock(g)
    <3>1. UNCHANGED <<rooms, up>> /\ writer' = NoOne /\ pc[g] \in Critical
      BY <2>3 DEF Unlock, Critical
    <3>2. writer # Gone
      BY <3>1, Inside
    <3>3. QED
      BY <2>0, <3>1, <3>2, SilentStep, ConstantAssumption
  <2>4. CASE Join(g) \/ JoinCount(g)
    BY <2>0, <2>4, JoinEnters, JoinCountStutters
  <2>5. CASE Quit(g) \/ QuitCount(g)
    BY <2>0, <2>5, QuitLeaves, QuitCountStutters
  <2>6. CASE Chat(g) \/ RoomInfo(g) \/ MemList(g)
    BY <2>0, <2>6, LoopsStartOrFreeze
  <2>7. QED
    BY <1>3, <2>1, <2>2, <2>3, <2>4, <2>5, <2>6 DEF HandleMsg
<1>4. QED
  BY <1>1, <1>2, <1>3

\* The end of the process empties the table at once.
LEMMA MapRaceVanishes ==
  ASSUME IInv, Quiet, NEW g \in Handler, MapRace(g)
  PROVE  Table!Next
<1>1. pc[g] \in Critical
  BY DEF MapRace, WritesMap, Critical
<1>2. up /\ writer # Gone
  BY <1>1, Inside
<1>3. rooms' = NoRooms /\ up' = FALSE /\ writer' = NoOne
  BY DEF MapRace
<1>4. MemTable' = [r \in Room |-> <<>>]
  BY <1>3 DEF MemTable, NoRooms
<1>7. Finders' = [r \in Room |-> {}]
  BY DEF MapRace, Finders
<1>5. Table!Vanish
  BY <1>2, <1>3, <1>4, <1>7, ConstantAssumption DEF Table!Vanish, Table!Serving
<1>6. QED
  BY <1>5 DEF Table!Next

\* The room service implements RoomTable: whatever the goroutines do, and
\* whenever they panic or the process ends, the members of the rooms change
\* by one client at a time, by a creation whose look-up came before them, or
\* all at once with the process, and not at all once the lock is orphaned
\* (handler.go:156-340).
THEOREM Refinement == Spec => TableSpec
<1>1. Init => Table!Init
  <2> SUFFICES ASSUME Init PROVE Table!Init
    OBVIOUS
  <2>1. MemTable = [r \in Room |-> <<>>]
    BY DEF Init, MemTable, NoRooms
  <2>2. QED
    BY <2>1, ConstantAssumption DEF Init, Table!Init, Finders
<1>2. IInv /\ Quiet /\ [Next]_vars => [Table!Next]_Table!tableVars
  <2> SUFFICES ASSUME IInv, Quiet, [Next]_vars
               PROVE  Table!Next \/ UNCHANGED Table!tableVars
    OBVIOUS
  <2>1. ASSUME NEW g \in Handler, Receive(g) PROVE UNCHANGED Table!tableVars
    <3>1. UNCHANGED <<rooms, up, writer>>
      BY <2>1 DEF Receive, mutexVars
    <3>2. ~Check(g) /\ ~Make(g)
      BY <2>1 DEF Receive, Check, Make
    <3>3. QED
      BY <2>1, <3>1, <3>2, FindersStay, SilentStep
  <2>2. ASSUME NEW g \in Handler, HandleMsg(g)
        PROVE  Table!Next \/ UNCHANGED Table!tableVars
    BY <2>2, HandleMsgRefines
  <2>3. ASSUME NEW g \in Handler, MapRace(g) PROVE Table!Next
    BY <2>3, MapRaceVanishes
  <2>4. CASE Restart
    <3>1. MemTable' = MemTable
      BY <2>4 DEF Restart, MemTable
    <3>4. Finders' = Finders
      BY <2>4 DEF Restart, Finders, jobVars
    <3>2. Table!Start
      BY <2>4, <3>1, <3>4 DEF Restart, Table!Start, mutexVars
    <3>3. QED
      BY <3>2 DEF Table!Next
  <2>5. CASE UNCHANGED vars
    <3>1. UNCHANGED <<rooms, up, writer>> /\ Finders' = Finders
      BY <2>5 DEF vars, Finders
    <3>2. QED
      BY <3>1, SilentStep
  <2>6. QED
    BY <2>1, <2>2, <2>3, <2>4, <2>5 DEF Next
<1>3. QED
  BY <1>1, <1>2, Invariance, Quietness, PTL DEF Spec, TableSpec, Table!Spec

=============================================================================
