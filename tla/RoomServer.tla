----------------------------- MODULE RoomServer -----------------------------
(***************************************************************************)
(* The room service of the PostinTo server (Server/dataHandle/handler.go). *)
(*                                                                         *)
(* main() starts one goroutine per datagram; every goroutine runs          *)
(* HandleMsg once.  The goroutines share the map rooms, which roomMutex    *)
(* (a sync.RWMutex) is meant to protect.  HandleMsg recovers from every    *)
(* panic, but nothing unlocks roomMutex on that path, so a panic between   *)
(* Lock and Unlock leaves the lock orphaned.  PrintStatus iterates over    *)
(* rooms without any lock; the Go runtime kills the process when it sees   *)
(* the map written during an iteration.                                    *)
(***************************************************************************)
EXTENDS Integers, FiniteSets, SequencesExt

CONSTANTS
  Handler,     \* goroutine slots: how many datagrams are handled at once
  Room,        \* the non-empty room codes
  EmptyCode,   \* the room code ""
  User,        \* user ids
  Addr,        \* client addresses (rAddr)
  Request,     \* the requests clients send, as parsed by HandleMsg
  NoRequest,   \* the request of a goroutine slot that is not in use
  NoOne,       \* roomMutex is not write-locked
  Gone,        \* roomMutex is write-locked by a goroutine that has ended
  MaxRequests  \* bound: how many datagrams the server reads in a behaviour

Op == {"login", "create", "enter", "quit", "chat", "roomInfo", "memList"}

ASSUME ConstantAssumption ==
  /\ IsFiniteSet(Room)
  /\ EmptyCode \notin Room
  /\ Request \subseteq [op : Op, room : Room \cup {EmptyCode},
                        user : User, addr : Addr]
  /\ NoRequest \notin Request
  /\ NoOne \notin Handler
  /\ Gone \notin Handler
  /\ NoOne # Gone
  /\ MaxRequests \in Nat

VARIABLES
  up,        \* the server process is running
  rooms,     \* the map rooms; its DOMAIN is the set of existing rooms
  writer,    \* who holds roomMutex after Lock
  readers,   \* who holds roomMutex after RLock
  pc,        \* where each goroutine is in HandleMsg
  req,       \* the request it handles
  num,       \* which of the received datagrams that is (history)
  todo,      \* what its range loop has yet to visit
  received,  \* how many datagrams were read
  sent       \* datagrams written to each address, oldest first (history)

vars == <<up, rooms, writer, readers, pc, req, num, todo, received, sent>>

mutexVars == <<writer, readers>>
jobVars   == <<req, num, todo>>

-----------------------------------------------------------------------------
(* Data.                                                                   *)

Client == [id : User, clientAddr : Addr]

ChatRoom == [memCnt : Nat, clients : Seq(Client)]

Code == {"NEW_ROOM", "ROOM_FINISH", "MEMBER_IN", "GET_MSG_CODE", "GET_MEM_LIST"}

Datagram == [code : Code, num : Nat, what : Room \cup {EmptyCode} \cup User]

\* The labels between Lock and Unlock.
Critical == {"make", "join", "joinCnt", "quit", "quitCnt",
             "chat", "roomInfo", "memList", "loop", "unlock"}

Label == Critical \cup {"idle", "rlock", "check", "lockMake", "lockJoin",
                        "lock", "reply", "print", "printing"}

-----------------------------------------------------------------------------
(* Helpers.                                                                *)

Goto(g, label) == pc' = [pc EXCEPT ![g] = label]

\* HandleMsg returns, normally or through recover().
End(g) ==
  /\ Goto(g, "idle")
  /\ req' = [req EXCEPT ![g] = NoRequest]
  /\ num' = [num EXCEPT ![g] = 0]
  /\ todo' = [todo EXCEPT ![g] = <<>>]

\* A panic between Lock and Unlock: recover() ends the handler, and
\* roomMutex stays locked with nobody left to unlock it.
PanicLocked(g) ==
  /\ End(g)
  /\ writer' = Gone
  /\ UNCHANGED <<up, rooms, readers, received, sent>>

\* What Connect makes: a map without entries.
NoRooms == [r \in {} |-> <<>>]

SetRoom(r, room) ==
  rooms' = [x \in DOMAIN rooms \cup {r} |-> IF x = r THEN room ELSE rooms[x]]

DeleteRoom(r) == rooms' = [x \in DOMAIN rooms \ {r} |-> rooms[x]]

NewClient(g) == [id |-> req[g].user, clientAddr |-> req[g].addr]

WriteToUDP(g, addr, code, what) ==
  sent' = [sent EXCEPT ![addr] =
             Append(@, [code |-> code, num |-> num[g], what |-> what])]

\* The index at which the search loop of QUIT_THE_ROOM stops: the first
\* client with that id or, as the loop variable keeps its last value, the
\* last client.
QuitIndex(clients, user) ==
  IF \E i \in 1..Len(clients) : clients[i].id = user
  THEN CHOOSE i \in 1..Len(clients) :
         /\ clients[i].id = user
         /\ \A j \in 1..Len(clients) : clients[j].id = user => i <= j
  ELSE Len(clients)

-----------------------------------------------------------------------------
(* Reading a datagram, and roomMutex.                                      *)

\* The first step of each handler.  A login only reaches the rooms through
\* the PrintStatus at its end.
FirstLabel(m) ==
  CASE m.op \in {"create", "enter"} -> "rlock"
    [] m.op = "login" -> "print"
    [] OTHER -> "lock"

\* Requests that may be over without reaching the rooms: creating and
\* entering a room return at once when the room code is empty, and a login
\* whose query panics does not get to PrintStatus.
ReturnsEarly(m) ==
  \/ m.op \in {"create", "enter"} /\ m.room = EmptyCode
  \/ m.op = "login"

Receive(g) ==
  /\ up
  /\ pc[g] = "idle"
  /\ received < MaxRequests
  /\ received' = received + 1
  /\ \E m \in Request :
       \/ /\ ReturnsEarly(m)
          /\ UNCHANGED <<pc, jobVars>>
       \/ /\ ~(m.op \in {"create", "enter"} /\ m.room = EmptyCode)
          /\ Goto(g, FirstLabel(m))
          /\ req' = [req EXCEPT ![g] = m]
          /\ num' = [num EXCEPT ![g] = received + 1]
          /\ UNCHANGED todo
  /\ UNCHANGED <<up, rooms, mutexVars, sent>>

RLock(g) ==
  /\ pc[g] = "rlock"
  /\ writer = NoOne
  /\ readers' = readers \cup {g}
  /\ Goto(g, "check")
  /\ UNCHANGED <<up, rooms, writer, jobVars, received, sent>>

LockAs(g, from, to) ==
  /\ pc[g] = from
  /\ writer = NoOne
  /\ readers = {}
  /\ writer' = g
  /\ Goto(g, to)
  /\ UNCHANGED <<up, rooms, readers, jobVars, received, sent>>

Lock(g) ==
  \/ LockAs(g, "lockMake", "make")
  \/ LockAs(g, "lockJoin", "join")
  \/ LockAs(g, "lock", req[g].op)

\* Listing the rooms still has its ROOM_FINISH to write, creating and
\* entering a room their answer; the other handlers are over.
Unlock(g) ==
  /\ \/ pc[g] = "unlock"
     \/ pc[g] = "loop" /\ todo[g] = <<>>
  /\ writer' = NoOne
  /\ \/ /\ req[g].op \in {"create", "enter", "roomInfo"}
        /\ Goto(g, "reply")
        /\ UNCHANGED jobVars
     \/ /\ req[g].op \notin {"create", "enter", "roomInfo"}
        /\ End(g)
  /\ UNCHANGED <<up, rooms, readers, received, sent>>

-----------------------------------------------------------------------------
(* CREATE_ROOM and GET_INTO_ROM: the room is looked up under the read      *)
(* lock, and created or joined under a write lock taken afterwards.        *)

Check(g) ==
  /\ pc[g] = "check"
  /\ readers' = readers \ {g}
  /\ Goto(g, IF req[g].room \in DOMAIN rooms THEN "lockJoin" ELSE "lockMake")
  /\ UNCHANGED <<up, rooms, writer, jobVars, received, sent>>

Make(g) ==
  /\ pc[g] = "make"
  /\ SetRoom(req[g].room, [memCnt |-> 1, clients |-> <<NewClient(g)>>])
  /\ Goto(g, "unlock")
  /\ UNCHANGED <<up, mutexVars, jobVars, received, sent>>

\* rooms[roomCode] is nil, and its use panics, when the room was deleted
\* after the check.
Join(g) ==
  /\ pc[g] = "join"
  /\ \/ /\ req[g].room \notin DOMAIN rooms
        /\ PanicLocked(g)
     \/ /\ req[g].room \in DOMAIN rooms
        /\ rooms' = [rooms EXCEPT ![req[g].room].clients = Append(@, NewClient(g))]
        /\ Goto(g, "joinCnt")
        /\ UNCHANGED <<up, mutexVars, jobVars, received, sent>>

JoinCount(g) ==
  /\ pc[g] = "joinCnt"
  /\ rooms' = [rooms EXCEPT ![req[g].room].memCnt = @ + 1]
  /\ Goto(g, "unlock")
  /\ UNCHANGED <<up, mutexVars, jobVars, received, sent>>

-----------------------------------------------------------------------------
(* QUIT_THE_ROOM.                                                          *)

\* Mutant: the early return does not unlock.
QuitKeepsLock(g) ==
  /\ pc[g] = "quit"
  /\ LET r == req[g].room IN
     IF r \in DOMAIN rooms /\ rooms[r].clients # <<>>
     THEN /\ rooms' = [rooms EXCEPT ![r].clients =
                         RemoveAt(@, QuitIndex(@, req[g].user))]
          /\ Goto(g, "quitCnt")
          /\ UNCHANGED jobVars
     ELSE /\ End(g)
          /\ UNCHANGED rooms
  /\ UNCHANGED <<up, mutexVars, received, sent>>

\* Mutant: append(clients[:index]) without the rest.
QuitDropsRest(g) ==
  /\ pc[g] = "quit"
  /\ LET r == req[g].room IN
     IF r \in DOMAIN rooms /\ rooms[r].clients # <<>>
     THEN /\ rooms' = [rooms EXCEPT ![r].clients =
                         SubSeq(@, 1, QuitIndex(@, req[g].user) - 1)]
          /\ Goto(g, "quitCnt")
     ELSE /\ Goto(g, "unlock")
          /\ UNCHANGED rooms
  /\ UNCHANGED <<up, mutexVars, jobVars, received, sent>>

Quit(g) ==
  /\ pc[g] = "quit"
  /\ LET r == req[g].room IN
     IF r \in DOMAIN rooms /\ rooms[r].clients # <<>>
     THEN /\ rooms' = [rooms EXCEPT ![r].clients =
                         RemoveAt(@, QuitIndex(@, req[g].user))]
          /\ Goto(g, "quitCnt")
     ELSE /\ Goto(g, "unlock")
          /\ UNCHANGED rooms
  /\ UNCHANGED <<up, mutexVars, jobVars, received, sent>>

\* Mutant: the room is deleted when memCnt was 0 before the decrement.
QuitCountLate(g) ==
  /\ pc[g] = "quitCnt"
  /\ LET r == req[g].room IN
     IF rooms[r].memCnt = 0
     THEN DeleteRoom(r)
     ELSE rooms' = [rooms EXCEPT ![r].memCnt = @ - 1]
  /\ Goto(g, "unlock")
  /\ UNCHANGED <<up, mutexVars, jobVars, received, sent>>

QuitCount(g) ==
  /\ pc[g] = "quitCnt"
  /\ LET r == req[g].room IN
     IF rooms[r].memCnt = 1
     THEN DeleteRoom(r)
     ELSE rooms' = [rooms EXCEPT ![r].memCnt = @ - 1]
  /\ Goto(g, "unlock")
  /\ UNCHANGED <<up, mutexVars, jobVars, received, sent>>

-----------------------------------------------------------------------------
(* The handlers that loop over a room or over the rooms: GET_MSG_CODE,     *)
(* REQ_MEM_LIST, REQ_ROOM_INFO.  What the loop ranges over is fixed when   *)
(* it starts; each iteration writes one datagram.                          *)

\* Mutant: roomMutex is released before the loop.
StartLoopUnlocked(g, values) ==
  /\ todo' = [todo EXCEPT ![g] = values]
  /\ Goto(g, "loop")
  /\ writer' = NoOne
  /\ UNCHANGED <<up, rooms, readers, req, num, received, sent>>

StartLoop(g, values) ==
  /\ todo' = [todo EXCEPT ![g] = values]
  /\ Goto(g, "loop")
  /\ UNCHANGED <<up, rooms, mutexVars, req, num, received, sent>>

\* A message to a room that does not exist panics on a nil *ChatRoom.
Chat(g) ==
  /\ pc[g] = "chat"
  /\ IF req[g].room \in DOMAIN rooms
     THEN StartLoop(g, rooms[req[g].room].clients)
     ELSE PanicLocked(g)

\* Go iterates over a map in any order.
RoomInfo(g) ==
  /\ pc[g] = "roomInfo"
  /\ \E order \in SetToSeqs(DOMAIN rooms) : StartLoop(g, order)

\* Mutant: the loop leaves out clients[0], which was read before it.
MemListRest(g) ==
  /\ pc[g] = "memList"
  /\ IF req[g].room \in DOMAIN rooms
     THEN IF rooms[req[g].room].clients = <<>>
          THEN PanicLocked(g)
          ELSE StartLoop(g, Tail(rooms[req[g].room].clients))
     ELSE StartLoop(g, <<>>)

\* The handler reads clients[0] first, which panics in an empty room.
MemList(g) ==
  /\ pc[g] = "memList"
  /\ IF req[g].room \in DOMAIN rooms
     THEN IF rooms[req[g].room].clients = <<>>
          THEN PanicLocked(g)
          ELSE StartLoop(g, rooms[req[g].room].clients)
     ELSE StartLoop(g, <<>>)

Visit(g) ==
  /\ pc[g] = "loop"
  /\ todo[g] # <<>>
  /\ todo' = [todo EXCEPT ![g] = Tail(@)]
  /\ LET value == Head(todo[g]) IN
     \/ /\ req[g].op = "chat" /\ value.id # req[g].user
        /\ WriteToUDP(g, value.clientAddr, "GET_MSG_CODE", req[g].user)
     \/ /\ req[g].op = "chat" /\ value.id = req[g].user
        /\ UNCHANGED sent
     \/ /\ req[g].op = "memList"
        /\ WriteToUDP(g, req[g].addr, "GET_MEM_LIST", value.id)
     \/ /\ req[g].op = "roomInfo"
        /\ WriteToUDP(g, req[g].addr, "NEW_ROOM", value)
  /\ UNCHANGED <<up, rooms, mutexVars, pc, req, num, received>>

-----------------------------------------------------------------------------
(* What the handlers do after Unlock.                                      *)

Answer(g) ==
  /\ pc[g] = "reply"
  /\ \/ /\ req[g].op = "roomInfo"
        /\ WriteToUDP(g, req[g].addr, "ROOM_FINISH", EmptyCode)
        /\ End(g)
     \/ /\ req[g].op = "create"
        /\ WriteToUDP(g, req[g].addr, "NEW_ROOM", req[g].room)
        /\ Goto(g, "print") /\ UNCHANGED jobVars
     \/ /\ req[g].op = "enter"
        /\ WriteToUDP(g, req[g].addr, "MEMBER_IN", req[g].user)
        /\ Goto(g, "print") /\ UNCHANGED jobVars
  /\ UNCHANGED <<up, rooms, mutexVars, received>>

\* PrintStatus iterates over rooms, from here to PrintStatusEnd, without a
\* lock.  There is nothing to iterate over when no room exists.
PrintStatus(g) ==
  /\ pc[g] = "print"
  /\ \/ /\ DOMAIN rooms # {}
        /\ Goto(g, "printing") /\ UNCHANGED jobVars
     \/ /\ DOMAIN rooms = {}
        /\ End(g)
  /\ UNCHANGED <<up, rooms, mutexVars, received, sent>>

PrintStatusEnd(g) ==
  /\ pc[g] = "printing"
  /\ End(g)
  /\ UNCHANGED <<up, rooms, mutexVars, received, sent>>

-----------------------------------------------------------------------------
(* The process.                                                            *)

\* The statements that write the map itself.
WritesMap(g) ==
  \/ pc[g] = "make"
  \/ pc[g] = "quitCnt" /\ rooms[req[g].room].memCnt = 1

\* A map write during an iteration is a data race.  The runtime may miss
\* it (then the write and the iteration go on), or end the process.
MapRace(g) ==
  /\ WritesMap(g)
  /\ \E h \in Handler : pc[h] = "printing"
  /\ up' = FALSE
  /\ rooms' = NoRooms
  /\ writer' = NoOne
  /\ readers' = {}
  /\ pc' = [h \in Handler |-> "idle"]
  /\ req' = [h \in Handler |-> NoRequest]
  /\ num' = [h \in Handler |-> 0]
  /\ todo' = [h \in Handler |-> <<>>]
  /\ UNCHANGED <<received, sent>>

\* main() again: Connect makes an empty map.
Restart ==
  /\ ~up
  /\ up' = TRUE
  /\ UNCHANGED <<rooms, mutexVars, pc, jobVars, received, sent>>

Init ==
  /\ up = TRUE
  /\ rooms = NoRooms
  /\ writer = NoOne
  /\ readers = {}
  /\ pc = [h \in Handler |-> "idle"]
  /\ req = [h \in Handler |-> NoRequest]
  /\ num = [h \in Handler |-> 0]
  /\ todo = [h \in Handler |-> <<>>]
  /\ received = 0
  /\ sent = [a \in Addr |-> <<>>]

\* One step of HandleMsg in goroutine g.
HandleMsg(g) ==
  \/ RLock(g) \/ Check(g) \/ Lock(g) \/ Unlock(g)
  \/ Make(g) \/ Join(g) \/ JoinCount(g)
  \/ Quit(g) \/ QuitCount(g)
  \/ Chat(g) \/ RoomInfo(g) \/ MemList(g) \/ Visit(g)
  \/ Answer(g) \/ PrintStatus(g) \/ PrintStatusEnd(g)

Next ==
  \/ \E g \in Handler : Receive(g) \/ HandleMsg(g) \/ MapRace(g)
  \/ Restart

Spec == Init /\ [][Next]_vars

\* The Go scheduler runs every goroutine, and a sync.RWMutex in starvation
\* mode serves those that wait for it; clients owe nothing.
FairSpec ==
  /\ Spec
  /\ \A g \in Handler :
       WF_vars(HandleMsg(g)) /\ SF_vars(Lock(g)) /\ SF_vars(RLock(g))

-----------------------------------------------------------------------------
(* Properties that hold.                                                   *)

\* Every variable keeps its type; a goroutine that is not idle has a
\* request (HandleMsg and the types of handler.go).
TypeOK ==
  /\ up \in BOOLEAN
  /\ DOMAIN rooms \subseteq Room
  /\ rooms \in [DOMAIN rooms -> ChatRoom]
  /\ writer \in Handler \cup {NoOne, Gone}
  /\ readers \subseteq Handler
  /\ pc \in [Handler -> Label]
  /\ req \in [Handler -> Request \cup {NoRequest}]
  /\ \A g \in Handler : pc[g] # "idle" => req[g] \in Request
  /\ num \in [Handler -> Nat]
  /\ todo \in [Handler -> Seq(Client \cup Room)]
  /\ received \in Nat
  /\ sent \in [Addr -> Seq(Datagram)]

\* Between Lock and Unlock a goroutine holds roomMutex alone: no second
\* goroutine is in such a section, and none looks a room up under the
\* read lock (every handler of handler.go that changes or walks a room).
MutexInv ==
  /\ \A g \in Handler : pc[g] \in Critical <=> writer = g
  /\ \A g \in Handler : pc[g] = "check" <=> g \in readers
  /\ writer # NoOne => readers = {}

\* How far memCnt is ahead of the number of clients between the two
\* assignments of quitting ("quitCnt") and of joining ("joinCnt").
Lag(label) ==
  CASE label = "quitCnt" -> 1
    [] label = "joinCnt" -> -1
    [] OTHER -> 0

\* Only the goroutine that holds roomMutex can be between two assignments.
CountLag(r) ==
  IF writer \in Handler /\ req[writer].room = r THEN Lag(pc[writer]) ELSE 0

\* Whatever the interleaving, the panics and the orphaned locks, memCnt is
\* the number of clients, and a room that exists has a member: QUIT_THE_ROOM
\* deletes a room exactly when its last client left.  This is what lets
\* REQ_MEM_LIST read clients[0] ("will be ok", handler.go:378).
RoomsConsistent ==
  \A r \in DOMAIN rooms :
    /\ rooms[r].memCnt = Len(rooms[r].clients) + CountLag(r)
    /\ rooms[r].memCnt > 0

\* Where a goroutine is fits what it was asked to do: creating and entering
\* work on a non-empty code, a goroutine between two assignments to a room
\* finds the room still there, and a loop visits what its request is about
\* (the switch of HandleMsg and the early returns on an empty code).
PhaseInv ==
  \A g \in Handler :
    /\ pc[g] \in {"rlock", "check", "lockMake", "lockJoin", "make", "join", "joinCnt"}
         => req[g].op \in {"create", "enter"} /\ req[g].room \in Room
    /\ pc[g] = "lock" => req[g].op \in {"quit", "chat", "roomInfo", "memList"}
    /\ pc[g] \in {"quit", "quitCnt", "chat", "roomInfo", "memList"}
         => req[g].op = IF pc[g] = "quitCnt" THEN "quit" ELSE pc[g]
    /\ pc[g] = "reply" => req[g].op \in {"create", "enter", "roomInfo"}
    /\ pc[g] \in {"joinCnt", "quitCnt"} => req[g].room \in DOMAIN rooms
    /\ pc[g] = "loop" =>
         \/ req[g].op \in {"chat", "memList"} /\ todo[g] \in Seq(Client)
         \/ req[g].op = "roomInfo" /\ todo[g] \in Seq(Room)

\* The members of each room; a room that does not exist has none.
MemTable ==
  [r \in Room |-> IF r \in DOMAIN rooms THEN rooms[r].clients ELSE <<>>]

\* Who has found a room missing and is about to make it.
Finders ==
  [r \in Room |-> {g \in Handler : pc[g] \in {"lockMake", "make"} /\ req[g].room = r}]

\* The promise of RoomTable: joining, quitting, creating and deleting rooms
\* in several assignments each (handler.go:194-224, 235-275, 305-334) amounts
\* to single changes of one room's members; nobody is thrown out but by a
\* handler that had looked the room up before it was there; and once a panic
\* has orphaned roomMutex no membership changes again.
Table == INSTANCE RoomTable WITH
  table   <- MemTable,
  finders <- Finders,
  frozen  <- writer = Gone,
  running <- up

TableSpec == Table!Spec

\* The datagrams written to a for the request that g handles: their places.
Written(g, a) == {i \in DOMAIN sent[a] : sent[a][i].num = num[g]}

\* How many of these clients a chat message of g reaches at a.
Recipients(g, a, clients) ==
  Cardinality({i \in DOMAIN clients :
                 clients[i].id # req[g].user /\ clients[i].clientAddr = a})

\* A loop under roomMutex serves the state of the rooms at one instant: what
\* it has written and what it has yet to visit are together the members
\* (GET_MSG_CODE, REQ_MEM_LIST) or the rooms (REQ_ROOM_INFO) of right now,
\* none missed, none twice, however the other goroutines run in between.
LoopsCurrent ==
  \A g \in Handler : pc[g] = "loop" =>
    LET r == req[g].room
        to == req[g].addr
    IN CASE req[g].op = "chat" ->
              \A a \in Addr : Cardinality(Written(g, a)) + Recipients(g, a, todo[g])
                                = Recipients(g, a, rooms[r].clients)
         [] req[g].op = "memList" ->
              Cardinality(Written(g, to)) + Len(todo[g]) =
                IF r \in DOMAIN rooms THEN Len(rooms[r].clients) ELSE 0
         [] req[g].op = "roomInfo" ->
              {sent[to][i].what : i \in Written(g, to)} \cup ToSet(todo[g])
                = DOMAIN rooms

\* Chat messages are totally ordered: if one address is sent x before y, no
\* other address is sent y before x.  The loop of GET_MSG_CODE writes to all
\* members before the lock passes to the next message.
ChatOrder ==
  \A a, b \in Addr : \A i, j \in DOMAIN sent[a] : \A k, l \in DOMAIN sent[b] :
    /\ i < j /\ k < l
    /\ sent[a][i].code = "GET_MSG_CODE" /\ sent[a][j].code = "GET_MSG_CODE"
    /\ sent[a][i].num = sent[b][l].num /\ sent[a][j].num = sent[b][k].num
    => sent[a][i].num = sent[a][j].num

\* Only a panic under roomMutex can keep a handler from returning: every
\* datagram that is read is handled to the end, unless roomMutex is orphaned.
HandledOrWedged ==
  \A g \in Handler : pc[g] # "idle" ~> pc[g] = "idle" \/ writer = Gone

-----------------------------------------------------------------------------
(* Claims of the repository that the code does not live up to.             *)

\* handler.go:228 ("respond to a user leaving a room"): the client that the
\* handler removes is one of the user who leaves.
QuitRemovesTheQuitter ==
  [][\A g \in Handler :
       pc[g] = "quit" /\ pc'[g] = "quitCnt" =>
         LET r == req[g].room
             Of(clients) == {i \in DOMAIN clients : clients[i].id = req[g].user}
         IN Cardinality(Of(rooms'[r].clients)) = Cardinality(Of(rooms[r].clients)) - 1
    ]_vars

\* main.go:53 ("handle the messages of the clients concurrently"): every
\* datagram that is read is handled to the end.
EveryMessageHandled ==
  \A g \in Handler : pc[g] # "idle" ~> pc[g] = "idle"

=============================================================================
