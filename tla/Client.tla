------------------------------- MODULE Client -------------------------------
(***************************************************************************)
(* One client of PostinTo: the stack of pages of Main.qml, MainPage's list *)
(* of rooms with its refresh timer, and the datagrams between the client   *)
(* and the room table of the server.  A datagram may be lost or overtaken, *)
(* on the way or between the goroutines of main.go.  A handler of the      *)
(* server is one step here (RoomServer has their steps); another user      *)
(* comes and goes.  A message to a room that is gone orphans the mutex of  *)
(* the rooms; what messages and member lists show is left out.             *)
(***************************************************************************)
EXTENDS Integers, Sequences, FiniteSets, SequencesExt

CONSTANTS
  Rooms,
  NoRoom,      \* the empty room code
  Me, Other,   \* user ids
  MaxTaps,     \* bound: what the user taps
  MaxMoves,    \* bound: what the other user does
  MaxUp,       \* bound: requests under way
  MaxDown,     \* bound: answers under way
  MaxList      \* bound: rows of the list that are told apart

ASSUME ClientAssumption ==
  /\ IsFiniteSet(Rooms) /\ NoRoom \notin Rooms
  /\ Me # Other
  /\ {MaxUp, MaxDown, MaxList} \subseteq Nat

\* The bound tells apart any list that shows each room once.
ASSUME ListAssumption == Cardinality(Rooms) <= MaxList

VARIABLES
  stack,      \* the pages of the StackView; a chat page has a room, and may have sent its QUIT
  list,       \* roomodel: the rooms that MainPage shows
  flash,      \* flashAni.running, and with it the refresh timer
  quitting,   \* _quit: the back key has been pressed once
  closed,     \* the app has ended
  up, down,   \* datagrams under way
  members,    \* rooms[r].clients at the server
  wedged,     \* a handler has panicked with roomMutex locked
  taps, moves,
  \* History: a datagram was lost or overtaken; how many memberships too many
  \* the lost ones, and the QUITs that found no membership, have left; a page
  \* has sent a second QUIT, or the other user one that took a membership of
  \* another; the list was asked for while an answer was due; the rooms of the
  \* last answer.
  disturbed, adrift, stray, overlap, answered

client == <<stack, list, flash, quitting, closed>>
server == <<members, wedged, answered>>
vars == <<client, up, down, server, taps, moves, disturbed, adrift, stray, overlap>>

Main == [page |-> "main"]
Chat(r) == [page |-> "chat", room |-> r, left |-> FALSE]
Members == [page |-> "members"]

Top == Last(stack)
Request(op, r) == [op |-> op, room |-> r, user |-> Me]
RoomInfo == [op |-> "rooms"]

Init ==
  /\ stack = <<Main>> /\ list = <<>>
  /\ flash = FALSE /\ quitting = FALSE /\ closed = FALSE
  /\ up = <<RoomInfo>> /\ down = <<>>
  /\ members = [r \in Rooms |-> <<>>] /\ wedged = FALSE
  /\ taps = 0 /\ moves = 0
  /\ disturbed = FALSE /\ adrift = [r \in Rooms |-> 0]
  /\ stray = FALSE /\ overlap = FALSE /\ answered = {}

\* The answer to this request adds to the list.
Adds(x) == x.op = "rooms" \/ (x.op = "create" /\ x.room # NoRoom)

AnswerDue ==
  \/ \E i \in DOMAIN up : Adds(up[i])
  \/ \E i \in DOMAIN down : down[i].op \in {"room", "finish"}

-----------------------------------------------------------------------------
(* The client.                                                             *)

Send(requests) ==
  /\ Len(up) + Len(requests) <= MaxUp
  /\ up' = up \o requests

Tap(page) ==
  /\ ~closed /\ Top.page = page
  /\ taps < MaxTaps /\ taps' = taps + 1
  /\ UNCHANGED <<closed, down, server, moves, disturbed, adrift>>

\* The refresh icon.
Refresh ==
  /\ Tap("main")
  /\ flash' = TRUE /\ list' = <<>>
  /\ Send(<<RoomInfo>>)
  /\ overlap' = AnswerDue
  /\ UNCHANGED <<stack, quitting, stray>>

\* Mutant: the timer stops while another page covers the list.
TimerOnTop ==
  /\ flash /\ ~closed /\ Top = Main
  /\ Send(<<RoomInfo>>)
  /\ overlap' = TRUE
  /\ UNCHANGED <<client, down, server, taps, moves, disturbed, adrift, stray>>

Timer ==
  /\ flash /\ ~closed
  /\ Send(<<RoomInfo>>)
  /\ overlap' = TRUE
  /\ UNCHANGED <<client, down, server, taps, moves, disturbed, adrift, stray>>

\* A tap on a row of the list.
GetIntoRoom ==
  /\ Tap("main")
  /\ \E r \in Range(list) :
       stack' = Append(stack, Chat(r)) /\ Send(<<Request("join", r)>>)
  /\ flash' = FALSE
  /\ UNCHANGED <<list, quitting, stray, overlap>>

\* Mutant: the button works below another page.
GoAnywhere ==
  /\ Tap(Top.page)
  /\ \E r \in Rooms :
       stack' = Append(stack, Chat(r)) /\ Send(<<Request("create", r)>>)
  /\ UNCHANGED <<list, flash, quitting, stray, overlap>>

\* The button Go: the loop over the list never finds the room, so that it is
\* created even when it is there.  An empty code is sent too, and the page
\* opened.
Go ==
  /\ Tap("main")
  /\ \E r \in Rooms \cup {NoRoom} :
       stack' = Append(stack, Chat(r)) /\ Send(<<Request("create", r)>>)
  /\ UNCHANGED <<list, flash, quitting, stray, overlap>>

OpenMembers ==
  /\ Tap("chat")
  /\ stack' = Append(stack, Members)
  /\ UNCHANGED <<list, flash, quitting, up, stray, overlap>>

CloseMembers ==
  /\ Tap("members")
  /\ stack' = Front(stack)
  /\ UNCHANGED <<list, flash, quitting, up, stray, overlap>>

\* The button SEND.
Say ==
  /\ Tap("chat")
  /\ Send(<<Request("chat", Top.room)>>)
  /\ UNCHANGED <<stack, list, flash, quitting, stray, overlap>>

\* Mutant: the arrow pops the page and says nothing.
LeaveRoomSilently ==
  /\ Tap("chat")
  /\ stack' = Front(stack) /\ list' = <<>>
  /\ Send(<<RoomInfo>>)
  /\ overlap' = AnswerDue
  /\ UNCHANGED <<flash, quitting, stray>>

\* The arrow of the chat page, or the back key on it: the page is popped,
\* backPress makes it send QUIT and MainPage clear its list.
LeaveRoom ==
  /\ Tap("chat")
  /\ stack' = Front(stack) /\ list' = <<>>
  /\ Send(<<Request("quit", Top.room), RoomInfo>>)
  /\ stray' = (stray \/ Top.left) /\ overlap' = AnswerDue
  /\ UNCHANGED <<flash, quitting>>

\* The back key on the member list: backPress reaches the chat page below.
BackFromMembers ==
  /\ Tap("members")
  /\ stack' = [Front(stack) EXCEPT ![2].left = TRUE]
  /\ list' = <<>>
  /\ Send(<<Request("quit", stack[2].room)>>)
  /\ stray' = (stray \/ stack[2].left)
  /\ UNCHANGED <<flash, quitting, overlap>>

BackFromMain ==
  /\ ~closed /\ Top = Main
  /\ taps < MaxTaps /\ taps' = taps + 1
  /\ quitting' = TRUE /\ closed' = quitting
  /\ UNCHANGED <<stack, list, flash, up, down, server, moves, disturbed, adrift, stray, overlap>>

QuitTimer ==
  /\ quitting /\ ~closed
  /\ quitting' = FALSE
  /\ UNCHANGED <<stack, list, flash, closed, up, down, server, taps, moves, disturbed, adrift, stray, overlap>>

\* Mutant: the end of the answer clears what came before it.
ShowCleared(m) ==
  /\ list' = IF m.op = "finish" THEN <<>> ELSE IF Len(list) < MaxList THEN Append(list, m.room) ELSE list
  /\ flash' = (flash /\ m.op # "finish")

\* NEW_ROOM adds to the list, ROOM_FINISH stops the icon.
Show(m) ==
  /\ list' = IF m.op = "room" /\ Len(list) < MaxList THEN Append(list, m.room) ELSE list
  /\ flash' = (flash /\ m.op # "finish")

\* What is received after a datagram sent later has overtaken it.
ReceiveAt(i) ==
  /\ i \in DOMAIN down
  /\ IF closed THEN UNCHANGED <<list, flash>> ELSE Show(down[i])
  /\ down' = RemoveAt(down, i)
  /\ disturbed' = (disturbed \/ i # 1)
  /\ UNCHANGED <<stack, quitting, closed, up, server, taps, moves, adrift, stray, overlap>>

-----------------------------------------------------------------------------
(* The server.                                                             *)

Existing == {r \in Rooms : members[r] # <<>>}

\* The member that QUIT removes: the one of that id, or the last.
RemoveMember(r, u) ==
  LET own == {i \in DOMAIN members[r] : members[r][i] = u}
      index == IF own = {} THEN Len(members[r]) ELSE CHOOSE i \in own : \A j \in own : i <= j
  IN  IF members[r] = <<>> THEN members ELSE [members EXCEPT ![r] = RemoveAt(@, index)]

\* A goroutine handles the request; it may overtake those before it.
Take(i, ops) ==
  /\ i \in DOMAIN up /\ up[i].op \in ops
  /\ up' = RemoveAt(up, i)
  /\ disturbed' = (disturbed \/ i # 1)
  /\ UNCHANGED <<client, taps, moves, stray, overlap>>

Put(answers) == Len(down) + Len(answers) <= MaxDown /\ down' = down \o answers

NewRoom(r) == [op |-> "room", room |-> r]

\* GET_INTO_ROM and CREATE_ROOM.
Enter(i) ==
  /\ Take(i, {"join", "create"})
  /\ ~wedged /\ up[i].room # NoRoom
  /\ members' = [members EXCEPT ![up[i].room] = Append(@, up[i].user)]
  /\ Put(IF up[i].op = "create" THEN <<NewRoom(up[i].room)>> ELSE <<>>)
  /\ UNCHANGED <<wedged, answered, adrift>>

Quit(i) ==
  /\ Take(i, {"quit"})
  /\ ~wedged /\ up[i].room # NoRoom
  /\ members' = RemoveMember(up[i].room, up[i].user)
  /\ adrift' = IF up[i].user \in Range(members[up[i].room]) THEN adrift
                ELSE [adrift EXCEPT ![up[i].room] = @ + 1]
  /\ UNCHANGED <<down, wedged, answered>>

\* REQ_ROOM_INFO: the rooms in any order, then ROOM_FINISH.
RoomList(i) ==
  /\ Take(i, {"rooms"})
  /\ ~wedged
  /\ \E order \in SetToSeqs(Existing) :
       Put([k \in DOMAIN order |-> NewRoom(order[k])] \o <<[op |-> "finish"]>>)
  /\ answered' = Existing
  /\ UNCHANGED <<members, wedged, adrift>>

\* GET_MSG_CODE: where there is no room the handler panics and leaves roomMutex
\* locked.
Tell(i) ==
  /\ Take(i, {"chat"})
  /\ ~wedged /\ wedged' = (up[i].room \notin Existing)
  /\ UNCHANGED <<down, members, answered, adrift>>

\* The handler returns for want of a room code, or waits for roomMutex forever.
Ignore(i) ==
  /\ Take(i, {"join", "create", "quit", "rooms", "chat"})
  /\ wedged \/ (up[i].op \in {"join", "create", "quit"} /\ up[i].room = NoRoom)
  /\ UNCHANGED <<down, server, adrift>>

ServeAt(i) == Enter(i) \/ Quit(i) \/ RoomList(i) \/ Tell(i) \/ Ignore(i)

\* The other user joins a room, leaves one in which the server may have him or
\* not, or sends a message to one that is gone.
OtherMoves ==
  /\ moves < MaxMoves /\ moves' = moves + 1
  /\ ~wedged
  /\ \E r \in Rooms :
       \/ members' = [members EXCEPT ![r] = Append(@, Other)] /\ UNCHANGED <<wedged, stray>>
       \/ /\ members[r] # <<>> /\ members' = RemoveMember(r, Other)
          /\ stray' = (stray \/ Other \notin Range(members[r]))
          /\ UNCHANGED wedged
       \/ members[r] = <<>> /\ wedged' = TRUE /\ UNCHANGED <<members, stray>>
  /\ UNCHANGED <<client, up, down, taps, disturbed, adrift, overlap, answered>>

\* By how much a request changes the number of the user's memberships.
Change(x, r) ==
  IF x.op \in {"join", "create"} /\ x.room = r THEN 1
  ELSE IF x.op = "quit" /\ x.room = r THEN -1 ELSE 0

LoseRequest(i) ==
  /\ i \in DOMAIN up /\ up' = RemoveAt(up, i)
  /\ adrift' = [r \in Rooms |-> adrift[r] - Change(up[i], r)]
  /\ UNCHANGED down

LoseAnswer(i) ==
  /\ i \in DOMAIN down /\ down' = RemoveAt(down, i)
  /\ UNCHANGED <<up, adrift>>

Lose ==
  /\ \/ \E i \in DOMAIN up : LoseRequest(i)
     \/ \E i \in DOMAIN down : LoseAnswer(i)
  /\ disturbed' = TRUE
  /\ UNCHANGED <<client, server, taps, moves, stray, overlap>>

User ==
  \/ Refresh \/ GetIntoRoom \/ Go \/ Say \/ OpenMembers \/ CloseMembers
  \/ LeaveRoom \/ BackFromMembers \/ BackFromMain
Serve == \E i \in 1..MaxUp : ServeAt(i)
Receive == \E i \in 1..MaxDown : ReceiveAt(i)

Next == User \/ Timer \/ QuitTimer \/ Receive \/ Serve \/ OtherMoves \/ Lose

Spec == Init /\ [][Next]_vars

\* The timers fire, what arrives is handled, and a datagram that is sent again
\* and again arrives at last.
ServeRooms == \E i \in 1..MaxUp : RoomList(i)
ReceiveFinish == \E i \in 1..MaxDown : i \in DOMAIN down /\ down[i].op = "finish" /\ ReceiveAt(i)

FairSpec ==
  /\ Spec
  /\ WF_vars(Timer) /\ WF_vars(Serve) /\ WF_vars(Receive)
  /\ SF_vars(ServeRooms) /\ SF_vars(ReceiveFinish)

-----------------------------------------------------------------------------
(* Properties.                                                             *)

Quiet == up = <<>> /\ down = <<>>

\* The pages nest: the list at the bottom, a chat on it, its members on top
\* (Main.qml, whose back key goes by the depth alone).
TypeOK ==
  /\ Len(stack) \in 1..3 /\ stack[1] = Main
  /\ Len(stack) >= 2 => stack[2].page = "chat"
  /\ Len(stack) = 3 => stack[3] = Members
  /\ Range(list) \subseteq Rooms /\ Len(list) <= MaxList
  /\ {flash, quitting, closed, wedged, disturbed, stray, overlap} \subseteq BOOLEAN
  /\ adrift \in [Rooms -> Int]
  /\ members \in [Rooms -> Seq({Me, Other})] /\ answered \subseteq Rooms

\* When all is quiet the user is a member of the room of his chat page, once,
\* and of no other, however the requests have overtaken each other: a QUIT that
\* was lost, or came before its JOIN, leaves just one membership behind, and of
\* a lost JOIN or CREATE just one is missing.  A page opened with an empty room
\* code is in no room, nor is one that has sent its QUIT from under the member
\* list.  It takes a second QUIT of such a page, or the QUIT of another who is
\* no member, to change that, or a panic that keeps the server from handling
\* anything (LeaveRoom, BackFromMembers, CREATE_ROOM, QUIT_THE_ROOM).
MemberWhereChatIsOpen ==
  Quiet /\ ~stray /\ ~wedged =>
    \A r \in Rooms :
      Cardinality({i \in DOMAIN members[r] : members[r][i] = Me})
        = Cardinality({k \in DOMAIN stack : stack[k].page = "chat" /\ stack[k].room = r /\ ~stack[k].left})
            + adrift[r]

\* A list that was asked for once, of a server that answers, shows the rooms of
\* one instant, each once, however often the user has come and gone before
\* (onBackPress, onGetNewRoom).
ListOfOneInstant ==
  Top = Main /\ Quiet /\ ~disturbed /\ ~overlap /\ ~closed /\ ~wedged =>
    Range(list) = answered /\ Len(list) = Cardinality(answered)

\* The icon stops turning, whatever is lost, on whatever page the user is: the
\* timer asks again (timeOutT).  A server whose roomMutex a message to a room
\* that is gone has orphaned does not answer any more.
RefreshEnds == flash ~> (~flash \/ closed \/ wedged)

=============================================================================
