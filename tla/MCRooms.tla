------------------------------ MODULE MCRooms ------------------------------
(***************************************************************************)
(* Instances of RoomServer for TLC.  Every user has one address, which is  *)
(* the user id itself seen as an address.                                  *)
(***************************************************************************)
EXTENDS RoomServer

CONSTANTS u1, u2, u3, r1, r2

Asks(op, room, user) == [op |-> op, room |-> room, user |-> user, addr |-> user]

\* Two users open a room or find it, one of them leaves; somebody whose own
\* datagram was lost or is late sends messages there, and asks for the members
\* and the rooms.
Conversation ==
  {Asks("create", r1, u2), Asks("enter", r1, u3), Asks("quit", r1, u3),
   Asks("chat", r1, u1), Asks("memList", r1, u1), Asks("roomInfo", EmptyCode, u1)}

\* Every operation once, on one room.
Everything ==
  {Asks("create", r1, u1), Asks("enter", r1, u2), Asks("quit", r1, u1),
   Asks("chat", r1, u2), Asks("memList", r1, u2), Asks("roomInfo", EmptyCode, u1),
   Asks("login", EmptyCode, u2), Asks("quit", EmptyCode, u1)}

Goroutines == Permutations(Handler)

=============================================================================
