----------------------------- MODULE RoomTable ------------------------------
(***************************************************************************)
(* What the room service of the PostinTo server promises, without locks    *)
(* or counters: who is in which room changes by one client at a time, and  *)
(* no longer once the service is frozen.  A closed room is a room without  *)
(* clients.  A room is created by a handler that has found it closed, and  *)
(* who has come in since then is lost: nobody is lost otherwise.           *)
(***************************************************************************)
EXTENDS Integers, SequencesExt

CONSTANTS
  Handler, \* those who act for the clients
  Room,    \* the room codes
  Client   \* the clients that rooms hold

VARIABLES
  table,   \* the clients of each room, in the order in which they came
  finders, \* who has found each room closed and not yet created it
  frozen,  \* the service hangs: nobody can enter or leave any more
  running  \* the process runs

tableVars == <<table, finders, frozen, running>>

Init ==
  /\ table = [r \in Room |-> <<>>]
  /\ finders = [r \in Room |-> {}]
  /\ frozen = FALSE
  /\ running = TRUE

Serving == running /\ ~frozen

Find(r, h) ==
  /\ Serving
  /\ table[r] = <<>>
  /\ finders' = [finders EXCEPT ![r] = @ \cup {h}]
  /\ UNCHANGED <<table, frozen, running>>

\* When two handlers have found the room closed at once, the second creation
\* throws out those who are in it.
Create(r, h, c) ==
  /\ Serving
  /\ h \in finders[r]
  /\ finders' = [finders EXCEPT ![r] = @ \ {h}]
  /\ table' = [table EXCEPT ![r] = <<c>>]
  /\ UNCHANGED <<frozen, running>>

Enter(r, c) ==
  /\ Serving
  /\ table[r] # <<>>
  /\ table' = [table EXCEPT ![r] = Append(@, c)]
  /\ UNCHANGED <<finders, frozen, running>>

\* Somebody leaves: not necessarily the user who asked to.
Leave(r) ==
  /\ Serving
  /\ \E i \in 1..Len(table[r]) : table' = [table EXCEPT ![r] = RemoveAt(@, i)]
  /\ UNCHANGED <<finders, frozen, running>>

Freeze ==
  /\ Serving
  /\ frozen' = TRUE
  /\ UNCHANGED <<table, finders, running>>

\* The process ends, and its rooms with it.
Vanish ==
  /\ Serving
  /\ table' = [r \in Room |-> <<>>]
  /\ finders' = [r \in Room |-> {}]
  /\ running' = FALSE
  /\ UNCHANGED frozen

\* A new process.
Start ==
  /\ ~running
  /\ running' = TRUE
  /\ UNCHANGED <<table, finders, frozen>>

Next ==
  \/ \E r \in Room, h \in Handler : Find(r, h) \/ \E c \in Client : Create(r, h, c)
  \/ \E r \in Room, c \in Client : Enter(r, c)
  \/ \E r \in Room : Leave(r)
  \/ Freeze
  \/ Vanish
  \/ Start

Spec == Init /\ [][Next]_tableVars

=============================================================================
