---------------------------- MODULE AccountBook -----------------------------
(***************************************************************************)
(* What signing up and logging in promise: only who has found an id free   *)
(* opens an account under it, a password that is stored stays, whatever    *)
(* is signed up later, and a client is told once, of the account that its  *)
(* own handler has opened.  No answer is promised to arrive, and an id is  *)
(* not promised to one client only: two handlers may both find it free.    *)
(***************************************************************************)
CONSTANTS
  Handler, \* those who act for the clients
  UserId,  \* the ids
  Psw,     \* the passwords
  NoPair   \* the account of a handler that has opened none

VARIABLES
  account, \* the passwords stored under each id
  finders, \* who has found each id free and not yet used it
  opened,  \* the account that a handler has opened and not yet told of
  granted  \* the accounts whose owners were told

bookVars == <<account, finders, opened, granted>>

Init ==
  /\ account = [id \in UserId |-> {}]
  /\ finders = [id \in UserId |-> {}]
  /\ opened = [h \in Handler |-> NoPair]
  /\ granted = {}

Find(id, h) ==
  /\ account[id] = {}
  /\ finders' = [finders EXCEPT ![id] = @ \cup {h}]
  /\ UNCHANGED <<account, opened, granted>>

GiveUp(id, h) ==
  /\ h \in finders[id]
  /\ finders' = [finders EXCEPT ![id] = @ \ {h}]
  /\ UNCHANGED <<account, opened, granted>>

\* The account is stored; whether the handler knows is another matter.
Open(id, h, psw) ==
  /\ h \in finders[id]
  /\ finders' = [finders EXCEPT ![id] = @ \ {h}]
  /\ account' = [account EXCEPT ![id] = @ \cup {psw}]
  /\ \/ opened' = [opened EXCEPT ![h] = [id |-> id, psw |-> psw]]
     \/ UNCHANGED opened
  /\ UNCHANGED granted

\* The owner hears of it once.
Grant(h) ==
  /\ opened[h] # NoPair
  /\ granted' = granted \cup {opened[h]}
  /\ opened' = [opened EXCEPT ![h] = NoPair]
  /\ UNCHANGED <<account, finders>>

Next ==
  \/ \E id \in UserId, h \in Handler :
       Find(id, h) \/ GiveUp(id, h) \/ \E psw \in Psw : Open(id, h, psw)
  \/ \E h \in Handler : Grant(h)

Spec == Init /\ [][Next]_bookVars

=============================================================================
