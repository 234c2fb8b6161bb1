------------------------------- MODULE Driver -------------------------------
(***************************************************************************)
(* One connection of the MySQL driver, from the handshake (Auth) to the    *)
(* commands (Session).  The two phases share the connection and nothing    *)
(* else: what the first one knows is forgotten when it has succeeded.      *)
(***************************************************************************)
EXTENDS Auth, Session

vars == <<authVars, sessionVars>>

Init == AuthInit /\ SessionInit

\* handleAuthResult has returned nil; Connect goes on to getSystemVar.
Established ==
  /\ auth.pc = "authenticated"
  /\ auth' = [NewAuth EXCEPT !.pc = "over"]
  /\ cfg' = None /\ account' = None /\ server' = NewServer
  /\ packet' = None /\ sent' = {}
  /\ UNCHANGED sessionVars

Next ==
  \/ auth.pc # "over" /\ AuthNext /\ UNCHANGED sessionVars
  \/ Established
  \/ auth.pc = "over" /\ SessionNext /\ UNCHANGED authVars

Spec == Init /\ [][Next]_vars

\* Every variable of the two phases keeps its type; what of the answers is in the
\* driver's buffer has arrived.
TypeOK == AuthTypeOK /\ SessionTypeOK

=============================================================================
