----------------------------- MODULE MCAccounts -----------------------------
(***************************************************************************)
(* Instances of Accounts for TLC: one or two ids that several clients sign *)
(* up with different passwords and log in to with right and wrong ones.    *)
(***************************************************************************)
EXTENDS Accounts

CONSTANTS i1, i2, n1, n2, p1, p2

Asks(op, id, name, psw) == [op |-> op, id |-> id, name |-> name, psw |-> psw]

\* Sign-ups of i1 with two passwords, logins with each of them under the
\* nickname of its owner, and a user nobody competes with.
Rivals ==
  {Asks("signin", i1, n1, p1), Asks("signin", i1, n2, p2),
   Asks("login", i1, n1, p1), Asks("login", i1, n2, p2),
   Asks("signin", i2, n1, p1)}

Goroutines == Permutations(Handler)

=============================================================================
