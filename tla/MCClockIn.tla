------------------------------ MODULE MCClockIn ------------------------------
(***************************************************************************)
(* Instances of ClockIn for TLC.                                           *)
(***************************************************************************)
EXTENDS ClockIn

Goroutines == Permutations(Handler)

=============================================================================
