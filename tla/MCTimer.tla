------------------------------- MODULE MCTimer -------------------------------
(***************************************************************************)
(* A timer with two callers and two timeouts for TLC.                      *)
(***************************************************************************)
EXTENDS Timer

CONSTANTS c1, c2

TwoCallers == {c1, c2}
=============================================================================
