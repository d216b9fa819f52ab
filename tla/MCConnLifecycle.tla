-------------------------- MODULE MCConnLifecycle ---------------------------
(***************************************************************************)
(* One connection with two DoAction threads, next to others of the same    *)
(* address, for TLC.                                                       *)
(***************************************************************************)
EXTENDS ConnLifecycle, TLC

CONSTANTS c1, a1, a2

OneConn == {c1}
TwoActions == {a1, a2}
BothOnOne == a1 :> c1 @@ a2 :> c1
=============================================================================
