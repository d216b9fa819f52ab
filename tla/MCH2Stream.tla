----------------------------- MODULE MCH2Stream ------------------------------
(***************************************************************************)
(* A client with two streams for TLC.                                      *)
(***************************************************************************)
EXTENDS H2Stream

TwoStreams == {1, 3}
=============================================================================
