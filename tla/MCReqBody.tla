------------------------------ MODULE MCReqBody ------------------------------
(***************************************************************************)
(* One request with up to three DATA frames for TLC.                       *)
(***************************************************************************)
EXTENDS FcgiRequest

CONSTANTS h1, h2

OneReader == {h1}
TwoReaders == {h1, h2}
=============================================================================
