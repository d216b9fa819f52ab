------------------------------ MODULE MCLogFile ------------------------------
(***************************************************************************)
(* A log file with a few lines for TLC; a second thread is there to be     *)
(* started wrongly.                                                        *)
(***************************************************************************)
EXTENDS LogFile

CONSTANTS t1, t2

TwoThreads == {t1, t2}
=============================================================================
