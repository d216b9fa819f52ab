------------------------------ MODULE LineFifo -------------------------------
(***************************************************************************)
(* What a log file promises: lines are accepted in some order and reach    *)
(* the file in that order, each at most once; a line may be lost (the file *)
(* cannot be opened or written), but never overtaken.                      *)
(***************************************************************************)
EXTENDS Naturals, Sequences

CONSTANT Line

VARIABLES
  pending,    \* lines accepted and not yet written
  file        \* lines in the file

Init == pending = <<>> /\ file = <<>>

Accept(line) == pending' = Append(pending, line) /\ UNCHANGED file

Commit ==
  /\ pending # <<>>
  /\ pending' = Tail(pending) /\ file' = Append(file, Head(pending))

Lose == pending # <<>> /\ pending' = Tail(pending) /\ UNCHANGED file

LoseAll == pending' = <<>> /\ UNCHANGED file

Next == (\E line \in Line : Accept(line)) \/ Commit \/ Lose \/ LoseAll

Spec == Init /\ [][Next]_<<pending, file>>
=============================================================================
