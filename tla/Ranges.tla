------------------------------- MODULE Ranges -------------------------------
(***************************************************************************)
(* DoAction's evaluation of the Range header of a request for a file.  A   *)
(* range is a pair; the second position is the first one not sent.         *)
(***************************************************************************)
EXTENDS Integers, Sequences, Functions, SequencesExt

Open == -1      \* a position the header leaves out
Position == Nat \cup {Open}

\* "-500" starts at 0, "500-" goes to the end of the file.
Parsed(specs, size) ==
  [i \in DOMAIN specs |->
     <<IF specs[i][1] = Open THEN 0 ELSE specs[i][1],
       IF specs[i][2] = Open THEN size ELSE specs[i][2]>>]

Before(a, b) == IF a[1] = b[1] THEN a[2] < b[2] ELSE a[1] < b[1]

\* rs in the order of Before.
Sorted(rs) ==
  {s \in {[i \in DOMAIN rs |-> rs[p[i]]] : p \in Bijection(DOMAIN rs, DOMAIN rs)} :
     \A i, j \in DOMAIN rs : i < j => ~Before(s[j], s[i])}

ValidRange(r, size) == r[1] < r[2] /\ r[1] < size
ValidPair(rs, n, size) == ValidRange(rs[n], size) /\ ValidRange(rs[n + 1], size)

Touch(a, b) ==
  \/ a[1] >= b[1] /\ a[1] <= b[2]
  \/ b[1] > a[1] /\ b[1] <= a[2]

Least(a, b) == IF a < b THEN a ELSE b
Most(a, b) == IF a < b THEN b ELSE a

JoinShort(a, b) ==            \* mutant: the second range's end
  <<Least(a[1], b[1]), b[2]>>

Join(a, b) == <<Least(a[1], b[1]), Most(a[2], b[2])>>

\* The next range goes into the n-th.
Joined(rs, n) == RemoveAt([rs EXCEPT ![n] = Join(rs[n], rs[n + 1])], n + 1)

\* One range is served alone, when it begins and ends in the file; else the
\* whole file is.
Servable(rs, size) ==
  Len(rs) = 1 /\ rs[1][1] < size /\ rs[1][2] <= size /\ rs[1][2] >= rs[1][1]

Served(rs, size) == IF Servable(rs, size) THEN rs[1] ELSE <<0, size>>

-----------------------------------------------------------------------------
(* The bytes that ranges name. *)

Cover(rs) == UNION {rs[i][1] .. rs[i][2] - 1 : i \in DOMAIN rs}
=============================================================================
