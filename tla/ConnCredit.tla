----------------------------- MODULE ConnCredit -----------------------------
(***************************************************************************)
(* What HTTP/2 flow control promises about one connection, in two actions: *)
(* the peer grants credit, and the server spends credit it has.  Nothing   *)
(* is said of streams, threads, locks or reservations.                     *)
(***************************************************************************)
EXTENDS Integers

CONSTANT InitialCredit      \* octets granted when the connection starts, in Nat

VARIABLE credit             \* octets the peer still allows to be sent

Init == credit = InitialCredit

Grant == credit' \in Int /\ credit' > credit

Spend == credit' \in Nat /\ credit' < credit

Next == Grant \/ Spend

Spec == Init /\ [][Next]_credit
=============================================================================
