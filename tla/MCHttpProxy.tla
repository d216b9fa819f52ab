---------------------------- MODULE MCHttpProxy -----------------------------
(***************************************************************************)
(* Clients and destinations of the forward proxy for TLC.                  *)
(***************************************************************************)
EXTENDS HttpProxy, TLC

CONSTANTS c1, a, b

OneClient == {c1}
TwoHosts == {a, b}
OwnNames == a :> "a" @@ b :> "b"
SameName == a :> "a" @@ b :> "a"

\* Not kept: what is appended to strBuffer after it was passed on stays there,
\* and OnDataRecievedClient passes on what comes next (HttpProxy.h 147, 486).
EveryByteInOrder ==
  \A c \in m_vConnections \cap late :
    Plain(Written(c) \o details[c].strBuffer \o held[c])
      = Plain(SubSeq(sent[c], 1, nread[c]))
=============================================================================
