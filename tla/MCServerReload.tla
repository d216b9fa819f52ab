--------------------------- MODULE MCServerReload ---------------------------
(***************************************************************************)
(* Small configuration files for TLC.                                      *)
(***************************************************************************)
EXTENDS ServerReload

CONSTANTS c1, c2, a, b, d

TwoConns == {c1, c2}
OneConn == {c1}

\* One server or two at a time: none is ever between two others.
Pairs == {{a}, {a, b}, {b, d}}

\* A server between two others may go.
Triples == {{a, b, d}, {a, d}}
=============================================================================
