------------------------------ MODULE MCRequest -----------------------------
(***************************************************************************)
(* Paths and Range headers for TLC.                                        *)
(***************************************************************************)
EXTENDS Request

\* Characters of one, two and three bytes at the ends of their ranges, but for
\* those whose lead byte the code skips (U+0800 .. U+0FFF).
Characters == {32, 126, 128, 2047, 4096, 8364, 65535}

SomeNames == {<<a, b>> : a, b \in Characters}

SomeBroken == {<<Url!Char(65), Url!Question, Url!Broken>>, <<Url!Escape(10)>>, <<Url!Broken>>}

Positions == {-1, 0, 2, 3, 4}

SomeRanges ==
  {<<>>} \cup {<<p>> : p \in Positions \X Positions}
  \cup {<<p, q>> : p \in {<<0, 1>>, <<2, -1>>, <<1, 1>>},
                   q \in {<<0, 2>>, <<0, 3>>, <<1, 4>>, <<3, 4>>}}

\* Every answer is framed, those that AnswerFramed names too: the code writes a
\* script's output for HEAD, and tells no length of no octets (HeadBody.cfg).
EveryAnswerFramed == Answered => Framed
=============================================================================
