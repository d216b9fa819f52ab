------------------------------ MODULE UrlPath -------------------------------
(***************************************************************************)
(* DoAction's decoding of the :path of a request: %XX escapes are bytes of *)
(* UTF-8, the query begins at the first '?'.  A path is a sequence of      *)
(* tokens: [kind |-> "char", code |-> c], [kind |-> "escape", code |-> b], *)
(* a broken escape or the question mark.                                   *)
(***************************************************************************)
EXTENDS Integers, Sequences, SequencesExt

Char(c) == [kind |-> "char", code |-> c]
Escape(b) == [kind |-> "escape", code |-> b]
Broken == [kind |-> "broken", code |-> 0]
Question == [kind |-> "query", code |-> 0]

\* strItemPath, the character being put together and its missing bytes, and
\* whether the loop was left: with 400, or at the query.
Start == [path |-> <<>>, wch |-> 0, parts |-> 0, left |-> "no"]

Put(st, c) == [st EXCEPT !.path = Append(@, c)]

ContinuationFlat(st, b) ==    \* mutant: the middle byte is not shifted
  LET wch == st.wch + (b % 64)
      next == [st EXCEPT !.wch = wch, !.parts = @ - 1]
  IN  IF next.parts = 0 THEN Put(next, wch) ELSE next

\* One byte of a character that has several, wch |= chr.
Continuation(st, b) ==
  LET bits == b % 64
      wch == st.wch + (IF st.parts = 2 THEN bits * 64 ELSE bits)
      next == [st EXCEPT !.wch = wch, !.parts = @ - 1]
  IN  IF next.parts = 0 THEN Put(next, wch) ELSE next

\* A lead byte starts a character; 127, 192, 224 and what is above 239 are
\* skipped.
EscapeByte(st, b) ==
  CASE b < 32 -> [st EXCEPT !.left = "bad request"]
    [] b \in 32 .. 126 -> Put(st, b)
    [] b \in 128 .. 191 -> Continuation(st, b)
    [] b \in 193 .. 223 -> [st EXCEPT !.wch = (b % 32) * 64, !.parts = 1]
    [] b \in 225 .. 239 -> [st EXCEPT !.wch = (b % 16) * 4096, !.parts = 2]
    [] OTHER -> st

DecodeToken(st, t) ==
  CASE st.left # "no" -> st
    [] st.left = "no" /\ t.kind = "broken" -> [st EXCEPT !.left = "bad request"]
    [] st.left = "no" /\ t.kind = "query" -> [st EXCEPT !.left = "query"]
    [] st.left = "no" /\ t.kind = "char" -> Put(st, t.code)
    [] st.left = "no" /\ t.kind = "escape" -> EscapeByte(st, t.code)

Decode(tokens) == FoldLeft(DecodeToken, Start, tokens)

-----------------------------------------------------------------------------
(* What a client writes for a character. *)

Utf8(c) ==
  CASE c < 128 -> <<Escape(c)>>
    [] c \in 128 .. 2047 -> <<Escape(192 + (c \div 64)), Escape(128 + (c % 64))>>
    [] c > 2047 -> <<Escape(224 + (c \div 4096)), Escape(128 + ((c \div 64) % 64)),
                     Escape(128 + (c % 64))>>

EncodePath(cs) == FlattenSeq([i \in DOMAIN cs |-> Utf8(cs[i])])
=============================================================================
