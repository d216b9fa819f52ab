------------------------------- MODULE MCHpack -------------------------------
(***************************************************************************)
(* Fields and codes for TLC: codes of all lengths from 5 to 28 bits that   *)
(* characters below 128 have, copied from the table.                       *)
(***************************************************************************)
EXTENDS Hpack

\* The bits of a number, the highest first.
Code(n, length) == [i \in 1 .. length |-> (n \div 2 ^ (length - i)) % 2]

Table ==
  [c \in {"a", "e", "i", "s", "t", "/", "l", "r", "G", "E", "T", "&", "!", "+", "#",
          "$", "^", "<", "\\", "DEL", "NUL"} |->
     CASE c = "a" -> Code(3, 5) [] c = "e" -> Code(5, 5) [] c = "i" -> Code(6, 5)
       [] c = "s" -> Code(8, 5) [] c = "t" -> Code(9, 5) [] c = "/" -> Code(24, 6)
       [] c = "l" -> Code(40, 6) [] c = "r" -> Code(44, 6) [] c = "G" -> Code(98, 7)
       [] c = "E" -> Code(96, 7) [] c = "T" -> Code(111, 7) [] c = "&" -> Code(248, 8)
       [] c = "!" -> Code(1016, 10) [] c = "+" -> Code(2043, 11) [] c = "#" -> Code(4090, 12)
       [] c = "$" -> Code(8185, 13) [] c = "^" -> Code(16380, 14) [] c = "<" -> Code(32764, 15)
       [] c = "\\" -> Code(524272, 19) [] c = "DEL" -> Code(268435452, 28)
       [] c = "NUL" -> Code(8184, 13)]

Spelled ==
  [v \in {"/", "GET", "trailers", "ties", "a", "&!", "+$^<", "\\DEL"} |->
     CASE v = "/" -> <<"/">> [] v = "GET" -> <<"G", "E", "T">>
       [] v = "trailers" -> <<"t", "r", "a", "i", "l", "e", "r", "s">>
       [] v = "ties" -> <<"t", "i", "e", "s">> [] v = "a" -> <<"a">>
       [] v = "&!" -> <<"&", "!">> [] v = "+$^<" -> <<"+", "$", "^", "<">>
       [] v = "\\DEL" -> <<"\\", "DEL", "NUL">>]

Field(name, value) == [name |-> name, value |-> value]

Sent ==
  {Field(":method", "GET"), Field(":path", "/"), Field(":path", "a"), Field(":x", "a"),
   Field("cookie", "ties"), Field("cookie", "&!"), Field("te", "trailers"),
   Field("te", "a"), Field("range", "+$^<"), Field("x-own", "\\DEL"),
   Field("connection", "a"), Field("TE", "trailers")}

\* "a#", of which the second character has a code of 12 bits.
Numbered == [v \in {"a#"} |-> <<"a", "#">>]

SentNumbered == {Field("referer", "a#"), Field("cookie", "a#"), Field(":path", "a#")}
=============================================================================
