---------------------------- MODULE Http1Proofs -----------------------------
(***************************************************************************)
(* Theorems about Http1, for any requests and any cut of the byte stream,  *)
(* as long as the preface of HTTP/2 is not cut.                            *)
(***************************************************************************)
EXTENDS Http1, SequenceTheorems, TLAPS

Tokens == [req : Nat, part : Nat]

\* What the client has sent and the reading thread has not used.
Coming == buf \o wire

\* Bytes still come, or the reading thread is at work with those that came.
Live == open /\ mode = "http1"
Reading == Live \/ rpc # "idle"

\* The part with which what was sent along with t ends: of a request that waits
\* for "100 Continue" that is its header.
BodyLen(k) == IF k.len > 0 THEN k.len ELSE 0
Until(t, a) == IF t.part <= 2 /\ a[t.req].expect # "no" THEN 2 ELSE 2 + BodyLen(a[t.req])

\* s is the end of what a client sends that asks for a: after each token the rest
\* of its request, after that the next one.
Whole(s, a) ==
  \A i \in 1 .. Len(s) :
    LET r == s[i].req
        k == Until(s[i], a) - s[i].part
    IN  /\ r \in 1 .. Len(a) /\ s[i].part \in Nat \ {0} /\ k \in Nat
        /\ i + k <= Len(s)
        /\ \A d \in 0 .. k : s[i + d] = Token(r, s[i].part + d)
        /\ i + k < Len(s) => s[i + k + 1] = Token(r + 1, 1)
        /\ i + k = Len(s) => r = Len(a)
        /\ s[i].part <= 2 /\ a[r].expect # "no" => i + k = Len(s)

\* f headers have been taken out of the buffer.
Taken(f) ==
  /\ f \in 0 .. Len(asked)
  /\ \A r \in Request : r > f => pc[r] = "none" /\ status[r] = 0
  /\ cont \subseteq {f} \ {0}

\* The steps of OnDataReceived.
Phase(f) ==
  /\ rpc \in {"mark", "content", "dispatch"} => cur = f /\ f > 0
  /\ rpc \in {"upload", "preface", "header"} => buf # <<>>
  /\ rpc \in {"preface", "header", "mark", "content"} => soll = 0
  /\ rpc = "upload" => soll # 0
  /\ soll = 0 => recv = 0
  /\ soll # 0 => recv < soll /\ f > 0 /\ soll = asked[f].len

\* The body of request f is not there yet, or not all of it.
Missing(f) == soll # 0 \/ (rpc \in {"mark", "content"} /\ asked[f].len > 0)

\* What is expected next is what comes next.
Due(f) == IF Missing(f) THEN Token(f, recv + 3) ELSE Token(f + 1, 1)

Arrives(f) ==
  /\ Whole(Coming, asked)
  /\ Coming # <<>> => Coming[1] = Due(f)
  /\ Coming = <<>> => f = Len(asked) /\ (Missing(f) => f \in cont)

\* A client that was told to continue has sent nothing else since.
Continues(f) ==
  f \in cont => Coming = <<>> /\ (asked[f].len > 0 => Missing(f) /\ recv = 0)

Prefaced == Len(asked) > 0 /\ asked[1].form = "preface"

\* The preface comes as a whole.
PrefaceComing ==
  /\ soll = 0 /\ recv = 0 /\ rpc \in {"idle", "preface"} /\ cont = {}
  /\ rpc = "idle" => buf = <<>>
  /\ rpc = "preface" => Len(buf) >= 3
  /\ Len(Coming) >= 3 /\ Coming[1] = Token(1, 1) /\ Coming[3] = Tail24(1)

Shapes ==
  /\ asked \in Seq(Kinds) /\ Len(asked) <= MaxRequests
  /\ buf \in Seq(Tokens) /\ wire \in Seq(Tokens) /\ soll \in Nat /\ recv \in Nat
  /\ rpc \in {"idle", "preface", "upload", "header", "mark", "content", "dispatch"}
  /\ pc \in [Request -> PCs] /\ status \in [Request -> Nat]

Stands(f) == Taken(f) /\ Phase(f) /\ Arrives(f) /\ Continues(f)

FramingInv ==
  Reading => /\ Shapes
             /\ IF Prefaced THEN PrefaceComing ELSE \E f \in Nat : Stands(f)

-----------------------------------------------------------------------------
(* The stream *)

LEMMA TokenShape ==
  ASSUME NEW r \in Nat, NEW p \in Nat
  PROVE  Token(r, p) \in Tokens /\ Token(r, p).req = r /\ Token(r, p).part = p
BY DEF Token, Tokens

LEMMA Cut ==
  ASSUME NEW T, NEW s \in Seq(T), NEW n \in 0 .. Len(s)
  PROVE  LET t == SubSeq(s, n + 1, Len(s))
         IN  t \in Seq(T) /\ Len(t) = Len(s) - n /\ \A i \in 1 .. Len(s) - n : t[i] = s[n + i]
<1> DEFINE t == SubSeq(s, n + 1, Len(s))
<1>1. \A i \in n + 1 .. Len(s) : s[i] \in T
  OBVIOUS
<1>2. /\ t \in Seq(T)
      /\ Len(t) = IF n + 1 <= Len(s) THEN Len(s) - (n + 1) + 1 ELSE 0
      /\ \A i \in 1 .. Len(s) - (n + 1) + 1 : t[i] = s[(n + 1) + i - 1]
  BY <1>1, SubSeqProperties
<1> HIDE DEF t
<1>3. Len(t) = Len(s) - n
  BY <1>2
<1>4. ASSUME NEW i \in 1 .. Len(s) - n PROVE t[i] = s[n + i]
  <2>1. i \in 1 .. Len(s) - (n + 1) + 1 /\ (n + 1) + i - 1 = n + i
    OBVIOUS
  <2> QED
    BY <1>2, <2>1
<1> QED
  BY <1>2, <1>3, <1>4 DEF t

LEMMA Begun ==
  ASSUME NEW T, NEW s \in Seq(T), NEW n \in 0 .. Len(s)
  PROVE  LET t == SubSeq(s, 1, n)
         IN  t \in Seq(T) /\ Len(t) = n /\ \A i \in 1 .. n : t[i] = s[i]
<1>1. \A i \in 1 .. n : s[i] \in T
  OBVIOUS
<1> QED
  BY <1>1, SubSeqProperties

\* What is taken out of the buffer is taken from the stream.
LEMMA CutComing ==
  ASSUME NEW T, NEW b \in Seq(T), NEW w \in Seq(T), NEW n \in 0 .. Len(b)
  PROVE  SubSeq(b, n + 1, Len(b)) \o w = SubSeq(b \o w, n + 1, Len(b \o w))
<1> DEFINE s == SubSeq(b, n + 1, Len(b))
           t == SubSeq(b \o w, n + 1, Len(b \o w))
<1>1. /\ b \o w \in Seq(T) /\ Len(b \o w) = Len(b) + Len(w)
      /\ \A i \in 1 .. Len(b) + Len(w) :
           (b \o w)[i] = IF i <= Len(b) THEN b[i] ELSE w[i - Len(b)]
  BY ConcatProperties
<1>2. s \in Seq(T) /\ Len(s) = Len(b) - n /\ \A i \in 1 .. Len(b) - n : s[i] = b[n + i]
  BY Cut
<1>3. /\ t \in Seq(T) /\ Len(t) = Len(b) + Len(w) - n
      /\ \A i \in 1 .. Len(b) + Len(w) - n : t[i] = (b \o w)[n + i]
  <2>1. n \in 0 .. Len(b \o w)
    BY <1>1
  <2> QED
    BY <1>1, <2>1, Cut
<1> HIDE DEF s, t
<1>4. /\ s \o w \in Seq(T) /\ Len(s \o w) = Len(b) - n + Len(w)
      /\ \A i \in 1 .. Len(b) - n + Len(w) :
           (s \o w)[i] = IF i <= Len(b) - n THEN s[i] ELSE w[i - (Len(b) - n)]
  <2>1. /\ s \o w \in Seq(T) /\ Len(s \o w) = Len(s) + Len(w)
        /\ \A i \in 1 .. Len(s) + Len(w) :
             (s \o w)[i] = IF i <= Len(s) THEN s[i] ELSE w[i - Len(s)]
    BY <1>2, ConcatProperties
  <2> QED
    BY <1>2, <2>1
<1>5. ASSUME NEW i \in 1 .. Len(b) + Len(w) - n PROVE (s \o w)[i] = t[i]
  <2>1. n + i \in 1 .. Len(b) + Len(w) /\ i \in 1 .. Len(b) - n + Len(w)
    OBVIOUS
  <2>2. t[i] = IF n + i <= Len(b) THEN b[n + i] ELSE w[n + i - Len(b)]
    BY <1>1, <1>3, <2>1
  <2>3. CASE n + i <= Len(b)
    <3>1. i \in 1 .. Len(b) - n
      BY <2>3
    <3> QED
      BY <1>2, <1>4, <2>1, <2>2, <2>3, <3>1
  <2>4. CASE ~(n + i <= Len(b))
    <3>1. ~(i <= Len(b) - n) /\ i - (Len(b) - n) = n + i - Len(b)
      BY <2>4
    <3> QED
      BY <1>4, <2>1, <2>2, <2>4, <3>1
  <2> QED
    BY <2>3, <2>4
<1>6. Len(s \o w) = Len(t)
  BY <1>3, <1>4
<1>7. s \o w = t
  BY <1>3, <1>4, <1>5, <1>6, SeqEqual
<1> QED
  BY <1>7 DEF s, t

LEMMA MoveComing ==
  ASSUME NEW T, NEW b \in Seq(T), NEW w \in Seq(T), NEW n \in 0 .. Len(w)
  PROVE  (b \o SubSeq(w, 1, n)) \o SubSeq(w, n + 1, Len(w)) = b \o w
<1> DEFINE u == SubSeq(w, 1, n)
           v == SubSeq(w, n + 1, Len(w))
<1>1. u \in Seq(T) /\ v \in Seq(T)
  BY Begun, Cut
<1>2. u \o v = SubSeq(w, 1, Len(w))
  <2>1. 1 \in 1 .. Len(w) + 1 /\ n \in 1 - 1 .. Len(w) /\ Len(w) \in n .. Len(w)
    OBVIOUS
  <2> QED
    BY <2>1, ConcatAdjacentSubSeq
<1>3. SubSeq(w, 1, Len(w)) = w
  BY SubSeqFull
<1> HIDE DEF u, v
<1>4. (b \o u) \o v = b \o (u \o v)
  BY <1>1, ConcatAssociative
<1>5. (b \o u) \o v = b \o w
  BY <1>2, <1>3, <1>4
<1> QED
  BY <1>5 DEF u, v

LEMMA WholeCut ==
  ASSUME NEW a, NEW s \in Seq(Tokens), NEW n \in 0 .. Len(s), Whole(s, a)
  PROVE  Whole(SubSeq(s, n + 1, Len(s)), a)
<1> DEFINE t == SubSeq(s, n + 1, Len(s))
<1>1. t \in Seq(Tokens) /\ Len(t) = Len(s) - n /\ \A i \in 1 .. Len(s) - n : t[i] = s[n + i]
  BY Cut
<1> HIDE DEF t
<1> SUFFICES ASSUME NEW i \in 1 .. Len(t)
             PROVE  LET r == t[i].req
                        k == Until(t[i], a) - t[i].part
                    IN  /\ r \in 1 .. Len(a) /\ t[i].part \in Nat \ {0} /\ k \in Nat
                        /\ i + k <= Len(t)
                        /\ \A d \in 0 .. k : t[i + d] = Token(r, t[i].part + d)
                        /\ i + k < Len(t) => t[i + k + 1] = Token(r + 1, 1)
                        /\ i + k = Len(t) => r = Len(a)
                        /\ t[i].part <= 2 /\ a[r].expect # "no" => i + k = Len(t)
  BY DEF Whole, t
<1> DEFINE r == t[i].req
           k == Until(t[i], a) - t[i].part
<1>2. n + i \in 1 .. Len(s) /\ t[i] = s[n + i]
  BY <1>1
<1>3. /\ r \in 1 .. Len(a) /\ t[i].part \in Nat \ {0} /\ k \in Nat
      /\ n + i + k <= Len(s)
      /\ \A d \in 0 .. k : s[n + i + d] = Token(r, t[i].part + d)
      /\ n + i + k < Len(s) => s[n + i + k + 1] = Token(r + 1, 1)
      /\ n + i + k = Len(s) => r = Len(a)
      /\ t[i].part <= 2 /\ a[r].expect # "no" => n + i + k = Len(s)
  BY <1>2, Zenon DEF Whole
<1> HIDE DEF k, r
<1>4. i + k <= Len(t) /\ (i + k < Len(t) => n + i + k < Len(s))
      /\ (i + k = Len(t) <=> n + i + k = Len(s))
  BY <1>1, <1>3
<1>5. ASSUME NEW d \in 0 .. k PROVE t[i + d] = Token(r, t[i].part + d)
  <2>1. i + d \in 1 .. Len(s) - n /\ n + (i + d) = n + i + d
    BY <1>1, <1>3
  <2> QED
    BY <1>1, <1>3, <2>1
<1>6. i + k < Len(t) => t[i + k + 1] = Token(r + 1, 1)
  <2> SUFFICES ASSUME i + k < Len(t) PROVE t[i + k + 1] = Token(r + 1, 1)
    OBVIOUS
  <2>1. i + k + 1 \in 1 .. Len(s) - n /\ n + (i + k + 1) = n + i + k + 1
    BY <1>1, <1>3
  <2> QED
    BY <1>1, <1>3, <1>4, <2>1
<1> QED
  BY <1>3, <1>4, <1>5, <1>6 DEF r, k

\* A request without the preface, as far as it is sent at once.
SentLen(k) == IF k.expect # "no" THEN 2 ELSE 2 + BodyLen(k)
Sent(r, k) == [j \in 1 .. SentLen(k) |-> Token(r, j)]

LEMMA KindShape ==
  ASSUME NEW k \in Kinds
  PROVE  k.len \in Nat \cup {-1} /\ BodyLen(k) \in Nat /\ SentLen(k) \in Nat /\ SentLen(k) >= 2
<1>1. k.len \in Nat \cup {-1}
  BY Http1Assumption DEF KindSet
<1> QED
  BY <1>1 DEF BodyLen, SentLen

LEMMA SentShape ==
  ASSUME NEW k \in Kinds, NEW r \in Nat
  PROVE  /\ Sent(r, k) \in Seq(Tokens) /\ Len(Sent(r, k)) = SentLen(k)
         /\ \A j \in 1 .. SentLen(k) : Sent(r, k)[j] = Token(r, j)
<1>1. \A j \in 1 .. SentLen(k) : Token(r, j) \in Tokens
  BY TokenShape
<1>2. Sent(r, k) \in [1 .. SentLen(k) -> Tokens]
  BY <1>1 DEF Sent
<1>3. \A j \in 1 .. SentLen(k) : Sent(r, k)[j] = Token(r, j)
  BY DEF Sent
<1> HIDE DEF Sent
<1> QED
  BY <1>2, <1>3, KindShape, SeqDef

LEMMA HeaderShape ==
  ASSUME NEW r \in Nat
  PROVE  /\ HeaderOf(r) \in Seq(Tokens) /\ Len(HeaderOf(r)) = 2
         /\ HeaderOf(r)[1] = Token(r, 1) /\ HeaderOf(r)[2] = Token(r, 2)
<1>1. Token(r, 1) \in Tokens /\ Token(r, 2) \in Tokens
  BY TokenShape
<1> QED
  BY <1>1 DEF HeaderOf

\* The tokens of a body.
LEMMA BodyShape ==
  ASSUME NEW k \in Kinds, NEW r \in Nat
  PROVE  LET b == [i \in 1 .. k.len |-> Token(r, 2 + i)]
         IN  /\ b \in Seq(Tokens) /\ Len(b) = BodyLen(k)
             /\ \A i \in 1 .. BodyLen(k) : b[i] = Token(r, 2 + i)
<1> DEFINE b == [i \in 1 .. k.len |-> Token(r, 2 + i)]
<1>1. 1 .. k.len = 1 .. BodyLen(k)
  BY KindShape DEF BodyLen
<1>2. \A i \in 1 .. BodyLen(k) : Token(r, 2 + i) \in Tokens
  BY KindShape, TokenShape
<1>3. b \in [1 .. BodyLen(k) -> Tokens] /\ \A i \in 1 .. BodyLen(k) : b[i] = Token(r, 2 + i)
  BY <1>1, <1>2
<1> HIDE DEF b
<1>4. b \in Seq(Tokens) /\ Len(b) = BodyLen(k)
  BY <1>3, KindShape, SeqDef
<1> QED
  BY <1>3, <1>4 DEF b

LEMMA SentIs ==
  ASSUME NEW k \in Kinds, NEW r \in Nat
  PROVE  IF k.expect # "no" THEN HeaderOf(r) = Sent(r, k)
         ELSE HeaderOf(r) \o [i \in 1 .. k.len |-> Token(r, 2 + i)] = Sent(r, k)
<1>1. CASE k.expect # "no"
  <2>1. Len(Sent(r, k)) = 2 /\ Sent(r, k) \in Seq(Tokens)
        /\ Sent(r, k)[1] = Token(r, 1) /\ Sent(r, k)[2] = Token(r, 2)
    BY <1>1, SentShape DEF SentLen
  <2>2. HeaderOf(r) = Sent(r, k)
    <3> DEFINE h == HeaderOf(r)
               t == Sent(r, k)
    <3>1. h \in Seq(Tokens) /\ Len(h) = 2 /\ h[1] = Token(r, 1) /\ h[2] = Token(r, 2)
      BY HeaderShape
    <3> HIDE DEF h, t
    <3>2. \A i \in 1 .. Len(h) : i = 1 \/ i = 2
      BY <3>1
    <3>3. \A i \in 1 .. Len(h) : h[i] = t[i]
      BY <2>1, <3>1, <3>2 DEF t
    <3>4. h = t
      BY <2>1, <3>1, <3>3, SeqEqual DEF t
    <3> QED
      BY <3>4 DEF h, t
  <2> QED
    BY <1>1, <2>2
<1>2. CASE k.expect = "no"
  <2> DEFINE b == [i \in 1 .. k.len |-> Token(r, 2 + i)]
             h == HeaderOf(r)
  <2>1. /\ b \in Seq(Tokens) /\ Len(b) = BodyLen(k)
        /\ \A i \in 1 .. BodyLen(k) : b[i] = Token(r, 2 + i)
    BY BodyShape
  <2>2. h \in Seq(Tokens) /\ Len(h) = 2 /\ h[1] = Token(r, 1) /\ h[2] = Token(r, 2)
    BY HeaderShape
  <2> HIDE DEF b, h
  <2>3. /\ h \o b \in Seq(Tokens) /\ Len(h \o b) = Len(h) + Len(b)
        /\ \A i \in 1 .. Len(h) + Len(b) :
             (h \o b)[i] = IF i <= Len(h) THEN h[i] ELSE b[i - Len(h)]
    BY <2>1, <2>2, ConcatProperties
  <2>4. SentLen(k) = 2 + BodyLen(k) /\ BodyLen(k) \in Nat
    BY <1>2, KindShape DEF SentLen
  <2>5. ASSUME NEW i \in 1 .. 2 + BodyLen(k) PROVE (h \o b)[i] = Token(r, i)
    <3>1. CASE i = 1 \/ i = 2
      <4>1. i \in 1 .. Len(h) + Len(b) /\ i <= Len(h)
        BY <2>1, <2>2, <2>4, <3>1
      <4>2. (h \o b)[i] = h[i]
        BY <2>3, <4>1
      <4> QED
        BY <2>2, <3>1, <4>2
    <3>2. CASE i > 2
      <4>1. i - 2 \in 1 .. BodyLen(k) /\ 2 + (i - 2) = i
        BY <2>4, <3>2
      <4>2. (h \o b)[i] = b[i - 2]
        BY <2>1, <2>2, <2>3, <2>4, <3>2
      <4> QED
        BY <2>1, <4>1, <4>2
    <3>3. i = 1 \/ i = 2 \/ i > 2
      BY <2>4
    <3> QED
      BY <3>1, <3>2, <3>3, Zenon
  <2>6. h \o b = Sent(r, k)
    <3>1. Len(h \o b) = 2 + BodyLen(k)
      BY <2>1, <2>2, <2>3
    <3>2. /\ Sent(r, k) \in Seq(Tokens) /\ Len(Sent(r, k)) = 2 + BodyLen(k)
          /\ \A j \in 1 .. 2 + BodyLen(k) : Sent(r, k)[j] = Token(r, j)
      BY <2>4, SentShape
    <3> QED
      BY <2>3, <2>5, <3>1, <3>2, SeqEqual
  <2> QED
    BY <1>2, <2>6 DEF b, h
<1> QED
  BY <1>1, <1>2

LEMMA WholeAsk ==
  ASSUME NEW a \in Seq(Kinds), NEW q \in Kinds, NEW s \in Seq(Tokens), Whole(s, a),
         \A i \in 1 .. Len(s) : s[i].part <= 2 => a[s[i].req].expect = "no"
  PROVE  Whole(s \o Sent(Len(a) + 1, q), Append(a, q))
<1> DEFINE b == Append(a, q)
           new == Sent(Len(a) + 1, q)
           t == s \o new
           n == Len(s)
           m == SentLen(q)
<1>1. /\ Len(b) = Len(a) + 1 /\ b[Len(a) + 1] = q /\ \A r \in 1 .. Len(a) : b[r] = a[r]
      /\ n \in Nat /\ Len(a) \in Nat
  OBVIOUS
<1>2. /\ new \in Seq(Tokens) /\ Len(new) = m
      /\ \A j \in 1 .. m : new[j] = Token(Len(a) + 1, j)
  <2> DEFINE u == Len(a) + 1
  <2>1. u \in Nat
    BY <1>1
  <2> HIDE DEF u
  <2>2. /\ Sent(u, q) \in Seq(Tokens) /\ Len(Sent(u, q)) = m
        /\ \A j \in 1 .. m : Sent(u, q)[j] = Token(u, j)
    BY <2>1, SentShape
  <2> QED
    BY <2>2, Zenon DEF u
<1>3. m \in Nat /\ m >= 2
  BY KindShape
<1> HIDE DEF b, new
<1>4. /\ t \in Seq(Tokens) /\ Len(t) = n + m
      /\ \A i \in 1 .. n + m : t[i] = IF i <= n THEN s[i] ELSE new[i - n]
  BY <1>2, ConcatProperties
<1> HIDE DEF t
<1>5. ASSUME NEW i \in 1 .. Len(t)
      PROVE  LET r == t[i].req
                 k == Until(t[i], b) - t[i].part
             IN  /\ r \in 1 .. Len(b) /\ t[i].part \in Nat \ {0} /\ k \in Nat
                 /\ i + k <= Len(t)
                 /\ \A d \in 0 .. k : t[i + d] = Token(r, t[i].part + d)
                 /\ i + k < Len(t) => t[i + k + 1] = Token(r + 1, 1)
                 /\ i + k = Len(t) => r = Len(b)
                 /\ t[i].part <= 2 /\ b[r].expect # "no" => i + k = Len(t)
  <2> DEFINE r == t[i].req
             p == t[i].part
             k == Until(t[i], b) - p
  <2>1. CASE i <= n
    <3>1. i \in 1 .. n /\ t[i] = s[i]
      BY <1>4, <2>1
    <3> DEFINE e == Until(t[i], a) - p
    <3>2. /\ r \in 1 .. Len(a) /\ p \in Nat \ {0} /\ e \in Nat
          /\ i + e <= n
          /\ \A d \in 0 .. e : s[i + d] = Token(r, p + d)
          /\ i + e < n => s[i + e + 1] = Token(r + 1, 1)
          /\ i + e = n => r = Len(a)
          /\ p <= 2 => a[r].expect = "no"
      BY <3>1, Zenon DEF Whole
    <3>3. b[r] = a[r]
      BY <1>1, <3>2
    <3>4. k = e
      BY <3>3, Zenon DEF Until
    <3> HIDE DEF r, p, k, e
    <3>5. ASSUME NEW d \in 0 .. k PROVE t[i + d] = Token(r, p + d)
      <4>1. i + d \in 1 .. n + m /\ i + d <= n
        BY <1>3, <1>4, <3>2, <3>4
      <4> QED
        BY <1>4, <3>2, <3>4, <4>1
    <3>6. t[i + k + 1] = Token(r + 1, 1)
      <4>1. i + k + 1 \in 1 .. n + m
        BY <1>1, <1>3, <3>2, <3>4
      <4>2. CASE i + k < n
        <5>1. i + k + 1 <= n
          BY <1>1, <3>2, <3>4, <4>2
        <5> QED
          BY <1>4, <3>2, <3>4, <4>1, <4>2, <5>1
      <4>3. CASE i + k = n
        <5>1. ~(i + k + 1 <= n) /\ (i + k + 1) - n = 1 /\ 1 \in 1 .. m
          BY <1>1, <1>3, <3>2, <3>4, <4>3
        <5>2. t[i + k + 1] = new[1]
          BY <1>4, <4>1, <5>1
        <5> QED
          BY <1>2, <3>2, <3>4, <4>3, <5>1, <5>2
      <4> QED
        BY <1>1, <3>2, <3>4, <4>2, <4>3
    <3>7. i + k < Len(t)
      BY <1>1, <1>3, <1>4, <3>2, <3>4
    <3>8. ~(p <= 2 /\ b[r].expect # "no")
      BY <3>2, <3>3
    <3>9. r \in 1 .. Len(b) /\ p \in Nat \ {0} /\ k \in Nat
      BY <1>1, <3>2, <3>4
    <3>10. i + k <= Len(t) /\ i + k # Len(t)
      BY <1>1, <1>3, <1>4, <3>7, <3>9
    <3> QED
      BY <3>5, <3>6, <3>8, <3>9, <3>10, Zenon DEF r, p, k
  <2>2. CASE ~(i <= n)
    <3>1. i - n \in 1 .. m /\ t[i] = new[i - n] /\ i \in Nat
      BY <1>1, <1>3, <1>4, <2>2
    <3>2. t[i] = Token(Len(a) + 1, i - n)
      BY <1>2, <3>1
    <3>3. r = Len(a) + 1 /\ p = i - n
      BY <1>1, <3>1, <3>2, TokenShape
    <3>4. Until(t[i], b) = m
      <4>1. b[r] = q
        BY <1>1, <3>3
      <4>2. q.expect # "no" => p <= 2
        BY <3>1, <3>3 DEF SentLen
      <4> QED
        BY <4>1, <4>2, Zenon DEF Until, SentLen
    <3>5. k = m - (i - n)
      BY <3>3, <3>4
    <3>6. k \in Nat /\ i + k = n + m
      BY <1>1, <1>3, <3>1, <3>5
    <3> HIDE DEF r, p, k
    <3>7. ASSUME NEW d \in 0 .. k PROVE t[i + d] = Token(r, p + d)
      <4>1. /\ i + d \in 1 .. n + m /\ ~(i + d <= n)
            /\ i + d - n \in 1 .. m /\ i + d - n = p + d
        BY <1>1, <1>3, <2>2, <3>1, <3>3, <3>6
      <4>2. t[i + d] = new[i + d - n]
        BY <1>4, <4>1
      <4> QED
        BY <1>2, <3>3, <4>1, <4>2
    <3>8. r \in 1 .. Len(b) /\ p \in Nat \ {0} /\ r = Len(b)
      BY <1>1, <3>1, <3>3
    <3>9. i + k = Len(t) /\ i + k <= Len(t) /\ ~(i + k < Len(t))
      BY <1>1, <1>3, <1>4, <3>6
    <3> QED
      BY <3>6, <3>7, <3>8, <3>9, Zenon DEF r, p, k
  <2> QED
    BY <2>1, <2>2
<1> QED
  BY <1>5 DEF Whole, t, b, new

\* The body of a client that waited.
LEMMA WholeBody ==
  ASSUME NEW a \in Seq(Kinds), Len(a) > 0
  PROVE  Whole([i \in 1 .. a[Len(a)].len |-> Token(Len(a), 2 + i)], a)
<1> DEFINE n == Len(a)
           q == a[n]
           s == [i \in 1 .. q.len |-> Token(n, 2 + i)]
<1>1. n \in Nat /\ n > 0 /\ q \in Kinds
  OBVIOUS
<1>2. /\ s \in Seq(Tokens) /\ Len(s) = BodyLen(q)
      /\ \A i \in 1 .. BodyLen(q) : s[i] = Token(n, 2 + i)
  BY <1>1, BodyShape
<1>3. BodyLen(q) \in Nat
  BY <1>1, KindShape
<1> HIDE DEF s
<1>4. ASSUME NEW i \in 1 .. Len(s)
      PROVE  LET r == s[i].req
                 k == Until(s[i], a) - s[i].part
             IN  /\ r \in 1 .. Len(a) /\ s[i].part \in Nat \ {0} /\ k \in Nat
                 /\ i + k <= Len(s)
                 /\ \A d \in 0 .. k : s[i + d] = Token(r, s[i].part + d)
                 /\ i + k < Len(s) => s[i + k + 1] = Token(r + 1, 1)
                 /\ i + k = Len(s) => r = Len(a)
                 /\ s[i].part <= 2 /\ a[r].expect # "no" => i + k = Len(s)
  <2> DEFINE r == s[i].req
             p == s[i].part
             k == Until(s[i], a) - p
  <2>1. i \in 1 .. BodyLen(q) /\ s[i] = Token(n, 2 + i)
    BY <1>2
  <2>2. r = n /\ p = 2 + i
    BY <1>1, <2>1, TokenShape
  <2>3. ~(p <= 2)
    BY <2>1, <2>2
  <2>4. Until(s[i], a) = 2 + BodyLen(q)
    BY <2>2, <2>3, Zenon DEF Until
  <2>7. k = (2 + BodyLen(q)) - p
    <3> HIDE DEF p, q
    <3> QED
      BY <2>4
  <2>5. k \in Nat /\ i + k = Len(s)
    <3> HIDE DEF p, k, q
    <3> QED
      BY <1>2, <1>3, <2>1, <2>2, <2>7
  <2> HIDE DEF r, p, k
  <2>6. ASSUME NEW d \in 0 .. k PROVE s[i + d] = Token(r, p + d)
    <3>1. i + d \in 1 .. BodyLen(q) /\ 2 + (i + d) = p + d
      BY <1>2, <1>3, <2>1, <2>2, <2>5
    <3> QED
      BY <1>2, <2>2, <3>1
  <2>8. /\ r \in 1 .. n /\ p \in Nat \ {0}
        /\ i + k <= Len(s) /\ ~(i + k < Len(s))
    BY <1>1, <1>2, <1>3, <2>1, <2>2, <2>5
  <2> QED
    BY <2>2, <2>3, <2>5, <2>6, <2>8, Zenon DEF r, p, k
<1> QED
  BY <1>4 DEF Whole, s

-----------------------------------------------------------------------------
(* The steps, while the connection is open and talks HTTP/1 *)

LEMMA InitFraming == Init => FramingInv
<1> SUFFICES ASSUME Init PROVE FramingInv
  OBVIOUS
<1>1. Shapes
  <2>1. asked = <<>> /\ buf = <<>> /\ wire = <<>> /\ soll = 0 /\ recv = 0 /\ rpc = "idle"
    BY DEF Init
  <2>2. pc \in [Request -> PCs] /\ status \in [Request -> Nat]
    BY DEF Init, PCs
  <2> QED
    BY <2>1, <2>2, EmptySeq, Http1Assumption DEF Shapes
<1>2. Coming = <<>>
  BY EmptySeq, ConcatEmptySeq DEF Init, Coming
<1>3. ~Prefaced
  BY DEF Init, Prefaced
<1>4. Stands(0)
  <2>1. Taken(0) /\ Phase(0)
    BY DEF Init, Taken, Phase
  <2>2. ~Missing(0)
    BY DEF Init, Missing
  <2>3. Arrives(0)
    BY <1>2, <2>2 DEF Init, Arrives, Whole
  <2>4. Continues(0)
    BY DEF Init, Continues
  <2> QED
    BY <2>1, <2>3, <2>4 DEF Stands
<1> QED
  BY <1>1, <1>3, <1>4 DEF FramingInv

LEMMA ComingShape ==
  ASSUME Shapes
  PROVE  /\ Coming \in Seq(Tokens) /\ Len(Coming) = Len(buf) + Len(wire)
         /\ \A i \in 1 .. Len(buf) : Coming[i] = buf[i]
         /\ Len(buf) \in Nat /\ Len(wire) \in Nat
         /\ buf # <<>> => Len(buf) > 0
         /\ wire # <<>> => Len(wire) > 0
         /\ Coming # <<>> <=> Len(Coming) > 0
<1>1. buf \in Seq(Tokens) /\ wire \in Seq(Tokens)
  BY DEF Shapes
<1>2. /\ buf \o wire \in Seq(Tokens) /\ Len(buf \o wire) = Len(buf) + Len(wire)
      /\ \A i \in 1 .. Len(buf) + Len(wire) :
           (buf \o wire)[i] = IF i <= Len(buf) THEN buf[i] ELSE wire[i - Len(buf)]
  BY <1>1, ConcatProperties
<1>3. Len(buf) \in Nat /\ Len(wire) \in Nat /\ (buf # <<>> => Len(buf) > 0)
      /\ (wire # <<>> => Len(wire) > 0)
  BY <1>1, EmptySeq
<1>4. \A i \in 1 .. Len(buf) : Coming[i] = buf[i]
  BY <1>2, <1>3 DEF Coming
<1>5. Coming # <<>> <=> Len(Coming) > 0
  BY <1>2, EmptySeq DEF Coming
<1> QED
  BY <1>2, <1>3, <1>4, <1>5 DEF Coming

\* Steps that leave the stream and the reading thread as they are.
LEMMA OthersKeep ==
  ASSUME Shapes, ~Prefaced, NEW f \in Nat, Stands(f),
         UNCHANGED <<asked, buf, wire, soll, recv, rpc, cur, cont>>,
         pc' \in [Request -> PCs], status' \in [Request -> Nat],
         \A r \in Request : r > f => pc'[r] = pc[r] /\ status'[r] = status[r]
  PROVE  FramingInv'
<1>1. Shapes' /\ ~Prefaced' /\ Coming' = Coming
  BY DEF Shapes, Prefaced, Coming
<1>2. Taken(f)' /\ Phase(f)'
  BY DEF Stands, Taken, Phase
<1>3. Missing(f)' = Missing(f) /\ Due(f)' = Due(f)
  BY DEF Missing, Due
<1>4. Arrives(f)' /\ Continues(f)'
  BY <1>1, <1>3 DEF Stands, Arrives, Continues
<1> QED
  BY <1>1, <1>2, <1>4 DEF FramingInv, Stands

LEMMA ThreadsKeep ==
  ASSUME Shapes, ~Prefaced, NEW f \in Nat, Stands(f), NEW r \in Request, ThreadStep(r)
  PROVE  FramingInv'
<1>1. UNCHANGED <<asked, buf, wire, soll, recv, rpc, cur, cont>>
  BY DEF ThreadStep, WaitFirst, TakeFirst, WriteToSpawn, WriteFails, TakeNext, Respond,
         client, reader
<1>2. pc[r] # "none"
  BY DEF ThreadStep, WaitFirst, TakeFirst, WriteToSpawn, WriteFails, TakeNext, Respond
<1>3. \E x \in PCs : pc' = [pc EXCEPT ![r] = x]
  BY DEF ThreadStep, WaitFirst, TakeFirst, WriteToSpawn, WriteFails, TakeNext, Respond, PCs
<1>4. status' = status \/ status' = [status EXCEPT ![r] = 200]
  BY DEF ThreadStep, WaitFirst, TakeFirst, WriteToSpawn, WriteFails, TakeNext, Respond
<1>5. ~(r > f)
  BY <1>2 DEF Stands, Taken
<1>6. pc' \in [Request -> PCs] /\ \A q \in Request : q > f => pc'[q] = pc[q]
  BY <1>3, <1>5 DEF Shapes
<1>7. status' \in [Request -> Nat] /\ \A q \in Request : q > f => status'[q] = status[q]
  <2>1. CASE status' = status
    BY <2>1 DEF Shapes
  <2>2. CASE status' = [status EXCEPT ![r] = 200]
    BY <1>5, <2>2 DEF Shapes
  <2> QED
    BY <1>4, <2>1, <2>2
<1> QED
  BY <1>1, <1>6, <1>7, OthersKeep

\* Steps of the reading thread that take nothing.
LEMMA ReadingKeeps ==
  ASSUME Shapes, ~Prefaced, NEW f \in Nat, Stands(f), Reading',
         \/ \E n \in DOMAIN wire : Receive(n)
         \/ SwitchToHttp2 \/ NeedMore \/ MarkEnd \/ NoContent \/ Dispatch
  PROVE  FramingInv'
<1> USE DEF Stands
<1>1. CASE \E n \in DOMAIN wire : Receive(n)
  <2>1. PICK n \in DOMAIN wire : Receive(n)
    BY <1>1
  <2>2. /\ rpc = "idle" /\ rpc' = (IF soll # 0 THEN "upload" ELSE "preface")
        /\ buf' = buf \o SubSeq(wire, 1, n) /\ wire' = SubSeq(wire, n + 1, Len(wire))
        /\ UNCHANGED <<asked, soll, recv, cur, cont, pc, status>>
    BY <2>1 DEF Receive, threads
  <2>3. n \in 1 .. Len(wire) /\ wire \in Seq(Tokens) /\ buf \in Seq(Tokens)
    BY DEF Shapes
  <2>4. /\ SubSeq(wire, 1, n) \in Seq(Tokens) /\ Len(SubSeq(wire, 1, n)) = n
        /\ SubSeq(wire, n + 1, Len(wire)) \in Seq(Tokens)
    BY <2>3, Begun, Cut
  <2>5. buf' \in Seq(Tokens) /\ wire' \in Seq(Tokens) /\ buf' # <<>>
    <3> DEFINE u == SubSeq(wire, 1, n)
    <3> HIDE DEF u
    <3>1. buf \o u \in Seq(Tokens) /\ Len(buf \o u) = Len(buf) + Len(u)
      BY <2>3, <2>4, ConcatProperties DEF u
    <3>2. Len(buf \o u) > 0
      BY <2>3, <2>4, <3>1 DEF u
    <3> QED
      BY <2>2, <2>4, <3>1, <3>2, EmptySeq DEF u
  <2>6. Coming' = Coming
    <3>1. n \in 0 .. Len(wire)
      BY <2>3
    <3>2. (buf \o SubSeq(wire, 1, n)) \o SubSeq(wire, n + 1, Len(wire)) = buf \o wire
      BY <2>3, <3>1, MoveComing
    <3> QED
      BY <2>2, <3>2, Zenon DEF Coming
  <2>7. Shapes' /\ ~Prefaced'
    BY <2>2, <2>5 DEF Shapes, Prefaced
  <2>8. Taken(f)' /\ Phase(f)'
    BY <2>2, <2>5 DEF Taken, Phase
  <2>9. Missing(f)' = Missing(f) /\ Due(f)' = Due(f)
    BY <2>2 DEF Missing, Due
  <2>10. Arrives(f)' /\ Continues(f)'
    BY <2>2, <2>6, <2>9 DEF Arrives, Continues
  <2> QED
    BY <2>7, <2>8, <2>10 DEF FramingInv
<1>2. CASE SwitchToHttp2 \/ NeedMore \/ MarkEnd \/ NoContent
  <2>1. /\ UNCHANGED <<asked, wire, soll, recv, cur, cont, pc, status>> /\ buf' = buf
        /\ \/ rpc = "preface" /\ rpc' = "header"
           \/ rpc = "header" /\ rpc' = "idle"
           \/ rpc = "mark" /\ rpc' = "content"
           \/ rpc = "content" /\ rpc' = "dispatch" /\ asked[cur].len = 0
    BY <1>2 DEF Reading, Live, SwitchToHttp2, NeedMore, MarkEnd, NoContent, client, threads
  <2>2. Shapes' /\ ~Prefaced' /\ Coming' = Coming
    BY <2>1 DEF Shapes, Prefaced, Coming
  <2>3. Taken(f)' /\ Phase(f)'
    BY <2>1 DEF Taken, Phase
  <2>4. Missing(f)' = Missing(f)
    BY <2>1 DEF Missing, Phase
  <2>5. Due(f)' = Due(f)
    BY <2>1, <2>4 DEF Due
  <2>6. Arrives(f)' /\ Continues(f)'
    BY <2>1, <2>2, <2>4, <2>5 DEF Arrives, Continues
  <2> QED
    BY <2>2, <2>3, <2>6 DEF FramingInv
<1>3. CASE Dispatch
  <2>1. /\ rpc = "dispatch" /\ rpc' = "idle"
        /\ UNCHANGED <<asked, wire, buf, soll, recv, cont, status>>
        /\ \E x \in PCs : pc' = [pc EXCEPT ![cur] = x]
    BY <1>3 DEF Dispatch, client, PCs
  <2>2. cur = f
    BY <2>1 DEF Phase
  <2>3. Shapes' /\ ~Prefaced' /\ Coming' = Coming
    BY <2>1 DEF Shapes, Prefaced, Coming
  <2>4. Taken(f)'
    BY <2>1, <2>2 DEF Taken, Shapes
  <2>5. Phase(f)'
    BY <2>1 DEF Phase
  <2>6. Missing(f)' = Missing(f) /\ Due(f)' = Due(f)
    BY <2>1 DEF Missing, Due
  <2>7. Arrives(f)' /\ Continues(f)'
    BY <2>1, <2>3, <2>6 DEF Arrives, Continues
  <2> QED
    BY <2>3, <2>4, <2>5, <2>7 DEF FramingInv
<1> QED
  BY <1>1, <1>2, <1>3

\* The next tokens, as far as they belong to the request that the first belongs to.
LEMMA FirstRun ==
  ASSUME Shapes, Whole(Coming, asked), Coming # <<>>
  PROVE  LET t == Coming[1]
             k == Until(t, asked) - t.part
         IN  /\ t.req \in 1 .. Len(asked) /\ k \in Nat /\ 1 + k <= Len(Coming)
             /\ \A d \in 0 .. k : Coming[1 + d] = Token(t.req, t.part + d)
             /\ 1 + k < Len(Coming) => Coming[1 + k + 1] = Token(t.req + 1, 1)
             /\ 1 + k = Len(Coming) => t.req = Len(asked)
             /\ t.part <= 2 /\ asked[t.req].expect # "no" => 1 + k = Len(Coming)
<1>1. 1 \in 1 .. Len(Coming)
  BY ComingShape
<1> QED
  BY <1>1, Zenon DEF Whole

\* n tokens of the body are taken: what comes next is the rest of it, or the next
\* header.
LEMMA BodyTaken ==
  ASSUME Shapes, NEW f \in 1 .. Len(asked), NEW had \in Nat, had < asked[f].len,
         Whole(Coming, asked), Coming # <<>> => Coming[1] = Token(f, had + 3),
         Coming = <<>> => f = Len(asked) /\ f \in cont,
         NEW n \in Nat, n <= Len(buf), n <= asked[f].len - had,
         n = Len(buf) \/ n = asked[f].len - had,
         UNCHANGED <<asked, wire>>, buf' = SubSeq(buf, n + 1, Len(buf))
  PROVE  LET rest == had + n < asked[f].len
         IN  /\ buf' \in Seq(Tokens) /\ (n < Len(buf) => buf' # <<>>)
             /\ Whole(Coming', asked)
             /\ Coming' # <<>> =>
                  Coming'[1] = IF rest THEN Token(f, had + n + 3) ELSE Token(f + 1, 1)
             /\ Coming' = <<>> => f = Len(asked) /\ (rest => f \in cont)
             /\ Coming = <<>> => Coming' = <<>> /\ n = 0
<1> DEFINE L == asked[f].len
           C == Len(Coming)
<1>0. had < L /\ n <= L - had /\ (n = Len(buf) \/ n = L - had)
  OBVIOUS
<1>1. /\ Coming \in Seq(Tokens) /\ C = Len(buf) + Len(wire)
      /\ Len(buf) \in Nat /\ Len(wire) \in Nat /\ (Coming # <<>> <=> C > 0)
      /\ buf \in Seq(Tokens) /\ wire \in Seq(Tokens) /\ asked \in Seq(Kinds)
  BY ComingShape DEF Shapes
<1>2. asked[f] \in Kinds /\ L \in Nat /\ BodyLen(asked[f]) = L
  BY <1>1, KindShape DEF BodyLen
<1> HIDE DEF C, L
<1>3. n \in 0 .. Len(buf) /\ n \in 0 .. C /\ C \in Nat
  BY <1>1
<1>4. Coming' = SubSeq(Coming, n + 1, C)
  BY <1>1, <1>3, CutComing DEF Coming, C
<1>5. /\ buf' \in Seq(Tokens) /\ Len(buf') = Len(buf) - n
  BY <1>1, <1>3, Cut
<1>6. n < Len(buf) => buf' # <<>>
  <2>1. n < Len(buf) => Len(buf') # 0
    BY <1>1, <1>5
  <2> QED
    BY <2>1, EmptySeq
<1>7. Whole(Coming', asked)
  BY <1>1, <1>3, <1>4, WholeCut DEF C
<1>8. /\ Coming' \in Seq(Tokens) /\ Len(Coming') = C - n
      /\ \A i \in 1 .. C - n : Coming'[i] = Coming[n + i]
  BY <1>1, <1>3, <1>4, Cut DEF C
<1>9. Coming' # <<>> <=> C - n > 0
  BY <1>8, EmptySeq
<1>10. CASE Coming = <<>>
  <2>1. C = 0 /\ n = 0 /\ Coming' = <<>>
    BY <1>1, <1>3, <1>9, <1>10
  <2> QED
    BY <1>5, <1>6, <1>7, <1>10, <2>1
<1>11. CASE Coming # <<>>
  <2> DEFINE t == Coming[1]
             k == L - had - 1
  <2>1. t.req = f /\ t.part = had + 3
    <3>1. f \in Nat /\ had + 3 \in Nat
      BY <1>1
    <3> QED
      BY <1>11, <3>1, TokenShape
  <2>2. Until(t, asked) - t.part = k
    <3>1. Until(t, asked) = 2 + L
      <4>1. ~(t.part <= 2)
        BY <2>1
      <4> QED
        BY <1>2, <2>1, <4>1, Zenon DEF Until
    <3> QED
      BY <1>2, <2>1, <3>1
  <2>3. /\ k \in Nat /\ 1 + k <= C
        /\ \A d \in 0 .. k : Coming[1 + d] = Token(f, had + 3 + d)
        /\ 1 + k < C => Coming[1 + k + 1] = Token(f + 1, 1)
        /\ 1 + k = C => f = Len(asked)
    <3> HIDE DEF t, k
    <3> QED
      BY <1>11, <2>1, <2>2, FirstRun DEF t, C
  <2>4. CASE had + n < L
    <3>1. n \in 0 .. k /\ C - n > 0 /\ had + 3 + n = had + n + 3
      BY <1>0, <1>2, <1>3, <2>3, <2>4
    <3>2. Coming'[1] = Coming[n + 1] /\ n + 1 = 1 + n
      <4>1. 1 \in 1 .. C - n
        BY <1>3, <3>1
      <4> QED
        BY <1>8, <4>1
    <3>3. Coming'[1] = Token(f, had + n + 3)
      BY <2>3, <3>1, <3>2
    <3> QED
      BY <1>5, <1>6, <1>7, <1>9, <1>11, <2>4, <3>1, <3>3 DEF L
  <2>5. CASE ~(had + n < L)
    <3>1. n = 1 + k
      BY <1>0, <1>2, <2>5
    <3>2. CASE C - n > 0
      <4>1. 1 \in 1 .. C - n /\ n + 1 = 1 + k + 1 /\ 1 + k < C
        BY <1>3, <2>3, <3>1, <3>2
      <4>2. Coming'[1] = Token(f + 1, 1)
        BY <1>8, <2>3, <4>1
      <4> QED
        BY <1>5, <1>6, <1>7, <1>9, <1>11, <2>5, <3>2, <4>2 DEF L
    <3>3. CASE ~(C - n > 0)
      <4>1. 1 + k = C
        BY <1>3, <2>3, <3>1, <3>3
      <4>2. f = Len(asked)
        BY <2>3, <4>1
      <4> QED
        BY <1>5, <1>6, <1>7, <1>9, <1>11, <2>5, <3>3, <4>2 DEF L
    <3> QED
      BY <3>2, <3>3
  <2> QED
    BY <2>4, <2>5
<1> QED
  BY <1>10, <1>11

LEMMA UploadKeeps ==
  ASSUME Shapes, ~Prefaced, NEW f \in Nat, Stands(f), UploadStep
  PROVE  FramingInv'
<1> USE DEF Stands
<1> DEFINE n == Upload(soll - recv)
<1>1. /\ rpc = "upload" /\ soll # 0 /\ recv < soll /\ f > 0 /\ soll = asked[f].len
      /\ soll \in Nat /\ recv \in Nat /\ f \in 0 .. Len(asked)
  BY DEF UploadStep, Phase, Shapes, Taken
<1>2. /\ buf' = SubSeq(buf, n + 1, Len(buf))
      /\ recv' = (IF recv + n = soll THEN 0 ELSE recv + n)
      /\ soll' = (IF recv + n = soll THEN 0 ELSE soll)
      /\ rpc' = (IF recv + n = soll /\ n < Len(buf) THEN "header" ELSE "idle")
      /\ UNCHANGED <<asked, wire, cur, cont, pc, status>>
  BY DEF UploadStep, client, threads
<1>3. Len(buf) \in Nat
  BY ComingShape
<1>4. n \in Nat /\ n <= Len(buf) /\ n <= soll - recv /\ (n = Len(buf) \/ n = soll - recv)
  BY <1>1, <1>3 DEF Upload, Smaller
<1> HIDE DEF n
<1>5. Missing(f) /\ Due(f) = Token(f, recv + 3)
  BY <1>1 DEF Missing, Due
<1>6. /\ buf' \in Seq(Tokens) /\ (n < Len(buf) => buf' # <<>>)
      /\ Whole(Coming', asked)
      /\ Coming' # <<>> =>
           Coming'[1] = IF recv + n < soll THEN Token(f, recv + n + 3) ELSE Token(f + 1, 1)
      /\ Coming' = <<>> => f = Len(asked) /\ (recv + n < soll => f \in cont)
      /\ Coming = <<>> => Coming' = <<>> /\ n = 0
  <2>1. f \in 1 .. Len(asked)
    BY <1>1
  <2>2. /\ Whole(Coming, asked) /\ (Coming # <<>> => Coming[1] = Token(f, recv + 3))
        /\ Coming = <<>> => f = Len(asked) /\ f \in cont
    BY <1>5 DEF Arrives
  <2> QED
    BY <1>1, <1>2, <1>4, <2>1, <2>2, BodyTaken
<1>7. recv' \in Nat /\ soll' \in Nat /\ rpc' \in {"header", "idle"}
  BY <1>1, <1>2, <1>4
<1>8. Shapes' /\ ~Prefaced'
  BY <1>2, <1>6, <1>7 DEF Shapes, Prefaced
<1>9. Taken(f)'
  BY <1>2 DEF Taken
<1>10. Phase(f)'
  <2>1. asked' = asked /\ rpc' \in {"header", "idle"}
    BY <1>2, <1>7
  <2>2. rpc' = "header" => buf' # <<>> /\ soll' = 0
    BY <1>2, <1>6
  <2>3. soll' = 0 => recv' = 0
    BY <1>1, <1>2
  <2>4. soll' # 0 => recv' < soll' /\ soll' = asked[f].len
    BY <1>1, <1>2, <1>4
  <2> QED
    BY <1>1, <2>1, <2>2, <2>3, <2>4 DEF Phase
<1>11. /\ Missing(f)' <=> recv + n < soll
       /\ recv + n < soll => recv' = recv + n
  BY <1>1, <1>2, <1>4 DEF Missing
<1>12. Due(f)' = IF recv + n < soll THEN Token(f, recv + n + 3) ELSE Token(f + 1, 1)
  BY <1>11 DEF Due
<1>13. Arrives(f)'
  BY <1>2, <1>6, <1>11, <1>12 DEF Arrives
<1>14. Continues(f)'
  <2>1. f \in cont => Coming' = <<>> /\ n = 0 /\ recv = 0
    BY <1>1, <1>6 DEF Continues
  <2>2. n = 0 => Missing(f)' /\ recv' = recv
    BY <1>1, <1>4, <1>11
  <2> QED
    BY <1>2, <2>1, <2>2 DEF Continues
<1> QED
  BY <1>8, <1>9, <1>10, <1>13, <1>14 DEF FramingInv

LEMMA ContentKeeps ==
  ASSUME Shapes, ~Prefaced, NEW f \in Nat, Stands(f), Content
  PROVE  FramingInv'
<1> USE DEF Stands
<1> DEFINE len == asked[cur].len
           n == Upload(len)
<1>1. /\ rpc = "content" /\ cur = f /\ f > 0 /\ soll = 0 /\ recv = 0 /\ asked[f].len > 0
      /\ f \in 0 .. Len(asked)
  BY DEF Content, Phase, Taken
<1>2. /\ buf' = SubSeq(buf, n + 1, Len(buf))
      /\ recv' = (IF n = len THEN 0 ELSE n)
      /\ soll' = (IF n = len THEN 0 ELSE len)
      /\ rpc' = "dispatch"
      /\ UNCHANGED <<asked, wire, cur, cont, pc, status>>
  BY DEF Content, client, threads
<1>3. len = asked[f].len /\ len \in Nat /\ Len(buf) \in Nat
  <2>1. asked[f] \in Kinds
    BY <1>1 DEF Shapes
  <2> QED
    BY <1>1, <2>1, KindShape, ComingShape
<1> HIDE DEF len
<1>4. n \in Nat /\ n <= Len(buf) /\ n <= len /\ (n = Len(buf) \/ n = len)
  BY <1>3 DEF Upload, Smaller
<1> HIDE DEF n
<1>5. Missing(f) /\ Due(f) = Token(f, 0 + 3)
  BY <1>1 DEF Missing, Due
<1>6. /\ buf' \in Seq(Tokens) /\ (n < Len(buf) => buf' # <<>>)
      /\ Whole(Coming', asked)
      /\ Coming' # <<>> =>
           Coming'[1] = IF 0 + n < len THEN Token(f, 0 + n + 3) ELSE Token(f + 1, 1)
      /\ Coming' = <<>> => f = Len(asked) /\ (0 + n < len => f \in cont)
      /\ Coming = <<>> => Coming' = <<>> /\ n = 0
  <2>1. f \in 1 .. Len(asked)
    BY <1>1
  <2>2. /\ Whole(Coming, asked) /\ (Coming # <<>> => Coming[1] = Token(f, 0 + 3))
        /\ Coming = <<>> => f = Len(asked) /\ f \in cont
    BY <1>5 DEF Arrives
  <2>3. 0 < len /\ n <= len - 0 /\ (n = Len(buf) \/ n = len - 0)
    BY <1>1, <1>3, <1>4
  <2> QED
    BY <1>2, <1>3, <1>4, <2>1, <2>2, <2>3, BodyTaken
<1>7. recv' \in Nat /\ soll' \in Nat
  BY <1>2, <1>3, <1>4
<1>8. Shapes' /\ ~Prefaced'
  BY <1>2, <1>6, <1>7 DEF Shapes, Prefaced
<1>9. Taken(f)'
  BY <1>2 DEF Taken
<1>10. Phase(f)'
  <2>1. /\ rpc' = "dispatch" /\ cur' = f /\ asked' = asked /\ f > 0
    BY <1>1, <1>2
  <2>2. soll' = 0 => recv' = 0
    BY <1>1, <1>2, <1>3
  <2>3. soll' # 0 => recv' < soll' /\ soll' = asked[f].len
    BY <1>2, <1>3, <1>4
  <2> QED
    BY <2>1, <2>2, <2>3 DEF Phase
<1>11. /\ Missing(f)' <=> 0 + n < len
       /\ 0 + n < len => recv' = 0 + n
  BY <1>1, <1>2, <1>3, <1>4 DEF Missing
<1>12. Due(f)' = IF 0 + n < len THEN Token(f, 0 + n + 3) ELSE Token(f + 1, 1)
  BY <1>11 DEF Due
<1>13. Arrives(f)'
  BY <1>2, <1>6, <1>11, <1>12 DEF Arrives
<1>14. Continues(f)'
  <2>1. f \in cont => Coming' = <<>> /\ n = 0
    BY <1>6 DEF Continues
  <2>2. n = 0 => Missing(f)' /\ recv' = 0
    BY <1>1, <1>3, <1>11
  <2> QED
    BY <1>2, <2>1, <2>2 DEF Continues
<1> QED
  BY <1>8, <1>9, <1>10, <1>13, <1>14 DEF FramingInv

\* The header at the front of the buffer is that of the next request.
LEMMA ParsedNext ==
  ASSUME Shapes, NEW f \in Nat, Stands(f), ParseHeader
  PROVE  ParsedRequest = f + 1 /\ f + 1 \in 1 .. Len(asked)
<1>1. rpc = "header" /\ buf # <<>> /\ ~Missing(f)
  BY DEF ParseHeader, Stands, Phase, Missing
<1>2. Coming # <<>> /\ Coming[1] = buf[1] /\ Coming[1] = Token(f + 1, 1)
  <2>1. /\ Len(buf) \in Nat /\ Len(wire) \in Nat /\ Len(buf) > 0
        /\ Len(Coming) = Len(buf) + Len(wire)
        /\ \A i \in 1 .. Len(buf) : Coming[i] = buf[i] /\ (Coming # <<>> <=> Len(Coming) > 0)
    BY <1>1, ComingShape
  <2>2. Coming[1] = buf[1] /\ Coming # <<>>
    BY <2>1
  <2> QED
    BY <1>1, <2>2 DEF Stands, Arrives, Due
<1>3. Token(f + 1, 1).req = f + 1
  BY TokenShape
<1>4. ParsedRequest # Nobody
  BY DEF ParseHeader
<1>5. ParsedRequest = f + 1
  BY <1>2, <1>3, <1>4, Zenon DEF ParsedRequest
<1>6. Coming[1].req \in 1 .. Len(asked)
  <2>1. Whole(Coming, asked)
    BY DEF Stands, Arrives
  <2> QED
    BY <1>2, <2>1, FirstRun
<1> QED
  BY <1>2, <1>3, <1>5, <1>6

\* The header that is due is the one that is parsed.
LEMMA ParseKeeps ==
  ASSUME Shapes, ~Prefaced, NEW f \in Nat, Stands(f), ParseHeader, Reading'
  PROVE  FramingInv'
<1> USE DEF Stands
<1> DEFINE g == f + 1
           C == Len(Coming)
<1>1. /\ rpc = "header" /\ soll = 0 /\ recv = 0 /\ buf # <<>> /\ f \in 0 .. Len(asked)
      /\ ~Missing(f)
  BY DEF ParseHeader, Phase, Taken, Missing
<1>2. /\ Coming \in Seq(Tokens) /\ Coming # <<>> /\ C \in Nat /\ C > 0 /\ Coming[1] = Token(g, 1)
      /\ Coming[1] = buf[1] /\ Len(buf) \in Nat /\ Len(buf) > 0 /\ C = Len(buf) + Len(wire)
      /\ Len(wire) \in Nat
  <2>1. /\ Coming \in Seq(Tokens) /\ C = Len(buf) + Len(wire)
        /\ Len(buf) \in Nat /\ Len(wire) \in Nat /\ Len(buf) > 0
        /\ \A i \in 1 .. Len(buf) : Coming[i] = buf[i] /\ (Coming # <<>> <=> C > 0)
    BY <1>1, ComingShape
  <2>2. Coming[1] = buf[1] /\ Coming # <<>>
    BY <2>1
  <2> QED
    BY <1>1, <2>1, <2>2 DEF Arrives, Due
<1>3. Token(g, 1).req = g /\ Token(g, 1).part = 1 /\ buf[1].req = g
  BY <1>2, TokenShape
<1>4. /\ buf' = SubSeq(buf, 3, Len(buf)) /\ asked[g].expect # "other"
      /\ rpc' = "mark" /\ cur' = g
      /\ cont' = (IF asked[g].expect = "no" THEN cont ELSE cont \cup {g})
      /\ UNCHANGED <<asked, wire, soll, recv, pc, status>>
      /\ SubSeq(buf, 1, 2) = HeaderOf(g)
  <2>1. ParsedRequest # Nobody
    BY DEF ParseHeader
  <2>2. ParsedRequest = g /\ SubSeq(buf, 1, 2) = HeaderOf(g)
    BY <1>3, <2>1, Zenon DEF ParsedRequest
  <2>3. asked[g].expect # "other"
    BY <2>2 DEF ParseHeader, Refuse, Reading, Live
  <2> QED
    BY <2>2, <2>3, Zenon DEF ParseHeader, client, threads
<1>5. 2 <= Len(buf)
  <2>1. PICK n \in HeaderEnds : TRUE
    BY DEF ParseHeader
  <2>2. n \in 1 .. Len(buf) /\ buf[n].part = 2
    BY <2>1 DEF HeaderEnds, Shapes
  <2>3. n # 1
    BY <1>2, <1>3, <2>2
  <2> QED
    BY <1>2, <2>2, <2>3
<1> DEFINE q == asked[g]
           k == Until(Token(g, 1), asked) - 1
<1>6. /\ g \in 1 .. Len(asked) /\ k \in Nat /\ 1 + k <= C
      /\ \A d \in 0 .. k : Coming[1 + d] = Token(g, 1 + d)
      /\ 1 + k < C => Coming[1 + k + 1] = Token(g + 1, 1)
      /\ 1 + k = C => g = Len(asked)
      /\ q.expect # "no" => 1 + k = C
  <2>1. Whole(Coming, asked)
    BY DEF Arrives
  <2>2. Coming[1].req = g /\ Coming[1].part = 1 /\ 1 <= 2
    BY <1>2, <1>3
  <2> HIDE DEF k, g
  <2> QED
    BY <1>2, <2>1, <2>2, FirstRun DEF k, C
<1>7. q \in Kinds /\ BodyLen(q) \in Nat /\ q.len \in Nat \cup {-1}
  <2>1. q \in Kinds
    BY <1>6 DEF Shapes
  <2> QED
    BY <2>1, KindShape
<1>8. k = IF q.expect # "no" THEN 1 ELSE 1 + BodyLen(q)
  <2>1. Until(Token(g, 1), asked) = IF q.expect # "no" THEN 2 ELSE 2 + BodyLen(q)
    <3>1. 1 <= 2
      OBVIOUS
    <3> QED
      BY <1>3, <3>1, Zenon DEF Until
  <2> QED
    BY <1>7, <2>1
<1> HIDE DEF k, g, C
<1>9. /\ Whole(Coming', asked) /\ Coming' \in Seq(Tokens) /\ Len(Coming') = C - 2
      /\ \A i \in 1 .. C - 2 : Coming'[i] = Coming[2 + i]
      /\ buf' \in Seq(Tokens)
  <2>1. 2 \in 0 .. Len(buf) /\ 2 \in 0 .. C /\ 2 + 1 = 3
    BY <1>2, <1>5
  <2>2. Coming' = SubSeq(Coming, 3, C)
    BY <1>4, <2>1, CutComing DEF Coming, C, Shapes
  <2>3. /\ Coming' \in Seq(Tokens) /\ Len(Coming') = C - 2
        /\ \A i \in 1 .. C - 2 : Coming'[i] = Coming[2 + i]
    BY <1>2, <2>1, <2>2, Cut DEF C
  <2>4. Whole(Coming', asked)
    BY <1>2, <2>1, <2>2, WholeCut DEF C, Arrives
  <2>5. buf' \in Seq(Tokens)
    BY <1>4, <2>1, Cut DEF Shapes
  <2> QED
    BY <2>3, <2>4, <2>5
<1>10. Coming' = <<>> <=> C = 2
  BY <1>2, <1>5, <1>9, EmptySeq
<1>11. cont = {}
  BY <1>2 DEF Taken, Continues
<1>12. Shapes' /\ ~Prefaced'
  BY <1>4, <1>9 DEF Shapes, Prefaced
<1>13. g \in Nat /\ g > f /\ g > 0
  BY <1>1 DEF g
<1>14. Taken(g)'
  <2>1. \A r \in Request : r > g => r > f
    BY <1>1, <1>13 DEF Request
  <2>2. cont' \subseteq {g} \ {0}
    BY <1>4, <1>11, <1>13
  <2>3. g \in 0 .. Len(asked')
    BY <1>4, <1>6
  <2> QED
    BY <1>4, <2>1, <2>2, <2>3 DEF Taken
<1>15. Phase(g)'
  BY <1>1, <1>4, <1>13 DEF Phase
<1>16. Missing(g)' <=> q.len > 0
  BY <1>1, <1>4 DEF Missing
<1>17. BodyLen(q) = IF q.len > 0 THEN q.len ELSE 0
  BY DEF BodyLen
<1>18. Due(g)' = IF q.len > 0 THEN Token(g, 3) ELSE Token(g + 1, 1)
  <2>1. recv' = 0 /\ 0 + 3 = 3
    BY <1>1, <1>4
  <2> QED
    BY <1>16, <2>1, Zenon DEF Due
<1>19. Coming' # <<>> => Coming'[1] = Due(g)'
  <2> SUFFICES ASSUME Coming' # <<>> PROVE Coming'[1] = Due(g)'
    OBVIOUS
  <2>1. C > 2 /\ Coming'[1] = Coming[3]
    BY <1>2, <1>5, <1>9, <1>10
  <2>2. q.expect = "no" /\ k = 1 + BodyLen(q)
    BY <1>6, <1>8, <2>1
  <2>3. CASE q.len > 0
    <3>1. 2 \in 0 .. k /\ 1 + 2 = 3
      BY <1>7, <1>17, <2>2, <2>3
    <3>2. Coming[3] = Token(g, 3)
      BY <1>6, <3>1
    <3> QED
      BY <1>18, <2>1, <2>3, <3>2
  <2>4. CASE ~(q.len > 0)
    <3>1. k = 1 /\ 1 + k < C /\ 1 + k + 1 = 3
      BY <1>2, <1>17, <2>1, <2>2, <2>4
    <3> QED
      BY <1>6, <1>18, <2>1, <2>4, <3>1
  <2> QED
    BY <2>3, <2>4
<1>20. Coming' = <<>> => g = Len(asked) /\ (Missing(g)' => g \in cont')
  <2> SUFFICES ASSUME Coming' = <<>>
               PROVE  g = Len(asked) /\ (Missing(g)' => g \in cont')
    OBVIOUS
  <2>1. C = 2
    BY <1>10
  <2>2. 1 + k <= 2 /\ (1 + k = 2 => g = Len(asked))
    BY <1>6, <2>1
  <2>3. CASE q.expect # "no"
    BY <1>4, <1>8, <2>2, <2>3 DEF g
  <2>4. CASE q.expect = "no"
    <3>1. k = 1 + BodyLen(q)
      BY <1>8, <2>4
    <3>2. ~(q.len > 0) /\ k = 1
      BY <1>7, <1>17, <2>2, <3>1
    <3> QED
      BY <1>16, <2>2, <3>2
  <2> QED
    BY <2>3, <2>4
<1>21. Arrives(g)'
  BY <1>4, <1>9, <1>19, <1>20 DEF Arrives
<1>22. Continues(g)'
  <2> SUFFICES ASSUME g \in cont'
               PROVE  Coming' = <<>> /\ (asked'[g].len > 0 => Missing(g)' /\ recv' = 0)
    BY DEF Continues
  <2>1. q.expect # "no"
    BY <1>4, <1>11 DEF g
  <2>2. Coming' = <<>>
    BY <1>6, <1>8, <1>10, <2>1
  <2> QED
    BY <1>1, <1>4, <1>16, <2>2
<1> QED
  BY <1>12, <1>13, <1>14, <1>15, <1>21, <1>22 DEF FramingInv

\* What a client adds to the wire.
LEMMA AskSends ==
  ASSUME Shapes, NEW k \in Kinds, Ask(k)
  PROVE  LET r == Len(asked) + 1
         IN  /\ asked' = Append(asked, k) /\ asked' \in Seq(Kinds)
             /\ Len(asked') = r /\ r <= MaxRequests /\ asked'[r] = k
             /\ \A i \in 1 .. Len(asked) : asked'[i] = asked[i]
             /\ k.form = "preface" => r = 1 /\ wire' = wire \o Preface(1)
             /\ k.form # "preface" => wire' = wire \o Sent(r, k)
             /\ UNCHANGED <<buf, soll, recv, rpc, cur, mode, open, cont, status, pc>>
             /\ cont = {}
<1> DEFINE r == Len(asked) + 1
<1>1. /\ asked' = Append(asked, k) /\ Len(asked) < MaxRequests
      /\ (k.form = "preface" => r = 1) /\ cont = {}
      /\ UNCHANGED <<buf, soll, recv, rpc, cur, mode, open, cont, status, pc>>
  BY DEF Ask, reader, threads
<1>2. /\ asked' \in Seq(Kinds) /\ Len(asked') = r /\ asked'[r] = k /\ r \in Nat
      /\ \A i \in 1 .. Len(asked) : asked'[i] = asked[i]
  BY <1>1 DEF Shapes
<1>3. r <= MaxRequests
  BY <1>1, Http1Assumption DEF Shapes
<1>4. wire' = wire \o
        CASE k.form = "preface" -> Preface(r)
          [] k.form # "preface" /\ k.expect # "no" -> HeaderOf(r)
          [] OTHER -> HeaderOf(r) \o [i \in 1 .. k.len |-> Token(r, 2 + i)]
  BY Zenon DEF Ask
<1> HIDE DEF r
<1>5. k.form = "preface" => wire' = wire \o Preface(1)
  BY <1>1, <1>4
<1>6. k.form # "preface" => wire' = wire \o Sent(r, k)
  <2>1. CASE k.form # "preface" /\ k.expect # "no"
    <3>1. wire' = wire \o HeaderOf(r)
      BY <1>4, <2>1
    <3> QED
      BY <1>2, <2>1, <3>1, SentIs
  <2>2. CASE k.form # "preface" /\ k.expect = "no"
    <3>1. wire' = wire \o (HeaderOf(r) \o [i \in 1 .. k.len |-> Token(r, 2 + i)])
      BY <1>4, <2>2
    <3> QED
      BY <1>2, <2>2, <3>1, SentIs
  <2> QED
    BY <2>1, <2>2
<1> QED
  BY <1>1, <1>2, <1>3, <1>5, <1>6 DEF r

LEMMA PrefaceShape ==
  /\ Preface(1) \in Seq(Tokens) /\ Len(Preface(1)) = 3
  /\ Preface(1)[1] = Token(1, 1) /\ Preface(1)[3] = Tail24(1)
<1> DEFINE h == HeaderOf(1)
           x == Tail24(1)
<1>1. /\ h \in Seq(Tokens) /\ Len(h) = 2 /\ h[1] = Token(1, 1)
      /\ Preface(1) = Append(h, x)
  BY HeaderShape DEF Preface
<1>2. x \in Tokens
  BY TokenShape DEF Tail24
<1> HIDE DEF h, x
<1>3. h \in Seq(Tokens)
  BY <1>1
<1>4. /\ Append(h, x) \in Seq(Tokens) /\ Len(Append(h, x)) = Len(h) + 1
      /\ \A i \in 1 .. Len(h) : Append(h, x)[i] = h[i]
      /\ Append(h, x)[Len(h) + 1] = x
  BY <1>2, <1>3, AppendProperties
<1>5. Append(h, x)[1] = h[1] /\ Append(h, x)[3] = x
  BY <1>1, <1>4
<1>6. /\ Preface(1) \in Seq(Tokens) /\ Len(Preface(1)) = 3
      /\ Preface(1)[1] = Token(1, 1) /\ Preface(1)[3] = x
  <2>1. Len(h) + 1 = 3
    BY <1>1
  <2> QED
    BY <1>1, <1>4, <1>5, <2>1, Zenon
<1> QED
  BY <1>6, Zenon DEF x

\* No header that waits for "100 Continue" is on its way when a client asks again.
LEMMA NothingWaits ==
  ASSUME Shapes, NEW f \in Nat, Stands(f), NEW k \in Kinds, Ask(k)
  PROVE  \A i \in 1 .. Len(Coming) :
           Coming[i].part <= 2 => asked[Coming[i].req].expect = "no"
<1> USE DEF Stands
<1> SUFFICES ASSUME NEW i \in 1 .. Len(Coming), Coming[i].part <= 2,
                    asked[Coming[i].req].expect # "no"
             PROVE  FALSE
  OBVIOUS
<1> DEFINE n == Len(asked)
<1>1. /\ Coming \in Seq(Tokens) /\ Len(Coming) \in Nat /\ Coming # <<>> /\ n \in Nat
  BY ComingShape DEF Shapes
<1>2. \A j \in 1 .. Len(Coming) : Coming[j].req \in 1 .. n
  BY Zenon DEF Arrives, Whole
<1>3. Coming[i].req = n
  <2> DEFINE kk == Until(Coming[i], asked) - Coming[i].part
  <2>1. /\ i + kk = Len(Coming) => Coming[i].req = n
        /\ Coming[i].part <= 2 /\ asked[Coming[i].req].expect # "no" => i + kk = Len(Coming)
    BY Zenon DEF Arrives, Whole
  <2> QED
    BY <2>1
<1>4. n > 0 /\ asked[n].expect # "no" /\ n \in Request
  BY <1>1, <1>2, <1>3, Http1Assumption DEF Shapes, Request
<1>5. Last(asked) = asked[n]
  BY DEF Last
<1>6. status[n] # 0
  <2>1. Answered
    BY <1>4, <1>5 DEF Ask
  <2>2. n \in DOMAIN asked
    BY <1>1, <1>4 DEF Shapes
  <2> QED
    BY <2>1, <2>2 DEF Answered
<1>7. f = n
  <2>1. ~(n > f) /\ f \in 0 .. n
    BY <1>4, <1>6 DEF Taken
  <2> QED
    BY <1>1, <2>1
<1>8. Coming[1] = Token(f, recv + 3) /\ recv \in Nat
  <2>1. Coming[1] = Due(f) /\ 1 \in 1 .. Len(Coming)
    BY <1>1, EmptySeq DEF Arrives
  <2>2. Coming[1].req \in 1 .. n
    BY <1>2, <2>1
  <2>3. Coming[1] # Token(f + 1, 1)
    <3>1. Token(f + 1, 1).req = f + 1
      BY TokenShape
    <3> QED
      BY <1>7, <2>2, <3>1
  <2> QED
    BY <2>1, <2>3 DEF Due, Shapes
<1>9. Coming[1].req = f /\ Coming[1].part = recv + 3
  BY <1>8, TokenShape
<1> DEFINE m == Until(Coming[1], asked) - Coming[1].part
<1>10. /\ m \in Nat /\ \A d \in 0 .. m : Coming[1 + d] = Token(f, recv + 3 + d)
       /\ 1 + m < Len(Coming) => Coming[1 + m + 1] = Token(f + 1, 1)
  <2>1. Whole(Coming, asked)
    BY DEF Arrives
  <2> HIDE DEF m
  <2> QED
    BY <1>1, <1>9, <2>1, FirstRun DEF m
<1> HIDE DEF m
<1>11. i > 1 + m
  <2> SUFFICES ASSUME i <= 1 + m PROVE FALSE
    BY <1>10
  <2>1. i - 1 \in 0 .. m /\ 1 + (i - 1) = i /\ recv + 3 + (i - 1) \in Nat
        /\ recv + 3 + (i - 1) > 2
    BY <1>8, <1>10
  <2>2. Coming[i] = Token(f, recv + 3 + (i - 1))
    BY <1>10, <2>1
  <2>3. Coming[i].part = recv + 3 + (i - 1)
    BY <2>1, <2>2, TokenShape
  <2> QED
    BY <2>1, <2>3
<1>12. Coming[1 + m + 1] = Token(f + 1, 1) /\ 1 + m + 1 \in 1 .. Len(Coming)
  BY <1>1, <1>10, <1>11
<1>13. Coming[1 + m + 1].req = f + 1
  BY <1>12, TokenShape
<1> QED
  BY <1>1, <1>2, <1>7, <1>12, <1>13

LEMMA AskKeeps ==
  ASSUME Shapes, ~Prefaced, NEW f \in Nat, Stands(f), NEW k \in Kinds, Ask(k),
         k.form # "preface"
  PROVE  FramingInv'
<1> USE DEF Stands
<1> DEFINE r == Len(asked) + 1
           new == Sent(r, k)
<1>1. /\ asked' = Append(asked, k) /\ asked' \in Seq(Kinds)
      /\ Len(asked') = r /\ r <= MaxRequests /\ asked'[r] = k
      /\ \A i \in 1 .. Len(asked) : asked'[i] = asked[i]
      /\ wire' = wire \o new
      /\ UNCHANGED <<buf, soll, recv, rpc, cur, mode, open, cont, status, pc>>
      /\ cont = {}
  BY AskSends
<1>2. Len(asked) \in Nat /\ r \in Nat /\ buf \in Seq(Tokens) /\ wire \in Seq(Tokens)
  BY DEF Shapes
<1>3. new \in Seq(Tokens) /\ Len(new) >= 2 /\ Len(new) \in Nat /\ new[1] = Token(r, 1)
  <2> HIDE DEF r
  <2>1. SentLen(k) >= 2 /\ SentLen(k) \in Nat
    BY KindShape
  <2>2. /\ Sent(r, k) \in Seq(Tokens) /\ Len(Sent(r, k)) = SentLen(k)
        /\ \A j \in 1 .. SentLen(k) : Sent(r, k)[j] = Token(r, j)
    BY <1>2, SentShape
  <2>3. 1 \in 1 .. SentLen(k)
    BY <2>1
  <2> QED
    BY <2>1, <2>2, <2>3
<1> HIDE DEF new
<1>4. Coming' = Coming \o new
  <2>1. (buf \o wire) \o new = buf \o (wire \o new)
    <3>1. buf \in Seq(Tokens) /\ wire \in Seq(Tokens) /\ new \in Seq(Tokens)
      BY <1>2, <1>3
    <3> QED
      BY <3>1, ConcatAssociative
  <2> QED
    BY <1>1, <2>1, Zenon DEF Coming
<1>5. /\ Coming \in Seq(Tokens) /\ Len(Coming) \in Nat /\ (Coming # <<>> <=> Len(Coming) > 0)
  BY ComingShape
<1>6. /\ Coming' \in Seq(Tokens) /\ Len(Coming') = Len(Coming) + Len(new)
      /\ \A i \in 1 .. Len(Coming) + Len(new) :
           Coming'[i] = IF i <= Len(Coming) THEN Coming[i] ELSE new[i - Len(Coming)]
  BY <1>3, <1>4, <1>5, ConcatProperties
<1>7. Whole(Coming', asked')
  <2>1. Whole(Coming, asked)
    BY DEF Arrives
  <2>2. \A i \in 1 .. Len(Coming) :
           Coming[i].part <= 2 => asked[Coming[i].req].expect = "no"
    BY NothingWaits
  <2>3. Whole(Coming \o Sent(Len(asked) + 1, k), Append(asked, k))
    BY <1>5, <2>1, <2>2, WholeAsk DEF Shapes
  <2> QED
    BY <1>1, <1>4, <2>3 DEF new
<1>8. Shapes'
  <2>1. wire \o new \in Seq(Tokens)
    BY <1>2, <1>3, ConcatProperties
  <2> QED
    BY <1>1, <2>1 DEF Shapes
<1>9. ~Prefaced'
  <2>1. CASE Len(asked) = 0
    BY <1>1, <2>1 DEF Prefaced
  <2>2. CASE Len(asked) # 0
    <3>1. asked'[1] = asked[1] /\ Len(asked) > 0
      BY <1>1, <1>2, <2>2
    <3> QED
      BY <3>1 DEF Prefaced
  <2> QED
    BY <2>1, <2>2
<1>10. f \in 0 .. Len(asked) /\ (f > 0 => asked'[f] = asked[f])
  BY <1>1, <1>2 DEF Taken
<1>11. Taken(f)'
  <2>1. f \in 0 .. Len(asked')
    BY <1>1, <1>2, <1>10
  <2> QED
    BY <1>1, <2>1 DEF Taken
<1>12. Phase(f)'
  BY <1>1, <1>10 DEF Phase
<1>13. Missing(f)' <=> Missing(f)
  <2>1. rpc \in {"mark", "content"} => f > 0
    BY DEF Phase
  <2> QED
    BY <1>1, <1>10, <2>1 DEF Missing
<1>14. Due(f)' = Due(f)
  BY <1>1, <1>13 DEF Due
<1>15. Coming' # <<>> /\ Coming'[1] = Due(f)
  <2>1. Coming' # <<>> /\ 1 \in 1 .. Len(Coming) + Len(new)
    BY <1>3, <1>5, <1>6, EmptySeq
  <2>2. CASE Coming # <<>>
    <3>1. Coming'[1] = Coming[1]
      BY <1>5, <1>6, <2>1, <2>2
    <3> QED
      BY <2>1, <2>2, <3>1 DEF Arrives
  <2>3. CASE Coming = <<>>
    <3>1. Coming'[1] = new[1]
      BY <1>3, <1>5, <1>6, <2>1, <2>3
    <3>2. f = Len(asked) /\ ~Missing(f)
      BY <1>1, <2>3 DEF Arrives
    <3> QED
      BY <1>3, <2>1, <3>1, <3>2 DEF Due
  <2> QED
    BY <2>2, <2>3
<1>16. Arrives(f)'
  BY <1>7, <1>14, <1>15 DEF Arrives
<1>17. Continues(f)'
  BY <1>1 DEF Continues
<1> QED
  BY <1>8, <1>9, <1>11, <1>12, <1>16, <1>17 DEF FramingInv

LEMMA AskPrefaceKeeps ==
  ASSUME Shapes, ~Prefaced, NEW f \in Nat, Stands(f), NEW k \in Kinds, Ask(k),
         k.form = "preface"
  PROVE  FramingInv'
<1> USE DEF Stands
<1>1. /\ asked' \in Seq(Kinds) /\ Len(asked') = 1 /\ Len(asked) = 0 /\ asked'[1] = k
      /\ Len(asked') <= MaxRequests
      /\ wire' = wire \o Preface(1)
      /\ UNCHANGED <<buf, soll, recv, rpc, cur, mode, open, cont, status, pc>>
      /\ cont = {}
  <2> DEFINE r == Len(asked) + 1
  <2>1. /\ asked' \in Seq(Kinds) /\ Len(asked') = r /\ r <= MaxRequests /\ asked'[r] = k
        /\ r = 1 /\ wire' = wire \o Preface(1)
        /\ UNCHANGED <<buf, soll, recv, rpc, cur, mode, open, cont, status, pc>>
        /\ cont = {}
    BY AskSends
  <2>2. Len(asked) \in Nat
    BY DEF Shapes
  <2> QED
    BY <2>1, <2>2
<1>2. f = 0
  BY <1>1 DEF Taken
<1>3. Coming = <<>>
  <2> SUFFICES ASSUME Coming # <<>> PROVE FALSE
    OBVIOUS
  <2>1. 1 \in 1 .. Len(Coming)
    BY ComingShape
  <2>2. Coming[1].req \in 1 .. Len(asked)
    BY <2>1, Zenon DEF Arrives, Whole
  <2> QED
    BY <1>1, <2>2
<1>4. Len(buf) = 0 /\ Len(wire) = 0 /\ buf = <<>> /\ wire = <<>>
  BY <1>3, ComingShape
<1>5. soll = 0 /\ recv = 0 /\ rpc = "idle"
  BY <1>2, <1>4 DEF Phase, Shapes
<1>6. wire' = Preface(1)
  BY <1>1, <1>4, PrefaceShape, ConcatEmptySeq
<1>7. Coming' = Preface(1)
  <2>1. buf' = <<>>
    BY <1>1, <1>4
  <2> QED
    BY <1>6, <2>1, PrefaceShape, ConcatEmptySeq DEF Coming
<1>8. Shapes'
  BY <1>1, <1>6, PrefaceShape DEF Shapes
<1>9. Prefaced'
  BY <1>1 DEF Prefaced
<1>10. PrefaceComing'
  BY <1>1, <1>4, <1>5, <1>7, PrefaceShape DEF PrefaceComing
<1> QED
  BY <1>8, <1>9, <1>10 DEF FramingInv

\* The client that waited for "100 Continue" sends its body.
LEMMA SendBodyKeeps ==
  ASSUME Shapes, ~Prefaced, NEW f \in Nat, Stands(f), NEW r \in Request, SendBody(r)
  PROVE  FramingInv'
<1> USE DEF Stands
<1> DEFINE n == Len(asked)
           b == BodyOf(f)
<1>1. /\ r = f /\ f > 0 /\ f \in cont /\ cont' = {} /\ wire' = wire \o b
      /\ UNCHANGED <<asked, buf, soll, recv, rpc, cur, status, pc>>
  BY DEF SendBody, Taken, reader, threads
<1>2. /\ Coming = <<>> /\ f = n /\ (asked[f].len > 0 => Missing(f) /\ recv = 0)
  BY <1>1 DEF Continues, Arrives
<1>3. Len(buf) = 0 /\ Len(wire) = 0 /\ buf = <<>> /\ wire = <<>>
  BY <1>2, ComingShape
<1>4. asked \in Seq(Kinds) /\ asked[f] \in Kinds
  <2>1. f \in 1 .. n /\ asked \in Seq(Kinds)
    BY <1>1, <1>2 DEF Shapes
  <2> QED
    BY <2>1
<1>5. /\ b \in Seq(Tokens) /\ Len(b) = BodyLen(asked[f])
      /\ \A i \in 1 .. BodyLen(asked[f]) : b[i] = Token(f, 2 + i)
  BY <1>4, BodyShape, Zenon DEF BodyOf
<1>6. Whole(b, asked)
  <2>1. Len(asked) > 0
    BY <1>1, <1>2
  <2>2. Whole([i \in 1 .. asked[Len(asked)].len |-> Token(Len(asked), 2 + i)], asked)
    BY <1>4, <2>1, WholeBody
  <2> QED
    BY <1>2, <2>2, Zenon DEF BodyOf
<1>7. BodyLen(asked[f]) \in Nat /\ asked[f].len \in Nat \cup {-1}
  BY <1>4, KindShape
<1> HIDE DEF b
<1>8. wire' = b /\ Coming' = b
  <2>1. wire' = b /\ buf' = <<>>
    BY <1>1, <1>3, <1>5, ConcatEmptySeq
  <2> QED
    BY <1>5, <2>1, ConcatEmptySeq DEF Coming
<1>9. Shapes' /\ ~Prefaced'
  BY <1>1, <1>5, <1>8 DEF Shapes, Prefaced
<1>10. Taken(f)' /\ Phase(f)' /\ Continues(f)'
  BY <1>1 DEF Taken, Phase, Continues
<1>11. Missing(f)' <=> Missing(f)
  BY <1>1 DEF Missing
<1>12. Due(f)' = Due(f)
  BY <1>1, <1>11 DEF Due
<1>13. CASE asked[f].len > 0
  <2>1. BodyLen(asked[f]) = asked[f].len
    BY <1>13 DEF BodyLen
  <2>2. b # <<>> /\ b[1] = Token(f, 3)
    <3>1. 1 \in 1 .. BodyLen(asked[f]) /\ 2 + 1 = 3
      BY <1>7, <1>13, <2>1
    <3>2. Len(b) > 0
      BY <1>5, <1>13, <2>1
    <3> QED
      BY <1>5, <3>1, <3>2, EmptySeq
  <2>3. Due(f) = Token(f, 3)
    <3>1. recv + 3 = 3
      BY <1>2, <1>13
    <3> QED
      BY <1>2, <1>13, <3>1 DEF Due
  <2>4. Arrives(f)'
    BY <1>1, <1>6, <1>8, <1>12, <2>2, <2>3 DEF Arrives
  <2> QED
    BY <1>9, <1>10, <2>4 DEF FramingInv
<1>14. CASE ~(asked[f].len > 0)
  <2>1. b = <<>>
    <3>1. Len(b) = 0
      BY <1>5, <1>14 DEF BodyLen
    <3> QED
      BY <1>5, <3>1, EmptySeq
  <2>2. ~Missing(f)
    BY <1>14 DEF Missing, Phase, Shapes
  <2>3. Arrives(f)'
    BY <1>1, <1>2, <1>6, <1>8, <1>11, <2>1, <2>2 DEF Arrives
  <2> QED
    BY <1>9, <1>10, <2>3 DEF FramingInv
<1> QED
  BY <1>13, <1>14

-----------------------------------------------------------------------------
(* The connection that starts with the preface *)

LEMMA AskAfterPreface ==
  ASSUME Shapes, Prefaced, PrefaceComing, NEW k \in Kinds, Ask(k)
  PROVE  FramingInv'
<1> DEFINE r == Len(asked) + 1
           new == Sent(r, k)
<1>1. /\ asked' \in Seq(Kinds) /\ Len(asked') = r /\ r <= MaxRequests
      /\ asked'[1] = asked[1]
      /\ wire' = wire \o new
      /\ UNCHANGED <<buf, soll, recv, rpc, cur, mode, open, cont, status, pc>>
      /\ r \in Nat /\ r > 1
  <2>1. Len(asked) \in Nat /\ Len(asked) > 0 /\ 1 \in 1 .. Len(asked)
    BY DEF Prefaced, Shapes
  <2>2. /\ asked' \in Seq(Kinds) /\ Len(asked') = r /\ r <= MaxRequests
        /\ \A i \in 1 .. Len(asked) : asked'[i] = asked[i]
        /\ (k.form = "preface" => r = 1)
        /\ (k.form # "preface" => wire' = wire \o new)
        /\ UNCHANGED <<buf, soll, recv, rpc, cur, mode, open, cont, status, pc>>
    BY AskSends
  <2> QED
    BY <2>1, <2>2
<1>2. new \in Seq(Tokens)
  <2> HIDE DEF r
  <2> QED
    BY <1>1, SentShape
<1>3. buf \in Seq(Tokens) /\ wire \in Seq(Tokens)
  BY DEF Shapes
<1> HIDE DEF new, r
<1>4. Coming' = Coming \o new
  <2>1. (buf \o wire) \o new = buf \o (wire \o new)
    BY <1>2, <1>3, ConcatAssociative
  <2> QED
    BY <1>1, <2>1, Zenon DEF Coming
<1>5. Coming \in Seq(Tokens) /\ Len(Coming) >= 3 /\ Len(Coming) \in Nat
  BY ComingShape DEF PrefaceComing
<1>6. /\ Len(Coming') = Len(Coming) + Len(new) /\ Len(new) \in Nat
      /\ \A i \in 1 .. Len(Coming) + Len(new) :
           Coming'[i] = IF i <= Len(Coming) THEN Coming[i] ELSE new[i - Len(Coming)]
  BY <1>2, <1>4, <1>5, ConcatProperties
<1>7. Len(Coming') >= 3 /\ Coming'[1] = Coming[1] /\ Coming'[3] = Coming[3]
  BY <1>5, <1>6
<1>8. wire' \in Seq(Tokens)
  BY <1>1, <1>2, <1>3, ConcatProperties
<1>9. Shapes' /\ Prefaced'
  BY <1>1, <1>8 DEF Shapes, Prefaced
<1>10. PrefaceComing'
  BY <1>1, <1>7 DEF PrefaceComing
<1> QED
  BY <1>9, <1>10 DEF FramingInv

\* The preface comes in one piece, and the reading thread finds it.
LEMMA PrefaceKeeps ==
  ASSUME ~PrefaceSplit, Shapes, Prefaced, PrefaceComing, Reading',
         (\E n \in DOMAIN wire : Receive(n)) \/ ReaderStep
  PROVE  FramingInv'
<1>1. CASE \E n \in DOMAIN wire : Receive(n)
  <2>1. PICK n \in DOMAIN wire : Receive(n)
    BY <1>1
  <2>2. /\ rpc = "idle" /\ n = Len(wire)
        /\ rpc' = (IF soll # 0 THEN "upload" ELSE "preface")
        /\ buf' = buf \o SubSeq(wire, 1, n) /\ wire' = SubSeq(wire, n + 1, Len(wire))
        /\ UNCHANGED <<asked, soll, recv, cur, cont, pc, status>>
    BY <2>1 DEF Receive, threads, Prefaced
  <2>3. n \in 1 .. Len(wire) /\ n \in 0 .. Len(wire) /\ wire \in Seq(Tokens)
        /\ buf \in Seq(Tokens)
    BY DEF Shapes
  <2>4. /\ SubSeq(wire, 1, n) \in Seq(Tokens)
        /\ wire' \in Seq(Tokens) /\ Len(wire') = 0
    BY <2>2, <2>3, Begun, Cut
  <2>5. buf' \in Seq(Tokens)
    <3> DEFINE u == SubSeq(wire, 1, n)
    <3> HIDE DEF u
    <3>1. buf \o u \in Seq(Tokens)
      BY <2>3, <2>4, ConcatProperties DEF u
    <3> QED
      BY <2>2, <3>1 DEF u
  <2>6. Coming' = Coming
    <3>1. (buf \o SubSeq(wire, 1, n)) \o SubSeq(wire, n + 1, Len(wire)) = buf \o wire
      BY <2>3, MoveComing
    <3> QED
      BY <2>2, <3>1, Zenon DEF Coming
  <2>7. Shapes' /\ Prefaced'
    BY <2>2, <2>4, <2>5 DEF Shapes, Prefaced
  <2>8. Len(Coming') = Len(buf')
    <3>1. Coming' = buf' \o wire'
      BY DEF Coming
    <3>2. Len(Coming') = Len(buf') + Len(wire') /\ Len(buf') \in Nat
      BY <2>4, <2>5, <3>1, ConcatProperties
    <3> QED
      BY <2>4, <3>2
  <2>9. PrefaceComing'
    BY <2>2, <2>6, <2>8 DEF PrefaceComing
  <2> QED
    BY <2>7, <2>9 DEF FramingInv
<1>2. CASE ReaderStep
  <2>1. rpc = "preface"
    BY <1>2 DEF PrefaceComing, ReaderStep, SwitchToHttp2, UploadStep, NeedMore, BadHeader,
       ParseHeader, MarkEnd, BadLength, NoContent, Content, UpgradeToWebSocket,
       UpgradeRefused, Dispatch
  <2>2. SwitchToHttp2
    BY <1>2, <2>1 DEF ReaderStep, SwitchToHttp2, UploadStep, NeedMore, BadHeader,
       ParseHeader, MarkEnd, BadLength, NoContent, Content, UpgradeToWebSocket,
       UpgradeRefused, Dispatch
  <2>3. Len(buf) >= 3 /\ buf[3] = Coming[3] /\ Coming[3] = Tail24(1)
    <3>1. Len(buf) >= 3 /\ Coming[3] = Tail24(1)
      BY <2>1 DEF PrefaceComing
    <3>2. Len(buf) \in Nat /\ \A i \in 1 .. Len(buf) : Coming[i] = buf[i]
      BY ComingShape
    <3> QED
      BY <3>1, <3>2
  <2>4. mode' = "http2" /\ rpc' = "idle"
    BY <2>2, <2>3 DEF SwitchToHttp2
  <2> QED
    BY <2>4 DEF Reading, Live
<1> QED
  BY <1>1, <1>2

LEMMA ThreadsAfterPreface ==
  ASSUME Shapes, Prefaced, PrefaceComing, NEW r \in Request, ThreadStep(r)
  PROVE  FramingInv'
<1>1. UNCHANGED <<asked, buf, wire, soll, recv, rpc, cur, cont>>
  BY DEF ThreadStep, WaitFirst, TakeFirst, WriteToSpawn, WriteFails, TakeNext, Respond,
         client, reader
<1>2. \E x \in PCs : pc' = [pc EXCEPT ![r] = x]
  BY DEF ThreadStep, WaitFirst, TakeFirst, WriteToSpawn, WriteFails, TakeNext, Respond, PCs
<1>3. status' = status \/ status' = [status EXCEPT ![r] = 200]
  BY DEF ThreadStep, WaitFirst, TakeFirst, WriteToSpawn, WriteFails, TakeNext, Respond
<1>4. pc' \in [Request -> PCs]
  BY <1>2 DEF Shapes
<1>5. status' \in [Request -> Nat]
  <2>1. CASE status' = status
    BY <2>1 DEF Shapes
  <2>2. CASE status' = [status EXCEPT ![r] = 200]
    BY <2>2 DEF Shapes
  <2> QED
    BY <1>3, <2>1, <2>2
<1>6. Shapes' /\ Prefaced' /\ Coming' = Coming
  BY <1>1, <1>4, <1>5 DEF Shapes, Prefaced, Coming
<1>7. PrefaceComing'
  BY <1>1, <1>6 DEF PrefaceComing
<1> QED
  BY <1>6, <1>7 DEF FramingInv

-----------------------------------------------------------------------------
\* What is closed stays closed, and no connection goes back to HTTP/1.
LEMMA LiveBefore == ASSUME [Next]_vars, Live' PROVE Live
<1>1. open' => open
  <2>1. CASE \E k \in Kinds : Ask(k)
    BY <2>1 DEF Ask
  <2>2. CASE \E r \in Request : SendBody(r)
    BY <2>2 DEF SendBody
  <2>3. CASE ClientCloses \/ OnTimeout \/ OnSocketClosing \/ UNCHANGED vars
    BY <2>3 DEF ClientCloses, OnTimeout, OnSocketClosing, vars
  <2>4. CASE \E n \in DOMAIN wire : Receive(n)
    BY <2>4 DEF Receive
  <2>5. CASE ReaderStep
    BY <2>5 DEF ReaderStep, SwitchToHttp2, UploadStep, NeedMore, BadHeader, Refuse,
       ParseHeader, MarkEnd, BadLength, NoContent, Content, UpgradeToWebSocket,
       UpgradeRefused, Dispatch
  <2>6. CASE \E r \in Request : ThreadStep(r)
    BY <2>6 DEF ThreadStep, WaitFirst, TakeFirst, WriteToSpawn, WriteFails, TakeNext,
       Respond
  <2> QED
    BY <2>1, <2>2, <2>3, <2>4, <2>5, <2>6, Zenon DEF Next
<1>2. mode' = "http1" => mode = "http1"
  <2>1. CASE \E k \in Kinds : Ask(k)
    BY <2>1 DEF Ask
  <2>2. CASE \E r \in Request : SendBody(r)
    BY <2>2 DEF SendBody, reader
  <2>3. CASE ClientCloses \/ OnTimeout \/ OnSocketClosing \/ UNCHANGED vars
    BY <2>3 DEF ClientCloses, OnTimeout, OnSocketClosing, vars, reader
  <2>4. CASE \E n \in DOMAIN wire : Receive(n)
    BY <2>4 DEF Receive
  <2>5. CASE ReaderStep
    BY <2>5 DEF ReaderStep, SwitchToHttp2, UploadStep, NeedMore, BadHeader, Refuse,
       ParseHeader, MarkEnd, BadLength, NoContent, Content, UpgradeToWebSocket,
       UpgradeRefused, Dispatch
  <2>6. CASE \E r \in Request : ThreadStep(r)
    BY <2>6 DEF ThreadStep, WaitFirst, TakeFirst, WriteToSpawn, WriteFails, TakeNext,
       Respond, reader
  <2> QED
    BY <2>1, <2>2, <2>3, <2>4, <2>5, <2>6, Zenon DEF Next
<1> QED
  BY <1>1, <1>2 DEF Live

\* And a reading thread at rest gets no more then.
LEMMA ReadingBefore == ASSUME [Next]_vars, Reading' PROVE Reading
<1>1. CASE Live'
  BY <1>1, LiveBefore DEF Reading
<1>2. CASE rpc' # "idle"
  <2> SUFFICES ASSUME rpc = "idle" PROVE Live
    BY DEF Reading
  <2>1. CASE \E n \in DOMAIN wire : Receive(n)
    BY <2>1 DEF Receive, Live
  <2>2. ~ReaderStep
    BY DEF ReaderStep, SwitchToHttp2, UploadStep, NeedMore, BadHeader, ParseHeader, MarkEnd,
       BadLength, NoContent, Content, UpgradeToWebSocket, UpgradeRefused, Dispatch
  <2>3. CASE \E k \in Kinds : Ask(k)
    BY <1>2, <2>3 DEF Ask, reader
  <2>4. CASE \E r \in Request : SendBody(r)
    BY <1>2, <2>4 DEF SendBody, reader
  <2>5. CASE ClientCloses \/ OnTimeout \/ OnSocketClosing \/ UNCHANGED vars
    BY <1>2, <2>5 DEF ClientCloses, OnTimeout, OnSocketClosing, vars, reader
  <2>6. CASE \E r \in Request : ThreadStep(r)
    BY <1>2, <2>6 DEF ThreadStep, WaitFirst, TakeFirst, WriteToSpawn, WriteFails, TakeNext,
       Respond, reader
  <2> QED
    BY <2>1, <2>2, <2>3, <2>4, <2>5, <2>6, Zenon DEF Next
<1> QED
  BY <1>1, <1>2 DEF Reading

\* Steps with which the reading thread is done.
LEMMA Closes ==
  ASSUME \/ OnTimeout \/ OnSocketClosing
         \/ BadHeader \/ BadLength \/ UpgradeToWebSocket \/ UpgradeRefused
  PROVE  ~Reading'
BY DEF OnTimeout, OnSocketClosing, BadHeader, BadLength, Refuse,
       UpgradeToWebSocket, UpgradeRefused, Reading, Live, reader

LEMMA NextFraming ==
  ASSUME ~PrefaceSplit, FramingInv, [Next]_vars
  PROVE  FramingInv'
<1> SUFFICES ASSUME Reading' PROVE FramingInv'
  BY DEF FramingInv
<1>1. Reading
  BY ReadingBefore
<1>2. Shapes /\ (IF Prefaced THEN PrefaceComing ELSE \E f \in Nat : Stands(f))
  BY <1>1 DEF FramingInv
<1>3. ~(\/ OnTimeout \/ OnSocketClosing
        \/ BadHeader \/ BadLength \/ UpgradeToWebSocket \/ UpgradeRefused)
  BY Closes
<1>4. CASE Prefaced
  <2>1. PrefaceComing
    BY <1>2, <1>4
  <2>2. CASE \E k \in Kinds : Ask(k)
    BY <1>2, <1>4, <2>1, <2>2, AskAfterPreface
  <2>3. CASE \E r \in Request : SendBody(r)
    BY <2>1, <2>3 DEF SendBody, PrefaceComing
  <2>4. CASE (\E n \in DOMAIN wire : Receive(n)) \/ ReaderStep
    BY <1>2, <1>4, <2>1, <2>4, PrefaceKeeps
  <2>5. CASE \E r \in Request : ThreadStep(r)
    BY <1>2, <1>4, <2>1, <2>5, ThreadsAfterPreface
  <2>6. CASE UNCHANGED vars \/ ClientCloses
    <3>1. Shapes' /\ Prefaced' /\ PrefaceComing'
      BY <1>2, <1>4, <2>1, <2>6 DEF ClientCloses, vars, client, reader, threads, Shapes, Prefaced,
         PrefaceComing, Coming
    <3> QED
      BY <3>1 DEF FramingInv
  <2> QED
    BY <1>3, <2>2, <2>3, <2>4, <2>5, <2>6, Zenon DEF Next
<1>5. CASE ~Prefaced
  <2>1. PICK f \in Nat : Stands(f)
    BY <1>2, <1>5
  <2>2. CASE \E k \in Kinds : Ask(k)
    BY <1>2, <1>5, <2>1, <2>2, AskKeeps, AskPrefaceKeeps
  <2>3. CASE \E r \in Request : SendBody(r)
    BY <1>2, <1>5, <2>1, <2>3, SendBodyKeeps
  <2>4. CASE \/ \E n \in DOMAIN wire : Receive(n)
             \/ SwitchToHttp2 \/ NeedMore \/ MarkEnd \/ NoContent \/ Dispatch
    BY <1>2, <1>5, <2>1, <2>4, ReadingKeeps
  <2>5. CASE UploadStep
    BY <1>2, <1>5, <2>1, <2>5, UploadKeeps
  <2>6. CASE ParseHeader
    BY <1>2, <1>5, <2>1, <2>6, ParseKeeps
  <2>7. CASE Content
    BY <1>2, <1>5, <2>1, <2>7, ContentKeeps
  <2>8. CASE \E r \in Request : ThreadStep(r)
    BY <1>2, <1>5, <2>1, <2>8, ThreadsKeep
  <2>9. CASE UNCHANGED vars \/ ClientCloses
    <3>1. UNCHANGED <<asked, buf, wire, soll, recv, rpc, cur, cont, pc, status>>
      BY <2>9 DEF ClientCloses, vars, client, reader, threads
    <3>2. pc' \in [Request -> PCs] /\ status' \in [Request -> Nat]
      BY <1>2, <3>1 DEF Shapes
    <3> QED
      BY <1>2, <1>5, <2>1, <3>1, <3>2, OthersKeep
  <2> QED
    BY <1>3, <2>2, <2>3, <2>4, <2>5, <2>6, <2>7, <2>8, <2>9, Zenon DEF Next, ReaderStep
<1> QED
  BY <1>4, <1>5

LEMMA FramingIs == FramingInv => FramingKept
<1> SUFFICES ASSUME FramingInv, rpc = "idle", open, mode = "http1", Coming # <<>>
             PROVE  Coming[1].part = IF soll = 0 THEN 1 ELSE recv + 3
  BY DEF FramingKept, Coming
<1>1. Shapes /\ (IF Prefaced THEN PrefaceComing ELSE \E f \in Nat : Stands(f))
  BY DEF FramingInv, Reading, Live
<1>2. CASE Prefaced
  <2>1. soll = 0 /\ Coming[1] = Token(1, 1)
    BY <1>1, <1>2 DEF PrefaceComing
  <2> QED
    BY <2>1, TokenShape
<1>3. CASE ~Prefaced
  <2>1. PICK f \in Nat : Stands(f)
    BY <1>1, <1>3
  <2>2. Coming[1] = IF soll = 0 THEN Token(f + 1, 1) ELSE Token(f, recv + 3)
    BY <2>1 DEF Stands, Arrives, Due, Missing
  <2>3. Token(f + 1, 1).part = 1 /\ Token(f, recv + 3).part = recv + 3
    <3>1. f + 1 \in Nat /\ recv + 3 \in Nat
      BY <1>1 DEF Shapes
    <3> QED
      BY <3>1, TokenShape
  <2> QED
    BY <2>2, <2>3
<1> QED
  BY <1>2, <1>3

\* However TCP cuts the stream and however the client pipelines its requests, the
\* reading thread and the client agree on what the next byte belongs to: the header
\* of the next request, or the body of this one at the place where it stopped. The
\* one condition is that the 24 bytes of the HTTP/2 preface are not cut.
THEOREM FramingIsKept == ASSUME ~PrefaceSplit PROVE Spec => []FramingKept
<1>1. Init => FramingInv
  BY InitFraming
<1>2. FramingInv /\ [Next]_vars => FramingInv'
  BY NextFraming
<1>3. FramingInv => FramingKept
  BY FramingIs
<1> QED
  BY <1>1, <1>2, <1>3, PTL DEF Spec

-----------------------------------------------------------------------------
(* The bodies, for a client that does not pipeline *)

\* s are tokens of the body of r, from the one after the first n on.
Run(s, r, n) == \A j \in 1 .. Len(s) : s[j] = Token(r, 2 + n + j)

\* The items of v are pieces of the body of r, of l tokens, one after the other, from
\* the token after the first a to the e-th; f counts how far each of them comes.
\* An end marker stands only behind the last.
Pieces(v, r, l, a, e) ==
  \E f \in [0 .. Len(v) -> Nat] :
    /\ f[0] = a /\ f[Len(v)] = e
    /\ \A m, n \in 0 .. Len(v) : m <= n => f[m] <= f[n]
    /\ \A m \in 1 .. Len(v) :
         /\ f[m] = f[m - 1] + Len(v[m]) /\ Run(v[m], r, f[m - 1])
         /\ v[m] = End => f[m] = l

\* v is what the reading thread has put there of the body, from the token after the
\* first a on, while so tokens are expected and re of them came.
Fed(v, so, re, r, l, a) ==
  /\ Pieces(v, r, l, a, IF so # 0 THEN re ELSE l)
  /\ so # 0 => re < so /\ so = l
  /\ so = 0 => v # <<>> /\ v[Len(v)] = End

Length(r) == BodyLen(asked[r])
Flow(r, a) == Fed(vec, soll, recv, r, Length(r), a)

\* What request r got so far is the beginning of its body, or all of it.
GotOk(r) == Len(got[r]) <= Length(r) /\ Run(got[r], r, 0)
GotAll(r) == Len(got[r]) = Length(r)

\* Nothing but end markers is there.
AllEnds(v) == \A i \in 1 .. Len(v) : v[i] = End
Drained == soll = 0 /\ AllEnds(vec)

\* The item in the hand of the thread is the next one; after a stop it may be one
\* that was used already.
Hand(r) ==
  \/ /\ Run(item[r], r, Len(got[r]))
     /\ IF item[r] = End THEN GotAll(r) /\ Drained ELSE Flow(r, Len(got[r]) + Len(item[r]))
  \/ stop /\ item[r] # End

\* The last request of the client, by the place of its thread.
Place(r) ==
  /\ pc[r] = "none" /\ Reading =>
       IF rpc = "dispatch" THEN Flow(r, 0) ELSE Drained /\ (rpc = "content" => vec # <<>>)
  /\ pc[r] \in {"wait", "first"} => got[r] = <<>> /\ Flow(r, 0)
  /\ pc[r] = "loop" => Hand(r)
  /\ pc[r] = "next" => item[r] # End /\ Flow(r, Len(got[r]))
  /\ pc[r] \in {"respond", "done"} /\ GotAll(r) /\ ~stop => Drained

BodyShapes ==
  /\ asked \in Seq(Kinds) /\ Len(asked) <= MaxRequests
  /\ soll \in Nat /\ recv \in Nat
  /\ vec \in Seq(Seq(Tokens)) /\ pc \in [Request -> PCs]
  /\ item \in [Request -> Seq(Tokens)] /\ got \in [Request -> Seq(Tokens)]

\* Threads are started one for each request, and an answer is the last a thread does.
Started ==
  /\ stop => ~open
  /\ \A r \in Request : pc[r] = "none" => got[r] = <<>>
  /\ \A r \in Request : r > Len(asked) => pc[r] = "none"
  /\ rpc \in {"mark", "content", "dispatch"} =>
       cur \in Request /\ cur <= Len(asked) /\ pc[cur] = "none"
  /\ Live => \A r \in Request : status[r] # 0 => pc[r] = "done"

\* No request has its thread before the one before it is done.
OneAtATime ==
  /\ \A r \in Request : r < Len(asked) => pc[r] = "done"
  /\ \A r \in Request : pc[r] # "undefined" /\ (pc[r] = "first" => vec # <<>>)

\* The requests before r got their bodies.
AllBefore(r) == \A q \in Request : q < r => GotAll(q)

Bodies ==
  /\ \A r \in Request : r <= Len(asked) /\ AllBefore(r) => GotOk(r)
  /\ \A r \in Request : r = Len(asked) /\ AllBefore(r) => Place(r)
  /\ Len(asked) = 0 => Drained

BodyInv == BodyShapes /\ Started /\ (~early => OneAtATime /\ Bodies)

LEMMA NoPieces ==
  ASSUME NEW r, NEW l, NEW a \in Nat
  PROVE  Pieces(<<>>, r, l, a, a)
<1> DEFINE f == [m \in 0 .. 0 |-> a]
<1>1. Len(<<>>) = 0
  OBVIOUS
<1>2. f \in [0 .. 0 -> Nat] /\ f[0] = a /\ \A m, n \in 0 .. 0 : f[m] <= f[n]
  OBVIOUS
<1> HIDE DEF f
<1>3. \A m \in 1 .. 0 : FALSE
  OBVIOUS
<1> QED
  BY <1>1, <1>2, <1>3 DEF Pieces

\* One more piece.
LEMMA PiecesAppend ==
  ASSUME NEW v \in Seq(Seq(Tokens)), NEW r, NEW l, NEW a, NEW e \in Nat, Pieces(v, r, l, a, e),
         NEW p \in Seq(Tokens), Run(p, r, e), p = End => e = l
  PROVE  Pieces(Append(v, p), r, l, a, e + Len(p))
<1> DEFINE w == Append(v, p)
           n == Len(v)
<1>1. PICK f \in [0 .. n -> Nat] :
        /\ f[0] = a /\ f[n] = e
        /\ \A m, o \in 0 .. n : m <= o => f[m] <= f[o]
        /\ \A m \in 1 .. n :
             /\ f[m] = f[m - 1] + Len(v[m]) /\ Run(v[m], r, f[m - 1])
             /\ v[m] = End => f[m] = l
  BY DEF Pieces
<1> DEFINE g == [m \in 0 .. n + 1 |-> IF m = n + 1 THEN e + Len(p) ELSE f[m]]
<1>2. n \in Nat /\ Len(w) = n + 1 /\ w[n + 1] = p /\ \A m \in 1 .. n : w[m] = v[m]
  OBVIOUS
<1>3. Len(p) \in Nat /\ (p = End <=> Len(p) = 0) /\ (p = End => e = l)
  BY EmptySeq DEF End
<1> HIDE DEF w, n
<1>4. /\ g \in [0 .. n + 1 -> Nat] /\ g[n + 1] = e + Len(p)
      /\ \A m \in 0 .. n : g[m] = f[m]
  <2>1. ASSUME NEW m \in 0 .. n + 1 PROVE (IF m = n + 1 THEN e + Len(p) ELSE f[m]) \in Nat
    <3>1. m # n + 1 => m \in 0 .. n
      BY <1>2
    <3> QED
      BY <1>3, <3>1
  <2>2. g \in [0 .. n + 1 -> Nat]
    BY <2>1
  <2>3. g[n + 1] = e + Len(p)
    BY <1>2
  <2>4. ASSUME NEW m \in 0 .. n PROVE g[m] = f[m]
    <3>1. m # n + 1 /\ m \in 0 .. n + 1
      BY <1>2
    <3> QED
      BY <3>1
  <2> QED
    BY <2>2, <2>3, <2>4
<1> HIDE DEF g
<1>5. g[0] = a
  BY <1>1, <1>2, <1>4
<1>6. ASSUME NEW m \in 0 .. n + 1, NEW o \in 0 .. n + 1, m <= o PROVE g[m] <= g[o]
  <2>1. CASE o = n + 1 /\ m \in 0 .. n
    <3>1. g[m] = f[m] /\ f[m] <= f[n] /\ f[m] \in Nat
      BY <1>1, <1>2, <1>4, <2>1
    <3> QED
      BY <1>1, <1>3, <1>4, <2>1, <3>1
  <2>2. CASE m = n + 1
    <3>1. o = m
      BY <1>2, <1>6, <2>2
    <3> QED
      BY <1>3, <1>4, <2>2, <3>1
  <2>3. CASE o \in 0 .. n /\ m \in 0 .. n
    BY <1>1, <1>4, <1>6, <2>3
  <2>4. (o = n + 1 \/ o \in 0 .. n) /\ (m = n + 1 \/ m \in 0 .. n)
    BY <1>2
  <2>5. o \in 0 .. n => m \in 0 .. n
    BY <1>2, <1>6
  <2> QED
    BY <2>1, <2>2, <2>3, <2>4, <2>5
<1>7. ASSUME NEW m \in 1 .. n + 1
      PROVE  /\ g[m] = g[m - 1] + Len(w[m]) /\ Run(w[m], r, g[m - 1])
             /\ w[m] = End => g[m] = l
  <2>1. CASE m = n + 1
    <3>1. g[m] = e + Len(p) /\ w[m] = p
      BY <1>2, <1>4, <2>1
    <3>2. m - 1 = n /\ n \in 0 .. n
      BY <1>2, <2>1
    <3>3. g[m - 1] = e
      BY <1>1, <1>4, <3>2
    <3>4. w[m] = End => g[m] = l
      BY <1>3, <3>1
    <3> QED
      BY <3>1, <3>3, <3>4
  <2>2. CASE m \in 1 .. n
    <3>1. m \in 0 .. n /\ m - 1 \in 0 .. n
      BY <1>2, <2>2
    <3>2. g[m] = f[m] /\ g[m - 1] = f[m - 1] /\ w[m] = v[m]
      BY <1>2, <1>4, <2>2, <3>1
    <3> QED
      BY <1>1, <2>2, <3>2
  <2>3. m = n + 1 \/ m \in 1 .. n
    BY <1>2
  <2> QED
    BY <2>1, <2>2, <2>3
<1>8. Pieces(w, r, l, a, e + Len(p))
  BY <1>2, <1>4, <1>5, <1>6, <1>7 DEF Pieces
<1> QED
  BY <1>8 DEF w

\* The first piece is taken.
LEMMA PiecesHead ==
  ASSUME NEW v \in Seq(Seq(Tokens)), v # <<>>, NEW r, NEW l, NEW a \in Nat, NEW e,
         Pieces(v, r, l, a, e)
  PROVE  /\ Head(v) \in Seq(Tokens) /\ Tail(v) \in Seq(Seq(Tokens))
         /\ Run(Head(v), r, a) /\ (Head(v) = End => a = l)
         /\ Pieces(Tail(v), r, l, a + Len(Head(v)), e)
<1> DEFINE w == Tail(v)
           h == Head(v)
           n == Len(v)
<1>1. PICK f \in [0 .. n -> Nat] :
        /\ f[0] = a /\ f[n] = e
        /\ \A m, o \in 0 .. n : m <= o => f[m] <= f[o]
        /\ \A m \in 1 .. n :
             /\ f[m] = f[m - 1] + Len(v[m]) /\ Run(v[m], r, f[m - 1])
             /\ v[m] = End => f[m] = l
  BY DEF Pieces
<1>2. n \in Nat /\ n >= 1
  BY EmptySeq
<1>3. /\ w \in Seq(Seq(Tokens)) /\ Len(w) = n - 1 /\ h = v[1] /\ h \in Seq(Tokens)
      /\ \A m \in 1 .. n - 1 : w[m] = v[m + 1]
  <2>1. /\ h \in Seq(Tokens) /\ w \in Seq(Seq(Tokens)) /\ Len(w) = n - 1
        /\ \A m \in 1 .. Len(w) : w[m] = v[m + 1]
    BY HeadTailProperties
  <2> QED
    BY <2>1
<1> HIDE DEF w, n, h
<1>4. Len(h) \in Nat /\ (h = End <=> Len(h) = 0)
  BY <1>3, EmptySeq DEF End
<1>5. f[1] = a + Len(h) /\ Run(h, r, a) /\ (h = End => a = l)
  <2>1. 1 \in 1 .. n /\ 1 - 1 = 0
    BY <1>2
  <2>2. f[1] = a + Len(h) /\ Run(h, r, a) /\ (h = End => f[1] = l)
    BY <1>1, <1>3, <2>1
  <2> QED
    BY <1>4, <2>2
<1> DEFINE g == [m \in 0 .. n - 1 |-> f[m + 1]]
<1>6. /\ g \in [0 .. n - 1 -> Nat] /\ \A m \in 0 .. n - 1 : g[m] = f[m + 1]
  <2>1. \A m \in 0 .. n - 1 : m + 1 \in 0 .. n
    BY <1>2
  <2> QED
    BY <2>1
<1> HIDE DEF g
<1>7. g[0] = a + Len(h) /\ g[n - 1] = e
  <2>1. 0 \in 0 .. n - 1 /\ n - 1 \in 0 .. n - 1 /\ 0 + 1 = 1 /\ (n - 1) + 1 = n
    BY <1>2
  <2> QED
    BY <1>1, <1>5, <1>6, <2>1
<1>8. ASSUME NEW m \in 0 .. n - 1, NEW o \in 0 .. n - 1, m <= o PROVE g[m] <= g[o]
  <2>1. m + 1 \in 0 .. n /\ o + 1 \in 0 .. n /\ m + 1 <= o + 1
    BY <1>2, <1>8
  <2> QED
    BY <1>1, <1>6, <2>1
<1>9. ASSUME NEW m \in 1 .. n - 1
      PROVE  /\ g[m] = g[m - 1] + Len(w[m]) /\ Run(w[m], r, g[m - 1])
             /\ w[m] = End => g[m] = l
  <2>1. m + 1 \in 1 .. n /\ (m + 1) - 1 = m /\ (m - 1) + 1 = m
        /\ m \in 0 .. n - 1 /\ m - 1 \in 0 .. n - 1
    BY <1>2
  <2>2. g[m] = f[m + 1] /\ g[m - 1] = f[m] /\ w[m] = v[m + 1]
    BY <1>3, <1>6, <2>1
  <2>3. /\ f[m + 1] = f[m] + Len(v[m + 1]) /\ Run(v[m + 1], r, f[m])
        /\ v[m + 1] = End => f[m + 1] = l
    BY <1>1, <2>1
  <2> QED
    BY <2>2, <2>3
<1>10. Pieces(w, r, l, a + Len(h), e)
  BY <1>3, <1>6, <1>7, <1>8, <1>9 DEF Pieces
<1> QED
  BY <1>3, <1>5, <1>10 DEF w, h

\* A body is not longer than its pieces say, and behind its last token only ends come.
LEMMA PiecesEnd ==
  ASSUME NEW v \in Seq(Seq(Tokens)), NEW r, NEW l, NEW a, NEW e, Pieces(v, r, l, a, e)
  PROVE  a \in Nat /\ e \in Nat /\ a <= e /\ (a = e => AllEnds(v))
<1> DEFINE n == Len(v)
<1>1. PICK f \in [0 .. n -> Nat] :
        /\ f[0] = a /\ f[n] = e
        /\ \A m, o \in 0 .. n : m <= o => f[m] <= f[o]
        /\ \A m \in 1 .. n : f[m] = f[m - 1] + Len(v[m])
  BY DEF Pieces
<1>2. n \in Nat /\ 0 \in 0 .. n /\ n \in 0 .. n /\ 0 <= n
  OBVIOUS
<1>3. a \in Nat /\ e \in Nat /\ a <= e
  BY <1>1, <1>2
<1>4. ASSUME a = e, NEW i \in 1 .. n PROVE v[i] = End
  <2>1. i \in 0 .. n /\ i - 1 \in 0 .. n /\ 0 <= i - 1 /\ i <= n /\ v[i] \in Seq(Tokens)
    OBVIOUS
  <2> HIDE DEF n
  <2>2. f[0] <= f[i - 1] /\ f[i] <= f[n] /\ f[i] \in Nat /\ f[i - 1] \in Nat
        /\ f[i] = f[i - 1] + Len(v[i])
    BY <1>1, <1>2, <2>1
  <2>3. Len(v[i]) = 0
    BY <1>1, <1>3, <1>4, <2>1, <2>2
  <2> QED
    BY <2>1, <2>3, EmptySeq DEF End
<1> QED
  BY <1>3, <1>4 DEF AllEnds

LEMMA EndsPieces ==
  ASSUME NEW v \in Seq(Seq(Tokens)), AllEnds(v), NEW r
  PROVE  Pieces(v, r, 0, 0, 0)
<1> DEFINE n == Len(v)
           f == [m \in 0 .. n |-> 0]
<1>1. n \in Nat
  OBVIOUS
<1>2. f \in [0 .. n -> Nat] /\ \A m \in 0 .. n : f[m] = 0
  OBVIOUS
<1> HIDE DEF f
<1>3. ASSUME NEW m \in 1 .. n
      PROVE  f[m] = 0 /\ f[m - 1] = 0 /\ v[m] = <<>> /\ Len(v[m]) = 0 /\ Run(v[m], r, f[m - 1])
  <2>1. m \in 0 .. n /\ m - 1 \in 0 .. n
    BY <1>1
  <2>2. v[m] = <<>> /\ Len(v[m]) = 0
    BY DEF AllEnds, End
  <2>3. \A j \in 1 .. 0 : FALSE
    OBVIOUS
  <2> QED
    BY <1>2, <2>1, <2>2, <2>3 DEF Run
<1>4. f[0] = 0 /\ f[n] = 0 /\ \A m, o \in 0 .. n : m <= o => f[m] <= f[o]
  BY <1>1, <1>2
<1> QED
  BY <1>2, <1>3, <1>4 DEF Pieces

LEMMA FedTake ==
  ASSUME NEW v \in Seq(Seq(Tokens)), v # <<>>, NEW so, NEW re, NEW r, NEW l, NEW a \in Nat,
         Fed(v, so, re, r, l, a)
  PROVE  /\ Head(v) \in Seq(Tokens) /\ Tail(v) \in Seq(Seq(Tokens)) /\ Run(Head(v), r, a)
         /\ IF Head(v) = End THEN a = l /\ so = 0 /\ AllEnds(Tail(v))
            ELSE Fed(Tail(v), so, re, r, l, a + Len(Head(v)))
<1> DEFINE h == Head(v)
           w == Tail(v)
           e == IF so # 0 THEN re ELSE l
<1>1. /\ h \in Seq(Tokens) /\ w \in Seq(Seq(Tokens)) /\ Run(h, r, a) /\ (h = End => a = l)
      /\ Pieces(w, r, l, a + Len(h), e)
  BY PiecesHead DEF Fed
<1>2. /\ Len(v) \in Nat /\ Len(v) >= 1 /\ h = v[1] /\ Len(w) = Len(v) - 1
      /\ \A m \in 1 .. Len(v) - 1 : w[m] = v[m + 1]
  BY HeadTailProperties, EmptySeq
<1>3. (so # 0 => re < so /\ so = l) /\ (so = 0 => v[Len(v)] = End)
  BY DEF Fed
<1> HIDE DEF h, w
<1>4. CASE h = End
  <2>1. Len(h) = 0 /\ a + Len(h) = a
    BY <1>4 DEF End
  <2>2. e \in Nat /\ a <= e /\ (a = e => AllEnds(w))
    BY <1>1, <2>1, PiecesEnd
  <2>3. so = 0
    BY <1>1, <1>3, <1>4, <2>2
  <2> QED
    BY <1>1, <1>4, <2>2, <2>3 DEF h, w
<1>5. CASE h # End
  <2>1. ASSUME so = 0 PROVE w # <<>> /\ w[Len(w)] = End
    <3>1. Len(v) # 1
      BY <1>2, <1>3, <1>5, <2>1
    <3>2. Len(w) \in 1 .. Len(v) - 1 /\ Len(w) + 1 = Len(v)
      BY <1>2, <3>1
    <3>3. w[Len(w)] = v[Len(w) + 1]
      BY <1>2, <3>2
    <3>4. Len(w) # 0
      BY <3>2
    <3> QED
      BY <1>1, <1>3, <2>1, <3>2, <3>3, <3>4, EmptySeq
  <2>2. Fed(w, so, re, r, l, a + Len(h))
    BY <1>1, <1>3, <2>1 DEF Fed
  <2> QED
    BY <1>1, <1>5, <2>2 DEF h, w
<1> QED
  BY <1>4, <1>5

\* No more than the body is there; of one without bytes there are only ends.
LEMMA FedBound ==
  ASSUME NEW v \in Seq(Seq(Tokens)), NEW so \in Nat, NEW re, NEW r, NEW l, NEW a,
         Fed(v, so, re, r, l, a)
  PROVE  a \in Nat /\ l \in Nat /\ a <= l /\ (so # 0 => a < l)
         /\ (l = 0 => so = 0 /\ AllEnds(v))
<1> DEFINE e == IF so # 0 THEN re ELSE l
<1>1. a \in Nat /\ e \in Nat /\ a <= e /\ (a = e => AllEnds(v))
  BY PiecesEnd DEF Fed
<1>2. so # 0 => re < so /\ so = l
  BY DEF Fed
<1> QED
  BY <1>1, <1>2

LEMMA EndsFed ==
  ASSUME NEW v \in Seq(Seq(Tokens)), v # <<>>, AllEnds(v), NEW re, NEW r
  PROVE  Fed(v, 0, re, r, 0, 0)
<1>1. Pieces(v, r, 0, 0, 0)
  BY EndsPieces
<1>2. v[Len(v)] = End
  <2>1. Len(v) \in 1 .. Len(v)
    BY EmptySeq
  <2> QED
    BY <2>1 DEF AllEnds
<1> QED
  BY <1>1, <1>2 DEF Fed

\* n more tokens have come, and behind the last the end.
LEMMA FedMore ==
  ASSUME NEW v \in Seq(Seq(Tokens)), NEW so \in Nat \ {0}, NEW re \in Nat, NEW r, NEW l, NEW a,
         Fed(v, so, re, r, l, a),
         NEW n \in Nat, re + n <= so, NEW p \in Seq(Tokens), Len(p) = n, Run(p, r, re)
  PROVE  LET last == re + n = so
             w == v \o (IF n = 0 THEN <<>> ELSE <<p>>) \o (IF last THEN <<End>> ELSE <<>>)
         IN  /\ w \in Seq(Seq(Tokens)) /\ (v # <<>> => w # <<>>)
             /\ Fed(w, IF last THEN 0 ELSE so, IF last THEN 0 ELSE re + n, r, l, a)
<1> DEFINE last == re + n = so
           S == Seq(Tokens)
           x == v \o (IF n = 0 THEN <<>> ELSE <<p>>)
           w == x \o (IF last THEN <<End>> ELSE <<>>)
<1>1. Pieces(v, r, l, a, re) /\ so = l
  BY DEF Fed
<1>2. End \in S
  BY DEF End
<1>3. x \in Seq(S) /\ Pieces(x, r, l, a, re + n) /\ (v # <<>> => x # <<>>)
  <2>1. CASE n = 0
    <3>1. v \o <<>> = v
      BY ConcatEmptySeq
    <3>2. x = v
      BY <2>1, <3>1
    <3>3. re + n = re
      BY <2>1
    <3> HIDE DEF x
    <3> QED
      BY <1>1, <3>2, <3>3
  <2>2. CASE n # 0
    <3>1. p # End
      BY <2>2 DEF End
    <3>2. Pieces(Append(v, p), r, l, a, re + n)
      BY <1>1, <3>1, PiecesAppend
    <3>3. Append(v, p) \in Seq(S) /\ Append(v, p) # <<>>
      BY AppendProperties
    <3>4. x = Append(v, p)
      BY <2>2, AppendIsConcat
    <3> QED
      BY <3>2, <3>3, <3>4
  <2> QED
    BY <2>1, <2>2
<1> HIDE DEF x, S
<1>4. CASE last
  <2>1. w = Append(x, End)
    BY <1>2, <1>3, <1>4, AppendIsConcat
  <2>2. w \in Seq(S) /\ w # <<>> /\ Len(w) = Len(x) + 1 /\ w[Len(x) + 1] = End
    BY <1>2, <1>3, <2>1, AppendProperties
  <2>3. Run(End, r, re + n) /\ re + n = l /\ re + n \in Nat /\ Len(End) = 0
    BY <1>1, <1>4 DEF Run, End
  <2>4. Pieces(w, r, l, a, l)
    <3>1. Pieces(Append(x, End), r, l, a, re + n + Len(End))
      BY <1>2, <1>3, <2>3, PiecesAppend DEF S
    <3>2. re + n + Len(End) = l
      BY <2>3
    <3> QED
      BY <2>1, <3>1, <3>2
  <2>5. Fed(w, 0, 0, r, l, a)
    BY <2>2, <2>4 DEF Fed
  <2> QED
    BY <1>4, <2>2, <2>5 DEF x, S
<1>5. CASE ~last
  <2>1. w = x
    BY <1>3, <1>5, ConcatEmptySeq
  <2>2. re + n < so
    BY <1>5
  <2>3. Fed(x, so, re + n, r, l, a)
    BY <1>1, <1>3, <2>2 DEF Fed
  <2>4. w \in Seq(S) /\ (v # <<>> => w # <<>>)
    BY <1>3, <2>1
  <2> HIDE DEF w
  <2>5. Fed(w, IF last THEN 0 ELSE so, IF last THEN 0 ELSE re + n, r, l, a)
    BY <1>5, <2>1, <2>3
  <2> QED
    BY <2>4, <2>5 DEF w, x, S
<1> QED
  BY <1>4, <1>5

\* Where threads are: only the last request has one at work, and is the one read.
LEMMA LastWorks ==
  ASSUME BodyShapes, Started, OneAtATime
  PROVE  /\ \A r \in Request : pc[r] \notin {"none", "done"} => r = Len(asked)
         /\ rpc \in {"mark", "content", "dispatch"} => cur = Len(asked) /\ cur \in Request
         /\ Len(asked) \in Nat
<1>1. Len(asked) \in Nat
  BY DEF BodyShapes
<1>2. ASSUME NEW r \in Request, pc[r] \notin {"none", "done"} PROVE r = Len(asked)
  <2>1. ~(r > Len(asked)) /\ ~(r < Len(asked))
    BY <1>2 DEF Started, OneAtATime
  <2> QED
    BY <1>1, <2>1 DEF Request
<1>3. ASSUME rpc \in {"mark", "content", "dispatch"} PROVE cur = Len(asked) /\ cur \in Request
  <2>1. cur \in Request /\ cur <= Len(asked) /\ pc[cur] = "none"
    BY <1>3 DEF Started
  <2>2. ~(cur < Len(asked))
    BY <2>1 DEF OneAtATime
  <2> QED
    BY <1>1, <2>1, <2>2 DEF Request
<1> QED
  BY <1>1, <1>2, <1>3

LEMMA LengthShape ==
  ASSUME BodyShapes, NEW r \in 1 .. Len(asked)
  PROVE  Length(r) \in Nat
<1>1. asked[r] \in Kinds
  BY DEF BodyShapes
<1> QED
  BY <1>1, KindShape DEF Length

\* Steps that give no script anything.
LEMMA SameGot ==
  ASSUME UNCHANGED <<asked, got>>, Bodies,
         \A r \in Request : r = Len(asked) /\ AllBefore(r) /\ Place(r) => Place(r)',
         Len(asked) = 0 /\ Drained => Drained'
  PROVE  Bodies'
<1>1. ASSUME NEW r \in Request
      PROVE  (AllBefore(r)' <=> AllBefore(r)) /\ (GotOk(r)' <=> GotOk(r))
  BY DEF AllBefore, GotAll, GotOk, Length
<1> QED
  BY <1>1, Zenon DEF Bodies

\* Steps that leave the queue and the threads alone.
LEMMA QuietKeeps ==
  ASSUME BodyInv, UNCHANGED <<asked, early, vec, soll, recv, pc, item, got>>,
         stop => stop', stop' => ~open', Live' => Live /\ status' = status,
         Reading' => Reading /\ (rpc = "dispatch" => rpc' = "dispatch"),
         rpc' \in {"mark", "content", "dispatch"} =>
           cur' \in Request /\ cur' <= Len(asked) /\ pc[cur'] = "none",
         rpc' = "content" => rpc = "content",
         rpc' = "dispatch" => rpc = "dispatch" \/ (rpc = "content" /\ asked[cur].len = 0)
  PROVE  BodyInv'
<1>1. BodyShapes'
  BY DEF BodyInv, BodyShapes
<1>2. Started'
  BY DEF BodyInv, Started
<1>3. ASSUME ~early PROVE OneAtATime' /\ Bodies'
  <2>1. BodyShapes /\ Started /\ OneAtATime /\ Bodies
    BY <1>3 DEF BodyInv
  <2>2. OneAtATime'
    BY <2>1 DEF OneAtATime
  <2>3. Drained' = Drained
    BY DEF Drained
  <2>4. ASSUME NEW r \in Request, r = Len(asked), Place(r) PROVE Place(r)'
    <3>1. \A a : Flow(r, a)' = Flow(r, a)
      BY DEF Flow, Length
    <3>2. Hand(r) => Hand(r)'
      BY <2>3, <3>1 DEF Hand, GotAll, Length
    <3>3. ASSUME pc[r] = "none", Reading', rpc' = "dispatch" PROVE Flow(r, 0)
      <4>1. CASE rpc = "dispatch"
        BY <2>4, <3>3, <4>1 DEF Place
      <4>2. CASE rpc = "content" /\ asked[cur].len = 0
        <5>1. Drained /\ vec # <<>>
          BY <2>4, <3>3, <4>2 DEF Place
        <5>2. Length(r) = 0
          BY <2>1, <2>4, <4>2, LastWorks DEF Length, BodyLen
        <5>3. Fed(vec, 0, recv, r, 0, 0)
          BY <2>1, <5>1, EndsFed DEF Drained, BodyShapes
        <5> QED
          BY <5>1, <5>2, <5>3 DEF Flow, Drained
      <4> QED
        BY <3>3, <4>1, <4>2
    <3>4. pc[r] = "none" /\ Reading' =>
            IF rpc' = "dispatch" THEN Flow(r, 0) ELSE Drained /\ (rpc' = "content" => vec # <<>>)
      <4> SUFFICES ASSUME pc[r] = "none", Reading', rpc' # "dispatch"
                   PROVE  Drained /\ (rpc' = "content" => vec # <<>>)
        BY <3>3
      <4>1. rpc # "dispatch" /\ Reading
        OBVIOUS
      <4>2. Drained /\ (rpc = "content" => vec # <<>>)
        BY <2>4, <4>1 DEF Place
      <4> QED
        BY <4>2
    <3>5. GotAll(r)' = GotAll(r)
      BY DEF GotAll, Length
    <3> QED
      BY <2>3, <2>4, <3>1, <3>2, <3>4, <3>5 DEF Place
  <2> QED
    BY <2>1, <2>2, <2>3, <2>4, SameGot
<1> QED
  BY <1>1, <1>2, <1>3 DEF BodyInv

\* The steps of the client, of the timer and of OnDataReceived that leave them alone.
LEMMA QuietSteps ==
  ASSUME FramingInv, BodyInv,
         \/ \E r \in Request : SendBody(r)
         \/ \E n \in DOMAIN wire : Receive(n)
         \/ ClientCloses \/ OnTimeout \/ OnSocketClosing \/ UNCHANGED vars
         \/ SwitchToHttp2 \/ NeedMore \/ BadHeader \/ ParseHeader \/ BadLength \/ NoContent
         \/ UpgradeToWebSocket \/ UpgradeRefused
  PROVE  BodyInv'
<1>0. Started
  BY DEF BodyInv
<1>1. CASE \E r \in Request : SendBody(r)
  <2>1. UNCHANGED <<asked, early, vec, soll, recv, pc, item, got, stop, open, mode, rpc, cur, status>>
    BY <1>1 DEF SendBody, reader, threads
  <2> QED
    BY <1>0, <2>1, QuietKeeps DEF Started, Live, Reading
<1>2. CASE \E n \in DOMAIN wire : Receive(n)
  <2>1. /\ UNCHANGED <<asked, early, vec, soll, recv, pc, item, got, stop, open, mode, cur, status>>
        /\ rpc = "idle" /\ rpc' \in {"upload", "preface"} /\ open /\ mode = "http1"
    BY <1>2 DEF Receive, threads
  <2> QED
    BY <1>0, <2>1, QuietKeeps DEF Started, Live, Reading
<1>3. CASE ClientCloses \/ OnTimeout \/ OnSocketClosing \/ UNCHANGED vars
  <2>1. /\ UNCHANGED <<asked, early, vec, soll, recv, pc, item, got, mode, cur, rpc>>
        /\ (stop => stop') /\ (stop' => ~open' \/ stop) /\ (open' => open /\ status' = status)
    BY <1>3 DEF ClientCloses, OnTimeout, OnSocketClosing, vars, client, reader, threads
  <2> QED
    BY <1>0, <2>1, QuietKeeps DEF Started, Live, Reading
<1>4. CASE SwitchToHttp2 \/ NeedMore \/ NoContent
  <2>1. /\ UNCHANGED <<asked, early, vec, soll, recv, pc, item, got, stop, open, cur, status>>
        /\ mode' \in {mode, "http2"}
        /\ \/ rpc = "preface" /\ rpc' \in {"idle", "header"}
           \/ rpc = "header" /\ rpc' = "idle"
           \/ rpc = "content" /\ rpc' = "dispatch" /\ asked[cur].len = 0
    BY <1>4 DEF SwitchToHttp2, NeedMore, NoContent, client, threads
  <2> QED
    BY <1>0, <2>1, QuietKeeps DEF Started, Live, Reading
<1>5. CASE BadHeader \/ BadLength \/ UpgradeToWebSocket \/ UpgradeRefused
  <2>1. /\ UNCHANGED <<asked, early, vec, soll, recv, pc, item, got>>
        /\ (stop => stop') /\ (stop' => ~open' \/ stop) /\ (open' => open)
        /\ rpc' = "idle" /\ ~Live' /\ ~Reading'
    BY <1>5 DEF BadHeader, BadLength, UpgradeToWebSocket, UpgradeRefused, Refuse,
       client, threads, Live, Reading
  <2> QED
    BY <1>0, <2>1, QuietKeeps DEF Started
<1>6. CASE ParseHeader
  <2>1. /\ UNCHANGED <<asked, early, vec, soll, recv, pc, item, got, stop, mode>>
        /\ (open' => open) /\ rpc = "header"
        /\ \/ rpc' = "idle" /\ ~open'
           \/ rpc' = "mark" /\ cur' = ParsedRequest /\ open' = open /\ status' = status
    BY <1>6, Zenon DEF ParseHeader, Refuse, client, threads
  <2>2. Shapes /\ (IF Prefaced THEN PrefaceComing ELSE \E f \in Nat : Stands(f))
    BY <2>1 DEF FramingInv, Reading
  <2>3. ~Prefaced
    BY <2>1, <2>2 DEF PrefaceComing
  <2>4. PICK f \in Nat : Stands(f)
    BY <2>2, <2>3
  <2>5. ParsedRequest = f + 1 /\ f + 1 \in 1 .. Len(asked)
    BY <1>6, <2>2, <2>4, ParsedNext
  <2>6. ParsedRequest \in Request /\ ParsedRequest <= Len(asked) /\ ParsedRequest > f
    BY <2>2, <2>5, Http1Assumption DEF Shapes, Request
  <2>7. pc[ParsedRequest] = "none"
    BY <2>4, <2>6 DEF Stands, Taken
  <2> QED
    BY <1>0, <2>1, <2>6, <2>7, QuietKeeps DEF Started, Live, Reading
<1> QED
  BY <1>1, <1>2, <1>3, <1>4, <1>5, <1>6

\* What is taken from the buffer for the body of f are the next tokens of it.
LEMMA BodyNext ==
  ASSUME Shapes, NEW f \in 1 .. Len(asked), NEW had \in Nat, had < asked[f].len,
         Whole(Coming, asked), Coming # <<>> => Coming[1] = Token(f, had + 3),
         NEW n \in Nat, n <= Len(buf), n <= asked[f].len - had
  PROVE  LET p == SubSeq(buf, 1, n)
         IN  p \in Seq(Tokens) /\ Len(p) = n /\ Run(p, f, had)
<1> DEFINE p == SubSeq(buf, 1, n)
           L == asked[f].len
<1>0. had < L /\ n <= L - had
  OBVIOUS
<1>1. /\ buf \in Seq(Tokens) /\ Len(buf) \in Nat /\ Len(wire) \in Nat
      /\ Len(Coming) = Len(buf) + Len(wire) /\ (Coming # <<>> <=> Len(Coming) > 0)
      /\ \A i \in 1 .. Len(buf) : Coming[i] = buf[i]
  BY ComingShape DEF Shapes
<1>2. p \in Seq(Tokens) /\ Len(p) = n /\ \A i \in 1 .. n : p[i] = buf[i]
  <2>1. n \in 0 .. Len(buf)
    BY <1>1
  <2> QED
    BY <1>1, <2>1, Begun
<1>3. L \in Nat /\ BodyLen(asked[f]) = L
  <2>1. asked[f] \in Kinds
    BY DEF Shapes
  <2> QED
    BY <2>1, KindShape DEF BodyLen
<1> HIDE DEF p, L
<1>4. ASSUME NEW j \in 1 .. n PROVE p[j] = Token(f, 2 + had + j)
  <2> DEFINE t == Coming[1]
             k == Until(t, asked) - t.part
  <2>1. Coming # <<>> /\ j \in 1 .. Len(buf)
    BY <1>1
  <2>2. t = Token(f, had + 3)
    BY <2>1
  <2>3. t.req = f /\ t.part = had + 3
    BY <2>2, TokenShape
  <2>4. k = L - had - 1
    <3>1. ~(t.part <= 2)
      BY <2>3
    <3>2. Until(t, asked) = 2 + L
      BY <1>3, <2>3, <3>1, Zenon DEF Until
    <3> QED
      BY <1>3, <2>3, <3>2
  <2>5. \A d \in 0 .. k : Coming[1 + d] = Token(f, had + 3 + d)
    BY <2>1, <2>3, FirstRun
  <2> HIDE DEF t, k
  <2>6. j - 1 \in 0 .. k /\ 1 + (j - 1) = j /\ had + 3 + (j - 1) = 2 + had + j
    BY <1>0, <1>3, <2>4
  <2>7. Coming[j] = Token(f, 2 + had + j)
    BY <2>5, <2>6
  <2> QED
    BY <1>1, <1>2, <2>1, <2>7
<1>5. Run(p, f, had)
  BY <1>2, <1>4 DEF Run
<1> QED
  BY <1>2, <1>5 DEF p

LEMMA MarkEndKeeps ==
  ASSUME BodyInv, MarkEnd
  PROVE  BodyInv'
<1>0. BodyShapes /\ Started
  BY DEF BodyInv
<1>1. /\ rpc = "mark" /\ rpc' = "content" /\ vec' = Append(vec, End)
      /\ UNCHANGED <<asked, early, soll, recv, pc, item, got, stop, open, mode, cur, status>>
  BY DEF MarkEnd, client, threads
<1>2. /\ vec' \in Seq(Seq(Tokens)) /\ vec' # <<>> /\ Len(vec') = Len(vec) + 1
      /\ \A i \in 1 .. Len(vec) : vec'[i] = vec[i]
      /\ vec'[Len(vec) + 1] = End
  <2>1. End \in Seq(Tokens) /\ vec \in Seq(Seq(Tokens))
    BY <1>0 DEF BodyShapes, End
  <2> QED
    BY <1>1, <2>1, AppendProperties
<1>3. BodyShapes' /\ Started'
  BY <1>0, <1>1, <1>2 DEF BodyShapes, Started, Live
<1>4. ASSUME ~early PROVE OneAtATime' /\ Bodies'
  <2>1. OneAtATime /\ Bodies
    BY <1>4 DEF BodyInv
  <2>2. cur = Len(asked) /\ cur \in Request /\ pc[cur] = "none"
    BY <1>0, <1>1, <2>1, LastWorks DEF Started
  <2>3. OneAtATime'
    BY <1>1, <1>2, <2>1 DEF OneAtATime
  <2>4. Drained => Drained'
    <3>1. Len(vec) \in Nat
      BY <1>0 DEF BodyShapes
    <3>2. \A i \in 1 .. Len(vec') : i \in 1 .. Len(vec) \/ i = Len(vec) + 1
      BY <1>2, <3>1
    <3> QED
      BY <1>1, <1>2, <3>2 DEF Drained, AllEnds
  <2>5. ASSUME Place(cur) PROVE Place(cur)'
    <3>1. Drained
      BY <1>1, <2>2, <2>5 DEF Place, Reading
    <3> QED
      BY <1>1, <1>2, <2>2, <2>4, <3>1 DEF Place
  <2> QED
    BY <1>1, <2>1, <2>2, <2>3, <2>4, <2>5, SameGot
<1> QED
  BY <1>1, <1>3, <1>4 DEF BodyInv

LEMMA ContentFeeds ==
  ASSUME FramingInv, BodyInv, Content
  PROVE  BodyInv'
<1>0. BodyShapes /\ Started
  BY DEF BodyInv
<1> DEFINE len == asked[cur].len
           n == Upload(len)
           last == n = len
           p == SubSeq(buf, 1, n)
<1>1. /\ rpc = "content" /\ rpc' = "dispatch" /\ len > 0
      /\ vec' = Payload(n) \o (IF last THEN <<End>> ELSE <<>>)
      /\ recv' = (IF last THEN 0 ELSE n) /\ soll' = (IF last THEN 0 ELSE len)
      /\ UNCHANGED <<asked, early, pc, item, got, stop, open, mode, cur, status>>
  BY DEF Content, client, threads
<1>2. Shapes /\ (IF Prefaced THEN PrefaceComing ELSE \E f \in Nat : Stands(f))
  BY <1>1 DEF FramingInv, Reading
<1>3. PICK f \in Nat : Stands(f)
  BY <1>1, <1>2 DEF PrefaceComing
<1>4. cur = f /\ soll = 0 /\ recv = 0 /\ cur \in 1 .. Len(asked)
  <2>1. cur = f /\ soll = 0 /\ recv = 0 /\ f > 0 /\ f \in 0 .. Len(asked)
    BY <1>1, <1>3 DEF Stands, Phase, Taken
  <2> QED
    BY <2>1
<1>5. len \in Nat /\ len # 0 /\ Length(cur) = len
  <2>1. asked[cur] \in Kinds
    BY <1>2, <1>4 DEF Shapes
  <2> QED
    BY <1>1, <2>1, KindShape DEF Length, BodyLen
<1>6. n \in Nat /\ n <= Len(buf) /\ n <= len
  <2>1. Len(buf) \in Nat
    BY <1>2 DEF Shapes
  <2> HIDE DEF len
  <2> QED
    BY <1>5, <2>1 DEF Upload, Smaller
<1>7. p \in Seq(Tokens) /\ Len(p) = n /\ Run(p, cur, 0)
  <2>1. Whole(Coming, asked) /\ (Coming # <<>> => Coming[1] = Token(cur, 3))
    <3>1. Missing(f) /\ recv + 3 = 3
      BY <1>1, <1>4 DEF Missing
    <3> QED
      BY <1>3, <1>4, <3>1 DEF Stands, Arrives, Due
  <2>2. 0 < asked[cur].len /\ n <= asked[cur].len - 0 /\ 0 + 3 = 3
    BY <1>1, <1>5, <1>6
  <2> HIDE DEF n
  <2> QED
    BY <1>2, <1>4, <1>6, <2>1, <2>2, BodyNext
<1> HIDE DEF len, n, p
<1> DEFINE w == <<>> \o (IF n = 0 THEN <<>> ELSE <<p>>) \o (IF 0 + n = len THEN <<End>> ELSE <<>>)
<1>8. vec' = w /\ 0 + n = n
  <2>1. <<>> \o (IF n = 0 THEN <<>> ELSE <<p>>) = IF n = 0 THEN <<>> ELSE <<p>>
    <3>1. (IF n = 0 THEN <<>> ELSE <<p>>) \in Seq(Seq(Tokens))
      BY <1>7
    <3> QED
      BY <3>1, ConcatEmptySeq
  <2>2. Payload(n) = IF n = 0 THEN <<>> ELSE <<p>>
    BY DEF Payload, p
  <2>3. 0 + n = n
    BY <1>6
  <2> QED
    BY <1>1, <2>1, <2>2, <2>3
<1>9. /\ w \in Seq(Seq(Tokens))
      /\ Fed(w, IF 0 + n = len THEN 0 ELSE len, IF 0 + n = len THEN 0 ELSE 0 + n, cur, len, 0)
  <2>1. Fed(<<>>, len, 0, cur, len, 0)
    BY <1>1, <1>5, NoPieces DEF Fed
  <2>2. <<>> \in Seq(Seq(Tokens)) /\ len \in Nat \ {0} /\ 0 \in Nat /\ 0 + n <= len
    BY <1>5, <1>6
  <2> QED
    BY <1>6, <1>7, <2>1, <2>2, FedMore
<1>10. vec' \in Seq(Seq(Tokens)) /\ Flow(cur, 0)'
  <2>1. Length(cur)' = len
    BY <1>1, <1>5 DEF Length
  <2> HIDE DEF w
  <2> QED
    BY <1>1, <1>8, <1>9, <2>1 DEF Flow
<1>11. BodyShapes' /\ Started'
  <2>1. soll' \in Nat /\ recv' \in Nat
    BY <1>1, <1>5, <1>6
  <2> QED
    BY <1>0, <1>1, <1>10, <2>1 DEF BodyShapes, Started, Live
<1>12. ASSUME ~early PROVE OneAtATime' /\ Bodies'
  <2>1. OneAtATime /\ Bodies
    BY <1>12 DEF BodyInv
  <2>2. cur = Len(asked) /\ cur \in Request /\ pc[cur] = "none"
    BY <1>0, <1>1, <2>1, LastWorks DEF Started
  <2>3. OneAtATime'
    <3>1. ASSUME NEW r \in Request PROVE pc[r] # "first"
      BY <1>0, <2>1, <2>2, LastWorks
    <3> QED
      BY <1>1, <2>1, <3>1 DEF OneAtATime
  <2>4. Place(cur)'
    BY <1>1, <1>10, <2>2 DEF Place
  <2>5. Len(asked) # 0
    BY <1>4
  <2> QED
    BY <1>1, <2>1, <2>2, <2>3, <2>4, <2>5, SameGot
<1> QED
  BY <1>1, <1>11, <1>12 DEF BodyInv

LEMMA FedShape ==
  ASSUME NEW v \in Seq(Seq(Tokens)), NEW n, NEW last, NEW p \in Seq(Tokens)
  PROVE  LET w == v \o (IF n = 0 THEN <<>> ELSE <<p>>) \o (IF last THEN <<End>> ELSE <<>>)
         IN  w \in Seq(Seq(Tokens)) /\ (v # <<>> => w # <<>>)
<1> DEFINE S == Seq(Tokens)
           x == IF n = 0 THEN <<>> ELSE <<p>>
           y == IF last THEN <<End>> ELSE <<>>
<1>1. x \in Seq(S) /\ y \in Seq(S) /\ v \in Seq(S)
  BY DEF End
<1> HIDE DEF x, y, S
<1>2. v \o x \in Seq(S) /\ Len(v \o x) = Len(v) + Len(x)
  BY <1>1, ConcatProperties
<1>3. (v \o x) \o y \in Seq(S) /\ Len((v \o x) \o y) = Len(v \o x) + Len(y)
  BY <1>1, <1>2, ConcatProperties
<1>4. Len(v) \in Nat /\ Len(x) \in Nat /\ Len(y) \in Nat /\ (v # <<>> => Len(v) # 0)
  BY <1>1, EmptySeq
<1>5. v # <<>> => (v \o x) \o y # <<>>
  <2>1. Len(<<>>) = 0
    OBVIOUS
  <2> QED
    BY <1>2, <1>3, <1>4, <2>1
<1> QED
  BY <1>3, <1>5 DEF x, y, S

LEMMA UploadFeeds ==
  ASSUME FramingInv, BodyInv, UploadStep
  PROVE  BodyInv'
<1>0. BodyShapes /\ Started
  BY DEF BodyInv
<1> DEFINE n == Upload(soll - recv)
           last == recv + n = soll
           p == SubSeq(buf, 1, n)
           w == vec \o (IF n = 0 THEN <<>> ELSE <<p>>) \o (IF last THEN <<End>> ELSE <<>>)
<1>1. /\ rpc = "upload" /\ rpc' \in {"header", "idle"} /\ vec' = w
      /\ recv' = (IF last THEN 0 ELSE recv + n) /\ soll' = (IF last THEN 0 ELSE soll)
      /\ UNCHANGED <<asked, early, pc, item, got, stop, open, mode, cur, status>>
  <2>1. Payload(n) = IF n = 0 THEN <<>> ELSE <<p>>
    BY DEF Payload
  <2> QED
    BY <2>1 DEF UploadStep, client, threads
<1>2. Shapes /\ (IF Prefaced THEN PrefaceComing ELSE \E f \in Nat : Stands(f))
  BY <1>1 DEF FramingInv, Reading
<1>3. PICK f \in Nat : Stands(f)
  BY <1>1, <1>2 DEF PrefaceComing
<1>4. /\ soll \in Nat \ {0} /\ recv \in Nat /\ recv < soll /\ f \in 1 .. Len(asked)
      /\ soll = asked[f].len
  <2>1. soll # 0 /\ recv < soll /\ f > 0 /\ soll = asked[f].len /\ f \in 0 .. Len(asked)
    BY <1>1, <1>3 DEF Stands, Phase, Taken
  <2>2. soll \in Nat /\ recv \in Nat
    BY <1>2 DEF Shapes
  <2> QED
    BY <2>1, <2>2
<1>5. n \in Nat /\ n <= Len(buf) /\ n <= soll - recv /\ recv + n <= soll
  <2>1. Len(buf) \in Nat
    BY <1>2 DEF Shapes
  <2> QED
    BY <1>4, <2>1 DEF Upload, Smaller
<1>6. p \in Seq(Tokens) /\ Len(p) = n /\ Run(p, f, recv)
  <2>1. Whole(Coming, asked) /\ (Coming # <<>> => Coming[1] = Token(f, recv + 3))
    <3>1. Missing(f)
      BY <1>4 DEF Missing
    <3> QED
      BY <1>3, <3>1 DEF Stands, Arrives, Due
  <2> HIDE DEF n
  <2> QED
    BY <1>2, <1>4, <1>5, <2>1, BodyNext
<1> HIDE DEF n, p
<1>7. vec' \in Seq(Seq(Tokens)) /\ (vec # <<>> => vec' # <<>>)
  <2>1. vec \in Seq(Seq(Tokens))
    BY <1>0 DEF BodyShapes
  <2>2. w \in Seq(Seq(Tokens)) /\ (vec # <<>> => w # <<>>)
    BY <1>6, <2>1, FedShape
  <2> HIDE DEF w
  <2> QED
    BY <1>1, <2>2
<1>8. ASSUME NEW a, Flow(f, a) PROVE Flow(f, a)'
  <2>1. vec \in Seq(Seq(Tokens)) /\ Fed(vec, soll, recv, f, Length(f), a)
    BY <1>0, <1>8 DEF BodyShapes, Flow
  <2>2. Fed(w, IF last THEN 0 ELSE soll, IF last THEN 0 ELSE recv + n, f, Length(f), a)
    BY <1>4, <1>5, <1>6, <2>1, FedMore
  <2>3. Length(f)' = Length(f)
    BY <1>1 DEF Length
  <2> HIDE DEF w, last
  <2> QED
    BY <1>1, <2>2, <2>3 DEF Flow
<1> HIDE DEF w
<1>9. BodyShapes' /\ Started'
  <2>1. soll' \in Nat /\ recv' \in Nat
    BY <1>1, <1>4, <1>5
  <2> QED
    BY <1>0, <1>1, <1>7, <2>1 DEF BodyShapes, Started, Live
<1>10. ASSUME ~early PROVE OneAtATime' /\ Bodies'
  <2>1. OneAtATime /\ Bodies
    BY <1>10 DEF BodyInv
  <2>2. OneAtATime'
    BY <1>1, <1>7, <2>1 DEF OneAtATime
  <2>3. ~Drained
    BY <1>4 DEF Drained
  <2>4. ASSUME NEW r \in Request, r = Len(asked), Place(r) PROVE Place(r)'
    <3>1. pc[r] # "none"
      BY <1>1, <2>3, <2>4 DEF Place, Reading
    <3>2. r = f
      <4>1. ~(r > f)
        BY <1>3, <3>1 DEF Stands, Taken
      <4> QED
        BY <1>4, <2>4, <4>1 DEF Request
    <3>3. pc[r] = "loop" => Hand(r)'
      <4>1. ASSUME pc[r] = "loop", ~(stop /\ item[r] # End) PROVE Hand(r)'
        <5>1. /\ Run(item[r], r, Len(got[r])) /\ item[r] # End
              /\ Flow(r, Len(got[r]) + Len(item[r]))
          BY <2>3, <2>4, <4>1 DEF Place, Hand
        <5>2. Flow(r, Len(got[r]) + Len(item[r]))'
          BY <1>1, <1>8, <3>2, <5>1
        <5> QED
          BY <1>1, <5>1, <5>2 DEF Hand
      <4> QED
        BY <1>1, <4>1 DEF Hand
    <3>4. pc[r] \in {"wait", "first"} => got[r] = <<>> /\ Flow(r, 0)'
      BY <1>8, <2>4, <3>2 DEF Place
    <3>5. pc[r] = "next" => item[r] # End /\ Flow(r, Len(got[r]))'
      BY <1>1, <1>8, <2>4, <3>2 DEF Place
    <3>6. ~(pc[r] \in {"respond", "done"} /\ GotAll(r) /\ ~stop)
      BY <2>3, <2>4 DEF Place
    <3>7. GotAll(r)' = GotAll(r)
      BY <1>1 DEF GotAll, Length
    <3> QED
      BY <1>1, <3>1, <3>3, <3>4, <3>5, <3>6, <3>7 DEF Place
  <2> QED
    BY <1>1, <2>1, <2>2, <2>3, <2>4, SameGot
<1> QED
  BY <1>1, <1>9, <1>10 DEF BodyInv

LEMMA DispatchKeeps ==
  ASSUME BodyInv, Dispatch
  PROVE  BodyInv'
<1>0. BodyShapes /\ Started
  BY DEF BodyInv
<1>1. /\ rpc = "dispatch" /\ rpc' = "idle"
      /\ pc' = [pc EXCEPT ![cur] = IF asked[cur].reads THEN "wait" ELSE "respond"]
      /\ mode' \in {mode, "http2"}
      /\ UNCHANGED <<asked, early, soll, recv, vec, item, got, stop, open, status>>
  BY DEF Dispatch, client
<1>2. cur \in Request /\ cur <= Len(asked) /\ pc[cur] = "none" /\ got[cur] = <<>>
  BY <1>0, <1>1 DEF Started
<1>3. pc \in [Request -> PCs] /\ pc' \in [Request -> PCs]
  BY <1>0, <1>1 DEF BodyShapes, PCs
<1>4. pc'[cur] \in {"wait", "respond"} /\ \A r \in Request \ {cur} : pc'[r] = pc[r]
  BY <1>1, <1>2, <1>3
<1>5. BodyShapes'
  BY <1>0, <1>1, <1>3 DEF BodyShapes
<1>6. Started'
  <2>1. ASSUME NEW r \in Request, r > Len(asked) PROVE pc'[r] = "none"
    <3>1. r # cur
      BY <1>0, <1>2, <2>1 DEF BodyShapes, Request
    <3> QED
      BY <1>0, <1>4, <2>1, <3>1 DEF Started
  <2>2. ASSUME NEW r \in Request, Live', status[r] # 0 PROVE pc'[r] = "done"
    <3>1. Live
      BY <1>1, <2>2 DEF Live
    <3>2. pc[r] = "done"
      BY <1>0, <2>2, <3>1 DEF Started
    <3>3. r # cur
      BY <1>2, <3>2
    <3> QED
      BY <1>4, <3>2, <3>3
  <2>3. ASSUME NEW r \in Request, pc'[r] = "none" PROVE got[r] = <<>>
    BY <1>0, <1>2, <1>4, <2>3 DEF Started
  <2> QED
    BY <1>0, <1>1, <2>1, <2>2, <2>3 DEF Started
<1>7. ASSUME ~early PROVE OneAtATime' /\ Bodies'
  <2>1. OneAtATime /\ Bodies
    BY <1>7 DEF BodyInv
  <2>2. cur = Len(asked) /\ Len(asked) \in Nat
    BY <1>0, <1>1, <2>1, LastWorks
  <2>3. OneAtATime'
    <3>1. ASSUME NEW r \in Request, r < Len(asked) PROVE pc'[r] = "done"
      <4>1. r # cur /\ pc[r] = "done"
        BY <2>1, <2>2, <3>1 DEF OneAtATime, Request
      <4> QED
        BY <1>4, <4>1
    <3> QED
      BY <1>1, <1>4, <2>1, <3>1 DEF OneAtATime
  <2>4. ASSUME NEW r \in Request, r = Len(asked), Place(r) PROVE Place(r)'
    <3>0. r = cur /\ pc[r] = "none" /\ got[r] = <<>> /\ pc'[r] \in {"wait", "respond"}
      BY <1>2, <1>4, <2>2, <2>4
    <3>1. Flow(r, 0)
      BY <1>1, <2>4, <3>0 DEF Place, Reading
    <3>2. Flow(r, 0)' = Flow(r, 0) /\ Drained' = Drained
      BY <1>1 DEF Flow, Length, Drained
    <3>3. GotAll(r)' => Drained
      <4> SUFFICES ASSUME GotAll(r)' PROVE Drained
        OBVIOUS
      <4>1. Length(r) = 0
        BY <1>1, <3>0 DEF GotAll, Length
      <4>2. Fed(vec, soll, recv, r, 0, 0) /\ vec \in Seq(Seq(Tokens)) /\ soll \in Nat
        BY <1>0, <3>1, <4>1 DEF Flow, BodyShapes
      <4> QED
        BY <4>2, FedBound DEF Drained
    <3> QED
      BY <1>1, <3>0, <3>1, <3>2, <3>3 DEF Place
  <2> QED
    <3>1. Len(asked) # 0
      BY <1>2, <2>2 DEF Request
    <3> QED
      BY <1>1, <2>1, <2>3, <2>4, <3>1, SameGot
<1> QED
  BY <1>1, <1>5, <1>6, <1>7 DEF BodyInv

\* A client that does not pipeline asks when the thread of its last request is done.
LEMMA AskBegins ==
  ASSUME BodyInv, NEW k \in Kinds, Ask(k)
  PROVE  BodyInv'
<1>0. BodyShapes /\ Started
  BY DEF BodyInv
<1> DEFINE N == Len(asked)
<1>1. /\ Live /\ N < MaxRequests /\ early' = (early \/ ~Answered) /\ asked' = Append(asked, k)
      /\ UNCHANGED <<vec, soll, recv, rpc, cur, mode, pc, item, got, stop, open, status>>
  BY DEF Ask, reader, threads, Live
<1>2. /\ asked' \in Seq(Kinds) /\ Len(asked') = N + 1 /\ N \in Nat
      /\ \A r \in 1 .. N : asked'[r] = asked[r]
  <2>1. asked \in Seq(Kinds)
    BY <1>0 DEF BodyShapes
  <2> QED
    BY <1>1, <2>1, AppendProperties
<1> HIDE DEF N
<1>3. BodyShapes'
  BY <1>0, <1>1, <1>2, Http1Assumption DEF BodyShapes
<1>4. Started'
  <2>1. ASSUME NEW r \in Request, r > N + 1 PROVE pc[r] = "none"
    <3>1. r > N
      BY <1>2, <2>1 DEF Request
    <3> QED
      BY <1>0, <3>1 DEF Started, N
  <2>2. cur \in Request /\ cur <= N => cur <= N + 1
    BY <1>2 DEF Request
  <2> QED
    BY <1>0, <1>1, <1>2, <2>1, <2>2 DEF Started, Live, N
<1>5. ASSUME ~early' PROVE OneAtATime' /\ Bodies'
  <2>1. OneAtATime /\ Bodies /\ Answered
    BY <1>1, <1>5 DEF BodyInv
  <2>2. ASSUME NEW r \in Request, r <= N PROVE pc[r] = "done" /\ r \in DOMAIN asked
    <3>1. r \in DOMAIN asked
      BY <1>0, <2>2 DEF BodyShapes, Request, N
    <3>2. CASE r = N
      <4>1. status[r] # 0
        BY <2>1, <3>1, <3>2 DEF Answered, N
      <4> QED
        BY <1>0, <1>1, <3>1, <4>1 DEF Started
    <3>3. CASE r # N
      <4>1. r < N
        BY <1>2, <2>2, <3>3 DEF Request
      <4> QED
        BY <2>1, <3>1, <4>1 DEF OneAtATime, N
    <3> QED
      BY <3>2, <3>3
  <2>3. OneAtATime'
    <3>1. ASSUME NEW r \in Request, r < N + 1 PROVE pc[r] = "done"
      <4>1. r <= N
        BY <1>2, <3>1 DEF Request
      <4> QED
        BY <2>2, <4>1
    <3> QED
      BY <1>1, <1>2, <2>1, <3>1 DEF OneAtATime
  <2>4. rpc \notin {"content", "dispatch"}
    <3>1. ASSUME rpc \in {"content", "dispatch"} PROVE FALSE
      <4>1. cur \in Request /\ cur <= N /\ pc[cur] = "none"
        BY <1>0, <3>1 DEF Started, N
      <4> QED
        BY <2>2, <4>1
    <3> QED
      BY <3>1
  <2>5. ASSUME NEW r \in Request, r <= N PROVE Length(r)' = Length(r)
    BY <1>2, <2>5 DEF Length, Request
  <2>6. ASSUME NEW r \in Request, r <= N + 1, AllBefore(r)'
        PROVE  AllBefore(r)
    <3>1. ASSUME NEW q \in Request, q < r PROVE GotAll(q)
      <4>1. q <= N
        BY <1>2, <2>6, <3>1 DEF Request
      <4>2. GotAll(q)'
        BY <2>6, <3>1 DEF AllBefore
      <4> QED
        BY <1>1, <2>5, <4>1, <4>2 DEF GotAll
    <3> QED
      BY <3>1 DEF AllBefore
  <2>7. ASSUME NEW r \in Request, r = N + 1 PROVE pc[r] = "none" /\ got[r] = <<>>
    <3>1. r > N
      BY <1>2, <2>7
    <3> QED
      BY <1>0, <3>1 DEF Started, N
  <2>8. ASSUME NEW r \in Request, r <= N + 1, AllBefore(r)' PROVE GotOk(r)'
    <3>1. CASE r <= N
      <4>1. GotOk(r)
        BY <2>1, <2>6, <2>8, <3>1 DEF Bodies, N
      <4> QED
        BY <1>1, <2>5, <3>1, <4>1 DEF GotOk
    <3>2. CASE r = N + 1
      <4>1. got'[r] = <<>> /\ Len(<<>>) = 0 /\ \A j \in 1 .. 0 : FALSE
        BY <1>1, <2>7, <3>2
      <4>2. Length(r)' \in Nat
        <5>1. r \in 1 .. Len(asked')
          BY <1>2, <3>2
        <5>2. asked'[r] \in Kinds
          BY <1>2, <5>1
        <5> QED
          BY <5>2, KindShape DEF Length
      <4> QED
        BY <4>1, <4>2 DEF GotOk, Run
    <3> QED
      BY <1>2, <2>8, <3>1, <3>2 DEF Request
  <2>9. ASSUME NEW r \in Request, r = N + 1, AllBefore(r)' PROVE Place(r)'
    <3>1. AllBefore(r)
      BY <1>2, <2>6, <2>9
    <3>2. Drained
      <4>1. CASE N = 0
        BY <2>1, <4>1 DEF Bodies, N
      <4>2. CASE N # 0
        <5>1. N \in Request /\ N < r
          BY <1>1, <1>2, <2>9, <4>2, Http1Assumption DEF Request
        <5>2. GotAll(N) /\ AllBefore(N)
          <6>1. ASSUME NEW q \in Request, q < N PROVE q < r
            BY <1>2, <2>9, <6>1 DEF Request
          <6> QED
            BY <3>1, <5>1, <6>1 DEF AllBefore
        <5>3. Place(N)
          BY <2>1, <5>1, <5>2 DEF Bodies, N
        <5>4. pc[N] = "done" /\ ~stop
          <6>1. N <= N
            BY <1>2
          <6> QED
            BY <1>0, <1>1, <2>2, <5>1, <6>1 DEF Started, Live
        <5> QED
          BY <5>2, <5>3, <5>4 DEF Place
      <4> QED
        BY <4>1, <4>2
    <3>3. Drained' /\ rpc' \notin {"content", "dispatch"} /\ pc'[r] = "none"
      BY <1>1, <2>4, <2>7, <2>9, <3>2 DEF Drained
    <3> QED
      BY <3>3 DEF Place
  <2>10. Len(asked') # 0
    BY <1>2
  <2> QED
    BY <1>2, <2>3, <2>8, <2>9, <2>10 DEF Bodies
<1> QED
  BY <1>3, <1>4, <1>5 DEF BodyInv

\* What a step of a thread may change, whatever step it is.
LEMMA ThreadFrame ==
  ASSUME BodyShapes, NEW r \in Request, ThreadStep(r)
  PROVE  /\ UNCHANGED <<asked, early, soll, recv, rpc, cur, mode, stop>> /\ (open' => open)
         /\ pc[r] \notin {"none", "done"}
         /\ pc' \in [Request -> PCs] /\ pc'[r] # "none"
         /\ item' \in [Request -> Seq(Tokens)] /\ got' \in [Request -> Seq(Tokens)]
         /\ vec' \in Seq(Seq(Tokens))
         /\ \A q \in Request \ {r} : pc'[q] = pc[q] /\ got'[q] = got[q]
         /\ \A q \in Request : status'[q] = status[q] \/ (q = r /\ pc'[r] = "done")
<1> USE DEF BodyShapes
<1>0. UNCHANGED <<client, reader, stop>> /\ (open' => open)
  <2>1. CASE Respond(r)
    BY <2>1 DEF Respond
  <2>2. CASE WaitFirst(r) \/ WriteToSpawn(r) \/ WriteFails(r)
    BY <2>2 DEF WaitFirst, WriteToSpawn, WriteFails
  <2>3. CASE TakeFirst(r) \/ TakeNext(r)
    BY <2>3 DEF TakeFirst, TakeNext
  <2> QED
    BY <2>1, <2>2, <2>3 DEF ThreadStep
<1>1. UNCHANGED <<asked, early, soll, recv, rpc, cur, mode, stop>> /\ (open' => open)
  BY <1>0 DEF client, reader
<1>2. pc[r] \notin {"none", "done"}
  BY DEF ThreadStep, WaitFirst, TakeFirst, WriteToSpawn, WriteFails, TakeNext, Respond
<1>3. \E x \in PCs \ {"none"} : pc' = [pc EXCEPT ![r] = x]
  BY DEF ThreadStep, WaitFirst, TakeFirst, WriteToSpawn, WriteFails, TakeNext, Respond, PCs
<1>4. pc' \in [Request -> PCs] /\ pc'[r] # "none" /\ \A q \in Request \ {r} : pc'[q] = pc[q]
  BY <1>3
<1>5. \/ vec' = vec /\ item' = item
      \/ vec # <<>> /\ vec' = Tail(vec) /\ item' = [item EXCEPT ![r] = Head(vec)]
  BY DEF ThreadStep, WaitFirst, TakeFirst, WriteToSpawn, WriteFails, TakeNext, Respond
<1>6. vec' \in Seq(Seq(Tokens)) /\ item' \in [Request -> Seq(Tokens)]
  <2>1. vec # <<>> => Head(vec) \in Seq(Tokens) /\ Tail(vec) \in Seq(Seq(Tokens))
    BY HeadTailProperties
  <2> QED
    BY <1>5, <2>1
<1>7. got' = got \/ got' = [got EXCEPT ![r] = got[r] \o item[r]]
  BY DEF ThreadStep, WaitFirst, TakeFirst, WriteToSpawn, WriteFails, TakeNext, Respond
<1>8. got' \in [Request -> Seq(Tokens)] /\ \A q \in Request \ {r} : got'[q] = got[q]
  <2>1. got[r] \o item[r] \in Seq(Tokens)
    BY ConcatProperties
  <2> QED
    BY <1>7, <2>1
<1>9. \A q \in Request : status'[q] = status[q] \/ (q = r /\ pc'[r] = "done")
  <2>1. CASE Respond(r)
    BY <2>1 DEF Respond
  <2>2. CASE ~Respond(r)
    BY <2>2 DEF ThreadStep, WaitFirst, TakeFirst, WriteToSpawn, WriteFails, TakeNext
  <2> QED
    BY <2>1, <2>2
<1> QED
  BY <1>1, <1>2, <1>4, <1>6, <1>8, <1>9

LEMMA ThreadStarted ==
  ASSUME BodyShapes, Started, NEW r \in Request, ThreadStep(r)
  PROVE  Started'
<1>1. /\ UNCHANGED <<asked, rpc, cur, mode, stop>> /\ (open' => open)
      /\ pc[r] \notin {"none", "done"} /\ pc'[r] # "none"
      /\ \A q \in Request \ {r} : pc'[q] = pc[q] /\ got'[q] = got[q]
      /\ \A q \in Request : status'[q] = status[q] \/ (q = r /\ pc'[r] = "done")
  BY ThreadFrame
<1>2. ASSUME NEW q \in Request, pc[q] = "none" PROVE pc'[q] = "none" /\ got'[q] = got[q]
  <2>1. q \in Request \ {r}
    BY <1>1, <1>2
  <2> QED
    BY <1>1, <1>2, <2>1
<1>3. ASSUME NEW q \in Request, pc'[q] = "none" PROVE got'[q] = <<>>
  <2>1. q \in Request \ {r}
    BY <1>1, <1>3
  <2> QED
    BY <1>1, <1>3, <2>1 DEF Started
<1>4. ASSUME Live', NEW q \in Request, status'[q] # 0 PROVE pc'[q] = "done"
  <2>1. Live
    BY <1>1, <1>4 DEF Live
  <2>2. CASE q = r /\ pc'[r] = "done"
    BY <2>2
  <2>3. CASE status'[q] = status[q]
    <3>1. pc[q] = "done"
      BY <1>4, <2>1, <2>3 DEF Started
    <3>2. q \in Request \ {r}
      BY <1>1, <3>1
    <3> QED
      BY <1>1, <3>1, <3>2
  <2> QED
    BY <1>1, <2>2, <2>3
<1> QED
  BY <1>1, <1>2, <1>3, <1>4 DEF Started

\* The last thread's steps, by its new place.
LEMMA ThreadPlace ==
  ASSUME BodyShapes, OneAtATime, NEW r \in Request, r = Len(asked), ThreadStep(r),
         Place(r), GotOk(r)
  PROVE  Place(r)' /\ GotOk(r)'
<1> USE DEF BodyShapes
<1>1. /\ UNCHANGED <<asked, soll, recv, stop>> /\ pc'[r] # "none"
  BY ThreadFrame
<1>2. Length(r)' = Length(r) /\ vec \in Seq(Seq(Tokens)) /\ soll \in Nat
      /\ got[r] \in Seq(Tokens) /\ item[r] \in Seq(Tokens) /\ Len(got[r]) \in Nat
  BY <1>1 DEF Length
<1>3. CASE WaitFirst(r)
  <2>1. /\ pc[r] = "wait" /\ UNCHANGED <<vec, got, item>>
        /\ pc'[r] = IF stop THEN "respond" ELSE "first"
    BY <1>3 DEF WaitFirst
  <2>2. got[r] = <<>> /\ Flow(r, 0)
    BY <2>1 DEF Place
  <2>3. Flow(r, 0)' /\ GotOk(r)'
    BY <1>1, <1>2, <2>1, <2>2 DEF Flow, GotOk
  <2> QED
    BY <1>1, <2>1, <2>2, <2>3 DEF Place
<1>4. CASE TakeFirst(r) \/ (TakeNext(r) /\ vec # <<>>)
  <2>1. /\ vec # <<>> /\ vec' = Tail(vec) /\ item'[r] = Head(vec) /\ pc'[r] = "loop"
        /\ got' = got /\ Flow(r, Len(got[r]))
    <3>1. CASE TakeFirst(r)
      <4>1. vec # <<>> /\ got[r] = <<>> /\ Flow(r, 0) /\ Len(<<>>) = 0
        BY <3>1 DEF TakeFirst, OneAtATime, Place
      <4> QED
        BY <3>1, <4>1 DEF TakeFirst
    <3>2. CASE TakeNext(r) /\ vec # <<>>
      BY <3>2 DEF TakeNext, Place
    <3> QED
      BY <1>4, <3>1, <3>2
  <2> DEFINE n == Len(got[r])
             h == Head(vec)
  <2>2. /\ Run(h, r, n)
        /\ IF h = End THEN n = Length(r) /\ soll = 0 /\ AllEnds(Tail(vec))
           ELSE Fed(Tail(vec), soll, recv, r, Length(r), n + Len(h))
    BY <1>2, <2>1, FedTake DEF Flow
  <2>3. Hand(r)'
    BY <1>1, <1>2, <2>1, <2>2 DEF Hand, GotAll, Drained, Flow
  <2>4. GotOk(r)'
    BY <1>2, <2>1 DEF GotOk
  <2> QED
    BY <2>1, <2>3, <2>4 DEF Place
<1>5. CASE TakeNext(r) /\ vec = <<>>
  <2>1. pc[r] = "next" /\ stop /\ pc'[r] = "loop" /\ UNCHANGED <<vec, item, got>>
    BY <1>5 DEF TakeNext
  <2>2. item[r] # End
    BY <2>1 DEF Place
  <2> QED
    BY <1>1, <1>2, <2>1, <2>2 DEF Place, Hand, GotOk
<1>6. CASE WriteToSpawn(r) /\ (item[r] = End \/ stop)
  <2>1. pc[r] = "loop" /\ pc'[r] = "respond" /\ UNCHANGED <<vec, item, got>>
    BY <1>6 DEF WriteToSpawn
  <2>2. stop \/ Drained
    BY <1>6, <2>1 DEF Place, Hand
  <2> QED
    BY <1>1, <1>2, <2>1, <2>2 DEF Place, GotOk, Drained
<1>7. CASE WriteToSpawn(r) /\ ~(item[r] = End \/ stop)
  <2> DEFINE n == Len(got[r])
  <2>1. /\ pc[r] = "loop" /\ pc'[r] = "next" /\ UNCHANGED <<vec, item>>
        /\ got'[r] = got[r] \o item[r]
    BY <1>7 DEF WriteToSpawn
  <2>2. Run(item[r], r, n) /\ Flow(r, n + Len(item[r]))
    BY <1>7, <2>1 DEF Place, Hand
  <2>3. /\ got'[r] \in Seq(Tokens) /\ Len(got'[r]) = n + Len(item[r])
        /\ \A j \in 1 .. n + Len(item[r]) :
             got'[r][j] = IF j <= n THEN got[r][j] ELSE item[r][j - n]
    BY <1>2, <2>1, ConcatProperties
  <2>4. Flow(r, Len(got[r]))'
    BY <1>1, <1>2, <2>1, <2>2, <2>3 DEF Flow
  <2>5. n + Len(item[r]) <= Length(r)
    BY <1>2, <2>2, FedBound DEF Flow
  <2>6. GotOk(r)'
    <3>1. ASSUME NEW j \in 1 .. n + Len(item[r]) PROVE got'[r][j] = Token(r, 2 + 0 + j)
      <4>1. CASE j <= n
        <5>1. j \in 1 .. n
          BY <1>2, <4>1
        <5> QED
          BY <2>3, <4>1, <5>1 DEF GotOk, Run
      <4>2. CASE ~(j <= n)
        <5>1. j - n \in 1 .. Len(item[r]) /\ 2 + n + (j - n) = 2 + 0 + j
          BY <1>2, <4>2
        <5>2. item[r][j - n] = Token(r, 2 + n + (j - n))
          BY <2>2, <5>1 DEF Run
        <5> QED
          BY <2>3, <4>2, <5>1, <5>2
      <4> QED
        BY <4>1, <4>2
    <3> QED
      BY <1>2, <2>3, <2>5, <3>1 DEF GotOk, Run
  <2> QED
    BY <1>7, <2>1, <2>4, <2>6 DEF Place
<1>8. CASE WriteFails(r)
  <2>1. /\ pc[r] = "loop" /\ pc'[r] = "respond" /\ item[r] # End /\ ~stop
        /\ UNCHANGED <<vec, item, got>>
    BY <1>8 DEF WriteFails
  <2>2. Flow(r, Len(got[r]) + Len(item[r]))
    BY <2>1 DEF Place, Hand
  <2>3. Len(got[r]) + Len(item[r]) <= Length(r) /\ Length(r) \in Nat
    BY <1>2, <2>2, FedBound DEF Flow
  <2>4. Len(item[r]) \in Nat /\ Len(item[r]) # 0
    BY <1>2, <2>1, EmptySeq DEF End
  <2>5. ~GotAll(r)'
    BY <1>2, <2>1, <2>3, <2>4 DEF GotAll
  <2> QED
    BY <1>1, <1>2, <2>1, <2>5 DEF Place, GotOk
<1>9. CASE Respond(r)
  <2>1. pc[r] = "respond" /\ pc'[r] = "done" /\ UNCHANGED <<vec, item, got>>
    BY <1>9 DEF Respond
  <2>2. GotOk(r)' /\ GotAll(r)' = GotAll(r) /\ Drained' = Drained
    BY <1>1, <1>2, <2>1 DEF GotOk, GotAll, Drained
  <2>3. GotAll(r) /\ ~stop => Drained
    BY <2>1 DEF Place
  <2> QED
    BY <1>1, <2>1, <2>2, <2>3 DEF Place
<1> QED
  BY <1>3, <1>4, <1>5, <1>6, <1>7, <1>8, <1>9 DEF ThreadStep

LEMMA ThreadBodies ==
  ASSUME BodyInv, NEW r \in Request, ThreadStep(r)
  PROVE  BodyInv'
<1>0. BodyShapes /\ Started
  BY DEF BodyInv
<1>1. /\ UNCHANGED <<asked, early, soll, recv, stop>> /\ pc[r] \notin {"none", "done"}
      /\ pc' \in [Request -> PCs] /\ item' \in [Request -> Seq(Tokens)]
      /\ got' \in [Request -> Seq(Tokens)] /\ vec' \in Seq(Seq(Tokens))
      /\ \A q \in Request \ {r} : pc'[q] = pc[q] /\ got'[q] = got[q]
  BY <1>0, ThreadFrame
<1>2. BodyShapes'
  BY <1>0, <1>1 DEF BodyShapes
<1>3. Started'
  BY <1>0, ThreadStarted
<1>4. ASSUME ~early PROVE OneAtATime' /\ Bodies'
  <2>1. OneAtATime /\ Bodies
    BY <1>4 DEF BodyInv
  <2>2. r = Len(asked) /\ Len(asked) \in Nat
    BY <1>0, <1>1, <2>1, LastWorks
  <2>3. pc'[r] # "undefined" /\ (pc'[r] = "first" => vec' # <<>>)
    <3>1. CASE WaitFirst(r)
      BY <1>0, <3>1 DEF WaitFirst, BodyShapes
    <3>2. CASE TakeFirst(r)
      <4>1. vec # <<>>
        BY <2>1, <3>2 DEF TakeFirst, OneAtATime
      <4> QED
        BY <1>0, <3>2, <4>1 DEF TakeFirst, BodyShapes
    <3>3. CASE WriteToSpawn(r) \/ WriteFails(r) \/ TakeNext(r) \/ Respond(r)
      <4>1. pc'[r] \in {"respond", "next", "loop", "done"}
        BY <1>0, <3>3 DEF WriteToSpawn, WriteFails, TakeNext, Respond, BodyShapes
      <4> QED
        BY <4>1
    <3> QED
      BY <3>1, <3>2, <3>3 DEF ThreadStep
  <2>4. OneAtATime'
    <3>1. ASSUME NEW q \in Request, q < Len(asked) PROVE pc'[q] = "done"
      <4>1. q \in Request \ {r}
        BY <2>2, <3>1 DEF Request
      <4> QED
        BY <1>1, <2>1, <3>1, <4>1 DEF OneAtATime
    <3>2. ASSUME NEW q \in Request, q # r
          PROVE  pc'[q] # "undefined" /\ pc'[q] # "first"
      <4>1. pc[q] # "first" /\ pc[q] # "undefined"
        BY <1>0, <2>1, <2>2, <3>2, LastWorks DEF OneAtATime
      <4> QED
        BY <1>1, <3>2, <4>1
    <3> QED
      BY <1>1, <2>3, <3>1, <3>2 DEF OneAtATime
  <2>5. ASSUME NEW q \in Request, q <= r, AllBefore(q)' PROVE AllBefore(q)
    <3>1. ASSUME NEW x \in Request, x < q PROVE GotAll(x)
      <4>1. x \in Request \ {r}
        BY <2>5, <3>1 DEF Request
      <4>2. GotAll(x)'
        BY <2>5, <3>1 DEF AllBefore
      <4> QED
        BY <1>1, <4>1, <4>2 DEF GotAll, Length
    <3> QED
      BY <3>1 DEF AllBefore
  <2>6. AllBefore(r) => Place(r)' /\ GotOk(r)'
    <3> SUFFICES ASSUME AllBefore(r) PROVE Place(r)' /\ GotOk(r)'
      OBVIOUS
    <3>1. r <= Len(asked)
      BY <2>2
    <3>2. Place(r) /\ GotOk(r)
      BY <2>1, <2>2, <3>1 DEF Bodies
    <3> QED
      BY <1>0, <2>1, <2>2, <3>2, ThreadPlace
  <2>7. ASSUME NEW q \in Request, q <= r, AllBefore(q)' PROVE GotOk(q)'
    <3>1. CASE q = r
      BY <2>5, <2>6, <2>7, <3>1
    <3>2. CASE q # r
      <4>1. GotOk(q)
        BY <2>1, <2>2, <2>5, <2>7 DEF Bodies
      <4> QED
        BY <1>1, <3>2, <4>1 DEF GotOk, Length
    <3> QED
      BY <3>1, <3>2
  <2>8. Len(asked) # 0 /\ r <= r
    BY <2>2 DEF Request
  <2>9. AllBefore(r)' => Place(r)'
    BY <2>5, <2>6, <2>8
  <2> QED
    BY <1>1, <2>2, <2>4, <2>7, <2>8, <2>9 DEF Bodies
<1> QED
  BY <1>1, <1>2, <1>3, <1>4 DEF BodyInv

LEMMA InitBodies == Init => BodyInv
<1> SUFFICES ASSUME Init PROVE BodyInv
  OBVIOUS
<1> USE DEF Init
<1>1. Len(asked) = 0 /\ \A r \in Request : ~(r <= 0) /\ ~(r < 0) /\ r > 0
  BY DEF Request
<1>2. BodyShapes
  <2>1. MaxRequests \in Nat /\ 0 <= MaxRequests
    BY Http1Assumption
  <2>2. <<>> \in Seq(Kinds) /\ <<>> \in Seq(Seq(Tokens)) /\ <<>> \in Seq(Tokens)
    OBVIOUS
  <2> QED
    BY <1>1, <2>1, <2>2 DEF BodyShapes, PCs, End
<1>3. Started
  BY DEF Started
<1>4. OneAtATime
  BY <1>1 DEF OneAtATime
<1>5. Drained
  BY DEF Drained, AllEnds
<1>6. \A r \in Request : r # Len(asked)
  BY <1>1
<1>7. Bodies
  BY <1>1, <1>5, <1>6 DEF Bodies
<1> QED
  BY <1>2, <1>3, <1>4, <1>7 DEF BodyInv

LEMMA NextBodies ==
  ASSUME FramingInv, BodyInv, [Next]_vars
  PROVE  BodyInv'
<1>1. CASE \E k \in Kinds : Ask(k)
  BY <1>1, AskBegins
<1>2. CASE \/ \E r \in Request : SendBody(r)
           \/ \E n \in DOMAIN wire : Receive(n)
           \/ ClientCloses \/ OnTimeout \/ OnSocketClosing \/ UNCHANGED vars
           \/ SwitchToHttp2 \/ NeedMore \/ BadHeader \/ ParseHeader \/ BadLength \/ NoContent
           \/ UpgradeToWebSocket \/ UpgradeRefused
  BY <1>2, QuietSteps
<1>3. CASE UploadStep
  BY <1>3, UploadFeeds
<1>4. CASE MarkEnd
  BY <1>4, MarkEndKeeps
<1>5. CASE Content
  BY <1>5, ContentFeeds
<1>6. CASE Dispatch
  BY <1>6, DispatchKeeps
<1>7. CASE \E r \in Request : ThreadStep(r)
  BY <1>7, ThreadBodies
<1> QED
  BY <1>1, <1>2, <1>3, <1>4, <1>5, <1>6, <1>7, Zenon DEF Next, ReaderStep

LEMMA BodiesAreOwn ==
  ASSUME BodyInv, ~early, NEW r \in DOMAIN asked, \A q \in 1 .. r - 1 : got[q] = BodyOf(q)
  PROVE  /\ IsPrefix(got[r], BodyOf(r))
         /\ pc[r] = "loop" /\ item[r] = End => got[r] = BodyOf(r)
<1>0. BodyShapes /\ Started /\ OneAtATime /\ Bodies
  BY DEF BodyInv
<1>1. r \in 1 .. Len(asked) /\ Len(asked) \in Nat /\ r \in Request /\ r <= Len(asked)
  BY <1>0, Http1Assumption DEF BodyShapes, Request
<1>2. ASSUME NEW q \in 1 .. Len(asked)
      PROVE  /\ BodyOf(q) \in Seq(Tokens) /\ Len(BodyOf(q)) = Length(q) /\ Length(q) \in Nat
             /\ \A i \in 1 .. Length(q) : BodyOf(q)[i] = Token(q, 2 + i)
  <2>1. asked[q] \in Kinds /\ q \in Nat
    BY <1>0 DEF BodyShapes
  <2> QED
    BY <2>1, BodyShape, KindShape DEF BodyOf, Length
<1>3. AllBefore(r)
  <2>1. ASSUME NEW q \in Request, q < r PROVE GotAll(q)
    <3>1. q \in 1 .. r - 1 /\ q \in 1 .. Len(asked)
      BY <1>1, <2>1 DEF Request
    <3> QED
      BY <1>2, <3>1 DEF GotAll
  <2> QED
    BY <2>1 DEF AllBefore
<1>4. /\ got[r] \in Seq(Tokens) /\ Len(got[r]) <= Length(r) /\ Len(got[r]) \in Nat
      /\ \A j \in 1 .. Len(got[r]) : got[r][j] = Token(r, 2 + j)
  <2>1. GotOk(r)
    BY <1>0, <1>1, <1>3 DEF Bodies
  <2>2. got[r] \in Seq(Tokens) /\ Len(got[r]) \in Nat
    BY <1>0, <1>1 DEF BodyShapes
  <2>3. \A j \in 1 .. Len(got[r]) : 2 + 0 + j = 2 + j
    BY <2>2
  <2> QED
    BY <2>1, <2>2, <2>3 DEF GotOk, Run
<1>5. ASSUME NEW j \in 1 .. Len(got[r]) PROVE got[r][j] = BodyOf(r)[j]
  <2>1. j \in 1 .. Length(r)
    BY <1>1, <1>2, <1>4
  <2>2. BodyOf(r)[j] = Token(r, 2 + j)
    BY <1>1, <1>2, <2>1
  <2> QED
    BY <1>4, <2>2
<1>6. IsPrefix(got[r], BodyOf(r))
  <2> DEFINE g == got[r]
             b == BodyOf(r)
             n == Len(g)
  <2>1. /\ g \in Seq(Tokens) /\ b \in Seq(Tokens) /\ n \in 0 .. Len(b) /\ n \in 0 .. Len(g)
        /\ Len(g) <= Len(b)
    BY <1>1, <1>2, <1>4
  <2> HIDE DEF g, b, n
  <2>2. /\ SubSeq(g, 1, n) \in Seq(Tokens) /\ Len(SubSeq(g, 1, n)) = n
        /\ \A i \in 1 .. n : SubSeq(g, 1, n)[i] = g[i]
    BY <2>1, Begun
  <2>3. /\ SubSeq(b, 1, n) \in Seq(Tokens) /\ Len(SubSeq(b, 1, n)) = n
        /\ \A i \in 1 .. n : SubSeq(b, 1, n)[i] = b[i]
    BY <2>1, Begun
  <2>4. \A i \in 1 .. n : g[i] = b[i]
    BY <1>5 DEF g, b, n
  <2>5. SubSeq(g, 1, n) = SubSeq(b, 1, n)
    BY <2>2, <2>3, <2>4, SeqEqual
  <2>6. Len(g) <= Len(b)
    BY <2>1
  <2> QED
    BY <2>5, <2>6 DEF IsPrefix, g, b, n
<1>7. ASSUME pc[r] = "loop", item[r] = End PROVE got[r] = BodyOf(r)
  <2>1. r = Len(asked)
    BY <1>0, <1>1, <1>7, LastWorks
  <2>2. GotAll(r)
    BY <1>0, <1>1, <1>3, <1>7, <2>1 DEF Bodies, Place, Hand
  <2>3. Len(got[r]) = Len(BodyOf(r))
    BY <1>1, <1>2, <2>2 DEF GotAll
  <2> QED
    BY <1>1, <1>2, <1>4, <1>5, <2>3, SeqEqual
<1> QED
  BY <1>6, <1>7

LEMMA BodiesAre == BodyInv => BodyRead
<1>1. BodyInv => BodyIsOwn
  BY BodiesAreOwn DEF BodyIsOwn
<1>2. BodyInv => FrontExists
  BY DEF BodyInv, OneAtATime, FrontExists
<1> QED
  BY <1>1, <1>2 DEF BodyRead

\* All threads of a connection take from one queue, and yet, as long as a client does
\* not pipeline and the bodies before were read to their ends, a script gets the body
\* of its own request: every byte once and in order, and the end marker behind the last
\* one; and the first item is taken from a queue that is not empty. For bodies of any
\* length in any pieces, with all that may end the connection on the way.
THEOREM BodiesAreRead == ASSUME ~PrefaceSplit PROVE Spec => []BodyRead
<1>1. Init => FramingInv /\ BodyInv
  BY InitFraming, InitBodies
<1>2. FramingInv /\ BodyInv /\ [Next]_vars => (FramingInv /\ BodyInv)'
  BY NextFraming, NextBodies
<1>3. BodyInv => BodyRead
  BY BodiesAre
<1> QED
  BY <1>1, <1>2, <1>3, PTL DEF Spec

=============================================================================
