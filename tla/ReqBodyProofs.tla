--------------------------- MODULE ReqBodyProofs ----------------------------
(***************************************************************************)
(* Theorems about ReqBody and FcgiRequest: bodies of any length, through   *)
(* CGI and FastCGI, read by one DoAction thread.                           *)
(***************************************************************************)
EXTENDS FcgiRequest, SequenceTheorems, TLAPS

\* Without trailers a request has one DoAction thread (H2Stream, StartedOnce).
OneThread == \A g, h \in Reader : g = h

Before == {"idle", "lookup", "found", "request", "retry", "wait", "sleep", "check", "first"}
Reading == {"loop", "write", "next", "nextSleep"}
After == {"close", "output", "send", "reqEnd", "remove", "join", "respond"}
Places == Before \cup Reading \cup After \cup {"done", "undefined"}

Types ==
  /\ vecData \in Seq(Int) /\ sent \in Nat
  /\ ended \in BOOLEAN /\ reset \in BOOLEAN /\ stop \in BOOLEAN
  /\ pc \in [Reader -> Places] /\ data \in [Reader -> Int]
  /\ sawReset \in [Reader -> BOOLEAN] /\ got \in [Reader -> Seq(Int)]
  /\ via \in {"cgi", "fcgi"} /\ nReqId \in BOOLEAN

-----------------------------------------------------------------------------
(* Types *)

LEMMA InitTypes == FcgiInit => Types
<1> SUFFICES ASSUME FcgiInit PROVE Types
  OBVIOUS
<1>1. vecData \in Seq(Int) /\ got \in [Reader -> Seq(Int)]
  BY DEF FcgiInit, Init
<1>2. via \in {"cgi", "fcgi"}
  BY FcgiAssumption DEF FcgiInit
<1>3. pc \in [Reader -> Places]
  BY DEF FcgiInit, Init, Places, Before
<1>4. data \in [Reader -> Int] /\ sawReset \in [Reader -> BOOLEAN]
  BY DEF FcgiInit, Init, End
<1> QED
  BY <1>1, <1>2, <1>3, <1>4 DEF FcgiInit, Init, Types

\* What the client and the reading thread do.
LEMMA ClientTypes ==
  ASSUME Types, FromClient, UNCHANGED fcgiVars
  PROVE  Types' /\ UNCHANGED <<pc, data, sawReset, got>>
<1> USE DEF Types, fcgiVars, server, output, client
<1>1. ASSUME NEW end \in BOOLEAN, Data(end)
      PROVE  Types' /\ UNCHANGED <<pc, data, sawReset, got>>
  <2>1. vecData' \in Seq(Int)
    BY <1>1 DEF Data, Packets, End
  <2> QED
    BY <1>1, <2>1 DEF Data
<1>2. CASE EndStream
  <2>1. vecData' \in Seq(Int)
    BY <1>2 DEF EndStream, End
  <2> QED
    BY <1>2, <2>1 DEF EndStream
<1>3. CASE RstStream
  <2>1. vecData' \in Seq(Int)
    BY <1>3 DEF RstStream
  <2> QED
    BY <1>3, <2>1 DEF RstStream
<1>4. CASE StopConnection
  BY <1>4 DEF StopConnection
<1> QED
  BY <1>1, <1>2, <1>3, <1>4 DEF FromClient

LEMMA ServerTypes ==
  ASSUME Types, ServerStep
  PROVE  Types' /\ UNCHANGED vars
<1> USE DEF Types, vars, client
<1>1. ASSUME NEW dies \in BOOLEAN, LoseServer(dies)
      PROVE  Types' /\ UNCHANGED vars
  BY <1>1 DEF LoseServer
<1>2. CASE Produce \/ EndRequest
  BY <1>2 DEF Produce, EndRequest, server, output
<1> QED
  BY <1>1, <1>2 DEF ServerStep

\* A step of the thread changes what it took and got, the queue, and reset.
LEMMA BodyTypes ==
  ASSUME Types, NEW h \in Reader, UNCHANGED fcgiVars,
         \/ Start(h) \/ WaitFirst(h) \/ Sleep(h) \/ Check(h) \/ TakeFirst(h) \/ Loop(h)
         \/ \E ok \in BOOLEAN : Write(h, ok)
         \/ TakeNext(h) \/ CloseWritePipe(h) \/ Exit(h)
  PROVE  Types'
<1> USE DEF Types, fcgiVars, client, Goto, Places, Before, Reading, After
<1>1. CASE Start(h) \/ WaitFirst(h) \/ Check(h) \/ Loop(h) \/ CloseWritePipe(h) \/ Exit(h)
  BY <1>1 DEF Start, WaitFirst, Check, Loop, CloseWritePipe, Exit
<1>2. CASE Sleep(h)
  BY <1>2 DEF Sleep
<1>q. ASSUME vecData # <<>>
      PROVE  Head(vecData) \in Int /\ Tail(vecData) \in Seq(Int)
  BY <1>q
<1>3. CASE TakeFirst(h)
  <2>1. vecData' \in Seq(Int) /\ data' \in [Reader -> Int]
    BY <1>3, <1>q DEF TakeFirst
  <2>2. pc' \in [Reader -> Places]
    BY <1>3 DEF TakeFirst
  <2> QED
    BY <1>3, <2>1, <2>2 DEF TakeFirst
<1>4. CASE TakeNext(h)
  <2>1. vecData' \in Seq(Int) /\ data' \in [Reader -> Int]
    BY <1>4, <1>q DEF TakeNext
  <2>2. pc' \in [Reader -> Places]
    BY <1>4 DEF TakeNext
  <2> QED
    BY <1>4, <2>1, <2>2 DEF TakeNext
<1>5. ASSUME NEW ok \in BOOLEAN, Write(h, ok)
      PROVE  Types'
  <2>1. Append(got[h], data[h]) \in Seq(Int) /\ Append(got[h], End) \in Seq(Int)
    BY DEF End
  <2>2. got' \in [Reader -> Seq(Int)]
    BY <1>5, <2>1 DEF Write
  <2>3. pc' \in [Reader -> Places]
    BY <1>5 DEF Write
  <2> QED
    BY <1>5, <2>2, <2>3 DEF Write
<1> QED
  BY <1>1, <1>2, <1>3, <1>4, <1>5

LEMMA FcgiTypes ==
  ASSUME Types, NEW h \in Reader,
         \/ StartFcgi(h) \/ Lookup(h) \/ SetTimeout(h) \/ NotActive(h) \/ SendRequest(h)
         \/ Retry(h) \/ SendEnd(h) \/ TakeTwo(h) \/ SendOutput(h) \/ NoTwo(h)
         \/ WaitReqEnd(h) \/ RemoveRequest(h) \/ JoinRest(h) \/ SendRest(h)
  PROVE  Types' /\ UNCHANGED <<vecData, client, reset, stop, data, sawReset, got, via>>
<1> USE DEF Types, client, Continue, Goto, Places, Before, Reading, After, server, output
<1>1. CASE StartFcgi(h) \/ Lookup(h) \/ SetTimeout(h) \/ NotActive(h)
  BY <1>1 DEF StartFcgi, Lookup, SetTimeout, NotActive
<1>2. CASE SendRequest(h) \/ Retry(h)
  BY <1>2 DEF SendRequest, Retry
<1>3. CASE SendEnd(h) \/ TakeTwo(h) \/ NoTwo(h) \/ WaitReqEnd(h) \/ RemoveRequest(h) \/ JoinRest(h) \/ SendRest(h)
  BY <1>3 DEF SendEnd, TakeTwo, NoTwo, WaitReqEnd, RemoveRequest, JoinRest, SendRest
<1>4. CASE SendOutput(h)
  BY <1>4 DEF SendOutput
<1> QED
  BY <1>1, <1>2, <1>3, <1>4

-----------------------------------------------------------------------------
(* RequestPassedOn *)

\* What the client put into the queue: its payloads, and End behind the last.
Total == sent + (IF ended THEN 1 ELSE 0)
Item(k) == IF k <= sent THEN k ELSE End

\* The queue holds what came after the first k, or a reset emptied it.
Queued(k) ==
  \/ reset /\ vecData = <<>>
  \/ /\ k + Len(vecData) = Total
     /\ \A i \in 1 .. Len(vecData) : vecData[i] = Item(k + i)

Counted(h) == Len(got[h]) <= sent /\ \A i \in 1 .. Len(got[h]) : got[h][i] = i

\* The item the thread holds is the next one for the process.
Fresh(h) ==
  /\ Len(got[h]) + 1 <= Total
  /\ data[h] = Item(Len(got[h]) + 1)
  /\ Queued(Len(got[h]) + 1)

Asked == via = "cgi" \/ nReqId

At(h) ==
  /\ sawReset[h] => reset
  /\ pc[h] \in Before => got[h] = <<>> /\ Queued(0)
  /\ pc[h] \in Reading => Counted(h)
  /\ pc[h] = "loop" => Fresh(h) \/ stop \/ reset
  /\ pc[h] = "write" => Fresh(h) /\ data[h] # End
  /\ pc[h] \in {"next", "nextSleep"} => Queued(Len(got[h]))
  /\ pc[h] \in After \cup {"done", "undefined"} /\ Alive(h) => Counted(h)
  /\ pc[h] \in After /\ Alive(h) /\ Asked /\ ~stop /\ ~reset
       => ended /\ Len(got[h]) = sent
  /\ pc[h] \in {"idle", "lookup", "found", "request", "retry"} => ~nReqId

BodyInv == Types /\ \A h \in Reader : At(h)

LEMMA InitBody == FcgiInit => BodyInv
<1> SUFFICES ASSUME FcgiInit, NEW h \in Reader PROVE At(h)
  BY InitTypes DEF BodyInv
<1>1. pc[h] = "idle" /\ got[h] = <<>> /\ ~nReqId /\ ~sawReset[h]
  BY DEF FcgiInit, Init
<1>2. Queued(0)
  BY DEF FcgiInit, Init, Queued, Total
<1> QED
  BY <1>1, <1>2 DEF At, Before, Reading, After

\* Where the items of a queue are when p is put behind it.
LEMMA Enqueue ==
  ASSUME NEW q \in Seq(Int), NEW p \in Seq(Int), NEW k \in Nat, NEW n \in Nat,
         k + Len(q) = n
  PROVE  /\ k + Len(q \o p) = n + Len(p)
         /\ \A i \in 1 .. Len(q \o p) :
              \/ i \in 1 .. Len(q) /\ (q \o p)[i] = q[i] /\ k + i <= n
              \/ \E j \in 1 .. Len(p) : (q \o p)[i] = p[j] /\ k + i = n + j
<1>1. Len(q) \in Nat /\ Len(p) \in Nat /\ Len(q \o p) = Len(q) + Len(p)
  OBVIOUS
<1>2. k + Len(q \o p) = n + Len(p)
  <2>1. k + (Len(q) + Len(p)) = (k + Len(q)) + Len(p)
    BY <1>1
  <2> QED
    BY <1>1, <2>1
<1>3. ASSUME NEW i \in 1 .. Len(q \o p)
      PROVE  \/ i \in 1 .. Len(q) /\ (q \o p)[i] = q[i] /\ k + i <= n
             \/ \E j \in 1 .. Len(p) : (q \o p)[i] = p[j] /\ k + i = n + j
  <2>1. CASE i <= Len(q)
    BY <1>1, <2>1
  <2>2. CASE i > Len(q)
    <3>1. i - Len(q) \in 1 .. Len(p) /\ k + i = n + (i - Len(q))
      BY <1>1, <2>2
    <3>2. (q \o p)[i] = p[i - Len(q)]
      BY <1>1, <2>2
    <3> QED
      BY <3>1, <3>2
  <2> QED
    BY <1>1, <2>1, <2>2
<1> QED
  BY <1>2, <1>3

\* What goes on with the stream when p is put into its queue.
LEMMA Put ==
  ASSUME Types, ~ended, ~reset, NEW p \in Seq(Int), vecData' = vecData \o p,
         reset' = reset, sent' \in Nat, sent' >= sent, Total' = sent + Len(p),
         \A j \in 1 .. Len(p), m \in Nat : m = sent + j => p[j] = Item(m)'
  PROVE  /\ \A k \in Nat : Queued(k) => Queued(k)'
         /\ \A k \in Nat : k <= Total => Item(k)' = Item(k)
<1> USE DEF Types
<1>1. Total = sent
  BY DEF Total
<1>2. \A k \in Nat : k <= Total => Item(k)' = Item(k)
  BY <1>1 DEF Item
<1>3. ASSUME NEW k \in Nat, Queued(k)
      PROVE  Queued(k)'
  <2>1. k + Len(vecData) = sent
    BY <1>1, <1>3 DEF Queued
  <2>2. \A i \in 1 .. Len(vecData) : vecData[i] = Item(k + i)
    BY <1>3 DEF Queued
  <2>3. k + Len(vecData') = Total'
    BY <2>1, Enqueue
  <2>4. ASSUME NEW i \in 1 .. Len(vecData')
        PROVE  vecData'[i] = Item(k + i)'
    <3>1. \/ i \in 1 .. Len(vecData) /\ vecData'[i] = vecData[i] /\ k + i <= sent
          \/ \E j \in 1 .. Len(p) : vecData'[i] = p[j] /\ k + i = sent + j
      <4>1. \A h \in 1 .. Len(vecData \o p) :
              \/ h \in 1 .. Len(vecData) /\ (vecData \o p)[h] = vecData[h] /\ k + h <= sent
              \/ \E j \in 1 .. Len(p) : (vecData \o p)[h] = p[j] /\ k + h = sent + j
        BY <2>1, Enqueue
      <4> QED
        BY <4>1
    <3>2. k + i \in Nat
      OBVIOUS
    <3>3. CASE i \in 1 .. Len(vecData) /\ vecData'[i] = vecData[i] /\ k + i <= sent
      BY <1>1, <1>2, <2>2, <3>2, <3>3
    <3>4. CASE \E j \in 1 .. Len(p) : vecData'[i] = p[j] /\ k + i = sent + j
      BY <3>2, <3>4
    <3> QED
      BY <3>1, <3>3, <3>4
  <2> QED
    BY <2>3, <2>4 DEF Queued
<1> QED
  BY <1>2, <1>3

\* The client adds to the queue, unless the stream was ended or reset.
LEMMA QueueGrows ==
  ASSUME Types, FromClient
  PROVE  /\ sent' \in Nat /\ sent <= sent' /\ Total <= Total'
         /\ reset => reset'
         /\ stop => stop'
         /\ ended => ended' /\ sent' = sent
         /\ \A k \in Nat : Queued(k) => Queued(k)'
         /\ \A k \in Nat : k <= Total => Item(k)' = Item(k)
<1> USE DEF Types
<1>1. ASSUME NEW end \in BOOLEAN, Data(end)
      PROVE  /\ sent' = sent + 1 /\ Total' >= Total /\ ~ended
             /\ reset' = reset /\ stop' = stop
             /\ \A k \in Nat : Queued(k) => Queued(k)'
             /\ \A k \in Nat : k <= Total => Item(k)' = Item(k)
  <2>1. sent' = sent + 1 /\ ~ended /\ ~reset /\ ended' = end /\ reset' = reset
        /\ stop' = stop /\ vecData' = vecData \o Packets(end)
    BY <1>1 DEF Data
  <2>2. Packets(end) \in Seq(Int) /\ Total' = sent + Len(Packets(end)) /\ Total' >= Total
    BY <2>1 DEF Total, Packets, End
  <2>3. ASSUME NEW j \in 1 .. Len(Packets(end)), NEW m \in Nat, m = sent + j
        PROVE  Packets(end)[j] = Item(m)'
    <3>1. CASE j = 1
      <4>1. Packets(end)[j] = m /\ m <= sent'
        BY <2>1, <2>3, <3>1 DEF Packets
      <4> QED
        BY <4>1 DEF Item
    <3>2. CASE j # 1
      <4>1. j = 2 /\ Packets(end)[2] = End
        BY <3>2 DEF Packets
      <4>2. ~(m <= sent')
        BY <2>1, <2>3, <4>1
      <4> QED
        BY <4>1, <4>2 DEF Item
    <3> QED
      BY <3>1, <3>2
  <2>4. \A j \in 1 .. Len(Packets(end)), m \in Nat : m = sent + j => Packets(end)[j] = Item(m)'
    BY <2>3
  <2>5. /\ \A k \in Nat : Queued(k) => Queued(k)'
        /\ \A k \in Nat : k <= Total => Item(k)' = Item(k)
    <3> HIDE DEF Types
    <3>1. sent' \in Nat /\ sent' >= sent
      BY <2>1 DEF Types
    <3> QED
      BY <2>1, <2>2, <2>4, <3>1, Put
  <2> QED
    BY <2>1, <2>2, <2>5
<1>2. ASSUME EndStream
      PROVE  /\ sent' = sent /\ Total' >= Total /\ ~ended
             /\ reset' = reset /\ stop' = stop
             /\ \A k \in Nat : Queued(k) => Queued(k)'
             /\ \A k \in Nat : k <= Total => Item(k)' = Item(k)
  <2>1. sent' = sent /\ ~ended /\ ~reset /\ ended' /\ reset' = reset
        /\ stop' = stop /\ vecData' = vecData \o <<End>>
    BY <1>2 DEF EndStream, End
  <2>2. <<End>> \in Seq(Int) /\ Total' = sent + Len(<<End>>) /\ Total' >= Total
    BY <2>1 DEF Total, End
  <2>3. ASSUME NEW j \in 1 .. Len(<<End>>), NEW m \in Nat, m = sent + j
        PROVE  <<End>>[j] = Item(m)'
    <3>1. j = 1 /\ ~(m <= sent')
      BY <2>1, <2>3
    <3> QED
      BY <3>1 DEF Item
  <2>4. \A j \in 1 .. Len(<<End>>), m \in Nat : m = sent + j => <<End>>[j] = Item(m)'
    BY <2>3
  <2>5. /\ \A k \in Nat : Queued(k) => Queued(k)'
        /\ \A k \in Nat : k <= Total => Item(k)' = Item(k)
    <3> HIDE DEF Types
    <3>1. sent' \in Nat /\ sent' >= sent
      BY <2>1 DEF Types
    <3> QED
      BY <2>1, <2>2, <2>4, <3>1, Put
  <2> QED
    BY <2>1, <2>2, <2>5
<1>3. CASE RstStream \/ StopConnection
  <2>1. sent' = sent /\ ended' = ended /\ (reset => reset') /\ (stop => stop')
        /\ (vecData' = vecData \/ (reset' /\ vecData' = <<>>))
    BY <1>3 DEF RstStream, StopConnection, client
  <2> QED
    BY <2>1 DEF Queued, Total, Item
<1> QED
  BY <1>1, <1>2, <1>3 DEF FromClient

\* What the thread finds at the front of the queue.
LEMMA Taken ==
  ASSUME Types, NEW k \in Nat, Queued(k), vecData # <<>>
  PROVE  /\ k + 1 <= Total /\ Head(vecData) = Item(k + 1)
         /\ vecData' = Tail(vecData) /\ UNCHANGED <<sent, ended, reset>> => Queued(k + 1)'
<1> USE DEF Types
<1>1. k + Len(vecData) = Total /\ Len(vecData) \in Nat /\ Len(vecData) >= 1
  BY DEF Queued
<1>2. \A i \in 1 .. Len(vecData) : vecData[i] = Item(k + i)
  BY DEF Queued
<1>3. k + 1 <= Total
  BY <1>1
<1>4. Head(vecData) = Item(k + 1)
  BY <1>1, <1>2
<1>5. ASSUME vecData' = Tail(vecData), UNCHANGED <<sent, ended, reset>>
      PROVE  Queued(k + 1)'
  <2>1. Total' = Total
    BY <1>5 DEF Total
  <2>2. Len(vecData') = Len(vecData) - 1
    BY <1>5
  <2>3. (k + 1) + Len(vecData') = Total'
    BY <1>1, <2>1, <2>2
  <2>4. ASSUME NEW i \in 1 .. Len(vecData')
        PROVE  vecData'[i] = Item((k + 1) + i)'
    <3>1. vecData'[i] = vecData[i + 1] /\ i + 1 \in 1 .. Len(vecData)
      BY <1>1, <1>5, <2>2
    <3>2. k + (i + 1) = (k + 1) + i
      OBVIOUS
    <3>3. vecData[i + 1] = Item((k + 1) + i)
      BY <1>2, <3>1, <3>2
    <3> QED
      BY <1>5, <3>1, <3>3 DEF Item
  <2> QED
    BY <2>3, <2>4 DEF Queued
<1> QED
  BY <1>3, <1>4, <1>5

\* The client's steps leave the thread where it is.
LEMMA ClientAt ==
  ASSUME BodyInv, FromClient, UNCHANGED fcgiVars, NEW h \in Reader
  PROVE  At(h)'
<1>1. Types /\ At(h)
  BY DEF BodyInv
<1>2. Types' /\ UNCHANGED <<pc, data, sawReset, got>>
  BY <1>1, ClientTypes
<1>3. UNCHANGED <<via, nReqId>>
  BY DEF fcgiVars
<1>4. /\ sent' \in Nat /\ sent <= sent' /\ Total <= Total'
      /\ reset => reset'
      /\ stop => stop'
      /\ ended => ended' /\ sent' = sent
      /\ \A k \in Nat : Queued(k) => Queued(k)'
      /\ \A k \in Nat : k <= Total => Item(k)' = Item(k)
  BY <1>1, QueueGrows
<1>5. Len(got[h]) \in Nat /\ Len(got[h]) + 1 \in Nat /\ got'[h] = got[h]
  BY <1>1, <1>2 DEF Types
<1>7. Queued(0) => Queued(0)'
  BY <1>4
<1>8. Queued(Len(got[h])) => Queued(Len(got[h]))'
  <2>1. PICK n \in Nat : n = Len(got[h])
    BY <1>5
  <2> QED
    BY <1>4, <1>5, <2>1 DEF Queued
<1>9. ASSUME Fresh(h)
      PROVE  Fresh(h)'
  <2>1. PICK n \in Nat : n = Len(got[h]) + 1
    BY <1>5
  <2>2. n <= Total /\ data[h] = Item(n) /\ Queued(n)
    BY <1>9, <2>1 DEF Fresh
  <2>3. n <= Total'
    <3>1. Total \in Int /\ Total' \in Int
      BY <1>1, <1>2, <1>4 DEF Total, Types
    <3> QED
      BY <1>4, <2>2, <3>1
  <2>4. data'[h] = Item(n)'
    BY <1>2, <1>4, <2>2
  <2>5. Queued(n)'
    BY <1>4, <2>2
  <2> QED
    BY <1>5, <2>1, <2>3, <2>4, <2>5 DEF Fresh, Item, Queued
<1>10. Counted(h) => Counted(h)'
  BY <1>1, <1>4, <1>5 DEF Counted, Types
<1> QED
  BY <1>1, <1>2, <1>3, <1>4, <1>5, <1>7, <1>8, <1>9, <1>10 DEF At, Alive, Asked, Types

\* The threads of a CGI request, and of one for FastCGI that has an id.
LEMMA ReaderAt ==
  ASSUME BodyInv, NEW h \in Reader, UNCHANGED fcgiVars,
         \/ Start(h) \/ WaitFirst(h) \/ Sleep(h) \/ Check(h) \/ TakeFirst(h) \/ Loop(h)
         \/ \E ok \in BOOLEAN : Write(h, ok)
         \/ TakeNext(h) \/ CloseWritePipe(h) \/ Exit(h)
  PROVE  At(h)'
<1> DEFINE n == Len(got[h])
<1>t. Types /\ At(h) /\ n \in Nat
  BY DEF BodyInv, Types
<1>u. UNCHANGED <<via, nReqId>>
  BY DEF fcgiVars
<1>1. CASE Start(h) \/ WaitFirst(h) \/ Check(h) \/ CloseWritePipe(h) \/ Exit(h)
  <2>1. UNCHANGED <<vecData, sent, ended, stop, data, sawReset, got>> /\ (reset => reset')
    BY <1>1 DEF Start, WaitFirst, Check, CloseWritePipe, Exit, client
  <2>2. (Queued(0) => Queued(0)') /\ (Counted(h) => Counted(h)') /\ (Alive(h)' => Alive(h))
    BY <2>1 DEF Queued, Total, Item, Counted, Alive
  <2>3. CASE Start(h) \/ WaitFirst(h)
    <3>1. pc[h] \in Before /\ pc'[h] \in Before \ {"idle", "lookup", "found", "request", "retry"}
      BY <1>t, <2>3 DEF Start, WaitFirst, Goto, Types, Before
    <3> QED
      BY <1>t, <2>1, <2>2, <3>1 DEF At, Before, Reading, After
  <2>4. CASE Check(h)
    <3>1. pc[h] \in Before /\ (pc'[h] = "first" \/ (pc'[h] = "close" /\ (stop \/ reset)))
      BY <1>t, <2>4 DEF Check, Goto, Types, Before
    <3>2. got[h] = <<>> => Counted(h)
      BY <1>t DEF Counted, Types
    <3> QED
      BY <1>t, <2>1, <2>2, <3>1, <3>2 DEF At, Before, Reading, After
  <2>5. CASE CloseWritePipe(h)
    <3>1. pc[h] = "close" /\ pc'[h] = "respond" /\ reset' = reset
      BY <1>t, <2>5 DEF CloseWritePipe, Goto, Types
    <3> QED
      BY <1>t, <1>u, <2>1, <2>2, <3>1 DEF At, Before, Reading, After, Asked
  <2>6. CASE Exit(h)
    <3>1. pc[h] = "respond" /\ pc'[h] = "done" /\ reset'
      BY <1>t, <2>6 DEF Exit, Goto, Types
    <3> QED
      BY <1>t, <2>1, <2>2, <3>1 DEF At, Before, Reading, After
  <2> QED
    BY <1>1, <2>3, <2>4, <2>5, <2>6
<1>2. CASE Sleep(h)
  <2>1. UNCHANGED <<vecData, sent, ended, reset, stop, data, got>> /\ sawReset'[h] = reset
    BY <1>t, <1>2 DEF Sleep, client, Types
  <2>2. \/ pc[h] = "sleep" /\ pc'[h] = "wait"
        \/ pc[h] = "nextSleep" /\ pc'[h] = "next"
    BY <1>t, <1>2 DEF Sleep, Goto, Types
  <2>3. (Queued(0) => Queued(0)') /\ (Queued(n) => Queued(n)') /\ (Counted(h) => Counted(h)')
    BY <2>1 DEF Queued, Total, Item, Counted
  <2> QED
    BY <1>t, <2>1, <2>2, <2>3 DEF At, Before, Reading, After
<1>3. CASE TakeFirst(h)
  <2>1. UNCHANGED <<sent, ended, reset, stop, sawReset, got>> /\ pc[h] = "first"
    BY <1>t, <1>3 DEF TakeFirst, client
  <2>2. got[h] = <<>> /\ n = 0 /\ Queued(0) /\ Counted(h)'
    BY <1>t, <2>1 DEF At, Before, Counted, Types
  <2>3. CASE vecData = <<>>
    <3>1. pc'[h] = "undefined"
      BY <1>t, <1>3, <2>3 DEF TakeFirst, Goto, Types
    <3> QED
      BY <1>t, <2>1, <2>2, <3>1 DEF At, Before, Reading, After
  <2>4. CASE vecData # <<>>
    <3>1. pc'[h] = "loop" /\ data'[h] = Head(vecData) /\ vecData' = Tail(vecData)
      BY <1>t, <1>3, <2>4 DEF TakeFirst, Goto, Types
    <3>2. 0 + 1 <= Total /\ Head(vecData) = Item(0 + 1) /\ Queued(0 + 1)'
      BY <1>t, <2>1, <2>2, <2>4, <3>1, Taken
    <3>3. Fresh(h)'
      BY <2>1, <2>2, <3>1, <3>2 DEF Fresh, Item, Queued, Total
    <3> QED
      BY <1>t, <2>1, <2>2, <3>1, <3>3 DEF At, Before, Reading, After
  <2> QED
    BY <2>3, <2>4
<1>4. CASE Loop(h)
  <2>1. UNCHANGED <<vecData, sent, ended, reset, stop, data, sawReset, got>> /\ pc[h] = "loop"
    BY <1>4 DEF Loop, client
  <2>2. Counted(h) /\ (Fresh(h) \/ stop \/ reset)
    BY <1>t, <2>1 DEF At, Reading
  <2>3. Counted(h)' /\ (Fresh(h) => Fresh(h)')
    BY <2>1, <2>2 DEF Counted, Fresh, Item, Queued, Total
  <2>4. CASE data[h] = End \/ stop \/ reset
    <3>1. pc'[h] = "close"
      BY <1>t, <1>4, <2>4 DEF Loop, Goto, Types
    <3>2. ~stop /\ ~reset => ended /\ n = sent
      BY <1>t, <2>2, <2>4 DEF Fresh, Item, End, Counted, Total, Types
    <3> QED
      BY <1>t, <2>1, <2>3, <3>1, <3>2 DEF At, Before, Reading, After
  <2>5. CASE ~(data[h] = End \/ stop \/ reset)
    <3>1. pc'[h] = "write"
      BY <1>t, <1>4, <2>5 DEF Loop, Goto, Types
    <3> QED
      BY <1>t, <2>1, <2>2, <2>3, <2>5, <3>1 DEF At, Before, Reading, After
  <2> QED
    BY <2>4, <2>5
<1>5. ASSUME NEW ok \in BOOLEAN, Write(h, ok)
      PROVE  At(h)'
  <2>1. UNCHANGED <<vecData, sent, ended, reset, stop, data, sawReset>> /\ pc[h] = "write"
    BY <1>5 DEF Write, client
  <2>2. Counted(h) /\ Fresh(h) /\ data[h] # End
    BY <1>t, <2>1 DEF At, Reading
  <2>3. n + 1 <= sent /\ data[h] = n + 1 /\ Queued(n + 1)
    BY <1>t, <2>2 DEF Fresh, Item
  <2>4. CASE ok
    <3>1. pc'[h] = "next" /\ got'[h] = Append(got[h], n + 1)
      BY <1>t, <1>5, <2>3, <2>4 DEF Write, Goto, Types
    <3>2. Len(got'[h]) = n + 1 /\ got'[h][n + 1] = n + 1
          /\ \A i \in 1 .. n : got'[h][i] = got[h][i]
      BY <1>t, <3>1 DEF Types
    <3>3. Counted(h)'
      BY <1>t, <2>1, <2>2, <2>3, <3>2 DEF Counted
    <3>4. Queued(Len(got[h]))'
      BY <1>t, <2>1, <2>3, <3>2 DEF Queued, Item, Total
    <3> QED
      BY <1>t, <2>1, <3>1, <3>3, <3>4 DEF At, Before, Reading, After
  <2>5. CASE ~ok
    <3>1. pc'[h] = "close" /\ got'[h] = Append(got[h], End)
      BY <1>t, <1>5, <2>5 DEF Write, Goto, Types
    <3>2. n + 1 \in DOMAIN got'[h] /\ got'[h][n + 1] = End
      BY <1>t, <3>1 DEF Types, End
    <3>3. ~Alive(h)'
      BY <3>2 DEF Alive, ToSet
    <3> QED
      BY <1>t, <2>1, <3>1, <3>3 DEF At, Before, Reading, After
  <2> QED
    BY <2>4, <2>5
<1>6. CASE TakeNext(h)
  <2>1. UNCHANGED <<sent, ended, reset, stop, sawReset, got>> /\ pc[h] = "next"
    BY <1>6 DEF TakeNext, client
  <2>2. Counted(h) /\ Queued(n) /\ (sawReset[h] => reset)
    BY <1>t, <2>1 DEF At, Reading
  <2>3. Counted(h)'
    BY <2>1, <2>2 DEF Counted
  <2>4. CASE Waiting(h)
    <3>1. pc'[h] = "nextSleep" /\ vecData' = vecData
      BY <1>t, <1>6, <2>4 DEF TakeNext, Goto, Types
    <3>2. Queued(Len(got[h]))'
      BY <2>1, <2>2, <3>1 DEF Queued, Item, Total
    <3> QED
      BY <1>t, <2>1, <2>3, <3>1, <3>2 DEF At, Before, Reading, After
  <2>5. CASE ~Waiting(h) /\ vecData = <<>>
    <3>1. pc'[h] = "loop" /\ (stop \/ reset)
      BY <1>t, <1>6, <2>2, <2>5 DEF TakeNext, Goto, Types, Waiting
    <3> QED
      BY <1>t, <2>1, <2>3, <3>1 DEF At, Before, Reading, After
  <2>6. CASE ~Waiting(h) /\ vecData # <<>>
    <3>1. pc'[h] = "loop" /\ data'[h] = Head(vecData) /\ vecData' = Tail(vecData)
      BY <1>t, <1>6, <2>6 DEF TakeNext, Goto, Types
    <3>2. n + 1 <= Total /\ Head(vecData) = Item(n + 1) /\ Queued(n + 1)'
      BY <1>t, <2>1, <2>2, <2>6, <3>1, Taken
    <3>3. Fresh(h)'
      BY <2>1, <3>1, <3>2 DEF Fresh, Item, Queued, Total
    <3> QED
      BY <1>t, <2>1, <2>3, <3>1, <3>3 DEF At, Before, Reading, After
  <2> QED
    BY <2>4, <2>5, <2>6
<1> QED
  BY <1>1, <1>2, <1>3, <1>4, <1>5, <1>6

\* The steps of a FastCGI request before and after its body.
LEMMA FcgiAt ==
  ASSUME BodyInv, NEW h \in Reader, via = "fcgi",
         \/ StartFcgi(h) \/ Lookup(h) \/ SetTimeout(h) \/ NotActive(h) \/ SendRequest(h)
         \/ Retry(h) \/ SendEnd(h) \/ TakeTwo(h) \/ SendOutput(h) \/ NoTwo(h)
         \/ WaitReqEnd(h) \/ RemoveRequest(h) \/ JoinRest(h) \/ SendRest(h)
  PROVE  At(h)'
<1> DEFINE early == {"idle", "lookup", "found", "request", "retry"}
<1>t. Types /\ At(h)
  BY DEF BodyInv
<1>1. UNCHANGED <<vecData, sent, ended, reset, stop, data, sawReset, got, via>>
  BY <1>t, FcgiTypes DEF client
<1>2. /\ Queued(0) => Queued(0)'
      /\ Counted(h) => Counted(h)'
      /\ Alive(h)' = Alive(h)
      /\ got[h] = <<>> => Counted(h)
  BY <1>t, <1>1 DEF Queued, Total, Item, Counted, Alive, Types
<1>3. CASE StartFcgi(h) \/ Lookup(h) \/ SetTimeout(h)
  <2>1. pc[h] \in early /\ pc'[h] \in early /\ UNCHANGED nReqId
    BY <1>t, <1>3 DEF StartFcgi, Lookup, SetTimeout, Continue, Goto, Types, output
  <2> QED
    BY <1>t, <1>1, <1>2, <2>1 DEF At, Before, Reading, After
<1>4. CASE NotActive(h)
  <2>1. pc[h] = "found" /\ pc'[h] = "respond" /\ UNCHANGED nReqId
    BY <1>t, <1>4 DEF NotActive, Continue, Goto, Types
  <2> QED
    BY <1>t, <1>1, <1>2, <2>1 DEF At, Before, Reading, After, Asked
<1>5. CASE SendRequest(h)
  <2>1. pc[h] = "request" /\ (pc'[h] = "wait" \/ (pc'[h] = "retry" /\ ~nReqId'))
    BY <1>t, <1>5 DEF SendRequest, Continue, Goto, Types
  <2> QED
    BY <1>t, <1>1, <1>2, <2>1 DEF At, Before, Reading, After
<1>6. CASE Retry(h)
  <2>1. pc[h] = "retry" /\ pc'[h] \in {"request", "respond"} /\ UNCHANGED nReqId
    BY <1>t, <1>6 DEF Retry, Continue, Goto, Types
  <2> QED
    BY <1>t, <1>1, <1>2, <2>1 DEF At, Before, Reading, After, Asked
<1>7. CASE SendEnd(h) \/ TakeTwo(h) \/ SendOutput(h) \/ NoTwo(h) \/ WaitReqEnd(h)
           \/ RemoveRequest(h) \/ JoinRest(h) \/ SendRest(h)
  <2>1. pc[h] \in After /\ pc'[h] \in After /\ UNCHANGED nReqId
    BY <1>t, <1>7 DEF SendEnd, TakeTwo, SendOutput, NoTwo, WaitReqEnd, RemoveRequest, JoinRest, SendRest, Continue,
       Goto, Types, After, output
  <2> QED
    BY <1>t, <1>1, <1>2, <2>1 DEF At, Before, Reading, After, Asked
<1> QED
  BY <1>3, <1>4, <1>5, <1>6, <1>7

LEMMA StepBody ==
  ASSUME OneThread, BodyInv, [FcgiNext]_allVars
  PROVE  BodyInv'
<1>t. Types
  BY DEF BodyInv
<1>1. CASE FromClient /\ UNCHANGED fcgiVars
  <2>1. Types'
    BY <1>t, <1>1, ClientTypes
  <2>2. \A h \in Reader : At(h)'
    BY <1>1, ClientAt
  <2> QED
    BY <1>1, <2>1, <2>2, ClientTypes, <1>t DEF BodyInv
<1>2. ASSUME NEW h \in Reader, UNCHANGED fcgiVars,
             \/ Start(h) \/ WaitFirst(h) \/ Sleep(h) \/ Check(h) \/ TakeFirst(h) \/ Loop(h)
             \/ \E ok \in BOOLEAN : Write(h, ok)
             \/ TakeNext(h) \/ CloseWritePipe(h) \/ Exit(h)
      PROVE  BodyInv'
  <2>1. Types' /\ At(h)'
    BY <1>t, <1>2, BodyTypes, ReaderAt
  <2> QED
    BY <2>1 DEF BodyInv, OneThread
<1>3. ASSUME NEW h \in Reader, via = "fcgi",
             \/ StartFcgi(h) \/ Lookup(h) \/ SetTimeout(h) \/ NotActive(h) \/ SendRequest(h)
             \/ Retry(h) \/ SendEnd(h) \/ TakeTwo(h) \/ SendOutput(h) \/ NoTwo(h)
             \/ WaitReqEnd(h) \/ RemoveRequest(h) \/ JoinRest(h) \/ SendRest(h)
      PROVE  BodyInv'
  <2>1. Types' /\ At(h)'
    BY <1>t, <1>3, FcgiTypes, FcgiAt
  <2> QED
    BY <2>1 DEF BodyInv, OneThread
<1>4. CASE ServerStep
  <2>1. Types' /\ UNCHANGED vars
    BY <1>t, <1>4, ServerTypes
  <2>2. UNCHANGED <<via, nReqId>>
    BY <1>4 DEF ServerStep, LoseServer, Produce, EndRequest, server, output
  <2> QED
    BY <2>1, <2>2 DEF BodyInv, At, Counted, Fresh, Queued, Total, Item, Alive, Asked, vars, client
<1>5. CASE UNCHANGED allVars
  BY <1>5 DEF BodyInv, Types, At, Counted, Fresh, Queued, Total, Item, Alive, Asked, allVars,
     vars, client, fcgiVars
<1> QED
  BY <1>1, <1>2, <1>3, <1>4, <1>5 DEF FcgiNext, ActionStep, FcgiStep, CgiStep, ForwardBody, ReaderStep

\* A counted sequence is a prefix of the body.
LEMMA CountedIsPrefix ==
  ASSUME Types, NEW h \in Reader, Counted(h)
  PROVE  /\ IsPrefix(got[h], Body)
         /\ Len(got[h]) = sent => got[h] = Body
<1>1. got[h] \in Seq(Int) /\ sent \in Nat /\ Len(got[h]) \in Nat
  BY DEF Types
<1>2. Body \in Seq(Int) /\ Len(Body) = sent /\ \A i \in 1 .. sent : Body[i] = i
  BY <1>1 DEF Body
<1>3. Len(got[h]) <= sent /\ \A i \in 1 .. Len(got[h]) : got[h][i] = i
  BY DEF Counted
<1>4. SubSeq(got[h], 1, Len(got[h])) = SubSeq(Body, 1, Len(got[h]))
  <2> DEFINE a == SubSeq(got[h], 1, Len(got[h]))
             b == SubSeq(Body, 1, Len(got[h]))
  <2>1. a = [i \in 1 .. Len(got[h]) |-> got[h][i]]
    BY <1>1
  <2>2. b = [i \in 1 .. Len(got[h]) |-> Body[i]]
    BY <1>1, <1>2
  <2> QED
    BY <1>1, <1>2, <1>3, <2>1, <2>2
<1>5. ASSUME Len(got[h]) = sent
      PROVE  got[h] = Body
  <2>1. got[h] = [i \in 1 .. sent |-> got[h][i]]
    BY <1>1, <1>5
  <2> QED
    BY <1>3, <1>5, <2>1 DEF Body
<1> QED
  BY <1>2, <1>3, <1>4, <1>5 DEF IsPrefix

\* However its steps interleave with the frames of the client and the fate of
\* the FastCGI server, the one thread of a request hands the body on in order
\* and, unless a reset, a stop or a failed write ends it early, to its end.
THEOREM RequestArrives ==
  OneThread => (FcgiSpec => []RequestPassedOn)
<1>1. ASSUME BodyInv
      PROVE  RequestPassedOn
  <2>1. ASSUME NEW h \in Reader, Alive(h)
        PROVE  Counted(h)
    <3>1. Types /\ At(h) /\ pc[h] \in Places
      BY <1>1 DEF BodyInv, Types
    <3>2. got[h] = <<>> => Counted(h)
      BY <3>1 DEF Counted, Types
    <3> QED
      BY <2>1, <3>1, <3>2 DEF At, Places
  <2>2. BodyInOrder
    BY <1>1, <2>1, CountedIsPrefix DEF BodyInOrder, BodyInv
  <2>3. ASSUME via = "cgi" \/ nReqId
        PROVE  BodyComplete
    <3> SUFFICES ASSUME NEW h \in Reader, pc[h] = "respond", Alive(h), ~reset, ~stop
                 PROVE  ended /\ got[h] = Body
      BY DEF BodyComplete
    <3>1. ended /\ Len(got[h]) = sent
      BY <1>1, <2>3 DEF BodyInv, At, Asked, After
    <3> QED
      BY <1>1, <2>1, <3>1, CountedIsPrefix DEF BodyInv
  <2> QED
    BY <2>2, <2>3 DEF RequestPassedOn
<1>2. ASSUME OneThread
      PROVE  FcgiSpec => []RequestPassedOn
  <2>1. BodyInv /\ [FcgiNext]_allVars => BodyInv'
    BY <1>2, StepBody
  <2> QED
    BY <1>1, <2>1, InitBody, PTL DEF FcgiSpec
<1> QED
  BY <1>2

-----------------------------------------------------------------------------
(* BodiesPassedOn *)

Live == ~stop /\ ~reset

\* A run of packets that begins after packet n.
Run(p, n) == \A k \in 1 .. Len(p) : p[k] = n + k

\* The pieces of q are runs, one after the other, of what follows packet a, up
\* to packet b; f counts how far each of them comes.
Chain(q, a, b) ==
  \E f \in [0 .. Len(q) -> Nat] :
    /\ f[0] = a /\ f[Len(q)] = b
    /\ \A m \in 1 .. Len(q) : f[m] = f[m - 1] + Len(q[m]) /\ Run(q[m], f[m - 1])

OutTypes ==
  /\ produced \in Nat /\ dqOutData \in Seq(Seq(Nat))
  /\ piece \in Seq(Nat) /\ answered \in Seq(Nat)
  /\ l_bReqEnde \in BOOLEAN /\ bAbort \in BOOLEAN

\* As long as the client is there, what it got, what the thread holds and what
\* waits are, in this order, all packets there were.
OutInv ==
  /\ OutTypes
  /\ Run(answered, 0)
  /\ Live => Run(piece, Len(answered)) /\ Chain(dqOutData, Len(answered) + Len(piece), produced)
  /\ bAbort => ~Live
  /\ via = "cgi" => ~nReqId
  /\ \A h \in Reader :
       /\ pc[h] \notin {"send", "join"} => piece = <<>>
       /\ pc[h] \in {"remove", "join"} => l_bReqEnde
       /\ pc[h] = "respond" /\ nReqId /\ Live => l_bReqEnde /\ dqOutData = <<>>

LEMMA AddAssoc == \A a, b, c \in Nat : (a + b) + c = a + (b + c)
OBVIOUS

LEMMA RunJoined ==
  ASSUME NEW p \in Seq(Nat), NEW r \in Seq(Nat), NEW n \in Nat, Run(p, n), Run(r, n + Len(p))
  PROVE  /\ p \o r \in Seq(Nat) /\ Len(p \o r) = Len(p) + Len(r)
         /\ Run(p \o r, n)
<1>1. /\ p \o r \in Seq(Nat) /\ Len(p \o r) = Len(p) + Len(r) /\ Len(p) \in Nat /\ Len(r) \in Nat
      /\ \A k \in 1 .. Len(p) + Len(r) : (p \o r)[k] = IF k <= Len(p) THEN p[k] ELSE r[k - Len(p)]
  BY ConcatProperties, LenProperties
<1>2. ASSUME NEW k \in 1 .. Len(p) + Len(r) PROVE (p \o r)[k] = n + k
  <2>1. CASE k <= Len(p)
    BY <1>1, <2>1 DEF Run
  <2>2. CASE k > Len(p)
    <3>1. k - Len(p) \in 1 .. Len(r)
      BY <1>1, <2>2
    <3>2. r[k - Len(p)] = (n + Len(p)) + (k - Len(p))
      BY <3>1 DEF Run
    <3> QED BY <1>1, <2>2, <3>2
  <2> QED BY <1>1, <2>1, <2>2
<1> QED BY <1>1, <1>2 DEF Run

\* A run that is cut is two.
LEMMA RunCut ==
  ASSUME NEW p \in Seq(Nat), NEW n \in Nat, Run(p, n), NEW k \in 0 .. Len(p)
  PROVE  /\ SubSeq(p, 1, k) \in Seq(Nat) /\ Len(SubSeq(p, 1, k)) = k /\ Run(SubSeq(p, 1, k), n)
         /\ SubSeq(p, k + 1, Len(p)) \in Seq(Nat) /\ Len(SubSeq(p, k + 1, Len(p))) = Len(p) - k
         /\ Run(SubSeq(p, k + 1, Len(p)), n + k)
<1>1. Len(p) \in Nat /\ \A j \in 1 .. Len(p) : p[j] \in Nat
  BY LenProperties, ElementOfSeq
<1>2. /\ SubSeq(p, 1, k) \in Seq(Nat) /\ Len(SubSeq(p, 1, k)) = k
      /\ \A j \in 1 .. k : SubSeq(p, 1, k)[j] = p[j]
  <2>1. \A j \in 1 .. k : p[j] \in Nat
    BY <1>1
  <2> QED BY <1>1, <2>1, SubSeqProperties
<1>3. /\ SubSeq(p, k + 1, Len(p)) \in Seq(Nat) /\ Len(SubSeq(p, k + 1, Len(p))) = Len(p) - k
      /\ \A j \in 1 .. Len(p) - k : SubSeq(p, k + 1, Len(p))[j] = p[k + j]
  <2>1. \A j \in k + 1 .. Len(p) : p[j] \in Nat
    BY <1>1
  <2>2. /\ SubSeq(p, k + 1, Len(p)) \in Seq(Nat)
        /\ Len(SubSeq(p, k + 1, Len(p))) = IF k + 1 <= Len(p) THEN Len(p) - (k + 1) + 1 ELSE 0
        /\ \A j \in 1 .. Len(p) - (k + 1) + 1 : SubSeq(p, k + 1, Len(p))[j] = p[(k + 1) + j - 1]
    <3>1. k + 1 \in Int /\ Len(p) \in Int
      BY <1>1
    <3> QED BY <2>1, <3>1, SubSeqProperties
  <2> QED BY <1>1, <2>2
<1>4. Run(SubSeq(p, 1, k), n)
  BY <1>1, <1>2 DEF Run
<1>5. ASSUME NEW j \in 1 .. Len(p) - k PROVE SubSeq(p, k + 1, Len(p))[j] = (n + k) + j
  <2>1. k + j \in 1 .. Len(p)
    BY <1>1
  <2>2. p[k + j] = n + (k + j)
    BY <2>1 DEF Run
  <2> QED BY <1>1, <1>3, <2>2
<1> QED BY <1>2, <1>3, <1>4, <1>5 DEF Run

LEMMA ChainEmpty ==
  ASSUME NEW a \in Nat, NEW b \in Nat
  PROVE  Chain(<<>>, a, b) <=> a = b
<1>1. ASSUME a = b PROVE Chain(<<>>, a, b)
  <2> DEFINE f == [m \in 0 .. 0 |-> a]
  <2>1. f \in [0 .. Len(<<>>) -> Nat] /\ f[0] = a /\ f[Len(<<>>)] = b
    BY <1>1
  <2> HIDE DEF f
  <2> QED BY <2>1 DEF Chain
<1>2. ASSUME Chain(<<>>, a, b) PROVE a = b
  BY <1>2 DEF Chain
<1> QED BY <1>1, <1>2

\* The first piece is taken.
LEMMA ChainPop ==
  ASSUME NEW q \in Seq(Seq(Nat)), q # <<>>, NEW a \in Nat, NEW b \in Nat, Chain(q, a, b)
  PROVE  /\ Head(q) \in Seq(Nat) /\ Run(Head(q), a)
         /\ Tail(q) \in Seq(Seq(Nat)) /\ Chain(Tail(q), a + Len(Head(q)), b)
<1>1. PICK f \in [0 .. Len(q) -> Nat] :
        /\ f[0] = a /\ f[Len(q)] = b
        /\ \A m \in 1 .. Len(q) : f[m] = f[m - 1] + Len(q[m]) /\ Run(q[m], f[m - 1])
  BY DEF Chain
<1>2. /\ Len(q) \in Nat /\ Len(q) >= 1 /\ Head(q) = q[1] /\ Head(q) \in Seq(Nat)
      /\ Tail(q) \in Seq(Seq(Nat)) /\ Len(Tail(q)) = Len(q) - 1
      /\ \A m \in 1 .. Len(q) - 1 : Tail(q)[m] = q[m + 1]
  BY HeadTailProperties
<1> DEFINE g == [m \in 0 .. Len(q) - 1 |-> f[m + 1]]
<1>3. /\ g \in [0 .. Len(Tail(q)) -> Nat] /\ g[Len(Tail(q))] = b
      /\ g[0] = a + Len(Head(q)) /\ Run(Head(q), a)
  BY <1>1, <1>2
<1>4. ASSUME NEW m \in 1 .. Len(Tail(q))
      PROVE  g[m] = g[m - 1] + Len(Tail(q)[m]) /\ Run(Tail(q)[m], g[m - 1])
  <2>1. m + 1 \in 1 .. Len(q) /\ (m + 1) - 1 = m /\ m - 1 \in 0 .. Len(q) - 1 /\ (m - 1) + 1 = m
        /\ m \in 0 .. Len(q) - 1 /\ m \in 1 .. Len(q) - 1
    BY <1>2
  <2>2. g[m] = f[m + 1] /\ g[m - 1] = f[m] /\ Tail(q)[m] = q[m + 1]
    BY <1>2, <2>1
  <2>3. f[m + 1] = f[m] + Len(q[m + 1]) /\ Run(q[m + 1], f[m])
    BY <1>1, <2>1
  <2> HIDE DEF g
  <2> QED BY <2>2, <2>3
<1> HIDE DEF g
<1> QED BY <1>2, <1>3, <1>4 DEF Chain

\* A piece is put back before the others.
LEMMA ChainPush ==
  ASSUME NEW q \in Seq(Seq(Nat)), NEW a \in Nat, NEW b \in Nat,
         NEW p \in Seq(Nat), Run(p, a), Chain(q, a + Len(p), b)
  PROVE  <<p>> \o q \in Seq(Seq(Nat)) /\ Chain(<<p>> \o q, a, b)
<1> DEFINE r == <<p>> \o q
<1>1. PICK f \in [0 .. Len(q) -> Nat] :
        /\ f[0] = a + Len(p) /\ f[Len(q)] = b
        /\ \A m \in 1 .. Len(q) : f[m] = f[m - 1] + Len(q[m]) /\ Run(q[m], f[m - 1])
  BY DEF Chain
<1>2. /\ Len(q) \in Nat /\ r \in Seq(Seq(Nat)) /\ Len(r) = Len(q) + 1 /\ r[1] = p
      /\ \A m \in 2 .. Len(q) + 1 : r[m] = q[m - 1]
  <2>1. <<p>> \in Seq(Seq(Nat)) /\ Len(<<p>>) = 1 /\ <<p>>[1] = p /\ Len(q) \in Nat
    OBVIOUS
  <2>2. /\ r \in Seq(Seq(Nat)) /\ Len(r) = 1 + Len(q)
        /\ \A m \in 1 .. 1 + Len(q) : r[m] = IF m <= 1 THEN <<p>>[m] ELSE q[m - 1]
    BY <2>1, ConcatProperties
  <2> HIDE DEF r
  <2> QED BY <2>1, <2>2
<1> HIDE DEF r
<1> DEFINE g == [m \in 0 .. Len(q) + 1 |-> IF m = 0 THEN a ELSE f[m - 1]]
<1>3. /\ g \in [0 .. Len(r) -> Nat] /\ g[0] = a /\ g[Len(r)] = b
      /\ g[1] = a + Len(p)
  BY <1>1, <1>2
<1>4. ASSUME NEW m \in 1 .. Len(r)
      PROVE  g[m] = g[m - 1] + Len(r[m]) /\ Run(r[m], g[m - 1])
  <2>1. CASE m = 1
    <3> HIDE DEF g
    <3> QED BY <1>2, <1>3, <2>1
  <2>2. CASE m # 1
    <3>1. /\ m - 1 \in 1 .. Len(q) /\ m \in 2 .. Len(q) + 1 /\ m # 0 /\ m - 1 # 0
          /\ m \in 0 .. Len(q) + 1 /\ m - 1 \in 0 .. Len(q) + 1
      BY <1>2, <2>2
    <3>2. g[m] = f[m - 1] /\ g[m - 1] = f[(m - 1) - 1] /\ r[m] = q[m - 1]
      BY <1>2, <3>1
    <3> HIDE DEF g
    <3> QED BY <1>1, <3>1, <3>2
  <2> QED BY <2>1, <2>2
<1> HIDE DEF g
<1>5. Chain(r, a, b)
  BY <1>3, <1>4 DEF Chain
<1> QED BY <1>2, <1>5 DEF r

\* The server's next packet comes behind the others.
LEMMA ChainAppend ==
  ASSUME NEW q \in Seq(Seq(Nat)), NEW a \in Nat, NEW b \in Nat, Chain(q, a, b)
  PROVE  Append(q, <<b + 1>>) \in Seq(Seq(Nat)) /\ Chain(Append(q, <<b + 1>>), a, b + 1)
<1> DEFINE r == Append(q, <<b + 1>>)
<1>1. PICK f \in [0 .. Len(q) -> Nat] :
        /\ f[0] = a /\ f[Len(q)] = b
        /\ \A m \in 1 .. Len(q) : f[m] = f[m - 1] + Len(q[m]) /\ Run(q[m], f[m - 1])
  BY DEF Chain
<1>2. <<b + 1>> \in Seq(Nat) /\ Len(<<b + 1>>) = 1 /\ Run(<<b + 1>>, b)
  BY DEF Run
<1>3. /\ Len(q) \in Nat /\ r \in Seq(Seq(Nat)) /\ Len(r) = Len(q) + 1
      /\ r[Len(q) + 1] = <<b + 1>> /\ \A m \in 1 .. Len(q) : r[m] = q[m]
  BY <1>2, AppendProperties, LenProperties
<1> HIDE DEF r
<1> DEFINE g == [m \in 0 .. Len(q) + 1 |-> IF m = Len(q) + 1 THEN b + 1 ELSE f[m]]
<1>4. /\ g \in [0 .. Len(r) -> Nat] /\ g[0] = a /\ g[Len(r)] = b + 1
      /\ g[Len(q)] = b
  BY <1>1, <1>3
<1>5. ASSUME NEW m \in 1 .. Len(r)
      PROVE  g[m] = g[m - 1] + Len(r[m]) /\ Run(r[m], g[m - 1])
  <2>1. CASE m = Len(q) + 1
    <3>1. g[m] = b + 1 /\ m - 1 = Len(q) /\ r[m] = <<b + 1>>
      BY <1>3, <1>4, <2>1
    <3> HIDE DEF g
    <3> QED BY <1>2, <1>4, <3>1
  <2>2. CASE m # Len(q) + 1
    <3>1. m \in 1 .. Len(q) /\ m - 1 \in 0 .. Len(q) + 1 /\ m - 1 # Len(q) + 1
      BY <1>3, <2>2
    <3>2. g[m] = f[m] /\ g[m - 1] = f[m - 1] /\ r[m] = q[m]
      BY <1>3, <2>2, <3>1
    <3> HIDE DEF g
    <3> QED BY <1>1, <3>1, <3>2
  <2> QED BY <2>1, <2>2
<1> HIDE DEF g
<1>6. Chain(r, a, b + 1)
  BY <1>4, <1>5 DEF Chain
<1> QED BY <1>3, <1>6 DEF r

LEMMA InitOut == FcgiInit => OutInv
<1> SUFFICES ASSUME FcgiInit PROVE OutInv
  OBVIOUS
<1>1. /\ produced = 0 /\ dqOutData = <<>> /\ piece = <<>> /\ answered = <<>>
      /\ l_bReqEnde = FALSE /\ bAbort = FALSE /\ nReqId = FALSE
      /\ \A h \in Reader : pc[h] = "idle"
  BY DEF FcgiInit, Init
<1>2. OutTypes
  <2>1. produced \in Nat /\ dqOutData \in Seq(Seq(Nat)) /\ piece \in Seq(Nat) /\ answered \in Seq(Nat)
    BY <1>1
  <2>2. l_bReqEnde \in BOOLEAN
    BY <1>1
  <2>3. bAbort \in BOOLEAN
    BY <1>1
  <2> QED BY <2>1, <2>2, <2>3 DEF OutTypes
<1>3. /\ Run(<<>>, 0) /\ Run(<<>>, Len(<<>>))
      /\ Chain(<<>>, Len(<<>>) + Len(<<>>), 0)
  <2>1. Len(<<>>) + Len(<<>>) = 0
    OBVIOUS
  <2> QED BY <2>1, ChainEmpty DEF Run
<1> QED BY <1>1, <1>2, <1>3 DEF OutInv

\* The steps that leave the output alone.
LEMMA OutKept ==
  ASSUME OutInv, UNCHANGED <<output, l_bReqEnde, bAbort, via>>, Live' => Live,
         via = "cgi" => ~nReqId',
         \A g \in Reader :
           /\ pc[g] \in {"send", "join"} <=> pc'[g] \in {"send", "join"}
           /\ pc'[g] \in {"remove", "join"} => pc[g] \in {"remove", "join"}
           /\ pc'[g] = "respond" /\ nReqId' /\ Live' => pc[g] = "respond" /\ nReqId
  PROVE  OutInv'
<1>1. UNCHANGED <<produced, dqOutData, piece, answered, l_bReqEnde, bAbort, via>>
  BY DEF output
<1>2. OutTypes' /\ Run(answered, 0)'
  BY <1>1 DEF OutInv, OutTypes, Run
<1>3. Live' => Run(piece, Len(answered))' /\ Chain(dqOutData, Len(answered) + Len(piece), produced)'
  BY <1>1 DEF OutInv, Run, Chain
<1> QED BY <1>1, <1>2, <1>3 DEF OutInv

LEMMA OutServer ==
  ASSUME BodyInv, OutInv, ServerStep
  PROVE  OutInv'
<1>1. CASE \E dies \in BOOLEAN : LoseServer(dies)
  BY <1>1, OutKept DEF LoseServer, vars, OutInv, Live
<1>2. CASE Produce
  <2>1. /\ ~l_bReqEnde /\ produced' = produced + 1 /\ dqOutData' = Append(dqOutData, <<produced + 1>>)
        /\ UNCHANGED <<piece, answered, l_bReqEnde, bAbort, via, nReqId, pc, stop, reset>>
    BY <1>2 DEF Produce, vars
  <2>2. OutTypes /\ Len(answered) + Len(piece) \in Nat
    BY DEF OutInv, OutTypes
  <2>3. dqOutData' \in Seq(Seq(Nat))
    <3>1. <<produced + 1>> \in Seq(Nat)
      BY <2>2 DEF OutTypes
    <3> QED BY <2>1, <2>2, <3>1 DEF OutTypes
  <2>4. OutTypes'
    BY <2>1, <2>2, <2>3 DEF OutTypes
  <2>5. Live' => Run(piece, Len(answered))' /\ Chain(dqOutData, Len(answered) + Len(piece), produced)'
    <3> SUFFICES ASSUME Live' PROVE Run(piece, Len(answered))' /\ Chain(dqOutData, Len(answered) + Len(piece), produced)'
      OBVIOUS
    <3>1. Run(piece, Len(answered)) /\ Chain(dqOutData, Len(answered) + Len(piece), produced)
      BY <2>1 DEF OutInv, Live
    <3>2. Chain(dqOutData', Len(answered) + Len(piece), produced + 1)
      BY <2>1, <2>2, <3>1, ChainAppend DEF OutTypes
    <3> QED BY <2>1, <3>1, <3>2 DEF Run, Chain
  <2> QED BY <2>1, <2>4, <2>5 DEF OutInv, Live, Run
<1>3. CASE EndRequest
  <2>1. /\ l_bReqEnde' = TRUE
        /\ UNCHANGED <<produced, dqOutData, piece, answered, bAbort, via, nReqId, pc, stop, reset>>
    BY <1>3 DEF EndRequest, vars, output
  <2>2. OutTypes' /\ Run(answered, 0)'
    BY <2>1 DEF OutInv, OutTypes, Run
  <2>3. Live' => Run(piece, Len(answered))' /\ Chain(dqOutData, Len(answered) + Len(piece), produced)'
    BY <2>1 DEF OutInv, Run, Chain, Live
  <2> QED BY <2>1, <2>2, <2>3 DEF OutInv, Live
<1> QED BY <1>1, <1>2, <1>3 DEF ServerStep

\* What the thread does with the output.
LEMMA OutThread ==
  ASSUME OneThread, BodyInv, OutInv, via = "fcgi", NEW h \in Reader,
         TakeTwo(h) \/ SendOutput(h) \/ JoinRest(h) \/ SendRest(h)
  PROVE  OutInv'
<1>1. /\ UNCHANGED <<produced, nReqId, via, l_bReqEnde, bAbort, stop, reset>>
      /\ \A g \in Reader : g = h
      /\ pc \in [Reader -> Places]
  BY DEF TakeTwo, SendOutput, JoinRest, SendRest, Continue, OneThread, BodyInv, Types
<1>2. /\ OutTypes /\ Run(answered, 0) /\ Live' = Live
      /\ Len(answered) \in Nat /\ Len(piece) \in Nat
  BY <1>1 DEF OutInv, OutTypes, Live
<1>t. produced \in Nat /\ dqOutData \in Seq(Seq(Nat)) /\ piece \in Seq(Nat) /\ answered \in Seq(Nat)
  BY <1>2 DEF OutTypes
<1>3. CASE TakeTwo(h)
  <2>1. /\ pc[h] = "output" /\ pc'[h] = "send" /\ Len(dqOutData) > 1
        /\ piece' = dqOutData[1] \o dqOutData[2]
        /\ dqOutData' = Tail(Tail(dqOutData)) /\ answered' = answered
    BY <1>1, <1>3 DEF TakeTwo, Continue, Goto
  <2>2. piece = <<>> /\ Len(piece) = 0
    BY <2>1 DEF OutInv
  <2> DEFINE q == Tail(dqOutData)
  <2>3. /\ dqOutData # <<>> /\ q # <<>> /\ q \in Seq(Seq(Nat)) /\ Tail(q) \in Seq(Seq(Nat))
        /\ Head(dqOutData) = dqOutData[1] /\ Head(q) = dqOutData[2]
        /\ dqOutData[1] \in Seq(Nat) /\ dqOutData[2] \in Seq(Nat)
    <3>1. dqOutData # <<>> /\ Len(dqOutData) \in Nat
      BY <1>t, <2>1
    <3>2. /\ q \in Seq(Seq(Nat)) /\ Len(q) = Len(dqOutData) - 1
          /\ \A j \in 1 .. Len(q) : q[j] = dqOutData[j + 1]
          /\ Head(dqOutData) = dqOutData[1] /\ Head(dqOutData) \in Seq(Nat)
      BY <1>t, <3>1, HeadTailProperties
    <3> HIDE DEF q
    <3>3. Len(q) \in Nat /\ Len(q) >= 1 /\ q # <<>>
      BY <2>1, <3>1, <3>2
    <3>4. Head(q) = q[1] /\ Head(q) \in Seq(Nat) /\ Tail(q) \in Seq(Seq(Nat))
      BY <3>2, <3>3, HeadTailProperties
    <3>5. q[1] = dqOutData[2]
      BY <3>2, <3>3
    <3> QED BY <3>1, <3>2, <3>3, <3>4, <3>5
  <2>4. dqOutData' = Tail(q)
    BY <2>1
  <2>5. piece' \in Seq(Nat)
    BY <2>1, <2>3
  <2>6. ASSUME Live PROVE Run(piece', Len(answered)) /\ Chain(dqOutData', Len(answered) + Len(piece'), produced)
    <3>1. Chain(dqOutData, Len(answered), produced)
      <4>1. Len(answered) + Len(piece) = Len(answered)
        BY <1>2, <2>2
      <4> QED BY <2>6, <4>1 DEF OutInv
    <3>2. Run(dqOutData[1], Len(answered)) /\ Chain(q, Len(answered) + Len(dqOutData[1]), produced)
      BY <1>2, <1>t, <2>3, <3>1, ChainPop
    <3>3. Len(answered) + Len(dqOutData[1]) \in Nat /\ Len(dqOutData[1]) \in Nat /\ Len(dqOutData[2]) \in Nat
      BY <1>2, <2>3
    <3> HIDE DEF q
    <3>4. /\ Run(dqOutData[2], Len(answered) + Len(dqOutData[1]))
          /\ Chain(Tail(q), (Len(answered) + Len(dqOutData[1])) + Len(dqOutData[2]), produced)
      BY <1>t, <2>3, <3>2, <3>3, ChainPop
    <3>5. Run(piece', Len(answered)) /\ Len(piece') = Len(dqOutData[1]) + Len(dqOutData[2])
      BY <1>2, <2>1, <2>3, <3>2, <3>4, RunJoined
    <3>6. (Len(answered) + Len(dqOutData[1])) + Len(dqOutData[2]) = Len(answered) + Len(piece')
      <4>1. Len(piece') = Len(dqOutData[1]) + Len(dqOutData[2])
        BY <3>5
      <4>2. Len(answered) \in Nat
        BY <1>2
      <4>3. (Len(answered) + Len(dqOutData[1])) + Len(dqOutData[2])
              = Len(answered) + (Len(dqOutData[1]) + Len(dqOutData[2]))
        BY <3>3, <4>2, AddAssoc
      <4> QED BY <4>1, <4>3
    <3> QED BY <2>4, <3>4, <3>5, <3>6
  <2>7. OutTypes'
    BY <1>1, <1>2, <2>1, <2>3, <2>4, <2>5 DEF OutTypes
  <2>8. Live' => Run(piece, Len(answered))' /\ Chain(dqOutData, Len(answered) + Len(piece), produced)'
    BY <1>1, <1>2, <2>1, <2>6 DEF Run, Chain
  <2> QED BY <1>1, <1>2, <2>1, <2>7, <2>8 DEF OutInv, Run
<1>4. CASE SendOutput(h)
  <2>1. PICK k \in 0 .. Len(piece) :
          /\ answered' = Sent(SubSeq(piece, 1, k))
          /\ dqOutData' = IF SubSeq(piece, k + 1, Len(piece)) = <<>> THEN dqOutData
                          ELSE Requeue(SubSeq(piece, k + 1, Len(piece)))
          /\ piece' = <<>> /\ pc[h] = "send" /\ pc'[h] \in {"output", "reqEnd"}
    BY <1>1, <1>4 DEF SendOutput, Continue, Goto
  <2> DEFINE rest == SubSeq(piece, k + 1, Len(piece))
             front == SubSeq(piece, 1, k)
  <2>2. front \in Seq(Nat) /\ rest \in Seq(Nat)
    BY <1>t DEF Run
  <2>3. answered' \in Seq(Nat) /\ dqOutData' \in Seq(Seq(Nat))
    <3>1. Requeue(rest) \in Seq(Seq(Nat))
      <4>1. <<rest>> \in Seq(Seq(Nat))
        BY <2>2
      <4> QED BY <1>t, <4>1, ConcatProperties DEF Requeue
    <3>2. answered \o front \in Seq(Nat)
      BY <1>t, <2>2, ConcatProperties
    <3> QED BY <1>t, <2>1, <3>1, <3>2 DEF Sent
  <2>4. ASSUME Live
        PROVE  /\ Run(answered', 0)
               /\ Run(piece', Len(answered')) /\ Chain(dqOutData', Len(answered') + Len(piece'), produced)
    <3>1. Run(piece, Len(answered)) /\ Chain(dqOutData, Len(answered) + Len(piece), produced)
      BY <2>4 DEF OutInv
    <3>2. /\ Len(front) = k /\ Run(front, Len(answered))
          /\ Len(rest) = Len(piece) - k /\ Run(rest, Len(answered) + k)
      BY <1>2, <1>t, <3>1, RunCut
    <3>3. answered' = answered \o front
      BY <2>1, <2>4 DEF Sent, Live
    <3> HIDE DEF front, rest
    <3>4. Run(answered', 0) /\ Len(answered') = Len(answered) + k
      <4>1. 0 + Len(answered) = Len(answered)
        BY <1>2
      <4> QED BY <1>2, <1>t, <2>2, <3>2, <3>3, <4>1, RunJoined
    <3>5. Run(piece', Len(answered')) /\ Len(answered') + Len(piece') = Len(answered) + k
      BY <1>2, <2>1, <3>4 DEF Run
    <3>6. Chain(dqOutData', Len(answered) + k, produced)
      <4>1. CASE rest = <<>>
        <5>1. Len(piece) = k
          BY <1>2, <3>2, <4>1
        <5> QED BY <2>1, <3>1, <4>1, <5>1 DEF rest
      <4>2. CASE rest # <<>>
        <5>1. (Len(answered) + k) + Len(rest) = Len(answered) + Len(piece) /\ Len(answered) + k \in Nat
          BY <1>2, <3>2
        <5>2. Chain(<<rest>> \o dqOutData, Len(answered) + k, produced)
          BY <1>t, <2>2, <3>1, <3>2, <5>1, ChainPush
        <5> QED BY <2>1, <4>2, <5>2 DEF Requeue, rest
      <4> QED BY <4>1, <4>2
    <3> QED BY <3>4, <3>5, <3>6
  <2>5. ~Live => answered' = answered
    BY <2>1 DEF Sent, Live
  <2>6. OutTypes' /\ Run(answered, 0)'
    BY <1>1, <1>2, <2>1, <2>3, <2>4, <2>5 DEF OutTypes, Run
  <2>7. Live' => Run(piece, Len(answered))' /\ Chain(dqOutData, Len(answered) + Len(piece), produced)'
    BY <1>1, <1>2, <2>4 DEF Run, Chain
  <2> QED BY <1>1, <1>2, <2>1, <2>6, <2>7 DEF OutInv
<1>5. CASE JoinRest(h)
  <2>1. /\ dqOutData # <<>> /\ pc[h] = "join" /\ pc'[h] = "join"
        /\ piece' = piece \o Head(dqOutData) /\ dqOutData' = Tail(dqOutData) /\ answered' = answered
    BY <1>1, <1>5 DEF JoinRest, Continue, Goto
  <2>2. Head(dqOutData) \in Seq(Nat) /\ dqOutData' \in Seq(Seq(Nat)) /\ piece' \in Seq(Nat)
    BY <1>t, <2>1
  <2>3. ASSUME Live
        PROVE  Run(piece', Len(answered)) /\ Chain(dqOutData', Len(answered) + Len(piece'), produced)
    <3>1. Run(piece, Len(answered)) /\ Chain(dqOutData, Len(answered) + Len(piece), produced)
      BY <2>3 DEF OutInv
    <3>2. /\ Run(Head(dqOutData), Len(answered) + Len(piece))
          /\ Chain(dqOutData', (Len(answered) + Len(piece)) + Len(Head(dqOutData)), produced)
      <4>1. Len(answered) + Len(piece) \in Nat
        BY <1>2
      <4> QED BY <1>t, <2>1, <3>1, <4>1, ChainPop
    <3>3. Run(piece', Len(answered)) /\ Len(piece') = Len(piece) + Len(Head(dqOutData))
      BY <1>2, <1>t, <2>1, <2>2, <3>1, <3>2, RunJoined
    <3>4. Len(answered) + Len(piece') = (Len(answered) + Len(piece)) + Len(Head(dqOutData))
      <4>1. Len(Head(dqOutData)) \in Nat
        BY <2>2
      <4>2. Len(answered) \in Nat /\ Len(piece) \in Nat
        BY <1>2
      <4>3. Len(answered) + (Len(piece) + Len(Head(dqOutData)))
              = (Len(answered) + Len(piece)) + Len(Head(dqOutData))
        BY <4>1, <4>2, AddAssoc
      <4>4. Len(piece') = Len(piece) + Len(Head(dqOutData))
        BY <3>3
      <4> QED BY <4>3, <4>4
    <3> QED BY <3>2, <3>3, <3>4
  <2>4. OutTypes'
    BY <1>1, <1>2, <2>1, <2>2 DEF OutTypes
  <2>5. Live' => Run(piece, Len(answered))' /\ Chain(dqOutData, Len(answered) + Len(piece), produced)'
    BY <1>1, <1>2, <2>1, <2>3 DEF Run, Chain
  <2> QED BY <1>1, <1>2, <2>1, <2>4, <2>5 DEF OutInv, Run
<1>6. CASE SendRest(h)
  <2>1. /\ dqOutData = <<>> /\ dqOutData' = <<>> /\ pc[h] = "join" /\ pc'[h] = "respond"
        /\ piece' = <<>> /\ answered' = Sent(piece)
    BY <1>1, <1>6 DEF SendRest, Continue, Goto
  <2>2. answered' \in Seq(Nat)
    BY <1>t, <2>1, ConcatProperties DEF Sent
  <2>3. ASSUME Live
        PROVE  /\ Run(answered', 0) /\ Run(piece', Len(answered'))
               /\ Chain(dqOutData', Len(answered') + Len(piece'), produced)
    <3>1. Run(piece, Len(answered)) /\ Chain(dqOutData, Len(answered) + Len(piece), produced)
      BY <2>3 DEF OutInv
    <3>2. answered' = answered \o piece
      BY <2>1, <2>3 DEF Sent, Live
    <3>3. Run(answered', 0) /\ Len(answered') = Len(answered) + Len(piece)
      <4>1. 0 + Len(answered) = Len(answered)
        BY <1>2
      <4> QED BY <1>2, <1>t, <3>1, <3>2, <4>1, RunJoined
    <3>4. Len(answered') + Len(piece') = Len(answered) + Len(piece) /\ Run(piece', Len(answered'))
      BY <1>2, <2>1, <3>3 DEF Run
    <3> QED BY <2>1, <3>1, <3>3, <3>4
  <2>4. ~Live => answered' = answered
    BY <2>1 DEF Sent, Live
  <2>5. OutTypes' /\ Run(answered, 0)'
    BY <1>1, <1>2, <2>1, <2>2, <2>3, <2>4 DEF OutTypes, Run
  <2>6. Live' => Run(piece, Len(answered))' /\ Chain(dqOutData, Len(answered) + Len(piece), produced)'
    BY <1>1, <1>2, <2>3 DEF Run, Chain
  <2> QED BY <1>1, <1>2, <2>1, <2>5, <2>6 DEF OutInv
<1> QED BY <1>3, <1>4, <1>5, <1>6

LEMMA StepOut ==
  ASSUME OneThread, BodyInv, OutInv, [FcgiNext]_allVars
  PROVE  OutInv'
<1> USE DEF output
<1>1. pc \in [Reader -> Places] /\ via \in {"cgi", "fcgi"} /\ \A h \in Reader : At(h)
  BY DEF BodyInv, Types
<1>2. CASE FromClient /\ UNCHANGED fcgiVars
  <2>1. /\ UNCHANGED <<pc, nReqId, output, l_bReqEnde, bAbort, via>> /\ (Live' => Live)
    BY <1>2 DEF FromClient, Data, EndStream, RstStream, StopConnection, fcgiVars, Live
  <2> QED BY <2>1, OutKept DEF OutInv
<1>3. ASSUME NEW h \in Reader, via = "cgi", UNCHANGED fcgiVars, Start(h) \/ ReaderStep(h)
      PROVE  OutInv'
  <2>1. /\ UNCHANGED <<nReqId, output, l_bReqEnde, bAbort, via>> /\ ~nReqId
    BY <1>3 DEF fcgiVars, OutInv
  <2>2. Live' => Live
    BY <1>3 DEF Live, Start, ReaderStep, WaitFirst, Sleep, Check, TakeFirst, Loop, Write, TakeNext,
       CloseWritePipe, Exit
  <2>3. /\ pc[h] \notin {"send", "join", "remove"} /\ pc'[h] \notin {"send", "join", "remove"}
    BY <1>1, <1>3 DEF Start, ReaderStep, WaitFirst, Sleep, Check, TakeFirst, Loop, Write, TakeNext,
       CloseWritePipe, Exit, Goto
  <2> QED BY <2>1, <2>2, <2>3, OutKept DEF OneThread
<1>4. ASSUME NEW h \in Reader, via = "fcgi", UNCHANGED fcgiVars,
             ForwardBody(h) \/ Exit(h)
      PROVE  OutInv'
  <2>1. UNCHANGED <<nReqId, output, l_bReqEnde, bAbort, via>>
    BY <1>4 DEF fcgiVars
  <2>2. Live' => Live
    BY <1>4 DEF Live, ForwardBody, WaitFirst, Sleep, Check, TakeFirst, Loop, Write, TakeNext, Exit
  <2>3. /\ pc[h] \notin {"send", "join", "remove"}
        /\ pc'[h] \notin {"send", "join", "remove", "respond"}
    BY <1>1, <1>4 DEF ForwardBody, WaitFirst, Sleep, Check, TakeFirst, Loop, Write, TakeNext,
       Exit, Goto
  <2> QED BY <1>4, <2>1, <2>2, <2>3, OutKept DEF OneThread
<1>5. ASSUME NEW h \in Reader, via = "fcgi",
             StartFcgi(h) \/ Lookup(h) \/ SetTimeout(h) \/ NotActive(h) \/ SendRequest(h) \/ Retry(h)
      PROVE  OutInv'
  <2>1. UNCHANGED <<output, l_bReqEnde, bAbort, via, stop, reset>>
    BY <1>5 DEF StartFcgi, Lookup, SetTimeout, NotActive, SendRequest, Retry, Continue
  <2>2. /\ pc[h] \in {"idle", "lookup", "found", "request", "retry"}
        /\ pc'[h] \notin {"send", "join", "remove"} /\ (pc'[h] = "respond" => ~nReqId')
    <3>1. pc[h] \in {"idle", "lookup", "found", "request", "retry"} /\ ~nReqId
      BY <1>1, <1>5 DEF StartFcgi, Lookup, SetTimeout, NotActive, SendRequest, Retry, Continue, At
    <3>2. CASE SendRequest(h)
      BY <1>1, <3>1, <3>2 DEF SendRequest, Continue, Goto
    <3>3. CASE StartFcgi(h) \/ Lookup(h) \/ SetTimeout(h) \/ NotActive(h) \/ Retry(h)
      <4>1. nReqId' = nReqId
        BY <3>3 DEF StartFcgi, Lookup, SetTimeout, NotActive, Retry
      <4>2. pc'[h] \notin {"send", "join", "remove"}
        BY <1>1, <3>3 DEF StartFcgi, Lookup, SetTimeout, NotActive, Retry, Continue, Goto
      <4> QED BY <3>1, <4>1, <4>2
    <3> QED BY <1>5, <3>1, <3>2, <3>3
  <2> QED BY <1>5, <2>1, <2>2, OutKept DEF OneThread, Live
<1>6. ASSUME NEW h \in Reader, via = "fcgi", SendEnd(h) \/ NoTwo(h)
      PROVE  OutInv'
  <2>1. /\ UNCHANGED <<nReqId, output, l_bReqEnde, bAbort, via, stop, reset>>
        /\ pc[h] \in {"close", "output"} /\ pc'[h] \in {"output", "reqEnd"}
    BY <1>1, <1>6 DEF SendEnd, NoTwo, Continue, Goto
  <2> QED BY <1>6, <2>1, OutKept DEF OneThread, Live
<1>7. ASSUME NEW h \in Reader, via = "fcgi", WaitReqEnd(h) \/ RemoveRequest(h)
      PROVE  OutInv'
  <2>1. /\ UNCHANGED <<nReqId, produced, dqOutData, piece, answered, l_bReqEnde, via, stop, reset>>
        /\ \/ /\ pc[h] = "reqEnd" /\ bAbort' = (bAbort \/ stop \/ reset)
              /\ pc'[h] = IF l_bReqEnde THEN "remove" ELSE "output"
           \/ /\ pc[h] = "remove" /\ bAbort' = bAbort
              /\ pc'[h] = IF bAbort THEN "respond" ELSE "join"
    BY <1>1, <1>7 DEF WaitReqEnd, RemoveRequest, Continue, Goto
  <2>2. bAbort' \in BOOLEAN /\ (bAbort' => ~Live)
    <3>1. bAbort \in BOOLEAN /\ (bAbort => ~Live)
      BY DEF OutInv, OutTypes
    <3>2. bAbort' = (bAbort \/ stop \/ reset) \/ bAbort' = bAbort
      BY <2>1
    <3>3. CASE bAbort' = bAbort
      BY <3>1, <3>3
    <3>4. CASE bAbort' = (bAbort \/ stop \/ reset)
      <4>1. stop \in BOOLEAN /\ reset \in BOOLEAN
        BY DEF BodyInv, Types
      <4>2. bAbort' \in BOOLEAN
        BY <3>4
      <4>3. bAbort' => ~Live
        BY <3>1, <3>4, <4>1 DEF Live
      <4> QED BY <4>2, <4>3
    <3> QED BY <3>2, <3>3, <3>4
  <2>3. OutTypes' /\ Run(answered, 0)'
    BY <2>1, <2>2 DEF OutInv, OutTypes, Run
  <2>4. Live' => Run(piece, Len(answered))' /\ Chain(dqOutData, Len(answered) + Len(piece), produced)'
    BY <2>1 DEF OutInv, Run, Chain, Live
  <2> QED BY <1>7, <2>1, <2>2, <2>3, <2>4 DEF OutInv, OneThread, Live
<1>8. ASSUME NEW h \in Reader, via = "fcgi", TakeTwo(h) \/ SendOutput(h) \/ JoinRest(h) \/ SendRest(h)
      PROVE  OutInv'
  BY <1>8, OutThread
<1>9. CASE UNCHANGED allVars
  <2>1. UNCHANGED <<pc, nReqId, output, l_bReqEnde, bAbort, via, stop, reset>>
    BY <1>9 DEF allVars, vars, fcgiVars
  <2> QED BY <2>1, OutKept DEF OutInv, Live
<1> QED
  <2>1. ASSUME NEW h \in Reader, via = "fcgi", FcgiStep(h) PROVE OutInv'
    BY <1>4, <1>5, <1>6, <1>7, <1>8, <2>1 DEF FcgiStep, ForwardBody
  <2>2. ASSUME NEW h \in Reader, via = "cgi", CgiStep(h) PROVE OutInv'
    BY <1>3, <2>2 DEF CgiStep
  <2> QED BY <1>1, <1>2, <1>3, <1>5, <1>9, <2>1, <2>2, OutServer DEF FcgiNext, ActionStep

\* What goes through DoAction arrives as it was: the body at the process or the
\* FastCGI server, and the server's output at the client, in the order in which
\* the library's thread brought it and all of it, however the pieces are joined,
\* cut and put back meanwhile, unless the client went away.
THEOREM BodiesArrive ==
  OneThread => (FcgiSpec => []BodiesPassedOn)
<1>1. ASSUME OutInv, RequestPassedOn PROVE BodiesPassedOn
  <2>1. OutTypes /\ Run(answered, 0) /\ Len(answered) \in Nat
    BY <1>1 DEF OutInv, OutTypes
  <2>2. answered = [i \in 1 .. Len(answered) |-> i]
    <3>1. answered = [i \in 1 .. Len(answered) |-> answered[i]]
      BY <2>1 DEF OutTypes
    <3>2. \A i \in 1 .. Len(answered) : answered[i] = i
      BY <2>1 DEF Run
    <3> QED BY <3>1, <3>2
  <2>3. ASSUME NEW h \in Reader, pc[h] = "respond", nReqId, ~stop, ~reset
        PROVE  Len(answered) = produced
    <3>1. piece = <<>> /\ dqOutData = <<>> /\ Chain(dqOutData, Len(answered) + Len(piece), produced)
      BY <1>1, <2>3 DEF OutInv, Live
    <3>2. Len(answered) + Len(piece) = Len(answered) /\ produced \in Nat
      BY <2>1, <3>1 DEF OutTypes
    <3> QED BY <2>1, <3>1, <3>2, ChainEmpty
  <2> QED BY <1>1, <2>2, <2>3 DEF BodiesPassedOn
<1>2. ASSUME OneThread PROVE FcgiSpec => []BodiesPassedOn
  <2>1. BodyInv /\ OutInv /\ [FcgiNext]_allVars => BodyInv' /\ OutInv'
    BY <1>2, StepBody, StepOut
  <2>2. FcgiSpec => []RequestPassedOn
    BY <1>2, RequestArrives
  <2> QED BY <1>1, <2>1, <2>2, InitBody, InitOut, PTL DEF FcgiSpec
<1> QED BY <1>2
=============================================================================
