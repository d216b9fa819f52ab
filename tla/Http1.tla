------------------------------- MODULE Http1 --------------------------------
(***************************************************************************)
(* An HTTP/1 connection: from the bytes of the client to the requests and  *)
(* their bodies (CHttpServ::OnDataReceived).                               *)
(*                                                                         *)
(* TCP hands the bytes over in pieces of any size.  The reading thread     *)
(* collects them in strBuffer, looks for the end of a header, takes the    *)
(* body that follows by its Content-Length, and starts one DoAction thread *)
(* for each request.  All threads of the connection share one queue for    *)
(* bodies, vecReqData, which is emptied when a request with a body comes.  *)
(*                                                                         *)
(* The client's bytes are tokens: the two halves of a request's header,    *)
(* the bytes of its body, and the tail of the HTTP/2 preface.              *)
(***************************************************************************)
EXTENDS Integers, Sequences, SequencesExt

CONSTANTS
  Kinds,        \* the requests a client makes, see KindSet
  MaxRequests,  \* bound on their number
  Pipelined,    \* whether the client sends before the last one is answered
  PrefaceSplit  \* whether TCP may split the 24 bytes of the HTTP/2 preface

\* len is the Content-Length, -1 one that is no number; body says whether DoAction
\* reads the body (a script) or not (a file, an error).
KindSet ==
  [form : {"request", "bad", "preface"}, expect : {"no", "100-continue", "other"},
   len : Nat \cup {-1}, upgrade : {"no", "h2c", "websocket"}, reads : BOOLEAN, close : BOOLEAN]

ASSUME Http1Assumption ==
  /\ Kinds \subseteq KindSet /\ Kinds # {}
  /\ MaxRequests \in Nat \ {0}
  /\ {Pipelined, PrefaceSplit} \subseteq BOOLEAN

Request == 1 .. MaxRequests
Nobody == 0
End == <<>>     \* the nullptr in vecReqData; payloads are not empty

VARIABLES
  asked,     \* the requests of the client so far, as kinds
  early,     \* whether one was sent before the last one was answered
  wire,      \* tokens on their way
  buf,       \* strBuffer
  soll, recv,\* nContentsSoll, nContentRecv
  vec,       \* vecReqData
  rpc,       \* where the reading thread is in OnDataReceived
  cur,       \* the request in HeaderList
  mode,      \* what the connection talks
  open,      \* the socket is not closed
  stop,      \* *atStop
  cont,      \* requests told "100 Continue"
  status,    \* the answers: per request 0, or what the client got
  pc, item, got    \* the DoAction threads: place, last item taken, input of the script

client == <<asked, early, wire>>
reader == <<buf, soll, recv, rpc, cur, mode>>
threads == <<pc, item, got>>
vars == <<client, reader, vec, open, stop, cont, status, threads>>

Token(r, p) == [req |-> r, part |-> p]
HeaderOf(r) == <<Token(r, 1), Token(r, 2)>>
BodyOf(r) == [i \in 1 .. asked[r].len |-> Token(r, 2 + i)]
Tail24(r) == Token(r, 0)                      \* "SM\r\n\r\n"
Preface(r) == Append(HeaderOf(r), Tail24(r))  \* "PRI * HTTP/2.0\r\n\r\nSM\r\n\r\n"

Init ==
  /\ asked = <<>> /\ early = FALSE /\ wire = <<>> /\ buf = <<>>
  /\ soll = 0 /\ recv = 0 /\ vec = <<>>
  /\ rpc = "idle" /\ cur = Nobody /\ mode = "http1"
  /\ open = TRUE /\ stop = FALSE /\ cont = {}
  /\ status = [r \in Request |-> 0]
  /\ pc = [r \in Request |-> "none"]
  /\ item = [r \in Request |-> End]
  /\ got = [r \in Request |-> <<>>]

-----------------------------------------------------------------------------
(* The client *)

\* A client that does not pipeline waits for the answer to its last request;
\* one that waits for "100 Continue" does not pipeline, and once it got that
\* sends its body before the next request.
Answered == \A r \in DOMAIN asked : r = Len(asked) => status[r] # 0

Ask(k) ==
  LET r == Len(asked) + 1 IN
  /\ open /\ mode = "http1" /\ Len(asked) < MaxRequests
  /\ ~Answered => Pipelined /\ Last(asked).expect = "no"
  /\ cont = {}
  /\ early' = (early \/ ~Answered)
  /\ k.form = "preface" => r = 1
  /\ asked' = Append(asked, k)
  /\ wire' = wire \o
       CASE k.form = "preface" -> Preface(r)
         [] k.form # "preface" /\ k.expect # "no" -> HeaderOf(r)
         [] OTHER -> HeaderOf(r) \o [i \in 1 .. k.len |-> Token(r, 2 + i)]
  /\ UNCHANGED <<reader, vec, open, stop, cont, status, threads>>

\* The client that waited for "100 Continue".
SendBody(r) ==
  /\ open /\ r \in cont
  /\ cont' = cont \ {r}
  /\ wire' = wire \o BodyOf(r)
  /\ UNCHANGED <<asked, early, reader, vec, open, stop, status, threads>>

ClientCloses ==
  /\ open /\ open' = FALSE
  /\ UNCHANGED <<client, reader, vec, stop, cont, status, threads>>

-----------------------------------------------------------------------------
(* The reading thread: OnDataReceived holds m_mtxConnections all the time, *)
(* mutReqData only for each change of vecReqData.                          *)

Smaller(a, b) == IF a < b THEN a ELSE b

\* 400, 408, 417: the answer of the reading thread, and Close.
Refuse(r, code) ==
  /\ status' = [status EXCEPT ![r] = code]
  /\ open' = FALSE
  /\ rpc' = "idle" /\ cur' = Nobody

\* The end of the first header in the buffer.
HeaderEnds == {n \in DOMAIN buf : buf[n].part = 2}
HeaderLen == CHOOSE n \in HeaderEnds : \A m \in HeaderEnds : n <= m

\* The request whose header the buffer starts with: its two halves and
\* nothing before them.
ParsedRequest ==
  LET first == buf[1].req
  IN  IF HeaderLen = 2 /\ SubSeq(buf, 1, 2) = HeaderOf(first) THEN first ELSE Nobody

\* What comes is added to the buffer.
Receive(n) ==
  /\ rpc = "idle" /\ open /\ ~stop /\ mode = "http1" /\ n \in DOMAIN wire
  /\ (~PrefaceSplit /\ asked[1].form = "preface") => n = Len(wire)
  /\ buf' = buf \o SubSeq(wire, 1, n)
  /\ wire' = SubSeq(wire, n + 1, Len(wire))
  /\ rpc' = IF soll # 0 THEN "upload" ELSE "preface"
  /\ UNCHANGED <<asked, early, soll, recv, cur, mode, vec, open, stop, cont, status, threads>>

\* The 24 bytes with which HTTP/2 begins.
SwitchToHttp2 ==
  LET isPreface == Len(buf) >= 3 /\ buf[3] = Tail24(1) IN
  /\ rpc = "preface"
  /\ mode' = IF isPreface THEN "http2" ELSE mode
  /\ buf' = IF isPreface THEN SubSeq(buf, 4, Len(buf)) ELSE buf
  /\ rpc' = IF isPreface THEN "idle" ELSE "header"
  /\ UNCHANGED <<client, soll, recv, cur, vec, open, stop, cont, status, threads>>

UploadAllOf(len) ==           \* mutant: the whole buffer is taken for the body
  Len(buf)

\* How much of the buffer belongs to the body.
Upload(missing) == Smaller(Len(buf), missing)

Payload(n) == IF n = 0 THEN <<>> ELSE <<SubSeq(buf, 1, n)>>

UploadStepUnmarked ==         \* mutant: no end marker after the last byte
  LET n == Upload(soll - recv)
      last == recv + n = soll IN
  /\ rpc = "upload"
  /\ vec' = vec \o Payload(n)
  /\ buf' = SubSeq(buf, n + 1, Len(buf))
  /\ recv' = IF last THEN 0 ELSE recv + n
  /\ soll' = IF last THEN 0 ELSE soll
  /\ rpc' = IF last /\ n < Len(buf) THEN "header" ELSE "idle"
  /\ UNCHANGED <<client, cur, mode, open, stop, cont, status, threads>>

\* A body in progress: append the bytes, after the last one the end marker.
\* What is left in the buffer is the next header.
UploadStep ==
  LET n == Upload(soll - recv)
      last == recv + n = soll IN
  /\ rpc = "upload"
  /\ vec' = vec \o Payload(n) \o (IF last THEN <<End>> ELSE <<>>)
  /\ buf' = SubSeq(buf, n + 1, Len(buf))
  /\ recv' = IF last THEN 0 ELSE recv + n
  /\ soll' = IF last THEN 0 ELSE soll
  /\ rpc' = IF last /\ n < Len(buf) THEN "header" ELSE "idle"
  /\ UNCHANGED <<client, cur, mode, open, stop, cont, status, threads>>

NeedMore ==
  /\ rpc = "header" /\ HeaderEnds = {}
  /\ rpc' = "idle"
  /\ UNCHANGED <<client, buf, soll, recv, cur, mode, vec, open, stop, cont, status, threads>>

\* A first line without three parts, or a header line without a colon.
BadHeader ==
  /\ rpc = "header" /\ HeaderEnds # {}
  /\ ParsedRequest = Nobody \/ asked[ParsedRequest].form = "bad"
  /\ Refuse(IF ParsedRequest = Nobody THEN buf[HeaderLen].req ELSE ParsedRequest, 400)
  /\ UNCHANGED <<client, buf, soll, recv, mode, vec, stop, cont, threads>>

\* The header goes out of the buffer; Expect is answered at once.
ParseHeader ==
  LET r == ParsedRequest IN
  /\ rpc = "header" /\ HeaderEnds # {}
  /\ r # Nobody /\ asked[r].form # "bad"
  /\ buf' = SubSeq(buf, 3, Len(buf))
  /\ IF asked[r].expect = "other"
     THEN Refuse(r, 417) /\ UNCHANGED cont
     ELSE /\ rpc' = "mark" /\ cur' = r
          /\ cont' = IF asked[r].expect = "no" THEN cont ELSE cont \cup {r}
          /\ UNCHANGED <<open, status>>
  /\ UNCHANGED <<client, soll, recv, mode, vec, stop, threads>>

\* "set end of data signal preliminary"
MarkEnd ==
  /\ rpc = "mark"
  /\ vec' = Append(vec, End)
  /\ rpc' = "content"
  /\ UNCHANGED <<client, buf, soll, recv, cur, mode, open, stop, cont, status, threads>>

BadLength ==
  /\ rpc = "content" /\ asked[cur].len < 0
  /\ Refuse(cur, 400)
  /\ UNCHANGED <<client, buf, soll, recv, mode, vec, stop, cont, threads>>

NoContent ==
  /\ rpc = "content" /\ asked[cur].len = 0
  /\ rpc' = "dispatch"
  /\ UNCHANGED <<client, buf, soll, recv, cur, mode, vec, open, stop, cont, status, threads>>

ContentAppends ==             \* mutant: vecReqData is not cleared
  LET len == asked[cur].len
      n == Upload(len)
      last == n = len IN
  /\ rpc = "content" /\ len > 0
  /\ vec' = vec \o Payload(n) \o (IF last THEN <<End>> ELSE <<>>)
  /\ buf' = SubSeq(buf, n + 1, Len(buf))
  /\ recv' = IF last THEN 0 ELSE n
  /\ soll' = IF last THEN 0 ELSE len
  /\ rpc' = "dispatch"
  /\ UNCHANGED <<client, cur, mode, open, stop, cont, status, threads>>

\* vecReqData.clear() takes the preliminary marker away, and whatever else
\* is there; then the bytes of the body that are in the buffer already.
Content ==
  LET len == asked[cur].len
      n == Upload(len)
      last == n = len IN
  /\ rpc = "content" /\ len > 0
  /\ vec' = Payload(n) \o (IF last THEN <<End>> ELSE <<>>)
  /\ buf' = SubSeq(buf, n + 1, Len(buf))
  /\ recv' = IF last THEN 0 ELSE n
  /\ soll' = IF last THEN 0 ELSE len
  /\ rpc' = "dispatch"
  /\ UNCHANGED <<client, cur, mode, open, stop, cont, status, threads>>

\* 101 and no thread: from here on the bytes are WebSocket frames.
UpgradeToWebSocket ==
  /\ rpc = "dispatch" /\ asked[cur].upgrade = "websocket"
  /\ mode' = "websocket"
  /\ status' = [status EXCEPT ![cur] = 101]
  /\ rpc' = "idle" /\ cur' = Nobody
  /\ UNCHANGED <<client, buf, soll, recv, vec, open, stop, cont, threads>>

\* The HTTP2-Settings of the request made Http2StreamProto return SIZE_MAX.
UpgradeRefused ==
  /\ rpc = "dispatch" /\ asked[cur].upgrade = "h2c"
  /\ status' = [status EXCEPT ![cur] = 101]
  /\ stop' = TRUE /\ open' = FALSE
  /\ rpc' = "idle" /\ cur' = Nobody
  /\ UNCHANGED <<client, buf, soll, recv, mode, vec, cont, threads>>

\* The request becomes the next stream of the connection, with a thread of
\* its own.  Only one request is taken out of the buffer for each call.
Dispatch ==
  /\ rpc = "dispatch" /\ asked[cur].upgrade # "websocket"
  /\ pc' = [pc EXCEPT ![cur] = IF asked[cur].reads THEN "wait" ELSE "respond"]
  /\ mode' = IF asked[cur].upgrade = "h2c" THEN "http2" ELSE mode
  /\ rpc' = "idle" /\ cur' = Nobody
  /\ UNCHANGED <<client, buf, soll, recv, vec, open, stop, cont, status, item, got>>

ReaderStep ==
  \/ SwitchToHttp2 \/ UploadStep \/ NeedMore \/ BadHeader \/ ParseHeader \/ MarkEnd
  \/ BadLength \/ NoContent \/ Content \/ UpgradeToWebSocket \/ UpgradeRefused
  \/ Dispatch

\* The request of the connection's newest thread.
Newest(r) == pc[r] # "none" /\ \A q \in Request : q > r => pc[q] = "none"

\* No byte for 30 seconds; "408" when a body is missing.
OnTimeout ==
  /\ rpc = "idle" /\ open
  /\ status' = [r \in Request |->
                  IF soll # 0 /\ Newest(r) /\ status[r] = 0 THEN 408 ELSE status[r]]
  /\ stop' = TRUE /\ open' = FALSE
  /\ UNCHANGED <<client, reader, vec, cont, threads>>

\* OnSocketClosing stops the threads of the connection.
OnSocketClosing ==
  /\ rpc = "idle" /\ ~open /\ ~stop
  /\ stop' = TRUE
  /\ UNCHANGED <<client, reader, vec, open, cont, status, threads>>

-----------------------------------------------------------------------------
(* The DoAction threads; httpVers is 1, so that no stream is ever reset.   *)

\* The lock is given up between this look at the queue and the next step.
WaitFirst(r) ==
  /\ pc[r] = "wait" /\ (vec # <<>> \/ stop)
  /\ pc' = [pc EXCEPT ![r] = IF stop THEN "respond" ELSE "first"]
  /\ UNCHANGED <<client, reader, vec, open, stop, cont, status, item, got>>

\* front() of an empty deque is undefined.
TakeFirst(r) ==
  /\ pc[r] = "first"
  /\ IF vec = <<>>
     THEN pc' = [pc EXCEPT ![r] = "undefined"] /\ UNCHANGED <<vec, item>>
     ELSE /\ item' = [item EXCEPT ![r] = Head(vec)]
          /\ vec' = Tail(vec)
          /\ pc' = [pc EXCEPT ![r] = "loop"]
  /\ UNCHANGED <<client, reader, open, stop, cont, status, got>>

\* A payload goes to the script, until the end marker or the stop.
WriteToSpawn(r) ==
  /\ pc[r] = "loop"
  /\ IF item[r] = End \/ stop
     THEN pc' = [pc EXCEPT ![r] = "respond"] /\ UNCHANGED got
     ELSE /\ pc' = [pc EXCEPT ![r] = "next"]
          /\ got' = [got EXCEPT ![r] = @ \o item[r]]
  /\ UNCHANGED <<client, reader, vec, open, stop, cont, status, item>>

\* The script took less than it was given: the rest of the body stays.
WriteFails(r) ==
  /\ pc[r] = "loop" /\ item[r] # End /\ ~stop
  /\ pc' = [pc EXCEPT ![r] = "respond"]
  /\ UNCHANGED <<client, reader, vec, open, stop, cont, status, item, got>>

\* Wait for the next packet and take it in one hold of the mutex.
TakeNext(r) ==
  /\ pc[r] = "next" /\ (vec # <<>> \/ stop)
  /\ pc' = [pc EXCEPT ![r] = "loop"]
  /\ IF vec = <<>> THEN UNCHANGED <<vec, item>>
     ELSE item' = [item EXCEPT ![r] = Head(vec)] /\ vec' = Tail(vec)
  /\ UNCHANGED <<client, reader, open, stop, cont, status, got>>

\* The answer, the closing of the connection and fuExitDoAction.
Respond(r) ==
  /\ pc[r] = "respond"
  /\ pc' = [pc EXCEPT ![r] = "done"]
  /\ status' = IF open /\ ~stop THEN [status EXCEPT ![r] = 200] ELSE status
  /\ open' = (open /\ ~asked[r].close)
  /\ UNCHANGED <<client, reader, vec, stop, cont, item, got>>

ThreadStep(r) ==
  \/ WaitFirst(r) \/ TakeFirst(r) \/ WriteToSpawn(r) \/ WriteFails(r)
  \/ TakeNext(r) \/ Respond(r)

Next ==
  \/ \E k \in Kinds : Ask(k)
  \/ \E r \in Request : SendBody(r)
  \/ ClientCloses
  \/ \E n \in DOMAIN wire : Receive(n)
  \/ ReaderStep \/ OnTimeout \/ OnSocketClosing
  \/ \E r \in Request : ThreadStep(r)

Spec == Init /\ [][Next]_vars

-----------------------------------------------------------------------------
PCs == {"none", "wait", "first", "loop", "next", "respond", "done", "undefined"}

TypeOK ==
  /\ asked \in Seq(Kinds) /\ Len(asked) <= MaxRequests
  /\ soll \in Nat /\ recv \in Nat /\ recv <= soll
  /\ rpc \in {"idle", "preface", "upload", "header", "mark", "content", "dispatch"}
  /\ cur \in Request \cup {Nobody} /\ mode \in {"http1", "http2", "websocket"}
  /\ open \in BOOLEAN /\ stop \in BOOLEAN /\ cont \subseteq Request
  /\ status \in [Request -> {0, 101, 200, 400, 408, 417}]
  /\ pc \in [Request -> PCs]

\* Where TCP cuts the stream does not matter, nor whether requests are
\* pipelined: the reading thread and the client agree on what comes next, the
\* start of a header or the missing part of the body in progress.
FramingKept ==
  LET next == buf \o wire IN
  rpc = "idle" /\ open /\ mode = "http1" /\ next # <<>>
    => next[1].part = IF soll = 0 THEN 1 ELSE recv + 3

\* A script reads the body of its own request, in order, and all of it
\* unless it fails, as long as the client does not pipeline and the bodies of
\* the requests before were read.
BodyIsOwn ==
  ~early =>
    \A r \in DOMAIN asked : (\A q \in 1 .. r - 1 : got[q] = BodyOf(q)) =>
      /\ IsPrefix(got[r], BodyOf(r))
      /\ pc[r] = "loop" /\ item[r] = End => got[r] = BodyOf(r)

\* The queue is not empty when the first packet is taken out of it.
FrontExists == ~early => \A r \in Request : pc[r] # "undefined"

\* What a script reads is there, and is its request's.
BodyRead == BodyIsOwn /\ FrontExists

\* clear() only takes end markers away ("Clear the end of Data entry").
ClearsEndOfData ==
  [][rpc = "content" /\ rpc' = "dispatch" /\ asked[cur].len > 0
       => ToSet(vec) \subseteq {End}]_vars

-----------------------------------------------------------------------------
\* The reading thread runs, TCP delivers, a thread that can run runs, and the
\* client sends the body it announced or the timer fires.
Fairness ==
  /\ WF_vars(ReaderStep)
  /\ WF_vars(\E n \in DOMAIN wire : Receive(n))
  /\ WF_vars(OnSocketClosing)
  /\ \A r \in Request : WF_vars(ThreadStep(r)) /\ WF_vars(SendBody(r))

FairSpec == Spec /\ Fairness

\* A client that waits for each answer gets one, or the connection ends or
\* changes its protocol.
RequestAnswered ==
  \A r \in Request :
    Len(asked) >= r ~> status[r] # 0 \/ ~open \/ mode # "http1" \/ early
=============================================================================
