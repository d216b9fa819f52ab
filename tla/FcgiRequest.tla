----------------------------- MODULE FcgiRequest -----------------------------
(***************************************************************************)
(* A request that DoAction passes to a FastCGI server, with its body       *)
(* (ReqBody) and the server's output, or to a CGI process (ReqBody alone). *)
(*                                                                         *)
(* The connection to the FastCGI server is in s_mapFcgiConnections, for    *)
(* all requests: it is looked up and connected with s_mxFcgi held, and     *)
(* used without.  Its client library is external: a request gets an id or  *)
(* not, output comes in packets from a thread of its own, and the end of   *)
(* the request is a flag that thread sets.                                 *)
(***************************************************************************)
EXTENDS ReqBody

CONSTANTS
  Interfaces,   \* what the request may be for: "cgi", "fcgi"
  MaxOut        \* bound on the packets of output

ASSUME FcgiAssumption ==
  Interfaces \subseteq {"cgi", "fcgi"} /\ MaxOut \in Nat

VARIABLES
  via,          \* the interface of this request
  active,       \* IsFcgiProcessActiv
  connected,    \* IsConnected
  bReConnect,
  nReqId,       \* the request has an id
  produced,     \* packets of output the callback was given
  dqOutData,    \* waiting output, pieces of packets joined or not
  piece,        \* what the thread took out of it
  answered,     \* what went to the client
  l_bReqEnde,
  bAbort        \* AbortRequest was called, and the watchdog runs

server == <<active, connected>>
output == <<produced, dqOutData, piece, answered>>
fcgiVars == <<via, server, bReConnect, nReqId, output, l_bReqEnde, bAbort>>
allVars == <<vars, fcgiVars>>

FcgiInit ==
  /\ Init
  /\ via \in Interfaces
  /\ active \in BOOLEAN /\ connected \in BOOLEAN /\ (connected => active)
  /\ bReConnect = FALSE /\ nReqId = FALSE
  /\ produced = 0 /\ dqOutData = <<>> /\ piece = <<>> /\ answered = <<>>
  /\ l_bReqEnde = FALSE /\ bAbort = FALSE

\* A step of the thread that leaves body and stream alone.
Continue(h, from, to) ==
  /\ pc[h] = from
  /\ Goto(h, to)
  /\ UNCHANGED <<vecData, client, reset, stop, data, sawReset, got, via>>

-----------------------------------------------------------------------------
(* The FastCGI server and its client library *)

\* The process ends, or the connection is lost, under a request or not.
LoseServer(dies) ==
  /\ connected \/ (active /\ dies)
  /\ active' = (active /\ ~dies) /\ connected' = FALSE
  /\ UNCHANGED <<vars, via, bReConnect, nReqId, output, l_bReqEnde, bAbort>>

\* The callback of SendRequest.
Produce ==
  /\ nReqId /\ connected /\ ~l_bReqEnde /\ produced < MaxOut
  /\ produced' = produced + 1
  /\ dqOutData' = Append(dqOutData, <<produced + 1>>)
  /\ UNCHANGED <<vars, via, server, bReConnect, nReqId, piece, answered, l_bReqEnde, bAbort>>

EndRequest ==
  /\ nReqId /\ ~l_bReqEnde /\ l_bReqEnde' = TRUE
  /\ UNCHANGED <<vars, via, server, bReConnect, nReqId, output, bAbort>>

\* pAbortWatchDog, five seconds after the abort.
WatchDog == bAbort /\ EndRequest

-----------------------------------------------------------------------------
(* The DoAction thread *)

StartFcgi(h) ==
  /\ pc[h] = "idle" /\ ~stop /\ ~reset
  /\ Cardinality({g \in Reader : pc[g] # "idle"}) < calls
  /\ Continue(h, "idle", "lookup")
  /\ UNCHANGED <<server, bReConnect, nReqId, output, l_bReqEnde, bAbort>>

\* Looks the connection up, or makes it, and connects it if the process runs.
Lookup(h) ==
  /\ Continue(h, "lookup", "found")
  /\ connected' \in IF active /\ ~connected THEN BOOLEAN ELSE {connected}
  /\ UNCHANGED <<active, bReConnect, nReqId, output, l_bReqEnde, bAbort>>

Usable == active /\ connected

SetTimeout(h) ==
  /\ Usable
  /\ Continue(h, "found", "request")
  /\ UNCHANGED <<server, bReConnect, nReqId, output, l_bReqEnde, bAbort>>

\* The entry is erased, for the next request to make it anew: an error is the
\* answer.
NotActive(h) ==
  /\ ~Usable
  /\ Continue(h, "found", "respond")
  /\ UNCHANGED <<server, bReConnect, nReqId, output, l_bReqEnde, bAbort>>

SendRequest(h) ==
  /\ nReqId' \in IF connected THEN BOOLEAN ELSE {FALSE}
  /\ Continue(h, "request", IF nReqId' THEN "wait" ELSE "retry")
  /\ UNCHANGED <<server, bReConnect, output, l_bReqEnde, bAbort>>

\* A busy connection is tried again, a lost one connected once; then the loop
\* goes on without.
Retry(h) ==
  /\ IF connected \/ bReConnect
     THEN UNCHANGED <<connected, bReConnect>>
     ELSE bReConnect' = TRUE /\ connected' \in {FALSE, active}
  /\ Continue(h, "retry", IF active /\ ~stop THEN "request" ELSE "respond")
  /\ UNCHANGED <<active, nReqId, output, l_bReqEnde, bAbort>>

\* The loop over the body of ReqBody, with SendRequestData.
ForwardBody(h) ==
  /\ nReqId
  /\ WaitFirst(h) \/ Sleep(h) \/ Check(h) \/ TakeFirst(h) \/ Loop(h) \/ Write(h, TRUE)
       \/ TakeNext(h)
  /\ UNCHANGED fcgiVars

\* SendRequestData of nothing, unless the connection stopped.
SendEnd(h) ==
  /\ Continue(h, "close", "output")
  /\ UNCHANGED <<server, bReConnect, nReqId, output, l_bReqEnde, bAbort>>

\* Two pieces of output are joined,
TakeTwo(h) ==
  /\ Len(dqOutData) > 1
  /\ Continue(h, "output", "send")
  /\ piece' = dqOutData[1] \o dqOutData[2]
  /\ dqOutData' = Tail(Tail(dqOutData))
  /\ UNCHANGED <<server, bReConnect, nReqId, produced, answered, l_bReqEnde, bAbort>>

RequeueLast(rest) ==          \* mutant: behind what came meanwhile
  Append(dqOutData, rest)

Requeue(rest) == <<rest>> \o dqOutData

\* Nothing is written for a client that is gone.
Sent(out) == IF stop \/ reset THEN answered ELSE answered \o out

\* and sent, but for what fnSendOutput keeps: an unfinished header, or the last
\* octets of an HTTP/2 response.
SendOutput(h) ==
  \E k \in 0 .. Len(piece) :
    LET rest == SubSeq(piece, k + 1, Len(piece)) IN
    /\ answered' = Sent(SubSeq(piece, 1, k))
    /\ dqOutData' = IF rest = <<>> THEN dqOutData ELSE Requeue(rest)
    /\ piece' = <<>>
    /\ Continue(h, "send", IF rest = <<>> THEN "output" ELSE "reqEnd")
    /\ UNCHANGED <<server, bReConnect, nReqId, produced, l_bReqEnde, bAbort>>

NoTwo(h) ==
  /\ Len(dqOutData) <= 1
  /\ Continue(h, "output", "reqEnd")
  /\ UNCHANGED <<server, bReConnect, nReqId, output, l_bReqEnde, bAbort>>

\* Waits a moment for the end; a request whose client is gone is aborted once.
WaitReqEnd(h) ==
  /\ bAbort' = (bAbort \/ stop \/ reset)
  /\ Continue(h, "reqEnd", IF l_bReqEnde THEN "remove" ELSE "output")
  /\ UNCHANGED <<server, bReConnect, nReqId, output, l_bReqEnde>>

\* RemoveRequest; an aborted request leaves its output where it is.
RemoveRequest(h) ==
  /\ Continue(h, "remove", IF bAbort THEN "respond" ELSE "join")
  /\ UNCHANGED <<server, bReConnect, nReqId, output, l_bReqEnde, bAbort>>

\* What is left is joined, however many pieces it is,
JoinRest(h) ==
  /\ dqOutData # <<>>
  /\ Continue(h, "join", "join")
  /\ piece' = piece \o Head(dqOutData) /\ dqOutData' = Tail(dqOutData)
  /\ UNCHANGED <<server, bReConnect, nReqId, produced, answered, l_bReqEnde, bAbort>>

\* and sent, with what fnSendOutput kept of it (fnAfterCgi).
SendRest(h) ==
  /\ dqOutData = <<>>
  /\ Continue(h, "join", "respond")
  /\ answered' = Sent(piece) /\ piece' = <<>>
  /\ UNCHANGED <<server, bReConnect, nReqId, produced, dqOutData, l_bReqEnde, bAbort>>

FcgiStep(h) ==
  \/ Lookup(h) \/ SetTimeout(h) \/ NotActive(h) \/ SendRequest(h) \/ Retry(h)
  \/ ForwardBody(h) \/ SendEnd(h) \/ TakeTwo(h) \/ SendOutput(h) \/ NoTwo(h)
  \/ WaitReqEnd(h) \/ RemoveRequest(h) \/ JoinRest(h) \/ SendRest(h)
  \/ Exit(h) /\ UNCHANGED fcgiVars

CgiStep(h) == ReaderStep(h) /\ UNCHANGED fcgiVars

ActionStep(h) == IF via = "fcgi" THEN FcgiStep(h) ELSE CgiStep(h)

ServerStep ==
  \/ \E dies \in BOOLEAN : LoseServer(dies)
  \/ Produce \/ EndRequest

FromClient ==
  \/ \E end \in BOOLEAN : Data(end)
  \/ EndStream \/ RstStream \/ StopConnection

FcgiNext ==
  \/ FromClient /\ UNCHANGED fcgiVars
  \/ \E h \in Reader :
       IF via = "fcgi" THEN StartFcgi(h) ELSE Start(h) /\ UNCHANGED fcgiVars
  \/ \E h \in Reader : ActionStep(h)
  \/ via = "fcgi" /\ ServerStep

FcgiSpec == FcgiInit /\ [][FcgiNext]_allVars

-----------------------------------------------------------------------------
\* The CGI process or the FastCGI server gets the body in order and, if it took
\* the request, to its end.
RequestPassedOn == BodyInOrder /\ (via = "cgi" \/ nReqId => BodyComplete)

\* What goes through DoAction arrives as it was: the body, and to the client the
\* output in order, all of it unless it went away.
BodiesPassedOn ==
  /\ RequestPassedOn
  /\ answered = [i \in 1 .. Len(answered) |-> i]
  /\ \A h \in Reader :
       pc[h] = "respond" /\ nReqId /\ ~stop /\ ~reset => Len(answered) = produced

-----------------------------------------------------------------------------
\* What the program's own scheduling gives: a DoAction thread that can go on
\* does, and the watchdog's timer comes.  Nothing is asked of the client, of the
\* FastCGI server, or of the connection's timer, which each read sets back.
FairFcgi ==
  /\ \A h \in Reader : WF_allVars(ActionStep(h))
  /\ WF_allVars(WatchDog)

FcgiFairSpec == FcgiSpec /\ FairFcgi

Ended(h) == pc[h] \in {"done", "undefined"}

\* The thread has a process or a FastCGI request to see through.
Serving(h) == pc[h] # "idle" /\ (via = "cgi" \/ nReqId)

\* A server that ends every request it took.
ServerAnswers == WF_allVars(EndRequest)

=============================================================================
