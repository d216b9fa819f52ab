------------------------------ MODULE ReqBody -------------------------------
(***************************************************************************)
(* The body of one HTTP/2 request on its way to a CGI process.             *)
(*                                                                         *)
(* The reading thread (Http2StreamProto) appends the payload of each DATA  *)
(* frame to vecReqData, and a nullptr after the last one; the DoAction     *)
(* thread takes them out and writes them to the process.  vecReqData has a *)
(* mutex of its own, mutReqData; the state of the stream is under          *)
(* pmtxStream, so the DoAction thread looks at one and then at the other.  *)
(* RST_STREAM changes both.  The FastCGI path (HttpServ.cpp 2164-2213) has *)
(* the same steps with SendRequestData in place of WriteToSpawn.           *)
(***************************************************************************)
EXTENDS Integers, Sequences, FiniteSets, SequencesExt

CONSTANTS
  Reader,       \* the DoAction threads started for the request
  MaxChunks,    \* bound on the DATA frames of the body
  Trailers,     \* whether the client may end the body with trailers
  Fragmented,   \* whether a header block may, or may not, be split: a set of BOOLEAN
  Resets        \* whether the client may send RST_STREAM

ASSUME BodyAssumption ==
  /\ IsFiniteSet(Reader) /\ MaxChunks \in Nat \ {0}
  /\ {Trailers, Resets} \subseteq BOOLEAN
  /\ Fragmented \in SUBSET BOOLEAN \ {{}}

End == 0        \* the nullptr; the payloads are numbered from 1

VARIABLES
  vecData,   \* vecReqData of the stream
  sent,      \* payloads received from the client
  ended,     \* the STREAM_END flag
  calls,     \* entries for the stream in CallAction so far
  fragmented,\* this request's header block came in several frames
  reset,     \* the RESET_STREAM flag
  stop,      \* *patStop
  pc,        \* where each DoAction thread is
  data,      \* the item it took last
  sawReset,  \* bStreamReset
  got        \* payloads its process has received, and End for a failed write

client == <<sent, ended, calls, fragmented>>
vars == <<vecData, client, reset, stop, pc, data, sawReset, got>>

PCs == {"idle", "wait", "sleep", "check", "first", "loop", "write", "next",
        "nextSleep", "close", "respond", "done", "undefined"}

Goto(h, l) == pc' = [pc EXCEPT ![h] = l]

Init ==
  /\ vecData = <<>> /\ sent = 0 /\ ended = FALSE /\ calls = 0
  /\ fragmented \in Fragmented /\ reset = FALSE /\ stop = FALSE
  /\ pc = [h \in Reader |-> "idle"]
  /\ data = [h \in Reader |-> End]
  /\ sawReset = [h \in Reader |-> FALSE]
  /\ got = [h \in Reader |-> <<>>]

-----------------------------------------------------------------------------
(* The reading thread *)

\* What a DATA frame appends: its payload, and after the last one the end
\* marker.
Packets(end) == IF end THEN <<sent + 1, End>> ELSE <<sent + 1>>

\* The first DATA frame starts the action (ACTION_CALLED).
CallsOnce == IF calls = 0 THEN 1 ELSE calls

Data(end) ==
  /\ ~stop /\ ~ended /\ ~reset
  /\ sent < IF end THEN MaxChunks ELSE MaxChunks - 1
  /\ calls' = CallsOnce
  /\ sent' = sent + 1
  /\ ended' = end
  /\ vecData' = vecData \o Packets(end)
  /\ UNCHANGED <<fragmented, reset, stop, pc, data, sawReset, got>>

\* END_STREAM in a HEADERS frame: a request without body, or trailers.  The
\* action is called without a look at ACTION_CALLED.
EndStream ==
  /\ ~stop /\ ~ended /\ ~reset /\ (sent > 0 => Trailers)
  /\ calls' = calls + 1
  /\ ended' = TRUE
  /\ vecData' = Append(vecData, End)
  /\ UNCHANGED <<sent, fragmented, reset, stop, pc, data, sawReset, got>>

\* EndOfStreamAction: one thread for each entry of CallAction.
Start(h) ==
  /\ pc[h] = "idle" /\ ~stop /\ ~reset
  /\ Cardinality({g \in Reader : pc[g] # "idle"}) < calls
  /\ Goto(h, "wait")
  /\ UNCHANGED <<vecData, client, reset, stop, data, sawReset, got>>

\* What arrived is thrown away, ended or not, unless HEADER_RECEIVED (which
\* the test for END_OF_STREAM hits) is in the state: see H2Stream.
RstStream ==
  /\ Resets /\ ~stop /\ (sent > 0 \/ ended)
  /\ reset' = TRUE
  /\ vecData' = IF fragmented THEN vecData ELSE <<>>
  /\ UNCHANGED <<client, stop, pc, data, sawReset, got>>

StopConnection ==
  /\ ~stop /\ stop' = TRUE
  /\ UNCHANGED <<vecData, client, reset, pc, data, sawReset, got>>

-----------------------------------------------------------------------------
(* A DoAction thread *)


\* The condition of both waiting loops.
Waiting(h) == vecData = <<>> /\ ~stop /\ ~sawReset[h]

\* Wait until the first packet is in the queue.
WaitFirst(h) ==
  /\ pc[h] = "wait"
  /\ Goto(h, IF Waiting(h) THEN "sleep" ELSE "check")
  /\ UNCHANGED <<vecData, client, reset, stop, data, sawReset, got>>

\* fnIsStreamReset in either waiting loop.
Sleep(h) ==
  /\ pc[h] \in {"sleep", "nextSleep"}
  /\ sawReset' = [sawReset EXCEPT ![h] = reset]
  /\ Goto(h, IF pc[h] = "sleep" THEN "wait" ELSE "next")
  /\ UNCHANGED <<vecData, client, reset, stop, data, got>>

\* The mutex was released in between; the queue is not looked at again.
Check(h) ==
  /\ pc[h] = "check"
  /\ Goto(h, IF stop \/ reset THEN "close" ELSE "first")
  /\ UNCHANGED <<vecData, client, reset, stop, data, sawReset, got>>

\* front() and pop_front() on an empty deque are undefined: nothing is said of
\* the thread from there on.
TakeFirst(h) ==
  /\ pc[h] = "first"
  /\ IF vecData = <<>>
     THEN Goto(h, "undefined") /\ UNCHANGED <<vecData, data>>
     ELSE /\ data' = [data EXCEPT ![h] = Head(vecData)]
          /\ vecData' = Tail(vecData)
          /\ Goto(h, "loop")
  /\ UNCHANGED <<client, reset, stop, sawReset, got>>

Loop(h) ==
  /\ pc[h] = "loop"
  /\ Goto(h, IF data[h] = End \/ stop \/ reset THEN "close" ELSE "write")
  /\ UNCHANGED <<vecData, client, reset, stop, data, sawReset, got>>

\* WriteToSpawn; when the process does not take it all it is killed, and the
\* rest of the body is left where it is.
Write(h, ok) ==
  /\ pc[h] = "write"
  /\ IF ok THEN got' = [got EXCEPT ![h] = Append(@, data[h])] /\ Goto(h, "next")
           ELSE got' = [got EXCEPT ![h] = Append(@, End)] /\ Goto(h, "close")
  /\ UNCHANGED <<vecData, client, reset, stop, data, sawReset>>

\* Wait for another packet and take it, in one hold of the mutex; without
\* one, data keeps the old packet (and the loop ends).
TakeNext(h) ==
  /\ pc[h] = "next"
  /\ IF Waiting(h)
     THEN Goto(h, "nextSleep") /\ UNCHANGED <<vecData, data>>
     ELSE /\ Goto(h, "loop")
          /\ IF vecData = <<>>
             THEN UNCHANGED <<vecData, data>>
             ELSE /\ data' = [data EXCEPT ![h] = Head(vecData)]
                  /\ vecData' = Tail(vecData)
  /\ UNCHANGED <<client, reset, stop, sawReset, got>>

\* CloseWritePipe: the process sees the end of its input.
CloseWritePipe(h) ==
  /\ pc[h] = "close"
  /\ Goto(h, "respond")
  /\ UNCHANGED <<vecData, client, reset, stop, data, sawReset, got>>

\* The response (FlowControl) and fuExitDoAction.
Exit(h) ==
  /\ pc[h] = "respond"
  /\ reset' = TRUE
  /\ Goto(h, "done")
  /\ UNCHANGED <<vecData, client, stop, data, sawReset, got>>

ReaderStep(h) ==
  \/ WaitFirst(h) \/ Sleep(h) \/ Check(h) \/ TakeFirst(h) \/ Loop(h)
  \/ \E ok \in BOOLEAN : Write(h, ok)
  \/ TakeNext(h) \/ CloseWritePipe(h) \/ Exit(h)

ClientStep ==
  \/ \E end \in BOOLEAN : Data(end)
  \/ EndStream \/ RstStream \/ StopConnection
  \/ \E h \in Reader : Start(h)

Next == ClientStep \/ \E h \in Reader : ReaderStep(h)

Spec == Init /\ [][Next]_vars

-----------------------------------------------------------------------------
Items == 0 .. MaxChunks

TypeOK ==
  /\ vecData \in Seq(Items) /\ sent \in Items
  /\ {ended, reset, stop} \subseteq BOOLEAN /\ calls \in 0 .. 2
  /\ fragmented \in Fragmented
  /\ pc \in [Reader -> PCs] /\ data \in [Reader -> Items]
  /\ sawReset \in [Reader -> BOOLEAN] /\ got \in [Reader -> Seq(Items)]

Body == [i \in 1 .. sent |-> i]

\* The process whose writes all went well.
Alive(h) == End \notin ToSet(got[h])

\* The queue is not empty when the first packet is taken out of it.  The code
\* keeps this only for split header blocks: RST_STREAM empties the queue of the
\* others between WaitFirst and TakeFirst (BodyReset.cfg).
FrontExists == \A h \in Reader : pc[h] # "undefined"

\* The process gets the payloads in the order they came, none twice and none
\* left out.
BodyInOrder == \A h \in Reader : Alive(h) => IsPrefix(got[h], Body)

\* The end of the process's input is the end of the body: it is closed early
\* only when the process failed, the stream was reset or the connection ends.
BodyComplete ==
  \A h \in Reader :
    pc[h] = "respond" /\ Alive(h) /\ ~reset /\ ~stop
      => ended /\ got[h] = Body

\* What the process reads is the body, or a part of it that stopped, the
\* process's failure or a reset cut off.
BodyPassedOn == BodyInOrder /\ BodyComplete

=============================================================================
