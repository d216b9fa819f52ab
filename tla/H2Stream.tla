------------------------------ MODULE H2Stream ------------------------------
(***************************************************************************)
(* The incoming half of one HTTP/2 connection: Http2StreamProto.           *)
(*                                                                         *)
(* One call of Http2StreamProto works off the frames in the buffer (phase  *)
(* "frames"), collecting in CallAction the streams whose request has to be *)
(* answered, and then starts a DoAction thread for each of them (phase     *)
(* "actions").  Every frame, and every start, takes pmtxStream for itself, *)
(* so that a DoAction thread may end (and mark its stream RESET_STREAM)    *)
(* between any two steps.  A frame that is refused raises H2ProtoException *)
(* out of the loop: a connection error closes the connection, after a      *)
(* stream error the next call goes on with what is left in the buffer.     *)
(***************************************************************************)
EXTENDS Integers, Sequences, FiniteSets, SequencesExt

CONSTANTS
  Stream,     \* the client's stream ids: odd numbers
  MaxChunks   \* bound on the items in a request body

ASSUME StreamAssumption ==
  /\ Stream \subseteq {n \in Nat : n % 2 = 1} /\ IsFiniteSet(Stream)
  /\ MaxChunks \in Nat \ {0}

Flags == {"HEADER_RECEIVED", "STREAM_END", "HEADER_END", "RESET_STREAM",
          "ACTION_CALLED"}

VARIABLES
  known,      \* the client's streams umStreamCache holds; it always holds 0
  flags,      \* nState of each stream, and of stream 0
  body,       \* vecReqData of each stream: "data", and "end" for the nullptr
  call,       \* CallAction
  ret,        \* nReturn: "go" (0) or "close" (SIZE_MAX)
  phase,      \* "frames", "actions", or "closed" once the call has returned
              \* SIZE_MAX
  started,    \* DoAction threads started for each stream
  running,    \* ... and not yet ended
  (* History variables, read by no action. *)
  goaway,     \* a GOAWAY frame went to the client
  aligned,    \* the buffer begins with the header of a frame
  trailers    \* streams with a second, complete header block

history == <<goaway, aligned, trailers>>
vars == <<known, flags, body, call, ret, phase, started, running, history>>

Init ==
  /\ known = {}
  /\ flags = [s \in Stream \cup {0} |-> {}]
  /\ body = [s \in Stream |-> <<>>]
  /\ call = <<>> /\ ret = "go" /\ phase = "frames"
  /\ started = [s \in Stream |-> 0]
  /\ running = [s \in Stream |-> 0]
  /\ goaway = FALSE /\ aligned = TRUE /\ trailers = {}

Has(s, f) == f \in flags[s]

\* Stream 0 is marked while a header block is incomplete.
InHeaderBlock == Has(0, "HEADER_RECEIVED")

-----------------------------------------------------------------------------
(* The two ways out of the loop by an exception.  CallAction is a local of   *)
(* the try block: whatever it holds is gone.                                 *)

ConnectionError ==
  /\ phase' = "closed" /\ call' = <<>> /\ goaway' = TRUE
  /\ UNCHANGED <<known, flags, body, ret, started, running, aligned, trailers>>

\* nReturn is 0 again; of the refused frame only the header was taken out of
\* the buffer, so its payload is where the next header is looked for.
StreamError ==
  /\ call' = <<>> /\ ret' = "go" /\ aligned' = FALSE
  /\ UNCHANGED <<known, flags, body, phase, started, running, goaway, trailers>>

\* Any frame may be refused with a connection error: its header block cannot
\* be decoded, its size is wrong, it is not allowed in the stream's state
\* (the complement of the guards below), ...
IllegalFrame == phase = "frames" /\ ConnectionError

-----------------------------------------------------------------------------
(* DATA *)

DataAfterEnd(s) ==            \* mutant: the request may be complete
  s \in known /\ ~InHeaderBlock /\ ~Has(s, "RESET_STREAM")

DataAllowed(s) ==
  /\ s \in known /\ ~InHeaderBlock
  /\ ~Has(s, "STREAM_END") /\ ~Has(s, "RESET_STREAM")

CallAlways(s) ==              \* mutant: with each DATA frame
  Append(call, s)

\* The first DATA frame of a stream starts its action, complete or not.
CallOnce(s) == IF Has(s, "ACTION_CALLED") THEN call ELSE Append(call, s)

Data(s, end) ==
  /\ phase = "frames" /\ DataAllowed(s) /\ Len(body[s]) < MaxChunks
  /\ body' = [body EXCEPT ![s] = @ \o (IF end THEN <<"data", "end">>
                                              ELSE <<"data">>)]
  /\ flags' = [flags EXCEPT ![s] = @ \cup {"ACTION_CALLED"}
                                     \cup (IF end THEN {"STREAM_END"} ELSE {})]
  /\ call' = CallOnce(s)
  /\ UNCHANGED <<known, ret, phase, started, running, history>>

\* MAX_FRAME_SIZE: a stream error.
OversizedData(s) ==
  /\ phase = "frames" /\ DataAllowed(s)
  /\ StreamError

-----------------------------------------------------------------------------
(* HEADERS *)

HeadersInBlock(s, end) ==     \* mutant: another block may be incomplete
  s \in known => /\ ~Has(s, "STREAM_END") /\ ~Has(s, "RESET_STREAM")
                 /\ Has(s, "HEADER_END") => end

HeadersAllowed(s, end) ==
  IF s \in known
  THEN /\ ~Has(s, "STREAM_END") /\ ~Has(s, "RESET_STREAM")
       /\ Has(s, "HEADER_END") => end
  ELSE ~InHeaderBlock

EndUncalled(s) ==             \* mutant: left to a DATA frame
  body' = [body EXCEPT ![s] = Append(@, "end")] /\ UNCHANGED call

\* What follows a complete header block with END_STREAM: the end marker, and
\* the action, be it called already or not.
EndOfRequest(s) ==
  /\ body' = [body EXCEPT ![s] = Append(@, "end")]
  /\ call' = Append(call, s)

\* A whole header block: a new request, the trailers of an old one, or (the
\* code does not ask) another HEADERS frame instead of CONTINUATION.
Headers(s, end) ==
  /\ phase = "frames" /\ HeadersAllowed(s, end)
  /\ s \notin known => \A t \in known : t <= s
  /\ known' = known \cup {s}
  /\ flags' = [flags EXCEPT
                 ![0] = @ \ {"HEADER_RECEIVED"},
                 ![s] = @ \cup {"HEADER_END"}
                          \cup (IF end THEN {"STREAM_END", "ACTION_CALLED"} ELSE {})]
  /\ IF end THEN EndOfRequest(s) ELSE UNCHANGED <<body, call>>
  /\ trailers' = IF Has(s, "HEADER_END") THEN trailers \cup {s} ELSE trailers
  /\ UNCHANGED <<ret, phase, started, running, goaway, aligned>>

\* The first part of a header block.  For a stream that is known already the
\* insert fails, and the frame is dropped.
HeadersFragment(s, end) ==
  /\ phase = "frames" /\ HeadersAllowed(s, end)
  /\ s \notin known
  /\ known' = known \cup {s}
  /\ flags' = [flags EXCEPT
                 ![0] = @ \cup {"HEADER_RECEIVED"},
                 ![s] = {"HEADER_RECEIVED"} \cup (IF end THEN {"STREAM_END"} ELSE {})]
  /\ UNCHANGED <<body, call, ret, phase, started, running, history>>

\* SAME_STREAMID: a stream error.
SelfDependentHeaders(s) ==
  /\ phase = "frames"
  /\ s \notin known => ~InHeaderBlock
  /\ StreamError

-----------------------------------------------------------------------------
(* CONTINUATION *)

ContinuationAllowed(s) ==
  /\ s \in known
  /\ ~Has(s, "HEADER_END") /\ Has(s, "HEADER_RECEIVED")

\* The last part of a header block (parts before it change nothing that is
\* modelled).  END_STREAM may stand in the HEADERS frame or here.
Continuation(s, end) ==
  LET ended == end \/ Has(s, "STREAM_END") IN
  /\ phase = "frames" /\ ContinuationAllowed(s) /\ ~Has(s, "ACTION_CALLED")
  /\ flags' = [flags EXCEPT
                 ![0] = @ \ {"HEADER_RECEIVED"},
                 ![s] = @ \cup {"HEADER_END"}
                          \cup (IF ended THEN {"STREAM_END", "ACTION_CALLED"} ELSE {})]
  /\ IF ended THEN EndOfRequest(s) ELSE UNCHANGED <<body, call>>
  /\ UNCHANGED <<known, ret, phase, started, running, history>>

\* STREAM_HALF_CLOSED: a stream error.
LateContinuation(s) ==
  /\ phase = "frames" /\ ContinuationAllowed(s) /\ Has(s, "ACTION_CALLED")
  /\ StreamError

-----------------------------------------------------------------------------
(* The other frames.  PING, SETTINGS, PRIORITY and a WINDOW_UPDATE that fits *)
(* change nothing here (FlowControl has the windows).                        *)

\* The body received so far is thrown away, unless END_OF_STREAM is in the
\* stream's state; that is a frame flag, whose value in the state stands for
\* HEADER_RECEIVED.
RstStream(s) ==
  /\ phase = "frames" /\ s \in known
  /\ flags' = [flags EXCEPT ![s] = @ \cup {"RESET_STREAM"}]
  /\ body' = IF Has(s, "HEADER_RECEIVED") THEN body ELSE [body EXCEPT ![s] = <<>>]
  /\ UNCHANGED <<known, call, ret, phase, started, running, history>>

\* GOAWAY, and PUSH_PROMISE likewise: answered, and the loop goes on.
GoawayFrame ==
  /\ phase = "frames"
  /\ goaway' = TRUE /\ ret' = "close"
  /\ UNCHANGED <<known, flags, body, call, phase, started, running, aligned, trailers>>

\* WINDOW_SIZE_TO_HIGH for a stream: a stream error.
WindowTooHigh(s) ==
  /\ phase = "frames" /\ s \in known
  /\ StreamError

-----------------------------------------------------------------------------
(* After the loop *)

\* The buffer holds no other complete frame.
EndOfBuffer ==
  /\ phase = "frames" /\ (call # <<>> \/ ret = "close")
  /\ phase' = "actions"
  /\ UNCHANGED <<known, flags, body, call, ret, started, running, history>>

\* EndOfStreamAction, for a stream that was not reset meanwhile.
CallNext ==
  LET s == Head(call) IN
  /\ phase = "actions" /\ call # <<>>
  /\ call' = Tail(call)
  /\ IF Has(s, "RESET_STREAM")
     THEN UNCHANGED <<started, running>>
     ELSE /\ started' = [started EXCEPT ![s] = @ + 1]
          /\ running' = [running EXCEPT ![s] = @ + 1]
  /\ UNCHANGED <<known, flags, body, ret, phase, history>>

\* EndOfStreamAction refuses a request with a :status field, and with it all
\* the others that wait in CallAction.
WrongHeader ==
  /\ phase = "actions" /\ call # <<>> /\ ~Has(Head(call), "RESET_STREAM")
  /\ ConnectionError

\* OnDataReceived closes the connection, or waits for more.
Return ==
  /\ phase = "actions" /\ call = <<>>
  /\ phase' = IF ret = "close" THEN "closed" ELSE "frames"
  /\ UNCHANGED <<known, flags, body, call, ret, started, running, history>>

\* fuExitDoAction
ExitDoAction(s) ==
  /\ running[s] > 0
  /\ running' = [running EXCEPT ![s] = @ - 1]
  /\ flags' = [flags EXCEPT ![s] = @ \cup {"RESET_STREAM"}]
  /\ UNCHANGED <<known, body, call, ret, phase, started, history>>

FrameStep(s) ==
  \/ \E end \in BOOLEAN : Data(s, end) \/ Headers(s, end)
  \/ \E end \in BOOLEAN : HeadersFragment(s, end) \/ Continuation(s, end)
  \/ OversizedData(s) \/ SelfDependentHeaders(s) \/ LateContinuation(s)
  \/ WindowTooHigh(s) \/ RstStream(s)

Next ==
  \/ \E s \in Stream : FrameStep(s)
  \/ IllegalFrame \/ GoawayFrame
  \/ EndOfBuffer \/ CallNext \/ WrongHeader \/ Return
  \/ \E s \in Stream : ExitDoAction(s)

Spec == Init /\ [][Next]_vars

-----------------------------------------------------------------------------
TypeOK ==
  /\ known \subseteq Stream
  /\ flags \in [Stream \cup {0} -> SUBSET Flags]
  /\ body \in [Stream -> Seq({"data", "end"})]
  /\ call \in Seq(Stream)
  /\ ret \in {"go", "close"} /\ phase \in {"frames", "actions", "closed"}
  /\ started \in [Stream -> Nat] /\ running \in [Stream -> Nat]
  /\ goaway \in BOOLEAN /\ aligned \in BOOLEAN /\ trailers \subseteq Stream

Calls(s) == Cardinality({i \in DOMAIN call : call[i] = s})

\* Every request is answered by one DoAction thread, however its frames are cut
\* into calls of Http2StreamProto (trailers start another one).
StartedOnce ==
  trailers = {} => \A s \in Stream : started[s] + Calls(s) <= 1

\* No complete request is forgotten: its action was started or is waiting in
\* CallAction, unless the stream was reset, the connection is closed, or a
\* stream error has thrown CallAction away.
CompleteRequestsStarted ==
  aligned => \A s \in known :
    {"HEADER_END", "STREAM_END"} \subseteq flags[s]
      => \/ started[s] > 0 \/ s \in ToSet(call)
         \/ Has(s, "RESET_STREAM") \/ phase = "closed"

\* Each complete request gets its DoAction thread, and one only.
RequestsStarted == StartedOnce /\ CompleteRequestsStarted

\* DoAction never works on half a header block.  (Trailers clear the mark that
\* keeps DATA away from an incomplete block of another stream.)
StartedWithHeader ==
  trailers = {} => \A s \in Stream : started[s] > 0 \/ s \in ToSet(call) => Has(s, "HEADER_END")

\* The thread that reads the body ends at the nullptr: there is one, and
\* nothing behind it, and it is there (or the body is gone) once the request
\* is complete.
EndMarkerLast ==
  \A s \in Stream :
    /\ \A i \in DOMAIN body[s] : body[s][i] = "end" => i = Len(body[s])
    /\ {"HEADER_END", "STREAM_END"} \subseteq flags[s]
         => \/ body[s] = <<>> /\ Has(s, "RESET_STREAM")
            \/ body[s] # <<>> /\ Last(body[s]) = "end"

\* The mark in stream 0 says whether a header block is incomplete, and there
\* is never more than one such block (all of them share one HPACK state), as
\* long as no trailers come in between.
OneHeaderBlock ==
  trailers = {} =>
  LET incomplete == {s \in known : ~Has(s, "HEADER_END")} IN
  /\ Cardinality(incomplete) <= 1
  /\ InHeaderBlock <=> incomplete # {}

\* A header block is read as a whole, and by itself.
HeaderBlocksKept == StartedWithHeader /\ OneHeaderBlock

\* "After a GOAWAY we terminate the connection".  The code does not keep it: a
\* stream error in the same buffer resets nReturn.
GoawayCloses == goaway => ret = "close" \/ phase = "closed"

\* A stream error is an affair of that stream: the frames that follow are
\* still read as frames ("Don't close the connection").  Not kept, either.
FramesAligned == aligned
=============================================================================
