--------------------------- MODULE H2StreamProofs ----------------------------
(***************************************************************************)
(* Theorems about H2Stream (any streams, any sequence of frames, bodies of *)
(* any length) and, in the second part, about Hpack: any fields, in any    *)
(* spelling, in any number of header blocks.                               *)
(***************************************************************************)
EXTENDS H2Stream, Hpack, FiniteSetTheorems, WellFoundedInduction, TLAPS

Ids == Stream \cup {0}
Items == {"data", "end"}

\* s waits in CallAction.
Waits(s) == \E i \in DOMAIN call : call[i] = s
Called(s) == started[s] > 0 \/ Waits(s)
Complete(s) == {"HEADER_END", "STREAM_END"} \subseteq flags[s]

\* A stream that is not in umStreamCache has left no trace.
Unknown ==
  \A s \in Stream \ known :
    flags[s] = {} /\ body[s] = <<>> /\ started[s] = 0 /\ running[s] = 0 /\ ~Waits(s)

\* ACTION_CALLED says whether the action was called, as long as CallAction was
\* not thrown away.
CalledInv ==
  \A s \in Stream :
    /\ Called(s) => "ACTION_CALLED" \in flags[s]
    /\ Complete(s) => "ACTION_CALLED" \in flags[s]
    /\ aligned /\ "ACTION_CALLED" \in flags[s]
         => Called(s) \/ "RESET_STREAM" \in flags[s] \/ phase = "closed"

\* The end marker comes with STREAM_END, and once.
EndInv ==
  \A s \in Stream :
    /\ \A i \in DOMAIN body[s] :
         body[s][i] = "end" => i = Len(body[s]) /\ {"STREAM_END", "ACTION_CALLED"} \subseteq flags[s]
    /\ Complete(s) => \/ body[s] = <<>> /\ "RESET_STREAM" \in flags[s]
                      \/ body[s] # <<>> /\ body[s][Len(body[s])] = "end"

\* Of header blocks, at most one is incomplete, and stream 0 says so.
BlockInv ==
  trailers = {} =>
    /\ \A s, t \in known : "HEADER_END" \notin flags[s] /\ "HEADER_END" \notin flags[t] => s = t
    /\ "HEADER_RECEIVED" \in flags[0] <=> \E s \in known : "HEADER_END" \notin flags[s]
    /\ \A s \in Stream : Called(s) => "HEADER_END" \in flags[s]

OnceInv ==
  trailers = {} => \A s \in Stream :
    /\ \A i, j \in DOMAIN call : call[i] = s /\ call[j] = s => i = j
    /\ started[s] <= 1
    /\ started[s] > 0 => ~Waits(s)

StreamInv ==
  /\ TypeOK /\ Unknown /\ CalledInv /\ EndInv /\ BlockInv /\ OnceInv

-----------------------------------------------------------------------------
(* What the steps do, and type correctness *)

\* A frame that is refused, and what comes before and after the frames.
Quiet ==
  \/ \E s \in Stream : OversizedData(s) \/ SelfDependentHeaders(s) \/ LateContinuation(s)
                       \/ WindowTooHigh(s)
  \/ IllegalFrame \/ GoawayFrame \/ EndOfBuffer \/ WrongHeader \/ Return

LEMMA NextCases ==
  ASSUME [Next]_vars
  PROVE  \/ \E s \in Stream, end \in BOOLEAN : Data(s, end)
         \/ \E s \in Stream, end \in BOOLEAN : Headers(s, end)
         \/ \E s \in Stream, end \in BOOLEAN : HeadersFragment(s, end)
         \/ \E s \in Stream, end \in BOOLEAN : Continuation(s, end)
         \/ \E s \in Stream : RstStream(s) \/ ExitDoAction(s)
         \/ CallNext
         \/ Quiet
         \/ UNCHANGED vars
BY DEF Next, FrameStep, Quiet

LEMMA ZeroApart == 0 \notin Stream
BY StreamAssumption

\* A quiet step leaves the streams alone; CallAction stays or is thrown away,
\* with an error.
LEMMA QuietStep ==
  ASSUME Quiet
  PROVE  /\ UNCHANGED <<known, flags, body, started, running, trailers>>
         /\ call' = call \/ (call' = <<>> /\ (~aligned' \/ phase' = "closed"))
         /\ aligned' => aligned
         /\ phase # "closed"
<1>1. ASSUME NEW s \in Stream,
             OversizedData(s) \/ SelfDependentHeaders(s) \/ LateContinuation(s)
               \/ WindowTooHigh(s)
      PROVE  phase # "closed" /\ StreamError
  BY <1>1 DEF OversizedData, SelfDependentHeaders, LateContinuation, WindowTooHigh
<1>2. CASE StreamError /\ phase # "closed"
  BY <1>2 DEF StreamError
<1>3. CASE IllegalFrame \/ WrongHeader
  BY <1>3 DEF IllegalFrame, WrongHeader, ConnectionError
<1>4. CASE GoawayFrame \/ EndOfBuffer \/ Return
  BY <1>4 DEF GoawayFrame, EndOfBuffer, Return, history
<1> QED
  BY <1>1, <1>2, <1>3, <1>4 DEF Quiet

LEMMA QuietTypes ==
  ASSUME TypeOK, Quiet
  PROVE  TypeOK'
<1>1. UNCHANGED <<known, flags, body, started, running, trailers>>
  BY QuietStep
<1>2. call' \in Seq(Stream)
  <2>1. call' = call \/ call' = <<>>
    BY QuietStep
  <2>2. call \in Seq(Stream) /\ <<>> \in Seq(Stream)
    BY DEF TypeOK
  <2> QED
    BY <2>1, <2>2
<1>3. /\ ret' \in {"go", "close"} /\ phase' \in {"frames", "actions", "closed"}
      /\ goaway' \in BOOLEAN /\ aligned' \in BOOLEAN
  BY DEF TypeOK, Quiet, OversizedData, SelfDependentHeaders, LateContinuation, WindowTooHigh,
     StreamError, IllegalFrame, WrongHeader, ConnectionError, GoawayFrame, EndOfBuffer, Return,
     history
<1> QED
  BY <1>1, <1>2, <1>3 DEF TypeOK

\* What a frame, or the end of an action, does to the streams.
LEMMA StepTypes ==
  ASSUME TypeOK, [Next]_vars
  PROVE  TypeOK'
<1>f. /\ "HEADER_RECEIVED" \in Flags /\ "STREAM_END" \in Flags /\ "HEADER_END" \in Flags
      /\ "RESET_STREAM" \in Flags /\ "ACTION_CALLED" \in Flags
  BY DEF Flags
<1>t. /\ flags \in [Ids -> SUBSET Flags] /\ body \in [Stream -> Seq(Items)] /\ call \in Seq(Stream)
  BY DEF TypeOK, Ids, Items
<1>1. ASSUME NEW s \in Stream, NEW end \in BOOLEAN, Data(s, end)
      PROVE  TypeOK'
  <2>1. flags' \in [Ids -> SUBSET Flags]
    BY <1>1, <1>f, <1>t DEF Data, Ids
  <2>2. body' \in [Stream -> Seq(Items)]
    <3>1. body[s] \o <<"data", "end">> \in Seq(Items) /\ body[s] \o <<"data">> \in Seq(Items)
      BY <1>t DEF Items
    <3> QED
      BY <1>1, <1>t, <3>1 DEF Data
  <2>3. call' \in Seq(Stream)
    BY <1>1, <1>t DEF Data, CallOnce
  <2> QED
    BY <1>1, <2>1, <2>2, <2>3 DEF Data, TypeOK, history, Ids, Items
<1>e. ASSUME NEW s \in Stream, EndOfRequest(s)
      PROVE  body' \in [Stream -> Seq(Items)] /\ call' \in Seq(Stream)
  <2>1. Append(body[s], "end") \in Seq(Items)
    BY <1>t DEF Items
  <2> QED
    BY <1>e, <1>t, <2>1 DEF EndOfRequest
<1>2. ASSUME NEW s \in Stream, NEW end \in BOOLEAN, Headers(s, end)
      PROVE  TypeOK'
  <2>1. flags' \in [Ids -> SUBSET Flags]
    BY <1>2, <1>f, <1>t DEF Headers, Ids
  <2>2. body' \in [Stream -> Seq(Items)] /\ call' \in Seq(Stream)
    BY <1>2, <1>e, <1>t DEF Headers
  <2> QED
    BY <1>2, <2>1, <2>2 DEF Headers, TypeOK, Ids, Items
<1>3. ASSUME NEW s \in Stream, NEW end \in BOOLEAN, HeadersFragment(s, end)
      PROVE  TypeOK'
  <2>1. flags' \in [Ids -> SUBSET Flags]
    BY <1>3, <1>f, <1>t DEF HeadersFragment, Ids
  <2> QED
    BY <1>3, <2>1 DEF HeadersFragment, TypeOK, Ids, history
<1>4. ASSUME NEW s \in Stream, NEW end \in BOOLEAN, Continuation(s, end)
      PROVE  TypeOK'
  <2>1. flags' \in [Ids -> SUBSET Flags]
    BY <1>4, <1>f, <1>t DEF Continuation, Ids
  <2>2. body' \in [Stream -> Seq(Items)] /\ call' \in Seq(Stream)
    BY <1>4, <1>e, <1>t DEF Continuation
  <2> QED
    BY <1>4, <2>1, <2>2 DEF Continuation, TypeOK, Ids, Items, history
<1>5. ASSUME NEW s \in Stream, RstStream(s)
      PROVE  TypeOK'
  <2>1. flags' \in [Ids -> SUBSET Flags]
    <3>1. s \in Ids /\ flags' = [flags EXCEPT ![s] = @ \cup {"RESET_STREAM"}]
      BY <1>5 DEF RstStream, Ids
    <3> QED
      BY <1>f, <1>t, <3>1
  <2>2. body' \in [Stream -> Seq(Items)]
    <3>1. body' = body \/ body' = [body EXCEPT ![s] = <<>>]
      BY <1>5 DEF RstStream
    <3>2. <<>> \in Seq(Items)
      OBVIOUS
    <3> QED
      BY <1>t, <3>1, <3>2
  <2> QED
    BY <1>5, <2>1, <2>2 DEF RstStream, TypeOK, Ids, Items, history
<1>8. ASSUME NEW s \in Stream, ExitDoAction(s)
      PROVE  TypeOK'
  <2>1. flags' \in [Ids -> SUBSET Flags]
    <3>1. s \in Ids /\ flags' = [flags EXCEPT ![s] = @ \cup {"RESET_STREAM"}]
      BY <1>8 DEF ExitDoAction, Ids
    <3> QED
      BY <1>f, <1>t, <3>1
  <2>2. running' \in [Stream -> Nat]
    <3>1. running[s] \in Nat /\ running[s] > 0 /\ running' = [running EXCEPT ![s] = @ - 1]
      BY <1>8 DEF ExitDoAction, TypeOK
    <3> QED
      BY <3>1 DEF TypeOK
  <2> QED
    BY <1>8, <2>1, <2>2 DEF ExitDoAction, TypeOK, Ids, Items, history
<1>6. CASE CallNext
  <2>1. Head(call) \in Stream /\ call' \in Seq(Stream)
    BY <1>6, <1>t DEF CallNext
  <2>2. started' \in [Stream -> Nat] /\ running' \in [Stream -> Nat]
    <3> DEFINE s == Head(call)
    <3>1. \/ UNCHANGED <<started, running>>
          \/ started' = [started EXCEPT ![s] = @ + 1] /\ running' = [running EXCEPT ![s] = @ + 1]
      BY <1>6 DEF CallNext
    <3>2. started \in [Stream -> Nat] /\ running \in [Stream -> Nat]
      BY DEF TypeOK
    <3> HIDE DEF s
    <3> QED
      BY <3>1, <3>2
  <2> QED
    BY <1>6, <2>1, <2>2 DEF CallNext, TypeOK, history
<1>7. CASE UNCHANGED vars
  BY <1>7 DEF TypeOK, vars, history
<1> QED
  BY <1>1, <1>2, <1>3, <1>4, <1>5, <1>6, <1>7, <1>8, QuietTypes, NextCases

LEMMA InitTypes == Init => TypeOK
<1> SUFFICES ASSUME Init PROVE TypeOK
  OBVIOUS
<1>1. flags \in [Ids -> SUBSET Flags] /\ known \subseteq Stream /\ trailers \subseteq Stream
  BY DEF Init, Ids
<1>2. <<>> \in Seq(Items) /\ <<>> \in Seq(Stream)
  OBVIOUS
<1>3. body \in [Stream -> Seq(Items)] /\ call \in Seq(Stream)
  BY <1>2 DEF Init
<1>4. started \in [Stream -> Nat] /\ running \in [Stream -> Nat]
  BY DEF Init
<1> QED
  BY <1>1, <1>3, <1>4 DEF Init, TypeOK, Ids, Items

-----------------------------------------------------------------------------
(* The frames and the start of actions, by what they change *)

\* Who waits after one more is called, and after the first is taken.
LEMMA WaitsAppended ==
  ASSUME call \in Seq(Stream), NEW s \in Stream, call' = Append(call, s)
  PROVE  /\ \A t \in Stream : Waits(t)' <=> Waits(t) \/ t = s
         /\ \A t \in Stream :
              (\A i, j \in DOMAIN call : call[i] = t /\ call[j] = t => i = j) /\ (t = s => ~Waits(s))
                => \A i, j \in DOMAIN call' : call'[i] = t /\ call'[j] = t => i = j
<1>1. /\ Len(call) \in Nat /\ DOMAIN call = 1 .. Len(call)
      /\ DOMAIN call' = 1 .. (Len(call) + 1) /\ call'[Len(call) + 1] = s
      /\ \A i \in DOMAIN call : call'[i] = call[i]
  OBVIOUS
<1>2. \A i \in DOMAIN call' : i \in DOMAIN call \/ i = Len(call) + 1
  BY <1>1
<1>3. DOMAIN call \subseteq DOMAIN call' /\ Len(call) + 1 \in DOMAIN call'
  BY <1>1
<1> QED
  BY <1>1, <1>2, <1>3 DEF Waits

LEMMA WaitsTaken ==
  ASSUME call \in Seq(Stream), call # <<>>, call' = Tail(call)
  PROVE  /\ \A t \in Stream : t # Head(call) => (Waits(t)' <=> Waits(t))
         /\ \A t \in Stream :
              (\A i, j \in DOMAIN call : call[i] = t /\ call[j] = t => i = j)
                => /\ \A i, j \in DOMAIN call' : call'[i] = t /\ call'[j] = t => i = j
                   /\ t = Head(call) => ~Waits(t)'
         /\ Head(call) \in Stream /\ Waits(Head(call))
         /\ \A t \in Stream : Waits(t)' => Waits(t)
<1>1. /\ Len(call) \in Nat /\ Len(call) >= 1 /\ DOMAIN call = 1 .. Len(call)
      /\ DOMAIN call' = 1 .. (Len(call) - 1) /\ call[1] = Head(call)
      /\ \A i \in DOMAIN call' : call'[i] = call[i + 1]
  OBVIOUS
<1>2. Head(call) \in Stream /\ 1 \in DOMAIN call
  BY <1>1
<1>3. \A i \in DOMAIN call' : i \in Nat /\ i # 0 /\ i + 1 \in DOMAIN call
  BY <1>1
<1>4. \A i \in DOMAIN call : i = 1 \/ (i - 1 \in DOMAIN call' /\ call'[i - 1] = call[i])
  <2>1. \A i \in DOMAIN call : i # 1 => i - 1 \in DOMAIN call' /\ (i - 1) + 1 = i
    BY <1>1
  <2> QED
    BY <1>1, <2>1
<1>5. \A t \in Stream : Waits(t)' => Waits(t)
  BY <1>1, <1>3 DEF Waits
<1>6. \A t \in Stream : t # Head(call) /\ Waits(t) => Waits(t)'
  BY <1>1, <1>4 DEF Waits
<1>7. ASSUME NEW t \in Stream, \A i, j \in DOMAIN call : call[i] = t /\ call[j] = t => i = j
      PROVE  /\ \A i, j \in DOMAIN call' : call'[i] = t /\ call'[j] = t => i = j
             /\ t = Head(call) => ~Waits(t)'
  <2>1. ASSUME NEW i \in DOMAIN call', NEW j \in DOMAIN call', call'[i] = t, call'[j] = t
        PROVE  i = j
    <3>1. i + 1 = j + 1
      BY <1>1, <1>3, <1>7, <2>1
    <3> QED
      BY <1>3, <3>1
  <2>2. ASSUME t = Head(call), NEW i \in DOMAIN call', call'[i] = t
        PROVE  FALSE
    <3>1. i + 1 = 1
      BY <1>1, <1>2, <1>3, <1>7, <2>2
    <3> QED
      BY <1>3, <3>1
  <2> QED
    BY <2>1, <2>2 DEF Waits
<1> QED
  BY <1>1, <1>2, <1>5, <1>6, <1>7 DEF Waits

\* A frame of s that is accepted leaves the other streams alone.
OthersKept(s) ==
  /\ \A t \in Stream : t # s => flags'[t] = flags[t] /\ body'[t] = body[t]
  /\ UNCHANGED <<phase, ret, started, running, goaway, aligned>>

LEMMA DataStep ==
  ASSUME TypeOK, NEW s \in Stream, NEW end \in BOOLEAN, Data(s, end)
  PROVE  /\ s \in known /\ "HEADER_RECEIVED" \notin flags[0]
         /\ "STREAM_END" \notin flags[s]
         /\ flags'[s] = flags[s] \cup {"ACTION_CALLED"} \cup (IF end THEN {"STREAM_END"} ELSE {})
         /\ flags'[0] = flags[0]
         /\ body'[s] = body[s] \o (IF end THEN <<"data", "end">> ELSE <<"data">>)
         /\ \/ "ACTION_CALLED" \in flags[s] /\ call' = call
            \/ "ACTION_CALLED" \notin flags[s] /\ call' = Append(call, s)
         /\ OthersKept(s) /\ UNCHANGED <<known, trailers>>
BY ZeroApart DEF Data, DataAllowed, InHeaderBlock, Has, CallOnce, OthersKept, TypeOK, history

LEMMA HeadersStep ==
  ASSUME TypeOK, NEW s \in Stream, NEW end \in BOOLEAN, Headers(s, end)
  PROVE  /\ s \notin known => "HEADER_RECEIVED" \notin flags[0]
         /\ s \in known => "STREAM_END" \notin flags[s]
         /\ s \in known /\ "HEADER_END" \in flags[s] => end
         /\ known' = known \cup {s}
         /\ flags'[s] = flags[s] \cup {"HEADER_END"}
                        \cup (IF end THEN {"STREAM_END", "ACTION_CALLED"} ELSE {})
         /\ flags'[0] = flags[0] \ {"HEADER_RECEIVED"}
         /\ IF end THEN body'[s] = Append(body[s], "end") /\ call' = Append(call, s)
                   ELSE body'[s] = body[s] /\ call' = call
         /\ trailers' = IF "HEADER_END" \in flags[s] THEN trailers \cup {s} ELSE trailers
         /\ OthersKept(s)
BY ZeroApart DEF Headers, HeadersAllowed, InHeaderBlock, Has, EndOfRequest, OthersKept, TypeOK

LEMMA FragmentStep ==
  ASSUME TypeOK, NEW s \in Stream, NEW end \in BOOLEAN, HeadersFragment(s, end)
  PROVE  /\ s \notin known /\ "HEADER_RECEIVED" \notin flags[0]
         /\ known' = known \cup {s}
         /\ flags'[s] = {"HEADER_RECEIVED"} \cup (IF end THEN {"STREAM_END"} ELSE {})
         /\ flags'[0] = flags[0] \cup {"HEADER_RECEIVED"}
         /\ body'[s] = body[s]
         /\ OthersKept(s) /\ UNCHANGED <<call, trailers>>
BY ZeroApart DEF HeadersFragment, HeadersAllowed, InHeaderBlock, Has, OthersKept, TypeOK, history

LEMMA ContinuationStep ==
  ASSUME TypeOK, NEW s \in Stream, NEW end \in BOOLEAN, Continuation(s, end)
  PROVE  LET ended == end \/ "STREAM_END" \in flags[s] IN
         /\ s \in known /\ "HEADER_END" \notin flags[s] /\ "ACTION_CALLED" \notin flags[s]
         /\ flags'[s] = flags[s] \cup {"HEADER_END"}
                        \cup (IF ended THEN {"STREAM_END", "ACTION_CALLED"} ELSE {})
         /\ flags'[0] = flags[0] \ {"HEADER_RECEIVED"}
         /\ IF ended THEN body'[s] = Append(body[s], "end") /\ call' = Append(call, s)
                     ELSE body'[s] = body[s] /\ call' = call
         /\ OthersKept(s) /\ UNCHANGED <<known, trailers>>
BY ZeroApart DEF Continuation, ContinuationAllowed, Has, EndOfRequest, OthersKept, TypeOK, history

\* RST_STREAM, and the end of a DoAction thread.
LEMMA ResetStep ==
  ASSUME TypeOK, NEW s \in Stream, RstStream(s) \/ ExitDoAction(s)
  PROVE  /\ s \in known \/ running[s] > 0
         /\ flags'[s] = flags[s] \cup {"RESET_STREAM"}
         /\ flags'[0] = flags[0]
         /\ body'[s] = body[s] \/ body'[s] = <<>>
         /\ \A t \in Stream :
              t # s => flags'[t] = flags[t] /\ body'[t] = body[t] /\ running'[t] = running[t]
         /\ UNCHANGED <<known, call, ret, phase, started, goaway, aligned, trailers>>
<1>1. CASE RstStream(s)
  BY <1>1, ZeroApart DEF RstStream, TypeOK, history
<1>2. CASE ExitDoAction(s)
  BY <1>2, ZeroApart DEF ExitDoAction, TypeOK, history
<1> QED
  BY <1>1, <1>2

LEMMA CallStep ==
  ASSUME TypeOK, CallNext
  PROVE  LET s == Head(call) IN
         /\ call # <<>> /\ call' = Tail(call) /\ s \in Stream
         /\ \/ "RESET_STREAM" \in flags[s] /\ started' = started /\ running' = running
            \/ started'[s] = started[s] + 1 /\ running'[s] = running[s] + 1
         /\ \A t \in Stream : t # s => started'[t] = started[t] /\ running'[t] = running[t]
         /\ UNCHANGED <<known, flags, body, ret, phase, goaway, aligned, trailers>>
<1>1. call # <<>> /\ call \in Seq(Stream)
  BY DEF CallNext, TypeOK
<1>2. PICK s \in Stream : s = Head(call)
  BY <1>1
<1>3. \/ "RESET_STREAM" \in flags[s] /\ started' = started /\ running' = running
      \/ started' = [started EXCEPT ![s] = @ + 1] /\ running' = [running EXCEPT ![s] = @ + 1]
  BY <1>2 DEF CallNext, Has
<1>4. started \in [Stream -> Nat] /\ running \in [Stream -> Nat]
  BY DEF TypeOK
<1>5. /\ \/ "RESET_STREAM" \in flags[s] /\ started' = started /\ running' = running
         \/ started'[s] = started[s] + 1 /\ running'[s] = running[s] + 1
      /\ \A t \in Stream : t # s => started'[t] = started[t] /\ running'[t] = running[t]
  BY <1>3, <1>4
<1>6. call' = Tail(call) /\ UNCHANGED <<known, flags, body, ret, phase, goaway, aligned, trailers>>
  BY DEF CallNext, history
<1> QED
  BY <1>1, <1>2, <1>5, <1>6

-----------------------------------------------------------------------------
(* The invariant, one part after the other *)

LEMMA InitStream == Init => StreamInv
<1> SUFFICES ASSUME Init PROVE StreamInv
  OBVIOUS
<1>1. \A s \in Stream : flags[s] = {} /\ body[s] = <<>> /\ started[s] = 0 /\ running[s] = 0
  BY DEF Init
<1>2. /\ call = <<>> /\ known = {} /\ flags[0] = {}
      /\ \A s \in Stream : ~Waits(s)
  BY DEF Init, Waits
<1>3. Unknown /\ CalledInv /\ EndInv /\ OnceInv
  BY <1>1, <1>2 DEF Unknown, CalledInv, Called, Complete, EndInv, OnceInv
<1>4. BlockInv
  BY <1>1, <1>2 DEF BlockInv, Called
<1> QED
  BY <1>3, <1>4, InitTypes DEF StreamInv

\* In a quiet step, or none, CallAction is kept or thrown away.
LEMMA QuietKeeps ==
  ASSUME StreamInv, Quiet \/ UNCHANGED vars
  PROVE  StreamInv'
<1>1. /\ UNCHANGED <<known, flags, body, started, running, trailers>>
      /\ call' = call \/ (call' = <<>> /\ (~aligned' \/ phase' = "closed"))
      /\ aligned' => aligned
      /\ phase = "closed" => phase' = "closed"
  BY QuietStep DEF vars, history
<1>2. \A s \in Stream : /\ Waits(s)' => Waits(s)
                        /\ call' = call => (Waits(s)' <=> Waits(s))
  BY <1>1 DEF Waits
<1>3. TypeOK'
  BY QuietTypes, StepTypes DEF StreamInv
<1>4. Unknown' /\ CalledInv' /\ EndInv'
  BY <1>1, <1>2 DEF StreamInv, Unknown, CalledInv, Called, Complete, EndInv
<1>5. BlockInv' /\ OnceInv'
  BY <1>1, <1>2 DEF StreamInv, BlockInv, OnceInv, Called
<1> QED
  BY <1>3, <1>4, <1>5 DEF StreamInv

LEMMA DataKeeps ==
  ASSUME StreamInv, NEW s \in Stream, NEW end \in BOOLEAN, Data(s, end)
  PROVE  StreamInv'
<1> USE DEF OthersKept
<1>1. TypeOK /\ TypeOK'
  BY StepTypes DEF StreamInv, Next, FrameStep
<1>2. /\ s \in known /\ "HEADER_RECEIVED" \notin flags[0]
      /\ "STREAM_END" \notin flags[s]
      /\ flags'[s] = flags[s] \cup {"ACTION_CALLED"} \cup (IF end THEN {"STREAM_END"} ELSE {})
      /\ flags'[0] = flags[0]
      /\ body'[s] = body[s] \o (IF end THEN <<"data", "end">> ELSE <<"data">>)
      /\ \/ "ACTION_CALLED" \in flags[s] /\ call' = call
         \/ "ACTION_CALLED" \notin flags[s] /\ call' = Append(call, s)
      /\ OthersKept(s) /\ UNCHANGED <<known, trailers>>
  BY <1>1, DataStep
<1>3. /\ \A t \in Stream : t # s => (Waits(t)' <=> Waits(t))
      /\ Waits(s)' <=> Waits(s) \/ "ACTION_CALLED" \notin flags[s]
      /\ \A t \in Stream :
           (\A i, j \in DOMAIN call : call[i] = t /\ call[j] = t => i = j)
             => \A i, j \in DOMAIN call' : call'[i] = t /\ call'[j] = t => i = j
  <2>1. CASE "ACTION_CALLED" \in flags[s] /\ call' = call
    BY <2>1 DEF Waits
  <2>2. CASE "ACTION_CALLED" \notin flags[s] /\ call' = Append(call, s)
    <3>1. ~Waits(s)
      BY <2>2 DEF StreamInv, CalledInv, Called
    <3> QED
      BY <1>1, <2>2, <3>1, WaitsAppended DEF TypeOK
  <2> QED
    BY <1>2, <2>1, <2>2
<1>4. Unknown'
  BY <1>2, <1>3 DEF StreamInv, Unknown
<1>5. CalledInv'
  BY <1>2, <1>3 DEF StreamInv, CalledInv, Called, Complete
<1>6. EndInv'
  <2>1. ASSUME NEW t \in Stream, t # s
        PROVE  /\ \A i \in DOMAIN body'[t] :
                    body'[t][i] = "end"
                      => i = Len(body'[t]) /\ {"STREAM_END", "ACTION_CALLED"} \subseteq flags'[t]
               /\ Complete(t)' => \/ body'[t] = <<>> /\ "RESET_STREAM" \in flags'[t]
                                  \/ body'[t] # <<>> /\ body'[t][Len(body'[t])] = "end"
    BY <1>2, <2>1 DEF StreamInv, EndInv, Complete
  <2>2. \A i \in DOMAIN body[s] : body[s][i] # "end"
    BY <1>2 DEF StreamInv, EndInv
  <2>3. body[s] \in Seq(Items)
    BY <1>1 DEF TypeOK, Items
  <2>4. CASE end
    <3>1. body'[s] = body[s] \o <<"data", "end">>
      BY <1>2, <2>4
    <3>2. /\ Len(body'[s]) = Len(body[s]) + 2 /\ body'[s] # <<>>
          /\ body'[s][Len(body[s]) + 2] = "end"
          /\ \A i \in DOMAIN body'[s] : body'[s][i] = "end" => i = Len(body[s]) + 2
      BY <2>2, <2>3, <3>1 DEF Items
    <3> QED
      BY <1>2, <2>1, <2>4, <3>2 DEF EndInv, Complete
  <2>5. CASE ~end
    <3>1. body'[s] = body[s] \o <<"data">>
      BY <1>2, <2>5
    <3>2. \A i \in DOMAIN body'[s] : body'[s][i] # "end"
      BY <2>2, <2>3, <3>1 DEF Items
    <3>3. ~Complete(s)'
      BY <1>2, <2>5 DEF Complete
    <3> QED
      BY <2>1, <3>2, <3>3 DEF EndInv
  <2> QED
    BY <2>4, <2>5
<1>7. BlockInv'
  <2> SUFFICES ASSUME trailers = {} PROVE BlockInv'
    BY <1>2 DEF BlockInv
  <2>1. /\ \A t \in known : "HEADER_END" \in flags[t]
        /\ \A t \in Stream : Called(t) => "HEADER_END" \in flags[t]
    BY <1>2 DEF StreamInv, BlockInv
  <2>2. \A t \in Stream : "HEADER_END" \in flags[t] => "HEADER_END" \in flags'[t]
    BY <1>2
  <2>3. known' = known /\ known \subseteq Stream /\ "HEADER_RECEIVED" \notin flags'[0]
    BY <1>1, <1>2 DEF TypeOK
  <2>4. \A t \in Stream : Called(t)' => Called(t) \/ t = s
    BY <1>2, <1>3 DEF Called
  <2> QED
    BY <1>2, <2>1, <2>2, <2>3, <2>4 DEF BlockInv
<1>8. OnceInv'
  <2> SUFFICES ASSUME trailers = {}, NEW t \in Stream
               PROVE  /\ \A i, j \in DOMAIN call' : call'[i] = t /\ call'[j] = t => i = j
                      /\ started'[t] <= 1
                      /\ started'[t] > 0 => ~Waits(t)'
    BY <1>2 DEF OnceInv
  <2>1. /\ \A i, j \in DOMAIN call : call[i] = t /\ call[j] = t => i = j
        /\ started[t] <= 1 /\ (started[t] > 0 => ~Waits(t))
    BY DEF StreamInv, OnceInv
  <2>2. started[s] > 0 => "ACTION_CALLED" \in flags[s]
    BY DEF StreamInv, CalledInv, Called
  <2> QED
    BY <1>2, <1>3, <2>1, <2>2
<1> QED
  BY <1>1, <1>4, <1>5, <1>6, <1>7, <1>8 DEF StreamInv

\* A complete header block ends the body, when END_STREAM came with it.
LEMMA EndAppended ==
  ASSUME NEW b \in Seq(Items), \A i \in DOMAIN b : b[i] # "end", NEW c, c = Append(b, "end")
  PROVE  /\ c # <<>> /\ c[Len(c)] = "end"
         /\ \A i \in DOMAIN c : c[i] = "end" => i = Len(c)
<1>1. /\ Len(c) = Len(b) + 1 /\ Len(b) \in Nat /\ c[Len(b) + 1] = "end"
      /\ DOMAIN c = 1 .. (Len(b) + 1) /\ DOMAIN b = 1 .. Len(b)
      /\ \A i \in DOMAIN b : c[i] = b[i]
  BY DEF Items
<1> QED
  BY <1>1

\* The last frame of a header block of s, HEADERS or CONTINUATION, by which it
\* may end.
BlockEnds(s, ended) ==
  /\ flags'[s] = flags[s] \cup {"HEADER_END"}
                 \cup (IF ended THEN {"STREAM_END", "ACTION_CALLED"} ELSE {})
  /\ flags'[0] = flags[0] \ {"HEADER_RECEIVED"}
  /\ IF ended THEN body'[s] = Append(body[s], "end") /\ call' = Append(call, s)
              ELSE body'[s] = body[s] /\ call' = call
  /\ known' = known \cup {s}
  /\ trailers' = IF "HEADER_END" \in flags[s] THEN trailers \cup {s} ELSE trailers
  /\ OthersKept(s)

LEMMA BlockKeeps ==
  ASSUME StreamInv, TypeOK', NEW s \in Stream, NEW ended \in BOOLEAN, BlockEnds(s, ended),
         s \notin known => "HEADER_RECEIVED" \notin flags[0],
         "STREAM_END" \notin flags[s] \/ "ACTION_CALLED" \notin flags[s],
         "HEADER_END" \in flags[s] \/ "STREAM_END" \in flags[s] => ended
  PROVE  StreamInv'
<1> USE DEF BlockEnds, OthersKept
<1>1. TypeOK
  BY DEF StreamInv
<1>2. \A i \in DOMAIN body[s] : body[s][i] # "end"
  BY DEF StreamInv, EndInv
<1>3. /\ \A t \in Stream : t # s => (Waits(t)' <=> Waits(t))
      /\ Waits(s)' <=> Waits(s) \/ ended
      /\ \A t \in Stream :
           (\A i, j \in DOMAIN call : call[i] = t /\ call[j] = t => i = j)
             /\ (t = s => ~Waits(s))
             => \A i, j \in DOMAIN call' : call'[i] = t /\ call'[j] = t => i = j
  <2>1. CASE ended
    BY <1>1, <2>1, WaitsAppended DEF TypeOK
  <2>2. CASE ~ended
    BY <2>2 DEF Waits
  <2> QED
    BY <2>1, <2>2
<1>4. Unknown'
  BY <1>3 DEF StreamInv, Unknown
<1>5. CalledInv'
  <2>1. ASSUME NEW t \in Stream, t # s
        PROVE  /\ Called(t)' => "ACTION_CALLED" \in flags'[t]
               /\ Complete(t)' => "ACTION_CALLED" \in flags'[t]
               /\ aligned' /\ "ACTION_CALLED" \in flags'[t]
                    => Called(t)' \/ "RESET_STREAM" \in flags'[t] \/ phase' = "closed"
    BY <1>3, <2>1 DEF StreamInv, CalledInv, Called, Complete
  <2>2. CASE ended
    BY <1>3, <2>1, <2>2 DEF StreamInv, CalledInv, Called, Complete
  <2>3. CASE ~ended
    BY <1>3, <2>1, <2>3 DEF StreamInv, CalledInv, Called, Complete
  <2> QED
    BY <2>2, <2>3
<1>6. EndInv'
  <2>1. ASSUME NEW t \in Stream, t # s
        PROVE  /\ \A i \in DOMAIN body'[t] :
                    body'[t][i] = "end"
                      => i = Len(body'[t]) /\ {"STREAM_END", "ACTION_CALLED"} \subseteq flags'[t]
               /\ Complete(t)' => \/ body'[t] = <<>> /\ "RESET_STREAM" \in flags'[t]
                                  \/ body'[t] # <<>> /\ body'[t][Len(body'[t])] = "end"
    BY <2>1 DEF StreamInv, EndInv, Complete
  <2>2. CASE ended
    <3>1. body[s] \in Seq(Items) /\ body'[s] = Append(body[s], "end")
      BY <1>1, <2>2 DEF TypeOK, Items
    <3>2. /\ body'[s] # <<>> /\ body'[s][Len(body'[s])] = "end"
          /\ \A i \in DOMAIN body'[s] : body'[s][i] = "end" => i = Len(body'[s])
      BY <1>2, <3>1, EndAppended
    <3> QED
      BY <2>1, <2>2, <3>2 DEF EndInv, Complete
  <2>3. CASE ~ended
    <3>1. ~Complete(s)'
      BY <2>3 DEF Complete
    <3> QED
      BY <1>2, <2>1, <2>3, <3>1 DEF EndInv
  <2> QED
    BY <2>2, <2>3
<1>7. BlockInv' /\ OnceInv'
  <2> SUFFICES ASSUME trailers' = {} PROVE BlockInv' /\ OnceInv'
    BY DEF BlockInv, OnceInv
  <2>1. trailers = {} /\ "HEADER_END" \notin flags[s]
    OBVIOUS
  <2>2. ~Called(s)
    BY <2>1 DEF StreamInv, BlockInv
  <2>3. \A t \in known : "HEADER_END" \notin flags[t] => t = s
    BY <2>1 DEF StreamInv, BlockInv
  <2>4. \A t \in Stream : Called(t)' => Called(t) \/ t = s
    BY <1>3 DEF Called
  <2>5. known \subseteq Stream /\ "HEADER_RECEIVED" \notin flags'[0]
    BY <1>1 DEF TypeOK
  <2>6. \A t \in known' : "HEADER_END" \in flags'[t]
    BY <2>3, <2>5
  <2>7. BlockInv'
    BY <2>1, <2>2, <2>4, <2>5, <2>6 DEF StreamInv, BlockInv
  <2>8. OnceInv'
    <3> SUFFICES ASSUME NEW t \in Stream
                 PROVE  /\ \A i, j \in DOMAIN call' : call'[i] = t /\ call'[j] = t => i = j
                        /\ started'[t] <= 1
                        /\ started'[t] > 0 => ~Waits(t)'
      BY DEF OnceInv
    <3>1. /\ \A i, j \in DOMAIN call : call[i] = t /\ call[j] = t => i = j
          /\ started[t] <= 1 /\ (started[t] > 0 => ~Waits(t))
      BY <2>1 DEF StreamInv, OnceInv
    <3> QED
      BY <1>3, <2>2, <3>1 DEF Called
  <2> QED
    BY <2>7, <2>8
<1> QED
  BY <1>4, <1>5, <1>6, <1>7 DEF StreamInv

LEMMA HeadersKeeps ==
  ASSUME StreamInv, NEW s \in Stream, NEW end \in BOOLEAN, Headers(s, end)
  PROVE  StreamInv'
<1>1. TypeOK /\ TypeOK'
  BY StepTypes DEF StreamInv, Next, FrameStep
<1>2. /\ s \notin known => "HEADER_RECEIVED" \notin flags[0] /\ flags[s] = {}
      /\ s \in known => "STREAM_END" \notin flags[s]
      /\ s \in known /\ "HEADER_END" \in flags[s] => end
      /\ BlockEnds(s, end)
  BY <1>1, HeadersStep DEF BlockEnds, StreamInv, Unknown
<1> QED
  BY <1>1, <1>2, BlockKeeps

LEMMA ContinuationKeeps ==
  ASSUME StreamInv, NEW s \in Stream, NEW end \in BOOLEAN, Continuation(s, end)
  PROVE  StreamInv'
<1>1. TypeOK /\ TypeOK'
  BY StepTypes DEF StreamInv, Next, FrameStep
<1> DEFINE ended == end \/ "STREAM_END" \in flags[s]
<1>2. /\ s \in known /\ "HEADER_END" \notin flags[s] /\ "ACTION_CALLED" \notin flags[s]
      /\ flags'[s] = flags[s] \cup {"HEADER_END"}
                     \cup (IF ended THEN {"STREAM_END", "ACTION_CALLED"} ELSE {})
      /\ flags'[0] = flags[0] \ {"HEADER_RECEIVED"}
      /\ IF ended THEN body'[s] = Append(body[s], "end") /\ call' = Append(call, s)
                  ELSE body'[s] = body[s] /\ call' = call
      /\ OthersKept(s) /\ UNCHANGED <<known, trailers>>
  BY <1>1, ContinuationStep
<1>3. ended \in BOOLEAN /\ known \cup {s} = known
  BY <1>2
<1>4. BlockEnds(s, ended)
  BY <1>2, <1>3 DEF BlockEnds
<1> QED
  BY <1>1, <1>2, <1>3, <1>4, BlockKeeps

LEMMA FragmentKeeps ==
  ASSUME StreamInv, NEW s \in Stream, NEW end \in BOOLEAN, HeadersFragment(s, end)
  PROVE  StreamInv'
<1> USE DEF OthersKept
<1>1. TypeOK /\ TypeOK'
  BY StepTypes DEF StreamInv, Next, FrameStep
<1>2. /\ s \notin known /\ "HEADER_RECEIVED" \notin flags[0]
      /\ known' = known \cup {s}
      /\ flags'[s] = {"HEADER_RECEIVED"} \cup (IF end THEN {"STREAM_END"} ELSE {})
      /\ flags'[0] = flags[0] \cup {"HEADER_RECEIVED"}
      /\ body'[s] = body[s]
      /\ OthersKept(s) /\ UNCHANGED <<call, trailers>>
  BY <1>1, FragmentStep
<1>3. flags[s] = {} /\ body[s] = <<>> /\ started[s] = 0 /\ ~Waits(s)
  BY <1>2 DEF StreamInv, Unknown
<1>4. \A t \in Stream : Waits(t)' = Waits(t)
  BY <1>2 DEF Waits
<1>5. Unknown' /\ CalledInv'
  BY <1>2, <1>3, <1>4 DEF StreamInv, Unknown, CalledInv, Called, Complete
<1>6. EndInv'
  BY <1>2, <1>3 DEF StreamInv, EndInv, Complete
<1>7. BlockInv'
  <2> SUFFICES ASSUME trailers = {} PROVE BlockInv'
    BY <1>2 DEF BlockInv
  <2>1. \A t \in known : "HEADER_END" \in flags[t] /\ t # s /\ t \in Stream
    BY <1>1, <1>2 DEF StreamInv, BlockInv, TypeOK
  <2>2. \A t \in known' : "HEADER_END" \notin flags'[t] <=> t = s
    BY <1>2, <2>1
  <2>3. \A t \in Stream : Called(t)' => Called(t) /\ t # s
    BY <1>2, <1>3, <1>4 DEF Called
  <2> QED
    BY <1>2, <2>2, <2>3 DEF StreamInv, BlockInv
<1>8. OnceInv'
  BY <1>2, <1>4 DEF StreamInv, OnceInv
<1> QED
  BY <1>1, <1>5, <1>6, <1>7, <1>8 DEF StreamInv

LEMMA ResetKeeps ==
  ASSUME StreamInv, NEW s \in Stream, RstStream(s) \/ ExitDoAction(s)
  PROVE  StreamInv'
<1>1. TypeOK /\ TypeOK'
  BY StepTypes DEF StreamInv, Next, FrameStep
<1>2. /\ s \in known \/ running[s] > 0
      /\ flags'[s] = flags[s] \cup {"RESET_STREAM"}
      /\ flags'[0] = flags[0]
      /\ body'[s] = body[s] \/ body'[s] = <<>>
      /\ \A t \in Stream :
           t # s => flags'[t] = flags[t] /\ body'[t] = body[t] /\ running'[t] = running[t]
      /\ UNCHANGED <<known, call, ret, phase, started, goaway, aligned, trailers>>
  BY <1>1, ResetStep
<1>3. s \in known
  BY <1>2 DEF StreamInv, Unknown
<1>4. \A t \in Stream : Waits(t)' = Waits(t)
  BY <1>2 DEF Waits
<1>5. Unknown' /\ CalledInv'
  BY <1>2, <1>3, <1>4 DEF StreamInv, Unknown, CalledInv, Called, Complete
<1>6. EndInv'
  BY <1>2 DEF StreamInv, EndInv, Complete
<1>7. BlockInv' /\ OnceInv'
  BY <1>1, <1>2, <1>4 DEF StreamInv, BlockInv, OnceInv, Called, TypeOK
<1> QED
  BY <1>1, <1>5, <1>6, <1>7 DEF StreamInv

LEMMA CallKeeps ==
  ASSUME StreamInv, CallNext
  PROVE  StreamInv'
<1>1. TypeOK /\ TypeOK'
  BY StepTypes DEF StreamInv, Next
<1>2. PICK s \in Stream :
      /\ s = Head(call) /\ call # <<>> /\ call' = Tail(call)
      /\ \/ "RESET_STREAM" \in flags[s] /\ started' = started /\ running' = running
         \/ started'[s] = started[s] + 1 /\ running'[s] = running[s] + 1
      /\ \A t \in Stream : t # s => started'[t] = started[t] /\ running'[t] = running[t]
      /\ UNCHANGED <<known, flags, body, ret, phase, goaway, aligned, trailers>>
  BY <1>1, CallStep
<1>3. /\ Waits(s)
      /\ \A t \in Stream : Waits(t)' => Waits(t)
      /\ \A t \in Stream : t # s => (Waits(t)' <=> Waits(t))
      /\ \A t \in Stream :
           (\A i, j \in DOMAIN call : call[i] = t /\ call[j] = t => i = j)
             => /\ \A i, j \in DOMAIN call' : call'[i] = t /\ call'[j] = t => i = j
                /\ t = s => ~Waits(t)'
  BY <1>1, <1>2, WaitsTaken DEF TypeOK
<1>4. \A t \in Stream : started[t] \in Nat /\ started'[t] \in Nat
  BY <1>1 DEF TypeOK
<1>5. \A t \in Stream : Called(t)' => Called(t)
  BY <1>2, <1>3 DEF Called
<1>6. Unknown'
  BY <1>2, <1>3 DEF StreamInv, Unknown
<1>7. CalledInv'
  <2>1. \A t \in Stream : Called(t) => Called(t)' \/ "RESET_STREAM" \in flags[t]
    BY <1>2, <1>3, <1>4 DEF Called
  <2> QED
    BY <1>2, <1>5, <2>1 DEF StreamInv, CalledInv, Complete
<1>8. EndInv'
  BY <1>2 DEF StreamInv, EndInv, Complete
<1>9. BlockInv'
  BY <1>2, <1>5 DEF StreamInv, BlockInv
<1>10. OnceInv'
  <2> SUFFICES ASSUME trailers = {}, NEW t \in Stream
               PROVE  /\ \A i, j \in DOMAIN call' : call'[i] = t /\ call'[j] = t => i = j
                      /\ started'[t] <= 1
                      /\ started'[t] > 0 => ~Waits(t)'
    BY <1>2 DEF OnceInv
  <2>1. /\ \A i, j \in DOMAIN call : call[i] = t /\ call[j] = t => i = j
        /\ started[t] <= 1 /\ (started[t] > 0 => ~Waits(t))
    BY DEF StreamInv, OnceInv
  <2>2. \A i, j \in DOMAIN call' : call'[i] = t /\ call'[j] = t => i = j
    BY <1>3, <2>1
  <2>3. CASE t = s
    BY <1>2, <1>3, <1>4, <2>1, <2>2, <2>3
  <2>4. CASE t # s
    BY <1>2, <1>3, <2>1, <2>2, <2>4
  <2> QED
    BY <2>3, <2>4
<1> QED
  BY <1>1, <1>6, <1>7, <1>8, <1>9, <1>10 DEF StreamInv

LEMMA StepStream == StreamInv /\ [Next]_vars => StreamInv'
BY NextCases, QuietKeeps, DataKeeps, HeadersKeeps, FragmentKeeps, ContinuationKeeps, ResetKeeps,
   CallKeeps

LEMMA StreamAlways == Spec => []StreamInv
BY InitStream, StepStream, PTL DEF Spec

-----------------------------------------------------------------------------
(* The theorems *)

\* Every stream's state is made of its five flags, a body of items and an end
\* marker, and a number of threads.
THEOREM StreamTypes == Spec => []TypeOK
<1>1. StreamInv => TypeOK
  BY DEF StreamInv
<1> QED
  BY <1>1, StreamAlways, PTL

\* The end marker of a body is its last item, and it is there (or the body was
\* thrown away) once the request is complete, trailers and resets included.
THEOREM BodiesEnd == Spec => []EndMarkerLast
<1>1. StreamInv => EndMarkerLast
  BY DEF StreamInv, EndInv, Complete, EndMarkerLast, Has, Last
<1> QED
  BY <1>1, StreamAlways, PTL

\* No complete request is forgotten, for any number of streams and any cut of
\* the frames into calls of Http2StreamProto, up to the first stream error.
THEOREM NoRequestForgotten == Spec => []CompleteRequestsStarted
<1>1. StreamInv => CompleteRequestsStarted
  <2> SUFFICES ASSUME StreamInv, aligned, NEW s \in known,
                      {"HEADER_END", "STREAM_END"} \subseteq flags[s],
                      ~Has(s, "RESET_STREAM"), phase # "closed"
               PROVE  started[s] > 0 \/ s \in ToSet(call)
    BY DEF CompleteRequestsStarted
  <2>1. s \in Stream
    BY DEF StreamInv, TypeOK
  <2>2. Called(s)
    BY <2>1 DEF StreamInv, CalledInv, Complete, Has
  <2> QED
    BY <2>2 DEF Called, Waits, ToSet
<1> QED
  BY <1>1, StreamAlways, PTL

\* Up to the first trailers a request is answered by one thread, however many
\* DATA and CONTINUATION frames it takes.
THEOREM AnsweredOnce == Spec => []StartedOnce
<1>1. StreamInv => StartedOnce
  <2> SUFFICES ASSUME StreamInv, trailers = {}, NEW s \in Stream
               PROVE  started[s] + Calls(s) <= 1
    BY DEF StartedOnce
  <2> DEFINE Places == {i \in DOMAIN call : call[i] = s}
  <2>1. /\ \A i, j \in Places : i = j
        /\ started[s] \in Nat /\ started[s] <= 1
        /\ started[s] > 0 => Places = {}
    BY DEF StreamInv, OnceInv, Waits, TypeOK
  <2>2. CASE Places = {}
    <3>1. Calls(s) = 0
      BY <2>2, FS_EmptySet DEF Calls
    <3> QED
      BY <2>1, <3>1
  <2>3. CASE Places # {}
    <3>1. PICK i : i \in Places
      BY <2>3
    <3>2. Places = {i}
      BY <2>1, <3>1
    <3>3. Calls(s) = 1
      BY <3>2, FS_Singleton DEF Calls
    <3>4. started[s] = 0
      BY <2>1, <2>3
    <3> QED
      BY <3>3, <3>4
  <2> QED
    BY <2>2, <2>3
<1> QED
  BY <1>1, StreamAlways, PTL

\* Up to the first trailers a thread is started with a whole header, at most
\* one header block is incomplete, and the mark in stream 0 says whether one is.
THEOREM BlocksAreWhole == Spec => []HeaderBlocksKept
<1>1. StreamInv => StartedWithHeader
  BY DEF StreamInv, BlockInv, Called, Waits, StartedWithHeader, Has, ToSet
<1>2. StreamInv => OneHeaderBlock
  <2> SUFFICES ASSUME StreamInv, trailers = {}
               PROVE  LET incomplete == {s \in known : ~Has(s, "HEADER_END")}
                      IN  /\ Cardinality(incomplete) <= 1
                          /\ InHeaderBlock <=> incomplete # {}
    BY DEF OneHeaderBlock
  <2> DEFINE Incomplete == {s \in known : ~Has(s, "HEADER_END")}
  <2>1. \A s, t \in Incomplete : s = t
    BY DEF StreamInv, BlockInv, Has
  <2>2. InHeaderBlock <=> Incomplete # {}
    BY DEF StreamInv, BlockInv, Has, InHeaderBlock
  <2>3. Cardinality(Incomplete) <= 1
    <3>1. CASE Incomplete = {}
      BY <3>1, FS_EmptySet
    <3>2. CASE Incomplete # {}
      <4>1. PICK s : s \in Incomplete
        BY <3>2
      <4>2. Incomplete = {s}
        BY <2>1, <4>1
      <4> QED
        BY <4>2, FS_Singleton
    <3> QED
      BY <3>1, <3>2
  <2> QED
    BY <2>2, <2>3
<1> QED
  BY <1>1, <1>2, StreamAlways, PTL DEF HeaderBlocksKept

\* Each complete request has its thread, and one only: for any streams and any
\* sequence of frames, up to the first trailers and the first stream error.
THEOREM StartedExactlyOnce == Spec => []RequestsStarted
<1>1. StartedOnce /\ CompleteRequestsStarted => RequestsStarted
  BY DEF RequestsStarted
<1> QED
  BY <1>1, AnsweredOnce, NoRequestForgotten, PTL

-----------------------------------------------------------------------------
(* The static table *)

\* The pseudo fields HTTP/2 knows.
KnownPseudo == {":authority", ":method", ":path", ":scheme", ":status"}

\* An entry, without looking into it.
IsEntry(e) == e = Entry(e.name, e.value)

\* Entry makes entries.
LEMMA EveryEntry == \A a, b : IsEntry(Entry(a, b))
  BY DEF IsEntry, Entry

\* The first entries of the static table have the names of pseudo fields.
LEMMA PseudoEntries ==
  /\ Len(PseudoListe) = 14 /\ \A i \in 1 .. 14 : IsEntry(PseudoListe[i])
  /\ \A i \in 1 .. 14 : PseudoListe[i].name \in KnownPseudo
  /\ \A name \in KnownPseudo : \E i \in 1 .. 14 : PseudoListe[i].name = name
  /\ \E T : PseudoListe \in Seq(T)
<1>1. Len(PseudoListe) = 14 /\ PseudoListe = [i \in 1 .. 14 |-> PseudoListe[i]]
  BY DEF PseudoListe
<1>2. /\ PseudoListe[1].name = ":authority" /\ PseudoListe[2].name = ":method"
      /\ PseudoListe[3].name = ":method" /\ PseudoListe[4].name = ":path"
      /\ PseudoListe[5].name = ":path" /\ PseudoListe[6].name = ":scheme"
      /\ PseudoListe[7].name = ":scheme"
  BY DEF PseudoListe, Entry
<1>3. /\ PseudoListe[8].name = ":status" /\ PseudoListe[9].name = ":status"
      /\ PseudoListe[10].name = ":status" /\ PseudoListe[11].name = ":status"
      /\ PseudoListe[12].name = ":status" /\ PseudoListe[13].name = ":status"
      /\ PseudoListe[14].name = ":status"
  BY DEF PseudoListe, Entry
<1>4. ASSUME NEW i \in 1 .. 14 PROVE PseudoListe[i].name \in KnownPseudo
  BY <1>2, <1>3 DEF KnownPseudo
<1>5. ASSUME NEW name \in KnownPseudo PROVE \E i \in 1 .. 14 : PseudoListe[i].name = name
  BY <1>2, <1>3 DEF KnownPseudo
<1>6. \E T : PseudoListe \in Seq(T)
  <2> DEFINE s == PseudoListe
             T == {s[i] : i \in 1 .. 14}
  <2>1. s = [i \in 1 .. 14 |-> s[i]]
    BY <1>1
  <2> HIDE DEF s
  <2>2. s \in Seq(T)
    BY <2>1
  <2> QED
    BY <2>2 DEF s
<1>7. ASSUME NEW i \in 1 .. 14 PROVE IsEntry(PseudoListe[i])
  <2>1. /\ IsEntry(PseudoListe[1]) /\ IsEntry(PseudoListe[2]) /\ IsEntry(PseudoListe[3])
        /\ IsEntry(PseudoListe[4]) /\ IsEntry(PseudoListe[5]) /\ IsEntry(PseudoListe[6])
        /\ IsEntry(PseudoListe[7])
    BY EveryEntry DEF PseudoListe
  <2>2. /\ IsEntry(PseudoListe[8]) /\ IsEntry(PseudoListe[9]) /\ IsEntry(PseudoListe[10])
        /\ IsEntry(PseudoListe[11]) /\ IsEntry(PseudoListe[12])
        /\ IsEntry(PseudoListe[13]) /\ IsEntry(PseudoListe[14])
    BY EveryEntry DEF PseudoListe
  <2> QED
    BY <2>1, <2>2
<1> QED
  BY <1>1, <1>4, <1>5, <1>6, <1>7

\* No other entry is refused for its name.
LEMMA NameEntries ==
  /\ Len(NameListe) = 45 /\ DOMAIN NameListe = 1 .. 45
  /\ \A i \in 1 .. 45 : NameListe[i] # "connection"
<1>1. Len(NameListe) = 45 /\ DOMAIN NameListe = 1 .. 45
  BY DEF NameListe
<1>2. \A i \in 1 .. 45 : NameListe[i] # "connection"
  BY DEF NameListe
<1> QED
  BY <1>1, <1>2

\* Two sequences, one behind the other.
LEMMA Concatenated ==
  ASSUME NEW T, NEW s \in Seq(T), NEW t \in Seq(T)
  PROVE  /\ s \o t \in Seq(T) /\ Len(s \o t) = Len(s) + Len(t)
         /\ \A i \in 1 .. Len(s) : (s \o t)[i] = s[i]
         /\ \A i \in 1 .. Len(t) : (s \o t)[Len(s) + i] = t[i]
  OBVIOUS

\* A sequence over a set is one over a larger set.
LEMMA SequenceOfMore ==
  ASSUME NEW S, NEW T, S \subseteq T, NEW s \in Seq(S)
  PROVE  s \in Seq(T)
<1>1. s \in [1 .. Len(s) -> S] /\ Len(s) \in Nat
  OBVIOUS
<1> QED
  BY <1>1

\* The table has the pseudo fields first; no name in it is refused.
LEMMA StaticEntries ==
  /\ Statics \in Nat /\ 14 <= Statics
  /\ \A i \in 1 .. 14 : StaticHeaderListe[i].name \in KnownPseudo
  /\ \A name \in KnownPseudo : \E i \in 1 .. 14 : StaticHeaderListe[i].name = name
  /\ \A i \in 1 .. Statics : /\ StaticHeaderListe[i].name # "connection"
                            /\ IsEntry(StaticHeaderListe[i])
<1> DEFINE p == PseudoListe
           q == <<Entry("accept-charset", ""), Entry("accept-encoding", "gzip, deflate")>>
           r == [i \in DOMAIN NameListe |-> Entry(NameListe[i], "")]
<1>1. PICK P : p \in Seq(P)
  BY PseudoEntries
<1>2. PICK Q : q \in Seq(Q) /\ Len(q) = 2
              /\ q[1].name # "connection" /\ q[2].name # "connection"
              /\ IsEntry(q[1]) /\ IsEntry(q[2])
  <2>1. q \in Seq({q[1], q[2]}) /\ Len(q) = 2
    OBVIOUS
  <2>2. q[1].name = "accept-charset" /\ q[2].name = "accept-encoding"
    BY DEF Entry
  <2>3. IsEntry(q[1]) /\ IsEntry(q[2])
    BY EveryEntry
  <2> HIDE DEF q
  <2> QED
    BY <2>1, <2>2, <2>3
<1>3. PICK R : r \in Seq(R) /\ Len(r) = 45
              /\ \A i \in 1 .. 45 : r[i].name # "connection" /\ IsEntry(r[i])
  <2>1. r = [i \in 1 .. 45 |-> Entry(NameListe[i], "")]
    BY NameEntries
  <2> DEFINE R == {r[i] : i \in 1 .. 45}
  <2>2. ASSUME NEW i \in 1 .. 45 PROVE r[i].name # "connection" /\ IsEntry(r[i])
    <3>1. r[i] = Entry(NameListe[i], "")
      BY <2>1
    <3>2. \A n : Entry(n, "").name = n
      BY DEF Entry
    <3>3. NameListe[i] # "connection"
      BY NameEntries
    <3> HIDE DEF r
    <3> QED
      BY <3>1, <3>2, <3>3, EveryEntry
  <2>3. r \in Seq(R) /\ Len(r) = 45
    <3>1. r = [i \in 1 .. 45 |-> r[i]]
      BY <2>1
    <3> HIDE DEF r
    <3> QED
      BY <3>1
  <2> HIDE DEF r, R
  <2> QED
    BY <2>2, <2>3
<1> DEFINE T == P \cup Q \cup R
           s == p \o q \o r
<1>4. StaticHeaderListe = s
  BY DEF StaticHeaderListe
<1>5. Len(p) = 14 /\ (\A i \in 1 .. 14 : p[i].name \in KnownPseudo /\ IsEntry(p[i]))
      /\ \A name \in KnownPseudo : \E i \in 1 .. 14 : p[i].name = name
  BY PseudoEntries
<1> HIDE DEF p, q, r
<1>6. p \in Seq(T) /\ q \in Seq(T) /\ r \in Seq(T)
  <2>1. P \subseteq T /\ Q \subseteq T /\ R \subseteq T
    OBVIOUS
  <2> HIDE DEF T
  <2> QED
    BY <1>1, <1>2, <1>3, <2>1, SequenceOfMore
<1> HIDE DEF T
<1>7. /\ Len(s) = 61
      /\ \A i \in 1 .. 14 : s[i] = p[i]
      /\ \A i \in 1 .. 2 : s[14 + i] = q[i]
      /\ \A i \in 1 .. 45 : s[16 + i] = r[i]
  <2> DEFINE pq == p \o q
  <2>1. /\ pq \in Seq(T) /\ Len(pq) = Len(p) + Len(q)
        /\ \A i \in 1 .. Len(p) : pq[i] = p[i]
        /\ \A i \in 1 .. Len(q) : pq[Len(p) + i] = q[i]
    BY <1>6, Concatenated
  <2> HIDE DEF pq
  <2> DEFINE u == pq \o r
  <2>2. /\ Len(u) = Len(pq) + Len(r)
        /\ \A i \in 1 .. Len(pq) : u[i] = pq[i]
        /\ \A i \in 1 .. Len(r) : u[Len(pq) + i] = r[i]
    <3>1. pq \in Seq(T) /\ r \in Seq(T)
      BY <1>6, <2>1
    <3> QED
      BY <3>1, Concatenated
  <2>3. s = u
    BY DEF pq
  <2> HIDE DEF u, s
  <2>4. Len(p) = 14 /\ Len(q) = 2 /\ Len(r) = 45 /\ Len(pq) = 16
    BY <1>2, <1>3, <1>5, <2>1
  <2> DEFINE a == Len(p)
             b == Len(q)
             c == Len(pq)
  <2>a. a \in Nat /\ b \in Nat /\ c = a + b
    BY <2>1, <2>4
  <2>b. /\ \A i \in 1 .. a : pq[i] = p[i]
        /\ \A i \in 1 .. b : pq[a + i] = q[i]
        /\ \A i \in 1 .. c : s[i] = pq[i]
    BY <2>1, <2>2, <2>3
  <2> HIDE DEF a, b, c
  <2>5. \A i \in 1 .. a : i \in 1 .. c /\ s[i] = p[i]
    BY <2>a, <2>b
  <2>6. \A i \in 1 .. b : a + i \in 1 .. c /\ s[a + i] = q[i]
    BY <2>a, <2>b
  <2> USE DEF a, b, c
  <2> QED
    BY <2>2, <2>3, <2>4, <2>5, <2>6
<1> HIDE DEF s
<1>8. Statics = 61
  BY <1>4, <1>7 DEF Statics
<1>9. ASSUME NEW i \in 1 .. 61 PROVE s[i].name # "connection" /\ IsEntry(s[i])
  <2>1. CASE i <= 14
    <3>1. s[i].name \in KnownPseudo /\ IsEntry(s[i])
      BY <1>5, <1>7, <2>1
    <3> QED
      BY <3>1 DEF KnownPseudo
  <2>2. CASE 14 < i /\ i <= 16
    <3>1. i - 14 \in 1 .. 2 /\ 14 + (i - 14) = i
      BY <2>2
    <3>2. s[i] = q[i - 14] /\ (i - 14 = 1 \/ i - 14 = 2)
      BY <1>7, <3>1
    <3> QED
      BY <1>2, <3>2
  <2>3. CASE 16 < i
    <3> DEFINE j == i - 16
    <3>1. j \in 1 .. 45 /\ 16 + j = i
      BY <2>3
    <3> HIDE DEF j
    <3>2. s[i] = r[j]
      BY <1>7, <3>1
    <3> QED
      BY <1>3, <3>1, <3>2
  <2> QED
    BY <2>1, <2>2, <2>3
<1>10. /\ \A i \in 1 .. 14 : s[i].name \in KnownPseudo
       /\ \A name \in KnownPseudo : \E i \in 1 .. 14 : s[i].name = name
  BY <1>5, <1>7
<1> QED
  BY <1>4, <1>8, <1>9, <1>10

-----------------------------------------------------------------------------
(* Functions defined by recursion; integers and strings *)

\* The order of the natural numbers, as a relation.
LessThan == {ss \in Nat \X Nat : ss[1] < ss[2]}

\* A set of numbers that is not empty has a smallest.
LEMMA Smallest ==
  ASSUME NEW S \in SUBSET Nat, S # {}
  PROVE  \E m \in S : \A x \in S : m <= x
<1>1. IsWellFoundedOn(LessThan, Nat)
  <2>1. LessThan = OpToRel(<, Nat)
    BY DEF LessThan, OpToRel
  <2> QED
    BY <2>1, NatLessThanWellFounded
<1>2. PICK m \in S : \A x \in S : <<x, m>> \in LessThan => x \notin S
  BY <1>1, WFMin
<1>3. ASSUME NEW x \in S PROVE m <= x
  <2>1. <<x, m>> \notin LessThan
    BY <1>2
  <2>2. x \in Nat /\ m \in Nat /\ <<x, m>> \in Nat \X Nat
    OBVIOUS
  <2>3. ~(x < m)
    BY <2>1, <2>2 DEF LessThan
  <2> QED
    BY <2>2, <2>3
<1> QED
  BY <1>3

\* What 0 is in, and with each number the next, every number is in.
LEMMA CountUp ==
  ASSUME NEW P, 0 \in P, \A i \in Nat : i \in P => i + 1 \in P
  PROVE  Nat \subseteq P
<1> DEFINE T == Nat \ P
<1> SUFFICES ASSUME T # {} PROVE FALSE
  OBVIOUS
<1>1. PICK m \in T : \A x \in T : m <= x
  <2>1. T \in SUBSET Nat
    OBVIOUS
  <2> HIDE DEF T
  <2> QED
    BY <2>1, Smallest
<1>2. m # 0 /\ m - 1 \in Nat
  BY <1>1
<1>3. m - 1 \in P
  BY <1>1, <1>2
<1>4. (m - 1) + 1 \in P
  BY <1>2, <1>3
<1> QED
  BY <1>1, <1>4

\* One step of a recursion over D: stop has the elements that need no other, before the
\* one that another needs, and step what is made of its value.
Body(stop, base, before, step, f, x) ==
  IF x \in stop THEN base[x] ELSE step[x][f[before[x]]]

\* The element that another needs comes before it.
Descending(D, V, stop, rank, base, before, step) ==
  /\ stop \in SUBSET D /\ rank \in [D -> Nat]
  /\ base \in [D -> V] /\ before \in [D -> D] /\ step \in [D -> [V -> V]]
  /\ \A x \in D \ stop : rank[before[x]] < rank[x]

\* Then there is such a function.
LEMMA Recursion ==
  ASSUME NEW D, NEW V, NEW stop, NEW rank, NEW base, NEW before, NEW step,
         Descending(D, V, stop, rank, base, before, step)
  PROVE  \E f \in [D -> V] : \A x \in D : f[x] = Body(stop, base, before, step, f, x)
<1>s. /\ stop \in SUBSET D /\ rank \in [D -> Nat]
      /\ base \in [D -> V] /\ before \in [D -> D] /\ step \in [D -> [V -> V]]
      /\ \A x \in D \ stop : rank[before[x]] < rank[x]
  BY DEF Descending
<1> USE <1>s
<1> DEFINE B(f, x) == Body(stop, base, before, step, f, x)
           Upto(f, n) == f \in [D -> V] /\ \A x \in D : rank[x] < n => f[x] = B(f, x)
<1>0. \A f \in [D -> V] : \A x \in D : B(f, x) \in V
  BY DEF Body
<1>1. \A f, g : \A x \in D : (x \notin stop => f[before[x]] = g[before[x]]) => B(f, x) = B(g, x)
  BY DEF Body
<1> HIDE DEF B
<1>2. \A n \in Nat : \E f : Upto(f, n)
  <2> DEFINE P == {n \in Nat : \E f : Upto(f, n)}
  <2>1. 0 \in P
    <3>1. Upto(base, 0)
      OBVIOUS
    <3> HIDE DEF Upto
    <3> QED
      BY <3>1
  <2>2. ASSUME NEW n \in Nat, n \in P PROVE n + 1 \in P
    <3>1. PICK f : Upto(f, n)
      BY <2>2
    <3> DEFINE g == [x \in D |-> IF rank[x] < n THEN f[x] ELSE B(f, x)]
    <3>2. g \in [D -> V]
      BY <1>0, <3>1
    <3>3. ASSUME NEW x \in D, rank[x] < n + 1 PROVE g[x] = B(g, x)
      <4>1. g[x] = B(f, x)
        BY <3>1
      <4>2. x \notin stop => rank[before[x]] < n /\ before[x] \in D
        BY <3>3
      <4>3. x \notin stop => g[before[x]] = f[before[x]]
        BY <4>2
      <4> HIDE DEF g
      <4> QED
        BY <1>1, <4>1, <4>3
    <3> HIDE DEF g
    <3>4. Upto(g, n + 1)
      BY <3>2, <3>3
    <3> HIDE DEF Upto
    <3> QED
      BY <3>4
  <2> HIDE DEF P
  <2>3. Nat \subseteq P
    BY <2>1, <2>2, CountUp
  <2> QED
    BY <2>3 DEF P
<1>3. ASSUME NEW f, NEW g, NEW n \in Nat, NEW m \in Nat, Upto(f, n), Upto(g, m)
      PROVE  \A x \in D : rank[x] < n /\ rank[x] < m => f[x] = g[x]
  <2> DEFINE P == {k \in Nat : \A x \in D : rank[x] < k /\ rank[x] < n /\ rank[x] < m
                                              => f[x] = g[x]}
  <2>1. 0 \in P
    OBVIOUS
  <2>2. ASSUME NEW k \in Nat, k \in P PROVE k + 1 \in P
    <3>1. ASSUME NEW x \in D, rank[x] < k + 1, rank[x] < n, rank[x] < m PROVE f[x] = g[x]
      <4>1. f[x] = B(f, x) /\ g[x] = B(g, x)
        BY <1>3, <3>1
      <4>2. x \notin stop => rank[before[x]] < rank[x] /\ before[x] \in D
        OBVIOUS
      <4>3. x \notin stop => f[before[x]] = g[before[x]]
        <5> SUFFICES ASSUME x \notin stop PROVE f[before[x]] = g[before[x]]
          OBVIOUS
        <5>1. before[x] \in D /\ rank[before[x]] \in Nat /\ rank[x] \in Nat
              /\ rank[before[x]] < rank[x]
          BY <4>2
        <5>2. rank[before[x]] < k /\ rank[before[x]] < n /\ rank[before[x]] < m
          BY <3>1, <5>1
        <5> QED
          BY <2>2, <5>1, <5>2
      <4> QED
        BY <1>1, <4>1, <4>3
    <3> QED
      BY <3>1
  <2> HIDE DEF P
  <2>3. Nat \subseteq P
    BY <2>1, <2>2, CountUp
  <2> USE DEF P
  <2>4. ASSUME NEW x \in D, rank[x] < n, rank[x] < m PROVE f[x] = g[x]
    <3>1. rank[x] \in Nat /\ rank[x] + 1 \in P
      BY <2>3
    <3> QED
      BY <2>4, <3>1
  <2> QED
    BY <2>4
<1> DEFINE A(n) == CHOOSE f : Upto(f, n)
           F == [x \in D |-> A(rank[x] + 1)[x]]
<1>4. \A n \in Nat : Upto(A(n), n)
  <2> HIDE DEF Upto
  <2> QED
    BY <1>2
<1>5. \A n \in Nat : A(n) \in [D -> V]
  BY <1>4
<1>6. ASSUME NEW x \in D PROVE F[x] = B(F, x) /\ F[x] \in V
  <2> DEFINE n == rank[x] + 1
             y == before[x]
             k == rank[y] + 1
  <2>1. n \in Nat /\ k \in Nat /\ y \in D
    OBVIOUS
  <2>2. F[x] = A(n)[x] /\ F[y] = A(k)[y]
    BY <2>1
  <2>3. A(n)[x] = B(A(n), x)
    <3>1. Upto(A(n), n)
      BY <1>4, <2>1
    <3> HIDE DEF A
    <3> QED
      BY <3>1
  <2>4. x \notin stop => A(n)[y] = A(k)[y]
    <3>1. Upto(A(n), n) /\ Upto(A(k), k)
      BY <1>4, <2>1
    <3>2. x \notin stop => rank[y] < n /\ rank[y] < k
      BY <2>1
    <3> HIDE DEF A, Upto, n, k, y
    <3> QED
      BY <1>3, <2>1, <3>1, <3>2
  <2>5. A(n)[x] \in V
    BY <1>5, <2>1
  <2>6. x \notin stop => A(n)[before[x]] = F[before[x]]
    BY <2>2, <2>4
  <2> HIDE DEF A, F, n, k, y
  <2> QED
    BY <1>1, <2>2, <2>3, <2>5, <2>6
<1>7. F \in [D -> V]
  <2>1. F = [x \in D |-> F[x]]
    OBVIOUS
  <2> HIDE DEF F
  <2> QED
    BY <1>6, <2>1
<1> HIDE DEF F
<1> QED
  BY <1>6, <1>7 DEF B

-----------------------------------------------------------------------------
(* Integers *)

\* Septets is what its definition says.
LEMMA SeptetsRead ==
  \A n \in Nat : /\ Septets[n] \in Seq(Nat)
                 /\ Septets[n] = IF n > 127 THEN <<(n % 128) + 128>> \o Septets[n \div 128]
                                  ELSE <<n>>
<1> DEFINE stop == {n \in Nat : n <= 127}
           rank == [n \in Nat |-> n]
           base == [n \in Nat |-> <<n>>]
           before == [n \in Nat |-> n \div 128]
           step == [n \in Nat |-> [s \in Seq(Nat) |-> <<(n % 128) + 128>> \o s]]
           Is(f) == f = [n \in Nat |-> IF n > 127 THEN <<(n % 128) + 128>> \o f[n \div 128]
                                       ELSE <<n>>]
<1>1. PICK f \in [Nat -> Seq(Nat)] :
        \A n \in Nat : f[n] = Body(stop, base, before, step, f, n)
  <2>1. /\ stop \in SUBSET Nat /\ rank \in [Nat -> Nat] /\ base \in [Nat -> Seq(Nat)]
        /\ before \in [Nat -> Nat]
    OBVIOUS
  <2>2. step \in [Nat -> [Seq(Nat) -> Seq(Nat)]]
    <3>1. \A n \in Nat : (n % 128) + 128 \in Nat
      OBVIOUS
    <3>2. ASSUME NEW n \in Nat, NEW s \in Seq(Nat)
          PROVE  <<(n % 128) + 128>> \o s \in Seq(Nat)
      <4> DEFINE a == (n % 128) + 128
      <4>1. a \in Nat
        BY <3>1
      <4> HIDE DEF a
      <4>2. <<a>> \in Seq(Nat)
        BY <4>1
      <4>3. <<a>> \o s \in Seq(Nat)
        BY <4>2
      <4> QED
        BY <4>3 DEF a
    <3> QED
      BY <3>2
  <2>3. \A n \in Nat \ stop : rank[before[n]] < rank[n]
    OBVIOUS
  <2> HIDE DEF stop, rank, base, before, step
  <2>4. Descending(Nat, Seq(Nat), stop, rank, base, before, step)
    BY <2>1, <2>2, <2>3 DEF Descending
  <2> DEFINE D == Nat
             V == Seq(Nat)
  <2>5. Descending(D, V, stop, rank, base, before, step)
    BY <2>4
  <2> HIDE DEF D, V
  <2>6. \E f \in [D -> V] : \A x \in D : f[x] = Body(stop, base, before, step, f, x)
    BY <2>5, Recursion
  <2> QED
    BY <2>6 DEF D, V
<1>2. Is(f)
  <2>1. ASSUME NEW n \in Nat
        PROVE  f[n] = IF n > 127 THEN <<(n % 128) + 128>> \o f[n \div 128] ELSE <<n>>
    <3>1. n \in stop <=> ~(n > 127)
      OBVIOUS
    <3>2. base[n] = <<n>> /\ before[n] = n \div 128 /\ n \div 128 \in Nat
      OBVIOUS
    <3>3. f[n \div 128] \in Seq(Nat)
      BY <1>1, <3>2
    <3>4. step[n][f[n \div 128]] = <<(n % 128) + 128>> \o f[n \div 128]
      BY <3>3
    <3> HIDE DEF stop, base, before, step
    <3> QED
      BY <1>1, <3>1, <3>2, <3>4 DEF Body
  <2>2. f = [n \in Nat |-> f[n]]
    BY <1>1
  <2> QED
    BY <2>1, <2>2
<1>3. Septets = CHOOSE g : Is(g)
  BY DEF Septets
<1> HIDE DEF Is
<1>4. Is(Septets)
  BY <1>2, <1>3
<1> USE DEF Is
<1>5. \A n \in Nat : Septets[n] = IF n > 127 THEN <<(n % 128) + 128>> \o Septets[n \div 128]
                                  ELSE <<n>>
  BY <1>4
<1> DEFINE P == {k \in Nat : \A n \in Nat : n < k => Septets[n] \in Seq(Nat)}
<1>6. 0 \in P
  OBVIOUS
<1>7. ASSUME NEW k \in Nat, k \in P PROVE k + 1 \in P
  <2>1. ASSUME NEW n \in Nat, n < k + 1 PROVE Septets[n] \in Seq(Nat)
    <3>1. CASE n > 127
      <4> DEFINE m == n \div 128
                 a == (n % 128) + 128
                 t == Septets[m]
      <4>1. m \in Nat /\ m < k /\ a \in Nat
        BY <2>1, <3>1
      <4>2. Septets[n] = <<a>> \o t
        BY <1>5, <3>1
      <4>3. t \in Seq(Nat)
        BY <1>7, <4>1
      <4> HIDE DEF m, a, t
      <4>4. <<a>> \in Seq(Nat)
        BY <4>1
      <4>5. <<a>> \o t \in Seq(Nat)
        BY <4>3, <4>4
      <4> QED
        BY <4>2, <4>5
    <3>2. CASE ~(n > 127)
      <4>1. <<n>> \in Seq(Nat)
        OBVIOUS
      <4> QED
        BY <1>5, <3>2, <4>1
    <3> QED
      BY <3>1, <3>2
  <2> QED
    BY <2>1
<1> HIDE DEF P
<1>8. Nat \subseteq P
  BY <1>6, <1>7, CountUp
<1>9. \A n \in Nat : Septets[n] \in Seq(Nat)
  <2> TAKE n \in Nat
  <2>1. n + 1 \in P /\ n < n + 1
    BY <1>8
  <2> QED
    BY <2>1 DEF P
<1> QED
  BY <1>5, <1>9

\* And so is DecodeInteger.
LEMMA DecodeIntegerRead ==
  \A s \in Seq(Nat) :
    DecodeInteger[s] = IF s = <<>> THEN 0
                       ELSE (Head(s) % 128)
                            + IF Head(s) < 128 THEN 0 ELSE 128 * DecodeInteger[Tail(s)]
<1> DEFINE D == Seq(Nat)
           stop == {s \in D : s = <<>> \/ Head(s) < 128}
           rank == [s \in D |-> Len(s)]
           base == [s \in D |-> IF s = <<>> THEN 0 ELSE Head(s) % 128]
           before == [s \in D |-> IF s = <<>> THEN s ELSE Tail(s)]
           step == [s \in D |-> [v \in Nat |-> IF s = <<>> THEN 0
                                              ELSE (Head(s) % 128) + 128 * v]]
           Is(f) == f = [s \in D |-> IF s = <<>> THEN 0
                                     ELSE (Head(s) % 128)
                                          + IF Head(s) < 128 THEN 0 ELSE 128 * f[Tail(s)]]
<1>0. \A s \in D : s # <<>> => Head(s) \in Nat /\ Tail(s) \in D /\ Len(Tail(s)) < Len(s)
  OBVIOUS
<1>1. PICK f \in [D -> Nat] :
        \A s \in D : f[s] = Body(stop, base, before, step, f, s)
  <2>1. stop \in SUBSET D /\ rank \in [D -> Nat]
    OBVIOUS
  <2>2. base \in [D -> Nat]
    <3>1. \A s \in D : s # <<>> => Head(s) % 128 \in Nat
      BY <1>0
    <3> HIDE DEF D
    <3> QED
      BY <3>1
  <2>3. before \in [D -> D]
    <3> HIDE DEF D
    <3> QED
      BY <1>0
  <2>4. step \in [D -> [Nat -> Nat]]
    <3>1. \A s \in D : s # <<>> => Head(s) % 128 \in Nat
      BY <1>0
    <3>2. \A a, v \in Nat : a + 128 * v \in Nat
      OBVIOUS
    <3>3. ASSUME NEW s \in D, NEW v \in Nat
          PROVE  (IF s = <<>> THEN 0 ELSE (Head(s) % 128) + 128 * v) \in Nat
      BY <3>1, <3>2
    <3> HIDE DEF D
    <3> QED
      BY <3>3
  <2>5. \A s \in D \ stop : rank[before[s]] < rank[s]
    BY <1>0
  <2> HIDE DEF D, stop, rank, base, before, step
  <2>6. Descending(D, Nat, stop, rank, base, before, step)
    BY <2>1, <2>2, <2>3, <2>4, <2>5 DEF Descending
  <2> QED
    BY <2>6, Recursion
<1> HIDE DEF D
<1>2. Is(f)
  <2>1. ASSUME NEW s \in D
        PROVE  f[s] = IF s = <<>> THEN 0
                      ELSE (Head(s) % 128) + IF Head(s) < 128 THEN 0 ELSE 128 * f[Tail(s)]
    <3>1. CASE s = <<>>
      <4>1. s \in stop /\ base[s] = 0
        BY <3>1
      <4> HIDE DEF stop, base, before, step
      <4> QED
        BY <1>1, <3>1, <4>1 DEF Body
    <3>2. CASE s # <<>> /\ Head(s) < 128
      <4>1. s \in stop /\ base[s] = Head(s) % 128
        BY <3>2
      <4>2. base[s] = base[s] + 0
        BY <1>0, <3>2, <4>1
      <4> HIDE DEF stop, base, before, step
      <4> QED
        BY <1>1, <3>2, <4>1, <4>2 DEF Body
    <3>3. CASE s # <<>> /\ ~(Head(s) < 128)
      <4>1. s \notin stop /\ before[s] = Tail(s) /\ f[Tail(s)] \in Nat
        BY <1>0, <1>1, <3>3
      <4>2. step[s][f[Tail(s)]] = (Head(s) % 128) + 128 * f[Tail(s)]
        BY <3>3, <4>1
      <4> HIDE DEF stop, base, before, step
      <4> QED
        BY <1>1, <3>3, <4>1, <4>2 DEF Body
    <3> QED
      BY <3>1, <3>2, <3>3
  <2>2. f = [s \in D |-> f[s]]
    BY <1>1
  <2> QED
    BY <2>1, <2>2
<1>3. DecodeInteger = CHOOSE g : Is(g)
  BY DEF DecodeInteger, D
<1> HIDE DEF Is
<1>4. Is(DecodeInteger)
  BY <1>2, <1>3
<1> QED
  BY <1>4 DEF Is, D

\* The octets of a number are read as that number.
LEMMA IntegerRead == \A n \in Nat : DecodeInteger[Septets[n]] = n
<1> DEFINE P == {k \in Nat : \A n \in Nat : n < k => DecodeInteger[Septets[n]] = n}
<1>1. 0 \in P
  OBVIOUS
<1>2. ASSUME NEW k \in Nat, k \in P PROVE k + 1 \in P
  <2>1. ASSUME NEW n \in Nat, n < k + 1 PROVE DecodeInteger[Septets[n]] = n
    <3>1. CASE n > 127
      <4> DEFINE m == n \div 128
                 a == (n % 128) + 128
                 t == Septets[m]
                 s == Septets[n]
      <4>1. m \in Nat /\ m < k /\ a \in Nat /\ ~(a < 128) /\ a % 128 = n % 128
            /\ (n % 128) + 128 * m = n
        BY <2>1, <3>1
      <4>2. s = <<a>> \o t /\ t \in Seq(Nat) /\ s \in Seq(Nat)
        BY <3>1, <4>1, SeptetsRead
      <4>3. DecodeInteger[t] = m
        BY <1>2, <4>1
      <4> HIDE DEF m, a, t, s
      <4>4. <<a>> \in Seq(Nat)
        BY <4>1
      <4>5. s # <<>> /\ Head(s) = a /\ Tail(s) = t
        BY <4>1, <4>2, <4>4
      <4>6. DecodeInteger[s] = (a % 128) + 128 * m
        BY <4>1, <4>2, <4>3, <4>5, DecodeIntegerRead, ZenonT(40)
      <4> QED
        BY <4>1, <4>6 DEF s
    <3>2. CASE ~(n > 127)
      <4> DEFINE s == <<n>>
      <4>1. s \in Seq(Nat) /\ s # <<>> /\ Head(s) = n /\ n < 128
        BY <3>2
      <4>2. Septets[n] = s
        BY <3>2, SeptetsRead
      <4> HIDE DEF s
      <4>3. DecodeInteger[s] = (n % 128) + 0
        BY <4>1, DecodeIntegerRead
      <4> QED
        BY <4>1, <4>2, <4>3, SMTT(30)
    <3> QED
      BY <3>1, <3>2
  <2> QED
    BY <2>1
<1> HIDE DEF P
<1>3. Nat \subseteq P
  BY <1>1, <1>2, CountUp
<1> USE DEF P
<1> TAKE n \in Nat
<1>4. n + 1 \in P /\ n < n + 1
  BY <1>3
<1> QED
  BY <1>4

\* An index or a size is read as it was written, whatever its prefix leaves.
LEMMA IndexRead ==
  ASSUME NEW i \in Nat, NEW mask \in Nat
  PROVE  DecodeIndex(EncodeInteger(i, mask), mask) = i
<1>1. CASE i < mask
  BY <1>1 DEF DecodeIndex, EncodeInteger
<1>2. CASE ~(i < mask)
  <2> DEFINE n == i - mask
             t == Septets[n]
             s == <<mask>> \o t
  <2>1. n \in Nat /\ mask + n = i
    BY <1>2
  <2>2. EncodeInteger(i, mask) = s
    BY <1>2 DEF EncodeInteger
  <2>3. t \in Seq(Nat) /\ DecodeInteger[t] = n
    BY <2>1, SeptetsRead, IntegerRead
  <2> HIDE DEF n, t
  <2>4. <<mask>> \in Seq(Nat)
    OBVIOUS
  <2>5. s[1] = mask /\ Tail(s) = t
    BY <2>3, <2>4
  <2> HIDE DEF s
  <2> QED
    BY <2>1, <2>2, <2>3, <2>5 DEF DecodeIndex
<1> QED
  BY <1>1, <1>2

-----------------------------------------------------------------------------
(* Huffman codes *)

\* What HufmanDecode reads, and what it yields.
Bits == Seq({0, 1})
Read == [text : Seq(DOMAIN HUFFCODES), valid : BOOLEAN]

\* What is looked at in bits that are not at their end.
IsLast(bits) == Len(bits) <= 8 /\ AllOnes(bits)
Ends(bits) == Len(bits) < 5 \/ IsLast(bits) \/ Codes(bits) = {}
Found(bits) ==
  CHOOSE c \in Codes(bits) : \A d \in Codes(bits) : Len(HUFFCODES[c]) <= Len(HUFFCODES[d])
Rest(bits) == SubSeq(bits, Len(HUFFCODES[Found(bits)]) + 1, Len(bits))

\* A code that is found is one of at least 5 bits, with which the bits begin.
LEMMA CodesFound ==
  ASSUME NEW bits \in Bits, NEW c \in Codes(bits)
  PROVE  /\ c \in DOMAIN HUFFCODES /\ HUFFCODES[c] \in Bits
         /\ 5 <= Len(HUFFCODES[c]) /\ Len(HUFFCODES[c]) <= Len(bits)
         /\ \A i \in 1 .. Len(HUFFCODES[c]) : HUFFCODES[c][i] = bits[i]
<1> DEFINE u == HUFFCODES[c]
<1>1. c \in DOMAIN HUFFCODES /\ Len(u) \in BITNUMBERS /\ IsPrefix(u, bits)
  BY DEF Codes
<1>2. u \in Bits
  BY <1>1, HpackAssumption DEF Bits
<1> HIDE DEF u
<1>3. Len(u) \in Nat /\ Len(u) >= 5
  <2>1. \A n \in BITNUMBERS : n \in Nat /\ n >= 5
    BY DEF BITNUMBERS
  <2> QED
    BY <1>1, <2>1
<1>4. Len(u) <= Len(bits) /\ SubSeq(u, 1, Len(u)) = SubSeq(bits, 1, Len(u))
  BY <1>1 DEF IsPrefix
<1>5. ASSUME NEW i \in 1 .. Len(u) PROVE u[i] = bits[i]
  <2>1. SubSeq(u, 1, Len(u))[i] = u[i]
    BY <1>2, <1>3
  <2>2. SubSeq(bits, 1, Len(u))[i] = bits[i]
    BY <1>3, <1>4 DEF Bits
  <2> QED
    BY <1>4, <2>1, <2>2
<1> QED
  BY <1>1, <1>2, <1>3, <1>4, <1>5 DEF u

\* No bits begin with two codes.
LEMMA OneCode ==
  ASSUME NEW bits \in Bits, NEW c \in Codes(bits), NEW d \in Codes(bits)
  PROVE  c = d
<1>1. ASSUME NEW e \in Codes(bits), NEW g \in Codes(bits),
             Len(HUFFCODES[e]) <= Len(HUFFCODES[g])
      PROVE  e = g
  <2> DEFINE u == HUFFCODES[e]
             w == HUFFCODES[g]
  <2>1. /\ e \in DOMAIN HUFFCODES /\ u \in Bits /\ Len(u) <= Len(bits)
        /\ \A i \in 1 .. Len(u) : u[i] = bits[i]
    BY CodesFound
  <2>2. /\ g \in DOMAIN HUFFCODES /\ w \in Bits /\ Len(w) <= Len(bits)
        /\ \A i \in 1 .. Len(w) : w[i] = bits[i]
    BY CodesFound
  <2>3. Len(u) <= Len(w)
    BY <1>1
  <2> HIDE DEF u, w
  <2>4. SubSeq(u, 1, Len(u)) = SubSeq(w, 1, Len(u))
    <3> DEFINE n == Len(u)
               p == SubSeq(u, 1, n)
               q == SubSeq(w, 1, n)
    <3>1. n \in Nat /\ n <= Len(w) /\ Len(w) \in Nat
      BY <2>1, <2>2, <2>3 DEF Bits
    <3>2. p \in Bits /\ Len(p) = n /\ \A i \in 1 .. n : p[i] = u[i]
      BY <2>1, <3>1 DEF Bits
    <3>3. q \in Bits /\ Len(q) = n /\ \A i \in 1 .. n : q[i] = w[i]
      BY <2>2, <3>1 DEF Bits
    <3>4. \A i \in 1 .. n : p[i] = q[i]
      BY <2>1, <2>2, <3>1, <3>2, <3>3
    <3> HIDE DEF p, q, n
    <3> QED
      BY <3>1, <3>2, <3>3, <3>4 DEF Bits, n, p, q
  <2>5. IsPrefix(u, w)
    BY <2>3, <2>4 DEF IsPrefix
  <2> QED
    BY <2>1, <2>2, <2>5, HpackAssumption DEF u, w
<1>2. Len(HUFFCODES[c]) \in Nat /\ Len(HUFFCODES[d]) \in Nat
  BY CodesFound DEF Bits
<1> QED
  BY <1>1, <1>2

\* The code that the bits begin with is the one that is found.
LEMMA FoundCode ==
  ASSUME NEW bits \in Bits, NEW c \in Codes(bits)
  PROVE  Found(bits) = c
<1>1. \A d \in Codes(bits) : d = c
  BY OneCode
<1>2. Len(HUFFCODES[c]) \in Nat
  BY CodesFound DEF Bits
<1>3. \A d \in Codes(bits) : Len(HUFFCODES[c]) <= Len(HUFFCODES[d])
  BY <1>1, <1>2
<1>4. Found(bits) \in Codes(bits)
  BY <1>3 DEF Found
<1> QED
  BY <1>1, <1>4

\* What is left is shorter.
LEMMA RestShorter ==
  ASSUME NEW bits \in Bits, Codes(bits) # {}
  PROVE  /\ Found(bits) \in DOMAIN HUFFCODES
         /\ Rest(bits) \in Bits /\ Len(Rest(bits)) < Len(bits)
<1>1. PICK c \in Codes(bits) : TRUE
  OBVIOUS
<1>2. Found(bits) = c /\ c \in DOMAIN HUFFCODES
  BY FoundCode, CodesFound
<1>3. /\ Len(HUFFCODES[c]) \in Nat /\ 5 <= Len(HUFFCODES[c])
      /\ Len(HUFFCODES[c]) <= Len(bits) /\ Len(bits) \in Nat
  BY CodesFound DEF Bits
<1> DEFINE k == Len(HUFFCODES[c])
<1>4. Rest(bits) = SubSeq(bits, k + 1, Len(bits))
  BY <1>2 DEF Rest
<1>5. k \in Nat /\ 5 <= k /\ k <= Len(bits) /\ Len(bits) \in Nat
  BY <1>3
<1> HIDE DEF k
<1>6. SubSeq(bits, k + 1, Len(bits)) \in Bits
  BY <1>5 DEF Bits
<1>7. Len(SubSeq(bits, k + 1, Len(bits))) < Len(bits)
  BY <1>5 DEF Bits
<1> QED
  BY <1>2, <1>4, <1>6, <1>7

\* The text with one more character before it.
Behind(c, read) == [read EXCEPT !.text = <<c>> \o @]

\* Behind puts a character before what was read.
LEMMA BehindRead ==
  ASSUME NEW c \in DOMAIN HUFFCODES, NEW read \in Read
  PROVE  /\ Behind(c, read) \in Read
         /\ Behind(c, read).text = <<c>> \o read.text
         /\ Behind(c, read).valid = read.valid
<1> DEFINE t == <<c>> \o read.text
<1>1. read = [text |-> read.text, valid |-> read.valid]
      /\ read.text \in Seq(DOMAIN HUFFCODES) /\ read.valid \in BOOLEAN
  BY DEF Read
<1>2. <<c>> \in Seq(DOMAIN HUFFCODES)
  OBVIOUS
<1>3. t \in Seq(DOMAIN HUFFCODES)
  BY <1>1, <1>2
<1>4. Behind(c, read) = [read EXCEPT !.text = t]
  BY DEF Behind
<1> HIDE DEF t
<1>5. Behind(c, read) = [text |-> t, valid |-> read.valid]
  BY <1>1, <1>4
<1>6. Behind(c, read).text = t /\ Behind(c, read).valid = read.valid
  BY <1>5
<1>7. Behind(c, read) \in Read
  BY <1>1, <1>3, <1>5 DEF Read
<1> QED
  BY <1>6, <1>7 DEF t

\* HufmanDecode is what its definition says.
LEMMA HufmanRead ==
  \A bits \in Bits :
    /\ HufmanDecode[bits] \in Read
    /\ HufmanDecode[bits] = IF Ends(bits) THEN [text |-> <<>>, valid |-> IsLast(bits)]
                            ELSE Behind(Found(bits), HufmanDecode[Rest(bits)])
<1> DEFINE stop == {b \in Bits : Ends(b)}
           rank == [b \in Bits |-> Len(b)]
           base == [b \in Bits |-> [text |-> <<>>, valid |-> IsLast(b)]]
           before == [b \in Bits |-> IF Ends(b) THEN b ELSE Rest(b)]
           step == [b \in Bits |-> [v \in Read |-> IF Ends(b) THEN v ELSE Behind(Found(b), v)]]
           Next1(f, b) == IF Ends(b) THEN [text |-> <<>>, valid |-> IsLast(b)]
                          ELSE Behind(Found(b), f[Rest(b)])
           Is(f) == f = [b \in Bits |-> Next1(f, b)]
<1>0. \A b \in Bits : ~Ends(b) => Codes(b) # {}
  BY DEF Ends
<1>1. PICK f \in [Bits -> Read] : \A b \in Bits : f[b] = Body(stop, base, before, step, f, b)
  <2>1. stop \in SUBSET Bits
    OBVIOUS
  <2>2. rank \in [Bits -> Nat]
    BY DEF Bits
  <2>3. base \in [Bits -> Read]
    <3>1. <<>> \in Seq(DOMAIN HUFFCODES)
      OBVIOUS
    <3>2. \A b \in Bits : IsLast(b) \in BOOLEAN
      BY DEF IsLast, AllOnes
    <3>3. \A b \in Bits : [text |-> <<>>, valid |-> IsLast(b)] \in Read
      BY <3>1, <3>2 DEF Read
    <3> QED
      BY <3>3
  <2>4. before \in [Bits -> Bits]
    <3>1. \A b \in Bits : ~Ends(b) => Rest(b) \in Bits
      BY <1>0, RestShorter
    <3> QED
      BY <3>1
  <2>5. step \in [Bits -> [Read -> Read]]
    <3>1. ASSUME NEW b \in Bits, NEW v \in Read, ~Ends(b) PROVE Behind(Found(b), v) \in Read
      <4>1. Found(b) \in DOMAIN HUFFCODES
        BY <1>0, <3>1, RestShorter
      <4> QED
        BY <4>1, BehindRead
    <3> QED
      BY <3>1
  <2>6. \A b \in Bits \ stop : rank[before[b]] < rank[b]
    <3> TAKE b \in Bits \ stop
    <3>1. ~Ends(b) /\ Rest(b) \in Bits /\ Len(Rest(b)) < Len(b)
      BY <1>0, RestShorter
    <3> QED
      BY <3>1
  <2> HIDE DEF stop, rank, base, before, step
  <2>7. Descending(Bits, Read, stop, rank, base, before, step)
    BY <2>1, <2>2, <2>3, <2>4, <2>5, <2>6 DEF Descending
  <2> QED
    BY <2>7, Recursion
<1>2. Is(f)
  <2>1. ASSUME NEW b \in Bits PROVE f[b] = Next1(f, b)
    <3>1. CASE Ends(b)
      <4>1. b \in stop /\ base[b] = [text |-> <<>>, valid |-> IsLast(b)]
        BY <3>1
      <4> HIDE DEF stop, base, before, step
      <4> QED
        BY <1>1, <3>1, <4>1 DEF Body
    <3>2. CASE ~Ends(b)
      <4>1. Rest(b) \in Bits
        BY <1>0, <3>2, RestShorter
      <4>2. f[Rest(b)] \in Read
        BY <1>1, <4>1
      <4>3. b \notin stop /\ before[b] = Rest(b)
            /\ step[b][f[Rest(b)]] = Behind(Found(b), f[Rest(b)])
        BY <3>2, <4>2
      <4> HIDE DEF stop, base, before, step
      <4> QED
        BY <1>1, <3>2, <4>3 DEF Body
    <3> QED
      BY <3>1, <3>2
  <2>2. f = [b \in Bits |-> f[b]]
    BY <1>1
  <2> HIDE DEF Next1
  <2> QED
    BY <2>1, <2>2
<1>3. HufmanDecode = CHOOSE g : Is(g)
  BY DEF HufmanDecode, Bits, Ends, IsLast, Found, Rest, Behind
<1> HIDE DEF Is
<1>4. Is(HufmanDecode)
  BY <1>2, <1>3
<1> USE DEF Is
<1>5. \A b \in Bits : HufmanDecode[b] = Next1(HufmanDecode, b)
  BY <1>4
<1> DEFINE P == {k \in Nat : \A b \in Bits : Len(b) < k => HufmanDecode[b] \in Read}
<1>6. 0 \in P
  BY DEF Bits
<1>7. ASSUME NEW k \in Nat, k \in P PROVE k + 1 \in P
  <2>1. ASSUME NEW b \in Bits, Len(b) < k + 1 PROVE HufmanDecode[b] \in Read
    <3>1. CASE Ends(b)
      <4>1. <<>> \in Seq(DOMAIN HUFFCODES) /\ IsLast(b) \in BOOLEAN
        BY DEF IsLast, AllOnes
      <4>2. [text |-> <<>>, valid |-> IsLast(b)] \in Read
        BY <4>1 DEF Read
      <4> QED
        BY <1>5, <3>1, <4>2
    <3>2. CASE ~Ends(b)
      <4>1. Found(b) \in DOMAIN HUFFCODES /\ Rest(b) \in Bits /\ Len(Rest(b)) < Len(b)
        BY <1>0, <3>2, RestShorter
      <4>2. Len(Rest(b)) < k
        BY <2>1, <4>1 DEF Bits
      <4>3. HufmanDecode[Rest(b)] \in Read
        BY <1>7, <4>1, <4>2
      <4>4. Behind(Found(b), HufmanDecode[Rest(b)]) \in Read
        BY <4>1, <4>3, BehindRead
      <4> QED
        BY <1>5, <3>2, <4>4
    <3> QED
      BY <3>1, <3>2
  <2> QED
    BY <2>1
<1> HIDE DEF P
<1>8. Nat \subseteq P
  BY <1>6, <1>7, CountUp
<1>9. \A b \in Bits : HufmanDecode[b] \in Read
  <2> TAKE b \in Bits
  <2>1. Len(b) \in Nat
    BY DEF Bits
  <2>2. Len(b) + 1 \in P /\ Len(b) < Len(b) + 1
    BY <1>8, <2>1
  <2> QED
    BY <2>2 DEF P
<1> QED
  BY <1>5, <1>9

\* The first boxes joined, the first two and so on to all of them: the function in
\* FlattenSeq.
Joining(J, F) ==
  /\ J[0] = <<>>
  /\ \A i \in 1 .. Len(F) : J[i] = J[i - 1] \o F[i]

\* FlattenSeq joins one sequence after the other.
LEMMA Flattened ==
  ASSUME NEW T, NEW F \in Seq(Seq(T))
  PROVE  \E J \in [0 .. Len(F) -> Seq(T)] : Joining(J, F) /\ FlattenSeq(F) = J[Len(F)]
<1> DEFINE n == Len(F)
           V == Seq(T)
<1>0. n \in Nat /\ F \in [1 .. n -> V] /\ <<>> \in V
  OBVIOUS
<1>1. CASE n = 0
  <2>1. FlattenSeq(F) = <<>>
    <3>1. F = <<>>
      BY <1>1
    <3> QED
      BY <3>1 DEF FlattenSeq
  <2> DEFINE J == [i \in 0 .. n |-> <<>>]
  <2>2. J \in [0 .. n -> V] /\ J[0] = <<>> /\ J[n] = <<>>
    BY <1>0, <1>1
  <2>3. 1 .. n = {}
    BY <1>1
  <2> HIDE DEF J, n, V
  <2>4. Joining(J, F)
    BY <2>2, <2>3 DEF Joining, n
  <2> QED
    BY <2>1, <2>2, <2>4 DEF n, V
<1>2. CASE n # 0
  <2> DEFINE D == 1 .. n
             stop == {1}
             rank == [i \in D |-> i]
             base == [i \in D |-> F[i]]
             before == [i \in D |-> IF i = 1 THEN 1 ELSE i - 1]
             step == [i \in D |-> [v \in V |-> v \o F[i]]]
             Next1(f, i) == IF i = 1 THEN F[i] ELSE f[i - 1] \o F[i]
             Is(f) == f = [i \in D |-> Next1(f, i)]
  <2>1. PICK f \in [D -> V] : \A i \in D : f[i] = Body(stop, base, before, step, f, i)
    <3>1. stop \in SUBSET D /\ rank \in [D -> Nat] /\ before \in [D -> D]
      BY <1>0, <1>2
    <3>2. base \in [D -> V]
      BY <1>0
    <3>3. step \in [D -> [V -> V]]
      <4>1. ASSUME NEW i \in D, NEW v \in V PROVE v \o F[i] \in V
        <5>1. F[i] \in V
          BY <1>0
        <5> QED
          BY <5>1
      <4> HIDE DEF V, D
      <4> QED
        BY <4>1
    <3>4. \A i \in D \ stop : rank[before[i]] < rank[i]
      BY <1>0
    <3> HIDE DEF D, V, stop, rank, base, before, step
    <3>5. Descending(D, V, stop, rank, base, before, step)
      BY <3>1, <3>2, <3>3, <3>4 DEF Descending
    <3> QED
      BY <3>5, Recursion
  <2>2. \A i \in D : f[i] = Next1(f, i)
    <3>1. ASSUME NEW i \in D PROVE f[i] = Next1(f, i)
      <4>1. CASE i = 1
        <5>1. i \in stop /\ base[i] = F[i]
          BY <4>1
        <5> HIDE DEF stop, base, before, step
        <5> QED
          BY <2>1, <4>1, <5>1 DEF Body
      <4>2. CASE i # 1
        <5>0. i - 1 \in D
          BY <1>0, <4>2
        <5>1. i - 1 \in D /\ f[i - 1] \in V
          <6> HIDE DEF D, V
          <6> QED
            BY <2>1, <5>0
        <5>2. i \notin stop /\ before[i] = i - 1 /\ step[i][f[i - 1]] = f[i - 1] \o F[i]
          BY <4>2, <5>1
        <5> HIDE DEF stop, base, before, step
        <5> QED
          BY <2>1, <4>2, <5>2 DEF Body
      <4> QED
        BY <4>1, <4>2
    <3> QED
      BY <3>1
  <2>3. Is(f)
    <3>1. f = [i \in D |-> f[i]]
      BY <2>1
    <3> HIDE DEF Next1
    <3> QED
      BY <2>2, <3>1
  <2> DEFINE G == CHOOSE g : Is(g)
  <2>4. FlattenSeq(F) = G[n]
    BY <1>0, <1>2 DEF FlattenSeq
  <2>5. Is(G)
    <3> HIDE DEF Is
    <3> QED
      BY <2>3
  <2> HIDE DEF G
  <2>6. \A i \in D : G[i] = Next1(G, i)
    BY <2>5
  <2> DEFINE J == [i \in 0 .. n |-> IF i = 0 THEN <<>> ELSE G[i]]
             P == {i \in Nat : i <= n => J[i] \in V}
  <2>7. \A i \in D : J[i] = J[i - 1] \o F[i]
    <3> TAKE i \in D
    <3>1. CASE i = 1
      <4>1. J[i - 1] = <<>> /\ J[i] = G[i]
        BY <1>0, <3>1
      <4>2. F[i] \in V
        BY <1>0
      <4>3. <<>> \o F[i] = F[i]
        BY <4>2
      <4> HIDE DEF J
      <4> QED
        BY <2>6, <3>1, <4>1, <4>3
    <3>2. CASE i # 1
      <4>1. J[i - 1] = G[i - 1] /\ J[i] = G[i]
        BY <1>0, <3>2
      <4> HIDE DEF J
      <4> QED
        BY <2>6, <3>2, <4>1
    <3> QED
      BY <3>1, <3>2
  <2>8. J[0] = <<>> /\ J[n] = G[n] /\ J = [i \in 0 .. n |-> J[i]]
    BY <1>0, <1>2
  <2> HIDE DEF J
  <2>9. 0 \in P
    BY <1>0, <2>8
  <2>10. ASSUME NEW k \in Nat, k \in P PROVE k + 1 \in P
    <3> SUFFICES ASSUME k + 1 <= n PROVE J[k + 1] \in V
      OBVIOUS
    <3>1. k + 1 \in D /\ (k + 1) - 1 = k /\ J[k] \in V
      BY <2>10, <1>0
    <3>2. J[k + 1] = J[k] \o F[k + 1] /\ F[k + 1] \in V
      BY <1>0, <2>7, <3>1
    <3> QED
      BY <3>1, <3>2
  <2> HIDE DEF P
  <2>11. Nat \subseteq P
    BY <2>9, <2>10, CountUp
  <2>12. \A i \in 0 .. n : J[i] \in V
    BY <1>0, <2>11 DEF P
  <2>13. J \in [0 .. n -> V]
    <3> HIDE DEF V
    <3> QED
      BY <2>8, <2>12
  <2>14. Joining(J, F)
    BY <2>7, <2>8 DEF Joining
  <2> HIDE DEF V
  <2> QED
    BY <2>4, <2>8, <2>13, <2>14 DEF V
<1> QED
  BY <1>1, <1>2

\* Every character has a code that is looked for, and which the end is not taken for.
Readable ==
  \A v \in DOMAIN Chars : \A i \in DOMAIN Chars[v] :
    LET code == HUFFCODES[Chars[v][i]] IN Len(code) \in BITNUMBERS /\ ~AllOnes(code)

\* The ones that fill the last octet.
LEMMA PaddingRead ==
  ASSUME NEW pad \in Bits, Len(pad) < 8, AllOnes(pad)
  PROVE  HufmanDecode[pad] = [text |-> <<>>, valid |-> TRUE]
<1>1. IsLast(pad)
  BY DEF IsLast, Bits
<1>2. Ends(pad)
  BY <1>1 DEF Ends
<1> QED
  BY <1>1, <1>2, HufmanRead

\* One character, and what is behind it.
LEMMA CodeRead ==
  ASSUME NEW c \in DOMAIN HUFFCODES, Len(HUFFCODES[c]) \in BITNUMBERS,
         ~AllOnes(HUFFCODES[c]), NEW u \in Bits
  PROVE  /\ HUFFCODES[c] \o u \in Bits
         /\ HufmanDecode[HUFFCODES[c] \o u] = Behind(c, HufmanDecode[u])
<1> DEFINE w == HUFFCODES[c]
           n == Len(w)
           b == w \o u
<1>1. w \in Bits
  BY HpackAssumption DEF Bits
<1> HIDE DEF w
<1>2. n \in BITNUMBERS /\ ~AllOnes(w)
  BY DEF w
<1>3. n \in Nat /\ n >= 5
  <2>1. \A k \in BITNUMBERS : k \in Nat /\ k >= 5
    BY DEF BITNUMBERS
  <2> QED
    BY <1>2, <2>1
<1>4. /\ b \in Bits /\ Len(b) = n + Len(u) /\ Len(u) \in Nat
      /\ \A i \in 1 .. n : b[i] = w[i]
      /\ \A i \in 1 .. Len(u) : b[n + i] = u[i]
  BY <1>1, <1>3 DEF Bits
<1> HIDE DEF b
<1>5. SubSeq(w, 1, n) = SubSeq(b, 1, n)
  <2> DEFINE p == SubSeq(w, 1, n)
             q == SubSeq(b, 1, n)
  <2>1. p \in Bits /\ Len(p) = n /\ \A i \in 1 .. n : p[i] = w[i]
    BY <1>1, <1>3 DEF Bits
  <2>2. n <= Len(b)
    BY <1>3, <1>4
  <2>3. q \in Bits /\ Len(q) = n /\ \A i \in 1 .. n : q[i] = b[i]
    BY <1>3, <1>4, <2>2 DEF Bits
  <2> HIDE DEF p, q, n
  <2> QED
    BY <1>3, <1>4, <2>1, <2>3 DEF Bits, p, q
<1>6. c \in Codes(b)
  <2>1. IsPrefix(w, b)
    BY <1>3, <1>4, <1>5 DEF IsPrefix
  <2> QED
    BY <1>2, <2>1 DEF Codes, w
<1>7. ~AllOnes(b)
  <2>1. PICK i \in DOMAIN w : w[i] # 1
    BY <1>2 DEF AllOnes
  <2>2. i \in 1 .. n
    BY <1>1, <2>1 DEF Bits
  <2>3. i \in DOMAIN b
    BY <1>3, <1>4, <2>2 DEF Bits
  <2> QED
    BY <1>4, <2>1, <2>2, <2>3 DEF AllOnes
<1>8. ~Ends(b)
  BY <1>3, <1>4, <1>6, <1>7 DEF Ends, IsLast
<1>9. Found(b) = c
  BY <1>4, <1>6, FoundCode
<1>10. Rest(b) = u
  <2>1. Rest(b) = SubSeq(b, n + 1, Len(b))
    BY <1>9 DEF Rest, w
  <2> DEFINE q == SubSeq(b, n + 1, Len(b))
  <2>2. n + 1 \in Nat /\ Len(b) \in Nat /\ n + 1 <= Len(b) + 1 /\ Len(b) - (n + 1) + 1 = Len(u)
    BY <1>3, <1>4
  <2>3. q \in Bits /\ Len(q) = Len(u) /\ \A i \in 1 .. Len(u) : q[i] = b[n + i]
    <3> HIDE DEF n
    <3>1. \A i \in 1 .. Len(u) : (n + 1) + i - 1 = n + i
      BY <1>3, <1>4
    <3>2. Len(q) = Len(u)
      BY <1>4, <2>2 DEF Bits
    <3>3. q \in Bits
      BY <1>4, <2>2 DEF Bits
    <3>4. \A i \in 1 .. Len(q) : q[i] = b[(n + 1) + i - 1]
      <4> DEFINE m == n + 1
      <4>1. m \in Nat /\ Len(b) \in Nat /\ b \in Seq({0, 1})
        BY <1>4, <2>2 DEF Bits
      <4> HIDE DEF m
      <4>2. \A i \in 1 .. Len(SubSeq(b, m, Len(b))) : SubSeq(b, m, Len(b))[i] = b[m + i - 1]
        BY <4>1
      <4> QED
        BY <4>2 DEF m
    <3> QED
      BY <3>1, <3>2, <3>3, <3>4
  <2> HIDE DEF q, n
  <2>4. q = u
    BY <1>4, <2>3 DEF Bits
  <2> QED
    BY <2>1, <2>4 DEF q
<1>11. HufmanDecode[b] = Behind(c, HufmanDecode[u])
  BY <1>4, <1>8, <1>9, <1>10, HufmanRead
<1> QED
  BY <1>4, <1>11 DEF b, w

\* Three sequences are joined in any order.
LEMMA JoinedInAnyOrder ==
  ASSUME NEW T, NEW s \in Seq(T), NEW t \in Seq(T), NEW u \in Seq(T)
  PROVE  (s \o t) \o u = s \o (t \o u)
  OBVIOUS

\* What HufmanEncode makes of a text is read as that text.
LEMMA WordRead ==
  ASSUME NEW w \in Seq(DOMAIN HUFFCODES),
         \A i \in DOMAIN w : /\ Len(HUFFCODES[w[i]]) \in BITNUMBERS
                             /\ ~AllOnes(HUFFCODES[w[i]])
  PROVE  /\ HufmanEncode(w) \in Bits
         /\ HufmanDecode[HufmanEncode(w)] = [text |-> w, valid |-> TRUE]
<1> DEFINE n == Len(w)
           C == DOMAIN HUFFCODES
           F == [i \in DOMAIN w |-> HUFFCODES[w[i]]]
<1>1. n \in Nat /\ DOMAIN w = 1 .. n /\ \A i \in 1 .. n : w[i] \in C
  OBVIOUS
<1>2. F \in Seq(Bits) /\ Len(F) = n /\ \A i \in 1 .. n : F[i] = HUFFCODES[w[i]]
  <2>1. \A c \in C : HUFFCODES[c] \in Bits
    BY HpackAssumption DEF Bits
  <2>2. F \in [1 .. n -> Bits]
    BY <1>1, <2>1
  <2>3. \A i \in 1 .. n : F[i] = HUFFCODES[w[i]]
    BY <1>1
  <2> HIDE DEF F
  <2> QED
    BY <1>1, <2>2, <2>3
<1>3. PICK J \in [0 .. Len(F) -> Bits] : Joining(J, F) /\ FlattenSeq(F) = J[Len(F)]
  <2> HIDE DEF F
  <2> QED
    BY <1>2, Flattened DEF Bits
<1> DEFINE bits == J[n]
           pad == [i \in 1 .. (8 - (Len(bits) % 8)) % 8 |-> 1]
           all == bits \o pad
<1>4. HufmanEncode(w) = all
  <2>1. FlattenSeq(F) = bits
    BY <1>2, <1>3
  <2> HIDE DEF bits
  <2> QED
    BY <2>1 DEF HufmanEncode
<1>5. bits \in Bits
  BY <1>1, <1>2, <1>3
<1>6. pad \in Bits /\ Len(pad) < 8 /\ AllOnes(pad)
  <2> DEFINE k == (8 - (Len(bits) % 8)) % 8
  <2>1. Len(bits) \in Nat
    BY <1>5 DEF Bits
  <2> HIDE DEF bits
  <2>2. k \in Nat /\ k < 8
    BY <2>1
  <2> HIDE DEF k
  <2>3. [i \in 1 .. k |-> 1] \in Seq({0, 1}) /\ Len([i \in 1 .. k |-> 1]) = k
        /\ \A x \in DOMAIN [i \in 1 .. k |-> 1] : [i \in 1 .. k |-> 1][x] = 1
    BY <2>2
  <2> QED
    BY <2>2, <2>3 DEF Bits, AllOnes, k
<1> HIDE DEF pad
<1>7. all \in Bits
  BY <1>5, <1>6 DEF Bits
<1> DEFINE After(j) == SubSeq(w, (n - j) + 1, n)
           Good(j) == j <= n => \E u \in Bits :
                        /\ all = J[n - j] \o u
                        /\ HufmanDecode[u] = [text |-> After(j), valid |-> TRUE]
           P == {j \in Nat : Good(j)}
<1> HIDE DEF all
<1>8. 0 \in P
  <2>1. all = J[n - 0] \o pad
    BY <1>1 DEF all
  <2>2. After(0) = <<>>
    BY <1>1
  <2>3. HufmanDecode[pad] = [text |-> <<>>, valid |-> TRUE]
    BY <1>6, PaddingRead
  <2> HIDE DEF After
  <2> QED
    BY <1>6, <2>1, <2>2, <2>3
<1>9. ASSUME NEW j \in Nat, j \in P PROVE j + 1 \in P
  <2>a. Good(j)
    BY <1>9
  <2> HIDE DEF Good
  <2>b. SUFFICES Good(j + 1)
    OBVIOUS
  <2> USE DEF Good
  <2> HIDE DEF After
  <2> SUFFICES ASSUME j + 1 <= n
               PROVE  \E u \in Bits : /\ all = J[n - (j + 1)] \o u
                                     /\ HufmanDecode[u] = [text |-> After(j + 1), valid |-> TRUE]
    OBVIOUS
  <2> DEFINE k == n - j
  <2>1. k \in 1 .. n /\ k - 1 = n - (j + 1) /\ k - 1 \in 0 .. n /\ (n - (j + 1)) + 1 = k
    BY <1>1
  <2>2. PICK u \in Bits : /\ all = J[k] \o u
                          /\ HufmanDecode[u] = [text |-> After(j), valid |-> TRUE]
    <3>1. j <= n
      BY <1>1
    <3> QED
      BY <2>a, <3>1
  <2> HIDE DEF Good
  <2> USE DEF After
  <2> DEFINE c == w[k]
  <2>3. /\ c \in C /\ Len(HUFFCODES[c]) \in BITNUMBERS /\ ~AllOnes(HUFFCODES[c])
        /\ F[k] = HUFFCODES[c]
    BY <1>1, <1>2, <2>1
  <2>4. J[k] = J[k - 1] \o F[k] /\ J[k - 1] \in Bits /\ F[k] \in Bits
    <3> HIDE DEF F, k
    <3>1. F[k] \in Bits
      BY <1>2, <2>1
    <3>2. J[k - 1] \in Bits
      BY <1>2, <1>3, <2>1
    <3> QED
      BY <1>2, <1>3, <2>1, <3>1, <3>2 DEF Joining
  <2> DEFINE v == HUFFCODES[c] \o u
  <2>5. v \in Bits /\ HufmanDecode[v] = Behind(c, HufmanDecode[u])
    BY <2>3, CodeRead
  <2>6. all = J[k - 1] \o v
    <3> HIDE DEF F, k, c
    <3>1. (J[k - 1] \o F[k]) \o u = J[k - 1] \o (F[k] \o u)
      <4> DEFINE T == {0, 1}
                 x == J[k - 1]
                 y == F[k]
      <4>1. x \in Seq(T) /\ y \in Seq(T) /\ u \in Seq(T)
        BY <2>4 DEF Bits
      <4> HIDE DEF T, x, y
      <4>2. (x \o y) \o u = x \o (y \o u)
        BY <4>1, JoinedInAnyOrder, SMTT(30)
      <4> QED
        BY <4>2 DEF x, y
    <3> QED
      BY <2>2, <2>3, <2>4, <3>1
  <2>7. HufmanDecode[v] = [text |-> After(j + 1), valid |-> TRUE]
    <3> DEFINE t == After(j)
               r0 == [text |-> t, valid |-> TRUE]
    <3>1. t \in Seq(C)
      BY <1>1, <2>1
    <3>2. <<c>> \o t = After(j + 1)
      <4> DEFINE s == <<c>> \o t
                 q == SubSeq(w, k, n)
      <4>1. /\ t \in Seq(C) /\ Len(t) = j
            /\ \A i \in 1 .. j : t[i] = w[k + i]
        <5>1. k + 1 \in Nat /\ n \in Nat /\ n - (k + 1) + 1 = j
              /\ k + 1 <= n + 1 /\ j >= 0
          BY <1>1, <2>1
        <5>2. t = SubSeq(w, k + 1, n)
          OBVIOUS
        <5> HIDE DEF k, t, n
        <5> DEFINE p == k + 1
        <5>3. \A i \in 1 .. j : p + i - 1 = k + i
          BY <2>1
        <5> HIDE DEF p
        <5>4. p \in Nat /\ n - p + 1 = j
          BY <5>1 DEF p
        <5>5. Len(SubSeq(w, p, n)) = j
          BY <5>1, <5>4 DEF n
        <5>6. \A i \in 1 .. j : SubSeq(w, p, n)[i] = w[p + i - 1]
          BY <5>1, <5>4, <5>5 DEF n
        <5> QED
          BY <3>1, <5>2, <5>3, <5>5, <5>6 DEF p
      <4>2. /\ q \in Seq(C) /\ Len(q) = j + 1
            /\ \A i \in 1 .. j + 1 : q[i] = w[k + i - 1]
        <5>1. k \in Nat /\ n - k + 1 = j + 1 /\ k <= n
          BY <1>1, <2>1
        <5> HIDE DEF k
        <5>2. q \in Seq(C)
          BY <1>1, <2>1
        <5> HIDE DEF n
        <5>3. Len(SubSeq(w, k, n)) = j + 1
          BY <1>1, <5>1 DEF n
        <5>4. \A i \in 1 .. j + 1 : SubSeq(w, k, n)[i] = w[k + i - 1]
          BY <1>1, <5>1, <5>3 DEF n
        <5> QED
          BY <5>2, <5>3, <5>4
      <4>3. s \in Seq(C) /\ Len(s) = j + 1 /\ s[1] = c /\ \A i \in 1 .. j : s[i + 1] = t[i]
        <5> HIDE DEF c, t
        <5>1. <<c>> \in Seq(C) /\ Len(<<c>>) = 1
          BY <2>3
        <5> QED
          BY <4>1, <5>1
      <4>4. \A i \in 1 .. j + 1 : s[i] = q[i]
        <5> TAKE i \in 1 .. j + 1
        <5>1. CASE i = 1
          <6>1. q[1] = w[k + 1 - 1] /\ k + 1 - 1 = k
            BY <2>1, <4>2
          <6> HIDE DEF s, q, k
          <6> QED
            BY <4>3, <5>1, <6>1
        <5>2. CASE i # 1
          <6> DEFINE h == i - 1
          <6>1. h \in 1 .. j /\ h + 1 = i /\ k + h = k + i - 1
            BY <2>1, <5>2
          <6> HIDE DEF s, q, k, t, h
          <6>2. s[h + 1] = t[h] /\ t[h] = w[k + h] /\ q[i] = w[k + i - 1]
            BY <4>1, <4>2, <4>3, <6>1
          <6> QED
            BY <6>1, <6>2
        <5> QED
          BY <5>1, <5>2
      <4>5. After(j + 1) = q
        BY <2>1
      <4> HIDE DEF s, q
      <4>6. s = q
        BY <4>2, <4>3, <4>4
      <4> QED
        BY <4>5, <4>6 DEF s
    <3> HIDE DEF After, t
    <3>3. r0 \in Read /\ r0.text = t /\ r0.valid = TRUE
      BY <3>1 DEF Read
    <3>4. Behind(c, r0) \in Read /\ Behind(c, r0).text = <<c>> \o t /\ Behind(c, r0).valid = TRUE
      BY <2>3, <3>3, BehindRead, ZenonT(40)
    <3> HIDE DEF c, r0
    <3>5. Behind(c, r0) = [text |-> <<c>> \o t, valid |-> TRUE]
      BY <3>4 DEF Read
    <3> QED
      BY <2>2, <2>5, <3>2, <3>5 DEF t, r0
  <2> HIDE DEF v, k, After
  <2>8. all = J[n - (j + 1)] \o v
    BY <2>1, <2>6
  <2> QED
    BY <2>5, <2>7, <2>8
<1> HIDE DEF P
<1>10. n \in P
  BY <1>1, <1>8, <1>9, CountUp
<1>11. PICK u \in Bits : /\ all = J[0] \o u
                        /\ HufmanDecode[u] = [text |-> w, valid |-> TRUE]
  <2>1. n <= n /\ n - n = 0 /\ After(n) = w
    <3>1. (n - n) + 1 = 1 /\ SubSeq(w, 1, n) = w
      BY <1>1
    <3> QED
      BY <1>1, <3>1
  <2> HIDE DEF After
  <2>2. \E u \in Bits : /\ all = J[n - n] \o u
                        /\ HufmanDecode[u] = [text |-> After(n), valid |-> TRUE]
    BY <1>10, <2>1 DEF P
  <2> QED
    BY <2>1, <2>2
<1>12. all = u
  <2>1. J[0] = <<>>
    BY <1>3 DEF Joining
  <2> QED
    BY <1>11, <2>1 DEF Bits
<1> QED
  BY <1>4, <1>11, <1>12

\* However a value is spelled, it is read as that value.
LEMMA StringRead ==
  ASSUME Readable, NEW v \in DOMAIN Chars, NEW s \in {Huffman[v], Plain[v]}
  PROVE  DecodeString[s] = v
<1> DEFINE w == Chars[v]
           read == IF s.huffman THEN HufmanDecode[s.data] ELSE [text |-> s.data, valid |-> TRUE]
           values == {x \in DOMAIN Chars : Chars[x] = read.text}
<1>1. w \in Seq(DOMAIN HUFFCODES)
  BY HpackAssumption
<1>2. read = [text |-> w, valid |-> TRUE]
  <2>1. CASE s = Huffman[v]
    <3>1. s.huffman = TRUE /\ s.data = HufmanEncode(w)
      <4>1. Huffman[v] = [huffman |-> TRUE, data |-> HufmanEncode(w)]
        BY DEF Huffman
      <4> HIDE DEF w
      <4> QED
        BY <2>1, <4>1
    <3>2. \A i \in DOMAIN w : /\ Len(HUFFCODES[w[i]]) \in BITNUMBERS
                              /\ ~AllOnes(HUFFCODES[w[i]])
      BY DEF Readable
    <3> HIDE DEF w
    <3>3. HufmanDecode[HufmanEncode(w)] = [text |-> w, valid |-> TRUE]
      BY <1>1, <3>2, WordRead
    <3> QED
      BY <3>1, <3>3
  <2>2. CASE s = Plain[v]
    <3>1. Plain[v] = [huffman |-> FALSE, data |-> w]
      BY DEF Plain
    <3> HIDE DEF w
    <3>2. s.huffman = FALSE /\ s.data = w
      BY <2>2, <3>1
    <3> QED
      BY <3>2
  <2> QED
    BY <2>1, <2>2
<1>3. s \in Range(Huffman) \cup Range(Plain)
  <2>1. v \in DOMAIN Huffman /\ v \in DOMAIN Plain
    BY DEF Huffman, Plain
  <2> QED
    BY <2>1 DEF Range
<1>4. DecodeString[s] = IF read.valid /\ values # {} THEN CHOOSE x \in values : TRUE ELSE "error"
  BY <1>3 DEF DecodeString
<1> HIDE DEF read
<1>5. read.valid = TRUE /\ read.text = w
  <2> HIDE DEF w
  <2> QED
    BY <1>2
<1>6. values = {v}
  <2>1. \A x \in DOMAIN Chars : Chars[x] = w => x = v
    BY HpackAssumption DEF IsInjective
  <2> QED
    BY <1>5, <2>1
<1> HIDE DEF values
<1> QED
  BY <1>4, <1>5, <1>6

-----------------------------------------------------------------------------
(* The list of header fields *)

\* Numbers of places among the first n.
LEMMA PlacesFinite ==
  ASSUME NEW n \in Nat, NEW S \in SUBSET (1 .. n)
  PROVE  IsFiniteSet(S) /\ Cardinality(S) \in Nat
<1>1. IsFiniteSet(1 .. n)
  BY FS_Interval
<1>2. IsFiniteSet(S)
  BY <1>1, FS_Subset
<1> QED
  BY <1>2, FS_CardinalityType

\* Each place has a number.
LEMMA NthInside ==
  ASSUME NEW n \in Nat, NEW S \in SUBSET (1 .. n), NEW k \in S
  PROVE  Nth(S, k) \in 1 .. Cardinality(S)
<1> DEFINE P == {p \in S : p <= k}
<1>1. P \subseteq S /\ k \in P
  OBVIOUS
<1> HIDE DEF P
<1>2. IsFiniteSet(S) /\ Cardinality(S) \in Nat
  BY PlacesFinite
<1>3. IsFiniteSet(P) /\ Cardinality(P) <= Cardinality(S)
  BY <1>1, <1>2, FS_Subset
<1>4. Cardinality(P) \in Nat /\ Cardinality(P) # 0
  BY <1>1, <1>3, FS_CardinalityType, FS_EmptySet
<1> QED
  BY <1>2, <1>3, <1>4 DEF Nth, P

\* One more place behind all others is counted behind them.
LEMMA NthAdded ==
  ASSUME NEW n \in Nat, NEW S \in SUBSET (1 .. n)
  PROVE  LET T == S \cup {n + 1} IN
         /\ Cardinality(T) = Cardinality(S) + 1
         /\ Nth(T, n + 1) = Cardinality(S) + 1
         /\ \A k \in 1 .. n : Nth(T, k) = Nth(S, k)
<1> DEFINE T == S \cup {n + 1}
<1>1. IsFiniteSet(S) /\ Cardinality(S) \in Nat
  BY PlacesFinite
<1>2. n + 1 \notin S
  OBVIOUS
<1>3. Cardinality(T) = Cardinality(S) + 1
  <2> DEFINE m == n + 1
  <2>1. m \notin S
    BY <1>2
  <2> HIDE DEF m
  <2>2. Cardinality(S \cup {m}) = Cardinality(S) + 1
    BY <1>1, <2>1, FS_AddElement
  <2> QED
    BY <2>2 DEF m
<1>4. {p \in T : p <= n + 1} = T
  <2>1. \A p \in T : p <= n + 1
    OBVIOUS
  <2> HIDE DEF T
  <2> QED
    BY <2>1
<1>5. ASSUME NEW k \in 1 .. n PROVE {p \in T : p <= k} = {p \in S : p <= k}
  OBVIOUS
<1> HIDE DEF T
<1>6. Nth(T, n + 1) = Cardinality(S) + 1
  BY <1>3, <1>4 DEF Nth
<1>7. ASSUME NEW k \in 1 .. n PROVE Nth(T, k) = Nth(S, k)
  BY <1>5 DEF Nth
<1> QED
  BY <1>3, <1>6, <1>7 DEF T

-----------------------------------------------------------------------------
(* The list of a block *)

ListItem == [name : {f.name : f \in Fields}, values : Seq(DOMAIN Chars)]

\* Every field is a record of a name and a value that is no mark.
LEMMA FieldShape ==
  ASSUME NEW f \in Fields
  PROVE  /\ f = [name |-> f.name, value |-> f.value]
         /\ f.name # "update" /\ f.value \in DOMAIN Chars /\ f.value # "error"
<1>1. f = Entry(f.name, f.value) /\ f.name # "update" /\ f.value \in DOMAIN Chars \ {"error"}
  BY HpackAssumption
<1> QED
  BY <1>1 DEF Entry

\* The names in the list are those that were sent.
SameNames(list, fields) ==
  /\ \A i \in 1 .. Len(list) : \E k \in 1 .. Len(fields) : fields[k].name = list[i].name
  /\ \A k \in 1 .. Len(fields) : \E i \in 1 .. Len(list) : list[i].name = fields[k].name

\* One field more.
LEMMA OneMore ==
  ASSUME NEW fields \in Seq(Fields), NEW f \in Fields
  PROVE  LET more == Append(fields, f)
             n == Len(fields) IN
         /\ more \in Seq(Fields) /\ Len(more) = n + 1 /\ more[n + 1] = f
         /\ \A i \in 1 .. n : more[i] = fields[i]
  OBVIOUS

\* The cookies of a block with one more field.
LEMMA CookiesOfMore ==
  ASSUME NEW fields \in Seq(Fields), NEW f \in Fields
  PROVE  LET more == Append(fields, f)
             n == Len(fields) IN
         /\ Cookies(fields) \in SUBSET (1 .. n)
         /\ Cookies(more) = IF f.name = "cookie" THEN Cookies(fields) \cup {n + 1}
                            ELSE Cookies(fields)
<1> DEFINE more == Append(fields, f)
           n == Len(fields)
<1>1. /\ more \in Seq(Fields) /\ Len(more) = n + 1 /\ more[n + 1] = f
      /\ \A i \in 1 .. n : more[i] = fields[i]
  BY OneMore
<1>2. n \in Nat /\ DOMAIN fields = 1 .. n /\ DOMAIN more = (1 .. n) \cup {n + 1}
  BY <1>1
<1> HIDE DEF more, n
<1>3. Cookies(fields) \in SUBSET (1 .. n)
  BY <1>2 DEF Cookies
<1>4. Cookies(more) = {k \in (1 .. n) \cup {n + 1} : more[k].name = "cookie"}
  BY <1>2 DEF Cookies
<1>5. CASE f.name = "cookie"
  BY <1>1, <1>2, <1>4, <1>5 DEF Cookies
<1>6. CASE f.name # "cookie"
  BY <1>1, <1>2, <1>4, <1>6 DEF Cookies
<1> QED
  BY <1>3, <1>5, <1>6 DEF more, n

\* A further cookie has no item of its own, all else has.
LEMMA ShownOfMore ==
  ASSUME NEW fields \in Seq(Fields), NEW f \in Fields
  PROVE  LET more == Append(fields, f)
             n == Len(fields) IN
         /\ Shown(fields) \in SUBSET (1 .. n)
         /\ Shown(more) = IF f.name = "cookie" /\ Cookies(fields) # {} THEN Shown(fields)
                          ELSE Shown(fields) \cup {n + 1}
<1> DEFINE more == Append(fields, f)
           n == Len(fields)
           C == Cookies(fields)
           D == Cookies(more)
<1>1. Len(more) = n + 1 /\ n \in Nat
  BY OneMore
<1>2. DOMAIN fields = 1 .. n /\ DOMAIN more = (1 .. n) \cup {n + 1}
  BY <1>1, OneMore
<1>3. C \in SUBSET (1 .. n) /\ D = IF f.name = "cookie" THEN C \cup {n + 1} ELSE C
  BY CookiesOfMore
<1>4. Shown(fields) = {k \in 1 .. n : k \notin C \/ \A c \in C : k <= c}
  BY <1>2 DEF Shown
<1>5. Shown(more) = {k \in (1 .. n) \cup {n + 1} : k \notin D \/ \A c \in D : k <= c}
  BY <1>2 DEF Shown
<1> HIDE DEF more, n, C, D
<1>6. Shown(fields) \in SUBSET (1 .. n)
  BY <1>4
<1>7. \A k \in 1 .. n : k \in Shown(more) <=> k \in Shown(fields)
  <2> TAKE k \in 1 .. n
  <2>1. k \in D <=> k \in C
    BY <1>1, <1>3
  <2>2. (\A c \in D : k <= c) <=> (\A c \in C : k <= c)
    BY <1>1, <1>3
  <2> QED
    BY <1>4, <1>5, <2>1, <2>2
<1>8. n + 1 \in Shown(more) <=> ~(f.name = "cookie" /\ C # {})
  <2>1. CASE f.name = "cookie" /\ C # {}
    <3>1. PICK c \in C : TRUE
      BY <2>1
    <3>2. n + 1 \in D /\ c \in D /\ ~(n + 1 <= c)
      BY <1>1, <1>3, <2>1, <3>1
    <3> QED
      BY <1>5, <2>1, <3>2
  <2>2. CASE f.name = "cookie" /\ C = {}
    <3>1. D = {n + 1} /\ n + 1 <= n + 1
      BY <1>1, <1>3, <2>2
    <3> QED
      BY <1>5, <2>2, <3>1
  <2>3. CASE f.name # "cookie"
    <3>1. n + 1 \notin D
      BY <1>1, <1>3, <2>3
    <3> QED
      BY <1>5, <2>3, <3>1
  <2> QED
    BY <2>1, <2>2, <2>3
<1>9. Shown(more) \subseteq (1 .. n) \cup {n + 1}
  BY <1>5
<1>10. Shown(more) = IF f.name = "cookie" /\ C # {} THEN Shown(fields)
                    ELSE Shown(fields) \cup {n + 1}
  <2> DEFINE A == Shown(fields)
             B == Shown(more)
  <2>1. n + 1 \notin 1 .. n
    BY <1>1
  <2> HIDE DEF A, B
  <2>2. CASE f.name = "cookie" /\ C # {}
    <3>1. B = A
      BY <1>6, <1>7, <1>8, <1>9, <2>1, <2>2 DEF A, B
    <3> QED
      BY <2>2, <3>1 DEF A, B
  <2>3. CASE ~(f.name = "cookie" /\ C # {})
    <3>1. B = A \cup {n + 1}
      BY <1>6, <1>7, <1>8, <1>9, <2>1, <2>3 DEF A, B
    <3> QED
      BY <2>3, <3>1 DEF A, B
  <2> QED
    BY <2>2, <2>3
<1> QED
  BY <1>6, <1>10 DEF more, n, C

\* An item of the list has the field at the place k, and a cookie all of them.
ItemReads(item, fields, k) ==
  /\ item.name = fields[k].name
  /\ IF item.name # "cookie" THEN item.values = <<fields[k].value>>
     ELSE /\ Len(item.values) = Cardinality(Cookies(fields))
          /\ \A c \in Cookies(fields) : item.values[Nth(Cookies(fields), c)] = fields[c].value

\* ReadAs, item by item.
LEMMA ItemsRead ==
  ASSUME NEW list, NEW fields
  PROVE  ReadAs(list, fields) <=>
           /\ Len(list) = Cardinality(Shown(fields))
           /\ \A k \in Shown(fields) : ItemReads(list[Nth(Shown(fields), k)], fields, k)
  BY DEF ReadAs, ItemReads

\* A field that is no cookie leaves what the list had.
LEMMA ItemKept ==
  ASSUME NEW fields \in Seq(Fields), NEW f \in Fields, NEW item, NEW k \in 1 .. Len(fields),
         ItemReads(item, fields, k), f.name = "cookie" => item.name # "cookie"
  PROVE  ItemReads(item, Append(fields, f), k)
<1> DEFINE more == Append(fields, f)
           n == Len(fields)
<1>1. n \in Nat /\ \A i \in 1 .. n : more[i] = fields[i]
  BY OneMore
<1>2. /\ Cookies(fields) \in SUBSET (1 .. n)
      /\ f.name # "cookie" => Cookies(more) = Cookies(fields)
  BY CookiesOfMore
<1> HIDE DEF more, n
<1>3. more[k] = fields[k]
  BY <1>1 DEF n
<1>4. CASE item.name # "cookie"
  BY <1>3, <1>4 DEF ItemReads, more
<1>5. CASE item.name = "cookie"
  <2>1. Cookies(more) = Cookies(fields)
    BY <1>2, <1>5
  <2>2. \A c \in Cookies(fields) : more[c] = fields[c]
    BY <1>1, <1>2
  <2>3. ItemReads(item, more, k)
    BY <1>3, <1>5, <2>1, <2>2 DEF ItemReads
  <2> QED
    BY <2>3 DEF more
<1> QED
  BY <1>4, <1>5

\* The item of a field that is the last.
LEMMA ItemNew ==
  ASSUME NEW fields \in Seq(Fields), NEW f \in Fields,
         f.name = "cookie" => Cookies(fields) = {}
  PROVE  ItemReads([name |-> f.name, values |-> <<f.value>>], Append(fields, f), Len(fields) + 1)
<1> DEFINE more == Append(fields, f)
           n == Len(fields)
           v == f.value
           item == [name |-> f.name, values |-> <<v>>]
<1>1. n \in Nat /\ more[n + 1] = f
  BY OneMore
<1>2. item.name = f.name /\ item.values = <<v>>
  OBVIOUS
<1>3. CASE f.name # "cookie"
  <2> HIDE DEF item, more, n
  <2>1. ItemReads(item, more, n + 1)
    BY <1>1, <1>2, <1>3 DEF ItemReads, v
  <2> QED
    BY <2>1 DEF item, more, n
<1>4. CASE f.name = "cookie"
  <2>1. Cookies(fields) = {} /\ Cookies(more) = {} \cup {n + 1}
    BY <1>4, CookiesOfMore
  <2>2. /\ Cardinality({} \cup {n + 1}) = Cardinality({}) + 1
        /\ Nth({} \cup {n + 1}, n + 1) = Cardinality({}) + 1
    BY <1>1, NthAdded
  <2>3. Cardinality({}) = 0
    BY FS_EmptySet
  <2> DEFINE D == Cookies(more)
             m == n + 1
  <2>4. D = {m} /\ Cardinality(D) = 1 /\ Nth(D, m) = 1
    BY <2>1, <2>2, <2>3
  <2>5. Len(<<v>>) = 1 /\ <<v>>[1] = v
    OBVIOUS
  <2>6. more[m] = f /\ f.value = v
    BY <1>1
  <2> HIDE DEF item, D, m, v
  <2>7. item.name = more[m].name /\ Len(item.values) = Cardinality(D)
    BY <1>2, <2>4, <2>5, <2>6
  <2>8. \A c \in D : item.values[Nth(D, c)] = more[c].value
    BY <1>2, <2>4, <2>5, <2>6
  <2> HIDE DEF more
  <2>9. ItemReads(item, more, m)
    BY <1>2, <1>4, <2>7, <2>8 DEF ItemReads, D
  <2> QED
    BY <2>9 DEF item, more, m, v
<1> QED
  BY <1>3, <1>4

\* A cookie behind others.
LEMMA ItemLonger ==
  ASSUME NEW fields \in Seq(Fields), NEW f \in Fields, f.name = "cookie",
         NEW item \in ListItem, NEW k \in 1 .. Len(fields),
         ItemReads(item, fields, k), item.name = "cookie"
  PROVE  ItemReads([item EXCEPT !.values = Append(@, f.value)], Append(fields, f), k)
<1> DEFINE more == Append(fields, f)
           n == Len(fields)
           C == Cookies(fields)
           D == Cookies(more)
           v == f.value
           vs == item.values
           ws == Append(vs, v)
           longer == [item EXCEPT !.values = ws]
<1>1. /\ n \in Nat /\ more[n + 1] = f
      /\ \A i \in 1 .. n : more[i] = fields[i]
  BY OneMore
<1>2. C \in SUBSET (1 .. n) /\ D = C \cup {n + 1}
  BY CookiesOfMore
<1>3. /\ Cardinality(D) = Cardinality(C) + 1
      /\ Nth(D, n + 1) = Cardinality(C) + 1
      /\ \A c \in 1 .. n : Nth(D, c) = Nth(C, c)
  <2> HIDE DEF C, D, n
  <2> QED
    BY <1>1, <1>2, NthAdded
<1>4. item = [name |-> item.name, values |-> vs] /\ vs \in Seq(DOMAIN Chars)
  BY DEF ListItem
<1>5. v \in DOMAIN Chars
  BY FieldShape
<1>6. Len(vs) = Cardinality(C) /\ item.name = fields[k].name
      /\ \A c \in C : vs[Nth(C, c)] = fields[c].value
  BY DEF ItemReads
<1>7. \A c \in C : Nth(C, c) \in 1 .. Cardinality(C)
  <2> HIDE DEF C, n
  <2> QED
    BY <1>1, <1>2, NthInside
<1> HIDE DEF C, D, vs, v, more, n
<1>8. /\ Len(ws) = Len(vs) + 1 /\ ws[Len(vs) + 1] = v
      /\ \A i \in 1 .. Len(vs) : ws[i] = vs[i]
  BY <1>4, <1>5
<1> HIDE DEF ws
<1>9. longer.name = item.name /\ longer.values = ws
  BY <1>4
<1> HIDE DEF longer
<1>10. Len(longer.values) = Cardinality(D)
  BY <1>3, <1>6, <1>8, <1>9
<1>11. \A c \in D : longer.values[Nth(D, c)] = more[c].value
  <2> TAKE c \in D
  <2>1. CASE c = n + 1
    <3>1. Nth(D, c) = Len(vs) + 1 /\ more[c] = f
      BY <1>1, <1>3, <1>6, <2>1
    <3> QED
      BY <1>8, <1>9, <3>1 DEF v
  <2>2. CASE c \in C
    <3>1. c \in 1 .. n /\ more[c] = fields[c] /\ Nth(D, c) = Nth(C, c)
      BY <1>1, <1>2, <1>3, <2>2
    <3>2. Nth(C, c) \in 1 .. Len(vs) /\ vs[Nth(C, c)] = fields[c].value
      BY <1>6, <1>7, <2>2
    <3> QED
      BY <1>8, <1>9, <3>1, <3>2
  <2> QED
    BY <1>2, <2>1, <2>2
<1>12. longer.name = more[k].name /\ longer.name = "cookie"
  BY <1>1, <1>6, <1>9 DEF n
<1>13. ItemReads(longer, more, k)
  BY <1>10, <1>11, <1>12 DEF ItemReads, D
<1> QED
  BY <1>13 DEF longer, more, ws, vs, v

\* The names of the list grow with what is sent.
LEMMA NamesGrow ==
  ASSUME NEW fields \in Seq(Fields), NEW f \in Fields, NEW list, NEW next,
         Len(list) \in Nat, SameNames(list, fields), Len(next) \in Nat, Len(list) <= Len(next),
         \A i \in 1 .. Len(list) : next[i].name = list[i].name,
         \A i \in 1 .. Len(next) : i \in 1 .. Len(list) \/ next[i].name = f.name,
         \E i \in 1 .. Len(next) : next[i].name = f.name
  PROVE  SameNames(next, Append(fields, f))
<1> DEFINE more == Append(fields, f)
           n == Len(fields)
<1>1. /\ n \in Nat /\ Len(more) = n + 1 /\ more[n + 1] = f
      /\ \A i \in 1 .. n : more[i] = fields[i]
  BY OneMore
<1>2. \A k \in 1 .. n : k \in 1 .. Len(more)
  BY <1>1
<1>3. n + 1 \in 1 .. Len(more)
  BY <1>1
<1>4. \A k \in 1 .. Len(more) : k \in 1 .. n \/ k = n + 1
  BY <1>1
<1>5. /\ \A i \in 1 .. Len(list) : \E k \in 1 .. n : fields[k].name = list[i].name
      /\ \A k \in 1 .. n : \E i \in 1 .. Len(list) : list[i].name = fields[k].name
  BY DEF SameNames
<1> HIDE DEF more, n
<1>6. ASSUME NEW i \in 1 .. Len(next)
      PROVE  \E k \in 1 .. Len(more) : more[k].name = next[i].name
  <2>1. CASE i \in 1 .. Len(list)
    <3>1. PICK k \in 1 .. n : fields[k].name = list[i].name
      BY <1>5, <2>1
    <3>2. k \in 1 .. Len(more) /\ more[k] = fields[k] /\ next[i].name = list[i].name
      BY <1>1, <1>2, <2>1
    <3> QED
      BY <3>1, <3>2
  <2>2. CASE next[i].name = f.name
    BY <1>1, <1>3, <2>2
  <2> QED
    BY <2>1, <2>2
<1>7. ASSUME NEW k \in 1 .. Len(more)
      PROVE  \E i \in 1 .. Len(next) : next[i].name = more[k].name
  <2>1. CASE k \in 1 .. n
    <3>1. PICK i \in 1 .. Len(list) : list[i].name = fields[k].name
      BY <1>5, <2>1
    <3>2. i \in 1 .. Len(next)
      OBVIOUS
    <3> QED
      BY <1>1, <2>1, <3>1, <3>2
  <2>2. CASE k = n + 1
    BY <1>1, <2>2
  <2> QED
    BY <1>4, <2>1, <2>2
<1> QED
  BY <1>6, <1>7 DEF SameNames, more

\* A field behind the others is read as such.
LEMMA ListGrows ==
  ASSUME NEW fields \in Seq(Fields), NEW f \in Fields, lstHeaderFields \in Seq(ListItem),
         ReadAs(lstHeaderFields, fields), SameNames(lstHeaderFields, fields)
  PROVE  /\ AddField(f) \in Seq(ListItem)
         /\ ReadAs(AddField(f), Append(fields, f))
         /\ SameNames(AddField(f), Append(fields, f))
<1> DEFINE list == lstHeaderFields
           more == Append(fields, f)
           n == Len(fields)
           S == Shown(fields)
<1>1. n \in Nat /\ Len(list) \in Nat /\ DOMAIN list = 1 .. Len(list)
      /\ \A i \in 1 .. Len(list) : list[i] \in ListItem
  OBVIOUS
<1>2. Len(list) = Cardinality(S) /\ \A k \in S : ItemReads(list[Nth(S, k)], fields, k)
  BY ItemsRead
<1>3. S \in SUBSET (1 .. n)
  BY ShownOfMore
<1>4. \A k \in S : Nth(S, k) \in 1 .. Len(list)
  <2> HIDE DEF S, n, list
  <2> QED
    BY <1>1, <1>2, <1>3, NthInside
<1>5. Named("cookie") <=> Cookies(fields) # {}
  <2>1. DOMAIN fields = 1 .. n
    OBVIOUS
  <2>2. /\ \A i \in 1 .. Len(list) : \E k \in 1 .. n : fields[k].name = list[i].name
        /\ \A k \in 1 .. n : \E i \in 1 .. Len(list) : list[i].name = fields[k].name
    BY DEF SameNames
  <2>3. Named("cookie") <=> \E i \in 1 .. Len(list) : list[i].name = "cookie"
    BY <1>1 DEF Named
  <2>4. Cookies(fields) # {} <=> \E k \in 1 .. n : fields[k].name = "cookie"
    BY <2>1 DEF Cookies
  <2> HIDE DEF list, n
  <2>5. Named("cookie") => Cookies(fields) # {}
    BY <2>2, <2>3, <2>4
  <2>6. Cookies(fields) # {} => Named("cookie")
    BY <2>2, <2>3, <2>4
  <2> QED
    BY <2>5, <2>6
<1>6. CASE f.name = "cookie" /\ Named("cookie")
  <2> DEFINE Longer(item) == [item EXCEPT !.values = Append(@, f.value)]
             next == [i \in DOMAIN list |-> IF list[i].name = "cookie" THEN Longer(list[i])
                                            ELSE list[i]]
  <2>1. AddField(f) = next
    BY <1>6 DEF AddField
  <2>2. ASSUME NEW item \in ListItem
        PROVE  Longer(item) \in ListItem /\ Longer(item).name = item.name
    <3> DEFINE vs == item.values
               ws == Append(vs, f.value)
    <3>1. item = [name |-> item.name, values |-> vs] /\ vs \in Seq(DOMAIN Chars)
          /\ item.name \in {g.name : g \in Fields}
      BY DEF ListItem
    <3>2. f.value \in DOMAIN Chars
      BY FieldShape
    <3>3. ws \in Seq(DOMAIN Chars)
      BY <3>1, <3>2
    <3>4. Longer(item) = [item EXCEPT !.values = ws]
      OBVIOUS
    <3> HIDE DEF ws, Longer
    <3>5. Longer(item) = [name |-> item.name, values |-> ws]
      BY <3>1, <3>4
    <3> HIDE DEF vs
    <3> QED
      BY <3>1, <3>3, <3>5 DEF ListItem
  <2>3. /\ next \in Seq(ListItem) /\ Len(next) = Len(list)
        /\ \A i \in 1 .. Len(list) : /\ next[i].name = list[i].name
                                     /\ next[i] = IF list[i].name = "cookie"
                                                  THEN Longer(list[i]) ELSE list[i]
    <3>1. \A i \in 1 .. Len(list) : next[i] = IF list[i].name = "cookie" THEN Longer(list[i])
                                             ELSE list[i]
      BY <1>1
    <3>2. next = [i \in 1 .. Len(list) |-> next[i]]
      BY <1>1
    <3> HIDE DEF next, Longer, list
    <3>3. \A i \in 1 .. Len(list) : next[i] \in ListItem /\ next[i].name = list[i].name
      BY <1>1, <2>2, <3>1
    <3>4. next \in Seq(ListItem) /\ Len(next) = Len(list)
      BY <1>1, <3>2, <3>3
    <3> QED
      BY <3>1, <3>3, <3>4
  <2> HIDE DEF next
  <2>4. Shown(more) = S
    BY <1>5, <1>6, ShownOfMore
  <2>5. ASSUME NEW k \in S PROVE ItemReads(next[Nth(S, k)], more, k)
    <3> DEFINE i == Nth(S, k)
               item == list[i]
    <3>1. i \in 1 .. Len(list) /\ item \in ListItem /\ ItemReads(item, fields, k)
      BY <1>1, <1>2, <1>4
    <3>2. k \in 1 .. Len(fields)
      BY <1>3
    <3>3. CASE item.name = "cookie"
      <4>1. ItemReads(Longer(item), more, k)
        <5> HIDE DEF S, n, i, item, list
        <5> QED
          BY <1>6, <3>1, <3>2, <3>3, ItemLonger
      <4> QED
        BY <2>3, <3>1, <3>3, <4>1
    <3>4. CASE item.name # "cookie"
      <4>1. ItemReads(item, more, k)
        <5> HIDE DEF S, n, i, item, list
        <5> QED
          BY <3>1, <3>2, <3>4, ItemKept
      <4> QED
        BY <2>3, <3>1, <3>4, <4>1
    <3> QED
      BY <3>3, <3>4
  <2>6. ReadAs(next, more)
    <3> HIDE DEF S, more, list
    <3> QED
      BY <1>2, <2>3, <2>4, <2>5, ItemsRead
  <2>7. SameNames(next, more)
    <3>1. \E i \in 1 .. Len(next) : next[i].name = f.name
      BY <1>1, <1>6, <2>3 DEF Named
    <3> HIDE DEF list
    <3>2. SameNames(list, fields)
      BY DEF list
    <3>3. Len(next) \in Nat /\ Len(list) <= Len(next) /\ 1 .. Len(next) = 1 .. Len(list)
      BY <1>1, <2>3
    <3>4. \A i \in 1 .. Len(list) : next[i].name = list[i].name
      BY <2>3
    <3> QED
      BY <1>1, <3>1, <3>2, <3>3, <3>4, NamesGrow
  <2> QED
    BY <2>1, <2>3, <2>6, <2>7
<1>7. CASE ~(f.name = "cookie" /\ Named("cookie"))
  <2> DEFINE item == [name |-> f.name, values |-> <<f.value>>]
             next == Append(list, item)
  <2>1. AddField(f) = next
    BY <1>7 DEF AddField
  <2>2. item \in ListItem /\ item.name = f.name
    <3> DEFINE vs == <<f.value>>
    <3>1. f.value \in DOMAIN Chars
      BY FieldShape
    <3>2. vs \in Seq(DOMAIN Chars)
      BY <3>1
    <3>3. item = [name |-> f.name, values |-> vs] /\ f.name \in {g.name : g \in Fields}
      OBVIOUS
    <3> HIDE DEF vs, item
    <3> QED
      BY <3>2, <3>3 DEF ListItem
  <2>3. ItemReads(item, more, n + 1)
    BY <1>5, <1>7, ItemNew
  <2> HIDE DEF item
  <2>4. /\ next \in Seq(ListItem) /\ Len(next) = Len(list) + 1 /\ next[Len(list) + 1] = item
        /\ \A i \in 1 .. Len(list) : next[i] = list[i]
    BY <2>2
  <2> HIDE DEF next
  <2> DEFINE T == Shown(more)
  <2>5. T = S \cup {n + 1}
    BY <1>5, <1>7, ShownOfMore
  <2>6. /\ Cardinality(T) = Len(list) + 1 /\ Nth(T, n + 1) = Len(list) + 1
        /\ \A k \in S : Nth(T, k) = Nth(S, k)
    <3> HIDE DEF T, S, n, list
    <3> QED
      BY <1>1, <1>2, <1>3, <2>5, NthAdded, ZenonT(40)
  <2>7. ASSUME NEW k \in T PROVE ItemReads(next[Nth(T, k)], more, k)
    <3>1. CASE k = n + 1
      BY <2>3, <2>4, <2>6, <3>1
    <3>2. CASE k \in S
      <4> DEFINE i == Nth(S, k)
                 old == list[i]
      <4>1. i \in 1 .. Len(list) /\ ItemReads(old, fields, k)
        BY <1>2, <1>4, <3>2
      <4>2. k \in 1 .. Len(fields)
        BY <1>3, <3>2
      <4>3. f.name = "cookie" => old.name # "cookie"
        BY <1>1, <1>7, <4>1 DEF Named
      <4>4. ItemReads(old, more, k)
        <5> HIDE DEF S, n, i, old, list
        <5> QED
          BY <4>1, <4>2, <4>3, ItemKept
      <4> QED
        BY <2>4, <2>6, <3>2, <4>1, <4>4
    <3> QED
      BY <2>5, <3>1, <3>2
  <2>8. ReadAs(next, more)
    <3> HIDE DEF T, more, list
    <3>1. Len(next) = Cardinality(T)
      BY <2>4, <2>6
    <3> QED
      BY <2>7, <3>1, ItemsRead DEF T
  <2>9. SameNames(next, more)
    <3> HIDE DEF list
    <3>1. SameNames(list, fields)
      BY DEF list
    <3>2. /\ Len(next) \in Nat /\ Len(list) <= Len(next)
          /\ \A i \in 1 .. Len(list) : next[i].name = list[i].name
          /\ \A i \in 1 .. Len(next) : i \in 1 .. Len(list) \/ next[i].name = f.name
      BY <1>1, <2>2, <2>4
    <3>3. \E i \in 1 .. Len(next) : next[i].name = f.name
      <4>1. Len(list) + 1 \in 1 .. Len(next)
        BY <1>1, <2>4
      <4> QED
        BY <2>2, <2>4, <4>1
    <3> QED
      BY <1>1, <3>1, <3>2, <3>3, NamesGrow
  <2> QED
    BY <2>1, <2>4, <2>8, <2>9
<1> QED
  BY <1>6, <1>7

-----------------------------------------------------------------------------
(* Header blocks *)

\* A name that HPackDecode lets through.
LegalName(name) == /\ name \notin Capitals \cup {"connection"}
                   /\ name \in Pseudo => name \in KnownPseudo

\* The peer's table is the beginning of qDynTable, which has no other names.
Agree(table, all) ==
  /\ table \in Seq(Fields) /\ all \in Seq(Fields)
  /\ Len(table) <= Len(all)
  /\ \A i \in 1 .. Len(table) : table[i] = all[i]
  /\ \A i \in 1 .. Len(all) : LegalName(all[i].name)

TablesAgree == Agree(peer, qDynTable)

\* What was sent is in the list.
ListReads ==
  /\ sent \in Seq(Fields) /\ nHeaderCount = Len(sent)
  /\ WellFormed(sent)
  /\ lstHeaderFields \in Seq(ListItem)
  /\ ReadAs(lstHeaderFields, sent) /\ SameNames(lstHeaderFields, sent)

HeaderInv ==
  /\ status \in {"open", "refused"}
  /\ status = "open" => TablesAgree /\ ListReads
  /\ status = "refused" => ~WellFormed(sent)

\* What IllegalName refuses.
LEMMA NamesRefused ==
  ASSUME NEW name
  PROVE  IllegalName(name) <=> ~LegalName(name)
<1>1. ASSUME name \in KnownPseudo
      PROVE  \E i \in 1 .. Statics : StaticHeaderListe[i].name = name
  <2>1. PICK i \in 1 .. 14 : StaticHeaderListe[i].name = name
    BY <1>1, StaticEntries
  <2>2. i \in 1 .. Statics
    BY StaticEntries
  <2> QED
    BY <2>1, <2>2
<1>2. ASSUME NEW i \in 1 .. Statics, StaticHeaderListe[i].name = name, name \in Pseudo
      PROVE  name \in KnownPseudo
  <2>1. i <= Len(PseudoListe)
    BY <1>2, HpackAssumption
  <2>2. i \in 1 .. 14
    BY <2>1, PseudoEntries, StaticEntries
  <2> QED
    BY <1>2, <2>2, StaticEntries
<1> QED
  BY <1>1, <1>2 DEF IllegalName, LegalName

\* No name in the static table is refused.
LEMMA StaticNamesLegal ==
  ASSUME NEW i \in 1 .. Statics
  PROVE  LegalName(StaticHeaderListe[i].name)
<1> DEFINE name == StaticHeaderListe[i].name
<1>1. name \notin Capitals /\ (name \in Pseudo => i <= Len(PseudoListe))
  BY HpackAssumption
<1>2. name # "connection"
  BY StaticEntries
<1>3. name \in Pseudo => name \in KnownPseudo
  <2>1. name \in Pseudo => i \in 1 .. 14
    BY <1>1, PseudoEntries, StaticEntries
  <2> QED
    BY <2>1, StaticEntries
<1> HIDE DEF name
<1> QED
  BY <1>1, <1>2, <1>3 DEF LegalName, name

\* An index the peer may use is one of qDynTable's, and stands for the same entry.
LEMMA EntriesAgree ==
  ASSUME TablesAgree, NEW i \in 1 .. Statics + Len(peer)
  PROVE  /\ HasEntry(qDynTable, i) /\ EntryAt(qDynTable, i) = EntryAt(peer, i)
         /\ LegalName(EntryAt(peer, i).name)
<1>1. Statics \in Nat /\ Len(peer) \in Nat /\ Len(qDynTable) \in Nat
  BY StaticEntries DEF TablesAgree, Agree
<1>2. CASE i <= Statics
  <2>1. i \in 1 .. Statics
    BY <1>1, <1>2
  <2>2. LegalName(StaticHeaderListe[i].name)
    BY <2>1, StaticNamesLegal
  <2>3. i - Statics <= Len(qDynTable)
    BY <1>1, <1>2
  <2> QED
    BY <1>2, <2>2, <2>3 DEF HasEntry, EntryAt
<1>3. CASE ~(i <= Statics)
  <2> DEFINE k == i - Statics
  <2>1. k \in 1 .. Len(peer) /\ k \in 1 .. Len(qDynTable) /\ k <= Len(qDynTable)
    BY <1>1, <1>3 DEF TablesAgree, Agree
  <2> HIDE DEF k
  <2>2. peer[k] = qDynTable[k] /\ LegalName(qDynTable[k].name)
    BY <2>1 DEF TablesAgree, Agree
  <2> QED
    BY <1>3, <2>1, <2>2 DEF HasEntry, EntryAt, k
<1> QED
  BY <1>2, <1>3

\* The instructions that stand for a field.
Kinds == {"indexed", "incremental", "plain"}

\* The prefix of every instruction is a number.
LEMMA MasksNatural == \A kind \in Kinds \cup {"size"} : Mask(kind) \in Nat
  BY DEF Kinds, Mask

\* An index is read as the entry it stands for.
LEMMA IndexedRead ==
  ASSUME TablesAgree, NEW i \in 1 .. Statics + Len(peer), NEW f \in Fields,
         EntryAt(peer, i).name = f.name, EntryAt(peer, i).value = f.value
  PROVE  HPackDecode(Indexed(i)) = f /\ LegalName(f.name) /\ Indexed(i).kind = "indexed"
<1>1. i \in Nat /\ i > 0 /\ i # 0
  BY StaticEntries DEF TablesAgree, Agree
<1>2. Indexed(i).kind = "indexed" /\ Indexed(i).index = EncodeInteger(i, 127)
  BY DEF Indexed
<1>3. DecodeIndex(Indexed(i).index, Mask(Indexed(i).kind)) = i
  <2>1. Mask("indexed") = 127
    BY DEF Mask
  <2> QED
    BY <1>1, <1>2, <2>1, IndexRead
<1>4. HasEntry(qDynTable, i) /\ EntryAt(qDynTable, i) = EntryAt(peer, i) /\ LegalName(f.name)
  BY EntriesAgree
<1> HIDE DEF Indexed
<1>6. EntryAt(peer, i) = f
  <2>1. IsEntry(EntryAt(peer, i))
    <3>1. CASE i <= Statics
      <4>1. i \in 1 .. Statics
        BY <1>1, <3>1, StaticEntries
      <4> QED
        BY <3>1, <4>1, StaticEntries DEF EntryAt
    <3>2. CASE ~(i <= Statics)
      <4>1. i - Statics \in 1 .. Len(peer)
        BY <1>1, <3>2, StaticEntries DEF TablesAgree, Agree
      <4>2. peer[i - Statics] \in Fields
        BY <4>1 DEF TablesAgree, Agree
      <4>3. \A g \in Fields : IsEntry(g)
        BY FieldShape DEF IsEntry, Entry
      <4> QED
        BY <3>2, <4>2, <4>3 DEF EntryAt
    <3> QED
      BY <3>1, <3>2
  <2>2. IsEntry(f)
    BY FieldShape DEF IsEntry, Entry
  <2> HIDE DEF EntryAt
  <2> QED
    BY <2>1, <2>2 DEF IsEntry
<1>5. HPackDecode(Indexed(i)) = EntryAt(qDynTable, i)
  BY <1>1, <1>2, <1>3, <1>4 DEF HPackDecode
<1> QED
  BY <1>2, <1>4, <1>5, <1>6

\* A literal is read as the field it has the name or an index of the name of, unless
\* the name may not be sent.
LEMMA LiteralRead ==
  ASSUME Readable, TablesAgree, NEW f \in Fields, NEW kind \in {"incremental", "plain"},
         NEW value \in {Huffman[f.value], Plain[f.value]},
         NEW i \in 0 .. Statics + Len(peer), i # 0 => EntryAt(peer, i).name = f.name
  PROVE  LET w == Literal(kind, i, f.name, value) IN
         /\ w.kind = kind
         /\ HPackDecode(w) = IF LegalName(f.name) THEN f ELSE Refused
         /\ i # 0 => LegalName(f.name)
<1> DEFINE w == Literal(kind, i, f.name, value)
<1>0. Statics + Len(peer) \in Nat
  BY StaticEntries DEF TablesAgree, Agree
<1>1. i \in Nat /\ (i > 0 <=> i # 0) /\ (i # 0 => i \in 1 .. Statics + Len(peer))
  BY <1>0
<1>2. /\ w.kind = kind /\ w.index = EncodeInteger(i, Mask(kind))
      /\ w.name = f.name /\ w.value = value
  BY DEF Literal
<1>3. DecodeIndex(w.index, Mask(w.kind)) = i
  <2>1. Mask(kind) \in Nat
    BY MasksNatural DEF Kinds
  <2> HIDE DEF w
  <2> QED
    BY <1>1, <1>2, <2>1, IndexRead
<1>4. i # 0 => /\ HasEntry(qDynTable, i) /\ EntryAt(qDynTable, i).name = f.name
               /\ LegalName(f.name)
  BY <1>1, EntriesAgree
<1>5. /\ f = [name |-> f.name, value |-> f.value]
      /\ f.value \in DOMAIN Chars /\ f.value # "error"
  BY FieldShape
<1>6. DecodeString[w.value] = f.value
  BY <1>2, <1>5, StringRead
<1>7. IllegalName(f.name) <=> ~LegalName(f.name)
  BY NamesRefused
<1> HIDE DEF w
<1>8. w.kind # "indexed"
  BY <1>2
<1>9. CASE i # 0
  <2>1. HPackDecode(w) = [name |-> EntryAt(qDynTable, i).name, value |-> DecodeString[w.value]]
    BY <1>3, <1>4, <1>5, <1>6, <1>8, <1>9 DEF HPackDecode
  <2> QED
    BY <1>2, <1>4, <1>5, <1>6, <1>9, <2>1 DEF w
<1>10. CASE i = 0
  <2>1. HPackDecode(w) = IF IllegalName(w.name) THEN Refused
                         ELSE [name |-> w.name, value |-> DecodeString[w.value]]
    BY <1>3, <1>5, <1>6, <1>8, <1>10 DEF HPackDecode
  <2> QED
    BY <1>2, <1>5, <1>6, <1>7, <1>10, <2>1 DEF w
<1> QED
  BY <1>9, <1>10

\* Whatever the peer chooses, the field it means is read, or its name is refused.
ReadsField(w, f) ==
  /\ w.kind \in Kinds
  /\ HPackDecode(w) = IF LegalName(f.name) THEN f ELSE Refused

\* What HPackEncode writes is read as the field.
LEMMA EncodeRead ==
  ASSUME Readable, TablesAgree, NEW f \in Fields
  PROVE  ReadsField(HPackEncode(f), f)
<1> DEFINE fits == {i \in 1 .. Statics : /\ StaticHeaderListe[i].name = f.name
                                        /\ StaticHeaderListe[i].value \in {"", f.value}}
           first == CHOOSE i \in fits : \A k \in fits : i <= k
           value == EncodeString(f.value)
<1>1. HPackEncode(f) = IF fits = {} THEN Literal("plain", 0, f.name, value)
                       ELSE IF StaticHeaderListe[first].value # "" THEN Indexed(first)
                       ELSE Literal("plain", first, f.name, value)
  BY DEF HPackEncode
<1>2. value \in {Huffman[f.value], Plain[f.value]}
  BY DEF EncodeString
<1>3. Statics \in Nat /\ Len(peer) \in Nat
  BY StaticEntries DEF TablesAgree, Agree
<1>4. fits # {} => first \in fits
  <2>1. fits \in SUBSET Nat
    <3>1. \A i \in 1 .. Statics : i \in Nat
      BY <1>3
    <3>2. fits \subseteq 1 .. Statics
      OBVIOUS
    <3> HIDE DEF fits
    <3> QED
      BY <3>1, <3>2
  <2> HIDE DEF fits
  <2>2. fits # {} => \E i \in fits : \A k \in fits : i <= k
    BY <2>1, Smallest
  <2> QED
    BY <2>2
<1>5. fits # {} => /\ first \in 1 .. Statics + Len(peer)
                   /\ EntryAt(peer, first) = StaticHeaderListe[first]
                   /\ EntryAt(peer, first).name = f.name
                   /\ EntryAt(peer, first).value \in {"", f.value}
  <2> SUFFICES ASSUME fits # {}
               PROVE  /\ first \in 1 .. Statics + Len(peer)
                      /\ EntryAt(peer, first) = StaticHeaderListe[first]
                      /\ EntryAt(peer, first).name = f.name
                      /\ EntryAt(peer, first).value \in {"", f.value}
    OBVIOUS
  <2>1. first \in 1 .. Statics /\ StaticHeaderListe[first].name = f.name
        /\ StaticHeaderListe[first].value \in {"", f.value}
    BY <1>4
  <2> HIDE DEF first, fits
  <2>2. \A a, b \in Nat : \A i : i \in 1 .. a => i \in 1 .. a + b /\ i <= a
    OBVIOUS
  <2>3. first \in 1 .. Statics + Len(peer) /\ first <= Statics
    BY <1>3, <2>1, <2>2
  <2> QED
    BY <2>1, <2>3 DEF EntryAt
<1> HIDE DEF fits, first, value
<1>6. CASE fits = {}
  <2> DEFINE w == Literal("plain", 0, f.name, value)
  <2>1. HPackEncode(f) = w
    BY <1>1, <1>6
  <2>2. 0 \in 0 .. Statics + Len(peer)
    BY <1>3
  <2>3. w.kind = "plain" /\ HPackDecode(w) = IF LegalName(f.name) THEN f ELSE Refused
    BY <1>2, <2>2, LiteralRead
  <2> HIDE DEF w
  <2> QED
    BY <2>1, <2>3 DEF ReadsField, Kinds
<1>7. CASE fits # {} /\ StaticHeaderListe[first].value # ""
  <2> DEFINE w == Indexed(first)
  <2>1. HPackEncode(f) = w
    BY <1>1, <1>7
  <2>2. EntryAt(peer, first).value = f.value
    BY <1>5, <1>7
  <2>3. HPackDecode(w) = f /\ LegalName(f.name) /\ w.kind = "indexed"
    BY <1>5, <1>7, <2>2, IndexedRead
  <2> HIDE DEF w
  <2> QED
    BY <2>1, <2>3 DEF ReadsField, Kinds
<1>8. CASE fits # {} /\ StaticHeaderListe[first].value = ""
  <2> DEFINE w == Literal("plain", first, f.name, value)
  <2>1. HPackEncode(f) = w
    BY <1>1, <1>8
  <2>2. first \in 0 .. Statics + Len(peer)
    <3>1. \A a, b \in Nat : \A i : i \in 1 .. a + b => i \in 0 .. a + b
      OBVIOUS
    <3> QED
      BY <1>3, <1>5, <1>8, <3>1
  <2>3. w.kind = "plain" /\ HPackDecode(w) = IF LegalName(f.name) THEN f ELSE Refused
    BY <1>2, <1>5, <1>8, <2>2, LiteralRead
  <2> HIDE DEF w
  <2> QED
    BY <2>1, <2>3 DEF ReadsField, Kinds
<1> QED
  BY <1>6, <1>7, <1>8

\* However a peer writes a field, it is read as that field.
LEMMA InstructionsRead ==
  ASSUME Readable, TablesAgree, NEW f \in Fields, NEW w \in Instructions(f)
  PROVE  ReadsField(w, f)
<1> DEFINE indices == {i \in 1 .. Statics + Len(peer) : EntryAt(peer, i).name = f.name}
<1>1. CASE w = HPackEncode(f)
  BY <1>1, EncodeRead
<1>2. CASE \E i \in indices : EntryAt(peer, i).value = f.value /\ w = Indexed(i)
  <2>1. PICK i \in indices : EntryAt(peer, i).value = f.value /\ w = Indexed(i)
    BY <1>2
  <2>2. i \in 1 .. Statics + Len(peer) /\ EntryAt(peer, i).name = f.name
    OBVIOUS
  <2>3. HPackDecode(w) = f /\ LegalName(f.name) /\ w.kind = "indexed"
    BY <2>1, <2>2, IndexedRead
  <2> QED
    BY <2>3 DEF ReadsField, Kinds
<1>3. CASE \E kind \in {"incremental", "plain"}, i \in indices \cup {0},
              value \in {Huffman[f.value], Plain[f.value]} :
              w = Literal(kind, i, f.name, value)
  <2>1. PICK kind \in {"incremental", "plain"}, i \in indices \cup {0},
             value \in {Huffman[f.value], Plain[f.value]} :
             w = Literal(kind, i, f.name, value)
    BY <1>3
  <2>2. i \in 0 .. Statics + Len(peer) /\ (i # 0 => EntryAt(peer, i).name = f.name)
    <3>1. Statics \in Nat /\ Len(peer) \in Nat
      BY StaticEntries DEF TablesAgree, Agree
    <3> QED
      BY <3>1
  <2>3. w.kind = kind /\ HPackDecode(w) = IF LegalName(f.name) THEN f ELSE Refused
    BY <2>1, <2>2, LiteralRead
  <2> QED
    BY <2>3 DEF ReadsField, Kinds
<1> QED
  BY <1>1, <1>2, <1>3 DEF Instructions

\* One field more is allowed or not.
Allowed(f, fields) ==
  /\ LegalName(f.name)
  /\ f.name = "te" => f.value = "trailers"
  /\ f.name \in Pseudo => \A k \in 1 .. Len(fields) : fields[k].name \in Pseudo \ {f.name}

\* A block that HTTP/2 allows, with one more field.
LEMMA WellFormedMore ==
  ASSUME NEW fields \in Seq(Fields), NEW f \in Fields, WellFormed(fields)
  PROVE  WellFormed(Append(fields, f)) <=> Allowed(f, fields)
<1> DEFINE more == Append(fields, f)
           n == Len(fields)
           Good(g, all, i) ==
             /\ g.name \notin Capitals \cup {"connection", "update"}
             /\ g.name = "te" => g.value = "trailers"
             /\ g.name \in Pseudo =>
                  /\ g.name \in KnownPseudo
                  /\ \A k \in 1 .. i - 1 : all[k].name \in Pseudo \ {g.name}
<1>1. /\ n \in Nat /\ Len(more) = n + 1 /\ more[n + 1] = f
      /\ \A i \in 1 .. n : more[i] = fields[i]
  BY OneMore
<1>2. DOMAIN fields = 1 .. n /\ DOMAIN more = (1 .. n) \cup {n + 1}
  BY <1>1, OneMore
<1> HIDE DEF more, n
<1>3. \A i \in 1 .. n : Good(fields[i], fields, i)
  BY <1>2 DEF WellFormed, KnownPseudo
<1>4. WellFormed(more) <=> \A i \in (1 .. n) \cup {n + 1} : Good(more[i], more, i)
  BY <1>2 DEF WellFormed, KnownPseudo
<1>5. ASSUME NEW i \in 1 .. n PROVE Good(more[i], more, i)
  <2>1. \A k \in 1 .. i - 1 : more[k] = fields[k]
    BY <1>1
  <2>2. more[i] = fields[i] /\ Good(fields[i], fields, i)
    BY <1>1, <1>3
  <2> QED
    BY <2>1, <2>2
<1>6. Good(more[n + 1], more, n + 1) <=> Allowed(f, fields)
  <2>1. (n + 1) - 1 = n
    BY <1>1
  <2>2. \A k \in 1 .. n : more[k] = fields[k]
    BY <1>1
  <2>3. f.name # "update"
    BY FieldShape
  <2> QED
    BY <1>1, <2>1, <2>2, <2>3 DEF Allowed, LegalName, n
<1> HIDE DEF Good
<1>7. WellFormed(more) <=> Allowed(f, fields)
  BY <1>4, <1>5, <1>6
<1> QED
  BY <1>7 DEF more

\* The marker of a size update is never allowed.
LEMMA UpdateIllegal ==
  ASSUME NEW fields \in Seq(Fields)
  PROVE  ~WellFormed(Append(fields, [name |-> "update", value |-> ""]))
<1> DEFINE u == [name |-> "update", value |-> ""]
           more == Append(fields, u)
           n == Len(fields)
<1>1. n \in Nat /\ more[n + 1] = u /\ n + 1 \in DOMAIN more
  <2>1. u.name = "update"
    OBVIOUS
  <2> HIDE DEF u
  <2>2. fields \in Seq(Fields \cup {u})
    <3>1. fields \in [1 .. n -> Fields] /\ n \in Nat
      OBVIOUS
    <3> QED
      BY <3>1
  <2> QED
    BY <2>2
<1>2. u.name = "update"
  OBVIOUS
<1> HIDE DEF u, more, n
<1>3. ~WellFormed(more)
  BY <1>1, <1>2 DEF WellFormed
<1> QED
  BY <1>3 DEF u, more

\* They agree whatever the peer evicts, and when both have one entry more.
LEMMA AgreeAfterEviction ==
  ASSUME NEW table, NEW all, Agree(table, all), NEW b \in Beginnings(table)
  PROVE  Agree(b, all)
<1>1. PICK k \in 0 .. Len(table) : b = SubSeq(table, 1, k)
  BY DEF Beginnings
<1>2. table \in Seq(Fields) /\ all \in Seq(Fields) /\ Len(table) \in Nat /\ Len(all) \in Nat
      /\ k \in Nat /\ k <= Len(table)
  BY <1>1 DEF Agree
<1>3. b \in Seq(Fields) /\ Len(b) = k /\ \A i \in 1 .. k : b[i] = table[i]
  BY <1>1, <1>2
<1>4. Len(b) <= Len(all) /\ \A i \in 1 .. Len(b) : b[i] = all[i]
  BY <1>2, <1>3 DEF Agree
<1> QED
  BY <1>3, <1>4 DEF Agree

\* Both tables insert the same field in front.
LEMMA AgreeAfterInsertion ==
  ASSUME NEW table, NEW all, Agree(table, all), NEW f \in Fields, LegalName(f.name)
  PROVE  Agree(<<f>> \o table, <<f>> \o all)
<1>1. table \in Seq(Fields) /\ all \in Seq(Fields) /\ Len(table) \in Nat /\ Len(all) \in Nat
      /\ Len(table) <= Len(all)
  BY DEF Agree
<1>2. /\ \A i \in 1 .. Len(table) : table[i] = all[i]
      /\ \A i \in 1 .. Len(all) : LegalName(all[i].name)
  BY DEF Agree
<1> DEFINE u == <<f>> \o table
           v == <<f>> \o all
<1>3. <<f>> \in Seq(Fields) /\ Len(<<f>>) = 1 /\ <<f>>[1] = f
  OBVIOUS
<1>4. /\ u \in Seq(Fields) /\ Len(u) = 1 + Len(table) /\ u[1] = f
      /\ \A i \in 1 .. Len(table) : u[1 + i] = table[i]
  BY <1>1, <1>3
<1>5. /\ v \in Seq(Fields) /\ Len(v) = 1 + Len(all) /\ v[1] = f
      /\ \A i \in 1 .. Len(all) : v[1 + i] = all[i]
  BY <1>1, <1>3
<1> HIDE DEF u, v
<1>6. ASSUME NEW i \in 1 .. Len(u) PROVE u[i] = v[i]
  <2>1. CASE i = 1
    BY <1>4, <1>5, <2>1
  <2>2. CASE i # 1
    <3> DEFINE h == i - 1
    <3>1. h \in 1 .. Len(table) /\ h \in 1 .. Len(all) /\ 1 + h = i
      BY <1>1, <1>4, <2>2
    <3> HIDE DEF h
    <3>2. u[1 + h] = table[h] /\ v[1 + h] = all[h] /\ table[h] = all[h]
      BY <1>2, <1>4, <1>5, <3>1
    <3> QED
      BY <3>1, <3>2
  <2> QED
    BY <2>1, <2>2
<1>7. ASSUME NEW i \in 1 .. Len(v) PROVE LegalName(v[i].name)
  <2>1. CASE i = 1
    BY <1>5, <2>1
  <2>2. CASE i # 1
    <3> DEFINE h == i - 1
    <3>1. h \in 1 .. Len(all) /\ 1 + h = i
      BY <1>1, <1>5, <2>2
    <3> HIDE DEF h
    <3>2. v[1 + h] = all[h] /\ LegalName(all[h].name)
      BY <1>2, <1>5, <3>1
    <3> QED
      BY <3>1, <3>2
  <2> QED
    BY <2>1, <2>2
<1>8. Len(u) <= Len(v)
  BY <1>1, <1>4, <1>5
<1>9. Agree(u, v)
  BY <1>4, <1>5, <1>6, <1>7, <1>8 DEF Agree
<1> QED
  BY <1>9 DEF u, v

\* FieldIllegal refuses what is not allowed behind what was sent.
LEMMA FieldsRefused ==
  ASSUME ListReads, NEW f \in Fields, LegalName(f.name)
  PROVE  FieldIllegal(f) <=> ~Allowed(f, sent)
<1> DEFINE list == lstHeaderFields
<1>1. /\ \A i \in 1 .. Len(list) : \E k \in 1 .. Len(sent) : sent[k].name = list[i].name
      /\ \A k \in 1 .. Len(sent) : \E i \in 1 .. Len(list) : list[i].name = sent[k].name
  BY DEF ListReads, SameNames
<1>2. DOMAIN list = 1 .. Len(list)
  BY DEF ListReads
<1>3. PseudoIllegal(f) <=> /\ f.name \in Pseudo
                           /\ \E i \in 1 .. Len(list) : list[i].name \notin Pseudo \ {f.name}
  BY <1>2 DEF PseudoIllegal, Named
<1> HIDE DEF list
<1>4. (\E i \in 1 .. Len(list) : list[i].name \notin Pseudo \ {f.name})
      <=> ~(\A k \in 1 .. Len(sent) : sent[k].name \in Pseudo \ {f.name})
  <2>1. ASSUME NEW i \in 1 .. Len(list), list[i].name \notin Pseudo \ {f.name}
        PROVE  ~(\A k \in 1 .. Len(sent) : sent[k].name \in Pseudo \ {f.name})
    <3>1. PICK k \in 1 .. Len(sent) : sent[k].name = list[i].name
      BY <1>1
    <3>2. sent[k].name \notin Pseudo \ {f.name}
      BY <2>1, <3>1
    <3> QED
      BY <3>2
  <2>2. ASSUME NEW k \in 1 .. Len(sent), sent[k].name \notin Pseudo \ {f.name}
        PROVE  \E i \in 1 .. Len(list) : list[i].name \notin Pseudo \ {f.name}
    <3>1. PICK i \in 1 .. Len(list) : list[i].name = sent[k].name
      BY <1>1
    <3>2. list[i].name \notin Pseudo \ {f.name}
      BY <2>2, <3>1
    <3> QED
      BY <3>2
  <2> QED
    BY <2>1, <2>2
<1> QED
  BY <1>3, <1>4 DEF FieldIllegal, Allowed

\* A field is added to the list, or refused.
LEMMA SendKeeps ==
  ASSUME Readable, HeaderInv, NEW f \in Fields, NEW w \in Instructions(f), Send(f, w)
  PROVE  HeaderInv'
<1>1. /\ status = "open" /\ TablesAgree /\ ListReads
      /\ sent' = Append(sent, f) /\ Http2DecodeHeader(w)
      /\ peer' \in IF w.kind = "incremental" THEN Beginnings(<<f>> \o peer) ELSE {peer}
  BY DEF HeaderInv, Send
<1>2. w.kind \in Kinds /\ HPackDecode(w) = IF LegalName(f.name) THEN f ELSE Refused
  BY <1>1, InstructionsRead DEF ReadsField
<1>3. sent \in Seq(Fields) /\ (WellFormed(sent') <=> Allowed(f, sent))
  BY <1>1, WellFormedMore DEF ListReads
<1>4. CASE ~LegalName(f.name)
  <2>1. status' = "refused"
    BY <1>1, <1>2, <1>4 DEF Http2DecodeHeader
  <2>2. ~WellFormed(sent')
    BY <1>3, <1>4 DEF Allowed
  <2> QED
    BY <2>1, <2>2 DEF HeaderInv
<1>5. CASE LegalName(f.name)
  <2>1. HPackDecode(w) = f /\ f # Refused
    <3>1. f.value # "error"
      BY FieldShape
    <3> QED
      BY <1>2, <1>5, <3>1 DEF Refused
  <2>2. /\ Insert(w, f) /\ nHeaderCount' = nHeaderCount + 1
        /\ IF FieldIllegal(f)
           THEN status' = "refused" /\ UNCHANGED lstHeaderFields
           ELSE lstHeaderFields' = AddField(f) /\ UNCHANGED status
    BY <1>1, <2>1 DEF Http2DecodeHeader
  <2>3. FieldIllegal(f) <=> ~Allowed(f, sent)
    BY <1>1, <1>5, FieldsRefused
  <2>4. CASE FieldIllegal(f)
    BY <1>3, <2>2, <2>3, <2>4 DEF HeaderInv
  <2>5. CASE ~FieldIllegal(f)
    <3>1. TablesAgree'
      <4>1. CASE w.kind = "incremental"
        <5>1. qDynTable' = <<f>> \o qDynTable /\ peer' \in Beginnings(<<f>> \o peer)
          BY <1>1, <2>2, <4>1 DEF Insert
        <5>2. Agree(<<f>> \o peer, <<f>> \o qDynTable)
          BY <1>1, <1>5, AgreeAfterInsertion DEF TablesAgree
        <5>3. Agree(peer', <<f>> \o qDynTable)
          BY <5>1, <5>2, AgreeAfterEviction
        <5> QED
          BY <5>1, <5>3 DEF TablesAgree
      <4>2. CASE w.kind # "incremental"
        <5>1. qDynTable' = qDynTable /\ peer' = peer
          BY <1>1, <2>2, <4>2 DEF Insert
        <5> QED
          BY <1>1, <5>1 DEF TablesAgree
      <4> QED
        BY <4>1, <4>2
    <3>2. ListReads'
      <4>1. lstHeaderFields' = AddField(f)
        BY <2>2, <2>5
      <4>2. /\ AddField(f) \in Seq(ListItem) /\ ReadAs(AddField(f), Append(sent, f))
            /\ SameNames(AddField(f), Append(sent, f))
        BY <1>1, <1>3, ListGrows DEF ListReads
      <4>3. sent' \in Seq(Fields) /\ Len(sent') = Len(sent) + 1
        BY <1>1, <1>3, OneMore
      <4>4. nHeaderCount' = Len(sent')
        BY <1>1, <2>2, <4>3 DEF ListReads
      <4>5. WellFormed(sent')
        BY <1>3, <2>3, <2>5
      <4> QED
        BY <1>1, <4>1, <4>2, <4>3, <4>4, <4>5 DEF ListReads
    <3> QED
      BY <1>1, <2>2, <2>5, <3>1, <3>2 DEF HeaderInv
  <2> QED
    BY <2>4, <2>5
<1> QED
  BY <1>4, <1>5

\* A change of the table size is read as it was sent.
LEMMA SizeUpdateKeeps ==
  ASSUME HeaderInv, NEW size \in TableSizes, SizeUpdate(size)
  PROVE  HeaderInv'
<1>1. size \in Nat
  BY HpackAssumption
<1>2. DecodeIndex(EncodeInteger(size, 31), 31) = size
  BY <1>1, IndexRead
<1> DEFINE legal == nHeaderCount = 0 /\ size <= HEADER_TABLE_SIZE
<1>3. /\ status = "open" /\ TablesAgree /\ ListReads
      /\ sent' = IF legal THEN sent ELSE Append(sent, [name |-> "update", value |-> ""])
      /\ peer' \in IF size = 0 THEN {<<>>} ELSE Beginnings(peer)
      /\ qDynTable' = IF legal /\ size = 0 THEN <<>> ELSE qDynTable
      /\ status' = IF legal THEN "open" ELSE "refused"
      /\ UNCHANGED <<lstHeaderFields, nHeaderCount>>
  BY <1>2 DEF HeaderInv, SizeUpdate
<1> HIDE DEF legal
<1>4. CASE ~legal
  <2>1. sent \in Seq(Fields)
    BY <1>3 DEF ListReads
  <2>2. ~WellFormed(sent')
    BY <1>3, <1>4, <2>1, UpdateIllegal
  <2> QED
    BY <1>3, <1>4, <2>2 DEF HeaderInv
<1>5. CASE legal
  <2>1. TablesAgree'
    <3>1. CASE size = 0
      <4>1. peer' = <<>> /\ qDynTable' = <<>>
        BY <1>3, <1>5, <3>1
      <4>2. Agree(<<>>, <<>>)
        BY DEF Agree
      <4> QED
        BY <4>1, <4>2 DEF TablesAgree
    <3>2. CASE size # 0
      <4>1. peer' \in Beginnings(peer) /\ qDynTable' = qDynTable
        BY <1>3, <3>2
      <4>2. Agree(peer', qDynTable)
        BY <1>3, <4>1, AgreeAfterEviction DEF TablesAgree
      <4> QED
        BY <4>1, <4>2 DEF TablesAgree
    <3> QED
      BY <3>1, <3>2
  <2>2. ListReads'
    <3>1. sent' = sent /\ nHeaderCount' = nHeaderCount /\ lstHeaderFields' = lstHeaderFields
      BY <1>3, <1>5
    <3> QED
      BY <1>3, <3>1 DEF ListReads
  <2> QED
    BY <1>3, <1>5, <2>1, <2>2 DEF HeaderInv
<1> QED
  BY <1>4, <1>5

\* Nothing was sent, nothing is read.
LEMMA NothingSent ==
  /\ WellFormed(<<>>)
  /\ <<>> \in Seq(ListItem) /\ <<>> \in Seq(Fields) /\ Len(<<>>) = 0
  /\ ReadAs(<<>>, <<>>) /\ SameNames(<<>>, <<>>)
<1>1. DOMAIN <<>> = {} /\ Len(<<>>) = 0 /\ 1 .. 0 = {}
  OBVIOUS
<1>2. WellFormed(<<>>)
  BY <1>1 DEF WellFormed
<1>3. <<>> \in Seq(ListItem) /\ <<>> \in Seq(Fields)
  OBVIOUS
<1>4. Shown(<<>>) = {}
  BY <1>1 DEF Shown
<1>5. ReadAs(<<>>, <<>>)
  BY <1>1, <1>4, FS_EmptySet DEF ReadAs
<1>6. SameNames(<<>>, <<>>)
  BY <1>1 DEF SameNames
<1> QED
  BY <1>1, <1>2, <1>3, <1>5, <1>6

\* A new block begins with an empty list.
LEMMA NextBlockKeeps == HeaderInv /\ NextBlock => HeaderInv'
<1> SUFFICES ASSUME HeaderInv, NextBlock PROVE HeaderInv'
  OBVIOUS
<1>1. /\ status = "open" /\ TablesAgree
      /\ sent' = <<>> /\ lstHeaderFields' = <<>> /\ nHeaderCount' = 0
      /\ peer' = peer /\ qDynTable' = qDynTable /\ status' = status
  BY DEF HeaderInv, NextBlock
<1>2. ListReads'
  BY <1>1, NothingSent DEF ListReads
<1>3. TablesAgree'
  BY <1>1 DEF TablesAgree
<1> QED
  BY <1>1, <1>2, <1>3 DEF HeaderInv

\* Both tables and the list begin empty.
LEMMA InitHeaders == HpackInit => HeaderInv
<1> SUFFICES ASSUME HpackInit PROVE HeaderInv
  OBVIOUS
<1>1. /\ peer = <<>> /\ qDynTable = <<>> /\ sent = <<>>
      /\ lstHeaderFields = <<>> /\ nHeaderCount = 0 /\ status = "open"
  BY DEF HpackInit
<1>2. Agree(<<>>, <<>>)
  BY DEF Agree
<1>3. ListReads
  BY <1>1, NothingSent DEF ListReads
<1> QED
  BY <1>1, <1>2, <1>3 DEF HeaderInv, TablesAgree

\* Every step keeps HeaderInv.
LEMMA StepHeaders == Readable /\ HeaderInv /\ [HpackNext]_hpackVars => HeaderInv'
<1> SUFFICES ASSUME Readable, HeaderInv, [HpackNext]_hpackVars PROVE HeaderInv'
  OBVIOUS
<1>1. CASE \E f \in Fields : \E w \in Instructions(f) : Send(f, w)
  BY <1>1, SendKeeps
<1>2. CASE \E size \in TableSizes : SizeUpdate(size)
  BY <1>2, SizeUpdateKeeps
<1>3. CASE NextBlock
  BY <1>3, NextBlockKeeps
<1>4. CASE UNCHANGED hpackVars
  BY <1>4 DEF hpackVars, HeaderInv, TablesAgree, ListReads
<1> QED
  BY <1>1, <1>2, <1>3, <1>4 DEF HpackNext

\* However a peer encodes its header blocks, and whatever it evicts, block after block: if
\* each character has a code that HufmanDecode looks for, every block is read as the fields
\* it was made of, and refused exactly if HTTP/2 does not allow them.
THEOREM HeadersAreDecoded ==
  ASSUME Readable
  PROVE  HpackSpec => []HeadersDecoded
<1>1. HeaderInv => HeadersDecoded
  BY DEF HeaderInv, HeadersDecoded, ListReads
<1>2. HeaderInv /\ [HpackNext]_hpackVars => HeaderInv'
  BY StepHeaders
<1> QED
  BY <1>1, <1>2, InitHeaders, PTL DEF HpackSpec
=============================================================================
