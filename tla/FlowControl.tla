---------------------------- MODULE FlowControl -----------------------------
(***************************************************************************)
(* The outgoing half of one HTTP/2 connection of CHttpServ.                *)
(*                                                                         *)
(* Every request is answered by a DoAction thread of its own, here a       *)
(* handler.  All handlers of a connection share its flow control window    *)
(* (stream 0 of StreamList) and divide it among themselves with            *)
(* reservations: maResWndSizes holds, per stream, the octets its handler   *)
(* is about to send and, under key 0, their sum.  A handler sends one      *)
(* frame with five separate steps, each of which takes pmtxStream for      *)
(* itself and releases it:                                                 *)
(*     look at the windows and reserve        (fnGetStreamWindowSize)      *)
(*     look at the send queue, re-reserve     (fnSendQueueReady)           *)
(*     write the frame, in one call or two    (no lock)                    *)
(*     take the octets off the windows        (fnUpdateStreamParam)        *)
(*     after the loop: drop the reservation   (fnResetReservierteWindow..) *)
(* The thread that reads the socket runs Http2StreamProto between any two  *)
(* of them: WINDOW_UPDATE, SETTINGS and RST_STREAM change the windows and  *)
(* the state of the streams, and closing the connection raises patStop; it *)
(* answers with frames of its own.  One call of fSocketWrite puts its      *)
(* octets on the wire together; two calls may have another thread's between*)
(* them, and then the client takes those for the payload it waits for.     *)
(***************************************************************************)
EXTENDS Integers, FiniteSets

CONSTANTS
  Stream,          \* ids of the client's streams (key 0 is kept apart)
  Handler,         \* the DoAction threads of the connection
  StreamOf,        \* nStreamId of each handler
  Kind,            \* which send loop of DoAction the handler runs
  Size,            \* octets of the body it has to send
  MaxWindow,       \* 2^31 - 1
  InitialWindow,   \* SETTINGS_INITIAL_WINDOW_SIZE before the peer sets it
  WindowSettings,  \* values the peer's SETTINGS_INITIAL_WINDOW_SIZE may take
  Increments,      \* values of the peer's WINDOW_UPDATE frames
  BufSize,         \* payload octets of a DATA frame: nSizeSendBuf - 9
  TailSize,        \* octets of CGI output kept for the END_STREAM frame (10)
  MaxRunning       \* bound: handlers that run at a time (no limit in the code)

Kinds == {"file", "gzip", "brotli", "cgi", "error"}

ASSUME ConstantsAssumption ==
  /\ IsFiniteSet(Stream)
  /\ StreamOf \in [Handler -> Stream]
  /\ Kind \in [Handler -> Kinds]
  /\ Size \in [Handler -> Nat]
  /\ MaxWindow \in Nat
  /\ InitialWindow \in 0 .. MaxWindow
  /\ WindowSettings \subseteq 0 .. (MaxWindow - 1)
  /\ Increments \subseteq 1 .. MaxWindow
  /\ BufSize \in Nat \ {0}
  /\ TailSize \in Nat

\* The encoders never produce an empty output, even for an empty file.
ASSUME EncoderAssumption ==
  \A h \in Handler : Kind[h] \in {"gzip", "brotli"} => Size[h] > 0

VARIABLES
  wnd0,      \* WINDOWSIZE of stream 0
  wnd,       \* WINDOWSIZE of the client's streams
  res0,      \* maResWndSizes[0]
  res,       \* maResWndSizes of the client's streams, 0 for a missing entry
  initWnd,   \* INITWINDOWSIZE(tuStreamSettings)
  open,      \* the streams StreamList holds
  reset,     \* the streams with the RESET_STREAM flag
  stop,      \* *patStop
  pc,        \* where each handler is
  seen,      \* nStreamWndSize, the window the handler looked at, and
  len,       \* nSendBufLen, the payload of its frame: 0 out of their scope
  rest,      \* octets of its buffer it has not sent yet
  todo,      \* octets the encoder, or the CGI process, has still to deliver
  tail,      \* nOffset, CGI octets kept for the last frame
  (* What the peer can observe (history variables, read by no action). *)
  peer0,     \* octets the peer still allows on the connection
  peer,      \* ... and on each stream
  free,      \* octets sent outside the accounting, less those accounted
             \* for and never sent
  spent,     \* per stream: octets written but not yet taken off the windows
  stale,     \* the handlers whose seen is older than a window reduction
  wire,      \* per stream: "open", "ended" by END_STREAM, DATA "after" that
  whole      \* no write came between the head and the payload of a frame

windows  == <<wnd0, wnd, initWnd>>
reserved == <<res0, res>>
conn     == <<open, reset, stop>>
frame    == <<seen, len>>
body     == <<rest, todo, tail>>
observed == <<peer0, peer, free, spent, stale, wire, whole>>
vars     == <<windows, reserved, conn, pc, frame, body, observed>>

PCs == {"idle", "headers", "fill", "test", "window", "queue", "write",
        "payload", "account", "release", "tail", "error", "errordata", "page",
        "exit", "done"}

MinOf(a, b) == IF a <= b THEN a ELSE b

Goto(h, l) == pc' = [pc EXCEPT ![h] = l]

-----------------------------------------------------------------------------
Init ==
  /\ wnd0 = InitialWindow
  /\ wnd = [s \in Stream |-> 0]
  /\ res0 = 0
  /\ res = [s \in Stream |-> 0]
  /\ initWnd = InitialWindow
  /\ open = {} /\ reset = {} /\ stop = FALSE
  /\ pc = [h \in Handler |-> "idle"]
  /\ seen = [h \in Handler |-> 0]
  /\ len = [h \in Handler |-> 0]
  /\ rest = [h \in Handler |-> 0]
  /\ todo = [h \in Handler |-> 0]
  /\ tail = [h \in Handler |-> 0]
  /\ peer0 = InitialWindow
  /\ peer = [s \in Stream |-> 0]
  /\ free = 0
  /\ spent = [s \in Stream |-> 0]
  /\ stale = {}
  /\ wire = [s \in Stream |-> "open"]
  /\ whole = TRUE

-----------------------------------------------------------------------------
(* The socket. *)

\* A write that is no second half of a frame: the frames stay whole if none of
\* the other threads is between the head of its frame and the payload.
CutsNone(others) ==
  whole' = (whole /\ \A g \in others : pc[g] \notin {"payload", "page"})

\* What the peer sees of a frame head of h on its stream (HEADERS or DATA).
OnWire(h, end) ==
  /\ wire' = [wire EXCEPT ![StreamOf[h]] = IF @ # "open" THEN "after"
                                           ELSE IF end THEN "ended" ELSE "open"]
  /\ CutsNone(Handler \ {h})

-----------------------------------------------------------------------------
(* The reading thread: Http2StreamProto under pmtxStream, one frame a step. *)

\* The HEADERS frame of a request: the stream exists from now on, with the
\* window in force.
Headers(s) ==
  /\ ~stop /\ s \notin open
  /\ open' = open \cup {s}
  /\ wnd'  = [wnd  EXCEPT ![s] = initWnd]
  /\ peer' = [peer EXCEPT ![s] = initWnd]
  /\ UNCHANGED <<wnd0, initWnd, reserved, reset, stop, pc, frame, body,
                 peer0, free, spent, stale, wire, whole>>

\* EndOfStreamAction starts the DoAction thread of a request, unless the
\* client has reset the stream meanwhile.
Dispatch(h) ==
  /\ pc[h] = "idle" /\ ~stop
  /\ StreamOf[h] \in open \ reset
  /\ Cardinality({g \in Handler : pc[g] \notin {"idle", "done"}}) < MaxRunning
  /\ rest' = [rest EXCEPT ![h] = IF Kind[h] = "file" THEN Size[h] ELSE 0]
  /\ todo' = [todo EXCEPT ![h] = IF Kind[h] = "file" THEN 0 ELSE Size[h]]
  /\ Goto(h, IF Kind[h] = "error" THEN "error" ELSE "headers")
  /\ UNCHANGED <<windows, reserved, conn, frame, tail, observed>>

\* WINDOW_UPDATE for the connection; one that lifts the window over 2^31-1
\* is answered with GOAWAY and the connection is closed.
WindowUpdate0(n) ==
  /\ ~stop
  /\ IF wnd0 + n > MaxWindow
     THEN stop' = TRUE /\ CutsNone(Handler) /\ UNCHANGED <<wnd0, peer0>>
     ELSE wnd0' = wnd0 + n /\ peer0' = peer0 + n /\ UNCHANGED <<stop, whole>>
  /\ UNCHANGED <<wnd, initWnd, reserved, open, reset, pc, frame, body,
                 peer, free, spent, stale, wire>>

\* WINDOW_UPDATE for a stream; one that is too large is answered with
\* RST_STREAM, which leaves the window (and the stream's flags) as they are.
WindowUpdate(s, n) ==
  /\ ~stop /\ s \in open
  /\ wnd[s] + n <= MaxWindow
  /\ wnd'  = [wnd  EXCEPT ![s] = @ + n]
  /\ peer' = [peer EXCEPT ![s] = @ + n]
  /\ UNCHANGED <<wnd0, initWnd, reserved, conn, pc, frame, body,
                 peer0, free, spent, stale, wire, whole>>

\* SETTINGS_INITIAL_WINDOW_SIZE shifts the window of every stream but 0, and
\* may make it negative; it is acknowledged.
SettingsInitialWindow(v) ==
  LET shift(f) == [s \in Stream |-> IF s \in open THEN f[s] + (v - initWnd)
                                                  ELSE f[s]] IN
  /\ ~stop
  /\ initWnd' = v
  /\ wnd' = shift(wnd)
  /\ peer' = shift(peer)
  /\ stale' = IF v < initWnd
              THEN stale \cup {h \in Handler : pc[h] \in {"queue", "write"}}
              ELSE stale
  /\ CutsNone(Handler)
  /\ UNCHANGED <<wnd0, reserved, conn, pc, frame, body,
                 peer0, free, spent, wire>>

RstStream(s) ==
  /\ ~stop /\ s \in open
  /\ reset' = reset \cup {s}
  /\ UNCHANGED <<windows, reserved, open, stop, pc, frame, body, observed>>

\* The connection is closed, times out or fails: patStop becomes TRUE.
StopConnection ==
  /\ ~stop /\ stop' = TRUE
  /\ UNCHANGED <<windows, reserved, open, reset, pc, frame, body, observed>>

\* Frames that change nothing here and are answered: PING with its ACK, what
\* is wrong with a stream with RST_STREAM.
Answer ==
  /\ ~stop /\ CutsNone(Handler)
  /\ UNCHANGED <<windows, reserved, conn, pc, frame, body,
                 peer0, peer, free, spent, stale, wire>>

-----------------------------------------------------------------------------
(* The handlers. *)

ReserveOnTop(s, n) ==         \* mutant: the old entry stays in the sum
  res' = [res EXCEPT ![s] = n] /\ res0' = res0 + n

\* Drop whatever maResWndSizes holds for stream s, then enter n for it (no
\* entry is made for 0); key 0 keeps the sum.
Reserve(s, n) ==
  /\ res'  = [res EXCEPT ![s] = n]
  /\ res0' = (res0 - res[s]) + n

\* The HEADERS of the response, in one write.  Those of a CGI's are sent when
\* the process has written its header, which no stop has kept it from.
Respond(h) ==
  /\ pc[h] = "headers"
  /\ Kind[h] = "cgi" => ~stop
  /\ IF StreamOf[h] \in reset THEN UNCHANGED whole ELSE CutsNone(Handler \ {h})
  /\ Goto(h, IF Kind[h] = "file" THEN "test" ELSE "fill")
  /\ UNCHANGED <<windows, reserved, conn, frame, body,
                 peer0, peer, free, spent, stale, wire>>

\* fnAfterCgi for a process that ended without a header: HEADERS that say so
\* and end the stream.  One that is abandoned gets no answer.
NoHeader(h) ==
  /\ pc[h] = "headers" /\ Kind[h] = "cgi"
  /\ IF stop \/ StreamOf[h] \in reset
     THEN UNCHANGED <<wire, whole>> ELSE OnWire(h, TRUE)
  /\ Goto(h, "exit")
  /\ UNCHANGED <<windows, reserved, conn, frame, body,
                 peer0, peer, free, spent, stale>>

\* The next output buffer: one chunk of the compressed file, or what the CGI
\* process has written.  deflate fills the buffer as long as it can, brotli
\* and a CGI process deliver what they like.  Of CGI output, the last octets
\* are kept back for the frame with END_STREAM, and as long as there is some
\* nobody asks whether the stream was reset.
Fill(h) ==
  /\ pc[h] = "fill"
  /\ todo[h] > 0 /\ ~stop
  /\ Kind[h] = "cgi" \/ StreamOf[h] \notin reset
  /\ \E n \in 1 .. MinOf(BufSize, todo[h]) :
       LET kept == IF Kind[h] = "cgi" THEN MinOf(tail[h] + n, TailSize) ELSE 0
       IN  /\ Kind[h] = "gzip" => n = MinOf(BufSize, todo[h])
           /\ todo' = [todo EXCEPT ![h] = @ - n]
           /\ tail' = [tail EXCEPT ![h] = kept]
           /\ rest' = [rest EXCEPT ![h] = (tail[h] + n) - kept]
  /\ Goto(h, "test")
  /\ UNCHANGED <<windows, reserved, conn, frame, observed>>

FillEndPlain(h) ==            \* mutant: no fnAfterCgi
  /\ pc[h] = "fill" /\ (todo[h] = 0 \/ stop \/ StreamOf[h] \in reset)
  /\ Goto(h, "exit")
  /\ UNCHANGED <<windows, reserved, conn, frame, body, observed>>

\* Nothing left to convert, or nobody left to send it to.  A CGI process is
\* abandoned in the latter case; otherwise fnAfterCgi sends the last frame.
FillEnd(h) ==
  /\ pc[h] = "fill"
  /\ todo[h] = 0 \/ stop \/ StreamOf[h] \in reset
  /\ Goto(h, IF Kind[h] = "cgi" /\ ~stop /\ StreamOf[h] \notin reset
             THEN "tail" ELSE "exit")
  /\ UNCHANGED <<windows, reserved, conn, frame, body, observed>>

ContinuesStopped(h) ==        \* mutant: patStop is not asked
  rest[h] > 0 /\ (Kind[h] = "cgi" \/ StreamOf[h] \notin reset)

ContinuesReset(h) ==          \* mutant: a reset of the stream is not asked
  rest[h] > 0 /\ ~stop

\* The condition of the send loop.  That of fnSendOutput, the loop for CGI
\* output, does not ask whether the stream was reset.
Continues(h) ==
  /\ rest[h] > 0 /\ ~stop
  /\ Kind[h] = "cgi" \/ StreamOf[h] \notin reset

Test(h) ==
  /\ pc[h] = "test"
  /\ Goto(h, IF Continues(h) THEN "window" ELSE "release")
  /\ UNCHANGED <<windows, reserved, conn, frame, body, observed>>

AvailableUnreserved(s) ==     \* mutant: the others' reservations count as free
  MinOf(wnd[s], wnd0)

AvailableConn(s) ==           \* mutant: the stream's own window is not asked
  wnd0 - (res0 - res[s])

\* Of the stream's window and of what the others have not reserved of the
\* connection's, the smaller.
Available(s) == MinOf(wnd[s], wnd0 - (res0 - res[s]))

\* fnGetStreamWindowSize: all that is available is reserved.
Window(h) ==
  LET s == StreamOf[h]
      avail == Available(s) IN
  /\ pc[h] = "window"
  /\ seen' = [seen EXCEPT ![h] = avail]
  /\ Reserve(s, IF avail > 0 THEN avail ELSE 0)
  /\ Goto(h, "queue")
  /\ UNCHANGED <<windows, conn, len, body, observed>>

\* The payload of the next frame; 0 without a window, or with 2 MB waiting in
\* the socket (full).
FrameSize(h, full) ==
  IF full \/ seen[h] <= 0 THEN 0 ELSE MinOf(MinOf(BufSize, rest[h]), seen[h])

\* fnSendQueueReady: the frame's size is settled and only that stays
\* reserved; a frame of size 0 is not sent and the loop is tried again.
QueueReady(h, full) ==
  LET n == FrameSize(h, full) IN
  /\ pc[h] = "queue"
  /\ len' = [len EXCEPT ![h] = n]
  /\ seen' = [seen EXCEPT ![h] = 0]
  /\ Reserve(StreamOf[h], n)
  /\ stale' = IF n = 0 THEN stale \ {h} ELSE stale
  /\ Goto(h, IF n = 0 THEN "test" ELSE "write")
  /\ UNCHANGED <<windows, conn, body, peer0, peer, free, spent, wire, whole>>

EndFlagEarly(h) ==            \* mutant: on every frame of the last chunk
  IF Kind[h] = "file" THEN rest[h] = len[h] ELSE todo[h] = 0

\* The END_STREAM flag of the frame being built, by send loop.  deflate's
\* last chunk is marked on its last frame, brotli's on all of its frames.
EndFlag(h) ==
  \/ Kind[h] = "file"   /\ rest[h] = len[h]
  \/ Kind[h] = "gzip"   /\ todo[h] = 0 /\ rest[h] = len[h]
  \/ Kind[h] = "brotli" /\ todo[h] = 0

\* fSocketWrite, with no lock held: head and payload together, but for a file,
\* of which this is the head.  fnSendOutput asks for a reset once more and,
\* when there was one, skips the write but not the accounting.
Write(h) ==
  LET s == StreamOf[h] IN
  /\ pc[h] = "write"
  /\ IF Kind[h] = "cgi" /\ s \in reset
     THEN free' = free - len[h] /\ UNCHANGED <<peer0, peer, wire, whole>>
     ELSE /\ peer0' = peer0 - len[h]
          /\ peer' = [peer EXCEPT ![s] = @ - len[h]]
          /\ OnWire(h, EndFlag(h))
          /\ UNCHANGED free
  /\ spent' = [spent EXCEPT ![s] = @ + len[h]]
  /\ stale' = stale \ {h}
  /\ Goto(h, IF Kind[h] = "file" THEN "payload" ELSE "account")
  /\ UNCHANGED <<windows, reserved, conn, frame, body>>

\* The second write of a file's frame.
Payload(h) ==
  /\ pc[h] = "payload"
  /\ Goto(h, "account")
  /\ UNCHANGED <<windows, reserved, conn, frame, body, observed>>

\* fnUpdateStreamParam, and the counters of the loop after it.
Account(h) ==
  LET s == StreamOf[h] IN
  /\ pc[h] = "account"
  /\ Reserve(s, 0)
  /\ wnd0' = wnd0 - len[h]
  /\ wnd' = [wnd EXCEPT ![s] = @ - len[h]]
  /\ spent' = [spent EXCEPT ![s] = @ - len[h]]
  /\ rest' = [rest EXCEPT ![h] = @ - len[h]]
  /\ len' = [len EXCEPT ![h] = 0]
  /\ Goto(h, "test")
  /\ UNCHANGED <<initWnd, conn, seen, todo, tail, peer0, peer, free, stale, wire,
                 whole>>

\* fnResetReservierteWindowSize, after the send loop.
Release(h) ==
  /\ pc[h] = "release"
  /\ Reserve(StreamOf[h], 0)
  /\ Goto(h, IF Kind[h] = "file" THEN "exit" ELSE "fill")
  /\ UNCHANGED <<windows, conn, frame, body, observed>>

\* fnAfterCgi: the octets kept back, with END_STREAM.  Neither the windows
\* nor the reservations are asked.
Tail(h) ==
  LET s == StreamOf[h] IN
  /\ pc[h] = "tail"
  /\ IF s \in reset
     THEN UNCHANGED <<peer0, peer, free, wire, whole>>
     ELSE /\ peer0' = peer0 - tail[h]
          /\ peer' = [peer EXCEPT ![s] = @ - tail[h]]
          /\ free' = free + tail[h]
          /\ OnWire(h, TRUE)
  /\ Goto(h, "exit")
  /\ UNCHANGED <<windows, reserved, conn, frame, body, spent, stale>>

\* SendErrorRespons writes three times: HEADERS, which end the stream if there
\* is no page, the head of the one frame that the page is, and the page.
\* Neither the windows nor a reset are asked.
ErrorHeaders(h) ==
  /\ pc[h] = "error"
  /\ IF Size[h] = 0
     THEN OnWire(h, TRUE) /\ Goto(h, "exit")
     ELSE CutsNone(Handler \ {h}) /\ UNCHANGED wire /\ Goto(h, "errordata")
  /\ UNCHANGED <<windows, reserved, conn, frame, body,
                 peer0, peer, free, spent, stale>>

ErrorHead(h) ==
  /\ pc[h] = "errordata"
  /\ peer0' = peer0 - Size[h]
  /\ peer' = [peer EXCEPT ![StreamOf[h]] = @ - Size[h]]
  /\ free' = free + Size[h]
  /\ OnWire(h, TRUE)
  /\ Goto(h, "page")
  /\ UNCHANGED <<windows, reserved, conn, frame, body, spent, stale>>

ErrorPage(h) ==
  /\ pc[h] = "page"
  /\ Goto(h, "exit")
  /\ UNCHANGED <<windows, reserved, conn, frame, body, observed>>

\* fuExitDoAction marks the stream as reset: nothing is left to do on it.
Exit(h) ==
  /\ pc[h] = "exit"
  /\ reset' = reset \cup {StreamOf[h]}
  /\ rest' = [rest EXCEPT ![h] = 0]
  /\ todo' = [todo EXCEPT ![h] = 0]
  /\ tail' = [tail EXCEPT ![h] = 0]
  /\ Goto(h, "done")
  /\ UNCHANGED <<windows, reserved, open, stop, frame, observed>>

HandlerStep(h) ==
  \/ Respond(h) \/ NoHeader(h)
  \/ Fill(h) \/ FillEnd(h) \/ Test(h) \/ Window(h)
  \/ \E full \in BOOLEAN : QueueReady(h, full)
  \/ Write(h) \/ Payload(h) \/ Account(h) \/ Release(h)
  \/ Tail(h) \/ ErrorHeaders(h) \/ ErrorHead(h) \/ ErrorPage(h) \/ Exit(h)

ReaderStep ==
  \/ \E s \in Stream : Headers(s)
  \/ \E h \in Handler : Dispatch(h)
  \/ \E n \in Increments : WindowUpdate0(n)
  \/ \E s \in Stream, n \in Increments : WindowUpdate(s, n)
  \/ \E v \in WindowSettings : SettingsInitialWindow(v)
  \/ \E s \in Stream : RstStream(s)
  \/ StopConnection \/ Answer

Next == ReaderStep \/ \E h \in Handler : HandlerStep(h)

Spec == Init /\ [][Next]_vars

-----------------------------------------------------------------------------
TypeOK ==
  /\ wnd0 \in Int /\ wnd \in [Stream -> Int] /\ initWnd \in 0 .. MaxWindow
  /\ res0 \in Int /\ res \in [Stream -> Nat]
  /\ open \subseteq Stream /\ reset \subseteq Stream /\ stop \in BOOLEAN
  /\ pc \in [Handler -> PCs]
  /\ seen \in [Handler -> Int] /\ len \in [Handler -> Nat]
  /\ rest \in [Handler -> Nat] /\ todo \in [Handler -> Nat]
  /\ tail \in [Handler -> Nat]
  /\ peer0 \in Int /\ peer \in [Stream -> Int]
  /\ free \in Int /\ spent \in [Stream -> Int]
  /\ stale \subseteq Handler
  /\ wire \in [Stream -> {"open", "ended", "after"}] /\ whole \in BOOLEAN

\* The sum of f over the streams, counted rather than added up: one pair
\* <<s, i>> for each of the f[s] units of s.
Units(f) == UNION {{s} \X (1 .. f[s]) : s \in Stream}
Total(f) == Cardinality(Units(f))

\* maResWndSizes[0] is the sum of all other entries, in every interleaving of
\* the five places that change the map: it can neither leak window (the
\* connection would starve) nor drop below 0 (the uint64 would wrap).
ReservationsMatch == res0 = Total(res)

\* A request is dispatched once.  Trailers after DATA dispatch it twice, and
\* then two handlers share the one entry their stream has in maResWndSizes.
OneHandlerPerStream ==
  \A g, h \in Handler : StreamOf[g] = StreamOf[h] => g = h

\* Why the window each handler looked at is still its own when it writes (the
\* inductive invariant behind ConnWindowRespected): the entry of its stream
\* is the window it saw, then the frame it settled on, until that is taken
\* off the windows; all entries together fit into the connection's window.
FrameIsReserved(h) ==
  LET s == StreamOf[h] IN
  /\ pc[h] = "queue" /\ seen[h] > 0 => res[s] = seen[h]
  /\ pc[h] \in {"write", "payload", "account"} => res[s] = len[h]
  /\ spent[s] = IF pc[h] \in {"payload", "account"} THEN len[h] ELSE 0

ReservedFitsWindow ==
  /\ \A h \in Handler : FrameIsReserved(h)
  /\ \A s \in Stream : spent[s] \in 0 .. res[s]
  /\ res0 <= wnd0
  /\ wnd0 = peer0 + free + Total(spent)

\* What handlers use of the connection's window is reserved, once, and there.
WindowsReserved == ReservationsMatch /\ ReservedFitsWindow

\* All handlers together never send more on the connection than the peer has
\* granted, the frames that bypass the accounting apart (fnAfterCgi,
\* SendErrorRespons): the window each one looked at is still its own when it
\* writes, because it is reserved.
ConnWindowRespected == peer0 + free >= 0

\* A frame about to be written fits the window of its stream, unless SETTINGS
\* made the window smaller after the handler looked at it.
StreamWindowRespected ==
  \A h \in Handler :
    pc[h] = "write" /\ h \notin stale => len[h] <= peer[StreamOf[h]]

\* No DATA frame follows a frame with END_STREAM on the same stream
\* (Http2StreamProto treats it as a connection error: STREAM_CLOSED).  Not so
\* for brotli, which marks every frame its last chunk is cut into.
NothingAfterEnd ==
  \A h \in Handler : Kind[h] # "brotli" => wire[StreamOf[h]] # "after"

\* A handler that ends while nobody stopped it has ended the stream for the
\* client, too.  Not so for an empty file, which no frame is sent for.
ResponseEnded ==
  \A h \in Handler :
    pc[h] = "exit" /\ ~stop /\ StreamOf[h] \notin reset
    /\ ~(Kind[h] = "file" /\ Size[h] = 0)
      => wire[StreamOf[h]] # "open"

\* As long as the client can tell the frames apart, every response ends its
\* stream, once, however the windows cut it and the writes of the handlers and
\* the reading thread follow each other.
EndsOnce == whole => NothingAfterEnd /\ ResponseEnded

\* The client can always tell the frames apart.  The code does not keep it: the
\* two writes of a file's frame, or of an error page's, have no lock over them.
FramesWhole == whole

\* The connection's window as the abstract specification sees it: what the
\* peer allows, had only accounted octets been sent.
Credit == INSTANCE ConnCredit
            WITH InitialCredit <- InitialWindow, credit <- peer0 + free
CreditSpec == Credit!Spec

-----------------------------------------------------------------------------
\* A thread that can run runs (the handlers' only waiting is a 5 us sleep).
FairHandlers == \A h \in Handler : WF_vars(HandlerStep(h))

\* A peer that keeps reading gives back the windows, and drains the socket: a
\* handler that keeps finding window does not find a full queue each time (no
\* property of the server: only ResponsesComplete assumes it).
FairPeer ==
  /\ \A h \in Handler : SF_vars(seen[h] > 0 /\ QueueReady(h, FALSE))
  /\ WF_vars(\E n \in Increments : wnd0 + n <= MaxWindow /\ WindowUpdate0(n))
  /\ \A s \in Stream : WF_vars(\E n \in Increments : WindowUpdate(s, n))

FairSpec == Spec /\ FairHandlers

Over(h) == pc[h] \in {"idle", "done"}

\* Once patStop is set every handler ends (OnSocketClosing and the destructor
\* wait for that), whatever the windows are.
StopEndsHandlers == stop ~> \A h \in Handler : Over(h)

\* Once the client has reset a stream its handler ends, but for the loop of a
\* CGI's output, which goes on until the process has closed it.
ResetEndsHandler ==
  \A h \in {x \in Handler : Kind[x] # "cgi"} : StreamOf[h] \in reset ~> Over(h)

\* No handler waits for window longer than somebody waits for its response.
HandlersEnd == StopEndsHandlers /\ ResetEndsHandler

\* On a connection that is not stopped, and with a peer that gives window
\* back, every response is sent to its end: no handler waits for a
\* reservation that nobody will drop.
ResponsesComplete ==
  FairPeer /\ []~stop => \A h \in Handler : ~Over(h) ~> Over(h)
=============================================================================
