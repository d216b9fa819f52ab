----------------------------- MODULE HttpProxy ------------------------------
(***************************************************************************)
(* The forward proxy (CHttpProxy): clients' connections, and for each the  *)
(* socket to the destination of its current request.                       *)
(*                                                                         *)
(* Two lists, both under m_mtxConnections, tie the sockets together:       *)
(* m_vConnections a client's to the destination's, m_vReferencList a       *)
(* destination's to its client's.  A request for another destination than  *)
(* the last closes that socket and opens a new one; a destination that     *)
(* ends closes its client, and a client that ends its destination.         *)
(*                                                                         *)
(* Of the socket library is assumed that it calls back on threads of its   *)
(* own, for one socket's data one call at a time; and that every Close has *)
(* the close callback called, that bound last: Delete is called from no    *)
(* other place.                                                            *)
(***************************************************************************)
EXTENDS Integers, Sequences, FiniteSetsExt, SequencesExt

CONSTANTS
  Conn,         \* the clients' sockets
  Host,         \* the destinations
  Name,         \* their names: the port is not part of them
  MaxRequests, MaxDest,   \* bounds, each for a connection
  Bodies,       \* how long a request's body may be
  LaterBodies,  \* whether other requests than the first have a body
  ConnectFails  \* where Connect may fail at once: "first", "switch"

NoHost == "none"     \* the destination of a line without one
NoName == ""

ASSUME ProxyAssumption ==
  /\ IsFiniteSet(Conn) /\ NoHost \notin Host /\ DOMAIN Name = Host
  /\ {MaxRequests, MaxDest} \subseteq Nat \ {0} /\ Bodies \subseteq Nat
  /\ LaterBodies \in BOOLEAN /\ ConnectFails \subseteq {"first", "switch"}

VARIABLES
  m_vConnections, m_vReferencList,
  details,   \* CONNECTIONDETAILS, and of them
  pClientSocket,  \* the number of the destination's socket, 0 for nullptr
  lock,      \* m_mtxConnections, where it outlives the last use of a list
  sock,      \* the clients' sockets: "new", "open", "closed" by Close
  relay,     \* those whose callback for data is OnDataRecievedClient
  held,      \* what OnDataReceived has read before it gets the mutex
  timer, closer,  \* each connection's timer, and its OnSocketClosing
  dst,       \* the destinations' sockets
  host,      \* what they are connected to
  inbox,     \* what was written to them
  back,      \* what they have for the client
  dheld,     \* what OnDataRecievedDest has read before it gets the mutex
  server,    \* Stop and the destructor
  asked, sent, nread,  \* the requests of a client, their bytes, those read
  replied,   \* the last request a destination has answered
  got,       \* what came to the client
  late,      \* strBuffer was extended after it had been passed on
  crashed    \* a nullptr was used

lists == <<m_vConnections, m_vReferencList, details, pClientSocket>>
ends == <<sock, relay, timer, closer>>
dests == <<dst, host, inbox, back, dheld>>
client == <<asked, sent, nread, replied, got>>
vars == <<lists, lock, ends, held, dests, server, client, late, crashed>>

Free == {}
Dest == Conn \X (1 .. MaxDest)
Owner(d) == d[1]
Current(c) == <<c, pClientSocket[c]>>

\* A header in two halves, and octets of a body.  bare: without its host.
Token(r, p) == [req |-> r, part |-> p, bare |-> FALSE]
HeaderOf(r) == <<Token(r, 1), Token(r, 2)>>
BodyOf(r, n) == [i \in 1 .. n |-> Token(r, 2 + i)]

Answer(r) == <<[req |-> r, part |-> 1], [req |-> r, part |-> 2]>>
Established == [req |-> 0, part |-> 200]
BadGateway == [req |-> 0, part |-> 502]

NewDetails == [strBuffer |-> <<>>, connect |-> FALSE, to |-> NoName,
               bConncted |-> FALSE, bAnswerd |-> FALSE]

Init ==
  /\ m_vConnections = {} /\ m_vReferencList = {} /\ lock = Free
  /\ details = [c \in Conn |-> NewDetails] /\ pClientSocket = [c \in Conn |-> 0]
  /\ sock = [c \in Conn |-> "new"] /\ relay = {}
  /\ held = [c \in Conn |-> <<>>]
  /\ timer = [c \in Conn |-> "none"] /\ closer = [c \in Conn |-> "none"]
  /\ dst = [d \in Dest |-> "none"] /\ host = [d \in Dest |-> NoHost]
  /\ inbox = [d \in Dest |-> <<>>] /\ back = [d \in Dest |-> <<>>]
  /\ dheld = [d \in Dest |-> <<>>]
  /\ server = "runs"
  /\ asked = [c \in Conn |-> <<>>] /\ sent = [c \in Conn |-> <<>>]
  /\ nread = [c \in Conn |-> 0] /\ replied = [c \in Conn |-> 0]
  /\ got = [c \in Conn |-> <<>>]
  /\ late = {} /\ crashed = FALSE

-----------------------------------------------------------------------------
(* The client, which waits for each answer, and the destinations *)

Finished(c) == Cardinality({i \in DOMAIN got[c] : got[c][i].part \in {2, 502}})

\* A tunnel is asked for first, and for the rest of the connection.
Ask(c, h, body, connect) ==
  LET r == Len(asked[c]) + 1 IN
  /\ sock[c] = "open" /\ r <= MaxRequests /\ Finished(c) >= r - 1
  /\ connect => r = 1 /\ body > 0
  /\ r > 1 => ~asked[c][1].connect /\ (body > 0 => LaterBodies)
  /\ asked' = [asked EXCEPT ![c] = Append(@, [host |-> h, body |-> body, connect |-> connect])]
  /\ sent' = [sent EXCEPT ![c] =
                @ \o HeaderOf(r) \o (IF connect THEN <<>> ELSE BodyOf(r, body))]
  /\ UNCHANGED <<lists, lock, ends, held, dests, server, nread, replied, got, late,
                 crashed>>

\* What goes through the tunnel once it is there.
SendThrough(c) ==
  /\ sock[c] = "open" /\ got[c] = <<Established>> /\ Len(sent[c]) = 2
  /\ sent' = [sent EXCEPT ![c] = @ \o BodyOf(1, asked[c][1].body)]
  /\ UNCHANGED <<lists, lock, ends, held, dests, server, asked, nread, replied, got, late,
                 crashed>>

\* A destination has the whole request, and answers no other.
Arrived(d, r) ==
  \A p \in 1 .. 2 + asked[Owner(d)][r].body :
    \E i \in DOMAIN inbox[d] : inbox[d][i].req = r /\ inbox[d][i].part = p

DestAnswers(d, r) ==
  LET c == Owner(d) IN
  /\ dst[d] = "open" /\ r \in DOMAIN asked[c] /\ r > replied[c] /\ Arrived(d, r)
  /\ replied' = [replied EXCEPT ![c] = r]
  /\ back' = [back EXCEPT ![d] = @ \o Answer(r)]
  /\ UNCHANGED <<lists, lock, ends, held, dst, host, inbox, dheld, server, asked, sent,
                 nread, got, late, crashed>>

-----------------------------------------------------------------------------
(* What the callbacks have in common *)

Stopped(C) == [c \in Conn |-> IF c \in C /\ timer[c] = "runs" THEN "stops" ELSE timer[c]]
Closed(C) == [c \in Conn |-> IF c \in C /\ sock[c] = "open" THEN "closed" ELSE sock[c]]

\* Nothing comes through a socket that was closed.
Told(c, answer) ==
  IF sock[c] = "open" THEN [got EXCEPT ![c] = @ \o answer] ELSE got

HeaderEnds(buf) == {i \in DOMAIN buf : buf[i].part = 2}

\* The request line at the beginning, and that line without its host.
HostOf(c, buf) == IF buf[1].bare THEN NoHost ELSE asked[c][buf[1].req].host
NameOf(h) == IF h = NoHost THEN NoName ELSE Name[h]
Bare(buf) == [buf EXCEPT ![1].bare = TRUE]

RefusedSilently(c) == got   \* mutant: nothing is written
Refused(c) == Told(c, <<BadGateway>>)

\* A new socket for h takes the place of pClientSocket; one whose Connect
\* fails at once leaves nothing behind.  socks: the sockets as they are then.
MayFail(where) == IF where \in ConnectFails THEN BOOLEAN ELSE {FALSE}
ConnectTo(c, h, socks, fails) ==
  IF fails
  THEN /\ pClientSocket' = [pClientSocket EXCEPT ![c] = 0]
       /\ dst' = socks
       /\ got' = Refused(c)
       /\ UNCHANGED <<m_vReferencList, host>>
  ELSE \E n \in 1 .. MaxDest :
       /\ dst[<<c, n>>] = "none" /\ \A k \in 1 .. n - 1 : dst[<<c, k>>] # "none"
       /\ pClientSocket' = [pClientSocket EXCEPT ![c] = n]
       /\ dst' = [socks EXCEPT ![<<c, n>>] = "connecting"]
       /\ host' = [host EXCEPT ![<<c, n>>] = h]
       /\ m_vReferencList' = m_vReferencList \cup {<<c, n>>}
       /\ UNCHANGED got

-----------------------------------------------------------------------------
(* Callbacks of the clients' sockets *)

OnNewConnection(c) ==
  /\ server = "runs" /\ sock[c] = "new" /\ lock = Free
  /\ sock' = [sock EXCEPT ![c] = "open"]
  /\ timer' = [timer EXCEPT ![c] = "runs"]
  /\ m_vConnections' = m_vConnections \cup {c}
  /\ UNCHANGED <<m_vReferencList, details, pClientSocket, lock, relay, held, closer, dests,
                 server, client, late, crashed>>

Available(c) == SubSeq(sent[c], nread[c] + 1, Len(sent[c]))

\* OnDataReceived reads before it takes the mutex.
Read(c, n) ==
  /\ sock[c] = "open" /\ c \notin relay /\ held[c] = <<>> /\ n \in DOMAIN Available(c)
  /\ held' = [held EXCEPT ![c] = SubSeq(Available(c), 1, n)]
  /\ nread' = [nread EXCEPT ![c] = @ + n]
  /\ UNCHANGED <<lists, lock, ends, dests, server, asked, sent, replied, got, late,
                 crashed>>

HandleData(c) ==
  LET buf == details[c].strBuffer \o held[c]
      known == c \in m_vConnections
      det == [details[c] EXCEPT !.strBuffer = buf] IN
  /\ held[c] # <<>> /\ lock = Free
  /\ held' = [held EXCEPT ![c] = <<>>]
  /\ \/ /\ ~known /\ UNCHANGED <<lists, dst, host, got, late>>
     \/ /\ known /\ (pClientSocket[c] # 0 \/ HeaderEnds(buf) = {})
        /\ details' = [details EXCEPT ![c] = det]
        /\ late' = IF det.bConncted THEN late \cup {c} ELSE late
        /\ UNCHANGED <<m_vConnections, m_vReferencList, pClientSocket, dst, host, got>>
     \/ /\ known /\ pClientSocket[c] = 0 /\ HeaderEnds(buf) # {}
        /\ LET h == HostOf(c, buf)
               connect == asked[c][buf[1].req].connect
               line == IF connect THEN buf ELSE Bare(buf) IN
           /\ details' = [details EXCEPT ![c] = [det EXCEPT !.strBuffer = line,
                                                  !.connect = connect, !.to = NameOf(h)]]
           /\ \E fails \in MayFail("first") : ConnectTo(c, h, dst, fails)
        /\ UNCHANGED <<m_vConnections, late>>
  /\ UNCHANGED <<lock, ends, inbox, back, dheld, server, asked, sent, nread, replied,
                 crashed>>

\* Where the loop of OnDataRecievedClient stops: before the first header for
\* another destination than the last request's, or behind the last header.
Begins(buf) == {1} \cup {i + 1 : i \in HeaderEnds(buf)}
Headers(buf) == {i \in Begins(buf) : \E j \in HeaderEnds(buf) : i <= j}
Others(c, buf) ==
  {i \in Headers(buf) : NameOf(HostOf(c, SubSeq(buf, i, Len(buf)))) # details[c].to}
LoopEnd(c, buf) == IF Others(c, buf) = {} THEN Max(Begins(buf)) ELSE Min(Others(c, buf))

\* The lines that are gone through lose their host.
BareLines(buf, last) ==
  [i \in DOMAIN buf |->
     IF i \in Headers(buf) /\ i <= last THEN [buf[i] EXCEPT !.bare = TRUE] ELSE buf[i]]

Write(d, bytes) == [inbox EXCEPT ![d] = @ \o bytes]

\* Close, before or after the socket is connected; its close callback is then
\* SocketClosingDelete.
Closing == {"dropped", "closing"}
Close(d) == [dst EXCEPT ![d] = IF @ = "connecting" THEN "dropped" ELSE "closing"]

\* Once the destination has answered the data is gone through for a request
\* to another one, otherwise it is passed on as it is.
RelayClient(c, n) ==
  LET data == SubSeq(Available(c), 1, n)
      buf == details[c].strBuffer \o data
      last == LoopEnd(c, buf)
      lines == BareLines(buf, last)
      det == [details[c] EXCEPT !.strBuffer = SubSeq(lines, last, Len(buf))] IN
  /\ c \in relay /\ sock[c] = "open" /\ held[c] = <<>> /\ lock = Free
  /\ c \in m_vConnections /\ n \in DOMAIN Available(c)
  /\ IF pClientSocket[c] = 0
     THEN /\ crashed' = TRUE
          /\ UNCHANGED <<m_vReferencList, details, pClientSocket, dst, host, inbox, nread,
                         got>>
     ELSE /\ nread' = [nread EXCEPT ![c] = @ + n] /\ UNCHANGED crashed
          /\ \/ /\ ~details[c].bAnswerd \/ details[c].connect
                /\ inbox' = Write(Current(c), data)
                /\ UNCHANGED <<m_vReferencList, details, pClientSocket, dst, host, got>>
             \/ /\ details[c].bAnswerd /\ ~details[c].connect
                /\ inbox' = Write(Current(c), SubSeq(lines, 1, last - 1))
                /\ IF Others(c, buf) = {}
                   THEN /\ details' = [details EXCEPT ![c] = det]
                        /\ UNCHANGED <<m_vReferencList, pClientSocket, dst, host, got>>
                   ELSE LET h == HostOf(c, SubSeq(buf, last, Len(buf))) IN
                        /\ details' = [details EXCEPT ![c] =
                                         [det EXCEPT !.to = NameOf(h), !.bConncted = FALSE]]
                        /\ \E fails \in MayFail("switch") :
                             ConnectTo(c, h, Close(Current(c)), fails)
  /\ UNCHANGED <<m_vConnections, lock, ends, held, back, dheld, server, asked, sent,
                 replied, late>>

\* Neither callback for data finds any, or the library reports an error.
ClientEnds(c) ==
  /\ sock[c] = "open" /\ held[c] = <<>> /\ Available(c) = <<>>
  /\ sock' = Closed({c})
  /\ UNCHANGED <<lists, lock, relay, timer, closer, held, dests, server, client, late,
                 crashed>>

OnSocketError(c) ==
  /\ sock[c] = "open" /\ lock = Free
  /\ sock' = Closed({c}) /\ timer' = Stopped({c} \cap m_vConnections)
  /\ UNCHANGED <<lists, lock, relay, closer, held, dests, server, client, late, crashed>>

\* The timer's thread calls back; a Stop is too late for it then.
Fire(c) ==
  /\ timer[c] = "runs"
  /\ timer' = [timer EXCEPT ![c] = "fires"]
  /\ UNCHANGED <<lists, lock, sock, relay, closer, held, dests, server, client, late,
                 crashed>>

OnTimeout(c) ==
  /\ timer[c] = "fires" /\ lock = Free
  /\ sock' = Closed({c} \cap m_vConnections)
  /\ timer' = [timer EXCEPT ![c] = "ended"]
  /\ UNCHANGED <<lists, lock, relay, closer, held, dests, server, client, late, crashed>>

\* The thread of a timer that was stopped ends.
EndTimer(c) ==
  /\ timer[c] = "stops"
  /\ timer' = [timer EXCEPT ![c] = "ended"]
  /\ UNCHANGED <<lists, lock, sock, relay, closer, held, dests, server, client, late,
                 crashed>>

\* The mutex is free while OnSocketClosing waits for the timer.
OnSocketClosing(c) ==
  /\ sock[c] = "closed" /\ closer[c] = "none" /\ lock = Free
  /\ timer' = Stopped({c} \cap m_vConnections)
  /\ closer' = [closer EXCEPT ![c] = IF c \in m_vConnections THEN "waits" ELSE "done"]
  /\ UNCHANGED <<lists, lock, sock, relay, held, dests, server, client, late, crashed>>

ClosingErases(c) ==
  /\ closer[c] = "waits" /\ timer[c] = "ended" /\ lock = Free
  /\ lock' = {c}
  /\ m_vConnections' = m_vConnections \ {c}
  /\ dst' = IF pClientSocket[c] = 0 THEN dst ELSE Close(Current(c))
  /\ closer' = [closer EXCEPT ![c] = "unlocks"]
  /\ UNCHANGED <<m_vReferencList, details, pClientSocket, sock, relay, timer, held, host,
                 inbox, back, dheld, server, client, late, crashed>>

ClosingEnds(c) ==
  /\ closer[c] = "unlocks"
  /\ lock' = Free
  /\ closer' = [closer EXCEPT ![c] = "done"]
  /\ UNCHANGED <<lists, sock, relay, timer, held, dests, server, client, late, crashed>>

-----------------------------------------------------------------------------
(* Callbacks of the destinations' sockets *)

\* A destination's client, when both lists know it.
Listed(d) == d \in m_vReferencList /\ Owner(d) \in m_vConnections

\* What goes to a destination once it is there, and what is kept then.
Sent(d, det) == IF det.connect THEN inbox ELSE Write(d, det.strBuffer)
AfterSentKept(det) == det   \* mutant: strBuffer is not cleared
AfterSent(det) == IF det.connect THEN det ELSE [det EXCEPT !.strBuffer = <<>>]

Connected(d) ==
  LET c == Owner(d)
      det == details[c] IN
  /\ dst[d] \in {"connecting", "dropped"} /\ host[d] # NoHost /\ lock = Free
  /\ dst' = [dst EXCEPT ![d] = IF @ = "connecting" THEN "open" ELSE "closing"]
  /\ IF Listed(d)
     THEN /\ relay' = relay \cup {c}
          /\ got' = IF det.connect THEN Told(c, <<Established>>) ELSE got
          /\ inbox' = Sent(d, det)
          /\ details' = [details EXCEPT ![c] = AfterSent([det EXCEPT !.bConncted = TRUE])]
     ELSE UNCHANGED <<relay, got, inbox, details>>
  /\ UNCHANGED <<m_vConnections, m_vReferencList, pClientSocket, lock, sock, timer, closer,
                 held, host, back, dheld, server, asked, sent, nread, replied, late,
                 crashed>>

\* OnDataRecievedDest reads before it takes the mutex.  End: it found nothing.
End == [req |-> 0, part |-> 0]

ReadDest(d, n) ==
  /\ dst[d] = "open" /\ dheld[d] = <<>> /\ n \in DOMAIN back[d]
  /\ dheld' = [dheld EXCEPT ![d] = SubSeq(back[d], 1, n)]
  /\ back' = [back EXCEPT ![d] = SubSeq(@, n + 1, Len(@))]
  /\ UNCHANGED <<lists, lock, ends, held, dst, host, inbox, server, client, late, crashed>>

DestEnds(d) ==
  /\ dst[d] = "open" /\ dheld[d] = <<>> /\ back[d] = <<>>
  /\ dheld' = [dheld EXCEPT ![d] = <<End>>]
  /\ dst' = [dst EXCEPT ![d] = "ended"]
  /\ UNCHANGED <<lists, lock, ends, held, host, inbox, back, server, client, late, crashed>>

HandleDest(d) ==
  LET c == Owner(d) IN
  /\ dheld[d] # <<>> /\ lock = Free
  /\ dheld' = [dheld EXCEPT ![d] = <<>>]
  /\ \/ /\ Listed(d) /\ dheld[d] = <<End>>
        /\ sock' = Closed({c}) /\ timer' = Stopped({c})
        /\ UNCHANGED <<details, got>>
     \/ /\ Listed(d) /\ dheld[d] # <<End>>
        /\ got' = Told(c, dheld[d])
        /\ details' = [details EXCEPT ![c].bAnswerd = TRUE]
        /\ UNCHANGED <<sock, timer>>
     \/ ~Listed(d) /\ UNCHANGED <<sock, timer, details, got>>
  /\ UNCHANGED <<m_vConnections, m_vReferencList, pClientSocket, lock, relay, closer, held,
                 dst, host, inbox, back, server, asked, sent, nread, replied, late,
                 crashed>>

\* SocketErrorDest and SocketClosingDest, which do the same.  They may come
\* while the socket is being closed.
DestFails(d) ==
  LET c == Owner(d) IN
  /\ dst[d] \in {"connecting", "open"} \cup Closing /\ lock = Free
  /\ dst' = IF dst[d] \in Closing THEN dst ELSE [dst EXCEPT ![d] = "ended"]
  /\ IF Listed(d)
     THEN /\ sock' = Closed({c}) /\ timer' = Stopped({c})
          /\ got' = IF details[c].bConncted THEN got ELSE Refused(c)
          /\ details' = [details EXCEPT ![c].bConncted = TRUE]
     ELSE UNCHANGED <<sock, timer, got, details>>
  /\ UNCHANGED <<m_vConnections, m_vReferencList, pClientSocket, lock, relay, closer, held,
                 host, inbox, back, dheld, server, asked, sent, nread, replied, late,
                 crashed>>

SocketClosingKeeps(d) ==   \* mutant: m_vReferencList keeps the socket
  /\ dst[d] \in Closing /\ lock = Free
  /\ dst' = [dst EXCEPT ![d] = "unlinked"] /\ lock' = {d}
  /\ UNCHANGED <<lists, ends, held, host, inbox, back, dheld, server, client, late,
                 crashed>>
SocketClosingDelete(d) ==
  /\ dst[d] \in Closing /\ lock = Free
  /\ m_vReferencList' = m_vReferencList \ {d}
  /\ dst' = [dst EXCEPT ![d] = "unlinked"] /\ lock' = {d}
  /\ UNCHANGED <<m_vConnections, details, pClientSocket, ends, held, host, inbox, back,
                 dheld, server, client, late, crashed>>

Unlock(d) ==
  /\ lock = {d}
  /\ lock' = Free
  /\ UNCHANGED <<lists, ends, held, dests, server, client, late, crashed>>

Delete(d) ==
  /\ dst[d] = "unlinked" /\ d \notin lock /\ dheld[d] = <<>>
  /\ dst' = [dst EXCEPT ![d] = "deleted"]
  /\ UNCHANGED <<lists, lock, ends, held, host, inbox, back, dheld, server, client, late,
                 crashed>>

-----------------------------------------------------------------------------
(* The server: fnStopCallBack and the destructor *)

CloseAll ==
  /\ lock = Free
  /\ timer' = Stopped(m_vConnections) /\ sock' = Closed(m_vConnections)
  /\ UNCHANGED <<lists, lock, relay, closer, held, dests, client, late, crashed>>

IsStopped == m_vConnections = {} /\ m_vReferencList = {}

Stop == server = "runs" /\ server' = "stops" /\ CloseAll

DestructorOnly ==   \* mutant: the destructor does not call Stop
  /\ server = "stops" /\ IsStopped /\ server' = "ends"
  /\ UNCHANGED <<lists, lock, ends, held, dests, client, late, crashed>>
\* The destructor calls Stop again, and so waits for the mutex.
DestructorStop == server = "stops" /\ IsStopped /\ server' = "ends" /\ CloseAll

Destroy ==
  /\ server = "ends" /\ IsStopped /\ server' = "destroyed"
  /\ UNCHANGED <<lists, lock, ends, held, dests, client, late, crashed>>

-----------------------------------------------------------------------------
ClientStep(c) ==
  \/ \E h \in Host, body \in Bodies, connect \in BOOLEAN : Ask(c, h, body, connect)
  \/ SendThrough(c)
  \/ OnNewConnection(c)
  \/ \E n \in DOMAIN Available(c) : Read(c, n) \/ RelayClient(c, n)
  \/ HandleData(c)
  \/ ClientEnds(c) \/ OnSocketError(c) \/ Fire(c) \/ OnTimeout(c) \/ EndTimer(c)
  \/ OnSocketClosing(c) \/ ClosingErases(c) \/ ClosingEnds(c)

DestStep(d) ==
  \/ \E r \in 1 .. MaxRequests : DestAnswers(d, r)
  \/ Connected(d) \/ DestFails(d) \/ DestEnds(d)
  \/ \E n \in DOMAIN back[d] : ReadDest(d, n)
  \/ HandleDest(d) \/ SocketClosingDelete(d) \/ Unlock(d) \/ Delete(d)

ServerStep == Stop \/ DestructorStop \/ Destroy

Next ==
  ~crashed /\ (ServerStep \/ (\E c \in Conn : ClientStep(c)) \/ \E d \in Dest : DestStep(d))

Spec == Init /\ [][Next]_vars

\* What goes on by itself: threads run, the library calls back, a Connect
\* succeeds or fails, and a destination answers what it has got.
ClientGoesOn(c) ==
  \/ \E n \in DOMAIN Available(c) : Read(c, n) \/ RelayClient(c, n)
  \/ HandleData(c) \/ OnTimeout(c) \/ EndTimer(c)
  \/ OnSocketClosing(c) \/ ClosingErases(c) \/ ClosingEnds(c)

DestGoesOn(d) ==
  \/ \E r \in 1 .. MaxRequests : DestAnswers(d, r)
  \/ Connected(d) \/ (dst[d] = "connecting" /\ DestFails(d))
  \/ \E n \in DOMAIN back[d] : ReadDest(d, n)
  \/ HandleDest(d) \/ SocketClosingDelete(d) \/ Unlock(d) \/ Delete(d)

\* Each of these is taken a bounded number of times, so that all of them are.
Fairness ==
  /\ \A c \in Conn : WF_vars(~crashed /\ ClientGoesOn(c))
  /\ \A d \in Dest : WF_vars(~crashed /\ DestGoesOn(d))
  /\ WF_vars(~crashed /\ (DestructorStop \/ Destroy))

FairSpec == Spec /\ Fairness

-----------------------------------------------------------------------------
(* Properties *)

Part == [req : Nat, part : Nat]

TypeOK ==
  /\ m_vConnections \subseteq Conn /\ m_vReferencList \subseteq Dest /\ relay \subseteq Conn
  /\ pClientSocket \in [Conn -> 0 .. MaxDest]
  /\ sock \in [Conn -> {"new", "open", "closed"}]
  /\ timer \in [Conn -> {"none", "runs", "fires", "stops", "ended"}]
  /\ closer \in [Conn -> {"none", "waits", "unlocks", "done"}]
  /\ dst \in [Dest -> {"none", "connecting", "open", "ended", "unlinked", "deleted"} \cup Closing]
  /\ server \in {"runs", "stops", "ends", "destroyed"} /\ crashed \in BOOLEAN
  /\ got \in [Conn -> Seq(Part)]
  /\ back \in [Dest -> Seq(Part)] /\ dheld \in [Dest -> Seq(Part)]

Plain(bytes) == [i \in DOMAIN bytes |-> <<bytes[i].req, bytes[i].part>>]
Written(c) == FlattenSeq([k \in 1 .. MaxDest |-> inbox[<<c, k>>]])

\* What was read from a client went to its destinations or waits, every byte
\* once and in order; the header that asked for a tunnel is kept back.  Not so
\* once strBuffer was extended too late: OnDataRecievedClient passes on what
\* comes next, and what strBuffer holds stays behind.
BytesInOrder ==
  \A c \in m_vConnections \ late :
    LET det == details[c] IN
    Plain((IF det.connect THEN det.strBuffer \o Written(c) ELSE Written(c) \o det.strBuffer)
          \o held[c])
      = Plain(SubSeq(sent[c], 1, nread[c]))

\* Each request went to its own host.
RightHost ==
  \A d \in Dest : \A i \in DOMAIN inbox[d] :
    asked[Owner(d)][inbox[d][i].req].host = host[d]

\* Nothing complete waits for a destination that is there.
NothingKeptBack ==
  \A c \in m_vConnections \ late :
    sock[c] = "open" /\ details[c].bConncted /\ ~details[c].connect =>
      \A i \in DOMAIN details[c].strBuffer : details[c].strBuffer[i].part = 1

\* Requests reach the hosts they are for, whole and in order, across the
\* switches from one destination to another (OnDataReceived, Connected,
\* OnDataRecievedClient).
RequestsKept == BytesInOrder /\ RightHost /\ NothingKeptBack

\* The two lists agree, so that no callback finds a socket that is gone: a
\* connection's destination is known by m_vReferencList until it is closed,
\* and what m_vReferencList holds besides is being closed.  Only for a client
\* that was told of a switch that failed is a nullptr used.  The server goes when
\* nobody holds its mutex, waits for it to end a connection or has a timer.
CurrentOf == {Current(c) : c \in {x \in m_vConnections : pClientSocket[x] # 0}}

ListsAgree ==
  /\ CurrentOf \subseteq {d \in m_vReferencList : dst[d] \in {"connecting", "open", "ended"}}
  /\ \A d \in m_vReferencList \ CurrentOf : dst[d] \in Closing
  /\ crashed => \E c \in m_vConnections : BadGateway \in ToSet(got[c])
  /\ server = "destroyed" =>
       /\ lock = Free /\ m_vReferencList = {}
       /\ \A c \in Conn : closer[c] # "waits" /\ timer[c] \in {"none", "ended"}

Gone(c) ==
  /\ c \notin m_vConnections
  /\ \A d \in Dest : Owner(d) = c => dst[d] \in {"none", "deleted"} /\ d \notin m_vReferencList

\* A connection whose client is closed goes with its timer and all of its
\* destinations, and a server that is stopped is destroyed: nobody waits for
\* the mutex, a timer or a list for ever (OnSocketClosing, IsStopped).
SocketsReleased ==
  /\ \A c \in Conn : sock[c] = "closed" ~> Gone(c) \/ crashed
  /\ server = "stops" ~> server = "destroyed" \/ crashed

\* A client that stays gets an answer to each request, be it 502, whichever
\* destinations came before; but for what was read before the destination was
\* there and appended after it.
RequestAnswered ==
  \A c \in Conn : \A r \in 1 .. MaxRequests :
    r \in DOMAIN asked[c] /\ ~asked[c][1].connect
      ~> sock[c] = "closed" \/ Finished(c) >= r \/ c \in late \/ crashed
=============================================================================
