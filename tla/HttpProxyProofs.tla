--------------------------- MODULE HttpProxyProofs --------------------------
(***************************************************************************)
(* For any clients, destinations and failures: the two lists of the        *)
(* forward proxy agree (ProxyInv), and the requests reach the hosts they   *)
(* are for, every byte once and in order (KeptInv) until strBuffer of the  *)
(* connection is extended too late: what comes next overtakes what it then *)
(* holds, which no destination gets.                                       *)
(***************************************************************************)
EXTENDS HttpProxy, SequenceTheorems, WellFoundedInduction, FiniteSetTheorems, TLAPS

\* A socket nobody has seen yet.
NewIsFresh ==
  \A c \in Conn : sock[c] = "new" =>
    /\ c \notin m_vConnections /\ c \notin relay /\ pClientSocket[c] = 0
    /\ \A n \in 1 .. MaxDest : dst[<<c, n>>] = "none"

\* Who is in m_vConnections has its destination in m_vReferencList.
CurrentListed ==
  \A c \in m_vConnections : pClientSocket[c] # 0 =>
    Current(c) \in m_vReferencList /\ dst[Current(c)] \in {"connecting", "open", "ended"}

\* What m_vReferencList has besides is being closed, and all that is.
OthersClosing ==
  /\ \A c \in Conn, n \in 1 .. MaxDest : <<c, n>> \in m_vReferencList =>
       (c \in m_vConnections /\ pClientSocket[c] = n) \/ dst[<<c, n>>] \in Closing
  /\ \A d \in Dest : dst[d] \in Closing => d \in m_vReferencList
  /\ \A d \in Dest : dst[d] = "none" => d \notin m_vReferencList

\* Who lost its destination for good was told so.
LossTold ==
  \A c \in m_vConnections :
    pClientSocket[c] = 0 /\ (c \in relay \/ \E n \in 1 .. MaxDest : <<c, n>> \in m_vReferencList)
      => BadGateway \in ToSet(got[c])

\* Timers and waiting threads belong to listed connections.
WaitersListed ==
  \A c \in Conn :
    /\ closer[c] = "waits" => c \in m_vConnections
    /\ timer[c] \notin {"none", "ended"} => c \in m_vConnections

AtEndEmpty ==
  server \in {"ends", "destroyed"} =>
    lock = {} /\ m_vConnections = {} /\ m_vReferencList = {}

CrashTold == crashed => \E c \in m_vConnections : BadGateway \in ToSet(got[c])

ProxyInv ==
  /\ TypeOK /\ NewIsFresh /\ CurrentListed /\ OthersClosing /\ LossTold
  /\ WaitersListed /\ AtEndEmpty /\ CrashTold

LEMMA InvInit == Init => ProxyInv
<1> SUFFICES ASSUME Init PROVE ProxyInv
  OBVIOUS
<1> USE ProxyAssumption DEF Init
<1>1. TypeOK
  <2>1. \A S : [c \in S |-> <<>>] \in [S -> Seq(Part)]
    OBVIOUS
  <2>2. 0 \in 0 .. MaxDest
    OBVIOUS
  <2> QED
    BY <2>1, <2>2 DEF TypeOK
<1>2. NewIsFresh /\ CurrentListed /\ LossTold /\ WaitersListed /\ AtEndEmpty /\ CrashTold
  BY DEF NewIsFresh, CurrentListed, LossTold, WaitersListed, AtEndEmpty, CrashTold, Dest
<1>3. OthersClosing
  BY DEF OthersClosing, Closing
<1> QED
  BY <1>1, <1>2, <1>3 DEF ProxyInv

\* What the steps have in common that only exchange data.
LEMMA DataStep ==
  ASSUME ProxyInv,
         UNCHANGED <<m_vConnections, m_vReferencList, pClientSocket, lock, sock, relay, timer,
                     closer, dst, server, crashed, got>>,
         back' \in [Dest -> Seq(Part)], dheld' \in [Dest -> Seq(Part)]
  PROVE  ProxyInv'
BY DEF ProxyInv, TypeOK, NewIsFresh, CurrentListed, OthersClosing, LossTold, WaitersListed,
       AtEndEmpty, CrashTold, Current

LEMMA AnswersTyped ==
  /\ Established \in Part /\ BadGateway \in Part /\ End \in Part
  /\ \A r \in Nat : Answer(r) \in Seq(Part)
BY DEF Established, BadGateway, End, Part, Answer

\* What a client was told stays told.
LEMMA ToldGrows ==
  ASSUME TypeOK, NEW c \in Conn, NEW s \in Seq(Part)
  PROVE  /\ Told(c, s) \in [Conn -> Seq(Part)]
         /\ \A x \in Conn : ToSet(got[x]) \subseteq ToSet(Told(c, s)[x])
         /\ sock[c] = "open" => ToSet(s) \subseteq ToSet(Told(c, s)[c])
<1>1. \A t \in Seq(Part) : ToSet(t) \subseteq ToSet(t \o s) /\ ToSet(s) \subseteq ToSet(t \o s)
  <2> SUFFICES ASSUME NEW t \in Seq(Part)
               PROVE  ToSet(t) \subseteq ToSet(t \o s) /\ ToSet(s) \subseteq ToSet(t \o s)
    OBVIOUS
  <2>1. /\ t \o s \in Seq(Part) /\ Len(t \o s) = Len(t) + Len(s)
        /\ \A i \in 1 .. Len(t) : (t \o s)[i] = t[i]
        /\ \A i \in 1 .. Len(s) : (t \o s)[Len(t) + i] = s[i]
    OBVIOUS
  <2>2. ASSUME NEW i \in DOMAIN t PROVE t[i] \in ToSet(t \o s)
    <3>1. i \in 1 .. Len(t) /\ i \in DOMAIN (t \o s)
      BY <2>1
    <3> QED
      BY <3>1, <2>1 DEF ToSet
  <2>3. ASSUME NEW i \in DOMAIN s PROVE s[i] \in ToSet(t \o s)
    <3>1. i \in 1 .. Len(s) /\ Len(t) + i \in DOMAIN (t \o s)
      BY <2>1
    <3> QED
      BY <3>1, <2>1 DEF ToSet
  <2> QED
    BY <2>2, <2>3 DEF ToSet
<1>2. Told(c, s) \in [Conn -> Seq(Part)]
  BY DEF Told, TypeOK
<1> QED
  BY <1>1, <1>2 DEF Told, TypeOK

-----------------------------------------------------------------------------
(* The lists and sockets of one client: a connection's numbers are its own *)

LEMMA NewDest ==
  ASSUME ProxyInv, NEW c \in Conn, NEW n \in 1 .. MaxDest, dst[<<c, n>>] = "none"
  PROVE  /\ <<c, n>> \in Dest /\ <<c, n>> \notin m_vReferencList
         /\ c \in m_vConnections => pClientSocket[c] # n
         /\ sock[c] # "new" \/ c \notin m_vConnections
BY DEF ProxyInv, TypeOK, NewIsFresh, CurrentListed, OthersClosing, Dest, Current

\* A connection gets a destination where it had none.
LEMMA FirstConnect ==
  ASSUME ProxyInv, NEW c \in m_vConnections, NEW h, NEW fails \in BOOLEAN,
         pClientSocket[c] = 0, ConnectTo(c, h, dst, fails),
         UNCHANGED <<m_vConnections, lock, sock, relay, timer, closer, back, dheld, server, crashed>>
  PROVE  ProxyInv'
<1> USE DEF ProxyInv
<1>0. c \in Conn
  BY DEF TypeOK
<1>1. CASE fails
  <2>1. got' = Told(c, <<BadGateway>>) /\ <<BadGateway>> \in Seq(Part)
    BY <1>1, AnswersTyped DEF ConnectTo, Refused
  <2>2. /\ got' \in [Conn -> Seq(Part)]
        /\ \A x \in Conn : ToSet(got[x]) \subseteq ToSet(got'[x])
    BY <1>0, <2>1, ToldGrows
  <2>3. UNCHANGED <<pClientSocket, dst, m_vReferencList>>
    BY <1>0, <1>1 DEF ConnectTo, TypeOK
  <2>4. TypeOK'
    BY <2>2, <2>3 DEF TypeOK
  <2>5. LossTold' /\ CrashTold'
    <3>1. \A x \in Conn : BadGateway \in ToSet(got[x]) => BadGateway \in ToSet(got'[x])
      BY <2>2
    <3> QED
      BY <2>3, <3>1 DEF LossTold, CrashTold, TypeOK
  <2> QED
    BY <2>3, <2>4, <2>5 DEF NewIsFresh, CurrentListed, OthersClosing, WaitersListed, AtEndEmpty,
                            Current
<1>2. CASE ~fails
  <2>1. PICK n \in 1 .. MaxDest :
          /\ dst[<<c, n>>] = "none"
          /\ pClientSocket' = [pClientSocket EXCEPT ![c] = n]
          /\ dst' = [dst EXCEPT ![<<c, n>>] = "connecting"]
          /\ m_vReferencList' = m_vReferencList \cup {<<c, n>>}
          /\ UNCHANGED got
    BY <1>2 DEF ConnectTo
  <2>2. <<c, n>> \in Dest /\ <<c, n>> \notin m_vReferencList /\ n # 0 /\ sock[c] # "new"
    BY <1>0, <2>1, NewDest
  <2>3. TypeOK'
    <3>1. n \in 0 .. MaxDest
      BY ProxyAssumption
    <3>2. /\ pClientSocket' \in [Conn -> 0 .. MaxDest]
          /\ m_vReferencList' \subseteq Dest
          /\ dst' \in [Dest -> {"none", "connecting", "open", "ended", "unlinked", "deleted"}
                                \cup Closing]
      BY <1>0, <2>1, <2>2, <3>1 DEF TypeOK
    <3> QED
      BY <2>1, <3>2 DEF TypeOK
  <2>4. NewIsFresh' /\ WaitersListed' /\ AtEndEmpty' /\ CrashTold'
    BY <1>0, <2>1, <2>2 DEF NewIsFresh, WaitersListed, AtEndEmpty, CrashTold, TypeOK, Dest
  <2>5. CurrentListed'
    BY <1>0, <2>1, <2>2 DEF CurrentListed, Current, TypeOK, Dest
  <2>6. OthersClosing'
    BY <1>0, <2>1, <2>2 DEF OthersClosing, TypeOK, Dest, Closing
  <2>7. LossTold'
    BY <1>0, <2>1, <2>2 DEF LossTold, TypeOK
  <2> QED
    BY <2>3, <2>4, <2>5, <2>6, <2>7
<1> QED
  BY <1>1, <1>2

\* A connection whose destination is closed gets another.
LEMMA SwitchConnect ==
  ASSUME ProxyInv, NEW c \in m_vConnections, NEW h, NEW fails \in BOOLEAN,
         pClientSocket[c] # 0, sock[c] = "open", ConnectTo(c, h, Close(Current(c)), fails),
         UNCHANGED <<m_vConnections, lock, sock, relay, timer, closer, back, dheld, server, crashed>>
  PROVE  ProxyInv'
<1> USE DEF ProxyInv
<1> DEFINE old == Current(c)
<1>0. /\ c \in Conn /\ old \in Dest /\ old \in m_vReferencList
      /\ old = <<c, pClientSocket[c]>> /\ pClientSocket[c] \in 1 .. MaxDest
  BY DEF TypeOK, CurrentListed, Current, Dest
<1>00. /\ Close(old) \in [Dest -> {"none", "connecting", "open", "ended", "unlinked", "deleted"}
                                    \cup Closing]
       /\ Close(old)[old] \in Closing
       /\ \A d \in Dest : d # old => Close(old)[d] = dst[d]
  BY <1>0 DEF Close, Closing, TypeOK
<1> HIDE DEF old
<1>1. CASE fails
  <2>1. /\ got' = Told(c, <<BadGateway>>) /\ <<BadGateway>> \in Seq(Part)
        /\ pClientSocket' = [pClientSocket EXCEPT ![c] = 0]
        /\ dst' = Close(old) /\ UNCHANGED m_vReferencList
    BY <1>1, AnswersTyped DEF ConnectTo, Refused, old
  <2>2. /\ got' \in [Conn -> Seq(Part)]
        /\ \A x \in Conn : ToSet(got[x]) \subseteq ToSet(got'[x])
        /\ BadGateway \in ToSet(got'[c])
    <3>1. BadGateway \in ToSet(<<BadGateway>>)
      BY DEF ToSet
    <3> QED
      BY <1>0, <2>1, <3>1, ToldGrows
  <2>3. TypeOK'
    <3>1. pClientSocket' \in [Conn -> 0 .. MaxDest]
      BY <2>1, ProxyAssumption DEF TypeOK
    <3> QED
      BY <1>00, <2>1, <2>2, <3>1 DEF TypeOK
  <2>4. NewIsFresh' /\ WaitersListed' /\ AtEndEmpty' /\ CrashTold'
    BY <1>0, <1>00, <2>1, <2>2, ZenonT(40) DEF NewIsFresh, WaitersListed, AtEndEmpty, CrashTold, TypeOK, Dest
  <2>5. CurrentListed'
    BY <1>0, <1>00, <2>1 DEF CurrentListed, Current, TypeOK, Dest
  <2>6. OthersClosing'
    <3>1. ASSUME NEW x \in Conn, NEW k \in 1 .. MaxDest, <<x, k>> \in m_vReferencList'
          PROVE  (x \in m_vConnections' /\ pClientSocket'[x] = k) \/ dst'[<<x, k>>] \in Closing
      BY <1>0, <1>00, <2>1, <3>1 DEF OthersClosing, TypeOK, Dest
    <3>2. \A d \in Dest : (dst'[d] \in Closing => d \in m_vReferencList')
                         /\ (dst'[d] = "none" => d \notin m_vReferencList')
      BY <1>0, <1>00, <2>1 DEF OthersClosing, Closing
    <3> QED
      BY <3>1, <3>2 DEF OthersClosing, Closing
  <2>7. LossTold'
    BY <1>0, <2>1, <2>2 DEF LossTold, TypeOK
  <2> QED
    BY <2>3, <2>4, <2>5, <2>6, <2>7
<1>2. CASE ~fails
  <2>1. PICK n \in 1 .. MaxDest :
          /\ dst[<<c, n>>] = "none"
          /\ pClientSocket' = [pClientSocket EXCEPT ![c] = n]
          /\ dst' = [Close(old) EXCEPT ![<<c, n>>] = "connecting"]
          /\ m_vReferencList' = m_vReferencList \cup {<<c, n>>}
          /\ UNCHANGED got
    BY <1>2 DEF ConnectTo, old
  <2>2. /\ <<c, n>> \in Dest /\ <<c, n>> \notin m_vReferencList /\ n # 0
        /\ <<c, n>> # old /\ pClientSocket[c] # n
    BY <1>0, <2>1, NewDest
  <2>3. TypeOK'
    <3>1. n \in 0 .. MaxDest
      BY ProxyAssumption
    <3>2. /\ pClientSocket' \in [Conn -> 0 .. MaxDest]
          /\ m_vReferencList' \subseteq Dest
          /\ dst' \in [Dest -> {"none", "connecting", "open", "ended", "unlinked", "deleted"}
                                \cup Closing]
      BY <1>0, <1>00, <2>1, <2>2, <3>1 DEF TypeOK
    <3> QED
      BY <2>1, <3>2 DEF TypeOK
  <2>4. NewIsFresh' /\ WaitersListed' /\ AtEndEmpty' /\ CrashTold'
    BY <1>0, <1>00, <2>1, <2>2, ZenonT(40) DEF NewIsFresh, WaitersListed, AtEndEmpty, CrashTold, TypeOK, Dest
  <2>5. CurrentListed'
    BY <1>0, <1>00, <2>1, <2>2, ZenonT(40) DEF CurrentListed, Current, TypeOK, Dest
  <2>6. OthersClosing'
    <3>1. ASSUME NEW x \in Conn, NEW k \in 1 .. MaxDest, <<x, k>> \in m_vReferencList'
          PROVE  (x \in m_vConnections' /\ pClientSocket'[x] = k) \/ dst'[<<x, k>>] \in Closing
      <4>0. <<x, k>> \in Dest /\ (<<x, k>> = <<c, n>> <=> x = c /\ k = n)
        BY DEF Dest
      <4>1. CASE <<x, k>> = <<c, n>>
        BY <1>0, <2>1, <4>0, <4>1 DEF TypeOK
      <4>2. CASE <<x, k>> # <<c, n>>
        <5>1. <<x, k>> \in m_vReferencList /\ dst'[<<x, k>>] = Close(old)[<<x, k>>]
          BY <2>1, <3>1, <4>0, <4>2, <1>00
        <5>2. CASE <<x, k>> = old
          BY <1>00, <5>1, <5>2
        <5>3. CASE <<x, k>> # old
          <6>1. dst'[<<x, k>>] = dst[<<x, k>>] /\ ~(x = c /\ k = pClientSocket[c])
            BY <1>0, <1>00, <4>0, <5>1, <5>3
          <6>2. x # c => pClientSocket'[x] = pClientSocket[x]
            BY <2>1 DEF TypeOK
          <6> QED
            BY <1>0, <5>1, <6>1, <6>2 DEF OthersClosing
        <5> QED
          BY <5>2, <5>3
      <4> QED
        BY <4>1, <4>2
    <3>2. \A d \in Dest : (dst'[d] \in Closing => d \in m_vReferencList')
                         /\ (dst'[d] = "none" => d \notin m_vReferencList')
      BY <1>0, <1>00, <2>1, <2>2 DEF OthersClosing, Closing
    <3> QED
      BY <3>1, <3>2 DEF OthersClosing, Closing
  <2>7. LossTold'
    BY <1>0, <2>1, <2>2 DEF LossTold, TypeOK
  <2> QED
    BY <2>3, <2>4, <2>5, <2>6, <2>7
<1> QED
  BY <1>1, <1>2

-----------------------------------------------------------------------------
(* The steps *)

\* Steps that close clients' sockets, stop their timers or have OnSocketClosing
\* wait, for as long as the client is listed.
LEMMA ClosingStep ==
  ASSUME ProxyInv, TypeOK', WaitersListed',
         \A c \in Conn : sock'[c] = "new" => sock[c] = "new",
         UNCHANGED <<m_vConnections, m_vReferencList, pClientSocket, lock, relay, dst, server,
                     crashed, got>>
  PROVE  ProxyInv'
BY DEF ProxyInv, NewIsFresh, CurrentListed, OthersClosing, LossTold, AtEndEmpty, CrashTold,
       Current

LEMMA ClosedStopped ==
  ASSUME TypeOK, NEW C
  PROVE  /\ Closed(C) \in [Conn -> {"new", "open", "closed"}]
         /\ Stopped(C) \in [Conn -> {"none", "runs", "fires", "stops", "ended"}]
         /\ \A c \in Conn : /\ Closed(C)[c] = "new" <=> sock[c] = "new"
                            /\ Stopped(C)[c] \in {"none", "ended"} <=> timer[c] \in {"none", "ended"}
BY DEF Closed, Stopped, TypeOK

LEMMA ClientKeeps ==
  ASSUME ProxyInv, ~crashed, NEW c \in Conn, ClientStep(c)
  PROVE  ProxyInv'
<1> USE DEF ProxyInv
<1>1. ASSUME NEW h \in Host, NEW body \in Bodies, NEW connect \in BOOLEAN,
             Ask(c, h, body, connect)
      PROVE  ProxyInv'
  BY <1>1, DataStep DEF Ask, lists, ends, dests, TypeOK
<1>2. CASE SendThrough(c)
  BY <1>2, DataStep DEF SendThrough, lists, ends, dests, TypeOK
<1>3. CASE OnNewConnection(c)
  <2>1. /\ sock[c] = "new" /\ server = "runs"
        /\ sock' = [sock EXCEPT ![c] = "open"] /\ timer' = [timer EXCEPT ![c] = "runs"]
        /\ m_vConnections' = m_vConnections \cup {c}
        /\ UNCHANGED <<m_vReferencList, pClientSocket, lock, relay, closer, dst, back, dheld,
                       server, got, crashed>>
    BY <1>3 DEF OnNewConnection, dests, client
  <2>2. /\ c \notin relay /\ pClientSocket[c] = 0
        /\ \A n \in 1 .. MaxDest : <<c, n>> \notin m_vReferencList
    BY <2>1 DEF NewIsFresh, OthersClosing, Dest
  <2>3. TypeOK'
    BY <2>1 DEF TypeOK
  <2>4. NewIsFresh' /\ CurrentListed' /\ WaitersListed' /\ AtEndEmpty' /\ CrashTold'
    BY <2>1, <2>2 DEF NewIsFresh, CurrentListed, Current, WaitersListed, AtEndEmpty, CrashTold,
                      TypeOK
  <2>5. OthersClosing' /\ LossTold'
    BY <2>1, <2>2 DEF OthersClosing, LossTold, TypeOK
  <2> QED
    BY <2>3, <2>4, <2>5
<1>4. ASSUME NEW n \in DOMAIN Available(c), Read(c, n)
      PROVE  ProxyInv'
  BY <1>4, DataStep DEF Read, lists, ends, dests, TypeOK
<1>5. ASSUME NEW n \in DOMAIN Available(c), RelayClient(c, n)
      PROVE  ProxyInv'
  <2>1. /\ c \in relay /\ c \in m_vConnections /\ sock[c] = "open"
        /\ UNCHANGED <<m_vConnections, lock, sock, relay, timer, closer, back, dheld, server>>
    BY <1>5 DEF RelayClient, ends
  <2>2. CASE pClientSocket[c] = 0
    <3>1. crashed' = TRUE /\ UNCHANGED <<m_vReferencList, pClientSocket, dst, got>>
      BY <1>5, <2>2 DEF RelayClient
    <3>2. BadGateway \in ToSet(got[c])
      BY <2>1, <2>2 DEF LossTold
    <3> QED
      BY <2>1, <3>1, <3>2 DEF TypeOK, NewIsFresh, CurrentListed, OthersClosing, LossTold,
                              WaitersListed, AtEndEmpty, CrashTold, Current
  <2>3. CASE pClientSocket[c] # 0
    <3>1. CASE UNCHANGED <<m_vReferencList, pClientSocket, dst, got>>
      BY <1>5, <2>1, <2>3, <3>1, DataStep DEF RelayClient, TypeOK
    <3>2. ASSUME NEW h, NEW fails \in MayFail("switch"), ConnectTo(c, h, Close(Current(c)), fails)
          PROVE  ProxyInv'
      BY <1>5, <2>1, <2>3, <3>2, SwitchConnect DEF RelayClient, MayFail
    <3> QED
      BY <1>5, <2>3, <3>1, <3>2 DEF RelayClient
  <2> QED
    BY <2>2, <2>3
<1>6. CASE HandleData(c)
  <2>1. UNCHANGED <<m_vConnections, lock, sock, relay, timer, closer, back, dheld, server, crashed>>
    BY <1>6 DEF HandleData, lists, ends
  <2>2. CASE UNCHANGED <<m_vReferencList, pClientSocket, dst, got>>
    BY <2>1, <2>2, DataStep DEF TypeOK
  <2>3. ASSUME NEW h, NEW fails \in MayFail("first"), ConnectTo(c, h, dst, fails),
               c \in m_vConnections, pClientSocket[c] = 0
        PROVE  ProxyInv'
    BY <2>1, <2>3, FirstConnect DEF MayFail
  <2> QED
    BY <1>6, <2>2, <2>3 DEF HandleData, lists
<1>7. CASE ClientEnds(c) \/ OnSocketError(c)
  <2>1. /\ sock' = Closed({c})
        /\ timer' = timer \/ timer' = Stopped({c} \cap m_vConnections)
        /\ UNCHANGED <<m_vConnections, m_vReferencList, pClientSocket, lock, relay, closer, dst,
                       back, dheld, server, crashed, got>>
    BY <1>7 DEF ClientEnds, OnSocketError, lists, dests, client
  <2>2. TypeOK' /\ WaitersListed' /\ \A x \in Conn : sock'[x] = "new" => sock[x] = "new"
    BY <2>1, ClosedStopped DEF TypeOK, WaitersListed
  <2> QED
    BY <2>1, <2>2, ClosingStep
<1>8. CASE Fire(c) \/ OnTimeout(c) \/ EndTimer(c)
  <2>1. /\ sock' \in {sock, Closed({c} \cap m_vConnections)}
        /\ timer[c] \notin {"none", "ended"}
        /\ \E t \in {"fires", "ended"} : timer' = [timer EXCEPT ![c] = t]
        /\ UNCHANGED <<m_vConnections, m_vReferencList, pClientSocket, lock, relay, closer, dst,
                       back, dheld, server, crashed, got>>
    BY <1>8 DEF Fire, OnTimeout, EndTimer, lists, dests, client
  <2>2. TypeOK' /\ WaitersListed' /\ \A x \in Conn : sock'[x] = "new" => sock[x] = "new"
    BY <2>1, ClosedStopped DEF TypeOK, WaitersListed
  <2> QED
    BY <2>1, <2>2, ClosingStep
<1>9. CASE OnSocketClosing(c)
  <2>1. /\ timer' = Stopped({c} \cap m_vConnections)
        /\ closer' = [closer EXCEPT ![c] = IF c \in m_vConnections THEN "waits" ELSE "done"]
        /\ UNCHANGED <<m_vConnections, m_vReferencList, pClientSocket, lock, sock, relay, dst,
                       back, dheld, server, crashed, got>>
    BY <1>9 DEF OnSocketClosing, lists, dests, client
  <2>2. TypeOK' /\ WaitersListed'
    BY <2>1, ClosedStopped DEF TypeOK, WaitersListed
  <2> QED
    BY <2>1, <2>2, ClosingStep
<1>10. CASE ClosingErases(c)
  <2> DEFINE old == Current(c)
  <2>1. /\ c \in m_vConnections /\ timer[c] = "ended" /\ lock' = {c}
        /\ m_vConnections' = m_vConnections \ {c}
        /\ dst' = IF pClientSocket[c] = 0 THEN dst ELSE Close(old)
        /\ closer' = [closer EXCEPT ![c] = "unlocks"]
        /\ UNCHANGED <<m_vReferencList, pClientSocket, sock, relay, timer, back, dheld, server,
                       crashed, got>>
    BY <1>10 DEF ClosingErases, WaitersListed, client
  <2>2. server \notin {"ends", "destroyed"}
    BY <2>1 DEF AtEndEmpty
  <2>3. pClientSocket[c] # 0 => old \in Dest /\ old \in m_vReferencList
    BY <2>1 DEF CurrentListed, TypeOK
  <2>4. \A x \in Conn, n \in 1 .. MaxDest : <<x, n>> = old <=> x = c /\ n = pClientSocket[c]
    BY DEF Current
  <2>5. /\ dst' \in [Dest -> {"none", "connecting", "open", "ended", "unlinked", "deleted"}
                             \cup Closing]
        /\ \A d \in Dest : pClientSocket[c] = 0 \/ d # old => dst'[d] = dst[d]
        /\ pClientSocket[c] # 0 => dst'[old] \in Closing
    BY <2>1, <2>3 DEF Close, Closing, TypeOK
  <2> HIDE DEF old
  <2>6. TypeOK'
    BY <2>1, <2>5 DEF TypeOK
  <2>7. NewIsFresh' /\ WaitersListed' /\ AtEndEmpty'
    BY <2>1, <2>2, <2>3, <2>4, <2>5 DEF NewIsFresh, WaitersListed, AtEndEmpty, TypeOK, Dest
  <2>8. CurrentListed'
    <3>1. ASSUME NEW x \in m_vConnections', pClientSocket[x] # 0
          PROVE  Current(x) \in Dest /\ Current(x) # old
      BY <2>1, <3>1 DEF CurrentListed, TypeOK, Current, old
    <3> QED
      BY <2>1, <2>5, <3>1 DEF CurrentListed, Current
  <2>9. OthersClosing'
    <3>1. ASSUME NEW x \in Conn, NEW k \in 1 .. MaxDest, <<x, k>> \in m_vReferencList'
          PROVE  (x \in m_vConnections' /\ pClientSocket'[x] = k) \/ dst'[<<x, k>>] \in Closing
      <4>0. <<x, k>> \in Dest /\ <<x, k>> \in m_vReferencList
        BY <2>1, <3>1 DEF Dest
      <4>1. CASE x = c /\ k = pClientSocket[c]
        BY <2>4, <2>5, <4>1, ProxyAssumption
      <4>2. CASE ~(x = c /\ k = pClientSocket[c])
        <5>1. dst'[<<x, k>>] = dst[<<x, k>>]
          BY <2>4, <2>5, <4>0, <4>2
        <5> QED
          BY <2>1, <4>0, <4>2, <5>1 DEF OthersClosing
      <4> QED
        BY <4>1, <4>2
    <3>2. \A d \in Dest : (dst'[d] \in Closing => d \in m_vReferencList')
                         /\ (dst'[d] = "none" => d \notin m_vReferencList')
      BY <2>1, <2>3, <2>5 DEF OthersClosing, Closing
    <3> QED
      BY <3>1, <3>2 DEF OthersClosing, Closing
  <2>10. LossTold'
    BY <2>1 DEF LossTold, TypeOK
  <2>11. CrashTold'
    BY <2>1 DEF CrashTold
  <2> QED
    BY <2>6, <2>7, <2>8, <2>9, <2>10, <2>11
<1>11. CASE ClosingEnds(c)
  <2>1. /\ closer' = [closer EXCEPT ![c] = "done"] /\ lock' = {}
        /\ UNCHANGED <<m_vConnections, m_vReferencList, pClientSocket, sock, relay, timer, dst,
                       back, dheld, server, crashed, got>>
    BY <1>11 DEF ClosingEnds, lists, dests, client, Free
  <2>2. TypeOK' /\ WaitersListed'
    BY <2>1 DEF TypeOK, WaitersListed
  <2> QED
    BY <2>1, <2>2 DEF NewIsFresh, CurrentListed, OthersClosing, LossTold, AtEndEmpty, CrashTold,
                      Current
<1> QED
  BY <1>1, <1>2, <1>3, <1>4, <1>5, <1>6, <1>7, <1>8, <1>9, <1>10, <1>11 DEF ClientStep

LEMMA DestKeeps ==
  ASSUME ProxyInv, ~crashed, NEW d \in Dest, DestStep(d)
  PROVE  ProxyInv'
<1> USE DEF ProxyInv
<1> DEFINE c == Owner(d)
<1>0. /\ c \in Conn /\ \E n \in 1 .. MaxDest : d = <<c, n>>
      /\ d \in m_vReferencList => sock[c] # "new"
  BY DEF Dest, Owner, NewIsFresh, OthersClosing
<1> HIDE DEF c
<1>1. ASSUME NEW r \in 1 .. MaxRequests, DestAnswers(d, r)
      PROVE  ProxyInv'
  <2>1. back' \in [Dest -> Seq(Part)]
    <3>1. Answer(r) \in Seq(Part)
      BY AnswersTyped, ProxyAssumption
    <3> QED
      BY <1>1, <3>1 DEF DestAnswers, TypeOK
  <2>2. UNCHANGED <<m_vConnections, m_vReferencList, pClientSocket, lock, sock, relay, timer,
                    closer, dst, dheld, server, crashed, got>>
    BY <1>1 DEF DestAnswers, lists, ends
  <2> QED
    BY <2>1, <2>2, DataStep DEF TypeOK
<1>2. CASE Connected(d)
  <2>1. /\ dst[d] \in {"connecting", "dropped"}
        /\ dst' = [dst EXCEPT ![d] = IF @ = "connecting" THEN "open" ELSE "closing"]
        /\ relay' = relay \/ (Listed(d) /\ relay' = relay \cup {c})
        /\ got' = got \/ got' = Told(c, <<Established>>)
        /\ UNCHANGED <<m_vConnections, m_vReferencList, pClientSocket, lock, sock, timer, closer,
                       back, dheld, server, crashed>>
    BY <1>2 DEF Connected, c
  <2>2. /\ got' \in [Conn -> Seq(Part)]
        /\ \A x \in Conn : BadGateway \in ToSet(got[x]) => BadGateway \in ToSet(got'[x])
    <3>1. <<Established>> \in Seq(Part)
      BY AnswersTyped
    <3> QED
      BY <1>0, <2>1, <3>1, ToldGrows DEF TypeOK
  <2>3. TypeOK'
    BY <1>0, <2>1, <2>2 DEF TypeOK, Closing
  <2>4. NewIsFresh'
    <3>1. \A x \in Dest : dst[x] = "none" => dst'[x] = "none"
      BY <2>1 DEF TypeOK
    <3>2. \A x \in Conn : sock'[x] = "new" => x \notin relay'
      BY <1>0, <2>1 DEF NewIsFresh, Listed
    <3> QED
      BY <2>1, <3>1, <3>2 DEF NewIsFresh, Dest
  <2>7. CurrentListed' /\ WaitersListed' /\ AtEndEmpty' /\ CrashTold'
    BY <2>1, <2>2 DEF CurrentListed, Current, WaitersListed, AtEndEmpty, CrashTold, TypeOK,
                      Closing
  <2>5. OthersClosing'
    BY <1>0, <2>1 DEF OthersClosing, TypeOK, Closing
  <2>6. LossTold'
    BY <1>0, <2>1, <2>2 DEF LossTold, TypeOK, Listed, c
  <2> QED
    BY <2>3, <2>4, <2>5, <2>6, <2>7
<1>3. CASE DestFails(d)
  <2>1. /\ dst' = dst \/ (dst[d] \in {"connecting", "open"} /\ dst' = [dst EXCEPT ![d] = "ended"])
        /\ sock' = sock \/ sock' = Closed({c})
        /\ timer' = timer \/ timer' = Stopped({c})
        /\ got' = got \/ got' = Told(c, <<BadGateway>>)
        /\ UNCHANGED <<m_vConnections, m_vReferencList, pClientSocket, lock, relay, closer,
                       back, dheld, server, crashed>>
    BY <1>3 DEF DestFails, Refused, Closing, c
  <2>2. /\ got' \in [Conn -> Seq(Part)]
        /\ \A x \in Conn : BadGateway \in ToSet(got[x]) => BadGateway \in ToSet(got'[x])
    <3>1. CASE got' = got
      BY <3>1 DEF TypeOK
    <3>2. CASE got' = Told(c, <<BadGateway>>)
      <4>1. <<BadGateway>> \in Seq(Part) /\ TypeOK
        BY AnswersTyped
      <4> QED
        BY <1>0, <3>2, <4>1, ToldGrows
    <3> QED
      BY <2>1, <3>1, <3>2
  <2>0. /\ sock' \in [Conn -> {"new", "open", "closed"}]
        /\ timer' \in [Conn -> {"none", "runs", "fires", "stops", "ended"}]
        /\ \A x \in Conn : /\ sock'[x] = "new" <=> sock[x] = "new"
                           /\ timer'[x] \in {"none", "ended"} <=> timer[x] \in {"none", "ended"}
    BY <2>1, ClosedStopped DEF TypeOK
  <2>3. TypeOK' /\ WaitersListed'
    BY <2>0, <2>1, <2>2 DEF TypeOK, WaitersListed
  <2>6. \A x \in Dest : dst[x] = "none" => dst'[x] = "none"
    BY <2>1 DEF TypeOK
  <2>7. NewIsFresh'
    BY <2>0, <2>1, <2>6 DEF NewIsFresh, TypeOK, Dest
  <2>4. CurrentListed' /\ AtEndEmpty' /\ CrashTold'
    BY <2>1 DEF CurrentListed, Current, AtEndEmpty, CrashTold, TypeOK
  <2>5. OthersClosing' /\ LossTold'
    BY <1>0, <2>1, <2>2, ZenonT(40) DEF OthersClosing, LossTold, TypeOK, Closing
  <2> QED
    BY <2>3, <2>4, <2>5, <2>7
<1>4. CASE DestEnds(d)
  <2>1. /\ dst[d] = "open" /\ dst' = [dst EXCEPT ![d] = "ended"]
        /\ dheld' = [dheld EXCEPT ![d] = <<End>>] /\ <<End>> \in Seq(Part)
        /\ UNCHANGED <<m_vConnections, m_vReferencList, pClientSocket, lock, sock, relay, timer,
                       closer, back, server, crashed, got>>
    BY <1>4, AnswersTyped DEF DestEnds, lists, ends, client
  <2>2. TypeOK'
    BY <2>1 DEF TypeOK
  <2>3. NewIsFresh' /\ CurrentListed' /\ WaitersListed' /\ AtEndEmpty' /\ CrashTold'
    BY <2>1 DEF NewIsFresh, CurrentListed, Current, WaitersListed, AtEndEmpty, CrashTold, TypeOK,
                Dest
  <2>4. OthersClosing' /\ LossTold'
    BY <2>1 DEF OthersClosing, LossTold, TypeOK, Closing
  <2> QED
    BY <2>2, <2>3, <2>4
<1>5. ASSUME NEW n \in DOMAIN back[d], ReadDest(d, n)
      PROVE  ProxyInv'
  <2>1. /\ back[d] \in Seq(Part) /\ n \in 1 .. Len(back[d])
    BY <1>5 DEF TypeOK
  <2>2. SubSeq(back[d], 1, n) \in Seq(Part) /\ SubSeq(back[d], n + 1, Len(back[d])) \in Seq(Part)
    BY <2>1
  <2>3. back' \in [Dest -> Seq(Part)] /\ dheld' \in [Dest -> Seq(Part)]
    BY <1>5, <2>2 DEF ReadDest, TypeOK
  <2> QED
    BY <1>5, <2>3, DataStep DEF ReadDest, lists, ends, client
<1>6. CASE HandleDest(d)
  <2>1. /\ sock' = sock \/ sock' = Closed({c})
        /\ timer' = timer \/ timer' = Stopped({c})
        /\ got' = got \/ got' = Told(c, dheld[d])
        /\ dheld' = [dheld EXCEPT ![d] = <<>>]
        /\ UNCHANGED <<m_vConnections, m_vReferencList, pClientSocket, lock, relay, closer, dst,
                       back, server, crashed>>
    BY <1>6 DEF HandleDest, c
  <2>2. /\ got' \in [Conn -> Seq(Part)] /\ dheld' \in [Dest -> Seq(Part)]
        /\ \A x \in Conn : BadGateway \in ToSet(got[x]) => BadGateway \in ToSet(got'[x])
    <3>1. dheld[d] \in Seq(Part) /\ <<>> \in Seq(Part)
      BY DEF TypeOK
    <3> QED
      BY <1>0, <2>1, <3>1, ToldGrows DEF TypeOK
  <2>3. TypeOK' /\ WaitersListed' /\ \A x \in Conn : sock'[x] = "new" => sock[x] = "new"
    BY <1>0, <2>1, <2>2, ClosedStopped DEF TypeOK, WaitersListed
  <2>4. NewIsFresh' /\ AtEndEmpty'
    BY <2>1, <2>3 DEF NewIsFresh, AtEndEmpty
  <2>5. CurrentListed' /\ OthersClosing'
    BY <2>1 DEF CurrentListed, OthersClosing, Current
  <2>6. LossTold' /\ CrashTold'
    BY <2>1, <2>2 DEF LossTold, CrashTold, TypeOK
  <2> QED
    BY <2>3, <2>4, <2>5, <2>6
<1>7. CASE SocketClosingDelete(d)
  <2>1. /\ dst[d] \in Closing /\ lock' = {d}
        /\ m_vReferencList' = m_vReferencList \ {d}
        /\ dst' = [dst EXCEPT ![d] = "unlinked"]
        /\ UNCHANGED <<m_vConnections, pClientSocket, sock, relay, timer, closer, back, dheld,
                       server, crashed, got>>
    BY <1>7 DEF SocketClosingDelete, ends, client
  <2>2. d \in m_vReferencList /\ server \notin {"ends", "destroyed"}
    BY <2>1 DEF OthersClosing, AtEndEmpty
  <2>3. TypeOK'
    BY <2>1 DEF TypeOK
  <2>4. NewIsFresh'
    <3>1. \A x \in Dest : dst[x] = "none" => dst'[x] = "none"
      BY <2>1 DEF TypeOK, Closing
    <3> QED
      BY <2>1, <3>1 DEF NewIsFresh, Dest
  <2>6. CurrentListed'
    <3>1. ASSUME NEW x \in m_vConnections, pClientSocket[x] # 0
          PROVE  Current(x) \in m_vReferencList /\ Current(x) # d
      BY <2>1, <3>1 DEF CurrentListed, Closing
    <3> QED
      BY <2>1, <3>1 DEF CurrentListed, Current, TypeOK
  <2>7. WaitersListed' /\ AtEndEmpty' /\ CrashTold'
    BY <2>1, <2>2 DEF WaitersListed, AtEndEmpty, CrashTold
  <2>5. OthersClosing' /\ LossTold'
    BY <2>1, <2>2 DEF OthersClosing, LossTold, TypeOK, Closing
  <2> QED
    BY <2>3, <2>4, <2>5, <2>6, <2>7
<1>8. CASE Unlock(d)
  <2>1. /\ lock' = {}
        /\ UNCHANGED <<m_vConnections, m_vReferencList, pClientSocket, sock, relay, timer, closer,
                       dst, back, dheld, server, crashed, got>>
    BY <1>8 DEF Unlock, lists, ends, dests, client, Free
  <2> QED
    BY <2>1, ZenonT(40) DEF TypeOK, NewIsFresh, CurrentListed, OthersClosing, LossTold, WaitersListed,
                AtEndEmpty, CrashTold, Current
<1>9. CASE Delete(d)
  <2>1. /\ dst[d] = "unlinked" /\ dst' = [dst EXCEPT ![d] = "deleted"]
        /\ UNCHANGED <<m_vConnections, m_vReferencList, pClientSocket, lock, sock, relay, timer,
                       closer, back, dheld, server, crashed, got>>
    BY <1>9 DEF Delete, lists, ends, client
  <2>2. TypeOK'
    BY <2>1 DEF TypeOK
  <2>3. NewIsFresh' /\ CurrentListed' /\ WaitersListed' /\ AtEndEmpty' /\ CrashTold'
    BY <2>1 DEF NewIsFresh, CurrentListed, Current, WaitersListed, AtEndEmpty, CrashTold, TypeOK,
                Dest
  <2>4. OthersClosing' /\ LossTold'
    BY <2>1 DEF OthersClosing, LossTold, TypeOK, Closing
  <2> QED
    BY <2>2, <2>3, <2>4
<1> QED
  BY <1>1, <1>2, <1>3, <1>4, <1>5, <1>6, <1>7, <1>8, <1>9 DEF DestStep

LEMMA ServerKeeps ==
  ASSUME ProxyInv, ServerStep
  PROVE  ProxyInv'
<1> USE DEF ProxyInv
<1>1. CASE Stop \/ DestructorStop
  <2>1. /\ lock = {} /\ timer' = Stopped(m_vConnections) /\ sock' = Closed(m_vConnections)
        /\ server' = "stops" \/ (server' = "ends" /\ IsStopped)
        /\ UNCHANGED <<m_vConnections, m_vReferencList, pClientSocket, lock, relay, closer, dst,
                       back, dheld, crashed, got>>
    BY <1>1 DEF Stop, DestructorStop, CloseAll, Free, lists, dests, client
  <2>2. TypeOK' /\ WaitersListed' /\ \A x \in Conn : sock'[x] = "new" => sock[x] = "new"
    BY <2>1, ClosedStopped DEF TypeOK, WaitersListed
  <2> QED
    BY <2>1, <2>2 DEF NewIsFresh, CurrentListed, OthersClosing, LossTold, AtEndEmpty, CrashTold,
                      Current, IsStopped
<1>2. CASE Destroy
  <2>1. /\ server = "ends" /\ server' = "destroyed"
        /\ UNCHANGED <<m_vConnections, m_vReferencList, pClientSocket, lock, sock, relay, timer,
                       closer, dst, back, dheld, crashed, got>>
    BY <1>2 DEF Destroy, lists, ends, dests, client
  <2> QED
    BY <2>1 DEF TypeOK, NewIsFresh, CurrentListed, OthersClosing, LossTold, WaitersListed,
                AtEndEmpty, CrashTold, Current
<1> QED
  BY <1>1, <1>2 DEF ServerStep

LEMMA InvNext == ProxyInv /\ [Next]_vars => ProxyInv'
<1> SUFFICES ASSUME ProxyInv, [Next]_vars PROVE ProxyInv'
  OBVIOUS
<1>1. CASE UNCHANGED vars
  BY <1>1, DataStep DEF vars, lists, ends, dests, client, ProxyInv, TypeOK
<1> QED
  BY <1>1, ClientKeeps, DestKeeps, ServerKeeps DEF Next

\* The inductive invariant holds throughout.
THEOREM ProxyInvariant == Spec => []ProxyInv
BY InvInit, InvNext, PTL DEF Spec

\* Every variable the lists depend on keeps its type.
THEOREM ProxyTypes == Spec => []TypeOK
<1>1. ProxyInv => TypeOK
  BY DEF ProxyInv
<1> QED
  BY <1>1, ProxyInvariant, PTL

\* For any clients, destinations, failures and interleavings the two lists
\* agree, and the server goes when nobody uses it.
THEOREM ListsAlwaysAgree == Spec => []ListsAgree
<1>1. ProxyInv => ListsAgree
  <2> SUFFICES ASSUME ProxyInv PROVE ListsAgree
    OBVIOUS
  <2>1. CurrentOf \subseteq {d \in m_vReferencList : dst[d] \in {"connecting", "open", "ended"}}
    BY DEF ProxyInv, CurrentListed, CurrentOf
  <2>2. ASSUME NEW d \in m_vReferencList, d \notin CurrentOf PROVE dst[d] \in Closing
    <3>1. PICK c \in Conn, n \in 1 .. MaxDest : d = <<c, n>>
      BY DEF ProxyInv, TypeOK, Dest
    <3>2. ~(c \in m_vConnections /\ pClientSocket[c] = n)
      BY <2>2, <3>1 DEF CurrentOf, Current
    <3> QED
      BY <3>1, <3>2 DEF ProxyInv, OthersClosing
  <2>3. ASSUME server = "destroyed"
        PROVE  /\ lock = Free /\ m_vReferencList = {}
               /\ \A c \in Conn : closer[c] # "waits" /\ timer[c] \in {"none", "ended"}
    BY <2>3 DEF ProxyInv, AtEndEmpty, WaitersListed, Free
  <2> QED
    BY <2>1, <2>2, <2>3 DEF ListsAgree, ProxyInv, CrashTold
<1> QED
  BY <1>1, ProxyInvariant, PTL

-----------------------------------------------------------------------------
(* Induction over the numbers, for sets *)

\* The order of the natural numbers, as a relation.
LessThan == {ss \in Nat \X Nat : ss[1] < ss[2]}

\* A set of natural numbers that is not empty has a smallest.
LEMMA Smallest ==
  ASSUME NEW T \in SUBSET Nat, T # {}
  PROVE  \E m \in T : \A k \in T : m <= k
<1>1. IsWellFoundedOn(LessThan, Nat)
  BY NatLessThanWellFounded DEF OpToRel, LessThan
<1>2. PICK m \in T : \A k \in T : ~(<<k, m>> \in LessThan)
  BY <1>1, WFMin
<1>3. ASSUME NEW k \in T PROVE m <= k
  <2>1. <<k, m>> \notin LessThan /\ k \in Nat /\ m \in Nat
    BY <1>2
  <2> QED
    BY <2>1 DEF LessThan
<1> QED
  BY <1>3

\* What 1 is in, and with each number the next, all numbers to n are in.
LEMMA Induction ==
  ASSUME NEW n \in Nat, NEW P, 1 \in P, \A i \in 1 .. n - 1 : i \in P => i + 1 \in P
  PROVE  1 .. n \subseteq P
<1> SUFFICES ASSUME (1 .. n) \ P # {} PROVE FALSE
  OBVIOUS
<1> DEFINE T == (1 .. n) \ P
<1>1. T \in SUBSET Nat /\ T # {}
  OBVIOUS
<1>2. PICK m \in T : \A k \in T : m <= k
  <2> HIDE DEF T
  <2> QED
    BY <1>1, Smallest
<1>3. m # 1 /\ m - 1 \in 1 .. n - 1 /\ m - 1 \notin T
  BY <1>2
<1> QED
  BY <1>2, <1>3

-----------------------------------------------------------------------------
(* What FlattenSeq makes of sequences, one after another *)

\* The first, the first two and so on to the first n, joined: the function in FlattenSeq.
Joined(F, n) == CHOOSE f : f = [i \in 1 .. n |-> IF i = 1 THEN F[i] ELSE f[i - 1] \o F[i]]

\* There is such a function, so that CHOOSE finds it.
LEMMA JoinedDef ==
  ASSUME NEW F, NEW n \in Nat
  PROVE  Joined(F, n) = [i \in 1 .. n |-> IF i = 1 THEN F[i] ELSE Joined(F, n)[i - 1] \o F[i]]
<1> DEFINE Is(f, k) == f = [i \in 1 .. k |-> IF i = 1 THEN F[i] ELSE f[i - 1] \o F[i]]
           P == {k \in Nat : \E f : Is(f, k)}
<1>0. Is([i \in 1 .. 0 |-> F[i]], 0) /\ Is([i \in 1 .. 1 |-> F[i]], 1)
  OBVIOUS
<1>1. 1 \in P
  BY <1>0
<1>2. ASSUME NEW k \in 1 .. n - 1, k \in P PROVE k + 1 \in P
  <2>1. PICK f : Is(f, k)
    BY <1>2
  <2> DEFINE g == [i \in 1 .. k + 1 |-> IF i <= k THEN f[i] ELSE f[k] \o F[i]]
             h == [i \in 1 .. k + 1 |-> IF i = 1 THEN F[i] ELSE g[i - 1] \o F[i]]
  <2>2. ASSUME NEW i \in 1 .. k + 1 PROVE g[i] = h[i]
    <3>1. CASE i <= k
      <4>1. i \in 1 .. k /\ (i # 1 => i - 1 \in 1 .. k)
        BY <3>1
      <4>2. g[i] = f[i] /\ (i # 1 => g[i - 1] = f[i - 1])
        BY <4>1
      <4>3. f[i] = IF i = 1 THEN F[i] ELSE f[i - 1] \o F[i]
        BY <2>1, <4>1
      <4> QED
        BY <4>2, <4>3
    <3>2. CASE i = k + 1
      <4>1. i # 1 /\ i - 1 = k /\ k \in 1 .. k /\ k \in 1 .. k + 1 /\ ~(i <= k)
        BY <3>2
      <4>2. g[k] = f[k]
        BY <4>1
      <4>3. g[i] = f[k] \o F[i] /\ h[i] = g[i - 1] \o F[i]
        BY <4>1
      <4> QED
        BY <4>1, <4>2, <4>3
    <3> QED
      BY <3>1, <3>2
  <2>3. g = h
    <3> HIDE DEF P, Is
    <3> QED
      BY <2>2
  <2>4. Is(g, k + 1)
    BY <2>3
  <2> HIDE DEF g, Is
  <2> QED
    BY <2>4
<1>3. \E f : Is(f, n)
  <2>1. n # 0 => 1 .. n \subseteq P
    <3> HIDE DEF P
    <3> QED
      BY <1>1, <1>2, Induction
  <2>2. n # 0 => n \in P
    <3> HIDE DEF P
    <3>1. n # 0 => n \in 1 .. n
      OBVIOUS
    <3> QED
      BY <2>1, <3>1
  <2> HIDE DEF Is
  <2> QED
    BY <1>0, <2>2
<1>4. PICK f : Is(f, n)
  BY <1>3
<1>5. Joined(F, n) = CHOOSE g : Is(g, n)
  BY DEF Joined
<1> QED
  BY <1>4, <1>5

\* Each is the one before it with the next behind it.
LEMMA JoinedSteps ==
  ASSUME NEW F, NEW n \in Nat
  PROVE  /\ n # 0 => Joined(F, n)[1] = F[1]
         /\ \A i \in 1 .. n - 1 : Joined(F, n)[i + 1] = Joined(F, n)[i] \o F[i + 1]
<1> DEFINE J == Joined(F, n)
<1>1. J = [i \in 1 .. n |-> IF i = 1 THEN F[i] ELSE J[i - 1] \o F[i]]
  BY JoinedDef
<1> HIDE DEF J
<1>2. n # 0 => J[1] = F[1]
  BY <1>1
<1>3. ASSUME NEW i \in 1 .. n - 1 PROVE J[i + 1] = J[i] \o F[i + 1]
  <2>1. i + 1 \in 1 .. n /\ i + 1 # 1 /\ (i + 1) - 1 = i
    OBVIOUS
  <2> QED
    BY <1>1, <2>1
<1> QED
  BY <1>2, <1>3 DEF J

\* Joining sequences is associative.
LEMMA Regroup ==
  ASSUME NEW S, NEW s \in Seq(S), NEW t \in Seq(S), NEW u \in Seq(S)
  PROVE  s \o (t \o u) = (s \o t) \o u
BY ConcatAssociative

\* Sequences over S may be appended in either order.
Regroups(S) == \A s, t, u \in Seq(S) : s \o (t \o u) = (s \o t) \o u

\* That, as a fact about the set.
LEMMA RegroupAll ==
  ASSUME NEW S
  PROVE  Regroups(S)
BY Regroup DEF Regroups

\* It begins with the first.
LEMMA JoinedFirst ==
  ASSUME NEW F, NEW n \in Nat \ {0}
  PROVE  Joined(F, n)[1] = F[1]
BY JoinedSteps

\* The step alone.
LEMMA JoinedStep ==
  ASSUME NEW F, NEW n \in Nat, NEW i \in 1 .. n - 1
  PROVE  Joined(F, n)[i + 1] = Joined(F, n)[i] \o F[i + 1]
BY JoinedSteps

\* What FlattenSeq makes is the last of them.
LEMMA FlattenIsJoined ==
  ASSUME NEW n \in Nat \ {0}, NEW T, NEW F \in [1 .. n -> Seq(T)]
  PROVE  FlattenSeq(F) = Joined(F, n)[n]
<1>1. F \in Seq(Seq(T)) /\ Len(F) = n
  OBVIOUS
<1> QED
  BY <1>1 DEF FlattenSeq, Joined

\* What sequences over T are joined to is one.
LEMMA JoinedType ==
  ASSUME NEW n \in Nat, NEW T, NEW F \in [1 .. n -> Seq(T)]
  PROVE  \A i \in 1 .. n : Joined(F, n)[i] \in Seq(T)
<1> DEFINE P == {i \in Nat : Joined(F, n)[i] \in Seq(T)}
<1>0. CASE n = 0
  BY <1>0
<1>1. CASE n # 0
  <2>1. Joined(F, n)[1] = F[1]
    BY <1>1, JoinedFirst
  <2>4. 1 \in P
    BY <1>1, <2>1
  <2>2. \A i \in 1 .. n - 1 : i \in P => i + 1 \in P
    <3> SUFFICES ASSUME NEW i \in 1 .. n - 1, Joined(F, n)[i] \in Seq(T)
                 PROVE  Joined(F, n)[i + 1] \in Seq(T)
      OBVIOUS
    <3>1. Joined(F, n)[i + 1] = Joined(F, n)[i] \o F[i + 1]
      BY JoinedStep
    <3>2. F[i + 1] \in Seq(T)
      OBVIOUS
    <3> QED
      BY <3>1, <3>2
  <2>3. 1 .. n \subseteq P
    <3> HIDE DEF P
    <3> QED
      BY <2>4, <2>2, Induction
  <2> QED
    BY <2>3
<1> QED
  BY <1>0, <1>1

\* FlattenSeq yields a sequence over T.
LEMMA FlattenType ==
  ASSUME NEW n \in Nat \ {0}, NEW T, NEW F \in [1 .. n -> Seq(T)]
  PROVE  FlattenSeq(F) \in Seq(T)
BY JoinedType, FlattenIsJoined

\* Nothing, joined, is nothing.
LEMMA FlattenEmpty ==
  ASSUME NEW n \in Nat \ {0}, NEW F, F = [i \in 1 .. n |-> <<>>]
  PROVE  FlattenSeq(F) = <<>>
<1> DEFINE P == {i \in Nat : Joined(F, n)[i] = <<>>}
<1>0. F \in [1 .. n -> Seq({})]
  OBVIOUS
<1>1. 1 \in P
  <2>1. Joined(F, n)[1] = F[1]
    BY JoinedFirst
  <2>2. F[1] = <<>>
    OBVIOUS
  <2> QED
    BY <2>1, <2>2
<1>2. \A i \in 1 .. n - 1 : i \in P => i + 1 \in P
  <2> SUFFICES ASSUME NEW i \in 1 .. n - 1, Joined(F, n)[i] = <<>>
               PROVE  Joined(F, n)[i + 1] = <<>>
    OBVIOUS
  <2>1. Joined(F, n)[i + 1] = Joined(F, n)[i] \o F[i + 1]
    BY JoinedStep
  <2>2. F[i + 1] = <<>>
    OBVIOUS
  <2>3. <<>> \o <<>> = <<>>
    OBVIOUS
  <2> QED
    BY <2>1, <2>2, <2>3
<1>3. 1 .. n \subseteq P
  <2> HIDE DEF P
  <2> QED
    BY <1>1, <1>2, Induction
<1>4. Joined(F, n)[n] = <<>>
  BY <1>3
<1> QED
  BY <1>0, <1>4, FlattenIsJoined

\* s is appended to the k-th, behind which nothing is.
Appended(F, G, k, s, n) ==
  /\ G[k] = F[k] \o s /\ \A i \in 1 .. n : i # k => G[i] = F[i]
  /\ \A i \in k + 1 .. n : F[i] = <<>>

\* What is appended to the last that is not empty comes last of all.
LEMMA FlattenAppend ==
  ASSUME NEW n \in Nat \ {0}, NEW T, NEW F \in [1 .. n -> Seq(T)], NEW G \in [1 .. n -> Seq(T)],
         NEW k \in 1 .. n, NEW s \in Seq(T), Appended(F, G, k, s, n)
  PROVE  FlattenSeq(G) = FlattenSeq(F) \o s
<1>6. Regroups(T)
  BY RegroupAll
<1> DEFINE Q(i) == /\ i < k => Joined(G, n)[i] = Joined(F, n)[i]
                   /\ i >= k => Joined(G, n)[i] = Joined(F, n)[i] \o s
           P == {i \in Nat : Q(i)}
<1>0. /\ G \in [1 .. n -> Seq(T)] /\ G[k] = F[k] \o s
      /\ \A i \in 1 .. n : i # k => G[i] = F[i]
      /\ \A i \in k + 1 .. n : F[i] = <<>>
  BY DEF Appended
<1> DEFINE f == Joined(F, n)
           g == Joined(G, n)
<1>1. 1 \in P
  <2>1. f[1] = F[1]
    BY JoinedFirst
  <2>2. g[1] = G[1]
    BY JoinedFirst
  <2> HIDE DEF f, g
  <2>3. k = 1 => G[1] = F[1] \o s
    BY <1>0
  <2>4. k # 1 => G[1] = F[1] /\ 1 < k
    BY <1>0
  <2>5. Q(1)
    BY <2>1, <2>2, <2>3, <2>4 DEF f, g
  <2> HIDE DEF Q
  <2> QED
    BY <2>5
<1>2. ASSUME NEW i \in 1 .. n - 1, i \in P PROVE i + 1 \in P
  <2>1. i \in 1 .. n /\ i + 1 \in 1 .. n
    OBVIOUS
  <2>8. i \in Int /\ k \in Int /\ n \in Int /\ i + 1 <= n
    OBVIOUS
  <2>6. f[i + 1] = f[i] \o F[i + 1]
    BY JoinedStep
  <2>7. g[i + 1] = g[i] \o G[i + 1]
    BY JoinedStep
  <2>2. f[i] \in Seq(T) /\ F[i + 1] \in Seq(T)
    BY <2>1, JoinedType
  <2>0. (i < k => g[i] = f[i]) /\ (i >= k => g[i] = f[i] \o s)
    BY <1>2
  <2> SUFFICES (i + 1 < k => g[i + 1] = f[i + 1]) /\ (i + 1 >= k => g[i + 1] = f[i + 1] \o s)
    OBVIOUS
  <2> HIDE DEF f, g, P, Q
  <2>3. CASE i + 1 < k
    <3>1. g[i] = f[i]
      BY <2>0, <2>3
    <3>2. G[i + 1] = F[i + 1]
      BY <1>0, <2>1, <2>3
    <3>3. g[i + 1] = f[i + 1]
      BY <2>6, <2>7, <3>1, <3>2
    <3> QED
      BY <2>3, <3>3
  <2>4. CASE i + 1 = k
    <3>1. g[i] = f[i]
      BY <2>0, <2>4
    <3>3. G[i + 1] = F[i + 1] \o s
      BY <1>0, <2>4
    <3>2. f[i] \o (F[i + 1] \o s) = (f[i] \o F[i + 1]) \o s
      BY <1>6, <2>2, Zenon DEF Regroups
    <3>4. g[i + 1] = f[i + 1] \o s
      BY <2>6, <2>7, <3>1, <3>2, <3>3
    <3> QED
      BY <2>4, <3>4
  <2>5. CASE i + 1 > k
    <3>0. i >= k /\ i + 1 \in k + 1 .. n
      BY <2>5, <2>8
    <3>1. g[i] = f[i] \o s
      BY <2>0, <3>0
    <3>2. G[i + 1] = <<>> /\ F[i + 1] = <<>>
      BY <1>0, <2>1, <2>5, <2>8, <3>0
    <3>3. (f[i] \o s) \o <<>> = f[i] \o s /\ f[i] \o <<>> = f[i]
      BY <2>2
    <3> QED
      BY <2>5, <2>6, <2>7, <3>1, <3>2, <3>3
  <2> QED
    BY <2>3, <2>4, <2>5, <2>8
<1>3. 1 .. n \subseteq P
  <2> HIDE DEF P
  <2> QED
    BY <1>1, <1>2, Induction
<1>4. Joined(G, n)[n] = Joined(F, n)[n] \o s
  <2>1. n \in P
    BY <1>3
  <2> QED
    BY <2>1
<1>5. FlattenSeq(G) = Joined(G, n)[n] /\ FlattenSeq(F) = Joined(F, n)[n]
  BY <1>0, FlattenIsJoined
<1> QED
  BY <1>4, <1>5

\* x is somewhere in s.
In(x, s) == \E j \in 1 .. Len(s) : s[j] = x

\* Nothing is lost on the way.
LEMMA FlattenHolds ==
  ASSUME NEW n \in Nat \ {0}, NEW T, NEW F \in [1 .. n -> Seq(T)], NEW k \in 1 .. n,
         NEW m \in DOMAIN F[k]
  PROVE  In(F[k][m], FlattenSeq(F))
<1> DEFINE x == F[k][m]
           f == Joined(F, n)
           Has(s) == \E j \in 1 .. Len(s) : s[j] = x
           P == {i \in Nat : i >= k => Has(f[i])}
<1>00. Has(F[k])
  OBVIOUS
<1> HIDE DEF x
<1>0. ASSUME NEW s \in Seq(T), NEW t \in Seq(T), Has(s) \/ Has(t)
      PROVE  Has(s \o t)
  <2>0. /\ Len(s \o t) = Len(s) + Len(t) /\ Len(s) \in Nat /\ Len(t) \in Nat
        /\ \A j \in 1 .. Len(s) : (s \o t)[j] = s[j]
        /\ \A j \in 1 .. Len(t) : (s \o t)[Len(s) + j] = t[j]
    OBVIOUS
  <2>1. CASE Has(s)
    <3>1. PICK j \in 1 .. Len(s) : s[j] = x
      BY <2>1
    <3>2. (s \o t)[j] = x /\ j \in 1 .. Len(s \o t)
      BY <2>0, <3>1
    <3> QED
      BY <3>2
  <2>2. CASE Has(t)
    <3>1. PICK j \in 1 .. Len(t) : t[j] = x
      BY <2>2
    <3>2. (s \o t)[Len(s) + j] = x /\ Len(s) + j \in 1 .. Len(s \o t)
      BY <2>0, <3>1
    <3> QED
      BY <3>2
  <2> QED
    BY <1>0, <2>1, <2>2
<1>1. 1 \in P
  <2>1. f[1] = F[1]
    BY JoinedFirst
  <2> HIDE DEF Has
  <2> QED
    BY <1>00, <2>1
<1>2. ASSUME NEW i \in 1 .. n - 1, i \in P PROVE i + 1 \in P
  <2>1. i \in 1 .. n /\ i + 1 \in 1 .. n
    OBVIOUS
  <2>5. f[i + 1] = f[i] \o F[i + 1]
    BY JoinedStep
  <2>2. f[i] \in Seq(T) /\ F[i + 1] \in Seq(T)
    BY <2>1, JoinedType
  <2>6. i >= k => Has(f[i])
    BY <1>2
  <2> SUFFICES i + 1 >= k => Has(f[i + 1])
    OBVIOUS
  <2> HIDE DEF Has, f, P
  <2>3. CASE i >= k
    BY <1>0, <2>2, <2>3, <2>5, <2>6
  <2>4. CASE i + 1 = k
    <3>1. Has(F[i + 1])
      BY <1>00, <2>4
    <3> QED
      BY <1>0, <2>2, <2>5, <3>1
  <2> QED
    BY <2>3, <2>4
<1>3. 1 .. n \subseteq P
  <2> HIDE DEF P
  <2> QED
    BY <1>1, <1>2, Induction
<1>4. Has(FlattenSeq(F))
  <2>1. FlattenSeq(F) = f[n] /\ n >= k /\ n \in 1 .. n
    BY FlattenIsJoined
  <2> HIDE DEF Has, f
  <2> QED
    BY <1>3, <2>1
<1> QED
  BY <1>4 DEF x, In

-----------------------------------------------------------------------------
(* What came from a client reaches its destinations *)

\* The types of what is sent, kept and asked for, behind that of TypeOK.
Byte == [req : Nat, part : Nat, bare : BOOLEAN]
Request == [host : Host, body : Nat, connect : BOOLEAN]
Names == {Name[h] : h \in Host} \cup {NoName}
Details == [strBuffer : Seq(Byte), connect : BOOLEAN, to : Names, bConncted : BOOLEAN,
            bAnswerd : BOOLEAN]

BytesTyped ==
  /\ details \in [Conn -> Details] /\ held \in [Conn -> Seq(Byte)]
  /\ host \in [Dest -> Host \cup {NoHost}] /\ inbox \in [Dest -> Seq(Byte)]
  /\ asked \in [Conn -> Seq(Request)] /\ sent \in [Conn -> Seq(Byte)]
  /\ nread \in [Conn -> Nat] /\ replied \in [Conn -> Nat] /\ late \subseteq Conn

Number == 1 .. MaxDest
Buffer(c) == details[c].strBuffer
Inboxes(c) == [k \in Number |-> inbox[<<c, k>>]]

\* s is what t has behind its first p, but for the lines that lost their host.
Follows(s, t, p) ==
  \A i \in 1 .. Len(s) : s[i].req = t[p + i].req /\ s[i].part = t[p + i].part

\* What a client sends for its requests: none but the first has a body, and a
\* tunnel is asked for alone.
BodyLen(s, reqs) == Len(s) - 2 * Len(reqs)
SentFor(s, reqs) ==
  LET n == BodyLen(s, reqs) IN
  /\ n \in Nat
  /\ reqs = <<>> => n = 0
  /\ reqs # <<>> => \A i \in 1 .. n + 2 : s[i] = Token(1, i)
  /\ \A r \in 2 .. Len(reqs), p \in 1 .. 2 : s[n + 2 * r - 2 + p] = Token(r, p)
  /\ \A r \in 2 .. Len(reqs) : reqs[r].body = 0 /\ ~reqs[1].connect
  /\ reqs # <<>> /\ ~reqs[1].connect => n = reqs[1].body

Tunnel(c) == asked[c] # <<>> /\ asked[c][1].connect
Body(c) == BodyLen(sent[c], asked[c])
Connecting(c) == pClientSocket[c] # 0 /\ dst[Current(c)] = "connecting"

\* Nothing is known yet of a socket that is new.
Untouched(c) ==
  sock[c] = "new" =>
    /\ asked[c] = <<>> /\ held[c] = <<>> /\ got[c] = <<>> /\ details[c] = NewDetails
    /\ nread[c] = 0 /\ replied[c] = 0 /\ c \notin late
    /\ \A k \in Number : inbox[<<c, k>>] = <<>> /\ dheld[<<c, k>>] = <<>>

\* By its name: two hosts with one name are one destination for the proxy.
HostsRight(c) ==
  \A k \in Number : \A i \in 1 .. Len(inbox[<<c, k>>]) :
    LET r == inbox[<<c, k>>][i].req IN
    /\ r \in 1 .. Len(asked[c]) /\ host[<<c, k>>] \in Host
    /\ Name[asked[c][r].host] = Name[host[<<c, k>>]]

\* What was written, what is kept and what is held is what was read, in this order.
\* Only the header that asked for a tunnel is kept while what follows is written.
InOrder(c) ==
  LET n == Len(Buffer(c))
      w == Len(Written(c)) IN
  /\ nread[c] <= Len(sent[c]) /\ nread[c] = w + n + Len(held[c])
  /\ Follows(Buffer(c), sent[c], IF details[c].connect THEN 0 ELSE w)
  /\ Follows(Written(c), sent[c], IF details[c].connect THEN n ELSE 0)
  /\ Follows(held[c], sent[c], w + n)

\* Once strBuffer was extended too late the order is lost, but what was read is still
\* counted, and of it a part is missing with every destination: none has a whole request.
HasPart(box, p) == \E i \in 1 .. Len(box) : box[i].part = p
Missing(c, p) == \A k \in Number : ~HasPart(inbox[<<c, k>>], p)
LeftOut(c) == \E p \in 1 .. nread[c] : Missing(c, p)
Counted(c) ==
  /\ nread[c] <= Len(sent[c])
  /\ nread[c] = Len(Written(c)) + Len(Buffer(c)) + Len(held[c])
Accounted(c) == /\ c \notin late => InOrder(c)
                /\ c \in late => Counted(c) /\ LeftOut(c)

\* The sockets to the destinations are numbered in the order they were opened.
Numbers(c) ==
  /\ \A k \in Number : k > pClientSocket[c] /\ (pClientSocket[c] # 0 \/ c \notin relay) =>
       dst[<<c, k>>] = "none" /\ inbox[<<c, k>>] = <<>>
  /\ \A k \in Number : k <= pClientSocket[c] => dst[<<c, k>>] # "none"
  /\ \A k \in Number : k # pClientSocket[c] =>
       dst[<<c, k>>] \in {"none", "closing", "unlinked", "deleted"}

\* A destination answers what has been written.
AnsweredWritten(c) ==
  replied[c] # 0 /\ ~Tunnel(c) =>
    replied[c] <= Len(asked[c]) /\ Len(Written(c)) >= Body(c) + 2 * replied[c]

\* Only behind Connected is data late, and nobody answers without it.
LateSettled(c) ==
  c \in late => /\ details[c].bConncted /\ pClientSocket[c] # 0 /\ ~Connecting(c)
                /\ ~details[c].bAnswerd /\ replied[c] = 0

\* Until the first destination is there.
NoneThere(c) ==
  /\ \A k \in Number : /\ dst[<<c, k>>] \in {"none", "connecting", "ended"}
                       /\ inbox[<<c, k>>] = <<>> /\ dheld[<<c, k>>] = <<>>
  /\ replied[c] = 0 /\ ~details[c].bAnswerd
  /\ \A i \in 1 .. Len(got[c]) : got[c][i] = BadGateway
  /\ details[c].bConncted => sock[c] # "open" /\ pClientSocket[c] # 0 /\ ~Connecting(c)

\* Until the first line lost its host, only the first request was asked for.
FirstKept(c) ==
  /\ Buffer(c) = <<>> \/ ~Buffer(c)[1].bare =>
       Len(asked[c]) <= 1 /\ (sock[c] = "open" => got[c] = <<>> \/ Tunnel(c))
  /\ Tunnel(c) => Len(sent[c]) = 2
  /\ details[c].connect => Tunnel(c)

\* Who has a socket sent a whole header, which is for the host that is connected to.
FirstAsked(c) ==
  pClientSocket[c] # 0 =>
    /\ Len(Buffer(c)) >= 2 /\ (details[c].connect <=> Tunnel(c))
    /\ host[Current(c)] # NoHost =>
         /\ Len(asked[c]) = 1 /\ host[Current(c)] = asked[c][1].host
         /\ details[c].to = Name[host[Current(c)]]
         /\ sock[c] = "open" => got[c] = <<>> \/ Tunnel(c)

Waiting(c) == NoneThere(c) /\ FirstKept(c) /\ FirstAsked(c)

\* The header waits for ever, all behind it goes through.
ThroughTunnel(c) ==
  /\ Tunnel(c) /\ pClientSocket[c] # 0 /\ held[c] = <<>> /\ c \notin late
  /\ Len(Buffer(c)) = 2 /\ host[Current(c)] = asked[c][1].host /\ ~Connecting(c)

\* Until the first answer there is one request, and all of it was passed on.
BeforeAnswer(c) ==
  /\ Len(asked[c]) = 1 /\ details[c].bConncted /\ ~Connecting(c)
  /\ host[Current(c)] = asked[c][1].host
  /\ sock[c] = "open" => got[c] = <<>>
  /\ c \notin late => Buffer(c) = <<>>

\* Then the first request is through, and all but the last.
AfterAnswer(c) ==
  /\ Len(Written(c)) >= Body(c) + 2
  /\ Len(Written(c)) >= Body(c) + 2 * (Len(asked[c]) - 1)

\* What is kept back: half a header, or a request that waits for its host.
KeptBack(c) ==
  /\ Connecting(c) => \A i \in 1 .. Len(Buffer(c)) :
       Name[asked[c][Buffer(c)[i].req].host] = Name[host[Current(c)]]
  /\ sock[c] = "open" /\ c \notin late =>
       IF details[c].bConncted
       THEN ~Connecting(c)
            /\ \A i \in 1 .. Len(Buffer(c)) : Buffer(c)[i].part = 1 /\ ~Buffer(c)[i].bare
       ELSE nread[c] = Len(sent[c]) /\ Buffer(c) # <<>>

\* A connection that has a destination and is no tunnel.
Passing(c) ==
  /\ host[Current(c)] \in Host /\ details[c].to = Name[host[Current(c)]]
  /\ sock[c] = "open" => \A i \in 1 .. Len(got[c]) : got[c][i].part # 502
  /\ ~details[c].bAnswerd => BeforeAnswer(c)
  /\ details[c].bAnswerd /\ c \notin late => AfterAnswer(c)
  /\ KeptBack(c)

\* A connection whose client's socket has OnDataRecievedClient.
Relaying(c) ==
  /\ asked[c] # <<>> /\ (details[c].connect <=> Tunnel(c))
  /\ Connecting(c) \/ ~details[c].bConncted \/ pClientSocket[c] = 0 => held[c] = <<>>
  /\ details[c].bAnswerd => held[c] = <<>>
  /\ pClientSocket[c] = 0 => ~details[c].bConncted \/ sock[c] # "open"
  /\ details[c].connect => ThroughTunnel(c)
  /\ ~details[c].connect /\ pClientSocket[c] # 0 => Passing(c)

\* A connection that is in m_vConnections.
Kept(c) ==
  /\ Accounted(c) /\ Numbers(c) /\ AnsweredWritten(c) /\ LateSettled(c)
  /\ c \notin relay => Waiting(c)
  /\ c \in relay => Relaying(c)

\* Where an answer may be: with the client, on its way or read from it.
Places == {<<0, 0>>} \cup ({1, 2} \X Number)
Answered(c) ==
  [x \in Places |-> IF x[1] = 0 THEN got[c]
                    ELSE IF x[1] = 1 THEN back[<<c, x[2]>>] ELSE dheld[<<c, x[2]>>]]

\* No answer ends twice, and one that ends was given.
Ends(s) == {i \in 1 .. Len(s) : s[i].part = 2}
EndOnce(F) ==
  \A x, y \in Places : \A i \in Ends(F[x]), j \in Ends(F[y]) :
    F[x][i].req = F[y][j].req => x = y /\ i = j
EndsGiven(F, n) == \A x \in Places : \A i \in Ends(F[x]) : F[x][i].req \in 1 .. n

\* What comes from a destination are answers it has given.
FromAnswers(s, n) == \A i \in 1 .. Len(s) : s[i].req \in 1 .. n /\ s[i].part \in 1 .. 2
OnlyAnswers(c) ==
  \A k \in Number :
    /\ FromAnswers(back[<<c, k>>], replied[c])
    /\ dheld[<<c, k>>] = <<End>> \/ FromAnswers(dheld[<<c, k>>], replied[c])

\* Any connection.
Served(c) ==
  /\ Untouched(c) /\ SentFor(sent[c], asked[c]) /\ HostsRight(c)
  /\ EndOnce(Answered(c)) /\ EndsGiven(Answered(c), replied[c]) /\ OnlyAnswers(c)
  /\ c \in m_vConnections => Kept(c)

\* The inductive invariant: the bytes are where the callbacks expect them.
KeptInv == BytesTyped /\ \A c \in Conn : Served(c)

-----------------------------------------------------------------------------
(* Following a sequence *)

\* Length and elements of two sequences, one behind the other.
LEMMA Cat ==
  ASSUME NEW T, NEW s \in Seq(T), NEW u \in Seq(T)
  PROVE  /\ s \o u \in Seq(T) /\ Len(s \o u) = Len(s) + Len(u)
         /\ Len(s) \in Nat /\ Len(u) \in Nat
         /\ \A i \in 1 .. Len(s) : (s \o u)[i] = s[i]
         /\ \A i \in 1 .. Len(u) : (s \o u)[Len(s) + i] = u[i]
OBVIOUS

\* What is joined follows t where its parts do.
LEMMA FollowsJoin ==
  ASSUME NEW T, NEW s \in Seq(T), NEW u \in Seq(T), NEW t, NEW p \in Nat
  PROVE  Follows(s \o u, t, p) <=> Follows(s, t, p) /\ Follows(u, t, p + Len(s))
<1>0. /\ Len(s \o u) = Len(s) + Len(u) /\ Len(s) \in Nat /\ Len(u) \in Nat
      /\ \A i \in 1 .. Len(s) : (s \o u)[i] = s[i]
      /\ \A i \in 1 .. Len(u) : (s \o u)[Len(s) + i] = u[i]
  OBVIOUS
<1>1. ASSUME Follows(s \o u, t, p) PROVE Follows(s, t, p) /\ Follows(u, t, p + Len(s))
  <2>1. ASSUME NEW i \in 1 .. Len(s) PROVE s[i].req = t[p + i].req /\ s[i].part = t[p + i].part
    <3>1. i \in 1 .. Len(s \o u)
      BY <1>0
    <3> QED
      BY <1>0, <1>1, <3>1 DEF Follows
  <2>2. ASSUME NEW i \in 1 .. Len(u)
        PROVE  u[i].req = t[p + Len(s) + i].req /\ u[i].part = t[p + Len(s) + i].part
    <3>1. Len(s) + i \in 1 .. Len(s \o u) /\ p + (Len(s) + i) = p + Len(s) + i
      BY <1>0
    <3> QED
      BY <1>0, <1>1, <3>1 DEF Follows
  <2> QED
    BY <2>1, <2>2 DEF Follows
<1>2. ASSUME Follows(s, t, p), Follows(u, t, p + Len(s)), NEW i \in 1 .. Len(s \o u)
      PROVE  (s \o u)[i].req = t[p + i].req /\ (s \o u)[i].part = t[p + i].part
  <2>1. CASE i \in 1 .. Len(s)
    BY <1>0, <1>2, <2>1 DEF Follows
  <2>2. CASE i \notin 1 .. Len(s)
    <3>1. i - Len(s) \in 1 .. Len(u) /\ Len(s) + (i - Len(s)) = i /\ p + Len(s) + (i - Len(s)) = p + i
      BY <1>0, <2>2
    <3> DEFINE k == i - Len(s)
    <3>2. (s \o u)[i] = u[k] /\ k \in 1 .. Len(u) /\ p + Len(s) + k = p + i
      BY <1>0, <3>1
    <3> HIDE DEF k
    <3> QED
      BY <1>2, <3>2 DEF Follows
  <2> QED
    BY <2>1, <2>2
<1> QED
  BY <1>1, <1>2 DEF Follows

\* More behind t changes nothing.
LEMMA FollowsGrown ==
  ASSUME NEW T, NEW s \in Seq(T), NEW t \in Seq(T), NEW u \in Seq(T), NEW p \in Nat,
         p + Len(s) <= Len(t), Follows(s, t, p)
  PROVE  Follows(s, t \o u, p)
<1>1. \A i \in 1 .. Len(s) : p + i \in 1 .. Len(t) /\ (t \o u)[p + i] = t[p + i]
  OBVIOUS
<1> QED
  BY <1>1 DEF Follows

\* Nothing follows anything.
LEMMA FollowsNothing ==
  ASSUME NEW t, NEW p PROVE Follows(<<>>, t, p)
BY DEF Follows

-----------------------------------------------------------------------------
(* What a client sends *)

\* The byte at each place of what was sent: its request and its part.
LEMMA SentAt ==
  ASSUME NEW s \in Seq(Byte), NEW reqs \in Seq(Request), SentFor(s, reqs), NEW j \in 1 .. Len(s)
  PROVE  /\ BodyLen(s, reqs) \in Nat /\ Len(s) = BodyLen(s, reqs) + 2 * Len(reqs)
         /\ \/ j <= BodyLen(s, reqs) + 2 /\ s[j] = Token(1, j) /\ 1 \in 1 .. Len(reqs)
            \/ \E r \in 2 .. Len(reqs), p \in 1 .. 2 :
                 j = BodyLen(s, reqs) + 2 * r - 2 + p /\ s[j] = Token(r, p)
<1> DEFINE n == BodyLen(s, reqs)
<1>1. n \in Nat /\ Len(s) = n + 2 * Len(reqs) /\ Len(reqs) \in Nat
  BY DEF SentFor, BodyLen
<1>2. reqs # <<>> /\ Len(reqs) >= 1
  BY <1>1 DEF SentFor
<1>3. CASE j <= n + 2
  BY <1>1, <1>2, <1>3 DEF SentFor
<1>4. CASE j > n + 2
  <2> DEFINE m == j - n - 3
             r == 2 + (m \div 2)
             p == 1 + (m % 2)
  <2>1. m \in Nat /\ m < 2 * Len(reqs) - 2
    BY <1>1, <1>4
  <2>2. m = 2 * (m \div 2) + (m % 2) /\ m % 2 \in 0 .. 1 /\ m \div 2 \in Nat
    <3> HIDE DEF m
    <3> QED
      BY <2>1
  <2>3. r \in 2 .. Len(reqs) /\ p \in 1 .. 2 /\ j = n + 2 * r - 2 + p
    <3> DEFINE q == m \div 2
               o == m % 2
    <3>1. q \in Nat /\ o \in 0 .. 1 /\ m = 2 * q + o /\ r = 2 + q /\ p = 1 + o
      BY <2>2
    <3>2. m = j - n - 3
      OBVIOUS
    <3> HIDE DEF m, q, o, r, p, n
    <3> QED
      BY <1>1, <2>1, <3>1, <3>2
  <2> HIDE DEF r, p
  <2>4. s[j] = Token(r, p)
    BY <2>3 DEF SentFor
  <2> QED
    BY <1>1, <2>3, <2>4
<1> QED
  BY <1>1, <1>3, <1>4

\* A byte belongs to a request that was asked for, and is as it was sent.
LEMMA SentReq ==
  ASSUME NEW s \in Seq(Byte), NEW reqs \in Seq(Request), SentFor(s, reqs), NEW j \in 1 .. Len(s)
  PROVE  s[j].req \in 1 .. Len(reqs) /\ ~s[j].bare
<1>1. (s[j] = Token(1, j) /\ 1 \in 1 .. Len(reqs))
      \/ \E r \in 2 .. Len(reqs), p \in 1 .. 2 : s[j] = Token(r, p)
  BY SentAt
<1>2. ASSUME NEW r \in 2 .. Len(reqs), NEW p \in 1 .. 2, s[j] = Token(r, p)
      PROVE  s[j].req \in 1 .. Len(reqs) /\ ~s[j].bare
  BY <1>2 DEF Token
<1>3. CASE s[j] = Token(1, j) /\ 1 \in 1 .. Len(reqs)
  BY <1>3 DEF Token
<1> QED
  BY <1>1, <1>2, <1>3

\* The last request's header, once all before it is through.
LEMMA SentLast ==
  ASSUME NEW s \in Seq(Byte), NEW reqs \in Seq(Request), SentFor(s, reqs), NEW j \in 1 .. Len(s),
         j > BodyLen(s, reqs) + 2, j > BodyLen(s, reqs) + 2 * (Len(reqs) - 1)
  PROVE  /\ s[j].req = Len(reqs) /\ s[j].part \in 1 .. 2
         /\ s[j].part = 2 <=> j = Len(s)
<1>1. Len(s) \in Nat /\ Len(reqs) \in Nat
  OBVIOUS
<1>2. /\ BodyLen(s, reqs) \in Nat /\ Len(s) = BodyLen(s, reqs) + 2 * Len(reqs)
      /\ \E r \in 2 .. Len(reqs), p \in 1 .. 2 :
                 j = BodyLen(s, reqs) + 2 * r - 2 + p /\ s[j] = Token(r, p)
  BY SentAt, SMTT(30)
<1> DEFINE n == BodyLen(s, reqs)
<1> HIDE DEF n
<1>3. PICK r \in 2 .. Len(reqs), p \in 1 .. 2 : j = n + 2 * r - 2 + p /\ s[j] = Token(r, p)
  BY <1>2 DEF n
<1>4. n \in Nat /\ Len(s) = n + 2 * Len(reqs) /\ j > n + 2 * (Len(reqs) - 1)
  BY <1>2 DEF n
<1>5. r = Len(reqs)
  BY <1>1, <1>3, <1>4
<1> QED
  BY <1>1, <1>3, <1>4, <1>5, SMTT(30) DEF Token

\* The end of a request that was asked for.
LEMMA SentEnd ==
  ASSUME NEW s \in Seq(Byte), NEW reqs \in Seq(Request), SentFor(s, reqs), NEW j \in 1 .. Len(s),
         ~reqs[1].connect, s[j].req \in 1 .. Len(reqs), s[j].part = 2 + reqs[s[j].req].body
  PROVE  j >= BodyLen(s, reqs) + 2 * s[j].req
<1> DEFINE n == BodyLen(s, reqs)
<1>1. n \in Nat /\ (reqs # <<>> => n = reqs[1].body) /\ Len(reqs) \in Nat
  BY DEF SentFor
<1>2. CASE s[j] = Token(1, j)
  BY <1>1, <1>2 DEF Token
<1>3. CASE \E r \in 2 .. Len(reqs), p \in 1 .. 2 : j = n + 2 * r - 2 + p /\ s[j] = Token(r, p)
  <2>1. PICK r \in 2 .. Len(reqs), p \in 1 .. 2 : j = n + 2 * r - 2 + p /\ s[j] = Token(r, p)
    BY <1>3
  <2>2. reqs[r].body = 0 /\ s[j].req = r /\ s[j].part = p
    BY <2>1 DEF SentFor, Token
  <2> HIDE DEF n
  <2>3. p = 2
    BY <2>2
  <2> QED
    BY <1>1, <2>1, <2>2, <2>3 DEF n
<1> QED
  BY <1>2, <1>3, SentAt

-----------------------------------------------------------------------------
(* Answers: none is given twice *)

\* Each end in G was in F, at a place and a number of its own.
Moved(F, G, at, by) ==
  /\ \A x \in Places : \A i \in Ends(G[x]) :
       /\ at[x][i] \in Places /\ by[x][i] \in Ends(F[at[x][i]])
       /\ F[at[x][i]][by[x][i]].req = G[x][i].req
  /\ \A x, y \in Places : \A i \in Ends(G[x]), j \in Ends(G[y]) :
       at[x][i] = at[y][j] /\ by[x][i] = by[y][j] => x = y /\ i = j

\* What moves keeps its ends apart.
LEMMA EndsMoved ==
  ASSUME NEW F, NEW G, NEW n, NEW at, NEW by, EndOnce(F), EndsGiven(F, n), Moved(F, G, at, by)
  PROVE  EndOnce(G) /\ EndsGiven(G, n)
<1> USE DEF Moved
<1>1. ASSUME NEW x \in Places, NEW i \in Ends(G[x]) PROVE G[x][i].req \in 1 .. n
  <2>1. F[at[x][i]][by[x][i]].req \in 1 .. n
    BY DEF EndsGiven
  <2> QED
    BY <2>1
<1>2. ASSUME NEW x \in Places, NEW y \in Places, NEW i \in Ends(G[x]), NEW j \in Ends(G[y]),
             G[x][i].req = G[y][j].req
      PROVE  x = y /\ i = j
  <2>1. at[x][i] = at[y][j] /\ by[x][i] = by[y][j]
    BY <1>2, SMTT(30) DEF EndOnce
  <2> QED
    BY <2>1
<1> QED
  BY <1>1, <1>2 DEF EndsGiven, EndOnce

\* A client has seen the end of no more answers than were given.
LEMMA FinishedGiven ==
  ASSUME NEW F, NEW n \in Nat, EndOnce(F), EndsGiven(F, n), F[<<0, 0>>] \in Seq(Part)
  PROVE  Cardinality(Ends(F[<<0, 0>>])) <= n
<1> DEFINE g == F[<<0, 0>>]
           f == [i \in Ends(g) |-> g[i].req]
<1>0. <<0, 0>> \in Places
  BY DEF Places
<1>1. f \in [Ends(g) -> 1 .. n]
  BY <1>0 DEF EndsGiven
<1>2. \A i, j \in Ends(g) : f[i] = f[j] => i = j
  BY <1>0 DEF EndOnce
<1>3. f \in Injection(Ends(g), 1 .. n)
  <2> HIDE DEF f, g
  <2> QED
    BY <1>1, <1>2 DEF Injection, IsInjective
<1>4. IsFiniteSet(1 .. n) /\ Cardinality(1 .. n) = IF 1 > n THEN 0 ELSE n - 1 + 1
  BY FS_Interval
<1>5. Cardinality(Ends(g)) <= Cardinality(1 .. n)
  <2> HIDE DEF f, g
  <2> QED
    BY <1>3, <1>4, FS_Injection
<1>6. Cardinality(1 .. n) = n
  BY <1>4
<1> QED
  BY <1>5, <1>6

\* A destination gives an answer that was not given before.
LEMMA AnswersGiven ==
  ASSUME NEW F, NEW G, NEW n \in Nat, NEW m \in Nat, n < m, NEW k \in Number,
         EndOnce(F), EndsGiven(F, n), F[<<1, k>>] \in Seq(Part),
         \A x \in Places : G[x] = IF x = <<1, k>> THEN F[x] \o Answer(m) ELSE F[x]
  PROVE  EndOnce(G) /\ EndsGiven(G, m)
<1> DEFINE p == <<1, k>>
           l == Len(F[p])
<1>0. /\ Answer(m) \in Seq(Part) /\ Len(Answer(m)) = 2 /\ l \in Nat /\ p \in Places
      /\ Answer(m)[1].part = 1 /\ Answer(m)[2].part = 2 /\ Answer(m)[2].req = m
  BY DEF Answer, Part, Places
<1>1. /\ G[p] = F[p] \o Answer(m) /\ Len(G[p]) = l + 2
      /\ \A i \in 1 .. l : G[p][i] = F[p][i]
      /\ G[p][l + 1] = Answer(m)[1] /\ G[p][l + 2] = Answer(m)[2]
  <2> DEFINE s == F[p]
             t == Answer(m)
  <2>1. G[p] = s \o t /\ s \in Seq(Part) /\ t \in Seq(Part) /\ Len(t) = 2 /\ l = Len(s)
    BY <1>0
  <2> HIDE DEF s, t, p, l
  <2>2. /\ G[p] = s \o t /\ Len(G[p]) = l + 2
        /\ \A i \in 1 .. l : G[p][i] = s[i]
        /\ G[p][l + 1] = t[1] /\ G[p][l + 2] = t[2]
    <3>1. /\ Len(s \o t) = Len(s) + Len(t)
          /\ \A i \in 1 .. Len(s) : (s \o t)[i] = s[i]
          /\ \A i \in 1 .. Len(t) : (s \o t)[Len(s) + i] = t[i]
      <4>1. s \in Seq(Part) /\ t \in Seq(Part)
        BY <2>1
      <4> QED
        BY <4>1, Cat, SMTT(30)
    <3>2. 1 \in 1 .. Len(t) /\ 2 \in 1 .. Len(t)
      BY <2>1
    <3> QED
      BY <2>1, <3>1, <3>2
  <2> QED
    BY <2>2 DEF s, t
<1>2. Ends(G[p]) = Ends(F[p]) \cup {l + 2} /\ l + 2 \notin Ends(F[p]) /\ G[p][l + 2].req = m
  <2>1. \A i \in 1 .. l + 2 : i \in 1 .. l \/ i = l + 1 \/ i = l + 2
    BY <1>0
  <2> HIDE DEF p, l
  <2> QED
    BY <1>0, <1>1, <2>1 DEF Ends, l
<1>3. \A x \in Places : x # p => G[x] = F[x]
  OBVIOUS
<1>4. \A x \in Places : \A i \in Ends(G[x]) :
        \/ i \in Ends(F[x]) /\ G[x][i] = F[x][i] /\ G[x][i].req \in 1 .. n
        \/ x = p /\ i = l + 2 /\ G[x][i].req = m
  <2> HIDE DEF p, l
  <2>1. \A x \in Places : \A i \in Ends(F[x]) : F[x][i].req \in 1 .. n
    BY DEF EndsGiven
  <2>2. \A i \in Ends(F[p]) : G[p][i] = F[p][i]
    BY <1>1 DEF Ends, l
  <2> QED
    BY <1>0, <1>2, <1>3, <2>1, <2>2
<1> HIDE DEF p, l
<1>5. EndsGiven(G, m)
  BY <1>4 DEF EndsGiven
<1>6. EndOnce(G)
  BY <1>4 DEF EndOnce
<1> QED
  BY <1>5, <1>6

\* What is no end may be added anywhere, and anything forgotten.
LEMMA AnswersKept ==
  ASSUME NEW F, NEW G, NEW n, EndOnce(F), EndsGiven(F, n),
         \A x \in Places : \A i \in Ends(G[x]) : i \in Ends(F[x]) /\ G[x][i].req = F[x][i].req
  PROVE  EndOnce(G) /\ EndsGiven(G, n)
BY DEF EndOnce, EndsGiven

\* Of what a destination sends, the first m are read (OnDataRecievedDest).
LEMMA AnswersRead ==
  ASSUME NEW F, NEW G, NEW n, NEW k \in Number, EndOnce(F), EndsGiven(F, n),
         F[<<1, k>>] \in Seq(Part), NEW m \in 1 .. Len(F[<<1, k>>]),
         \A x \in Places :
           G[x] = IF x = <<1, k>> THEN SubSeq(F[x], m + 1, Len(F[x]))
                  ELSE IF x = <<2, k>> THEN SubSeq(F[<<1, k>>], 1, m) ELSE F[x]
  PROVE  EndOnce(G) /\ EndsGiven(G, n)
<1> DEFINE p == <<1, k>>
           q == <<2, k>>
           l == Len(F[p])
           at == [x \in Places |-> [i \in Nat |-> IF x = q THEN p ELSE x]]
           by == [x \in Places |-> [i \in Nat |-> IF x = p THEN i + m ELSE i]]
<1>0. p # q /\ p \in Places /\ q \in Places /\ l \in Nat /\ m \in 1 .. l
  BY DEF Places
<1>1. /\ G[p] = SubSeq(F[p], m + 1, l) /\ G[q] = SubSeq(F[p], 1, m)
      /\ \A x \in Places : x # p /\ x # q => G[x] = F[x]
  BY <1>0
<1>2. /\ Len(G[p]) = l - m /\ Len(G[q]) = m
      /\ \A i \in 1 .. l - m : G[p][i] = F[p][i + m] /\ i + m \in 1 .. l
      /\ \A i \in 1 .. m : G[q][i] = F[p][i] /\ i \in 1 .. l
  <2> DEFINE s == F[p]
  <2>1. s \in Seq(Part) /\ l = Len(s) /\ G[p] = SubSeq(s, m + 1, l) /\ G[q] = SubSeq(s, 1, m)
    BY <1>1
  <2> HIDE DEF s, l, p, q
  <2>2. /\ Len(G[p]) = l - m /\ Len(G[q]) = m
        /\ \A i \in 1 .. l - m : G[p][i] = s[i + m] /\ i + m \in 1 .. l
        /\ \A i \in 1 .. m : G[q][i] = s[i] /\ i \in 1 .. l
    BY <1>0, <2>1
  <2> QED
    BY <2>2 DEF s
<1> HIDE DEF p, q, l
<1>3. /\ \A i \in Ends(G[p]) : i \in Nat /\ i + m \in Ends(F[p]) /\ G[p][i] = F[p][i + m]
                               /\ i + m > m
      /\ \A i \in Ends(G[q]) : i \in Nat /\ i \in Ends(F[p]) /\ G[q][i] = F[p][i] /\ i <= m
  BY <1>0, <1>2, SMTT(30) DEF Ends, l
<1>6. ASSUME NEW x \in Places, NEW i \in Ends(G[x])
      PROVE  /\ at[x][i] = IF x = q THEN p ELSE x
             /\ by[x][i] = IF x = p THEN i + m ELSE i
             /\ i \in Nat
  <2>1. i \in Nat
    <3>1. i \in 1 .. Len(G[x])
      BY DEF Ends
    <3> QED
      BY <3>1
  <2> QED
    BY <2>1
<1> HIDE DEF at, by
<1>4. \A x \in Places : \A i \in Ends(G[x]) :
        /\ at[x][i] \in Places /\ by[x][i] \in Ends(F[at[x][i]])
        /\ F[at[x][i]][by[x][i]].req = G[x][i].req
  <2> SUFFICES ASSUME NEW x \in Places, NEW i \in Ends(G[x])
               PROVE  /\ at[x][i] \in Places /\ by[x][i] \in Ends(F[at[x][i]])
                      /\ F[at[x][i]][by[x][i]].req = G[x][i].req
    OBVIOUS
  <2>1. CASE x = p
    BY <1>0, <1>3, <1>6, <2>1
  <2>2. CASE x = q
    BY <1>0, <1>3, <1>6, <2>2
  <2>3. CASE x # p /\ x # q
    BY <1>1, <1>6, <2>3
  <2> QED
    BY <2>1, <2>2, <2>3
<1>5. \A x, y \in Places : \A i \in Ends(G[x]), j \in Ends(G[y]) :
        at[x][i] = at[y][j] /\ by[x][i] = by[y][j] => x = y /\ i = j
  <2> SUFFICES ASSUME NEW x \in Places, NEW y \in Places, NEW i \in Ends(G[x]),
                      NEW j \in Ends(G[y]), at[x][i] = at[y][j], by[x][i] = by[y][j]
               PROVE  x = y /\ i = j
    OBVIOUS
  <2>1. i \in Nat /\ j \in Nat
    BY <1>6
  <2>2. x = p => i + m > m
    BY <1>3
  <2>3. y = p => j + m > m
    BY <1>3
  <2>4. (x = q => i <= m) /\ (y = q => j <= m)
    BY <1>3
  <2> QED
    BY <1>0, <1>6, <2>1, <2>2, <2>3, <2>4
<1>7. Moved(F, G, at, by)
  BY <1>4, <1>5 DEF Moved
<1> QED
  BY <1>7, EndsMoved

\* What was read is told to the client.
LEMMA AnswersTold ==
  ASSUME NEW F, NEW G, NEW n, NEW k \in Number, EndOnce(F), EndsGiven(F, n),
         F[<<0, 0>>] \in Seq(Part), F[<<2, k>>] \in Seq(Part),
         \A x \in Places :
           G[x] = IF x = <<0, 0>> THEN F[x] \o F[<<2, k>>]
                  ELSE IF x = <<2, k>> THEN <<>> ELSE F[x]
  PROVE  EndOnce(G) /\ EndsGiven(G, n)
<1> DEFINE p == <<0, 0>>
           q == <<2, k>>
           l == Len(F[p])
           m == Len(F[q])
           at == [x \in Places |-> [i \in Nat |-> IF x = p /\ i > l THEN q ELSE x]]
           by == [x \in Places |-> [i \in Nat |-> IF x = p /\ i > l THEN i - l ELSE i]]
<1>0. p # q /\ p \in Places /\ q \in Places /\ l \in Nat /\ m \in Nat
  BY DEF Places
<1>1. /\ G[p] = F[p] \o F[q] /\ G[q] = <<>>
      /\ \A x \in Places : x # p /\ x # q => G[x] = F[x]
  BY <1>0
<1>2. /\ Len(G[p]) = l + m
      /\ \A i \in 1 .. l + m : IF i > l THEN G[p][i] = F[q][i - l] /\ i - l \in 1 .. m
                                        ELSE G[p][i] = F[p][i] /\ i \in 1 .. l
  <2> DEFINE s == F[p]
             t == F[q]
  <2>1. s \in Seq(Part) /\ t \in Seq(Part) /\ l = Len(s) /\ m = Len(t) /\ G[p] = s \o t
    BY <1>1
  <2> HIDE DEF s, t, l, m, p, q
  <2>2. /\ Len(G[p]) = l + m
        /\ \A i \in 1 .. l + m : IF i > l THEN G[p][i] = t[i - l] /\ i - l \in 1 .. m
                                          ELSE G[p][i] = s[i] /\ i \in 1 .. l
    BY <1>0, <2>1
  <2> QED
    BY <2>2 DEF s, t
<1>6. ASSUME NEW x \in Places, NEW i \in Ends(G[x])
      PROVE  /\ at[x][i] = IF x = p /\ i > l THEN q ELSE x
             /\ by[x][i] = IF x = p /\ i > l THEN i - l ELSE i
             /\ i \in Nat
  <2>1. i \in Nat
    <3>1. i \in 1 .. Len(G[x])
      BY DEF Ends
    <3> QED
      BY <3>1
  <2> QED
    BY <2>1
<1> HIDE DEF p, q, l, m, at, by
<1>3. /\ \A i \in Ends(G[p]) : IF i > l THEN i - l \in Ends(F[q]) /\ G[p][i] = F[q][i - l]
                                        ELSE i \in Ends(F[p]) /\ G[p][i] = F[p][i]
      /\ Ends(G[q]) = {}
  <2>1. Ends(G[q]) = {}
    BY <1>1 DEF Ends
  <2>2. ASSUME NEW i \in Ends(G[p])
        PROVE  IF i > l THEN i - l \in Ends(F[q]) /\ G[p][i] = F[q][i - l]
                        ELSE i \in Ends(F[p]) /\ G[p][i] = F[p][i]
    <3>1. i \in 1 .. l + m /\ G[p][i].part = 2
      BY <1>2 DEF Ends
    <3>2. IF i > l THEN G[p][i] = F[q][i - l] /\ i - l \in 1 .. m
                   ELSE G[p][i] = F[p][i] /\ i \in 1 .. l
      BY <1>2, <3>1
    <3> QED
      BY <3>1, <3>2 DEF Ends, l, m
  <2> QED
    BY <2>1, <2>2
<1>4. \A x \in Places : \A i \in Ends(G[x]) :
        /\ at[x][i] \in Places /\ by[x][i] \in Ends(F[at[x][i]])
        /\ F[at[x][i]][by[x][i]].req = G[x][i].req
  <2> SUFFICES ASSUME NEW x \in Places, NEW i \in Ends(G[x])
               PROVE  /\ at[x][i] \in Places /\ by[x][i] \in Ends(F[at[x][i]])
                      /\ F[at[x][i]][by[x][i]].req = G[x][i].req
    OBVIOUS
  <2>1. CASE x = p
    BY <1>0, <1>3, <1>6, <2>1
  <2>3. CASE x # p /\ x # q
    BY <1>1, <1>6, <2>3
  <2> QED
    BY <1>3, <2>1, <2>3
<1>5. \A x, y \in Places : \A i \in Ends(G[x]), j \in Ends(G[y]) :
        at[x][i] = at[y][j] /\ by[x][i] = by[y][j] => x = y /\ i = j
  <2> SUFFICES ASSUME NEW x \in Places, NEW y \in Places, NEW i \in Ends(G[x]),
                      NEW j \in Ends(G[y]), at[x][i] = at[y][j], by[x][i] = by[y][j]
               PROVE  x = y /\ i = j
    OBVIOUS
  <2>1. i \in Nat /\ j \in Nat /\ x # q /\ y # q
    BY <1>3, <1>6
  <2> QED
    BY <1>0, <1>6, <2>1
<1>7. Moved(F, G, at, by)
  BY <1>4, <1>5 DEF Moved
<1> QED
  BY <1>7, EndsMoved

-----------------------------------------------------------------------------
(* What a step leaves as it was *)

-----------------------------------------------------------------------------
Unmoved(c) ==
  /\ asked'[c] = asked[c] /\ sent'[c] = sent[c] /\ nread'[c] = nread[c]
  /\ replied'[c] = replied[c] /\ got'[c] = got[c] /\ details'[c] = details[c]
  /\ held'[c] = held[c] /\ pClientSocket'[c] = pClientSocket[c]
  /\ (c \in relay') = (c \in relay) /\ (c \in late') = (c \in late)
  /\ \A k \in Number : /\ host'[<<c, k>>] = host[<<c, k>>]
                       /\ inbox'[<<c, k>>] = inbox[<<c, k>>]
                       /\ back'[<<c, k>>] = back[<<c, k>>]
                       /\ dheld'[<<c, k>>] = dheld[<<c, k>>]

Settling(c) ==
  /\ sock'[c] = sock[c] \/ sock'[c] = "closed"
  /\ c \in m_vConnections' => c \in m_vConnections
  /\ c \in m_vConnections' =>
       \A k \in Number :
         \/ dst'[<<c, k>>] = dst[<<c, k>>]
         \/ k = pClientSocket[c] /\ dst[<<c, k>>] = "open" /\ dst'[<<c, k>>] = "ended"
         \/ k # pClientSocket[c] /\ dst[<<c, k>>] # "none"
            /\ dst'[<<c, k>>] \in {"closing", "unlinked", "deleted"}

\* What was written depends on the boxes alone.
LEMMA WrittenSame ==
  ASSUME NEW c \in Conn, \A k \in Number : inbox'[<<c, k>>] = inbox[<<c, k>>]
  PROVE  Written(c)' = Written(c)
<1>1. [k \in 1 .. MaxDest |-> inbox[<<c, k>>]]' = [k \in 1 .. MaxDest |-> inbox[<<c, k>>]]
  BY DEF Number
<1> QED
  BY <1>1 DEF Written

\* The answers, on what is sent back, read and told.
LEMMA AnsweredSame ==
  ASSUME NEW c \in Conn, got'[c] = got[c],
         \A k \in Number : back'[<<c, k>>] = back[<<c, k>>] /\ dheld'[<<c, k>>] = dheld[<<c, k>>]
  PROVE  Answered(c)' = Answered(c)
<1>1. \A x \in Places : x[1] # 0 => x[2] \in Number
  BY DEF Places
<1> QED
  BY <1>1 DEF Answered

\* The socket in use has a number.
LEMMA CurrentNumber ==
  ASSUME TypeOK, NEW c \in Conn
  PROVE  /\ pClientSocket[c] \in Nat /\ MaxDest \in Nat \ {0}
         /\ pClientSocket[c] # 0 => pClientSocket[c] \in Number /\ Current(c) = <<c, pClientSocket[c]>>
         /\ \A k \in Number : <<c, k>> \in Dest /\ k \in Nat /\ k # 0
BY ProxyAssumption DEF TypeOK, Number, Current, Dest

\* A connection that nothing moves for, and that at most ends, is served as before.
LEMMA Unharmed ==
  ASSUME TypeOK, NEW c \in Conn, Served(c), Unmoved(c), Settling(c)
  PROVE  Served(c)'
<1>1. Written(c)' = Written(c) /\ Answered(c)' = Answered(c)
  BY WrittenSame, AnsweredSame DEF Unmoved
<1>2. Untouched(c)' /\ SentFor(sent[c], asked[c])' /\ HostsRight(c)'
  BY SMTT(30) DEF Served, Untouched, HostsRight, Unmoved, Settling
<1>3. EndOnce(Answered(c))' /\ EndsGiven(Answered(c), replied[c])'
  BY <1>1 DEF Served, Unmoved, EndOnce, EndsGiven
<1>4. OnlyAnswers(c)'
  BY DEF Served, Unmoved, OnlyAnswers, FromAnswers
<1>5. ASSUME c \in m_vConnections' PROVE Kept(c)'
  <2>0. /\ Kept(c) /\ pClientSocket'[c] = pClientSocket[c] /\ (c \in relay') = (c \in relay)
        /\ (c \in late') = (c \in late) /\ details'[c] = details[c] /\ asked'[c] = asked[c]
        /\ held'[c] = held[c] /\ sent'[c] = sent[c] /\ got'[c] = got[c] /\ nread'[c] = nread[c]
        /\ replied'[c] = replied[c] /\ (sock'[c] = "open" => sock[c] = "open")
    BY <1>5 DEF Served, Unmoved, Settling
  <2>1. /\ pClientSocket[c] # 0 => pClientSocket[c] \in Number /\ Current(c) = <<c, pClientSocket[c]>>
        /\ Current(c)' = Current(c)
    BY <2>0, CurrentNumber DEF Current
  <2>2. Connecting(c)' = Connecting(c) /\ (pClientSocket[c] # 0 => host'[Current(c)] = host[Current(c)])
    BY <1>5, <2>0, <2>1 DEF Connecting, Settling, Unmoved
  <2>3. Accounted(c)'
    <3>1. Buffer(c)' = Buffer(c)
      BY <2>0 DEF Buffer
    <3>2. InOrder(c) => InOrder(c)'
      BY <1>1, <2>0, <3>1 DEF InOrder
    <3>3. Counted(c) => Counted(c)'
      BY <1>1, <2>0, <3>1 DEF Counted
    <3>4. LeftOut(c) => LeftOut(c)'
      <4>1. \A p : Missing(c, p) => Missing(c, p)'
        BY DEF Missing, Unmoved
      <4> QED
        BY <2>0, <4>1 DEF LeftOut
    <3> QED
      BY <2>0, <3>2, <3>3, <3>4 DEF Kept, Accounted
  <2>4. Numbers(c)'
    <3>1. \A k \in Number : /\ dst'[<<c, k>>] = "none" <=> dst[<<c, k>>] = "none"
                            /\ inbox'[<<c, k>>] = inbox[<<c, k>>]
      BY <1>5 DEF Settling, Unmoved
    <3>2. \A k \in Number : k # pClientSocket[c] =>
            dst'[<<c, k>>] \in {"none", "closing", "unlinked", "deleted"}
      BY <1>5, <2>0 DEF Settling, Kept, Numbers
    <3> QED
      BY <2>0, <3>1, <3>2 DEF Kept, Numbers
  <2>5. AnsweredWritten(c)' /\ LateSettled(c)'
    BY <1>1, <2>0, <2>2 DEF Kept, AnsweredWritten, LateSettled, Body, BodyLen, Tunnel
  <2>6. ASSUME c \notin relay PROVE Waiting(c)'
    <3>0. Waiting(c)
      BY <2>0, <2>6 DEF Kept
    <3>1. \A k \in Number : /\ dst'[<<c, k>>] \in {"none", "connecting", "ended"}
                            /\ inbox'[<<c, k>>] = <<>> /\ dheld'[<<c, k>>] = <<>>
      BY <1>5, <2>0, <3>0 DEF Settling, Unmoved, Waiting, NoneThere, Kept, Numbers
    <3>2. NoneThere(c)'
      BY <2>0, <2>2, <3>0, <3>1 DEF Waiting, NoneThere
    <3>3. FirstKept(c)'
      BY <2>0, <3>0 DEF Waiting, FirstKept, Buffer, Tunnel
    <3>4. FirstAsked(c)'
      BY <2>0, <2>1, <2>2, <3>0 DEF Waiting, FirstAsked, Buffer, Tunnel
    <3> QED
      BY <3>2, <3>3, <3>4 DEF Waiting
  <2>7. ASSUME c \in relay PROVE Relaying(c)'
    <3>0. Relaying(c)
      BY <2>0, <2>7 DEF Kept
    <3>1. Tunnel(c)' = Tunnel(c) /\ Body(c)' = Body(c) /\ Buffer(c)' = Buffer(c)
      BY <2>0 DEF Tunnel, Body, BodyLen, Buffer
    <3>2. ThroughTunnel(c) => ThroughTunnel(c)'
      BY <2>0, <2>1, <2>2, <3>1 DEF ThroughTunnel
    <3>3. pClientSocket[c] # 0 /\ Passing(c) => Passing(c)'
      <4>1. pClientSocket[c] # 0 /\ BeforeAnswer(c) => BeforeAnswer(c)'
        BY <2>0, <2>1, <2>2, <3>1 DEF BeforeAnswer
      <4>2. AfterAnswer(c) => AfterAnswer(c)'
        BY <1>1, <2>0, <3>1 DEF AfterAnswer
      <4>3. pClientSocket[c] # 0 /\ KeptBack(c) => KeptBack(c)'
        BY <2>0, <2>1, <2>2, <3>1 DEF KeptBack
      <4> QED
        BY <2>0, <2>1, <2>2, <4>1, <4>2, <4>3 DEF Passing
    <3> QED
      BY <2>0, <2>2, <3>0, <3>1, <3>2, <3>3 DEF Relaying
  <2> QED
    BY <2>0, <2>3, <2>4, <2>5, <2>6, <2>7 DEF Kept
<1> QED
  BY <1>2, <1>3, <1>4, <1>5 DEF Served

\* The bytes and answers, and what is known of the connections' sockets.
BytesKept ==
  UNCHANGED <<details, pClientSocket, relay, held, host, inbox, back, dheld, client, late>>

\* It is enough that no connection is harmed.
LEMMA Settled ==
  ASSUME ProxyInv, KeptInv, BytesKept, \A c \in Conn : Settling(c)
  PROVE  KeptInv'
<1>1. BytesTyped'
  BY DEF KeptInv, BytesTyped, BytesKept, client
<1>2. ASSUME NEW c \in Conn PROVE Served(c)'
  <2>1. Unmoved(c)
    BY DEF BytesKept, Unmoved, client
  <2> QED
    BY <2>1, Unharmed DEF KeptInv, ProxyInv
<1> QED
  BY <1>1, <1>2 DEF KeptInv

\* A client's socket that is closed harms nobody.
LEMMA ClosedSettles ==
  ASSUME NEW C, sock' = Closed(C), UNCHANGED <<m_vConnections, dst>>
  PROVE  \A c \in Conn : Settling(c)
BY DEF Closed, Settling

\* Nor does a step that changes no socket.
LEMMA SocketsSettle ==
  ASSUME UNCHANGED <<m_vConnections, dst, sock>>
  PROVE  \A c \in Conn : Settling(c)
BY DEF Settling

\* How a connection ends, as far as its client's socket is concerned.
LEMMA EndingKept ==
  ASSUME ProxyInv, KeptInv, NEW c \in Conn,
         \/ ClientEnds(c) \/ OnSocketError(c) \/ Fire(c) \/ OnTimeout(c) \/ EndTimer(c)
         \/ OnSocketClosing(c) \/ ClosingErases(c) \/ ClosingEnds(c)
  PROVE  KeptInv'
<1> USE DEF lists, ends, dests
<1>1. CASE ClientEnds(c) \/ OnSocketError(c) \/ OnTimeout(c)
  <2>1. BytesKept /\ UNCHANGED <<m_vConnections, dst>> /\ \E C : sock' = Closed(C)
    BY <1>1 DEF ClientEnds, OnSocketError, OnTimeout, BytesKept
  <2> QED
    BY <2>1, ClosedSettles, Settled
<1>2. CASE Fire(c) \/ EndTimer(c) \/ OnSocketClosing(c) \/ ClosingEnds(c)
  <2>1. BytesKept /\ UNCHANGED <<m_vConnections, dst, sock>>
    BY <1>2 DEF Fire, EndTimer, OnSocketClosing, ClosingEnds, BytesKept
  <2> QED
    BY <2>1, SocketsSettle, Settled
<1>3. CASE ClosingErases(c)
  <2>1. /\ BytesKept /\ UNCHANGED sock /\ m_vConnections' = m_vConnections \ {c}
        /\ dst' = IF pClientSocket[c] = 0 THEN dst ELSE Close(Current(c))
    BY <1>3 DEF ClosingErases, BytesKept
  <2>2. ASSUME NEW x \in Conn PROVE Settling(x)
    <3>1. CASE x = c
      BY <2>1, <3>1 DEF Settling
    <3>2. CASE x # c
      <4>1. ASSUME NEW k \in Number PROVE dst'[<<x, k>>] = dst[<<x, k>>]
        BY <2>1, <3>2, CurrentNumber DEF Close, Current, ProxyInv, TypeOK
      <4> QED
        BY <2>1, <4>1 DEF Settling
    <3> QED
      BY <3>1, <3>2
  <2> QED
    BY <2>1, <2>2, Settled
<1> QED
  BY <1>1, <1>2, <1>3

\* A destination's socket goes that is no connection's any more.
LEMMA GoingKept ==
  ASSUME ProxyInv, KeptInv, NEW d \in Dest,
         SocketClosingDelete(d) \/ Unlock(d) \/ Delete(d)
  PROVE  KeptInv'
<1> USE DEF lists, ends, dests
<1>1. CASE Unlock(d)
  <2>1. BytesKept /\ UNCHANGED <<m_vConnections, dst, sock>>
    BY <1>1 DEF Unlock, BytesKept
  <2> QED
    BY <2>1, SocketsSettle, Settled
<1>2. CASE SocketClosingDelete(d) \/ Delete(d)
  <2>1. /\ BytesKept /\ UNCHANGED <<m_vConnections, sock>>
        /\ dst[d] \in {"dropped", "closing", "unlinked"}
        /\ \/ dst' = [dst EXCEPT ![d] = "unlinked"]
           \/ dst' = [dst EXCEPT ![d] = "deleted"]
    BY <1>2 DEF SocketClosingDelete, Delete, BytesKept, Closing
  <2>2. ASSUME NEW x \in Conn PROVE Settling(x)
    <3>1. ASSUME NEW k \in Number, x \in m_vConnections, <<x, k>> = d
          PROVE  k # pClientSocket[x] /\ dst[<<x, k>>] # "none"
      <4>1. pClientSocket[x] = k => dst[d] \in {"connecting", "open", "ended"}
        BY <3>1, CurrentNumber DEF ProxyInv, CurrentListed, Current
      <4> QED
        BY <2>1, <3>1, <4>1
    <3>2. ASSUME NEW k \in Number
          PROVE  dst'[<<x, k>>] = dst[<<x, k>>]
                 \/ (<<x, k>> = d /\ dst'[<<x, k>>] \in {"closing", "unlinked", "deleted"})
      <4>1. <<x, k>> \in Dest
        BY DEF Dest, Number
      <4> QED
        BY <2>1, <4>1 DEF ProxyInv, TypeOK
    <3> QED
      BY <2>1, <3>1, <3>2 DEF Settling
  <2> QED
    BY <2>1, <2>2, Settled
<1> QED
  BY <1>1, <1>2

\* Stop and the destructor only close.
LEMMA ServerStepKept ==
  ASSUME ProxyInv, KeptInv, ServerStep
  PROVE  KeptInv'
<1> USE DEF lists, ends, dests
<1>1. CASE Stop \/ DestructorStop
  <2>1. BytesKept /\ UNCHANGED <<m_vConnections, dst>> /\ sock' = Closed(m_vConnections)
    BY <1>1 DEF Stop, DestructorStop, CloseAll, BytesKept
  <2> QED
    BY <2>1, ClosedSettles, Settled
<1>2. CASE Destroy
  <2>1. BytesKept /\ UNCHANGED <<m_vConnections, dst, sock>>
    BY <1>2 DEF Destroy, BytesKept
  <2> QED
    BY <2>1, SocketsSettle, Settled
<1> QED
  BY <1>1, <1>2 DEF ServerStep

-----------------------------------------------------------------------------
(* The initial state *)

\* Boxes that are empty are nothing, joined.
LEMMA NothingWritten ==
  ASSUME MaxDest \in Nat \ {0}, NEW c \in Conn, \A k \in Number : inbox[<<c, k>>] = <<>>
  PROVE  Written(c) = <<>>
<1>1. [k \in 1 .. MaxDest |-> inbox[<<c, k>>]] = [k \in 1 .. MaxDest |-> <<>>]
  BY DEF Number
<1> QED
  BY <1>1, FlattenEmpty DEF Written

\* Nothing is sent and nothing known at first.
LEMMA KeptInit == Init => KeptInv
<1> SUFFICES ASSUME Init PROVE KeptInv
  OBVIOUS
<1>0. NewDetails \in Details /\ \A T : <<>> \in Seq(T)
  BY DEF NewDetails, Details, Names
<1>1. BytesTyped
  BY <1>0 DEF Init, BytesTyped
<1>2. ASSUME NEW c \in Conn PROVE Served(c)
  <2>0. /\ sent[c] = <<>> /\ asked[c] = <<>> /\ got[c] = <<>> /\ c \notin m_vConnections
        /\ held[c] = <<>> /\ details[c] = NewDetails /\ nread[c] = 0 /\ replied[c] = 0 /\ late = {}
        /\ \A k \in Number : /\ inbox[<<c, k>>] = <<>> /\ back[<<c, k>>] = <<>>
                             /\ dheld[<<c, k>>] = <<>>
    BY DEF Init, Dest, Number
  <2>1. Untouched(c) /\ HostsRight(c) /\ OnlyAnswers(c)
    BY <2>0 DEF Untouched, HostsRight, OnlyAnswers, FromAnswers
  <2>2. SentFor(sent[c], asked[c])
    BY <2>0 DEF SentFor, BodyLen
  <2>3. \A x \in Places : Ends(Answered(c)[x]) = {}
    <3>1. \A x \in Places : x[1] # 0 => x[2] \in Number
      BY DEF Places
    <3>2. \A x \in Places : Answered(c)[x] = <<>>
      BY <2>0, <3>1 DEF Answered
    <3> QED
      BY <3>2 DEF Ends
  <2>4. EndOnce(Answered(c)) /\ EndsGiven(Answered(c), replied[c])
    BY <2>3 DEF EndOnce, EndsGiven
  <2> QED
    BY <2>0, <2>1, <2>2, <2>4 DEF Served
<1> QED
  BY <1>1, <1>2 DEF KeptInv

-----------------------------------------------------------------------------
(* The client asks *)

\* The types of what is sent for a request.
LEMMA TokensTyped ==
  /\ \A r, p \in Nat : Token(r, p) \in Byte
  /\ \A r \in Nat : /\ HeaderOf(r) \in Seq(Byte) /\ Len(HeaderOf(r)) = 2
                    /\ HeaderOf(r)[1] = Token(r, 1) /\ HeaderOf(r)[2] = Token(r, 2)
  /\ \A r, n \in Nat : /\ BodyOf(r, n) \in Seq(Byte) /\ Len(BodyOf(r, n)) = n
                       /\ \A i \in 1 .. n : BodyOf(r, n)[i] = Token(r, 2 + i)
<1>1. \A r, p \in Nat : Token(r, p) \in Byte
  BY DEF Token, Byte
<1>2. \A r \in Nat : Token(r, 1) \in Byte /\ Token(r, 2) \in Byte
  BY <1>1
<1>3. ASSUME NEW r \in Nat
      PROVE  /\ HeaderOf(r) \in Seq(Byte) /\ Len(HeaderOf(r)) = 2
             /\ HeaderOf(r)[1] = Token(r, 1) /\ HeaderOf(r)[2] = Token(r, 2)
  BY <1>2 DEF HeaderOf
<1>4. ASSUME NEW r \in Nat, NEW n \in Nat
      PROVE  /\ BodyOf(r, n) \in Seq(Byte) /\ Len(BodyOf(r, n)) = n
             /\ \A i \in 1 .. n : BodyOf(r, n)[i] = Token(r, 2 + i)
  <2>1. \A i \in 1 .. n : Token(r, 2 + i) \in Byte
    BY <1>1
  <2> QED
    BY <2>1 DEF BodyOf
<1> QED
  BY <1>1, <1>3, <1>4

BytesOf(r, q) == HeaderOf(r) \o (IF q.connect THEN <<>> ELSE BodyOf(r, q.body))

\* What a request puts behind what was sent.
LEMMA BytesOfTyped ==
  ASSUME NEW r \in Nat, NEW q \in Request
  PROVE  /\ BytesOf(r, q) \in Seq(Byte)
         /\ Len(BytesOf(r, q)) = IF q.connect THEN 2 ELSE 2 + q.body
         /\ \A i \in 1 .. Len(BytesOf(r, q)) : BytesOf(r, q)[i] = Token(r, i)
<1> DEFINE s == HeaderOf(r)
           u == IF q.connect THEN <<>> ELSE BodyOf(r, q.body)
<1>1. /\ s \in Seq(Byte) /\ Len(s) = 2 /\ s[1] = Token(r, 1) /\ s[2] = Token(r, 2)
  BY TokensTyped
<1>2. /\ u \in Seq(Byte) /\ Len(u) = (IF q.connect THEN 0 ELSE q.body) /\ q.body \in Nat
      /\ \A i \in 1 .. Len(u) : u[i] = Token(r, 2 + i)
  <2>1. q.body \in Nat /\ <<>> \in Seq(Byte) /\ Len(<<>>) = 0
    BY DEF Request
  <2>2. /\ BodyOf(r, q.body) \in Seq(Byte) /\ Len(BodyOf(r, q.body)) = q.body
        /\ \A i \in 1 .. q.body : BodyOf(r, q.body)[i] = Token(r, 2 + i)
    BY <2>1, TokensTyped
  <2> QED
    BY <2>1, <2>2
<1>3. BytesOf(r, q) = s \o u
  BY DEF BytesOf
<1> HIDE DEF s, u
<1>4. /\ s \o u \in Seq(Byte) /\ Len(s \o u) = 2 + Len(u)
      /\ \A i \in 1 .. 2 : (s \o u)[i] = s[i]
      /\ \A i \in 1 .. Len(u) : (s \o u)[2 + i] = u[i]
  <2>1. /\ s \o u \in Seq(Byte) /\ Len(s \o u) = Len(s) + Len(u)
        /\ \A i \in 1 .. Len(s) : (s \o u)[i] = s[i]
        /\ \A i \in 1 .. Len(u) : (s \o u)[Len(s) + i] = u[i]
    <3>1. s \in Seq(Byte) /\ u \in Seq(Byte)
      BY <1>1, <1>2
    <3> QED
      BY <3>1, Cat
  <2> QED
    BY <1>1, <2>1
<1>5. ASSUME NEW i \in 1 .. Len(s \o u) PROVE (s \o u)[i] = Token(r, i)
  <2>1. CASE i \in 1 .. 2
    <3>1. i = 1 \/ i = 2
      BY <2>1
    <3> QED
      BY <1>1, <1>4, <3>1
  <2>2. CASE i \notin 1 .. 2
    <3> DEFINE j == i - 2
    <3>1. j \in 1 .. Len(u) /\ i = 2 + j
      BY <1>2, <1>4, <2>2
    <3> HIDE DEF j
    <3> QED
      BY <1>2, <1>4, <3>1
  <2> QED
    BY <2>1, <2>2
<1> QED
  BY <1>2, <1>3, <1>4, <1>5

\* Another request, none of them for a tunnel, has a header and no body.
LEMMA SentMore ==
  ASSUME NEW s \in Seq(Byte), NEW reqs \in Seq(Request), SentFor(s, reqs), NEW q \in Request,
         reqs # <<>> => ~reqs[1].connect /\ ~q.connect /\ q.body = 0
  PROVE  /\ SentFor(s \o BytesOf(Len(reqs) + 1, q), Append(reqs, q))
         /\ s \o BytesOf(Len(reqs) + 1, q) \in Seq(Byte)
         /\ reqs # <<>> => BodyLen(s \o BytesOf(Len(reqs) + 1, q), Append(reqs, q)) = BodyLen(s, reqs)
         /\ reqs = <<>> => s = <<>>
<1> DEFINE r == Len(reqs) + 1
           u == BytesOf(r, q)
           a == Append(reqs, q)
           t == s \o u
           n == BodyLen(s, reqs)
           m == BodyLen(t, a)
<1>1. /\ r \in Nat /\ Len(a) = r /\ a # <<>> /\ a[r] = q
      /\ \A i \in 1 .. r - 1 : a[i] = reqs[i]
  OBVIOUS
<1>2. /\ u \in Seq(Byte) /\ Len(u) = (IF q.connect THEN 2 ELSE 2 + q.body) /\ q.body \in Nat
      /\ \A i \in 1 .. Len(u) : u[i] = Token(r, i)
  BY <1>1, BytesOfTyped DEF Request
<1>0. n \in Nat /\ Len(s) = n + 2 * (r - 1) /\ Len(s) \in Nat
  BY DEF SentFor, BodyLen
<1> HIDE DEF u
<1>3. /\ t \in Seq(Byte) /\ Len(t) = Len(s) + Len(u)
      /\ \A i \in 1 .. Len(s) : t[i] = s[i]
      /\ \A i \in 1 .. Len(u) : t[Len(s) + i] = u[i]
  <2>1. s \in Seq(Byte) /\ u \in Seq(Byte)
    BY <1>2
  <2> QED
    BY <2>1, Cat
<1>4. m = Len(t) - 2 * r
  BY <1>1 DEF BodyLen
<1>5. reqs = <<>> => s = <<>> /\ r = 1 /\ n = 0
  <2>1. reqs = <<>> => n = 0 /\ Len(reqs) = 0
    BY DEF SentFor
  <2>2. reqs = <<>> => Len(s) = 0
    BY <1>0, <2>1
  <2> QED
    BY <2>1, <2>2
<1>6. reqs # <<>> => r >= 2 /\ Len(u) = 2 /\ m = n /\ a[1] = reqs[1]
  <2>1. reqs # <<>> => Len(reqs) >= 1
    OBVIOUS
  <2>2. reqs # <<>> => r >= 2 /\ 1 \in 1 .. r - 1
    BY <1>1, <2>1
  <2>3. reqs # <<>> => Len(u) = 2
    BY <1>2
  <2>4. reqs # <<>> => m = n
    <3> HIDE DEF m, n, t
    <3> SUFFICES ASSUME reqs # <<>> PROVE m = n
      OBVIOUS
    <3>1. Len(u) = 2 /\ Len(t) = Len(s) + 2
      BY <1>3, <2>3
    <3> HIDE DEF r
    <3> QED
      BY <1>0, <1>1, <1>4, <3>1
  <2> QED
    BY <1>1, <2>2, <2>3, <2>4
<1>7. reqs = <<>> => m = Len(u) - 2 /\ a[1] = q
  BY <1>0, <1>1, <1>3, <1>4, <1>5
<1> HIDE DEF t, a, m, n, r
<1>8. m \in Nat
  BY <1>0, <1>2, <1>6, <1>7
<1>9. \A i \in 1 .. m + 2 : t[i] = Token(1, i)
  <2>1. CASE reqs = <<>>
    <3>1. Len(s) = 0 /\ m + 2 = Len(u) /\ r = 1
      BY <1>2, <1>5, <1>7, <2>1
    <3> QED
      BY <1>2, <1>3, <3>1
  <2>2. CASE reqs # <<>>
    <3>1. \A i \in 1 .. n + 2 : s[i] = Token(1, i) /\ i \in 1 .. Len(s)
      <4>1. n + 2 <= Len(s)
        BY <1>0, <1>1, <1>6, <2>2
      <4>2. \A i \in 1 .. n + 2 : s[i] = Token(1, i)
        BY <2>2 DEF SentFor, n
      <4> QED
        BY <1>0, <4>1, <4>2
    <3> QED
      BY <1>3, <1>6, <2>2, <3>1
  <2> QED
    BY <2>1, <2>2
<1>10. ASSUME NEW k \in 2 .. r, NEW p \in 1 .. 2
       PROVE  t[m + 2 * k - 2 + p] = Token(k, p)
  <2>0. reqs # <<>>
    BY <1>5, <1>1
  <2>1. CASE k = r
    <3>0. m = n /\ Len(u) = 2
      BY <1>6, <2>0
    <3>1. m + 2 * k - 2 + p = Len(s) + p /\ p \in 1 .. Len(u)
      BY <1>0, <1>1, <2>1, <3>0
    <3> QED
      BY <1>2, <1>3, <2>1, <3>1
  <2>2. CASE k # r
    <3>1. k \in 2 .. Len(reqs) /\ Len(reqs) = r - 1
      BY <1>1, <2>2 DEF r
    <3>2. s[n + 2 * k - 2 + p] = Token(k, p)
      BY <3>1 DEF SentFor, n
    <3>3. n + 2 * k - 2 + p \in 1 .. Len(s)
      BY <1>0, <1>1, <3>1
    <3> QED
      BY <1>3, <1>6, <2>0, <3>2, <3>3
  <2> QED
    BY <2>1, <2>2
<1>11. ASSUME NEW k \in 2 .. r PROVE a[k].body = 0 /\ ~a[1].connect
  <2>0. reqs # <<>>
    BY <1>5, <1>1
  <2>1. CASE k = r
    BY <1>1, <1>6, <2>0, <2>1
  <2>2. CASE k # r
    <3>1. k \in 2 .. Len(reqs) /\ k \in 1 .. r - 1
      BY <1>1, <2>2 DEF r
    <3> QED
      BY <1>1, <1>6, <2>0, <3>1 DEF SentFor
  <2> QED
    BY <2>1, <2>2
<1>12. ~a[1].connect => m = a[1].body
  <2>1. CASE reqs = <<>>
    BY <1>2, <1>7, <2>1
  <2>2. CASE reqs # <<>>
    BY <1>6, <2>2 DEF SentFor, n
  <2> QED
    BY <2>1, <2>2
<1>13. SentFor(t, a)
  BY <1>1, <1>8, <1>9, <1>10, <1>11, <1>12 DEF SentFor, m
<1> QED
  BY <1>3, <1>5, <1>6, <1>13 DEF t, a, m, n, r, u

\* Behind the header that asks for a tunnel only its bytes are sent.
LEMMA SentTunnel ==
  ASSUME NEW s \in Seq(Byte), NEW reqs \in Seq(Request), SentFor(s, reqs), Len(s) = 2
  PROVE  LET u == BodyOf(1, reqs[1].body) IN
         /\ Len(reqs) = 1 /\ u \in Seq(Byte) /\ s \o u \in Seq(Byte) /\ SentFor(s \o u, reqs)
         /\ ~reqs[1].connect => u = <<>> /\ s \o u = s
<1> DEFINE u == BodyOf(1, reqs[1].body)
           n == BodyLen(s, reqs)
           b == reqs[1].body
           t == s \o u
<1>1. n \in Nat /\ Len(s) = n + 2 * Len(reqs) /\ Len(reqs) \in Nat
  BY DEF SentFor, BodyLen
<1>2. Len(reqs) = 1 /\ n = 0 /\ reqs # <<>>
  <2>1. reqs = <<>> => n = 0 /\ Len(reqs) = 0
    BY DEF SentFor
  <2>2. reqs # <<>> => Len(reqs) >= 1
    OBVIOUS
  <2> HIDE DEF n
  <2> QED
    <3>1. reqs # <<>>
      BY <1>1, <2>1
    <3>2. Len(reqs) >= 1
      BY <3>1, <2>2
    <3>4. Len(reqs) = 1 /\ n = 0
      <4> DEFINE l == Len(reqs)
      <4>1. l \in Nat /\ l >= 1 /\ n \in Nat /\ 2 = n + 2 * l
        BY <1>1, <3>2
      <4> HIDE DEF l
      <4>2. l = 1 /\ n = 0
        BY <4>1
      <4> QED
        BY <4>2 DEF l
    <3> QED
      BY <3>1, <3>4
<1>3. b \in Nat
  <2>1. reqs[1] \in Request
    BY <1>2
  <2> QED
    BY <2>1 DEF Request
<1>4. u \in Seq(Byte) /\ Len(u) = b /\ \A i \in 1 .. b : u[i] = Token(1, 2 + i)
  BY <1>3, TokensTyped
<1> HIDE DEF u
<1>5. /\ t \in Seq(Byte) /\ Len(t) = 2 + b
      /\ \A i \in 1 .. 2 : t[i] = s[i]
      /\ \A i \in 1 .. b : t[2 + i] = u[i]
  <2>1. s \in Seq(Byte) /\ u \in Seq(Byte)
    BY <1>4
  <2>2. /\ t \in Seq(Byte) /\ Len(t) = Len(s) + Len(u)
        /\ \A i \in 1 .. Len(s) : t[i] = s[i]
        /\ \A i \in 1 .. Len(u) : t[Len(s) + i] = u[i]
    BY <2>1, Cat, SMTT(30)
  <2> HIDE DEF t
  <2> QED
    BY <1>4, <2>2
<1>6. s[1] = Token(1, 1) /\ s[2] = Token(1, 2)
  <2>1. \A i \in 1 .. n + 2 : s[i] = Token(1, i)
    BY <1>2 DEF SentFor
  <2> QED
    BY <1>2, <2>1
<1>7. BodyLen(t, reqs) = b
  <2>1. BodyLen(t, reqs) = Len(t) - 2 * Len(reqs)
    BY DEF BodyLen
  <2> HIDE DEF t, b
  <2> QED
    BY <1>2, <1>3, <1>5, <2>1
<1>8. \A i \in 1 .. b + 2 : t[i] = Token(1, i)
  <2> SUFFICES ASSUME NEW i \in 1 .. b + 2 PROVE t[i] = Token(1, i)
    OBVIOUS
  <2> HIDE DEF t, b
  <2>1. CASE i = 1 \/ i = 2
    BY <1>5, <1>6, <2>1
  <2>2. CASE ~(i = 1 \/ i = 2)
    <3> DEFINE j == i - 2
    <3>1. j \in 1 .. b /\ i = 2 + j
      BY <1>3, <2>2
    <3> HIDE DEF j
    <3> QED
      BY <1>4, <1>5, <3>1
  <2> QED
    BY <2>1, <2>2
<1>9. ~reqs[1].connect => b = 0
  BY <1>2 DEF SentFor
<1>10. SentFor(t, reqs)
  <2>1. \A k \in 2 .. Len(reqs) : FALSE
    BY <1>2
  <2> HIDE DEF t
  <2> QED
    BY <1>2, <1>3, <1>7, <1>8, <2>1 DEF SentFor
<1>11. b = 0 => u = <<>> /\ s \o <<>> = s
  BY <1>4
<1> QED
  BY <1>2, <1>4, <1>5, <1>9, <1>10, <1>11 DEF u

\* A step harms nobody else when it moves only what belongs to c.
LEMMA OneServed ==
  ASSUME ProxyInv, KeptInv, BytesTyped', NEW c \in Conn, Served(c)',
         \A x \in Conn \ {c} : Unmoved(x) /\ Settling(x)
  PROVE  KeptInv'
<1>1. ASSUME NEW x \in Conn PROVE Served(x)'
  <2>1. CASE x = c
    BY <2>1
  <2>2. CASE x # c
    BY <2>2, Unharmed DEF KeptInv, ProxyInv
  <2> QED
    BY <2>1, <2>2
<1> QED
  BY <1>1 DEF KeptInv

\* A client that was told of no failure was told of no more ends than there were answers.
LEMMA FinishedReplied ==
  ASSUME TypeOK, BytesTyped, NEW c \in Conn, Served(c),
         \A i \in 1 .. Len(got[c]) : got[c][i].part # 502
  PROVE  Finished(c) <= replied[c]
<1>0. got[c] \in Seq(Part) /\ replied[c] \in Nat
  BY DEF TypeOK, BytesTyped
<1>1. Answered(c)[<<0, 0>>] = got[c]
  BY DEF Answered, Places
<1>2. Finished(c) = Cardinality(Ends(got[c]))
  <2>1. {i \in DOMAIN got[c] : got[c][i].part \in {2, 502}} = Ends(got[c])
    BY <1>0 DEF Ends
  <2> QED
    BY <2>1 DEF Finished
<1>3. EndOnce(Answered(c)) /\ EndsGiven(Answered(c), replied[c])
  BY DEF Served
<1>4. Cardinality(Ends(Answered(c)[<<0, 0>>])) <= replied[c]
  BY <1>0, <1>1, <1>3, FinishedGiven
<1> QED
  BY <1>1, <1>2, <1>4

\* Who got nothing was answered nothing.
LEMMA FinishedNothing ==
  ASSUME NEW c \in Conn, got[c] = <<>>
  PROVE  Finished(c) = 0
<1>1. {i \in DOMAIN got[c] : got[c][i].part \in {2, 502}} = {}
  OBVIOUS
<1> QED
  BY <1>1, FS_EmptySet DEF Finished

\* What was written is bytes.
LEMMA WrittenTyped ==
  ASSUME BytesTyped, NEW c \in Conn
  PROVE  Written(c) \in Seq(Byte) /\ Inboxes(c) \in [Number -> Seq(Byte)]
<1>1. Inboxes(c) \in [1 .. MaxDest -> Seq(Byte)]
  BY DEF BytesTyped, Inboxes, Dest, Number
<1>2. FlattenSeq(Inboxes(c)) \in Seq(Byte)
  BY <1>1, FlattenType, ProxyAssumption
<1> QED
  BY <1>1, <1>2 DEF Written, Inboxes, Number

\* The types of what belongs to a connection.
LEMMA Typed ==
  ASSUME TypeOK, BytesTyped, NEW c \in Conn
  PROVE  /\ asked[c] \in Seq(Request) /\ sent[c] \in Seq(Byte) /\ held[c] \in Seq(Byte)
         /\ nread[c] \in Nat /\ replied[c] \in Nat /\ got[c] \in Seq(Part)
         /\ details[c] \in Details /\ Buffer(c) \in Seq(Byte) /\ details[c].connect \in BOOLEAN
         /\ Written(c) \in Seq(Byte) /\ Len(asked[c]) \in Nat /\ Len(sent[c]) \in Nat
         /\ Len(Buffer(c)) \in Nat /\ Len(Written(c)) \in Nat /\ Len(held[c]) \in Nat
<1>1. details[c] \in Details
  BY DEF BytesTyped
<1>2. Buffer(c) \in Seq(Byte) /\ details[c].connect \in BOOLEAN
  BY <1>1 DEF Details, Buffer
<1>3. asked[c] \in Seq(Request) /\ sent[c] \in Seq(Byte) /\ held[c] \in Seq(Byte)
  BY DEF BytesTyped
<1>4. nread[c] \in Nat /\ replied[c] \in Nat /\ got[c] \in Seq(Part)
  BY DEF BytesTyped, TypeOK
<1>5. Written(c) \in Seq(Byte)
  BY WrittenTyped
<1> QED
  BY <1>1, <1>2, <1>3, <1>4, <1>5

\* Three parts are each no longer than the whole.
LEMMA Sums ==
  ASSUME NEW w \in Nat, NEW n \in Nat, NEW o \in Nat, NEW k \in Nat, NEW m \in Nat,
         k = w + n + o, k <= m
  PROVE  /\ w <= m /\ n <= m /\ w + n <= m /\ n + w = w + n
         /\ \A i \in 1 .. w : i \in 1 .. m /\ n + i \in 1 .. m
         /\ \A i \in 1 .. n : i \in 1 .. m /\ w + i \in 1 .. m
         /\ \A i \in 1 .. o : w + n + i \in 1 .. m
OBVIOUS

\* The lengths of what was written, is kept and is held, as numbers.
LEMMA Lengths ==
  ASSUME TypeOK, BytesTyped, NEW c \in Conn, InOrder(c) \/ Accounted(c)
  PROVE  LET w == Len(Written(c))
             n == Len(Buffer(c)) IN
         /\ nread[c] = w + n + Len(held[c]) /\ nread[c] <= Len(sent[c])
         /\ w <= Len(sent[c]) /\ n <= Len(sent[c]) /\ w + n <= Len(sent[c]) /\ n + w = w + n
         /\ \A i \in 1 .. w : i \in 1 .. Len(sent[c]) /\ n + i \in 1 .. Len(sent[c])
         /\ \A i \in 1 .. n : i \in 1 .. Len(sent[c]) /\ w + i \in 1 .. Len(sent[c])
         /\ \A i \in 1 .. Len(held[c]) : w + n + i \in 1 .. Len(sent[c])
<1> DEFINE w == Len(Written(c))
           n == Len(Buffer(c))
           o == Len(held[c])
           k == nread[c]
           m == Len(sent[c])
<1>1. w \in Nat /\ n \in Nat /\ o \in Nat /\ k \in Nat /\ m \in Nat
  BY Typed
<1>2. k = w + n + o /\ k <= m
  BY DEF InOrder, Accounted, Counted
<1> HIDE DEF w, n, o, k, m
<1>3. /\ w <= m /\ n <= m /\ w + n <= m /\ n + w = w + n
      /\ \A i \in 1 .. w : i \in 1 .. m /\ n + i \in 1 .. m
      /\ \A i \in 1 .. n : i \in 1 .. m /\ w + i \in 1 .. m
      /\ \A i \in 1 .. o : w + n + i \in 1 .. m
  BY <1>1, <1>2, Sums
<1> QED
  BY <1>2, <1>3 DEF w, n, o, k, m

\* What waits is the clients' own requests'.
LEMMA BufferReqs ==
  ASSUME TypeOK, BytesTyped, NEW c \in Conn, InOrder(c), SentFor(sent[c], asked[c])
  PROVE  /\ \A i \in 1 .. Len(Buffer(c)) : Buffer(c)[i].req \in 1 .. Len(asked[c])
         /\ \A i \in 1 .. Len(Written(c)) : Written(c)[i].req \in 1 .. Len(asked[c])
<1>1. sent[c] \in Seq(Byte) /\ asked[c] \in Seq(Request)
  BY Typed
<1>2. \A j \in 1 .. Len(sent[c]) : sent[c][j].req \in 1 .. Len(asked[c])
  BY <1>1, SentReq
<1> DEFINE w == Len(Written(c))
           n == Len(Buffer(c))
<1>3. /\ \A i \in 1 .. w : i \in 1 .. Len(sent[c]) /\ n + i \in 1 .. Len(sent[c])
      /\ \A i \in 1 .. n : i \in 1 .. Len(sent[c]) /\ w + i \in 1 .. Len(sent[c])
      /\ w \in Nat /\ n \in Nat
  BY Lengths, Typed
<1>4. /\ Follows(Buffer(c), sent[c], IF details[c].connect THEN 0 ELSE w)
      /\ Follows(Written(c), sent[c], IF details[c].connect THEN n ELSE 0)
  BY DEF InOrder
<1>5. \A i \in 1 .. n : Buffer(c)[i].req = sent[c][(IF details[c].connect THEN 0 ELSE w) + i].req
  BY <1>4 DEF Follows
<1>6. \A i \in 1 .. w : Written(c)[i].req = sent[c][(IF details[c].connect THEN n ELSE 0) + i].req
  BY <1>4 DEF Follows
<1> HIDE DEF w, n
<1>7. \A i \in 1 .. n : (IF details[c].connect THEN 0 ELSE w) + i \in 1 .. Len(sent[c])
  BY <1>3
<1>8. \A i \in 1 .. w : (IF details[c].connect THEN n ELSE 0) + i \in 1 .. Len(sent[c])
  BY <1>3
<1> QED
  BY <1>2, <1>5, <1>6, <1>7, <1>8 DEF w, n

\* More that is sent changes nothing of what was read.
LEMMA InOrderLonger ==
  ASSUME TypeOK, BytesTyped, NEW c \in Conn, InOrder(c), NEW u \in Seq(Byte),
         sent'[c] = sent[c] \o u, nread'[c] = nread[c], details'[c] = details[c],
         held'[c] = held[c], Written(c)' = Written(c)
  PROVE  InOrder(c)'
<1> DEFINE n == Len(Buffer(c))
           w == Len(Written(c))
           s == sent[c]
           b == Buffer(c)
           v == Written(c)
           o == held[c]
           p == IF details[c].connect THEN 0 ELSE w
           q == IF details[c].connect THEN n ELSE 0
<1>1. /\ s \in Seq(Byte) /\ b \in Seq(Byte) /\ v \in Seq(Byte) /\ o \in Seq(Byte)
      /\ n \in Nat /\ w \in Nat /\ Len(o) \in Nat /\ Len(s) \in Nat /\ nread[c] \in Nat
  BY Typed
<1>2. /\ nread[c] <= Len(s) /\ nread[c] = w + n + Len(o)
      /\ Follows(b, s, p) /\ Follows(v, s, q) /\ Follows(o, s, w + n)
  BY DEF InOrder
<1>3. Len(s \o u) = Len(s) + Len(u) /\ Len(u) \in Nat
  BY <1>1, Cat
<1>4. sent'[c] = s \o u /\ Len(b) = n /\ Len(v) = w
  OBVIOUS
<1>5. /\ nread'[c] = nread[c] /\ details'[c] = details[c] /\ held'[c] = o
      /\ Len(Buffer(c)') = n /\ Len(Written(c)') = w /\ Buffer(c)' = b /\ Written(c)' = v
  BY DEF Buffer
<1>6. (p = IF details[c].connect THEN 0 ELSE w) /\ (q = IF details[c].connect THEN n ELSE 0)
  OBVIOUS
<1> HIDE DEF n, w, s, b, v, o, p, q
<1>7. /\ p \in Nat /\ p + Len(b) <= Len(s) /\ q \in Nat /\ q + Len(v) <= Len(s)
      /\ w + n \in Nat /\ w + n + Len(o) <= Len(s)
  BY <1>1, <1>2, <1>4, <1>6
<1>8. Follows(b, s \o u, p) /\ Follows(v, s \o u, q) /\ Follows(o, s \o u, w + n)
  BY <1>1, <1>2, <1>7, FollowsGrown
<1>9. nread[c] <= Len(s \o u)
  BY <1>1, <1>2, <1>3
<1> QED
  BY <1>2, <1>4, <1>5, <1>6, <1>8, <1>9 DEF InOrder

\* What is missing stays so where nothing is written.
LEMMA StaysLeftOut ==
  ASSUME BytesTyped, NEW c \in Conn, LeftOut(c), nread'[c] \in Nat, nread[c] <= nread'[c],
         \A k \in Number : inbox'[<<c, k>>] = inbox[<<c, k>>]
  PROVE  LeftOut(c)'
<1>1. nread[c] \in Nat
  BY DEF BytesTyped
<1>2. PICK p \in 1 .. nread[c] : Missing(c, p)
  BY DEF LeftOut
<1>3. Missing(c, p)' /\ p \in 1 .. nread'[c]
  BY <1>1, <1>2 DEF Missing
<1> QED
  BY <1>3 DEF LeftOut

\* More that is sent changes nothing for those that are late either.
LEMMA AccountedLonger ==
  ASSUME TypeOK, BytesTyped, NEW c \in Conn, Accounted(c), NEW u \in Seq(Byte),
         sent'[c] = sent[c] \o u, UNCHANGED <<nread, details, held, inbox, late>>
  PROVE  Accounted(c)'
<1>1. Written(c)' = Written(c) /\ Buffer(c)' = Buffer(c)
  BY DEF Written, Buffer
<1>2. CASE c \notin late
  BY <1>1, <1>2, InOrderLonger DEF Accounted
<1>3. CASE c \in late
  <2>1. LeftOut(c)'
    <3>1. nread'[c] \in Nat /\ nread[c] <= nread'[c] /\ LeftOut(c)
      BY <1>3, Typed DEF Accounted
    <3> QED
      BY <3>1, StaysLeftOut
  <2>2. Counted(c)'
    <3> DEFINE t == sent[c]
    <3>1. t \in Seq(Byte) /\ nread[c] \in Nat /\ nread[c] <= Len(t) /\ sent'[c] = t \o u
      BY <1>3, Typed DEF Accounted, Counted
    <3> HIDE DEF t
    <3>2. Len(t \o u) = Len(t) + Len(u) /\ Len(u) \in Nat /\ Len(t) \in Nat
      BY <3>1, Cat
    <3>3. nread'[c] <= Len(sent'[c])
      BY <3>1, <3>2
    <3> QED
      BY <1>1, <1>3, <3>3 DEF Accounted, Counted
  <2> QED
    BY <1>3, <2>1, <2>2 DEF Accounted
<1> QED
  BY <1>2, <1>3

\* A client asks only after the answer to all it asked for: nothing else is behind it.
LEMMA AskKept ==
  ASSUME ~LaterBodies, ProxyInv, KeptInv, NEW c \in Conn, NEW h \in Host, NEW body \in Bodies,
         NEW connect \in BOOLEAN, Ask(c, h, body, connect)
  PROVE  KeptInv'
<1> DEFINE q == [host |-> h, body |-> body, connect |-> connect]
           r == Len(asked[c]) + 1
<1>0. TypeOK /\ BytesTyped /\ Served(c)
  BY DEF ProxyInv, KeptInv
<1>1. /\ sock[c] = "open" /\ Finished(c) >= Len(asked[c])
      /\ asked' = [asked EXCEPT ![c] = Append(@, q)]
      /\ sent' = [sent EXCEPT ![c] = @ \o BytesOf(r, q)]
      /\ UNCHANGED <<m_vConnections, m_vReferencList, details, pClientSocket, sock, relay, held,
                     dst, host, inbox, back, dheld, nread, replied, got, late>>
  <2>1. Finished(c) >= r - 1 /\ sent' = [sent EXCEPT ![c] = @ \o HeaderOf(r) \o
                                   (IF connect THEN <<>> ELSE BodyOf(r, body))]
    BY DEF Ask
  <2>2. r - 1 = Len(asked[c])
    BY <1>0, Typed
  <2>3. sent[c] \o HeaderOf(r) \o (IF connect THEN <<>> ELSE BodyOf(r, body))
          = sent[c] \o BytesOf(r, q)
    <3>1. /\ r \in Nat /\ body \in Nat /\ sent[c] \in Seq(Byte) /\ <<>> \in Seq(Byte)
      BY <1>0, Typed, ProxyAssumption
    <3> DEFINE u == IF connect THEN <<>> ELSE BodyOf(r, body)
    <3>2. HeaderOf(r) \in Seq(Byte) /\ u \in Seq(Byte)
      <4>1. HeaderOf(r) \in Seq(Byte) /\ BodyOf(r, body) \in Seq(Byte)
        BY <3>1, TokensTyped
      <4> QED
        BY <3>1, <4>1
    <3>3. BytesOf(r, q) = HeaderOf(r) \o u
      BY DEF BytesOf
    <3> HIDE DEF u, r
    <3> DEFINE s == sent[c]
               t == HeaderOf(r)
    <3>5. s \in Seq(Byte) /\ t \in Seq(Byte)
      BY <3>1, <3>2
    <3> HIDE DEF s, t
    <3>4. s \o (t \o u) = (s \o t) \o u
      BY <3>2, <3>5, Regroup, SMTT(30)
    <3> QED
      BY <3>3, <3>4 DEF u, s, t
  <2> QED
    BY <2>1, <2>2, <2>3 DEF Ask, lists, ends, dests
<1>2. /\ q \in Request
      /\ asked[c] # <<>> => ~asked[c][1].connect /\ ~q.connect /\ q.body = 0
  <2>1. body \in Nat
    BY ProxyAssumption
  <2>2. asked[c] # <<>> => r > 1
    BY <1>0, Typed
  <2> QED
    BY <2>1, <2>2 DEF Ask, Request
<1> HIDE DEF q
<1>3. /\ sent[c] \in Seq(Byte) /\ asked[c] \in Seq(Request) /\ SentFor(sent[c], asked[c])
      /\ nread[c] \in Nat /\ replied[c] \in Nat /\ got[c] \in Seq(Part)
      /\ Len(asked[c]) \in Nat /\ Len(sent[c]) \in Nat
  BY <1>0, Typed DEF Served
<1>4. /\ SentFor(sent[c], asked[c])' /\ sent'[c] \in Seq(Byte)
      /\ asked[c] # <<>> => Body(c)' = Body(c)
      /\ asked[c] = <<>> => sent[c] = <<>>
  <2>1. asked'[c] = Append(asked[c], q) /\ sent'[c] = sent[c] \o BytesOf(r, q)
    BY <1>0, <1>1 DEF BytesTyped
  <2> QED
    BY <1>2, <1>3, <2>1, SentMore DEF Body
<1>5. /\ asked'[c] \in Seq(Request) /\ asked'[c] # <<>> /\ Len(asked'[c]) = Len(asked[c]) + 1
      /\ \A i \in 1 .. Len(asked[c]) : asked'[c][i] = asked[c][i]
      /\ asked[c] # <<>> => 1 \in 1 .. Len(asked[c]) /\ asked'[c][1] = asked[c][1]
      /\ asked[c] = <<>> => asked'[c][1] = q /\ Len(asked[c]) = 0
  <2>1. asked'[c] = Append(asked[c], q)
    BY <1>0, <1>1 DEF BytesTyped
  <2>2. asked[c] # <<>> => 1 \in 1 .. Len(asked[c])
    BY <1>3
  <2>3. /\ asked'[c] \in Seq(Request) /\ Len(asked'[c]) = Len(asked[c]) + 1
        /\ \A i \in 1 .. Len(asked[c]) : asked'[c][i] = asked[c][i]
        /\ asked[c] = <<>> => asked'[c][1] = q /\ Len(asked[c]) = 0
    BY <1>2, <1>3, <2>1
  <2>4. asked'[c] # <<>>
    BY <1>3, <2>3
  <2> QED
    BY <2>2, <2>3, <2>4
<1>6. BytesTyped'
  <2>1. sent' \in [Conn -> Seq(Byte)] /\ asked' \in [Conn -> Seq(Request)]
    BY <1>0, <1>1, <1>4, <1>5 DEF BytesTyped
  <2> QED
    BY <1>0, <1>1, <2>1 DEF BytesTyped
<1>7. \A x \in Conn \ {c} : Unmoved(x) /\ Settling(x)
  BY <1>0, <1>1 DEF Unmoved, Settling, BytesTyped
<1>8. Written(c)' = Written(c) /\ Answered(c)' = Answered(c) /\ Buffer(c)' = Buffer(c)
  BY <1>1 DEF Written, Answered, Buffer
<1>9. Tunnel(c)' <=> (Tunnel(c) \/ (asked[c] = <<>> /\ q.connect))
  BY <1>5 DEF Tunnel
<1>10. ~Tunnel(c)
  BY <1>2 DEF Tunnel
<1>11. Served(c)'
  <2>1. Untouched(c)' /\ OnlyAnswers(c)'
    BY <1>0, <1>1 DEF Served, Untouched, OnlyAnswers, FromAnswers
  <2>2. HostsRight(c)'
    BY <1>0, <1>1, <1>3, <1>5, SMTT(30) DEF Served, HostsRight
  <2>3. EndOnce(Answered(c))' /\ EndsGiven(Answered(c), replied[c])'
    BY <1>0, <1>1, <1>8 DEF Served, EndOnce, EndsGiven
  <2>4. ASSUME c \in m_vConnections PROVE Kept(c)'
    <3>0. Kept(c) /\ Connecting(c)' = Connecting(c)
      BY <1>0, <1>1, <2>4 DEF Served, Connecting, Current
    <3>1. Accounted(c)'
      <4>1. BytesOf(r, q) \in Seq(Byte)
        <5>1. r \in Nat
          BY <1>3
        <5> HIDE DEF r
        <5> QED
          BY <1>2, <5>1, BytesOfTyped
      <4>2. sent'[c] = sent[c] \o BytesOf(r, q)
        BY <1>0, <1>1 DEF BytesTyped
      <4> QED
        BY <1>0, <1>1, <1>8, <3>0, <4>1, <4>2, AccountedLonger DEF Kept
    <3>2. Numbers(c)' /\ LateSettled(c)'
      BY <1>1, <3>0 DEF Kept, Numbers, LateSettled
    <3>3. AnsweredWritten(c)'
      <4> SUFFICES ASSUME replied[c] # 0 PROVE AnsweredWritten(c)'
        BY <1>1 DEF AnsweredWritten
      <4>1. /\ replied[c] <= Len(asked[c]) /\ Len(Written(c)) >= Body(c) + 2 * replied[c]
        BY <1>10, <3>0 DEF Kept, AnsweredWritten
      <4>2. asked[c] # <<>>
        BY <1>3, <1>5, <4>1
      <4>3. replied[c] <= Len(asked'[c]) /\ Body(c)' = Body(c) /\ replied'[c] = replied[c]
        BY <1>1, <1>3, <1>4, <1>5, <4>1, <4>2
      <4> QED
        BY <1>8, <4>1, <4>3 DEF AnsweredWritten
    <3>4. ASSUME c \notin relay PROVE Waiting(c)'
      <4>0. NoneThere(c) /\ FirstKept(c) /\ FirstAsked(c)
        BY <3>0, <3>4 DEF Kept, Waiting
      <4>1. NoneThere(c)'
        BY <1>1, <3>0, <4>0 DEF NoneThere
      <4>2. got[c] = <<>> => Len(asked[c]) = 0
        BY <1>1, <1>3, FinishedNothing
      <4>3. FirstKept(c)'
        <5>1. asked[c] # <<>> => Len(asked[c]) >= 1
          BY <1>3
        <5>2. ASSUME Buffer(c) = <<>> \/ ~Buffer(c)[1].bare
              PROVE  Len(asked'[c]) <= 1 /\ got[c] = <<>>
          BY <1>1, <1>3, <1>5, <1>10, <4>0, <4>2, <5>2 DEF FirstKept
        <5>3. ASSUME Tunnel(c)' PROVE Len(sent'[c]) = 2
          <6>1. asked[c] = <<>> /\ q.connect /\ sent[c] = <<>>
            BY <1>4, <1>9, <1>10, <5>3
          <6>2. sent'[c] = <<>> \o BytesOf(r, q) /\ BytesOf(r, q) \in Seq(Byte)
                /\ Len(BytesOf(r, q)) = 2
            <7>1. r \in Nat
              BY <1>3
            <7> HIDE DEF r
            <7> QED
              BY <1>0, <1>1, <1>2, <6>1, <7>1, BytesOfTyped DEF BytesTyped
          <6>3. sent'[c] = BytesOf(r, q)
            BY <6>2, ConcatEmptySeq
          <6> QED
            BY <6>2, <6>3
        <5>4. ~details[c].connect
          BY <1>10, <4>0 DEF FirstKept
        <5> QED
          BY <1>1, <1>8, <5>2, <5>3, <5>4 DEF FirstKept
      <4>4. FirstAsked(c)'
        <5> SUFFICES ASSUME pClientSocket[c] # 0 PROVE FirstAsked(c)'
          BY <1>1 DEF FirstAsked
        <5>1. Len(Buffer(c)) >= 2 /\ ~details[c].connect
          BY <1>10, <4>0 DEF FirstAsked
        <5>2. asked[c] # <<>>
          <6>1. Len(Buffer(c)) <= Len(sent[c])
            BY <1>0, <3>0, Lengths DEF Kept
          <6>2. Len(Buffer(c)) \in Nat
            BY <1>0, Typed
          <6> QED
            BY <1>3, <1>4, <5>1, <6>1, <6>2
        <5>3. ~Tunnel(c)'
          BY <1>9, <1>10, <5>2
        <5>4. host[Current(c)] = NoHost
          <6>1. CASE host[Current(c)] # NoHost
            <7>1. Len(asked[c]) = 1 /\ got[c] = <<>>
              BY <1>1, <1>10, <4>0, <6>1 DEF FirstAsked
            <7> QED
              BY <4>2, <7>1
          <6> QED
            BY <6>1
        <5>5. host'[Current(c)'] = NoHost
          BY <1>1, <5>4 DEF Current
        <5>6. Len(Buffer(c)') >= 2 /\ details'[c].connect = FALSE
          BY <1>0, <1>1, <1>8, <5>1, Typed
        <5> QED
          BY <5>3, <5>5, <5>6 DEF FirstAsked
      <4> QED
        BY <4>1, <4>3, <4>4 DEF Waiting
    <3>5. ASSUME c \in relay PROVE Relaying(c)'
      <4>0. Relaying(c) /\ asked[c] # <<>> /\ ~details[c].connect
        BY <1>10, <3>0, <3>5 DEF Kept, Relaying
      <4>1. ~Tunnel(c)' /\ Len(asked[c]) >= 1 /\ Body(c)' = Body(c)
        BY <1>3, <1>4, <1>9, <1>10, <4>0
      <4>2. ASSUME pClientSocket[c] # 0 PROVE Passing(c)'
        <5>0. Passing(c)
          BY <4>0, <4>2 DEF Relaying
        <5>1. details[c].bAnswerd
          <6>1. CASE ~details[c].bAnswerd
            <7>1. got[c] = <<>> /\ Len(asked[c]) = 1
              BY <1>1, <5>0, <6>1 DEF Passing, BeforeAnswer
            <7> QED
              BY <1>1, <1>3, <7>1, FinishedNothing
          <6> QED
            BY <6>1
        <5>2. Len(asked[c]) <= replied[c]
          <6>1. \A i \in 1 .. Len(got[c]) : got[c][i].part # 502
            BY <1>1, <5>0 DEF Passing
          <6>2. Finished(c) <= replied[c]
            BY <1>0, <6>1, FinishedReplied
          <6>3. Finished(c) \in Nat
            <7>1. {i \in DOMAIN got[c] : got[c][i].part \in {2, 502}} \in SUBSET (1 .. Len(got[c]))
              BY <1>3
            <7>2. IsFiniteSet(1 .. Len(got[c]))
              <8> DEFINE n == Len(got[c])
              <8>1. n \in Int
                BY <1>3
              <8> HIDE DEF n
              <8>2. IsFiniteSet(1 .. n)
                BY <8>1, FS_Interval
              <8> QED
                BY <8>2 DEF n
            <7> HIDE DEF q
            <7>3. IsFiniteSet({i \in DOMAIN got[c] : got[c][i].part \in {2, 502}})
              BY <7>1, <7>2, FS_Subset
            <7> QED
              BY <7>3, FS_CardinalityType DEF Finished
          <6> QED
            BY <1>1, <1>3, <6>2, <6>3
        <5>3. Len(Written(c)) >= Len(sent[c])
          <6>1. /\ replied[c] <= Len(asked[c]) /\ Len(Written(c)) >= Body(c) + 2 * replied[c]
            BY <1>3, <1>10, <3>0, <4>1, <5>2 DEF Kept, AnsweredWritten
          <6>2. replied[c] = Len(asked[c]) /\ Body(c) = Len(sent[c]) - 2 * Len(asked[c])
            BY <1>3, <5>2, <6>1 DEF Body, BodyLen
          <6> QED
            BY <1>3, <6>1, <6>2
        <5>4. Body(c) = Len(sent[c]) - 2 * Len(asked[c])
          BY DEF Body, BodyLen
        <5>5. AfterAnswer(c)'
          <6>1. Len(Written(c)) \in Nat
            BY <1>0, Typed
          <6>2. Len(Written(c)) >= Body(c) + 2 /\ Len(Written(c)) >= Body(c) + 2 * (Len(asked[c]) + 1 - 1)
            BY <1>3, <4>1, <5>3, <5>4, <6>1
          <6> QED
            BY <1>5, <1>8, <4>1, <6>2 DEF AfterAnswer
        <5>6. c \notin late => details[c].bConncted
          <6>1. CASE c \notin late /\ ~details[c].bConncted
            <7>1. nread[c] = Len(sent[c]) /\ Buffer(c) # <<>>
              BY <1>1, <5>0, <6>1 DEF Passing, KeptBack
            <7>2. Len(Written(c)) + Len(Buffer(c)) <= Len(sent[c])
              BY <1>0, <3>0, Lengths DEF Kept
            <7>3. Buffer(c) \in Seq(Byte) /\ Len(Buffer(c)) \in Nat /\ Len(Written(c)) \in Nat
              BY <1>0, Typed
            <7>4. Len(Buffer(c)) # 0
              BY <7>1, <7>3
            <7> DEFINE w == Len(Written(c))
                       n == Len(Buffer(c))
                       m == Len(sent[c])
            <7>5. w \in Nat /\ n \in Nat \ {0} /\ m \in Nat /\ w >= m /\ w + n <= m
              BY <1>3, <5>3, <7>2, <7>3, <7>4
            <7> HIDE DEF w, n, m
            <7> QED
              BY <7>5
          <6> QED
            BY <6>1
        <5>7. KeptBack(c)'
          <6>1. \A i \in 1 .. Len(Buffer(c)) : Connecting(c) =>
                  asked'[c][Buffer(c)[i].req] = asked[c][Buffer(c)[i].req]
            <7>1. Connecting(c) => InOrder(c) /\ SentFor(sent[c], asked[c])
              BY <1>3, <3>0 DEF Kept, Accounted, LateSettled
            <7> QED
              BY <1>0, <1>5, <7>1, BufferReqs
          <6>2. Current(c)' = Current(c)
            BY <1>1 DEF Current
          <6>0. KeptBack(c)
            BY <5>0 DEF Passing
          <6>3. ASSUME Connecting(c), NEW i \in 1 .. Len(Buffer(c))
                PROVE  Name[asked'[c][Buffer(c)[i].req].host] = Name[host[Current(c)]]
            BY <6>0, <6>1, <6>3 DEF KeptBack
          <6>4. sock[c] = "open" /\ c \notin late =>
                  details[c].bConncted /\ ~Connecting(c)
                  /\ \A i \in 1 .. Len(Buffer(c)) : Buffer(c)[i].part = 1 /\ ~Buffer(c)[i].bare
            BY <5>6, <6>0 DEF KeptBack
          <6> QED
            BY <1>1, <1>8, <3>0, <6>2, <6>3, <6>4 DEF KeptBack
        <5>8. Current(c)' = Current(c)
          BY <1>1 DEF Current
        <5> QED
          BY <1>1, <5>0, <5>1, <5>5, <5>7, <5>8 DEF Passing
      <4> QED
        BY <1>1, <1>5, <3>0, <4>0, <4>1, <4>2 DEF Relaying
    <3> QED
      BY <1>1, <3>1, <3>2, <3>3, <3>4, <3>5 DEF Kept
  <2> QED
    BY <1>1, <1>4, <2>1, <2>2, <2>3, <2>4 DEF Served
<1> QED
  BY <1>0, <1>6, <1>7, <1>11, OneServed

-----------------------------------------------------------------------------
(* The client is read *)

\* A client sends through its tunnel.
LEMMA SendThroughKept ==
  ASSUME ProxyInv, KeptInv, NEW c \in Conn, SendThrough(c)
  PROVE  KeptInv'
<1> DEFINE u == BodyOf(1, asked[c][1].body)
<1>0. TypeOK /\ BytesTyped /\ Served(c)
  BY DEF ProxyInv, KeptInv
<1>1. /\ sock[c] = "open" /\ got[c] = <<Established>> /\ Len(sent[c]) = 2
      /\ sent' = [sent EXCEPT ![c] = @ \o u]
      /\ UNCHANGED <<m_vConnections, m_vReferencList, details, pClientSocket, sock, relay, held,
                     dst, host, inbox, back, dheld, asked, nread, replied, got, late>>
  BY DEF SendThrough, lists, ends, dests
<1>2. /\ u \in Seq(Byte) /\ sent[c] \o u \in Seq(Byte)
      /\ SentFor(sent[c] \o u, asked[c]) /\ (~asked[c][1].connect => sent[c] \o u = sent[c])
      /\ Len(asked[c]) = 1
  BY <1>0, <1>1, Typed, SentTunnel DEF Served
<1> HIDE DEF u
<1>3. sent'[c] = sent[c] \o u
  BY <1>0, <1>1 DEF BytesTyped
<1>4. BytesTyped'
  BY <1>0, <1>1, <1>2 DEF BytesTyped
<1>5. \A x \in Conn \ {c} : Unmoved(x) /\ Settling(x)
  BY <1>0, <1>1 DEF Unmoved, Settling, BytesTyped
<1>6. CASE ~asked[c][1].connect
  <2>1. Unmoved(c) /\ Settling(c)
    BY <1>1, <1>2, <1>3, <1>6 DEF Unmoved, Settling
  <2>2. Served(c)'
    BY <1>0, <2>1, Unharmed
  <2> QED
    BY <1>0, <1>4, <1>5, <2>2, OneServed
<1>7. CASE asked[c][1].connect
  <2>0. Tunnel(c)
    BY <1>2, <1>7 DEF Tunnel
  <2>1. Written(c)' = Written(c) /\ Answered(c)' = Answered(c)
    BY <1>1 DEF Written, Answered
  <2>2. /\ Untouched(c)' /\ OnlyAnswers(c)' /\ HostsRight(c)' /\ SentFor(sent[c], asked[c])'
    BY <1>0, <1>1, <1>2, <1>3 DEF Served, Untouched, OnlyAnswers, FromAnswers, HostsRight
  <2>3. EndOnce(Answered(c))' /\ EndsGiven(Answered(c), replied[c])'
    BY <1>0, <1>1, <2>1 DEF Served, EndOnce, EndsGiven
  <2>4. ASSUME c \in m_vConnections PROVE Kept(c)'
    <3>0. Kept(c) /\ Connecting(c)' = Connecting(c) /\ Tunnel(c)' = Tunnel(c)
      BY <1>0, <1>1, <2>4 DEF Served, Connecting, Current, Tunnel
    <3>1. Accounted(c)'
      BY <1>0, <1>1, <1>2, <1>3, <3>0, AccountedLonger DEF Kept
    <3>2. Numbers(c)' /\ LateSettled(c)' /\ AnsweredWritten(c)'
      BY <1>1, <2>0, <3>0 DEF Kept, Numbers, LateSettled, AnsweredWritten
    <3>3. c \in relay
      <4>1. Len(got[c]) = 1 /\ got[c][1] = Established
        BY <1>1
      <4>2. Established # BadGateway
        BY DEF Established, BadGateway
      <4> QED
        BY <3>0, <4>1, <4>2 DEF Kept, Waiting, NoneThere
    <3>4. Relaying(c)'
      BY <1>1, <2>0, <3>0, <3>3 DEF Kept, Relaying, ThroughTunnel, Buffer, Current
    <3> QED
      BY <1>1, <3>1, <3>2, <3>3, <3>4 DEF Kept
  <2>5. Served(c)'
    BY <1>1, <2>2, <2>3, <2>4 DEF Served
  <2> QED
    BY <1>0, <1>4, <1>5, <2>5, OneServed
<1> QED
  BY <1>6, <1>7

-----------------------------------------------------------------------------
\* OnNewConnection enters a connection that has nothing.
LEMMA NewConnectionKept ==
  ASSUME ProxyInv, KeptInv, NEW c \in Conn, OnNewConnection(c)
  PROVE  KeptInv'
<1>0. TypeOK /\ BytesTyped /\ Served(c)
  BY DEF ProxyInv, KeptInv
<1>1. /\ sock[c] = "new" /\ sock' = [sock EXCEPT ![c] = "open"]
      /\ m_vConnections' = m_vConnections \cup {c}
      /\ UNCHANGED <<m_vReferencList, details, pClientSocket, relay, held,
                     dst, host, inbox, back, dheld, asked, sent, nread, replied, got, late>>
  BY DEF OnNewConnection, dests, client
<1>2. BytesTyped'
  BY <1>0, <1>1 DEF BytesTyped
<1>3. \A x \in Conn \ {c} : Unmoved(x) /\ Settling(x)
  BY <1>0, <1>1 DEF Unmoved, Settling, TypeOK
<1>4. /\ asked[c] = <<>> /\ held[c] = <<>> /\ got[c] = <<>> /\ details[c] = NewDetails
      /\ nread[c] = 0 /\ replied[c] = 0 /\ c \notin late
      /\ \A k \in Number : inbox[<<c, k>>] = <<>> /\ dheld[<<c, k>>] = <<>>
  BY <1>0, <1>1 DEF Served, Untouched
<1>5. c \notin relay /\ pClientSocket[c] = 0 /\ \A k \in Number : dst[<<c, k>>] = "none"
  BY <1>1 DEF ProxyInv, NewIsFresh, Number
<1>6. /\ Buffer(c) = <<>> /\ ~details[c].connect /\ ~details[c].bConncted /\ ~details[c].bAnswerd
  BY <1>4 DEF Buffer, NewDetails
<1>7. Written(c) = <<>>
  BY <1>4, NothingWritten, ProxyAssumption
<1>8. Len(sent[c]) \in Nat /\ sent'[c] = sent[c]
  BY <1>0, <1>1, Typed
<1>9. Kept(c)'
  <2>1. InOrder(c)
    BY <1>4, <1>6, <1>7, <1>8 DEF InOrder, Follows
  <2>2. InOrder(c)'
    <3>1. Buffer(c)' = Buffer(c) /\ Written(c)' = Written(c)
      BY <1>1 DEF Buffer, Written
    <3> QED
      BY <1>1, <2>1, <3>1 DEF InOrder
  <2>6. Accounted(c)'
    BY <1>1, <1>4, <2>2 DEF Accounted
  <2>3. Numbers(c)'
    BY <1>1, <1>4, <1>5 DEF Numbers, Number
  <2>4. AnsweredWritten(c)' /\ LateSettled(c)'
    BY <1>1, <1>4 DEF AnsweredWritten, LateSettled
  <2>5. Waiting(c)'
    <3>1. NoneThere(c)'
      BY <1>1, <1>4, <1>5, <1>6 DEF NoneThere
    <3>2. FirstKept(c)'
      BY <1>1, <1>4, <1>6 DEF FirstKept, Tunnel
    <3>3. FirstAsked(c)'
      BY <1>1, <1>5 DEF FirstAsked
    <3> QED
      BY <3>1, <3>2, <3>3 DEF Waiting
  <2> QED
    BY <1>1, <1>5, <2>6, <2>3, <2>4, <2>5 DEF Kept
<1>10. Served(c)'
  <2>1. Answered(c)' = Answered(c) /\ sock'[c] = "open"
    BY <1>0, <1>1 DEF Answered, TypeOK
  <2>2. Untouched(c)' /\ OnlyAnswers(c)' /\ HostsRight(c)' /\ SentFor(sent[c], asked[c])'
    BY <1>0, <1>1, <2>1 DEF Served, Untouched, OnlyAnswers, FromAnswers, HostsRight
  <2>3. EndOnce(Answered(c))' /\ EndsGiven(Answered(c), replied[c])'
    BY <1>0, <1>1, <2>1 DEF Served, EndOnce, EndsGiven
  <2> QED
    BY <1>9, <2>2, <2>3 DEF Served
<1> QED
  BY <1>0, <1>2, <1>3, <1>10, OneServed

\* What is read next is what was sent next.
LEMMA ReadNext ==
  ASSUME TypeOK, BytesTyped, NEW c \in Conn, nread[c] <= Len(sent[c]), NEW n \in DOMAIN Available(c)
  PROVE  LET data == SubSeq(Available(c), 1, n) IN
         /\ data \in Seq(Byte) /\ Len(data) = n /\ n \in Nat \ {0}
         /\ nread[c] + n <= Len(sent[c])
         /\ \A i \in 1 .. n : data[i] = sent[c][nread[c] + i] /\ nread[c] + i \in 1 .. Len(sent[c])
         /\ Follows(data, sent[c], nread[c])
<1> DEFINE s == sent[c]
           p == nread[c]
           v == Available(c)
           d == SubSeq(v, 1, n)
<1>1. s \in Seq(Byte) /\ p \in Nat /\ p <= Len(s) /\ v = SubSeq(s, p + 1, Len(s))
  BY Typed DEF Available
<1>2. n \in DOMAIN v
  OBVIOUS
<1> HIDE DEF s, p, v
<1>3. /\ v \in Seq(Byte) /\ Len(v) = Len(s) - p /\ Len(s) \in Nat
      /\ \A i \in 1 .. Len(v) : v[i] = s[p + i]
  BY <1>1
<1>4. n \in 1 .. Len(v)
  BY <1>2, <1>3
<1>5. d \in Seq(Byte) /\ Len(d) = n /\ \A i \in 1 .. n : d[i] = v[i]
  BY <1>3, <1>4
<1> HIDE DEF d
<1>6. n \in Nat \ {0} /\ p + n <= Len(s) /\ \A i \in 1 .. n : i \in 1 .. Len(v) /\ p + i \in 1 .. Len(s)
  BY <1>1, <1>3, <1>4
<1>7. \A i \in 1 .. n : d[i] = s[p + i]
  BY <1>3, <1>5, <1>6
<1>8. Follows(d, s, p)
  BY <1>5, <1>7 DEF Follows
<1> QED
  BY <1>5, <1>6, <1>7, <1>8 DEF d, s, p, v

\* OnDataReceived reads, before it has the mutex.
LEMMA ReadKept ==
  ASSUME ProxyInv, KeptInv, NEW c \in Conn, NEW n \in DOMAIN Available(c), Read(c, n)
  PROVE  KeptInv'
<1> DEFINE data == SubSeq(Available(c), 1, n)
<1>0. TypeOK /\ BytesTyped /\ Served(c)
  BY DEF ProxyInv, KeptInv
<1>1. /\ sock[c] = "open" /\ c \notin relay /\ held[c] = <<>>
      /\ held' = [held EXCEPT ![c] = data] /\ nread' = [nread EXCEPT ![c] = @ + n]
      /\ UNCHANGED <<m_vConnections, m_vReferencList, details, pClientSocket, sock, relay,
                     dst, host, inbox, back, dheld, asked, sent, replied, got, late>>
  BY DEF Read, lists, ends, dests
<1>2. data \in Seq(Byte) /\ n \in Nat
  <2>1. sent[c] \in Seq(Byte) /\ nread[c] \in Nat /\ Available(c) = SubSeq(sent[c], nread[c] + 1, Len(sent[c]))
    BY <1>0, Typed DEF Available
  <2> DEFINE s == sent[c]
             p == nread[c]
             v == Available(c)
  <2>2. s \in Seq(Byte) /\ p \in Nat /\ v = SubSeq(s, p + 1, Len(s)) /\ n \in DOMAIN v
    BY <2>1
  <2> HIDE DEF s, p, v
  <2>3. v \in Seq(Byte)
    BY <2>2
  <2>4. SubSeq(v, 1, n) \in Seq(Byte) /\ n \in Nat
    BY <2>2, <2>3
  <2> QED
    BY <2>4 DEF v
<1> HIDE DEF data
<1>3. /\ held'[c] = data /\ nread'[c] = nread[c] + n
  BY <1>0, <1>1 DEF BytesTyped
<1>4. BytesTyped'
  <2>1. held' \in [Conn -> Seq(Byte)] /\ nread' \in [Conn -> Nat]
    BY <1>0, <1>1, <1>2 DEF BytesTyped
  <2> QED
    BY <1>0, <1>1, <2>1 DEF BytesTyped
<1>5. \A x \in Conn \ {c} : Unmoved(x) /\ Settling(x)
  BY <1>0, <1>1 DEF Unmoved, Settling, BytesTyped
<1>6. Written(c)' = Written(c) /\ Answered(c)' = Answered(c) /\ Buffer(c)' = Buffer(c)
  BY <1>1 DEF Written, Answered, Buffer
<1>7. ASSUME c \in m_vConnections PROVE Kept(c)'
  <2>0. Kept(c) /\ Connecting(c)' = Connecting(c) /\ Tunnel(c)' = Tunnel(c)
    BY <1>0, <1>1, <1>7 DEF Served, Connecting, Current, Tunnel
  <2>5. c \notin late
    BY <1>1, <2>0 DEF Kept, LateSettled, Waiting, NoneThere
  <2>6. InOrder(c)'
    <3> DEFINE w == Len(Written(c))
               l == Len(Buffer(c))
    <3>1. nread[c] = w + l + Len(held[c]) /\ nread[c] <= Len(sent[c])
      BY <1>0, <2>0, Lengths DEF Kept
    <3>2. Len(held[c]) = 0 /\ w \in Nat /\ l \in Nat /\ nread[c] \in Nat
      BY <1>0, <1>1, Typed
    <3>3. /\ Len(data) = n /\ nread[c] + n <= Len(sent[c]) /\ Follows(data, sent[c], nread[c])
      BY <1>0, <3>1, ReadNext DEF data
    <3>4. /\ Follows(Buffer(c), sent[c], IF details[c].connect THEN 0 ELSE w)
          /\ Follows(Written(c), sent[c], IF details[c].connect THEN l ELSE 0)
      BY <2>0, <2>5 DEF Kept, Accounted, InOrder
    <3>5. Len(Written(c)') = w /\ Len(Buffer(c)') = l
      BY <1>6
    <3> HIDE DEF w, l
    <3>6. nread[c] = w + l /\ nread'[c] = w + l + n /\ Len(held'[c]) = n
      BY <1>2, <1>3, <3>1, <3>2, <3>3
    <3> QED
      BY <1>1, <1>3, <1>6, <3>3, <3>4, <3>5, <3>6 DEF InOrder
  <2>1. Accounted(c)'
    BY <1>1, <2>5, <2>6 DEF Accounted
  <2>2. Numbers(c)' /\ LateSettled(c)'
    BY <1>1, <2>0 DEF Kept, Numbers, LateSettled
  <2>3. AnsweredWritten(c)'
    BY <1>1, <1>6, <2>0 DEF Kept, AnsweredWritten, Body, BodyLen
  <2>4. Waiting(c)'
    <3>0. Waiting(c)
      BY <1>1, <2>0 DEF Kept
    <3>1. NoneThere(c)' /\ FirstKept(c)'
      BY <1>1, <1>6, <2>0, <3>0 DEF Waiting, NoneThere, FirstKept
    <3>2. FirstAsked(c)'
      BY <1>1, <1>6, <2>0, <3>0 DEF Waiting, FirstAsked, Current
    <3> QED
      BY <3>1, <3>2 DEF Waiting
  <2> QED
    BY <1>1, <2>1, <2>2, <2>3, <2>4 DEF Kept
<1>8. Served(c)'
  <2>1. Untouched(c)' /\ OnlyAnswers(c)' /\ HostsRight(c)' /\ SentFor(sent[c], asked[c])'
    BY <1>0, <1>1 DEF Served, Untouched, OnlyAnswers, FromAnswers, HostsRight
  <2>2. EndOnce(Answered(c))' /\ EndsGiven(Answered(c), replied[c])'
    BY <1>0, <1>1, <1>6 DEF Served, EndOnce, EndsGiven
  <2> QED
    BY <1>1, <1>7, <2>1, <2>2 DEF Served
<1> QED
  BY <1>0, <1>4, <1>5, <1>8, OneServed

-----------------------------------------------------------------------------
(* OnDataReceived *)

\* The same bytes, but for the lines that lost their host.
SameBytes(s, t) ==
  Len(s) = Len(t) /\ \A i \in 1 .. Len(t) : s[i].req = t[i].req /\ s[i].part = t[i].part

\* What follows does, without the host of its line.
LEMMA FollowsSame ==
  ASSUME NEW s, NEW t, NEW u, NEW p, SameBytes(s, t), Follows(t, u, p)
  PROVE  Follows(s, u, p)
BY DEF Follows, SameBytes

\* What was held goes behind what is kept.
LEMMA InOrderMoved ==
  ASSUME TypeOK, BytesTyped, NEW c \in Conn, InOrder(c),
         SameBytes(Buffer(c)', Buffer(c) \o held[c]), held'[c] = <<>>,
         nread'[c] = nread[c], sent'[c] = sent[c], Written(c)' = Written(c),
         Written(c) = <<>> \/ (~details[c].connect /\ ~details'[c].connect)
  PROVE  InOrder(c)'
<1> DEFINE b == Buffer(c)
           o == held[c]
           s == sent[c]
           v == Written(c)
           w == Len(v)
           n == Len(b)
           p == IF details[c].connect THEN 0 ELSE w
           q == IF details[c].connect THEN n ELSE 0
           pp == IF details'[c].connect THEN 0 ELSE w
           qq == IF details'[c].connect THEN n + Len(o) ELSE 0
           bb == Buffer(c)'
           N == nread[c]
           S == Len(s)
<1>1. b \in Seq(Byte) /\ o \in Seq(Byte) /\ v \in Seq(Byte) /\ Len(o) \in Nat /\ N \in Nat /\ S \in Nat
  BY Typed
<1>2. /\ Follows(b, s, p) /\ Follows(v, s, q) /\ Follows(o, s, w + n)
      /\ N = w + n + Len(o) /\ N <= S
  BY DEF InOrder
<1>3. w \in Nat /\ n \in Nat /\ Len(b \o o) = n + Len(o)
  BY <1>1, Cat
<1>4. v = <<>> => w = 0
  OBVIOUS
<1>5. v = <<>> \/ (~details[c].connect /\ ~details'[c].connect)
  OBVIOUS
<1>6. n = Len(b) /\ SameBytes(bb, b \o o) /\ Len(bb) = Len(b \o o)
  BY DEF SameBytes
<1>7. /\ p = (IF details[c].connect THEN 0 ELSE w) /\ q = (IF details[c].connect THEN n ELSE 0)
      /\ pp = (IF details'[c].connect THEN 0 ELSE w)
      /\ qq = (IF details'[c].connect THEN n + Len(o) ELSE 0)
  OBVIOUS
<1> HIDE DEF b, o, s, v, w, n, p, q, pp, qq, bb, N, S
<1>8. p + n = w + n /\ p = pp /\ p \in Nat
  BY <1>1, <1>3, <1>4, <1>5, <1>7
<1>9. Follows(b \o o, s, p)
  BY <1>1, <1>2, <1>6, <1>8, FollowsJoin
<1>10. Follows(bb, s, pp)
  BY <1>6, <1>8, <1>9, FollowsSame
<1>11. Follows(v, s, qq)
  <2>1. CASE v = <<>>
    BY <2>1, FollowsNothing
  <2>2. CASE v # <<>>
    BY <1>2, <1>5, <1>7, <2>2
  <2> QED
    BY <2>1, <2>2
<1>12. Len(bb) = n + Len(o) /\ nread'[c] = N /\ sent'[c] = s /\ held'[c] = <<>> /\ Written(c)' = v
       /\ Buffer(c)' = bb
  BY <1>3, <1>6 DEF bb, s, v, N
<1>13. Follows(<<>>, s, w + (n + Len(o))) /\ Len(<<>>) = 0
  BY FollowsNothing
<1>14. Len(Buffer(c)') = n + Len(o) /\ Len(Written(c)') = w /\ N = w + (n + Len(o)) + 0
  <2>1. Len(v) = w
    BY DEF w
  <2> QED
    BY <1>1, <1>2, <1>3, <1>12, <2>1
<1>15. nread'[c] <= Len(sent'[c])
  BY <1>2, <1>12 DEF S
<1> QED
  BY <1>7, <1>10, <1>11, <1>12, <1>13, <1>14, <1>15 DEF InOrder

\* The first byte is the first request line.
LEMMA FirstByte ==
  ASSUME NEW s \in Seq(Byte), NEW reqs \in Seq(Request), SentFor(s, reqs), Len(s) # 0
  PROVE  s[1].req = 1 /\ s[1].part = 1 /\ reqs # <<>>
<1>1. 1 \in 1 .. Len(s)
  BY DEF SentFor, BodyLen
<1>2. reqs # <<>>
  <2>1. CASE reqs = <<>>
    BY <2>1 DEF SentFor, BodyLen
  <2> QED
    BY <2>1
<1>3. s[1] = Token(1, 1)
  <2>1. 1 \in 1 .. BodyLen(s, reqs) + 2
    BY DEF SentFor
  <2> QED
    BY <1>2, <2>1 DEF SentFor
<1> QED
  BY <1>2, <1>3 DEF Token

\* The buffer is replaced, the rest stays.
LEMMA DetailsWith ==
  ASSUME NEW D \in Details, NEW s \in Seq(Byte)
  PROVE  LET E == [D EXCEPT !.strBuffer = s] IN
         /\ E \in Details /\ E.strBuffer = s /\ E.connect = D.connect /\ E.to = D.to
         /\ E.bConncted = D.bConncted /\ E.bAnswerd = D.bAnswerd
BY DEF Details

-----------------------------------------------------------------------------
\* What all its branches leave alone.
Handling(c) ==
  /\ held[c] # <<>> /\ held' = [held EXCEPT ![c] = <<>>]
  /\ UNCHANGED <<m_vConnections, sock, relay, inbox, back, dheld, asked, sent, nread, replied>>

\* What is left to show for OnDataReceived: what it changes.
LEMMA HandlingServed ==
  ASSUME ProxyInv, KeptInv, NEW c \in Conn, Handling(c), HostsRight(c)',
         EndOnce(Answered(c))', EndsGiven(Answered(c), replied[c])',
         c \in m_vConnections => Kept(c)', BytesTyped',
         \A x \in Conn \ {c} : Unmoved(x) /\ Settling(x)
  PROVE  KeptInv'
<1>0. TypeOK /\ BytesTyped /\ Served(c)
  BY DEF ProxyInv, KeptInv
<1>1. Untouched(c)' /\ OnlyAnswers(c)' /\ SentFor(sent[c], asked[c])'
  BY <1>0 DEF Served, Handling, Untouched, OnlyAnswers, FromAnswers
<1>2. Served(c)'
  BY <1>1 DEF Served, Handling
<1> QED
  BY <1>2, OneServed

\* What it held it gives away.
LEMMA HeldNothing ==
  ASSUME BytesTyped, NEW c \in Conn, Handling(c)
  PROVE  /\ held'[c] = <<>> /\ held' \in [Conn -> Seq(Byte)]
         /\ \A x \in Conn \ {c} : held'[x] = held[x]
         /\ Written(c)' = Written(c)
<1>1. <<>> \in Seq(Byte)
  OBVIOUS
<1> QED
  BY <1>1 DEF Handling, BytesTyped, Written

\* Nobody wants it any more.
LEMMA HandleGoneKept ==
  ASSUME ProxyInv, KeptInv, NEW c \in Conn, Handling(c), c \notin m_vConnections,
         UNCHANGED <<lists, dst, host, got, late>>
  PROVE  KeptInv'
<1>0. TypeOK /\ BytesTyped /\ Served(c)
  BY DEF ProxyInv, KeptInv
<1>1. UNCHANGED <<m_vConnections, m_vReferencList, details, pClientSocket, dst, host, got, late>>
  BY DEF lists
<1>2. BytesTyped'
  BY <1>0, <1>1, HeldNothing DEF BytesTyped, Handling
<1>3. \A x \in Conn \ {c} : Unmoved(x) /\ Settling(x)
  BY <1>0, <1>1, HeldNothing DEF Unmoved, Settling, Handling
<1>4. Answered(c)' = Answered(c)
  BY <1>1 DEF Answered, Handling
<1>5. HostsRight(c)' /\ EndOnce(Answered(c))' /\ EndsGiven(Answered(c), replied[c])'
  BY <1>0, <1>1, <1>4 DEF Served, HostsRight, Handling, EndOnce, EndsGiven
<1> QED
  BY <1>1, <1>2, <1>3, <1>5, HandlingServed

\* Of one request the parts are sent in order.
LEMMA OneSent ==
  ASSUME TypeOK, BytesTyped, NEW c \in Conn, SentFor(sent[c], asked[c]), Len(asked[c]) = 1
  PROVE  /\ Body(c) \in Nat /\ Len(sent[c]) = Body(c) + 2
         /\ \A i \in 1 .. Len(sent[c]) : sent[c][i] = Token(1, i)
<1> DEFINE B == BodyLen(sent[c], asked[c])
           S == Len(sent[c])
<1>0. asked[c] # <<>> /\ S \in Nat /\ S = Len(sent[c])
  <2>1. S \in Nat
    BY Typed
  <2>2. asked[c] # <<>>
    <3>1. Len(asked[c]) # Len(<<>>)
      OBVIOUS
    <3> QED
      BY <3>1
  <2> QED
    BY <2>1, <2>2
<1>1. B \in Nat /\ B = S - 2 * 1 /\ \A i \in 1 .. B + 2 : sent[c][i] = Token(1, i)
  BY <1>0 DEF SentFor, BodyLen
<1>2. B = Body(c)
  BY DEF Body
<1> HIDE DEF B, S
<1>3. S = B + 2 /\ \A i \in 1 .. S : sent[c][i] = Token(1, i)
  BY <1>0, <1>1
<1> QED
  BY <1>0, <1>1, <1>2, <1>3

\* What is held until its destination is there is missing there, and not answered.
LEMMA HeldMissing ==
  ASSUME ProxyInv, KeptInv, NEW c \in m_vConnections, c \in Conn, held[c] # <<>>, c \notin late,
         details[c].bConncted
  PROVE  LeftOut(c) /\ replied[c] = 0 /\ ~details[c].bAnswerd
<1> DEFINE v == Written(c)
           w == Len(Written(c))
           n == Len(Buffer(c))
           o == Len(held[c])
           N == nread[c]
           S == Len(sent[c])
<1>0. TypeOK /\ BytesTyped /\ Served(c) /\ Kept(c) /\ InOrder(c)
  BY DEF ProxyInv, KeptInv, Served, Kept, Accounted
<1>1. /\ w \in Nat /\ n \in Nat /\ o \in Nat /\ o # 0 /\ N \in Nat /\ S \in Nat
      /\ N = w + n + o /\ N <= S
  <2>1. held[c] \in Seq(Byte)
    BY <1>0, Typed
  <2>2. o # 0
    BY <2>1
  <2> QED
    BY <1>0, <2>2, Typed, Lengths
<1>2. CASE c \notin relay
  <2>1. \A k \in Number : inbox[<<c, k>>] = <<>>
    BY <1>0, <1>2 DEF Kept, Waiting, NoneThere
  <2>2. Missing(c, 1)
    BY <2>1 DEF Missing, HasPart
  <2>3. 1 \in 1 .. N
    <3> HIDE DEF w, n, o, N, S
    <3> QED
      BY <1>1
  <2> QED
    BY <1>0, <1>2, <2>2, <2>3 DEF LeftOut, Kept, Waiting, NoneThere
<1>3. CASE c \in relay
  <2>1. /\ Relaying(c) /\ ~details[c].connect /\ ~Tunnel(c) /\ ~details[c].bAnswerd
        /\ pClientSocket[c] # 0 /\ BeforeAnswer(c)
    BY <1>0, <1>3 DEF Kept, Relaying, ThroughTunnel, Passing
  <2>2. /\ Len(asked[c]) = 1 /\ asked[c] # <<>> /\ sent[c] \in Seq(Byte)
        /\ SentFor(sent[c], asked[c])
    BY <1>0, <2>1, Typed DEF BeforeAnswer, Served
  <2>3. Body(c) \in Nat /\ S = Body(c) + 2 /\ \A i \in 1 .. S : sent[c][i] = Token(1, i)
    BY <1>0, <2>2, OneSent
  <2>4. replied[c] = 0
    <3>1. SUFFICES ASSUME replied[c] # 0 PROVE FALSE
      OBVIOUS
    <3>2. replied[c] <= 1 /\ w >= Body(c) + 2 * replied[c] /\ replied[c] \in Nat
      BY <1>0, <2>1, <2>2, <3>1, Typed DEF Kept, AnsweredWritten
    <3>3. w >= S
      <4> HIDE DEF w, S
      <4> QED
        BY <1>1, <2>3, <3>1, <3>2
    <3> HIDE DEF w, n, o, N, S
    <3> QED
      BY <1>1, <3>3
  <2>5. Missing(c, w + 1)
    <3> SUFFICES ASSUME NEW k \in Number, NEW i \in 1 .. Len(inbox[<<c, k>>]),
                        inbox[<<c, k>>][i].part = w + 1
                 PROVE  FALSE
      BY DEF Missing, HasPart
    <3> DEFINE F == Inboxes(c)
    <3>1. /\ v \in Seq(Byte) /\ F \in [1 .. MaxDest -> Seq(Byte)] /\ v = FlattenSeq(F)
          /\ F[k] = inbox[<<c, k>>] /\ F[k] \in Seq(Byte) /\ k \in 1 .. MaxDest
          /\ MaxDest \in Nat \ {0}
      BY <1>0, WrittenTyped, ProxyAssumption DEF Inboxes, Written, Number
    <3>2. i \in DOMAIN F[k]
      BY <3>1
    <3>3. Follows(v, sent[c], 0)
      BY <1>0, <2>1 DEF InOrder
    <3> HIDE DEF F, v
    <3>4. In(F[k][i], FlattenSeq(F))
      BY <3>1, <3>2, FlattenHolds
    <3>5. PICK j \in 1 .. Len(v) : v[j] = F[k][i]
      BY <3>1, <3>4 DEF In
    <3>8. v[j].part = sent[c][0 + j].part
      BY <3>3, <3>5 DEF Follows
    <3>9. v[j].part = inbox[<<c, k>>][i].part
      BY <3>1, <3>5
    <3>10. j \in 1 .. w
      BY <3>5 DEF v
    <3> HIDE DEF w, n, o, N, S
    <3>6. v[j].part = w + 1 /\ v[j].part = sent[c][0 + j].part /\ j \in 1 .. w
      BY <3>8, <3>9, <3>10
    <3>7. j \in 1 .. S /\ j <= w /\ 0 + j = j
      BY <1>1, <3>6
    <3>11. sent[c][j].part = j
      <4>1. sent[c][j] = Token(1, j)
        BY <2>3, <3>7
      <4> QED
        BY <4>1 DEF Token
    <3> QED
      BY <1>1, <3>6, <3>7, <3>11
  <2>6. w + 1 \in 1 .. N
    <3> HIDE DEF w, n, o, N, S
    <3> QED
      BY <1>1
  <2> QED
    BY <2>1, <2>4, <2>5, <2>6 DEF LeftOut
<1> QED
  BY <1>2, <1>3

\* It is put behind what waits.
LEMMA HandleMoreKept ==
  ASSUME ProxyInv, KeptInv, NEW c \in Conn, Handling(c), c \in m_vConnections,
         details' = [details EXCEPT ![c] = [@ EXCEPT !.strBuffer = Buffer(c) \o held[c]]],
         late' = IF details[c].bConncted THEN late \cup {c} ELSE late,
         UNCHANGED <<m_vReferencList, pClientSocket, dst, host, got>>
  PROVE  KeptInv'
<1> DEFINE b == Buffer(c)
           o == held[c]
<1>0. TypeOK /\ BytesTyped /\ Served(c) /\ Kept(c)
  BY DEF ProxyInv, KeptInv, Served
<1>1. /\ b \in Seq(Byte) /\ o \in Seq(Byte) /\ details[c] \in Details
  BY <1>0, Typed
<1>2. /\ b \o o \in Seq(Byte) /\ Len(b \o o) = Len(b) + Len(o) /\ Len(b) \in Nat /\ Len(o) \in Nat
      /\ \A i \in 1 .. Len(b) : (b \o o)[i] = b[i]
  <2> HIDE DEF b, o
  <2> QED
    BY <1>1, Cat
<1>3. o # <<>> /\ late \subseteq Conn
  BY <1>0 DEF Handling, BytesTyped
<1>4. /\ details'[c].strBuffer = b \o o /\ details'[c].connect = details[c].connect
      /\ details'[c].to = details[c].to /\ details'[c].bConncted = details[c].bConncted
      /\ details'[c].bAnswerd = details[c].bAnswerd /\ details'[c] \in Details
  <2>1. details'[c] = [details[c] EXCEPT !.strBuffer = b \o o]
    BY <1>0 DEF BytesTyped
  <2> DEFINE D == details[c]
             t == b \o o
  <2>2. D \in Details /\ t \in Seq(Byte) /\ details'[c] = [D EXCEPT !.strBuffer = t]
    BY <1>1, <1>2, <2>1
  <2> HIDE DEF b, o, D, t
  <2>3. /\ details'[c].strBuffer = t /\ details'[c].connect = D.connect
        /\ details'[c].to = D.to /\ details'[c].bConncted = D.bConncted
        /\ details'[c].bAnswerd = D.bAnswerd /\ details'[c] \in Details
    <3>1. LET E == [D EXCEPT !.strBuffer = t] IN
          /\ E \in Details /\ E.strBuffer = t /\ E.connect = D.connect /\ E.to = D.to
          /\ E.bConncted = D.bConncted /\ E.bAnswerd = D.bAnswerd
      BY <2>2, DetailsWith
    <3> QED
      BY <2>2, <3>1
  <2> QED
    BY <2>3 DEF D, t
<1> HIDE DEF o
<1>5. Buffer(c)' = b \o o
  BY <1>4 DEF Buffer
<1>6. details' \in [Conn -> Details] /\ \A x \in Conn \ {c} : details'[x] = details[x]
  BY <1>0, <1>4 DEF BytesTyped
<1>7. BytesTyped'
  BY <1>0, <1>3, <1>6, HeldNothing DEF BytesTyped, Handling
<1>8. \A x \in Conn \ {c} : Unmoved(x) /\ Settling(x)
  BY <1>0, <1>6, HeldNothing DEF Unmoved, Settling, Handling
<1>9. Answered(c)' = Answered(c) /\ Connecting(c)' = Connecting(c)
  BY DEF Answered, Handling, Connecting, Current
<1>10. HostsRight(c)' /\ EndOnce(Answered(c))' /\ EndsGiven(Answered(c), replied[c])'
  BY <1>0, <1>9 DEF Served, HostsRight, Handling, EndOnce, EndsGiven
<1>11. Written(c)' = Written(c) /\ held'[c] = <<>>
  BY <1>0, HeldNothing
<1>12. c \in relay => /\ ~details[c].connect /\ details[c].bConncted /\ pClientSocket[c] # 0
                      /\ ~Connecting(c)
  <2>1. c \in relay /\ details[c].connect => held[c] = <<>>
    BY <1>0 DEF Kept, Relaying, ThroughTunnel
  <2> QED
    BY <1>0, <1>3, <2>1 DEF Kept, Relaying, o
<1>13. c \notin relay => Waiting(c) /\ Written(c) = <<>>
  <2>1. c \notin relay => Waiting(c)
    BY <1>0 DEF Kept
  <2>2. Waiting(c) => \A k \in Number : inbox[<<c, k>>] = <<>>
    BY DEF Waiting, NoneThere
  <2> QED
    BY <2>1, <2>2, NothingWritten, ProxyAssumption
<1>14. Accounted(c)'
  <2>1. SameBytes(Buffer(c)', b \o held[c])
    BY <1>5 DEF SameBytes, o
  <2>2. Written(c) = <<>> \/ (~details[c].connect /\ ~details'[c].connect)
    BY <1>4, <1>12, <1>13
  <2>3. InOrder(c) => InOrder(c)'
    BY <1>0, <1>11, <2>1, <2>2, InOrderMoved DEF Handling
  <2>4. Counted(c)'
    <3> DEFINE w == Len(Written(c))
               n == Len(b)
               m == Len(o)
    <3>1. nread[c] = w + n + m /\ nread[c] <= Len(sent[c]) /\ w \in Nat
      BY <1>0, Lengths, Typed DEF Kept, o
    <3>2. Len(Buffer(c)') = n + m /\ Len(Written(c)') = w /\ Len(held'[c]) = 0
      BY <1>2, <1>5, <1>11
    <3>3. n \in Nat /\ m \in Nat
      BY <1>2
    <3> HIDE DEF w, n, m
    <3>4. w + n + m = w + (n + m) + 0
      BY <3>1, <3>3
    <3> QED
      BY <3>1, <3>2, <3>4 DEF Counted, Handling
  <2>5. c \in late' => LeftOut(c)
    <3>1. c \in late => LeftOut(c)
      BY <1>0 DEF Kept, Accounted
    <3>2. c \notin late /\ details[c].bConncted => LeftOut(c)
      BY HeldMissing DEF Handling
    <3> QED
      BY <3>1, <3>2
  <2>6. LeftOut(c) => LeftOut(c)'
    BY <1>0, Typed, StaysLeftOut DEF Handling
  <2>7. c \notin late' => c \notin late
    OBVIOUS
  <2> QED
    BY <1>0, <2>3, <2>4, <2>5, <2>6, <2>7 DEF Kept, Accounted
<1>15. Numbers(c)'
  BY <1>0 DEF Kept, Numbers, Handling
<1>16. AnsweredWritten(c)'
  BY <1>0, <1>11 DEF Kept, AnsweredWritten, Handling, Tunnel, Body
<1>17. LateSettled(c)'
  <2>1. details[c].bConncted => pClientSocket[c] # 0 /\ ~Connecting(c)
    BY <1>12, <1>13 DEF Waiting, NoneThere
  <2>2. c \in late' => replied[c] = 0 /\ ~details[c].bAnswerd
    BY <1>0, HeldMissing DEF Kept, LateSettled, Handling
  <2> QED
    BY <1>0, <1>4, <1>9, <2>1, <2>2 DEF Kept, LateSettled, Handling
<1>18. ASSUME c \notin relay PROVE Waiting(c)'
  <2>0. NoneThere(c) /\ FirstKept(c) /\ FirstAsked(c)
    BY <1>13, <1>18 DEF Waiting
  <2>1. NoneThere(c)'
    BY <1>4, <1>9, <2>0 DEF NoneThere, Handling
  <2>2. FirstKept(c)'
    <3>1. ASSUME Buffer(c)' = <<>> \/ ~Buffer(c)'[1].bare
          PROVE  Buffer(c) = <<>> \/ ~Buffer(c)[1].bare
      <4>1. CASE b = <<>>
        BY <4>1
      <4>2. CASE b # <<>>
        <5>1. 1 \in 1 .. Len(b)
          BY <1>1, <4>2
        <5>2. Buffer(c)' # <<>> /\ Buffer(c)'[1] = b[1]
          <6>1. Len(b \o o) # 0
            BY <1>2, <5>1
          <6> QED
            BY <1>2, <1>5, <5>1, <6>1
        <5> QED
          BY <3>1, <5>2
      <4> QED
        BY <4>1, <4>2
    <3> QED
      BY <1>4, <2>0, <3>1 DEF FirstKept, Handling, Tunnel
  <2>3. FirstAsked(c)'
    <3>1. Len(b) >= 2 => Len(Buffer(c)') >= 2
      BY <1>2, <1>5
    <3>2. Current(c)' = Current(c)
      BY DEF Current
    <3> QED
      BY <1>4, <2>0, <3>1, <3>2 DEF FirstAsked, Handling, Tunnel
  <2> QED
    BY <2>1, <2>2, <2>3 DEF Waiting
<1>19. ASSUME c \in relay PROVE Relaying(c)'
  <2>0. Relaying(c) /\ Passing(c) /\ c \in late'
    BY <1>0, <1>12, <1>19 DEF Kept, Relaying
  <2>1. Current(c)' = Current(c) /\ (Tunnel(c)' <=> Tunnel(c))
    BY DEF Current, Handling, Tunnel
  <2>2. BeforeAnswer(c) => BeforeAnswer(c)'
    BY <1>4, <1>9, <2>0, <2>1 DEF BeforeAnswer, Handling
  <2>3. KeptBack(c)'
    BY <1>9, <1>12, <1>19, <2>0 DEF KeptBack
  <2>4. Passing(c)'
    BY <1>4, <2>0, <2>1, <2>2, <2>3 DEF Passing, Handling
  <2> QED
    BY <1>4, <1>9, <1>11, <1>12, <1>19, <2>0, <2>1, <2>4 DEF Relaying, Handling
<1>20. Kept(c)'
  BY <1>14, <1>15, <1>16, <1>17, <1>18, <1>19 DEF Kept, Handling
<1> QED
  BY <1>7, <1>8, <1>10, <1>20, HandlingServed

\* The next socket has the next number, and nothing was written to it.
LEMMA NewNumber ==
  ASSUME TypeOK, NEW c \in Conn, Numbers(c), pClientSocket[c] # 0 \/ c \notin relay,
         NEW n \in 1 .. MaxDest, dst[<<c, n>>] = "none",
         \A k \in 1 .. n - 1 : dst[<<c, k>>] # "none"
  PROVE  /\ n = pClientSocket[c] + 1 /\ n \in Number /\ n # 0 /\ n # pClientSocket[c]
         /\ inbox[<<c, n>>] = <<>> /\ <<c, n>> \in Dest
<1> DEFINE p == pClientSocket[c]
<1>1. p \in Nat /\ MaxDest \in Nat /\ n \in Nat /\ n >= 1 /\ n <= MaxDest /\ n \in Number
  BY ProxyAssumption DEF TypeOK, Number
<1>2. /\ \A k \in Number : k > p => dst[<<c, k>>] = "none" /\ inbox[<<c, k>>] = <<>>
      /\ \A k \in Number : k <= p => dst[<<c, k>>] # "none"
  BY DEF Numbers
<1>4. <<c, n>> \in Dest
  BY DEF Dest
<1> HIDE DEF p
<1>3. n > p
  BY <1>1, <1>2
<1>5. ASSUME n # p + 1 PROVE FALSE
  <2>1. p + 1 \in 1 .. n - 1 /\ p + 1 \in Number /\ p + 1 > p
    BY <1>1, <1>3, <1>5 DEF Number
  <2> QED
    BY <1>2, <2>1
<1> QED
  BY <1>1, <1>2, <1>3, <1>4, <1>5 DEF p

\* BadGateway is no answer's end.
LEMMA ToldAnswers ==
  ASSUME TypeOK, BytesTyped, NEW c \in Conn, Served(c), NEW told \in {BadGateway, Established},
         got'[c] = got[c] \/ got'[c] = got[c] \o <<told>>,
         replied'[c] = replied[c],
         \A k \in Number : back'[<<c, k>>] = back[<<c, k>>] /\ dheld'[<<c, k>>] = dheld[<<c, k>>]
  PROVE  EndOnce(Answered(c))' /\ EndsGiven(Answered(c), replied[c])'
<1> DEFINE F == Answered(c)
           G == Answered(c)'
           z == <<0, 0>>
<1>1. /\ F[z] = got[c] /\ G[z] = got'[c] /\ z \in Places
      /\ \A x \in Places : x # z => G[x] = F[x]
  <2>1. \A x \in Places : x[1] # 0 => x[2] \in Number
    BY DEF Places
  <2>2. \A x \in Places : x # z => x[1] # 0
    BY DEF Places
  <2> QED
    BY <2>1, <2>2 DEF Answered, Places
<1>2. EndOnce(F) /\ EndsGiven(F, replied[c])
  BY DEF Served
<1>3. ASSUME NEW i \in Ends(got'[c])
      PROVE  i \in Ends(got[c]) /\ got'[c][i].req = got[c][i].req
  <2>1. got[c] \in Seq(Part) /\ told \in Part /\ told.part # 2
    <3>1. told \in Part
      BY AnswersTyped
    <3>2. BadGateway.part # 2 /\ Established.part # 2
      BY DEF BadGateway, Established
    <3>3. told.part # 2
      BY <3>2
    <3> QED
      BY <3>1, <3>3 DEF TypeOK
  <2> DEFINE s == got[c]
             u == <<told>>
  <2>2. s \in Seq(Part) /\ u \in Seq(Part) /\ Len(u) = 1 /\ u[1].part # 2
    BY <2>1
  <2> HIDE DEF s, u
  <2>3. CASE got'[c] = s
    BY <2>3 DEF s
  <2>4. CASE got'[c] = s \o u
    <3>1. i \in 1 .. Len(s \o u) /\ (s \o u)[i].part = 2
      BY <2>4 DEF Ends
    <3>2. /\ Len(s \o u) = Len(s) + 1 /\ Len(s) \in Nat
          /\ \A j \in 1 .. Len(s) : (s \o u)[j] = s[j]
          /\ (s \o u)[Len(s) + 1] = u[1]
      <4>1. /\ Len(s \o u) = Len(s) + Len(u) /\ Len(s) \in Nat
            /\ \A j \in 1 .. Len(s) : (s \o u)[j] = s[j]
            /\ \A j \in 1 .. Len(u) : (s \o u)[Len(s) + j] = u[j]
        BY <2>2, Cat
      <4> QED
        BY <2>2, <4>1
    <3>3. i \in 1 .. Len(s)
      BY <2>2, <3>1, <3>2
    <3> QED
      BY <2>4, <3>1, <3>2, <3>3 DEF Ends, s
  <2> QED
    BY <2>3, <2>4 DEF s, u
<1>4. \A x \in Places : \A i \in Ends(G[x]) : i \in Ends(F[x]) /\ G[x][i].req = F[x][i].req
  <2> HIDE DEF F, G, z
  <2> QED
    BY <1>1, <1>3
<1> HIDE DEF F, G
<1>5. EndOnce(G) /\ EndsGiven(G, replied[c])
  BY <1>2, <1>4, AnswersKept
<1> QED
  BY <1>5 DEF G, EndOnce, EndsGiven

\* A 502 adds no answer.
LEMMA RefusedAnswers ==
  ASSUME TypeOK, BytesTyped, NEW c \in Conn, Served(c), got'[c] = got[c] \/ got'[c] = got[c] \o <<BadGateway>>,
         replied'[c] = replied[c],
         \A k \in Number : back'[<<c, k>>] = back[<<c, k>>] /\ dheld'[<<c, k>>] = dheld[<<c, k>>]
  PROVE  EndOnce(Answered(c))' /\ EndsGiven(Answered(c), replied[c])'
<1>1. BadGateway \in {BadGateway, Established}
  OBVIOUS
<1> QED
  BY <1>1, ToldAnswers

\* The line loses its host, and nothing else changes.
LEMMA BareSame ==
  ASSUME NEW buf \in Seq(Byte), Len(buf) >= 2
  PROVE  /\ Bare(buf) \in Seq(Byte) /\ SameBytes(Bare(buf), buf) /\ SameBytes(buf, buf)
         /\ Bare(buf)[1].bare /\ Len(Bare(buf)) >= 2
<1>1. 1 \in DOMAIN buf /\ DOMAIN buf = 1 .. Len(buf) /\ \A i \in 1 .. Len(buf) : buf[i] \in Byte
  OBVIOUS
<1> DEFINE x == [buf[1] EXCEPT !.bare = TRUE]
<1>2. x \in Byte /\ x.req = buf[1].req /\ x.part = buf[1].part /\ x.bare
  BY <1>1 DEF Byte
<1>3. Bare(buf) = [buf EXCEPT ![1] = x]
  BY DEF Bare
<1> HIDE DEF x
<1>4. [buf EXCEPT ![1] = x] \in Seq(Byte) /\ Len([buf EXCEPT ![1] = x]) = Len(buf)
  BY <1>1, <1>2
<1>5. /\ [buf EXCEPT ![1] = x][1] = x
      /\ \A i \in 1 .. Len(buf) : i # 1 => [buf EXCEPT ![1] = x][i] = buf[i]
  BY <1>1
<1>6. SameBytes(buf, buf)
  BY DEF SameBytes
<1>7. SameBytes(Bare(buf), buf)
  BY <1>2, <1>3, <1>4, <1>5 DEF SameBytes
<1> QED
  BY <1>2, <1>3, <1>4, <1>5, <1>6, <1>7

\* What is known of the first header that is complete.
FirstHeader(c, buf, line, h) ==
  /\ buf \in Seq(Byte) /\ line \in Seq(Byte) /\ Len(buf) >= 2 /\ Len(line) >= 2
  /\ SameBytes(line, buf) /\ (~Tunnel(c) => line[1].bare) /\ asked[c] # <<>> /\ buf[1].req = 1
  /\ h \in Host \cup {NoHost} /\ NameOf(h) \in Names
  /\ h # NoHost => ~buf[1].bare /\ h = asked[c][1].host /\ NameOf(h) = Name[h]
  /\ ~buf[1].bare => Buffer(c) = <<>> \/ ~Buffer(c)[1].bare
  /\ asked[c][1].connect \in BOOLEAN

\* The first header that is complete is the first request's, all of it.
LEMMA HeaderFirst ==
  ASSUME ProxyInv, KeptInv, NEW c \in m_vConnections, pClientSocket[c] = 0, Handling(c), Waiting(c),
         NEW buf, buf = Buffer(c) \o held[c], HeaderEnds(buf) # {}
  PROVE  /\ FirstHeader(c, buf, IF asked[c][buf[1].req].connect THEN buf ELSE Bare(buf), HostOf(c, buf))
         /\ asked[c][buf[1].req].connect = Tunnel(c)
<1> DEFINE b == Buffer(c)
           o == held[c]
           s == sent[c]
           a == asked[c]
<1>0. TypeOK /\ BytesTyped /\ c \in Conn /\ Served(c) /\ Kept(c)
  BY DEF ProxyInv, KeptInv, Served, TypeOK
<1>1. /\ b \in Seq(Byte) /\ o \in Seq(Byte) /\ s \in Seq(Byte) /\ a \in Seq(Request)
  BY <1>0, Typed
<1>2. Follows(buf, s, 0) /\ Len(buf) <= Len(s)
  <2> DEFINE w == Len(Written(c))
             n == Len(b)
             S == Len(s)
             N == nread[c]
  <2>1. w = 0
    <3>1. Written(c) = <<>>
      BY <1>0, NothingWritten, ProxyAssumption DEF Waiting, NoneThere
    <3> QED
      BY <3>1
  <2>2. /\ N <= S /\ N = w + n + Len(o) /\ Follows(b, s, IF details[c].connect THEN 0 ELSE w)
        /\ Follows(o, s, w + n)
    <3>1. c \notin late
      BY <1>0 DEF Kept, LateSettled
    <3> QED
      BY <1>0, <3>1 DEF Kept, Accounted, InOrder
  <2>3. n \in Nat /\ S \in Nat /\ N \in Nat /\ Len(o) \in Nat
    BY <1>0, Typed
  <2>4. Len(b \o o) = Len(b) + Len(o) /\ n = Len(b)
    BY <1>1
  <2> HIDE DEF w, n, S, N
  <2>5. Follows(b, s, 0) /\ Follows(o, s, 0 + n) /\ Len(b \o o) = n + Len(o) /\ N = n + Len(o)
    BY <2>1, <2>2, <2>3, <2>4
  <2> HIDE DEF b, o, s
  <2>6. Follows(b \o o, s, 0)
    <3>1. /\ b \in Seq(Byte) /\ o \in Seq(Byte) /\ 0 \in Nat
          /\ Follows(b, s, 0) /\ Follows(o, s, 0 + Len(b))
      BY <1>1, <2>4, <2>5
    <3> HIDE DEF a
    <3> QED
      BY <3>1, FollowsJoin, ZenonT(40)
  <2> QED
    BY <2>2, <2>5, <2>6 DEF b, o, S, s
<1>3. buf \in Seq(Byte) /\ Len(buf) = Len(b) + Len(o)
  <2> HIDE DEF b, o
  <2>1. buf = b \o o
    BY DEF b, o
  <2> QED
    BY <1>1, <2>1, Cat
<1>4. PICK i \in 1 .. Len(buf) : buf[i].part = 2
  BY <1>3 DEF HeaderEnds
<1>5. s[1].req = 1 /\ s[1].part = 1 /\ a # <<>>
  <2>1. SentFor(s, a) /\ Len(s) # 0
    <3>1. SentFor(s, a) /\ Len(s) \in Nat /\ Len(buf) \in Nat
      BY <1>0, <1>1, <1>3 DEF Served
    <3> QED
      BY <1>2, <1>4, <3>1
  <2> HIDE DEF s, a
  <2> QED
    BY <1>1, <2>1, FirstByte
<1>6. buf[1].req = 1 /\ buf[1].part = 1
  <2>1. 1 \in 1 .. Len(buf)
    BY <1>3, <1>4
  <2>2. buf[1].req = s[0 + 1].req /\ buf[1].part = s[0 + 1].part
    BY <1>2, <2>1 DEF Follows
  <2> QED
    BY <1>5, <2>2
<1>7. Len(buf) >= 2
  <2>1. i # 1 /\ Len(buf) \in Nat
    BY <1>3, <1>4, <1>6
  <2> QED
    BY <2>1
<1>8. a[1] \in Request /\ a[1].connect \in BOOLEAN /\ a[1].host \in Host
  <2>1. a[1] \in Request
    BY <1>1, <1>5
  <2> QED
    BY <2>1 DEF Request
<1>9. HostOf(c, buf) = IF buf[1].bare THEN NoHost ELSE a[1].host
  BY <1>6 DEF HostOf
<1>10. /\ HostOf(c, buf) \in Host \cup {NoHost} /\ NameOf(HostOf(c, buf)) \in Names
       /\ HostOf(c, buf) # NoHost =>
            ~buf[1].bare /\ HostOf(c, buf) = a[1].host /\ NameOf(HostOf(c, buf)) = Name[HostOf(c, buf)]
  BY <1>8, <1>9, ProxyAssumption DEF NameOf, Names
<1>11. ~buf[1].bare => b = <<>> \/ ~b[1].bare
  <2>1. CASE b # <<>>
    <3>1. 1 \in 1 .. Len(b)
      BY <1>1, <2>1
    <3> HIDE DEF b, o
    <3>2. buf = b \o o
      BY DEF b, o
    <3>3. buf[1] = b[1]
      BY <1>1, <3>1, <3>2, Cat
    <3> QED
      BY <3>3
  <2> QED
    BY <2>1
<1>12. asked[c][buf[1].req].connect = Tunnel(c)
  BY <1>5, <1>6, <1>8 DEF Tunnel
<1>13. LET line == IF asked[c][buf[1].req].connect THEN buf ELSE Bare(buf) IN
       line \in Seq(Byte) /\ Len(line) >= 2 /\ SameBytes(line, buf) /\ (~Tunnel(c) => line[1].bare)
  BY <1>3, <1>7, <1>12, BareSame
<1> HIDE DEF b, s, a
<1> QED
  BY <1>3, <1>5, <1>6, <1>7, <1>8, <1>10, <1>11, <1>12, <1>13 DEF FirstHeader, b, a

\* The first destination is connected to.

\* What was told of a connect that fails at once.
LEMMA RefusedTold ==
  ASSUME TypeOK, NEW c \in Conn, got' = Refused(c)
  PROVE  /\ \A x \in Conn \ {c} : got'[x] = got[x]
         /\ got'[c] = got[c] \/ got'[c] = got[c] \o <<BadGateway>>
         /\ sock[c] # "open" => got'[c] = got[c]
BY DEF Refused, Told, TypeOK

\* Who was told of failures only still is.
LEMMA OnlyBad ==
  ASSUME NEW s \in Seq(Part), \A i \in 1 .. Len(s) : s[i] = BadGateway,
         NEW t, t = s \/ t = s \o <<BadGateway>>
  PROVE  \A i \in 1 .. Len(t) : t[i] = BadGateway
<1>1. <<BadGateway>> \in Seq(Part) /\ Len(<<BadGateway>>) = 1 /\ <<BadGateway>>[1] = BadGateway
  BY AnswersTyped
<1> DEFINE u == <<BadGateway>>
<1> HIDE DEF u
<1>2. CASE t = s \o u
  <2>1. s \in Seq(Part) /\ u \in Seq(Part)
    BY <1>1 DEF u
  <2>2. /\ Len(s \o u) = Len(s) + Len(u) /\ Len(s) \in Nat
        /\ \A i \in 1 .. Len(s) : (s \o u)[i] = s[i]
        /\ \A i \in 1 .. Len(u) : (s \o u)[Len(s) + i] = u[i]
    BY <2>1, Cat
  <2>3. Len(u) = 1 /\ u[1] = BadGateway
    BY <1>1 DEF u
  <2>4. (s \o u)[Len(s) + 1] = BadGateway /\ Len(s \o u) = Len(s) + 1
    BY <2>2, <2>3
  <2> QED
    BY <1>2, <2>2, <2>4
<1> QED
  BY <1>2 DEF u

\* The first destination is connected to.
LEMMA HandleFirstKept ==
  ASSUME ProxyInv, KeptInv, NEW c \in m_vConnections, Handling(c), pClientSocket[c] = 0,
         NEW buf, buf = Buffer(c) \o held[c], NEW line, NEW h, NEW x,
         FirstHeader(c, buf, line, h), x = Tunnel(c), x \in BOOLEAN, Waiting(c),
         details' = [details EXCEPT ![c] = [[details[c] EXCEPT !.strBuffer = buf]
                                              EXCEPT !.strBuffer = line, !.connect = x, !.to = NameOf(h)]],
         NEW fails \in BOOLEAN, ConnectTo(c, h, dst, fails), UNCHANGED late
  PROVE  KeptInv'
<1>0. TypeOK /\ BytesTyped /\ c \in Conn /\ Served(c) /\ Kept(c) /\ c \notin relay
  <2>1. TypeOK /\ BytesTyped /\ c \in Conn /\ Served(c) /\ Kept(c)
    BY DEF ProxyInv, KeptInv, Served, TypeOK
  <2> QED
    BY <2>1 DEF Waiting, NoneThere, Kept, Relaying, Handling
<1>1. /\ details'[c] \in Details /\ details'[c].strBuffer = line /\ details'[c].connect = Tunnel(c)
      /\ details'[c].to = NameOf(h) /\ details'[c].bConncted = details[c].bConncted
      /\ details'[c].bAnswerd = details[c].bAnswerd
  <2> DEFINE D == details[c]
             m == NameOf(h)
  <2>1. /\ D \in Details /\ buf \in Seq(Byte) /\ line \in Seq(Byte) /\ m \in Names /\ x \in BOOLEAN
        /\ details'[c] = [[D EXCEPT !.strBuffer = buf]
                             EXCEPT !.strBuffer = line, !.connect = x, !.to = m]
    BY <1>0, Typed DEF BytesTyped, FirstHeader
  <2> HIDE DEF D, m
  <2>2. LET E == [[D EXCEPT !.strBuffer = buf] EXCEPT !.strBuffer = line, !.connect = x, !.to = m] IN
        /\ E \in Details /\ E.strBuffer = line /\ E.connect = x /\ E.to = m
        /\ E.bConncted = D.bConncted /\ E.bAnswerd = D.bAnswerd
    BY <2>1 DEF Details
  <2>3. /\ details'[c] \in Details /\ details'[c].strBuffer = line /\ details'[c].connect = x
        /\ details'[c].to = m /\ details'[c].bConncted = D.bConncted
        /\ details'[c].bAnswerd = D.bAnswerd
    BY <2>1, <2>2
  <2> QED
    BY <2>3 DEF D, m
<1>2. details' \in [Conn -> Details] /\ \A y \in Conn \ {c} : details'[y] = details[y]
  <2>1. details \in [Conn -> Details]
    BY <1>0 DEF BytesTyped
  <2> QED
    BY <1>1, <2>1
<1>3. /\ held'[c] = <<>> /\ held' \in [Conn -> Seq(Byte)] /\ Written(c)' = Written(c)
      /\ \A y \in Conn \ {c} : held'[y] = held[y]
  BY <1>0, HeldNothing
<1>4. NoneThere(c) /\ FirstKept(c) /\ ~details[c].bConncted /\ c \notin late
      /\ \A k \in Number : inbox[<<c, k>>] = <<>>
  BY <1>0 DEF Waiting, NoneThere, Kept, LateSettled
<1>5. Accounted(c)'
  <2>1. Written(c) = <<>>
    BY <1>0, <1>4, NothingWritten, ProxyAssumption
  <2>2. SameBytes(Buffer(c)', Buffer(c) \o held[c])
    BY <1>1 DEF FirstHeader, Buffer
  <2>3. InOrder(c) /\ c \notin late'
    BY <1>0, <1>4 DEF Kept, Accounted
  <2>4. InOrder(c)'
    BY <1>0, <1>3, <2>1, <2>2, <2>3, InOrderMoved DEF Handling
  <2> QED
    BY <2>3, <2>4 DEF Accounted
<1>6. replied[c] = 0 /\ replied'[c] = 0 /\ details'[c].bConncted = FALSE /\ details'[c].bAnswerd = FALSE
  BY <1>1, <1>4 DEF NoneThere, Handling
<1>7. AnsweredWritten(c)' /\ LateSettled(c)'
  BY <1>4, <1>6 DEF AnsweredWritten, LateSettled
\* FirstKept, whatever the client was told
<1>8. Tunnel(c)' = Tunnel(c) /\ Buffer(c)' = line /\ line # <<>>
  <2>1. line # <<>>
    BY DEF FirstHeader
  <2> QED
    BY <1>1, <2>1 DEF Tunnel, Handling, Buffer
<1>9. Tunnel(c) => Len(asked[c]) <= 1
  <2> SUFFICES ASSUME Tunnel(c) PROVE Len(asked[c]) <= 1
    OBVIOUS
  <2> DEFINE n == BodyLen(sent[c], asked[c])
             l == Len(asked[c])
  <2>1. Len(sent[c]) = 2 /\ n \in Nat /\ l \in Nat /\ n = Len(sent[c]) - 2 * l
    BY <1>0, <1>4, Typed DEF Served, FirstKept, SentFor, BodyLen
  <2> HIDE DEF n, l
  <2>2. l <= 1
    BY <2>1
  <2> QED
    BY <2>2 DEF l
<1>10. FirstKept(c)'
  <2>1. ~Tunnel(c) => line[1].bare
    BY DEF FirstHeader
  <2> QED
    BY <1>1, <1>4, <1>8, <1>9, <2>1 DEF FirstKept, Handling
<1>11. CASE fails
  <2>1. /\ pClientSocket' = [pClientSocket EXCEPT ![c] = 0] /\ dst' = dst /\ host' = host
        /\ got' = Refused(c)
    BY <1>11 DEF ConnectTo
  <2>2. pClientSocket' = pClientSocket
    BY <1>0, <2>1 DEF TypeOK
  <2>3. /\ \A y \in Conn \ {c} : got'[y] = got[y]
        /\ got'[c] = got[c] \/ got'[c] = got[c] \o <<BadGateway>>
    BY <1>0, <2>1, RefusedTold
  <2>4. BytesTyped'
    BY <1>0, <1>2, <1>3, <2>1 DEF BytesTyped, Handling
  <2>5. \A y \in Conn \ {c} : Unmoved(y) /\ Settling(y)
    BY <1>2, <1>3, <2>1, <2>2, <2>3 DEF Unmoved, Settling, Handling
  <2>6. HostsRight(c)' /\ EndOnce(Answered(c))' /\ EndsGiven(Answered(c), replied[c])'
    <3>1. HostsRight(c)'
      BY <1>0, <2>1 DEF Served, HostsRight, Handling
    <3> QED
      BY <1>0, <2>3, <3>1, RefusedAnswers DEF Handling
  <2>7. Numbers(c)'
    BY <1>0, <2>1, <2>2 DEF Kept, Numbers, Handling
  <2>8. Waiting(c)'
    <3>1. \A i \in 1 .. Len(got'[c]) : got'[c][i] = BadGateway
      <4>1. got[c] \in Seq(Part) /\ \A i \in 1 .. Len(got[c]) : got[c][i] = BadGateway
        BY <1>0, <1>4 DEF TypeOK, NoneThere
      <4> QED
        BY <2>3, <4>1, OnlyBad
    <3>2. NoneThere(c)'
      BY <1>4, <1>6, <2>1, <3>1 DEF NoneThere, Handling
    <3>3. FirstAsked(c)'
      BY <2>2 DEF FirstAsked
    <3> QED
      BY <1>10, <3>2, <3>3 DEF Waiting
  <2>9. Kept(c)'
    BY <1>0, <1>5, <1>7, <2>7, <2>8 DEF Kept, Handling
  <2> QED
    BY <1>0, <2>4, <2>5, <2>6, <2>9, HandlingServed
<1>12. CASE ~fails
  <2>1. PICK n \in 1 .. MaxDest :
          /\ dst[<<c, n>>] = "none" /\ \A k \in 1 .. n - 1 : dst[<<c, k>>] # "none"
          /\ pClientSocket' = [pClientSocket EXCEPT ![c] = n]
          /\ dst' = [dst EXCEPT ![<<c, n>>] = "connecting"]
          /\ host' = [host EXCEPT ![<<c, n>>] = h]
          /\ got' = got
    BY <1>12 DEF ConnectTo
  <2>2. n = 1 /\ n \in Number /\ <<c, n>> \in Dest
    <3>1. n = pClientSocket[c] + 1 /\ n \in Number /\ <<c, n>> \in Dest
      BY <1>0, <2>1, NewNumber DEF Kept
    <3> QED
      BY <3>1
  <2>3. /\ pClientSocket'[c] = 1 /\ Current(c)' = <<c, 1>> /\ dst'[<<c, 1>>] = "connecting"
        /\ host'[<<c, 1>>] = h /\ host' \in [Dest -> Host \cup {NoHost}]
        /\ \A k \in Number : k # 1 => dst'[<<c, k>>] = dst[<<c, k>>]
        /\ \A y \in Conn \ {c} : pClientSocket'[y] = pClientSocket[y]
        /\ \A y \in Conn \ {c}, k \in Number : dst'[<<y, k>>] = dst[<<y, k>>]
                                               /\ host'[<<y, k>>] = host[<<y, k>>]
    <3>1. h \in Host \cup {NoHost}
      BY DEF FirstHeader
    <3>2. \A y \in Conn, k \in Number : <<y, k>> \in Dest
      BY DEF Dest, Number
    <3>3. pClientSocket'[c] = 1 /\ dst'[<<c, 1>>] = "connecting" /\ host'[<<c, 1>>] = h
      BY <1>0, <2>1, <2>2 DEF TypeOK, BytesTyped
    <3> QED
      BY <1>0, <2>1, <2>2, <3>1, <3>2, <3>3 DEF TypeOK, BytesTyped, Current
  <2>4. BytesTyped'
    BY <1>0, <1>2, <1>3, <2>3 DEF BytesTyped, Handling
  <2>5. \A y \in Conn \ {c} : Unmoved(y) /\ Settling(y)
    BY <1>2, <1>3, <2>1, <2>3 DEF Unmoved, Settling, Handling
  <2>6. HostsRight(c)' /\ EndOnce(Answered(c))' /\ EndsGiven(Answered(c), replied[c])'
    <3>1. HostsRight(c)'
      BY <1>4 DEF HostsRight, Handling
    <3>2. got'[c] = got[c]
      BY <2>1
    <3> QED
      BY <1>0, <3>1, <3>2, RefusedAnswers DEF Handling
  <2>7. Numbers(c)'
    <3>1. \A k \in Number : k # 1 => k > 1 /\ dst[<<c, k>>] = "none" /\ inbox[<<c, k>>] = <<>>
      <4>1. \A k \in Number : k \in Nat /\ k > 0
        BY ProxyAssumption DEF Number
      <4> QED
        BY <1>0, <4>1 DEF Kept, Numbers
    <3>2. \A k \in Number : k <= 1 => k = 1
      BY <3>1 DEF Number
    <3>3. \A k \in Number : k > 1 => k # 1
      OBVIOUS
    <3>4. /\ \A k \in Number : k > 1 => dst'[<<c, k>>] = "none" /\ inbox'[<<c, k>>] = <<>>
          /\ \A k \in Number : k <= 1 => dst'[<<c, k>>] # "none"
          /\ \A k \in Number : k # 1 => dst'[<<c, k>>] = "none"
      BY <2>3, <3>1, <3>2, <3>3 DEF Handling
    <3> QED
      BY <2>3, <3>4 DEF Numbers
  <2>8. Waiting(c)'
    <3>1. NoneThere(c)'
      BY <1>4, <1>6, <2>1, <2>3 DEF NoneThere, Handling
    <3>2. FirstAsked(c)'
      <4>1. Len(Buffer(c)') >= 2 /\ (details'[c].connect <=> Tunnel(c)')
        BY <1>1, <1>8 DEF FirstHeader
      <4>2. ASSUME h # NoHost
            PROVE  /\ Len(asked'[c]) = 1 /\ h = asked'[c][1].host
                   /\ details'[c].to = Name[h]
                   /\ sock'[c] = "open" => got'[c] = <<>> \/ Tunnel(c)'
        <5>1. /\ h = asked[c][1].host /\ NameOf(h) = Name[h] /\ asked[c] # <<>>
              /\ Buffer(c) = <<>> \/ ~Buffer(c)[1].bare
          BY <4>2 DEF FirstHeader
        <5>2. Len(asked[c]) = 1
          <6>1. Len(asked[c]) <= 1 /\ asked[c] \in Seq(Request)
            BY <1>0, <1>4, <5>1, Typed DEF FirstKept
          <6> DEFINE l == Len(asked[c])
          <6>2. l \in Nat /\ l # 0 /\ l <= 1
            BY <5>1, <6>1
          <6> HIDE DEF l
          <6>3. l = 1
            BY <6>2
          <6> QED
            BY <6>3 DEF l
        <5> QED
          BY <1>1, <1>4, <1>8, <2>1, <5>1, <5>2 DEF FirstKept, Handling
      <4> QED
        BY <2>3, <4>1, <4>2 DEF FirstAsked
    <3> QED
      BY <1>10, <3>1, <3>2 DEF Waiting
  <2>9. Kept(c)'
    BY <1>0, <1>5, <1>7, <2>7, <2>8 DEF Kept, Handling
  <2> QED
    BY <1>0, <2>4, <2>5, <2>6, <2>9, HandlingServed
<1> QED
  BY <1>11, <1>12

\* OnDataReceived, with the mutex, in all its branches.
LEMMA HandleDataKept ==
  ASSUME ProxyInv, KeptInv, NEW c \in Conn, HandleData(c)
  PROVE  KeptInv'
<1> DEFINE buf == details[c].strBuffer \o held[c]
           det == [details[c] EXCEPT !.strBuffer = buf]
           h == HostOf(c, buf)
           connect == asked[c][buf[1].req].connect
           line == IF connect THEN buf ELSE Bare(buf)
<1>0. Handling(c)
  BY DEF HandleData, Handling, lists, ends
<1>1. CASE c \notin m_vConnections
  <2>1. UNCHANGED <<lists, dst, host, got, late>>
    BY <1>1 DEF HandleData
  <2> QED
    BY <1>0, <1>1, <2>1, HandleGoneKept
<1>2. CASE c \in m_vConnections /\ (pClientSocket[c] # 0 \/ HeaderEnds(buf) = {})
  <2>1. /\ details' = [details EXCEPT ![c] = det]
        /\ late' = (IF det.bConncted THEN late \cup {c} ELSE late)
        /\ UNCHANGED <<m_vReferencList, pClientSocket, dst, host, got>>
    BY <1>2 DEF HandleData
  <2>2. det.bConncted = details[c].bConncted /\ buf = Buffer(c) \o held[c]
    <3>1. details[c] \in Details
      BY DEF KeptInv, BytesTyped
    <3> QED
      BY <3>1 DEF Details, Buffer
  <2> HIDE DEF buf
  <2>3. /\ details' = [details EXCEPT ![c] = [@ EXCEPT !.strBuffer = Buffer(c) \o held[c]]]
        /\ late' = IF details[c].bConncted THEN late \cup {c} ELSE late
    BY <2>1, <2>2
  <2> QED
    BY <1>0, <1>2, <2>1, <2>3, HandleMoreKept
<1>3. CASE c \in m_vConnections /\ pClientSocket[c] = 0 /\ HeaderEnds(buf) # {}
  <2>1. PICK fails \in MayFail("first") :
          /\ details' = [details EXCEPT ![c] = [det EXCEPT !.strBuffer = line,
                                                  !.connect = connect, !.to = NameOf(h)]]
          /\ ConnectTo(c, h, dst, fails) /\ UNCHANGED late
    BY <1>3 DEF HandleData
  <2>2. fails \in BOOLEAN
    BY DEF MayFail
  <2>3. buf = Buffer(c) \o held[c]
    BY DEF Buffer
  <2>4. Waiting(c)
    <3>1. Kept(c)
      BY <1>3 DEF KeptInv, Served
    <3>2. c \notin relay
      BY <1>0, <1>3, <3>1 DEF Kept, Relaying, Handling
    <3> QED
      BY <3>1, <3>2 DEF Kept
  <2>5. FirstHeader(c, buf, line, h) /\ connect = Tunnel(c)
    <3> HIDE DEF buf
    <3> QED
      BY <1>0, <1>3, <2>3, <2>4, HeaderFirst
  <2>6. connect \in BOOLEAN
    BY <2>5 DEF Tunnel, FirstHeader
  <2> HIDE DEF buf, line, h, connect
  <2> QED
    BY <1>0, <1>3, <2>1, <2>2, <2>3, <2>4, <2>5, <2>6, HandleFirstKept, ZenonT(40)
<1> QED
  BY <1>1, <1>2, <1>3

-----------------------------------------------------------------------------
(* OnDataRecievedClient: what is written *)

\* What is written now is the last that was written.
LEMMA WriteWritten ==
  ASSUME TypeOK, BytesTyped, NEW c \in Conn, Numbers(c), pClientSocket[c] # 0,
         NEW u \in Seq(Byte), inbox' = Write(Current(c), u)
  PROVE  /\ Written(c)' = Written(c) \o u /\ inbox' \in [Dest -> Seq(Byte)]
         /\ inbox'[Current(c)] = inbox[Current(c)] \o u
         /\ \A k \in Number : k # pClientSocket[c] => inbox'[<<c, k>>] = inbox[<<c, k>>]
         /\ \A x \in Conn \ {c}, k \in Number : inbox'[<<x, k>>] = inbox[<<x, k>>]
<1> DEFINE p == pClientSocket[c]
           F == Inboxes(c)
           G == [F EXCEPT ![p] = @ \o u]
<1>1. p \in Number /\ Current(c) = <<c, p>> /\ Current(c) \in Dest /\ MaxDest \in Nat \ {0} /\ p \in Nat
  BY CurrentNumber
<1>2. F \in [1 .. MaxDest -> Seq(Byte)] /\ \A k \in Number : F[k] = inbox[<<c, k>>]
  BY WrittenTyped DEF Number, Inboxes
<1>3. inbox' = [inbox EXCEPT ![Current(c)] = @ \o u]
  BY DEF Write
<1>4. inbox[Current(c)] \in Seq(Byte)
  BY <1>1 DEF BytesTyped
<1>5. inbox[Current(c)] \o u \in Seq(Byte)
  <2> DEFINE s == inbox[Current(c)]
  <2>1. s \in Seq(Byte)
    BY <1>4
  <2> HIDE DEF s
  <2>2. s \o u \in Seq(Byte)
    BY <2>1
  <2> QED
    BY <2>2 DEF s
<1>6. inbox' \in [Dest -> Seq(Byte)] /\ inbox'[Current(c)] = inbox[Current(c)] \o u
      /\ \A d \in Dest : d # Current(c) => inbox'[d] = inbox[d]
  BY <1>1, <1>3, <1>5 DEF BytesTyped
<1>7. \A x \in Conn, k \in Number : <<x, k>> \in Dest
  BY DEF Dest, Number
<1>8. /\ \A k \in Number : k # p => inbox'[<<c, k>>] = inbox[<<c, k>>]
      /\ \A x \in Conn \ {c}, k \in Number : inbox'[<<x, k>>] = inbox[<<x, k>>]
  <2> HIDE DEF p
  <2>1. \A k \in Number : k # p => <<c, k>> # Current(c)
    BY <1>1
  <2>2. \A x \in Conn \ {c}, k \in Number : <<x, k>> # Current(c)
    BY <1>1
  <2> QED
    BY <1>6, <1>7, <2>1, <2>2
<1>9. \A i \in p + 1 .. MaxDest : F[i] = <<>>
  <2>1. \A i \in p + 1 .. MaxDest : i \in Number /\ i > p
    BY <1>1 DEF Number
  <2> QED
    BY <1>2, <2>1 DEF Numbers
<1>10. [k \in 1 .. MaxDest |-> inbox'[<<c, k>>]] = G
  <2>1. G = [k \in 1 .. MaxDest |-> IF k = p THEN F[k] \o u ELSE F[k]]
    BY <1>2
  <2>2. \A k \in 1 .. MaxDest : inbox'[<<c, k>>] = IF k = p THEN F[k] \o u ELSE F[k]
    BY <1>1, <1>2, <1>6, <1>8 DEF Number
  <2> HIDE DEF F, G
  <2> QED
    BY <2>1, <2>2
<1>11. FlattenSeq(G) = FlattenSeq(F) \o u
  <2> HIDE DEF F, p
  <2>1. p \in 1 .. MaxDest
    BY <1>1 DEF Number
  <2> QED
    <3>1. /\ MaxDest \in Nat \ {0} /\ F \in [1 .. MaxDest -> Seq(Byte)] /\ p \in 1 .. MaxDest
          /\ u \in Seq(Byte) /\ \A i \in p + 1 .. MaxDest : F[i] = <<>>
      BY <1>1, <1>2, <1>9, <2>1
    <3>2. G \in [1 .. MaxDest -> Seq(Byte)] /\ Appended(F, G, p, u, MaxDest)
      BY <3>1 DEF Appended
    <3> HIDE DEF G
    <3>3. \A S \in [1 .. MaxDest -> Seq(Byte)], T \in [1 .. MaxDest -> Seq(Byte)], k \in 1 .. MaxDest :
            Appended(S, T, k, u, MaxDest) => FlattenSeq(T) = FlattenSeq(S) \o u
      <4> SUFFICES ASSUME NEW S \in [1 .. MaxDest -> Seq(Byte)], NEW T \in [1 .. MaxDest -> Seq(Byte)],
                          NEW k \in 1 .. MaxDest, Appended(S, T, k, u, MaxDest)
                   PROVE  FlattenSeq(T) = FlattenSeq(S) \o u
        OBVIOUS
      <4> QED
        BY <1>1, FlattenAppend, ZenonT(30)
    <3> QED
      BY <3>1, <3>2, <3>3
<1>12. Written(c)' = FlattenSeq(G) /\ Written(c) = FlattenSeq(F)
  BY <1>10 DEF Written, Inboxes, Number
<1> QED
  BY <1>6, <1>8, <1>11, <1>12

\* What is read is passed on as it is.
LEMMA InOrderPassed ==
  ASSUME TypeOK, BytesTyped, NEW c \in Conn, InOrder(c), held[c] = <<>>, held'[c] = <<>>,
         NEW n \in DOMAIN Available(c), sent'[c] = sent[c], nread'[c] = nread[c] + n,
         details'[c] = details[c], details[c].connect \/ Buffer(c) = <<>>,
         Written(c)' = Written(c) \o SubSeq(Available(c), 1, n)
  PROVE  InOrder(c)' /\ Len(Written(c)') = Len(Written(c)) + n
<1> DEFINE b == Buffer(c)
           s == sent[c]
           v == Written(c)
           w == Len(v)
           l == Len(b)
           data == SubSeq(Available(c), 1, n)
           N == nread[c]
           S == Len(s)
           x == details[c].connect
<1>1. /\ v \in Seq(Byte) /\ w \in Nat /\ l \in Nat /\ N \in Nat /\ S \in Nat
  BY Typed
<1>2. /\ Follows(b, s, IF x THEN 0 ELSE w) /\ Follows(v, s, IF x THEN l ELSE 0)
      /\ N = w + l + Len(held[c]) /\ N <= S /\ Len(held[c]) = 0
  BY DEF InOrder
<1>3. /\ data \in Seq(Byte) /\ Len(data) = n /\ n \in Nat \ {0} /\ N + n <= S /\ Follows(data, s, N)
  BY <1>2, ReadNext
<1>4. Written(c)' = v \o data /\ Buffer(c)' = b /\ (x \/ b = <<>>)
  BY DEF Buffer
<1>5. b = <<>> => l = 0
  OBVIOUS
<1>6. w = Len(v) /\ l = Len(b)
  OBVIOUS
<1> HIDE DEF b, s, v, w, l, data, N, S, x
<1>7. Len(v \o data) = w + n
  BY <1>1, <1>3, <1>6, Cat
<1>8. Follows(v \o data, s, IF x THEN l ELSE 0)
  <2> DEFINE q == IF x THEN l ELSE 0
  <2>1. q \in Nat /\ q + w = N
    BY <1>1, <1>2, <1>4, <1>5
  <2>2. Follows(v, s, q)
    BY <1>2
  <2> HIDE DEF q
  <2>3. Follows(v \o data, s, q)
    BY <1>1, <1>3, <1>6, <2>1, <2>2, FollowsJoin
  <2> QED
    BY <2>3 DEF q
<1>9. Follows(b, s, IF x THEN 0 ELSE w + n)
  BY <1>2, <1>4, FollowsNothing
<1>10. N + n = (w + n) + l + 0
  BY <1>1, <1>2, <1>3
<1>11. Len(<<>>) = 0 /\ Follows(<<>>, s, (w + n) + l)
  BY FollowsNothing
<1>12. /\ nread'[c] = N + n /\ sent'[c] = s /\ Len(sent'[c]) = S /\ details'[c].connect = x
       /\ Written(c)' = v \o data /\ Len(Written(c)') = w + n /\ Len(Buffer(c)') = l
       /\ Buffer(c)' = b
  BY <1>4, <1>6, <1>7 DEF s, N, S, x
<1>13. InOrder(c)'
  BY <1>3, <1>8, <1>9, <1>10, <1>11, <1>12 DEF InOrder
<1> QED
  BY <1>6, <1>12, <1>13 DEF v, w

\* What is kept and what is read, as one.
LEMMA ReadBehind ==
  ASSUME TypeOK, BytesTyped, NEW c \in Conn, InOrder(c), held[c] = <<>>, ~details[c].connect,
         NEW n \in DOMAIN Available(c)
  PROVE  LET buf == Buffer(c) \o SubSeq(Available(c), 1, n) IN
         /\ buf \in Seq(Byte) /\ Len(buf) = Len(Buffer(c)) + n /\ n \in Nat \ {0}
         /\ Follows(buf, sent[c], Len(Written(c)))
         /\ Len(Written(c)) + Len(buf) = nread[c] + n /\ nread[c] + n <= Len(sent[c])
         /\ \A i \in 1 .. Len(buf) :
              \/ i \in 1 .. Len(Buffer(c)) /\ buf[i] = Buffer(c)[i]
              \/ \E j \in 1 .. Len(sent[c]) : buf[i] = sent[c][j]
<1> DEFINE b == Buffer(c)
           s == sent[c]
           w == Len(Written(c))
           l == Len(b)
           data == SubSeq(Available(c), 1, n)
           N == nread[c]
           S == Len(s)
<1>1. /\ b \in Seq(Byte) /\ w \in Nat /\ l \in Nat /\ N \in Nat /\ S \in Nat
  BY Typed
<1>2. /\ Follows(b, s, w) /\ N = w + l + Len(held[c]) /\ N <= S /\ Len(held[c]) = 0
  BY DEF InOrder
<1>3. /\ data \in Seq(Byte) /\ Len(data) = n /\ n \in Nat \ {0} /\ N + n <= S /\ Follows(data, s, N)
      /\ \A i \in 1 .. n : data[i] = s[N + i] /\ N + i \in 1 .. S
  BY <1>2, ReadNext
<1>6. l = Len(b)
  OBVIOUS
<1> HIDE DEF b, s, w, l, data, N, S
<1>4. /\ b \o data \in Seq(Byte) /\ Len(b \o data) = l + n
      /\ \A i \in 1 .. l : (b \o data)[i] = b[i]
      /\ \A i \in 1 .. n : (b \o data)[l + i] = data[i]
  <2>1. /\ b \o data \in Seq(Byte) /\ Len(b \o data) = Len(b) + Len(data)
        /\ \A i \in 1 .. Len(b) : (b \o data)[i] = b[i]
        /\ \A i \in 1 .. Len(data) : (b \o data)[Len(b) + i] = data[i]
    <3>1. b \in Seq(Byte) /\ data \in Seq(Byte)
      BY <1>1, <1>3
    <3> QED
      BY <3>1, Cat
  <2> QED
    BY <1>3, <1>6, <2>1
<1>5. Follows(b \o data, s, w)
  <2>1. w + l = N
    BY <1>1, <1>2
  <2> QED
    BY <1>1, <1>2, <1>3, <1>6, <2>1, FollowsJoin
<1>7. w + Len(b \o data) = N + n
  BY <1>1, <1>2, <1>3, <1>4
<1>8. ASSUME NEW i \in 1 .. l + n
      PROVE  \/ i \in 1 .. l /\ (b \o data)[i] = b[i]
             \/ \E j \in 1 .. S : (b \o data)[i] = s[j]
  <2>1. CASE i \in 1 .. l
    BY <1>4, <2>1
  <2>2. CASE i \notin 1 .. l
    <3> DEFINE j == i - l
    <3>1. j \in 1 .. n /\ i = l + j
      BY <1>1, <1>3, <2>2
    <3> HIDE DEF j
    <3> QED
      BY <1>3, <1>4, <3>1
  <2> QED
    BY <2>1, <2>2
<1>9. LET buf == b \o data IN
      /\ buf \in Seq(Byte) /\ Len(buf) = l + n /\ n \in Nat \ {0} /\ Follows(buf, s, w)
      /\ w + Len(buf) = N + n /\ N + n <= S
      /\ \A i \in 1 .. Len(buf) : \/ i \in 1 .. l /\ buf[i] = b[i]
                                  \/ \E j \in 1 .. S : buf[i] = s[j]
  BY <1>3, <1>4, <1>5, <1>7, <1>8
<1> QED
  BY <1>9 DEF b, s, w, l, data, N, S

\* What is known where data is read for a destination.
Passes(c, n) ==
  /\ c \in m_vConnections /\ c \in relay /\ sock[c] = "open" /\ held[c] = <<>>
  /\ n \in DOMAIN Available(c) /\ pClientSocket[c] # 0
  /\ nread' = [nread EXCEPT ![c] = @ + n]
  /\ UNCHANGED <<m_vConnections, sock, relay, held, back, dheld, asked, sent, replied, late>>

\* What OnDataRecievedClient finds when it has read.
LEMMA PassesReads ==
  ASSUME ProxyInv, KeptInv, NEW c \in Conn, NEW n, Passes(c, n)
  PROVE  /\ TypeOK /\ BytesTyped /\ Served(c) /\ Kept(c) /\ Relaying(c)
         /\ details[c].bAnswerd => c \notin late /\ InOrder(c)
         /\ n \in Nat \ {0} /\ nread[c] + n <= Len(sent[c])
         /\ nread'[c] = nread[c] + n /\ nread' \in [Conn -> Nat]
         /\ \A x \in Conn \ {c} : nread'[x] = nread[x]
<1>1. /\ TypeOK /\ BytesTyped /\ Served(c) /\ Kept(c) /\ Relaying(c) /\ Accounted(c)
      /\ details[c].bAnswerd => c \notin late /\ InOrder(c)
  BY DEF ProxyInv, KeptInv, Served, Passes, Kept, LateSettled, Accounted
<1>2. n \in Nat \ {0} /\ nread[c] + n <= Len(sent[c]) /\ nread[c] \in Nat
  <2>1. nread[c] <= Len(sent[c]) /\ nread[c] \in Nat
    BY <1>1, Lengths, Typed
  <2> QED
    BY <1>1, <2>1, ReadNext DEF Passes
<1>3. nread[c] + n \in Nat
  BY <1>2
<1> QED
  BY <1>1, <1>2, <1>3 DEF Passes, BytesTyped

\* What is left to show for it: what it changes.
LEMMA PassesServed ==
  ASSUME ProxyInv, KeptInv, NEW c \in Conn, NEW n, Passes(c, n), HostsRight(c)',
         got'[c] = got[c] \/ got'[c] = got[c] \o <<BadGateway>>,
         Kept(c)', BytesTyped', \A x \in Conn \ {c} : Unmoved(x) /\ Settling(x)
  PROVE  KeptInv'
<1>0. TypeOK /\ BytesTyped /\ Served(c)
  BY DEF ProxyInv, KeptInv
<1>1. Untouched(c)' /\ OnlyAnswers(c)' /\ SentFor(sent[c], asked[c])'
  BY <1>0 DEF Served, Passes, Untouched, OnlyAnswers, FromAnswers
<1>2. EndOnce(Answered(c))' /\ EndsGiven(Answered(c), replied[c])'
  BY <1>0, RefusedAnswers DEF Passes
<1>3. Served(c)'
  BY <1>1, <1>2 DEF Served, Passes
<1> QED
  BY <1>3, OneServed

\* As HostsRight, of what is in the boxes of the hosts at.
HostsOf(c, boxes, at) ==
  \A k \in Number : \A i \in 1 .. Len(boxes[<<c, k>>]) :
    LET r == boxes[<<c, k>>][i].req IN
    /\ r \in 1 .. Len(asked[c]) /\ at[<<c, k>>] \in Host
    /\ Name[asked[c][r].host] = Name[at[<<c, k>>]]

ForHost(c, u, h) ==
  /\ u # <<>> => h \in Host
  /\ \A i \in 1 .. Len(u) : /\ u[i].req \in 1 .. Len(asked[c])
                            /\ Name[asked[c][u[i].req].host] = Name[h]

\* More that is written is for the same host.
LEMMA HostsWritten ==
  ASSUME BytesTyped, NEW c \in Conn, HostsRight(c), NEW d \in Dest, NEW p \in Number, d = <<c, p>>,
         NEW u \in Seq(Byte), inbox'[d] = inbox[d] \o u,
         \A k \in Number : k # p => inbox'[<<c, k>>] = inbox[<<c, k>>],
         ForHost(c, u, host[d])
  PROVE  HostsOf(c, inbox', host)
<1> DEFINE s == inbox[d]
           t == inbox'[d]
           n == Len(u)
<1>1. /\ s \in Seq(Byte) /\ t = s \o u /\ n \in Nat
  BY DEF BytesTyped
<1>2. ASSUME NEW i \in 1 .. Len(t)
      PROVE  (\E j \in 1 .. n : t[i] = u[j]) \/ (i \in 1 .. Len(s) /\ t[i] = s[i])
  <2>0. n = Len(u)
    OBVIOUS
  <2> HIDE DEF s, t, n
  <2>1. Len(s \o u) = Len(s) + Len(u) /\ Len(s) \in Nat
    BY <1>1, Cat
  <2>2. \A j \in 1 .. Len(s) : (s \o u)[j] = s[j]
    BY <1>1, Cat
  <2>3. \A j \in 1 .. Len(u) : (s \o u)[Len(s) + j] = u[j]
    BY <1>1, Cat
  <2>4. CASE i \in 1 .. Len(s)
    BY <1>1, <2>2, <2>4
  <2>5. CASE i \notin 1 .. Len(s)
    <3> DEFINE j == i - Len(s)
    <3>1. j \in 1 .. n /\ i = Len(s) + j
      BY <1>1, <1>2, <2>0, <2>1, <2>5
    <3> HIDE DEF j
    <3> QED
      BY <1>1, <2>0, <2>3, <3>1
  <2> QED
    BY <2>4, <2>5
<1>3. ASSUME NEW k \in Number, NEW i \in 1 .. Len(inbox'[<<c, k>>])
      PROVE  /\ inbox'[<<c, k>>][i].req \in 1 .. Len(asked[c]) /\ host[<<c, k>>] \in Host
             /\ Name[asked[c][inbox'[<<c, k>>][i].req].host] = Name[host[<<c, k>>]]
  <2>1. CASE k = p
    <3>1. CASE \E j \in 1 .. n : t[i] = u[j]
      <4>1. PICK j \in 1 .. n : t[i] = u[j]
        BY <3>1
      <4>2. u # <<>>
        BY <1>1, <4>1
      <4> QED
        BY <2>1, <4>1, <4>2 DEF ForHost
    <3>2. CASE i \in 1 .. Len(s) /\ t[i] = s[i]
      BY <2>1, <3>2 DEF HostsRight
    <3> QED
      BY <1>2, <1>3, <2>1, <3>1, <3>2
  <2>2. CASE k # p
    BY <1>3, <2>2 DEF HostsRight
  <2> QED
    BY <2>1, <2>2
<1> QED
  BY <1>3 DEF HostsOf

\* More that is written leaves nothing answered that was not written.
LEMMA WrittenMore ==
  ASSUME TypeOK, BytesTyped, NEW c \in Conn, Served(c), asked'[c] = asked[c], sent'[c] = sent[c],
         replied'[c] = replied[c], Len(Written(c)') \in Nat, Len(Written(c)') >= Len(Written(c))
  PROVE  /\ AnsweredWritten(c) => AnsweredWritten(c)'
         /\ AfterAnswer(c) => AfterAnswer(c)'
<1> DEFINE w == Len(Written(c))
           v == Len(Written(c)')
           B == Body(c)
           R == Len(asked[c])
           m == replied[c]
<1>1. w \in Nat /\ v \in Nat /\ v >= w /\ R \in Nat /\ m \in Nat /\ B \in Nat
  BY Typed DEF Served, SentFor, Body
<1>2. Body(c)' = B /\ Tunnel(c)' = Tunnel(c) /\ Len(asked'[c]) = R /\ replied'[c] = m
  BY DEF Body, Tunnel
<1>3. /\ AnsweredWritten(c) <=> (m # 0 /\ ~Tunnel(c) => m <= R /\ w >= B + 2 * m)
      /\ AnsweredWritten(c)' <=> (m # 0 /\ ~Tunnel(c) => m <= R /\ v >= B + 2 * m)
      /\ AfterAnswer(c) <=> w >= B + 2 /\ w >= B + 2 * (R - 1)
      /\ AfterAnswer(c)' <=> v >= B + 2 /\ v >= B + 2 * (R - 1)
  BY <1>2 DEF AnsweredWritten, AfterAnswer
<1> HIDE DEF w, v, B, R, m
<1>4. \A x \in Int : w >= x => v >= x
  BY <1>1
<1>5. B + 2 * m \in Int /\ B + 2 \in Int /\ B + 2 * (R - 1) \in Int
  BY <1>1
<1> QED
  BY <1>3, <1>4, <1>5

\* It is passed on as it is: before the first answer, and through a tunnel.
LEMMA DirectKept ==
  ASSUME ProxyInv, KeptInv, NEW c \in Conn, NEW n, Passes(c, n),
         ~details[c].bAnswerd \/ details[c].connect,
         inbox' = Write(Current(c), SubSeq(Available(c), 1, n)),
         UNCHANGED <<m_vReferencList, details, pClientSocket, dst, host, got>>
  PROVE  KeptInv'
<1> DEFINE data == SubSeq(Available(c), 1, n)
           p == pClientSocket[c]
<1>0. /\ TypeOK /\ BytesTyped /\ Served(c) /\ Kept(c) /\ Relaying(c) /\ Accounted(c) /\ Numbers(c)
      /\ n \in Nat \ {0} /\ nread'[c] = nread[c] + n /\ nread' \in [Conn -> Nat]
      /\ \A x \in Conn \ {c} : nread'[x] = nread[x]
  BY PassesReads DEF Kept
<1>1. /\ data \in Seq(Byte) /\ Len(data) = n
      /\ \A i \in 1 .. n : data[i] = sent[c][nread[c] + i] /\ nread[c] + i \in 1 .. Len(sent[c])
  <2>1. nread[c] <= Len(sent[c])
    BY <1>0, Lengths
  <2> QED
    BY <1>0, <2>1, ReadNext DEF Passes
<1> HIDE DEF data
<1>2. /\ Written(c)' = Written(c) \o data /\ inbox' \in [Dest -> Seq(Byte)]
      /\ inbox'[Current(c)] = inbox[Current(c)] \o data
      /\ \A k \in Number : k # p => inbox'[<<c, k>>] = inbox[<<c, k>>]
      /\ \A x \in Conn \ {c}, k \in Number : inbox'[<<x, k>>] = inbox[<<x, k>>]
  <2>1. inbox' = Write(Current(c), data)
    BY DEF data
  <2> QED
    BY <1>0, <1>1, <2>1, WriteWritten DEF Passes
<1>3. /\ p \in Number /\ Current(c) = <<c, p>> /\ Current(c) \in Dest /\ Current(c)' = Current(c)
      /\ p # 0 /\ inbox[Current(c)] \in Seq(Byte)
  <2>1. p \in Number /\ Current(c) = <<c, p>> /\ Current(c) \in Dest
    BY <1>0, CurrentNumber DEF Passes
  <2> QED
    BY <1>0, <2>1 DEF Passes, BytesTyped, Current
<1>4. BytesTyped'
  BY <1>0, <1>2 DEF BytesTyped, Passes
<1>5. \A x \in Conn \ {c} : Unmoved(x) /\ Settling(x)
  BY <1>0, <1>2 DEF Unmoved, Settling, Passes
<1>6. /\ Len(asked[c]) = 1 /\ asked[c][1].host \in Host /\ host[Current(c)] = asked[c][1].host
      /\ ~Connecting(c) /\ (c \notin late => details[c].connect \/ Buffer(c) = <<>>)
      /\ ~details[c].connect => details[c].bConncted
  <2>0. asked[c] \in Seq(Request) /\ asked[c] # <<>>
    BY <1>0, Typed DEF Relaying
  <2>1. asked[c][1].host \in Host
    <3>1. asked[c][1] \in Request
      BY <2>0
    <3> QED
      BY <3>1 DEF Request
  <2>2. CASE details[c].connect
    <3>1. ThroughTunnel(c) /\ asked[c][1].connect
      BY <1>0, <2>2 DEF Relaying, ThroughTunnel, Tunnel
    <3>2. \A r \in 2 .. Len(asked[c]) : ~asked[c][1].connect
      BY <1>0 DEF Served, SentFor
    <3> DEFINE l == Len(asked[c])
    <3>3. l \in Nat /\ l # 0 /\ 2 \notin 2 .. l
      BY <2>0, <3>1, <3>2
    <3> HIDE DEF l
    <3>4. l = 1
      BY <3>3
    <3> QED
      BY <2>1, <2>2, <3>1, <3>4 DEF ThroughTunnel, l
  <2>3. CASE ~details[c].connect
    BY <1>0, <2>1, <2>3 DEF Relaying, Passing, BeforeAnswer, Passes
  <2> QED
    BY <2>2, <2>3
<1>7. Accounted(c)' /\ Len(Written(c)') = Len(Written(c)) + n
  <2>1. Written(c)' = Written(c) \o SubSeq(Available(c), 1, n)
    BY <1>2 DEF data
  <2>2. CASE c \notin late
    <3>1. InOrder(c)' /\ Len(Written(c)') = Len(Written(c)) + n
      BY <1>0, <1>6, <2>1, <2>2, InOrderPassed DEF Passes, Accounted
    <3> QED
      BY <2>2, <3>1 DEF Passes, Accounted
  <2>3. CASE c \in late
    <3>1. Counted(c)' /\ Len(Written(c)') = Len(Written(c)) + n
      <4> DEFINE v == Written(c)
                 w == Len(Written(c))
                 l == Len(Buffer(c))
                 N == nread[c]
      <4>1. /\ v \in Seq(Byte) /\ w \in Nat /\ l \in Nat /\ N \in Nat /\ n \in Nat
            /\ N = w + l + Len(held[c]) /\ Len(held[c]) = 0 /\ w = Len(v)
            /\ N + n <= Len(sent[c])
        BY <1>0, Typed, Lengths, PassesReads DEF Passes
      <4>2. Buffer(c)' = Buffer(c) /\ Written(c)' = v \o data
        BY <1>2 DEF Buffer
      <4>3. /\ nread'[c] = N + n /\ held'[c] = held[c] /\ sent'[c] = sent[c]
            /\ Len(Buffer(c)') = l
        BY <1>0, <4>2 DEF Passes
      <4> HIDE DEF v, w, l, N
      <4>4. Len(v \o data) = w + n
        BY <1>1, <4>1, Cat
      <4>5. N + n = (w + n) + l + 0
        BY <4>1
      <4>6. Len(Written(c)') = w + n
        BY <4>2, <4>4
      <4> QED
        BY <4>1, <4>3, <4>5, <4>6 DEF Counted, w
    <3>2. PICK m \in 1 .. nread[c] : Missing(c, m)
      BY <1>0, <2>3 DEF Accounted, LeftOut
    <3>3. ASSUME NEW i \in 1 .. n PROVE data[i].part # m
      <4>1. nread[c] + i \in 1 .. Len(sent[c]) /\ data[i] = sent[c][nread[c] + i]
        BY <1>1
      <4>2. data[i] = Token(1, nread[c] + i)
        BY <1>0, <1>6, <4>1, OneSent DEF Served
      <4>3. data[i].part = nread[c] + i
        BY <4>2 DEF Token
      <4>4. nread[c] \in Nat /\ n \in Nat
        BY <1>0, Typed
      <4> DEFINE N == nread[c]
      <4>5. N \in Nat /\ data[i].part = N + i /\ m \in 1 .. N /\ i \in 1 .. n
        BY <4>3, <4>4
      <4> HIDE DEF N
      <4> QED
        BY <4>4, <4>5
    <3>4. ASSUME NEW k \in Number, HasPart(inbox'[<<c, k>>], m) PROVE FALSE
      <4>1. ~HasPart(inbox[<<c, k>>], m)
        BY <3>2 DEF Missing
      <4>2. CASE k # p
        BY <1>2, <3>4, <4>1, <4>2
      <4>3. CASE k = p
        <5> DEFINE t == inbox[<<c, k>>]
        <5>1. t \in Seq(Byte) /\ inbox'[<<c, k>>] = t \o data /\ ~HasPart(t, m)
          BY <1>2, <1>3, <4>1, <4>3
        <5> HIDE DEF t
        <5>2. /\ Len(t \o data) = Len(t) + Len(data) /\ Len(t) \in Nat
              /\ \A i \in 1 .. Len(t) : (t \o data)[i] = t[i]
              /\ \A i \in 1 .. Len(data) : (t \o data)[Len(t) + i] = data[i]
          <6>1. t \in Seq(Byte) /\ data \in Seq(Byte)
            BY <1>1, <5>1
          <6> QED
            BY <6>1, Cat
        <5>3. PICK i \in 1 .. Len(t \o data) : (t \o data)[i].part = m
          BY <3>4, <5>1 DEF HasPart
        <5>4. CASE i \in 1 .. Len(t)
          BY <5>1, <5>2, <5>3, <5>4 DEF HasPart
        <5>5. CASE i \notin 1 .. Len(t)
          <6> DEFINE j == i - Len(t)
          <6>1. j \in 1 .. n /\ Len(t) + j = i
            BY <1>0, <1>1, <5>2, <5>5
          <6> HIDE DEF j
          <6>2. (t \o data)[i] = data[j]
            BY <1>1, <5>2, <6>1
          <6> QED
            BY <3>3, <5>3, <6>1, <6>2
        <5> QED
          BY <5>4, <5>5
      <4> QED
        BY <4>2, <4>3
    <3>5. m \in 1 .. nread'[c]
      <4>1. nread[c] \in Nat
        BY <1>0, Typed
      <4> QED
        BY <1>0, <3>2, <4>1
    <3>6. LeftOut(c)'
      BY <3>4, <3>5 DEF LeftOut, Missing
    <3> QED
      BY <2>3, <3>1, <3>6 DEF Passes, Accounted
  <2> QED
    BY <2>2, <2>3
<1>8. Len(Written(c)') >= Len(Written(c)) /\ Len(Written(c)) \in Nat /\ Len(Written(c)') \in Nat
  <2>1. Len(Written(c)) \in Nat
    BY <1>0, Typed
  <2> QED
    BY <1>0, <1>7, <2>1
<1>9. HostsRight(c)'
  <2>1. \A i \in 1 .. n : data[i].req = 1
    <3>1. sent[c] \in Seq(Byte) /\ asked[c] \in Seq(Request) /\ SentFor(sent[c], asked[c])
      BY <1>0, Typed DEF Served
    <3>2. \A j \in 1 .. Len(sent[c]) : sent[c][j].req \in 1 .. Len(asked[c])
      BY <3>1, SentReq
    <3> QED
      BY <1>1, <1>6, <3>2
  <2>2. /\ host[Current(c)] \in Host
        /\ \A i \in 1 .. Len(data) : /\ data[i].req \in 1 .. Len(asked[c])
                                      /\ Name[asked[c][data[i].req].host] = Name[host[Current(c)]]
    BY <1>0, <1>1, <1>6, <2>1
  <2>3. HostsRight(c)
    BY <1>0 DEF Served
  <2>4. HostsOf(c, inbox', host)
    <3> DEFINE d == Current(c)
    <3>1. /\ d \in Dest /\ p \in Number /\ d = <<c, p>> /\ data \in Seq(Byte)
          /\ inbox'[d] = inbox[d] \o data /\ ForHost(c, data, host[d])
      BY <1>1, <1>2, <1>3, <2>2 DEF ForHost
    <3> HIDE DEF p, d
    <3> QED
      BY <1>0, <1>2, <2>3, <3>1, HostsWritten
  <2> QED
    BY <2>4 DEF HostsRight, HostsOf, Passes
<1>10. Numbers(c)'
  <2> DEFINE q == pClientSocket'[c]
  <2>1. q = p /\ \A k \in Number : k > p => k # p
    <3>1. q = p
      OBVIOUS
    <3>2. p \in Nat
      BY <1>0, CurrentNumber
    <3> HIDE DEF p, q
    <3>3. \A k \in Number : k > p => k # p
      BY <3>2 DEF Number
    <3> QED
      BY <3>1, <3>3
  <2>2. \A k \in Number : k > p => dst[<<c, k>>] = "none" /\ inbox[<<c, k>>] = <<>>
    BY <1>0, <1>3 DEF Numbers
  <2>3. /\ \A k \in Number : k <= p => dst[<<c, k>>] # "none"
        /\ \A k \in Number : k # p => dst[<<c, k>>] \in {"none", "closing", "unlinked", "deleted"}
    BY <1>0 DEF Numbers
  <2> HIDE DEF p
  <2>4. \A k \in Number : k > p => inbox'[<<c, k>>] = <<>>
    BY <1>2, <2>1, <2>2
  <2> QED
    BY <2>1, <2>2, <2>3, <2>4 DEF Numbers
<1>11. Tunnel(c)' = Tunnel(c) /\ Body(c)' = Body(c) /\ Buffer(c)' = Buffer(c) /\ Connecting(c)' = Connecting(c)
  BY DEF Passes, Tunnel, Body, Buffer, Connecting, Current
<1>12. AnsweredWritten(c)' /\ LateSettled(c)'
  <2>1. AnsweredWritten(c)'
    BY <1>0, <1>8, WrittenMore DEF Kept, Passes
  <2> QED
    BY <1>0, <1>11, <2>1 DEF Kept, LateSettled, Passes
<1>13. Relaying(c)'
  <2>1. ThroughTunnel(c) => ThroughTunnel(c)'
    BY <1>3, <1>11 DEF ThroughTunnel, Passes
  <2>2. ~details[c].connect => Passing(c)'
    <3> SUFFICES ASSUME ~details[c].connect PROVE Passing(c)'
      OBVIOUS
    <3>1. Passing(c) /\ BeforeAnswer(c) /\ KeptBack(c) /\ ~details[c].bAnswerd /\ details[c].bConncted
      BY <1>0, <1>6 DEF Relaying, Passing, Passes
    <3>2. BeforeAnswer(c)'
      BY <1>3, <1>11, <3>1 DEF BeforeAnswer, Passes
    <3>3. KeptBack(c)'
      BY <1>3, <1>11, <3>1 DEF KeptBack, Passes
    <3> QED
      BY <1>3, <3>1, <3>2, <3>3 DEF Passing, Passes
  <2> QED
    BY <1>0, <1>11, <2>1, <2>2 DEF Relaying, Passes
<1>14. Kept(c)'
  BY <1>7, <1>10, <1>12, <1>13 DEF Kept, Passes
<1>15. got'[c] = got[c]
  OBVIOUS
<1> QED
  BY <1>4, <1>5, <1>9, <1>14, <1>15, PassesServed

-----------------------------------------------------------------------------
(* OnDataRecievedClient: the loop once an answer came *)

\* What is read behind the first answer: the last request's, one header.
OneHeader(buf, R) ==
  /\ buf \in Seq(Byte) /\ buf # <<>>
  /\ \A i \in 1 .. Len(buf) : /\ ~buf[i].bare /\ buf[i].req = R /\ buf[i].part \in 1 .. 2
                              /\ buf[i].part = 2 => i = Len(buf)

\* What the loop makes of it: it is kept, or written, or kept for another host.
LEMMA LoopStops ==
  ASSUME NEW c, NEW buf, NEW R, OneHeader(buf, R)
  PROVE  LET last == LoopEnd(c, buf)
             lines == BareLines(buf, last)
             first == SubSeq(lines, 1, last - 1)
             rest == SubSeq(lines, last, Len(buf)) IN
         /\ first \in Seq(Byte) /\ rest \in Seq(Byte)
         /\ \/ /\ Others(c, buf) = {} /\ first = <<>> /\ rest = buf
               /\ \A i \in 1 .. Len(buf) : buf[i].part = 1
            \/ /\ Others(c, buf) = {} /\ SameBytes(first, buf) /\ rest = <<>>
               /\ NameOf(asked[c][R].host) = details[c].to
            \/ /\ Others(c, buf) # {} /\ first = <<>> /\ SameBytes(rest, buf)
               /\ buf[Len(buf)].part = 2
               /\ HostOf(c, SubSeq(buf, last, Len(buf))) = asked[c][R].host
<1> DEFINE L == Len(buf)
           last == LoopEnd(c, buf)
           lines == BareLines(buf, last)
           first == SubSeq(lines, 1, last - 1)
           rest == SubSeq(lines, last, L)
           E == HeaderEnds(buf)
<1>1. L \in Nat \ {0} /\ buf \in Seq(Byte) /\ DOMAIN buf = 1 .. L
  BY DEF OneHeader
<1>2. E = {i \in 1 .. L : buf[i].part = 2}
  BY <1>1 DEF HeaderEnds
<1>3. \A x : x \in E => x = L /\ buf[L].part = 2
  BY <1>2 DEF OneHeader
<1>4. SubSeq(buf, 1, L) = buf
  BY <1>1
<1>5. CASE E = {}
  <2>1. Begins(buf) = {1} /\ Headers(buf) = {}
    BY <1>5 DEF Begins, Headers
  <2>2. Others(c, buf) = {}
    BY <2>1 DEF Others
  <2>3. last = 1
    BY <2>1, <2>2 DEF LoopEnd, Max
  <2>4. lines = buf
    <3>1. lines = [i \in 1 .. L |-> buf[i]]
      BY <1>1, <2>1 DEF BareLines
    <3> QED
      BY <1>1, <3>1
  <2>5. first = <<>> /\ rest = buf
    <3> HIDE DEF lines, last, L
    <3>1. SubSeq(buf, 1, 1 - 1) = <<>>
      BY <1>1
    <3> QED
      BY <1>4, <2>3, <2>4, <3>1 DEF L
  <2>6. \A i \in 1 .. L : buf[i].part = 1
    BY <1>2, <1>5 DEF OneHeader
  <2>7. <<>> \in Seq(Byte)
    OBVIOUS
  <2> QED
    BY <1>1, <2>2, <2>5, <2>6, <2>7
<1>6. CASE E # {}
  <2>1. E = {L} /\ buf[L].part = 2
    BY <1>3, <1>6
  <2>2. Begins(buf) = {1, L + 1}
    BY <2>1 DEF Begins
  <2>3. Headers(buf) = {1}
    <3> HIDE DEF L, E
    <3>1. Headers(buf) = {i \in {1, L + 1} : i <= L}
      BY <2>1, <2>2 DEF Headers, E
    <3> QED
      BY <1>1, <3>1
  <2>4. Others(c, buf) = IF NameOf(HostOf(c, buf)) # details[c].to THEN {1} ELSE {}
    <3> HIDE DEF L
    <3>1. Others(c, buf) = {i \in {1} : NameOf(HostOf(c, SubSeq(buf, i, L))) # details[c].to}
      BY <2>3 DEF Others, L
    <3> QED
      BY <1>4, <3>1
  <2>5. HostOf(c, buf) = asked[c][R].host
    <3>1. 1 \in 1 .. Len(buf)
      BY <1>1
    <3>2. ~buf[1].bare /\ buf[1].req = R
      BY <3>1 DEF OneHeader
    <3> QED
      BY <3>2 DEF HostOf
  <2>6. CASE NameOf(HostOf(c, buf)) # details[c].to
    <3>1. Others(c, buf) = {1}
      BY <2>4, <2>6
    <3>2. last = 1
      BY <3>1 DEF LoopEnd, Min
    <3>3. lines = [i \in 1 .. L |-> IF i = 1 THEN [buf[i] EXCEPT !.bare = TRUE] ELSE buf[i]]
      <4> HIDE DEF L, last
      <4> QED
        BY <1>1, <2>3, <3>2 DEF BareLines
    <3>4. lines \in Seq(Byte) /\ Len(lines) = L /\ SameBytes(lines, buf)
      <4> HIDE DEF L, last, lines
      <4>1. \A i \in 1 .. L : buf[i] \in Byte
        BY <1>1
      <4>2. \A i \in 1 .. L : lines[i] \in Byte /\ lines[i].req = buf[i].req /\ lines[i].part = buf[i].part
        BY <3>3, <4>1 DEF Byte
      <4>3. lines \in Seq(Byte) /\ Len(lines) = L
        BY <1>1, <3>3, <4>2
      <4> QED
        BY <4>2, <4>3 DEF SameBytes, L
    <3>5. first = <<>> /\ rest = lines
      <4> HIDE DEF L, last, lines
      <4> QED
        BY <1>1, <3>2, <3>4
    <3>6. HostOf(c, SubSeq(buf, last, L)) = asked[c][R].host
      BY <1>4, <2>5, <3>2
    <3>7. <<>> \in Seq(Byte)
      OBVIOUS
    <3> HIDE DEF first, rest, lines, last
    <3>8. /\ first \in Seq(Byte) /\ rest \in Seq(Byte) /\ Others(c, buf) # {} /\ first = <<>>
          /\ SameBytes(rest, buf) /\ buf[L].part = 2 /\ HostOf(c, SubSeq(buf, last, L)) = asked[c][R].host
      BY <2>1, <3>1, <3>4, <3>5, <3>6, <3>7
    <3> QED
      BY <3>8 DEF first, rest, lines, last
  <2>7. CASE NameOf(HostOf(c, buf)) = details[c].to
    <3>1. Others(c, buf) = {}
      BY <2>4, <2>7
    <3>2. last = L + 1
      <4>1. Max({1, L + 1}) = L + 1
        <5> HIDE DEF L
        <5>1. L + 1 \in {1, L + 1} /\ \A y \in {1, L + 1} : L + 1 >= y
          BY <1>1
        <5>2. \A x \in {1, L + 1} : (\A y \in {1, L + 1} : x >= y) => x = L + 1
          BY <1>1
        <5> QED
          BY <5>1, <5>2 DEF Max
      <4> QED
        BY <2>2, <3>1, <4>1 DEF LoopEnd
    <3>3. lines = [i \in 1 .. L |-> IF i = 1 THEN [buf[i] EXCEPT !.bare = TRUE] ELSE buf[i]]
      <4> HIDE DEF L, last
      <4>1. \A i \in {1} : i <= L + 1
        BY <1>1
      <4> QED
        BY <1>1, <2>3, <3>2, <4>1 DEF BareLines
    <3>4. lines \in Seq(Byte) /\ Len(lines) = L /\ SameBytes(lines, buf)
      <4> HIDE DEF L, last, lines
      <4>1. \A i \in 1 .. L : buf[i] \in Byte
        BY <1>1
      <4>2. \A i \in 1 .. L : lines[i] \in Byte /\ lines[i].req = buf[i].req /\ lines[i].part = buf[i].part
        BY <3>3, <4>1 DEF Byte
      <4>3. lines \in Seq(Byte) /\ Len(lines) = L
        BY <1>1, <3>3, <4>2
      <4> QED
        BY <4>2, <4>3 DEF SameBytes, L
    <3>5. first = lines /\ rest = <<>>
      <4> HIDE DEF L, last, lines
      <4>1. last - 1 = L
        BY <1>1, <3>2
      <4>2. SubSeq(lines, 1, L) = lines /\ SubSeq(lines, L + 1, L) = <<>>
        BY <1>1, <3>4
      <4> QED
        BY <3>2, <4>1, <4>2
    <3>6. NameOf(asked[c][R].host) = details[c].to
      BY <2>5, <2>7
    <3>7. <<>> \in Seq(Byte)
      OBVIOUS
    <3> HIDE DEF first, rest, lines, last
    <3>8. /\ first \in Seq(Byte) /\ rest \in Seq(Byte) /\ Others(c, buf) = {} /\ rest = <<>>
          /\ SameBytes(first, buf) /\ NameOf(asked[c][R].host) = details[c].to
      BY <3>1, <3>4, <3>5, <3>6, <3>7
    <3> QED
      BY <3>8 DEF first, rest, lines, last
  <2> QED
    BY <2>6, <2>7
<1> QED
  BY <1>5, <1>6

\* What is read behind the first answer is of the last request.
LEMMA ReadOneHeader ==
  ASSUME ProxyInv, KeptInv, NEW c \in Conn, NEW n, Passes(c, n),
         details[c].bAnswerd, ~details[c].connect
  PROVE  LET buf == Buffer(c) \o SubSeq(Available(c), 1, n) IN
         /\ OneHeader(buf, Len(asked[c])) /\ Follows(buf, sent[c], Len(Written(c)))
         /\ Len(Written(c)) + Len(buf) = nread[c] + n /\ nread[c] + n <= Len(sent[c])
         /\ buf[Len(buf)].part = 2 => nread[c] + n = Len(sent[c])
         /\ details[c].bConncted /\ ~Connecting(c) /\ asked[c][Len(asked[c])].host \in Host
         /\ Len(asked[c]) \in 1 .. Len(asked[c])
<1> DEFINE w == Len(Written(c))
           s == sent[c]
           a == asked[c]
           R == Len(a)
           S == Len(s)
           B == Body(c)
           b == Buffer(c)
           buf == b \o SubSeq(Available(c), 1, n)
           L == Len(buf)
<1>0. /\ TypeOK /\ BytesTyped /\ Served(c) /\ Kept(c) /\ Relaying(c) /\ InOrder(c) /\ Numbers(c)
      /\ c \notin late
      /\ n \in Nat \ {0} /\ nread[c] + n <= S
  BY PassesReads DEF Kept
<1>1. Passing(c) /\ AfterAnswer(c) /\ KeptBack(c)
  BY <1>0 DEF Relaying, Passing, Passes
<1>2. nread[c] \in Nat /\ S \in Nat /\ w \in Nat /\ s \in Seq(Byte) /\ a \in Seq(Request) /\ R \in Nat
  BY <1>0, Typed
<1>3. details[c].bConncted /\ ~Connecting(c) /\ \A i \in 1 .. Len(b) : b[i].part = 1 /\ ~b[i].bare
  <2>1. nread[c] # S
    <3> DEFINE N == nread[c]
    <3>1. N \in Nat /\ n \in Nat \ {0} /\ N + n <= S /\ S \in Nat
      BY <1>0, <1>2
    <3> HIDE DEF N, S
    <3>2. N # S
      BY <3>1
    <3> QED
      BY <3>2 DEF N
  <2> QED
    BY <1>0, <1>1, <2>1 DEF KeptBack, Passes
<1>4. /\ buf \in Seq(Byte) /\ L = Len(b) + n /\ Follows(buf, s, w)
      /\ w + L = nread[c] + n /\ nread[c] + n <= S
      /\ \A i \in 1 .. L : \/ i \in 1 .. Len(b) /\ buf[i] = b[i]
                           \/ \E j \in 1 .. S : buf[i] = s[j]
  BY <1>0, ReadBehind DEF Passes
<1>5. Len(b) \in Nat
  BY <1>0, Typed
<1>6. SentFor(s, a) /\ B = BodyLen(s, a) /\ w >= B + 2 /\ w >= B + 2 * (R - 1) /\ B \in Nat
  BY <1>0, <1>1 DEF Served, AfterAnswer, Body, SentFor
<1>7. R \in 1 .. R /\ a[R].host \in Host
  <2>1. a # <<>>
    BY <1>0 DEF Relaying
  <2>2. R \in 1 .. R
    BY <1>2, <2>1
  <2>3. a[R] \in Request
    BY <1>2, <2>2
  <2> QED
    BY <2>2, <2>3 DEF Request
<1>8. \A j \in 1 .. S : ~s[j].bare
  <2> HIDE DEF s, a, S
  <2>1. S = Len(s)
    BY DEF S
  <2> QED
    BY <1>2, <1>6, <2>1, SentReq
<1> HIDE DEF w, s, a, R, S, B, buf, L, b
<1>9. ASSUME NEW i \in 1 .. L
      PROVE  /\ ~buf[i].bare /\ buf[i].req = R /\ buf[i].part \in 1 .. 2
             /\ buf[i].part = 2 => i = L /\ w + L = S
  <2> DEFINE j == w + i
  <2>1. L \in Nat
    BY <1>0, <1>4, <1>5
  <2>2. j \in 1 .. S /\ j > B + 2 /\ j > B + 2 * (R - 1)
    <3>1. i \in Nat /\ i >= 1 /\ i <= L
      BY <2>1
    <3>2. w + L <= S
      BY <1>4
    <3> QED
      BY <1>2, <1>6, <2>1, <3>1, <3>2, SMTT(30)
  <2>3. buf[i].req = s[j].req /\ buf[i].part = s[j].part
    BY <1>4 DEF Follows, L
  <2>4. s[j].req = R /\ s[j].part \in 1 .. 2 /\ (s[j].part = 2 <=> j = S)
    BY <1>2, <1>6, <2>2, SentLast DEF R, S, B
  <2>5. j = S => i = L /\ w + L = S
    <3>1. w + L <= S
      BY <1>4
    <3> QED
      BY <1>2, <2>1, <3>1
  <2>6. ~buf[i].bare
    BY <1>3, <1>4, <1>8
  <2> QED
    BY <2>3, <2>4, <2>5, <2>6
<1>10. L \in 1 .. L /\ buf # <<>>
  <2>1. L \in Nat /\ L # 0 /\ L = Len(buf)
    BY <1>0, <1>4, <1>5 DEF L
  <2> QED
    BY <1>4, <2>1
<1>11. OneHeader(buf, R)
  BY <1>4, <1>9, <1>10 DEF OneHeader, L
<1>12. buf[L].part = 2 => nread[c] + n = S
  BY <1>4, <1>9, <1>10
<1> QED
  BY <1>3, <1>4, <1>7, <1>11, <1>12 DEF w, s, a, R, S, buf, L, b

\* What was kept and read is kept, or written, in order.
LEMMA InOrderLooped ==
  ASSUME TypeOK, BytesTyped, NEW c \in Conn, InOrder(c), held[c] = <<>>, held'[c] = <<>>,
         ~details[c].connect, ~details'[c].connect, NEW n \in Nat, NEW buf \in Seq(Byte),
         Follows(buf, sent[c], Len(Written(c))), Len(Written(c)) + Len(buf) = nread[c] + n,
         nread[c] + n <= Len(sent[c]), sent'[c] = sent[c], nread'[c] = nread[c] + n,
         NEW first \in Seq(Byte), Written(c)' = Written(c) \o first,
         \/ first = <<>> /\ SameBytes(Buffer(c)', buf)
         \/ SameBytes(first, buf) /\ Buffer(c)' = <<>>
  PROVE  InOrder(c)' /\ Len(Written(c)') >= Len(Written(c))
<1> DEFINE s == sent[c]
           v == Written(c)
           w == Len(v)
           N == nread[c]
           S == Len(s)
           L == Len(buf)
           bb == Buffer(c)'
           vv == Written(c)'
<1>1. /\ v \in Seq(Byte) /\ w \in Nat /\ N \in Nat /\ S \in Nat /\ L \in Nat
  BY Typed
<1>2. /\ Follows(v, s, 0) /\ vv = v \o first /\ w + L = N + n /\ N + n <= S
      /\ Follows(buf, s, w) /\ w = Len(v) /\ L = Len(buf)
  BY DEF InOrder
<1>3. /\ nread'[c] = N + n /\ sent'[c] = s /\ Len(sent'[c]) = S
  OBVIOUS
<1>4. \/ first = <<>> /\ SameBytes(bb, buf)
      \/ SameBytes(first, buf) /\ bb = <<>>
  OBVIOUS
<1>9. Buffer(c)' = bb /\ Written(c)' = vv
  OBVIOUS
<1> HIDE DEF s, v, w, N, S, L, bb, vv
<1>5. Len(vv) = w + Len(first) /\ Len(first) \in Nat
  <2>1. Len(v \o first) = Len(v) + Len(first) /\ Len(first) \in Nat
    BY <1>1, Cat
  <2> QED
    BY <1>2, <2>1
<1>6. CASE first = <<>> /\ SameBytes(bb, buf)
  <2>1. Len(vv) = w /\ vv = v /\ Len(bb) = L
    <3>1. v \o <<>> = v /\ Len(<<>>) = 0
      BY <1>1
    <3> QED
      BY <1>1, <1>2, <1>5, <1>6, <3>1 DEF SameBytes
  <2>2. Follows(bb, s, w) /\ Follows(<<>>, s, w + L) /\ Len(<<>>) = 0
    BY <1>2, <1>6, FollowsSame, FollowsNothing
  <2>3. N + n = w + L + 0 /\ w >= w
    BY <1>1, <1>2
  <2>4. Follows(vv, s, 0)
    BY <1>2, <2>1
  <2>5. InOrder(c)'
    BY <1>2, <1>3, <1>9, <2>1, <2>2, <2>3, <2>4 DEF InOrder
  <2> QED
    BY <1>9, <2>1, <2>3, <2>5 DEF v, w
<1>7. CASE SameBytes(first, buf) /\ bb = <<>>
  <2>1. Len(vv) = w + L /\ Len(bb) = 0
    BY <1>2, <1>5, <1>7 DEF SameBytes
  <2>2. Follows(first, s, w)
    BY <1>2, <1>7, FollowsSame
  <2>3. Follows(vv, s, 0)
    <3>1. 0 + Len(v) = w
      BY <1>1, <1>2
    <3> QED
      BY <1>1, <1>2, <2>2, <3>1, FollowsJoin
  <2>4. Follows(<<>>, s, w + L) /\ Follows(<<>>, s, w + L + 0) /\ Len(<<>>) = 0
    BY FollowsNothing
  <2>5. N + n = (w + L) + 0 + 0 /\ w + L + 0 = w + L /\ w + L >= w
    BY <1>1, <1>2
  <2>6. InOrder(c)'
    BY <1>2, <1>3, <1>7, <1>9, <2>1, <2>3, <2>4, <2>5 DEF InOrder
  <2> QED
    BY <1>9, <2>1, <2>5, <2>6 DEF v, w
<1> QED
  BY <1>4, <1>6, <1>7

\* The request is for the same host, or not there yet.
LEMMA LoopedKept ==
  ASSUME ProxyInv, KeptInv, NEW c \in Conn, NEW n, Passes(c, n),
         details[c].bAnswerd, ~details[c].connect,
         NEW buf, buf = Buffer(c) \o SubSeq(Available(c), 1, n),
         NEW first \in Seq(Byte), NEW rest \in Seq(Byte),
         \/ first = <<>> /\ rest = buf /\ \A i \in 1 .. Len(buf) : buf[i].part = 1
         \/ SameBytes(first, buf) /\ rest = <<>>
            /\ NameOf(asked[c][Len(asked[c])].host) = details[c].to,
         inbox' = Write(Current(c), first),
         details' = [details EXCEPT ![c] = [details[c] EXCEPT !.strBuffer = rest]],
         UNCHANGED <<m_vReferencList, pClientSocket, dst, host, got>>
  PROVE  KeptInv'
<1> DEFINE R == Len(asked[c])
           p == pClientSocket[c]
<1>0. /\ TypeOK /\ BytesTyped /\ Served(c) /\ Kept(c) /\ Relaying(c) /\ InOrder(c) /\ Numbers(c)
      /\ c \notin late
      /\ n \in Nat \ {0} /\ nread'[c] = nread[c] + n /\ nread' \in [Conn -> Nat]
      /\ \A x \in Conn \ {c} : nread'[x] = nread[x]
  BY PassesReads DEF Kept
<1>1. /\ OneHeader(buf, R) /\ Follows(buf, sent[c], Len(Written(c)))
      /\ Len(Written(c)) + Len(buf) = nread[c] + n /\ nread[c] + n <= Len(sent[c])
      /\ details[c].bConncted /\ ~Connecting(c) /\ asked[c][R].host \in Host
      /\ R \in 1 .. R
  BY ReadOneHeader
<1>2. Passing(c) /\ AfterAnswer(c)
  BY <1>0 DEF Relaying, Passing, Passes
<1>3. /\ details'[c] \in Details /\ details'[c].strBuffer = rest /\ details'[c].connect = details[c].connect
      /\ details'[c].to = details[c].to /\ details'[c].bConncted = details[c].bConncted
      /\ details'[c].bAnswerd = details[c].bAnswerd
  <2> DEFINE D == details[c]
  <2>1. D \in Details /\ details'[c] = [D EXCEPT !.strBuffer = rest]
    BY <1>0 DEF BytesTyped
  <2> HIDE DEF D
  <2>2. LET E == [D EXCEPT !.strBuffer = rest] IN
        /\ E \in Details /\ E.strBuffer = rest /\ E.connect = D.connect /\ E.to = D.to
        /\ E.bConncted = D.bConncted /\ E.bAnswerd = D.bAnswerd
    BY <2>1 DEF Details
  <2>3. /\ details'[c] \in Details /\ details'[c].strBuffer = rest /\ details'[c].connect = D.connect
        /\ details'[c].to = D.to /\ details'[c].bConncted = D.bConncted
        /\ details'[c].bAnswerd = D.bAnswerd
    BY <2>1, <2>2
  <2> QED
    BY <2>3 DEF D
<1>4. details' \in [Conn -> Details] /\ \A x \in Conn \ {c} : details'[x] = details[x]
  BY <1>0, <1>3 DEF BytesTyped
<1>5. /\ Written(c)' = Written(c) \o first /\ inbox' \in [Dest -> Seq(Byte)]
      /\ inbox'[Current(c)] = inbox[Current(c)] \o first
      /\ \A k \in Number : k # p => inbox'[<<c, k>>] = inbox[<<c, k>>]
      /\ \A x \in Conn \ {c}, k \in Number : inbox'[<<x, k>>] = inbox[<<x, k>>]
  BY <1>0, WriteWritten DEF Passes
<1>6. /\ p \in Number /\ Current(c) = <<c, p>> /\ Current(c) \in Dest /\ Current(c)' = Current(c)
      /\ p \in Nat
  <2>1. p \in Number /\ Current(c) = <<c, p>> /\ Current(c) \in Dest /\ p \in Nat
    BY <1>0, CurrentNumber DEF Passes
  <2> QED
    BY <2>1 DEF Current
<1>7. Buffer(c)' = rest /\ buf \in Seq(Byte)
  BY <1>1, <1>3 DEF Buffer, OneHeader
<1>8. InOrder(c)' /\ Len(Written(c)') >= Len(Written(c)) /\ Len(Written(c)') \in Nat
  <2>1. \/ first = <<>> /\ SameBytes(Buffer(c)', buf)
        \/ SameBytes(first, buf) /\ Buffer(c)' = <<>>
    BY <1>7 DEF SameBytes
  <2>2. InOrder(c)' /\ Len(Written(c)') >= Len(Written(c))
    BY <1>0, <1>1, <1>3, <1>5, <1>7, <2>1, InOrderLooped DEF Passes
  <2>3. Written(c) \o first \in Seq(Byte)
    <3>1. Written(c) \in Seq(Byte)
      BY <1>0, Typed
    <3> QED
      BY <3>1, Cat
  <2> QED
    BY <1>5, <2>2, <2>3
<1>9. AnsweredWritten(c)' /\ AfterAnswer(c)'
  BY <1>0, <1>2, <1>8, WrittenMore DEF Kept, Passes
<1>10. BytesTyped'
  BY <1>0, <1>4, <1>5 DEF BytesTyped, Passes
<1>11. \A x \in Conn \ {c} : Unmoved(x) /\ Settling(x)
  BY <1>0, <1>4, <1>5 DEF Unmoved, Settling, Passes
<1>12. HostsRight(c)'
  <2>1. ForHost(c, first, host[Current(c)])
    <3>1. CASE first = <<>>
      BY <3>1 DEF ForHost
    <3>2. CASE SameBytes(first, buf) /\ NameOf(asked[c][R].host) = details[c].to
      <4>1. \A i \in 1 .. Len(first) : first[i].req = R
        BY <1>1, <3>2 DEF SameBytes, OneHeader
      <4>2. Name[asked[c][R].host] = Name[host[Current(c)]] /\ host[Current(c)] \in Host
        BY <1>1, <1>2, <3>2, ProxyAssumption DEF Passing, NameOf
      <4> HIDE DEF R
      <4> QED
        BY <1>1, <4>1, <4>2 DEF ForHost, R
    <3> QED
      BY <3>1, <3>2
  <2> DEFINE d == Current(c)
  <2>2. d \in Dest /\ d = <<c, p>> /\ inbox'[d] = inbox[d] \o first /\ ForHost(c, first, host[d])
    BY <1>5, <1>6, <2>1
  <2>3. HostsRight(c)
    BY <1>0 DEF Served
  <2> HIDE DEF d, p
  <2>4. HostsOf(c, inbox', host)
    BY <1>0, <1>5, <1>6, <2>2, <2>3, HostsWritten
  <2> QED
    BY <2>4 DEF HostsRight, HostsOf, Passes
<1>13. Numbers(c)'
  <2> DEFINE q == pClientSocket'[c]
  <2>1. q = p /\ \A k \in Number : k > p => k # p
    <3>1. q = p
      OBVIOUS
    <3> HIDE DEF p, q
    <3>3. \A k \in Number : k > p => k # p
      BY <1>6 DEF Number
    <3> QED
      BY <3>1, <3>3
  <2>2. \A k \in Number : k > p => dst[<<c, k>>] = "none" /\ inbox[<<c, k>>] = <<>>
    BY <1>0 DEF Numbers, Passes
  <2>3. /\ \A k \in Number : k <= p => dst[<<c, k>>] # "none"
        /\ \A k \in Number : k # p => dst[<<c, k>>] \in {"none", "closing", "unlinked", "deleted"}
    BY <1>0 DEF Numbers
  <2> HIDE DEF p
  <2>4. \A k \in Number : k > p => inbox'[<<c, k>>] = <<>>
    BY <1>5, <2>1, <2>2
  <2> QED
    BY <2>1, <2>2, <2>3, <2>4 DEF Numbers
<1>14. Tunnel(c)' = Tunnel(c) /\ Connecting(c)' = Connecting(c)
  BY DEF Passes, Tunnel, Connecting, Current
<1>15. LateSettled(c)' /\ Accounted(c)'
  BY <1>0, <1>8 DEF Accounted, LateSettled, Passes
<1>16. KeptBack(c)'
  <2>1. \A i \in 1 .. Len(rest) : rest[i].part = 1 /\ ~rest[i].bare
    <3>1. CASE rest = buf /\ \A i \in 1 .. Len(buf) : buf[i].part = 1
      <4>1. \A i \in 1 .. Len(buf) : ~buf[i].bare
        <5> HIDE DEF R
        <5> QED
          BY <1>1 DEF OneHeader
      <4> QED
        BY <3>1, <4>1
    <3>2. CASE rest = <<>>
      BY <3>2
    <3> QED
      BY <3>1, <3>2
  <2> QED
    BY <1>1, <1>3, <1>7, <1>14, <2>1 DEF KeptBack
<1>17. Passing(c)'
  BY <1>2, <1>3, <1>6, <1>9, <1>16 DEF Passing, Passes
<1>18. Kept(c)'
  <2>1. Relaying(c)'
    BY <1>0, <1>3, <1>14, <1>17 DEF Relaying, Passes
  <2> QED
    BY <1>9, <1>13, <1>15, <2>1 DEF Kept, Passes
<1>19. got'[c] = got[c]
  OBVIOUS
<1> QED
  BY <1>10, <1>11, <1>12, <1>18, <1>19, PassesServed

\* The request is for another host: the socket is closed, another one opened.
LEMMA SwitchKept ==
  ASSUME ProxyInv, KeptInv, NEW c \in Conn, NEW n, Passes(c, n),
         details[c].bAnswerd, ~details[c].connect,
         NEW buf, buf = Buffer(c) \o SubSeq(Available(c), 1, n),
         NEW rest \in Seq(Byte), SameBytes(rest, buf), buf[Len(buf)].part = 2,
         NEW h, h = asked[c][Len(asked[c])].host,
         inbox' = Write(Current(c), <<>>),
         details' = [details EXCEPT ![c] =
                       [[details[c] EXCEPT !.strBuffer = rest] EXCEPT !.to = NameOf(h), !.bConncted = FALSE]],
         NEW fails \in BOOLEAN, ConnectTo(c, h, Close(Current(c)), fails)
  PROVE  KeptInv'
<1> DEFINE R == Len(asked[c])
           p == pClientSocket[c]
           m == NameOf(h)
<1>0. /\ TypeOK /\ BytesTyped /\ Served(c) /\ Kept(c) /\ Relaying(c) /\ InOrder(c) /\ Numbers(c)
      /\ c \notin late
      /\ n \in Nat \ {0} /\ nread'[c] = nread[c] + n /\ nread' \in [Conn -> Nat]
      /\ \A x \in Conn \ {c} : nread'[x] = nread[x]
  BY PassesReads DEF Kept
<1>1. /\ OneHeader(buf, R) /\ Follows(buf, sent[c], Len(Written(c)))
      /\ Len(Written(c)) + Len(buf) = nread[c] + n /\ nread[c] + n <= Len(sent[c])
      /\ nread[c] + n = Len(sent[c])
      /\ details[c].bConncted /\ ~Connecting(c) /\ h \in Host /\ R \in 1 .. R
  BY ReadOneHeader
<1>2. Passing(c) /\ AfterAnswer(c)
  BY <1>0 DEF Relaying, Passing, Passes
<1>a. m = Name[h] /\ m \in Names
  BY <1>1, ProxyAssumption DEF NameOf, Names
<1>3. /\ details'[c] \in Details /\ details'[c].strBuffer = rest /\ details'[c].connect = details[c].connect
      /\ details'[c].to = m /\ details'[c].bConncted = FALSE
      /\ details'[c].bAnswerd = details[c].bAnswerd
  <2> DEFINE D == details[c]
  <2>1. D \in Details /\ details'[c] = [[D EXCEPT !.strBuffer = rest] EXCEPT !.to = m, !.bConncted = FALSE]
    BY <1>0 DEF BytesTyped
  <2> HIDE DEF D, m
  <2>2. LET E == [[D EXCEPT !.strBuffer = rest] EXCEPT !.to = m, !.bConncted = FALSE] IN
        /\ E \in Details /\ E.strBuffer = rest /\ E.connect = D.connect /\ E.to = m
        /\ E.bConncted = FALSE /\ E.bAnswerd = D.bAnswerd
    BY <1>a, <2>1 DEF Details
  <2>3. /\ details'[c] \in Details /\ details'[c].strBuffer = rest /\ details'[c].connect = D.connect
        /\ details'[c].to = m /\ details'[c].bConncted = FALSE
        /\ details'[c].bAnswerd = D.bAnswerd
    BY <2>1, <2>2
  <2> QED
    BY <2>3 DEF D
<1>4. details' \in [Conn -> Details] /\ \A x \in Conn \ {c} : details'[x] = details[x]
  BY <1>0, <1>3 DEF BytesTyped
<1>5. /\ Written(c)' = Written(c) /\ inbox' \in [Dest -> Seq(Byte)]
      /\ \A x \in Conn, k \in Number : inbox'[<<x, k>>] = inbox[<<x, k>>]
  <2>0. \A k \in Number : inbox[<<c, k>>] \in Seq(Byte)
    BY <1>0 DEF BytesTyped, Dest, Number
  <2>1. <<>> \in Seq(Byte)
    OBVIOUS
  <2>2. /\ inbox' \in [Dest -> Seq(Byte)]
        /\ inbox'[Current(c)] = inbox[Current(c)] \o <<>>
        /\ \A k \in Number : k # p => inbox'[<<c, k>>] = inbox[<<c, k>>]
        /\ \A x \in Conn \ {c}, k \in Number : inbox'[<<x, k>>] = inbox[<<x, k>>]
    BY <1>0, <2>1, WriteWritten DEF Passes
  <2>3. p \in Number /\ Current(c) = <<c, p>>
    BY <1>0, CurrentNumber DEF Passes
  <2>4. inbox'[<<c, p>>] = inbox[<<c, p>>]
    <3> DEFINE s == inbox[<<c, p>>]
    <3>1. s \in Seq(Byte) /\ inbox'[<<c, p>>] = s \o <<>>
      BY <2>0, <2>2, <2>3
    <3> HIDE DEF s
    <3>2. s \o <<>> = s
      BY <3>1
    <3> QED
      BY <3>1, <3>2 DEF s
  <2> HIDE DEF p
  <2>5. \A k \in Number : inbox'[<<c, k>>] = inbox[<<c, k>>]
    BY <2>2, <2>4
  <2>6. Written(c)' = Written(c)
    BY <2>5, WrittenSame
  <2> QED
    BY <2>2, <2>5, <2>6
<1>6. /\ p \in Number /\ Current(c) = <<c, p>> /\ Current(c) \in Dest /\ p \in Nat /\ p # 0
      /\ \A x \in Conn, k \in Number : <<x, k>> \in Dest
  BY <1>0, CurrentNumber DEF Passes
<1>7. Buffer(c)' = rest /\ buf \in Seq(Byte) /\ rest # <<>>
  <2>1. Buffer(c)' = rest /\ buf \in Seq(Byte) /\ buf # <<>>
    BY <1>1, <1>3 DEF Buffer, OneHeader
  <2>2. rest # <<>>
    BY <2>1 DEF SameBytes
  <2> QED
    BY <2>1, <2>2
<1>8. InOrder(c)'
  <2>1. SameBytes(Buffer(c)', buf)
    BY <1>7
  <2>2. <<>> \in Seq(Byte) /\ Written(c)' = Written(c) \o <<>>
    <3>1. Written(c) \in Seq(Byte)
      BY <1>0, Typed
    <3> QED
      BY <1>5, <3>1
  <2> QED
    BY <1>0, <1>1, <1>3, <1>7, <2>1, <2>2, InOrderLooped DEF Passes
<1>9. AnsweredWritten(c)' /\ AfterAnswer(c)'
  <2>1. Len(Written(c)') \in Nat /\ Len(Written(c)') >= Len(Written(c))
    <3>1. Len(Written(c)) \in Nat
      BY <1>0, Typed
    <3> QED
      BY <1>5, <3>1
  <2> QED
    BY <1>0, <1>2, <2>1, WrittenMore DEF Kept, Passes
<1>10. dst[Current(c)] # "connecting" /\ Close(Current(c)) = [dst EXCEPT ![<<c, p>>] = "closing"]
  BY <1>0, <1>1, <1>6 DEF Close, Connecting, TypeOK
<1>11. LateSettled(c)' /\ Accounted(c)' /\ Tunnel(c)' = Tunnel(c)
  BY <1>0, <1>8 DEF Accounted, LateSettled, Passes, Tunnel
<1>12. \A k \in Number : k # p => dst[<<c, k>>] \in {"none", "closing", "unlinked", "deleted"}
  BY <1>0 DEF Numbers
<1>13. CASE fails
  <2>1. /\ pClientSocket' = [pClientSocket EXCEPT ![c] = 0]
        /\ dst' = [dst EXCEPT ![<<c, p>>] = "closing"] /\ host' = host
        /\ got' = Refused(c)
    BY <1>10, <1>13 DEF ConnectTo
  <2>2. /\ \A y \in Conn \ {c} : got'[y] = got[y]
        /\ got'[c] = got[c] \/ got'[c] = got[c] \o <<BadGateway>>
    BY <1>0, <2>1, RefusedTold
  <2>3. /\ pClientSocket'[c] = 0 /\ \A y \in Conn \ {c} : pClientSocket'[y] = pClientSocket[y]
        /\ \A k \in Number : dst'[<<c, k>>] = IF k = p THEN "closing" ELSE dst[<<c, k>>]
        /\ \A y \in Conn \ {c}, k \in Number : dst'[<<y, k>>] = dst[<<y, k>>]
    BY <1>0, <1>6, <2>1 DEF TypeOK
  <2>4. BytesTyped'
    BY <1>0, <1>4, <1>5, <2>1 DEF BytesTyped, Passes
  <2>5. \A y \in Conn \ {c} : Unmoved(y) /\ Settling(y)
    BY <1>0, <1>4, <1>5, <2>1, <2>2, <2>3 DEF Unmoved, Settling, Passes
  <2>6. HostsRight(c)'
    <3>1. HostsRight(c)
      BY <1>0 DEF Served
    <3>2. \A k \in Number : inbox'[<<c, k>>] = inbox[<<c, k>>]
      BY <1>5
    <3> HIDE DEF p
    <3> QED
      BY <2>1, <3>1, <3>2, SMTT(30) DEF HostsRight, Passes
  <2>7. Numbers(c)'
    <3>1. \A k \in Number : ~(k <= 0)
      BY DEF Number
    <3>2. c \in relay'
      BY DEF Passes
    <3> HIDE DEF p
    <3>3. \A k \in Number : dst'[<<c, k>>] \in {"none", "closing", "unlinked", "deleted"}
      BY <1>12, <2>3
    <3> QED
      BY <2>3, <3>1, <3>2, <3>3 DEF Numbers
  <2>8. Relaying(c)'
    BY <1>0, <1>3, <1>11, <2>3 DEF Relaying, Passes, Connecting
  <2>9. Kept(c)'
    BY <1>8, <1>9, <1>11, <2>7, <2>8 DEF Kept, Passes
  <2> QED
    BY <2>2, <2>4, <2>5, <2>6, <2>9, PassesServed
<1>14. CASE ~fails
  <2>1. PICK q \in 1 .. MaxDest :
          /\ dst[<<c, q>>] = "none" /\ \A k \in 1 .. q - 1 : dst[<<c, k>>] # "none"
          /\ pClientSocket' = [pClientSocket EXCEPT ![c] = q]
          /\ dst' = [[dst EXCEPT ![<<c, p>>] = "closing"] EXCEPT ![<<c, q>>] = "connecting"]
          /\ host' = [host EXCEPT ![<<c, q>>] = h]
          /\ got' = got
    BY <1>10, <1>14 DEF ConnectTo
  <2>2. q = p + 1 /\ q \in Number /\ q # p /\ q # 0 /\ <<c, q>> \in Dest /\ inbox[<<c, q>>] = <<>>
    BY <1>0, <2>1, NewNumber DEF Passes
  <2>3. /\ pClientSocket'[c] = q /\ Current(c)' = <<c, q>> /\ dst'[<<c, q>>] = "connecting"
        /\ host'[<<c, q>>] = h /\ host' \in [Dest -> Host \cup {NoHost}]
        /\ dst'[<<c, p>>] = "closing"
        /\ \A k \in Number : k # q => host'[<<c, k>>] = host[<<c, k>>]
        /\ \A k \in Number : k # q /\ k # p => dst'[<<c, k>>] = dst[<<c, k>>]
        /\ \A y \in Conn \ {c} : pClientSocket'[y] = pClientSocket[y]
        /\ \A y \in Conn \ {c}, k \in Number : dst'[<<y, k>>] = dst[<<y, k>>]
                                               /\ host'[<<y, k>>] = host[<<y, k>>]
    <3>1. pClientSocket'[c] = q /\ \A y \in Conn \ {c} : pClientSocket'[y] = pClientSocket[y]
      BY <1>0, <2>1 DEF TypeOK
    <3>2. Current(c)' = <<c, q>>
      BY <3>1 DEF Current
    <3> HIDE DEF p
    <3>3. /\ dst'[<<c, q>>] = "connecting" /\ dst'[<<c, p>>] = "closing"
          /\ \A k \in Number : k # q /\ k # p => dst'[<<c, k>>] = dst[<<c, k>>]
          /\ \A y \in Conn \ {c}, k \in Number : dst'[<<y, k>>] = dst[<<y, k>>]
      BY <1>0, <1>6, <2>1, <2>2 DEF TypeOK
    <3>4. /\ host'[<<c, q>>] = h /\ host' \in [Dest -> Host \cup {NoHost}]
          /\ \A k \in Number : k # q => host'[<<c, k>>] = host[<<c, k>>]
          /\ \A y \in Conn \ {c}, k \in Number : host'[<<y, k>>] = host[<<y, k>>]
      BY <1>0, <1>1, <1>6, <2>1, <2>2 DEF BytesTyped
    <3> QED
      BY <3>1, <3>2, <3>3, <3>4
  <2>4. BytesTyped'
    BY <1>0, <1>4, <1>5, <2>3 DEF BytesTyped, Passes
  <2>5. \A y \in Conn \ {c} : Unmoved(y) /\ Settling(y)
    <3> SUFFICES ASSUME NEW y \in Conn \ {c} PROVE Unmoved(y) /\ Settling(y)
      OBVIOUS
    <3> HIDE DEF p
    <3>1. /\ got'[y] = got[y] /\ nread'[y] = nread[y] /\ details'[y] = details[y]
          /\ pClientSocket'[y] = pClientSocket[y]
          /\ \A k \in Number : inbox'[<<y, k>>] = inbox[<<y, k>>] /\ host'[<<y, k>>] = host[<<y, k>>]
                                /\ dst'[<<y, k>>] = dst[<<y, k>>]
      <4>1. got'[y] = got[y]
        BY <2>1
      <4>2. nread'[y] = nread[y] /\ details'[y] = details[y]
        BY <1>0, <1>4
      <4>3. \A k \in Number : inbox'[<<y, k>>] = inbox[<<y, k>>]
        BY <1>5
      <4>4. /\ pClientSocket'[y] = pClientSocket[y]
            /\ \A k \in Number : host'[<<y, k>>] = host[<<y, k>>] /\ dst'[<<y, k>>] = dst[<<y, k>>]
        BY <2>3
      <4> QED
        BY <4>1, <4>2, <4>3, <4>4
    <3>2. Unmoved(y)
      BY <3>1 DEF Unmoved, Passes
    <3>3. Settling(y)
      BY <3>1 DEF Settling, Passes
    <3> QED
      BY <3>2, <3>3
  <2>6. HostsRight(c)'
    <3>1. HostsRight(c)
      BY <1>0 DEF Served
    <3>2. \A k \in Number : k # q \/ inbox'[<<c, k>>] = <<>>
      BY <1>5, <2>2
    <3>3. ASSUME NEW k \in Number, NEW i \in 1 .. Len(inbox'[<<c, k>>])
          PROVE  LET r == inbox'[<<c, k>>][i].req IN
                 /\ r \in 1 .. Len(asked[c]) /\ host'[<<c, k>>] \in Host
                 /\ Name[asked[c][r].host] = Name[host'[<<c, k>>]]
      <4>1. k # q
        <5>1. i \notin 1 .. Len(<<>>)
          OBVIOUS
        <5> QED
          BY <3>2, <3>3, <5>1
      <4>2. inbox'[<<c, k>>] = inbox[<<c, k>>] /\ host'[<<c, k>>] = host[<<c, k>>]
        BY <1>5, <2>3, <4>1
      <4> QED
        BY <3>1, <3>3, <4>2 DEF HostsRight
    <3> QED
      BY <3>3 DEF HostsRight, Passes
  <2>7. Numbers(c)'
    <3>1. \A k \in Number : /\ k > q => k > p /\ k # p /\ k # q
                            /\ k <= q => k = q \/ k <= p
      <4> HIDE DEF p
      <4> QED
        BY <1>6, <2>2 DEF Number
    <3>2. /\ \A k \in Number : k > p => dst[<<c, k>>] = "none" /\ inbox[<<c, k>>] = <<>>
          /\ \A k \in Number : k <= p => dst[<<c, k>>] # "none"
      BY <1>0, <1>6 DEF Numbers
    <3> HIDE DEF p
    <3>3. \A k \in Number : k > q => dst'[<<c, k>>] = "none" /\ inbox'[<<c, k>>] = <<>>
      <4> SUFFICES ASSUME NEW k \in Number, k > q PROVE dst'[<<c, k>>] = "none" /\ inbox'[<<c, k>>] = <<>>
        OBVIOUS
      <4>1. k # p /\ k # q /\ dst[<<c, k>>] = "none" /\ inbox[<<c, k>>] = <<>>
        BY <3>1, <3>2
      <4>2. dst'[<<c, k>>] = dst[<<c, k>>]
        BY <2>3, <4>1
      <4>3. inbox'[<<c, k>>] = inbox[<<c, k>>]
        BY <1>5
      <4> QED
        BY <4>1, <4>2, <4>3
    <3>4. \A k \in Number : k <= q => dst'[<<c, k>>] # "none"
      <4> SUFFICES ASSUME NEW k \in Number, k <= q PROVE dst'[<<c, k>>] # "none"
        OBVIOUS
      <4>1. CASE k = q
        BY <2>3, <4>1
      <4>2. CASE k = p
        BY <2>3, <4>2
      <4>3. CASE k # p /\ k # q
        BY <2>3, <3>1, <3>2, <4>3
      <4> QED
        BY <4>1, <4>2, <4>3
    <3>5. \A k \in Number : k # q => dst'[<<c, k>>] \in {"none", "closing", "unlinked", "deleted"}
      <4> SUFFICES ASSUME NEW k \in Number, k # q
                   PROVE  dst'[<<c, k>>] \in {"none", "closing", "unlinked", "deleted"}
        OBVIOUS
      <4>1. CASE k = p
        BY <2>3, <4>1
      <4>2. CASE k # p
        BY <1>12, <2>3, <4>2
      <4> QED
        BY <4>1, <4>2
    <3> QED
      BY <2>3, <3>3, <3>4, <3>5 DEF Numbers
  <2>8. KeptBack(c)'
    <3>1. \A i \in 1 .. Len(rest) : rest[i].req = R
      <4> HIDE DEF R
      <4>1. \A i \in 1 .. Len(buf) : buf[i].req = R
        BY <1>1 DEF OneHeader
      <4> QED
        BY <4>1 DEF SameBytes
    <3>2. \A i \in 1 .. Len(rest) : Name[asked[c][rest[i].req].host] = Name[h]
      BY <3>1
    <3>3. nread'[c] = Len(sent'[c]) /\ asked'[c] = asked[c] /\ ~details'[c].bConncted
      BY <1>0, <1>1, <1>3 DEF Passes
    <3> QED
      BY <1>7, <2>3, <3>2, <3>3 DEF KeptBack
  <2>9. Passing(c)'
    <3>1. details'[c].to = Name[h] /\ details'[c].bAnswerd
      BY <1>3, <1>a
    <3>2. sock'[c] = "open" => \A i \in 1 .. Len(got'[c]) : got'[c][i].part # 502
      BY <1>2, <2>1 DEF Passing, Passes
    <3> QED
      BY <1>1, <1>9, <2>3, <2>8, <3>1, <3>2, SMTT(30) DEF Passing
  <2>10. Relaying(c)'
    BY <1>0, <1>3, <1>11, <2>2, <2>3, <2>9 DEF Relaying, Passes
  <2>11. Kept(c)'
    BY <1>9, <1>11, <2>7, <2>10 DEF Kept, Passes
  <2>12. got'[c] = got[c]
    BY <2>1
  <2> QED
    BY <2>4, <2>5, <2>6, <2>11, <2>12, PassesServed
<1> QED
  BY <1>13, <1>14

\* OnDataRecievedClient, in all its branches.
LEMMA RelayClientKept ==
  ASSUME ProxyInv, KeptInv, NEW c \in Conn, NEW n \in DOMAIN Available(c), RelayClient(c, n)
  PROVE  KeptInv'
<1> USE DEF lists, ends, dests, client
<1> DEFINE data == SubSeq(Available(c), 1, n)
           buf == details[c].strBuffer \o data
           last == LoopEnd(c, buf)
           lines == BareLines(buf, last)
           first == SubSeq(lines, 1, last - 1)
           rest == SubSeq(lines, last, Len(buf))
           det == [details[c] EXCEPT !.strBuffer = rest]
           h == HostOf(c, SubSeq(buf, last, Len(buf)))
           R == Len(asked[c])
<1>1. CASE pClientSocket[c] = 0
  <2>1. BytesKept /\ UNCHANGED <<m_vConnections, dst, sock>>
    BY <1>1 DEF RelayClient, BytesKept
  <2> QED
    BY <2>1, SocketsSettle, Settled
<1>2. CASE pClientSocket[c] # 0
  <2>1. Passes(c, n)
    BY <1>2 DEF RelayClient, Passes
  <2>2. CASE ~details[c].bAnswerd \/ details[c].connect
    <3>1. /\ inbox' = Write(Current(c), SubSeq(Available(c), 1, n))
          /\ UNCHANGED <<m_vReferencList, details, pClientSocket, dst, host, got>>
      BY <1>2, <2>2 DEF RelayClient
    <3> QED
      BY <2>1, <2>2, <3>1, DirectKept
  <2>3. CASE details[c].bAnswerd /\ ~details[c].connect
    <3>1. /\ inbox' = Write(Current(c), first)
          /\ \/ /\ Others(c, buf) = {}
                /\ details' = [details EXCEPT ![c] = det]
                /\ UNCHANGED <<m_vReferencList, pClientSocket, dst, host, got>>
             \/ /\ Others(c, buf) # {}
                /\ details' = [details EXCEPT ![c] = [det EXCEPT !.to = NameOf(h), !.bConncted = FALSE]]
                /\ \E fails \in MayFail("switch") : ConnectTo(c, h, Close(Current(c)), fails)
      BY <1>2, <2>3 DEF RelayClient
    <3>2. buf = Buffer(c) \o SubSeq(Available(c), 1, n)
      BY DEF Buffer
    <3>3. OneHeader(buf, R)
      BY <2>1, <2>3, <3>2, ReadOneHeader
    <3>4. /\ first \in Seq(Byte) /\ rest \in Seq(Byte)
          /\ \/ /\ Others(c, buf) = {} /\ first = <<>> /\ rest = buf
                /\ \A i \in 1 .. Len(buf) : buf[i].part = 1
             \/ /\ Others(c, buf) = {} /\ SameBytes(first, buf) /\ rest = <<>>
                /\ NameOf(asked[c][R].host) = details[c].to
             \/ /\ Others(c, buf) # {} /\ first = <<>> /\ SameBytes(rest, buf)
                /\ buf[Len(buf)].part = 2
                /\ h = asked[c][R].host
      <4> HIDE DEF buf, R
      <4> QED
        BY <3>3, LoopStops
    <3> HIDE DEF buf, first, rest, h
    <3>5. CASE Others(c, buf) = {}
      <4>1. /\ details' = [details EXCEPT ![c] = [details[c] EXCEPT !.strBuffer = rest]]
            /\ UNCHANGED <<m_vReferencList, pClientSocket, dst, host, got>>
        BY <3>1, <3>5
      <4>2. /\ first \in Seq(Byte) /\ rest \in Seq(Byte)
            /\ \/ first = <<>> /\ rest = buf /\ \A i \in 1 .. Len(buf) : buf[i].part = 1
               \/ SameBytes(first, buf) /\ rest = <<>>
                  /\ NameOf(asked[c][Len(asked[c])].host) = details[c].to
        BY <3>4, <3>5
      <4>3. inbox' = Write(Current(c), first)
        BY <3>1
      <4> QED
        BY <2>1, <2>3, <3>2, <4>1, <4>2, <4>3, LoopedKept
    <3>6. CASE Others(c, buf) # {}
      <4>1. PICK fails \in MayFail("switch") : ConnectTo(c, h, Close(Current(c)), fails)
        BY <3>1, <3>6
      <4>2. fails \in BOOLEAN
        BY DEF MayFail
      <4>3. /\ details' = [details EXCEPT ![c] =
                 [[details[c] EXCEPT !.strBuffer = rest] EXCEPT !.to = NameOf(h), !.bConncted = FALSE]]
            /\ inbox' = Write(Current(c), <<>>)
        BY <3>1, <3>4, <3>6
      <4> QED
        BY <2>1, <2>3, <3>2, <3>4, <3>6, <4>1, <4>2, <4>3, SwitchKept, ZenonT(40)
    <3> QED
      BY <3>5, <3>6
  <2> QED
    BY <2>2, <2>3
<1> QED
  BY <1>1, <1>2

-----------------------------------------------------------------------------
(* Connected *)

\* The destination of a connection is there.
There(c) ==
  /\ c \in m_vConnections /\ Connecting(c) /\ host[Current(c)] # NoHost
  /\ dst' = [dst EXCEPT ![Current(c)] = "open"] /\ relay' = relay \cup {c}
  /\ UNCHANGED <<m_vConnections, pClientSocket, sock, held, host, back, dheld, asked, sent,
                 nread, replied, late>>

\* What is left to show for Connected: what it changes.
LEMMA ThereServed ==
  ASSUME ProxyInv, KeptInv, NEW c \in Conn, There(c), BytesTyped', HostsRight(c)',
         InOrder(c)', AnsweredWritten(c)', Relaying(c)', details'[c].bConncted,
         got'[c] = got[c] \/ got'[c] = got[c] \o <<Established>>,
         \A x \in Conn \ {c} : got'[x] = got[x] /\ details'[x] = details[x],
         \A x \in Conn \ {c}, k \in Number : inbox'[<<x, k>>] = inbox[<<x, k>>],
         \A k \in Number : k # pClientSocket[c] => inbox'[<<c, k>>] = inbox[<<c, k>>]
  PROVE  KeptInv'
<1> DEFINE p == pClientSocket[c]
<1>0. /\ TypeOK /\ BytesTyped /\ Served(c) /\ Kept(c) /\ Numbers(c) /\ LateSettled(c)
      /\ c \in m_vConnections /\ sock[c] # "new"
  BY DEF ProxyInv, KeptInv, Served, Kept, There, NewIsFresh
<1>1. /\ p \in Number /\ p \in Nat /\ p # 0 /\ Current(c) = <<c, p>> /\ dst[<<c, p>>] = "connecting"
      /\ Current(c)' = <<c, p>> /\ \A x \in Conn, k \in Number : <<x, k>> \in Dest
  <2>1. /\ p \in Number /\ p \in Nat /\ p # 0 /\ Current(c) = <<c, p>> /\ dst[<<c, p>>] = "connecting"
        /\ \A x \in Conn, k \in Number : <<x, k>> \in Dest
    BY <1>0, CurrentNumber DEF There, Connecting
  <2> QED
    BY <2>1 DEF Current, There
<1>2. /\ dst'[<<c, p>>] = "open" /\ \A k \in Number : k # p => dst'[<<c, k>>] = dst[<<c, k>>]
      /\ \A x \in Conn \ {c}, k \in Number : dst'[<<x, k>>] = dst[<<x, k>>]
  <2>1. dst' = [dst EXCEPT ![<<c, p>>] = "open"]
    BY <1>1 DEF There
  <2> HIDE DEF p
  <2> QED
    BY <1>0, <1>1, <2>1 DEF TypeOK
<1>3. \A x \in Conn \ {c} : Unmoved(x) /\ Settling(x)
  <2> SUFFICES ASSUME NEW x \in Conn \ {c} PROVE Unmoved(x) /\ Settling(x)
    OBVIOUS
  <2>1. Unmoved(x)
    BY DEF Unmoved, There
  <2>2. Settling(x)
    BY <1>2 DEF Settling, There
  <2> QED
    BY <2>1, <2>2
<1>4. Numbers(c)'
  <2>1. \A k \in Number : k > p => k # p
    <3> HIDE DEF p
    <3> QED
      BY <1>1 DEF Number
  <2>2. pClientSocket'[c] = p
    BY DEF There
  <2>3. /\ \A k \in Number : k > p => dst[<<c, k>>] = "none" /\ inbox[<<c, k>>] = <<>>
        /\ \A k \in Number : k <= p => dst[<<c, k>>] # "none"
        /\ \A k \in Number : k # p => dst[<<c, k>>] \in {"none", "closing", "unlinked", "deleted"}
    BY <1>0, <1>1 DEF Numbers
  <2>4. \A k \in Number : k # p => inbox'[<<c, k>>] = inbox[<<c, k>>]
    OBVIOUS
  <2> HIDE DEF p
  <2>5. \A k \in Number : k <= p => dst'[<<c, k>>] # "none"
    <3> SUFFICES ASSUME NEW k \in Number, k <= p PROVE dst'[<<c, k>>] # "none"
      OBVIOUS
    <3>1. CASE k = p
      BY <1>2, <3>1
    <3>2. CASE k # p
      BY <1>2, <2>3, <3>2
    <3> QED
      BY <3>1, <3>2
  <2>6. /\ \A k \in Number : k > p => dst'[<<c, k>>] = "none" /\ inbox'[<<c, k>>] = <<>>
        /\ \A k \in Number : k # p => dst'[<<c, k>>] \in {"none", "closing", "unlinked", "deleted"}
    BY <1>2, <2>1, <2>3, <2>4
  <2> QED
    BY <2>2, <2>5, <2>6 DEF Numbers
<1>5. LateSettled(c)' /\ Accounted(c)'
  BY <1>0 DEF LateSettled, There, Accounted
<1>6. Kept(c)'
  BY <1>4, <1>5 DEF Kept, There
<1>7. EndOnce(Answered(c))' /\ EndsGiven(Answered(c), replied[c])'
  <2>1. Established \in {BadGateway, Established}
    OBVIOUS
  <2> QED
    BY <1>0, <2>1, ToldAnswers DEF There
<1>8. Untouched(c)' /\ OnlyAnswers(c)' /\ SentFor(sent[c], asked[c])'
  BY <1>0 DEF Served, There, Untouched, OnlyAnswers, FromAnswers
<1>9. Served(c)'
  BY <1>6, <1>7, <1>8 DEF Served
<1> QED
  BY <1>3, <1>9, OneServed

\* What was kept is written, and kept no more.
LEMMA InOrderSent ==
  ASSUME TypeOK, BytesTyped, NEW c \in Conn, InOrder(c), ~details[c].connect, ~details'[c].connect,
         held'[c] = held[c], sent'[c] = sent[c], nread'[c] = nread[c], Buffer(c)' = <<>>,
         Written(c)' = Written(c) \o Buffer(c)
  PROVE  InOrder(c)' /\ Len(Written(c)') >= Len(Written(c)) /\ Len(Written(c)') \in Nat
<1> DEFINE s == sent[c]
           v == Written(c)
           w == Len(v)
           N == nread[c]
           S == Len(s)
           b == Buffer(c)
           L == Len(b)
           H == Len(held[c])
           vv == Written(c)'
<1>1. /\ v \in Seq(Byte) /\ b \in Seq(Byte) /\ w \in Nat /\ N \in Nat /\ S \in Nat /\ L \in Nat /\ H \in Nat
  BY Typed
<1>2. /\ Follows(v, s, 0) /\ vv = v \o b /\ N = w + L + H /\ N <= S
      /\ Follows(b, s, w) /\ Follows(held[c], s, w + L)
  BY DEF InOrder
<1>3. nread'[c] = N /\ sent'[c] = s /\ held'[c] = held[c] /\ Len(held'[c]) = H /\ Len(sent'[c]) = S
  OBVIOUS
<1>4. w = Len(v) /\ L = Len(b) /\ Written(c)' = vv
  OBVIOUS
<1> HIDE DEF s, v, w, N, S, b, L, H, vv
<1>5. Len(vv) = w + L /\ Len(<<>>) = 0
  <2>1. Len(v \o b) = Len(v) + Len(b)
    BY <1>1, Cat
  <2> QED
    BY <1>2, <1>4, <2>1
<1>6. Follows(vv, s, 0)
  <2>1. 0 + Len(v) = w
    BY <1>1, <1>4
  <2> QED
    BY <1>1, <1>2, <2>1, FollowsJoin
<1>7. /\ N = (w + L) + 0 + H /\ w + L + 0 = w + L /\ w + L >= w /\ w + L \in Nat
      /\ Follows(<<>>, s, w + L)
  BY <1>1, <1>2, FollowsNothing
<1>8. InOrder(c)'
  BY <1>2, <1>3, <1>4, <1>5, <1>6, <1>7 DEF InOrder
<1> QED
  BY <1>4, <1>5, <1>7, <1>8 DEF v, w

\* A tunnel is told of, and what has been kept stays.
LEMMA ThereTunnel ==
  ASSUME ProxyInv, KeptInv, NEW c \in Conn, There(c), Waiting(c), details[c].connect,
         details' = [details EXCEPT ![c] = [@ EXCEPT !.bConncted = TRUE]],
         got' = Told(c, <<Established>>), UNCHANGED inbox
  PROVE  KeptInv'
<1>0. /\ TypeOK /\ BytesTyped /\ Served(c) /\ Kept(c) /\ InOrder(c) /\ c \notin late
      /\ FirstKept(c) /\ FirstAsked(c) /\ NoneThere(c) /\ Tunnel(c) /\ pClientSocket[c] # 0
  BY DEF ProxyInv, KeptInv, Served, Kept, There, LateSettled, Waiting, FirstKept, Connecting,
         Accounted
<1>1. /\ details'[c] \in Details /\ details'[c].strBuffer = Buffer(c) /\ details'[c].connect
      /\ details'[c].to = details[c].to /\ details'[c].bConncted = TRUE
      /\ details'[c].bAnswerd = details[c].bAnswerd
  <2> DEFINE D == details[c]
  <2>1. D \in Details /\ D.connect /\ details'[c] = [D EXCEPT !.bConncted = TRUE]
    BY <1>0 DEF BytesTyped
  <2> HIDE DEF D
  <2>2. LET E == [D EXCEPT !.bConncted = TRUE] IN
        /\ E \in Details /\ E.strBuffer = D.strBuffer /\ E.connect = D.connect /\ E.to = D.to
        /\ E.bConncted = TRUE /\ E.bAnswerd = D.bAnswerd
    BY <2>1 DEF Details
  <2>3. /\ details'[c] \in Details /\ details'[c].strBuffer = D.strBuffer /\ details'[c].connect = D.connect
        /\ details'[c].to = D.to /\ details'[c].bConncted = TRUE
        /\ details'[c].bAnswerd = D.bAnswerd
    BY <2>1, <2>2
  <2> QED
    BY <2>1, <2>3 DEF D, Buffer
<1>2. details' \in [Conn -> Details] /\ \A x \in Conn \ {c} : details'[x] = details[x]
  <2>1. details \in [Conn -> Details]
    BY <1>0 DEF BytesTyped
  <2> QED
    BY <1>1, <2>1
<1>3. /\ got'[c] = got[c] \/ got'[c] = got[c] \o <<Established>>
      /\ \A x \in Conn \ {c} : got'[x] = got[x]
  BY <1>0 DEF Told, TypeOK
<1>4. Len(Buffer(c)) = 2 /\ held[c] = <<>>
  <2> DEFINE n == Len(Buffer(c))
             w == Len(Written(c))
             H == Len(held[c])
  <2>1. /\ n \in Nat /\ w \in Nat /\ H \in Nat /\ nread[c] = w + n + H /\ nread[c] <= 2 /\ n >= 2
        /\ held[c] \in Seq(Byte)
    BY <1>0, Typed DEF InOrder, FirstKept, FirstAsked
  <2>2. n = 2 /\ H = 0
    <3> HIDE DEF n, w, H
    <3> QED
      BY <2>1
  <2> QED
    BY <2>1, <2>2
<1>5. /\ host[Current(c)] = asked[c][1].host /\ asked[c] # <<>>
  BY <1>0 DEF FirstAsked, There, Tunnel
<1>6. BytesTyped'
  BY <1>0, <1>2 DEF BytesTyped, There
<1>7. HostsRight(c)'
  BY <1>0 DEF Served, HostsRight, There
<1>8. Written(c)' = Written(c) /\ Buffer(c)' = Buffer(c) /\ Tunnel(c)' = Tunnel(c)
  <2>1. Written(c)' = Written(c)
    BY WrittenSame
  <2> QED
    BY <1>1, <2>1 DEF Buffer, Tunnel, There
<1>9. InOrder(c)'
  BY <1>0, <1>1, <1>8 DEF InOrder, There
<1>10. AnsweredWritten(c)'
  BY <1>0, <1>8 DEF AnsweredWritten
<1>11. Current(c)' = Current(c) /\ ~Connecting(c)'
  <2>1. Current(c)' = Current(c)
    BY DEF Current, There
  <2>2. Current(c) \in Dest
    BY <1>0, CurrentNumber
  <2>3. dst'[Current(c)] = "open"
    BY <1>0, <2>2 DEF There, TypeOK
  <2> QED
    BY <2>1, <2>3 DEF Connecting
<1>12. Relaying(c)'
  <2>1. ThroughTunnel(c)'
    BY <1>0, <1>4, <1>5, <1>8, <1>11 DEF ThroughTunnel, There
  <2> QED
    BY <1>0, <1>1, <1>4, <1>5, <1>8, <2>1 DEF Relaying, There
<1> QED
  BY <1>1, <1>2, <1>3, <1>6, <1>7, <1>9, <1>10, <1>12, ThereServed

\* What has been kept is written.
LEMMA ThereWritten ==
  ASSUME ProxyInv, KeptInv, NEW c \in Conn, There(c), ~details[c].connect,
         details' = [details EXCEPT ![c] =
                       [[@ EXCEPT !.bConncted = TRUE] EXCEPT !.strBuffer = <<>>]],
         inbox' = Write(Current(c), Buffer(c)), UNCHANGED got
  PROVE  KeptInv'
<1> DEFINE p == pClientSocket[c]
<1>0. /\ TypeOK /\ BytesTyped /\ Served(c) /\ Kept(c) /\ InOrder(c) /\ Numbers(c) /\ c \notin late
      /\ p # 0 /\ HostsRight(c)
  BY DEF ProxyInv, KeptInv, Served, Kept, There, LateSettled, Connecting, Accounted
<1>1. /\ details'[c] \in Details /\ details'[c].strBuffer = <<>> /\ ~details'[c].connect
      /\ details'[c].to = details[c].to /\ details'[c].bConncted = TRUE
      /\ details'[c].bAnswerd = details[c].bAnswerd
  <2> DEFINE D == details[c]
  <2>0. <<>> \in Seq(Byte)
    OBVIOUS
  <2>1. D \in Details /\ ~D.connect /\ details'[c] = [[D EXCEPT !.bConncted = TRUE] EXCEPT !.strBuffer = <<>>]
    BY <1>0 DEF BytesTyped
  <2> HIDE DEF D
  <2>2. LET E == [[D EXCEPT !.bConncted = TRUE] EXCEPT !.strBuffer = <<>>] IN
        /\ E \in Details /\ E.strBuffer = <<>> /\ E.connect = D.connect /\ E.to = D.to
        /\ E.bConncted = TRUE /\ E.bAnswerd = D.bAnswerd
    BY <2>0, <2>1 DEF Details
  <2>3. /\ details'[c] \in Details /\ details'[c].strBuffer = <<>> /\ details'[c].connect = D.connect
        /\ details'[c].to = D.to /\ details'[c].bConncted = TRUE
        /\ details'[c].bAnswerd = D.bAnswerd
    BY <2>1, <2>2
  <2> QED
    BY <2>1, <2>3 DEF D
<1>2. details' \in [Conn -> Details] /\ \A x \in Conn \ {c} : details'[x] = details[x]
  <2>1. details \in [Conn -> Details]
    BY <1>0 DEF BytesTyped
  <2> QED
    BY <1>1, <2>1
<1>3. /\ Buffer(c) \in Seq(Byte) /\ Len(asked[c]) \in Nat
      /\ \A i \in 1 .. Len(Buffer(c)) : Buffer(c)[i].req \in 1 .. Len(asked[c])
  BY <1>0, Typed, BufferReqs DEF Served
<1>4. /\ Written(c)' = Written(c) \o Buffer(c) /\ inbox' \in [Dest -> Seq(Byte)]
      /\ inbox'[Current(c)] = inbox[Current(c)] \o Buffer(c)
      /\ \A k \in Number : k # p => inbox'[<<c, k>>] = inbox[<<c, k>>]
      /\ \A x \in Conn \ {c}, k \in Number : inbox'[<<x, k>>] = inbox[<<x, k>>]
  BY <1>0, <1>3, WriteWritten
<1>5. p \in Number /\ Current(c) = <<c, p>> /\ Current(c) \in Dest
  BY <1>0, CurrentNumber
<1>6. BytesTyped'
  BY <1>0, <1>2, <1>4 DEF BytesTyped, There
<1>7. Buffer(c)' = <<>> /\ Tunnel(c)' = Tunnel(c)
  BY <1>1 DEF Buffer, Tunnel, There
<1>8. InOrder(c)' /\ Len(Written(c)') >= Len(Written(c)) /\ Len(Written(c)') \in Nat
  BY <1>0, <1>1, <1>4, <1>7, InOrderSent DEF There
<1>9. AnsweredWritten(c)' /\ (AfterAnswer(c) => AfterAnswer(c)')
  BY <1>0, <1>8, WrittenMore DEF Kept, There
<1>10. Current(c)' = Current(c) /\ ~Connecting(c)'
  <2>1. Current(c)' = Current(c)
    BY DEF Current, There
  <2>3. dst'[Current(c)] = "open"
    BY <1>0, <1>5 DEF There, TypeOK
  <2> QED
    BY <2>1, <2>3 DEF Connecting
<1>11. /\ host[Current(c)] \in Host /\ details[c].to = Name[host[Current(c)]]
       /\ asked[c] # <<>> /\ ~Tunnel(c)
       /\ \A i \in 1 .. Len(Buffer(c)) :
            Name[asked[c][Buffer(c)[i].req].host] = Name[host[Current(c)]]
       /\ sock[c] = "open" => \A i \in 1 .. Len(got[c]) : got[c][i].part # 502
       /\ ~details[c].bAnswerd => Len(asked[c]) = 1 /\ host[Current(c)] = asked[c][1].host
                                  /\ (sock[c] = "open" => got[c] = <<>>)
       /\ details[c].bAnswerd => AfterAnswer(c)
  <2>0. host[Current(c)] \in Host
    BY <1>0, <1>5 DEF There, BytesTyped
  <2>1. CASE c \notin relay
    <3>1. /\ ~Tunnel(c) /\ Len(asked[c]) = 1 /\ host[Current(c)] = asked[c][1].host
          /\ details[c].to = Name[host[Current(c)]] /\ (sock[c] = "open" => got[c] = <<>>)
          /\ ~details[c].bAnswerd
      BY <1>0, <2>1 DEF Kept, Waiting, FirstAsked, NoneThere, There
    <3>2. \A i \in 1 .. Len(Buffer(c)) : Buffer(c)[i].req = 1
      BY <1>3, <3>1
    <3>3. asked[c] # <<>>
      BY <3>1
    <3>4. \A i \in 1 .. Len(<<>>) : FALSE
      OBVIOUS
    <3> QED
      BY <2>0, <3>1, <3>2, <3>3, <3>4
  <2>2. CASE c \in relay
    <3>1. /\ Passing(c) /\ asked[c] # <<>> /\ ~Tunnel(c)
      BY <1>0, <2>2 DEF Kept, Relaying
    <3>2. details[c].bAnswerd /\ AfterAnswer(c)
      BY <1>0, <3>1 DEF Passing, BeforeAnswer, There
    <3> QED
      BY <2>0, <3>1, <3>2 DEF Passing, KeptBack, There
  <2> QED
    BY <2>1, <2>2
<1>12. HostsRight(c)'
  <2> DEFINE d == Current(c)
             u == Buffer(c)
  <2>1. ForHost(c, u, host[d])
    BY <1>3, <1>11 DEF ForHost
  <2>2. d \in Dest /\ d = <<c, p>> /\ p \in Number /\ inbox'[d] = inbox[d] \o u /\ u \in Seq(Byte)
    BY <1>3, <1>4, <1>5
  <2> HIDE DEF d, p, u
  <2>3. HostsOf(c, inbox', host)
    BY <1>0, <1>4, <2>1, <2>2, HostsWritten
  <2> QED
    BY <2>3 DEF HostsRight, HostsOf, There
<1>13. Relaying(c)'
  <2>1. ~details[c].bAnswerd => BeforeAnswer(c)'
    BY <1>1, <1>7, <1>10, <1>11 DEF BeforeAnswer, There
  <2>2. KeptBack(c)'
    <3>1. \A i \in 1 .. Len(<<>>) : FALSE
      OBVIOUS
    <3> QED
      BY <1>1, <1>7, <1>10, <3>1 DEF KeptBack
  <2>3. Passing(c)'
    BY <1>1, <1>9, <1>10, <1>11, <2>1, <2>2 DEF Passing, There
  <2>4. details[c].bAnswerd => held[c] = <<>>
    BY <1>0 DEF Kept, Waiting, NoneThere, Relaying, There
  <2> QED
    BY <1>0, <1>1, <1>7, <1>10, <1>11, <2>3, <2>4 DEF Relaying, There
<1>14. got'[c] = got[c] /\ \A x \in Conn \ {c} : got'[x] = got[x]
  OBVIOUS
<1> QED
  BY <1>1, <1>2, <1>4, <1>6, <1>8, <1>9, <1>12, <1>13, <1>14, ThereServed

\* Who is listed has no other socket that is in use.
LEMMA ListedCurrent ==
  ASSUME ProxyInv, KeptInv, NEW d \in Dest, Owner(d) \in m_vConnections,
         dst[d] \in {"connecting", "open", "ended", "dropped"}
  PROVE  /\ Listed(d) /\ pClientSocket[Owner(d)] # 0 /\ d = Current(Owner(d))
         /\ dst[d] \in {"connecting", "open", "ended"}
<1> DEFINE c == Owner(d)
           k == d[2]
<1>1. c \in Conn /\ k \in Number /\ d = <<c, k>> /\ k # 0 /\ Numbers(c)
  BY DEF Dest, Owner, Number, KeptInv, Served, Kept
<1>2. k = pClientSocket[c]
  BY <1>1 DEF Numbers
<1>3. d = Current(c) /\ pClientSocket[c] # 0
  BY <1>1, <1>2 DEF Current
<1>4. d \in m_vReferencList /\ dst[d] \in {"connecting", "open", "ended"}
  BY <1>3 DEF ProxyInv, CurrentListed
<1> QED
  BY <1>3, <1>4 DEF Listed

\* Connected, for a connection that is listed and for one that is gone.
LEMMA ConnectedKept ==
  ASSUME ProxyInv, KeptInv, NEW d \in Dest, Connected(d)
  PROVE  KeptInv'
<1> USE DEF lists, ends, dests, client
<1> DEFINE c == Owner(d)
           det == details[c]
<1>0. /\ TypeOK /\ c \in Conn /\ dst[d] \in {"connecting", "dropped"} /\ d = <<c, d[2]>> /\ d[2] \in Number
      /\ details[c] \in Details
  BY DEF ProxyInv, Connected, Owner, Dest, Number, KeptInv, BytesTyped
<1>1. CASE ~Listed(d)
  <2>1. /\ BytesKept /\ UNCHANGED <<m_vConnections, sock>>
        /\ \A e \in Dest : e # d => dst'[e] = dst[e]
    BY <1>0, <1>1 DEF Connected, BytesKept, TypeOK
  <2>2. ASSUME NEW x \in Conn PROVE Settling(x)
    <3>1. CASE x \in m_vConnections
      <4>1. ASSUME NEW k \in Number PROVE dst'[<<x, k>>] = dst[<<x, k>>]
        <5>1. <<x, k>> \in Dest
          BY DEF Dest, Number
        <5>2. <<x, k>> # d
          BY <1>0, <1>1, <3>1, ListedCurrent DEF Owner
        <5> QED
          BY <2>1, <5>1, <5>2
      <4> QED
        BY <2>1, <4>1 DEF Settling
    <3>2. CASE x \notin m_vConnections
      BY <2>1, <3>2 DEF Settling
    <3> QED
      BY <3>1, <3>2
  <2> QED
    BY <2>1, <2>2, Settled
<1>2. CASE Listed(d)
  <2>1. /\ c \in m_vConnections /\ pClientSocket[c] # 0 /\ d = Current(c) /\ dst[d] = "connecting"
    BY <1>0, <1>2, ListedCurrent DEF Listed
  <2>2. There(c)
    BY <1>2, <2>1 DEF Connected, There, Connecting
  <2>3. /\ got' = IF det.connect THEN Told(c, <<Established>>) ELSE got
        /\ inbox' = Sent(d, det)
        /\ details' = [details EXCEPT ![c] = AfterSent([det EXCEPT !.bConncted = TRUE])]
    BY <1>2 DEF Connected
  <2>4. [det EXCEPT !.bConncted = TRUE].connect = det.connect
    BY <1>0 DEF Details
  <2>5. CASE det.connect
    <3>1. /\ got' = Told(c, <<Established>>) /\ UNCHANGED inbox
          /\ details' = [details EXCEPT ![c] = [@ EXCEPT !.bConncted = TRUE]]
      BY <2>3, <2>4, <2>5 DEF Sent, AfterSent
    <3>2. c \notin relay
      <4>1. c \in m_vConnections => Kept(c)
        BY <1>0 DEF KeptInv, Served
      <4> QED
        BY <2>1, <2>2, <2>5, <4>1 DEF Kept, Relaying, ThroughTunnel, There
    <3>3. Waiting(c)
      BY <1>0, <2>1, <3>2 DEF KeptInv, Served, Kept
    <3> QED
      BY <1>0, <2>2, <2>5, <3>1, <3>3, ThereTunnel
  <2>6. CASE ~det.connect
    <3>1. /\ UNCHANGED got /\ inbox' = Write(Current(c), Buffer(c))
          /\ details' = [details EXCEPT ![c] = [[@ EXCEPT !.bConncted = TRUE] EXCEPT !.strBuffer = <<>>]]
      BY <2>1, <2>3, <2>4, <2>6 DEF Sent, AfterSent, Buffer
    <3> QED
      BY <1>0, <2>2, <2>6, <3>1, ThereWritten
  <2> QED
    BY <2>5, <2>6
<1> QED
  BY <1>1, <1>2

-----------------------------------------------------------------------------
(* Answers on their way *)

\* Nothing moves between a client and its destinations.
NoBytes(c) ==
  /\ asked'[c] = asked[c] /\ sent'[c] = sent[c] /\ nread'[c] = nread[c] /\ held'[c] = held[c]
  /\ details'[c].strBuffer = details[c].strBuffer /\ details'[c].connect = details[c].connect
  /\ details'[c].to = details[c].to /\ pClientSocket'[c] = pClientSocket[c]
  /\ (c \in relay') = (c \in relay) /\ (c \in late') = (c \in late)
  /\ (c \in m_vConnections') = (c \in m_vConnections)
  /\ sock'[c] = sock[c] \/ sock'[c] = "closed"
  /\ \A k \in Number : host'[<<c, k>>] = host[<<c, k>>] /\ inbox'[<<c, k>>] = inbox[<<c, k>>]

\* At most the socket in use ends.
MayEnd(c) ==
  \A k \in Number :
    \/ dst'[<<c, k>>] = dst[<<c, k>>]
    \/ k = pClientSocket[c] /\ dst[<<c, k>>] \in {"connecting", "open"} /\ dst'[<<c, k>>] = "ended"

\* Where nothing is written or read, all that is about bytes stays.
LEMMA NoBytesKept ==
  ASSUME TypeOK, NEW c \in Conn, NoBytes(c)
  PROVE  /\ Written(c)' = Written(c) /\ Buffer(c)' = Buffer(c) /\ Tunnel(c)' = Tunnel(c)
         /\ Body(c)' = Body(c) /\ Current(c)' = Current(c)
         /\ pClientSocket[c] # 0 => host'[Current(c)] = host[Current(c)]
         /\ Accounted(c) => Accounted(c)'
         /\ Numbers(c) /\ MayEnd(c) => Numbers(c)'
         /\ MayEnd(c) => (Connecting(c)' => Connecting(c))
         /\ AfterAnswer(c) => AfterAnswer(c)'
<1>1. Written(c)' = Written(c)
  BY WrittenSame DEF NoBytes
<1>2. /\ Buffer(c)' = Buffer(c) /\ Tunnel(c)' = Tunnel(c) /\ Body(c)' = Body(c)
      /\ Current(c)' = Current(c)
  BY DEF NoBytes, Buffer, Tunnel, Body, BodyLen, Current
<1>3. pClientSocket[c] # 0 => pClientSocket[c] \in Number /\ Current(c) = <<c, pClientSocket[c]>>
  BY CurrentNumber
<1>4. pClientSocket[c] # 0 => host'[Current(c)] = host[Current(c)]
  BY <1>3 DEF NoBytes
<1>5. Accounted(c) => Accounted(c)'
  <2>1. InOrder(c) => InOrder(c)'
    BY <1>1, <1>2 DEF InOrder, NoBytes
  <2>2. Counted(c) => Counted(c)'
    BY <1>1, <1>2 DEF Counted, NoBytes
  <2>3. LeftOut(c) => LeftOut(c)'
    <3>1. ASSUME NEW p \in 1 .. nread[c], Missing(c, p) PROVE Missing(c, p)'
      BY <3>1 DEF Missing, HasPart, NoBytes
    <3>2. nread'[c] = nread[c]
      BY DEF NoBytes
    <3> QED
      BY <3>1, <3>2 DEF LeftOut
  <2>4. (c \in late') = (c \in late)
    BY DEF NoBytes
  <2> QED
    BY <2>1, <2>2, <2>3, <2>4 DEF Accounted
<1>6. ASSUME Numbers(c), MayEnd(c) PROVE Numbers(c)'
  <2>1. \A k \in Number : /\ dst'[<<c, k>>] = "none" <=> dst[<<c, k>>] = "none"
                          /\ inbox'[<<c, k>>] = inbox[<<c, k>>]
                          /\ k # pClientSocket[c] => dst'[<<c, k>>] = dst[<<c, k>>]
    BY <1>6 DEF MayEnd, NoBytes
  <2>2. pClientSocket'[c] = pClientSocket[c] /\ (c \in relay') = (c \in relay)
    BY DEF NoBytes
  <2> QED
    BY <1>6, <2>1, <2>2 DEF Numbers
<1>7. ASSUME MayEnd(c), Connecting(c)' PROVE Connecting(c)
  BY <1>2, <1>3, <1>7 DEF MayEnd, Connecting, NoBytes
<1>8. AfterAnswer(c) => AfterAnswer(c)'
  BY <1>1, <1>2 DEF AfterAnswer, NoBytes
<1> QED
  BY <1>1, <1>2, <1>4, <1>5, <1>6, <1>7, <1>8

\* Answers move on, and a socket may be closed.
LEMMA StaysRelayed ==
  ASSUME TypeOK, NEW c \in Conn, c \in relay, Kept(c), NoBytes(c), MayEnd(c), AnsweredWritten(c)',
         details'[c] = details[c], got'[c] = got[c], c \in late => replied'[c] = 0
  PROVE  Kept(c)'
<1>0. Accounted(c) /\ Numbers(c) /\ LateSettled(c) /\ Relaying(c)
  BY DEF Kept
<1>1. /\ Buffer(c)' = Buffer(c) /\ Tunnel(c)' = Tunnel(c) /\ Current(c)' = Current(c)
      /\ pClientSocket[c] # 0 => host'[Current(c)] = host[Current(c)]
      /\ Accounted(c)' /\ Numbers(c)' /\ (Connecting(c)' => Connecting(c))
      /\ AfterAnswer(c) => AfterAnswer(c)'
  BY <1>0, NoBytesKept
<1>2. /\ pClientSocket'[c] = pClientSocket[c] /\ (c \in relay') = (c \in relay)
      /\ (c \in late') = (c \in late) /\ asked'[c] = asked[c] /\ held'[c] = held[c]
      /\ sent'[c] = sent[c] /\ nread'[c] = nread[c] /\ (sock'[c] = "open" => sock[c] = "open")
  BY DEF NoBytes
<1>3. LateSettled(c)'
  BY <1>0, <1>1, <1>2 DEF LateSettled
<1>4. ThroughTunnel(c) => ThroughTunnel(c)'
  BY <1>1, <1>2 DEF ThroughTunnel
<1>5. pClientSocket[c] # 0 /\ Passing(c) => Passing(c)'
  <2>1. pClientSocket[c] # 0 /\ BeforeAnswer(c) => BeforeAnswer(c)'
    BY <1>1, <1>2 DEF BeforeAnswer
  <2>2. pClientSocket[c] # 0 /\ KeptBack(c) => KeptBack(c)'
    BY <1>1, <1>2 DEF KeptBack
  <2> QED
    BY <1>1, <1>2, <2>1, <2>2 DEF Passing
<1>6. Relaying(c)'
  BY <1>0, <1>1, <1>2, <1>4, <1>5 DEF Relaying
<1> QED
  BY <1>1, <1>2, <1>3, <1>6 DEF Kept

\* What is left to show where only answers move.
LEMMA AnswersServed ==
  ASSUME ProxyInv, KeptInv, NEW c \in Conn, NoBytes(c), sock[c] # "new", BytesTyped',
         EndOnce(Answered(c))', EndsGiven(Answered(c), replied[c])', OnlyAnswers(c)',
         c \in m_vConnections => Kept(c)', \A x \in Conn \ {c} : Unmoved(x) /\ Settling(x)
  PROVE  KeptInv'
<1>1. Served(c)
  BY DEF KeptInv
<1>2. Untouched(c)' /\ SentFor(sent[c], asked[c])' /\ HostsRight(c)'
  BY <1>1, SMTT(30) DEF Served, Untouched, HostsRight, NoBytes
<1>3. Served(c)'
  BY <1>2 DEF Served, NoBytes
<1> QED
  BY <1>3, OneServed

\* What came before the answers stays what was given.
LEMMA FromMore ==
  ASSUME NEW s, NEW n \in Nat, NEW m \in Nat, n <= m, FromAnswers(s, n)
  PROVE  FromAnswers(s, m)
BY DEF FromAnswers

\* Only who is served has a socket that is open, or something read from one.
LEMMA OpenRelayed ==
  ASSUME ProxyInv, KeptInv, NEW d \in Dest, dst[d] = "open" \/ dheld[d] # <<>>
  PROVE  /\ TypeOK /\ BytesTyped /\ Owner(d) \in Conn /\ Served(Owner(d)) /\ sock[Owner(d)] # "new"
         /\ Owner(d) \in m_vConnections => Owner(d) \in relay /\ Kept(Owner(d))
         /\ d[2] \in Number /\ d = <<Owner(d), d[2]>>
<1> DEFINE c == Owner(d)
           k == d[2]
<1>1. /\ TypeOK /\ BytesTyped /\ c \in Conn /\ k \in Number /\ d = <<c, k>> /\ Served(c)
  BY DEF ProxyInv, KeptInv, Owner, Dest, Number
<1>2. sock[c] # "new"
  BY <1>1 DEF Served, Untouched, ProxyInv, NewIsFresh, Number
<1>3. c \in m_vConnections => c \in relay /\ Kept(c)
  BY <1>1 DEF Served, Kept, Waiting, NoneThere
<1> QED
  BY <1>1, <1>2, <1>3

\* Only answers move: those of other connections stay.
AnswersMove(c) ==
  UNCHANGED <<m_vConnections, pClientSocket, relay, held, host, inbox, asked, sent, nread, late>>
  /\ \A x \in Conn \ {c} : /\ got'[x] = got[x] /\ details'[x] = details[x] /\ replied'[x] = replied[x]
                           /\ sock'[x] = sock[x]
                           /\ \A k \in Number : /\ back'[<<x, k>>] = back[<<x, k>>]
                                                /\ dheld'[<<x, k>>] = dheld[<<x, k>>]
                                                /\ dst'[<<x, k>>] = dst[<<x, k>>]

\* The answers of other connections stay where they are.
LEMMA OthersUnmoved ==
  ASSUME NEW c \in Conn, AnswersMove(c)
  PROVE  \A x \in Conn \ {c} : Unmoved(x) /\ Settling(x)
<1> SUFFICES ASSUME NEW x \in Conn \ {c} PROVE Unmoved(x) /\ Settling(x)
  OBVIOUS
<1>1. Unmoved(x)
  BY DEF AnswersMove, Unmoved
<1>2. Settling(x)
  BY DEF AnswersMove, Settling
<1> QED
  BY <1>1, <1>2

\* A connection whose strBuffer was extended too late has sent one request, of which
\* its destination never has all: it does not answer.
LEMMA ArrivedNotLate ==
  ASSUME ProxyInv, KeptInv, NEW d \in Dest, NEW r \in DOMAIN asked[Owner(d)], Arrived(d, r),
         Owner(d) \in m_vConnections, Owner(d) \in relay
  PROVE  Owner(d) \notin late
<1> DEFINE c == Owner(d)
           k == d[2]
           A == asked[c]
           N == nread[c]
           S == Len(sent[c])
<1> SUFFICES ASSUME c \in late PROVE FALSE
  OBVIOUS
<1>1. /\ TypeOK /\ BytesTyped /\ c \in Conn /\ k \in Number /\ d = <<c, k>> /\ Served(c) /\ Kept(c)
  BY DEF ProxyInv, KeptInv, Owner, Dest, Number, Served
<1>2. Accounted(c) /\ LateSettled(c) /\ Relaying(c) /\ SentFor(sent[c], A) /\ inbox[d] \in Seq(Byte)
      /\ A \in Seq(Request)
  <2>1. inbox[d] \in Seq(Byte) /\ A \in Seq(Request)
    BY <1>1 DEF BytesTyped
  <2> QED
    BY <1>1, <2>1 DEF Kept, Served
<1>3. BeforeAnswer(c) /\ ~Tunnel(c)
  BY <1>2 DEF LateSettled, Relaying, ThroughTunnel, Passing
<1>4. Len(A) = 1 /\ r = 1 /\ A # <<>> /\ ~A[1].connect
  <2>1. Len(A) = 1
    BY <1>3 DEF BeforeAnswer
  <2>2. A # <<>>
    <3>1. Len(A) # Len(<<>>)
      BY <2>1
    <3> QED
      BY <3>1
  <2>3. r = 1
    <3>1. r \in 1 .. Len(A)
      BY <1>2
    <3> HIDE DEF A
    <3> QED
      BY <2>1, <3>1
  <2> QED
    BY <1>3, <2>1, <2>2, <2>3 DEF Tunnel
<1>5. Body(c) \in Nat /\ S = Body(c) + 2 /\ Body(c) = A[1].body
  <2>1. Body(c) \in Nat /\ S = Body(c) + 2
    BY <1>1, <1>2, <1>4, OneSent
  <2>2. Body(c) = A[1].body
    BY <1>2, <1>4 DEF SentFor, Body
  <2> QED
    BY <2>1, <2>2
<1>6. PICK p \in 1 .. N : Missing(c, p)
  BY <1>2 DEF Accounted, LeftOut
<1>7. N <= S /\ N \in Nat /\ S \in Nat
  BY <1>1, <1>2, Typed DEF Accounted, Counted
<1>8. p \in 1 .. 2 + A[r].body
  <2> HIDE DEF N, S, A, c
  <2> QED
    BY <1>4, <1>5, <1>6, <1>7
<1>9. PICK i \in DOMAIN inbox[d] : inbox[d][i].part = p
  BY <1>8 DEF Arrived
<1>10. i \in 1 .. Len(inbox[d])
  BY <1>2, <1>9
<1>11. HasPart(inbox[d], p)
  BY <1>9, <1>10 DEF HasPart
<1> QED
  BY <1>1, <1>6, <1>11 DEF Missing

\* A destination answers what it has got.
LEMMA ArrivedWritten ==
  ASSUME ProxyInv, KeptInv, NEW d \in Dest, NEW r \in DOMAIN asked[Owner(d)], Arrived(d, r),
         Owner(d) \in m_vConnections, Owner(d) \in relay, ~Tunnel(Owner(d))
  PROVE  Len(Written(Owner(d))) >= Body(Owner(d)) + 2 * r
<1> DEFINE c == Owner(d)
           k == d[2]
           F == Inboxes(c)
           v == Written(c)
           s == sent[c]
           A == asked[c]
<1>1. /\ TypeOK /\ BytesTyped /\ c \in Conn /\ k \in Number /\ d = <<c, k>> /\ Served(c) /\ Kept(c)
  BY DEF ProxyInv, KeptInv, Owner, Dest, Number, Served
<1>2. /\ v \in Seq(Byte) /\ s \in Seq(Byte) /\ A \in Seq(Request) /\ F \in [Number -> Seq(Byte)]
      /\ F[k] = inbox[d] /\ v = FlattenSeq(F)
  BY <1>1, Typed, WrittenTyped DEF Inboxes, Written, Number
<1>3. PICK i \in DOMAIN F[k] : F[k][i].req = r /\ F[k][i].part = 2 + A[r].body
  <2>1. A[r] \in Request
    BY <1>2
  <2>2. 2 + A[r].body \in 1 .. 2 + A[r].body
    BY <2>1, ProxyAssumption DEF Request
  <2> QED
    BY <1>2, <2>2 DEF Arrived
<1>4. ~details[c].connect /\ InOrder(c) /\ SentFor(s, A)
  BY <1>1, ArrivedNotLate DEF Kept, Relaying, Served, Accounted
<1>5. Follows(v, s, 0) /\ \A j \in 1 .. Len(v) : j \in 1 .. Len(s)
  BY <1>1, <1>4, Lengths DEF InOrder
<1> HIDE DEF F, v, s
<1>6. PICK j \in 1 .. Len(v) : v[j] = F[k][i]
  <2>1. MaxDest \in Nat \ {0} /\ F \in [1 .. MaxDest -> Seq(Byte)] /\ k \in 1 .. MaxDest
    BY <1>1, <1>2, ProxyAssumption DEF Number
  <2> HIDE DEF k
  <2>2. In(F[k][i], FlattenSeq(F))
    BY <1>3, <2>1, FlattenHolds
  <2> QED
    BY <1>2, <2>2 DEF In
<1>7. /\ j \in 1 .. Len(s) /\ s[j].req = r /\ s[j].part = 2 + A[r].body /\ j \in Nat
  BY <1>3, <1>5, <1>6 DEF Follows
<1>8. ~A[1].connect /\ r \in 1 .. Len(A)
  BY <1>2 DEF Tunnel
<1>9. j >= BodyLen(s, A) + 2 * r
  BY <1>2, <1>4, <1>7, <1>8, SentEnd
<1>10. BodyLen(s, A) = Body(c) /\ Len(v) \in Nat /\ Body(c) \in Nat
  <2>1. BodyLen(s, A) = Body(c)
    BY DEF Body, s
  <2> QED
    BY <1>2, <1>4, <2>1 DEF SentFor
<1> HIDE DEF A, c
<1>11. Len(v) >= Body(c) + 2 * r
  <2> DEFINE l == Len(v)
  <2>1. l \in Nat /\ j \in 1 .. l /\ r \in Nat
    BY <1>2, <1>6, <1>8, <1>10
  <2> HIDE DEF l
  <2> QED
    BY <1>9, <1>10, <2>1 DEF l
<1> QED
  BY <1>11 DEF v, c

\* A destination answers a request that it has got.
LEMMA DestAnswersKept ==
  ASSUME ProxyInv, KeptInv, NEW d \in Dest, NEW r \in 1 .. MaxRequests, DestAnswers(d, r)
  PROVE  KeptInv'
<1> USE DEF lists, ends, dests, client
<1> DEFINE c == Owner(d)
           k == d[2]
<1>0. /\ TypeOK /\ BytesTyped /\ c \in Conn /\ Served(c) /\ sock[c] # "new"
      /\ c \in m_vConnections => c \in relay /\ Kept(c)
      /\ k \in Number /\ d = <<c, k>>
  BY OpenRelayed DEF DestAnswers
<1>1. /\ replied[c] \in Nat /\ r \in Nat /\ replied[c] < r /\ replied[c] <= r /\ replied'[c] = r
      /\ asked[c] \in Seq(Request) /\ r \in DOMAIN asked[c] /\ r \in 1 .. r
      /\ replied' \in [Conn -> Nat] /\ \A x \in Conn \ {c} : replied'[x] = replied[x]
  <2>1. replied[c] \in Nat /\ r \in Nat /\ asked[c] \in Seq(Request)
    BY <1>0, ProxyAssumption, Typed
  <2> QED
    BY <1>0, <2>1 DEF BytesTyped, DestAnswers
<1>2. /\ back'[d] = back[d] \o Answer(r) /\ \A x \in Dest : x # d => back'[x] = back[x]
      /\ back[d] \in Seq(Part) /\ Answer(r) \in Seq(Part)
  BY <1>0, <1>1, AnswersTyped DEF DestAnswers, TypeOK
<1>3. \A x \in Conn, n \in Number : <<x, n>> \in Dest /\ (<<x, n>> = d <=> x = c /\ n = k)
  BY <1>0 DEF Dest, Number
<1>4. AnswersMove(c) /\ NoBytes(c)
  BY <1>1, <1>2, <1>3 DEF DestAnswers, AnswersMove, NoBytes
<1>5. BytesTyped'
  BY <1>0, <1>1 DEF BytesTyped, DestAnswers
<1>6. EndOnce(Answered(c))' /\ EndsGiven(Answered(c), replied[c])'
  <2> DEFINE F == Answered(c)
             G == Answered(c)'
  <2>1. EndOnce(F) /\ EndsGiven(F, replied[c]) /\ F[<<1, k>>] = back[d]
    BY <1>0 DEF Served, Answered, Places
  <2>2. \A x \in Places : G[x] = IF x = <<1, k>> THEN F[x] \o Answer(r) ELSE F[x]
    <3>1. \A x \in Places : \/ x = <<0, 0>> \/ \E n \in Number : x = <<1, n>> \/ x = <<2, n>>
      BY DEF Places
    <3>2. G[<<0, 0>>] = F[<<0, 0>>] /\ <<0, 0>> # <<1, k>>
      BY <1>0 DEF Answered, Places, DestAnswers
    <3>3. ASSUME NEW n \in Number
          PROVE  /\ G[<<2, n>>] = F[<<2, n>>] /\ <<2, n>> # <<1, k>>
                 /\ G[<<1, n>>] = IF <<1, n>> = <<1, k>> THEN F[<<1, n>>] \o Answer(r) ELSE F[<<1, n>>]
      <4>1. /\ F[<<1, n>>] = back[<<c, n>>] /\ G[<<1, n>>] = back'[<<c, n>>]
            /\ F[<<2, n>>] = dheld[<<c, n>>] /\ G[<<2, n>>] = dheld'[<<c, n>>]
        BY DEF Answered, Places
      <4>2. dheld' = dheld /\ (<<1, n>> = <<1, k>> <=> n = k) /\ <<2, n>> # <<1, k>>
        BY DEF DestAnswers
      <4> QED
        <5>1. CASE n = k
          <6>1. back'[<<c, n>>] = back[<<c, n>>] \o Answer(r)
            BY <1>0, <1>2, <5>1
          <6> HIDE DEF F, G, k, c
          <6> QED
            BY <4>1, <4>2, <5>1, <6>1
        <5>2. CASE n # k
          <6>1. back'[<<c, n>>] = back[<<c, n>>]
            BY <1>0, <1>2, <1>3, <5>2
          <6>2. <<1, n>> # <<1, k>> /\ <<2, n>> # <<1, k>>
            BY <4>2, <5>2
          <6> HIDE DEF F, G, k, c
          <6> QED
            BY <4>1, <4>2, <6>1, <6>2
        <5> QED
          BY <5>1, <5>2
    <3> HIDE DEF F, G
    <3> QED
      BY <3>1, <3>2, <3>3, ZenonT(40)
  <2> HIDE DEF F, G
  <2>3. EndOnce(G) /\ EndsGiven(G, r)
    <3> DEFINE n == replied[c]
    <3>1. /\ n \in Nat /\ r \in Nat /\ n < r /\ k \in Number /\ F[<<1, k>>] \in Seq(Part)
          /\ EndOnce(F) /\ EndsGiven(F, n)
      BY <1>0, <1>1, <1>2, <2>1
    <3> HIDE DEF k, n
    <3> QED
      BY <2>2, <3>1, AnswersGiven
  <2> QED
    BY <1>1, <2>3 DEF G, EndOnce, EndsGiven
<1>7. OnlyAnswers(c)'
  <2>1. OnlyAnswers(c)
    BY <1>0 DEF Served
  <2>2. ASSUME NEW n \in Number
        PROVE  /\ FromAnswers(back'[<<c, n>>], r)
               /\ dheld'[<<c, n>>] = <<End>> \/ FromAnswers(dheld'[<<c, n>>], r)
    <3>1. /\ FromAnswers(back[<<c, n>>], r)
          /\ dheld[<<c, n>>] = <<End>> \/ FromAnswers(dheld[<<c, n>>], r)
      BY <1>1, <2>1, FromMore DEF OnlyAnswers
    <3>2. dheld' = dheld
      BY DEF DestAnswers
    <3>3. CASE n # k
      BY <1>0, <1>2, <1>3, <3>1, <3>2, <3>3
    <3>4. CASE n = k
      <4> DEFINE s == back[d]
                 u == Answer(r)
      <4>1. /\ s \in Seq(Part) /\ u \in Seq(Part) /\ Len(u) = 2
            /\ \A i \in 1 .. 2 : u[i].req = r /\ u[i].part = i
        BY <1>2 DEF Answer
      <4>2. FromAnswers(s, r) /\ back'[<<c, n>>] = s \o u
        BY <1>0, <1>2, <3>1, <3>4
      <4> HIDE DEF s, u
      <4>3. /\ Len(s \o u) = Len(s) + Len(u) /\ Len(s) \in Nat
            /\ \A i \in 1 .. Len(s) : (s \o u)[i] = s[i]
            /\ \A i \in 1 .. Len(u) : (s \o u)[Len(s) + i] = u[i]
        <5>1. s \in Seq(Part) /\ u \in Seq(Part)
          BY <4>1
        <5> QED
          BY <5>1, Cat
      <4>4. \A i \in 1 .. Len(s \o u) : (s \o u)[i].req \in 1 .. r /\ (s \o u)[i].part \in 1 .. 2
        <5> SUFFICES ASSUME NEW i \in 1 .. Len(s \o u)
                     PROVE  (s \o u)[i].req \in 1 .. r /\ (s \o u)[i].part \in 1 .. 2
          OBVIOUS
        <5>1. CASE i \in 1 .. Len(s)
          BY <4>2, <4>3, <5>1 DEF FromAnswers
        <5>2. CASE i \notin 1 .. Len(s)
          <6> DEFINE j == i - Len(s)
          <6>1. j \in 1 .. 2 /\ Len(s) + j = i
            BY <4>1, <4>3, <5>2
          <6> HIDE DEF j
          <6>2. (s \o u)[i] = u[j] /\ u[j].req = r /\ u[j].part = j
            BY <4>1, <4>3, <6>1
          <6> QED
            BY <1>1, <6>1, <6>2
        <5> QED
          BY <5>1, <5>2
      <4>5. FromAnswers(back'[<<c, n>>], r)
        BY <4>2, <4>4 DEF FromAnswers
      <4> QED
        BY <3>1, <3>2, <4>5
    <3> QED
      BY <3>3, <3>4
  <2> QED
    BY <1>1, <2>2 DEF OnlyAnswers, FromAnswers
<1>8. ASSUME c \in m_vConnections PROVE Kept(c)'
  <2>1. MayEnd(c) /\ details'[c] = details[c] /\ got'[c] = got[c]
    BY DEF MayEnd, DestAnswers
  <2>2. /\ Written(c)' = Written(c) /\ Tunnel(c)' = Tunnel(c) /\ Body(c)' = Body(c)
        /\ asked'[c] = asked[c]
    BY <1>0, <1>4, NoBytesKept DEF NoBytes
  <2>3. AnsweredWritten(c)'
    <3>1. ~Tunnel(c) => Len(Written(c)) >= Body(c) + 2 * r
      BY <1>0, <1>1, <1>8, ArrivedWritten DEF DestAnswers
    <3>2. r <= Len(asked[c])
      BY <1>1
    <3> QED
      BY <1>1, <2>2, <3>1, <3>2 DEF AnsweredWritten
  <2>4. c \notin late
    BY <1>0, <1>1, <1>8, ArrivedNotLate DEF DestAnswers
  <2> QED
    BY <1>0, <1>4, <1>8, <2>1, <2>3, <2>4, StaysRelayed, ZenonT(40)
<1>9. \A x \in Conn \ {c} : Unmoved(x) /\ Settling(x)
  BY <1>0, <1>4, OthersUnmoved
<1> QED
  BY <1>0, <1>4, <1>5, <1>6, <1>7, <1>8, <1>9, AnswersServed

\* Where the answers of a connection are.
LEMMA AnswersAt ==
  ASSUME NEW c \in Conn
  PROVE  /\ Answered(c)[<<0, 0>>] = got[c] /\ Answered(c)'[<<0, 0>>] = got'[c]
         /\ \A n \in Number :
              /\ Answered(c)[<<1, n>>] = back[<<c, n>>] /\ Answered(c)'[<<1, n>>] = back'[<<c, n>>]
              /\ Answered(c)[<<2, n>>] = dheld[<<c, n>>] /\ Answered(c)'[<<2, n>>] = dheld'[<<c, n>>]
         /\ \A x \in Places : x = <<0, 0>> \/ \E n \in Number : x = <<1, n>> \/ x = <<2, n>>
<1>1. \A x \in Places : x = <<0, 0>> \/ \E n \in Number : x = <<1, n>> \/ x = <<2, n>>
  BY DEF Places
<1>2. Answered(c)[<<0, 0>>] = got[c] /\ Answered(c)'[<<0, 0>>] = got'[c]
  BY DEF Answered, Places
<1>3. ASSUME NEW n \in Number
      PROVE /\ Answered(c)[<<1, n>>] = back[<<c, n>>] /\ Answered(c)'[<<1, n>>] = back'[<<c, n>>]
            /\ Answered(c)[<<2, n>>] = dheld[<<c, n>>] /\ Answered(c)'[<<2, n>>] = dheld'[<<c, n>>]
  BY DEF Answered, Places
<1> QED
  BY <1>1, <1>2, <1>3

\* OnDataRecievedDest reads an answer, before it has the mutex.
LEMMA ReadDestKept ==
  ASSUME ProxyInv, KeptInv, NEW d \in Dest, NEW m \in DOMAIN back[d], ReadDest(d, m)
  PROVE  KeptInv'
<1> USE DEF lists, ends, dests, client
<1> DEFINE c == Owner(d)
           k == d[2]
           b == back[d]
<1>0. /\ TypeOK /\ BytesTyped /\ c \in Conn /\ Served(c) /\ sock[c] # "new"
      /\ c \in m_vConnections => c \in relay /\ Kept(c)
      /\ k \in Number /\ d = <<c, k>>
  BY OpenRelayed DEF ReadDest
<1>1. \A x \in Conn, n \in Number : <<x, n>> \in Dest /\ (<<x, n>> = d <=> x = c /\ n = k)
  BY <1>0 DEF Dest, Number
<1>2. /\ dheld'[d] = SubSeq(b, 1, m) /\ back'[d] = SubSeq(b, m + 1, Len(b)) /\ b \in Seq(Part)
      /\ m \in 1 .. Len(b) /\ \A x \in Dest : x # d => dheld'[x] = dheld[x] /\ back'[x] = back[x]
  <2>1. b \in Seq(Part) /\ m \in 1 .. Len(b)
    BY <1>0 DEF TypeOK
  <2>2. /\ dheld' = [dheld EXCEPT ![d] = SubSeq(b, 1, m)]
        /\ back' = [back EXCEPT ![d] = SubSeq(b, m + 1, Len(b))]
    BY DEF ReadDest
  <2> HIDE DEF b
  <2> QED
    BY <1>0, <2>1, <2>2 DEF TypeOK
<1>3. AnswersMove(c) /\ NoBytes(c)
  BY <1>1, <1>2 DEF ReadDest, AnswersMove, NoBytes
<1>4. BytesTyped'
  BY <1>0 DEF BytesTyped, ReadDest
<1>5. EndOnce(Answered(c))' /\ EndsGiven(Answered(c), replied[c])'
  <2> DEFINE F == Answered(c)
             G == Answered(c)'
             r == replied[c]
  <2>1. EndOnce(F) /\ EndsGiven(F, r) /\ F[<<1, k>>] = b
    BY <1>0, AnswersAt, ZenonT(40) DEF Served
  <2>2. \A x \in Places :
          G[x] = IF x = <<1, k>> THEN SubSeq(F[x], m + 1, Len(F[x]))
                 ELSE IF x = <<2, k>> THEN SubSeq(F[<<1, k>>], 1, m) ELSE F[x]
    <3>1. G[<<0, 0>>] = F[<<0, 0>>] /\ <<0, 0>> # <<1, k>> /\ <<0, 0>> # <<2, k>>
      BY <1>0, AnswersAt DEF ReadDest
    <3>2. ASSUME NEW n \in Number
          PROVE  /\ G[<<2, n>>] = IF n = k THEN SubSeq(F[<<1, k>>], 1, m) ELSE F[<<2, n>>]
                 /\ G[<<1, n>>] = IF n = k THEN SubSeq(F[<<1, n>>], m + 1, Len(F[<<1, n>>])) ELSE F[<<1, n>>]
      <4>1. /\ F[<<1, n>>] = back[<<c, n>>] /\ G[<<1, n>>] = back'[<<c, n>>]
            /\ F[<<2, n>>] = dheld[<<c, n>>] /\ G[<<2, n>>] = dheld'[<<c, n>>]
        BY <1>0, AnswersAt
      <4> HIDE DEF F, G
      <4>2. CASE n = k
        BY <1>0, <1>2, <2>1, <4>1, <4>2
      <4>3. CASE n # k
        BY <1>0, <1>1, <1>2, <4>1, <4>3
      <4> QED
        BY <4>2, <4>3
    <3>3. \A n \in Number : /\ <<2, n>> # <<1, k>> /\ (<<1, n>> = <<1, k>> <=> n = k)
                            /\ <<1, n>> # <<2, k>> /\ (<<2, n>> = <<2, k>> <=> n = k)
      OBVIOUS
    <3>4. \A x \in Places : x = <<0, 0>> \/ \E n \in Number : x = <<1, n>> \/ x = <<2, n>>
      BY <1>0, AnswersAt
    <3> HIDE DEF F, G, k
    <3> QED
      BY <3>1, <3>2, <3>3, <3>4
  <2> HIDE DEF F, G, r
  <2>3. EndOnce(G) /\ EndsGiven(G, r)
    <3>1. k \in Number /\ F[<<1, k>>] \in Seq(Part) /\ m \in 1 .. Len(F[<<1, k>>])
      BY <1>0, <1>2, <2>1
    <3> HIDE DEF k
    <3> QED
      BY <2>1, <2>2, <3>1, AnswersRead
  <2>4. replied'[c] = r
    BY DEF ReadDest, r
  <2> QED
    BY <2>3, <2>4 DEF G, EndOnce, EndsGiven
<1>6. OnlyAnswers(c)'
  <2> DEFINE r == replied[c]
  <2>1. /\ \A n \in Number : /\ FromAnswers(back[<<c, n>>], r)
                             /\ dheld[<<c, n>>] = <<End>> \/ FromAnswers(dheld[<<c, n>>], r)
        /\ replied'[c] = r
    BY <1>0 DEF Served, OnlyAnswers, ReadDest
  <2>2. FromAnswers(dheld'[d], r) /\ FromAnswers(back'[d], r)
    <3>1. FromAnswers(b, r)
      BY <1>0, <2>1
    <3>2. /\ Len(SubSeq(b, 1, m)) = m /\ \A i \in 1 .. m : SubSeq(b, 1, m)[i] = b[i] /\ i \in 1 .. Len(b)
      <4> HIDE DEF b
      <4> QED
        BY <1>2
    <3>3. /\ Len(SubSeq(b, m + 1, Len(b))) = Len(b) - m
          /\ \A i \in 1 .. Len(b) - m : SubSeq(b, m + 1, Len(b))[i] = b[m + i] /\ m + i \in 1 .. Len(b)
      <4> HIDE DEF b
      <4> QED
        BY <1>2
    <3> HIDE DEF b, r
    <3>4. FromAnswers(SubSeq(b, 1, m), r)
      BY <3>1, <3>2 DEF FromAnswers
    <3>5. FromAnswers(SubSeq(b, m + 1, Len(b)), r)
      BY <3>1, <3>3 DEF FromAnswers
    <3> QED
      BY <1>2, <3>4, <3>5
  <2> HIDE DEF r
  <2>3. ASSUME NEW n \in Number
        PROVE  /\ FromAnswers(back'[<<c, n>>], r)
               /\ dheld'[<<c, n>>] = <<End>> \/ FromAnswers(dheld'[<<c, n>>], r)
    <3>1. CASE n = k
      BY <1>0, <2>2, <3>1
    <3>2. CASE n # k
      BY <1>0, <1>1, <1>2, <2>1, <3>2
    <3> QED
      BY <3>1, <3>2
  <2> QED
    BY <2>1, <2>3 DEF OnlyAnswers, FromAnswers
<1>7. ASSUME c \in m_vConnections PROVE Kept(c)'
  <2>1. MayEnd(c) /\ details'[c] = details[c] /\ got'[c] = got[c]
    BY DEF MayEnd, ReadDest
  <2>2. AnsweredWritten(c)'
    <3>1. /\ Written(c)' = Written(c) /\ Tunnel(c)' = Tunnel(c) /\ Body(c)' = Body(c)
      BY <1>0, <1>3, NoBytesKept
    <3>2. asked'[c] = asked[c] /\ replied'[c] = replied[c] /\ AnsweredWritten(c)
      BY <1>0, <1>7 DEF ReadDest, Kept
    <3> QED
      BY <3>1, <3>2 DEF AnsweredWritten
  <2>3. c \in late => replied'[c] = 0
    BY <1>0, <1>7 DEF ReadDest, Kept, LateSettled
  <2> QED
    BY <1>0, <1>3, <1>7, <2>1, <2>2, <2>3, StaysRelayed, ZenonT(40)
<1>8. \A x \in Conn \ {c} : Unmoved(x) /\ Settling(x)
  BY <1>0, <1>3, OthersUnmoved
<1> QED
  BY <1>0, <1>3, <1>4, <1>5, <1>6, <1>7, <1>8, AnswersServed

\* What a destination is read to the end, or was handled, has no answer left.
LEMMA NoneLeft ==
  ASSUME NEW c \in Conn, NEW k \in Number, Served(c), got'[c] = got[c], replied'[c] = replied[c],
         \A n \in Number : /\ back'[<<c, n>>] = back[<<c, n>>]
                           /\ n # k => dheld'[<<c, n>>] = dheld[<<c, n>>],
         dheld'[<<c, k>>] \in {<<>>, <<End>>}
  PROVE  EndOnce(Answered(c))' /\ EndsGiven(Answered(c), replied[c])' /\ OnlyAnswers(c)'
<1> DEFINE F == Answered(c)
           G == Answered(c)'
           r == replied[c]
<1>1. EndOnce(F) /\ EndsGiven(F, r) /\ OnlyAnswers(c)
  BY DEF Served
<1>2. Ends(<<>>) = {} /\ Ends(<<End>>) = {}
  BY DEF Ends, End
<1>3. \A x \in Places : \A i \in Ends(G[x]) : i \in Ends(F[x]) /\ G[x][i].req = F[x][i].req
  <2>1. \A x \in Places : x = <<0, 0>> \/ \E n \in Number : x = <<1, n>> \/ x = <<2, n>>
    BY AnswersAt
  <2>2. G[<<0, 0>>] = F[<<0, 0>>]
    BY AnswersAt
  <2>3. ASSUME NEW n \in Number
        PROVE G[<<1, n>>] = F[<<1, n>>] /\ (G[<<2, n>>] = F[<<2, n>>] \/ Ends(G[<<2, n>>]) = {})
    <3>1. /\ F[<<1, n>>] = back[<<c, n>>] /\ G[<<1, n>>] = back'[<<c, n>>]
          /\ F[<<2, n>>] = dheld[<<c, n>>] /\ G[<<2, n>>] = dheld'[<<c, n>>]
      BY AnswersAt
    <3> HIDE DEF F, G
    <3> QED
      BY <1>2, <3>1
  <2> HIDE DEF F, G
  <2> QED
    BY <2>1, <2>2, <2>3
<1> HIDE DEF F, G, r
<1>4. EndOnce(G) /\ EndsGiven(G, r)
  BY <1>1, <1>3, AnswersKept
<1>5. replied'[c] = r
  BY DEF r
<1>6. OnlyAnswers(c)'
  <2>1. \A n \in Number : /\ FromAnswers(back[<<c, n>>], r)
                          /\ dheld[<<c, n>>] = <<End>> \/ FromAnswers(dheld[<<c, n>>], r)
    BY <1>1 DEF OnlyAnswers, r
  <2>2. FromAnswers(<<>>, r)
    BY DEF FromAnswers
  <2>3. \A n \in Number : /\ FromAnswers(back'[<<c, n>>], r)
                          /\ dheld'[<<c, n>>] = <<End>> \/ FromAnswers(dheld'[<<c, n>>], r)
    <3> SUFFICES ASSUME NEW n \in Number
                 PROVE  /\ FromAnswers(back'[<<c, n>>], r)
                        /\ dheld'[<<c, n>>] = <<End>> \/ FromAnswers(dheld'[<<c, n>>], r)
      OBVIOUS
    <3>1. CASE n = k
      BY <2>1, <2>2, <3>1
    <3>2. CASE n # k
      BY <2>1, <3>2
    <3> QED
      BY <3>1, <3>2
  <2> QED
    BY <1>5, <2>3 DEF OnlyAnswers, FromAnswers
<1> QED
  BY <1>4, <1>5, <1>6 DEF G, EndOnce, EndsGiven

\* A step after which nothing is left of what was read.
LEMMA NoneLeftKept ==
  ASSUME ProxyInv, KeptInv, NEW d \in Dest, dst[d] = "open" \/ dheld[d] # <<>>,
         AnswersMove(Owner(d)), NoBytes(Owner(d)), MayEnd(Owner(d)) \/ Owner(d) \notin m_vConnections,
         UNCHANGED <<details, got, replied, back>>, dheld' = [dheld EXCEPT ![d] = dheld'[d]],
         dheld'[d] \in {<<>>, <<End>>}
  PROVE  KeptInv'
<1> DEFINE c == Owner(d)
           k == d[2]
<1>0. /\ TypeOK /\ BytesTyped /\ c \in Conn /\ Served(c) /\ sock[c] # "new"
      /\ c \in m_vConnections => c \in relay /\ Kept(c)
      /\ k \in Number /\ d = <<c, k>>
  BY OpenRelayed
<1>1. \A n \in Number : <<c, n>> \in Dest /\ (<<c, n>> = d <=> n = k)
  BY <1>0 DEF Dest, Number
<1>2. \A n \in Number : /\ back'[<<c, n>>] = back[<<c, n>>]
                        /\ n # k => dheld'[<<c, n>>] = dheld[<<c, n>>]
  <2>1. \A x \in Dest : x # d => dheld'[x] = dheld[x]
    <3> DEFINE e == dheld'[d]
    <3>1. dheld' = [dheld EXCEPT ![d] = e] /\ dheld \in [Dest -> Seq(Part)]
      BY <1>0 DEF TypeOK
    <3> HIDE DEF e
    <3> QED
      BY <3>1
  <2> QED
    BY <1>1, <2>1
<1>3. BytesTyped'
  BY <1>0 DEF BytesTyped, AnswersMove
<1>4. EndOnce(Answered(c))' /\ EndsGiven(Answered(c), replied[c])' /\ OnlyAnswers(c)'
  <2>1. dheld'[<<c, k>>] \in {<<>>, <<End>>}
    BY <1>0
  <2> HIDE DEF c, k
  <2> QED
    BY <1>0, <1>2, <2>1, NoneLeft
<1>5. ASSUME c \in m_vConnections PROVE Kept(c)'
  <2>1. AnsweredWritten(c)'
    <3>1. /\ Written(c)' = Written(c) /\ Tunnel(c)' = Tunnel(c) /\ Body(c)' = Body(c)
      BY <1>0, NoBytesKept
    <3>2. asked'[c] = asked[c] /\ replied'[c] = replied[c] /\ AnsweredWritten(c)
      BY <1>0, <1>5 DEF Kept, NoBytes
    <3> QED
      BY <3>1, <3>2 DEF AnsweredWritten
  <2>2. c \in late => replied'[c] = 0
    BY <1>0, <1>5 DEF Kept, LateSettled
  <2> QED
    BY <1>0, <1>5, <2>1, <2>2, StaysRelayed, ZenonT(40)
<1>6. \A x \in Conn \ {c} : Unmoved(x) /\ Settling(x)
  BY <1>0, OthersUnmoved
<1> QED
  BY <1>0, <1>3, <1>4, <1>5, <1>6, AnswersServed

\* A destination ends.
LEMMA DestEndsKept ==
  ASSUME ProxyInv, KeptInv, NEW d \in Dest, DestEnds(d)
  PROVE  KeptInv'
<1> USE DEF lists, ends, dests, client
<1> DEFINE c == Owner(d)
           k == d[2]
<1>0. TypeOK /\ c \in Conn /\ k \in Number /\ d = <<c, k>> /\ dst[d] = "open"
  BY OpenRelayed DEF DestEnds
<1>1. \A x \in Conn, n \in Number : <<x, n>> \in Dest /\ (<<x, n>> = d <=> x = c /\ n = k)
  BY <1>0 DEF Dest, Number
<1>2. /\ dheld'[d] = <<End>> /\ dst'[d] = "ended" /\ dheld' = [dheld EXCEPT ![d] = dheld'[d]]
      /\ \A x \in Dest : x # d => dheld'[x] = dheld[x] /\ dst'[x] = dst[x]
  BY <1>0 DEF DestEnds, TypeOK
<1>3. AnswersMove(c) /\ NoBytes(c)
  <2>1. \A x \in Conn \ {c}, n \in Number : dheld'[<<x, n>>] = dheld[<<x, n>>] /\ dst'[<<x, n>>] = dst[<<x, n>>]
    <3>1. ASSUME NEW x \in Conn \ {c}, NEW n \in Number PROVE <<x, n>> \in Dest /\ <<x, n>> # d
      BY <1>1
    <3> HIDE DEF c, k
    <3> QED
      BY <1>2, <3>1
  <2> QED
    BY <2>1 DEF DestEnds, AnswersMove, NoBytes
<1>4. MayEnd(c) \/ c \notin m_vConnections
  <2> SUFFICES ASSUME c \in m_vConnections PROVE MayEnd(c)
    OBVIOUS
  <2>1. k = pClientSocket[c]
    BY <1>0, ListedCurrent DEF Current
  <2> QED
    BY <1>0, <1>1, <1>2, <2>1 DEF MayEnd
<1> QED
  BY <1>0, <1>2, <1>3, <1>4, NoneLeftKept DEF DestEnds

\* What was read from a destination is told: it has answered.
LEMMA HandledTold ==
  ASSUME ProxyInv, KeptInv, NEW d \in Dest, Listed(d), dheld[d] # <<>>, dheld[d] # <<End>>,
         AnswersMove(Owner(d)), UNCHANGED <<dst, sock, back, replied>>,
         dheld' = [dheld EXCEPT ![d] = <<>>], got' = Told(Owner(d), dheld[d]),
         details' = [details EXCEPT ![Owner(d)] = [@ EXCEPT !.bAnswerd = TRUE]]
  PROVE  KeptInv'
<1> DEFINE c == Owner(d)
           k == d[2]
           b == dheld[d]
           r == replied[c]
<1>0. /\ TypeOK /\ BytesTyped /\ c \in Conn /\ Served(c) /\ sock[c] # "new"
      /\ c \in m_vConnections /\ c \in relay /\ Kept(c)
      /\ k \in Number /\ d = <<c, k>> /\ Relaying(c)
  BY OpenRelayed DEF Listed, Kept
<1>1. \A x \in Conn, n \in Number : <<x, n>> \in Dest /\ (<<x, n>> = d <=> x = c /\ n = k)
  BY <1>0 DEF Dest, Number
<1>2. dheld'[d] = <<>> /\ (\A x \in Dest : x # d => dheld'[x] = dheld[x]) /\ b \in Seq(Part)
  BY <1>0 DEF TypeOK
<1>3. /\ details'[c] \in Details /\ details'[c].strBuffer = Buffer(c) /\ details'[c].connect = details[c].connect
      /\ details'[c].to = details[c].to /\ details'[c].bConncted = details[c].bConncted
      /\ details'[c].bAnswerd = TRUE
  <2> DEFINE D == details[c]
  <2>1. D \in Details /\ details'[c] = [D EXCEPT !.bAnswerd = TRUE]
    BY <1>0 DEF BytesTyped
  <2> HIDE DEF D
  <2>2. LET E == [D EXCEPT !.bAnswerd = TRUE] IN
        /\ E \in Details /\ E.strBuffer = D.strBuffer /\ E.connect = D.connect /\ E.to = D.to
        /\ E.bConncted = D.bConncted /\ E.bAnswerd = TRUE
    BY <2>1 DEF Details
  <2>3. /\ details'[c] \in Details /\ details'[c].strBuffer = D.strBuffer /\ details'[c].connect = D.connect
        /\ details'[c].to = D.to /\ details'[c].bConncted = D.bConncted
        /\ details'[c].bAnswerd = TRUE
    BY <2>1, <2>2
  <2> QED
    BY <2>3 DEF D, Buffer
<1>4. BytesTyped'
  <2>1. details' \in [Conn -> Details]
    BY <1>0, <1>3 DEF BytesTyped
  <2> QED
    BY <1>0, <2>1 DEF BytesTyped, AnswersMove
<1>5. NoBytes(c)
  BY <1>3 DEF AnswersMove, NoBytes, Buffer
<1>6. FromAnswers(b, r) /\ b # <<>> /\ r \in Nat
  BY <1>0, Typed DEF Served, OnlyAnswers
<1>7. got'[c] = IF sock[c] = "open" THEN got[c] \o b ELSE got[c]
  BY <1>0 DEF Told, TypeOK
<1>8. EndOnce(Answered(c))' /\ EndsGiven(Answered(c), replied[c])'
  <2> DEFINE F == Answered(c)
             G == Answered(c)'
  <2>0. /\ EndOnce(F) /\ EndsGiven(F, r) /\ F[<<0, 0>>] = got[c] /\ F[<<2, k>>] = b
        /\ F[<<0, 0>>] \in Seq(Part) /\ F[<<2, k>>] \in Seq(Part)
    <3>1. EndOnce(F) /\ EndsGiven(F, r) /\ got[c] \in Seq(Part) /\ b \in Seq(Part)
      BY <1>0, <1>2 DEF Served, TypeOK
    <3>2. F[<<0, 0>>] = got[c]
      BY <1>0, AnswersAt
    <3>3. F[<<2, k>>] = dheld[<<c, k>>]
      BY <1>0, AnswersAt
    <3> HIDE DEF F, r, k
    <3> QED
      BY <1>0, <3>1, <3>2, <3>3
  <2>1. \A x \in Places : x = <<0, 0>> \/ \E n \in Number : x = <<1, n>> \/ x = <<2, n>>
    BY <1>0, AnswersAt
  <2>2. G[<<0, 0>>] = IF sock[c] = "open" THEN F[<<0, 0>>] \o F[<<2, k>>] ELSE F[<<0, 0>>]
    <3>1. G[<<0, 0>>] = got'[c]
      BY <1>0, AnswersAt
    <3> HIDE DEF F, G, b
    <3> QED
      BY <1>7, <2>0, <3>1
  <2>3. ASSUME NEW n \in Number
        PROVE  /\ G[<<1, n>>] = F[<<1, n>>]
               /\ G[<<2, n>>] = IF n = k THEN <<>> ELSE F[<<2, n>>]
    <3>1. /\ F[<<1, n>>] = back[<<c, n>>] /\ G[<<1, n>>] = back'[<<c, n>>]
          /\ F[<<2, n>>] = dheld[<<c, n>>] /\ G[<<2, n>>] = dheld'[<<c, n>>]
      BY <1>0, AnswersAt
    <3> HIDE DEF F, G, c, k
    <3>2. back'[<<c, n>>] = back[<<c, n>>]
      OBVIOUS
    <3>3. CASE n = k
      BY <1>0, <1>2, <3>1, <3>2, <3>3
    <3>4. CASE n # k
      BY <1>0, <1>1, <1>2, <3>1, <3>2, <3>4
    <3> QED
      BY <3>3, <3>4
  <2>4. \A n \in Number : /\ <<2, n>> # <<0, 0>> /\ <<1, n>> # <<0, 0>>
                          /\ <<1, n>> # <<2, k>> /\ (<<2, n>> = <<2, k>> <=> n = k)
    OBVIOUS
  <2> HIDE DEF F, G, r, k, b
  <2>5. EndOnce(G) /\ EndsGiven(G, r)
    <3>1. CASE sock[c] = "open"
      <4>1. \A x \in Places :
              G[x] = IF x = <<0, 0>> THEN F[x] \o F[<<2, k>>]
                     ELSE IF x = <<2, k>> THEN <<>> ELSE F[x]
        BY <2>1, <2>2, <2>3, <2>4, <3>1
      <4> QED
        BY <1>0, <2>0, <4>1, AnswersTold
    <3>2. CASE sock[c] # "open"
      <4>1. Ends(<<>>) = {}
        BY DEF Ends
      <4>2. \A x \in Places : \A i \in Ends(G[x]) : i \in Ends(F[x]) /\ G[x][i].req = F[x][i].req
        BY <2>1, <2>2, <2>3, <3>2, <4>1
      <4> QED
        BY <2>0, <4>2, AnswersKept
    <3> QED
      BY <3>1, <3>2
  <2>6. replied'[c] = r
    BY DEF r
  <2> QED
    BY <2>5, <2>6 DEF G, EndOnce, EndsGiven
<1>9. OnlyAnswers(c)'
  <2>1. \A n \in Number : /\ FromAnswers(back[<<c, n>>], r)
                          /\ dheld[<<c, n>>] = <<End>> \/ FromAnswers(dheld[<<c, n>>], r)
    BY <1>0 DEF Served, OnlyAnswers
  <2>2. FromAnswers(<<>>, r) /\ replied'[c] = r
    BY DEF FromAnswers
  <2> HIDE DEF r
  <2>3. \A n \in Number : /\ FromAnswers(back'[<<c, n>>], r)
                          /\ dheld'[<<c, n>>] = <<End>> \/ FromAnswers(dheld'[<<c, n>>], r)
    <3> SUFFICES ASSUME NEW n \in Number
                 PROVE  /\ FromAnswers(back'[<<c, n>>], r)
                        /\ dheld'[<<c, n>>] = <<End>> \/ FromAnswers(dheld'[<<c, n>>], r)
      OBVIOUS
    <3>1. CASE n = k
      BY <1>0, <1>2, <2>1, <2>2, <3>1
    <3>2. CASE n # k
      BY <1>0, <1>1, <1>2, <2>1, <3>2
    <3> QED
      BY <3>1, <3>2
  <2> QED
    BY <2>2, <2>3 DEF OnlyAnswers, FromAnswers
<1>10. /\ Written(c)' = Written(c) /\ Buffer(c)' = Buffer(c) /\ Tunnel(c)' = Tunnel(c) /\ Body(c)' = Body(c)
       /\ Current(c)' = Current(c) /\ (pClientSocket[c] # 0 => host'[Current(c)] = host[Current(c)])
       /\ Accounted(c)' /\ Numbers(c)' /\ (Connecting(c)' => Connecting(c))
       /\ AfterAnswer(c) => AfterAnswer(c)'
  <2>1. MayEnd(c) /\ Accounted(c) /\ Numbers(c)
    BY <1>0 DEF MayEnd, Kept
  <2> QED
    BY <1>0, <1>5, <2>1, NoBytesKept
\* Whoever answers was asked, so that nothing is late.
<1>11. r # 0 /\ c \notin late /\ InOrder(c)
  <2>1. 1 \in 1 .. Len(b)
    <3> HIDE DEF b
    <3> QED
      BY <1>2, <1>6
  <2>2. r # 0
    <3> HIDE DEF b, r
    <3>1. b[1].req \in 1 .. r
      BY <1>6, <2>1 DEF FromAnswers
    <3> QED
      BY <1>6, <3>1
  <2> QED
    BY <1>0, <2>2 DEF Kept, LateSettled, Accounted
<1>12. AnsweredWritten(c) /\ AnsweredWritten(c)' /\ LateSettled(c)'
  <2>1. AnsweredWritten(c) /\ LateSettled(c)
    BY <1>0 DEF Kept
  <2> QED
    BY <1>5, <1>10, <1>11, <2>1 DEF AnsweredWritten, LateSettled, AnswersMove, NoBytes
\* Whoever answers has got a request, and so its body.
<1>13. ~Tunnel(c) /\ BeforeAnswer(c) => AfterAnswer(c)
  <2> SUFFICES ASSUME ~Tunnel(c), BeforeAnswer(c) PROVE AfterAnswer(c)
    OBVIOUS
  <2>3. /\ Len(Written(c)) >= Body(c) + 2 * r /\ Len(asked[c]) = 1
        /\ Len(Written(c)) \in Nat /\ Body(c) \in Nat
    BY <1>0, <1>12, <1>11, Typed DEF AnsweredWritten, BeforeAnswer, Served, SentFor, Body
  <2> DEFINE w == Len(Written(c))
             y == Body(c)
             l == Len(asked[c])
  <2>4. w >= y + 2 /\ w >= y + 2 * (l - 1)
    <3>1. w >= y + 2 * r /\ l = 1 /\ w \in Nat /\ y \in Nat
      BY <2>3
    <3> HIDE DEF w, y, l, r
    <3> QED
      BY <1>6, <1>11, <3>1
  <2> QED
    BY <2>4 DEF AfterAnswer
<1>14. /\ pClientSocket'[c] = pClientSocket[c] /\ (c \in relay') = (c \in relay)
       /\ (c \in late') = (c \in late) /\ asked'[c] = asked[c] /\ held'[c] = held[c]
       /\ sent'[c] = sent[c] /\ nread'[c] = nread[c] /\ sock'[c] = sock[c]
  BY <1>5 DEF NoBytes
<1>15. ThroughTunnel(c) => ThroughTunnel(c)'
  BY <1>10, <1>14 DEF ThroughTunnel
<1>16. pClientSocket[c] # 0 /\ ~Tunnel(c) /\ Passing(c) => Passing(c)'
  <2> SUFFICES ASSUME pClientSocket[c] # 0, ~Tunnel(c), Passing(c) PROVE Passing(c)'
    OBVIOUS
  <2>1. KeptBack(c)'
    BY <1>3, <1>10, <1>14 DEF KeptBack, Passing
  <2>2. c \notin late => AfterAnswer(c)'
    BY <1>10, <1>13 DEF Passing
  <2>3. sock[c] = "open" => \A i \in 1 .. Len(got'[c]) : got'[c][i].part # 502
    <3> SUFFICES ASSUME sock[c] = "open", NEW i \in 1 .. Len(got'[c]) PROVE got'[c][i].part # 502
      OBVIOUS
    <3> DEFINE s == got[c]
    <3>1. /\ s \in Seq(Part) /\ got'[c] = s \o b /\ \A j \in 1 .. Len(s) : s[j].part # 502
      BY <1>0, <1>7 DEF TypeOK, Passing
    <3>2. \A j \in 1 .. Len(b) : b[j].part # 502
      <4> HIDE DEF b, r
      <4> QED
        BY <1>6 DEF FromAnswers
    <3> HIDE DEF s, b
    <3>3. s \in Seq(Part) /\ b \in Seq(Part)
      BY <1>2, <3>1
    <3>4. /\ Len(s \o b) = Len(s) + Len(b) /\ Len(s) \in Nat /\ Len(b) \in Nat
          /\ \A j \in 1 .. Len(s) : (s \o b)[j] = s[j]
          /\ \A j \in 1 .. Len(b) : (s \o b)[Len(s) + j] = b[j]
      BY <3>3, Cat
    <3>5. CASE i \in 1 .. Len(s)
      BY <3>1, <3>4, <3>5
    <3>6. CASE i \notin 1 .. Len(s)
      <4> DEFINE j == i - Len(s)
      <4>1. j \in 1 .. Len(b) /\ Len(s) + j = i
        BY <3>1, <3>4, <3>6
      <4> HIDE DEF j
      <4> QED
        BY <3>1, <3>2, <3>4, <4>1
    <3> QED
      BY <3>5, <3>6
  <2> QED
    BY <1>3, <1>10, <1>14, <2>1, <2>2, <2>3 DEF Passing
\* Nor is anything held: all that was sent has been written.
<1>17. held[c] = <<>>
  <2>1. CASE details[c].bAnswerd \/ details[c].connect \/ pClientSocket[c] = 0
    BY <1>0, <2>1 DEF Relaying, ThroughTunnel
  <2>2. CASE ~details[c].bAnswerd /\ ~details[c].connect /\ pClientSocket[c] # 0
    <3> DEFINE w == Len(Written(c))
               n == Len(Buffer(c))
               o == Len(held[c])
               S == Len(sent[c])
               y == Body(c)
    <3>1. BeforeAnswer(c) /\ ~Tunnel(c)
      BY <1>0, <2>2 DEF Relaying, Passing
    <3>2. Len(asked[c]) = 1 /\ SentFor(sent[c], asked[c])
      BY <1>0, <3>1 DEF BeforeAnswer, Served
    <3>3. y \in Nat /\ S = y + 2
      BY <1>0, <3>2, OneSent
    <3>4. w >= y + 2 * r
      BY <1>12, <1>11, <3>1 DEF AnsweredWritten
    <3>5. nread[c] = w + n + o /\ nread[c] <= S
      BY <1>0, <1>11, Lengths
    <3>6. w \in Nat /\ n \in Nat /\ o \in Nat /\ nread[c] \in Nat /\ held[c] \in Seq(Byte)
      BY <1>0, Typed
    <3>7. o = 0
      <4> DEFINE N == nread[c]
      <4>1. /\ r \in Nat /\ r # 0 /\ y \in Nat /\ S = y + 2 /\ w >= y + 2 * r
            /\ N = w + n + o /\ N <= S /\ w \in Nat /\ n \in Nat /\ o \in Nat
        BY <1>6, <1>11, <3>3, <3>4, <3>5, <3>6
      <4> HIDE DEF w, n, o, S, y, r, N
      <4> QED
        BY <4>1
    <3> QED
      BY <3>6, <3>7
  <2> QED
    BY <2>1, <2>2
<1>18. Relaying(c)'
  BY <1>0, <1>3, <1>10, <1>14, <1>15, <1>16, <1>17 DEF Relaying
<1>19. Kept(c)'
  BY <1>0, <1>10, <1>12, <1>14, <1>18 DEF Kept
<1>20. \A x \in Conn \ {c} : Unmoved(x) /\ Settling(x)
  BY <1>0, OthersUnmoved
<1> QED
  BY <1>0, <1>4, <1>5, <1>8, <1>9, <1>19, <1>20, AnswersServed

\* OnDataRecievedDest tells what it has read, or that it is over.
LEMMA HandleDestKept ==
  ASSUME ProxyInv, KeptInv, NEW d \in Dest, HandleDest(d)
  PROVE  KeptInv'
<1> USE DEF lists, ends, dests, client
<1> DEFINE c == Owner(d)
           k == d[2]
<1>0. TypeOK /\ c \in Conn /\ k \in Number /\ d = <<c, k>> /\ dheld[d] # <<>>
  BY OpenRelayed DEF HandleDest
<1>1. \A x \in Conn, n \in Number : <<x, n>> \in Dest /\ (<<x, n>> = d <=> x = c /\ n = k)
  BY <1>0 DEF Dest, Number
<1>2. dheld' = [dheld EXCEPT ![d] = <<>>] /\ dheld'[d] = <<>> /\ UNCHANGED <<dst, back, replied>>
  BY <1>0 DEF HandleDest, TypeOK
<1>3. \A x \in Conn \ {c}, n \in Number : dheld'[<<x, n>>] = dheld[<<x, n>>]
  BY <1>0, <1>1, <1>2 DEF TypeOK
<1>4. UNCHANGED <<m_vConnections, pClientSocket, relay, held, host, inbox, asked, sent, nread, late>>
  BY DEF HandleDest
<1>5. CASE Listed(d) /\ dheld[d] # <<End>>
  <2>1. /\ got' = Told(c, dheld[d]) /\ UNCHANGED sock
        /\ details' = [details EXCEPT ![c] = [@ EXCEPT !.bAnswerd = TRUE]]
    BY <1>5 DEF HandleDest
  <2>2. \A x \in Conn \ {c} : got'[x] = got[x] /\ details'[x] = details[x]
    BY <1>0, <2>1 DEF Told, TypeOK, KeptInv, BytesTyped
  <2>3. AnswersMove(c)
    BY <1>2, <1>3, <1>4, <2>1, <2>2 DEF AnswersMove
  <2> QED
    BY <1>0, <1>2, <1>5, <2>1, <2>3, HandledTold
<1>6. CASE ~Listed(d) \/ dheld[d] = <<End>>
  <2>1. /\ UNCHANGED <<details, got>>
        /\ sock' = sock \/ sock' = Closed({c})
    BY <1>6 DEF HandleDest
  <2>2. sock'[c] = sock[c] \/ sock'[c] = "closed"
    BY <1>0, <2>1 DEF Closed
  <2>3. \A x \in Conn \ {c} : sock'[x] = sock[x]
    BY <2>1 DEF Closed
  <2>4. AnswersMove(c)
    BY <1>2, <1>3, <1>4, <2>1, <2>3 DEF AnswersMove
  <2>5. NoBytes(c) /\ MayEnd(c)
    BY <1>2, <1>4, <2>1, <2>2 DEF NoBytes, MayEnd
  <2> QED
    BY <1>0, <1>2, <2>1, <2>4, <2>5, NoneLeftKept
<1> QED
  BY <1>5, <1>6

\* A destination that fails takes its client with it.
LEMMA FailedKept ==
  ASSUME ProxyInv, KeptInv, NEW d \in Dest, Listed(d),
         dst[d] \in {"connecting", "open"} \cup Closing,
         dst' = IF dst[d] \in Closing THEN dst ELSE [dst EXCEPT ![d] = "ended"],
         AnswersMove(Owner(d)), sock' = Closed({Owner(d)}),
         got' = IF details[Owner(d)].bConncted THEN got ELSE Refused(Owner(d)),
         details' = [details EXCEPT ![Owner(d)] = [@ EXCEPT !.bConncted = TRUE]],
         UNCHANGED <<back, dheld, replied>>
  PROVE  KeptInv'
<1> DEFINE c == Owner(d)
           k == d[2]
<1>0. /\ TypeOK /\ BytesTyped /\ c \in Conn /\ Served(c) /\ c \in m_vConnections /\ Kept(c)
      /\ k \in Number /\ d = <<c, k>> /\ sock[c] # "new"
  BY DEF ProxyInv, KeptInv, Owner, Dest, Number, Listed, Served, NewIsFresh
<1>1. /\ details'[c] \in Details /\ details'[c].strBuffer = Buffer(c) /\ details'[c].connect = details[c].connect
      /\ details'[c].to = details[c].to /\ details'[c].bConncted = TRUE
      /\ details'[c].bAnswerd = details[c].bAnswerd
  <2> DEFINE D == details[c]
  <2>1. D \in Details /\ details'[c] = [D EXCEPT !.bConncted = TRUE]
    BY <1>0 DEF BytesTyped
  <2> HIDE DEF D
  <2>2. LET E == [D EXCEPT !.bConncted = TRUE] IN
        /\ E \in Details /\ E.strBuffer = D.strBuffer /\ E.connect = D.connect /\ E.to = D.to
        /\ E.bConncted = TRUE /\ E.bAnswerd = D.bAnswerd
    BY <2>1 DEF Details
  <2>3. /\ details'[c] \in Details /\ details'[c].strBuffer = D.strBuffer /\ details'[c].connect = D.connect
        /\ details'[c].to = D.to /\ details'[c].bConncted = TRUE
        /\ details'[c].bAnswerd = D.bAnswerd
    BY <2>1, <2>2
  <2> QED
    BY <2>3 DEF D, Buffer
<1>2. BytesTyped'
  <2>1. details' \in [Conn -> Details]
    BY <1>0, <1>1 DEF BytesTyped
  <2> QED
    BY <1>0, <2>1 DEF BytesTyped, AnswersMove
<1>3. sock'[c] = "closed"
  BY <1>0 DEF Closed, TypeOK
<1>4. NoBytes(c)
  BY <1>1, <1>3 DEF AnswersMove, NoBytes, Buffer
<1>5. got'[c] = got[c] \/ got'[c] = got[c] \o <<BadGateway>>
  BY <1>0, RefusedTold DEF Refused, Told, TypeOK
<1>6. EndOnce(Answered(c))' /\ EndsGiven(Answered(c), replied[c])'
  <2>1. \A n \in Number : back'[<<c, n>>] = back[<<c, n>>] /\ dheld'[<<c, n>>] = dheld[<<c, n>>]
    OBVIOUS
  <2> HIDE DEF c
  <2> QED
    BY <1>0, <1>5, <2>1, RefusedAnswers
<1>7. OnlyAnswers(c)'
  BY <1>0 DEF Served, OnlyAnswers, FromAnswers
\* Of who is served only the socket in use is not being closed.
<1>8. MayEnd(c) /\ (dst[d] \notin Closing => k = pClientSocket[c] /\ dst'[d] = "ended")
  <2>1. CASE dst[d] \in Closing
    BY <2>1 DEF MayEnd
  <2>2. CASE dst[d] \notin Closing
    <3>1. k = pClientSocket[c] /\ dst[d] \in {"connecting", "open"}
      BY <1>0, <2>2, ListedCurrent DEF Current
    <3>2. dst'[d] = "ended" /\ \A e \in Dest : e # d => dst'[e] = dst[e]
      BY <1>0, <2>2 DEF TypeOK
    <3>3. \A n \in Number : <<c, n>> \in Dest /\ (<<c, n>> = d <=> n = k)
      BY <1>0 DEF Dest, Number
    <3>4. \A n \in Number : n = k => dst'[<<c, n>>] = "ended" /\ dst[<<c, n>>] \in {"connecting", "open"}
      BY <1>0, <3>1, <3>2
    <3>5. \A n \in Number : n # k => dst'[<<c, n>>] = dst[<<c, n>>]
      BY <3>2, <3>3
    <3>6. MayEnd(c)
      BY <3>1, <3>4, <3>5 DEF MayEnd
    <3> QED
      BY <3>1, <3>2, <3>6
  <2> QED
    BY <2>1, <2>2
<1>9. /\ Written(c)' = Written(c) /\ Buffer(c)' = Buffer(c) /\ Tunnel(c)' = Tunnel(c) /\ Body(c)' = Body(c)
      /\ Current(c)' = Current(c) /\ (pClientSocket[c] # 0 => host'[Current(c)] = host[Current(c)])
      /\ Accounted(c)' /\ Numbers(c)' /\ (Connecting(c)' => Connecting(c))
      /\ AfterAnswer(c) => AfterAnswer(c)'
  <2>1. Accounted(c) /\ Numbers(c)
    BY <1>0 DEF Kept
  <2> QED
    BY <1>0, <1>4, <1>8, <2>1, NoBytesKept
<1>10. /\ pClientSocket'[c] = pClientSocket[c] /\ (c \in relay') = (c \in relay)
       /\ (c \in late') = (c \in late) /\ asked'[c] = asked[c] /\ held'[c] = held[c]
       /\ sent'[c] = sent[c] /\ nread'[c] = nread[c] /\ replied'[c] = replied[c]
  BY <1>4 DEF NoBytes
<1>11. AnsweredWritten(c)' /\ LateSettled(c)'
  BY <1>0, <1>1, <1>9, <1>10 DEF Kept, AnsweredWritten, LateSettled
<1>12. ASSUME c \notin relay PROVE Waiting(c)'
  <2>1. NoneThere(c) /\ FirstKept(c) /\ FirstAsked(c)
    BY <1>0, <1>12 DEF Kept, Waiting
  <2>2. k = pClientSocket[c] /\ dst'[d] = "ended" /\ pClientSocket[c] # 0
    <3>1. dst[d] \notin Closing
      BY <1>0, <2>1 DEF NoneThere, Closing
    <3>2. k # 0
      BY <1>0 DEF Number
    <3> QED
      BY <1>8, <3>1, <3>2
  <2>3. ~Connecting(c)'
    <3>1. Current(c)' = d
      BY <1>0, <1>9, <2>2 DEF Current
    <3> QED
      BY <2>2, <3>1 DEF Connecting
  <2>4. NoneThere(c)'
    <3>1. \A i \in 1 .. Len(got'[c]) : got'[c][i] = BadGateway
      <4>1. got[c] \in Seq(Part) /\ \A i \in 1 .. Len(got[c]) : got[c][i] = BadGateway
        BY <1>0, <2>1 DEF TypeOK, NoneThere
      <4> QED
        BY <1>5, <4>1, OnlyBad
    <3>2. \A n \in Number : /\ dst'[<<c, n>>] \in {"none", "connecting", "ended"}
                            /\ inbox'[<<c, n>>] = <<>> /\ dheld'[<<c, n>>] = <<>>
      BY <1>4, <1>8, <2>1 DEF NoneThere, MayEnd, NoBytes
    <3> QED
      BY <1>1, <1>3, <1>10, <2>1, <2>2, <2>3, <3>1, <3>2 DEF NoneThere
  <2>5. FirstKept(c)'
    BY <1>1, <1>3, <1>9, <1>10, <2>1 DEF FirstKept
  <2>6. FirstAsked(c)'
    BY <1>1, <1>3, <1>9, <1>10, <2>1 DEF FirstAsked
  <2> QED
    BY <2>4, <2>5, <2>6 DEF Waiting
<1>13. ASSUME c \in relay PROVE Relaying(c)'
  <2>1. Relaying(c)
    BY <1>0, <1>13 DEF Kept
  <2>2. ThroughTunnel(c) => ThroughTunnel(c)'
    BY <1>9, <1>10 DEF ThroughTunnel
  <2>3. pClientSocket[c] # 0 /\ Passing(c) => Passing(c)'
    <3>1. pClientSocket[c] # 0 /\ BeforeAnswer(c) => BeforeAnswer(c)'
      BY <1>1, <1>3, <1>9, <1>10 DEF BeforeAnswer
    <3>2. pClientSocket[c] # 0 /\ KeptBack(c) => KeptBack(c)'
      BY <1>3, <1>9, <1>10 DEF KeptBack
    <3> QED
      BY <1>1, <1>3, <1>9, <1>10, <3>1, <3>2 DEF Passing
  <2> QED
    BY <1>1, <1>3, <1>9, <1>10, <2>1, <2>2, <2>3 DEF Relaying
<1>14. Kept(c)'
  BY <1>9, <1>10, <1>11, <1>12, <1>13 DEF Kept
<1>15. \A x \in Conn \ {c} : Unmoved(x) /\ Settling(x)
  BY <1>0, OthersUnmoved
<1> QED
  BY <1>0, <1>2, <1>4, <1>6, <1>7, <1>14, <1>15, AnswersServed

\* SocketErrorDest and SocketClosingDest close the client.
LEMMA DestFailsKept ==
  ASSUME ProxyInv, KeptInv, NEW d \in Dest, DestFails(d)
  PROVE  KeptInv'
<1> USE DEF lists, ends, dests, client
<1> DEFINE c == Owner(d)
<1>0. TypeOK /\ c \in Conn /\ d = <<c, d[2]>> /\ d[2] \in Number
  BY DEF ProxyInv, Owner, Dest, Number
<1>1. \A e \in Dest : e # d => dst'[e] = dst[e]
  BY <1>0 DEF DestFails, TypeOK
<1>2. \A x \in Conn, n \in Number : <<x, n>> \in Dest /\ (x # c => <<x, n>> # d)
  BY <1>0 DEF Dest, Number
<1>3. CASE Listed(d)
  <2>1. /\ sock' = Closed({c}) /\ got' = (IF details[c].bConncted THEN got ELSE Refused(c))
        /\ details' = [details EXCEPT ![c] = [@ EXCEPT !.bConncted = TRUE]]
        /\ dst[d] \in {"connecting", "open"} \cup Closing
        /\ dst' = (IF dst[d] \in Closing THEN dst ELSE [dst EXCEPT ![d] = "ended"])
        /\ UNCHANGED <<m_vConnections, pClientSocket, relay, held, host, inbox, back, dheld, asked,
                       sent, nread, replied, late>>
    BY <1>3 DEF DestFails
  <2>2. \A x \in Conn \ {c} : /\ got'[x] = got[x] /\ details'[x] = details[x] /\ sock'[x] = sock[x]
                              /\ \A n \in Number : dst'[<<x, n>>] = dst[<<x, n>>]
    <3>1. \A x \in Conn \ {c}, n \in Number : dst'[<<x, n>>] = dst[<<x, n>>]
      <4>1. ASSUME NEW x \in Conn \ {c}, NEW n \in Number PROVE <<x, n>> \in Dest /\ <<x, n>> # d
        BY <1>2
      <4> HIDE DEF c
      <4> QED
        BY <1>1, <4>1
    <3> QED
      BY <1>0, <2>1, <3>1 DEF Refused, Told, Closed, TypeOK, KeptInv, BytesTyped
  <2>3. AnswersMove(c)
    BY <2>1, <2>2 DEF AnswersMove
  <2> QED
    BY <1>0, <1>3, <2>1, <2>3, FailedKept
<1>4. CASE ~Listed(d)
  <2>1. BytesKept /\ UNCHANGED <<m_vConnections, sock>> /\ dst[d] \in {"connecting", "open"} \cup Closing
        /\ dst' = (IF dst[d] \in Closing THEN dst ELSE [dst EXCEPT ![d] = "ended"])
    BY <1>4 DEF DestFails, BytesKept
  <2>2. ASSUME NEW x \in Conn PROVE Settling(x)
    <3>1. CASE x \in m_vConnections
      <4>1. dst[d] \in {"connecting", "open"} => Owner(d) # x
        BY <1>4, <3>1, ListedCurrent
      <4>2. ASSUME NEW n \in Number PROVE dst'[<<x, n>>] = dst[<<x, n>>]
        BY <1>1, <1>2, <2>1, <4>1
      <4> QED
        BY <2>1, <4>2 DEF Settling
    <3>2. CASE x \notin m_vConnections
      BY <2>1, <3>2 DEF Settling
    <3> QED
      BY <3>1, <3>2
  <2> QED
    BY <2>1, <2>2, Settled
<1> QED
  BY <1>3, <1>4

-----------------------------------------------------------------------------
(* The invariant, and what follows from it *)

\* Every step keeps it. LaterBodies is needed for Ask alone.
LEMMA KeptNext ==
  ASSUME ~LaterBodies, ProxyInv, KeptInv, [Next]_vars
  PROVE  KeptInv'
<1>1. CASE UNCHANGED vars
  <2>1. BytesKept /\ UNCHANGED <<m_vConnections, dst, sock>>
    BY <1>1 DEF vars, lists, ends, dests, client, BytesKept
  <2> QED
    BY <2>1, SocketsSettle, Settled
<1>2. ASSUME NEW c \in Conn, ClientStep(c) PROVE KeptInv'
  <2>1. CASE \E h \in Host, body \in Bodies, connect \in BOOLEAN : Ask(c, h, body, connect)
    BY <2>1, AskKept
  <2>2. CASE SendThrough(c) \/ OnNewConnection(c)
    BY <2>2, SendThroughKept, NewConnectionKept
  <2>3. CASE \E n \in DOMAIN Available(c) : Read(c, n)
    BY <2>3, ReadKept
  <2>4. CASE \E n \in DOMAIN Available(c) : RelayClient(c, n)
    BY <2>4, RelayClientKept
  <2>5. CASE HandleData(c)
    BY <2>5, HandleDataKept
  <2>6. CASE \/ ClientEnds(c) \/ OnSocketError(c) \/ Fire(c) \/ OnTimeout(c) \/ EndTimer(c)
             \/ OnSocketClosing(c) \/ ClosingErases(c) \/ ClosingEnds(c)
    BY <2>6, EndingKept
  <2> QED
    BY <1>2, <2>1, <2>2, <2>3, <2>4, <2>5, <2>6 DEF ClientStep
<1>3. ASSUME NEW d \in Dest, DestStep(d) PROVE KeptInv'
  <2>1. CASE \E r \in 1 .. MaxRequests : DestAnswers(d, r)
    BY <2>1, DestAnswersKept
  <2>2. CASE Connected(d) \/ DestFails(d) \/ DestEnds(d) \/ HandleDest(d)
    BY <2>2, ConnectedKept, DestFailsKept, DestEndsKept, HandleDestKept
  <2>3. CASE \E n \in DOMAIN back[d] : ReadDest(d, n)
    BY <2>3, ReadDestKept
  <2>4. CASE SocketClosingDelete(d) \/ Unlock(d) \/ Delete(d)
    BY <2>4, GoingKept
  <2> QED
    BY <1>3, <2>1, <2>2, <2>3, <2>4 DEF DestStep
<1>4. CASE Next
  BY <1>2, <1>3, <1>4, ServerStepKept DEF Next
<1> QED
  BY <1>1, <1>4

\* The same byte, whether its line has its host or not.
LEMMA PlainFollows ==
  ASSUME NEW s \in Seq(Byte), NEW t \in Seq(Byte), Len(s) = Len(t), Follows(s, t, 0)
  PROVE  Plain(s) = Plain(t)
<1>1. DOMAIN s = 1 .. Len(s) /\ DOMAIN t = DOMAIN s
  OBVIOUS
<1>2. \A i \in DOMAIN s : 0 + i = i
  BY <1>1
<1>3. \A i \in DOMAIN s : s[i].req = t[i].req /\ s[i].part = t[i].part
  BY <1>1, <1>2 DEF Follows
<1> QED
  BY <1>1, <1>3 DEF Plain

\* What follows byte by byte is the same sequence.
LEMMA KeptInOrder == KeptInv /\ ProxyInv => BytesInOrder
<1> SUFFICES ASSUME KeptInv, ProxyInv, NEW c \in m_vConnections \ late
             PROVE  LET det == details[c] IN
                    Plain((IF det.connect THEN det.strBuffer \o Written(c) ELSE Written(c) \o det.strBuffer)
                          \o held[c])
                      = Plain(SubSeq(sent[c], 1, nread[c]))
  BY DEF BytesInOrder
<1> DEFINE v == Written(c)
           b == Buffer(c)
           s == sent[c]
           N == nread[c]
           x == details[c].connect
           H == held[c]
           m == IF x THEN b \o v ELSE v \o b
<1>0. TypeOK /\ BytesTyped /\ c \in Conn /\ InOrder(c)
  BY DEF ProxyInv, KeptInv, Served, Kept, TypeOK, Accounted
<1>1. /\ v \in Seq(Byte) /\ b \in Seq(Byte) /\ s \in Seq(Byte) /\ H \in Seq(Byte) /\ x \in BOOLEAN
      /\ N \in Nat /\ N <= Len(s) /\ N = Len(v) + Len(b) + Len(H)
      /\ Follows(b, s, IF x THEN 0 ELSE Len(v)) /\ Follows(v, s, IF x THEN Len(b) ELSE 0)
      /\ Follows(H, s, Len(v) + Len(b))
  BY <1>0, Typed DEF InOrder
<1>2. details[c].strBuffer = b
  BY DEF Buffer
<1> HIDE DEF v, b, s, N, x, H
<1>3. Len(v) \in Nat /\ Len(b) \in Nat /\ Len(H) \in Nat /\ Len(s) \in Nat
  BY <1>1
<1>4. m \in Seq(Byte) /\ Len(m) = Len(v) + Len(b) /\ Follows(m, s, 0)
  <2>1. /\ v \o b \in Seq(Byte) /\ Len(v \o b) = Len(v) + Len(b)
        /\ b \o v \in Seq(Byte) /\ Len(b \o v) = Len(v) + Len(b)
    BY <1>1
  <2>2. 0 + Len(v) = Len(v) /\ 0 + Len(b) = Len(b)
    BY <1>3
  <2>3. CASE x
    BY <1>1, <2>1, <2>2, <2>3, FollowsJoin
  <2>4. CASE ~x
    BY <1>1, <2>1, <2>2, <2>4, FollowsJoin
  <2> QED
    BY <1>1, <2>3, <2>4
<1> HIDE DEF m
<1>5. m \o H \in Seq(Byte) /\ Len(m \o H) = N /\ Follows(m \o H, s, 0)
  <2>1. m \o H \in Seq(Byte) /\ Len(m \o H) = Len(m) + Len(H)
    <3>1. m \in Seq(Byte) /\ H \in Seq(Byte)
      BY <1>1, <1>4
    <3> QED
      BY <3>1, Cat
  <2>2. 0 + Len(m) = Len(v) + Len(b)
    BY <1>3, <1>4
  <2>3. Follows(m \o H, s, 0)
    BY <1>1, <1>4, <2>2, FollowsJoin
  <2> QED
    BY <1>1, <1>4, <2>1, <2>3
<1>6. /\ SubSeq(s, 1, N) \in Seq(Byte) /\ Len(SubSeq(s, 1, N)) = N
      /\ \A i \in 1 .. N : SubSeq(s, 1, N)[i] = s[i] /\ 0 + i = i
  BY <1>1, <1>3
<1>7. Follows(m \o H, SubSeq(s, 1, N), 0)
  BY <1>5, <1>6 DEF Follows
<1>8. Plain(m \o H) = Plain(SubSeq(s, 1, N))
  BY <1>5, <1>6, <1>7, PlainFollows
<1> QED
  BY <1>2, <1>8 DEF m, v, s, N, x, H

\* A host is known by its name.
LEMMA KeptHosts == KeptInv /\ IsInjective(Name) => RightHost
<1> SUFFICES ASSUME KeptInv, IsInjective(Name), NEW d \in Dest, NEW i \in DOMAIN inbox[d]
             PROVE  asked[Owner(d)][inbox[d][i].req].host = host[d]
  BY DEF RightHost
<1> DEFINE c == Owner(d)
           k == d[2]
           r == inbox[d][i].req
<1>1. c \in Conn /\ k \in Number /\ d = <<c, k>> /\ HostsRight(c) /\ inbox[d] \in Seq(Byte)
      /\ asked[c] \in Seq(Request)
  BY DEF Owner, Dest, Number, KeptInv, Served, BytesTyped
<1>2. /\ r \in 1 .. Len(asked[c]) /\ host[d] \in Host /\ Name[asked[c][r].host] = Name[host[d]]
  <2>1. inbox[d] = inbox[<<c, k>>] /\ i \in 1 .. Len(inbox[<<c, k>>]) /\ host[d] = host[<<c, k>>]
    BY <1>1, SMTT(30)
  <2> HIDE DEF c, k
  <2> QED
    BY <1>1, <2>1 DEF HostsRight
<1>3. asked[c][r].host \in Host
  <2>1. asked[c][r] \in Request
    BY <1>1, <1>2
  <2> QED
    BY <2>1 DEF Request
<1> QED
  BY <1>2, <1>3, ProxyAssumption DEF IsInjective

\* A connection that was connected keeps no complete header.
LEMMA KeptComplete == KeptInv /\ ProxyInv => NothingKeptBack
<1> SUFFICES ASSUME KeptInv, ProxyInv, NEW c \in m_vConnections \ late, sock[c] = "open",
                    details[c].bConncted, ~details[c].connect
             PROVE  \A i \in DOMAIN details[c].strBuffer : details[c].strBuffer[i].part = 1
  BY DEF NothingKeptBack
<1>1. Kept(c) /\ DOMAIN Buffer(c) = 1 .. Len(Buffer(c))
  <2>1. c \in Conn
    BY DEF ProxyInv, TypeOK
  <2>2. Kept(c) /\ details[c] \in Details
    BY <2>1 DEF KeptInv, Served, BytesTyped
  <2>3. Buffer(c) \in Seq(Byte)
    BY <2>2 DEF Details, Buffer
  <2> QED
    BY <2>2, <2>3
<1> QED
  BY <1>1 DEF Kept, Waiting, NoneThere, Relaying, Passing, KeptBack, Buffer

\* The inductive invariant holds throughout, for clients that send a body with the
\* first request only: what Read has taken is with OnDataReceived or
\* OnDataRecievedClient, in the buffer or in what Connected and the loop have written;
\* and of a connection whose strBuffer was extended too late a part is left out, so that
\* a destination that answers only whole requests never answers it.
THEOREM BytesKeptInvariant ==
  ASSUME ~LaterBodies PROVE Spec => []KeptInv
<1>1. Init => KeptInv
  BY KeptInit
<1>2. ProxyInv /\ KeptInv /\ [Next]_vars => KeptInv'
  BY KeptNext
<1> QED
  BY <1>1, <1>2, ProxyInvariant, PTL DEF Spec

\* Every byte that was read from a client is passed on or waits, once and in order,
\* and nothing complete is kept back from a destination that is there: through
\* OnDataReceived, Connected and the loop of OnDataRecievedClient, whatever fails, of every
\* connection whose strBuffer was not extended after Connected had passed it on.
THEOREM BytesAlwaysInOrder ==
  ASSUME ~LaterBodies PROVE Spec => [](BytesInOrder /\ NothingKeptBack)
<1>1. ProxyInv /\ KeptInv => BytesInOrder /\ NothingKeptBack
  BY KeptInOrder, KeptComplete
<1> QED
  BY <1>1, BytesKeptInvariant, ProxyInvariant, PTL

\* If no two hosts have one name, each request also goes to its own host, of the late
\* connections too: the loop of OnDataRecievedClient compares names, and opens another
\* socket when they differ.
THEOREM RequestsAlwaysKept ==
  ASSUME ~LaterBodies, IsInjective(Name) PROVE Spec => []RequestsKept
<1>1. ProxyInv /\ KeptInv => RequestsKept
  BY KeptInOrder, KeptHosts, KeptComplete DEF RequestsKept
<1> QED
  BY <1>1, BytesKeptInvariant, ProxyInvariant, PTL
=============================================================================
