--------------------------- MODULE ConnLifecycle ----------------------------
(***************************************************************************)
(* The connections of one CHttpServ, from OnNewConnection to the           *)
(* destructor of the server.                                               *)
(*                                                                         *)
(* m_vConnections owns what all threads of a connection work with: its     *)
(* streams, its timer and the flag atStop that DoAction knows as patStop.  *)
(* An entry is removed by OnSocketClosing alone, and only when the timer   *)
(* has ended and no DoAction thread of the connection is entered in        *)
(* m_umActionThreads.  Two mutexes are involved, m_mtxConnections          *)
(* (connMutex) and m_ActThrMutex (actMutex); who needs both takes them in  *)
(* this order, and OnSocketClosing lets go of both while it waits.         *)
(*                                                                         *)
(* The socket library is not part of the repository.  Of it is assumed:    *)
(* Close returns at once and has the library call OnSocketClosing, once,   *)
(* on a thread of its own; no callback comes before StartReceiving; when   *)
(* the listening socket is closed OnNewConnection has returned.  Whether   *)
(* OnDataReceived may still run when OnSocketClosing begins is left open.  *)
(***************************************************************************)
EXTENDS Integers, FiniteSets

CONSTANTS
  Conn,          \* the sockets of one client address
  Action,        \* DoAction threads that may be started
  ConnOf,        \* the connection of each
  MaxConnPerIp,  \* m_nMaxConnPerIp, greater than 0
  MaxOthers      \* bound on the connections the address has to other servers

ASSUME ConnAssumption ==
  /\ IsFiniteSet(Conn) /\ IsFiniteSet(Action)
  /\ ConnOf \in [Action -> Conn]
  /\ MaxConnPerIp \in Nat \ {0} /\ MaxOthers \in 0 .. MaxConnPerIp + 1

VARIABLES
  sock,        \* what the socket library knows of each socket
  closeReq,    \* the sockets Close was called for
  connected,   \* the keys of m_vConnections
  atStop,      \* the connections whose atStop is TRUE
  timer,       \* the waiting thread of each connection's timer
  timerStop,   \* the timers Stop was called for
  connMutex,   \* who holds m_mtxConnections
  actMutex,    \* who holds m_ActThrMutex
  act,         \* where each DoAction thread is
  registry,    \* the DoAction threads entered in m_umActionThreads
  reader,      \* where OnDataReceived is, per connection
  closer,      \* where OnSocketClosing is
  server,      \* where the thread is that stops and destroys the server
  count,       \* s_lstIpConnect of the address, 0 for a missing entry
  others       \* its connections to other servers (never changes)

sockets == <<sock, closeReq>>
timers  == <<timer, timerStop>>
mutexes == <<connMutex, actMutex>>
actions == <<act, registry>>
ip      == <<count, others>>
vars    == <<sockets, connected, atStop, timers, mutexes, actions, reader,
             closer, server, ip>>

Free == <<>>
Reader(c) == <<"OnDataReceived", c>>
Closer(c) == <<"OnSocketClosing", c>>

Init ==
  /\ sock = [c \in Conn |-> "new"] /\ closeReq = {}
  /\ connected = {} /\ atStop = {}
  /\ timer = [c \in Conn |-> "none"] /\ timerStop = {}
  /\ connMutex = Free /\ actMutex = Free
  /\ act = [a \in Action |-> "none"] /\ registry = {}
  /\ reader = [c \in Conn |-> "idle"]
  /\ closer = [c \in Conn |-> "none"]
  /\ server = "runs"
  /\ others \in 0 .. MaxOthers /\ count = others

Registered(c) == \E a \in registry : ConnOf[a] = c

-----------------------------------------------------------------------------
(* OnNewConnection *)

\* The count is compared before the new connection is in it.
TooMany == count > MaxConnPerIp

AcceptCountsFirst(c) ==       \* mutant: a refused connection is counted, too
  /\ server = "runs" /\ sock[c] = "new"
  /\ sock' = [sock EXCEPT ![c] = IF TooMany THEN "refused" ELSE "accepted"]
  /\ count' = count + 1
  /\ UNCHANGED <<closeReq, connected, atStop, timers, mutexes, actions, reader,
                 closer, server, others>>

Accept(c) ==
  /\ server = "runs" /\ sock[c] = "new"
  /\ IF TooMany
     THEN sock' = [sock EXCEPT ![c] = "refused"] /\ UNCHANGED count
     ELSE sock' = [sock EXCEPT ![c] = "accepted"] /\ count' = count + 1
  /\ UNCHANGED <<closeReq, connected, atStop, timers, mutexes, actions, reader,
                 closer, server, others>>

\* The entry with its timer, and StartReceiving, in one hold of the mutex.
Admit(c) ==
  /\ sock[c] = "accepted" /\ connMutex = Free
  /\ connected' = connected \cup {c}
  /\ timer' = [timer EXCEPT ![c] = "waits"]
  /\ sock' = [sock EXCEPT ![c] = "receiving"]
  /\ UNCHANGED <<closeReq, atStop, timerStop, mutexes, actions, reader, closer,
                 server, ip>>

-----------------------------------------------------------------------------
(* OnDataReceived.  It holds m_mtxConnections throughout, except while it    *)
(* waits for the DoAction threads after a GOAWAY.                            *)

\* The client has closed its side: nothing to read.
ClientCloses(c) ==
  /\ sock[c] = "receiving" /\ reader[c] = "idle"
  /\ closeReq' = closeReq \cup {c}
  /\ UNCHANGED <<sock, connected, atStop, timers, mutexes, actions, reader,
                 closer, server, ip>>

\* Data for a connection that is not there any more is dropped.
OnDataReceived(c) ==
  /\ sock[c] = "receiving" /\ reader[c] = "idle"
  /\ connMutex = Free /\ c \in connected
  /\ connMutex' = Reader(c)
  /\ reader' = [reader EXCEPT ![c] = "request"]
  /\ UNCHANGED <<sockets, connected, atStop, timers, actMutex, actions, closer,
                 server, ip>>

Leave(c) ==
  /\ connMutex' = Free /\ reader' = [reader EXCEPT ![c] = "idle"]

\* A complete request: with m_ActThrMutex held its thread is started ...
StartAction(c, a) ==
  /\ reader[c] = "request" /\ act[a] = "none" /\ ConnOf[a] = c
  /\ actMutex = Free /\ actMutex' = Reader(c)
  /\ act' = [act EXCEPT ![a] = "runs"]
  /\ reader' = [reader EXCEPT ![c] = "register"]
  /\ UNCHANGED <<sockets, connected, atStop, timers, connMutex, registry, closer,
                 server, ip>>

\* ... and entered into the list.
Register(c) ==
  /\ reader[c] = "register"
  /\ registry' = registry \cup
       {a \in Action : ConnOf[a] = c /\ act[a] \notin {"none", "gone"}}
  /\ actMutex' = Free
  /\ reader' = [reader EXCEPT ![c] = "request"]
  /\ UNCHANGED <<sockets, connected, atStop, timers, connMutex, act, closer,
                 server, ip>>

\* Nothing more in the buffer.
Return(c) ==
  /\ reader[c] = "request" /\ Leave(c)
  /\ UNCHANGED <<sockets, connected, atStop, timers, actMutex, actions, closer,
                 server, ip>>

\* A request that cannot be parsed is answered with 400, 417, ...; settings of
\* an upgrade to h2c that cannot be read raise atStop, too.
BadRequest(c, stop) ==
  /\ reader[c] = "request" /\ Leave(c)
  /\ closeReq' = closeReq \cup {c}
  /\ atStop' = IF stop THEN atStop \cup {c} ELSE atStop
  /\ UNCHANGED <<sock, connected, timers, actMutex, actions, closer, server, ip>>

\* A WebSocket has no timeout.
UpgradeToWebSocket(c) ==
  /\ reader[c] = "request" /\ Leave(c)
  /\ timerStop' = timerStop \cup {c}
  /\ UNCHANGED <<sockets, connected, atStop, timer, actMutex, actions, closer,
                 server, ip>>

\* Http2StreamProto returned SIZE_MAX: a GOAWAY was sent or received.
Goaway(c) ==
  /\ reader[c] = "request"
  /\ atStop' = atStop \cup {c}
  /\ reader' = [reader EXCEPT ![c] = "goaway"]
  /\ UNCHANGED <<sockets, connected, timers, mutexes, actions, closer, server, ip>>

\* m_ActThrMutex is taken before m_mtxConnections is given back.
GoawayLocks(c) ==
  /\ reader[c] = "goaway" /\ actMutex = Free
  /\ actMutex' = Reader(c) /\ connMutex' = Free
  /\ reader' = [reader EXCEPT ![c] = "goawayScan"]
  /\ UNCHANGED <<sockets, connected, atStop, timers, actions, closer, server, ip>>

GoawayScanHolds(c) ==         \* mutant: waits with m_ActThrMutex
  /\ reader[c] = "goawayScan" /\ ~Registered(c)
  /\ actMutex' = Free /\ closeReq' = closeReq \cup {c}
  /\ reader' = [reader EXCEPT ![c] = "idle"]
  /\ UNCHANGED <<sock, connected, atStop, timers, connMutex, actions, closer, server, ip>>

\* One run through the list: sleep if a thread of the connection is in it,
\* else close the socket.
GoawayScan(c) ==
  /\ reader[c] = "goawayScan"
  /\ actMutex' = Free
  /\ IF Registered(c)
     THEN reader' = [reader EXCEPT ![c] = "goawaySleep"] /\ UNCHANGED closeReq
     ELSE reader' = [reader EXCEPT ![c] = "idle"] /\ closeReq' = closeReq \cup {c}
  /\ UNCHANGED <<sock, connected, atStop, timers, connMutex, actions, closer,
                 server, ip>>

GoawayAgain(c) ==
  /\ reader[c] = "goawaySleep" /\ actMutex = Free
  /\ actMutex' = Reader(c)
  /\ reader' = [reader EXCEPT ![c] = "goawayScan"]
  /\ UNCHANGED <<sockets, connected, atStop, timers, connMutex, actions, closer,
                 server, ip>>

ReaderStep(c) ==
  \/ \E a \in Action : StartAction(c, a)
  \/ Register(c) \/ Return(c) \/ UpgradeToWebSocket(c)
  \/ \E stop \in BOOLEAN : BadRequest(c, stop)
  \/ Goaway(c) \/ GoawayLocks(c) \/ GoawayScan(c) \/ GoawayAgain(c)

-----------------------------------------------------------------------------
(* A DoAction thread *)

\* The response is sent, or given up (FlowControl: it is when patStop is
\* TRUE); some responses close the connection.
FinishAction(a, close) ==
  /\ act[a] = "runs"
  /\ act' = [act EXCEPT ![a] = "ends"]
  /\ closeReq' = IF close THEN closeReq \cup {ConnOf[a]} ELSE closeReq
  /\ UNCHANGED <<sock, connected, atStop, timers, mutexes, registry, reader,
                 closer, server, ip>>

\* fuExitDoAction; what it works with must last until here.
ExitAction(a) ==
  /\ act[a] = "ends" /\ actMutex = Free
  /\ registry' = registry \ {a}
  /\ act' = [act EXCEPT ![a] = "gone"]
  /\ UNCHANGED <<sockets, connected, atStop, timers, mutexes, reader, closer,
                 server, ip>>

ActionStep(a) ==
  \/ \E close \in BOOLEAN : FinishAction(a, close)
  \/ ExitAction(a)

-----------------------------------------------------------------------------
(* The timer of a connection (module Timer): it ends by Stop, or by calling  *)
(* OnTimeout, which waits for m_mtxConnections.                              *)

Fire(c) ==
  /\ timer[c] = "waits" /\ c \notin timerStop
  /\ timer' = [timer EXCEPT ![c] = "fired"]
  /\ UNCHANGED <<sockets, connected, atStop, timerStop, mutexes, actions, reader,
                 closer, server, ip>>

OnTimeout(c) ==
  /\ timer[c] = "fired" /\ connMutex = Free
  /\ timer' = [timer EXCEPT ![c] = "stopped"]
  /\ IF c \in connected
     THEN atStop' = atStop \cup {c} /\ closeReq' = closeReq \cup {c}
     ELSE UNCHANGED <<atStop, closeReq>>
  /\ UNCHANGED <<sock, connected, timerStop, mutexes, actions, reader, closer,
                 server, ip>>

EndTimer(c) ==
  /\ timer[c] = "waits" /\ c \in timerStop
  /\ timer' = [timer EXCEPT ![c] = "stopped"]
  /\ UNCHANGED <<sockets, connected, atStop, timerStop, mutexes, actions, reader,
                 closer, server, ip>>

TimerStep(c) == Fire(c) \/ OnTimeout(c) \/ EndTimer(c)

-----------------------------------------------------------------------------
(* OnSocketError and OnSocketClosing *)

\* The socket is closed right after the mutex is given back.
OnSocketError(c) ==
  /\ sock[c] = "receiving" /\ connMutex = Free
  /\ IF c \in connected
     THEN timerStop' = timerStop \cup {c} /\ atStop' = atStop \cup {c}
     ELSE UNCHANGED <<timerStop, atStop>>
  /\ closeReq' = closeReq \cup {c}
  /\ UNCHANGED <<sock, connected, timer, mutexes, actions, reader, closer, server, ip>>

\* The library calls OnSocketClosing.
Close(c) ==
  /\ sock[c] = "receiving" /\ c \in closeReq
  /\ sock' = [sock EXCEPT ![c] = "closed"]
  /\ closer' = [closer EXCEPT ![c] = "find"]
  /\ UNCHANGED <<closeReq, connected, atStop, timers, mutexes, actions, reader,
                 server, ip>>

\* The timer is looked up with m_mtxConnections, and waited for without:
\* OnTimeout needs that mutex.
Find(c) ==
  /\ closer[c] = "find" /\ connMutex = Free
  /\ closer' = [closer EXCEPT ![c] = IF c \in connected THEN "timer" ELSE "done"]
  /\ UNCHANGED <<sockets, connected, atStop, timers, mutexes, actions, reader,
                 server, ip>>

\* Stop the timer again and again until it is.
WaitTimer(c) ==
  /\ closer[c] = "timer"
  /\ timerStop' = timerStop \cup {c}
  /\ closer' = [closer EXCEPT ![c] = IF timer[c] = "stopped" THEN "relock" ELSE "timer"]
  /\ UNCHANGED <<sockets, connected, atStop, timer, mutexes, actions, reader,
                 server, ip>>

Relock(c) ==
  /\ closer[c] \in {"relock", "sleep"} /\ connMutex = Free
  /\ connMutex' = Closer(c)
  /\ closer' = [closer EXCEPT ![c] = "lockAct"]
  /\ UNCHANGED <<sockets, connected, atStop, timers, actMutex, actions, reader,
                 server, ip>>

LockAct(c) ==
  /\ closer[c] = "lockAct" /\ actMutex = Free
  /\ actMutex' = Closer(c)
  /\ closer' = [closer EXCEPT ![c] = "scan"]
  /\ UNCHANGED <<sockets, connected, atStop, timers, connMutex, actions, reader,
                 server, ip>>

ScanOnce(c) ==                \* mutant: told to stop, but not waited for
  /\ closer[c] = "scan" /\ actMutex' = Free
  /\ atStop' = IF Registered(c) THEN atStop \cup {c} ELSE atStop
  /\ closer' = [closer EXCEPT ![c] = "erase"]
  /\ UNCHANGED <<sockets, connected, timers, connMutex, actions, reader, server, ip>>

ScanSilent(c) ==              \* mutant: waited for, but not told to stop
  /\ closer[c] = "scan" /\ actMutex' = Free
  /\ IF Registered(c)
     THEN connMutex' = Free /\ closer' = [closer EXCEPT ![c] = "sleep"]
     ELSE closer' = [closer EXCEPT ![c] = "erase"] /\ UNCHANGED connMutex
  /\ UNCHANGED <<sockets, connected, atStop, timers, actions, reader, server, ip>>

\* One run through the list: a thread of the connection is told to stop, and
\* both mutexes are given back for 1 ms.
Scan(c) ==
  /\ closer[c] = "scan"
  /\ actMutex' = Free
  /\ IF c \in connected /\ Registered(c)
     THEN /\ atStop' = atStop \cup {c}
          /\ connMutex' = Free
          /\ closer' = [closer EXCEPT ![c] = "sleep"]
     ELSE /\ closer' = [closer EXCEPT ![c] = "erase"]
          /\ UNCHANGED <<atStop, connMutex>>
  /\ UNCHANGED <<sockets, connected, timers, actions, reader, server, ip>>

\* m_mtxConnections has been held since the list was searched.
Erase(c) ==
  /\ closer[c] = "erase"
  /\ connected' = connected \ {c}
  /\ closer' = [closer EXCEPT ![c] = "uncount"]
  /\ UNCHANGED <<sockets, atStop, timers, mutexes, actions, reader, server, ip>>

Uncount(c) ==
  /\ closer[c] = "uncount"
  /\ count' = IF count > 0 THEN count - 1 ELSE 0
  /\ connMutex' = Free
  /\ closer' = [closer EXCEPT ![c] = "done"]
  /\ UNCHANGED <<sockets, connected, atStop, timers, actMutex, actions, reader,
                 server, others>>

CloserStep(c) ==
  \/ Find(c) \/ WaitTimer(c) \/ Relock(c) \/ LockAct(c) \/ Scan(c) \/ Erase(c)
  \/ Uncount(c)

-----------------------------------------------------------------------------
(* Stop, the loop that waits for IsStopped, and the destructor *)

\* Nobody is accepted any more.
CloseListener ==
  /\ server = "runs" /\ \A c \in Conn : sock[c] # "accepted"
  /\ server' = "stops"
  /\ UNCHANGED <<sockets, connected, atStop, timers, mutexes, actions, reader,
                 closer, ip>>

CloseAllTimers ==             \* mutant: the sockets stay open
  /\ server = "stops" /\ connMutex = Free
  /\ timerStop' = timerStop \cup connected /\ server' = "polls"
  /\ UNCHANGED <<sockets, connected, atStop, timer, mutexes, actions, reader, closer, ip>>

CloseAll ==
  /\ server = "stops" /\ connMutex = Free
  /\ timerStop' = timerStop \cup connected
  /\ closeReq' = closeReq \cup connected
  /\ server' = "polls"
  /\ UNCHANGED <<sock, connected, atStop, timer, mutexes, actions, reader, closer, ip>>

\* m_vConnections is looked at without its mutex.
IsStopped ==
  /\ server = "polls" /\ connected = {}
  /\ server' = "stopped"
  /\ UNCHANGED <<sockets, connected, atStop, timers, mutexes, actions, reader,
                 closer, ip>>

DestroyAtOnce ==              \* mutant: the destructor does not call Stop
  /\ server = "stopped" /\ server' = "destroyed"
  /\ UNCHANGED <<sockets, connected, atStop, timers, mutexes, actions, reader, closer, ip>>

\* ~CHttpServ calls Stop again, which takes the mutex once more.
Destroy ==
  /\ server = "stopped" /\ connMutex = Free
  /\ server' = "destroyed"
  /\ UNCHANGED <<sockets, connected, atStop, timers, mutexes, actions, reader,
                 closer, ip>>

ServerStep == CloseAll \/ IsStopped \/ Destroy

LibraryStep(c) ==
  Accept(c) \/ Admit(c) \/ OnDataReceived(c) \/ ClientCloses(c) \/ OnSocketError(c)
  \/ Close(c)

Next ==
  \/ \E c \in Conn : LibraryStep(c) \/ ReaderStep(c) \/ TimerStep(c) \/ CloserStep(c)
  \/ \E a \in Action : ActionStep(a)
  \/ CloseListener \/ ServerStep

Spec == Init /\ [][Next]_vars

-----------------------------------------------------------------------------
Holders == {Free} \cup {Reader(c) : c \in Conn} \cup {Closer(c) : c \in Conn}

TypeOK ==
  /\ sock \in [Conn -> {"new", "refused", "accepted", "receiving", "closed"}]
  /\ closeReq \subseteq Conn /\ connected \subseteq Conn /\ atStop \subseteq Conn
  /\ timer \in [Conn -> {"none", "waits", "fired", "stopped"}]
  /\ timerStop \subseteq Conn
  /\ connMutex \in Holders /\ actMutex \in Holders
  /\ act \in [Action -> {"none", "runs", "ends", "gone"}]
  /\ registry \subseteq Action
  /\ reader \in [Conn -> {"idle", "request", "register", "goaway", "goawayScan",
                          "goawaySleep"}]
  /\ closer \in [Conn -> {"none", "find", "timer", "relock", "lockAct", "scan",
                          "sleep", "erase", "uncount", "done"}]
  /\ server \in {"runs", "stops", "polls", "stopped", "destroyed"}
  /\ others \in 0 .. MaxOthers /\ count \in 0 .. MaxConnPerIp + 1

Works(a) == act[a] \in {"runs", "ends"}

\* "... otherwise we remove the connection while the action thread is still
\* using it = crash": no DoAction thread outlives its connection.
NoActionWithoutConnection == \A a \in Action : Works(a) => ConnOf[a] \in connected

\* m_umActionThreads lists the threads that are at work: none is missed by a
\* search (who starts it holds the mutex until it is entered), and none stays
\* in it, or its connection would be waited for for ever.
RegistryExact ==
  /\ \A a \in registry : Works(a)
  /\ \A a \in Action : Works(a) /\ a \notin registry => actMutex = Reader(ConnOf[a])

\* The timer whose callback is under way, or still to come, is not destroyed
\* with its connection.
NoTimerWithoutConnection ==
  \A c \in Conn : timer[c] \in {"waits", "fired"} => c \in connected

\* A connection is removed when no thread and no timer can come back to it.
NothingRemovedInUse == NoActionWithoutConnection /\ NoTimerWithoutConnection

\* s_lstIpConnect counts the connections there are: one that is refused is not
\* counted, one that is closed is taken off once, whoever closes it.
CountExact ==
  count = others + Cardinality(
            {c \in Conn : /\ sock[c] \in {"accepted", "receiving", "closed"}
                          /\ closer[c] # "done"})

\* What others rely on: the list of threads, the number of connections.
AccountsExact == RegistryExact /\ CountExact

\* When the server is destroyed no thread is left that would use its members
\* (OnDataReceived apart, whose end is up to the socket library).
DestroyedAlone ==
  server = "destroyed" =>
    /\ \A a \in Action : ~Works(a)
    /\ \A c \in Conn : /\ closer[c] \in {"none", "done"}
                       /\ timer[c] \in {"none", "stopped"}

-----------------------------------------------------------------------------
\* The threads run, and one that waits for a mutex gets it if it is free again
\* and again.  DoAction ends if it is told to (FlowControl, ReqBody); the
\* library calls back for a socket that was closed.
FairSpec ==
  /\ Spec
  /\ \A c \in Conn :
       /\ WF_vars(Admit(c) \/ Close(c))
       /\ SF_vars(Register(c) \/ Return(c) \/ GoawayLocks(c) \/ GoawayScan(c)
                  \/ GoawayAgain(c))
       /\ SF_vars(OnTimeout(c) \/ EndTimer(c))
       /\ SF_vars(CloserStep(c))
  /\ \A a \in Action :
       SF_vars(\/ ConnOf[a] \in atStop /\ \E close \in BOOLEAN : FinishAction(a, close)
               \/ ExitAction(a))
  /\ SF_vars(ServerStep)

\* A connection that was closed, by whom ever, is removed: nobody waits for a
\* mutex, a timer or a thread that waits for him.
ClosedIsRemoved == \A c \in Conn : c \in closeReq ~> c \notin connected

\* After a GOAWAY the connection is terminated.
GoawayEnds == \A c \in Conn : reader[c] = "goaway" ~> c \in closeReq

\* The loops that poll IsStopped end, and with them the service.
ServerStops == server = "stops" ~> server = "destroyed"
=============================================================================
