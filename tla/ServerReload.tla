---------------------------- MODULE ServerReload ----------------------------
(***************************************************************************)
(* The servers of the process: m_vServers, a deque of CHttpServ, through   *)
(* start, reloads of the configuration while clients are connected, and    *)
(* stop (ReadConfiguration and the callbacks of main).                     *)
(*                                                                         *)
(* The callbacks of a listening socket and of its connections are bound to *)
(* the address the server had when it was started.  To erase a server from *)
(* the deque moves those before or behind it to other addresses.           *)
(*                                                                         *)
(* Of the connections ConnLifecycle shows that a closed one is removed     *)
(* from m_vConnections of the server it was entered in.                    *)
(***************************************************************************)
EXTENDS Integers, Sequences, FiniteSets, SequencesExt

CONSTANTS
  Conn,        \* the connections of all clients
  Listens,     \* what the configuration file may list: sets of ip:port
  MaxEdits     \* bound on the changes of the file

ASSUME ReloadAssumption ==
  /\ IsFiniteSet(Conn) /\ Listens # {} /\ MaxEdits \in Nat

VARIABLES
  file,      \* server.cfg: what it lists, and which version it is
  conf,      \* m_mSections, what was read of it
  recent,    \* it was checked for changes within the last second
  servers,   \* m_vServers
  made,      \* the objects made so far; the last one's address
  pc, i,     \* where the main thread is, and at which server
  listed,    \* mIpPortCombi, and the version of the file it is from
  news,      \* vNewServers
  home,      \* the object a connection's callbacks are bound to
  sock       \* the connections: "new", "open", "closing" or "closed"

config == <<file, conf, recent>>
thread == <<pc, i, listed, news>>
conns == <<home, sock>>
vars == <<config, servers, made, thread, conns>>

\* listens: m_pSocket is there, and its callbacks are bound to "bound".
\* params: the versions of the file the common and the own section came from.
NewServer(key, at) ==
  [key |-> key, at |-> at, listens |-> FALSE, bound |-> at, conns |-> {},
   params |-> <<0, 0>>]

Init ==
  /\ \E l \in Listens : file = [listens |-> l, version |-> 1]
  /\ conf = [file EXCEPT !.version = 0] /\ recent = FALSE
  /\ servers = <<>> /\ made = 0
  /\ pc = "start" /\ i = 0 /\ listed = conf /\ news = {}
  /\ home = [c \in Conn |-> 0] /\ sock = [c \in Conn |-> "new"]

Goto(s, n) == pc' = s /\ i' = n

Update(n, s) == servers' = [servers EXCEPT ![n] = s]

-----------------------------------------------------------------------------
(* The file, the clock and the clients *)

Edit(l) ==
  /\ file.version <= MaxEdits /\ l # file.listens
  /\ file' = [listens |-> l, version |-> file.version + 1]
  /\ UNCHANGED <<conf, recent, servers, made, thread, conns>>

ASecondPasses ==
  /\ recent /\ recent' = FALSE
  /\ UNCHANGED <<file, conf, servers, made, thread, conns>>

\* CheckFileLoaded, at the beginning of each get: the file is read again when
\* it changed, which is looked at once a second.
CheckFileLoaded ==
  /\ conf' = IF recent THEN conf ELSE file
  /\ recent' = TRUE
  /\ UNCHANGED file

\* OnNewConnection, in the object the listening socket is bound to.
Connect(c, n) ==
  LET at == servers[n].bound IN
  /\ sock[c] = "new" /\ servers[n].listens
  /\ sock' = [sock EXCEPT ![c] = "open"]
  /\ home' = [home EXCEPT ![c] = at]
  /\ servers' = [m \in DOMAIN servers |->
                   IF servers[m].at = at
                   THEN [servers[m] EXCEPT !.conns = @ \cup {c}] ELSE servers[m]]
  /\ UNCHANGED <<config, made, thread>>

\* The client, the timer or an error.
Close(c) ==
  /\ sock[c] = "open"
  /\ sock' = [sock EXCEPT ![c] = "closing"]
  /\ UNCHANGED <<config, servers, made, thread, home>>

\* OnSocketClosing looks for the connection in the object it is bound to; in
\* one that was destroyed or moved away it does not find it.
OnSocketClosing(c) ==
  /\ sock[c] = "closing"
  /\ sock' = [sock EXCEPT ![c] = "closed"]
  /\ servers' = [m \in DOMAIN servers |->
                   IF servers[m].at = home[c]
                   THEN [servers[m] EXCEPT !.conns = @ \ {c}] ELSE servers[m]]
  /\ UNCHANGED <<config, made, thread, home>>

-----------------------------------------------------------------------------
(* CHttpServ, called by the main thread *)

IsStoppedClosing(n) ==        \* mutant: Close was called for all of them
  \A c \in servers[n].conns : sock[c] # "open"

\* No connection of the server is in m_vConnections.
IsStopped(n) == servers[n].conns = {}

StopListening(n) ==           \* mutant: the connections are left to their clients
  /\ Update(n, [servers[n] EXCEPT !.listens = FALSE])
  /\ UNCHANGED conns

\* The listening socket is closed, and every connection.
Stop(n) ==
  /\ Update(n, [servers[n] EXCEPT !.listens = FALSE])
  /\ sock' = [c \in Conn |->
                IF c \in servers[n].conns /\ sock[c] = "open" THEN "closing" ELSE sock[c]]
  /\ UNCHANGED home

\* deque::erase moves whatever is less: what is before the server, or what is
\* behind it (operator=).  The objects at the end, empty now, are destroyed.
Erase(n) ==
  LET rest == RemoveAt(servers, n)
      moved == n - 1 < Len(servers) \div 2
  IN  servers' = [m \in DOMAIN rest |->
                    [rest[m] EXCEPT !.at = servers[IF moved THEN m + 1 ELSE m].at]]

-----------------------------------------------------------------------------
(* ReadConfiguration *)

ListenedBy == {servers[n].key : n \in DOMAIN servers}

NewServersAll ==              \* mutant: m_vServers is not looked at
  conf'.listens

\* The listed ones that do not run yet.
NewServers == conf'.listens \ ListenedBy

\* The service starts, or gets its signal.  The addresses are read with one call of
\* get and each one's ports with another; they are taken as one look at the file here,
\* so that an edit which comes between two of these calls is not modelled.
ReadListen ==
  /\ pc \in {"start", "running"}
  /\ CheckFileLoaded
  /\ listed' = conf'
  /\ news' = NewServers
  /\ Goto("delete", 1)
  /\ UNCHANGED <<servers, made, conns>>

Keep ==
  /\ pc = "delete" /\ i <= Len(servers) /\ servers[i].key \in listed.listens
  /\ Goto("delete", i + 1)
  /\ UNCHANGED <<config, servers, made, listed, news, conns>>

StopUnlisted ==
  /\ pc = "delete" /\ i <= Len(servers) /\ servers[i].key \notin listed.listens
  /\ Stop(i)
  /\ Goto("deleted", i)
  /\ UNCHANGED <<config, made, listed, news>>

EraseUnlisted ==
  /\ pc = "deleted" /\ IsStopped(i)
  /\ Erase(i)
  /\ Goto("delete", i)
  /\ UNCHANGED <<config, made, listed, news, conns>>

\* In the order in which the map of the configuration has them.
AddNew ==
  /\ pc = "delete" /\ i > Len(servers) /\ news # {}
  /\ \E key \in news :
       /\ servers' = Append(servers, NewServer(key, made + 1))
       /\ news' = news \ {key}
       /\ Goto("delete", i + 1)
  /\ made' = made + 1
  /\ UNCHANGED <<config, listed, conns>>

Configure ==
  /\ pc = "delete" /\ i > Len(servers) /\ news = {}
  /\ Goto("configure", 1)
  /\ UNCHANGED <<config, servers, made, listed, news, conns>>

StopServer ==
  /\ pc = "configure" /\ i <= Len(servers)
  /\ Stop(i)
  /\ Goto("common", i)
  /\ UNCHANGED <<config, made, listed, news>>

\* ClearAllParameterBlocks, and the parameters of the section "common".
SetCommon ==
  /\ pc = "common" /\ IsStopped(i)
  /\ CheckFileLoaded
  /\ Update(i, [servers[i] EXCEPT !.params = <<conf'.version, 0>>])
  /\ Goto("host", i)
  /\ UNCHANGED <<made, listed, news, conns>>

\* Those of the server's own section and its VirtualHosts.
SetHostParam ==
  /\ pc = "host"
  /\ CheckFileLoaded
  /\ Update(i, [servers[i] EXCEPT !.params[2] = conf'.version])
  /\ Goto("configure", i + 1)
  /\ UNCHANGED <<made, listed, news, conns>>

Configured ==
  /\ pc = "configure" /\ i > Len(servers)
  /\ Goto("listen", 1)
  /\ UNCHANGED <<config, servers, made, listed, news, conns>>

\* Start binds the callbacks; it may fail for want of the port.
StartServer ==
  /\ pc = "listen" /\ i <= Len(servers)
  /\ \E ok \in BOOLEAN :
       Update(i, [servers[i] EXCEPT !.listens = ok, !.bound = servers[i].at])
  /\ Goto("listen", i + 1)
  /\ UNCHANGED <<config, made, listed, news, conns>>

Started ==
  /\ pc = "listen" /\ i > Len(servers)
  /\ Goto("running", 0)
  /\ UNCHANGED <<config, servers, made, listed, news, conns>>

-----------------------------------------------------------------------------
(* fnStopCallBack *)

StopService ==
  /\ pc = "running"
  /\ Goto("stop", 1)
  /\ UNCHANGED <<config, servers, made, listed, news, conns>>

StopNext ==
  /\ pc = "stop" /\ i <= Len(servers)
  /\ Stop(i)
  /\ Goto("stop", i + 1)
  /\ UNCHANGED <<config, made, listed, news>>

ClearServers ==
  /\ pc = "stop" /\ i > Len(servers) /\ \A n \in DOMAIN servers : IsStopped(n)
  /\ servers' = <<>>
  /\ Goto("ended", 0)
  /\ UNCHANGED <<config, made, listed, news, conns>>

ReadConfiguration ==
  \/ Keep \/ StopUnlisted \/ EraseUnlisted \/ AddNew \/ Configure \/ StopServer
  \/ SetCommon \/ SetHostParam \/ Configured \/ StartServer \/ Started

StopCallback == StopNext \/ ClearServers

Next ==
  \/ \E l \in Listens : Edit(l)
  \/ ASecondPasses
  \/ \E c \in Conn : Close(c) \/ OnSocketClosing(c) \/ \E n \in DOMAIN servers : Connect(c, n)
  \/ ReadListen \/ ReadConfiguration \/ StopService \/ StopCallback

Spec == Init /\ [][Next]_vars

-----------------------------------------------------------------------------
Server == [key : UNION Listens, at : 1 .. made, listens : BOOLEAN, bound : 1 .. made,
           conns : SUBSET Conn, params : (0 .. MaxEdits + 1) \X (0 .. MaxEdits + 1)]

TypeOK ==
  /\ servers \in Seq(Server) /\ news \subseteq listed.listens
  /\ home \in [Conn -> 0 .. made]
  /\ sock \in [Conn -> {"new", "open", "closing", "closed"}]

\* Whatever was connected when the configuration changed: a connection's
\* callbacks find it in the server they are bound to, until it is closed.
CallbacksFindServer ==
  \A c \in Conn : sock[c] \in {"open", "closing"} =>
    \E n \in DOMAIN servers : servers[n].at = home[c] /\ c \in servers[n].conns

\* A server's parameters are not touched while one of its connections, whose
\* DoAction threads read them, is there.
ParamsUnused ==
  [][\A n \in DOMAIN servers, m \in DOMAIN servers' :
       servers[n].at = servers'[m].at /\ servers[n].params # servers'[m].params
         => \A c \in Conn : home[c] = servers[n].at => sock[c] \in {"new", "closed"}]_vars

\* After a reload there is one server for each listed address, with nothing of
\* an older file than the one that listed it.
AsConfigured ==
  pc = "running" =>
    /\ ListenedBy = listed.listens /\ Len(servers) = Cardinality(listed.listens)
    /\ \A n \in DOMAIN servers, k \in {1, 2} : servers[n].params[k] >= listed.version

\* The servers are those of the file, and known to their connections.
ServersSound == CallbacksFindServer /\ AsConfigured

-----------------------------------------------------------------------------
Fairness ==
  /\ WF_vars(ReadConfiguration) /\ WF_vars(StopCallback)
  /\ \A c \in Conn : WF_vars(OnSocketClosing(c))

FairSpec == Spec /\ Fairness

\* A reload comes to its end, and so does the stop ("Warten bis alle
\* Verbindungen / Ressourcen geschlossen sind").
ReloadEnds == pc \in {"delete", "stop"} ~> pc \in {"running", "ended"}
=============================================================================
