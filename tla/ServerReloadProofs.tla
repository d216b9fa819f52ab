-------------------------- MODULE ServerReloadProofs --------------------------
(***************************************************************************)
(* The servers are those of the file, whatever is edited meanwhile, and    *)
(* known to their connections as long as erase moves none.                 *)
(***************************************************************************)
EXTENDS ServerReload, TLAPS, SequenceTheorems, FiniteSetTheorems

Version == 0 .. MaxEdits + 1
Config == [listens : Listens, version : Version]
AnyServer == [key : UNION Listens, at : Nat, listens : BOOLEAN, bound : Nat,
              conns : SUBSET Conn, params : Version \X Version]

Reading == {"delete", "deleted"}
Setting == {"configure", "common", "host"}
Places == {"start", "running", "listen", "stop", "ended"} \cup Reading \cup Setting

Types ==
  /\ servers \in Seq(AnyServer) /\ made \in Nat
  /\ {file, conf, listed} \subseteq Config /\ recent \in BOOLEAN
  /\ pc \in Places /\ i \in Nat /\ news \subseteq listed.listens
  /\ home \in [Conn -> 0 .. made]
  /\ sock \in [Conn -> {"new", "open", "closing", "closed"}]
  /\ \A n \in DOMAIN servers : servers[n].at \in 1 .. made /\ servers[n].bound \in 1 .. made

\* The main thread's place in its loop over the servers.
InLoop ==
  /\ pc \in {"deleted", "common", "host"} => i \in DOMAIN servers
  /\ pc \in Reading \cup Setting \cup {"listen", "stop"} => i >= 1
  /\ pc = "start" => servers = <<>>

\* The versions only get newer.
VersionsGrow == file.version >= conf.version /\ conf.version >= listed.version

\* No address and no listed address has two servers.
KeysDiffer == \A m, n \in DOMAIN servers : servers[m].key = servers[n].key => m = n
PlacesDiffer == \A m, n \in DOMAIN servers : servers[m].at = servers[n].at => m = n

\* What is gone through is listed, and what is listed is there or will be.
KeysKnown ==
  /\ pc \in Reading =>
       /\ \A n \in DOMAIN servers : n < i => servers[n].key \in listed.listens
       /\ \A n \in DOMAIN servers : servers[n].key \notin news
       /\ listed.listens \subseteq news \cup ListenedBy
  /\ pc = "deleted" => servers[i].key \notin listed.listens
  /\ pc \in Setting \cup {"listen", "running"} => ListenedBy = listed.listens

\* The servers that have their parameters have those of the listed version or newer.
Fresh(n, k) == servers[n].params[k] >= listed.version
ParamsFresh ==
  /\ pc \in Setting => \A n \in DOMAIN servers : n < i => Fresh(n, 1) /\ Fresh(n, 2)
  /\ pc = "host" => Fresh(i, 1)
  /\ pc \in {"listen", "running"} => \A n \in DOMAIN servers : Fresh(n, 1) /\ Fresh(n, 2)

ConfigInv ==
  Types /\ InLoop /\ VersionsGrow /\ KeysDiffer /\ PlacesDiffer /\ KeysKnown /\ ParamsFresh

\* Callbacks come to the server that listens, and none to the one at hand.
ListensHere == \A n \in DOMAIN servers : servers[n].listens => servers[n].bound = servers[n].at
SetUnused ==
  /\ pc \in {"common", "host"} => ~servers[i].listens
  /\ pc = "host" => servers[i].conns = {}

CallInv == CallbacksFindServer /\ ListensHere /\ SetUnused

-----------------------------------------------------------------------------
(* What is done to the deque *)

\* All but the fields "what" of the servers stay.
SameBut(what) ==
  /\ servers' \in Seq(AnyServer) /\ Len(servers') = Len(servers)
  /\ DOMAIN servers' = DOMAIN servers
  /\ \A m \in DOMAIN servers : \A f \in DOMAIN servers[m] \ what : servers'[m][f] = servers[m][f]

Fields == {"key", "at", "listens", "bound", "conns", "params"}

\* The deque as a function of its places.
LEMMA Deque ==
  ASSUME Types
  PROVE  /\ servers \in Seq(AnyServer) /\ Len(servers) \in Nat
         /\ DOMAIN servers = 1 .. Len(servers)
         /\ \A n \in DOMAIN servers : servers[n] \in AnyServer /\ DOMAIN servers[n] = Fields
<1>1. servers \in Seq(AnyServer)
  BY DEF Types
<1>2. /\ Len(servers) \in Nat /\ DOMAIN servers = 1 .. Len(servers)
      /\ \A n \in DOMAIN servers : servers[n] \in AnyServer
  BY <1>1, LenProperties, ElementOfSeq
<1>3. \A s \in AnyServer : DOMAIN s = Fields
  BY DEF AnyServer, Fields
<1> QED BY <1>1, <1>2, <1>3

\* Update puts a server in the place of one.
LEMMA Updated ==
  ASSUME Types, NEW n \in DOMAIN servers, NEW s \in AnyServer, Update(n, s)
  PROVE  /\ servers' \in Seq(AnyServer) /\ Len(servers') = Len(servers)
         /\ DOMAIN servers' = DOMAIN servers
         /\ \A m \in DOMAIN servers : servers'[m] = IF m = n THEN s ELSE servers[m]
BY Deque, ExceptSeq, LenProperties DEF Update

\* A connection comes or goes.
LEMMA ConnsChanged ==
  ASSUME Types, NEW c \in Conn,
         OnSocketClosing(c) \/ \E n \in DOMAIN servers : Connect(c, n)
  PROVE  /\ servers' \in Seq(AnyServer) /\ Len(servers') = Len(servers)
         /\ DOMAIN servers' = DOMAIN servers
         /\ \A m \in DOMAIN servers :
              /\ servers'[m].key = servers[m].key /\ servers'[m].at = servers[m].at
              /\ servers'[m].listens = servers[m].listens /\ servers'[m].bound = servers[m].bound
              /\ servers'[m].params = servers[m].params
              /\ servers[m].conns \ {c} = servers'[m].conns \ {c}
<1> DEFINE In(m) == [servers[m] EXCEPT !.conns = @ \cup {c}]
           Out(m) == [servers[m] EXCEPT !.conns = @ \ {c}]
<1>1. /\ DOMAIN servers' = DOMAIN servers
      /\ \A m \in DOMAIN servers : servers'[m] \in {servers[m], In(m), Out(m)}
      /\ servers' = [m \in DOMAIN servers |-> servers'[m]]
  BY DEF OnSocketClosing, Connect
<1>2. ASSUME NEW m \in DOMAIN servers
      PROVE  /\ servers'[m] \in AnyServer
             /\ servers'[m].key = servers[m].key /\ servers'[m].at = servers[m].at
             /\ servers'[m].listens = servers[m].listens /\ servers'[m].bound = servers[m].bound
             /\ servers'[m].params = servers[m].params
             /\ servers[m].conns \ {c} = servers'[m].conns \ {c}
  <2>1. servers[m] \in AnyServer
    BY Deque
  <2>2. CASE servers'[m] = servers[m]
    BY <2>1, <2>2
  <2>3. CASE servers'[m] = In(m)
    BY <2>1, <2>3 DEF AnyServer
  <2>4. CASE servers'[m] = Out(m)
    BY <2>1, <2>4 DEF AnyServer
  <2> QED BY <1>1, <2>2, <2>3, <2>4
<1>3. servers' \in [1 .. Len(servers) -> AnyServer]
  BY <1>1, <1>2, Deque
<1>4. servers' \in Seq(AnyServer) /\ Len(servers') = Len(servers) /\ DOMAIN servers' = DOMAIN servers
  BY <1>3, Deque, SeqDef, LenProperties
<1> QED BY <1>2, <1>4

\* erase closes the gap: the server behind it comes one place forward, and
\* the one or the other side changes its addresses.
LEMMA Erased ==
  ASSUME Types, NEW n \in DOMAIN servers, Erase(n)
  PROVE  /\ servers' \in Seq(AnyServer) /\ Len(servers') = Len(servers) - 1
         /\ DOMAIN servers' = 1 .. Len(servers) - 1
         /\ \A m \in 1 .. Len(servers) - 1 :
              LET from == IF m < n THEN m ELSE m + 1
                  to == IF n - 1 < Len(servers) \div 2 THEN m + 1 ELSE m
              IN  /\ from \in DOMAIN servers /\ to \in DOMAIN servers
                  /\ servers'[m] = [servers[from] EXCEPT !.at = servers[to].at]
<1> DEFINE L == Len(servers)
           rest == RemoveAt(servers, n)
           front == SubSeq(servers, 1, n - 1)
           back == SubSeq(servers, n + 1, L)
<1>1. L \in Nat /\ DOMAIN servers = 1 .. L /\ n \in 1 .. L /\ servers \in Seq(AnyServer)
      /\ \A m \in 1 .. L : servers[m] \in AnyServer
  BY Deque
<1>2. /\ front \in Seq(AnyServer) /\ Len(front) = n - 1
      /\ \A m \in 1 .. n - 1 : front[m] = servers[m]
  <2>1. \A m \in 1 .. n - 1 : servers[m] \in AnyServer
    BY <1>1
  <2> QED BY <1>1, <2>1, SubSeqProperties
<1>3. /\ back \in Seq(AnyServer) /\ Len(back) = L - n
      /\ \A m \in 1 .. L - n : back[m] = servers[m + n]
  <2>1. \A m \in n + 1 .. L : servers[m] \in AnyServer
    BY <1>1
  <2>2. /\ back \in Seq(AnyServer)
        /\ Len(back) = IF n + 1 <= L THEN L - (n + 1) + 1 ELSE 0
        /\ \A m \in 1 .. L - (n + 1) + 1 : back[m] = servers[n + 1 + m - 1]
    <3> HIDE DEF L
    <3> QED BY <1>1, <2>1, SubSeqProperties
  <2>3. ASSUME NEW m \in 1 .. L - n PROVE back[m] = servers[m + n]
    <3> HIDE DEF back, L
    <3>1. m \in 1 .. L - (n + 1) + 1 /\ n + 1 + m - 1 = m + n
      BY <1>1
    <3> QED BY <2>2, <3>1
  <2>4. Len(back) = L - n
    <3> HIDE DEF back, L
    <3> QED BY <1>1, <2>2
  <2> HIDE DEF back
  <2> QED BY <2>2, <2>3, <2>4
<1>4. /\ rest \in Seq(AnyServer) /\ Len(rest) = L - 1
      /\ \A m \in 1 .. L - 1 : rest[m] = servers[IF m < n THEN m ELSE m + 1]
  <2>1. rest = front \o back
    BY DEF RemoveAt
  <2> HIDE DEF front, back, L
  <2>2. front \o back \in Seq(AnyServer) /\ Len(front \o back) = L - 1
        /\ \A m \in 1 .. L - 1 : (front \o back)[m] = IF m <= n - 1 THEN front[m] ELSE back[m - (n - 1)]
    <3>1. /\ front \o back \in Seq(AnyServer) /\ Len(front \o back) = Len(front) + Len(back)
          /\ \A m \in 1 .. Len(front) + Len(back) : (front \o back)[m] =
               IF m <= Len(front) THEN front[m] ELSE back[m - Len(front)]
      BY <1>2, <1>3, ConcatProperties
    <3>2. Len(front) + Len(back) = L - 1 /\ Len(front) = n - 1
      BY <1>1, <1>2, <1>3
    <3> QED BY <3>1, <3>2
  <2>3. ASSUME NEW m \in 1 .. L - 1 PROVE (front \o back)[m] = servers[IF m < n THEN m ELSE m + 1]
    <3>1. CASE m < n
      BY <1>1, <1>2, <2>2, <3>1
    <3>2. CASE m >= n
      <4>1. m - (n - 1) \in 1 .. L - n /\ (m - (n - 1)) + n = m + 1
        BY <1>1, <3>2
      <4>2. back[m - (n - 1)] = servers[m + 1]
        BY <1>3, <4>1
      <4>3. ~(m <= n - 1) /\ ~(m < n)
        BY <1>1, <3>2
      <4> QED BY <2>2, <4>2, <4>3
    <3>3. m < n \/ m >= n
      BY <1>1
    <3> QED BY <3>1, <3>2, <3>3
  <2> QED BY <2>1, <2>2, <2>3
<1> HIDE DEF rest
<1>5. DOMAIN rest = 1 .. L - 1
  BY <1>1, <1>4, LenProperties
<1>6. servers' = [m \in 1 .. L - 1 |->
                   [rest[m] EXCEPT !.at = servers[IF n - 1 < L \div 2 THEN m + 1 ELSE m].at]]
  BY <1>5 DEF Erase, rest
<1>7. ASSUME NEW m \in 1 .. L - 1
      PROVE  LET from == IF m < n THEN m ELSE m + 1
                 to == IF n - 1 < L \div 2 THEN m + 1 ELSE m
             IN  /\ from \in DOMAIN servers /\ to \in DOMAIN servers
                 /\ servers'[m] = [servers[from] EXCEPT !.at = servers[to].at]
                 /\ servers'[m] \in AnyServer
  <2> DEFINE from == IF m < n THEN m ELSE m + 1
             to == IF n - 1 < L \div 2 THEN m + 1 ELSE m
  <2>1. from \in 1 .. L /\ to \in 1 .. L
    BY <1>1
  <2>2. servers'[m] = [servers[from] EXCEPT !.at = servers[to].at]
    BY <1>4, <1>6
  <2> HIDE DEF from, to, L
  <2>3. servers'[m] \in AnyServer
    BY <1>1, <2>1, <2>2 DEF AnyServer
  <2> QED BY <1>1, <2>1, <2>2, <2>3 DEF from, to
<1>8. servers' \in [1 .. L - 1 -> AnyServer]
  BY <1>6, <1>7
<1>9. servers' \in Seq(AnyServer) /\ Len(servers') = L - 1 /\ DOMAIN servers' = 1 .. L - 1
  <2>1. L - 1 \in Nat
    BY <1>1
  <2> QED BY <1>8, <2>1, SeqDef, LenProperties
<1> QED BY <1>7, <1>9

\* A parameter of the own section leaves the other as it is.
LEMMA SecondParam ==
  ASSUME NEW p \in Version \X Version, NEW v \in Version
  PROVE  /\ [p EXCEPT ![2] = v] \in Version \X Version
         /\ [p EXCEPT ![2] = v][1] = p[1] /\ [p EXCEPT ![2] = v][2] = v
OBVIOUS

-----------------------------------------------------------------------------
(* The invariant of the configuration *)

LEMMA InitConfig == Init => ConfigInv
<1> SUFFICES ASSUME Init PROVE ConfigInv
  OBVIOUS
<1> USE ReloadAssumption DEF Init
<1>1. PICK l \in Listens : file = [listens |-> l, version |-> 1]
  OBVIOUS
<1>2. file \in Config /\ conf \in Config /\ conf.version = 0 /\ conf.listens = l /\ listed = conf
  BY <1>1 DEF Config, Version
<1>3. Types
  <2>1. servers \in Seq(AnyServer) /\ DOMAIN servers = {} /\ made = 0
    OBVIOUS
  <2>2. home \in [Conn -> 0 .. made]
    BY <2>1
  <2>3. sock \in [Conn -> {"new", "open", "closing", "closed"}]
    OBVIOUS
  <2>4. {file, conf, listed} \subseteq Config /\ listed.listens = l /\ i \in Nat /\ pc \in Places
    BY <1>2 DEF Places
  <2>5. recent \in BOOLEAN
    OBVIOUS
  <2>6. made \in Nat /\ news \subseteq listed.listens
    BY <2>1
  <2> QED BY <2>1, <2>2, <2>3, <2>4, <2>5, <2>6 DEF Types, Places, Reading, Setting
<1>4. InLoop /\ VersionsGrow /\ KeysDiffer /\ PlacesDiffer /\ KeysKnown /\ ParamsFresh
  <2>1. DOMAIN servers = {}
    OBVIOUS
  <2> QED BY <1>1, <1>2, <2>1 DEF InLoop, VersionsGrow, KeysDiffer, PlacesDiffer, KeysKnown,
        ParamsFresh, Reading, Setting
<1> QED BY <1>3, <1>4 DEF ConfigInv

\* The servers stay as the configuration knows them, and all else of it.
LEMMA NoConfig ==
  ASSUME ConfigInv,
         servers' \in Seq(AnyServer), Len(servers') = Len(servers),
         DOMAIN servers' = DOMAIN servers,
         \A m \in DOMAIN servers :
           /\ servers'[m].key = servers[m].key /\ servers'[m].at = servers[m].at
           /\ servers'[m].bound \in 1 .. made /\ servers'[m].params = servers[m].params,
         home' \in [Conn -> 0 .. made],
         sock' \in [Conn -> {"new", "open", "closing", "closed"}],
         UNCHANGED <<config, made, thread>>
  PROVE  ConfigInv'
<1>1. Types'
  BY DEF ConfigInv, Types, config, thread
<1>2. ListenedBy' = ListenedBy
  BY DEF ListenedBy
<1>3. InLoop' /\ VersionsGrow' /\ KeysDiffer' /\ PlacesDiffer'
  <2>1. UNCHANGED <<file, conf, listed, pc, i>>
    BY DEF config, thread
  <2>2. pc' = "start" => servers' = <<>>
    BY <2>1 DEF ConfigInv, InLoop
  <2> QED BY <2>1, <2>2 DEF ConfigInv, InLoop, VersionsGrow, KeysDiffer, PlacesDiffer
<1>4. KeysKnown'
  BY <1>2 DEF ConfigInv, KeysKnown, config, thread, InLoop
<1>5. ParamsFresh'
  BY DEF ConfigInv, ParamsFresh, Fresh, config, thread, InLoop
<1> QED BY <1>1, <1>3, <1>4, <1>5 DEF ConfigInv

LEMMA StepOutside ==
  ASSUME ConfigInv,
         \/ \E l \in Listens : Edit(l)
         \/ ASecondPasses
         \/ \E c \in Conn : Close(c) \/ OnSocketClosing(c) \/ \E n \in DOMAIN servers : Connect(c, n)
         \/ UNCHANGED vars
  PROVE  ConfigInv'
<1>1. ASSUME NEW l \in Listens, Edit(l) PROVE ConfigInv'
  <2>1. file' \in Config /\ file'.version >= file.version /\ file.version \in Nat /\ conf.version \in Nat
    BY <1>1, ReloadAssumption DEF Edit, ConfigInv, Types, Config, Version
  <2>2. Types'
    BY <1>1, <2>1 DEF Edit, ConfigInv, Types, thread, conns
  <2>3. ListenedBy' = ListenedBy /\ VersionsGrow'
    BY <1>1, <2>1 DEF Edit, ConfigInv, VersionsGrow, thread, ListenedBy
  <2> QED BY <1>1, <2>2, <2>3 DEF Edit, ConfigInv, InLoop, KeysDiffer, PlacesDiffer, KeysKnown,
            ParamsFresh, Fresh, thread
<1>2. CASE ASecondPasses
  <2>1. Types' /\ ListenedBy' = ListenedBy
    BY <1>2 DEF ASecondPasses, ConfigInv, Types, thread, conns, ListenedBy
  <2> QED BY <1>2, <2>1 DEF ASecondPasses, ConfigInv, InLoop, VersionsGrow, KeysDiffer, PlacesDiffer,
            KeysKnown, ParamsFresh, Fresh, thread
<1>3. ASSUME NEW c \in Conn, Close(c) PROVE ConfigInv'
  BY <1>3, Deque, NoConfig DEF Close, ConfigInv, Types
<1>4. ASSUME NEW c \in Conn, OnSocketClosing(c) PROVE ConfigInv'
  <2>1. /\ Types /\ UNCHANGED <<config, made, thread>>
        /\ home' \in [Conn -> 0 .. made] /\ sock' \in [Conn -> {"new", "open", "closing", "closed"}]
    BY <1>4 DEF OnSocketClosing, ConfigInv, Types
  <2>2. \A m \in DOMAIN servers : servers[m].bound \in 1 .. made
    BY <2>1 DEF Types
  <2> QED BY <1>4, <2>1, <2>2, ConnsChanged, NoConfig
<1>5. ASSUME NEW c \in Conn, NEW n \in DOMAIN servers, Connect(c, n) PROVE ConfigInv'
  <2>1. \A m \in DOMAIN servers : servers[m].bound \in 1 .. made
    BY DEF ConfigInv, Types
  <2>2. /\ Types /\ UNCHANGED <<config, made, thread>>
        /\ home' \in [Conn -> 0 .. made] /\ sock' \in [Conn -> {"new", "open", "closing", "closed"}]
    BY <1>5, <2>1 DEF Connect, ConfigInv, Types
  <2> QED BY <1>5, <2>1, <2>2, ConnsChanged, NoConfig
<1>6. CASE UNCHANGED vars
  BY <1>6, Deque, NoConfig DEF vars, conns, ConfigInv, Types
<1> QED BY <1>1, <1>2, <1>3, <1>4, <1>5, <1>6

\* What a get finds is of the file, and not older than what was found before.
LEMMA Loaded ==
  ASSUME ConfigInv, CheckFileLoaded
  PROVE  /\ conf' \in Config /\ recent' \in BOOLEAN /\ file' = file
         /\ file.version >= conf'.version
         /\ conf'.version >= conf.version /\ conf'.version >= listed.version
         /\ conf'.version \in Version
<1>1. file \in Config /\ conf \in Config /\ listed \in Config /\ VersionsGrow
  BY DEF ConfigInv, Types
<1>2. /\ file.version \in Nat /\ conf.version \in Nat /\ listed.version \in Nat
      /\ file.version \in Version /\ conf.version \in Version
  BY <1>1, ReloadAssumption DEF Config, Version
<1>3. conf' = IF recent THEN conf ELSE file
  BY DEF CheckFileLoaded
<1>4. recent' = TRUE /\ file' = file
  BY DEF CheckFileLoaded
<1> QED BY <1>1, <1>2, <1>3, <1>4 DEF VersionsGrow

\* Stop closes sockets, and changes nothing else of a server.
LEMMA Stopped ==
  ASSUME Types, NEW n \in DOMAIN servers, Stop(n)
  PROVE  /\ servers' \in Seq(AnyServer) /\ Len(servers') = Len(servers)
         /\ DOMAIN servers' = DOMAIN servers
         /\ \A m \in DOMAIN servers :
              /\ servers'[m].key = servers[m].key /\ servers'[m].at = servers[m].at
              /\ IF m = n THEN ~servers'[m].listens ELSE servers'[m].listens = servers[m].listens
              /\ servers'[m].bound = servers[m].bound /\ servers'[m].conns = servers[m].conns
              /\ servers'[m].params = servers[m].params
         /\ home' = home /\ sock' \in [Conn -> {"new", "open", "closing", "closed"}]
         /\ ListenedBy' = ListenedBy
<1> DEFINE s == [servers[n] EXCEPT !.listens = FALSE]
<1>1. servers[n] \in AnyServer /\ \A m \in DOMAIN servers : servers[m] \in AnyServer
  BY Deque
<1>2. s \in AnyServer /\ Update(n, s)
  BY <1>1 DEF Stop, AnyServer
<1>3. /\ servers' \in Seq(AnyServer) /\ Len(servers') = Len(servers)
      /\ DOMAIN servers' = DOMAIN servers
      /\ \A m \in DOMAIN servers : servers'[m] = IF m = n THEN s ELSE servers[m]
  BY <1>2, Updated
<1>4. \A m \in DOMAIN servers :
              /\ servers'[m].key = servers[m].key /\ servers'[m].at = servers[m].at
              /\ servers'[m].bound = servers[m].bound /\ servers'[m].conns = servers[m].conns
              /\ servers'[m].params = servers[m].params
  <2>1. /\ s.key = servers[n].key /\ s.at = servers[n].at /\ s.bound = servers[n].bound
        /\ s.conns = servers[n].conns /\ s.params = servers[n].params
    BY <1>1 DEF AnyServer
  <2> HIDE DEF s
  <2> SUFFICES ASSUME NEW m \in DOMAIN servers
               PROVE  /\ servers'[m].key = servers[m].key /\ servers'[m].at = servers[m].at
                      /\ servers'[m].bound = servers[m].bound /\ servers'[m].conns = servers[m].conns
                      /\ servers'[m].params = servers[m].params
    OBVIOUS
  <2>2. CASE m = n
    BY <1>3, <2>1, <2>2
  <2>3. CASE m # n
    BY <1>3, <2>3
  <2> QED BY <2>2, <2>3
<1>5. \A m \in DOMAIN servers :
        IF m = n THEN ~servers'[m].listens ELSE servers'[m].listens = servers[m].listens
  <2>1. ~s.listens
    BY <1>1 DEF AnyServer
  <2> QED BY <1>3, <2>1
<1>6. home' = home /\ sock' \in [Conn -> {"new", "open", "closing", "closed"}]
  BY DEF Stop, Types
<1>7. ListenedBy' = ListenedBy
  BY <1>3, <1>4 DEF ListenedBy
<1> QED BY <1>3, <1>4, <1>5, <1>6, <1>7

\* A step of the main thread that leaves the deque and the connections alone
\* needs only its own place to be right.
LEMMA OnlyPlace ==
  ASSUME ConfigInv, UNCHANGED <<config, servers, made, listed, news, conns>>,
         pc' \in Places, i' \in Nat, InLoop', KeysKnown', ParamsFresh'
  PROVE  ConfigInv'
<1>1. Types'
  BY DEF ConfigInv, Types, config, conns
<1>2. VersionsGrow' /\ KeysDiffer' /\ PlacesDiffer'
  BY DEF ConfigInv, VersionsGrow, KeysDiffer, PlacesDiffer, config
<1> QED BY <1>1, <1>2 DEF ConfigInv

LEMMA StepPlace ==
  ASSUME ConfigInv, Keep \/ Configure \/ Configured \/ Started \/ StopService
  PROVE  ConfigInv'
<1>1. /\ i \in Nat /\ Len(servers) \in Nat /\ DOMAIN servers = 1 .. Len(servers) /\ InLoop
      /\ KeysKnown /\ ParamsFresh
  BY Deque DEF ConfigInv, Types
<1>2. ASSUME UNCHANGED <<config, servers, made, listed, news, conns>>
      PROVE  ListenedBy' = ListenedBy /\ UNCHANGED <<servers, listed, news>>
  BY <1>2 DEF ListenedBy
<1>3. CASE Keep
  <2>1. UNCHANGED <<config, servers, made, listed, news, conns>> /\ pc = "delete"
        /\ pc' = "delete" /\ i' = i + 1 /\ i \in DOMAIN servers
        /\ servers[i].key \in listed.listens
    BY <1>1, <1>3 DEF Keep, Goto, InLoop, Reading
  <2> HIDE <1>3
  <2>2. KeysKnown'
    BY <1>1, <1>2, <2>1 DEF KeysKnown, Reading, Setting
  <2>3. InLoop' /\ ParamsFresh'
    BY <1>1, <1>2, <2>1 DEF InLoop, ParamsFresh, Setting
  <2> QED BY <1>1, <2>1, <2>2, <2>3, OnlyPlace DEF Places, Reading
<1>4. CASE Configure
  <2>1. UNCHANGED <<config, servers, made, listed, news, conns>> /\ pc = "delete" /\ news = {}
        /\ pc' = "configure" /\ i' = 1 /\ i > Len(servers)
    BY <1>4 DEF Configure, Goto
  <2> HIDE <1>4
  <2>2. ListenedBy = listed.listens
    BY <1>1, <2>1 DEF KeysKnown, Reading, ListenedBy
  <2>3. KeysKnown'
    BY <1>2, <2>1, <2>2 DEF KeysKnown, Reading, Setting
  <2>4. InLoop' /\ ParamsFresh'
    BY <1>1, <1>2, <2>1 DEF InLoop, ParamsFresh, Setting
  <2> QED BY <2>1, <2>3, <2>4, OnlyPlace DEF Places, Setting
<1>5. CASE Configured
  <2>1. UNCHANGED <<config, servers, made, listed, news, conns>> /\ pc = "configure"
        /\ pc' = "listen" /\ i' = 1 /\ i > Len(servers)
    BY <1>5 DEF Configured, Goto
  <2> HIDE <1>5
  <2>2. KeysKnown'
    BY <1>1, <1>2, <2>1 DEF KeysKnown, Reading, Setting
  <2>3. \A n \in DOMAIN servers : Fresh(n, 1) /\ Fresh(n, 2)
    BY <1>1, <2>1 DEF ParamsFresh, Setting
  <2>4. InLoop' /\ ParamsFresh'
    BY <1>1, <1>2, <2>1, <2>3 DEF InLoop, ParamsFresh, Setting, Fresh
  <2> QED BY <2>1, <2>2, <2>4, OnlyPlace DEF Places
<1>6. CASE Started
  <2>1. UNCHANGED <<config, servers, made, listed, news, conns>> /\ pc = "listen"
        /\ pc' = "running" /\ i' = 0
    BY <1>6 DEF Started, Goto
  <2> HIDE <1>6
  <2>2. KeysKnown'
    BY <1>1, <1>2, <2>1 DEF KeysKnown, Reading, Setting
  <2>3. InLoop' /\ ParamsFresh'
    BY <1>1, <1>2, <2>1 DEF InLoop, ParamsFresh, Setting, Fresh, Reading
  <2> QED BY <2>1, <2>2, <2>3, OnlyPlace DEF Places
<1>7. CASE StopService
  <2>1. UNCHANGED <<config, servers, made, listed, news, conns>>
        /\ pc' = "stop" /\ i' = 1
    BY <1>7 DEF StopService, Goto
  <2>2. KeysKnown' /\ InLoop' /\ ParamsFresh'
    BY <2>1 DEF KeysKnown, InLoop, ParamsFresh, Reading, Setting
  <2> QED BY <2>1, <2>2, OnlyPlace DEF Places
<1> QED BY <1>3, <1>4, <1>5, <1>6, <1>7

\* The steps that stop a server and go to another place.
LEMMA StepStop ==
  ASSUME ConfigInv, StopUnlisted \/ StopServer \/ StopNext
  PROVE  ConfigInv'
<1>1. /\ i \in Nat /\ Len(servers) \in Nat /\ DOMAIN servers = 1 .. Len(servers) /\ InLoop
      /\ KeysKnown /\ ParamsFresh /\ Types
  BY Deque DEF ConfigInv, Types
<1>2. /\ i \in DOMAIN servers /\ Stop(i) /\ UNCHANGED <<config, made, listed, news>>
      /\ \/ /\ pc = "delete" /\ pc' = "deleted" /\ i' = i
            /\ servers[i].key \notin listed.listens
         \/ pc = "configure" /\ pc' = "common" /\ i' = i
         \/ pc = "stop" /\ pc' = "stop" /\ i' = i + 1
  BY <1>1 DEF StopUnlisted, StopServer, StopNext, Goto, InLoop, Reading, Setting
<1>3. /\ servers' \in Seq(AnyServer) /\ Len(servers') = Len(servers)
      /\ DOMAIN servers' = DOMAIN servers
      /\ \A m \in DOMAIN servers :
           /\ servers'[m].key = servers[m].key /\ servers'[m].at = servers[m].at
           /\ servers'[m].bound = servers[m].bound /\ servers'[m].params = servers[m].params
      /\ home' = home /\ sock' \in [Conn -> {"new", "open", "closing", "closed"}]
      /\ ListenedBy' = ListenedBy
  BY <1>1, <1>2, Stopped
<1>4. /\ UNCHANGED <<file, conf, recent, made, listed, news>> /\ pc' \in Places /\ i' \in Nat
  BY <1>1, <1>2 DEF config, Places, Reading, Setting
<1>5. Types'
  BY <1>1, <1>3, <1>4 DEF Types
<1>6. VersionsGrow' /\ KeysDiffer' /\ PlacesDiffer'
  BY <1>3, <1>4 DEF ConfigInv, VersionsGrow, KeysDiffer, PlacesDiffer
<1>7. InLoop'
  BY <1>1, <1>2, <1>3 DEF InLoop, Reading, Setting
<1>8. KeysKnown'
  BY <1>1, <1>2, <1>3, <1>4 DEF KeysKnown, Reading, Setting
<1>9. ParamsFresh'
  BY <1>1, <1>2, <1>3, <1>4 DEF ParamsFresh, Fresh, Setting
<1> QED BY <1>5, <1>6, <1>7, <1>8, <1>9 DEF ConfigInv

LEMMA StepReadListen ==
  ASSUME ConfigInv, ReadListen
  PROVE  ConfigInv'
<1>1. /\ pc \in {"start", "running"} /\ CheckFileLoaded /\ listed' = conf' /\ news' = NewServers
      /\ pc' = "delete" /\ i' = 1 /\ UNCHANGED <<servers, made, home, sock>>
  BY DEF ReadListen, Goto, conns
<1>2. /\ conf' \in Config /\ recent' \in BOOLEAN /\ file' = file
      /\ file.version >= conf'.version /\ conf'.version \in Nat
  BY <1>1, Loaded, ReloadAssumption DEF Version
<1>3. news' = listed'.listens \ ListenedBy /\ ListenedBy' = ListenedBy
  BY <1>1 DEF NewServers, ListenedBy
<1>4. Types'
  BY <1>1, <1>2, <1>3 DEF ConfigInv, Types, Places, Reading
<1>5. VersionsGrow' /\ KeysDiffer' /\ PlacesDiffer'
  BY <1>1, <1>2 DEF ConfigInv, VersionsGrow, KeysDiffer, PlacesDiffer
<1>6. InLoop' /\ ParamsFresh'
  BY <1>1 DEF InLoop, ParamsFresh, Reading, Setting
<1>7. KeysKnown'
  <2>1. \A n \in DOMAIN servers : servers[n].key \in ListenedBy
    BY DEF ListenedBy
  <2>2. \A n \in DOMAIN servers : ~(n < 1)
    BY Deque DEF ConfigInv
  <2> QED BY <1>1, <1>3, <2>1, <2>2 DEF KeysKnown, Reading, Setting
<1> QED BY <1>4, <1>5, <1>6, <1>7 DEF ConfigInv

LEMMA StepErase ==
  ASSUME ConfigInv, EraseUnlisted
  PROVE  ConfigInv'
<1> DEFINE L == Len(servers)
           From(m) == IF m < i THEN m ELSE m + 1
           To(m) == IF i - 1 < L \div 2 THEN m + 1 ELSE m
<1>1. /\ pc = "deleted" /\ pc' = "delete" /\ i' = i /\ Erase(i)
      /\ UNCHANGED <<file, conf, recent, made, listed, news, home, sock>>
  BY DEF EraseUnlisted, Goto, config, conns
<1>2. /\ Types /\ InLoop /\ VersionsGrow /\ KeysDiffer /\ PlacesDiffer /\ KeysKnown
      /\ i \in DOMAIN servers /\ servers[i].key \notin listed.listens
      /\ L \in Nat /\ DOMAIN servers = 1 .. L
      /\ \A m \in DOMAIN servers : servers[m] \in AnyServer
  BY <1>1, Deque DEF ConfigInv, InLoop, KeysKnown
<1>3. /\ servers' \in Seq(AnyServer) /\ Len(servers') = L - 1
      /\ DOMAIN servers' = 1 .. L - 1
      /\ \A m \in 1 .. L - 1 :
           /\ From(m) \in DOMAIN servers /\ To(m) \in DOMAIN servers
           /\ servers'[m] = [servers[From(m)] EXCEPT !.at = servers[To(m)].at]
  BY <1>1, <1>2, Erased
<1>4. \A m \in 1 .. L - 1 :
        /\ servers'[m].key = servers[From(m)].key /\ servers'[m].bound = servers[From(m)].bound
        /\ servers'[m].at = servers[To(m)].at
  <2> HIDE DEF From, To, L
  <2> QED BY <1>2, <1>3 DEF AnyServer
<1>5. ListenedBy' = ListenedBy \ {servers[i].key}
  <2>1. \A k \in 1 .. L : k # i => \E m \in 1 .. L - 1 : From(m) = k
    <3> SUFFICES ASSUME NEW k \in 1 .. L, k # i PROVE \E m \in 1 .. L - 1 : From(m) = k
      OBVIOUS
    <3> HIDE DEF L
    <3>1. CASE k < i
      <4>1. k \in 1 .. L - 1
        BY <1>2, <3>1
      <4> QED BY <3>1, <4>1
    <3>2. CASE k > i
      <4>1. k - 1 \in 1 .. L - 1 /\ ~(k - 1 < i) /\ (k - 1) + 1 = k
        BY <1>2, <3>2
      <4> QED BY <4>1
    <3> QED BY <1>2, <3>1, <3>2
  <2>2. \A m \in 1 .. L - 1 : From(m) # i /\ From(m) \in 1 .. L
    BY <1>2
  <2> HIDE DEF From, To, L
  <2>3. \A m \in 1 .. L - 1 : servers'[m].key \in ListenedBy \ {servers[i].key}
    BY <1>2, <1>4, <2>2 DEF ListenedBy, KeysDiffer
  <2>4. \A k \in 1 .. L : k # i => servers[k].key \in ListenedBy'
    BY <1>3, <1>4, <2>1 DEF ListenedBy
  <2>5. ListenedBy' \subseteq ListenedBy \ {servers[i].key}
    BY <1>3, <2>3 DEF ListenedBy
  <2>6. ListenedBy \ {servers[i].key} \subseteq ListenedBy'
    BY <1>2, <2>4 DEF ListenedBy
  <2> QED BY <2>5, <2>6
<1>6. KeysDiffer' /\ PlacesDiffer'
  <2>1. \A m, n \in 1 .. L - 1 : (From(m) = From(n) => m = n) /\ (To(m) = To(n) => m = n)
    <3> HIDE DEF L
    <3> QED BY <1>2
  <2> HIDE DEF From, To, L
  <2> QED BY <1>2, <1>3, <1>4, <2>1 DEF KeysDiffer, PlacesDiffer
<1>7. Types'
  <2>1. \A n \in DOMAIN servers' : servers'[n].at \in 1 .. made /\ servers'[n].bound \in 1 .. made
    <3> HIDE DEF From, To, L
    <3> QED BY <1>2, <1>3, <1>4 DEF Types
  <2> HIDE DEF From, To, L
  <2> QED BY <1>1, <1>2, <1>3, <2>1 DEF Types, Places, Reading
<1>8. KeysKnown'
  <2>1. \A m \in 1 .. L - 1 : m < i => servers'[m].key = servers[m].key
    BY <1>4
  <2>2. ListenedBy' \subseteq ListenedBy /\ listed.listens \subseteq news \cup ListenedBy'
    BY <1>1, <1>2, <1>5 DEF KeysKnown, Reading
  <2>3. \A n \in DOMAIN servers' : servers'[n].key \in ListenedBy'
    BY DEF ListenedBy
  <2>4. \A k \in ListenedBy : k \notin news
    BY <1>1, <1>2 DEF KeysKnown, Reading, ListenedBy
  <2>5. \A n \in DOMAIN servers' : n < i => servers'[n].key \in listed.listens
    <3> HIDE DEF L
    <3> QED BY <1>1, <1>2, <1>3, <2>1 DEF KeysKnown, Reading
  <2> HIDE DEF From, To, L
  <2> QED BY <1>1, <2>2, <2>3, <2>4, <2>5 DEF KeysKnown, Reading, Setting
<1>9. InLoop' /\ VersionsGrow' /\ ParamsFresh'
  BY <1>1, <1>2 DEF InLoop, VersionsGrow, ParamsFresh, Reading, Setting
<1> QED BY <1>6, <1>7, <1>8, <1>9 DEF ConfigInv

LEMMA StepAdd ==
  ASSUME ConfigInv, AddNew
  PROVE  ConfigInv'
<1> DEFINE L == Len(servers)
<1>1. PICK key \in news :
        /\ pc = "delete" /\ i > L /\ pc' = "delete" /\ i' = i + 1 /\ made' = made + 1
        /\ servers' = Append(servers, NewServer(key, made + 1)) /\ news' = news \ {key}
        /\ UNCHANGED <<file, conf, recent, listed, home, sock>>
  BY DEF AddNew, Goto, config, conns
<1>2. /\ Types /\ InLoop /\ VersionsGrow /\ KeysDiffer /\ PlacesDiffer /\ KeysKnown
      /\ L \in Nat /\ DOMAIN servers = 1 .. L /\ servers \in Seq(AnyServer) /\ i \in Nat /\ made \in Nat
  BY Deque DEF ConfigInv, Types
<1> DEFINE s == NewServer(key, made + 1)
<1>3. s \in AnyServer /\ s.key = key /\ s.at = made + 1 /\ s.bound = made + 1
  <2>1. key \in UNION Listens
    BY <1>2 DEF Types, Config
  <2>2. <<0, 0>> \in Version \X Version
    BY ReloadAssumption DEF Version
  <2> QED BY <1>2, <2>1, <2>2 DEF NewServer, AnyServer
<1> HIDE DEF s
<1>4. /\ servers' \in Seq(AnyServer) /\ Len(servers') = L + 1 /\ DOMAIN servers' = 1 .. L + 1
      /\ \A m \in 1 .. L : servers'[m] = servers[m]
      /\ servers'[L + 1] = s
  <2>1. servers' = Append(servers, s)
    BY <1>1 DEF s
  <2>2. /\ servers' \in Seq(AnyServer) /\ Len(servers') = L + 1
        /\ \A m \in 1 .. L : servers'[m] = servers[m]
        /\ servers'[L + 1] = s
    BY <1>2, <1>3, <2>1, AppendProperties
  <2> QED BY <2>2, LenProperties
<1> HIDE DEF L
<1>5. ListenedBy' = ListenedBy \cup {key}
  BY <1>2, <1>3, <1>4 DEF ListenedBy
<1>6. KeysDiffer' /\ PlacesDiffer'
  <2>1. \A m \in 1 .. L : servers[m].key # key
    BY <1>1, <1>2 DEF KeysKnown, Reading
  <2>2. \A m \in 1 .. L : servers[m].at \in 1 .. made
    BY <1>2 DEF Types
  <2>3. \A m \in 1 .. L : servers[m].at # made + 1
    BY <1>2, <2>2
  <2> QED BY <1>2, <1>3, <1>4, <2>1, <2>3 DEF KeysDiffer, PlacesDiffer
<1>7. Types'
  <2>1. \A n \in DOMAIN servers' : servers'[n].at \in 1 .. made' /\ servers'[n].bound \in 1 .. made'
    BY <1>1, <1>2, <1>3, <1>4 DEF Types
  <2>2. home' \in [Conn -> 0 .. made']
    BY <1>1, <1>2 DEF Types
  <2> QED BY <1>1, <1>2, <1>4, <2>1, <2>2 DEF Types
<1>8. KeysKnown'
  <2>1. listed.listens \subseteq news' \cup ListenedBy'
    BY <1>1, <1>2, <1>5 DEF KeysKnown, Reading
  <2>2. \A n \in 1 .. L + 1 : servers'[n].key \in listed.listens /\ servers'[n].key \notin news'
    <3>1. ASSUME NEW n \in 1 .. L
          PROVE  servers[n].key \in listed.listens /\ servers[n].key \notin news
      <4>1. n < i /\ n \in DOMAIN servers /\ pc \in Reading
        BY <1>1, <1>2 DEF Reading
      <4> QED BY <1>2, <4>1 DEF KeysKnown
    <3>2. key \in listed.listens
      BY <1>2 DEF Types
    <3> QED BY <1>1, <1>2, <1>3, <1>4, <3>1, <3>2
  <2> QED BY <1>1, <1>4, <2>1, <2>2 DEF KeysKnown, Reading, Setting
<1>9. InLoop' /\ VersionsGrow' /\ ParamsFresh'
  BY <1>1, <1>2 DEF InLoop, VersionsGrow, ParamsFresh, Reading, Setting
<1> QED BY <1>6, <1>7, <1>8, <1>9 DEF ConfigInv

\* The steps that set the parameters of a server.
LEMMA StepSet ==
  ASSUME ConfigInv, SetCommon \/ SetHostParam
  PROVE  ConfigInv'
<1> DEFINE v == conf'.version
           new == IF pc = "common" THEN <<v, 0>> ELSE [servers[i].params EXCEPT ![2] = v]
<1>1. /\ CheckFileLoaded /\ UNCHANGED <<made, listed, news, home, sock>>
      /\ Update(i, [servers[i] EXCEPT !.params = new])
      /\ \/ pc = "common" /\ pc' = "host" /\ i' = i
         \/ pc = "host" /\ pc' = "configure" /\ i' = i + 1
  <2>1. CASE SetCommon
    BY <2>1 DEF SetCommon, Goto, conns
  <2>2. CASE SetHostParam
    BY <2>2 DEF SetHostParam, Goto, conns
  <2> QED BY <2>1, <2>2
<1>2. /\ Types /\ InLoop /\ VersionsGrow /\ KeysDiffer /\ PlacesDiffer /\ KeysKnown /\ ParamsFresh
      /\ i \in DOMAIN servers /\ i \in Nat /\ listed.version \in Nat
      /\ Len(servers) \in Nat /\ DOMAIN servers = 1 .. Len(servers)
      /\ \A m \in DOMAIN servers : servers[m] \in AnyServer
  BY <1>1, Deque, ReloadAssumption DEF ConfigInv, InLoop, Types, Config, Version
<1>3. /\ conf' \in Config /\ recent' \in BOOLEAN /\ file' = file
      /\ file.version >= v /\ v >= listed.version /\ v \in Version /\ v \in Nat /\ 0 \in Version
  BY <1>1, Loaded, ReloadAssumption DEF Version
<1>4. /\ new \in Version \X Version
      /\ pc = "common" => new[1] = v
      /\ pc = "host" => new[1] = servers[i].params[1] /\ new[2] = v
  <2>1. servers[i].params \in Version \X Version
    BY <1>2 DEF AnyServer
  <2> QED BY <1>3, <2>1, SecondParam
<1> HIDE DEF v, new
<1> DEFINE s == [servers[i] EXCEPT !.params = new]
<1>5. /\ s \in AnyServer /\ s.params = new
      /\ s.key = servers[i].key /\ s.at = servers[i].at /\ s.bound = servers[i].bound
  BY <1>2, <1>4 DEF AnyServer
<1>6. Update(i, s)
  BY <1>1
<1> HIDE DEF s
<1>7. /\ servers' \in Seq(AnyServer) /\ Len(servers') = Len(servers)
      /\ DOMAIN servers' = DOMAIN servers
      /\ \A m \in DOMAIN servers : servers'[m] = IF m = i THEN s ELSE servers[m]
  BY <1>2, <1>5, <1>6, Updated
<1>8. \A m \in DOMAIN servers :
        /\ servers'[m].key = servers[m].key /\ servers'[m].at = servers[m].at
        /\ servers'[m].bound = servers[m].bound
  BY <1>5, <1>7
<1>9. ListenedBy' = ListenedBy
  BY <1>7, <1>8 DEF ListenedBy
<1>10. Types'
  <2>1. pc' \in Places /\ i' \in Nat
    BY <1>1, <1>2 DEF Places, Setting
  <2> QED BY <1>1, <1>2, <1>3, <1>7, <1>8, <2>1 DEF Types
<1>11. VersionsGrow' /\ KeysDiffer' /\ PlacesDiffer'
  BY <1>1, <1>2, <1>3, <1>7, <1>8 DEF VersionsGrow, KeysDiffer, PlacesDiffer, v
<1>12. InLoop' /\ KeysKnown'
  BY <1>1, <1>2, <1>7, <1>8, <1>9 DEF InLoop, KeysKnown, Reading, Setting
<1>13. ParamsFresh'
  <2>1. \A m \in DOMAIN servers : m < i => servers'[m] = servers[m]
    BY <1>2, <1>7
  <2>2. servers'[i].params = new
    BY <1>2, <1>5, <1>7
  <2>3. CASE pc = "common"
    <3>1. pc' = "host" /\ i' = i /\ new[1] >= listed.version
      BY <1>1, <1>3, <1>4, <2>3
    <3> QED BY <1>1, <1>2, <1>7, <2>1, <2>2, <2>3, <3>1 DEF ParamsFresh, Fresh, Setting
  <2>4. CASE pc = "host"
    <3>1. pc' = "configure" /\ i' = i + 1 /\ new[2] >= listed.version /\ new[1] >= listed.version
      BY <1>1, <1>2, <1>3, <1>4, <2>4 DEF ParamsFresh, Fresh
    <3>2. \A m \in DOMAIN servers : m < i + 1 => m < i \/ m = i
      BY <1>2
    <3> QED BY <1>1, <1>2, <1>7, <2>1, <2>2, <2>4, <3>1, <3>2 DEF ParamsFresh, Fresh, Setting
  <2> QED BY <1>1, <2>3, <2>4
<1> QED BY <1>10, <1>11, <1>12, <1>13 DEF ConfigInv

LEMMA StepStart ==
  ASSUME ConfigInv, StartServer
  PROVE  ConfigInv'
<1>1. PICK ok \in BOOLEAN : Update(i, [servers[i] EXCEPT !.listens = ok, !.bound = servers[i].at])
  BY DEF StartServer
<1>2. /\ pc = "listen" /\ i <= Len(servers) /\ pc' = "listen" /\ i' = i + 1
      /\ UNCHANGED <<file, conf, recent, made, listed, news, home, sock>>
  BY DEF StartServer, Goto, config, conns
<1>3. /\ Types /\ InLoop /\ VersionsGrow /\ KeysDiffer /\ PlacesDiffer /\ KeysKnown /\ ParamsFresh
      /\ i \in DOMAIN servers /\ i \in Nat
      /\ Len(servers) \in Nat /\ DOMAIN servers = 1 .. Len(servers)
      /\ \A m \in DOMAIN servers : servers[m] \in AnyServer /\ servers[m].at \in 1 .. made
  BY <1>2, Deque DEF ConfigInv, InLoop, Types
<1> DEFINE s == [servers[i] EXCEPT !.listens = ok, !.bound = servers[i].at]
<1>4. /\ s \in AnyServer /\ s.params = servers[i].params
      /\ s.key = servers[i].key /\ s.at = servers[i].at /\ s.bound = servers[i].at
  BY <1>3 DEF AnyServer
<1>5. Update(i, s)
  BY <1>1
<1> HIDE DEF s
<1>6. /\ servers' \in Seq(AnyServer) /\ Len(servers') = Len(servers)
      /\ DOMAIN servers' = DOMAIN servers
      /\ \A m \in DOMAIN servers : servers'[m] = IF m = i THEN s ELSE servers[m]
  BY <1>3, <1>4, <1>5, Updated
<1>7. \A m \in DOMAIN servers :
        /\ servers'[m].key = servers[m].key /\ servers'[m].at = servers[m].at
        /\ servers'[m].params = servers[m].params /\ servers'[m].bound \in 1 .. made
  BY <1>3, <1>4, <1>6 DEF Types
<1>8. ListenedBy' = ListenedBy
  BY <1>6, <1>7 DEF ListenedBy
<1>9. Types'
  BY <1>2, <1>3, <1>6, <1>7 DEF Types
<1>10. VersionsGrow' /\ KeysDiffer' /\ PlacesDiffer'
  BY <1>2, <1>3, <1>6, <1>7 DEF VersionsGrow, KeysDiffer, PlacesDiffer
<1>11. InLoop' /\ KeysKnown' /\ ParamsFresh'
  BY <1>2, <1>3, <1>6, <1>7, <1>8 DEF InLoop, KeysKnown, ParamsFresh, Fresh, Reading, Setting
<1> QED BY <1>9, <1>10, <1>11 DEF ConfigInv

LEMMA StepClear ==
  ASSUME ConfigInv, ClearServers
  PROVE  ConfigInv'
<1>1. /\ pc' = "ended" /\ i' = 0 /\ servers' = <<>> /\ DOMAIN servers' = {}
      /\ UNCHANGED <<file, conf, recent, made, listed, news, home, sock>>
  BY DEF ClearServers, Goto, config, conns
<1>2. servers' \in Seq(AnyServer)
  BY <1>1
<1>3. Types' /\ VersionsGrow'
  BY <1>1, <1>2 DEF ConfigInv, Types, VersionsGrow, Places
<1> QED BY <1>1, <1>3 DEF ConfigInv, InLoop, KeysDiffer, PlacesDiffer, KeysKnown, ParamsFresh,
        Reading, Setting

LEMMA StepConfig == ConfigInv /\ [Next]_vars => ConfigInv'
BY StepOutside, StepPlace, StepStop, StepReadListen, StepErase, StepAdd, StepSet, StepStart,
   StepClear DEF Next, ReadConfiguration, StopCallback

\* The configuration is what is claimed of it, at any time.
LEMMA ConfigSafe == Spec => []ConfigInv
BY InitConfig, StepConfig, PTL DEF Spec

-----------------------------------------------------------------------------
(* What follows of it *)

\* The variables have their types: the deque's servers are at addresses of
\* objects made, with parameters of versions there were (m_vServers).
THEOREM TypeSafe == Spec => []TypeOK
<1>1. ASSUME Types PROVE TypeOK
  <2>1. \A n \in DOMAIN servers : servers[n] \in Server
    <3> SUFFICES ASSUME NEW n \in DOMAIN servers PROVE servers[n] \in Server
      OBVIOUS
    <3>1. servers[n] \in AnyServer /\ servers[n].at \in 1 .. made /\ servers[n].bound \in 1 .. made
      BY <1>1, Deque DEF Types
    <3> QED BY <3>1 DEF AnyServer, Server, Version
  <2>2. servers \in Seq(Server)
    <3>1. servers \in [1 .. Len(servers) -> AnyServer] /\ Len(servers) \in Nat
      BY <1>1, Deque, LenProperties
    <3>2. servers \in [1 .. Len(servers) -> Server]
      BY <2>1, <3>1
    <3> QED BY <3>1, <3>2, SeqDef
  <2> QED BY <1>1, <2>2 DEF Types, TypeOK
<1>2. ConfigInv => TypeOK
  BY <1>1 DEF ConfigInv
<1> QED BY <1>2, ConfigSafe, PTL

\* After a reload there is one server for each listed address, none for
\* another, and each has its parameters from the version of the file that
\* listed it or a newer one, whatever was edited meanwhile (ReadConfiguration).
THEOREM AsConfiguredSafe == Spec => []AsConfigured
<1>1. ASSUME ConfigInv PROVE AsConfigured
  <2> SUFFICES ASSUME pc = "running"
               PROVE  /\ ListenedBy = listed.listens /\ Len(servers) = Cardinality(listed.listens)
                      /\ \A n \in DOMAIN servers, k \in {1, 2} : servers[n].params[k] >= listed.version
    BY DEF AsConfigured
  <2>1. ListenedBy = listed.listens
    BY <1>1 DEF ConfigInv, KeysKnown
  <2>2. \A n \in DOMAIN servers, k \in {1, 2} : servers[n].params[k] >= listed.version
    BY <1>1 DEF ConfigInv, ParamsFresh, Fresh
  <2>3. Len(servers) \in Nat /\ DOMAIN servers = 1 .. Len(servers)
    BY <1>1, Deque DEF ConfigInv
  <2> DEFINE f == [n \in 1 .. Len(servers) |-> servers[n].key]
  <2>4. f \in Bijection(1 .. Len(servers), listed.listens)
    <3>1. f \in Injection(1 .. Len(servers), listed.listens)
      BY <1>1, <2>1, <2>3 DEF Injection, IsInjective, ConfigInv, KeysDiffer, ListenedBy
    <3>2. f \in Surjection(1 .. Len(servers), listed.listens)
      BY <2>1, <2>3 DEF Surjection, ListenedBy
    <3> QED BY <3>1, <3>2 DEF Bijection
  <2>5. Cardinality(listed.listens) = Len(servers)
    <3>1. ExistsBijection(1 .. Len(servers), listed.listens)
      BY <2>4 DEF ExistsBijection
    <3> QED BY <2>3, <3>1, FS_CountingElements
  <2> QED BY <2>1, <2>2, <2>5
<1> QED BY <1>1, ConfigSafe, PTL

-----------------------------------------------------------------------------
(* As long as erase moves no server *)

\* The server that goes is the first or the last of the deque.
AtAnEnd == EraseUnlisted => i \in {1, Len(servers)}

\* Erase moves none then.
LEMMA ErasedEnd ==
  ASSUME Types, NEW n \in {1, Len(servers)}, n \in DOMAIN servers, Erase(n)
  PROVE  /\ \A m \in DOMAIN servers' : \E k \in DOMAIN servers : k # n /\ servers'[m] = servers[k]
         /\ \A k \in DOMAIN servers : k # n => \E m \in DOMAIN servers' : servers'[m] = servers[k]
<1> DEFINE L == Len(servers)
           From(m) == IF m < n THEN m ELSE m + 1
           To(m) == IF n - 1 < L \div 2 THEN m + 1 ELSE m
<1>1. /\ L \in Nat /\ DOMAIN servers = 1 .. L /\ \A m \in DOMAIN servers : servers[m] \in AnyServer
  BY Deque
<1>2. /\ DOMAIN servers' = 1 .. L - 1
      /\ \A m \in 1 .. L - 1 :
           /\ From(m) \in DOMAIN servers
           /\ servers'[m] = [servers[From(m)] EXCEPT !.at = servers[To(m)].at]
  BY Erased
<1>3. \A m \in 1 .. L - 1 : From(m) = To(m) /\ From(m) # n
  <2> HIDE DEF L
  <2>1. n = 1 \/ n = L
    BY DEF L
  <2> QED BY <1>1, <2>1
<1>4. \A k \in 1 .. L : k # n => \E m \in 1 .. L - 1 : From(m) = k
  <2> HIDE DEF L
  <2> SUFFICES ASSUME NEW k \in 1 .. L, k # n PROVE \E m \in 1 .. L - 1 : From(m) = k
    OBVIOUS
  <2>1. n \in 1 .. L
    BY <1>1
  <2>2. CASE k < n
    <3>1. k \in 1 .. L - 1
      BY <1>1, <2>1, <2>2
    <3> QED BY <2>2, <3>1
  <2>3. CASE k > n
    <3>1. k - 1 \in 1 .. L - 1 /\ ~(k - 1 < n) /\ (k - 1) + 1 = k
      BY <1>1, <2>1, <2>3
    <3> QED BY <3>1
  <2> QED BY <2>1, <2>2, <2>3
<1> HIDE DEF From, To, L
<1>5. \A m \in 1 .. L - 1 : servers'[m] = servers[From(m)]
  BY <1>1, <1>2, <1>3 DEF AnyServer
<1> QED BY <1>1, <1>2, <1>3, <1>4, <1>5

\* The added server stands behind the others, at an address of its own.
LEMMA Added ==
  ASSUME Types, AddNew
  PROVE  /\ DOMAIN servers \subseteq DOMAIN servers'
         /\ \A m \in DOMAIN servers : servers'[m] = servers[m]
         /\ \A m \in DOMAIN servers' \ DOMAIN servers :
              /\ servers'[m].at = made + 1 /\ servers'[m].key \in news
              /\ ~servers'[m].listens
<1> DEFINE L == Len(servers)
<1>1. PICK key \in news : servers' = Append(servers, NewServer(key, made + 1))
  BY DEF AddNew
<1>2. /\ L \in Nat /\ DOMAIN servers = 1 .. L /\ servers \in Seq(AnyServer) /\ made \in Nat
  BY Deque DEF Types
<1> DEFINE s == NewServer(key, made + 1)
<1>3. s \in AnyServer /\ s.key = key /\ s.at = made + 1 /\ ~s.listens
  <2>1. key \in UNION Listens
    BY DEF Types, Config
  <2>2. <<0, 0>> \in Version \X Version
    BY ReloadAssumption DEF Version
  <2> QED BY <1>2, <2>1, <2>2 DEF NewServer, AnyServer
<1>4. servers' = Append(servers, s)
  BY <1>1
<1> HIDE DEF s
<1>5. /\ servers' \in Seq(AnyServer) /\ Len(servers') = L + 1
      /\ \A m \in 1 .. L : servers'[m] = servers[m]
      /\ servers'[L + 1] = s
  BY <1>2, <1>3, <1>4, AppendProperties
<1>6. DOMAIN servers' = 1 .. L + 1
  BY <1>5, LenProperties
<1> HIDE DEF L
<1> QED BY <1>2, <1>3, <1>5, <1>6

LEMMA InitCall == Init => CallInv
<1> SUFFICES ASSUME Init PROVE CallInv
  OBVIOUS
<1>1. DOMAIN servers = {} /\ pc = "start" /\ \A c \in Conn : sock[c] = "new"
  BY DEF Init
<1> QED BY <1>1 DEF CallInv, CallbacksFindServer, ListensHere, SetUnused

\* A connection comes to the server that listens for it.
LEMMA CallConnect ==
  ASSUME ConfigInv, CallInv, NEW c \in Conn, NEW n \in DOMAIN servers, Connect(c, n)
  PROVE  CallInv'
<1>1. /\ Types /\ PlacesDiffer /\ InLoop
      /\ DOMAIN servers' = DOMAIN servers
      /\ \A m \in DOMAIN servers :
           /\ servers'[m].at = servers[m].at /\ servers'[m].listens = servers[m].listens
           /\ servers'[m].bound = servers[m].bound
  BY ConnsChanged DEF ConfigInv
<1>2. /\ servers[n].listens /\ servers[n].bound = servers[n].at
      /\ sock' = [sock EXCEPT ![c] = "open"] /\ home' = [home EXCEPT ![c] = servers[n].at]
      /\ pc' = pc /\ i' = i
  BY DEF Connect, CallInv, ListensHere, thread
<1>3. \A m \in DOMAIN servers :
        /\ servers[m].conns \subseteq servers'[m].conns
        /\ m = n => c \in servers'[m].conns
        /\ m # n => servers'[m].conns = servers[m].conns
  <2>1. \A m \in DOMAIN servers : servers[m] \in AnyServer
    BY <1>1, Deque
  <2>2. \A m \in DOMAIN servers :
          servers'[m] = IF m = n THEN [servers[m] EXCEPT !.conns = @ \cup {c}] ELSE servers[m]
    BY <1>1, <1>2 DEF Connect, PlacesDiffer
  <2> QED BY <2>1, <2>2 DEF AnyServer
<1>4. CallbacksFindServer'
  <2> SUFFICES ASSUME NEW d \in Conn, sock'[d] \in {"open", "closing"}
               PROVE  \E m \in DOMAIN servers' : servers'[m].at = home'[d] /\ d \in servers'[m].conns
    BY DEF CallbacksFindServer
  <2>1. CASE d = c
    BY <1>1, <1>2, <1>3, <2>1 DEF Types
  <2>2. CASE d # c
    <3>1. sock[d] \in {"open", "closing"} /\ home'[d] = home[d]
      BY <1>1, <1>2, <2>2 DEF Types
    <3> QED BY <1>1, <1>3, <3>1 DEF CallInv, CallbacksFindServer
  <2> QED BY <2>1, <2>2
<1>5. ListensHere'
  BY <1>1 DEF CallInv, ListensHere
<1>6. SetUnused'
  BY <1>1, <1>2, <1>3 DEF CallInv, SetUnused, InLoop
<1> QED BY <1>4, <1>5, <1>6 DEF CallInv

LEMMA CallClosing ==
  ASSUME ConfigInv, CallInv, NEW c \in Conn, OnSocketClosing(c)
  PROVE  CallInv'
<1>1. /\ Types /\ InLoop
      /\ DOMAIN servers' = DOMAIN servers
      /\ \A m \in DOMAIN servers :
           /\ servers'[m].at = servers[m].at /\ servers'[m].listens = servers[m].listens
           /\ servers'[m].bound = servers[m].bound
           /\ servers[m].conns \ {c} = servers'[m].conns \ {c}
  BY ConnsChanged DEF ConfigInv
<1>2. sock' = [sock EXCEPT ![c] = "closed"] /\ home' = home /\ pc' = pc /\ i' = i
  BY DEF OnSocketClosing, thread
<1>3. \A m \in DOMAIN servers : servers'[m].conns \subseteq servers[m].conns
  <2>1. \A m \in DOMAIN servers : servers[m] \in AnyServer
    BY <1>1, Deque
  <2>2. \A m \in DOMAIN servers :
          servers'[m] \in {servers[m], [servers[m] EXCEPT !.conns = @ \ {c}]}
    BY <1>1 DEF OnSocketClosing
  <2> QED BY <2>1, <2>2 DEF AnyServer
<1>4. CallbacksFindServer'
  <2> SUFFICES ASSUME NEW d \in Conn, sock'[d] \in {"open", "closing"}
               PROVE  \E m \in DOMAIN servers' : servers'[m].at = home'[d] /\ d \in servers'[m].conns
    BY DEF CallbacksFindServer
  <2>1. d # c /\ sock[d] \in {"open", "closing"}
    BY <1>1, <1>2 DEF Types
  <2>2. PICK m \in DOMAIN servers : servers[m].at = home[d] /\ d \in servers[m].conns
    BY <2>1 DEF CallInv, CallbacksFindServer
  <2>3. d \in servers'[m].conns
    BY <1>1, <2>1, <2>2
  <2> QED BY <1>1, <1>2, <2>2, <2>3
<1>5. ListensHere'
  BY <1>1 DEF CallInv, ListensHere
<1>6. SetUnused'
  <2>1. pc' = "host" => servers'[i].conns = {}
    BY <1>1, <1>2, <1>3 DEF CallInv, SetUnused, InLoop
  <2> QED BY <1>1, <1>2, <2>1 DEF CallInv, SetUnused, InLoop
<1> QED BY <1>4, <1>5, <1>6 DEF CallInv

\* The steps that leave all servers as they are.
LEMMA CallSame ==
  ASSUME ConfigInv, CallInv, UNCHANGED <<servers, home>>,
         \A c \in Conn : sock'[c] \in {"open", "closing"} => sock[c] \in {"open", "closing"},
         pc' \notin {"common", "host"} \/ UNCHANGED <<pc, i>>
  PROVE  CallInv'
BY DEF CallInv, CallbacksFindServer, ListensHere, SetUnused

\* The steps that stop a server.
LEMMA CallStop ==
  ASSUME ConfigInv, CallInv, StopUnlisted \/ StopServer \/ StopNext
  PROVE  CallInv'
<1>1. Types /\ InLoop /\ Stop(i) /\ i \in DOMAIN servers /\ pc' # "host" /\ (pc' = "common" => i' = i)
  BY Deque DEF ConfigInv, Types, InLoop, StopUnlisted, StopServer, StopNext, Goto, Reading, Setting
<1>2. /\ DOMAIN servers' = DOMAIN servers /\ home' = home
      /\ \A m \in DOMAIN servers :
           /\ servers'[m].at = servers[m].at /\ servers'[m].bound = servers[m].bound
           /\ IF m = i THEN ~servers'[m].listens ELSE servers'[m].listens = servers[m].listens
           /\ servers'[m].conns = servers[m].conns
  BY <1>1, Stopped
<1>3. \A c \in Conn : sock'[c] \in {"open", "closing"} => sock[c] \in {"open", "closing"}
  BY <1>1 DEF Stop
<1>4. CallbacksFindServer'
  BY <1>2, <1>3 DEF CallInv, CallbacksFindServer
<1>5. ListensHere' /\ SetUnused'
  BY <1>1, <1>2 DEF CallInv, ListensHere, SetUnused
<1> QED BY <1>4, <1>5 DEF CallInv

\* What a parameter's step leaves of a server.
LEMMA SetKeeps ==
  ASSUME ConfigInv, SetCommon \/ SetHostParam
  PROVE  /\ i \in DOMAIN servers /\ DOMAIN servers' = DOMAIN servers
         /\ \A m \in DOMAIN servers :
              /\ servers'[m].at = servers[m].at /\ servers'[m].bound = servers[m].bound
              /\ servers'[m].listens = servers[m].listens /\ servers'[m].conns = servers[m].conns
              /\ m # i => servers'[m].params = servers[m].params
<1>1. PICK p : Update(i, [servers[i] EXCEPT !.params = p])
  <2>1. CASE SetCommon
    BY <2>1 DEF SetCommon
  <2>2. CASE SetHostParam
    BY <2>2 DEF SetHostParam
  <2> QED BY <2>1, <2>2
<1>2. Types /\ i \in DOMAIN servers /\ \A m \in DOMAIN servers : servers[m] \in AnyServer
  BY Deque DEF ConfigInv, InLoop, SetCommon, SetHostParam
<1>3. servers' = [servers EXCEPT ![i] = [servers[i] EXCEPT !.params = p]]
  BY <1>1 DEF Update
<1> DEFINE s == [servers[i] EXCEPT !.params = p]
<1>4. /\ s.at = servers[i].at /\ s.bound = servers[i].bound
      /\ s.listens = servers[i].listens /\ s.conns = servers[i].conns
  BY <1>2 DEF AnyServer
<1> HIDE DEF s
<1>5. /\ DOMAIN servers' = DOMAIN servers
      /\ \A m \in DOMAIN servers : servers'[m] = IF m = i THEN s ELSE servers[m]
  BY <1>3 DEF s
<1>6. ASSUME NEW m \in DOMAIN servers
      PROVE  /\ servers'[m].at = servers[m].at /\ servers'[m].bound = servers[m].bound
             /\ servers'[m].listens = servers[m].listens /\ servers'[m].conns = servers[m].conns
             /\ m # i => servers'[m].params = servers[m].params
  <2>1. CASE m = i
    BY <1>4, <1>5, <2>1
  <2>2. CASE m # i
    BY <1>5, <2>2
  <2> QED BY <2>1, <2>2
<1> QED BY <1>2, <1>5, <1>6

\* What Start leaves of a server.
LEMMA StartKeeps ==
  ASSUME ConfigInv, StartServer
  PROVE  /\ DOMAIN servers' = DOMAIN servers
         /\ \A m \in DOMAIN servers :
              /\ servers'[m].key = servers[m].key /\ servers'[m].at = servers[m].at
              /\ servers'[m].params = servers[m].params /\ servers'[m].conns = servers[m].conns
              /\ IF m = i THEN servers'[m].bound = servers[m].at
                 ELSE /\ servers'[m].bound = servers[m].bound
                      /\ servers'[m].listens = servers[m].listens
<1>1. PICK ok \in BOOLEAN : Update(i, [servers[i] EXCEPT !.listens = ok, !.bound = servers[i].at])
  BY DEF StartServer
<1>2. Types /\ i \in DOMAIN servers /\ \A m \in DOMAIN servers : servers[m] \in AnyServer
  BY Deque DEF ConfigInv, Types, InLoop, StartServer
<1> DEFINE s == [servers[i] EXCEPT !.listens = ok, !.bound = servers[i].at]
<1>3. /\ s.key = servers[i].key /\ s.at = servers[i].at /\ s.bound = servers[i].at
      /\ s.params = servers[i].params /\ s.conns = servers[i].conns
  BY <1>2 DEF AnyServer
<1>4. Update(i, s)
  BY <1>1
<1> HIDE DEF s
<1>5. /\ DOMAIN servers' = DOMAIN servers
      /\ \A m \in DOMAIN servers : servers'[m] = IF m = i THEN s ELSE servers[m]
  BY <1>4 DEF Update
<1>6. ASSUME NEW m \in DOMAIN servers
      PROVE  /\ servers'[m].key = servers[m].key /\ servers'[m].at = servers[m].at
             /\ servers'[m].params = servers[m].params /\ servers'[m].conns = servers[m].conns
             /\ IF m = i THEN servers'[m].bound = servers[m].at
                ELSE /\ servers'[m].bound = servers[m].bound
                     /\ servers'[m].listens = servers[m].listens
  <2>1. CASE m = i
    BY <1>3, <1>5, <2>1
  <2>2. CASE m # i
    BY <1>5, <2>2
  <2> QED BY <2>1, <2>2
<1> QED BY <1>5, <1>6

LEMMA CallServers ==
  ASSUME ConfigInv, CallInv, AtAnEnd,
         EraseUnlisted \/ AddNew \/ SetCommon \/ SetHostParam \/ StartServer \/ ClearServers
  PROVE  CallInv'
<1> USE DEF CallInv
<1>1. CASE EraseUnlisted
  <2>1. /\ Types /\ Erase(i) /\ servers[i].conns = {} /\ i \in {1, Len(servers)}
        /\ i \in DOMAIN servers /\ UNCHANGED <<home, sock>> /\ pc' = "delete"
    BY <1>1 DEF ConfigInv, InLoop, EraseUnlisted, IsStopped, AtAnEnd, conns, Goto
  <2>2. /\ \A m \in DOMAIN servers' : \E k \in DOMAIN servers : k # i /\ servers'[m] = servers[k]
        /\ \A k \in DOMAIN servers : k # i => \E m \in DOMAIN servers' : servers'[m] = servers[k]
    BY <2>1, ErasedEnd
  <2>3. CallbacksFindServer'
    <3> SUFFICES ASSUME NEW c \in Conn, sock[c] \in {"open", "closing"}
                 PROVE  \E m \in DOMAIN servers' : servers'[m].at = home[c] /\ c \in servers'[m].conns
      BY <2>1 DEF CallbacksFindServer
    <3>1. PICK k \in DOMAIN servers : servers[k].at = home[c] /\ c \in servers[k].conns
      BY DEF CallbacksFindServer
    <3>2. k # i
      BY <2>1, <3>1
    <3> QED BY <2>2, <3>1, <3>2
  <2> QED BY <2>1, <2>2, <2>3 DEF ListensHere, SetUnused
<1>2. CASE AddNew
  <2>1. /\ Types /\ UNCHANGED <<home, sock>> /\ pc' = "delete"
    BY <1>2 DEF ConfigInv, AddNew, conns, Goto
  <2>2. /\ DOMAIN servers \subseteq DOMAIN servers'
        /\ \A m \in DOMAIN servers : servers'[m] = servers[m]
        /\ \A m \in DOMAIN servers' \ DOMAIN servers : ~servers'[m].listens
    BY <1>2, <2>1, Added
  <2>3. CallbacksFindServer'
    BY <2>1, <2>2 DEF CallbacksFindServer
  <2> QED BY <2>1, <2>2, <2>3 DEF ListensHere, SetUnused
<1>3. CASE SetCommon \/ SetHostParam
  <2>1. /\ UNCHANGED <<home, sock>>
        /\ \/ pc = "common" /\ pc' = "host" /\ i' = i /\ servers[i].conns = {}
           \/ pc' = "configure"
    BY <1>3 DEF SetCommon, SetHostParam, IsStopped, conns, Goto
  <2>2. /\ i \in DOMAIN servers /\ DOMAIN servers' = DOMAIN servers
        /\ \A m \in DOMAIN servers :
              /\ servers'[m].at = servers[m].at /\ servers'[m].bound = servers[m].bound
              /\ servers'[m].listens = servers[m].listens /\ servers'[m].conns = servers[m].conns
    BY <1>3, SetKeeps
  <2>3. CallbacksFindServer' /\ ListensHere'
    BY <2>1, <2>2 DEF CallbacksFindServer, ListensHere
  <2> QED BY <2>1, <2>2, <2>3 DEF SetUnused
<1>4. CASE StartServer
  <2>1. UNCHANGED <<home, sock>> /\ pc' = "listen"
    BY <1>4 DEF StartServer, conns, Goto
  <2>2. CallbacksFindServer' /\ ListensHere'
    BY <1>4, <2>1, StartKeeps DEF CallbacksFindServer, ListensHere
  <2> QED BY <2>1, <2>2 DEF SetUnused
<1>5. CASE ClearServers
  <2>1. /\ UNCHANGED <<home, sock>> /\ pc' = "ended" /\ DOMAIN servers' = {}
        /\ \A n \in DOMAIN servers : servers[n].conns = {}
    BY <1>5 DEF ClearServers, IsStopped, conns, Goto
  <2> QED BY <2>1 DEF CallbacksFindServer, ListensHere, SetUnused
<1> QED BY <1>1, <1>2, <1>3, <1>4, <1>5

LEMMA StepCall ==
  ASSUME ConfigInv, CallInv, AtAnEnd, [Next]_vars
  PROVE  CallInv'
<1>1. ASSUME NEW c \in Conn, Close(c) PROVE CallInv'
  <2>1. sock \in [Conn -> {"new", "open", "closing", "closed"}]
    BY DEF ConfigInv, Types
  <2> QED BY <1>1, <2>1, CallSame DEF Close, thread
<1>2. CASE \/ \E l \in Listens : Edit(l)
           \/ ASecondPasses \/ ReadListen \/ UNCHANGED vars
  BY <1>2, CallSame DEF Edit, ASecondPasses, ReadListen, vars, thread, conns, Goto
<1>3. CASE Keep \/ Configure \/ Configured \/ Started \/ StopService
  BY <1>3, CallSame DEF Keep, Configure, Configured, Started, StopService, conns, Goto
<1> QED BY <1>1, <1>2, <1>3, CallConnect, CallClosing, CallStop, CallServers
        DEF Next, ReadConfiguration, StopCallback

\* What a step may not do to the parameters of a server in use.
ParamsKept ==
  \A n \in DOMAIN servers, m \in DOMAIN servers' :
    servers[n].at = servers'[m].at /\ servers[n].params # servers'[m].params
      => \A c \in Conn : home[c] = servers[n].at => sock[c] \in {"new", "closed"}

LEMMA StepParams ==
  ASSUME ConfigInv, CallInv, AtAnEnd, [Next]_vars
  PROVE  ParamsKept
<1>1. Types /\ PlacesDiffer /\ InLoop
  BY DEF ConfigInv
<1>2. ASSUME DOMAIN servers' = DOMAIN servers,
             \A m \in DOMAIN servers : /\ servers'[m].at = servers[m].at
                                       /\ servers'[m].params = servers[m].params
      PROVE  ParamsKept
  BY <1>1, <1>2 DEF ParamsKept, PlacesDiffer
<1>3. ASSUME UNCHANGED servers PROVE ParamsKept
  BY <1>1, <1>3 DEF ParamsKept, PlacesDiffer
<1>4. ASSUME NEW c \in Conn, OnSocketClosing(c) \/ \E n \in DOMAIN servers : Connect(c, n)
      PROVE  ParamsKept
  BY <1>1, <1>2, <1>4, ConnsChanged
<1>5. CASE StopUnlisted \/ StopServer \/ StopNext
  <2>1. Stop(i) /\ i \in DOMAIN servers
    BY <1>1, <1>5, Deque DEF StopUnlisted, StopServer, StopNext, Types, InLoop, Reading, Setting
  <2> QED BY <1>1, <1>2, <2>1, Stopped
<1>6. CASE EraseUnlisted
  <2>1. Erase(i) /\ i \in {1, Len(servers)} /\ i \in DOMAIN servers
    BY <1>1, <1>6 DEF EraseUnlisted, InLoop, AtAnEnd
  <2>2. \A m \in DOMAIN servers' : \E k \in DOMAIN servers : servers'[m] = servers[k]
    BY <1>1, <2>1, ErasedEnd
  <2> QED BY <1>1, <2>2 DEF ParamsKept, PlacesDiffer
<1>7. CASE AddNew
  <2>1. /\ \A m \in DOMAIN servers : servers'[m] = servers[m]
        /\ \A m \in DOMAIN servers' \ DOMAIN servers : servers'[m].at = made + 1
    BY <1>1, <1>7, Added
  <2>2. \A n \in DOMAIN servers : servers[n].at # made + 1
    <3>1. made \in Nat /\ \A n \in DOMAIN servers : servers[n].at \in 1 .. made
      BY <1>1 DEF Types
    <3> QED BY <3>1
  <2> QED BY <1>1, <2>1, <2>2 DEF ParamsKept, PlacesDiffer
<1>8. CASE SetCommon \/ SetHostParam
  <2>1. servers[i].conns = {}
    BY <1>8 DEF SetCommon, SetHostParam, IsStopped, CallInv, SetUnused
  <2>2. \A c \in Conn : home[c] = servers[i].at => sock[c] \in {"new", "closed"}
    <3> SUFFICES ASSUME NEW c \in Conn, sock[c] \in {"open", "closing"}, home[c] = servers[i].at
                 PROVE  FALSE
      BY <1>1 DEF Types
    <3>1. PICK n \in DOMAIN servers : servers[n].at = home[c] /\ c \in servers[n].conns
      BY DEF CallInv, CallbacksFindServer
    <3>2. n = i
      BY <1>1, <1>8, <3>1, SetKeeps DEF PlacesDiffer
    <3> QED BY <2>1, <3>1, <3>2
  <2> QED BY <1>1, <1>8, <2>2, SetKeeps DEF ParamsKept, PlacesDiffer
<1>9. CASE StartServer
  BY <1>2, <1>9, StartKeeps
<1>10. CASE ClearServers
  <2>1. DOMAIN servers' = {}
    BY <1>10 DEF ClearServers
  <2> QED BY <2>1 DEF ParamsKept
<1>11. CASE \/ \E l \in Listens : Edit(l)
            \/ ASecondPasses \/ ReadListen \/ UNCHANGED vars
            \/ \E c \in Conn : Close(c)
            \/ Keep \/ Configure \/ Configured \/ Started \/ StopService
  BY <1>3, <1>11 DEF Edit, ASecondPasses, ReadListen, Close, vars, Keep, Configure, Configured,
       Started, StopService
<1> QED BY <1>4, <1>5, <1>6, <1>7, <1>8, <1>9, <1>10, <1>11
        DEF Next, ReadConfiguration, StopCallback

LEMMA CallSafe == Spec /\ [][AtAnEnd]_vars => []CallInv
<1>1. ConfigInv /\ CallInv /\ [Next]_vars /\ [AtAnEnd]_vars => CallInv'
  <2>1. ASSUME CallInv, UNCHANGED vars PROVE CallInv'
    BY <2>1 DEF vars, thread, conns, CallInv, CallbacksFindServer, ListensHere, SetUnused
  <2> QED BY <2>1, StepCall
<1> QED BY <1>1, InitCall, ConfigSafe, PTL DEF Spec

\* If every server that goes is the first or the last of m_vServers, then the
\* callbacks of a connection always find it in the server they are bound to
\* (OnSocketClosing), and the servers are those of the file after a reload.
THEOREM SoundUnlessMoved == Spec /\ [][AtAnEnd]_vars => []ServersSound
<1>1. CallInv /\ AsConfigured => ServersSound
  BY DEF CallInv, ServersSound
<1> QED BY <1>1, CallSafe, AsConfiguredSafe, PTL

\* Then also ClearAllParameterBlocks, SetParameters and AddParameter touch no
\* server that has a connection, whose threads may read its parameters.
THEOREM UnusedUnlessMoved == Spec /\ [][AtAnEnd]_vars => ParamsUnused
<1>1. ConfigInv /\ CallInv /\ [Next]_vars /\ [AtAnEnd]_vars => [ParamsKept]_vars
  BY StepParams
<1>2. Spec /\ [][AtAnEnd]_vars => [][ParamsKept]_vars
  BY <1>1, CallSafe, ConfigSafe, PTL DEF Spec
<1> QED BY <1>2 DEF ParamsUnused, ParamsKept
===============================================================================
