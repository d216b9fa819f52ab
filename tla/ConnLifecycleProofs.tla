------------------------ MODULE ConnLifecycleProofs -------------------------
(***************************************************************************)
(* Theorems about ConnLifecycle, for any connections and DoAction threads. *)
(***************************************************************************)
EXTENDS ConnLifecycle, FiniteSetTheorems, TLAPS

\* Who holds a mutex can be told from where he is.
Ownership ==
  \A c \in Conn :
    /\ connMutex = Reader(c) <=> reader[c] \in {"request", "register", "goaway"}
    /\ connMutex = Closer(c) <=> closer[c] \in {"lockAct", "scan", "erase", "uncount"}
    /\ actMutex = Reader(c) <=> reader[c] \in {"register", "goawayScan"}
    /\ actMutex = Closer(c) <=> closer[c] = "scan"

\* An entry is there as long as the socket can call back and somebody works
\* with it, ...
EntryKept ==
  \A c \in Conn :
    /\ sock[c] = "receiving" => c \in connected
    /\ reader[c] \in {"request", "register", "goaway"} => c \in connected
    /\ closer[c] \in {"find", "timer", "relock", "lockAct", "scan", "sleep", "erase"}
         => c \in connected

\* ... and erased when its timer has ended, and nobody works with it.
ErasedAlone ==
  \A c \in Conn :
    /\ closer[c] # "none" => sock[c] = "closed"
    /\ closer[c] \in {"relock", "lockAct", "scan", "sleep", "erase", "uncount"}
         => timer[c] = "stopped"
    /\ closer[c] = "erase" => \A a \in Action : ConnOf[a] = c => ~Works(a)

\* A thread that is not in the list yet is about to be entered: this, and not
\* only that the mutex is held, survives the end of another hold of it.
EnteredNext ==
  \A a \in Action : Works(a) /\ a \notin registry => reader[ConnOf[a]] = "register"

\* No connection comes after Stop.
StoppedIsEmpty ==
  /\ server # "runs" => \A c \in Conn : sock[c] # "accepted"
  /\ server \in {"stopped", "destroyed"} => connected = {}

LifeInv ==
  /\ TypeOK /\ Ownership /\ EntryKept /\ ErasedAlone /\ StoppedIsEmpty
  /\ EnteredNext /\ RegistryExact /\ NoActionWithoutConnection
  /\ NoTimerWithoutConnection /\ DestroyedAlone

-----------------------------------------------------------------------------
\* Holders of a mutex are told apart.
LEMMA HoldersDiffer ==
  \A c, d \in Conn :
    /\ Reader(c) # Closer(d)
    /\ Reader(c) # Free /\ Closer(c) # Free
    /\ Reader(c) = Reader(d) => c = d
    /\ Closer(c) = Closer(d) => c = d
BY DEF Reader, Closer, Free

LEMMA InitLife == Init => LifeInv
BY HoldersDiffer, ConnAssumption
   DEF Init, LifeInv, TypeOK, Holders, Ownership, EntryKept, ErasedAlone,
       StoppedIsEmpty, EnteredNext, RegistryExact, NoActionWithoutConnection,
       NoTimerWithoutConnection, DestroyedAlone, Works

LEMMA StepLibrary ==
  ASSUME LifeInv, NEW c \in Conn, LibraryStep(c)
  PROVE  LifeInv'
<1> USE HoldersDiffer, ConnAssumption
    DEF LifeInv, TypeOK, Holders, Ownership, EntryKept, ErasedAlone,
        StoppedIsEmpty, EnteredNext, RegistryExact, NoActionWithoutConnection,
        NoTimerWithoutConnection, DestroyedAlone, Works,
        sockets, timers, mutexes, actions, ip
<1>1. CASE Accept(c)
  BY <1>1 DEF Accept, TooMany
<1>2. CASE Admit(c)
  BY <1>2 DEF Admit
<1>3. CASE OnDataReceived(c)
  BY <1>3 DEF OnDataReceived
<1>4. CASE ClientCloses(c)
  BY <1>4 DEF ClientCloses
<1>5. CASE OnSocketError(c)
  BY <1>5 DEF OnSocketError
<1>6. CASE Close(c)
  BY <1>6 DEF Close
<1> QED
  BY <1>1, <1>2, <1>3, <1>4, <1>5, <1>6 DEF LibraryStep

LEMMA StepReader ==
  ASSUME LifeInv, NEW c \in Conn, ReaderStep(c)
  PROVE  LifeInv'
<1> USE HoldersDiffer, ConnAssumption
    DEF LifeInv, TypeOK, Holders, Ownership, EntryKept, ErasedAlone,
        StoppedIsEmpty, EnteredNext, RegistryExact, NoActionWithoutConnection,
        NoTimerWithoutConnection, DestroyedAlone, Works,
        sockets, timers, mutexes, actions, ip, Leave
<1>1. ASSUME NEW a \in Action, StartAction(c, a) PROVE LifeInv'
  BY <1>1 DEF StartAction
<1>2. CASE Register(c)
  BY <1>2 DEF Register
<1>3. CASE Return(c)
  BY <1>3 DEF Return
<1>4. CASE UpgradeToWebSocket(c)
  BY <1>4 DEF UpgradeToWebSocket
<1>5. ASSUME NEW stop \in BOOLEAN, BadRequest(c, stop) PROVE LifeInv'
  BY <1>5 DEF BadRequest
<1>6. CASE Goaway(c)
  BY <1>6 DEF Goaway
<1>7. CASE GoawayLocks(c)
  BY <1>7 DEF GoawayLocks
<1>8. CASE GoawayScan(c)
  <2>1. /\ reader[c] = "goawayScan" /\ actMutex' = Free
        /\ closeReq' \subseteq Conn
        /\ \E l \in {"goawaySleep", "idle"} : reader' = [reader EXCEPT ![c] = l]
        /\ UNCHANGED <<sock, connected, atStop, timers, connMutex, actions,
                       closer, server, ip>>
    BY <1>8 DEF GoawayScan
  <2> QED
    BY <2>1
<1>9. CASE GoawayAgain(c)
  BY <1>9 DEF GoawayAgain
<1> QED
  BY <1>1, <1>2, <1>3, <1>4, <1>5, <1>6, <1>7, <1>8, <1>9 DEF ReaderStep

LEMMA StepThreads ==
  ASSUME LifeInv
  PROVE  /\ \A a \in Action : ActionStep(a) => LifeInv'
         /\ \A c \in Conn : TimerStep(c) => LifeInv'
<1> USE HoldersDiffer, ConnAssumption
    DEF LifeInv, TypeOK, Holders, Ownership, EntryKept, ErasedAlone,
        StoppedIsEmpty, EnteredNext, RegistryExact, NoActionWithoutConnection,
        NoTimerWithoutConnection, DestroyedAlone, Works,
        sockets, timers, mutexes, actions, ip
<1>1. ASSUME NEW a \in Action, NEW close \in BOOLEAN, FinishAction(a, close)
      PROVE  LifeInv'
  BY <1>1 DEF FinishAction
<1>2. ASSUME NEW a \in Action, ExitAction(a) PROVE LifeInv'
  BY <1>2 DEF ExitAction
<1>3. ASSUME NEW c \in Conn, Fire(c) PROVE LifeInv'
  BY <1>3 DEF Fire
<1>4. ASSUME NEW c \in Conn, OnTimeout(c) PROVE LifeInv'
  BY <1>4 DEF OnTimeout
<1>5. ASSUME NEW c \in Conn, EndTimer(c) PROVE LifeInv'
  BY <1>5 DEF EndTimer
<1> QED
  BY <1>1, <1>2, <1>3, <1>4, <1>5 DEF ActionStep, TimerStep

LEMMA StepCloser ==
  ASSUME LifeInv, NEW c \in Conn, CloserStep(c)
  PROVE  LifeInv'
<1> USE HoldersDiffer, ConnAssumption
    DEF LifeInv, TypeOK, Holders, Ownership, EntryKept, ErasedAlone,
        StoppedIsEmpty, EnteredNext, RegistryExact, NoActionWithoutConnection,
        NoTimerWithoutConnection, DestroyedAlone, Works,
        sockets, timers, mutexes, actions, ip
<1>1. CASE Find(c)
  BY <1>1 DEF Find
<1>2. CASE WaitTimer(c)
  BY <1>2 DEF WaitTimer
<1>3. CASE Relock(c)
  BY <1>3 DEF Relock
<1>4. CASE LockAct(c)
  BY <1>4 DEF LockAct
<1>5. CASE Scan(c)
  BY <1>5 DEF Scan, Registered
<1>6. CASE Erase(c)
  BY <1>6 DEF Erase
<1>7. CASE Uncount(c)
  BY <1>7 DEF Uncount
<1> QED
  BY <1>1, <1>2, <1>3, <1>4, <1>5, <1>6, <1>7 DEF CloserStep

LEMMA StepServer ==
  ASSUME LifeInv, CloseListener \/ ServerStep
  PROVE  LifeInv'
<1> USE HoldersDiffer, ConnAssumption
    DEF LifeInv, TypeOK, Holders, Ownership, EntryKept, ErasedAlone,
        StoppedIsEmpty, EnteredNext, RegistryExact, NoActionWithoutConnection,
        NoTimerWithoutConnection, DestroyedAlone, Works,
        sockets, timers, mutexes, actions, ip
<1>1. CASE CloseListener
  BY <1>1 DEF CloseListener
<1>2. CASE CloseAll
  BY <1>2 DEF CloseAll
<1>3. CASE IsStopped
  BY <1>3 DEF IsStopped
<1>4. CASE Destroy
  BY <1>4 DEF Destroy
<1> QED
  BY <1>1, <1>2, <1>3, <1>4 DEF ServerStep

LEMMA StepLife ==
  ASSUME LifeInv, [Next]_vars
  PROVE  LifeInv'
<1>1. CASE Next
  BY <1>1, StepLibrary, StepReader, StepThreads, StepCloser, StepServer DEF Next
<1>2. CASE UNCHANGED vars
  BY <1>2 DEF vars, LifeInv, TypeOK, Holders, Ownership, EntryKept, ErasedAlone,
              StoppedIsEmpty, EnteredNext, RegistryExact, NoActionWithoutConnection,
              NoTimerWithoutConnection, DestroyedAlone, Works,
              sockets, timers, mutexes, actions, ip
<1> QED
  BY <1>1, <1>2

\* The inductive invariant of everything that is said about connections.
THEOREM LifeInvariant == Spec => []LifeInv
BY InitLife, StepLife, PTL DEF Spec

\* Types, and the bound on the connections of an address: one more than
\* m_nMaxConnPerIp.
THEOREM LifeTypeCorrect == Spec => []TypeOK
<1>1. LifeInv => TypeOK
  BY DEF LifeInv
<1> QED
  BY <1>1, LifeInvariant, PTL

\* A connection is not removed as long as one of its DoAction threads runs.
THEOREM ActionsKeepConnection == Spec => []NoActionWithoutConnection
<1>1. LifeInv => NoActionWithoutConnection
  BY DEF LifeInv
<1> QED
  BY <1>1, LifeInvariant, PTL

\* m_umActionThreads lists the DoAction threads that run, or are being started
\* by the holder of m_ActThrMutex.
THEOREM RegistryIsExact == Spec => []RegistryExact
<1>1. LifeInv => RegistryExact
  BY DEF LifeInv
<1> QED
  BY <1>1, LifeInvariant, PTL

\* A connection is not removed before its timer has ended.
THEOREM TimersKeepConnection == Spec => []NoTimerWithoutConnection
<1>1. LifeInv => NoTimerWithoutConnection
  BY DEF LifeInv
<1> QED
  BY <1>1, LifeInvariant, PTL

\* Neither thread nor timer of a removed connection is left.
THEOREM NothingIsRemovedInUse == Spec => []NothingRemovedInUse
<1>1. LifeInv => NothingRemovedInUse
  BY DEF LifeInv, NothingRemovedInUse
<1> QED
  BY <1>1, LifeInvariant, PTL

\* Nobody uses the members of a server that is destroyed.
THEOREM ServerDestroyedAlone == Spec => []DestroyedAlone
<1>1. LifeInv => DestroyedAlone
  BY DEF LifeInv
<1> QED
  BY <1>1, LifeInvariant, PTL

-----------------------------------------------------------------------------
\* The connections s_lstIpConnect counts.
Counted == {c \in Conn : /\ sock[c] \in {"accepted", "receiving", "closed"}
                         /\ closer[c] # "done"}

LEMMA CountedFinite == IsFiniteSet(Counted) /\ IsFiniteSet(Counted')
BY ConnAssumption, FS_Subset DEF Counted

\* A step that neither counts nor uncounts leaves the connections counted as
\* they are.
LEMMA StepUncounted ==
  ASSUME LifeInv, NEW c \in Conn,
         \/ UNCHANGED <<sock, closer>>
         \/ Admit(c) \/ Close(c) \/ Find(c) \/ WaitTimer(c) \/ Relock(c)
         \/ LockAct(c) \/ Scan(c) \/ Erase(c)
  PROVE  Counted' = Counted
<1> USE DEF LifeInv, TypeOK, EntryKept, ErasedAlone, Counted, sockets
<1>1. CASE UNCHANGED <<sock, closer>>
  BY <1>1
<1>2. CASE Admit(c)
  BY <1>2 DEF Admit
<1>3. CASE Close(c)
  BY <1>3 DEF Close
<1>4. CASE Find(c)
  BY <1>4 DEF Find
<1>5. CASE WaitTimer(c)
  BY <1>5 DEF WaitTimer
<1>6. CASE Relock(c)
  BY <1>6 DEF Relock
<1>7. CASE LockAct(c)
  BY <1>7 DEF LockAct
<1>8. CASE Scan(c)
  BY <1>8 DEF Scan
<1>9. CASE Erase(c)
  BY <1>9 DEF Erase
<1> QED
  BY <1>1, <1>2, <1>3, <1>4, <1>5, <1>6, <1>7, <1>8, <1>9

LEMMA StepCount ==
  ASSUME LifeInv, CountExact, [Next]_vars
  PROVE  CountExact'
<1> SUFFICES count' = others' + Cardinality(Counted')
  BY DEF CountExact, Counted
<1>1. count = others + Cardinality(Counted) /\ Cardinality(Counted) \in Nat
  BY CountedFinite, FS_CardinalityType DEF CountExact, Counted
<1>2. others \in Nat /\ count \in Nat
  BY ConnAssumption DEF LifeInv, TypeOK
<1>3. ASSUME NEW c \in Conn, Accept(c)
      PROVE  count' = others' + Cardinality(Counted')
  <2>1. CASE TooMany
    <3>1. Counted' = Counted
      BY <1>3, <2>1 DEF Accept, LifeInv, TypeOK, Counted
    <3> QED
      BY <1>1, <1>3, <2>1, <3>1 DEF Accept
  <2>2. CASE ~TooMany
    <3>1. Counted' = Counted \cup {c} /\ c \notin Counted
      BY <1>3, <2>2 DEF Accept, LifeInv, TypeOK, ErasedAlone, Counted
    <3>2. Cardinality(Counted') = Cardinality(Counted) + 1
      BY <3>1, CountedFinite, FS_AddElement
    <3> QED
      BY <1>1, <1>2, <1>3, <2>2, <3>2 DEF Accept
  <2> QED
    BY <2>1, <2>2
<1>4. ASSUME NEW c \in Conn, Uncount(c)
      PROVE  count' = others' + Cardinality(Counted')
  <2>1. Counted' = Counted \ {c} /\ c \in Counted
    BY <1>4 DEF Uncount, sockets, LifeInv, TypeOK, ErasedAlone, Counted
  <2>2. /\ Cardinality(Counted') = Cardinality(Counted) - 1
        /\ Cardinality(Counted') \in Nat
    BY <2>1, CountedFinite, FS_RemoveElement, FS_CardinalityType
  <2>3. count > 0
    BY <1>1, <1>2, <2>2
  <2> QED
    BY <1>1, <1>2, <1>4, <2>2, <2>3 DEF Uncount
<1>5. ASSUME NEW c \in Conn, UNCHANGED ip, Counted' = Counted
      PROVE  count' = others' + Cardinality(Counted')
  BY <1>1, <1>5 DEF ip
<1>6. ASSUME NEW c \in Conn, LibraryStep(c) \/ CloserStep(c)
      PROVE  count' = others' + Cardinality(Counted')
  <2>1. CASE Accept(c) \/ Uncount(c)
    BY <1>3, <1>4, <2>1
  <2>2. CASE OnDataReceived(c) \/ ClientCloses(c) \/ OnSocketError(c)
    <3>1. UNCHANGED <<sock, closer>> /\ UNCHANGED ip
      BY <2>2 DEF OnDataReceived, ClientCloses, OnSocketError, sockets
    <3> QED
      BY <1>5, <3>1, StepUncounted
  <2>3. CASE \/ Admit(c) \/ Close(c) \/ Find(c) \/ WaitTimer(c) \/ Relock(c)
             \/ LockAct(c) \/ Scan(c) \/ Erase(c)
    <3>1. UNCHANGED ip
      BY <2>3 DEF Admit, Close, Find, WaitTimer, Relock, LockAct, Scan, Erase
    <3> QED
      BY <1>5, <2>3, <3>1, StepUncounted
  <2> QED
    BY <1>6, <2>1, <2>2, <2>3 DEF LibraryStep, CloserStep
<1>7. ASSUME UNCHANGED <<sock, closer>>, UNCHANGED ip
      PROVE  count' = others' + Cardinality(Counted')
  BY <1>1, <1>7 DEF Counted, ip
<1>8. ASSUME NEW c \in Conn, ReaderStep(c) \/ TimerStep(c)
      PROVE  UNCHANGED <<sock, closer>> /\ UNCHANGED ip
  BY <1>8 DEF ReaderStep, StartAction, Register, Return, UpgradeToWebSocket,
              BadRequest, Goaway, GoawayLocks, GoawayScan, GoawayAgain,
              TimerStep, Fire, OnTimeout, EndTimer, sockets
<1>9. ASSUME NEW a \in Action, ActionStep(a)
      PROVE  UNCHANGED <<sock, closer>> /\ UNCHANGED ip
  BY <1>9 DEF ActionStep, FinishAction, ExitAction, sockets
<1>10. ASSUME CloseListener \/ ServerStep \/ UNCHANGED vars
       PROVE  UNCHANGED <<sock, closer>> /\ UNCHANGED ip
  BY <1>10 DEF CloseListener, ServerStep, CloseAll, IsStopped, Destroy, vars,
               sockets
<1> QED
  BY <1>6, <1>7, <1>8, <1>9, <1>10 DEF Next

\* s_lstIpConnect is the number of connections of the address, however they
\* end.
THEOREM CountIsExact == Spec => []CountExact
<1>1. Init => CountExact
  <2> SUFFICES ASSUME Init PROVE CountExact
    OBVIOUS
  <2>1. Counted = {}
    BY DEF Init, Counted
  <2>2. Cardinality(Counted) = 0
    BY <2>1, FS_EmptySet
  <2> QED
    BY <2>2, ConnAssumption DEF Init, CountExact, Counted
<1> QED
  BY <1>1, StepCount, LifeInvariant, PTL DEF Spec

\* The registry of threads and the count of connections are both exact.
THEOREM AccountsAreExact == Spec => []AccountsExact
<1>1. RegistryExact /\ CountExact => AccountsExact
  BY DEF AccountsExact
<1> QED
  BY <1>1, RegistryIsExact, CountIsExact, PTL
=============================================================================
