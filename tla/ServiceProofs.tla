--------------------------- MODULE ServiceProofs ----------------------------
(***************************************************************************)
(* Theorems about three parts of the server that run beside each other:    *)
(* Timer, for any callers, periods and order of their steps; LogFile, for  *)
(* any number of lines and of threads; and Request, for any paths,         *)
(* locations, files and ranges: an answer has an end the client knows,     *)
(* what a location protects goes to a user, a range request gets the       *)
(* octets it named, and a path is read as the client wrote it.             *)
(***************************************************************************)
EXTENDS Timer, LogFile, Request, SequenceTheorems, WellFoundedInduction, TLAPS

-----------------------------------------------------------------------------
(* The timer *)

Places == {"begin", "read", "compare", "subtract", "wait", "callback", "exit", "unlock", "gone"}
Holding == {"read", "compare", "subtract", "callback", "exit", "unlock"}

Types ==
  /\ period \in 1 .. Horizon /\ age \in 0 .. Horizon
  /\ dif \in 0 .. Horizon /\ left \in 0 .. Forever
  /\ bStop \in BOOLEAN /\ missed \in BOOLEAN /\ silenced \in BOOLEAN
  /\ waiter \in Places
  /\ woken \in {"no", "notify", "timeout"}
  /\ pc \in [Caller -> {"idle", "start", "try", "tryStop", "notify"}]

\* Who holds m_mxCv.
Ownership ==
  /\ waiter \in Holding => mxCv = Waiter
  /\ owner = "notify" => mxCv = Owner
  /\ \A c \in Caller : pc[c] = "notify" => mxCv = c

\* A Stop that came through wrote m_bStop before, and found the mutex free:
\* the thread was not in its callback, and will see m_bStop.
StopSeen ==
  /\ silenced => bStop
  /\ \A c \in Caller : pc[c] = "tryStop" => bStop
  /\ silenced => waiter # "callback"
  /\ fired # "late"

AllIdle == \A c \in Caller : pc[c] = "idle"

\* What the thread has read is still right when no caller is under way and
\* none missed it since.
ReadRight ==
  ~missed /\ AllIdle =>
    /\ waiter = "compare" => dif <= age
    /\ waiter = "subtract" => dif <= age /\ dif < period
    /\ waiter = "wait" /\ woken = "no" => age + left >= period /\ left # Forever

TimerInv == Types /\ Ownership /\ StopSeen /\ ReadRight

LEMMA Apart == \A c \in Caller : c # Free /\ c # Waiter /\ c # Owner
BY CallerAssumption

LEMMA InitTimer == Init => TimerInv
<1> SUFFICES ASSUME Init PROVE TimerInv
  OBVIOUS
<1>1. period \in 1 .. Horizon /\ 0 \in 0 .. Horizon /\ 0 \in 0 .. Forever
  BY TimerAssumption DEF Init, Forever
<1>2. Types
  BY <1>1 DEF Init, Types, Places
<1>3. Ownership /\ StopSeen /\ ReadRight
  BY DEF Init, Ownership, StopSeen, ReadRight, Holding
<1> QED
  BY <1>2, <1>3 DEF TimerInv

LEMMA WaiterTimer ==
  ASSUME TimerInv, WaiterStep
  PROVE  TimerInv'
<1> USE TimerAssumption, Apart
    DEF Forever, Places, Holding, shared, wait, history, Free, Waiter, Owner
<1>t. Types /\ Ownership /\ StopSeen /\ ReadRight
  BY DEF TimerInv
<1>p. UNCHANGED <<period, bStop, pc, owner>>
  BY DEF WaiterStep, Begin, ReadStart, Compare, Subtract, WakeUp, WaitForReturns, Callback,
     SetIsStoped, EndThread
<1>1. Types'
  <2>1. CASE Begin
    BY <1>t, <1>p, <2>1 DEF Types, Begin
  <2>4. CASE ReadStart
    BY <1>t, <1>p, <2>4 DEF Types, ReadStart
  <2>5. CASE Callback \/ SetIsStoped \/ EndThread
    BY <1>t, <1>p, <2>5 DEF Types, Callback, SetIsStoped, EndThread
  <2>2. CASE Compare \/ Subtract
    BY <1>t, <1>p, <2>2 DEF Types, Compare, Subtract
  <2>3. CASE WakeUp \/ WaitForReturns
    BY <1>t, <1>p, <2>3 DEF Types, WakeUp, WaitForReturns
  <2> QED
    BY <2>1, <2>2, <2>3, <2>4, <2>5 DEF WaiterStep
<1>2. Ownership'
  <2>1. CASE Begin \/ WaitForReturns
    BY <1>t, <1>p, <2>1 DEF Ownership, Begin, WaitForReturns
  <2>2. CASE ReadStart \/ Callback \/ SetIsStoped \/ WakeUp
    BY <1>t, <1>p, <2>2 DEF Ownership, ReadStart, Callback, SetIsStoped, WakeUp
  <2>3. CASE Compare \/ Subtract \/ EndThread
    BY <1>t, <1>p, <2>3 DEF Ownership, Compare, Subtract, EndThread
  <2> QED
    BY <2>1, <2>2, <2>3 DEF WaiterStep
<1>3. StopSeen'
  <2>1. CASE Begin \/ ReadStart \/ Compare \/ Subtract \/ WakeUp \/ SetIsStoped \/ EndThread
    BY <1>t, <1>p, <2>1 DEF StopSeen, Begin, ReadStart, Compare, Subtract, WakeUp, SetIsStoped,
       EndThread
  <2>2. CASE WaitForReturns
    BY <1>t, <1>p, <2>2 DEF StopSeen, WaitForReturns
  <2>3. CASE Callback
    BY <1>t, <1>p, <2>3 DEF StopSeen, Callback
  <2> QED
    BY <2>1, <2>2, <2>3 DEF WaiterStep
<1>4. ReadRight'
  <2>1. CASE Begin \/ WakeUp \/ WaitForReturns \/ Callback \/ SetIsStoped \/ EndThread
    BY <1>t, <1>p, <2>1 DEF ReadRight, AllIdle, Begin, WakeUp, WaitForReturns, Callback,
       SetIsStoped, EndThread
  <2>2. CASE ReadStart
    BY <1>t, <1>p, <2>2 DEF ReadRight, AllIdle, Types, ReadStart
  <2>3. CASE Compare
    BY <1>t, <1>p, <2>3 DEF ReadRight, AllIdle, Types, Compare
  <2>4. CASE Subtract
    BY <1>t, <1>p, <2>4 DEF ReadRight, AllIdle, Types, Subtract
  <2> QED
    BY <2>1, <2>2, <2>3, <2>4 DEF WaiterStep
<1> QED
  BY <1>1, <1>2, <1>3, <1>4 DEF TimerInv

LEMMA CallerTimer ==
  ASSUME TimerInv, NEW c \in Caller, CallerStep(c)
  PROVE  TimerInv'
<1> USE TimerAssumption, Apart
    DEF Forever, Places, Holding, shared, wait, history, Free, Waiter, Owner
<1>t. Types /\ Ownership /\ StopSeen /\ ReadRight
  BY DEF TimerInv
<1>1. ASSUME NEW p \in Period, SetNewTimeout(c, p)
      PROVE  TimerInv'
  <2>1. ~AllIdle'
    BY <1>t, <1>1 DEF Types, SetNewTimeout, AllIdle
  <2> QED
    BY <1>t, <1>1, <2>1 DEF TimerInv, Types, Ownership, StopSeen, ReadRight, SetNewTimeout
<1>2. CASE Reset(c)
  <2>1. ~AllIdle'
    BY <1>t, <1>2 DEF Types, Reset, AllIdle
  <2> QED
    BY <1>t, <1>2, <2>1 DEF TimerInv, Types, Ownership, StopSeen, ReadRight, Reset
<1>3. CASE Stop(c)
  <2>1. ~AllIdle'
    BY <1>t, <1>3 DEF Types, Stop, AllIdle
  <2> QED
    BY <1>t, <1>3, <2>1 DEF TimerInv, Types, Ownership, StopSeen, ReadRight, Stop
<1>4. CASE TryLock(c)
  <2>1. Types'
    BY <1>t, <1>4 DEF Types, TryLock
  <2>2. Ownership'
    BY <1>t, <1>4 DEF Types, Ownership, TryLock
  <2>3. StopSeen'
    BY <1>t, <1>4 DEF Types, Ownership, StopSeen, TryLock
  <2>4. missed' \/ ~AllIdle'
    BY <1>t, <1>4 DEF Types, AllIdle, TryLock
  <2> QED
    BY <2>1, <2>2, <2>3, <2>4 DEF TimerInv, ReadRight
<1>5. CASE Notify(c)
  <2>1. Types'
    BY <1>t, <1>5 DEF Types, Notify, NotifyAll
  <2>2. Ownership'
    BY <1>t, <1>5 DEF Types, Ownership, Notify
  <2>3. StopSeen'
    BY <1>t, <1>5 DEF Types, StopSeen, Notify
  <2>4. ReadRight'
    BY <1>t, <1>5 DEF Types, Ownership, ReadRight, Notify, NotifyAll
  <2> QED
    BY <2>1, <2>2, <2>3, <2>4 DEF TimerInv
<1> QED
  BY <1>1, <1>2, <1>3, <1>4, <1>5 DEF CallerStep

LEMMA OwnerTimer ==
  ASSUME TimerInv, OwnerStep
  PROVE  TimerInv'
<1> USE TimerAssumption, Apart
    DEF Forever, Places, Holding, shared, wait, history, Free, Waiter, Owner
<1>t. Types /\ Ownership /\ StopSeen /\ ReadRight
  BY DEF TimerInv
<1>1. CASE Destroy
  BY <1>t, <1>1 DEF TimerInv, Types, Ownership, StopSeen, ReadRight, AllIdle, Destroy
<1>2. CASE DestroyTry
  BY <1>t, <1>2 DEF TimerInv, Types, Ownership, StopSeen, ReadRight, AllIdle, DestroyTry
<1>3. CASE DestroyNotify
  <2>1. Types' /\ StopSeen'
    BY <1>t, <1>3 DEF Types, StopSeen, DestroyNotify, NotifyAll
  <2>2. Ownership'
    BY <1>t, <1>3 DEF Ownership, DestroyNotify
  <2>3. ReadRight'
    BY <1>t, <1>3 DEF Types, ReadRight, AllIdle, DestroyNotify, NotifyAll
  <2> QED
    BY <2>1, <2>2, <2>3 DEF TimerInv
<1>4. CASE DestroyTest \/ DestroyJoin
  BY <1>t, <1>4 DEF TimerInv, Types, Ownership, StopSeen, ReadRight, AllIdle, DestroyTest,
     DestroyJoin
<1> QED
  BY <1>1, <1>2, <1>3, <1>4 DEF OwnerStep

LEMMA TickTimer ==
  ASSUME TimerInv, Tick
  PROVE  TimerInv'
<1> USE TimerAssumption DEF Forever, history
<1>t. Types /\ Ownership /\ StopSeen /\ ReadRight
  BY DEF TimerInv
<1>1. Types'
  BY <1>t DEF Types, Tick
<1>2. Ownership' /\ StopSeen'
  BY <1>t DEF Ownership, StopSeen, Tick
<1>3. ReadRight'
  <2>1. UNCHANGED <<period, waiter, dif, woken, pc, missed>> /\ age <= age' /\ left' <= left
    BY <1>t DEF Types, Tick
  <2>2. waiter = "wait" /\ age + left >= period /\ left # Forever
          => age' + left' >= period /\ left' # Forever
    BY <1>t DEF Types, Tick
  <2>3. dif <= age => dif' <= age'
    BY <1>1, <1>t, <2>1 DEF Types
  <2> QED
    BY <1>t, <2>1, <2>2, <2>3 DEF ReadRight, AllIdle
<1> QED
  BY <1>1, <1>2, <1>3 DEF TimerInv

LEMMA StepTimer == TimerInv /\ [Next]_vars => TimerInv'
<1>1. ASSUME TimerInv, UNCHANGED vars
      PROVE  TimerInv'
  BY <1>1 DEF TimerInv, Types, Ownership, StopSeen, ReadRight, AllIdle, vars, shared, wait,
     history
<1> QED
  BY <1>1, WaiterTimer, CallerTimer, OwnerTimer, TickTimer DEF Next

\* Once a Stop has come through, the callback that would close the connection
\* is not called: for any number of threads that use the timer.
THEOREM StopIsFinal == Spec => []NoCallbackAfterStop
<1>1. TimerInv => NoCallbackAfterStop
  BY DEF TimerInv, StopSeen, NoCallbackAfterStop
<1> QED
  BY <1>1, InitTimer, StepTimer, PTL DEF Spec

\* The thread never sleeps short of the timeout that was set, nor for ever,
\* unless a caller missed it: for any callers, periods and order of their
\* writes and its reads.
THEOREM PeriodIsKept == Spec => []WaitsForPeriod
<1>1. TimerInv => WaitsForPeriod
  BY DEF TimerInv, ReadRight, AllIdle, WaitsForPeriod
<1> QED
  BY <1>1, InitTimer, StepTimer, PTL DEF Spec

-----------------------------------------------------------------------------
(* Log files *)


\* What the proofs need of the types.
ThreadTypes ==
  /\ thr \in [Thread -> {"none", "start", "failed", "take", "write"}]
  /\ m_atThrRunning \in BOOLEAN
  /\ m_lstMessages \in Seq(Nat)
  /\ lines \in Nat
  /\ dtor \in {"no", "wait", "done"}

\* m_atThrRunning is raised with the one thread there is and dropped with it,
\* while the list is empty; this is what makes each part hold after a step.
WriterInv == ThreadTypes /\ OneWriter /\ NothingStranded /\ DestroyedIsIdle

LEMMA InitWriter == LogInit => WriterInv
<1> SUFFICES ASSUME LogInit PROVE WriterInv
  OBVIOUS
<1>1. ThreadTypes
  <2>1. m_lstMessages \in Seq(Nat)
    BY DEF LogInit
  <2> QED
    BY <2>1 DEF LogInit, ThreadTypes
<1>2. OneWriter /\ NothingStranded /\ DestroyedIsIdle
  BY DEF LogInit, OneWriter, NothingStranded, DestroyedIsIdle, Alive
<1> QED
  BY <1>1, <1>2 DEF WriterInv

LEMMA StepWriter ==
  ASSUME WriterInv, [LogNext]_logVars
  PROVE  WriterInv'
<1> USE DEF WriterInv, ThreadTypes, OneWriter, NothingStranded, DestroyedIsIdle,
            Alive
<1>1. CASE StartWriteThread
  <2>1. /\ m_lstMessages' \in Seq(Nat) /\ m_lstMessages' # <<>>
        /\ lines' \in Nat /\ dtor' = dtor /\ dtor # "done"
    BY <1>1 DEF StartWriteThread, Enqueue
  <2>2. CASE m_atThrRunning
    BY <1>1, <2>1, <2>2 DEF StartWriteThread, StartThread
  <2>3. CASE ~m_atThrRunning
    <3>1. PICK t \in Thread :
            thr[t] = "none" /\ thr' = [thr EXCEPT ![t] = "start"]
      BY <1>1, <2>3 DEF StartWriteThread, StartThread
    <3>2. m_atThrRunning' = TRUE
      BY <1>1, <2>3 DEF StartWriteThread, StartThread
    <3>3. \A u \in Thread : u # t => thr'[u] = "none"
      BY <2>3, <3>1
    <3> QED
      BY <2>1, <3>1, <3>2, <3>3
  <2> QED
    BY <2>2, <2>3
<1>2. ASSUME NEW t \in Thread, NEW ok \in BOOLEAN, Open(t, ok) \/ Write(t, ok)
      PROVE  WriterInv'
  <2>1. UNCHANGED <<m_lstMessages, m_atThrRunning, lines, dtor>>
    BY <1>2 DEF Open, Write
  <2>2. /\ thr[t] # "none"
        /\ \E l \in {"take", "failed"} : thr' = [thr EXCEPT ![t] = l]
    BY <1>2 DEF Open, Write
  <2>3. ThreadTypes'
    BY <2>1, <2>2
  <2>4. \A u \in Thread : Alive(u)' <=> Alive(u)
    BY <2>2
  <2> QED
    BY <2>1, <2>3, <2>4
<1>3. ASSUME NEW t \in Thread, Take(t) PROVE WriterInv'
  <2>1. m_lstMessages' \in Seq(Nat)
    BY <1>3 DEF Take
  <2> QED
    BY <1>3, <2>1 DEF Take
<1>4. ASSUME NEW t \in Thread, GiveUp(t) \/ Finish(t) PROVE WriterInv'
  <2>1. m_lstMessages' = <<>> /\ m_atThrRunning' = FALSE
    BY <1>4 DEF GiveUp, Finish
  <2>2. thr[t] # "none" /\ thr' = [thr EXCEPT ![t] = "none"]
    BY <1>4 DEF GiveUp, Finish
  <2>3. \A u \in Thread : thr'[u] = "none"
    BY <2>2
  <2>4. lines' = lines /\ dtor' = dtor
    BY <1>4 DEF GiveUp, Finish
  <2>5. ThreadTypes'
    <3>1. <<>> \in Seq(Nat)
      OBVIOUS
    <3>2. thr' \in [Thread -> {"none", "start", "failed", "take", "write"}]
      BY <2>2
    <3> QED
      BY <2>1, <2>4, <3>1, <3>2
  <2>6. \A u \in Thread : ~Alive(u)'
    BY <2>3
  <2> QED
    BY <2>1, <2>4, <2>5, <2>6
<1>5. CASE DestroyLog \/ Destroyed
  BY <1>5 DEF DestroyLog, Destroyed
<1>6. CASE UNCHANGED logVars
  BY <1>6 DEF logVars
<1> QED
  BY <1>1, <1>2, <1>3, <1>4, <1>5, <1>6 DEF LogNext, ThreadStep

\* At most one thread writes to the file, whoever logs when.
THEOREM OneWriterSafe == LogSpec => []OneWriter
<1>1. WriterInv => OneWriter
  BY DEF WriterInv
<1> QED
  BY <1>1, InitWriter, StepWriter, PTL DEF LogSpec

\* No line waits in the backlog without a thread that will look at it.
THEOREM NothingStrandedSafe == LogSpec => []NothingStranded
<1>1. WriterInv => NothingStranded
  BY DEF WriterInv
<1> QED
  BY <1>1, InitWriter, StepWriter, PTL DEF LogSpec

\* The destructor outlives the detached thread that uses the object.
THEOREM DestroyedIsIdleSafe == LogSpec => []DestroyedIsIdle
<1>1. WriterInv => DestroyedIsIdle
  BY DEF WriterInv
<1> QED
  BY <1>1, InitWriter, StepWriter, PTL DEF LogSpec

\* The three of them, as the runs check them.
THEOREM BacklogIsSafe == LogSpec => []BacklogSafe
<1>1. WriterInv => BacklogSafe
  BY DEF WriterInv, BacklogSafe
<1> QED
  BY <1>1, InitWriter, StepWriter, PTL DEF LogSpec

-----------------------------------------------------------------------------
(* The refinement: what a thread has taken out, with the backlog behind it,   *)
(* is the queue of LineFifo.                                                 *)

\* A line before a queue, and behind one.
LEMMA OneLine ==
  ASSUME NEW q \in Seq(Nat), NEW r \in Seq(Nat), Len(q) = 1
  PROVE  /\ q # <<>>
         /\ q \o r # <<>> /\ Tail(q \o r) = r /\ Head(q \o r) = q[1]
         /\ r \o q = Append(r, q[1])
<1>1. q # <<>> /\ q[1] \in Nat
  BY EmptySeq, ElementOfSeq
<1>2. /\ q \o r \in Seq(Nat) /\ Len(q \o r) = 1 + Len(r)
      /\ \A i \in 1 .. 1 + Len(r) : (q \o r)[i] = IF i <= 1 THEN q[1] ELSE r[i - 1]
  <2>1. /\ q \o r \in Seq(Nat) /\ Len(q \o r) = 1 + Len(r)
        /\ \A i \in 1 .. 1 + Len(r) : (q \o r)[i] = IF i <= 1 THEN q[i] ELSE r[i - 1]
    <3>1. /\ q \o r \in Seq(Nat) /\ Len(q \o r) = Len(q) + Len(r)
          /\ \A i \in 1 .. Len(q) + Len(r) :
               (q \o r)[i] = IF i <= Len(q) THEN q[i] ELSE r[i - Len(q)]
      BY ConcatProperties, Zenon
    <3> QED
      BY <3>1
  <2>2. \A i \in 1 .. 1 + Len(r) : i <= 1 => i = 1
    BY LenProperties
  <2> QED
    BY <2>1, <2>2
<1>3. q \o r # <<>>
  BY <1>1, ConcatEqualIffEmpty
<1>4. Head(q \o r) = q[1]
  BY <1>2, <1>3
<1>5. Tail(q \o r) = r
  <2>1. /\ Tail(q \o r) \in Seq(Nat) /\ Len(Tail(q \o r)) = Len(r)
        /\ \A i \in 1 .. Len(r) : Tail(q \o r)[i] = (q \o r)[i + 1]
    BY <1>2, <1>3, HeadTailProperties
  <2>2. \A i \in 1 .. Len(r) : Tail(q \o r)[i] = r[i]
    BY <1>2, <2>1, SMTT(30)
  <2> QED
    BY <2>1, <2>2, SeqEqual
<1>6. r \o q = Append(r, q[1])
  <2>1. q = <<q[1]>>
    BY <1>1, SeqEqual
  <2> QED
    BY <1>1, <2>1, AppendIsConcat
<1> QED
  BY <1>1, <1>3, <1>4, <1>5, <1>6

\* A thread has a line exactly while it writes.
TakenTypes ==
  /\ file \in Seq(Nat)
  /\ msg \in [Thread -> Seq(Nat)]
  /\ \A t \in Thread : Len(msg[t]) = IF thr[t] = "write" THEN 1 ELSE 0

FifoInv == WriterInv /\ TakenTypes

LEMMA InitFifo == LogInit => FifoInv
<1> SUFFICES ASSUME LogInit PROVE TakenTypes
  BY InitWriter DEF FifoInv
<1>1. <<>> \in Seq(Nat) /\ Len(<<>>) = 0
  OBVIOUS
<1> QED
  BY <1>1 DEF LogInit, TakenTypes

LEMMA StepFifo ==
  ASSUME FifoInv, [LogNext]_logVars
  PROVE  FifoInv'
<1> SUFFICES TakenTypes'
  BY StepWriter DEF FifoInv
<1> USE DEF FifoInv, TakenTypes, WriterInv, ThreadTypes
<1>1. CASE StartWriteThread
  BY <1>1 DEF StartWriteThread, StartThread
<1>2. ASSUME NEW t \in Thread, NEW ok \in BOOLEAN, Open(t, ok) PROVE TakenTypes'
  BY <1>2 DEF Open
<1>3. ASSUME NEW t \in Thread, NEW ok \in BOOLEAN, Write(t, ok) PROVE TakenTypes'
  <2>1. <<>> \in Seq(Nat) /\ Len(<<>>) = 0
    OBVIOUS
  <2>2. file' \in Seq(Nat)
    <3>1. file \in Seq(Nat) /\ msg[t] \in Seq(Nat)
      OBVIOUS
    <3>2. file \o msg[t] \in Seq(Nat)
      BY <3>1
    <3> QED
      BY <1>3, <3>1, <3>2 DEF Write
  <2>3. /\ thr[t] = "write" /\ thr' = [thr EXCEPT ![t] = "take"]
        /\ msg' = [msg EXCEPT ![t] = <<>>]
    BY <1>3 DEF Write
  <2>4. ASSUME NEW u \in Thread PROVE Len(msg'[u]) = IF thr'[u] = "write" THEN 1 ELSE 0
    <3>1. CASE u = t
      BY <2>1, <2>3, <3>1
    <3>2. CASE u # t
      <4>1. msg'[u] = msg[u] /\ thr'[u] = thr[u]
        BY <2>3, <3>2
      <4> QED
        BY <4>1
    <3> QED
      BY <3>1, <3>2
  <2>5. msg' \in [Thread -> Seq(Nat)]
    BY <2>1, <2>3
  <2> QED
    BY <2>2, <2>4, <2>5
<1>4. ASSUME NEW t \in Thread, Take(t) PROVE TakenTypes'
  <2>1. Head(m_lstMessages) \in Nat
    BY <1>4 DEF Take
  <2>2. <<Head(m_lstMessages)>> \in Seq(Nat) /\ Len(<<Head(m_lstMessages)>>) = 1
    BY <2>1
  <2> QED
    BY <1>4, <2>2 DEF Take
<1>5. ASSUME NEW t \in Thread, GiveUp(t) \/ Finish(t) PROVE TakenTypes'
  BY <1>5 DEF GiveUp, Finish
<1>6. CASE DestroyLog \/ Destroyed \/ UNCHANGED logVars
  BY <1>6 DEF DestroyLog, Destroyed, logVars
<1> QED
  BY <1>1, <1>2, <1>3, <1>4, <1>5, <1>6 DEF LogNext, ThreadStep

\* The thread that writes is the only one with a line.
LEMMA TakenIsWritten ==
  FifoInv => /\ \A t \in Thread : thr[t] = "write" => Taken = msg[t]
             /\ (\A t \in Thread : thr[t] # "write") => Taken = <<>>
<1> SUFFICES ASSUME FifoInv
             PROVE  /\ \A t \in Thread : thr[t] = "write" => Taken = msg[t]
                    /\ (\A t \in Thread : thr[t] # "write") => Taken = <<>>
  OBVIOUS
<1> USE DEF FifoInv, TakenTypes, WriterInv, OneWriter, Alive
<1>1. \A t \in Thread : msg[t] # <<>> <=> thr[t] = "write"
  <2>1. \A q \in Seq(Nat) : q # <<>> <=> Len(q) # 0
    BY EmptySeq
  <2>2. ASSUME NEW t \in Thread PROVE msg[t] # <<>> <=> thr[t] = "write"
    <3>1. msg[t] \in Seq(Nat) /\ (Len(msg[t]) # 0 <=> thr[t] = "write")
      OBVIOUS
    <3> QED
      BY <2>1, <3>1
  <2> QED
    BY <2>2
<1>2. ASSUME NEW t \in Thread, thr[t] = "write" PROVE Taken = msg[t]
  <2>1. \A u \in Thread : msg[u] # <<>> => u = t
    BY <1>1, <1>2
  <2> QED
    BY <1>1, <1>2, <2>1 DEF Taken
<1>3. ASSUME \A t \in Thread : thr[t] # "write" PROVE Taken = <<>>
  BY <1>1, <1>3 DEF Taken
<1> QED
  BY <1>2, <1>3

LEMMA TakenType == FifoInv => Taken \in Seq(Nat)
<1> SUFFICES ASSUME FifoInv PROVE Taken \in Seq(Nat)
  OBVIOUS
<1>1. CASE \E t \in Thread : thr[t] = "write"
  BY <1>1, TakenIsWritten DEF FifoInv, TakenTypes
<1>2. CASE \A t \in Thread : thr[t] # "write"
  <2>1. Taken = <<>>
    BY <1>2, TakenIsWritten
  <2> QED
    BY <2>1
<1> QED
  BY <1>1, <1>2

Pending == Taken \o m_lstMessages

\* Each step of a log file is one of the queue, or none.
LEMMA StepRefines ==
  ASSUME FifoInv, [LogNext]_logVars
  PROVE  Fifo!Next \/ UNCHANGED <<Pending, file>>
<1> USE DEF Pending
<1>0. Taken \in Seq(Nat) /\ m_lstMessages \in Seq(Nat) /\ file \in Seq(Nat)
  BY TakenType DEF FifoInv, WriterInv, ThreadTypes, TakenTypes
<1>a. FifoInv'
  BY StepFifo
<1>b. /\ \A t \in Thread : thr'[t] = "write" => Taken' = msg'[t]
      /\ (\A t \in Thread : thr'[t] # "write") => Taken' = <<>>
  <2>1. (FifoInv => /\ \A t \in Thread : thr[t] = "write" => Taken = msg[t]
                    /\ (\A t \in Thread : thr[t] # "write") => Taken = <<>>)'
    BY TakenIsWritten, PTL
  <2> QED
    BY <1>a, <2>1
<1>1. CASE StartWriteThread
  <2>1. /\ lines + 1 \in 1 .. MaxLines /\ m_lstMessages' = Append(m_lstMessages, lines + 1)
        /\ Taken' = Taken /\ file' = file
    BY <1>1, LogAssumption DEF StartWriteThread, Enqueue, Taken, FifoInv, WriterInv, ThreadTypes
  <2>2. Pending' = Append(Pending, lines + 1)
    BY <1>0, <2>1
  <2>3. Fifo!Accept(lines + 1)
    BY <2>1, <2>2 DEF Fifo!Accept
  <2> QED
    BY <2>1, <2>3 DEF Fifo!Next
<1>2. ASSUME NEW t \in Thread, NEW ok \in BOOLEAN, Open(t, ok)
      PROVE  UNCHANGED <<Pending, file>>
  BY <1>2 DEF Open, Taken
<1>3. ASSUME NEW t \in Thread, NEW ok \in BOOLEAN, Write(t, ok) PROVE Fifo!Next
  <2>1. /\ thr[t] = "write" /\ thr' = [thr EXCEPT ![t] = "take"]
        /\ m_lstMessages' = m_lstMessages
        /\ file' = IF ok THEN file \o msg[t] ELSE file
    BY <1>3 DEF Write
  <2>2. /\ Taken = msg[t] /\ Len(Taken) = 1
        /\ \A u \in Thread : thr[u] = "write" => u = t
    BY <2>1, TakenIsWritten DEF FifoInv, TakenTypes, WriterInv, OneWriter, Alive
  <2>3. \A u \in Thread : thr'[u] # "write"
    BY <2>1, <2>2 DEF FifoInv, WriterInv, ThreadTypes
  <2>4. Taken' = <<>>
    BY <1>b, <2>3
  <2>5. Pending # <<>> /\ Pending' = Tail(Pending) /\ Head(Pending) = Taken[1]
    <3>1. /\ Pending # <<>> /\ Tail(Pending) = m_lstMessages
          /\ Head(Pending) = Taken[1]
      BY <1>0, <2>2, OneLine
    <3>2. Pending' = m_lstMessages
      BY <1>0, <2>1, <2>4, ConcatEmptySeq
    <3> QED
      BY <3>1, <3>2
  <2>6. file \o Taken = Append(file, Taken[1])
    BY <1>0, <2>2, OneLine
  <2>7. Fifo!Commit \/ Fifo!Lose
    BY <2>1, <2>2, <2>5, <2>6 DEF Fifo!Commit, Fifo!Lose
  <2> QED
    BY <2>7 DEF Fifo!Next
<1>4. ASSUME NEW t \in Thread, Take(t) PROVE UNCHANGED <<Pending, file>>
  <2>1. /\ thr[t] = "take" /\ thr' = [thr EXCEPT ![t] = "write"] /\ m_lstMessages # <<>>
        /\ msg' = [msg EXCEPT ![t] = <<Head(m_lstMessages)>>]
        /\ m_lstMessages' = Tail(m_lstMessages) /\ file' = file
    BY <1>4 DEF Take
  <2>2. \A u \in Thread : thr[u] # "write"
    BY <2>1 DEF FifoInv, WriterInv, OneWriter, Alive
  <2>3. Taken = <<>>
    BY <2>2, TakenIsWritten
  <2>4. thr'[t] = "write" /\ msg'[t] = <<Head(m_lstMessages)>>
    BY <2>1 DEF FifoInv, WriterInv, ThreadTypes, TakenTypes
  <2>5. Taken' = <<Head(m_lstMessages)>>
    BY <1>b, <2>4
  <2> QED
    BY <1>0, <2>1, <2>3, <2>5
<1>5. ASSUME NEW t \in Thread, GiveUp(t) PROVE Fifo!Next
  <2>1. /\ thr[t] = "failed" /\ thr' = [thr EXCEPT ![t] = "none"] /\ m_lstMessages' = <<>>
        /\ file' = file
    BY <1>5 DEF GiveUp
  <2>2. \A u \in Thread : thr'[u] # "write"
    BY <2>1 DEF FifoInv, WriterInv, ThreadTypes, OneWriter, Alive
  <2>3. Taken' = <<>>
    BY <1>b, <2>2
  <2>4. Fifo!LoseAll
    BY <2>1, <2>3 DEF Fifo!LoseAll
  <2> QED
    BY <2>4 DEF Fifo!Next
<1>6. ASSUME NEW t \in Thread, Finish(t) PROVE UNCHANGED <<Pending, file>>
  BY <1>6 DEF Finish, Taken
<1>7. CASE DestroyLog \/ Destroyed \/ UNCHANGED logVars
  BY <1>7 DEF DestroyLog, Destroyed, logVars, Taken
<1> QED
  BY <1>1, <1>2, <1>3, <1>4, <1>5, <1>6, <1>7 DEF LogNext, ThreadStep

\* A log file is a queue, whoever logs and whatever fails: lines reach the file
\* in the order in which they were logged, each at most once.
THEOREM ImplementsFifo == LogSpec => FifoSpec
<1>1. LogInit => Fifo!Init
  <2> SUFFICES ASSUME LogInit PROVE Fifo!Init
    OBVIOUS
  <2>1. FifoInv /\ \A t \in Thread : thr[t] # "write"
    BY InitFifo DEF LogInit
  <2>2. Taken = <<>>
    BY <2>1, TakenIsWritten
  <2> QED
    BY <2>2 DEF LogInit, Fifo!Init
<1>2. FifoInv /\ [LogNext]_logVars => [Fifo!Next]_<<Taken \o m_lstMessages, file>>
  BY StepRefines DEF Pending
<1> QED
  BY <1>1, <1>2, InitFifo, StepFifo, PTL DEF LogSpec, FifoSpec, Fifo!Spec

-----------------------------------------------------------------------------
(* The answer to a request *)

\* The stages before anything of the answer is written, and of them those that
\* a request comes to only when it may have what it asks for.
Asking == {"version", "method", "path", "forbidden", "auth"}
Allowed == {"alias", "stat", "script", "output", "range", "merge", "condition", "answer"}
Working == Asking \cup Allowed

ReqShapes ==
  /\ vers \in {1, 2}
  /\ open \in BOOLEAN /\ stop \in BOOLEAN /\ reset \in BOOLEAN /\ closing \in BOOLEAN
  /\ stage \in Working \cup {"idle", "body", "exit"}
  /\ req = [method |-> req.method, minor |-> req.minor, path |-> req.path,
            item |-> req.item, specs |-> req.specs]
  /\ target = [exec |-> target.exec, star |-> target.star, script |-> target.script,
               packed |-> target.packed]
  /\ auth = [at |-> auth.at, shown |-> auth.shown]

\* Who is past the authentication had a user, or needed none.
MayHave == auth.at = Public \/ Valid(auth.shown) \/ auth.at \in known

AuthInv ==
  /\ stage \in Allowed \cup {"body"} => MayHave
  /\ stage = "exit" /\ head.status \in {200, 206, 304} => MayHave

\* Nothing is written before the answer, and the socket is open.
NothingYet ==
  stage \in Working =>
    /\ heads = 0 /\ head = NoHead /\ sent = 0 /\ last = FALSE /\ open
    /\ IF stage = "output" THEN target.script # "no" ELSE target.script = "no"

\* A client that cannot be told the end of an answer by a chunk is told by the
\* end of the connection.
ClosesIfOld ==
  stage \in Working \cup {"body"} /\ stage # "version" /\ vers < 2 /\ req.minor # "1" => closing

\* Between header and body.
FileHead ==
  LET n == ranges[1][2] - ranges[1][1] IN
  /\ head.status \in {200, 206} /\ req.method = "GET"
  /\ head.length = (IF target.packed THEN -1 ELSE Length(n, FALSE))
  /\ target.packed /\ vers < 2 => head.chunked

HeadFits ==
  stage = "body" =>
    /\ open
    /\ heads = 1 \/ (vers = 2 /\ reset)
    /\ heads = 1 =>
         /\ head.close = closing
         /\ target.script = "no" => FileHead
         /\ target.script # "no" /\ vers < 2 => head.length = size \/ head.chunked \/ closing

AnswerInv ==
  /\ ReqShapes /\ NothingYet /\ ClosesIfOld /\ HeadFits
  /\ AnswerFramed /\ CloseAnnounced

RequestInv == AuthInv /\ AnswerInv

LEMMA InitRequest == RequestInit => RequestInv
BY RequestAssumption
   DEF RequestInit, RequestInv, AuthInv, AnswerInv, ReqShapes, NothingYet, ClosesIfOld, HeadFits,
       AnswerFramed, CloseAnnounced, Answered, Working, Asking, Allowed, NoRequest, NoTarget,
       NoAuth

\* SendErrorRespons, from wherever it is called: HTTP/1 ends the connection, HTTP/2
\* the stream.
LEMMA ErrorKeeps ==
  ASSUME RequestInv, stage \in Working,
         NEW status \in {400, 403, 404, 405, 416, 500}, SendErrorRespons(status)
  PROVE  RequestInv'
<1> USE DEF RequestInv, AnswerInv, ReqShapes, NothingYet
<1>1. PICK page \in {0, 1} :
        /\ heads' = heads + 1
        /\ head' = [status |-> status, length |-> Length(page, FALSE), chunked |-> FALSE,
                    close |-> TRUE]
        /\ sent' = page /\ last' = (vers = 2) /\ open' = (open /\ ~(vers < 2))
        /\ stage' = "exit"
        /\ UNCHANGED <<vers, stop, count, known, reset, route>>
  BY DEF SendErrorRespons, LoadErrorHtmlMessage, WriteHead, CloseIf, Goto
<1>2. ReqShapes' /\ NothingYet'
  BY <1>1 DEF route, Working, Asking, Allowed
<1>3. AuthInv' /\ ClosesIfOld' /\ HeadFits'
  BY <1>1 DEF AuthInv, ClosesIfOld, HeadFits, Working, Asking, Allowed
<1>4. AnswerFramed'
  <2>1. (vers = 2 /\ last') \/ (vers < 2 /\ ~open')
    <3>1. vers = 2 \/ vers < 2
      OBVIOUS
    <3> QED
      BY <1>1, <3>1, Zenon
  <2>3. vers' = vers
    BY <1>1
  <2> QED
    BY <2>1, <2>3, Zenon DEF AnswerFramed, Framed
<1>5. CloseAnnounced'
  <2>1. head'.close
    BY <1>1, Zenon
  <2> QED
    BY <2>1 DEF CloseAnnounced
<1> QED
  BY <1>2, <1>3, <1>4, <1>5

\* A header alone, after which the connection ends if it is said to, and whose end
\* the client knows: by its status, or because the method has no body.
LEMMA HeadOnlyKeeps ==
  ASSUME RequestInv, stage \in Allowed, stage' = "exit",
         NEW status, NEW length, NEW close \in BOOLEAN,
         HeadOnly(status, length, close),
         open' \in BOOLEAN, open' # open /\ vers < 2 => close,
         UNCHANGED <<vers, stop, count, known, reset, route>>,
         vers < 2 => \/ ~open' \/ req.method = "HEAD" \/ status \in {301, 304, 307}
                     \/ length = 0
  PROVE  RequestInv'
<1> USE DEF RequestInv, AnswerInv, ReqShapes, NothingYet
<1>1. /\ last' = (vers = 2 /\ ~reset) /\ sent' = sent
      /\ IF vers = 2 /\ reset THEN UNCHANGED <<heads, head>>
         ELSE /\ heads' = heads + 1
              /\ head' = [status |-> status, length |-> length, chunked |-> FALSE,
                          close |-> close]
  BY DEF HeadOnly, HeadUnlessReset, WriteHead
<1>2. ReqShapes' /\ NothingYet'
  BY <1>1 DEF route, Working, Asking, Allowed
<1>3. AuthInv' /\ ClosesIfOld' /\ HeadFits'
  BY <1>1 DEF AuthInv, ClosesIfOld, HeadFits, MayHave, route, Working, Asking, Allowed
<1>4. AnswerFramed'
  <2> SUFFICES ASSUME stage' = "exit", heads' = 1, ~stop, ~reset
               PROVE  Framed' \/ Moved'
    BY <1>1 DEF AnswerFramed, Answered
  <2>1. head'.status = status /\ head'.length = length
    BY <1>1
  <2>2. CASE vers = 2
    BY <1>1, <2>2 DEF Framed
  <2>3. CASE vers < 2
    <3>1. sent' = 0 /\ ~last'
      BY <1>1, <2>3 DEF Working
    <3>2. CASE Bodiless'
      BY <2>3, <3>1, <3>2 DEF Framed
    <3>3. CASE ~Bodiless'
      BY <2>1, <2>3, <3>1, <3>3 DEF Bodiless, Framed, Moved, route
    <3> QED
      BY <3>2, <3>3
  <2> QED
    BY <2>2, <2>3
<1>5. CloseAnnounced'
  <2> SUFFICES ASSUME vers < 2, ~open' PROVE head'.close
    BY DEF CloseAnnounced
  <2>1. open' # open /\ vers # 2
    <3>1. open /\ vers # 2
      BY DEF Working
    <3> QED
      BY <3>1, Zenon
  <2>2. head' = [status |-> status, length |-> length, chunked |-> FALSE, close |-> close]
    BY <1>1, <2>1
  <2>3. close
    BY <2>1
  <2> QED
    BY <2>2, <2>3, Zenon
<1> QED
  BY <1>2, <1>3, <1>4, <1>5

\* Stages that write nothing and go on.
LEMMA RouteKeeps ==
  ASSUME RequestInv,
         StartAction \/ Version \/ DecodePath \/ Rewritten \/ NotForbidden \/ AuthNotNeeded
           \/ Authenticated \/ Alias \/ Found \/ StartScript \/ EvaluateRange \/ MergeRanges
           \/ RangesMerged \/ Modified
  PROVE  RequestInv'
<1> USE DEF RequestInv, AnswerInv, Goto, answer, conn, route
<1>0. UNCHANGED vers
  BY DEF StartAction, Version, DecodePath, Rewritten, NotForbidden, AuthNotNeeded, Authenticated,
         Alias, Found, StartScript,
         EvaluateRange, MergeRanges, RangesMerged, Modified
<1>1. ReqShapes'
  BY <1>0 DEF ReqShapes, Working, Asking, Allowed, StartAction, Version, DecodePath, Rewritten,
         NotForbidden, AuthNotNeeded, Authenticated, Alias, Found, StartScript,
         EvaluateRange, MergeRanges, RangesMerged, Modified,
         NoRequest, NoTarget, NoAuth
<1>2. AuthInv'
  BY DEF AuthInv, MayHave, Accepted, Valid, ReqShapes, Working, Asking, Allowed, StartAction,
         Version, DecodePath, Rewritten, NotForbidden, AuthNotNeeded, Authenticated, Alias,
         Found, StartScript,
         EvaluateRange, MergeRanges, RangesMerged, Modified, NoHead
<1>3. NothingYet'
  <2>1. CASE StartAction
    BY <2>1 DEF NothingYet, StartAction, NoTarget
  <2>2. CASE StartScript
    BY <2>2 DEF NothingYet, ReqShapes, StartScript, Working, Allowed
  <2>3. CASE Alias \/ Found
    BY <2>3 DEF NothingYet, ReqShapes, Alias, Found, Working, Allowed
  <2>4. CASE Version \/ DecodePath \/ Rewritten \/ NotForbidden \/ AuthNotNeeded
               \/ Authenticated \/ EvaluateRange \/ MergeRanges \/ RangesMerged \/ Modified
    BY <2>4 DEF NothingYet, Version, DecodePath, Rewritten, NotForbidden, AuthNotNeeded,
       Authenticated, EvaluateRange, MergeRanges, RangesMerged, Modified, Working, Asking, Allowed
  <2> QED
    BY <2>1, <2>2, <2>3, <2>4
<1>4. ClosesIfOld'
  BY ZenonT(60) DEF ClosesIfOld, ReqShapes, Working, Asking, Allowed, StartAction, Version, DecodePath,
         Rewritten, NotForbidden, AuthNotNeeded, Authenticated, Alias, Found, StartScript,
         EvaluateRange, MergeRanges, RangesMerged, Modified
<1>5. stage' \in Working
  BY DEF Working, Asking, Allowed, StartAction, Version, DecodePath, Rewritten, NotForbidden,
         AuthNotNeeded, Authenticated, Alias, Found, StartScript,
         EvaluateRange, MergeRanges, RangesMerged, Modified
<1>6. HeadFits' /\ AnswerFramed' /\ CloseAnnounced'
  BY <1>3, <1>5 DEF NothingYet, HeadFits, AnswerFramed, CloseAnnounced, Answered, Working,
     Asking, Allowed
<1> QED
  BY <1>1, <1>2, <1>3, <1>4, <1>6

LEMMA ErrorsKeep ==
  ASSUME RequestInv,
         BadRequest \/ BadPath \/ Forbidden \/ NotFound \/ RefuseRanges \/ Star \/ NotAllowed
           \/ OpenFails
  PROVE  RequestInv'
<1>1. stage \in Working
  BY DEF BadRequest, BadPath, Forbidden, NotFound, RefuseRanges, Star, NotAllowed, OpenFails,
         Working, Asking, Allowed
<1>2. CASE NotFound
  BY <1>1, <1>2, ErrorKeeps DEF NotFound
<1>3. CASE BadRequest \/ BadPath \/ Forbidden \/ RefuseRanges \/ Star \/ NotAllowed \/ OpenFails
  <2>1. \/ SendErrorRespons(400) \/ SendErrorRespons(403) \/ SendErrorRespons(404)
        \/ SendErrorRespons(405) \/ SendErrorRespons(416) \/ SendErrorRespons(500)
    BY <1>3, Zenon DEF BadRequest, BadPath, Forbidden, RefuseRanges, Star, NotAllowed, OpenFails
  <2> QED
    BY <1>1, <2>1, ErrorKeeps
<1> QED
  BY <1>2, <1>3

LEMMA HeadersKeep ==
  ASSUME RequestInv,
         MovedToProxy \/ MovedToDirectory \/ ScriptError \/ NotModified \/ Options \/ HeadMethod
  PROVE  RequestInv'
<1> USE DEF RequestInv, AnswerInv, ReqShapes, CloseIf, Goto
<1>1. CASE MovedToProxy
  <2>1. stage \in Allowed /\ HeadOnly(307, -1, closing)
    BY <1>1 DEF MovedToProxy, Allowed
  <2> QED
    BY <1>1, <2>1, HeadOnlyKeeps DEF MovedToProxy, conn
<1>2. CASE MovedToDirectory
  <2>1. stage \in Allowed /\ HeadOnly(301, -1, closing)
    BY <1>2 DEF MovedToDirectory, Allowed
  <2> QED
    BY <1>2, <2>1, HeadOnlyKeeps DEF MovedToDirectory, conn
<1>3. CASE ScriptError
  <2>1. stage \in Allowed /\ HeadOnly(500, -1, TRUE)
    BY <1>3 DEF ScriptError, Allowed
  <2>2. open' = (open /\ ~(vers < 2)) /\ stage' = "exit"
        /\ UNCHANGED <<vers, stop, count, known, reset, route>>
    BY <1>3 DEF ScriptError
  <2>3. open' \in BOOLEAN /\ (vers < 2 => ~open')
    BY <2>2, Zenon
  <2>4. stage' = "exit" /\ UNCHANGED <<vers, stop, count, known, reset, route>>
    BY <2>2
  <2> HIDE DEF RequestInv, AnswerInv, ReqShapes, CloseIf, Goto
  <2> QED
    BY <2>1, <2>3, <2>4, HeadOnlyKeeps
<1>4. CASE NotModified
  <2>1. stage \in Allowed /\ HeadOnly(304, -1, closing)
    BY <1>4 DEF NotModified, Allowed
  <2>2. /\ open' = (open /\ ~closing) /\ stage' = "exit"
        /\ UNCHANGED <<vers, stop, count, known, reset, route>>
    BY <1>4 DEF NotModified
  <2> QED
    BY <2>1, <2>2, HeadOnlyKeeps
<1>5. CASE Options
  <2>1. stage \in Allowed /\ HeadOnly(200, 0, closing)
    BY <1>5 DEF Options, Allowed, Length
  <2>2. /\ open' = (open /\ ~closing) /\ stage' = "exit"
        /\ UNCHANGED <<vers, stop, count, known, reset, route>>
    BY <1>5 DEF Options
  <2> QED
    BY <2>1, <2>2, HeadOnlyKeeps
<1>6. CASE HeadMethod
  <2>1. stage \in Allowed
    BY <1>6 DEF HeadMethod, Allowed
  <2>2. PICK length : HeadOnly(200, length, closing)
    BY <1>6, Zenon DEF HeadMethod
  <2>3. /\ open' = (open /\ ~closing) /\ stage' = "exit" /\ req.method = "HEAD"
        /\ UNCHANGED <<vers, stop, count, known, reset, route>>
    BY <1>6 DEF HeadMethod
  <2>4. open' \in BOOLEAN /\ (open' # open => closing)
    BY <2>3
  <2> QED
    BY <2>1, <2>2, <2>3, <2>4, HeadOnlyKeeps
<1> QED
  BY <1>1, <1>2, <1>3, <1>4, <1>5, <1>6

\* The answers of their own kind: 307 of RedirectMatch, 401, and none at all.
LEMMA OtherAnswersKeep ==
  ASSUME RequestInv, Redirect \/ Unauthorized \/ NoAnswer
  PROVE  RequestInv'
<1> USE DEF RequestInv, AnswerInv, ReqShapes, CloseIf, Goto, conn, route, answer
<1>1. /\ stage \in Working /\ stage' = "exit"
      /\ UNCHANGED <<vers, stop, count, known, reset, route>> /\ open' \in BOOLEAN
  <2>1. stage \in {"path", "auth", "script"} /\ stage' = "exit"
    BY DEF Redirect, Unauthorized, NoAnswer
  <2>2. UNCHANGED <<vers, stop, count, known, reset, route>>
    BY DEF Redirect, Unauthorized, NoAnswer
  <2>3. open' = open \/ \E c : open' = (open /\ ~c)
    BY Zenon DEF Redirect, Unauthorized, NoAnswer
  <2> QED
    BY <2>1, <2>2, <2>3 DEF Working, Asking, Allowed
<1>2. ReqShapes' /\ NothingYet' /\ ClosesIfOld' /\ HeadFits'
  BY <1>1 DEF NothingYet, ClosesIfOld, HeadFits, Working, Asking, Allowed
<1>3. CASE Redirect
  <2>1. /\ head' = [status |-> 307, length |-> -1, chunked |-> FALSE, close |-> TRUE]
        /\ last' = (vers = 2) /\ open' = (open /\ ~(vers < 2))
    BY <1>3 DEF Redirect, WriteHead
  <2>2. head'.close /\ head'.status = 307
    BY <2>1, Zenon
  <2>3. AuthInv' /\ CloseAnnounced'
    BY <1>1, <2>2 DEF AuthInv, CloseAnnounced, Allowed
  <2>4. (vers = 2 /\ last') \/ (vers < 2 /\ ~open')
    <3>1. vers = 2 \/ vers < 2
      OBVIOUS
    <3> QED
      BY <2>1, <3>1, Zenon
  <2>5. AnswerFramed'
    BY <1>1, <2>4, Zenon DEF AnswerFramed, Framed
  <2> QED
    BY <1>2, <2>3, <2>5
<1>4. CASE Unauthorized
  <2>1. PICK page \in {0, 1} :
          /\ head' = [status |-> 401, length |-> page, chunked |-> FALSE, close |-> closing]
          /\ sent' = IF vers = 2 /\ reset THEN 0 ELSE page
          /\ last' = (vers = 2) /\ UNCHANGED open
    BY <1>4 DEF Unauthorized, WriteHead, Length, LoadErrorHtmlMessage
  <2>2. AuthInv'
    BY <1>1, <2>1 DEF AuthInv, Allowed
  <2>3. AnswerFramed'
    <3>1. vers = 2 \/ (vers < 2 /\ head'.length = sent' /\ head'.status = 401)
      BY <2>1
    <3>2. vers = 2 => last'
      BY <2>1, Zenon
    <3> QED
      BY <1>1, <3>1, <3>2, Zenon DEF AnswerFramed, Framed, BodyAnyway
  <2>4. CloseAnnounced'
    BY <1>1, <2>1 DEF CloseAnnounced, NothingYet
  <2> QED
    BY <1>2, <2>2, <2>3, <2>4
<1>5. CASE NoAnswer
  <2>1. heads' = 0 /\ head' = head /\ stage = "script"
    BY <1>1, <1>5 DEF NoAnswer, NothingYet
  <2> QED
    BY <1>1, <1>2, <2>1 DEF AuthInv, MayHave, AnswerFramed, Answered, CloseAnnounced, Allowed
<1> QED
  BY <1>3, <1>4, <1>5

\* The header of what a script or a file sends.
LEMMA BodyHeadsKeep ==
  ASSUME RequestInv, ScriptHeader \/ SendFile
  PROVE  RequestInv'
<1> USE DEF RequestInv, AnswerInv, ReqShapes, Goto, conn, route
<1>1. /\ stage \in {"output", "answer"} /\ stage' = "body" /\ heads = 0 /\ open
      /\ UNCHANGED <<vers, open, stop, reset, known, req, closing, size, auth, sent, last>>
  BY DEF ScriptHeader, SendFile, NothingYet, Working, Allowed
<1>2. ReqShapes'
  <2>1. target' = target \/ \E packed \in BOOLEAN : target' = [target EXCEPT !.packed = packed]
    BY DEF ScriptHeader, SendFile
  <2>2. target' = [exec |-> target'.exec, star |-> target'.star, script |-> target'.script,
                   packed |-> target'.packed]
    BY <2>1
  <2> QED
    BY <1>1, <2>2
<1>3. AuthInv' /\ NothingYet' /\ ClosesIfOld' /\ AnswerFramed' /\ CloseAnnounced'
  BY <1>1 DEF AuthInv, MayHave, NothingYet, ClosesIfOld, AnswerFramed, Answered, CloseAnnounced,
     Working, Asking, Allowed
<1>4. CASE ScriptHeader
  <2> SUFFICES HeadFits'
    BY <1>2, <1>3
  <2>1. PICK own \in BOOLEAN, iStatus \in {200, 304} :
          HeadUnlessReset(iStatus, IF own THEN size ELSE -1, Chunks(own), closing)
    BY <1>4 DEF ScriptHeader
  <2>2. target' = target /\ target.script # "no"
    BY <1>4 DEF ScriptHeader, NothingYet, Working, Allowed
  <2>3. CASE vers = 2 /\ reset
    BY <1>1, <2>1, <2>3 DEF HeadFits, HeadUnlessReset
  <2>4. CASE ~(vers = 2 /\ reset)
    <3>1. /\ heads' = 1
          /\ head' = [status |-> iStatus, length |-> IF own THEN size ELSE -1,
                      chunked |-> Chunks(own), close |-> closing]
      BY <1>1, <2>1, <2>4 DEF HeadUnlessReset, WriteHead
    <3>2. head'.length = (IF own THEN size ELSE -1) /\ head'.close = closing
      BY <3>1
    <3>3. head'.chunked = Chunks(own)
      BY <3>1, Zenon
    <3>4. vers < 2 /\ req.minor # "1" => closing
      BY <1>1 DEF ClosesIfOld, Working, Allowed
    <3>5. vers < 2 => own \/ Chunks(own) \/ closing
      BY <3>4 DEF Chunks
    <3>6. vers < 2 => head'.length = size \/ head'.chunked \/ closing
      BY <3>2, <3>3, <3>5, Zenon
    <3> QED
      BY <1>1, <2>2, <3>1, <3>2, <3>6 DEF HeadFits
  <2> QED
    BY <2>3, <2>4
<1>5. CASE SendFile
  <2> SUFFICES HeadFits'
    BY <1>2, <1>3
  <2> DEFINE r == Rng!Served(ranges, size)
             n == r[2] - r[1]
  <2>1. PICK packed \in BOOLEAN :
          /\ HeadUnlessReset(IF Rng!Servable(ranges, size) THEN 206 ELSE 200,
                             IF packed THEN -1 ELSE Length(n, FALSE),
                             packed /\ vers < 2, closing)
          /\ ranges' = <<r>> /\ target' = [target EXCEPT !.packed = packed]
    BY <1>5, Zenon DEF SendFile
  <2>2. target'.script = "no" /\ target'.packed = packed /\ req'.method = "GET"
    BY <1>1, <1>5, <2>1 DEF SendFile, NothingYet, Working, Allowed
  <2> HIDE DEF r
  <2>3. ranges'[1][2] - ranges'[1][1] = n
    BY <2>1
  <2> HIDE DEF n
  <2>4. CASE vers = 2 /\ reset
    BY <1>1, <2>1, <2>4 DEF HeadFits, HeadUnlessReset
  <2>5. CASE ~(vers = 2 /\ reset)
    <3>1. PICK status \in {200, 206} :
            head' = [status |-> status, length |-> IF packed THEN -1 ELSE Length(n, FALSE),
                     chunked |-> packed /\ vers < 2, close |-> closing]
      BY <2>1, <2>5, Zenon DEF HeadUnlessReset, WriteHead
    <3>2. heads' = 1
      <4>1. heads' = heads + 1
        BY <2>1, <2>5, Zenon DEF HeadUnlessReset, WriteHead
      <4> QED
        BY <1>1, <4>1
    <3>3. /\ head'.status = status /\ head'.close = closing
          /\ head'.length = IF packed THEN -1 ELSE Length(n, FALSE)
          /\ head'.chunked = (packed /\ vers < 2)
      BY <3>1, Zenon
    <3>4. FileHead'
      BY <1>1, <2>2, <2>3, <3>3, Zenon DEF FileHead
    <3> QED
      BY <1>1, <2>2, <3>2, <3>3, <3>4 DEF HeadFits
  <2> QED
    BY <2>4, <2>5
<1> QED
  BY <1>4, <1>5

\* The body: its end is known by END_STREAM, by its length, by its last chunk or by
\* the end of the connection.
LEMMA BodiesKeep ==
  ASSUME RequestInv, ScriptBody \/ ScriptAborted \/ FileBody
  PROVE  RequestInv'
<1> USE DEF RequestInv, AnswerInv, ReqShapes, Goto, CloseIf, route
<1>1. /\ stage \in {"output", "body"} /\ stage' = "exit"
      /\ UNCHANGED <<vers, stop, reset, known, req, closing, target, size, ranges, auth, heads,
                    head>>
  BY DEF ScriptBody, ScriptAborted, FileBody, answer
<1>2. open' \in BOOLEAN /\ (~open' => open /\ closing)
  <2>1. open
    BY <1>1 DEF HeadFits, NothingYet, Working, Allowed
  <2>2. CASE ScriptBody
    BY <2>1, <2>2, Zenon DEF ScriptBody
  <2>3. CASE ScriptAborted
    BY <2>1, <2>3, Zenon DEF ScriptAborted
  <2>4. CASE FileBody
    BY <2>1, <2>4, Zenon DEF FileBody
  <2> QED
    BY <2>2, <2>3, <2>4
<1>3. ReqShapes' /\ NothingYet' /\ ClosesIfOld' /\ HeadFits'
  BY <1>1, <1>2 DEF NothingYet, ClosesIfOld, HeadFits, Working, Asking, Allowed
<1>4. AuthInv'
  BY <1>1 DEF AuthInv, MayHave, Allowed
<1>5. CloseAnnounced'
  <2>1. heads = 1 => head.close = closing
    BY <1>1 DEF HeadFits, NothingYet, Working, Allowed
  <2> QED
    BY <1>1, <1>2, <2>1, Zenon DEF CloseAnnounced
<1>6. AnswerFramed'
  <2> SUFFICES ASSUME heads = 1, ~stop, ~reset PROVE AnswerFramed'
    BY <1>1 DEF AnswerFramed, Answered
  <2>1. CASE ScriptBody
    <3>1. /\ stage = "body" /\ target.script # "no" /\ sent' = size
          /\ last' = (vers = 2 \/ head.chunked) /\ open' = (open /\ ~closing)
      BY <2>1 DEF ScriptBody
    <3>2. vers < 2 => head.length = size \/ head.chunked \/ closing
      BY <3>1 DEF HeadFits
    <3>3. vers = 2 \/ vers < 2
      OBVIOUS
    <3>4. CASE Bodiless
      <4>1. (vers = 2 /\ last') \/ BodyAnyway'
        BY <1>1, <3>1, <3>3, <3>4 DEF Bodiless, BodyAnyway
      <4> QED
        BY <1>1, <4>1, Zenon DEF AnswerFramed, Framed
    <3>5. CASE ~Bodiless
      <4>1. Bodiless' = Bodiless
        BY <1>1 DEF Bodiless
      <4> QED
        BY <1>1, <3>1, <3>2, <3>3, <3>5, <4>1, Zenon DEF AnswerFramed, Framed
    <3> QED
      BY <3>4, <3>5
  <2>2. CASE FileBody
    <3> DEFINE n == ranges[1][2] - ranges[1][1]
    <3>1. /\ stage = "body" /\ target.script = "no" /\ sent' = n
          /\ last' = (target.packed \/ (vers = 2 /\ n # 0))
      BY <2>2, Zenon DEF FileBody
    <3>2. /\ head.status \in {200, 206} /\ req.method = "GET"
          /\ head.length = (IF target.packed THEN -1 ELSE Length(n, FALSE))
          /\ target.packed /\ vers < 2 => head.chunked
      BY <3>1 DEF HeadFits, FileHead
    <3> HIDE DEF n
    <3>3. n = 0 /\ ~target.packed => EmptyFile'
      BY <1>1, <3>1, <3>2 DEF EmptyFile
    <3>6. ~Bodiless'
      BY <1>1, <3>2 DEF Bodiless
    <3>4. n # 0 /\ ~target.packed => head.length = sent'
      BY <3>1, <3>2, Zenon DEF Length
    <3>5. vers = 2 \/ vers < 2
      OBVIOUS
    <3> QED
      BY <1>1, <3>1, <3>2, <3>3, <3>4, <3>5, <3>6, Zenon DEF AnswerFramed, Framed
  <2>3. CASE ScriptAborted
    BY <2>3 DEF ScriptAborted
  <2> QED
    BY <2>1, <2>2, <2>3
<1> QED
  BY <1>3, <1>4, <1>5, <1>6

LEMMA StepRequest ==
  ASSUME RequestInv, [RequestNext]_requestVars
  PROVE  RequestInv'
<1>1. CASE Exit \/ RstStream \/ StopConnection \/ UNCHANGED requestVars
  <2> USE DEF Exit, RstStream, StopConnection, RequestInv, AnswerInv, ReqShapes, Goto, conn, route,
              answer, requestVars
  <2>1. /\ UNCHANGED <<vers, open, count, known, route, answer>>
        /\ stage' = stage \/ stage' = "idle"
        /\ stage' # "idle" => (~stop' => ~stop) /\ (~reset' => ~reset) /\ (reset => reset')
    BY <1>1
  <2>2. AuthInv' /\ NothingYet' /\ ClosesIfOld'
    BY <2>1 DEF AuthInv, MayHave, NothingYet, ClosesIfOld, Working, Asking, Allowed
  <2>5. stop' \in BOOLEAN /\ reset' \in BOOLEAN
    BY <1>1
  <2>6. ReqShapes'
    BY <2>1, <2>5
  <2>3. HeadFits' /\ CloseAnnounced'
    BY <2>1 DEF HeadFits, FileHead, CloseAnnounced
  <2>4. AnswerFramed'
    BY <2>1 DEF AnswerFramed, Answered, Framed, BodyAnyway, Moved, EmptyFile, Bodiless
  <2> QED
    BY <2>2, <2>3, <2>4, <2>6
<1>2. CASE StartAction \/ Route
  BY <1>2, RouteKeeps, ErrorsKeep, HeadersKeep, OtherAnswersKeep DEF Route
<1>3. CASE Serve
  BY <1>3, RouteKeeps, ErrorsKeep, HeadersKeep, OtherAnswersKeep, BodyHeadsKeep,
     BodiesKeep DEF Serve
<1> QED
  BY <1>1, <1>2, <1>3 DEF RequestNext, DoAction

\* A client knows where the answer to each of its requests ends, and when the
\* connection ends with it: files, ranges, scripts with and without a length,
\* errors and redirections, HTTP/1.0, 1.1 and 2, for any file sizes.
THEOREM AnswersEnd == RequestSpec => []AnswerEndKnown
<1>1. RequestInv => AnswerEndKnown
  BY DEF RequestInv, AnswerInv, AnswerEndKnown
<1> QED
  BY <1>1, InitRequest, StepRequest, PTL DEF RequestSpec

\* No answer with content to a request for a protected location that showed no
\* user, on a connection that showed none for that location: any locations and
\* schemes.
THEOREM ProtectedAreSafe == RequestSpec => []ProtectedNeedsUser
<1>1. RequestInv => ProtectedNeedsUser
  BY DEF RequestInv, AuthInv, MayHave, ProtectedNeedsUser, Answered
<1> QED
  BY <1>1, InitRequest, StepRequest, PTL DEF RequestSpec

-----------------------------------------------------------------------------
(* The ranges of a file: sorting and joining keep the octets they name. *)

Pair == Nat \X Nat
Octets(r) == {x \in Nat : r[1] <= x /\ x < r[2]}

LEMMA CoverMember ==
  ASSUME NEW rs \in Seq(Pair), NEW x
  PROVE  x \in Rng!Cover(rs) <=> \E i \in 1 .. Len(rs) : x \in Octets(rs[i])
<1>1. ASSUME NEW i \in 1 .. Len(rs)
      PROVE  x \in rs[i][1] .. rs[i][2] - 1 <=> x \in Octets(rs[i])
  <2>1. rs[i] \in Pair
    OBVIOUS
  <2>2. rs[i][1] \in Nat /\ rs[i][2] \in Nat
    BY <2>1 DEF Pair
  <2> QED
    BY <2>2 DEF Octets
<1> QED
  BY <1>1 DEF Rng!Cover

LEMMA ParsedPairs ==
  ASSUME NEW specs \in Seq(Rng!Position \X Rng!Position), NEW n \in Nat
  PROVE  Rng!Parsed(specs, n) \in Seq(Pair)
<1>1. ASSUME NEW i \in 1 .. Len(specs) PROVE Rng!Parsed(specs, n)[i] \in Pair
  <2>1. specs[i] \in Rng!Position \X Rng!Position
    OBVIOUS
  <2>2. specs[i][1] \in Nat \cup {-1} /\ specs[i][2] \in Nat \cup {-1}
    BY <2>1 DEF Rng!Position, Rng!Open
  <2> QED
    BY <2>2 DEF Pair, Rng!Parsed, Rng!Open
<1>2. DOMAIN specs = 1 .. Len(specs)
  OBVIOUS
<1>3. DOMAIN Rng!Parsed(specs, n) = 1 .. Len(specs)
      /\ Rng!Parsed(specs, n) = [i \in 1 .. Len(specs) |-> Rng!Parsed(specs, n)[i]]
  BY <1>2, Zenon DEF Rng!Parsed
<1>4. Rng!Parsed(specs, n) \in [1 .. Len(specs) -> Pair]
  <2> HIDE DEF Pair
  <2> QED
    BY <1>1, <1>3, Zenon
<1> QED
  BY <1>4, SeqDef

LEMMA SortedCover ==
  ASSUME NEW rs \in Seq(Pair), NEW s \in Rng!Sorted(rs)
  PROVE  s \in Seq(Pair) /\ Rng!Cover(s) = Rng!Cover(rs)
<1> DEFINE D == 1 .. Len(rs)
<1>1. PICK p \in Rng!Bijection(D, D) : s = [i \in D |-> rs[p[i]]]
  BY DEF Rng!Sorted
<1>2. p \in [D -> D] /\ \A j \in D : \E i \in D : p[i] = j
  BY <1>1 DEF Rng!Bijection, Rng!Injection, Rng!Surjection, Rng!IsInjective
<1>3. s \in [D -> Pair]
  BY <1>1, <1>2
<1>4. s \in Seq(Pair) /\ Len(s) = Len(rs)
  BY <1>3, SeqDef
<1>5. ASSUME NEW x PROVE x \in Rng!Cover(s) <=> x \in Rng!Cover(rs)
  <2>1. (\E i \in D : x \in Octets(s[i])) <=> (\E i \in D : x \in Octets(rs[i]))
    BY <1>1, <1>2
  <2> QED
    BY <1>4, <2>1, CoverMember
<1> QED
  BY <1>4, <1>5

\* A range that touches the next one and takes it in.
LEMMA JoinOctets ==
  ASSUME NEW a \in Pair, NEW b \in Pair, Rng!Touch(a, b)
  PROVE  Rng!Join(a, b) \in Pair /\ Octets(Rng!Join(a, b)) = Octets(a) \cup Octets(b)
<1> DEFINE c == Rng!Join(a, b)
<1>1. a[1] \in Nat /\ a[2] \in Nat /\ b[1] \in Nat /\ b[2] \in Nat
  BY DEF Pair
<1>2. /\ c = <<IF a[1] < b[1] THEN a[1] ELSE b[1], IF a[2] < b[2] THEN b[2] ELSE a[2]>>
  BY DEF Rng!Join, Rng!Least, Rng!Most
<1>3. /\ c[1] = IF a[1] < b[1] THEN a[1] ELSE b[1]
      /\ c[2] = IF a[2] < b[2] THEN b[2] ELSE a[2]
  BY <1>2
<1>4. c \in Pair
  BY <1>1, <1>2 DEF Pair
<1>5. ASSUME NEW x \in Nat
      PROVE  c[1] <= x /\ x < c[2] <=> (a[1] <= x /\ x < a[2]) \/ (b[1] <= x /\ x < b[2])
  BY <1>1, <1>3 DEF Rng!Touch
<1> QED
  BY <1>4, <1>5 DEF Octets

LEMMA RemoveAtSeq ==
  ASSUME NEW T, NEW s \in Seq(T), NEW k \in 1 .. Len(s)
  PROVE  /\ Rng!RemoveAt(s, k) \in Seq(T) /\ Len(Rng!RemoveAt(s, k)) = Len(s) - 1
         /\ \A i \in 1 .. Len(s) - 1 :
              Rng!RemoveAt(s, k)[i] = IF i < k THEN s[i] ELSE s[i + 1]
<1> DEFINE front == SubSeq(s, 1, k - 1)
           back == SubSeq(s, k + 1, Len(s))
<1>1. Rng!RemoveAt(s, k) = front \o back
  BY Zenon DEF Rng!RemoveAt
<1>2. front \in Seq(T) /\ Len(front) = k - 1 /\ \A i \in 1 .. k - 1 : front[i] = s[i]
  BY SubSeqProperties
<1>3. /\ back \in Seq(T) /\ Len(back) = Len(s) - k
      /\ \A i \in 1 .. Len(s) - k : back[i] = s[k + i]
  <2>1. \A i \in k + 1 .. Len(s) : s[i] \in T
    OBVIOUS
  <2>2. /\ back \in Seq(T)
        /\ Len(back) = IF k + 1 <= Len(s) THEN Len(s) - (k + 1) + 1 ELSE 0
        /\ \A i \in 1 .. Len(s) - (k + 1) + 1 : back[i] = s[(k + 1) + i - 1]
    BY <2>1, SubSeqProperties
  <2>3. Len(back) = Len(s) - k
    BY <2>2
  <2>4. \A i \in 1 .. Len(s) - k : back[i] = s[k + i]
    <3>1. ASSUME NEW i \in 1 .. Len(s) - k PROVE back[i] = s[k + i]
      <4>1. i \in 1 .. Len(s) - (k + 1) + 1 /\ (k + 1) + i - 1 = k + i
        OBVIOUS
      <4> HIDE DEF back
      <4> QED
        BY <2>2, <4>1
    <3> QED
      BY <3>1
  <2> QED
    BY <2>2, <2>3, <2>4
<1> HIDE DEF front, back
<1>4. /\ front \o back \in Seq(T) /\ Len(front \o back) = Len(s) - 1
      /\ \A i \in 1 .. Len(s) - 1 :
           (front \o back)[i] = IF i <= k - 1 THEN front[i] ELSE back[i - (k - 1)]
  <2>1. front \in Seq(T) /\ back \in Seq(T)
    BY <1>2, <1>3
  <2>2. /\ front \o back \in Seq(T) /\ Len(front \o back) = Len(front) + Len(back)
        /\ \A i \in 1 .. Len(front) + Len(back) :
             (front \o back)[i] = IF i <= Len(front) THEN front[i] ELSE back[i - Len(front)]
    BY <2>1, ConcatProperties
  <2>3. Len(front) = k - 1 /\ Len(front) + Len(back) = Len(s) - 1
    BY <1>2, <1>3
  <2> QED
    BY <2>2, <2>3
<1>5. ASSUME NEW i \in 1 .. Len(s) - 1
      PROVE  (front \o back)[i] = IF i < k THEN s[i] ELSE s[i + 1]
  <2>1. CASE i < k
    <3>1. i <= k - 1 /\ i \in 1 .. k - 1
      BY <2>1
    <3> QED
      BY <1>2, <1>4, <2>1, <3>1
  <2>2. CASE ~(i < k)
    <3>1. ~(i <= k - 1) /\ i - (k - 1) \in 1 .. Len(s) - k /\ k + (i - (k - 1)) = i + 1
      BY <2>2
    <3>2. (front \o back)[i] = back[i - (k - 1)]
      BY <1>4, <3>1, Zenon
    <3>3. back[i - (k - 1)] = s[k + (i - (k - 1))]
      BY <1>3, <3>1, Zenon
    <3> QED
      BY <2>2, <3>1, <3>2, <3>3
  <2> QED
    BY <2>1, <2>2
<1> QED
  BY <1>1, <1>4, <1>5

LEMMA JoinedCover ==
  ASSUME NEW rs \in Seq(Pair), NEW n \in Nat \ {0}, n < Len(rs),
         Rng!Touch(rs[n], rs[n + 1])
  PROVE  Rng!Joined(rs, n) \in Seq(Pair) /\ Rng!Cover(Rng!Joined(rs, n)) = Rng!Cover(rs)
<1> DEFINE c == Rng!Join(rs[n], rs[n + 1])
           one == [rs EXCEPT ![n] = c]
           js == Rng!Joined(rs, n)
<1>1. rs[n] \in Pair /\ rs[n + 1] \in Pair
  OBVIOUS
<1>2. c \in Pair /\ Octets(c) = Octets(rs[n]) \cup Octets(rs[n + 1])
  BY <1>1, JoinOctets
<1>3. js = Rng!RemoveAt(one, n + 1)
  BY Zenon DEF Rng!Joined
<1> HIDE DEF c
<1>4. one \in Seq(Pair) /\ Len(one) = Len(rs)
  BY <1>2, ExceptSeq
<1>5. \A i \in 1 .. Len(rs) : one[i] = IF i = n THEN c ELSE rs[i]
  BY <1>2
<1> HIDE DEF one, js
<1>6. n + 1 \in 1 .. Len(one)
  BY <1>4
<1>7. /\ Rng!RemoveAt(one, n + 1) \in Seq(Pair)
      /\ Len(Rng!RemoveAt(one, n + 1)) = Len(one) - 1
      /\ \A i \in 1 .. Len(one) - 1 :
           Rng!RemoveAt(one, n + 1)[i] = IF i < n + 1 THEN one[i] ELSE one[i + 1]
  BY <1>4, <1>6, RemoveAtSeq
<1>8. /\ js \in Seq(Pair) /\ Len(js) = Len(rs) - 1
      /\ \A i \in 1 .. Len(js) : js[i] = IF i < n + 1 THEN one[i] ELSE one[i + 1]
  BY <1>3, <1>4, <1>7
<1>9. ASSUME NEW i \in 1 .. Len(js)
      PROVE  js[i] = IF i < n THEN rs[i] ELSE IF i = n THEN c ELSE rs[i + 1]
  <2>1. i \in 1 .. Len(rs) /\ i + 1 \in 1 .. Len(rs)
    BY <1>8
  <2>2. CASE i < n + 1
    BY <1>5, <1>8, <2>1, <2>2
  <2>3. CASE ~(i < n + 1)
    BY <1>5, <1>8, <2>1, <2>3
  <2> QED
    BY <2>2, <2>3
<1>10. ASSUME NEW x PROVE x \in Rng!Cover(js) <=> x \in Rng!Cover(rs)
  <2>1. ASSUME NEW i \in 1 .. Len(js), x \in Octets(js[i])
        PROVE  \E j \in 1 .. Len(rs) : x \in Octets(rs[j])
    BY <1>2, <1>8, <1>9, <2>1
  <2>2. ASSUME NEW j \in 1 .. Len(rs), x \in Octets(rs[j])
        PROVE  \E i \in 1 .. Len(js) : x \in Octets(js[i])
    <3>1. CASE j < n
      <4>1. j \in 1 .. Len(js) /\ js[j] = rs[j]
        BY <1>8, <1>9, <3>1
      <4> QED
        BY <2>2, <4>1
    <3>2. CASE j = n \/ j = n + 1
      <4>1. x \in Octets(c) /\ n \in 1 .. Len(js) /\ js[n] = c
        BY <1>2, <1>8, <1>9, <2>2, <3>2
      <4> QED
        BY <4>1
    <3>3. CASE j > n + 1
      <4>1. j - 1 \in 1 .. Len(js) /\ js[j - 1] = rs[j]
        BY <1>8, <1>9, <3>3
      <4> QED
        BY <2>2, <4>1
    <3> QED
      BY <3>1, <3>2, <3>3
  <2> QED
    BY <1>8, <2>1, <2>2, CoverMember
<1> QED
  BY <1>8, <1>10 DEF js

\* The ranges are those of the header, unless it or an If-Range made them none.
AskedFor == Rng!Cover(ranges) = Rng!Cover(Rng!Parsed(req.specs, size))

RangeShapes ==
  /\ size \in Nat /\ ranges \in Seq(Pair) /\ req.specs \in Seq(Rng!Position \X Rng!Position)
  /\ stage = "merge" => nth \in Nat \ {0}

RangeStages == {"merge", "condition", "answer"}

RangesKept == stage \in RangeStages => ranges = <<>> \/ AskedFor

RangeInv == RangeShapes /\ RangesKept /\ RangeServed

\* A request that is not being served a file.
LEMMA NoRangesKeep ==
  ASSUME size' \in Nat, ranges' \in Seq(Pair),
         (req.specs)' \in Seq(Rng!Position \X Rng!Position),
         stage' \notin RangeStages, stage' = "body" => (target.script)' # "no"
  PROVE  RangeInv'
BY DEF RangeInv, RangeShapes, RangesKept, RangeServed, RangeStages

\* Errors, headers without a body, and the steps of other actors.
LEMMA EndsKeepRanges ==
  ASSUME RangeInv, UNCHANGED route, stage' \in {"exit", "idle"}
  PROVE  RangeInv'
BY NoRangesKeep DEF route, RangeInv, RangeShapes, RangeStages

LEMMA ErrorKeepsRanges ==
  ASSUME RangeInv, NEW status, SendErrorRespons(status)
  PROVE  RangeInv'
BY EndsKeepRanges DEF SendErrorRespons, Goto

LEMMA RouteKeepsRanges ==
  ASSUME RequestInv, RangeInv, StartAction \/ Route
  PROVE  RangeInv'
<1> USE DEF RangeInv, RangeShapes, Goto
<1>1. CASE StartAction
  <2>1. /\ size' = 0 /\ ranges' = <<>> /\ stage' = "version"
        /\ \E m, v : req' = [NoRequest EXCEPT !.method = m, !.minor = v]
    BY <1>1 DEF StartAction
  <2>2. (req.specs)' = <<>>
    BY <2>1 DEF NoRequest
  <2>3. size' \in Nat /\ ranges' \in Seq(Pair)
        /\ (req.specs)' \in Seq(Rng!Position \X Rng!Position)
    BY <2>1, <2>2, EmptySeq
  <2> QED
    BY <2>1, <2>2, <2>3, NoRangesKeep DEF RangeStages
<1>2. CASE DecodePath \/ Rewritten
  <2>1. size' = size /\ ranges' = ranges /\ stage' \in {"path", "forbidden"}
    BY <1>2 DEF DecodePath, Rewritten
  <2>2. \E p, i : req' = [req EXCEPT !.path = p, !.item = i]
    BY <1>2, Zenon DEF DecodePath, Rewritten
  <2>3. (req.specs)' = req.specs
    BY <2>2 DEF RequestInv, AnswerInv, ReqShapes
  <2> QED
    BY <2>1, <2>3, NoRangesKeep DEF RangeStages
<1>3. CASE Version \/ NotForbidden \/ AuthNotNeeded \/ Authenticated \/ Alias
  <2>1. /\ size' = size /\ ranges' = ranges /\ req' = req
        /\ stage' \in {"method", "auth", "alias", "stat"}
    BY <1>3 DEF Version, NotForbidden, AuthNotNeeded, Authenticated, Alias, route
  <2> QED
    BY <2>1, NoRangesKeep DEF RangeStages
<1>4. CASE Found
  <2>1. size' \in Nat /\ ranges' = ranges /\ req' = req /\ stage' \in {"script", "range"}
    BY <1>4, RequestAssumption DEF Found
  <2> QED
    BY <2>1, NoRangesKeep DEF RangeStages
<1>5. CASE BadRequest \/ BadPath \/ Forbidden \/ NotFound
  BY <1>5, ErrorKeepsRanges DEF BadRequest, BadPath, Forbidden, NotFound
<1>6. CASE Redirect \/ Unauthorized \/ MovedToProxy \/ MovedToDirectory
  BY <1>6, EndsKeepRanges DEF Redirect, Unauthorized, MovedToProxy, MovedToDirectory
<1> QED
  BY <1>1, <1>2, <1>3, <1>4, <1>5, <1>6 DEF Route

LEMMA RangeStagesKeep ==
  ASSUME RequestInv, RangeInv,
         EvaluateRange \/ MergeRanges \/ RangesMerged \/ Modified
  PROVE  RangeInv'
<1> USE DEF RangeInv, RangeShapes, Goto
<1>1. CASE EvaluateRange
  <2>1. PICK specs \in RangeSpecs :
          /\ req' = [req EXCEPT !.specs = specs]
          /\ ranges' \in Rng!Sorted(Rng!Parsed(specs, size)) \cup {<<>>}
    BY <1>1 DEF EvaluateRange
  <2>2. size' = size /\ nth' = 1 /\ stage' = "merge"
    BY <1>1 DEF EvaluateRange
  <2>3. (req.specs)' = specs
    BY <2>1 DEF RequestInv, AnswerInv, ReqShapes
  <2>4. specs \in Seq(Rng!Position \X Rng!Position)
    BY RequestAssumption
  <2>5. /\ ranges' \in Seq(Pair)
        /\ ranges' = <<>> \/ Rng!Cover(ranges') = Rng!Cover(Rng!Parsed(specs, size))
    BY <2>1, <2>4, ParsedPairs, SortedCover, EmptySeq
  <2>6. RangeShapes'
    BY <2>2, <2>3, <2>4, <2>5
  <2>7. ranges' = <<>> \/ AskedFor'
    BY <2>2, <2>3, <2>5 DEF AskedFor
  <2> QED
    BY <2>2, <2>6, <2>7 DEF RangesKept, RangeServed, RangeStages
<1>2. CASE MergeRanges
  <2>1. /\ stage = "merge" /\ stage' = "merge" /\ req' = req /\ size' = size
        /\ nth < Len(ranges) /\ nth' \in Nat \ {0}
    BY <1>2 DEF MergeRanges
  <2>2. AskedFor
    BY <2>1 DEF RangesKept, RangeStages
  <2>3. ranges' \in Seq(Pair) /\ Rng!Cover(ranges') = Rng!Cover(ranges)
    <3>1. CASE Rng!Touch(ranges[nth], ranges[nth + 1])
      <4>1. ranges' = Rng!Joined(ranges, nth)
        BY <1>2, <3>1, Zenon DEF MergeRanges
      <4> QED
        BY <2>1, <3>1, <4>1, JoinedCover
    <3>2. CASE ~Rng!Touch(ranges[nth], ranges[nth + 1])
      BY <1>2, <3>2 DEF MergeRanges
    <3> QED
      BY <3>1, <3>2
  <2> QED
    BY <2>1, <2>2, <2>3 DEF AskedFor, RangesKept, RangeServed, RangeStages
<1>3. CASE RangesMerged
  BY <1>3 DEF RangesMerged, RangesKept, AskedFor, RangeServed, RangeStages
<1>4. CASE Modified
  <2>1. /\ stage = "condition" /\ stage' = "answer" /\ req' = req /\ size' = size
        /\ ranges' = <<>> \/ ranges' = ranges
    BY <1>4 DEF Modified
  <2>2. ranges = <<>> \/ AskedFor
    BY <2>1 DEF RangesKept, RangeStages
  <2>3. ranges' = <<>> \/ AskedFor'
    BY <2>1, <2>2 DEF AskedFor
  <2>4. ranges' \in Seq(Pair)
    BY <2>1, EmptySeq
  <2> QED
    BY <2>1, <2>3, <2>4 DEF RangesKept, RangeServed, RangeStages
<1> QED
  BY <1>1, <1>2, <1>3, <1>4

\* What is served lies within the file, and is what was asked for when the answer
\* says so.
LEMMA SendFileKeepsRanges ==
  ASSUME RequestInv, RangeInv, SendFile
  PROVE  RangeInv'
<1> DEFINE r == Rng!Served(ranges, size)
           status == IF Rng!Servable(ranges, size) THEN 206 ELSE 200
<1>1. /\ stage = "answer" /\ stage' = "body" /\ req' = req /\ size' = size
      /\ ranges' = <<r>>
  BY DEF SendFile, Goto
<1>2. size \in Nat /\ ranges \in Seq(Pair)
  BY DEF RangeInv, RangeShapes
<1>3. r \in Pair /\ r[2] <= size
  <2>1. CASE Len(ranges) = 1 /\ ranges[1][2] <= size /\ r = ranges[1]
    BY <1>2, <2>1 DEF Pair
  <2>2. CASE r = <<0, size>>
    BY <1>2, <2>2 DEF Pair
  <2> QED
    BY <2>1, <2>2, Zenon DEF Rng!Served, Rng!Servable
<1>4. (head.status)' = 206 => Len(ranges) = 1 /\ r = ranges[1]
  <2>1. head = NoHead
    BY <1>1 DEF RequestInv, AnswerInv, NothingYet, Working, Allowed
  <2>2. PICK packed \in BOOLEAN :
          HeadUnlessReset(status, IF packed THEN -1 ELSE Length(r[2] - r[1], FALSE),
                          packed /\ vers < 2, closing)
    BY DEF SendFile
  <2>5. status = 206 => Len(ranges) = 1 /\ r = ranges[1]
    BY DEF Rng!Served, Rng!Servable
  <2> HIDE DEF r, status
  <2>3. head' = head \/ (head.status)' = status
    <3>1. head' = head \/ \E l, c, e : head' = [status |-> status, length |-> l, chunked |-> c,
                                             close |-> e]
      BY <2>2, Zenon DEF HeadUnlessReset, WriteHead
    <3> QED
      BY <3>1
  <2>4. head' = head => (head.status)' = 0
    BY <2>1 DEF NoHead
  <2> QED
    BY <2>3, <2>4, <2>5
<1> HIDE DEF r
<1>5. <<r>> \in Seq(Pair) /\ Len(<<r>>) = 1 /\ <<r>>[1] = r
  BY <1>3
<1>6. Rng!Cover(<<r>>) \subseteq 0 .. size - 1
  <2>1. r[1] \in Nat /\ r[2] \in Nat
    BY <1>3 DEF Pair
  <2>2. \A x \in Octets(r) : x \in 0 .. size - 1
    BY <1>2, <1>3, <2>1 DEF Octets
  <2>3. ASSUME NEW x \in Rng!Cover(<<r>>) PROVE x \in Octets(r)
    <3>1. PICK i \in 1 .. Len(<<r>>) : x \in Octets(<<r>>[i])
      BY <1>5, CoverMember
    <3>2. i = 1
      BY <1>5, <3>1
    <3> QED
      BY <1>5, <3>1, <3>2
  <2> QED
    BY <2>2, <2>3
<1>7. Len(ranges) = 1 /\ r = ranges[1] => <<r>> = ranges
  BY <1>2
<1>8. (head.status)' = 206 => AskedFor'
  <2> SUFFICES ASSUME (head.status)' = 206 PROVE AskedFor'
    OBVIOUS
  <2>1. <<r>> = ranges
    BY <1>4, <1>7
  <2>3. ranges # <<>>
    BY <1>5, <2>1
  <2>2. AskedFor
    BY <1>1, <2>3 DEF RangeInv, RangesKept, RangeStages
  <2> QED
    BY <1>1, <2>1, <2>2 DEF AskedFor
<1> QED
  BY <1>1, <1>2, <1>5, <1>6, <1>8 DEF RangeInv, RangeShapes, RangesKept, RangeServed, AskedFor,
         RangeStages

LEMMA ServeKeepsRanges ==
  ASSUME RequestInv, RangeInv, Serve
  PROVE  RangeInv'
<1>1. CASE RefuseRanges \/ Star \/ NotAllowed \/ OpenFails
  BY <1>1, ErrorKeepsRanges DEF RefuseRanges, Star, NotAllowed, OpenFails
<1>2. CASE \/ ScriptError \/ NoAnswer \/ ScriptBody \/ ScriptAborted \/ NotModified
           \/ Options \/ HeadMethod \/ FileBody
  BY <1>2, EndsKeepRanges
     DEF ScriptError, NoAnswer, ScriptBody, ScriptAborted, NotModified, Options, HeadMethod,
         FileBody, Goto
<1>3. CASE StartScript
  BY <1>3, NoRangesKeep DEF StartScript, Goto, RangeInv, RangeShapes, RangeStages
<1>4. CASE ScriptHeader
  <2>1. stage = "output" /\ stage' = "body" /\ UNCHANGED <<req, size, ranges, target>>
    BY <1>4 DEF ScriptHeader, Goto, route
  <2>2. target.script # "no"
    BY <2>1 DEF RequestInv, AnswerInv, NothingYet, Working, Allowed
  <2> QED
    BY <2>1, <2>2, NoRangesKeep DEF RangeInv, RangeShapes, RangeStages
<1> QED
  BY <1>1, <1>2, <1>3, <1>4, RangeStagesKeep, SendFileKeepsRanges DEF Serve

LEMMA StepRanges ==
  ASSUME RequestInv, RangeInv, [RequestNext]_requestVars
  PROVE  RangeInv'
<1>1. CASE Exit
  BY <1>1, EndsKeepRanges DEF Exit, Goto
<1>2. CASE RstStream \/ StopConnection \/ UNCHANGED requestVars
  BY <1>2
     DEF RstStream, StopConnection, requestVars, route, answer, RangeInv, RangeShapes,
         RangesKept, RangeStages, AskedFor, RangeServed
<1> QED
  BY <1>1, <1>2, RouteKeepsRanges, ServeKeepsRanges DEF RequestNext, DoAction

\* However many ranges a request names, in any order and overlapping in any way,
\* what it is sent lies in the file, and is exactly what it named when the answer
\* is 206.
THEOREM RangesAreServed == RequestSpec => []RangeServed
<1>1. RequestInit => RangeInv
  BY EmptySeq
     DEF RequestInit, NoRequest, RangeInv, RangeShapes, RangesKept, RangeStages, RangeServed
<1>2. RequestInv /\ RangeInv /\ [RequestNext]_requestVars => RequestInv' /\ RangeInv'
  BY StepRequest, StepRanges
<1>3. RangeInv => RangeServed
  BY DEF RangeInv
<1> QED
  BY <1>1, <1>2, <1>3, InitRequest, PTL DEF RequestSpec

-----------------------------------------------------------------------------
(* Paths: the loop over the octets of a path gives what a client encoded. *)

\* The order of the natural numbers, as a relation.
LessThan == {ss \in Nat \X Nat : ss[1] < ss[2]}

\* What 0 is in, and with each number the next, every number is in.
LEMMA CountUp ==
  ASSUME NEW P, 0 \in P, \A i \in Nat : i \in P => i + 1 \in P
  PROVE  Nat \subseteq P
<1> DEFINE T == Nat \ P
<1> SUFFICES ASSUME T # {} PROVE FALSE
  OBVIOUS
<1>1. IsWellFoundedOn(LessThan, Nat)
  <2>1. LessThan = OpToRel(<, Nat)
    BY DEF LessThan, OpToRel
  <2> QED
    BY <2>1, NatLessThanWellFounded
<1>2. PICK m \in T : \A x \in Nat : x \in T => ~(x < m)
  <2>1. T \subseteq Nat
    OBVIOUS
  <2> HIDE DEF T
  <2>2. PICK m \in T : \A x \in Nat : <<x, m>> \in LessThan => x \notin T
    BY <1>1, <2>1, WFMin
  <2> QED
    BY <2>1, <2>2 DEF LessThan
<1>3. m # 0 /\ m - 1 \in Nat
  BY <1>2
<1>4. m - 1 \in P
  BY <1>2, <1>3
<1>5. (m - 1) + 1 \in P
  BY <1>3, <1>4
<1> QED
  BY <1>2, <1>5

\* The states of the loop over the first, the first two and so on to the first n
\* tokens: what FoldLeft computes, by sets of places.
Folded(f, s, n) ==
  f = [S \in SUBSET (1 .. n) |-> IF S = {} THEN Url!Start
                                 ELSE Url!DecodeToken(f[S \ {Url!Max(S)}], s[Url!Max(S)])]

\* Of the first n places the last is the largest.
LEMMA LastPlace ==
  ASSUME NEW n \in Nat, NEW S \in SUBSET (1 .. n), n \in S
  PROVE  Url!Max(S) = n
<1>1. \A y \in S : n >= y
  OBVIOUS
<1>2. \A x \in S : (\A y \in S : x >= y) => x = n
  OBVIOUS
<1> QED
  BY <1>1, <1>2 DEF Url!Max

\* There is such a function, so that CHOOSE finds it.
LEMMA FoldedExists ==
  ASSUME NEW s, NEW n \in Nat
  PROVE  \E f : Folded(f, s, n)
<1> DEFINE P == {i \in Nat : \E f : Folded(f, s, i)}
<1>1. 0 \in P
  <2> DEFINE f == [S \in SUBSET (1 .. 0) |-> Url!Start]
  <2>1. SUBSET (1 .. 0) = {{}}
    OBVIOUS
  <2>2. f = [S \in SUBSET (1 .. 0) |-> IF S = {} THEN Url!Start
                                 ELSE Url!DecodeToken(f[S \ {Url!Max(S)}], s[Url!Max(S)])]
    BY <2>1
  <2>3. Folded(f, s, 0)
    BY <2>2 DEF Folded
  <2> QED
    BY <2>3
<1>2. ASSUME NEW i \in Nat, i \in P PROVE i + 1 \in P
  <2>1. PICK f : Folded(f, s, i)
    BY <1>2
  <2> DEFINE g == [S \in SUBSET (1 .. i + 1) |->
                     IF i + 1 \in S THEN Url!DecodeToken(f[S \ {i + 1}], s[i + 1]) ELSE f[S]]
  <2>2. ASSUME NEW S \in SUBSET (1 .. i + 1)
        PROVE  g[S] = IF S = {} THEN Url!Start
                      ELSE Url!DecodeToken(g[S \ {Url!Max(S)}], s[Url!Max(S)])
    <3>1. CASE i + 1 \in S
      <4>1. Url!Max(S) = i + 1
        BY <3>1, LastPlace
      <4>2. g[S \ {i + 1}] = f[S \ {i + 1}]
        OBVIOUS
      <4>3. g[S] = Url!DecodeToken(f[S \ {i + 1}], s[i + 1])
        BY <3>1
      <4> HIDE DEF g
      <4> QED
        BY <3>1, <4>1, <4>2, <4>3
    <3>2. CASE i + 1 \notin S
      <4> DEFINE R == S \ {Url!Max(S)}
      <4>0. S \in SUBSET (1 .. i) /\ R \subseteq S
        BY <3>2
      <4>2. g[S] = f[S]
        BY <3>2
      <4> HIDE DEF R
      <4>1. S \in SUBSET (1 .. i) /\ R \in SUBSET (1 .. i) /\ i + 1 \notin R /\ R \in SUBSET (1 .. i + 1)
        BY <3>2, <4>0
      <4>3. g[R] = f[R]
        BY <4>1
      <4> HIDE DEF g
      <4>4. f[S] = IF S = {} THEN Url!Start ELSE Url!DecodeToken(f[R], s[Url!Max(S)])
        BY <2>1, <4>1 DEF Folded, R
      <4> QED
        BY <4>2, <4>3, <4>4 DEF R
    <3> QED
      BY <3>1, <3>2
  <2>3. g = [S \in SUBSET (1 .. i + 1) |-> g[S]]
    OBVIOUS
  <2> HIDE DEF g
  <2>4. Folded(g, s, i + 1)
    BY <2>2, <2>3 DEF Folded
  <2> QED
    BY <2>4
<1> HIDE DEF P
<1>3. n \in P
  BY <1>1, <1>2, CountUp
<1> QED
  BY <1>3 DEF P

\* g has the state of the loop after each number of tokens.
States(g, s) ==
  /\ g[0] = Url!Start
  /\ \A k \in 0 .. Len(s) - 1 : g[k + 1] = Url!DecodeToken(g[k], s[k + 1])

\* The loop over s goes through such states, and ends in the last of them.
LEMMA DecodeStates ==
  ASSUME NEW T, NEW s \in Seq(T)
  PROVE  \E g : States(g, s) /\ Url!Decode(s) = g[Len(s)]
<1> DEFINE n == Len(s)
<1>1. DOMAIN s = 1 .. n /\ n \in Nat
  OBVIOUS
<1>2. Url!Decode(s) = (CHOOSE f : f = [S \in SUBSET DOMAIN s |->
                         IF S = {} THEN Url!Start
                         ELSE LET x == Url!Max(S) IN Url!DecodeToken(f[S \ {x}], s[x])])[DOMAIN s]
  BY DEF Url!Decode, Url!FoldLeft, Url!MapThenFoldSet
<1> HIDE DEF n
<1>3. Url!Decode(s) = (CHOOSE f : Folded(f, s, n))[1 .. n]
  BY <1>1, <1>2 DEF Folded
<1>4. PICK f : Folded(f, s, n) /\ Url!Decode(s) = f[1 .. n]
  BY <1>1, <1>3, FoldedExists
<1> DEFINE g == [k \in 0 .. n |-> f[1 .. k]]
<1>5. g[0] = Url!Start
  <2>1. 1 .. 0 = {}
    OBVIOUS
  <2> QED
    BY <1>1, <1>4, <2>1 DEF Folded
<1>6. ASSUME NEW k \in 0 .. n - 1 PROVE g[k + 1] = Url!DecodeToken(g[k], s[k + 1])
  <2>1. /\ k + 1 \in Nat /\ 1 .. k + 1 \in SUBSET (1 .. n) /\ k + 1 \in 1 .. k + 1 /\ k \in 0 .. n
        /\ k + 1 \in 0 .. n
    BY <1>1
  <2>2. Url!Max(1 .. k + 1) = k + 1
    BY <2>1, LastPlace
  <2>3. (1 .. k + 1) \ {k + 1} = 1 .. k
    BY <2>1
  <2>4. f[1 .. k + 1] = Url!DecodeToken(f[1 .. k], s[k + 1])
    BY <1>4, <2>1, <2>2, <2>3 DEF Folded
  <2> QED
    BY <2>1, <2>4
<1>7. g[n] = f[1 .. n]
  BY <1>1
<1> HIDE DEF g
<1> QED
  BY <1>4, <1>5, <1>6, <1>7 DEF States, n

\* What comes behind is decoded from the state before it.
LEMMA DecodeNext ==
  ASSUME NEW T, NEW s \in Seq(T), NEW x \in T
  PROVE  Url!Decode(Append(s, x)) = Url!DecodeToken(Url!Decode(s), x)
<1> DEFINE n == Len(s)
           u == Append(s, x)
<1>1. /\ n \in Nat /\ u \in Seq(T) /\ Len(u) = n + 1 /\ u[n + 1] = x
      /\ \A k \in 1 .. n : u[k] = s[k]
  OBVIOUS
<1> HIDE DEF n, u
<1>2. PICK g : States(g, s) /\ Url!Decode(s) = g[n]
  BY DecodeStates DEF n
<1>3. PICK h : States(h, u) /\ Url!Decode(u) = h[n + 1]
  BY <1>1, DecodeStates
<1> DEFINE P == {i \in Nat : i <= n => h[i] = g[i]}
<1>4. 0 \in P
  BY <1>2, <1>3 DEF States
<1>5. ASSUME NEW i \in Nat, i \in P PROVE i + 1 \in P
  <2>1. CASE i + 1 <= n
    <3>1. i \in 0 .. n - 1 /\ i \in 0 .. (n + 1) - 1 /\ i + 1 \in 1 .. n
      BY <1>1, <2>1
    <3>2. g[i + 1] = Url!DecodeToken(g[i], s[i + 1])
      BY <1>2, <3>1 DEF States, n
    <3>3. h[i + 1] = Url!DecodeToken(h[i], u[i + 1])
      BY <1>1, <1>3, <3>1 DEF States
    <3>4. h[i] = g[i]
      BY <1>5, <2>1, <1>1
    <3> QED
      BY <1>1, <3>1, <3>2, <3>3, <3>4
  <2> QED
    BY <1>1, <2>1
<1>6. n \in P
  <2> HIDE DEF P
  <2> QED
    BY <1>1, <1>4, <1>5, CountUp
<1>7. h[n + 1] = Url!DecodeToken(h[n], u[n + 1])
  <2>1. n \in 0 .. Len(u) - 1
    BY <1>1
  <2> QED
    BY <1>3, <2>1 DEF States
<1> QED
  BY <1>1, <1>2, <1>3, <1>6, <1>7 DEF u

-----------------------------------------------------------------------------

\* Characters whose lead octet DoAction does not skip: not 0x7F, nor what begins with
\* 0xE0 or has four octets.
\* They have one, two or three octets.
Single == 32 .. 126
Double == 128 .. 2047
Triple == {c \in Nat : 4096 <= c /\ c < 65536}
Kept == Single \cup Double \cup Triple
Token == [kind : {"char", "escape", "broken", "query"}, code : Nat]

\* What the loop keeps in strItemPath, wch and the missing octets.
Reading == [path : Seq(Nat), wch : Nat, parts : Nat, left : {"no", "query", "bad request"}]

\* Between two characters, what was read so far is path.
Between(st, path) == st \in Reading /\ st.path = path /\ st.parts = 0 /\ st.left = "no"

\* An escape is an octet.
LEMMA OctetRead ==
  ASSUME NEW st, st.left = "no", NEW b
  PROVE  Url!DecodeToken(st, Url!Escape(b)) = Url!EscapeByte(st, b)
<1>1. Url!Escape(b).kind = "escape" /\ Url!Escape(b).code = b
  BY DEF Url!Escape
<1> HIDE DEF Url!Escape
<1> QED
  BY <1>1 DEF Url!DecodeToken

\* The lead octet of two and of three and the octets behind it, and what each gives.
LeadOfTwo == 193 .. 223
LeadOfThree == 225 .. 239
Later == 128 .. 191
BitsOfTwo(b) == (b % 32) * 64
BitsOfThree(b) == (b % 16) * 4096
MiddleBits(b) == (b % 64) * 64
LastBits(b) == b % 64

\* n octets are missing, and w is what the others gave.
Waiting(st, w, n) == [st EXCEPT !.wch = w, !.parts = n]

\* An octet is a character, a lead octet or one behind it.
LEMMA PlainOctet ==
  ASSUME NEW st, NEW b \in Single
  PROVE  Url!EscapeByte(st, b) = Url!Put(st, b)
<1> HIDE DEF Url!Put
<1> QED
  BY DEF Url!EscapeByte, Single

\* An octet behind the lead is one of several.
LEMMA LaterOctet ==
  ASSUME NEW st, NEW b \in Later
  PROVE  Url!EscapeByte(st, b) = Url!Continuation(st, b)
<1> HIDE DEF Url!Put, Url!Continuation
<1> QED
  BY DEF Url!EscapeByte, Later

\* The lead of two octets starts a character, as does that of three.
LEMMA LeadOfTwoKind ==
  ASSUME NEW st, NEW b \in LeadOfTwo
  PROVE  Url!EscapeByte(st, b) = Waiting(st, BitsOfTwo(b), 1)
<1> HIDE DEF Url!Put, Url!Continuation
<1> QED
  BY DEF Url!EscapeByte, Waiting, LeadOfTwo, BitsOfTwo

\* Of three, two octets are missing.
LEMMA LeadOfThreeKind ==
  ASSUME NEW st, NEW b \in LeadOfThree
  PROVE  Url!EscapeByte(st, b) = Waiting(st, BitsOfThree(b), 2)
<1> HIDE DEF Url!Put, Url!Continuation
<1> QED
  BY DEF Url!EscapeByte, Waiting, LeadOfThree, BitsOfThree

\* Nothing of what was read before is lost.
LEMMA WaitingRead ==
  ASSUME NEW st \in Reading, NEW w \in Nat, NEW n \in Nat
  PROVE  /\ Waiting(st, w, n) \in Reading
         /\ Waiting(st, w, n).path = st.path /\ Waiting(st, w, n).parts = n
         /\ Waiting(st, w, n).wch = w /\ Waiting(st, w, n).left = st.left
BY DEF Reading, Waiting

\* A whole character is put behind those read before.
LEMMA PutRead ==
  ASSUME NEW path \in Seq(Nat), NEW st \in Reading, st.path = path, st.parts = 0, st.left = "no",
         NEW c \in Nat
  PROVE  Between(Url!Put(st, c), Append(path, c))
<1> DEFINE p == Append(path, c)
<1>1. p \in Seq(Nat)
  OBVIOUS
<1> HIDE DEF p
<1>2. [st EXCEPT !.path = p] \in Reading
  BY <1>1 DEF Reading
<1>3. LET e == [st EXCEPT !.path = p] IN e.path = p /\ e.parts = st.parts /\ e.left = st.left
  BY DEF Reading
<1> QED
  BY <1>2, <1>3 DEF Between, Url!Put, p

\* The octets behind the lead.
LEMMA ContinuationRead ==
  ASSUME NEW st \in Reading, NEW b \in Nat
  PROVE  LET w == st.wch + (IF st.parts = 2 THEN MiddleBits(b) ELSE LastBits(b))
             next == Waiting(st, w, st.parts - 1) IN
         Url!Continuation(st, b) = IF st.parts = 1 THEN Url!Put(next, w) ELSE next
<1> DEFINE w == st.wch + (IF st.parts = 2 THEN MiddleBits(b) ELSE LastBits(b))
           next == [st EXCEPT !.wch = w, !.parts = st.parts - 1]
<1>1. st.parts \in Nat
  BY DEF Reading
<1>2. Url!Continuation(st, b) = IF next.parts = 0 THEN Url!Put(next, w) ELSE next
  BY DEF Url!Continuation, MiddleBits, LastBits
<1>3. next = Waiting(st, w, st.parts - 1)
  BY DEF Waiting
<1> HIDE DEF w
<1>4. next.parts = st.parts - 1
  BY DEF Reading
<1> HIDE DEF next
<1> QED
  BY <1>1, <1>2, <1>3, <1>4 DEF w

\* What a client writes for a character, by its size, and the bits in it.
SecondOctet(c) == 128 + ((c \div 64) % 64)
LastOctet(c) == 128 + (c % 64)
LeadOctetOfTwo(c) == 192 + (c \div 64)
LeadOctetOfThree(c) == 224 + (c \div 4096)

\* A character is a number.
LEMMA KeptAreNumbers == Kept \subseteq Nat
<1>1. Single \subseteq Nat
  BY DEF Single
<1>2. Double \subseteq Nat
  BY DEF Double
<1>3. Triple \subseteq Nat
  BY DEF Triple
<1> QED
  BY <1>1, <1>2, <1>3 DEF Kept

\* The octets a client writes for a character of one, two and three.
LEMMA OneOctet ==
  ASSUME NEW c \in Nat, c \in Single
  PROVE  Url!Utf8(c) = <<Url!Escape(c)>>
<1>1. c < 128
  BY DEF Single
<1> QED
  BY <1>1 DEF Url!Utf8

LEMMA WrittenAsTwo ==
  ASSUME NEW c \in Nat, c \in Double
  PROVE  Url!Utf8(c) = <<Url!Escape(192 + (c \div 64)), Url!Escape(128 + (c % 64))>>
<1> DEFINE two == <<Url!Escape(192 + (c \div 64)), Url!Escape(128 + (c % 64))>>
           three == <<Url!Escape(224 + (c \div 4096)), Url!Escape(128 + ((c \div 64) % 64)),
                      Url!Escape(128 + (c % 64))>>
<1>1. Url!Utf8(c) = CASE c < 128 -> <<Url!Escape(c)>> [] c \in Double -> two [] c > 2047 -> three
  BY DEF Url!Utf8, Double
<1>2. ~(c < 128) /\ ~(c > 2047)
  BY DEF Double
<1> HIDE DEF two, three
<1>3. Url!Utf8(c) = two
  BY <1>1, <1>2
<1> QED
  BY <1>3 DEF two

LEMMA WrittenAsThree ==
  ASSUME NEW c \in Nat, c \in Triple
  PROVE  Url!Utf8(c) = <<Url!Escape(224 + (c \div 4096)), Url!Escape(128 + ((c \div 64) % 64)),
                         Url!Escape(128 + (c % 64))>>
<1> DEFINE two == <<Url!Escape(192 + (c \div 64)), Url!Escape(128 + (c % 64))>>
           three == <<Url!Escape(224 + (c \div 4096)), Url!Escape(128 + ((c \div 64) % 64)),
                      Url!Escape(128 + (c % 64))>>
<1>1. Url!Utf8(c) = CASE c < 128 -> <<Url!Escape(c)>> [] c \in Double -> two [] c > 2047 -> three
  BY DEF Url!Utf8, Double
<1>2. c > 2047 /\ ~(c < 128)
  BY DEF Triple
<1>3. ~(c \in Double)
  BY <1>2 DEF Double
<1> HIDE DEF two, three
<1>4. Url!Utf8(c) = three
  BY <1>1, <1>2, <1>3
<1> QED
  BY <1>4 DEF three

\* The number of a character of two octets, put together from them.
LEMMA TwoBits ==
  ASSUME NEW c \in Double
  PROVE  LET a == 192 + (c \div 64)
             b == 128 + (c % 64) IN
         a \in 193 .. 223 /\ b \in 128 .. 191 /\ (a % 32) * 64 + (b % 64) = c
BY DEF Double

\* The two octets of a character, which put together are its number.
LEMMA TwoOctets ==
  ASSUME NEW c \in Nat, c \in Double
  PROVE  /\ Url!Utf8(c) = <<Url!Escape(LeadOctetOfTwo(c)), Url!Escape(LastOctet(c))>>
         /\ LeadOctetOfTwo(c) \in LeadOfTwo /\ LastOctet(c) \in Later
         /\ BitsOfTwo(LeadOctetOfTwo(c)) + LastBits(LastOctet(c)) = c
<1> DEFINE a == 192 + (c \div 64)
           b == 128 + (c % 64)
<1>2. Url!Utf8(c) = <<Url!Escape(a), Url!Escape(b)>>
  BY WrittenAsTwo
<1>3. a \in 193 .. 223 /\ b \in 128 .. 191 /\ (a % 32) * 64 + (b % 64) = c
  BY TwoBits
<1>4. LeadOctetOfTwo(c) = a /\ LastOctet(c) = b
  BY DEF LeadOctetOfTwo, LastOctet
<1> HIDE DEF a, b
<1> QED
  BY <1>2, <1>3, <1>4 DEF LeadOfTwo, Later, BitsOfTwo, LastBits

\* The number of a character of three octets, in base 64.
Digits(c) ==
  /\ c \div 4096 \in 1 .. 15 /\ c \div 64 \in 64 .. 1023
  /\ (c \div 64) % 64 \in 0 .. 63 /\ c % 64 \in 0 .. 63
  /\ c = 64 * (c \div 64) + (c % 64)
  /\ c \div 64 = 64 * (c \div 4096) + ((c \div 64) % 64)

\* So it is for each of them.
LEMMA DigitsOf ==
  ASSUME NEW c \in Triple
  PROVE  Digits(c)
<1>1. c \div 4096 \in 1 .. 15
  BY DEF Triple
<1>2. c \div 64 \in 64 .. 1023 /\ c % 64 \in 0 .. 63 /\ c = 64 * (c \div 64) + (c % 64)
  BY DEF Triple
<1>3. (c \div 64) % 64 \in 0 .. 63
  BY DEF Triple
<1>4. c \div 64 = 64 * (c \div 4096) + ((c \div 64) % 64)
  BY DEF Triple
<1> QED
  BY <1>1, <1>2, <1>3, <1>4 DEF Digits

\* The three octets of a character, which put together are its number.
LEMMA ThreeOctets ==
  ASSUME NEW c \in Nat, c \in Triple
  PROVE  /\ Url!Utf8(c) = <<Url!Escape(LeadOctetOfThree(c)), Url!Escape(SecondOctet(c)),
                            Url!Escape(LastOctet(c))>>
         /\ LeadOctetOfThree(c) \in LeadOfThree /\ SecondOctet(c) \in Later /\ LastOctet(c) \in Later
         /\ BitsOfThree(LeadOctetOfThree(c)) + MiddleBits(SecondOctet(c)) + LastBits(LastOctet(c)) = c
<1> DEFINE u == c \div 4096
           x == c \div 64
           v == x % 64
           y == c % 64
           a == 224 + u
           b == 128 + v
           d == 128 + y
<1>0. Url!Utf8(c) = <<Url!Escape(a), Url!Escape(b), Url!Escape(d)>>
  BY WrittenAsThree
<1>1. /\ u \in 1 .. 15 /\ x \in 64 .. 1023 /\ v \in 0 .. 63 /\ y \in 0 .. 63
      /\ c = 64 * x + y /\ x = 64 * u + v
  <2>1. Digits(c)
    BY DigitsOf
  <2> QED
    BY <2>1 DEF Digits
<1>9. LeadOctetOfThree(c) = a /\ SecondOctet(c) = b /\ LastOctet(c) = d
  BY DEF LeadOctetOfThree, SecondOctet, LastOctet
<1> HIDE DEF u, v, x, y
<1>3. a % 16 = u
  <2>1. u \in Int /\ 0 <= u /\ u < 16
    BY <1>1
  <2> QED
    BY <2>1
<1>4. b % 64 = v
  <2>1. v \in Int /\ 0 <= v /\ v < 64
    BY <1>1
  <2> QED
    BY <2>1
<1>5. d % 64 = y
  <2>1. y \in Int /\ 0 <= y /\ y < 64
    BY <1>1
  <2> QED
    BY <2>1
<1>6. a \in 225 .. 239 /\ b \in 128 .. 191 /\ d \in 128 .. 191
  BY <1>1
<1>7. u * 4096 + v * 64 + y = c
  BY <1>1
<1> HIDE DEF a, b, d
<1>10. BitsOfThree(a) = u * 4096 /\ MiddleBits(b) = v * 64 /\ LastBits(d) = y
  BY <1>3, <1>4, <1>5 DEF BitsOfThree, MiddleBits, LastBits
<1>11. BitsOfThree(a) + MiddleBits(b) + LastBits(d) = c
  BY <1>7, <1>10
<1> QED
  BY <1>0, <1>6, <1>9, <1>11 DEF LeadOfThree, Later

\* What the loop has read within a character of which n octets are missing.
Inside(st, path, n, w) ==
  st \in Reading /\ st.path = path /\ st.parts = n /\ st.wch = w /\ st.left = "no"

\* Behind a lead octet the loop is within a character.
LEMMA WaitingInside ==
  ASSUME NEW path, NEW st \in Reading, st.path = path, st.left = "no", NEW w \in Nat, NEW n \in Nat
  PROVE  Inside(Waiting(st, w, n), path, n, w)
BY DEF Reading, Waiting, Inside

\* The lead of two leaves one octet missing.
LEMMA LeadOfTwoRead ==
  ASSUME NEW path \in Seq(Nat), NEW st, Between(st, path), NEW b \in LeadOfTwo
  PROVE  Inside(Url!DecodeToken(st, Url!Escape(b)), path, 1, BitsOfTwo(b))
<1> DEFINE w == BitsOfTwo(b)
<1>1. st \in Reading /\ st.path = path /\ st.left = "no"
  BY DEF Between
<1>2. w \in Nat /\ 1 \in Nat
  BY DEF LeadOfTwo, LeadOfThree, BitsOfTwo, BitsOfThree
<1>3. Url!EscapeByte(st, b) = Waiting(st, w, 1)
  BY LeadOfTwoKind
<1>4. Url!DecodeToken(st, Url!Escape(b)) = Url!EscapeByte(st, b)
  BY <1>1, OctetRead
<1> HIDE DEF w
<1>5. Inside(Waiting(st, w, 1), path, 1, w)
  BY <1>1, <1>2, WaitingInside
<1> QED
  BY <1>3, <1>4, <1>5 DEF w

\* The lead of three leaves two octets missing.
LEMMA LeadOfThreeRead ==
  ASSUME NEW path \in Seq(Nat), NEW st, Between(st, path), NEW b \in LeadOfThree
  PROVE  Inside(Url!DecodeToken(st, Url!Escape(b)), path, 2, BitsOfThree(b))
<1> DEFINE w == BitsOfThree(b)
<1>1. st \in Reading /\ st.path = path /\ st.left = "no"
  BY DEF Between
<1>2. w \in Nat /\ 2 \in Nat
  BY DEF LeadOfTwo, LeadOfThree, BitsOfTwo, BitsOfThree
<1>3. Url!EscapeByte(st, b) = Waiting(st, w, 2)
  BY LeadOfThreeKind
<1>4. Url!DecodeToken(st, Url!Escape(b)) = Url!EscapeByte(st, b)
  BY <1>1, OctetRead
<1> HIDE DEF w
<1>5. Inside(Waiting(st, w, 2), path, 2, w)
  BY <1>1, <1>2, WaitingInside
<1> QED
  BY <1>3, <1>4, <1>5 DEF w

\* The octet in the middle of three, and the last one.
LEMMA MiddleRead ==
  ASSUME NEW path \in Seq(Nat), NEW v \in Nat, NEW st, Inside(st, path, 2, v), NEW b \in Later
  PROVE  Inside(Url!DecodeToken(st, Url!Escape(b)), path, 1, v + MiddleBits(b))
<1> DEFINE w == v + MiddleBits(b)
           x == st.wch + (IF st.parts = 2 THEN MiddleBits(b) ELSE LastBits(b))
<1>1. st \in Reading /\ st.path = path /\ st.left = "no" /\ st.parts = 2 /\ st.wch = v
  BY DEF Inside
<1>2. b \in Nat /\ w \in Nat /\ 1 \in Nat
  BY DEF Later, MiddleBits, LastBits, Single
<1>3. Url!DecodeToken(st, Url!Escape(b)) = Url!Continuation(st, b)
  BY <1>1, OctetRead, LaterOctet
<1>4. x = w /\ st.parts - 1 = 1 /\ st.parts # 1
  BY <1>1
<1>5. Url!Continuation(st, b) = IF st.parts = 1 THEN Url!Put(Waiting(st, x, st.parts - 1), x)
                                ELSE Waiting(st, x, st.parts - 1)
  BY <1>1, <1>2, ContinuationRead
<1> HIDE DEF w, x
<1>6. Url!Continuation(st, b) = Waiting(st, w, 1)
  BY <1>4, <1>5
<1>7. Inside(Waiting(st, w, 1), path, 1, w)
  BY <1>1, <1>2, WaitingInside
<1> QED
  BY <1>3, <1>6, <1>7 DEF w

\* The last octet ends the character.
LEMMA LastRead ==
  ASSUME NEW path \in Seq(Nat), NEW v \in Nat, NEW st, Inside(st, path, 1, v), NEW b \in Later
  PROVE  Between(Url!DecodeToken(st, Url!Escape(b)), Append(path, v + LastBits(b)))
<1> DEFINE w == v + LastBits(b)
           x == st.wch + (IF st.parts = 2 THEN MiddleBits(b) ELSE LastBits(b))
<1>1. st \in Reading /\ st.path = path /\ st.left = "no" /\ st.parts = 1 /\ st.wch = v
  BY DEF Inside
<1>2. b \in Nat /\ w \in Nat /\ 0 \in Nat
  BY DEF Later, MiddleBits, LastBits, Single
<1>3. Url!DecodeToken(st, Url!Escape(b)) = Url!Continuation(st, b)
  BY <1>1, OctetRead, LaterOctet
<1>4. x = w /\ st.parts - 1 = 0
  BY <1>1
<1>5. Url!Continuation(st, b) = IF st.parts = 1 THEN Url!Put(Waiting(st, x, st.parts - 1), x)
                                ELSE Waiting(st, x, st.parts - 1)
  BY <1>1, <1>2, ContinuationRead
<1> HIDE DEF w, x
<1>6. Url!Continuation(st, b) = Url!Put(Waiting(st, w, 0), w)
  BY <1>1, <1>4, <1>5
<1>7. Inside(Waiting(st, w, 0), path, 0, w)
  BY <1>1, <1>2, WaitingInside
<1>8. Between(Url!Put(Waiting(st, w, 0), w), Append(path, w))
  BY <1>2, <1>7, PutRead DEF Inside
<1> QED
  BY <1>3, <1>6, <1>8 DEF w

\* A character of one octet.
LEMMA PlainRead ==
  ASSUME NEW path \in Seq(Nat), NEW st, Between(st, path), NEW b \in Single
  PROVE  Between(Url!DecodeToken(st, Url!Escape(b)), Append(path, b))
<1>1. st \in Reading /\ st.path = path /\ st.parts = 0 /\ st.left = "no"
  BY DEF Between
<1>2. b \in Nat
  BY DEF Later, MiddleBits, LastBits, Single
<1>3. Url!DecodeToken(st, Url!Escape(b)) = Url!Put(st, b)
  BY <1>1, OctetRead, PlainOctet
<1> QED
  BY <1>1, <1>2, <1>3, PutRead

\* The octets of a character give that character, and leave nothing behind.
LEMMA CharacterRead ==
  ASSUME NEW s \in Seq(Token), NEW path \in Seq(Nat), NEW c \in Kept,
         Between(Url!Decode(s), path)
  PROVE  Between(Url!Decode(s \o Url!Utf8(c)), Append(path, c))
<1> DEFINE st == Url!Decode(s)
           e(b) == Url!Escape(b)
<1>0. \A b \in Nat : e(b) \in Token
  BY DEF Token, Url!Escape
<1>9. c \in Nat
  BY KeptAreNumbers
<1>1. CASE c \in Single
  <2> DEFINE o == e(c)
  <2>1. Url!Utf8(c) = <<o>>
    BY <1>1, <1>9, OneOctet
  <2>2. o \in Token
    BY <1>0, <1>1 DEF Single
  <2>3. Between(Url!DecodeToken(st, o), Append(path, c))
    BY <1>1, PlainRead
  <2> HIDE DEF o
  <2>4. s \o <<o>> = Append(s, o)
    BY <2>2
  <2>5. Url!Decode(Append(s, o)) = Url!DecodeToken(st, o)
    BY <2>2, DecodeNext
  <2> QED
    BY <2>1, <2>3, <2>4, <2>5
<1>2. CASE c \in Double
  <2> DEFINE a == LeadOctetOfTwo(c)
             b == LastOctet(c)
             w == BitsOfTwo(a)
             o == e(a)
             p == e(b)
             s1 == Append(s, o)
             s2 == Append(s1, p)
  <2>1. Url!Utf8(c) = <<o, p>> /\ a \in LeadOfTwo /\ b \in Later /\ w + LastBits(b) = c
    BY <1>2, <1>9, TwoOctets
  <2> HIDE DEF a, b
  <2>2. o \in Token /\ p \in Token /\ w \in Nat
    BY <1>0, <2>1 DEF LeadOfTwo, Later, BitsOfTwo
  <2>3. Inside(Url!DecodeToken(st, o), path, 1, w)
    BY <2>1, LeadOfTwoRead
  <2>4. ASSUME NEW t, Inside(t, path, 1, w) PROVE Between(Url!DecodeToken(t, p), Append(path, c))
    <3> HIDE DEF w
    <3> QED
      BY <2>1, <2>2, <2>4, LastRead
  <2> HIDE DEF o, p, w, st
  <2>5. s \o <<o, p>> = s2 /\ s1 \in Seq(Token) /\ s2 \in Seq(Token)
    BY <2>2
  <2> HIDE DEF s2
  <2>6. Url!Decode(s1) = Url!DecodeToken(st, o)
    BY <2>2, DecodeNext DEF st
  <2> HIDE DEF s1
  <2>7. Url!Decode(s2) = Url!DecodeToken(Url!Decode(s1), p)
    BY <2>2, <2>5, DecodeNext DEF s2
  <2> QED
    BY <2>1, <2>3, <2>4, <2>5, <2>6, <2>7
<1>3. CASE c \in Triple
  <2> DEFINE a == LeadOctetOfThree(c)
             b == SecondOctet(c)
             d == LastOctet(c)
             v == BitsOfThree(a)
             w == v + MiddleBits(b)
             o == e(a)
             p == e(b)
             q == e(d)
             s1 == Append(s, o)
             s2 == Append(s1, p)
             s3 == Append(s2, q)
  <2>1. /\ Url!Utf8(c) = <<o, p, q>> /\ a \in LeadOfThree /\ b \in Later /\ d \in Later
        /\ w + LastBits(d) = c
    BY <1>3, <1>9, ThreeOctets
  <2> HIDE DEF a, b, d
  <2>2. o \in Token /\ p \in Token /\ q \in Token /\ v \in Nat /\ w \in Nat
    BY <1>0, <2>1 DEF LeadOfThree, Later, BitsOfThree, MiddleBits
  <2>3. Inside(Url!DecodeToken(st, o), path, 2, v)
    BY <2>1, LeadOfThreeRead
  <2>4. ASSUME NEW t, Inside(t, path, 2, v) PROVE Inside(Url!DecodeToken(t, p), path, 1, w)
    <3> HIDE DEF v
    <3> QED
      BY <2>1, <2>2, <2>4, MiddleRead
  <2> HIDE DEF w
  <2>5. ASSUME NEW t, Inside(t, path, 1, w) PROVE Between(Url!DecodeToken(t, q), Append(path, c))
    BY <2>1, <2>2, <2>5, LastRead
  <2> HIDE DEF o, p, q, v, st
  <2>6. s \o <<o, p, q>> = s3 /\ s1 \in Seq(Token) /\ s2 \in Seq(Token) /\ s3 \in Seq(Token)
    BY <2>2
  <2> HIDE DEF s3
  <2> HIDE DEF s2
  <2>7. Url!Decode(s1) = Url!DecodeToken(st, o)
    BY <2>2, DecodeNext DEF st
  <2> HIDE DEF s1
  <2>8. Url!Decode(s2) = Url!DecodeToken(Url!Decode(s1), p)
    BY <2>2, <2>6, DecodeNext DEF s2
  <2>9. Url!Decode(s3) = Url!DecodeToken(Url!Decode(s2), q)
    BY <2>2, <2>6, DecodeNext DEF s3
  <2> QED
    BY <2>1, <2>3, <2>4, <2>5, <2>6, <2>7, <2>8, <2>9
<1> QED
  BY <1>1, <1>2, <1>3 DEF Kept

\* The tokens of the first character, of the first two and so on to the first n: the
\* function in FlattenSeq.
Encoded(F, n) == CHOOSE f : f = [i \in 1 .. n |-> IF i = 1 THEN F[i] ELSE f[i - 1] \o F[i]]

\* There is such a function, so that CHOOSE finds it.
LEMMA EncodedSteps ==
  ASSUME NEW F, NEW n \in Nat \ {0}
  PROVE  /\ Encoded(F, n)[1] = F[1]
         /\ \A i \in 1 .. n - 1 : Encoded(F, n)[i + 1] = Encoded(F, n)[i] \o F[i + 1]
<1> DEFINE Is(f, k) == f = [i \in 1 .. k |-> IF i = 1 THEN F[i] ELSE f[i - 1] \o F[i]]
           P == {k \in Nat : \E f : Is(f, k + 1)}
<1>1. 0 \in P
  <2>1. Is([i \in 1 .. 1 |-> F[i]], 1)
    OBVIOUS
  <2> HIDE DEF Is
  <2> QED
    BY <2>1
<1>2. ASSUME NEW j \in Nat, j \in P PROVE j + 1 \in P
  <2> DEFINE k == j + 1
  <2>0. k \in Nat \ {0}
    OBVIOUS
  <2>1. PICK f : Is(f, k)
    BY <1>2
  <2> HIDE DEF k
  <2> DEFINE g == [i \in 1 .. k + 1 |-> IF i <= k THEN f[i] ELSE f[k] \o F[i]]
             h == [i \in 1 .. k + 1 |-> IF i = 1 THEN F[i] ELSE g[i - 1] \o F[i]]
  <2>2. ASSUME NEW i \in 1 .. k + 1 PROVE g[i] = h[i]
    <3>1. CASE i <= k
      <4>1. i \in 1 .. k /\ (i # 1 => i - 1 \in 1 .. k)
        BY <3>1, <2>0
      <4>2. g[i] = f[i] /\ (i # 1 => g[i - 1] = f[i - 1])
        BY <2>0, <4>1
      <4>3. f[i] = IF i = 1 THEN F[i] ELSE f[i - 1] \o F[i]
        BY <2>1, <4>1
      <4> QED
        BY <4>2, <4>3
    <3>2. CASE i = k + 1
      <4>1. i # 1 /\ i - 1 = k /\ k \in 1 .. k /\ k \in 1 .. k + 1 /\ ~(i <= k)
        BY <2>0, <3>2
      <4>2. g[k] = f[k]
        BY <4>1, <2>0
      <4>3. g[i] = f[k] \o F[i] /\ h[i] = g[i - 1] \o F[i]
        BY <4>1
      <4> QED
        BY <4>1, <4>2, <4>3
    <3> QED
      BY <2>0, <3>1, <3>2
  <2>3. g = h
    <3> HIDE DEF P, Is
    <3> QED
      BY <2>2
  <2>4. Is(g, k + 1)
    BY <2>3
  <2> HIDE DEF g, Is
  <2> QED
    BY <2>4 DEF k
<1>3. \E f : Is(f, n)
  <2>1. n - 1 \in P
    <3> HIDE DEF P
    <3> QED
      BY <1>1, <1>2, CountUp
  <2>2. (n - 1) + 1 = n
    OBVIOUS
  <2> HIDE DEF Is
  <2> QED
    BY <2>1, <2>2
<1>4. PICK f : Is(f, n)
  BY <1>3
<1> DEFINE J == Encoded(F, n)
<1>5. J = CHOOSE g : Is(g, n)
  BY DEF Encoded
<1>6. J = [i \in 1 .. n |-> IF i = 1 THEN F[i] ELSE J[i - 1] \o F[i]]
  BY <1>4, <1>5
<1> HIDE DEF J
<1>7. J[1] = F[1]
  BY <1>6
<1>8. ASSUME NEW i \in 1 .. n - 1 PROVE J[i + 1] = J[i] \o F[i + 1]
  <2>1. i + 1 \in 1 .. n /\ i + 1 # 1 /\ (i + 1) - 1 = i
    OBVIOUS
  <2> QED
    BY <1>6, <2>1
<1> QED
  BY <1>7, <1>8 DEF J

\* What EncodePath makes is the last of them.
LEMMA EncodeIsLast ==
  ASSUME NEW cs \in Seq(Kept), cs # <<>>
  PROVE  LET F == [i \in 1 .. Len(cs) |-> Url!Utf8(cs[i])] IN
         Url!EncodePath(cs) = Encoded(F, Len(cs))[Len(cs)]
<1> DEFINE n == Len(cs)
           F == [i \in 1 .. n |-> Url!Utf8(cs[i])]
<1>1. n \in Nat \ {0} /\ DOMAIN cs = 1 .. n
  BY EmptySeq
<1>2. Len(F) = n
  OBVIOUS
<1>3. Url!EncodePath(cs) = Url!FlattenSeq(F)
  BY <1>1 DEF Url!EncodePath
<1> HIDE DEF F, n
<1>4. Url!FlattenSeq(F) = Encoded(F, n)[n]
  BY <1>1, <1>2 DEF Url!FlattenSeq, Encoded
<1> QED
  BY <1>3, <1>4 DEF F, n

\* The tokens of a character.
LEMMA Utf8Tokens ==
  ASSUME NEW c \in Kept
  PROVE  Url!Utf8(c) \in Seq(Token)
<1>0. \A b \in Nat : Url!Escape(b) \in Token
  BY DEF Token, Url!Escape
<1>9. c \in Nat
  BY KeptAreNumbers
<1>1. CASE c \in Single
  <2> DEFINE o == Url!Escape(c)
  <2>1. Url!Utf8(c) = <<o>> /\ o \in Token
    BY <1>0, <1>1, <1>9, OneOctet
  <2> HIDE DEF o
  <2> QED
    BY <2>1
<1>2. CASE c \in Double
  <2> DEFINE o == Url!Escape(LeadOctetOfTwo(c))
             p == Url!Escape(LastOctet(c))
  <2>1. Url!Utf8(c) = <<o, p>> /\ o \in Token /\ p \in Token
    BY <1>0, <1>2, <1>9, TwoOctets DEF LeadOfTwo, Later
  <2> HIDE DEF o, p
  <2> QED
    BY <2>1
<1>3. CASE c \in Triple
  <2> DEFINE o == Url!Escape(LeadOctetOfThree(c))
             p == Url!Escape(SecondOctet(c))
             q == Url!Escape(LastOctet(c))
  <2>1. Url!Utf8(c) = <<o, p, q>> /\ o \in Token /\ p \in Token /\ q \in Token
    BY <1>0, <1>3, <1>9, ThreeOctets DEF LeadOfThree, Later
  <2> HIDE DEF o, p, q
  <2> QED
    BY <2>1
<1> QED
  BY <1>1, <1>2, <1>3 DEF Kept

\* Nothing is read before the first token.
LEMMA NothingRead == Between(Url!Decode(<<>>), <<>>)
<1>1. <<>> \in Seq(Nat) /\ Len(<<>>) = 0
  OBVIOUS
<1>2. Url!Decode(<<>>) = Url!Start
  <2>1. PICK g : States(g, <<>>) /\ Url!Decode(<<>>) = g[Len(<<>>)]
    BY <1>1, DecodeStates
  <2> QED
    BY <1>1, <2>1 DEF States
<1>3. Between(Url!Start, <<>>)
  <2> DEFINE e == <<>>
  <2>1. e \in Seq(Nat)
    BY <1>1
  <2>2. Url!Start = [path |-> e, wch |-> 0, parts |-> 0, left |-> "no"]
    BY DEF Url!Start
  <2> HIDE DEF e
  <2>3. Between(Url!Start, e)
    BY <2>1, <2>2 DEF Between, Reading
  <2> QED
    BY <2>3 DEF e
<1> QED
  BY <1>2, <1>3

\* A character behind the first i.
LEMMA NextCharacter ==
  ASSUME NEW cs \in Seq(Nat), NEW i \in 0 .. Len(cs) - 1
  PROVE  /\ SubSeq(cs, 1, i) \in Seq(Nat)
         /\ SubSeq(cs, 1, i + 1) = Append(SubSeq(cs, 1, i), cs[i + 1])
<1> DEFINE s == SubSeq(cs, 1, i)
           t == SubSeq(cs, 1, i + 1)
<1>1. i \in Nat /\ i <= Len(cs) /\ i + 1 <= Len(cs) /\ Len(cs) \in Nat
  OBVIOUS
<1>2. s \in Seq(Nat) /\ Len(s) = i /\ \A k \in 1 .. i : s[k] = cs[k]
  BY <1>1
<1>3. t \in Seq(Nat) /\ Len(t) = i + 1 /\ \A k \in 1 .. i + 1 : t[k] = cs[k]
  BY <1>1
<1>4. cs[i + 1] \in Nat
  BY <1>1
<1> HIDE DEF s, t
<1>5. t = Append(s, cs[i + 1])
  BY <1>1, <1>2, <1>3, <1>4
<1> QED
  BY <1>2, <1>5 DEF s, t

\* What a client encoded is what is decoded.
LEMMA EncodedIsDecoded ==
  ASSUME NEW cs \in Seq(Kept)
  PROVE  Url!Decode(Url!EncodePath(cs)).path = cs
<1>0. Kept \subseteq Nat /\ cs \in Seq(Nat)
  <2>1. Kept \subseteq Nat
    BY KeptAreNumbers
  <2>2. cs \in [1 .. Len(cs) -> Kept] /\ Len(cs) \in Nat
    OBVIOUS
  <2>3. cs \in [1 .. Len(cs) -> Nat]
    BY <2>1, <2>2
  <2> QED
    BY <2>1, <2>2, <2>3
<1>1. CASE cs = <<>>
  <2>1. Url!EncodePath(cs) = <<>>
    BY <1>1 DEF Url!EncodePath, Url!FlattenSeq
  <2> QED
    BY <1>1, <2>1, NothingRead DEF Between
<1>2. CASE cs # <<>>
  <2> DEFINE n == Len(cs)
             F == [i \in 1 .. n |-> Url!Utf8(cs[i])]
             J == Encoded(F, n)
             P == {i \in Nat : i + 1 <= n => /\ J[i + 1] \in Seq(Token)
                                             /\ Between(Url!Decode(J[i + 1]), SubSeq(cs, 1, i + 1))}
  <2>1. n \in Nat \ {0} /\ \A i \in 1 .. n : cs[i] \in Kept /\ F[i] = Url!Utf8(cs[i])
    BY <1>2, EmptySeq
  <2>2. \A i \in 1 .. n : F[i] \in Seq(Token)
    BY <2>1, Utf8Tokens
  <2>3. Url!EncodePath(cs) = J[n]
    BY <1>2, EncodeIsLast
  <2> HIDE DEF F
  <2>4. J[1] = F[1] /\ \A i \in 1 .. n - 1 : J[i + 1] = J[i] \o F[i + 1]
    BY <2>1, EncodedSteps
  <2> HIDE DEF J
  <2>5. 0 \in P
    <3>1. 1 \in 1 .. n /\ 0 \in 0 .. Len(cs) - 1
      BY <2>1
    <3>2. SubSeq(cs, 1, 0) = <<>> /\ <<>> \in Seq(Token) /\ <<>> \in Seq(Nat)
      BY <1>0
    <3>3. Between(Url!Decode(<<>> \o F[1]), Append(<<>>, cs[1]))
      BY <2>1, <3>1, <3>2, NothingRead, CharacterRead
    <3>4. <<>> \o F[1] = F[1] /\ F[1] \in Seq(Token)
      BY <2>2, <3>1
    <3>5. SubSeq(cs, 1, 1) = Append(<<>>, cs[1])
      <4>1. 0 + 1 = 1
        OBVIOUS
      <4>2. SubSeq(cs, 1, 0 + 1) = Append(SubSeq(cs, 1, 0), cs[0 + 1])
        BY <1>0, <3>1, NextCharacter
      <4> QED
        BY <3>2, <4>1, <4>2
    <3>8. J[1] \in Seq(Token)
      BY <2>4, <3>4
    <3>9. J[1] = <<>> \o F[1]
      BY <2>4, <3>4
    <3> HIDE DEF P
    <3>6. J[1] \in Seq(Token) /\ Between(Url!Decode(J[1]), SubSeq(cs, 1, 1))
      BY <3>3, <3>5, <3>8, <3>9
    <3> USE DEF P
    <3>7. 0 + 1 = 1 /\ 0 \in Nat
      OBVIOUS
    <3> QED
      BY <3>6, <3>7
  <2>6. ASSUME NEW i \in Nat, i \in P PROVE i + 1 \in P
    <3> DEFINE k == i + 1
    <3>1. SUFFICES ASSUME k + 1 <= n
                   PROVE  /\ J[k + 1] \in Seq(Token)
                          /\ Between(Url!Decode(J[k + 1]), SubSeq(cs, 1, k + 1))
      OBVIOUS
    <3>2. k \in 1 .. n - 1 /\ k + 1 \in 1 .. n /\ k \in 0 .. Len(cs) - 1 /\ k <= n
      BY <2>1, <3>1
    <3>3. J[k] \in Seq(Token) /\ Between(Url!Decode(J[k]), SubSeq(cs, 1, k))
      BY <2>6, <3>2
    <3> HIDE DEF k, P
    <3>4. J[k + 1] = J[k] \o Url!Utf8(cs[k + 1]) /\ Url!Utf8(cs[k + 1]) \in Seq(Token) /\ cs[k + 1] \in Kept
      BY <2>1, <2>2, <2>4, <3>2
    <3>5. /\ SubSeq(cs, 1, k) \in Seq(Nat)
          /\ SubSeq(cs, 1, k + 1) = Append(SubSeq(cs, 1, k), cs[k + 1])
      BY <1>0, <3>2, NextCharacter
    <3>6. Between(Url!Decode(J[k] \o Url!Utf8(cs[k + 1])), Append(SubSeq(cs, 1, k), cs[k + 1]))
      BY <3>3, <3>4, <3>5, CharacterRead
    <3>7. J[k] \o Url!Utf8(cs[k + 1]) \in Seq(Token)
      BY <3>3, <3>4
    <3> QED
      BY <3>4, <3>5, <3>6, <3>7
  <2>7. n - 1 \in P
    <3> HIDE DEF P
    <3> QED
      BY <2>1, <2>5, <2>6, CountUp
  <2>8. (n - 1) + 1 = n /\ (n - 1) + 1 <= n /\ SubSeq(cs, 1, n) = cs
    BY <1>0, <2>1
  <2> QED
    BY <2>3, <2>7, <2>8 DEF Between
<1> QED
  BY <1>1, <1>2

\* Until it is rewritten, the path is what DoAction decoded.
ItemDecoded == stage = "path" => req.item = Url!Decode(req.path)

\* No other step touches what was decoded.
LEMMA StepItem == RequestInv /\ ItemDecoded /\ [RequestNext]_requestVars => ItemDecoded'
<1> SUFFICES ASSUME RequestInv, ItemDecoded, [RequestNext]_requestVars PROVE ItemDecoded'
  OBVIOUS
<1>1. CASE DecodePath
  <2>1. PICK p \in Paths : req' = [req EXCEPT !.path = p, !.item = Url!Decode(p)]
    BY <1>1 DEF DecodePath
  <2>2. req = [method |-> req.method, minor |-> req.minor, path |-> req.path,
               item |-> req.item, specs |-> req.specs]
    BY DEF RequestInv, AnswerInv, ReqShapes
  <2> HIDE DEF Paths
  <2> DEFINE d == Url!Decode(p)
  <2>3. req' = [req EXCEPT !.path = p, !.item = d]
    BY <2>1
  <2> HIDE DEF d
  <2>4. (req').path = p /\ (req').item = d
    BY <2>2, <2>3
  <2> QED
    BY <2>4 DEF ItemDecoded, d
<1>2. CASE stage' # "path"
  BY <1>2 DEF ItemDecoded
<1>3. CASE stage' = stage /\ req' = req
  BY <1>3 DEF ItemDecoded
<1>4. stage' # "path" \/ (stage' = stage /\ req' = req) \/ DecodePath
  <2>1. CASE Route
    BY <2>1 DEF Route, Version, BadRequest, BadPath, Rewritten, Redirect, Forbidden, NotForbidden,
       AuthNotNeeded, Authenticated, Unauthorized, Alias, MovedToProxy, MovedToDirectory,
       NotFound, Found, SendErrorRespons, Goto
  <2>2. CASE Serve
    BY <2>2 DEF Serve, ScriptError, NoAnswer, StartScript, ScriptHeader, ScriptBody, ScriptAborted,
       EvaluateRange, MergeRanges, RefuseRanges, RangesMerged, NotModified, Modified, Options, Star,
       HeadMethod, NotAllowed, OpenFails, SendFile, FileBody, SendErrorRespons, Goto, route
  <2>3. CASE StartAction \/ Exit
    BY <2>3 DEF StartAction, Exit, Goto
  <2>4. CASE RstStream \/ StopConnection \/ UNCHANGED requestVars
    BY <2>4 DEF RstStream, StopConnection, requestVars, route
  <2> QED
    BY <2>1, <2>2, <2>3, <2>4 DEF RequestNext, DoAction
<1> QED
  BY <1>1, <1>2, <1>3, <1>4

\* Whatever a client asks for, percent-encoded octet by octet, DoAction reads it as the
\* client meant it: any paths whose characters have one, two or three octets and a lead
\* octet that DoAction does not skip.
THEOREM PathsAreDecoded ==
  ASSUME Names \subseteq Seq(Kept)
  PROVE  RequestSpec => []PathDecoded
<1>1. RequestInit => ItemDecoded
  BY DEF RequestInit, ItemDecoded
<1>2. ItemDecoded => PathDecoded
  BY EncodedIsDecoded DEF ItemDecoded, PathDecoded
<1> QED
  BY <1>1, <1>2, InitRequest, StepRequest, StepItem, PTL DEF RequestSpec
=============================================================================
