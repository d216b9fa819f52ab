------------------------------- MODULE Timer --------------------------------
(***************************************************************************)
(* Timer<T>: the timeout of a connection.                                  *)
(*                                                                         *)
(* The waiting thread holds m_mxCv except while it sleeps in wait_for, and *)
(* leaves its loop by a timeout (and the callback) or by m_bStop.  Reset,  *)
(* SetNewTimeout and Stop are called by the reading thread and by the      *)
(* DoAction threads.  They write the timer's members without a lock and    *)
(* then wake the waiting thread, if try_lock gives them m_mxCv: they must  *)
(* not wait for it, as the callback runs with m_mxCv held and takes locks  *)
(* its callers hold.  The members are no atomics; the waiting thread reads *)
(* each of them when it needs it.                                          *)
(*                                                                         *)
(* Time is kept as two ages instead of a clock: the time since m_tStart    *)
(* and what is left of the wait_for.                                       *)
(***************************************************************************)
EXTENDS Integers

CONSTANTS
  Caller,      \* the threads that use the timer
  Period,      \* the values of m_tMilliSeconds, in ticks
  Horizon,     \* the age up to which time is told apart
  Spurious     \* whether wait_for may wake up for no reason

ASSUME TimerAssumption ==
  /\ Period \subseteq 1 .. Horizon /\ Period # {}
  /\ Horizon \in Nat /\ Spurious \in BOOLEAN

\* A uint32_t that wrapped: some 49 days of milliseconds, which do not pass
\* here.
Forever == Horizon + 1

VARIABLES
  period,     \* m_tMilliSeconds
  age,        \* now - m_tStart
  bStop,      \* m_bStop
  isStoped,   \* m_bIsStoped
  mxCv,       \* who holds m_mxCv
  waiter,     \* where the waiting thread is
  dif,        \* nDifMilliSeconds
  left,       \* what is left of the wait_for
  woken,      \* why the wait_for is over: "no", "notify" or "timeout"
  pc,         \* where each caller is
  owner,      \* where the destructor is
  (* History variables, read by no action. *)
  missed,     \* a caller did not get m_mxCv, and wrote after the thread read
  silenced,   \* Stop was called and got m_mxCv
  fired       \* the callback was called, and whether silenced before

shared  == <<period, age, bStop>>
wait    == <<waiter, dif, left, woken>>
history == <<missed, silenced, fired>>
vars    == <<shared, isStoped, mxCv, wait, pc, owner, history>>

Free == "free"
Waiter == "waiter"
Owner == "owner"

\* m_mxCv can tell its holders apart.
ASSUME CallerAssumption == Caller \cap {Free, Waiter, Owner} = {}

Init ==
  /\ period \in Period /\ age = 0 /\ bStop = FALSE /\ isStoped = FALSE
  /\ mxCv = Free
  /\ waiter = "begin" /\ dif = 0 /\ left = 0 /\ woken = "no"
  /\ pc = [c \in Caller |-> "idle"]
  /\ owner = "alive"
  /\ missed = FALSE /\ silenced = FALSE /\ fired = "no"

-----------------------------------------------------------------------------
(* The waiting thread *)

Begin ==
  /\ waiter = "begin" /\ mxCv = Free
  /\ mxCv' = Waiter /\ waiter' = "read"
  /\ age' = 0
  /\ UNCHANGED <<period, bStop, isStoped, dif, left, woken, pc, owner, history>>

\* m_tStart is read, then m_tMilliSeconds twice: for the comparison and for
\* the difference.
ReadStart ==
  /\ waiter = "read"
  /\ dif' = age /\ waiter' = "compare"
  /\ missed' = FALSE
  /\ UNCHANGED <<shared, isStoped, mxCv, left, woken, pc, owner, silenced, fired>>

Compare ==
  /\ waiter = "compare"
  /\ IF dif < period
     THEN waiter' = "subtract" /\ UNCHANGED <<left, mxCv>>
     ELSE waiter' = "wait" /\ left' = 1 /\ mxCv' = Free
  /\ UNCHANGED <<shared, isStoped, dif, woken, pc, owner, history>>

Subtract ==
  /\ waiter = "subtract"
  /\ left' = IF period >= dif THEN period - dif ELSE Forever
  /\ waiter' = "wait" /\ mxCv' = Free
  /\ UNCHANGED <<shared, isStoped, dif, woken, pc, owner, history>>

\* wait_for is over when it was notified, or the time is up, or for no reason;
\* it returns when it has the mutex again.  A wait_for of no time at all is
\* over at once.
WakeUp ==
  /\ waiter = "wait" /\ woken = "no"
  /\ \/ left = 0 /\ woken' = "timeout"
     \/ Spurious /\ left > 0 /\ woken' = "notify"
  /\ UNCHANGED <<shared, isStoped, mxCv, waiter, dif, left, pc, owner, history>>

WaitForReturnsLate ==         \* mutant: after a timeout m_bStop is not asked
  /\ waiter = "wait" /\ woken # "no" /\ mxCv = Free
  /\ mxCv' = Waiter /\ woken' = "no"
  /\ waiter' = IF woken = "timeout" THEN "callback"
               ELSE IF bStop THEN "exit" ELSE "read"
  /\ UNCHANGED <<shared, isStoped, dif, left, pc, owner, history>>

\* The callback is called unless the timer was stopped.
WaitForReturns ==
  /\ waiter = "wait" /\ woken # "no" /\ mxCv = Free
  /\ mxCv' = Waiter /\ woken' = "no"
  /\ waiter' = IF bStop THEN "exit"
               ELSE IF woken = "timeout" THEN "callback" ELSE "read"
  /\ UNCHANGED <<shared, isStoped, dif, left, pc, owner, history>>

CallbackLast ==               \* mutant: returns without m_bIsStoped
  /\ waiter = "callback" /\ waiter' = "unlock"
  /\ fired' = IF silenced THEN "late" ELSE "yes"
  /\ UNCHANGED <<shared, isStoped, mxCv, dif, left, woken, pc, owner, missed, silenced>>

\* m_fTimeOut, with m_mxCv held
Callback ==
  /\ waiter = "callback"
  /\ waiter' = "exit"
  /\ fired' = IF silenced THEN "late" ELSE "yes"
  /\ UNCHANGED <<shared, isStoped, mxCv, dif, left, woken, pc, owner, missed, silenced>>

SetIsStoped ==
  /\ waiter = "exit"
  /\ isStoped' = TRUE /\ waiter' = "unlock"
  /\ UNCHANGED <<shared, mxCv, dif, left, woken, pc, owner, history>>

\* The end of the thread: its unique_lock gives m_mxCv back.
EndThread ==
  /\ waiter = "unlock"
  /\ mxCv' = Free /\ waiter' = "gone"
  /\ UNCHANGED <<shared, isStoped, dif, left, woken, pc, owner, history>>

WaiterStep ==
  \/ Begin \/ ReadStart \/ Compare \/ Subtract \/ WakeUp \/ WaitForReturns
  \/ Callback \/ SetIsStoped \/ EndThread

-----------------------------------------------------------------------------
(* The callers *)

\* SetNewTimeout begins with m_tMilliSeconds ...
SetNewTimeout(c, p) ==
  /\ pc[c] = "idle" /\ owner = "alive"
  /\ period' = p
  /\ pc' = [pc EXCEPT ![c] = "start"]
  /\ UNCHANGED <<age, bStop, isStoped, mxCv, wait, owner, history>>

\* ... and goes on like Reset.
Reset(c) ==
  /\ pc[c] = "start" \/ (pc[c] = "idle" /\ owner = "alive")
  /\ age' = 0
  /\ pc' = [pc EXCEPT ![c] = "try"]
  /\ UNCHANGED <<period, bStop, isStoped, mxCv, wait, owner, history>>

Stop(c) ==
  /\ pc[c] = "idle" /\ owner = "alive"
  /\ bStop' = TRUE
  /\ pc' = [pc EXCEPT ![c] = "tryStop"]
  /\ UNCHANGED <<period, age, isStoped, mxCv, wait, owner, history>>

\* try_lock; when it fails nobody is notified.
TryLock(c) ==
  /\ pc[c] \in {"try", "tryStop"}
  /\ IF mxCv = Free
     THEN /\ mxCv' = c /\ pc' = [pc EXCEPT ![c] = "notify"]
          /\ silenced' = (silenced \/ pc[c] = "tryStop")
          /\ UNCHANGED missed
     ELSE /\ pc' = [pc EXCEPT ![c] = "idle"]
          /\ missed' = TRUE
          /\ UNCHANGED <<mxCv, silenced>>
  /\ UNCHANGED <<shared, isStoped, wait, owner, fired>>

NotifyNobody ==               \* mutant: only the lock is taken
  woken' = woken

\* notify_all reaches the thread if it is in wait_for (and not on its way
\* out).
NotifyAll ==
  woken' = IF waiter = "wait" /\ woken = "no" THEN "notify" ELSE woken

Notify(c) ==
  /\ pc[c] = "notify"
  /\ NotifyAll
  /\ mxCv' = Free
  /\ pc' = [pc EXCEPT ![c] = "idle"]
  /\ UNCHANGED <<shared, isStoped, waiter, dif, left, owner, history>>

CallerStep(c) ==
  \/ \E p \in Period : SetNewTimeout(c, p)
  \/ Reset(c) \/ Stop(c) \/ TryLock(c) \/ Notify(c)

-----------------------------------------------------------------------------
(* The destructor, when nobody else uses the timer any more *)

Destroy ==
  /\ owner = "alive" /\ \A c \in Caller : pc[c] = "idle"
  /\ bStop' = TRUE /\ owner' = "try"
  /\ UNCHANGED <<period, age, isStoped, mxCv, wait, pc, history>>

\* Notify again and again, until m_bIsStoped.
DestroyTry ==
  /\ owner = "try"
  /\ IF mxCv = Free THEN mxCv' = Owner /\ owner' = "notify"
                    ELSE owner' = "test" /\ UNCHANGED mxCv
  /\ UNCHANGED <<shared, isStoped, wait, pc, history>>

DestroyNotify ==
  /\ owner = "notify"
  /\ NotifyAll
  /\ mxCv' = Free /\ owner' = "test"
  /\ UNCHANGED <<shared, isStoped, waiter, dif, left, pc, history>>

DestroyTest ==
  /\ owner = "test"
  /\ owner' = IF isStoped THEN "join" ELSE "try"
  /\ UNCHANGED <<shared, isStoped, mxCv, wait, pc, history>>

\* join, after which the members are gone
DestroyJoin ==
  /\ owner = "join" /\ waiter = "gone"
  /\ owner' = "destroyed"
  /\ UNCHANGED <<shared, isStoped, mxCv, wait, pc, history>>

OwnerStep ==
  \/ Destroy \/ DestroyTry \/ DestroyNotify \/ DestroyTest \/ DestroyJoin

-----------------------------------------------------------------------------
Tick ==
  /\ age' = IF age < Horizon THEN age + 1 ELSE age
  /\ left' = IF waiter = "wait" /\ left \in 1 .. Horizon THEN left - 1 ELSE left
  /\ UNCHANGED <<period, bStop, isStoped, mxCv, waiter, dif, woken, pc, owner,
                 history>>

Next ==
  \/ WaiterStep
  \/ \E c \in Caller : CallerStep(c)
  \/ OwnerStep
  \/ Tick

Spec == Init /\ [][Next]_vars

-----------------------------------------------------------------------------
TypeOK ==
  /\ period \in Period /\ age \in 0 .. Horizon
  /\ bStop \in BOOLEAN /\ isStoped \in BOOLEAN
  /\ mxCv \in {Free, Waiter, Owner} \cup Caller
  /\ waiter \in {"begin", "read", "compare", "subtract", "wait", "callback",
                 "exit", "unlock", "gone"}
  /\ dif \in 0 .. Horizon /\ left \in 0 .. Forever
  /\ woken \in {"no", "notify", "timeout"}
  /\ pc \in [Caller -> {"idle", "start", "try", "tryStop", "notify"}]
  /\ owner \in {"alive", "try", "notify", "test", "join", "destroyed"}
  /\ missed \in BOOLEAN /\ silenced \in BOOLEAN
  /\ fired \in {"no", "yes", "late"}

\* Once Stop has come through with its notification the callback is not
\* called any more (the connection it would close may be gone).
NoCallbackAfterStop == fired # "late"

\* A timer in which every call came through waits for the last timeout set,
\* counted from the last Reset, however the calls of several threads mix.
WaitsForPeriod ==
  /\ waiter = "wait" /\ woken = "no" /\ ~missed
  /\ \A c \in Caller : pc[c] = "idle"
  => age + left >= period /\ left # Forever

-----------------------------------------------------------------------------
\* The threads run, and time passes.  A thread that waits for a mutex gets it
\* if it is free again and again.
FairSpec ==
  /\ Spec
  /\ WF_vars(WaiterStep) /\ SF_vars(WaitForReturns) /\ SF_vars(Begin)
  /\ WF_vars(DestroyTry \/ DestroyNotify \/ DestroyTest \/ DestroyJoin)
  /\ \A c \in Caller :
       WF_vars(pc[c] # "idle" /\ (Reset(c) \/ TryLock(c) \/ Notify(c)))
  /\ WF_vars(Tick)

\* The destructor ends, whatever the thread was doing: it is woken as often
\* as it takes.
DestructorReturns == owner = "try" ~> owner = "destroyed"
=============================================================================
