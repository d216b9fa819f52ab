------------------------------ MODULE LogFile --------------------------------
(***************************************************************************)
(* CLogFile: one log file, written by a thread that exists only while      *)
(* there is something to write.                                            *)
(*                                                                         *)
(* Any thread of the server appends a line to m_lstMessages and starts a   *)
(* detached thread if none is running.  That thread opens the file, writes *)
(* lines until the list is empty, and ends.  m_lstMessages and             *)
(* m_atThrRunning are used under m_mtxBacklog only (one action per time it *)
(* is held); the file is opened and written without it.                    *)
(***************************************************************************)
EXTENDS Integers, Sequences, FiniteSets

CONSTANTS
  Thread,     \* identities for the detached threads
  MaxLines    \* bound on the lines logged

ASSUME LogAssumption == IsFiniteSet(Thread) /\ MaxLines \in Nat

VARIABLES
  m_lstMessages,    \* the backlog; lines are numbered as they are accepted
  m_atThrRunning,
  lines,            \* number of lines accepted
  thr,              \* where each detached thread is
  msg,              \* the lines it has taken out to write: none or one
  file,             \* the lines in the file
  dtor              \* where the destructor is

logVars == <<m_lstMessages, m_atThrRunning, lines, thr, msg, file, dtor>>

LogInit ==
  /\ m_lstMessages = <<>> /\ m_atThrRunning = FALSE /\ lines = 0
  /\ thr = [t \in Thread |-> "none"]
  /\ msg = [t \in Thread |-> <<>>]
  /\ file = <<>> /\ dtor = "no"

-----------------------------------------------------------------------------
\* compare_exchange_strong(false, true), and the thread if that succeeded
StartThread ==
  IF m_atThrRunning
  THEN UNCHANGED <<m_atThrRunning, thr>>
  ELSE /\ m_atThrRunning' = TRUE
       /\ \E t \in Thread :
            thr[t] = "none" /\ thr' = [thr EXCEPT ![t] = "start"]

Enqueue(line) == Append(m_lstMessages, line)

StartWriteThread ==
  /\ lines < MaxLines /\ dtor # "done"
  /\ lines' = lines + 1
  /\ m_lstMessages' = Enqueue(lines + 1)
  /\ StartThread
  /\ UNCHANGED <<msg, file, dtor>>

-----------------------------------------------------------------------------
(* The detached thread *)

Open(t, ok) ==
  /\ thr[t] = "start"
  /\ thr' = [thr EXCEPT ![t] = IF ok THEN "take" ELSE "failed"]
  /\ UNCHANGED <<m_lstMessages, m_atThrRunning, lines, msg, file, dtor>>

\* Whatever was logged before the file could not be opened is dropped.
GiveUp(t) ==
  /\ thr[t] = "failed"
  /\ m_lstMessages' = <<>> /\ m_atThrRunning' = FALSE
  /\ thr' = [thr EXCEPT ![t] = "none"]
  /\ UNCHANGED <<lines, msg, file, dtor>>

TakeLast(t) ==                \* mutant: from the wrong end
  /\ thr[t] = "take" /\ m_lstMessages # <<>>
  /\ LET n == Len(m_lstMessages) IN
       /\ msg' = [msg EXCEPT ![t] = <<m_lstMessages[n]>>]
       /\ m_lstMessages' = SubSeq(m_lstMessages, 1, n - 1)
  /\ thr' = [thr EXCEPT ![t] = "write"]
  /\ UNCHANGED <<m_atThrRunning, lines, file, dtor>>

Take(t) ==
  /\ thr[t] = "take" /\ m_lstMessages # <<>>
  /\ msg' = [msg EXCEPT ![t] = <<Head(m_lstMessages)>>]
  /\ m_lstMessages' = Tail(m_lstMessages)
  /\ thr' = [thr EXCEPT ![t] = "write"]
  /\ UNCHANGED <<m_atThrRunning, lines, file, dtor>>

\* A write that fails (nobody asks) loses the line.
Write(t, ok) ==
  /\ thr[t] = "write"
  /\ file' = IF ok THEN file \o msg[t] ELSE file
  /\ msg' = [msg EXCEPT ![t] = <<>>]
  /\ thr' = [thr EXCEPT ![t] = "take"]
  /\ UNCHANGED <<m_lstMessages, m_atThrRunning, lines, dtor>>

FinishUnseen(t) ==            \* mutant: the list was looked at earlier
  /\ thr[t] = "take" /\ thr' = [thr EXCEPT ![t] = "none"]
  /\ m_atThrRunning' = FALSE
  /\ UNCHANGED <<m_lstMessages, lines, msg, file, dtor>>

FinishRunning(t) ==           \* mutant: m_atThrRunning is not reset
  /\ thr[t] = "take" /\ m_lstMessages = <<>>
  /\ thr' = [thr EXCEPT ![t] = "none"]
  /\ UNCHANGED <<m_lstMessages, m_atThrRunning, lines, msg, file, dtor>>

\* The list is found empty and m_atThrRunning is reset in one hold of the
\* mutex.
Finish(t) ==
  /\ thr[t] = "take" /\ m_lstMessages = <<>>
  /\ m_atThrRunning' = FALSE
  /\ thr' = [thr EXCEPT ![t] = "none"]
  /\ UNCHANGED <<m_lstMessages, lines, msg, file, dtor>>

ThreadStep(t) ==
  \/ \E ok \in BOOLEAN : Open(t, ok) \/ Write(t, ok)
  \/ GiveUp(t) \/ Take(t) \/ Finish(t)

-----------------------------------------------------------------------------
(* ~CLogFile *)

DestroyLog ==
  /\ dtor = "no" /\ dtor' = "wait"
  /\ UNCHANGED <<m_lstMessages, m_atThrRunning, lines, thr, msg, file>>

Destroyed ==
  /\ dtor = "wait"
  /\ m_lstMessages = <<>> /\ ~m_atThrRunning
  /\ dtor' = "done"
  /\ UNCHANGED <<m_lstMessages, m_atThrRunning, lines, thr, msg, file>>

LogNext ==
  \/ StartWriteThread
  \/ \E t \in Thread : ThreadStep(t)
  \/ DestroyLog \/ Destroyed

LogSpec == LogInit /\ [][LogNext]_logVars

-----------------------------------------------------------------------------
Line == 1 .. lines

LogTypeOK ==
  /\ lines \in 0 .. MaxLines
  /\ m_lstMessages \in Seq(Line) /\ m_atThrRunning \in BOOLEAN
  /\ thr \in [Thread -> {"none", "start", "failed", "take", "write"}]
  /\ msg \in [Thread -> Seq(Line)]
  /\ file \in Seq(Line) /\ dtor \in {"no", "wait", "done"}

Alive(t) == thr[t] # "none"

\* Two threads would write into each other's lines: there is one at most.
OneWriter == \A t, u \in Thread : Alive(t) /\ Alive(u) => t = u

\* No line is stranded: as long as the backlog holds one, a thread is at work
\* (the one that found it empty has not yet said it is ending).
NothingStranded ==
  /\ m_atThrRunning <=> \E t \in Thread : Alive(t)
  /\ m_lstMessages # <<>> => m_atThrRunning

\* The detached thread uses the CLogFile by reference: the destructor does
\* not return before it has ended, with every line taken out.
DestroyedIsIdle ==
  dtor = "done" => m_lstMessages = <<>> /\ \A t \in Thread : ~Alive(t)

\* The backlog always has the one thread it needs, and the destructor waits
\* for it.
BacklogSafe == OneWriter /\ NothingStranded /\ DestroyedIsIdle

\* Backlog, writing thread and file together are a FIFO; the line a thread
\* has taken out is still the first one pending.
Taken == IF \E t \in Thread : msg[t] # <<>>
         THEN msg[CHOOSE t \in Thread : msg[t] # <<>>] ELSE <<>>
Fifo == INSTANCE LineFifo
          WITH Line <- 1 .. MaxLines, pending <- Taken \o m_lstMessages
FifoSpec == Fifo!Spec

-----------------------------------------------------------------------------
\* A thread that runs is scheduled again and again; the destructor polls.
LogFairSpec ==
  /\ LogSpec
  /\ \A t \in Thread : WF_logVars(ThreadStep(t))
  /\ WF_logVars(Destroyed)

\* The process can end: the destructor's loop ends.
LogDestructorReturns == dtor = "wait" ~> dtor = "done"
=============================================================================
