------------------------------- MODULE Receiver -------------------------------
(***************************************************************************)
(* receiver: the thread of receiver_chain_loop and the threads of the      *)
(* program that pause and resume it around their own use of the radio.     *)
(* One semaphore, m_pause, decides who runs.  process_samples is a single  *)
(* step here: module ReceiverChain shows that a call behaves as one.       *)
(*                                                                         *)
(* A user thread follows simple_transceiver (pause, transmit, resume, and  *)
(* again) or video_rx (pause once, on the way out, and never resume).      *)
(***************************************************************************)
EXTENDS Integers

CONSTANT Users   \* the threads that call pause and resume

VARIABLES sem,    \* the value of m_pause
          loop,   \* where receiver_chain_loop is
          user    \* where each user thread is

vars == <<sem, loop, user>>

Init ==
  /\ sem = 1
  /\ loop = "wait"
  /\ user = [u \in Users |-> "away"]

-----------------------------------------------------------------------------
(* receiver_chain_loop *)

\* Mutant: the loop does not wait for the semaphore, it only looks at it.
LoopPeeks ==
  /\ loop = "wait"
  /\ sem > 0
  /\ loop' = "get"
  /\ UNCHANGED <<sem, user>>

\* sem_wait(&m_pause)
LoopWait ==
  /\ loop = "wait"
  /\ sem > 0
  /\ sem' = sem - 1
  /\ loop' = "get"
  /\ UNCHANGED user

\* m_usrp.get_samples, m_rec_chain.process_samples, m_callback, one by one
LoopBody ==
  /\ \/ loop = "get" /\ loop' = "process"
     \/ loop = "process" /\ loop' = "callback"
     \/ loop = "callback" /\ loop' = "post"
  /\ UNCHANGED <<sem, user>>

\* Mutant: the iteration ends without giving the semaphore back.
LoopKeeps ==
  /\ loop = "post"
  /\ loop' = "wait"
  /\ UNCHANGED <<sem, user>>

\* sem_post(&m_pause)
LoopPost ==
  /\ loop = "post"
  /\ sem' = sem + 1
  /\ loop' = "wait"
  /\ UNCHANGED user

Loop == LoopWait \/ LoopBody \/ LoopPost

-----------------------------------------------------------------------------
(* A user thread *)

\* The thread calls pause().
CallPause(u) ==
  /\ user[u] = "away"
  /\ user' = [user EXCEPT ![u] = "pausing"]
  /\ UNCHANGED <<sem, loop>>

\* pause() gets through sem_wait(&m_pause) and returns.
Pause(u) ==
  /\ user[u] = "pausing"
  /\ sem > 0
  /\ sem' = sem - 1
  /\ user' = [user EXCEPT ![u] = "paused"]
  /\ UNCHANGED loop

\* resume(): sem_post(&m_pause)
Resume(u) ==
  /\ user[u] = "paused"
  /\ sem' = sem + 1
  /\ user' = [user EXCEPT ![u] = "away"]
  /\ UNCHANGED loop

\* The program ends with the receiver paused, as video_rx does.
Quit(u) ==
  /\ user[u] = "paused"
  /\ user' = [user EXCEPT ![u] = "gone"]
  /\ UNCHANGED <<sem, loop>>

User(u) == CallPause(u) \/ Pause(u) \/ Resume(u) \/ Quit(u)

Next == Loop \/ \E u \in Users : User(u)

Safety == Init /\ [][Next]_vars

\* The loop's thread and a thread inside pause() run when their semaphore lets
\* them.  A semaphore makes no promise to one waiter among several, so the
\* fairness is weak.
Spec == Safety /\ WF_vars(Loop) /\ \A u \in Users : WF_vars(Pause(u))

-----------------------------------------------------------------------------
(* Properties *)

\* Type invariant.  m_pause stays binary while every thread pauses before it
\* resumes (receiver.cpp:30, 46, 55, 66, 76).
TypeOK ==
  /\ sem \in {0, 1}
  /\ loop \in {"wait", "get", "process", "callback", "post"}
  /\ user \in [Users -> {"away", "pausing", "paused", "gone"}]

Holds(u) == user[u] \in {"paused", "gone"}

\* Between the return of its pause() and its resume(), a thread has the radio
\* to itself: the receiver is in no part of an iteration, and no other thread
\* is past its own pause().
HalfDuplex ==
  \A u \in Users :
    Holds(u) => /\ loop = "wait"
                /\ \A v \in Users : Holds(v) => u = v

\* The receiver does not stay stopped by mistake: once no thread is or will be
\* inside a pause, it keeps taking samples.
ReceivesAgain ==
  <>[](\A u \in Users : user[u] = "away") => []<>(loop = "get")
=============================================================================
