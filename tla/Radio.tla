--------------------------------- MODULE Radio ---------------------------------
(***************************************************************************)
(* Radio: usrp::send_burst_sync between a pause() and a resume(), as       *)
(* simple_transceiver and transmitter::send_frame use it, with the device  *)
(* behind it.  The device puts bursts on the air one after the other and   *)
(* reports to a queue of asynchronous messages: "ack" when a burst is      *)
(* over, "underflow" when samples did not come in time, and others.  The   *)
(* queue outlives the call, and every call reads whatever is in it.        *)
(***************************************************************************)
EXTENDS Receiver, Sequences

CONSTANT MaxEvents   \* bound: underflows, other messages and waits that end
                     \* with the timeout of a second

ASSUME RadioAssumption == MaxEvents \in Nat

VARIABLES call,      \* per thread, is it inside send_burst_sync?
          bursts,    \* handed to the device and not yet over
          messages,  \* for recv_async_msg
          events,
          early      \* history: calls that returned without an ack

device == <<bursts, messages, events>>
radioVars == <<vars, call, device, early>>

Event == {"ack", "underflow", "other"}

RadioInit ==
  /\ Init
  /\ call = [u \in Users |-> FALSE]
  /\ bursts = 0
  /\ messages = <<>>
  /\ events = 0
  /\ early = 0

-----------------------------------------------------------------------------
(* The device *)

\* The burst on the air is over.
BurstOver ==
  /\ bursts > 0
  /\ bursts' = bursts - 1
  /\ messages' = Append(messages, "ack")
  /\ UNCHANGED <<vars, call, events, early>>

\* Samples come late, or something else is reported.  The burst goes on.
Report ==
  /\ bursts > 0
  /\ events < MaxEvents
  /\ events' = events + 1
  /\ \E e \in Event \ {"ack"} : messages' = Append(messages, e)
  /\ UNCHANGED <<vars, call, bursts, early>>

-----------------------------------------------------------------------------
(* send_burst_sync, by a thread that holds the pause *)

Send(u) ==
  /\ user[u] = "paused"
  /\ ~call[u]
  /\ call' = [call EXCEPT ![u] = TRUE]
  /\ bursts' = bursts + 1
  /\ UNCHANGED <<vars, messages, events, early>>

\* Mutant: any message ends the wait.
EndsAny(e) == TRUE

\* Mutant: the ack does not end the wait.
EndsUnderflow(e) == e = "underflow"

\* got_ack or got_underflow: the wait ends.
Ends(e) == e \in {"ack", "underflow"}

\* recv_async_msg returns a message.
Heard(u) ==
  /\ call[u]
  /\ messages # <<>>
  /\ call' = [call EXCEPT ![u] = ~Ends(Head(messages))]
  /\ messages' = Tail(messages)
  /\ early' = IF Head(messages) = "underflow" THEN early + 1 ELSE early
  /\ UNCHANGED <<vars, bursts, events>>

\* recv_async_msg gives up after a second.
TimedOut(u) ==
  /\ call[u]
  /\ messages = <<>>
  /\ events < MaxEvents
  /\ events' = events + 1
  /\ call' = [call EXCEPT ![u] = FALSE]
  /\ early' = early + 1
  /\ UNCHANGED <<vars, bursts, messages>>

\* The receiver, and what else the threads do; a thread inside the call does
\* nothing else.
RadioLoop == Loop /\ UNCHANGED <<call, device, early>>
RadioUser(u) == User(u) /\ ~call[u] /\ UNCHANGED <<call, device, early>>

RadioNext ==
  \/ RadioLoop
  \/ BurstOver
  \/ Report
  \/ \E u \in Users : RadioUser(u) \/ Send(u) \/ Heard(u) \/ TimedOut(u)

RadioSpec ==
  /\ RadioInit /\ [][RadioNext]_radioVars
  /\ WF_radioVars(RadioLoop) /\ WF_radioVars(BurstOver)
  /\ \A u \in Users : /\ WF_radioVars(RadioUser(u) /\ Pause(u))
                      /\ WF_radioVars(Heard(u))

-----------------------------------------------------------------------------
(* Properties *)

\* The program hears itself only as far as calls came back early.  While the
\* receiver takes and processes samples, at most as many bursts are still to
\* be sent as calls returned on an underflow or after the timeout; with none
\* of these, send_burst_sync returns when its burst is over.  The debt is
\* never paid back: the ack that was not waited for is in the queue, and ends
\* the next call too soon (usrp.cpp:185-208, receiver.cpp:46-76).
OverlapBounded == loop # "wait" => bursts <= early

\* A thread inside send_burst_sync comes back, and so the receiver it has
\* paused can be resumed, and it does not take the timeout for that: there is
\* an ack for every call still to come, though calls before it came back early
\* and it may be theirs that ends it (usrp.cpp:189-208).
CallReturns == \A u \in Users : call[u] ~> ~call[u]
=============================================================================
