------------------------------ MODULE RadioProofs ------------------------------
(***************************************************************************)
(* One holder of m_pause at a time, for any set of user threads.  The      *)
(* semaphore is a lock as long as every resume() follows a pause() of the  *)
(* same thread: IInv says that the one permit is either in the semaphore,  *)
(* or with the loop, or with exactly one thread.                           *)
(*                                                                         *)
(* Radio implements Receiver, so everything proved of the semaphore holds  *)
(* with the device and send_burst_sync added; and how far the program may  *)
(* hear itself is bounded, for any set of threads and any sequence of      *)
(* messages.  The invariant behind the bound is an account: the bursts     *)
(* still to be sent and the acks not yet read are those of the call that   *)
(* waits, if any, and of the calls that came back early.                   *)
(***************************************************************************)
EXTENDS Radio, TLAPS, FiniteSetTheorems, FunctionTheorems, SequenceTheorems

-----------------------------------------------------------------------------
(* The semaphore *)

\* Where the permit is.
Permit ==
  /\ sem = 1 => loop = "wait" /\ \A u \in Users : ~Holds(u)
  /\ loop # "wait" => \A u \in Users : ~Holds(u)
  /\ \A u, v \in Users : Holds(u) /\ Holds(v) => u = v

IInv == TypeOK /\ Permit

\* The permit invariant is inductive.
LEMMA PermitInductive == (Init => IInv) /\ (IInv /\ [Next]_vars => IInv')
<1>1. Init => IInv
  BY DEF Init, IInv, TypeOK, Permit, Holds
<1>2. ASSUME IInv, [Next]_vars PROVE IInv'
  <2> USE <1>2 DEF IInv, TypeOK, Permit, Holds
  <2>1. CASE LoopWait
    BY <2>1 DEF LoopWait
  <2>2. CASE LoopBody
    BY <2>2 DEF LoopBody
  <2>3. CASE LoopPost
    BY <2>3 DEF LoopPost
  <2>4. ASSUME NEW u \in Users, CallPause(u) PROVE IInv'
    BY <2>4 DEF CallPause
  <2>5. ASSUME NEW u \in Users, Pause(u) PROVE IInv'
    BY <2>5 DEF Pause
  <2>6. ASSUME NEW u \in Users, Resume(u) PROVE IInv'
    BY <2>6 DEF Resume
  <2>7. ASSUME NEW u \in Users, Quit(u) PROVE IInv'
    BY <2>7 DEF Quit
  <2>8. CASE UNCHANGED vars
    BY <2>8 DEF vars
  <2> QED
    BY <1>2, <2>1, <2>2, <2>3, <2>4, <2>5, <2>6, <2>7, <2>8 DEF Next, Loop, User
<1> QED BY <1>1, <1>2

\* The semaphore is binary and every thread is at a known place.
THEOREM ReceiverTypeOK == Safety => []TypeOK
<1>1. IInv => TypeOK
  BY DEF IInv
<1> QED BY <1>1, PermitInductive, PTL DEF Safety

\* A thread that has paused the receiver has the radio to itself.
THEOREM ReceiverHalfDuplex == Safety => []HalfDuplex
<1>1. IInv => HalfDuplex
  BY DEF IInv, TypeOK, Permit, HalfDuplex
<1> QED BY <1>1, PermitInductive, PTL DEF Safety

-----------------------------------------------------------------------------
(* The acks in the queue of messages *)

Acks(s) == {i \in 1 .. Len(s) : s[i] = "ack"}

LEMMA AcksFinite ==
  ASSUME NEW s \in Seq(Event)
  PROVE  IsFiniteSet(Acks(s)) /\ Cardinality(Acks(s)) \in Nat
<1>1. Acks(s) \in SUBSET (1 .. Len(s)) /\ Len(s) \in Int
  BY DEF Acks
<1>2. IsFiniteSet(1 .. Len(s))
  BY <1>1, FS_Interval
<1> QED
  BY <1>1, <1>2, FS_Subset, FS_CardinalityType

\* A message that arrives adds itself.
LEMMA AcksAppend ==
  ASSUME NEW s \in Seq(Event), NEW e \in Event
  PROVE  /\ Append(s, e) \in Seq(Event)
         /\ Cardinality(Acks(Append(s, e))) =
              Cardinality(Acks(s)) + (IF e = "ack" THEN 1 ELSE 0)
<1>1. /\ Append(s, e) \in Seq(Event)
      /\ Len(Append(s, e)) = Len(s) + 1
      /\ Len(s) \in Nat
      /\ \A i \in 1 .. Len(s) : Append(s, e)[i] = s[i]
      /\ Append(s, e)[Len(s) + 1] = e
  OBVIOUS
<1>2. Len(s) + 1 \notin Acks(s)
  BY <1>1 DEF Acks
<1>3. CASE e = "ack"
  <2>1. Acks(Append(s, e)) = Acks(s) \cup {Len(s) + 1}
    BY <1>1, <1>3 DEF Acks
  <2> QED
    BY <1>1, <1>2, <1>3, <2>1, AcksFinite, FS_AddElement
<1>4. CASE e # "ack"
  <2>1. Acks(Append(s, e)) = Acks(s)
    BY <1>1, <1>4 DEF Acks
  <2> QED
    BY <1>1, <1>4, <2>1, AcksFinite
<1> QED
  BY <1>3, <1>4

\* A message that is read takes itself away.
LEMMA AcksTail ==
  ASSUME NEW s \in Seq(Event), s # <<>>
  PROVE  /\ Tail(s) \in Seq(Event) /\ Head(s) \in Event
         /\ Cardinality(Acks(Tail(s))) =
              Cardinality(Acks(s)) - (IF Head(s) = "ack" THEN 1 ELSE 0)
<1>1. /\ Tail(s) \in Seq(Event) /\ Head(s) \in Event
      /\ Len(s) \in Nat \ {0}
      /\ Len(Tail(s)) = Len(s) - 1
      /\ \A i \in 1 .. Len(Tail(s)) : Tail(s)[i] = s[i + 1]
      /\ Head(s) = s[1]
  BY HeadTailProperties, EmptySeq
<1> DEFINE rest == Acks(s) \ {1}
           f == [i \in Acks(Tail(s)) |-> i + 1]
<1>2. f \in Bijection(Acks(Tail(s)), rest)
  <2>1. \A i \in Acks(Tail(s)) : i + 1 \in rest
    BY <1>1 DEF Acks
  <2>2. \A j \in rest : j - 1 \in Acks(Tail(s)) /\ f[j - 1] = j
    BY <1>1 DEF Acks
  <2>3. \A i, j \in Acks(Tail(s)) : f[i] = f[j] => i = j
    BY DEF Acks
  <2>4. f \in [Acks(Tail(s)) -> rest]
    BY <2>1
  <2>5. \A j \in rest : \E i \in Acks(Tail(s)) : f[i] = j
    BY <2>2
  <2> HIDE DEF f, rest
  <2> QED
    BY <2>3, <2>4, <2>5, Fun_IsBij
<1>3. Cardinality(rest) = Cardinality(Acks(Tail(s)))
  BY <1>1, <1>2, AcksFinite, FS_Bijection DEF ExistsBijection
<1>4. 1 \in Acks(s) <=> Head(s) = "ack"
  BY <1>1 DEF Acks
<1>5. Cardinality(rest) = IF 1 \in Acks(s) THEN Cardinality(Acks(s)) - 1
                                           ELSE Cardinality(Acks(s))
  BY AcksFinite, FS_RemoveElement
<1> QED
  BY <1>1, <1>3, <1>4, <1>5, AcksFinite

-----------------------------------------------------------------------------
(* Radio implements Receiver *)

LEMMA RadioStep == [RadioNext]_radioVars => [Next]_vars
BY DEF RadioNext, RadioLoop, BurstOver, Report, RadioUser, Send, Heard, TimedOut,
       Next, radioVars, vars

LEMMA RadioStart == RadioInit => Init
BY DEF RadioInit

\* The threads, the semaphore and the loop behave as Receiver says, whatever the
\* device reports and whenever calls come back (receiver.cpp:46-76,
\* usrp.cpp:172-208).
THEOREM RadioImplementsReceiver == RadioSpec => Safety
BY RadioStep, RadioStart, PTL DEF RadioSpec, Safety

\* A thread that has paused the receiver has the radio to itself, with its burst
\* on the way and its messages late (receiver.cpp:46-76).
THEOREM RadioHalfDuplex == RadioSpec => []HalfDuplex
BY RadioImplementsReceiver, ReceiverHalfDuplex, PTL

-----------------------------------------------------------------------------
(* The account *)

InCall == IF \E u \in Users : call[u] THEN 1 ELSE 0

RadioTyped ==
  /\ call \in [Users -> BOOLEAN]
  /\ bursts \in Nat
  /\ messages \in Seq(Event)
  /\ early \in Nat

CallerPaused == \A u \in Users : call[u] => user[u] = "paused"

Account == bursts + Cardinality(Acks(messages)) = early + InCall

RadioInv == RadioTyped /\ CallerPaused /\ Account

\* Only one thread at a time is in a call.
LEMMA OneCaller ==
  ASSUME IInv, CallerPaused
  PROVE  \A u, v \in Users : call[u] /\ user[v] = "paused" => u = v
BY DEF IInv, Permit, Holds, CallerPaused

\* The account holds when the program starts.
LEMMA AccountOpens == RadioInit => RadioInv
<1> SUFFICES ASSUME RadioInit PROVE RadioInv
  OBVIOUS
<1>1. <<>> \in Seq(Event) /\ Acks(<<>>) = {}
  BY DEF Acks
<1>2. Cardinality(Acks(<<>>)) = 0
  BY <1>1, FS_EmptySet
<1>3. call = [u \in Users |-> FALSE] /\ bursts = 0 /\ messages = <<>> /\ early = 0
  BY DEF RadioInit
<1>4. InCall = 0
  BY <1>3 DEF InCall
<1> QED
  BY <1>1, <1>2, <1>3, <1>4 DEF RadioInv, RadioTyped, CallerPaused, Account

\* Every step keeps it.
LEMMA AccountKept == IInv /\ RadioInv /\ [RadioNext]_radioVars => RadioInv'
<1> SUFFICES ASSUME IInv, RadioInv, [RadioNext]_radioVars PROVE RadioInv'
  OBVIOUS
<1> USE DEF RadioInv, RadioTyped
<1>t. TypeOK
  BY DEF IInv
<1>c. Cardinality(Acks(messages)) \in Nat
  BY AcksFinite
<1>1. CASE RadioLoop
  <2>1. UNCHANGED <<user, call, bursts, messages, early>>
    BY <1>1 DEF RadioLoop, Loop, LoopWait, LoopBody, LoopPost, device
  <2> QED
    BY <2>1 DEF CallerPaused, Account, InCall
<1>2. CASE BurstOver
  <2>1. Cardinality(Acks(messages')) = Cardinality(Acks(messages)) + 1
        /\ messages' \in Seq(Event)
    BY <1>2, AcksAppend DEF BurstOver, Event
  <2>2. InCall' = InCall /\ InCall \in Nat
    BY <1>2 DEF BurstOver, InCall
  <2>3. bursts' = bursts - 1 /\ bursts' \in Nat /\ UNCHANGED <<user, call, early>>
    BY <1>2 DEF BurstOver, vars
  <2>4. Account'
    BY <1>c, <2>1, <2>2, <2>3 DEF Account
  <2>5. CallerPaused'
    BY <2>3 DEF CallerPaused
  <2> QED
    BY <2>1, <2>3, <2>4, <2>5
<1>3. CASE Report
  <2>1. Cardinality(Acks(messages')) = Cardinality(Acks(messages))
        /\ messages' \in Seq(Event)
    BY <1>3, <1>c, AcksAppend DEF Report, Event
  <2>2. UNCHANGED <<user, call, bursts, early>>
    BY <1>3 DEF Report, vars
  <2> QED
    BY <2>1, <2>2 DEF CallerPaused, Account, InCall
<1>4. ASSUME NEW u \in Users, RadioUser(u) PROVE RadioInv'
  <2>1. ~call[u] /\ UNCHANGED <<call, bursts, messages, early>>
    BY <1>4 DEF RadioUser, device
  <2>2. \A v \in Users : v # u => user'[v] = user[v]
    BY <1>4, <1>t DEF RadioUser, User, CallPause, Pause, Resume, Quit, TypeOK
  <2> QED
    BY <2>1, <2>2 DEF CallerPaused, Account, InCall
<1>5. ASSUME NEW u \in Users, Send(u) PROVE RadioInv'
  <2>1. \A v \in Users : ~call[v]
    BY <1>5, OneCaller DEF Send
  <2>2. call' = [call EXCEPT ![u] = TRUE] /\ bursts' = bursts + 1
        /\ UNCHANGED <<user, messages, early>> /\ user[u] = "paused"
    BY <1>5 DEF Send, vars
  <2>3. InCall = 0 /\ InCall' = 1
    BY <2>1, <2>2 DEF InCall
  <2> QED
    BY <1>c, <2>1, <2>2, <2>3 DEF CallerPaused, Account
<1>6. ASSUME NEW u \in Users, Heard(u) PROVE RadioInv'
  <2> DEFINE m == Head(messages)
  <2>1. /\ call[u] /\ messages # <<>> /\ messages' = Tail(messages)
        /\ call' = [call EXCEPT ![u] = ~Ends(m)]
        /\ early' = IF m = "underflow" THEN early + 1 ELSE early
        /\ UNCHANGED <<user, bursts>>
    BY <1>6 DEF Heard, vars
  <2>2. /\ messages' \in Seq(Event) /\ m \in Event
        /\ Cardinality(Acks(messages')) =
             Cardinality(Acks(messages)) - (IF m = "ack" THEN 1 ELSE 0)
    BY <2>1, AcksTail
  <2>3. \A v \in Users : v # u => ~call[v] /\ ~call'[v]
    BY <2>1, OneCaller DEF CallerPaused
  <2>4. InCall = 1 /\ InCall' = IF Ends(m) THEN 0 ELSE 1
    BY <2>1, <2>3 DEF InCall
  <2>5. CallerPaused'
    BY <2>1, <2>3 DEF CallerPaused
  <2>6. call' \in [Users -> BOOLEAN]
    BY <2>1 DEF Ends
  <2>7. Account' /\ early' \in Nat
    BY <1>c, <2>1, <2>2, <2>4, SMTT(30) DEF Account, Ends, Event
  <2> QED
    BY <2>1, <2>2, <2>5, <2>6, <2>7
<1>7. ASSUME NEW u \in Users, TimedOut(u) PROVE RadioInv'
  <2>1. /\ call[u] /\ call' = [call EXCEPT ![u] = FALSE]
        /\ early' = early + 1
        /\ UNCHANGED <<user, bursts, messages>>
    BY <1>7 DEF TimedOut, vars
  <2>2. \A v \in Users : v # u => ~call[v] /\ ~call'[v]
    BY <2>1, OneCaller DEF CallerPaused
  <2>3. InCall = 1 /\ InCall' = 0
    BY <2>1, <2>2 DEF InCall
  <2> QED
    BY <1>c, <2>1, <2>2, <2>3 DEF CallerPaused, Account
<1>8. CASE UNCHANGED radioVars
  BY <1>8 DEF radioVars, vars, device, CallerPaused, Account, InCall
<1> QED
  BY <1>1, <1>2, <1>3, <1>4, <1>5, <1>6, <1>7, <1>8 DEF RadioNext

\* While the receiver runs, at most as many bursts are still to be sent as calls
\* came back early, for ever and for any sequence of underflows, timeouts and
\* other messages (usrp.cpp:185-208).
THEOREM RadioOverlapBounded == RadioSpec => []OverlapBounded
<1>1. IInv /\ RadioInv => OverlapBounded
  <2> SUFFICES ASSUME IInv, RadioInv, loop # "wait" PROVE bursts <= early
    BY DEF OverlapBounded
  <2>1. \A u \in Users : ~call[u]
    BY DEF IInv, Permit, Holds, RadioInv, CallerPaused
  <2>2. InCall = 0
    BY <2>1 DEF InCall
  <2> QED
    BY <2>2, AcksFinite DEF RadioInv, RadioTyped, Account
<1>2. Init => IInv
  BY PermitInductive
<1>3. IInv /\ [Next]_vars => IInv'
  BY PermitInductive
<1> QED
  BY <1>1, <1>2, <1>3, RadioStart, RadioStep, AccountOpens, AccountKept, PTL
     DEF RadioSpec
=============================================================================
