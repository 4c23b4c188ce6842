------------------------- MODULE ReceiverChainProofs -------------------------
(***************************************************************************)
(* The chain's invariants and its refinement of the delay line, for every  *)
(* number of blocks and of calls.                                          *)
(*                                                                         *)
(* NoRace and ConsumedOnce are not inductive: why a block in work() sees a *)
(* fresh batch depends on what every swap left in every buffer.  IInv says *)
(* exactly that: in round `fed`, block i works on batch fed - i + 1.  Each *)
(* block is in one of four stages of the round (not woken, woken, worked,  *)
(* collected), and IInv ties the semaphores, the thread and the buffers of *)
(* the block to its stage.                                                 *)
(***************************************************************************)
EXTENDS ReceiverChain, TLAPS

\* The block's thread sleeps on its semaphore and nothing is posted for it.
Quiet(i) == thread[i] = "waiting" /\ wake[i] = 0 /\ done[i] = 0

\* What block i holds in round fed before its work() ...
Before(i) ==
  /\ last[i] = Lag(fed - i)
  /\ output[i] = Lag(fed - i) \/ output[i] = Lag(fed - i - 1)

\* ... and after it.
After(i) == last[i] = Lag(fed - i + 1) /\ output[i] = Lag(fed - i + 1)

Asleep(i) == Quiet(i) /\ Before(i)
Collected(i) == Quiet(i) /\ After(i)
Woken(i) ==
  /\ done[i] = 0
  /\ Before(i)
  /\ \/ thread[i] = "waiting" /\ wake[i] = 1
     \/ thread[i] = "working" /\ wake[i] = 0
Worked(i) ==
  /\ wake[i] = 0
  /\ After(i)
  /\ \/ thread[i] = "finished" /\ done[i] = 0
     \/ thread[i] = "waiting" /\ done[i] = 1

Posting ==
  pc = "post" =>
    \A i \in Blocks :
      /\ input[i] = Lag(fed - i + 1)
      /\ IF i < x THEN Woken(i) \/ Worked(i) ELSE Asleep(i)

Waiting ==
  pc = "wait" =>
    \A i \in Blocks :
      /\ input[i] = Lag(fed - i + 1)
      /\ IF i < x THEN Collected(i) ELSE Woken(i) \/ Worked(i)

Swapping ==
  pc = "swap" =>
    /\ x < N
    /\ \A i \in Blocks :
         /\ Quiet(i)
         /\ last[i] = Lag(fed - i + 1)
         /\ output[i] = IF i < x THEN Lag(fed - i) ELSE Lag(fed - i + 1)
         /\ i > 1 => input[i] = IF i <= x THEN Lag(fed - i + 2) ELSE Lag(fed - i + 1)

Resting ==
  pc \in {"return", "idle"} =>
    \A i \in Blocks :
      /\ Quiet(i)
      /\ last[i] = Lag(fed - i + 1)
      /\ output[i] = IF i < N THEN Lag(fed - i) ELSE Lag(fed - i + 1)
      /\ i > 1 => input[i] = Lag(fed - i + 2)

IInv == TypeOK /\ Posting /\ Waiting /\ Swapping /\ Resting

-----------------------------------------------------------------------------

\* The initial state satisfies the invariant: the pipeline is empty.
LEMMA InitIInv == Init => IInv
<1> SUFFICES ASSUME Init PROVE IInv
  OBVIOUS
<1> USE ChainAssumption DEF Init, Blocks, Batch, Lag
<1>1. TypeOK
  BY DEF TypeOK
<1>2. Posting /\ Waiting /\ Swapping
  BY DEF Posting, Waiting, Swapping
<1>3. Resting
  BY DEF Resting, Quiet
<1> QED BY <1>1, <1>2, <1>3 DEF IInv

\* Every step of the caller and of every thread preserves the invariant.
LEMMA NextIInv == IInv /\ [Next]_vars => IInv'
<1> SUFFICES ASSUME IInv, [Next]_vars PROVE IInv'
  OBVIOUS
<1> USE ChainAssumption DEF IInv, Blocks, Batch
<1>1. CASE Feed
  <2> USE <1>1 DEF Feed, TypeOK
  <2>1. TypeOK'
    OBVIOUS
  <2>2. (Waiting /\ Swapping /\ Resting)'
    BY DEF Waiting, Swapping, Resting
  <2>3. Posting'
    BY DEF Posting, Resting, Asleep, Quiet, Before, Lag
  <2> QED BY <2>1, <2>2, <2>3
<1>2. CASE PostWake
  <2>0. PICK k \in 1 .. N : k = x
    BY DEF TypeOK
  <2>1. pc = "post" /\ x \in 1 .. N /\ Asleep(x) /\ wake[x] = 0
    BY <1>2 DEF PostWake, TypeOK, Posting, Asleep, Quiet
  <2>2. /\ wake' = [wake EXCEPT ![x] = 1]
        /\ x' \in 1 .. N
        /\ \/ x < N /\ x' = x + 1 /\ pc' = "post"
           \/ x = N /\ x' = 1 /\ pc' = "wait"
        /\ UNCHANGED <<done, thread, input, output, fed, ret, last>>
    BY <1>2, <2>1 DEF PostWake
  <2>3. TypeOK'
    BY <2>2 DEF TypeOK
  <2>4. Woken(k)'
    BY <2>0, <2>1, <2>2 DEF TypeOK, Asleep, Quiet, Woken, Before
  <2>5. ASSUME NEW i \in 1 .. N, i # k
        PROVE  /\ Woken(i)' <=> Woken(i)
               /\ Worked(i)' <=> Worked(i)
               /\ Asleep(i)' <=> Asleep(i)
    BY <2>0, <2>1, <2>2, <2>5 DEF TypeOK, Woken, Worked, Asleep, Quiet, Before, After
  <2>6. Posting' /\ Waiting'
    BY <2>0, <2>1, <2>2, <2>4, <2>5 DEF Posting, Waiting
  <2>7. Swapping' /\ Resting'
    BY <2>2 DEF Swapping, Resting
  <2> QED BY <2>3, <2>6, <2>7
<1>3. CASE WaitDone
  <2>0. PICK k \in 1 .. N : k = x
    BY DEF TypeOK
  <2>1. pc = "wait" /\ x \in 1 .. N /\ Worked(x) /\ done[x] = 1
    BY <1>3 DEF WaitDone, TypeOK, Waiting, Woken, Worked
  <2>2. /\ done' = [done EXCEPT ![x] = 0]
        /\ x' \in 1 .. N
        /\ \/ x < N /\ x' = x + 1 /\ pc' = "wait"
           \/ x = N /\ x' = 1 /\ pc' = "swap"
        /\ UNCHANGED <<wake, thread, input, output, fed, ret, last>>
    BY <1>3, <2>1 DEF WaitDone
  <2>3. TypeOK'
    BY <2>2 DEF TypeOK
  <2>4. Collected(k)'
    BY <2>0, <2>1, <2>2 DEF TypeOK, Worked, Collected, Quiet, After
  <2>5. ASSUME NEW i \in 1 .. N, i # k
        PROVE  /\ Woken(i)' <=> Woken(i)
               /\ Worked(i)' <=> Worked(i)
               /\ Collected(i)' <=> Collected(i)
    BY <2>0, <2>1, <2>2, <2>5 DEF TypeOK, Woken, Worked, Collected, Quiet, Before, After
  <2>6. Posting' /\ Waiting' /\ Resting'
    BY <2>0, <2>1, <2>2, <2>4, <2>5 DEF Posting, Waiting, Resting
  <2>7. Swapping'
    <3> SUFFICES ASSUME pc' = "swap" PROVE Swapping'
      BY DEF Swapping
    <3>1. \A i \in 1 .. N : Collected(i)' /\ input'[i] = Lag(fed' - i + 1)
      BY <2>0, <2>1, <2>2, <2>4, <2>5 DEF Waiting
    <3> QED BY <2>2, <3>1 DEF Swapping, Collected, After
  <2> QED BY <2>3, <2>6, <2>7
<1>4. CASE Swap
  <2>1. pc = "swap" /\ x \in 1 .. N - 1 /\ x + 1 \in 1 .. N /\ fed \in Nat
    BY <1>4 DEF Swap, TypeOK, Swapping
  <2>2. /\ input' = [input EXCEPT ![x + 1] = Lag(fed - x + 1)]
        /\ output' = [output EXCEPT ![x] = Lag(fed - x)]
        /\ x' \in 1 .. N
        /\ \/ x < N - 1 /\ x' = x + 1 /\ pc' = "swap"
           \/ x = N - 1 /\ x' = 1 /\ pc' = "return"
        /\ UNCHANGED <<wake, done, thread, fed, ret, last>>
    <3>1. output[x] = Lag(fed - x + 1)
      BY <2>1 DEF Swapping
    <3>2. input[x + 1] = Lag(fed - x)
      BY <2>1 DEF Swapping, Lag
    <3>3. /\ input' = [input EXCEPT ![x + 1] = Lag(fed - x + 1)]
          /\ output' = [output EXCEPT ![x] = Lag(fed - x)]
      BY <1>4, <3>1, <3>2 DEF Swap
    <3>4. /\ x' \in 1 .. N
          /\ \/ x < N - 1 /\ x' = x + 1 /\ pc' = "swap"
             \/ x = N - 1 /\ x' = 1 /\ pc' = "return"
          /\ UNCHANGED <<wake, done, thread, fed, ret, last>>
      BY <1>4, <2>1 DEF Swap
    <3> QED BY <3>3, <3>4
  <2>3. TypeOK'
    <3>1. Lag(fed - x) \in Batch /\ Lag(fed - x + 1) \in Batch
      BY <2>1 DEF TypeOK, Lag
    <3>2. input' \in [Blocks -> Batch] /\ output' \in [Blocks -> Batch]
      BY <2>2, <3>1 DEF TypeOK
    <3> QED BY <2>2, <3>2 DEF TypeOK
  <2>4. (Posting /\ Waiting)'
    BY <2>2 DEF Posting, Waiting
  <2>5. ASSUME NEW i \in 1 .. N
        PROVE  /\ output'[i] = IF i <= x THEN Lag(fed - i) ELSE Lag(fed - i + 1)
               /\ i > 1 => input'[i] = IF i <= x + 1 THEN Lag(fed - i + 2)
                                                  ELSE Lag(fed - i + 1)
    <3>0. /\ output[i] = IF i < x THEN Lag(fed - i) ELSE Lag(fed - i + 1)
          /\ i > 1 => input[i] = IF i <= x THEN Lag(fed - i + 2) ELSE Lag(fed - i + 1)
      BY <2>1 DEF Swapping
    <3>1. output'[i] = IF i <= x THEN Lag(fed - i) ELSE Lag(fed - i + 1)
      <4>1. CASE i = x
        BY <2>1, <2>2, <4>1 DEF TypeOK
      <4>2. CASE i # x
        <5>1. output'[i] = output[i]
          BY <2>1, <2>2, <4>2 DEF TypeOK
        <5> QED BY <2>1, <3>0, <4>2, <5>1
      <4> QED BY <4>1, <4>2
    <3>2. CASE i = x + 1
      BY <2>1, <2>2, <3>1, <3>2 DEF TypeOK, Lag
    <3>3. CASE i # x + 1
      <4>1. input'[i] = input[i]
        BY <2>1, <2>2, <3>3 DEF TypeOK
      <4> QED BY <2>1, <3>0, <3>1, <3>3, <4>1
    <3> QED BY <3>2, <3>3
  <2>6. Swapping'
    BY <2>1, <2>2, <2>5 DEF Swapping, Quiet
  <2>7. Resting'
    BY <2>1, <2>2, <2>5 DEF Swapping, Resting, Quiet
  <2> QED BY <2>3, <2>4, <2>6, <2>7
<1>5. CASE Return
  <2> USE <1>5 DEF Return, TypeOK
  <2>1. TypeOK'
    OBVIOUS
  <2>2. (Posting /\ Waiting /\ Swapping)'
    BY DEF Posting, Waiting, Swapping
  <2>3. Resting'
    BY DEF Resting, Quiet
  <2> QED BY <2>1, <2>2, <2>3
<1>6. ASSUME NEW i \in Blocks, RunBlock(i) PROVE IInv'
  <2>1. pc \in {"post", "wait"} /\ (Woken(i) \/ Worked(i))
    <3>1. ~Quiet(i)
      BY <1>6 DEF RunBlock, Wake, Work, PostDone, Quiet
    <3>2. pc \in {"post", "wait"}
      BY <3>1 DEF TypeOK, Swapping, Resting
    <3> QED BY <3>1, <3>2 DEF Posting, Waiting, Asleep, Collected
  <2>2. pc' = pc /\ x' = x /\ fed' = fed /\ input' = input
    BY <1>6 DEF RunBlock, Wake, Work, PostDone
  <2>3. input[i] = Lag(fed - i + 1)
    BY <2>1 DEF Posting, Waiting
  <2>4. (Woken(i) \/ Worked(i))' /\ TypeOK'
    <3>1. CASE Wake(i)
      BY <2>1, <3>1, SMTT(30) DEF Wake, TypeOK, Woken, Worked, Before
    <3>2. CASE Work(i)
      <4>1. thread[i] = "working" /\ Woken(i)
        BY <2>1, <3>2 DEF Work, Worked
      <4>2. input[i] \in Batch /\ fed \in Nat
        BY DEF TypeOK
      <4>3. TypeOK'
        BY <3>2, <4>2 DEF Work, TypeOK
      <4>4. CASE input[i] = 0
        BY <2>3, <3>2, <4>1, <4>2, <4>4 DEF Work, TypeOK, Woken, Worked, Before, After, Lag
      <4>5. CASE input[i] # 0
        BY <2>3, <3>2, <4>1, <4>2, <4>5 DEF Work, TypeOK, Woken, Worked, After
      <4> QED BY <4>3, <4>4, <4>5
    <3>3. CASE PostDone(i)
      BY <2>1, <3>3, SMTT(30) DEF PostDone, TypeOK, Woken, Worked, After
    <3> QED BY <1>6, <3>1, <3>2, <3>3 DEF RunBlock
  <2>5. ASSUME NEW j \in Blocks, j # i
        PROVE  /\ thread'[j] = thread[j] /\ wake'[j] = wake[j]
               /\ done'[j] = done[j] /\ output'[j] = output[j]
               /\ last'[j] = last[j]
    BY <1>6, <2>5, SMTT(30) DEF RunBlock, Wake, Work, PostDone, TypeOK
  <2>6. (Posting /\ Waiting)'
    <3>1. ASSUME NEW j \in 1 .. N, j # i
          PROVE  /\ Woken(j)' <=> Woken(j)
                 /\ Worked(j)' <=> Worked(j)
                 /\ Collected(j)' <=> Collected(j)
                 /\ Asleep(j)' <=> Asleep(j)
      BY <2>2, <2>5, <3>1 DEF Woken, Worked, Collected, Asleep, Quiet, Before, After
    <3>2. pc = "post" => i < x
      BY <1>6 DEF RunBlock, Wake, Work, PostDone, Posting, Asleep, Quiet
    <3>3. pc = "wait" => ~(i < x)
      BY <1>6 DEF RunBlock, Wake, Work, PostDone, Waiting, Collected, Quiet
    <3> QED BY <2>1, <2>2, <2>4, <3>1, <3>2, <3>3 DEF Posting, Waiting
  <2>7. (Swapping /\ Resting)'
    BY <2>1, <2>2 DEF Swapping, Resting
  <2> QED BY <2>4, <2>6, <2>7
<1>7. CASE UNCHANGED vars
  BY <1>7, SMTT(30) DEF vars, TypeOK, Posting, Waiting, Swapping, Resting, Asleep,
     Collected, Woken, Worked, Quiet, Before, After
<1> QED BY <1>1, <1>2, <1>3, <1>4, <1>5, <1>6, <1>7 DEF Next, Caller

\* The invariant holds throughout every behaviour of the chain.
THEOREM ChainInvariant == Safety => []IInv
BY InitIInv, NextIInv, PTL DEF Safety

\* The semaphores stay binary and every buffer holds a batch that was fed.
THEOREM ChainTypeOK == Safety => []TypeOK
<1>1. IInv => TypeOK
  BY DEF IInv
<1> QED BY <1>1, ChainInvariant, PTL

\* No work() runs while process_samples touches the buffers.
THEOREM ChainNoRace == Safety => []NoRace
<1>1. IInv => NoRace
  BY DEF IInv, NoRace, Swapping, Resting, Quiet
<1> QED BY <1>1, ChainInvariant, PTL

\* Every block consumes every batch exactly once, in order.
THEOREM ChainConsumedOnce == Safety => []ConsumedOnce
<1>1. IInv => ConsumedOnce
  <2> SUFFICES ASSUME IInv, NEW i \in Blocks, thread[i] = "working", input[i] # 0
               PROVE  input[i] = last[i] + 1
    BY DEF ConsumedOnce
  <2>1. Before(i) /\ input[i] = Lag(fed - i + 1)
    BY ChainAssumption DEF IInv, TypeOK, Posting, Waiting, Swapping, Resting, Asleep,
       Collected, Woken, Worked, Quiet
  <2> QED BY <2>1, ChainAssumption DEF Before, Lag, IInv, TypeOK, Blocks, Batch
<1> QED BY <1>1, ChainInvariant, PTL

\* receiver_chain implements the delay line: a call returns the packets of
\* the batch handed over N - 1 calls before, whatever order the threads ran in.
THEOREM ChainImplementsDelayLine == Safety => DelaySafety
<1>1. Init => Delay!Init
  BY DEF Init, Delay!Init
<1>2. IInv /\ [Next]_vars => [Delay!Next]_Delay!vars
  <2> SUFFICES ASSUME IInv, [Next]_vars PROVE [Delay!Next]_Delay!vars
    OBVIOUS
  <2>1. CASE Feed
    BY <2>1 DEF Feed, Delay!Next, Delay!Call
  <2>2. CASE Return
    <3>1. output[N] = Lag(fed - N + 1)
      BY <2>2, ChainAssumption DEF Return, IInv, Resting, Blocks
    <3>2. fed - N + 1 = fed - (N - 1)
      BY ChainAssumption DEF IInv, TypeOK, Batch
    <3> QED BY <2>2, <3>1, <3>2 DEF Return, Delay!Next, Delay!Return, Lag, Delay!Lag
  <2>3. CASE PostWake \/ WaitDone \/ Swap
    BY <2>3 DEF PostWake, WaitDone, Swap, Delay!vars
  <2>4. ASSUME NEW i \in Blocks, RunBlock(i) PROVE UNCHANGED Delay!vars
    BY <2>4 DEF RunBlock, Wake, Work, PostDone, Delay!vars
  <2>5. CASE UNCHANGED vars
    BY <2>5 DEF vars, Delay!vars
  <2> QED BY <2>1, <2>2, <2>3, <2>4, <2>5 DEF Next, Caller
<1> QED BY <1>1, <1>2, ChainInvariant, PTL DEF Safety, DelaySafety, Delay!Safety
=============================================================================
