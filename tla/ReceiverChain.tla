---------------------------- MODULE ReceiverChain ----------------------------
(***************************************************************************)
(* receiver_chain: one thread per block, a wake and a done semaphore per   *)
(* block, and the caller's thread, which runs process_samples.             *)
(*                                                                         *)
(* A buffer holds the samples (or symbols, or packets) of one batch: it is *)
(* abstracted to the number of the call that fed that batch, 0 when it has *)
(* no items.  work() takes two steps, so that a swap between them would be *)
(* seen, and leaves its output alone when its input is empty: the early    *)
(* return that every block of the chain starts with.                       *)
(***************************************************************************)
EXTENDS Integers

CONSTANTS N,             \* the number of blocks (the code adds 6)
          MaxCalls       \* bound: calls of process_samples

ASSUME ChainAssumption ==
  /\ N \in Nat /\ N >= 2
  /\ MaxCalls \in Nat

Blocks == 1 .. N
Batch == 0 .. MaxCalls

VARIABLES pc,       \* where the caller is in process_samples
          x,        \* its loop index
          wake,     \* m_wake_sems
          done,     \* m_done_sems
          thread,   \* where each block's thread is in run_block
          input,    \* each block's input_buffer
          output,   \* each block's output_buffer
          fed,      \* calls made so far
          ret,      \* the last return value
          last      \* history: the last batch each block's work() consumed

vars == <<pc, x, wake, done, thread, input, output, fed, ret, last>>

Lag(n) == IF n > 0 THEN n ELSE 0

Init ==
  /\ pc = "idle"
  /\ x = 1
  /\ wake = [i \in Blocks |-> 0]
  /\ done = [i \in Blocks |-> 0]
  /\ thread = [i \in Blocks |-> "waiting"]
  /\ input = [i \in Blocks |-> 0]
  /\ output = [i \in Blocks |-> 0]
  /\ fed = 0
  /\ ret = 0
  /\ last = [i \in Blocks |-> 0]

-----------------------------------------------------------------------------
(* The caller: process_samples. *)

\* Mutant: an empty vector is fed (a flush call, a read that gave nothing).
FeedMaybeEmpty ==
  /\ pc = "idle"
  /\ fed < MaxCalls
  /\ fed' = fed + 1
  /\ \E batch \in {0, fed + 1} : input' = [input EXCEPT ![1] = batch]
  /\ pc' = "post"
  /\ x' = 1
  /\ UNCHANGED <<wake, done, thread, output, ret, last>>

\* m_frame_detector->input_buffer.swap(samples), samples not empty: the callers
\* pass NUM_RX_SAMPLES samples, or a chunk of a recording that is not exhausted
Feed ==
  /\ pc = "idle"
  /\ fed < MaxCalls
  /\ fed' = fed + 1
  /\ input' = [input EXCEPT ![1] = fed + 1]
  /\ pc' = "post"
  /\ x' = 1
  /\ UNCHANGED <<wake, done, thread, output, ret, last>>

\* sem_post(&m_wake_sems[x]), in index order
PostWake ==
  /\ pc = "post"
  /\ wake' = [wake EXCEPT ![x] = @ + 1]
  /\ IF x < N THEN x' = x + 1 /\ UNCHANGED pc
              ELSE x' = 1 /\ pc' = "wait"
  /\ UNCHANGED <<done, thread, input, output, fed, ret, last>>

\* Mutant: the loop over the done semaphores stops one short.
WaitDoneShort ==
  /\ pc = "wait"
  /\ done[x] > 0
  /\ done' = [done EXCEPT ![x] = @ - 1]
  /\ IF x < N - 1 THEN x' = x + 1 /\ UNCHANGED pc
                  ELSE x' = 1 /\ pc' = "swap"
  /\ UNCHANGED <<wake, thread, input, output, fed, ret, last>>

\* sem_wait(&m_done_sems[x]), in index order
WaitDone ==
  /\ pc = "wait"
  /\ done[x] > 0
  /\ done' = [done EXCEPT ![x] = @ - 1]
  /\ IF x < N THEN x' = x + 1 /\ UNCHANGED pc
              ELSE x' = 1 /\ pc' = "swap"
  /\ UNCHANGED <<wake, thread, input, output, fed, ret, last>>

\* Mutant: a copy down the chain that leaves one buffer unswapped.
SwapSkipsSecond ==
  /\ pc = "swap"
  /\ IF x = 2 THEN UNCHANGED <<input, output>>
     ELSE /\ input' = [input EXCEPT ![x + 1] = output[x]]
          /\ output' = [output EXCEPT ![x] = input[x + 1]]
  /\ IF x < N - 1 THEN x' = x + 1 /\ UNCHANGED pc
                  ELSE x' = 1 /\ pc' = "return"
  /\ UNCHANGED <<wake, done, thread, fed, ret, last>>

\* block x + 1's input_buffer.swap(block x's output_buffer)
Swap ==
  /\ pc = "swap"
  /\ input' = [input EXCEPT ![x + 1] = output[x]]
  /\ output' = [output EXCEPT ![x] = input[x + 1]]
  /\ IF x < N - 1 THEN x' = x + 1 /\ UNCHANGED pc
                  ELSE x' = 1 /\ pc' = "return"
  /\ UNCHANGED <<wake, done, thread, fed, ret, last>>

\* return m_frame_decoder->output_buffer, a copy
Return ==
  /\ pc = "return"
  /\ ret' = output[N]
  /\ pc' = "idle"
  /\ UNCHANGED <<x, wake, done, thread, input, output, fed, last>>

-----------------------------------------------------------------------------
(* A block's thread: run_block. *)

\* sem_wait(&m_wake_sems[index])
Wake(i) ==
  /\ thread[i] = "waiting"
  /\ wake[i] > 0
  /\ wake' = [wake EXCEPT ![i] = @ - 1]
  /\ thread' = [thread EXCEPT ![i] = "working"]
  /\ UNCHANGED <<pc, x, done, input, output, fed, ret, last>>

\* block->work(): nothing when input_buffer is empty
Work(i) ==
  /\ thread[i] = "working"
  /\ thread' = [thread EXCEPT ![i] = "finished"]
  /\ IF input[i] = 0
       THEN UNCHANGED <<output, last>>
       ELSE /\ output' = [output EXCEPT ![i] = input[i]]
            /\ last' = [last EXCEPT ![i] = input[i]]
  /\ UNCHANGED <<pc, x, wake, done, input, fed, ret>>

\* sem_post(&m_done_sems[index])
PostDone(i) ==
  /\ thread[i] = "finished"
  /\ done' = [done EXCEPT ![i] = @ + 1]
  /\ thread' = [thread EXCEPT ![i] = "waiting"]
  /\ UNCHANGED <<pc, x, wake, input, output, fed, ret, last>>

Caller == PostWake \/ WaitDone \/ Swap \/ Return
RunBlock(i) == Wake(i) \/ Work(i) \/ PostDone(i)

Next == Feed \/ Caller \/ \E i \in Blocks : RunBlock(i)

Safety == Init /\ [][Next]_vars

\* The threads are runnable whenever their semaphore is: the scheduler keeps
\* running each of them.  Nothing obliges the user to call again.
Spec == Safety /\ WF_vars(Caller) /\ \A i \in Blocks : WF_vars(RunBlock(i))

-----------------------------------------------------------------------------
(* Properties *)

\* Type invariant.  The semaphores stay binary: no thread is ever woken twice
\* for one batch, and no done signal is left over from an earlier one
\* (receiver_chain.cpp:78-95, 112-115).
TypeOK ==
  /\ pc \in {"idle", "post", "wait", "swap", "return"}
  /\ x \in Blocks
  /\ wake \in [Blocks -> {0, 1}]
  /\ done \in [Blocks -> {0, 1}]
  /\ thread \in [Blocks -> {"waiting", "working", "finished"}]
  /\ input \in [Blocks -> Batch]
  /\ output \in [Blocks -> Batch]
  /\ fed \in Batch
  /\ ret \in Batch
  /\ last \in [Blocks -> Batch]

\* While the caller writes or swaps buffers (it is about to feed, swap or
\* return), no block's thread is inside work() or has a wake-up pending: the
\* two semaphores per block are all that keeps the threads off the buffers.
NoRace ==
  pc \in {"idle", "swap", "return"} =>
    \A i \in Blocks : thread[i] = "waiting" /\ wake[i] = 0 /\ done[i] = 0

\* A block that is in work() on some items has neither consumed them before nor
\* missed any: no batch is processed twice, or skipped, anywhere in the chain.
\* It needs every batch fed to be non-empty, for work() keeps its last output
\* when it has no input, and the swap hands that output on as new input.
ConsumedOnce ==
  \A i \in Blocks :
    thread[i] = "working" /\ input[i] # 0 => input[i] = last[i] + 1

\* receiver_chain implements the delay line: each call returns the packets
\* of the batch fed N - 1 calls earlier, and each call returns.
Delay == INSTANCE DelayLine WITH busy <- (pc # "idle")
DelaySafety == Delay!Safety
DelaySpec == Delay!Spec
=============================================================================
