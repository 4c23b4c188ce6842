------------------------------ MODULE DelayLine ------------------------------
(***************************************************************************)
(* What receiver_chain promises its caller: process_samples is a delay     *)
(* line.  The k-th call returns what the last block made of the batch that *)
(* call k - (N - 1) handed over, nothing while the pipeline fills, and     *)
(* every call returns.  Batches are named by the number of the call that   *)
(* handed them over; 0 is the absence of a batch.                          *)
(***************************************************************************)
EXTENDS Integers

CONSTANTS N,         \* the number of blocks in the chain
          MaxCalls   \* how many times the caller calls process_samples

VARIABLES fed,    \* calls made so far
          busy,   \* a call is in progress
          ret     \* the batch whose packets the last call returned

vars == <<fed, busy, ret>>

Lag(n) == IF n > 0 THEN n ELSE 0

Init == fed = 0 /\ busy = FALSE /\ ret = 0

Call ==
  /\ ~busy
  /\ fed < MaxCalls
  /\ fed' = fed + 1
  /\ busy' = TRUE
  /\ UNCHANGED ret

Return ==
  /\ busy
  /\ ret' = Lag(fed - (N - 1))
  /\ busy' = FALSE
  /\ UNCHANGED fed

Next == Call \/ Return

Safety == Init /\ [][Next]_vars
Spec == Safety /\ WF_vars(Return)
=============================================================================
