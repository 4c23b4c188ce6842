-------------------------------- MODULE FecLink --------------------------------
(***************************************************************************)
(* FecLink: FecEncoder, a radio that loses packets and sometimes hands up  *)
(* one whose bytes are wrong (decode_data skips the CRC for packets of     *)
(* this size), and FecDecoder.  The radio keeps the order of packets and   *)
(* does not repeat them: they leave and arrive in one step.                *)
(*                                                                         *)
(* What a generation is made from is named <<run of the transmitter, id>>; *)
(* Noise stands for the bytes of a wrong packet.  Faults are bounded by    *)
(* the three constants Max...                                              *)
(***************************************************************************)
EXTENDS FecDecoder, FecEncoder

CONSTANTS MaxRestarts,   \* bound: restarts of the transmitter
          MaxCorrupt,    \* bound: packets handed up with wrong bytes
          MaxOutage      \* bound: generations in a row without a good packet

Noise == <<-1, 0>>
Sources == ((0 .. MaxRestarts) \X GenId) \cup {Noise}

\* The packets of one generation are enough for a vote.  Corrupted packets alone
\* neither win one nor wake the watchdog.  A long outage may make the ids look
\* old, but not come round to themselves.
ASSUME LinkAssumption ==
  /\ Esi = 0 .. K + R - 1 /\ Source = Sources
  /\ R \in Nat /\ MaxRestarts \in Nat
  /\ Confirm <= K + R
  /\ MaxCorrupt \in Nat /\ MaxCorrupt < Confirm /\ MaxCorrupt < Reacquire
  /\ MaxOutage \in Nat \ {0}
  /\ (MaxOutage + Window) * (K + R) + Reacquire < 2 * Half * (K + R)

VARIABLES run,         \* how often the transmitter was restarted
          corrupted,   \* how many packets were corrupted
          good,        \* history: generations begun since the last fault
          spoiled,     \* history: a restart, or a wrong packet in the decoder
          reach,       \* history: this generation began, unspoiled, at most
                       \* LargeJump past the baseline
          arrived,     \* history: how many of its packets arrived
          decoded,     \* history: it was delivered
          outage       \* history: generations begun since a good packet got in

tx == <<encoder, run>>
history == <<spoiled, reach, arrived, decoded, outage>>
linkVars == <<decoder, tx, corrupted, good, history>>

\* The generations a fault may cost after it is over: those that are behind the
\* window until the watchdog has counted enough packets, and then a window of
\* them that holds wrong symbols.
HealTime == (Reacquire - 1) \div (K + R) + Window

\* What the generation being sent is made from.
Made == <<run, Current>>

InReach(g) == have_baseline => Diff(g, baseline) \in 0 .. LargeJump

LinkInit ==
  /\ Init
  /\ EncoderInit
  /\ run = 0
  /\ corrupted = 0
  /\ good = 0
  /\ arrived = 0
  /\ reach = FALSE
  /\ decoded = FALSE
  /\ outage = 0
  /\ spoiled = FALSE

-----------------------------------------------------------------------------
(* The transmitter *)

\* add_rtp_packet completes a generation, or flush pads it: it is encoded.
Encode ==
  /\ EncodeGeneration
  /\ arrived' = 0
  /\ reach' = (InReach(gen_id) /\ ~spoiled)
  /\ decoded' = FALSE
  /\ outage' = IF outage < MaxOutage THEN outage + 1 ELSE outage
  /\ good' = IF good <= HealTime THEN good + 1 ELSE good
  /\ UNCHANGED <<decoder, run, corrupted, spoiled>>

\* The program is started again: a new FecEncoder, ids from 0.
Restart ==
  /\ run < MaxRestarts
  /\ run' = run + 1
  /\ gen_id' = 0
  /\ esi' = K + R
  /\ spoiled' = TRUE
  /\ reach' = FALSE
  /\ good' = 0
  /\ UNCHANGED <<decoder, corrupted, arrived, decoded, outage>>

-----------------------------------------------------------------------------
(* The radio: what becomes of next_phy_packet() *)

Sent == NextPacket /\ UNCHANGED run

\* The decoder takes the packet, and does not drop it as old or as an outlier.
GetsIn(g) == IsNear(g) \/ (IsFar(g) /\ Votes(g) >= Confirm)

Deliver ==
  /\ Sent
  /\ Packet(Current, esi, Made)
  /\ arrived' = IF reach THEN arrived + 1 ELSE arrived
  /\ decoded' = (decoded \/ out' = {Made})
  /\ outage' = IF GetsIn(Current) THEN 0 ELSE outage
  /\ UNCHANGED <<corrupted, good, reach, spoiled>>

Lose ==
  /\ Sent
  /\ outage < MaxOutage
  /\ out' = {}
  /\ good' = 0
  /\ UNCHANGED <<have_baseline, baseline, gens, symbols, completed,
                 jump_candidate, jump_votes, consecutive_old,
                 corrupted, history>>

\* The ids of corrupted packets that the quarantine is not meant to stop: near
\* ones, the first of all, and one that seconds a true candidate.
Spoils(g) == InReach(g) \/ Agrees(g)

\* The packet arrives with other bytes, its header included.
Corrupt ==
  /\ corrupted < MaxCorrupt
  /\ outage < MaxOutage
  /\ Sent
  /\ corrupted' = corrupted + 1
  /\ \E g \in GenId, e \in Esi :
       /\ Packet(g, e, Noise)
       /\ spoiled' = (spoiled \/ Spoils(g))
  /\ reach' = (reach /\ ~spoiled')
  /\ good' = 0
  /\ UNCHANGED <<arrived, decoded, outage>>

LinkNext == Encode \/ Restart \/ Deliver \/ Lose \/ Corrupt

LinkSpec == LinkInit /\ [][LinkNext]_linkVars

-----------------------------------------------------------------------------
(* Properties *)

\* Type invariant, the decoder's included: no fault on the link drives either
\* end out of its range (fec_encoder.h:34-65, fec_decoder.h:59-135).
TypeOK ==
  /\ DecoderTypeOK
  /\ gen_id \in GenId
  /\ esi \in 0 .. K + R
  /\ run \in 0 .. MaxRestarts
  /\ corrupted \in 0 .. MaxCorrupt
  /\ arrived \in 0 .. K + R
  /\ outage \in 0 .. MaxOutage
  /\ good \in 0 .. HealTime + 1
  /\ {reach, decoded, spoiled} \subseteq BOOLEAN

\* Any K of a generation's K + R packets deliver it, however the losses fall,
\* around the wrap of the ids, and with corrupted packets among them that the
\* quarantine stops.  It needs the generation to begin in the reach of the
\* window: after a longer outage Confirm - 1 packets pay for the vote.
AnyKSuffice ==
  reach /\ arrived >= K => decoded

\* What is delivered is one generation, the one being sent, and it is delivered
\* once: no symbols of two generations, of two laps of the id, or of a
\* corrupted packet that was kept out, ever meet in one decoder.
DeliversOnce ==
  [][~spoiled' /\ esi' = esi + 1 /\ out' # {} => out' = {Made} /\ ~decoded]_linkVars

\* The decoder heals by itself, and soon.  Whatever restarts, outages and
\* corrupted ids came before, HealTime generations after the last of them every
\* generation that is sent is delivered: no state of baseline, votes and
\* counters keeps the link down.
HealsInTime == good > HealTime /\ esi = K + R => decoded
=============================================================================
