-------------------------------- MODULE VideoRx --------------------------------
(***************************************************************************)
(* video_rx: how packets become frames again, and which frames the decoder *)
(* is fed.  process_app_packet runs to its end on the receiver's thread,   *)
(* so it is one step.  The packets come from a transmitter that numbers    *)
(* frames from 0 and sends each frame's packets in order, over a link that *)
(* loses packets but keeps their order, with FEC or without it: a frame    *)
(* that the transmitter's queue dropped is one whose packets are all lost. *)
(* Packets that are not the link's (size, magic, bad counts) are dropped   *)
(* untouched and are no step here.                                         *)
(***************************************************************************)
EXTENDS Integers, FiniteSets

CONSTANTS Margin,      \* how far behind a partial frame may be (4 in the code)
          Sizes,       \* how many packets a frame may need
          MaxFrames    \* bound: frames sent

ASSUME VideoRxAssumption ==
  Margin \in Nat /\ Sizes \subseteq Nat \ {0} /\ MaxFrames \in Nat \ {0}

Id == 0 .. MaxFrames - 1
Chunk == UNION {0 .. n - 1 : n \in Sizes}

VARIABLES frame_id, keyframe, total_chunks,  \* the frame being sent
          chunk_index,                       \* its next packet
          g_partials,                        \* the frames begun, by id
          g_need_keyframe,
          last_key,    \* history: the last keyframe fed to the decoder, or -1
          broken,      \* history: the frames after it that lost a packet and
                       \* got one through
          harmed,      \* history: the delta frames after it that were fed
                       \* although an earlier one was broken
          lost,        \* history: the last frame that lost a packet
          anchored     \* history: a keyframe arrived well clear of it

sender == <<frame_id, keyframe, total_chunks, chunk_index>>
history == <<last_key, broken, harmed, lost, anchored>>
vars == <<sender, g_partials, g_need_keyframe, history>>

Init ==
  /\ frame_id = 0
  /\ keyframe \in BOOLEAN
  /\ total_chunks \in Sizes
  /\ chunk_index = 0
  /\ g_partials = [f \in {} |-> {}]
  /\ g_need_keyframe = TRUE
  /\ last_key = -1
  /\ broken = {}
  /\ harmed = {}
  /\ lost = -Margin - 2
  /\ anchored = FALSE

-----------------------------------------------------------------------------
(* The transmitter *)

\* Mutant: the loop over the chunks runs once too often.
SentOneMore ==
  /\ chunk_index <= total_chunks
  /\ chunk_index' = chunk_index + 1
  /\ UNCHANGED <<frame_id, keyframe, total_chunks>>

\* The next packet of the frame is on the air.
Sent ==
  /\ chunk_index < total_chunks
  /\ chunk_index' = chunk_index + 1
  /\ UNCHANGED <<frame_id, keyframe, total_chunks>>

NextFrame ==
  /\ chunk_index = total_chunks
  /\ frame_id < MaxFrames - 1
  /\ frame_id' = frame_id + 1
  /\ keyframe' \in BOOLEAN
  /\ total_chunks' \in Sizes
  /\ chunk_index' = 0
  /\ UNCHANGED <<g_partials, g_need_keyframe, history>>

Lose ==
  /\ Sent
  /\ lost' = frame_id
  /\ anchored' = FALSE
  /\ broken' = IF frame_id \in DOMAIN g_partials THEN broken \cup {frame_id} ELSE broken
  /\ UNCHANGED <<g_partials, g_need_keyframe, last_key, harmed>>

-----------------------------------------------------------------------------
(* process_app_packet *)

\* The frame of the packet, made if it is new, with the packet in it.
Updated ==
  LET pf == IF frame_id \in DOMAIN g_partials THEN g_partials[frame_id]
            ELSE [total |-> total_chunks, key |-> keyframe, have |-> {}]
  IN [pf EXCEPT !.have = @ \cup {chunk_index}]

Complete(pf) == Cardinality(pf.have) = pf.total

\* deliver_frame: is the frame fed to the decoder?
Fed(pf) == ~g_need_keyframe \/ pf.key

\* Mutant: partial frames are kept for good.
OlderNever(ids) == {}

\* The partial frames that are given up, too far behind this packet.
Older(ids) == {f \in ids : frame_id - f > Margin}

\* Mutant: a frame that is given up does not count as a loss.
NeedForgets(fed, older) == g_need_keyframe /\ ~fed

\* Mutant: the keyframe is fed, and the wait for one goes on.
NeedSticks(fed, older) == older # {} \/ g_need_keyframe

\* g_need_keyframe after the packet: a keyframe that is fed clears it, then
\* giving up a frame sets it.
NeedKeyframe(fed, older) == older # {} \/ (g_need_keyframe /\ ~fed)

Receive ==
  /\ Sent
  /\ LET pf == Updated
         fed == Complete(pf) /\ Fed(pf)
         ids == IF Complete(pf) THEN DOMAIN g_partials \ {frame_id}
                                ELSE DOMAIN g_partials \cup {frame_id}
         left == ids \ Older(ids)
     IN /\ g_partials' = [f \in left |-> IF f = frame_id THEN pf ELSE g_partials[f]]
        /\ g_need_keyframe' = NeedKeyframe(fed, Older(ids))
        /\ last_key' = IF fed /\ pf.key THEN frame_id ELSE last_key
        /\ broken' = IF fed /\ pf.key THEN {}
                     ELSE IF lost = frame_id THEN broken \cup {frame_id} ELSE broken
        /\ harmed' = IF ~fed THEN harmed
                     ELSE IF pf.key THEN {}
                     ELSE IF broken = {} THEN {} ELSE harmed \cup {frame_id}
        /\ anchored' = (anchored \/ (fed /\ pf.key /\ frame_id > lost + Margin + 1))
  /\ UNCHANGED lost

Next == NextFrame \/ Lose \/ Receive

Spec == Init /\ [][Next]_vars

-----------------------------------------------------------------------------
(* Properties *)

\* Type invariant.  Every packet that arrives fits the frame it is filed in:
\* its index is below the frame's total (video_rx.cpp:302, 309-321).
TypeOK ==
  /\ frame_id \in Id /\ keyframe \in BOOLEAN /\ total_chunks \in Sizes
  /\ chunk_index \in 0 .. total_chunks
  /\ DOMAIN g_partials \subseteq Id
  /\ \A f \in DOMAIN g_partials :
       g_partials[f] \in [total : Sizes, key : BOOLEAN, have : SUBSET Chunk]
  /\ g_need_keyframe \in BOOLEAN
  /\ last_key \in Id \cup {-1}
  /\ broken \subseteq Id /\ harmed \subseteq Id
  /\ lost \in Id \cup {-Margin - 2}
  /\ anchored \in BOOLEAN

\* However the losses fall, every frame begun is completed or given up: none
\* stays more than Margin frames behind the last packet received.
PartialsRecent ==
  \A f \in DOMAIN g_partials :
    /\ g_partials[f].have # {} /\ ~Complete(g_partials[f])
    /\ \A h \in DOMAIN g_partials : h - f <= Margin

\* A frame that lost packets harms a bounded number of frames.  Once the stream
\* is more than Margin past it, at most one more delta frame is fed to the
\* decoder before the next keyframe: the one whose packet gives it up.
DamageBounded ==
  Cardinality({g \in harmed : \E f \in broken : g - f > Margin}) <= 1

\* Loss is not held against the stream for ever.  A keyframe more than Margin +
\* 1 frames past the last lossy frame ends it: from then on, while nothing more
\* is lost, every frame is fed as it completes.
SmoothAfterLoss == anchored => ~g_need_keyframe
=============================================================================
