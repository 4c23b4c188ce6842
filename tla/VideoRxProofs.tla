----------------------------- MODULE VideoRxProofs -----------------------------
(***************************************************************************)
(* What the frame assembly of video_rx guarantees for any stream of frames *)
(* and any losses.  The inductive invariant says what is in g_partials: of *)
(* the frame being sent, exactly the packets that came; of the others,     *)
(* only frames that lost a packet, and none far behind the last packet.    *)
(***************************************************************************)
EXTENDS VideoRx, TLAPS, FiniteSetTheorems

Begun == DOMAIN g_partials

\* Only lossy frames stay behind the one being sent.
Filed ==
  /\ lost <= frame_id
  /\ \A f \in Begun : f <= frame_id /\ (f <= lost \/ f = frame_id)

\* What there is of the frame being sent.
Present ==
  IF frame_id \in Begun
    THEN /\ g_partials[frame_id].total = total_chunks
         /\ g_partials[frame_id].key = keyframe
         /\ g_partials[frame_id].have \subseteq 0 .. chunk_index - 1
         /\ g_partials[frame_id].have = 0 .. chunk_index - 1 <=> lost # frame_id
    ELSE IF lost = frame_id THEN chunk_index > 0
                            ELSE chunk_index \in {0, total_chunks}

\* What the last frame without a loss has given up.
Cleared ==
  /\ frame_id > lost /\ chunk_index > 0 => \A f \in Begun : frame_id - f <= Margin
  /\ frame_id - 1 > lost => \A f \in Begun : frame_id - 1 - f <= Margin

Frames == TypeOK /\ PartialsRecent /\ Filed /\ Present /\ Cleared

-----------------------------------------------------------------------------
(* The packet that arrives *)

\* All packets of a frame number as many as its indices.
LEMMA WholeIsTotal ==
  ASSUME NEW n \in Nat, NEW have \in SUBSET (0 .. n - 1)
  PROVE  IsFiniteSet(have) /\ (Cardinality(have) = n <=> have = 0 .. n - 1)
<1>1. IsFiniteSet(0 .. n - 1) /\ Cardinality(0 .. n - 1) = n
  BY FS_Interval
<1> QED
  BY <1>1, FS_Subset

\* The frame of the packet: its counts are the sender's, it has what came and
\* this packet, and it is complete exactly if it is the last and none was lost
\* (video_rx.cpp:309-326).
LEMMA UpdatedFrame ==
  ASSUME Frames, chunk_index < total_chunks
  PROVE  /\ Updated \in [total : Sizes, key : BOOLEAN, have : SUBSET Chunk]
         /\ Updated.total = total_chunks
         /\ Updated.key = keyframe
         /\ Updated.have # {}
         /\ Updated.have \subseteq 0 .. chunk_index
         /\ Updated.have = 0 .. chunk_index <=> lost # frame_id
         /\ Complete(Updated) <=> lost # frame_id /\ chunk_index + 1 = total_chunks
<1> USE DEF Frames, TypeOK
<1>0. chunk_index \in Nat /\ total_chunks \in Nat /\ total_chunks \in Sizes
      /\ chunk_index \in Chunk
  BY VideoRxAssumption DEF Chunk
<1> DEFINE pf == IF frame_id \in Begun THEN g_partials[frame_id]
                 ELSE [total |-> total_chunks, key |-> keyframe, have |-> {}]
<1>1. /\ pf \in [total : Sizes, key : BOOLEAN, have : SUBSET Chunk]
      /\ pf.total = total_chunks /\ pf.key = keyframe
      /\ pf.have \subseteq 0 .. chunk_index - 1
      /\ pf.have = 0 .. chunk_index - 1 <=> lost # frame_id
  BY <1>0 DEF Present, Begun
<1>2. Updated = [pf EXCEPT !.have = @ \cup {chunk_index}]
  BY DEF Updated, Begun
<1> HIDE DEF pf
<1>3. /\ Updated \in [total : Sizes, key : BOOLEAN, have : SUBSET Chunk]
      /\ Updated.total = total_chunks
      /\ Updated.key = keyframe
      /\ Updated.have = pf.have \cup {chunk_index}
  BY <1>0, <1>1, <1>2
<1>4. /\ Updated.have \subseteq 0 .. chunk_index
      /\ Updated.have = 0 .. chunk_index <=> lost # frame_id
  <2>1. 0 .. chunk_index = (0 .. chunk_index - 1) \cup {chunk_index}
    BY <1>0
  <2>2. chunk_index \notin 0 .. chunk_index - 1
    BY <1>0
  <2>3. pf.have = 0 .. chunk_index - 1 <=> Updated.have = 0 .. chunk_index
    BY <1>1, <1>3, <2>1, <2>2
  <2> QED
    BY <1>1, <1>3, <2>1, <2>3
<1>5. Complete(Updated) <=> Updated.have = 0 .. total_chunks - 1
  <2>1. Updated.have \subseteq 0 .. total_chunks - 1
    BY <1>0, <1>4
  <2> QED
    BY <1>0, <1>3, <2>1, WholeIsTotal DEF Complete
<1>6. Updated.have = 0 .. total_chunks - 1 => chunk_index + 1 = total_chunks
  BY <1>0, <1>4
<1> QED
  BY <1>0, <1>3, <1>4, <1>5, <1>6

\* What a packet leaves in g_partials (video_rx.cpp:309-341).
LEMMA ReceiveFiles ==
  ASSUME Frames, Receive
  PROVE  /\ Begun' = {f \in IF Complete(Updated) THEN Begun \ {frame_id}
                            ELSE Begun \cup {frame_id} : ~(frame_id - f > Margin)}
         /\ \A f \in Begun' :
              g_partials'[f] = IF f = frame_id THEN Updated ELSE g_partials[f]
         /\ chunk_index < total_chunks /\ chunk_index' = chunk_index + 1
         /\ UNCHANGED <<frame_id, keyframe, total_chunks, lost>>
<1> DEFINE ids == IF Complete(Updated) THEN Begun \ {frame_id} ELSE Begun \cup {frame_id}
           left == ids \ Older(ids)
<1>1. g_partials' = [f \in left |-> IF f = frame_id THEN Updated ELSE g_partials[f]]
  BY DEF Receive, Begun
<1>2. left = {f \in ids : ~(frame_id - f > Margin)}
  BY DEF Older
<1>3. Begun' = left
  BY <1>1 DEF Begun
<1> QED
  BY <1>1, <1>2, <1>3 DEF Receive, Sent

-----------------------------------------------------------------------------
(* The invariant *)

LEMMA FramesStart == Init => Frames
<1> SUFFICES ASSUME Init PROVE Frames
  OBVIOUS
<1>1. Begun = {}
  BY DEF Init, Begun
<1>2. 0 \in Id /\ Margin \in Nat /\ total_chunks \in Nat
  BY VideoRxAssumption DEF Id, Init
<1>3. TypeOK
  <2>1. chunk_index \in 0 .. total_chunks /\ lost \in Id \cup {-Margin - 2}
    BY <1>2 DEF Init
  <2>2. DOMAIN g_partials = {}
    BY <1>1 DEF Begun
  <2> QED
    BY <1>2, <2>1, <2>2 DEF Init, TypeOK
<1>4. PartialsRecent
  BY <1>1 DEF PartialsRecent, Begun
<1>5. Filed /\ Present /\ Cleared
  BY <1>1, <1>2 DEF Init, Filed, Present, Cleared
<1> QED
  BY <1>3, <1>4, <1>5 DEF Frames

\* When all packets of a frame have been sent, what is left of it was lossy.
LEMMA SentIsFiled ==
  ASSUME Frames, chunk_index = total_chunks
  PROVE  \A f \in Begun : f <= lost
<1> SUFFICES ASSUME frame_id \in Begun, lost # frame_id PROVE FALSE
  BY DEF Frames, Filed
<1>1. total_chunks \in Nat
  BY VideoRxAssumption DEF Frames, TypeOK
<1>2. g_partials[frame_id].have = 0 .. total_chunks - 1
      /\ g_partials[frame_id].total = total_chunks
  BY DEF Frames, Present
<1>3. Complete(g_partials[frame_id])
  BY <1>1, <1>2, WholeIsTotal DEF Complete
<1> QED
  BY <1>3 DEF Frames, PartialsRecent, Begun

LEMMA FramesKept == Frames /\ [Next]_vars => Frames'
<1> SUFFICES ASSUME Frames, [Next]_vars PROVE Frames'
  OBVIOUS
<1>b. \A f \in Begun : f \in Int
  BY VideoRxAssumption DEF Frames, TypeOK, Begun, Id
<1>n. /\ frame_id \in Nat /\ total_chunks \in Nat \ {0} /\ chunk_index \in Nat
      /\ chunk_index <= total_chunks /\ lost \in Int
  BY VideoRxAssumption DEF Frames, TypeOK, Id
<1>1. CASE NextFrame
  <2>1. /\ chunk_index = total_chunks /\ chunk_index' = 0
        /\ frame_id' = frame_id + 1 /\ frame_id' \in Id
        /\ keyframe' \in BOOLEAN /\ total_chunks' \in Sizes
        /\ UNCHANGED <<g_partials, g_need_keyframe, last_key, broken, harmed, lost, anchored>>
    BY <1>1, <1>n, VideoRxAssumption DEF NextFrame, history, Id
  <2>2. Begun' = Begun
    BY <2>1 DEF Begun
  <2>3. TypeOK'
    BY <2>1, VideoRxAssumption DEF Frames, TypeOK
  <2>4. PartialsRecent'
    BY <2>1 DEF Frames, PartialsRecent, Complete
  <2>5. \A f \in Begun : f <= lost
    BY <2>1, SentIsFiled
  <2>6. Filed'
    BY <1>b, <1>n, <2>1, <2>2, <2>5 DEF Frames, Filed
  <2>7. Present'
    BY <1>b, <1>n, <2>1, <2>2 DEF Frames, Filed, Present
  <2>8. Cleared'
    BY <1>b, <1>n, <2>1, <2>2 DEF Frames, Cleared
  <2> QED
    BY <2>3, <2>4, <2>6, <2>7, <2>8 DEF Frames
<1>2. CASE Lose
  <2>1. /\ chunk_index < total_chunks /\ chunk_index' = chunk_index + 1
        /\ lost' = frame_id /\ anchored' = FALSE
        /\ UNCHANGED <<frame_id, keyframe, total_chunks, g_partials, g_need_keyframe,
                       last_key, harmed>>
        /\ broken' \in {broken, broken \cup {frame_id}}
    BY <1>2 DEF Lose, Sent
  <2>2. Begun' = Begun
    BY <2>1 DEF Begun
  <2>3. TypeOK'
    <3>1. broken' \subseteq Id /\ lost' \in Id
      BY <2>1 DEF Frames, TypeOK
    <3>2. chunk_index' \in 0 .. total_chunks'
      BY <1>n, <2>1
    <3> QED
      BY <2>1, <3>1, <3>2 DEF Frames, TypeOK
  <2>4. PartialsRecent'
    BY <2>1 DEF Frames, PartialsRecent, Complete
  <2>5. Filed'
    BY <1>b, <1>n, <2>1, <2>2 DEF Frames, Filed
  <2>6. Present'
    BY <1>n, <2>1, <2>2 DEF Frames, Present
  <2>7. Cleared'
    BY <1>n, <2>1, <2>2 DEF Frames, Cleared
  <2> QED
    BY <2>3, <2>4, <2>5, <2>6, <2>7 DEF Frames
<1>3. CASE Receive
  <2> DEFINE ids == IF Complete(Updated) THEN Begun \ {frame_id} ELSE Begun \cup {frame_id}
  <2>1. /\ Begun' = {f \in ids : ~(frame_id - f > Margin)}
        /\ \A f \in Begun' :
             g_partials'[f] = IF f = frame_id THEN Updated ELSE g_partials[f]
        /\ chunk_index < total_chunks /\ chunk_index' = chunk_index + 1
        /\ UNCHANGED <<frame_id, keyframe, total_chunks, lost>>
    BY <1>3, ReceiveFiles
  <2>2. /\ Updated \in [total : Sizes, key : BOOLEAN, have : SUBSET Chunk]
        /\ Updated.total = total_chunks
        /\ Updated.key = keyframe
        /\ Updated.have # {}
        /\ Updated.have \subseteq 0 .. chunk_index
        /\ Updated.have = 0 .. chunk_index <=> lost # frame_id
        /\ Complete(Updated) <=> lost # frame_id /\ chunk_index + 1 = total_chunks
    BY <2>1, UpdatedFrame
  <2>3. \A f \in Begun' : f \in Begun \/ f = frame_id
    BY <2>1
  <2>4. TypeOK'
    <3>1. g_need_keyframe' \in BOOLEAN
      <4>1. g_need_keyframe' = NeedKeyframe(Complete(Updated) /\ Fed(Updated), Older(ids))
        BY <1>3 DEF Receive, Begun
      <4> QED
        BY <4>1 DEF NeedKeyframe
    <3>2. /\ last_key' \in Id \cup {-1}
          /\ broken' \subseteq Id /\ harmed' \subseteq Id
          /\ anchored' \in BOOLEAN
      BY <1>3 DEF Receive, Frames, TypeOK
    <3>3. Begun' \subseteq Id
      BY <2>3 DEF Frames, TypeOK, Begun
    <3>4. \A f \in Begun' :
            g_partials'[f] \in [total : Sizes, key : BOOLEAN, have : SUBSET Chunk]
      BY <2>1, <2>2, <2>3 DEF Frames, TypeOK, Begun
    <3>5. chunk_index' \in 0 .. total_chunks'
      BY <1>n, <2>1
    <3> QED
      BY <2>1, <3>1, <3>2, <3>3, <3>4, <3>5 DEF Frames, TypeOK, Begun
  <2>5. PartialsRecent'
    <3> SUFFICES ASSUME NEW f \in Begun'
                 PROVE  /\ g_partials'[f].have # {} /\ ~Complete(g_partials'[f])
                        /\ \A h \in Begun' : h - f <= Margin
      BY DEF PartialsRecent, Begun, Complete
    <3>1. g_partials'[f].have # {} /\ ~Complete(g_partials'[f])
      <4>1. CASE f = frame_id
        BY <2>1, <2>2, <4>1
      <4>2. CASE f # frame_id
        BY <2>1, <2>3, <4>2 DEF Frames, PartialsRecent, Begun
      <4> QED
        BY <4>1, <4>2
    <3>2. f \in Int /\ frame_id - f <= Margin
      BY <1>b, <1>n, <2>1, <2>3, VideoRxAssumption
    <3>3. \A h \in Begun' : h \in Int /\ h <= frame_id
      BY <1>b, <1>n, <2>3 DEF Frames, Filed
    <3> QED
      BY <1>n, <3>1, <3>2, <3>3, VideoRxAssumption
  <2>6. Filed'
    BY <1>n, <2>1, <2>3 DEF Frames, Filed
  <2>7. Present'
    <3>1. CASE frame_id \in Begun'
      BY <1>n, <2>1, <2>2, <3>1 DEF Present
    <3>2. CASE frame_id \notin Begun'
      <4>1. Complete(Updated)
        BY <1>n, <2>1, <3>2, VideoRxAssumption
      <4> QED
        BY <2>1, <2>2, <3>2, <4>1 DEF Present
    <3> QED
      BY <3>1, <3>2
  <2>8. Cleared'
    <3>1. \A f \in Begun' : f \in Int /\ frame_id - f <= Margin
      BY <1>b, <1>n, <2>1, <2>3, VideoRxAssumption
    <3> QED
      BY <1>n, <2>1, <3>1, VideoRxAssumption DEF Cleared
  <2> QED
    BY <2>4, <2>5, <2>6, <2>7, <2>8 DEF Frames
<1>4. CASE UNCHANGED vars
  <2>1. Begun' = Begun
    BY <1>4 DEF vars, Begun
  <2> QED
    BY <1>4, <2>1 DEF vars, sender, history, Frames, TypeOK, PartialsRecent, Complete,
       Filed, Present, Cleared
<1> QED
  BY <1>1, <1>2, <1>3, <1>4 DEF Next

\* Every packet is filed in a frame that it fits, whatever was lost before
\* (video_rx.cpp:302, 309-321).
THEOREM RxTypeOK == Spec => []TypeOK
<1>1. Frames => TypeOK
  BY DEF Frames
<1> QED
  BY <1>1, FramesStart, FramesKept, PTL DEF Spec

\* Every frame begun is completed or given up, for any stream and any losses
\* (video_rx.cpp:333-341).
THEOREM RxPartialsRecent == Spec => []PartialsRecent
<1>1. Frames => PartialsRecent
  BY DEF Frames
<1> QED
  BY <1>1, FramesStart, FramesKept, PTL DEF Spec

-----------------------------------------------------------------------------
(* What the decoder is fed *)

Feeds == Complete(Updated) /\ Fed(Updated)

GivenUp == Older(IF Complete(Updated) THEN Begun \ {frame_id} ELSE Begun \cup {frame_id})

\* What a packet does to the rest of the state (video_rx.cpp:241-252, 322-341).
LEMMA ReceiveFeeds ==
  ASSUME Frames, Receive
  PROVE  /\ g_need_keyframe' = (GivenUp # {} \/ (g_need_keyframe /\ ~Feeds))
         /\ broken' = IF Feeds /\ keyframe THEN {}
                      ELSE IF lost = frame_id THEN broken \cup {frame_id} ELSE broken
         /\ harmed' = IF ~Feeds THEN harmed
                      ELSE IF keyframe \/ broken = {} THEN {}
                      ELSE harmed \cup {frame_id}
         /\ anchored' = (anchored \/ (Feeds /\ keyframe /\ frame_id > lost + Margin + 1))
         /\ Feeds => keyframe \/ ~g_need_keyframe
<1>1. Updated.key = keyframe
  BY UpdatedFrame DEF Receive, Sent
<1>2. g_need_keyframe' = NeedKeyframe(Feeds, GivenUp)
  BY DEF Receive, Feeds, GivenUp, Begun
<1> QED
  BY <1>1, <1>2 DEF Receive, Feeds, Fed, NeedKeyframe

\* After a keyframe well clear of the last loss, nothing is waited for.
Calm == anchored => ~g_need_keyframe /\ frame_id > lost /\ Begun \subseteq {frame_id}

LEMMA CalmKept == Frames /\ Calm /\ [Next]_vars => Calm'
<1> SUFFICES ASSUME Frames, Calm, [Next]_vars, anchored'
             PROVE  ~g_need_keyframe' /\ frame_id' > lost' /\ Begun' \subseteq {frame_id'}
  BY DEF Calm
<1>n. /\ frame_id \in Nat /\ lost \in Int /\ Margin \in Nat
      /\ \A f \in Begun : f \in Int
  BY VideoRxAssumption DEF Frames, TypeOK, Id, Begun
<1>1. CASE NextFrame
  <2>1. Begun' = Begun /\ frame_id' = frame_id + 1 /\ chunk_index = total_chunks
        /\ UNCHANGED <<g_need_keyframe, lost, anchored>>
    BY <1>1 DEF NextFrame, history, Begun
  <2>2. Begun = {}
    BY <1>n, <2>1, SentIsFiled DEF Calm
  <2> QED
    BY <1>n, <2>1, <2>2 DEF Calm
<1>2. CASE Lose
  BY <1>2 DEF Lose
<1>3. CASE Receive
  <2>1. Begun \subseteq {frame_id} /\ frame_id > lost /\ (Feeds \/ ~g_need_keyframe)
    <3>1. CASE anchored
      BY <3>1 DEF Calm
    <3>2. CASE ~anchored
      <4>1. Feeds /\ frame_id > lost + Margin + 1
        BY <1>3, <3>2, ReceiveFeeds
      <4>2. \A f \in Begun : f = frame_id \/ (f <= lost /\ frame_id - 1 - f <= Margin)
        BY <1>n, <4>1 DEF Frames, Filed, Cleared
      <4> QED
        BY <1>n, <4>1, <4>2
    <3> QED
      BY <3>1, <3>2
  <2>2. GivenUp = {}
    <3>1. \A f \in GivenUp : f \in Begun \cup {frame_id} /\ frame_id - f > Margin
      BY DEF GivenUp, Older
    <3>2. \A f \in GivenUp : f = frame_id
      BY <2>1, <3>1
    <3>3. ~(frame_id - frame_id > Margin)
      BY <1>n
    <3> QED
      BY <3>1, <3>2, <3>3
  <2>3. Begun' \subseteq Begun \cup {frame_id} /\ UNCHANGED <<frame_id, lost>>
    BY <1>3, ReceiveFiles
  <2> QED
    BY <1>3, <2>1, <2>2, <2>3, ReceiveFeeds
<1>4. CASE UNCHANGED vars
  BY <1>4 DEF vars, sender, history, Calm, Begun
<1> QED
  BY <1>1, <1>2, <1>3, <1>4 DEF Next

\* Loss is not held against the stream for ever, whatever it was
\* (video_rx.cpp:241-252, 333-341).
THEOREM RxSmoothAfterLoss == Spec => []SmoothAfterLoss
<1>1. Init => Calm
  BY DEF Init, Calm
<1>2. Calm => SmoothAfterLoss
  BY DEF Calm, SmoothAfterLoss
<1> QED
  BY <1>1, <1>2, FramesStart, FramesKept, CalmKept, PTL DEF Spec

\* The harmed frames that the stream was well past the loss for.
Far == {g \in harmed : \E f \in broken : g - f > Margin}

\* While frames are fed, every broken frame is still waited for, so none is far.
Damage ==
  /\ \A g \in harmed : g \in Int /\ g <= frame_id
  /\ \A f \in broken : f \in Int /\ f <= lost
  /\ ~g_need_keyframe => broken \subseteq Begun /\ Far = {}
  /\ \E x : Far \subseteq {x}

LEMMA DamageKept == Frames /\ Damage /\ [Next]_vars => Damage'
<1> SUFFICES ASSUME Frames, Damage, [Next]_vars PROVE Damage'
  OBVIOUS
<1>n. /\ frame_id \in Nat /\ lost \in Int /\ Margin \in Nat /\ lost <= frame_id
      /\ \A f \in Begun : f \in Int
  BY VideoRxAssumption DEF Frames, TypeOK, Id, Begun, Filed
<1>1. CASE NextFrame
  <2>1. Begun' = Begun /\ frame_id' = frame_id + 1
        /\ UNCHANGED <<g_need_keyframe, harmed, broken, lost>>
    BY <1>1 DEF NextFrame, history, Begun
  <2>2. Far' = Far
    BY <2>1 DEF Far
  <2> QED
    BY <1>n, <2>1, <2>2 DEF Damage
<1>2. CASE Lose
  <2>1. /\ Begun' = Begun /\ lost' = frame_id
        /\ broken' = IF frame_id \in Begun THEN broken \cup {frame_id} ELSE broken
        /\ UNCHANGED <<frame_id, g_need_keyframe, harmed>>
    BY <1>2 DEF Lose, Sent, Begun
  <2>2. Far' \subseteq Far
    BY <1>n, <2>1 DEF Far, Damage
  <2>3. \A f \in broken' : f \in Int /\ f <= lost'
    BY <1>n, <2>1 DEF Damage
  <2>4. ~g_need_keyframe' => broken' \subseteq Begun' /\ Far' = {}
    BY <2>1, <2>2 DEF Damage
  <2>5. \E x : Far' \subseteq {x}
    BY <2>2 DEF Damage
  <2> QED
    BY <2>1, <2>3, <2>4, <2>5 DEF Damage
<1>3. CASE Receive
  <2>1. UNCHANGED <<frame_id, lost>>
    BY <1>3, ReceiveFiles
  <2>2. CASE Feeds /\ keyframe
    <3>1. broken' = {} /\ harmed' = {}
      BY <1>3, <2>2, ReceiveFeeds
    <3>2. Far' = {}
      BY <3>1 DEF Far
    <3> QED
      BY <3>1, <3>2 DEF Damage
  <2>3. CASE ~(Feeds /\ keyframe)
    <3>1. /\ broken' = IF lost = frame_id THEN broken \cup {frame_id} ELSE broken
          /\ harmed' \in {{}, harmed, harmed \cup {frame_id}}
          /\ ~Feeds => harmed' = harmed
          /\ Feeds => ~g_need_keyframe
          /\ g_need_keyframe' = (GivenUp # {} \/ (g_need_keyframe /\ ~Feeds))
      BY <1>3, <2>3, ReceiveFeeds
    <3>2. /\ \A g \in harmed' : g \in Int /\ g <= frame_id
          /\ \A f \in broken' : f \in Int /\ f <= lost
      BY <1>n, <3>1 DEF Damage
    <3>3. Far' \subseteq Far \cup {frame_id} /\ (~Feeds => Far' \subseteq Far)
      BY <1>n, <3>1 DEF Far, Damage
    <3>4. \E x : Far' \subseteq {x}
      BY <3>1, <3>3 DEF Damage
    <3>5. ASSUME ~g_need_keyframe' PROVE broken' \subseteq Begun' /\ Far' = {}
      <4>1. ~g_need_keyframe /\ GivenUp = {}
        BY <3>1, <3>5
      <4>2. /\ Begun' = IF Complete(Updated) THEN Begun \ {frame_id}
                                              ELSE Begun \cup {frame_id}
            /\ \A f \in Begun' : ~(frame_id - f > Margin)
        BY <1>3, <4>1, ReceiveFiles DEF GivenUp, Older
      <4>3. Complete(Updated) => lost # frame_id
        BY <1>3, UpdatedFrame DEF Receive, Sent
      <4>4. broken' \subseteq Begun'
        BY <1>n, <3>1, <4>1, <4>2, <4>3 DEF Damage
      <4>5. \A f \in broken' : ~(frame_id - f > Margin)
        BY <4>2, <4>4
      <4>6. frame_id \notin Far'
        BY <4>5 DEF Far
      <4> QED
        BY <3>3, <4>1, <4>4, <4>6 DEF Damage
    <3> QED
      BY <2>1, <3>2, <3>4, <3>5 DEF Damage
  <2> QED
    BY <2>2, <2>3
<1>4. CASE UNCHANGED vars
  <2>1. Begun' = Begun /\ Far' = Far
    BY <1>4 DEF vars, history, Begun, Far
  <2> QED
    BY <1>4, <2>1 DEF vars, sender, history, Damage
<1> QED
  BY <1>1, <1>2, <1>3, <1>4 DEF Next

\* A frame that lost packets is held against at most one delta frame that the
\* stream is well past it for, for any stream and losses (video_rx.cpp:241-252).
THEOREM RxDamageBounded == Spec => []DamageBounded
<1>1. Init => Damage
  BY DEF Init, Damage, Far
<1>2. Damage => DamageBounded
  <2> SUFFICES ASSUME NEW x, Far \subseteq {x} PROVE Cardinality(Far) <= 1
    BY DEF Damage, DamageBounded, Far
  <2>1. Far \in SUBSET {x} /\ IsFiniteSet({x}) /\ Cardinality({x}) = 1
    BY FS_Singleton
  <2> QED
    BY <2>1, FS_Subset
<1> QED
  BY <1>1, <1>2, FramesStart, FramesKept, DamageKept, PTL DEF Spec
=============================================================================
