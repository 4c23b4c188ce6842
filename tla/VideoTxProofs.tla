----------------------------- MODULE VideoTxProofs -----------------------------
(***************************************************************************)
(* What video_tx guarantees for any depth of its queue, any generation     *)
(* size, any frames and any interleaving of its threads.  The last theorem *)
(* is about a sequence that grows without bound, and its proof about       *)
(* FlattenSeq, a recursive function: an induction is done as the search    *)
(* for a least counterexample.                                             *)
(***************************************************************************)
EXTENDS VideoTx, TLAPS, FiniteSetTheorems, SequenceTheorems, WellFoundedInduction

-----------------------------------------------------------------------------
(* Sets of naturals and flattened sequences *)

\* A set of naturals that is not empty has a least element.
LEMMA LeastExists ==
  ASSUME NEW T \in SUBSET Nat, T # {}
  PROVE  \E x \in T : \A y \in T : x <= y
<1> DEFINE R == {ss \in Nat \X Nat : ss[1] < ss[2]}
<1>1. IsWellFoundedOn(R, Nat)
  BY NatLessThanWellFounded DEF OpToRel
<1>2. PICK x \in T : \A y \in T : ~(<<y, x>> \in R)
  <2> HIDE DEF R
  <2> QED
    BY <1>1, WFMin
<1>3. \A y \in T : y < x => <<y, x>> \in R
  OBVIOUS
<1>4. \A y \in T : ~(y < x)
  BY <1>2, <1>3
<1> QED
  BY <1>2, <1>4

\* f unrolls the concatenation of the first n sequences of ss.
Unrolls(f, ss, n) ==
  \A i \in 1 .. n : f[i] = IF i = 1 THEN ss[i] ELSE f[i - 1] \o ss[i]

LEMMA UnrollExists ==
  ASSUME NEW S, NEW ss \in Seq(Seq(S)), NEW n \in 0 .. Len(ss)
  PROVE  \E f \in [1 .. n -> Seq(S)] : Unrolls(f, ss, n)
<1> DEFINE Good(k) == \E f \in [1 .. k -> Seq(S)] : Unrolls(f, ss, k)
           Bad == {k \in 0 .. Len(ss) : ~Good(k)}
<1> SUFFICES ASSUME Bad # {} PROVE FALSE
  OBVIOUS
<1>1. Bad \in SUBSET Nat
  OBVIOUS
<1>2. PICK k \in Bad : \A y \in Bad : k <= y
  <2> HIDE DEF Bad
  <2> QED
    BY <1>1, LeastExists
<1>3. k \in 0 .. Len(ss) /\ ~Good(k)
  OBVIOUS
<1>4. CASE k = 0
  <2> DEFINE none == [i \in 1 .. 0 |-> <<>>]
  <2>1. 1 .. 0 = {} /\ none \in [1 .. 0 -> Seq(S)]
    OBVIOUS
  <2>2. Unrolls(none, ss, 0)
    BY <2>1 DEF Unrolls
  <2>3. Good(0)
    BY <2>1, <2>2
  <2> QED
    BY <1>3, <1>4, <2>3
<1>5. CASE k > 0
  <2>1. k - 1 \in 0 .. Len(ss) /\ k - 1 \notin Bad
    <3>1. k - 1 \in 0 .. Len(ss) /\ ~(k <= k - 1)
      BY <1>3, <1>5
    <3> HIDE DEF Bad
    <3> QED
      BY <1>2, <3>1
  <2>2. PICK f \in [1 .. k - 1 -> Seq(S)] : Unrolls(f, ss, k - 1)
    BY <2>1
  <2>3. ss[k] \in Seq(S)
    BY <1>3, <1>5
  <2> DEFINE last == IF k = 1 THEN ss[k] ELSE f[k - 1] \o ss[k]
             g == [i \in 1 .. k |-> IF i = k THEN last ELSE f[i]]
  <2>4. last \in Seq(S)
    BY <1>3, <1>5, <2>2, <2>3
  <2>5. g \in [1 .. k -> Seq(S)]
    BY <1>3, <2>2, <2>4
  <2>6. Unrolls(g, ss, k)
    <3> SUFFICES ASSUME NEW i \in 1 .. k
                 PROVE  g[i] = IF i = 1 THEN ss[i] ELSE g[i - 1] \o ss[i]
      BY DEF Unrolls
    <3>1. CASE i = k
      BY <1>3, <3>1
    <3>2. CASE i # k
      <4>1. i \in 1 .. k - 1 /\ g[i] = f[i] /\ (i # 1 => g[i - 1] = f[i - 1])
        BY <1>3, <3>2
      <4> HIDE DEF g
      <4> QED
        BY <2>2, <4>1 DEF Unrolls
    <3> QED
      BY <3>1, <3>2
  <2>7. Good(k)
    BY <2>5, <2>6
  <2> QED
    BY <1>3, <2>7
<1> QED
  BY <1>3, <1>4, <1>5

LEMMA UnrollUnique ==
  ASSUME NEW ss, NEW n \in Nat,
         NEW f, NEW g, Unrolls(f, ss, n), Unrolls(g, ss, n)
  PROVE  \A i \in 1 .. n : f[i] = g[i]
<1> DEFINE Bad == {i \in 1 .. n : f[i] # g[i]}
<1> SUFFICES ASSUME Bad # {} PROVE FALSE
  OBVIOUS
<1>1. Bad \in SUBSET Nat
  OBVIOUS
<1>2. PICK k \in Bad : \A y \in Bad : k <= y
  <2> HIDE DEF Bad
  <2> QED
    BY <1>1, LeastExists
<1>3. k \in 1 .. n /\ f[k] # g[k]
  OBVIOUS
<1>4. k # 1 => k - 1 \in 1 .. n /\ k - 1 \notin Bad
  BY <1>2, <1>3
<1>5. k # 1 => f[k - 1] = g[k - 1]
  BY <1>4
<1> HIDE DEF Bad
<1> QED
  BY <1>3, <1>5 DEF Unrolls

\* What FlattenSeq returns.
LEMMA FlattenUnrolls ==
  ASSUME NEW S, NEW ss \in Seq(Seq(S)), ss # <<>>
  PROVE  \E f \in [1 .. Len(ss) -> Seq(S)] :
           Unrolls(f, ss, Len(ss)) /\ FlattenSeq(ss) = f[Len(ss)]
<1> DEFINE Body(f) == [i \in 1 .. Len(ss) |-> IF i = 1 THEN ss[i] ELSE f[i - 1] \o ss[i]]
           flatten == CHOOSE f : f = Body(f)
<1>1. Len(ss) \in Nat \ {0}
  BY EmptySeq
<1>2. PICK f \in [1 .. Len(ss) -> Seq(S)] : Unrolls(f, ss, Len(ss))
  <2>1. Len(ss) \in 0 .. Len(ss)
    BY <1>1
  <2> QED
    BY <2>1, UnrollExists
<1>3. f = Body(f)
  BY <1>2 DEF Unrolls
<1>4. flatten = Body(flatten)
  BY <1>3
<1>5. FlattenSeq(ss) = flatten[Len(ss)]
  BY <1>1 DEF FlattenSeq
<1> HIDE DEF flatten
<1>6. Unrolls(flatten, ss, Len(ss))
  BY <1>4 DEF Unrolls
<1>7. \A i \in 1 .. Len(ss) : flatten[i] = f[i]
  BY <1>1, <1>2, <1>6, UnrollUnique
<1>8. Len(ss) \in 1 .. Len(ss)
  BY <1>1
<1> QED
  BY <1>2, <1>5, <1>7, <1>8

\* Flattening goes over to a sequence of sequences that is one longer.
LEMMA FlattenAppend ==
  ASSUME NEW S, NEW ss \in Seq(Seq(S)), NEW s \in Seq(S)
  PROVE  /\ FlattenSeq(ss) \in Seq(S)
         /\ FlattenSeq(Append(ss, s)) = FlattenSeq(ss) \o s
<1> DEFINE tt == Append(ss, s)
<1>1. /\ tt \in Seq(Seq(S)) /\ tt # <<>> /\ Len(tt) = Len(ss) + 1 /\ Len(ss) \in Nat
      /\ \A i \in 1 .. Len(ss) : tt[i] = ss[i]
      /\ tt[Len(ss) + 1] = s
  BY AppendProperties, EmptySeq
<1> HIDE DEF tt
<1>2. PICK g \in [1 .. Len(tt) -> Seq(S)] :
        Unrolls(g, tt, Len(tt)) /\ FlattenSeq(tt) = g[Len(tt)]
  BY <1>1, FlattenUnrolls
<1>3. CASE ss = <<>>
  <2>1. FlattenSeq(ss) = <<>>
    BY <1>3 DEF FlattenSeq
  <2>2. FlattenSeq(tt) = s
    BY <1>1, <1>2, <1>3 DEF Unrolls
  <2> QED
    BY <2>1, <2>2, ConcatEmptySeq DEF tt
<1>4. CASE ss # <<>>
  <2>1. PICK f \in [1 .. Len(ss) -> Seq(S)] :
          Unrolls(f, ss, Len(ss)) /\ FlattenSeq(ss) = f[Len(ss)]
    BY <1>4, FlattenUnrolls
  <2>2. Len(ss) \in 1 .. Len(ss) /\ Len(tt) # 1
    BY <1>1, <1>4, EmptySeq
  <2>3. Unrolls(g, ss, Len(ss))
    <3>1. \A i \in 1 .. Len(ss) : i \in 1 .. Len(tt) /\ tt[i] = ss[i]
      BY <1>1
    <3> QED
      BY <1>2, <3>1 DEF Unrolls
  <2>4. f[Len(ss)] = g[Len(ss)]
    <3>1. \A i \in 1 .. Len(ss) : f[i] = g[i]
      <4>1. Len(ss) \in Nat /\ Unrolls(f, ss, Len(ss))
        BY <1>1, <2>1
      <4> QED
        BY ONLY <2>3, <4>1, UnrollUnique
    <3> QED
      BY <2>2, <3>1
  <2>5. g[Len(tt)] = g[Len(ss)] \o s
    <3>1. Len(tt) \in 1 .. Len(tt) /\ Len(tt) - 1 = Len(ss) /\ tt[Len(tt)] = s
      BY <1>1
    <3> QED
      BY <1>2, <2>2, <3>1 DEF Unrolls
  <2> QED
    BY <1>2, <2>1, <2>2, <2>4, <2>5 DEF tt
<1> QED
  BY <1>3, <1>4

\* Flattening goes over to a longer last sequence.
LEMMA FlattenGrown ==
  ASSUME NEW S, NEW ss \in Seq(Seq(S)), NEW tt \in Seq(Seq(S)), NEW s \in Seq(S),
         ss # <<>>, Len(tt) = Len(ss),
         \A i \in 1 .. Len(ss) - 1 : tt[i] = ss[i],
         tt[Len(ss)] = ss[Len(ss)] \o s
  PROVE  FlattenSeq(tt) = FlattenSeq(ss) \o s
<1> DEFINE k == Len(ss)
<1>1. k \in Nat \ {0} /\ k \in 1 .. k /\ k - 1 \in Nat /\ tt # <<>>
  BY EmptySeq
<1>2. PICK f : f \in [1 .. k -> Seq(S)] /\ Unrolls(f, ss, k) /\ FlattenSeq(ss) = f[k]
  BY FlattenUnrolls
<1>3. PICK g : g \in [1 .. k -> Seq(S)] /\ Unrolls(g, tt, k) /\ FlattenSeq(tt) = g[k]
  BY <1>1, FlattenUnrolls
<1>4. \A i \in 1 .. k - 1 : f[i] = g[i]
  <2>1. \A i \in 1 .. k - 1 : i \in 1 .. k /\ tt[i] = ss[i]
    BY <1>1
  <2>2. Unrolls(f, ss, k - 1) /\ Unrolls(g, ss, k - 1)
    BY <1>2, <1>3, <2>1 DEF Unrolls
  <2> QED
    <3>1. k - 1 \in Nat /\ Unrolls(f, ss, k - 1) /\ Unrolls(g, ss, k - 1)
      BY <1>1, <2>2
    <3> HIDE DEF k
    <3> QED
      BY ONLY <3>1, UnrollUnique
<1>5. ss[k] \in Seq(S) /\ tt[k] = ss[k] \o s
  BY <1>1
<1>6. CASE k = 1
  BY <1>1, <1>2, <1>3, <1>5, <1>6 DEF Unrolls
<1>7. CASE k # 1
  <2>1. k - 1 \in 1 .. k - 1 /\ k - 1 \in 1 .. k
    BY <1>1, <1>7
  <2>2. f[k] = f[k - 1] \o ss[k] /\ g[k] = g[k - 1] \o tt[k]
    BY <1>1, <1>2, <1>3, <1>7 DEF Unrolls
  <2>3. f[k - 1] \in Seq(S) /\ g[k - 1] = f[k - 1]
    BY <1>2, <1>4, <2>1
  <2>4. (f[k - 1] \o ss[k]) \o s = f[k - 1] \o (ss[k] \o s)
    <3> DEFINE u == f[k - 1]
               v == ss[k]
    <3>1. u \in Seq(S) /\ v \in Seq(S) /\ s \in Seq(S)
      BY <1>5, <2>3
    <3> HIDE DEF u, v
    <3>2. (u \o v) \o s = u \o (v \o s)
      BY ONLY <3>1, ConcatAssociative, SMTT(30)
    <3> QED
      BY <3>2 DEF u, v
  <2> QED
    BY <1>2, <1>3, <1>5, <2>2, <2>3, <2>4
<1> QED
  BY <1>6, <1>7

-----------------------------------------------------------------------------
(* The queue *)

\* push() on a full queue drops a frame that is in it, and drops a keyframe only
\* if all frames are keyframes, and then the oldest (video_tx.cpp:207-219).
LEMMA VictimInQueue ==
  ASSUME m_q \in Seq(Frame), m_q # <<>>
  PROVE  /\ Victim \in 1 .. Len(m_q)
         /\ m_q[Victim].key => Victim = 1 /\ \A i \in 1 .. Len(m_q) : m_q[i].key
<1> DEFINE I == {i \in 1 .. Len(m_q) : ~m_q[i].key}
           delta == IF I # {} THEN Min(I) ELSE 0
<1>1. Len(m_q) \in Nat \ {0}
  BY EmptySeq
<1>2. Victim = IF delta = 0 THEN 1 ELSE delta
  BY DEF Victim, SelectInSeq
<1>3. CASE I = {}
  BY <1>1, <1>2, <1>3
<1>4. CASE I # {}
  <2>1. I \in SUBSET Nat
    BY <1>1
  <2>2. \E x \in I : \A y \in I : x <= y
    <3> HIDE DEF I
    <3> QED
      BY <1>4, <2>1, LeastExists
  <2>3. Min(I) \in I
    <3> HIDE DEF I
    <3> QED
      BY <2>2 DEF Min
  <2> QED
    BY <1>1, <1>2, <1>4, <2>3
<1> QED
  BY <1>3, <1>4

\* A sequence without its v-th element.
LEMMA RemovedAt ==
  ASSUME NEW S, NEW s \in Seq(S), NEW v \in 1 .. Len(s)
  PROVE  /\ RemoveAt(s, v) \in Seq(S)
         /\ Len(RemoveAt(s, v)) = Len(s) - 1
         /\ \A i \in 1 .. Len(s) - 1 :
              RemoveAt(s, v)[i] = IF i < v THEN s[i] ELSE s[i + 1]
<1> DEFINE a == SubSeq(s, 1, v - 1)
           b == SubSeq(s, v + 1, Len(s))
<1>1. Len(s) \in Nat /\ v \in Int
  OBVIOUS
<1>2. /\ a \in Seq(S) /\ Len(a) = v - 1
      /\ \A i \in 1 .. v - 1 : a[i] = s[i]
  BY <1>1, SubSeqProperties
<1>3. /\ b \in Seq(S) /\ Len(b) = Len(s) - v
      /\ \A i \in 1 .. Len(s) - v : b[i] = s[v + i]
  BY <1>1, SubSeqProperties
<1>4. RemoveAt(s, v) = a \o b
  BY DEF RemoveAt
<1> HIDE DEF a, b
<1>5. /\ RemoveAt(s, v) \in Seq(S)
      /\ Len(RemoveAt(s, v)) = Len(a) + Len(b)
      /\ \A i \in 1 .. Len(a) + Len(b) :
           RemoveAt(s, v)[i] = IF i <= Len(a) THEN a[i] ELSE b[i - Len(a)]
  <2>1. a \in Seq(S) /\ b \in Seq(S)
    BY <1>2, <1>3
  <2>2. /\ a \o b \in Seq(S)
        /\ Len(a \o b) = Len(a) + Len(b)
        /\ \A i \in 1 .. Len(a) + Len(b) :
             (a \o b)[i] = IF i <= Len(a) THEN a[i] ELSE b[i - Len(a)]
    BY ONLY <2>1, ConcatProperties
  <2> QED
    BY <1>4, <2>2
<1>6. ASSUME NEW i \in 1 .. Len(s) - 1
      PROVE  RemoveAt(s, v)[i] = IF i < v THEN s[i] ELSE s[i + 1]
  <2>1. i \in 1 .. Len(a) + Len(b)
    BY <1>1, <1>2, <1>3
  <2>2. CASE i < v
    BY <1>1, <1>2, <1>5, <2>1, <2>2
  <2>3. CASE ~(i < v)
    <3>1. ~(i <= Len(a)) /\ i - Len(a) \in 1 .. Len(s) - v /\ v + (i - Len(a)) = i + 1
      BY <1>1, <1>2, <2>3
    <3>2. b[i - Len(a)] = s[v + (i - Len(a))]
      BY <1>3, <3>1
    <3> QED
      BY <1>5, <2>1, <2>3, <3>1, <3>2
  <2> QED
    BY <2>2, <2>3
<1> QED
  BY <1>1, <1>2, <1>3, <1>5, <1>6

-----------------------------------------------------------------------------
(* Types *)

\* TypeOK, with the sequences it only bounds, and what the sender relies on.
TxTyped ==
  /\ TypeOK
  /\ popped \in Seq(Frame)
  /\ m_buffered \in Seq(Packet) /\ air \in Seq(Seq(Packet))
  /\ skipped <= pid
  /\ consumer = "send" =>
       /\ popped # <<>>
       /\ Last(popped).chunks <= MaxChunks /\ next < Last(popped).chunks

\* m_q as a sequence of at most Depth frames.
LEMMA QueueBounded ==
  ASSUME NEW q
  PROVE  q \in BoundedSeq(Frame, Depth) <=> q \in Seq(Frame) /\ Len(q) <= Depth
<1>1. ASSUME q \in BoundedSeq(Frame, Depth) PROVE q \in Seq(Frame) /\ Len(q) <= Depth
  <2>1. PICK n \in 0 .. Depth : q \in [1 .. n -> Frame]
    BY <1>1 DEF BoundedSeq, SeqOf
  <2> QED
    BY <2>1, VideoTxAssumption
<1>2. ASSUME q \in Seq(Frame), Len(q) <= Depth PROVE q \in BoundedSeq(Frame, Depth)
  <2>1. Len(q) \in 0 .. Depth /\ q \in [1 .. Len(q) -> Frame]
    BY <1>2, VideoTxAssumption
  <2> QED
    BY <2>1 DEF BoundedSeq, SeqOf
<1> QED
  BY <1>1, <1>2

LEMMA TxTypedStart == Init => TxTyped
<1> SUFFICES ASSUME Init PROVE TxTyped
  OBVIOUS
<1>1. m_q \in BoundedSeq(Frame, Depth)
  <2>1. <<>> \in Seq(Frame) /\ Len(<<>>) <= Depth
    BY VideoTxAssumption, EmptySeq
  <2> QED
    BY <2>1, QueueBounded DEF Init
<1>2. /\ popped \in Seq(Frame) /\ ToSet(popped) \subseteq Frame
      /\ m_buffered \in Seq(Packet) /\ Len(m_buffered) < K
      /\ ToSet(m_buffered) \subseteq Packet
      /\ air \in Seq(Seq(Packet)) /\ ToSet(air) = {}
  BY VideoTxAssumption DEF Init, ToSet
<1>3. /\ g_stop = FALSE /\ m_stop = FALSE
      /\ pid \in 0 .. MaxFrames /\ skipped \in 0 .. MaxFrames /\ skipped <= pid
      /\ next \in 0 .. MaxChunks /\ dropped \subseteq Frame
      /\ producer = "pull" /\ consumer = "pop"
  BY VideoTxAssumption DEF Init
<1> QED
  BY <1>1, <1>2, <1>3 DEF TxTyped, TypeOK

\* The elements of a sequence, and of one that is longer.
LEMMA ToSetAppend ==
  ASSUME NEW S, NEW s \in Seq(S), NEW e \in S
  PROVE  ToSet(s) \subseteq S /\ ToSet(Append(s, e)) = ToSet(s) \cup {e}
<1>1. /\ Append(s, e) \in Seq(S) /\ Len(Append(s, e)) = Len(s) + 1 /\ Len(s) \in Nat
      /\ \A i \in 1 .. Len(s) : Append(s, e)[i] = s[i]
      /\ Append(s, e)[Len(s) + 1] = e
      /\ DOMAIN s = 1 .. Len(s) /\ DOMAIN Append(s, e) = 1 .. Len(Append(s, e))
  BY AppendProperties, LenProperties
<1>2. 1 .. Len(s) + 1 = (1 .. Len(s)) \cup {Len(s) + 1}
  BY <1>1
<1> QED
  BY <1>1, <1>2 DEF ToSet

\* What is transmitted or waits: generations of at most K packets.
Buffers ==
  /\ m_buffered \in Seq(Packet) /\ Len(m_buffered) < K
  /\ air \in Seq(Seq(Packet))
  /\ \A g \in ToSet(air) : Len(g) \in 1 .. K /\ ToSet(g) \subseteq Packet

\* A generation that is transmitted.
LEMMA TransmitTyped ==
  ASSUME Buffers, NEW p \in Seq(Packet), Len(p) \in 1 .. K,
         air' = Append(air, p), m_buffered' = <<>>
  PROVE  Buffers'
<1>1. air' \in Seq(Seq(Packet))
  BY AppendProperties DEF Buffers
<1>2. ToSet(air') = ToSet(air) \cup {p}
  BY ToSetAppend DEF Buffers
<1>3. ToSet(p) \subseteq Packet
  BY DEF ToSet
<1>4. m_buffered' \in Seq(Packet) /\ Len(m_buffered') < K
  BY VideoTxAssumption, EmptySeq
<1> QED
  BY <1>1, <1>2, <1>3, <1>4 DEF Buffers

\* A packet that is cut joins its generation, which may complete it.
LEMMA EncodedTyped ==
  ASSUME Buffers, NEW pkt \in Packet, Encoded(Append(m_buffered, pkt))
  PROVE  Buffers'
<1> DEFINE p == Append(m_buffered, pkt)
<1>1. p \in Seq(Packet) /\ Len(p) = Len(m_buffered) + 1 /\ Len(m_buffered) \in Nat
  BY AppendProperties DEF Buffers
<1>2. Len(p) \in 1 .. K
  BY <1>1, VideoTxAssumption DEF Buffers
<1> HIDE DEF p
<1>3. CASE Len(p) = K
  <2>1. air' = Append(air, p) /\ m_buffered' = <<>>
    BY <1>3 DEF Encoded, p
  <2> QED
    BY <1>1, <1>2, <2>1, TransmitTyped
<1>4. CASE Len(p) # K
  <2>1. m_buffered' = p /\ air' = air
    BY <1>4 DEF Encoded, p
  <2>2. Len(m_buffered') < K
    BY <1>2, <1>4, <2>1, VideoTxAssumption
  <2> QED
    BY <1>1, <2>1, <2>2 DEF Buffers
<1> QED
  BY <1>3, <1>4

\* The queue that push() leaves: the frames there were, without the victim if it
\* was full, and the new one (video_tx.cpp:205-222).
Room == IF Full THEN RemoveAt(m_q, Victim) ELSE m_q

LEMMA PushedQueue ==
  ASSUME TypeOK
  PROVE  /\ m_q \in Seq(Frame) /\ Len(m_q) \in 0 .. Depth
         /\ Room \in Seq(Frame) /\ Len(Room) < Depth
         /\ Full => /\ Victim \in 1 .. Len(m_q)
                    /\ m_q[Victim] \in Frame
                    /\ Len(Room) = Len(m_q) - 1
                    /\ \A i \in 1 .. Len(m_q) - 1 :
                         Room[i] = IF i < Victim THEN m_q[i] ELSE m_q[i + 1]
<1>1. m_q \in Seq(Frame) /\ Len(m_q) <= Depth /\ Len(m_q) \in Nat
  BY QueueBounded DEF TypeOK
<1>2. Len(m_q) \in 0 .. Depth
  BY <1>1, VideoTxAssumption
<1>3. CASE Full
  <2>1. m_q # <<>>
    BY <1>1, <1>3, VideoTxAssumption DEF Full
  <2>2. Victim \in 1 .. Len(m_q)
    BY <1>1, <2>1, VictimInQueue
  <2>3. m_q[Victim] \in Frame
    BY <1>1, <2>2
  <2>4. /\ Room \in Seq(Frame) /\ Len(Room) = Len(m_q) - 1
        /\ \A i \in 1 .. Len(m_q) - 1 :
             Room[i] = IF i < Victim THEN m_q[i] ELSE m_q[i + 1]
    BY <1>1, <1>3, <2>2, RemovedAt DEF Room
  <2>5. Len(Room) < Depth
    BY <1>1, <2>4, VideoTxAssumption
  <2> QED
    BY <1>1, <1>2, <2>2, <2>3, <2>4, <2>5
<1>4. CASE ~Full
  BY <1>1, <1>2, <1>4, VideoTxAssumption DEF Full, Room
<1> QED
  BY <1>3, <1>4

LEMMA TxTypedKept == TxTyped /\ [Next]_vars => TxTyped'
<1> SUFFICES ASSUME TxTyped, [Next]_vars PROVE TxTyped'
  OBVIOUS
<1>t. TypeOK /\ Buffers
  BY DEF TxTyped, TypeOK, Buffers
<1>n. /\ pid \in Nat /\ skipped \in Nat /\ next \in Nat /\ MaxFrames \in Nat
      /\ MaxChunks \in Nat \ {0}
  BY VideoTxAssumption DEF TxTyped, TypeOK
<1>b. Buffers' => ToSet(m_buffered)' \subseteq Packet
  BY DEF Buffers, ToSet
<1>1. CASE Interrupt \/ LeaveLoop \/ SetStop
  BY <1>1 DEF Interrupt, LeaveLoop, SetStop, TxTyped, TypeOK
<1>2. CASE Notify \/ NotifyAll
  BY <1>2 DEF Notify, NotifyAll, Woken, TxTyped, TypeOK
<1>3. CASE WakeSpuriously
  BY <1>3 DEF WakeSpuriously, TxTyped, TypeOK
<1>4. CASE SkipEmpty
  <2>1. /\ pid' = pid + 1 /\ skipped' = skipped + 1 /\ pid < MaxFrames
        /\ producer' \in {"pull", "stop"}
        /\ UNCHANGED <<g_stop, m_q, m_stop, consumer, next, m_buffered, air, popped,
                       dropped>>
    BY <1>4 DEF SkipEmpty
  <2>2. pid' \in 0 .. MaxFrames /\ skipped' \in 0 .. MaxFrames /\ skipped' <= pid'
    BY <1>n, <2>1 DEF TxTyped
  <2> QED
    BY <2>1, <2>2 DEF TxTyped, TypeOK
<1>5. CASE Push
  <2>1. PICK k \in BOOLEAN, n \in Sizes :
          m_q' = PushBack(Room, [id |-> pid, key |-> k, chunks |-> n])
    BY <1>5 DEF Push, Room
  <2> DEFINE f == [id |-> pid, key |-> k, chunks |-> n]
  <2>2. /\ pid < MaxFrames /\ pid' = pid + 1 /\ producer' = "notify"
        /\ dropped' = IF Full THEN dropped \cup {m_q[Victim]} ELSE dropped
        /\ UNCHANGED <<g_stop, m_stop, consumer, next, m_buffered, air, popped, skipped>>
    BY <1>5 DEF Push
  <2>3. f \in Frame
    BY <1>n, <2>2 DEF Frame
  <2>4. m_q' = Append(Room, f)
    BY <2>1 DEF PushBack
  <2> HIDE DEF f
  <2>5. m_q' \in Seq(Frame) /\ Len(m_q') <= Depth
    <3>1. Room \in Seq(Frame) /\ Len(Room) < Depth
      BY <1>t, PushedQueue
    <3> QED
      BY <2>3, <2>4, <3>1, VideoTxAssumption, AppendProperties
  <2>6. m_q' \in BoundedSeq(Frame, Depth)
    BY <2>5, QueueBounded
  <2>7. dropped' \subseteq Frame
    BY <1>t, <2>2, PushedQueue DEF TypeOK
  <2>8. pid' \in 0 .. MaxFrames /\ skipped' <= pid'
    BY <1>n, <2>2 DEF TxTyped
  <2> QED
    BY <2>2, <2>6, <2>7, <2>8 DEF TxTyped, TypeOK
<1>6. CASE Pop
  <2>1. /\ consumer = "pop"
        /\ UNCHANGED <<g_stop, producer, pid, m_stop, m_buffered, air, dropped, skipped>>
    BY <1>6 DEF Pop
  <2>2. m_q \in Seq(Frame) /\ Len(m_q) \in 0 .. Depth
    BY <1>t, PushedQueue
  <2>3. CASE m_q # <<>>
    <3>1. /\ m_q' = Tail(m_q) /\ popped' = Append(popped, Head(m_q)) /\ next' = 0
          /\ consumer' = IF Head(m_q).chunks > MaxChunks THEN "flush" ELSE "send"
      BY <1>6, <2>3 DEF Pop
    <3>2. Head(m_q) \in Frame /\ Tail(m_q) \in Seq(Frame) /\ Len(Tail(m_q)) = Len(m_q) - 1
      BY <2>2, <2>3, HeadTailProperties
    <3>3. m_q' \in BoundedSeq(Frame, Depth)
      <4>1. Len(Tail(m_q)) <= Depth
        BY <2>2, <3>2, VideoTxAssumption
      <4> QED
        BY <3>1, <3>2, <4>1, QueueBounded
    <3>4. /\ popped' \in Seq(Frame) /\ popped' # <<>> /\ Last(popped') = Head(m_q)
          /\ ToSet(popped') \subseteq Frame
      <4>1. /\ popped' \in Seq(Frame) /\ popped' # <<>>
            /\ popped'[Len(popped')] = Head(m_q)
        BY <3>1, <3>2, AppendProperties, SMTT(30) DEF TxTyped
      <4> QED
        BY <4>1, ToSetAppend DEF Last, ToSet
    <3>5. Head(m_q).chunks \in Nat \ {0}
      BY <3>2, VideoTxAssumption DEF Frame
    <3> QED
      BY <1>n, <2>1, <3>1, <3>3, <3>4, <3>5 DEF TxTyped, TypeOK
  <2>4. CASE m_q = <<>>
    <3>1. consumer' \in {"done", "waiting"} /\ UNCHANGED <<m_q, popped, next>>
      BY <1>6, <2>4 DEF Pop
    <3> QED
      BY <2>1, <3>1 DEF TxTyped, TypeOK
  <2> QED
    BY <2>3, <2>4
<1>7. CASE SendChunk
  <2>1. /\ consumer = "send" /\ next' = next + 1
        /\ consumer' = IF next + 1 = Last(popped).chunks THEN "flush" ELSE "send"
        /\ Encoded(Append(m_buffered, <<Last(popped).id, next>>))
        /\ UNCHANGED <<g_stop, producer, pid, m_q, m_stop, popped, dropped, skipped>>
    BY <1>7 DEF SendChunk
  <2>2. /\ popped \in Seq(Frame) /\ popped # <<>>
        /\ Last(popped).chunks <= MaxChunks /\ next < Last(popped).chunks
    BY <2>1 DEF TxTyped
  <2>3. Last(popped) \in Frame /\ Last(popped).chunks \in Nat
    <3>1. Len(popped) \in 1 .. Len(popped)
      BY <2>2, EmptySeq
    <3>2. Last(popped) \in Frame
      BY <2>2, <3>1 DEF Last
    <3> QED
      BY <3>2, VideoTxAssumption DEF Frame
  <2>4. <<Last(popped).id, next>> \in Packet
    BY <1>n, <2>2, <2>3 DEF Packet, Frame
  <2>5. Buffers'
    BY <1>t, <2>1, <2>4, EncodedTyped
  <2>6. /\ next' \in 0 .. MaxChunks
        /\ consumer' = "send" => next' < Last(popped).chunks
    BY <1>n, <2>1, <2>2, <2>3
  <2> QED
    BY <1>b, <2>1, <2>2, <2>5, <2>6 DEF TxTyped, TypeOK, Buffers
<1>8. CASE MaybeFlush
  <2>1. /\ consumer' = "pop"
        /\ UNCHANGED <<g_stop, producer, pid, m_q, m_stop, next, popped, dropped, skipped>>
    BY <1>8 DEF MaybeFlush
  <2>2. Buffers'
    <3>1. CASE UNCHANGED <<m_buffered, air>>
      BY <1>t, <3>1 DEF Buffers
    <3>2. CASE m_buffered # <<>> /\ air' = Append(air, m_buffered) /\ m_buffered' = <<>>
      <4>1. m_buffered \in Seq(Packet) /\ Len(m_buffered) \in 1 .. K
        BY <1>t, <3>2, VideoTxAssumption, EmptySeq DEF Buffers
      <4> QED
        BY <1>t, <3>2, <4>1, TransmitTyped
    <3> QED
      BY <1>8, <3>1, <3>2 DEF MaybeFlush
  <2> QED
    BY <1>b, <2>1, <2>2 DEF TxTyped, TypeOK, Buffers
<1>9. CASE UNCHANGED vars
  BY <1>9 DEF vars, TxTyped, TypeOK
<1> QED
  BY <1>1, <1>2, <1>3, <1>4, <1>5, <1>6, <1>7, <1>8, <1>9 DEF Next, Producer, Consumer

\* The queue stays in its depth, no generation exceeds K packets and the encoder
\* never keeps a full one, for every interleaving of the threads
\* (video_tx.cpp:203-230, fec_encoder.h:43-47, 58-65).
THEOREM TxTypeOK == Spec => []TypeOK
<1>1. TxTyped => TypeOK
  BY DEF TxTyped
<1> QED
  BY <1>1, TxTypedStart, TxTypedKept, PTL DEF Spec

-----------------------------------------------------------------------------
(* The order of the frames *)

\* All frames that were not dropped, in the order they are or will be taken.
Line == popped \o m_q

LEMMA LineType ==
  ASSUME TxTyped
  PROVE  /\ popped \in Seq(Frame) /\ m_q \in Seq(Frame) /\ Line \in Seq(Frame)
         /\ Len(popped) \in Nat /\ Len(m_q) \in Nat
         /\ Len(Line) = Len(popped) + Len(m_q)
         /\ \A i \in 1 .. Len(Line) :
              Line[i] = IF i <= Len(popped) THEN popped[i] ELSE m_q[i - Len(popped)]
<1>1. popped \in Seq(Frame) /\ m_q \in Seq(Frame)
  BY PushedQueue DEF TxTyped
<1> QED
  BY <1>1, ConcatProperties DEF Line

\* Where the victim of push() stands in the line.
Gone == Len(popped) + Victim

\* push() takes the victim, if any, out of the line and puts the new frame at
\* its end.
LEMMA LinePushed ==
  ASSUME TxTyped, Push
  PROVE  \E f \in Frame :
           /\ f.id = pid
           /\ Len(Line') = (IF Full THEN Len(Line) ELSE Len(Line) + 1)
           /\ Line'[Len(Line')] = f
           /\ \A i \in 1 .. Len(Line') - 1 :
                Line'[i] = IF Full /\ i >= Gone THEN Line[i + 1] ELSE Line[i]
           /\ Full => /\ Gone \in 1 .. Len(Line) /\ Line[Gone] = m_q[Victim]
                      /\ Gone > Len(popped)
<1>l. /\ popped \in Seq(Frame) /\ m_q \in Seq(Frame) /\ Line \in Seq(Frame)
      /\ Len(popped) \in Nat /\ Len(m_q) \in Nat
      /\ Len(Line) = Len(popped) + Len(m_q)
      /\ \A i \in 1 .. Len(Line) :
           Line[i] = IF i <= Len(popped) THEN popped[i] ELSE m_q[i - Len(popped)]
  BY LineType
<1>r. /\ Room \in Seq(Frame) /\ Len(Room) \in Nat
      /\ Full => /\ Victim \in 1 .. Len(m_q)
                 /\ Len(Room) = Len(m_q) - 1
                 /\ \A i \in 1 .. Len(m_q) - 1 :
                      Room[i] = IF i < Victim THEN m_q[i] ELSE m_q[i + 1]
      /\ ~Full => Room = m_q
  <2>1. ~Full => Room = m_q
    BY DEF Room
  <2> QED
    BY <2>1, PushedQueue, LenProperties DEF TxTyped
<1>1. PICK k \in BOOLEAN, n \in Sizes :
        m_q' = PushBack(Room, [id |-> pid, key |-> k, chunks |-> n])
  BY DEF Push, Room
<1> DEFINE f == [id |-> pid, key |-> k, chunks |-> n]
<1>2. f \in Frame /\ f.id = pid
  BY VideoTxAssumption DEF Push, TxTyped, TypeOK, Frame
<1>3. popped' = popped
  BY DEF Push
<1>4. m_q' = Append(Room, f)
  BY <1>1 DEF PushBack
<1> HIDE DEF f
<1>5. /\ m_q' \in Seq(Frame) /\ Len(m_q') = Len(Room) + 1
      /\ \A i \in 1 .. Len(Room) : m_q'[i] = Room[i]
      /\ m_q'[Len(Room) + 1] = f
  BY <1>2, <1>4, <1>r, AppendProperties
<1>6. /\ Len(Line') = Len(popped) + Len(m_q')
      /\ \A i \in 1 .. Len(popped) + Len(m_q') :
           Line'[i] = IF i <= Len(popped) THEN popped[i] ELSE m_q'[i - Len(popped)]
  <2>1. /\ Len(popped \o m_q') = Len(popped) + Len(m_q')
        /\ \A i \in 1 .. Len(popped) + Len(m_q') :
             (popped \o m_q')[i] = IF i <= Len(popped) THEN popped[i]
                                   ELSE m_q'[i - Len(popped)]
    BY ONLY <1>l, <1>5, ConcatProperties
  <2> QED
    BY <1>3, <2>1 DEF Line
<1>7. Len(Line') = (IF Full THEN Len(Line) ELSE Len(Line) + 1)
  <2>1. Len(Line') = Len(popped) + Len(Room) + 1
    BY <1>l, <1>r, <1>5, <1>6
  <2>2. CASE Full
    <3>1. Len(Room) = Len(m_q) - 1
      BY <1>r, <2>2
    <3> QED
      BY <1>l, <2>1, <2>2, <3>1
  <2>3. CASE ~Full
    <3>1. Len(Room) = Len(m_q)
      BY <1>r, <2>3
    <3> QED
      BY <1>l, <2>1, <2>3, <3>1
  <2> QED
    BY <2>2, <2>3
<1>8. Line'[Len(Line')] = f
  <2>1. /\ Len(Line') \in 1 .. Len(popped) + Len(m_q')
        /\ ~(Len(Line') <= Len(popped)) /\ Len(Line') - Len(popped) = Len(Room) + 1
    BY <1>l, <1>r, <1>5, <1>6
  <2> QED
    BY <1>5, <1>6, <2>1
<1>9. ASSUME NEW i \in 1 .. Len(Line') - 1
      PROVE  Line'[i] = IF Full /\ i >= Gone THEN Line[i + 1] ELSE Line[i]
  <2>0. i \in 1 .. Len(popped) + Len(m_q') /\ i \in 1 .. Len(popped) + Len(Room)
    BY <1>l, <1>r, <1>5, <1>6
  <2>1. CASE i <= Len(popped)
    <3>1. Line'[i] = popped[i]
      BY <1>6, <2>0, <2>1
    <3>2. i \in 1 .. Len(Line) /\ Line[i] = popped[i]
      BY <1>l, <2>1
    <3>3. ~(Full /\ i >= Gone)
      BY <1>l, <1>r, <2>1 DEF Gone
    <3> QED
      BY <3>1, <3>2, <3>3
  <2>2. CASE i > Len(popped)
    <3> DEFINE j == i - Len(popped)
    <3>1. j \in 1 .. Len(Room) /\ Line'[i] = Room[j]
      <4>1. j \in 1 .. Len(Room)
        BY <1>l, <1>r, <2>0, <2>2
      <4>2. Line'[i] = m_q'[j]
        BY <1>l, <1>6, <2>0, <2>2
      <4> QED
        BY <1>5, <4>1, <4>2
    <3>2. CASE ~Full
      BY <1>l, <1>r, <2>2, <3>1, <3>2
    <3>3. CASE Full
      <4>1. Room[j] = IF j < Victim THEN m_q[j] ELSE m_q[j + 1]
        BY <1>r, <3>1, <3>3
      <4>2. /\ i \in 1 .. Len(Line) /\ Line[i] = m_q[j]
            /\ i + 1 \in 1 .. Len(Line) /\ Line[i + 1] = m_q[j + 1]
        BY <1>l, <1>r, <2>2, <3>1, <3>3, SMTT(30)
      <4>3. j < Victim <=> ~(i >= Gone)
        BY <1>l, <1>r, <3>3 DEF Gone
      <4> QED
        BY <3>1, <3>3, <4>1, <4>2, <4>3
    <3> QED
      BY <3>2, <3>3
  <2> QED
    BY <1>l, <2>0, <2>1, <2>2
<1>10. Full => /\ Gone \in 1 .. Len(Line) /\ Line[Gone] = m_q[Victim]
               /\ Gone > Len(popped)
  BY <1>l, <1>r DEF Gone
<1> QED
  BY <1>2, <1>7, <1>8, <1>9, <1>10

\* pop() moves the head of the queue to the end of what was taken, and leaves
\* the line as it is.
LEMMA LinePopped ==
  ASSUME TxTyped, Pop
  PROVE  Line' = Line
<1>l. /\ popped \in Seq(Frame) /\ m_q \in Seq(Frame)
      /\ Len(popped) \in Nat /\ Len(m_q) \in Nat
  BY LineType
<1>1. CASE m_q = <<>>
  BY <1>1 DEF Pop, Line
<1>2. CASE m_q # <<>>
  <2>1. popped' = Append(popped, Head(m_q)) /\ m_q' = Tail(m_q)
    BY <1>2 DEF Pop
  <2>2. Head(m_q) \in Frame /\ Tail(m_q) \in Seq(Frame) /\ m_q = <<Head(m_q)>> \o Tail(m_q)
    BY <1>l, <1>2, HeadTailProperties
  <2>3. popped' = popped \o <<Head(m_q)>>
    BY <1>l, <2>1, <2>2, AppendIsConcat
  <2>4. <<Head(m_q)>> \in Seq(Frame)
    BY <2>2
  <2>5. (popped \o <<Head(m_q)>>) \o Tail(m_q) = popped \o (<<Head(m_q)>> \o Tail(m_q))
    BY ONLY <1>l, <2>2, <2>4, ConcatAssociative
  <2> QED
    BY <2>1, <2>2, <2>3, <2>5 DEF Line
<1> QED
  BY <1>1, <1>2

\* OrderKept, and what makes it inductive: every id is below the next one.
Ordered ==
  /\ IsFiniteSet(dropped)
  /\ \A i, j \in 1 .. Len(Line) : i < j => Line[i].id < Line[j].id
  /\ \A i \in 1 .. Len(Line) : Line[i].id < pid
  /\ \A f \in dropped : f.id < pid /\ \A i \in 1 .. Len(Line) : Line[i].id # f.id
  /\ Len(Line) + Cardinality(dropped) + skipped = pid

LEMMA OrderedStart == Init => Ordered
<1> SUFFICES ASSUME Init PROVE Ordered
  OBVIOUS
<1>1. Line = <<>> /\ Len(Line) = 0 /\ dropped = {} /\ pid = 0 /\ skipped = 0
  BY DEF Init, Line
<1>2. IsFiniteSet(dropped) /\ Cardinality(dropped) = 0
  BY <1>1, FS_EmptySet
<1> QED
  BY <1>1, <1>2 DEF Ordered

LEMMA OrderedKept == TxTyped /\ Ordered /\ [Next]_vars => Ordered'
<1> SUFFICES ASSUME TxTyped, Ordered, [Next]_vars PROVE Ordered'
  OBVIOUS
<1>l. Line \in Seq(Frame) /\ Len(Line) \in Nat
  BY LineType, LenProperties
<1>n. /\ pid \in Nat /\ skipped \in Nat /\ Cardinality(dropped) \in Nat
      /\ \A i \in 1 .. Len(Line) : Line[i] \in Frame /\ Line[i].id \in Nat
  <2>1. pid \in Nat /\ skipped \in Nat
    BY VideoTxAssumption DEF TxTyped, TypeOK
  <2>2. Cardinality(dropped) \in Nat
    BY FS_CardinalityType DEF Ordered
  <2>3. \A i \in 1 .. Len(Line) : Line[i] \in Frame
    BY <1>l
  <2>4. \A f \in Frame : f.id \in Nat
    BY VideoTxAssumption DEF Frame
  <2> QED
    BY <2>1, <2>2, <2>3, <2>4
<1>c. Len(Line) + Cardinality(dropped) + skipped = pid
  BY DEF Ordered
<1>1. CASE Push
  <2>1. PICK f \in Frame :
           /\ f.id = pid
           /\ Len(Line') = (IF Full THEN Len(Line) ELSE Len(Line) + 1)
           /\ Line'[Len(Line')] = f
           /\ \A i \in 1 .. Len(Line') - 1 :
                Line'[i] = IF Full /\ i >= Gone THEN Line[i + 1] ELSE Line[i]
           /\ Full => /\ Gone \in 1 .. Len(Line) /\ Line[Gone] = m_q[Victim]
                      /\ Gone > Len(popped)
    BY <1>1, LinePushed
  <2>2. /\ pid' = pid + 1 /\ skipped' = skipped
        /\ dropped' = IF Full THEN dropped \cup {m_q[Victim]} ELSE dropped
    BY <1>1 DEF Push
  <2>p. pid' = pid + 1 /\ skipped' = skipped
    BY <2>2
  <2> DEFINE at(i) == IF Full /\ i >= Gone THEN i + 1 ELSE i
  <2>3. \A i \in 1 .. Len(Line') - 1 : at(i) \in 1 .. Len(Line) /\ Line'[i] = Line[at(i)]
    BY <1>l, <2>1
  <2>4. \A i, j \in 1 .. Len(Line') - 1 : i < j => at(i) < at(j)
    BY <1>l, <2>1
  <2>5. Full => \A i \in 1 .. Len(Line') - 1 : at(i) # Gone
    BY <1>l, <2>1
  <2> HIDE DEF at
  <2>6. Len(Line') \in Nat
    BY <1>l, <2>1
  <2>7. \A i \in 1 .. Len(Line') : i \in 1 .. Len(Line') - 1 \/ i = Len(Line')
    BY <2>6
  <2>8. \A i \in 1 .. Len(Line') - 1 : Line'[i].id < pid
    BY <2>3 DEF Ordered
  <2>9. \A i, j \in 1 .. Len(Line') : i < j => Line'[i].id < Line'[j].id
    <3> SUFFICES ASSUME NEW i \in 1 .. Len(Line'), NEW j \in 1 .. Len(Line'), i < j
                 PROVE  Line'[i].id < Line'[j].id
      OBVIOUS
    <3>1. i \in 1 .. Len(Line') - 1
      BY <2>6
    <3>2. CASE j = Len(Line')
      BY <2>1, <2>8, <3>1, <3>2
    <3>3. CASE j # Len(Line')
      <4>1. j \in 1 .. Len(Line') - 1
        BY <2>7, <3>3
      <4> QED
        BY <2>3, <2>4, <3>1, <4>1 DEF Ordered
    <3> QED
      BY <3>2, <3>3
  <2>10. \A i \in 1 .. Len(Line') : Line'[i].id < pid'
    <3> SUFFICES ASSUME NEW i \in 1 .. Len(Line') PROVE Line'[i].id < pid'
      OBVIOUS
    <3>1. CASE i = Len(Line')
      BY <1>n, <2>1, <2>2, <3>1
    <3>2. CASE i # Len(Line')
      <4>1. i \in 1 .. Len(Line') - 1
        BY <2>7, <3>2
      <4>2. Line'[i].id \in Nat /\ Line'[i].id < pid
        BY <1>n, <2>3, <2>8, <4>1
      <4> QED
        BY <1>n, <2>2, <4>2
    <3> QED
      BY <3>1, <3>2
  <2>11. CASE ~Full
    <3>1. dropped' = dropped /\ Len(Line') = Len(Line) + 1
      BY <2>1, <2>2, <2>11
    <3>2. \A g \in dropped' : g.id < pid' /\ \A i \in 1 .. Len(Line') : Line'[i].id # g.id
      <4> SUFFICES ASSUME NEW g \in dropped
                   PROVE  g.id < pid' /\ \A i \in 1 .. Len(Line') : Line'[i].id # g.id
        BY <3>1
      <4>1. g.id \in Nat /\ g.id < pid
        BY VideoTxAssumption DEF Ordered, TxTyped, TypeOK, Frame
      <4>2. \A i \in 1 .. Len(Line') - 1 : Line'[i].id # g.id
        BY <2>3 DEF Ordered
      <4> QED
        BY <1>n, <2>1, <2>2, <2>7, <4>1, <4>2
    <3>3. Len(Line') + Cardinality(dropped') + skipped' = pid'
      <4>1. Cardinality(dropped') = Cardinality(dropped)
        BY <3>1
      <4> QED
        BY <1>l, <1>n, <1>c, <2>p, <3>1, <4>1
    <3> QED
      BY <2>9, <2>10, <3>1, <3>2, <3>3 DEF Ordered
  <2>12. CASE Full
    <3> DEFINE v == m_q[Victim]
    <3>1. /\ dropped' = dropped \cup {v} /\ Len(Line') = Len(Line)
          /\ Gone \in 1 .. Len(Line) /\ Line[Gone] = v
      BY <2>1, <2>2, <2>12
    <3> HIDE DEF v
    <3>2. v \notin dropped
      BY <3>1 DEF Ordered
    <3>3. IsFiniteSet(dropped') /\ Cardinality(dropped') = Cardinality(dropped) + 1
      BY <3>1, <3>2, FS_AddElement DEF Ordered
    <3>4. \A g \in dropped' : g.id \in Nat /\ g.id < pid
                              /\ \A i \in 1 .. Len(Line') - 1 : Line'[i].id # g.id
      <4> SUFFICES ASSUME NEW g \in dropped'
                   PROVE  g.id \in Nat /\ g.id < pid
                          /\ \A i \in 1 .. Len(Line') - 1 : Line'[i].id # g.id
        OBVIOUS
      <4>1. CASE g \in dropped
        <5>1. g.id \in Nat /\ g.id < pid
          BY <4>1, VideoTxAssumption DEF Ordered, TxTyped, TypeOK, Frame
        <5> QED
          BY <2>3, <4>1, <5>1 DEF Ordered
      <4>2. CASE g = v
        <5>1. g.id \in Nat /\ g.id < pid
          BY <1>n, <3>1, <4>2 DEF Ordered
        <5>2. ASSUME NEW i \in 1 .. Len(Line') - 1 PROVE Line'[i].id # g.id
          <6>1. at(i) \in 1 .. Len(Line) /\ at(i) # Gone /\ Line'[i] = Line[at(i)]
            BY <2>3, <2>5, <2>12
          <6>2. at(i) < Gone \/ Gone < at(i)
            BY <3>1, <6>1
          <6>3. Line[at(i)].id < Line[Gone].id \/ Line[Gone].id < Line[at(i)].id
            BY <3>1, <6>1, <6>2 DEF Ordered
          <6> QED
            BY <1>n, <3>1, <4>2, <6>1, <6>3
        <5> QED
          BY <5>1, <5>2
      <4> QED
        BY <3>1, <4>1, <4>2
    <3>5. \A g \in dropped' : g.id < pid' /\ \A i \in 1 .. Len(Line') : Line'[i].id # g.id
      BY <1>n, <2>1, <2>2, <2>7, <3>4, SMTT(30)
    <3>6. Len(Line') + Cardinality(dropped') + skipped' = pid'
      BY <1>l, <1>n, <1>c, <2>p, <3>1, <3>3
    <3> QED
      BY <2>9, <2>10, <3>3, <3>5, <3>6 DEF Ordered
  <2> QED
    BY <2>11, <2>12
<1>2. CASE Pop
  <2>1. Line' = Line
    BY <1>2, LinePopped
  <2>2. UNCHANGED <<pid, dropped, skipped>>
    BY <1>2 DEF Pop
  <2> QED
    BY <2>1, <2>2 DEF Ordered
<1>3. CASE SkipEmpty
  <2>1. pid' = pid + 1 /\ skipped' = skipped + 1 /\ UNCHANGED <<m_q, popped, dropped>>
    BY <1>3 DEF SkipEmpty
  <2>2. Line' = Line
    BY <2>1 DEF Line
  <2>3. \A f \in dropped : f.id \in Nat
    BY VideoTxAssumption DEF TxTyped, TypeOK, Frame
  <2>4. \A f \in dropped : f.id < pid' /\ \A i \in 1 .. Len(Line) : Line[i].id # f.id
    BY <1>n, <2>1, <2>3 DEF Ordered
  <2>5. \A i \in 1 .. Len(Line) : Line[i].id < pid'
    BY <1>n, <2>1 DEF Ordered
  <2>6. Len(Line) + Cardinality(dropped) + skipped' = pid'
    BY <1>l, <1>n, <1>c, <2>1
  <2> QED
    BY <2>1, <2>2, <2>4, <2>5, <2>6 DEF Ordered
<1>4. CASE UNCHANGED <<m_q, popped, dropped, pid, skipped>>
  <2>1. Line' = Line
    BY <1>4 DEF Line
  <2> QED
    BY <1>4, <2>1 DEF Ordered
<1>5. \/ Push \/ Pop \/ SkipEmpty \/ UNCHANGED <<m_q, popped, dropped, pid, skipped>>
  BY DEF Next, Producer, Consumer, Interrupt, Notify, LeaveLoop, SetStop, NotifyAll,
     SendChunk, MaybeFlush, WakeSpuriously, vars
<1> QED
  BY <1>1, <1>2, <1>3, <1>4, <1>5

\* Frames are taken in the order they came, and each was taken, is queued, or
\* was dropped to make room, for any depth of the queue (video_tx.cpp:203-230).
THEOREM TxOrderKept == Spec => []OrderKept
<1>1. TxTyped /\ Ordered => OrderKept
  <2> SUFFICES ASSUME TxTyped, Ordered PROVE OrderKept
    OBVIOUS
  <2>1. ToSet(Line) = {Line[i] : i \in 1 .. Len(Line)}
    BY LineType, LenProperties DEF ToSet
  <2>2. \A f \in dropped : f \notin ToSet(Line)
    BY <2>1 DEF Ordered
  <2> QED
    BY <2>2 DEF OrderKept, Ordered, Line
<1> QED
  BY <1>1, TxTypedStart, TxTypedKept, OrderedStart, OrderedKept, PTL DEF Spec

-----------------------------------------------------------------------------
(* Keyframes *)

\* KeyframeOnItsWay, by positions in the line.
KeyAhead ==
  \A f \in dropped : f.key =>
    \E i \in 1 .. Len(Line) : Line[i].key /\ Line[i].id > f.id

\* With room for two frames: when a keyframe is dropped, the queue holds
\* keyframes only, and the next of them stays.
LEMMA KeyAheadKept ==
  ASSUME Depth >= 2
  PROVE  TxTyped /\ Ordered /\ KeyAhead /\ [Next]_vars => KeyAhead'
<1> SUFFICES ASSUME TxTyped, Ordered, KeyAhead, [Next]_vars PROVE KeyAhead'
  OBVIOUS
<1>l. /\ Line \in Seq(Frame) /\ Len(Line) \in Nat
      /\ m_q \in Seq(Frame) /\ Len(m_q) \in Nat /\ Len(popped) \in Nat
      /\ Len(Line) = Len(popped) + Len(m_q)
      /\ \A i \in 1 .. Len(Line) :
           Line[i] = IF i <= Len(popped) THEN popped[i] ELSE m_q[i - Len(popped)]
  BY LineType, LenProperties
<1>n. \A f \in Frame : f.id \in Nat
  BY VideoTxAssumption DEF Frame
<1>1. CASE Push
  <2>1. PICK f \in Frame :
           /\ f.id = pid
           /\ Len(Line') = (IF Full THEN Len(Line) ELSE Len(Line) + 1)
           /\ Line'[Len(Line')] = f
           /\ \A i \in 1 .. Len(Line') - 1 :
                Line'[i] = IF Full /\ i >= Gone THEN Line[i + 1] ELSE Line[i]
           /\ Full => /\ Gone \in 1 .. Len(Line) /\ Line[Gone] = m_q[Victim]
                      /\ Gone > Len(popped)
    BY <1>1, LinePushed
  <2>2. dropped' = IF Full THEN dropped \cup {m_q[Victim]} ELSE dropped
    BY <1>1 DEF Push
  <2>3. CASE ~Full
    <3>1. /\ dropped' = dropped /\ Len(Line') = Len(Line) + 1
          /\ \A i \in 1 .. Len(Line) : i \in 1 .. Len(Line') /\ Line'[i] = Line[i]
      BY <1>l, <2>1, <2>2, <2>3
    <3> QED
      BY <3>1 DEF KeyAhead
  <2>4. CASE Full
    <3>1. /\ Len(Line') = Len(Line) /\ Gone \in 1 .. Len(Line) /\ Line[Gone] = m_q[Victim]
          /\ \A i \in 1 .. Len(Line) - 1 :
               Line'[i] = IF i >= Gone THEN Line[i + 1] ELSE Line[i]
          /\ dropped' = dropped \cup {m_q[Victim]}
      BY <2>1, <2>2, <2>4
    <3>2. \A i \in 1 .. Len(Line) : i # Gone =>
            \E j \in 1 .. Len(Line') : Line'[j] = Line[i]
      <4> SUFFICES ASSUME NEW i \in 1 .. Len(Line), i # Gone
                   PROVE  \E j \in 1 .. Len(Line') : Line'[j] = Line[i]
        OBVIOUS
      <4>1. CASE i < Gone
        <5>1. i \in 1 .. Len(Line) - 1 /\ ~(i >= Gone)
          BY <1>l, <3>1, <4>1
        <5>2. Line'[i] = Line[i]
          BY <3>1, <5>1
        <5> QED
          BY <3>1, <5>2
      <4>2. CASE i > Gone
        <5>1. i - 1 \in 1 .. Len(Line) - 1 /\ i - 1 >= Gone /\ (i - 1) + 1 = i
          BY <1>l, <3>1, <4>2
        <5>2. Line'[i - 1] = Line[i]
          BY <3>1, <5>1
        <5> QED
          BY <1>l, <3>1, <5>1, <5>2
      <4> QED
        BY <1>l, <3>1, <4>1, <4>2
    <3>3. m_q[Victim].key => \E j \in 1 .. Len(Line') :
            Line'[j].key /\ Line'[j].id > m_q[Victim].id
      <4> SUFFICES ASSUME m_q[Victim].key
                   PROVE  \E j \in 1 .. Len(Line') :
                            Line'[j].key /\ Line'[j].id > m_q[Victim].id
        OBVIOUS
      <4>1. Len(m_q) >= 2 /\ m_q # <<>>
        BY <1>l, <2>4, VideoTxAssumption DEF Full
      <4>2. Victim = 1 /\ m_q[2].key
        BY <1>l, <4>1, VictimInQueue
      <4>3. /\ Gone = Len(popped) + 1 /\ Gone + 1 \in 1 .. Len(Line) /\ Gone < Gone + 1
            /\ Gone + 1 # Gone /\ Gone \in Int
        BY <1>l, <4>1, <4>2 DEF Gone
      <4>4. Line[Gone + 1] = m_q[2]
        BY <1>l, <4>3
      <4>5. Line[Gone].id < Line[Gone + 1].id
        BY <3>1, <4>3 DEF Ordered
      <4>6. Line[Gone] \in Frame /\ Line[Gone + 1] \in Frame
        BY <1>l, <3>1, <4>3
      <4>7. Line[Gone + 1].id > m_q[Victim].id
        BY <1>n, <3>1, <4>5, <4>6
      <4> QED
        BY <3>2, <4>2, <4>3, <4>4, <4>7
    <3>4. ASSUME NEW g \in dropped, g.key
          PROVE  \E j \in 1 .. Len(Line') : Line'[j].key /\ Line'[j].id > g.id
      <4>1. PICK i \in 1 .. Len(Line) : Line[i].key /\ Line[i].id > g.id
        BY <3>4 DEF KeyAhead
      <4>2. CASE i # Gone
        BY <3>2, <4>1, <4>2
      <4>3. CASE i = Gone
        <5>1. m_q[Victim].key /\ m_q[Victim].id > g.id
          BY <3>1, <4>1, <4>3
        <5>2. PICK j \in 1 .. Len(Line') : Line'[j].key /\ Line'[j].id > m_q[Victim].id
          BY <3>3, <5>1
        <5>3. g.id \in Nat /\ m_q[Victim].id \in Nat /\ Line'[j].id \in Nat
          <6>1. g \in Frame /\ m_q[Victim] \in Frame
            BY <1>l, <3>1 DEF TxTyped, TypeOK
          <6>2. Line'[j] \in Frame
            <7>1. j = Len(Line') \/ j \in 1 .. Len(Line) - 1
              BY <1>l, <3>1
            <7>2. ASSUME j \in 1 .. Len(Line) - 1 PROVE Line'[j] \in Frame
              BY <1>l, <3>1, <7>2
            <7> QED
              BY <2>1, <7>1, <7>2
          <6> QED
            BY <1>n, <6>1, <6>2
        <5>4. Line'[j].id > g.id
          BY <5>1, <5>2, <5>3
        <5> QED
          BY <5>2, <5>4
      <4> QED
        BY <4>2, <4>3
    <3> QED
      BY <3>1, <3>3, <3>4 DEF KeyAhead
  <2> QED
    BY <2>3, <2>4
<1>2. CASE Pop
  <2>1. Line' = Line /\ dropped' = dropped
    BY <1>2, LinePopped DEF Pop
  <2> QED
    BY <2>1 DEF KeyAhead
<1>3. CASE UNCHANGED <<m_q, popped, dropped>>
  <2>1. Line' = Line
    BY <1>3 DEF Line
  <2> QED
    BY <1>3, <2>1 DEF KeyAhead
<1>4. Push \/ Pop \/ UNCHANGED <<m_q, popped, dropped>>
  BY DEF Next, Producer, Consumer, Interrupt, Notify, LeaveLoop, SetStop, NotifyAll,
     SkipEmpty, SendChunk, MaybeFlush, WakeSpuriously, vars
<1> QED
  BY <1>1, <1>2, <1>3, <1>4

\* A receiver that waits for a keyframe does not wait in vain for one that was
\* dropped: a newer one is on its way, in any queue of two frames or more
\* (video_tx.cpp:207-219).
THEOREM TxKeyframeOnItsWay ==
  ASSUME Depth >= 2
  PROVE  Spec => []KeyframeOnItsWay
<1>1. Init => KeyAhead
  BY DEF Init, KeyAhead
<1>2. TxTyped /\ KeyAhead => KeyframeOnItsWay
  <2> SUFFICES ASSUME TxTyped, KeyAhead PROVE KeyframeOnItsWay
    OBVIOUS
  <2>1. ToSet(Line) = {Line[i] : i \in 1 .. Len(Line)}
    BY LineType, LenProperties DEF ToSet
  <2> QED
    BY <2>1 DEF KeyAhead, KeyframeOnItsWay, Line
<1> QED
  BY <1>1, <1>2, TxTypedStart, TxTypedKept, OrderedStart, OrderedKept, KeyAheadKept, PTL
     DEF Spec

-----------------------------------------------------------------------------
(* The stream of packets *)

\* The packets cut from each frame that was taken.
Cuts == [i \in 1 .. Len(popped) |-> Cut(i)]

\* The first k packets of a frame.
Chunks(id, k) == [c \in 1 .. k |-> <<id, c - 1>>]

LEMMA ChunksType ==
  ASSUME NEW id \in 0 .. MaxFrames - 1, NEW k \in 0 .. MaxChunks
  PROVE  Chunks(id, k) \in Seq(Packet) /\ Len(Chunks(id, k)) = k
<1>1. \A c \in 1 .. k : <<id, c - 1>> \in Packet
  BY VideoTxAssumption DEF Packet
<1>2. k \in Nat /\ Chunks(id, k) \in [1 .. k -> Packet]
  BY <1>1, VideoTxAssumption DEF Chunks
<1> QED
  BY <1>2

\* One packet more.
LEMMA ChunksNext ==
  ASSUME NEW id \in 0 .. MaxFrames - 1, NEW k \in 0 .. MaxChunks - 1
  PROVE  /\ <<id, k>> \in Packet
         /\ Chunks(id, k + 1) = Chunks(id, k) \o << <<id, k>> >>
<1> DEFINE a == Chunks(id, k + 1)
           b == Append(Chunks(id, k), <<id, k>>)
<1>1. k \in Nat /\ k \in 0 .. MaxChunks /\ k + 1 \in 0 .. MaxChunks
  BY VideoTxAssumption
<1>2. <<id, k>> \in Packet
  BY VideoTxAssumption DEF Packet
<1>3. /\ Chunks(id, k) \in Seq(Packet) /\ Len(Chunks(id, k)) = k
      /\ a \in Seq(Packet) /\ Len(a) = k + 1
  BY <1>1, ChunksType
<1>4. /\ b \in Seq(Packet) /\ Len(b) = k + 1
      /\ \A i \in 1 .. k : b[i] = Chunks(id, k)[i]
      /\ b[k + 1] = <<id, k>>
  BY <1>2, <1>3, AppendProperties
<1>5. \A i \in 1 .. k + 1 : a[i] = <<id, i - 1>>
  BY DEF Chunks
<1>6. \A i \in 1 .. k : Chunks(id, k)[i] = <<id, i - 1>>
  BY DEF Chunks
<1>7. b = Chunks(id, k) \o << <<id, k>> >>
  BY <1>2, <1>3, AppendIsConcat
<1> HIDE DEF a, b
<1>8. \A i \in 1 .. k + 1 : a[i] = b[i]
  <2> SUFFICES ASSUME NEW i \in 1 .. k + 1 PROVE a[i] = b[i]
    OBVIOUS
  <2>1. CASE i \in 1 .. k
    BY <1>4, <1>5, <1>6, <2>1
  <2>2. CASE i = k + 1
    <3>1. a[k + 1] = <<id, k>>
      <4>1. k + 1 \in 1 .. k + 1 /\ (k + 1) - 1 = k
        BY <1>1
      <4> QED
        BY <1>5, <4>1
    <3> QED
      BY <1>4, <2>2, <3>1
  <2> QED
    BY <1>1, <2>1, <2>2
<1>9. a = b
  BY ONLY <1>3, <1>4, <1>8, SeqEqual
<1> QED
  BY <1>2, <1>7, <1>9 DEF a

LEMMA CutType ==
  ASSUME TxTyped, NEW i \in 1 .. Len(popped)
  PROVE  Cut(i) \in Seq(Packet)
<1> DEFINE f == popped[i]
           n == IF f.chunks > MaxChunks THEN 0
                ELSE IF i = Len(popped) /\ consumer = "send" THEN next ELSE f.chunks
<1>1. f \in Frame
  BY DEF TxTyped
<1>2. f.chunks \in Nat /\ f.id \in 0 .. MaxFrames - 1
  BY <1>1, VideoTxAssumption DEF Frame
<1>3. n \in 0 .. MaxChunks
  BY <1>2, VideoTxAssumption DEF TxTyped, TypeOK
<1>4. Cut(i) = Chunks(f.id, n)
  BY DEF Cut, Chunks
<1> HIDE DEF n, f
<1> QED
  BY <1>2, <1>3, <1>4, ChunksType

\* Cuts as a sequence of sequences.
CutsTyped ==
  /\ Len(popped) \in Nat
  /\ Cuts \in Seq(Seq(Packet)) /\ Len(Cuts) = Len(popped)
  /\ \A i \in 1 .. Len(popped) : Cuts[i] = Cut(i)

LEMMA CutsType == TxTyped => CutsTyped
<1> SUFFICES ASSUME TxTyped PROVE CutsTyped
  OBVIOUS
<1>1. Len(popped) \in Nat
  BY DEF TxTyped
<1>2. Cuts \in [1 .. Len(popped) -> Seq(Packet)]
  BY CutType DEF Cuts
<1> QED
  BY <1>1, <1>2 DEF Cuts, CutsTyped

\* StreamIsWhole, in these terms.
Whole == FlattenSeq(air) \o m_buffered = FlattenSeq(Cuts)

LEMMA WholeStart == Init => Whole
<1> SUFFICES ASSUME Init PROVE Whole
  OBVIOUS
<1>1. air = <<>> /\ m_buffered = <<>> /\ popped = <<>> /\ Len(popped) = 0
  BY DEF Init
<1>2. Cuts = <<>>
  <2>1. 1 .. 0 = {}
    OBVIOUS
  <2> QED
    BY <1>1, <2>1 DEF Cuts
<1>3. FlattenSeq(<<>>) = <<>>
  BY DEF FlattenSeq
<1>4. <<>> \o <<>> = <<>>
  OBVIOUS
<1> QED
  BY <1>1, <1>2, <1>3, <1>4 DEF Whole

\* Transmitting the buffer moves packets and changes none.
LEMMA Transmitted ==
  ASSUME TxTyped, NEW p \in Seq(Packet)
  PROVE  FlattenSeq(Append(air, p)) \o <<>> = FlattenSeq(air) \o p
<1>1. air \in Seq(Seq(Packet))
  BY DEF TxTyped
<1>2. FlattenSeq(Append(air, p)) = FlattenSeq(air) \o p /\ FlattenSeq(air) \in Seq(Packet)
  BY <1>1, FlattenAppend
<1>3. FlattenSeq(air) \o p \in Seq(Packet)
  BY <1>2, ConcatProperties
<1> QED
  BY <1>2, <1>3, ConcatEmptySeq

\* One more packet is cut from the last frame.
LEMMA WholeSend ==
  ASSUME TxTyped, TxTyped', Whole, SendChunk
  PROVE  Whole'
<1> DEFINE n == Len(popped)
           id == Last(popped).id
           one == << <<id, next>> >>
<1>1. /\ consumer = "send" /\ next' = next + 1 /\ popped' = popped
      /\ consumer' = IF next + 1 = Last(popped).chunks THEN "flush" ELSE "send"
      /\ Encoded(Append(m_buffered, <<id, next>>))
  BY DEF SendChunk
<1>2. /\ popped \in Seq(Frame) /\ popped # <<>> /\ n \in Nat \ {0} /\ n \in 1 .. n
      /\ Last(popped) = popped[n]
      /\ Last(popped).chunks \in Nat /\ Last(popped).chunks <= MaxChunks
      /\ next < Last(popped).chunks /\ next \in 0 .. MaxChunks - 1
      /\ id \in 0 .. MaxFrames - 1
  <2>1. popped \in Seq(Frame) /\ popped # <<>>
    BY <1>1 DEF TxTyped
  <2>2. n \in Nat \ {0} /\ n \in 1 .. n
    BY <2>1, EmptySeq
  <2>3. popped[n] \in Frame
    BY <2>1, <2>2
  <2>4. popped[n].chunks \in Nat /\ popped[n].id \in 0 .. MaxFrames - 1
    BY <2>3, VideoTxAssumption DEF Frame
  <2>5. popped[n].chunks <= MaxChunks /\ next < popped[n].chunks /\ next \in Nat
    BY <1>1, VideoTxAssumption DEF TxTyped, TypeOK, Last
  <2> QED
    BY <2>1, <2>2, <2>4, <2>5, VideoTxAssumption DEF Last
<1>3. \A i \in 1 .. n - 1 : Cut(i)' = Cut(i)
  BY <1>1, <1>2 DEF Cut
<1>4. Cut(n) = Chunks(id, next) /\ Cut(n)' = Chunks(id, next + 1)
  <2>1. ~(popped[n].chunks > MaxChunks) /\ popped[n].id = id
    BY <1>2, VideoTxAssumption
  <2>2. Cut(n) = Chunks(id, next)
    BY <1>1, <1>2, <2>1 DEF Cut, Chunks
  <2>3. popped'[n] = popped[n] /\ Len(popped') = n
    BY <1>1
  <2>4. CASE next + 1 = Last(popped).chunks
    <3>1. consumer' # "send" /\ popped[n].chunks = next + 1
      BY <1>1, <1>2, <2>4
    <3> QED
      BY <2>1, <2>2, <2>3, <3>1 DEF Cut, Chunks
  <2>5. CASE next + 1 # Last(popped).chunks
    <3>1. consumer' = "send" /\ next' = next + 1
      BY <1>1, <2>5
    <3> QED
      BY <2>1, <2>2, <2>3, <3>1 DEF Cut, Chunks
  <2> QED
    BY <2>4, <2>5
<1>5. Cut(n)' = Cut(n) \o one /\ <<id, next>> \in Packet
  <2> HIDE DEF id
  <2> QED
    BY <1>2, <1>4, ChunksNext
<1>6. one \in Seq(Packet)
  BY <1>5
<1>7. FlattenSeq(Cuts') = FlattenSeq(Cuts) \o one
  <2>1. /\ Cuts \in Seq(Seq(Packet)) /\ Len(Cuts) = n
        /\ \A i \in 1 .. n : Cuts[i] = Cut(i)
    BY CutsType DEF CutsTyped
  <2>2. /\ Cuts' \in Seq(Seq(Packet)) /\ Len(Cuts') = Len(popped')
        /\ \A i \in 1 .. Len(popped') : Cuts'[i] = Cut(i)'
    <3>1. CutsTyped'
      BY CutsType, PTL
    <3> QED
      BY <3>1 DEF CutsTyped
  <2>3. \A i \in 1 .. n - 1 : Cuts'[i] = Cuts[i]
    <3>1. \A i \in 1 .. n - 1 : i \in 1 .. n /\ i \in 1 .. Len(popped')
      BY <1>1, <1>2
    <3> QED
      BY <1>3, <2>1, <2>2, <3>1
  <2>4. Cuts'[n] = Cuts[n] \o one
    BY <1>1, <1>2, <1>5, <2>1, <2>2
  <2>5. Cuts # <<>> /\ Len(Cuts') = n
    BY <1>1, <1>2, <2>1, <2>2
  <2> DEFINE ss == Cuts
             tt == Cuts'
  <2>6. /\ ss \in Seq(Seq(Packet)) /\ tt \in Seq(Seq(Packet)) /\ ss # <<>> /\ Len(tt) = Len(ss)
        /\ \A i \in 1 .. Len(ss) - 1 : tt[i] = ss[i]
        /\ tt[Len(ss)] = ss[Len(ss)] \o one
    BY <2>1, <2>2, <2>3, <2>4, <2>5
  <2> HIDE DEF ss, tt, one
  <2>7. FlattenSeq(tt) = FlattenSeq(ss) \o one
    BY ONLY <1>6, <2>6, FlattenGrown
  <2> QED
    BY <2>7 DEF ss, tt
<1>8. FlattenSeq(air') \o m_buffered' = (FlattenSeq(air) \o m_buffered) \o one
  <2> DEFINE p == Append(m_buffered, <<id, next>>)
             a == FlattenSeq(air)
  <2>1. air \in Seq(Seq(Packet)) /\ m_buffered \in Seq(Packet)
    BY DEF TxTyped
  <2>2. a \in Seq(Packet)
    BY <2>1, EmptySeq, FlattenAppend
  <2>3. p = m_buffered \o one /\ p \in Seq(Packet)
    BY <1>5, <2>1, AppendIsConcat, AppendProperties
  <2>4. \/ air' = Append(air, p) /\ m_buffered' = <<>>
        \/ air' = air /\ m_buffered' = p
    BY <1>1 DEF Encoded
  <2> HIDE DEF a, p, one
  <2>6. a \o p = (a \o m_buffered) \o one
    <3>1. a \in Seq(Packet) /\ m_buffered \in Seq(Packet) /\ one \in Seq(Packet)
      BY <1>6, <2>1, <2>2
    <3>2. (a \o m_buffered) \o one = a \o (m_buffered \o one)
      BY ONLY <3>1, ConcatAssociative, SMTT(30)
    <3> QED
      BY <2>3, <3>2
  <2>7. FlattenSeq(air') \o m_buffered' = a \o p
    <3>1. CASE air' = Append(air, p) /\ m_buffered' = <<>>
      BY <2>3, <3>1, Transmitted DEF a
    <3>2. CASE air' = air /\ m_buffered' = p
      BY <3>2 DEF a
    <3> QED
      BY <2>4, <3>1, <3>2
  <2> QED
    BY <2>6, <2>7 DEF a
<1> QED
  BY <1>7, <1>8 DEF Whole
\* A frame is taken: a frame without packets yet, or of too many chunks.
LEMMA WholePop ==
  ASSUME TxTyped, TxTyped', Whole, Pop
  PROVE  Whole'
<1>1. PICK n \in Nat : n = Len(popped)
  BY DEF TxTyped
<1>2. popped \in Seq(Frame) /\ consumer = "pop" /\ air' = air /\ m_buffered' = m_buffered
  BY DEF Pop, TxTyped
<1>3. CASE m_q # <<>>
  <2> DEFINE h == Head(m_q)
  <2>1. /\ popped' = Append(popped, h) /\ next' = 0
        /\ consumer' = IF h.chunks > MaxChunks THEN "flush" ELSE "send"
    BY <1>3 DEF Pop
  <2>2. h \in Frame
    BY <1>3, QueueBounded, HeadTailProperties DEF TxTyped, TypeOK
  <2> HIDE DEF h
  <2>3. /\ Len(popped') = n + 1 /\ popped'[n + 1] = h
        /\ \A i \in 1 .. n : popped'[i] = popped[i]
    BY <1>1, <1>2, <2>1, <2>2, AppendProperties
  <2>4. \A i \in 1 .. n : Cut(i)' = Cut(i)
    <3> SUFFICES ASSUME NEW i \in 1 .. n PROVE Cut(i)' = Cut(i)
      OBVIOUS
    <3>1. popped'[i] = popped[i] /\ i # Len(popped') /\ consumer # "send"
      BY <1>1, <1>2, <2>3
    <3> QED
      BY <3>1 DEF Cut
  <2>5. Cut(n + 1)' = <<>>
    <3>1. 1 .. 0 = {}
      OBVIOUS
    <3>2. Cut(n + 1)' = [c \in 1 .. 0 |-> <<h.id, c - 1>>]
      <4>1. CASE h.chunks > MaxChunks
        BY <2>3, <4>1 DEF Cut
      <4>2. CASE ~(h.chunks > MaxChunks)
        <5>1. consumer' = "send" /\ next' = 0
          BY <2>1, <4>2
        <5> QED
          BY <2>3, <4>2, <5>1 DEF Cut
      <4> QED
        BY <4>1, <4>2
    <3> QED
      BY <3>1, <3>2
  <2>6. /\ Cuts \in Seq(Seq(Packet)) /\ Len(Cuts) = n
        /\ \A i \in 1 .. n : Cuts[i] = Cut(i)
    BY <1>1, CutsType DEF CutsTyped
  <2>7. /\ Cuts' \in Seq(Seq(Packet)) /\ Len(Cuts') = Len(popped')
        /\ \A i \in 1 .. Len(popped') : Cuts'[i] = Cut(i)'
    <3>1. CutsTyped'
      BY CutsType, PTL
    <3> QED
      BY <3>1 DEF CutsTyped
  <2> DEFINE ss == Cuts
             tt == Cuts'
             none == <<>>
  <2>8. none \in Seq(Packet)
    OBVIOUS
  <2>9. /\ ss \in Seq(Seq(Packet)) /\ tt \in Seq(Seq(Packet))
        /\ Len(ss) = n /\ Len(tt) = n + 1
        /\ \A i \in 1 .. n : tt[i] = ss[i]
        /\ tt[n + 1] = none
    <3>1. \A i \in 1 .. n + 1 : i \in 1 .. Len(popped')
      BY <2>3
    <3>2. \A i \in 1 .. n : tt[i] = ss[i]
      BY <1>1, <2>4, <2>6, <2>7, <3>1
    <3>3. tt[n + 1] = none
      <4>1. n + 1 \in 1 .. n + 1
        BY <1>1
      <4>2. Cuts'[n + 1] = Cut(n + 1)'
        BY <2>7, <3>1, <4>1
      <4> QED
        BY <2>5, <4>2
    <3> QED
      BY <2>3, <2>6, <2>7, <3>2, <3>3
  <2> HIDE DEF ss, tt, none
  <2>10. tt = Append(ss, none)
    <3> DEFINE uu == Append(ss, none)
    <3>1. /\ uu \in Seq(Seq(Packet)) /\ Len(uu) = Len(ss) + 1
          /\ \A i \in 1 .. Len(ss) : uu[i] = ss[i]
          /\ uu[Len(ss) + 1] = none
      BY <2>8, <2>9, AppendProperties
    <3> HIDE DEF uu
    <3>2. \A i \in 1 .. n + 1 : tt[i] = uu[i]
      <4>1. uu[n + 1] = none /\ \A i \in 1 .. n : uu[i] = tt[i]
        BY <2>9, <3>1
      <4>2. \A i \in 1 .. n + 1 : i \in 1 .. n \/ i = n + 1
        BY <1>1
      <4> QED
        BY <2>9, <4>1, <4>2
    <3>3. Len(tt) = Len(uu) /\ \A i \in 1 .. Len(tt) : tt[i] = uu[i]
      BY <2>9, <3>1, <3>2
    <3>4. tt = uu
      BY ONLY <2>9, <3>1, <3>3, SeqEqual
    <3> QED
      BY <3>4 DEF uu
  <2>11. FlattenSeq(tt) = FlattenSeq(ss) \o none /\ FlattenSeq(ss) \in Seq(Packet)
    BY <2>8, <2>9, <2>10, FlattenAppend
  <2>12. FlattenSeq(tt) = FlattenSeq(ss)
    BY <2>11, ConcatEmptySeq DEF none
  <2> QED
    BY <1>2, <2>12 DEF Whole, ss, tt
<1>4. CASE m_q = <<>>
  <2>1. popped' = popped /\ consumer' # "send"
    BY <1>4 DEF Pop
  <2>2. Cuts' = Cuts
    BY <1>2, <2>1 DEF Cuts, Cut
  <2> QED
    BY <1>2, <2>2 DEF Whole
<1> QED
  BY <1>3, <1>4

\* The periodic flush.
LEMMA WholeFlush ==
  ASSUME TxTyped, Whole, MaybeFlush
  PROVE  Whole'
<1>1. consumer = "flush" /\ consumer' = "pop" /\ popped' = popped
  BY DEF MaybeFlush
<1>2. Cuts' = Cuts
  BY <1>1 DEF Cuts, Cut
<1>3. CASE UNCHANGED <<m_buffered, air>>
  BY <1>2, <1>3 DEF Whole
<1>4. CASE air' = Append(air, m_buffered) /\ m_buffered' = <<>>
  BY <1>2, <1>4, Transmitted DEF Whole, TxTyped
<1> QED
  BY <1>3, <1>4 DEF MaybeFlush

LEMMA WholeKept == TxTyped /\ TxTyped' /\ Whole /\ [Next]_vars => Whole'
<1> SUFFICES ASSUME TxTyped, TxTyped', Whole, [Next]_vars PROVE Whole'
  OBVIOUS
<1>1. ASSUME UNCHANGED <<popped, air, m_buffered, next>>,
             consumer' = consumer \/ (consumer # "send" /\ consumer' # "send")
      PROVE  Whole'
  <2>1. Cuts' = Cuts
    BY <1>1 DEF Cuts, Cut
  <2> QED
    BY <1>1, <2>1 DEF Whole
<1>2. CASE Interrupt \/ Push \/ SkipEmpty
  BY <1>1, <1>2 DEF Interrupt, Push, SkipEmpty
<1>3. CASE Producer
  BY <1>1, <1>3 DEF Producer, Notify, LeaveLoop, SetStop, NotifyAll, Woken
<1>4. CASE Pop
  BY <1>4, WholePop
<1>5. CASE SendChunk
  BY <1>5, WholeSend
<1>6. CASE MaybeFlush
  BY <1>6, WholeFlush
<1>7. CASE WakeSpuriously
  BY <1>1, <1>7 DEF WakeSpuriously
<1>8. CASE UNCHANGED vars
  BY <1>1, <1>8 DEF vars
<1> QED
  BY <1>2, <1>3, <1>4, <1>5, <1>6, <1>7, <1>8 DEF Next, Consumer

\* What was transmitted, and what waits for its generation to fill, is the
\* packets of the frames taken, whatever the sizes of frames and generations
\* (video_tx.cpp:287-330, fec_encoder.h:43-47).
THEOREM TxStreamIsWhole == Spec => []StreamIsWhole
<1>1. Whole => StreamIsWhole
  BY DEF Whole, StreamIsWhole, Cuts
<1> QED
  BY <1>1, TxTypedStart, TxTypedKept, WholeStart, WholeKept, PTL DEF Spec
=============================================================================
