---------------------------- MODULE SymbolsProofs ----------------------------
(***************************************************************************)
(* fft_symbols, channel_est, phase_tracker and frame_decoder on any stream *)
(* of samples: for any prefix, symbol, polarity period and frame sizes, a  *)
(* frame of the right size that was sent to its last sample is delivered   *)
(* exactly once, and no payload holds anything older than its header.      *)
(*                                                                         *)
(* The invariant SymInv says where the frame on the air has brought the    *)
(* blocks (Place), that whatever they hold has been on the air (Typed),    *)
(* that what is collected and handed over is in the order of its headers   *)
(* (Ordered), that no header of the frame on the air is heard before it    *)
(* was sent (Heads, Pending), and that a frame that is over and was heard  *)
(* has been delivered and is not collected again (Kept).                   *)
(***************************************************************************)
EXTENDS Symbols, TLAPS, FiniteSetTheorems, SequenceTheorems

-----------------------------------------------------------------------------
(* What is collected and handed over *)

\* Symbols, frames and payloads made of the samples of A.
Row(A) == [1 .. Sym -> A]
Symbol(A) == [samples : Row(A), est : Seq(Row(Samples)), pol : 0 .. Period - 1]
Collected(A) == [sample_count : {0} \cup Sizes, samples : Seq(Symbol(A)), head : Nat]
Payload(A) == [head : Nat, samples : Seq(Symbol(A))]

\* The frame and the payloads after one more symbol.
Collect(c, s) ==
  IF Due(Copied(c, s)) THEN [Copied(c, s) EXCEPT !.sample_count = 0] ELSE Copied(c, s)
Hand(c, out, s) ==
  IF Due(Copied(c, s)) /\ DecodeData(Copied(c, s))
    THEN Append(out, [head |-> Copied(c, s).head, samples |-> Copied(c, s).samples])
    ELSE out

\* Nothing in symbol s is from before frame h.
NotBefore(s, h) == \A j \in 1 .. Sym : s.samples[j] = Noise \/ s.samples[j][1] >= h

\* Payloads and the frame being collected hold nothing older than their heads,
\* and follow each other.
Ordered(c, out) ==
  /\ \A i \in DOMAIN out : \A d \in DOMAIN out[i].samples :
       NotBefore(out[i].samples[d], out[i].head)
  /\ \A i, j \in DOMAIN out : i < j => out[i].head < out[j].head
  /\ c.sample_count # 0 =>
       /\ Len(c.samples) < c.sample_count
       /\ \A d \in DOMAIN c.samples : NotBefore(c.samples[d], c.head)
       /\ \A i \in DOMAIN out : out[i].head < c.head

\* The parts of the frame being collected.
LEMMA CollectedType ==
  ASSUME NEW A, NEW c \in Collected(A)
  PROVE  /\ c = [sample_count |-> c.sample_count, samples |-> c.samples, head |-> c.head]
         /\ c.sample_count \in Nat /\ c.sample_count \in {0} \cup Sizes
         /\ c.samples \in Seq(Symbol(A)) /\ c.head \in Nat
<1> DEFINE n == c.sample_count
<1>1. /\ c = [sample_count |-> c.sample_count, samples |-> c.samples, head |-> c.head]
      /\ n \in {0} \cup Sizes
      /\ c.samples \in Seq(Symbol(A)) /\ c.head \in Nat
  BY DEF Collected
<1> HIDE DEF n
<1>2. n \in Nat
  BY <1>1, SymbolsAssumption
<1> QED
  BY <1>1, <1>2 DEF n

\* How a frame takes a symbol in.
Taken(A, c, out, s) ==
  /\ Collect(c, s) \in Collected(A) /\ Collect(c, s).head = c.head
  /\ Hand(c, out, s) \in Seq(Payload(A))
  /\ c.sample_count = 0 => Collect(c, s) = c /\ Hand(c, out, s) = out
  /\ c.sample_count # 0 /\ Len(c.samples) + 1 < c.sample_count =>
       /\ Collect(c, s).sample_count = c.sample_count
       /\ Collect(c, s).samples = Append(c.samples, s)
       /\ Hand(c, out, s) = out
  /\ c.sample_count # 0 /\ Len(c.samples) + 1 >= c.sample_count =>
       /\ Collect(c, s).sample_count = 0
       /\ Hand(c, out, s) =
            IF c.sample_count = Full
              THEN Append(out, [head |-> c.head, samples |-> Append(c.samples, s)])
              ELSE out

\* A frame grows by the symbol, or is over with it.
LEMMA Taking ==
  ASSUME NEW A, NEW c \in Collected(A), NEW out \in Seq(Payload(A)),
         NEW s \in Symbol(A), c.sample_count # 0 => Len(c.samples) < c.sample_count
  PROVE  Taken(A, c, out, s)
<1> USE DEF Taken
<1>1. /\ c = [sample_count |-> c.sample_count, samples |-> c.samples, head |-> c.head]
      /\ c.sample_count \in Nat /\ c.sample_count \in {0} \cup Sizes
      /\ c.samples \in Seq(Symbol(A)) /\ c.head \in Nat
  BY CollectedType
<1>2. /\ Append(c.samples, s) \in Seq(Symbol(A)) /\ Len(c.samples) \in Nat
      /\ Len(Append(c.samples, s)) = Len(c.samples) + 1
  BY <1>1
<1>3. CASE c.sample_count = 0
  <2>1. Copied(c, s) = c
    BY <1>1, <1>2, <1>3 DEF Copied
  <2>2. ~Due(c)
    BY <1>3 DEF Due
  <2> QED
    BY <1>1, <1>2, <1>3, <2>1, <2>2 DEF Collect, Hand
<1>4. CASE c.sample_count # 0
  <2> DEFINE cc == [c EXCEPT !.samples = Append(c.samples, s)]
  <2>1. Copied(c, s) = cc
    BY <1>4 DEF Copied
  <2>2. /\ cc.sample_count = c.sample_count /\ cc.samples = Append(c.samples, s)
        /\ cc.head = c.head /\ cc \in Collected(A)
        /\ [cc EXCEPT !.sample_count = 0] \in Collected(A)
        /\ [cc EXCEPT !.sample_count = 0].sample_count = 0
        /\ [cc EXCEPT !.sample_count = 0].head = c.head
    BY <1>1, <1>2 DEF Collected
  <2> HIDE DEF cc
  <2>3. Due(cc) <=> Len(c.samples) + 1 >= c.sample_count
    BY <1>2, <1>4, <2>2 DEF Due
  <2>4. [head |-> c.head, samples |-> Append(c.samples, s)] \in Payload(A)
    BY <1>1, <1>2 DEF Payload
  <2>5. Append(out, [head |-> c.head, samples |-> Append(c.samples, s)]) \in Seq(Payload(A))
    BY <2>4
  <2> QED
    BY <1>1, <1>2, <1>4, <2>1, <2>2, <2>3, <2>5 DEF Collect, Hand, DecodeData
<1> QED
  BY <1>3, <1>4

\* Taking in a symbol keeps the order of frame and payloads.
LEMMA TakingOrdered ==
  ASSUME NEW A, NEW c \in Collected(A), NEW out \in Seq(Payload(A)),
         NEW s \in Symbol(A), Ordered(c, out), NotBefore(s, c.head)
  PROVE  Ordered(Collect(c, s), Hand(c, out, s))
<1>1. /\ c.sample_count \in Nat /\ c.samples \in Seq(Symbol(A)) /\ c.head \in Nat
      /\ c.sample_count # 0 => Len(c.samples) < c.sample_count
  BY CollectedType DEF Ordered
<1>t. Taken(A, c, out, s)
  BY <1>1, Taking
<1>2. CASE c.sample_count = 0
  <2>1. Collect(c, s) = c /\ Hand(c, out, s) = out
    BY <1>2, <1>t DEF Taken
  <2> QED
    BY <2>1
<1>3. ASSUME c.sample_count # 0
      PROVE  \A d \in DOMAIN Append(c.samples, s) : NotBefore(Append(c.samples, s)[d], c.head)
  <2> SUFFICES ASSUME NEW d \in DOMAIN Append(c.samples, s)
               PROVE  NotBefore(Append(c.samples, s)[d], c.head)
    OBVIOUS
  <2>1. \/ d \in DOMAIN c.samples /\ Append(c.samples, s)[d] = c.samples[d]
        \/ Append(c.samples, s)[d] = s
    BY <1>1
  <2>2. \A e \in DOMAIN c.samples : NotBefore(c.samples[e], c.head)
    BY <1>3 DEF Ordered
  <2> QED
    BY <2>1, <2>2
<1>4. CASE c.sample_count # 0 /\ Len(c.samples) + 1 < c.sample_count
  <2> DEFINE cc == Collect(c, s)
  <2>1. /\ cc.head = c.head /\ cc.sample_count = c.sample_count
        /\ cc.samples = Append(c.samples, s) /\ Hand(c, out, s) = out
    BY <1>4, <1>t DEF Taken
  <2>2. Len(cc.samples) < cc.sample_count
    BY <1>1, <1>4, <2>1
  <2> HIDE DEF cc
  <2>3. \A d \in DOMAIN cc.samples : NotBefore(cc.samples[d], cc.head)
    BY <1>3, <1>4, <2>1
  <2>4. Ordered(cc, out)
    BY <1>4, <2>1, <2>2, <2>3 DEF Ordered
  <2> QED
    BY <2>1, <2>4 DEF cc
<1>5. CASE c.sample_count # 0 /\ Len(c.samples) + 1 >= c.sample_count
  <2> DEFINE p == [head |-> c.head, samples |-> Append(c.samples, s)]
             cc == Collect(c, s)
             oo == Hand(c, out, s)
  <2>1. cc.sample_count = 0 /\ (oo = out \/ oo = Append(out, p))
    BY <1>5, <1>t DEF Taken
  <2>2. p.head = c.head /\ p.samples = Append(c.samples, s)
    OBVIOUS
  <2> HIDE DEF cc, oo, p
  <2>3. CASE oo = out
    BY <2>1, <2>3 DEF Ordered, cc, oo
  <2>4. CASE oo = Append(out, p)
    <3>1. /\ DOMAIN oo = 1 .. Len(out) + 1 /\ oo[Len(out) + 1] = p
          /\ DOMAIN out = 1 .. Len(out) /\ Len(out) \in Nat
          /\ \A i \in DOMAIN out : oo[i] = out[i]
      BY <2>4
    <3>2. \A i \in DOMAIN oo : i \in DOMAIN out \/ i = Len(out) + 1
      BY <3>1
    <3>3. \A i \in DOMAIN oo : \A d \in DOMAIN oo[i].samples :
            NotBefore(oo[i].samples[d], oo[i].head)
      BY <1>3, <1>5, <2>2, <3>1, <3>2 DEF Ordered
    <3>4. \A i, j \in DOMAIN oo : i < j => oo[i].head < oo[j].head
      BY <1>5, <2>2, <3>1, <3>2 DEF Ordered
    <3>5. Ordered(cc, oo)
      BY <2>1, <3>3, <3>4 DEF Ordered
    <3> QED
      BY <3>5 DEF cc, oo
  <2> QED
    BY <2>1, <2>3, <2>4
<1> QED
  BY <1>1, <1>2, <1>4, <1>5

\* Sample sequence w was handed over exactly once.
Once(out, w) ==
  \E i \in DOMAIN out : /\ out[i].samples = w
                        /\ \A k \in DOMAIN out : out[k].samples = w => k = i

\* A symbol that does not complete w hands over no second copy of it.
LEMMA OnceKept ==
  ASSUME NEW A, NEW c, NEW out \in Seq(Payload(A)), NEW s, NEW w,
         c.sample_count \in Nat, Len(c.samples) \in Nat,
         Taken(A, c, out, s), Once(out, w),
         c.sample_count # 0 => Append(c.samples, s) # w
  PROVE  Once(Hand(c, out, s), w)
<1> DEFINE p == [head |-> c.head, samples |-> Append(c.samples, s)]
           oo == Hand(c, out, s)
<1>1. oo = out \/ (oo = Append(out, p) /\ p.samples # w)
  <2>1. CASE c.sample_count = 0
    BY <2>1 DEF Taken
  <2>2. CASE c.sample_count # 0 /\ Len(c.samples) + 1 < c.sample_count
    BY <2>2 DEF Taken
  <2>3. CASE c.sample_count # 0 /\ Len(c.samples) + 1 >= c.sample_count
    <3>1. p.samples # w
      BY <2>3
    <3> HIDE DEF p
    <3>2. Hand(c, out, s) = IF c.sample_count = Full THEN Append(out, p) ELSE out
      BY <2>3 DEF Taken, p
    <3> QED
      BY <3>1, <3>2
  <2>4. c.sample_count = 0 \/ Len(c.samples) + 1 < c.sample_count
                           \/ Len(c.samples) + 1 >= c.sample_count
    OBVIOUS
  <2> HIDE DEF p, oo
  <2> QED
    BY <2>1, <2>2, <2>3, <2>4
<1> HIDE DEF p, oo
<1>2. CASE oo = out
  BY <1>2 DEF oo
<1>3. CASE oo = Append(out, p) /\ p.samples # w
  <2>1. /\ DOMAIN oo = 1 .. Len(out) + 1 /\ oo[Len(out) + 1] = p
        /\ DOMAIN out = 1 .. Len(out) /\ Len(out) \in Nat
        /\ \A i \in DOMAIN out : oo[i] = out[i]
    BY <1>3
  <2>2. \A i \in DOMAIN oo : i \in DOMAIN out \/ oo[i].samples # w
    BY <1>3, <2>1
  <2>3. PICK i \in DOMAIN out : /\ out[i].samples = w
                                /\ \A k \in DOMAIN out : out[k].samples = w => k = i
    BY DEF Once
  <2>4. i \in DOMAIN oo /\ oo[i].samples = w
    BY <2>1, <2>3
  <2>5. \A k \in DOMAIN oo : oo[k].samples = w => k = i
    BY <2>1, <2>2, <2>3
  <2>6. Once(oo, w)
    BY <2>4, <2>5 DEF Once
  <2> QED
    BY <2>6 DEF oo
<1> QED
  BY <1>1, <1>2, <1>3 DEF oo

\* A symbol that completes w, which was not handed over before, hands it over once.
LEMMA OnceMade ==
  ASSUME NEW A, NEW c, NEW out \in Seq(Payload(A)), NEW s, NEW w,
         Taken(A, c, out, s),
         c.sample_count # 0, Len(c.samples) + 1 >= c.sample_count, c.sample_count = Full,
         Append(c.samples, s) = w, \A i \in DOMAIN out : out[i].samples # w
  PROVE  Once(Hand(c, out, s), w)
<1> DEFINE p == [head |-> c.head, samples |-> Append(c.samples, s)]
           oo == Hand(c, out, s)
<1>1. oo = Append(out, p) /\ p.samples = w
  BY DEF Taken
<1> HIDE DEF p, oo
<1>2. /\ DOMAIN oo = 1 .. Len(out) + 1 /\ oo[Len(out) + 1] = p
      /\ DOMAIN out = 1 .. Len(out) /\ Len(out) \in Nat
      /\ \A i \in DOMAIN out : oo[i] = out[i]
  BY <1>1
<1>3. \A i \in DOMAIN oo : i \in DOMAIN out \/ i = Len(out) + 1
  BY <1>2
<1>4. \A i \in DOMAIN oo : oo[i].samples = w => i = Len(out) + 1
  BY <1>2, <1>3
<1>5. Len(out) + 1 \in DOMAIN oo
  BY <1>2
<1>6. Once(oo, w)
  BY <1>1, <1>2, <1>4, <1>5 DEF Once
<1> QED
  BY <1>6 DEF oo

\* What was handed over or is collected after frame f is not frame f's.
LEMMA NotOwn ==
  ASSUME NEW q, NEW w, NEW h \in Nat, NEW x,
         1 \in DOMAIN w, w[1].samples[1] = x, x # Noise, x[1] \in Nat, x[1] < h,
         \A d \in DOMAIN q : NotBefore(q[d], h)
  PROVE  q # w
<1> SUFFICES ASSUME q = w PROVE FALSE
  OBVIOUS
<1>1. NotBefore(q[1], h) /\ q[1].samples[1] = x
  OBVIOUS
<1>2. 1 \in 1 .. Sym
  BY SymbolsAssumption
<1>3. x = Noise \/ x[1] >= h
  BY <1>1, <1>2 DEF NotBefore
<1> QED
  BY <1>3

-----------------------------------------------------------------------------
(* One sample through the blocks *)

\* The sample the d-th symbol of a frame begins with, its header being the 0th.
FrameAt(d) == 2 * Sym + d * Block

\* Samples that have been on the air.
OnAir ==
  {x \in Samples : \/ x = Noise
                   \/ x[1] < air.frame
                   \/ x[1] = air.frame /\ (air.next > 0 => x[2] < air.next)}

Typed ==
  /\ air \in [frame : 0 .. MaxFrames, next : Nat, quiet : 0 .. Sts]
  /\ size \in Seq(Sizes) /\ Len(size) = air.frame
  /\ m_offset \in 0 .. Block - 1
  /\ m_current_vector \in [samples : Row(OnAir), tag : {"NONE", "LTS_START"}]
  /\ m_lts_flag \in {0, 2}
  /\ m_frame_start \in BOOLEAN
  /\ m_chan_est \in Seq(Row(Samples))
  /\ m_symbol_count \in 0 .. Period - 1
  /\ m_current_frame \in Collected(OnAir)
  /\ delivered \in Seq(Payload(OnAir))
  /\ whole \subseteq 1 .. air.frame

\* The sizes, as numbers.
LEMMA SizesType ==
  /\ Cp \in Nat /\ Cp >= 1 /\ Sym \in Nat /\ Sym >= 2 /\ Period \in Nat /\ Period >= 1
  /\ Block \in Nat /\ Block = Cp + Sym /\ Sts \in Nat /\ Sts = 2 * Block
  /\ MaxFrames \in Nat
BY SymbolsAssumption DEF Block, Sts

\* What a sample does to fft_symbols, and the symbol it completes.
LEMMA Filling ==
  ASSUME Typed, NEW tag, NEW x, Receive(tag, x)
  PROVE  LET o == OffsetAt(tag)
             t == IF tag = "LTS1" THEN "LTS_START" ELSE m_current_vector.tag
         IN  /\ o \in 0 .. Block - 1
             /\ m_offset' = IF o + 1 = Block THEN 0 ELSE o + 1
             /\ m_current_vector' = [samples |-> m_current_vector'.samples,
                                     tag |-> IF o + 1 = Block THEN "NONE" ELSE t]
             /\ DOMAIN m_current_vector'.samples = 1 .. Sym
             /\ m_current_vector'.samples = [j \in 1 .. Sym |-> m_current_vector'.samples[j]]
             /\ \A j \in 1 .. Sym : m_current_vector'.samples[j] =
                  IF j = o - Cp + 1 THEN x ELSE m_current_vector.samples[j]
             /\ Cut(tag, x) =
                  IF o + 1 = Block
                    THEN << [samples |-> m_current_vector'.samples, tag |-> t] >>
                    ELSE CutShort(tag)
<1> DEFINE o == OffsetAt(tag)
           t == IF tag = "LTS1" THEN "LTS_START" ELSE m_current_vector.tag
           old == m_current_vector.samples
           new == IF o >= Cp THEN [old EXCEPT ![o - Cp + 1] = x] ELSE old
<1>1. /\ Cp \in Nat /\ Sym \in Nat /\ Sym >= 2 /\ Block \in Nat /\ Block = Cp + Sym
  BY SizesType
<1>2. o \in 0 .. Block - 1
  BY <1>1 DEF OffsetAt, Typed
<1>3. /\ m_current_vector = [samples |-> old, tag |-> m_current_vector.tag]
      /\ DOMAIN old = 1 .. Sym /\ old = [j \in 1 .. Sym |-> old[j]]
  BY DEF Typed, Row
<1>4. VectorAt(tag) = [samples |-> old, tag |-> t]
  BY <1>3 DEF VectorAt
<1>5. Filled(tag, x) = [samples |-> new, tag |-> t]
  <2>1. o = OffsetAt(tag)
    OBVIOUS
  <2>2. [VectorAt(tag) EXCEPT !.samples[o - Cp + 1] = x] =
          [samples |-> [old EXCEPT ![o - Cp + 1] = x], tag |-> t]
    BY <1>4
  <2> HIDE DEF o, t, old
  <2> QED
    BY <1>4, <2>1, <2>2 DEF Filled
<1>6. /\ m_offset' = IF o + 1 = Block THEN 0 ELSE o + 1
      /\ m_current_vector' = IF o + 1 = Block THEN [Filled(tag, x) EXCEPT !.tag = "NONE"]
                                              ELSE Filled(tag, x)
  BY DEF Receive, Completes
<1>7. /\ DOMAIN new = 1 .. Sym /\ new = [j \in 1 .. Sym |-> new[j]]
      /\ \A j \in 1 .. Sym : new[j] = IF j = o - Cp + 1 THEN x ELSE old[j]
  <2> HIDE DEF old, o
  <2>1. CASE o >= Cp
    BY <1>1, <1>2, <1>3, <2>1
  <2>2. CASE ~(o >= Cp)
    BY <1>1, <1>2, <1>3, <2>2
  <2> QED
    BY <2>1, <2>2
<1>8. m_current_vector' = [samples |-> new, tag |-> IF o + 1 = Block THEN "NONE" ELSE t]
  <2> HIDE DEF new, o, t
  <2> QED
    BY <1>5, <1>6
<1>9. m_current_vector'.samples = new
  BY <1>8
<1>10. Cut(tag, x) = IF o + 1 = Block THEN << [samples |-> new, tag |-> t] >> ELSE CutShort(tag)
  <2> HIDE DEF new, t
  <2> QED
    BY <1>5 DEF Cut, Completes
<1> HIDE DEF new, o, t, old
<1>11. /\ o \in 0 .. Block - 1
       /\ m_offset' = IF o + 1 = Block THEN 0 ELSE o + 1
       /\ m_current_vector' = [samples |-> m_current_vector'.samples,
                                     tag |-> IF o + 1 = Block THEN "NONE" ELSE t]
       /\ DOMAIN m_current_vector'.samples = 1 .. Sym
       /\ m_current_vector'.samples = [j \in 1 .. Sym |-> m_current_vector'.samples[j]]
       /\ \A j \in 1 .. Sym : m_current_vector'.samples[j] =
            IF j = o - Cp + 1 THEN x ELSE old[j]
       /\ Cut(tag, x) =
                  IF o + 1 = Block
                    THEN << [samples |-> m_current_vector'.samples, tag |-> t] >>
                    ELSE CutShort(tag)
  BY <1>2, <1>6, <1>7, <1>8, <1>9, <1>10
<1> QED
  BY <1>11 DEF o, t, old

\* The same for the samples that begin no frame.
LEMMA Fills ==
  ASSUME Typed, NEW tag \in {"NONE", "LTS2"}, NEW x, Receive(tag, x)
  PROVE  LET o == OffsetAt(tag)
             w == m_current_vector'.samples
         IN  /\ o \in 0 .. Block - 1
             /\ m_offset' = IF o + 1 = Block THEN 0 ELSE o + 1
             /\ m_current_vector'.tag =
                  IF o + 1 = Block THEN "NONE" ELSE m_current_vector.tag
             /\ w = [j \in 1 .. Sym |-> w[j]]
             /\ \A j \in 1 .. Sym :
                  w[j] = IF j = o - Cp + 1 THEN x ELSE m_current_vector.samples[j]
             /\ Cut(tag, x) = IF o + 1 = Block
                                THEN << [samples |-> w, tag |-> m_current_vector.tag] >>
                                ELSE << >>
<1>1. tag # "LTS1" /\ CutShort(tag) = << >>
  BY DEF CutShort
<1>2. \A sm, tg, e : e = [samples |-> sm, tag |-> tg] => e.tag = tg
  OBVIOUS
<1> QED
  BY <1>1, <1>2, Filling

\* What a symbol of the samples in v is for frame_decoder.
Heard(v) == [samples |-> v, est |-> m_chan_est,
             pol |-> IF m_frame_start THEN 0 ELSE m_symbol_count]

\* A sample that completes no symbol changes nothing behind fft_symbols.
LEMMA NoCut ==
  ASSUME NEW tag, NEW x, Receive(tag, x), Cut(tag, x) = << >>
  PROVE  UNCHANGED <<m_lts_flag, m_frame_start, m_chan_est, m_symbol_count,
                     m_current_frame, delivered, refused>>
<1>1. AfterAll(Cut(tag, x), air'.frame) = {Trackers}
  BY DEF AfterAll
<1> QED
  BY <1>1 DEF Receive, Trackers

\* The first symbol of the training, and the second.
LEMMA FirstTraining ==
  ASSUME Typed, NEW tag, NEW x, NEW v, Receive(tag, x), Cut(tag, x) = << v >>,
         v.tag = "LTS_START"
  PROVE  /\ m_lts_flag' = 2 /\ m_chan_est' = << v.samples >>
         /\ UNCHANGED <<m_frame_start, m_symbol_count, m_current_frame, delivered, refused>>
<1>1. AfterAll(Cut(tag, x), air'.frame) = {Learn(Trackers, v)}
  BY DEF AfterAll, After, IsTraining
<1>2. /\ Learn(Trackers, v).flag = 2 /\ Learn(Trackers, v).est = << v.samples >>
      /\ Learn(Trackers, v).start = m_frame_start
      /\ Learn(Trackers, v).count = m_symbol_count
      /\ Learn(Trackers, v).frame = m_current_frame
      /\ Learn(Trackers, v).out = delivered
      /\ Learn(Trackers, v).refused = refused
  BY DEF Learn, Trackers, Typed
<1> QED
  BY <1>1, <1>2 DEF Receive

LEMMA SecondTraining ==
  ASSUME Typed, NEW tag, NEW x, NEW v, Receive(tag, x), Cut(tag, x) = << v >>,
         v.tag # "LTS_START", m_lts_flag = 2
  PROVE  /\ m_lts_flag' = 0 /\ m_chan_est' = Append(m_chan_est, v.samples)
         /\ m_frame_start' = TRUE
         /\ UNCHANGED <<m_symbol_count, m_current_frame, delivered, refused>>
<1>1. AfterAll(Cut(tag, x), air'.frame) = {Learn(Trackers, v)}
  BY DEF AfterAll, After, IsTraining, Trackers
<1>2. /\ Learn(Trackers, v).flag = 0 /\ Learn(Trackers, v).est = Append(m_chan_est, v.samples)
      /\ Learn(Trackers, v).start = TRUE
      /\ Learn(Trackers, v).count = m_symbol_count
      /\ Learn(Trackers, v).frame = m_current_frame
      /\ Learn(Trackers, v).out = delivered
      /\ Learn(Trackers, v).refused = refused
  BY DEF Learn, Trackers, Typed
<1> QED
  BY <1>1, <1>2 DEF Receive

\* What the frame decoder does with any symbol.
LEMMA Delivering ==
  ASSUME NEW s
  PROVE  LET d == Deliver(Track(Trackers), s) IN
         /\ d = [flag |-> m_lts_flag, start |-> FALSE, est |-> m_chan_est,
                 count |-> d.count, frame |-> d.frame, out |-> d.out,
                 refused |-> refused]
         /\ d.count = (CountOf(Trackers) + 1) % Period
         /\ d.frame = Collect(m_current_frame, s)
         /\ d.out = Hand(m_current_frame, delivered, s)
<1> DEFINE t == Track(Trackers)
           c == Copied(m_current_frame, s)
           n == (CountOf(Trackers) + 1) % Period
           p == [head |-> c.head, samples |-> c.samples]
<1>1. t = [flag |-> m_lts_flag, start |-> FALSE, est |-> m_chan_est, count |-> n,
           frame |-> m_current_frame, out |-> delivered, refused |-> refused]
  <2>1. t = [Trackers EXCEPT !.start = FALSE, !.count = n]
    BY DEF Track
  <2> HIDE DEF n, t
  <2> QED
    BY <2>1 DEF Trackers
<1>t. t = Track(Trackers)
  OBVIOUS
<1>n. n = (CountOf(Trackers) + 1) % Period
  OBVIOUS
<1>p. p = [head |-> c.head, samples |-> c.samples]
  OBVIOUS
<1> HIDE DEF t, n, p
<1>2. CASE Due(c)
  <2>1. t.frame = m_current_frame /\ t.out = delivered
    BY <1>1
  <2>2. Deliver(t, s) = [t EXCEPT !.frame = [c EXCEPT !.sample_count = 0],
                   !.out = IF DecodeData(c) THEN Append(delivered, p) ELSE delivered]
    BY <1>2, <1>p, <2>1 DEF Deliver
  <2>3. Collect(m_current_frame, s) = [c EXCEPT !.sample_count = 0]
    BY <1>2 DEF Collect
  <2>4. Hand(m_current_frame, delivered, s) =
          IF DecodeData(c) THEN Append(delivered, p) ELSE delivered
    BY <1>2, <1>p DEF Hand
  <2> HIDE DEF c
  <2>5. Deliver(t, s) = [t EXCEPT !.frame = Collect(m_current_frame, s),
                                  !.out = Hand(m_current_frame, delivered, s)]
    BY <2>2, <2>3, <2>4
  <2>6. Deliver(t, s) = [flag |-> m_lts_flag, start |-> FALSE, est |-> m_chan_est,
                         count |-> n, frame |-> Collect(m_current_frame, s),
                         out |-> Hand(m_current_frame, delivered, s), refused |-> refused]
    BY <1>1, <2>5
  <2> QED
    BY <1>t, <1>n, <2>6
<1>3. CASE ~Due(c)
  <2>1. t.frame = m_current_frame /\ t.out = delivered
    BY <1>1
  <2>2. Deliver(t, s) = [t EXCEPT !.frame = c]
    BY <1>3, <2>1 DEF Deliver
  <2>3. Collect(m_current_frame, s) = c /\ Hand(m_current_frame, delivered, s) = delivered
    BY <1>3 DEF Collect, Hand
  <2> HIDE DEF c
  <2>4. Deliver(t, s) = [flag |-> m_lts_flag, start |-> FALSE, est |-> m_chan_est,
                         count |-> n, frame |-> Collect(m_current_frame, s),
                         out |-> Hand(m_current_frame, delivered, s), refused |-> refused]
    BY <1>1, <2>2, <2>3
  <2> QED
    BY <1>t, <1>n, <2>4
<1> QED
  BY <1>2, <1>3

\* A symbol of the data, and the header.
LEMMA DataSymbol ==
  ASSUME Typed, NEW tag, NEW x, NEW v, Receive(tag, x), Cut(tag, x) = << v >>,
         v.tag # "LTS_START", m_lts_flag = 0, ~m_frame_start
  PROVE  /\ m_frame_start' = FALSE /\ UNCHANGED <<m_lts_flag, m_chan_est, refused>>
         /\ m_symbol_count' = (m_symbol_count + 1) % Period
         /\ m_current_frame' = Collect(m_current_frame, Heard(v.samples))
         /\ delivered' = Hand(m_current_frame, delivered, Heard(v.samples))
<1> DEFINE s == Heard(v.samples)
<1>1. Equalised(Trackers, v) = s /\ CountOf(Trackers) = m_symbol_count
  BY DEF Equalised, Heard, Trackers, CountOf
<1>2. AfterAll(Cut(tag, x), air'.frame) = {Deliver(Track(Trackers), s)}
  BY <1>1 DEF AfterAll, After, IsTraining, Trackers
<1> HIDE DEF s
<1>3. PICK t \in {Deliver(Track(Trackers), s)} :
         /\ m_lts_flag' = t.flag
         /\ m_frame_start' = t.start
         /\ m_chan_est' = t.est
         /\ m_symbol_count' = t.count
         /\ m_current_frame' = t.frame
         /\ delivered' = t.out
         /\ refused' = t.refused
  BY <1>2 DEF Receive
<1> DEFINE d == Deliver(Track(Trackers), s)
<1>4. t = d
  BY <1>3
<1>5. /\ d = [flag |-> m_lts_flag, start |-> FALSE, est |-> m_chan_est,
              count |-> d.count, frame |-> d.frame, out |-> d.out, refused |-> refused]
      /\ d.count = (m_symbol_count + 1) % Period
      /\ d.frame = Collect(m_current_frame, s)
      /\ d.out = Hand(m_current_frame, delivered, s)
  BY <1>1, Delivering
<1> HIDE DEF d
<1> QED
  BY <1>3, <1>4, <1>5 DEF s

LEMMA HeaderSymbol ==
  ASSUME Typed, NEW tag, NEW x, NEW v, Receive(tag, x), Cut(tag, x) = << v >>,
         v.tag # "LTS_START", m_lts_flag = 0, m_frame_start
  PROVE  LET s == Heard(v.samples) IN
         /\ m_frame_start' = FALSE /\ UNCHANGED <<m_lts_flag, m_chan_est>>
         /\ m_symbol_count' = 1 % Period
         /\ delivered' = Hand(m_current_frame, delivered, s)
         /\ \E n \in HeaderReads(s) :
              IF n = 0
                THEN /\ m_current_frame' = Collect(m_current_frame, s)
                     /\ refused' = IF IntactHeader(air'.frame, s)
                                     THEN refused \cup {air'.frame} ELSE refused
                ELSE /\ m_current_frame' = [sample_count |-> n, samples |-> << >>,
                                            head |-> air'.frame]
                     /\ refused' = refused
<1> DEFINE s == Heard(v.samples)
           f == air'.frame
           d == Deliver(Track(Trackers), s)
<1>1. Equalised(Trackers, v) = s /\ CountOf(Trackers) = 0
  BY DEF Equalised, Heard, Trackers, CountOf
<1>2. AfterAll(Cut(tag, x), f) = {Begin(d, f, n, s) : n \in HeaderReads(s)}
  <2>1. AfterAll(Cut(tag, x), f) = After(Trackers, v, f)
    BY DEF AfterAll
  <2>2. Trackers.start /\ ~IsTraining(Trackers, v)
    BY DEF Trackers, IsTraining
  <2>3. d = Deliver(Track(Trackers), Equalised(Trackers, v))
    BY <1>1
  <2> HIDE DEF d, s
  <2> QED
    BY <1>1, <2>1, <2>2, <2>3 DEF After
<1>3. /\ d = [flag |-> m_lts_flag, start |-> FALSE, est |-> m_chan_est,
              count |-> d.count, frame |-> d.frame, out |-> d.out, refused |-> refused]
      /\ d.count = 1 % Period
      /\ d.frame = Collect(m_current_frame, s)
      /\ d.out = Hand(m_current_frame, delivered, s)
  <2>1. 0 + 1 = 1
    OBVIOUS
  <2> HIDE DEF s
  <2> QED
    BY <1>1, <2>1, Delivering
<1>4. PICK n \in HeaderReads(s) :
         /\ m_lts_flag' = Begin(d, f, n, s).flag
         /\ m_frame_start' = Begin(d, f, n, s).start
         /\ m_chan_est' = Begin(d, f, n, s).est
         /\ m_symbol_count' = Begin(d, f, n, s).count
         /\ m_current_frame' = Begin(d, f, n, s).frame
         /\ delivered' = Begin(d, f, n, s).out
         /\ refused' = Begin(d, f, n, s).refused
  <2>1. \E t \in {Begin(d, f, n, s) : n \in HeaderReads(s)} :
         /\ m_lts_flag' = t.flag
         /\ m_frame_start' = t.start
         /\ m_chan_est' = t.est
         /\ m_symbol_count' = t.count
         /\ m_current_frame' = t.frame
         /\ delivered' = t.out
         /\ refused' = t.refused
    BY <1>2 DEF Receive, f
  <2> QED
    BY <2>1
<1>5. CASE n = 0
  <2>1. Begin(d, f, n, s) =
          [d EXCEPT !.refused = IF IntactHeader(f, s) THEN @ \cup {f} ELSE @]
    BY <1>5 DEF Begin
  <2> DEFINE b == Begin(d, f, n, s)
             r == IF IntactHeader(f, s) THEN refused \cup {f} ELSE refused
  <2>2. d.refused = refused
    BY <1>3
  <2>3. b = [d EXCEPT !.refused = r]
    BY <2>1, <2>2
  <2> HIDE DEF r
  <2>4. /\ b.flag = m_lts_flag /\ b.start = FALSE /\ b.est = m_chan_est /\ b.count = d.count
        /\ b.frame = d.frame /\ b.out = d.out /\ b.refused = r
    BY <1>3, <2>3
  <2> HIDE DEF b
  <2>5. /\ m_frame_start' = FALSE /\ UNCHANGED <<m_lts_flag, m_chan_est>>
        /\ m_symbol_count' = 1 % Period
        /\ delivered' = Hand(m_current_frame, delivered, s)
        /\ m_current_frame' = Collect(m_current_frame, s) /\ refused' = r
    BY <1>3, <1>4, <2>4 DEF b
  <2> QED
    BY <1>5, <2>5 DEF s, f, r
<1>6. CASE n # 0
  <2>1. Begin(d, f, n, s) =
          [d EXCEPT !.frame = [sample_count |-> n, samples |-> << >>, head |-> f]]
    BY <1>6 DEF Begin
  <2> QED
    BY <1>3, <1>4, <1>6, <2>1 DEF s, f
<1> QED
  BY <1>5, <1>6

-----------------------------------------------------------------------------
(* The invariant *)

\* Where the frame on the air has come to, and the blocks with it: before its
\* first sample and after its last, in the two symbols of the training, and in
\* the d-th symbol after them.
Between ==
  /\ m_current_vector.tag = "NONE" /\ m_lts_flag = 0
  /\ m_chan_est = << >> \/ Len(m_chan_est) = 2
  /\ m_frame_start => air.quiet <= m_offset
  /\ \A j \in 1 .. Sym : \/ m_current_vector.samples[j] = Noise
                         \/ m_current_vector.samples[j][1] = air.frame

InFirst ==
  /\ air.next < Sym /\ m_offset = Cp + air.next
  /\ m_current_vector.tag = "LTS_START" /\ m_lts_flag = 0 /\ ~m_frame_start
  /\ m_chan_est = << >> \/ Len(m_chan_est) = 2
  /\ \A i \in 1 .. air.next : m_current_vector.samples[i] = <<air.frame, i - 1>>

InSecond ==
  /\ air.next >= Sym /\ air.next < 2 * Sym
  /\ m_offset = IF air.next = Sym THEN 0 ELSE Cp + air.next - Sym
  /\ m_current_vector.tag = "NONE" /\ m_lts_flag = 2 /\ ~m_frame_start
  /\ m_chan_est = << Training(air.frame)[1] >>
  /\ \A i \in 1 .. air.next - Sym :
       m_current_vector.samples[i] = <<air.frame, Sym + i - 1>>

\* The first d symbols of frame f's payload.
OwnPart(f, d) ==
  [e \in 1 .. d |-> [samples |-> Body(f, e), est |-> Training(f), pol |-> e % Period]]

InSymbol(d) ==
  /\ air.next = FrameAt(d) + m_offset
  /\ m_current_vector.tag = "NONE" /\ m_lts_flag = 0
  /\ m_chan_est = Training(air.frame)
  /\ m_frame_start <=> d = 0
  /\ d >= 1 => m_symbol_count = d % Period
  /\ \A i \in 1 .. m_offset - Cp :
       m_current_vector.samples[i] = <<air.frame, FrameAt(d) + Cp + i - 1>>
  /\ \A j \in 1 .. Sym : \/ m_current_vector.samples[j] = Noise
                         \/ m_current_vector.samples[j][1] = air.frame
  /\ d >= 1 /\ air.frame \notin refused =>
       /\ m_current_frame.head = air.frame
       /\ m_current_frame.sample_count = size[air.frame]
       /\ m_current_frame.samples = OwnPart(air.frame, d - 1)

Place ==
  /\ air.next = 0 => Between
  /\ air.next > 0 => /\ air.frame >= 1 /\ air.frame \notin whole
                     /\ \/ InFirst \/ InSecond
                        \/ \E d \in 0 .. size[air.frame] : InSymbol(d)

\* Whose headers were heard: none of the frame on the air before its own.
Heads ==
  /\ \A i \in DOMAIN delivered : delivered[i].head <= air.frame
  /\ m_current_frame.head <= air.frame

Pending ==
  m_frame_start \/ (air.next > 0 /\ air.next < 2 * Sym) =>
    /\ air.frame \notin whole
    /\ \A i \in DOMAIN delivered : delivered[i].head < air.frame
    /\ m_current_frame.head < air.frame

\* What was sent whole is over, and was delivered once.
Kept ==
  \A f \in whole \ refused :
    /\ m_current_frame.sample_count # 0 => m_current_frame.head > f
    /\ size[f] = Full => Once(delivered, OwnPayload(f))

SymInv == Typed /\ Place /\ Ordered(m_current_frame, delivered) /\ Heads /\ Pending /\ Kept

-----------------------------------------------------------------------------
(* The steps *)

\* What is made of the samples of A is made of those of a larger B.
LEMMA Larger ==
  ASSUME NEW A, NEW B, A \subseteq B
  PROVE  /\ Row(A) \subseteq Row(B) /\ Symbol(A) \subseteq Symbol(B)
         /\ Collected(A) \subseteq Collected(B)
         /\ Seq(Payload(A)) \subseteq Seq(Payload(B))
<1>1. Row(A) \subseteq Row(B)
  BY DEF Row
<1>2. Symbol(A) \subseteq Symbol(B)
  BY <1>1 DEF Symbol
<1>3. \A S, T : S \subseteq T => Seq(S) \subseteq Seq(T)
  <2> SUFFICES ASSUME NEW S, NEW T, S \subseteq T, NEW q \in Seq(S) PROVE q \in Seq(T)
    OBVIOUS
  <2>1. /\ Len(q) \in Nat /\ q = [i \in 1 .. Len(q) |-> q[i]]
        /\ \A i \in 1 .. Len(q) : q[i] \in S
    OBVIOUS
  <2> QED
    BY <2>1
<1>4. Seq(Symbol(A)) \subseteq Seq(Symbol(B))
  BY <1>2, <1>3
<1>5. Collected(A) \subseteq Collected(B)
  BY <1>4 DEF Collected
<1>6. Payload(A) \subseteq Payload(B)
  BY <1>4 DEF Payload
<1>7. Seq(Payload(A)) \subseteq Seq(Payload(B))
  BY <1>3, <1>6
<1> QED
  BY <1>1, <1>2, <1>5, <1>7

\* The symbols of a frame follow each other.
LEMMA FrameSteps ==
  /\ FrameAt(0) = 2 * Sym
  /\ \A d \in Nat : /\ FrameAt(d) \in Nat /\ FrameAt(d) >= 2 * Sym
                    /\ FrameAt(d + 1) = FrameAt(d) + Block
                    /\ FrameLength(d) = FrameAt(d + 1)
  /\ \A d, e \in Nat : d < e => FrameAt(d) + Block <= FrameAt(e)
<1>1. Block \in Nat /\ Sym \in Nat
  BY SizesType
<1>2. \A b \in Nat : 0 * b = 0
  OBVIOUS
<1>3. \A b, d \in Nat : d * b \in Nat /\ (d + 1) * b = d * b + b
  OBVIOUS
<1>4. \A b, d, e \in Nat : d < e => d * b + b <= e * b
  <2> SUFFICES ASSUME NEW b \in Nat, NEW d \in Nat, NEW e \in Nat, d < e
               PROVE  d * b + b <= e * b
    OBVIOUS
  <2>1. PICK g \in Nat : e = d + 1 + g
    <3>1. e - d - 1 \in Nat /\ e = d + 1 + (e - d - 1)
      OBVIOUS
    <3> QED
      BY <3>1
  <2>2. e * b = d * b + b + g * b
    BY <2>1
  <2>3. g * b \in Nat /\ d * b \in Nat
    OBVIOUS
  <2> QED
    BY <2>2, <2>3
<1>5. FrameAt(0) = 2 * Sym
  BY <1>1, <1>2 DEF FrameAt
<1>6. ASSUME NEW d \in Nat
      PROVE  /\ FrameAt(d) \in Nat /\ FrameAt(d) >= 2 * Sym
             /\ FrameAt(d + 1) = FrameAt(d) + Block
             /\ FrameLength(d) = FrameAt(d + 1)
  <2>1. d * Block \in Nat /\ (d + 1) * Block = d * Block + Block
    BY <1>1, <1>3
  <2>2. FrameAt(d) = 2 * Sym + d * Block /\ FrameAt(d + 1) = 2 * Sym + (d + 1) * Block
    BY DEF FrameAt
  <2>3. FrameLength(d) = 2 * Sym + (d + 1) * Block
    BY <1>1 DEF FrameLength
  <2> QED
    BY <1>1, <2>1, <2>2, <2>3
<1>7. ASSUME NEW d \in Nat, NEW e \in Nat, d < e PROVE FrameAt(d) + Block <= FrameAt(e)
  <2>1. d * Block + Block <= e * Block /\ d * Block \in Nat /\ e * Block \in Nat
    BY <1>1, <1>3, <1>4, <1>7
  <2> HIDE DEF Block
  <2>2. FrameAt(d) = 2 * Sym + d * Block /\ FrameAt(e) = 2 * Sym + e * Block
    BY DEF FrameAt
  <2> QED
    BY <1>1, <2>1, <2>2
<1> QED
  BY <1>5, <1>6, <1>7

\* What the completed symbol becomes with the estimate and polarity in force.
LEMMA HeardType ==
  ASSUME Typed, NEW A, NEW w \in Row(A)
  PROVE  Heard(w) \in Symbol(A) /\ Heard(w).samples = w
<1>1. (IF m_frame_start THEN 0 ELSE m_symbol_count) \in 0 .. Period - 1
  BY SizesType DEF Typed
<1> QED
  BY <1>1 DEF Heard, Symbol, Typed

\* A frame's payload begins with its own samples.
LEMMA OwnBegins ==
  ASSUME Typed, NEW f \in 1 .. air.frame
  PROVE  /\ size[f] \in Nat /\ size[f] >= 1 /\ size[f] \in Sizes
         /\ DOMAIN OwnPayload(f) = 1 .. size[f]
         /\ 1 \in DOMAIN OwnPayload(f)
         /\ OwnPayload(f)[1].samples[1] = <<f, 2 * Sym + Block + Cp>>
         /\ <<f, 2 * Sym + Block + Cp>> # Noise
<1>1. size[f] \in Sizes
  BY DEF Typed
<1>2. size[f] \in Nat /\ size[f] >= 1
  <2>1. \A z \in Nat \ {0} : z \in Nat /\ z >= 1
    OBVIOUS
  <2> QED
    BY <1>1, <2>1, SymbolsAssumption
<1>3. DOMAIN OwnPayload(f) = 1 .. size[f] /\ 1 \in 1 .. size[f]
  BY <1>2 DEF OwnPayload
<1>4. OwnPayload(f)[1].samples = Body(f, 1)
  BY <1>3 DEF OwnPayload
<1>5. Body(f, 1)[1] = <<f, 2 * Sym + 1 * Block + Cp + 1 - 1>>
  BY SizesType DEF Body
<1>6. 2 * Sym + 1 * Block + Cp + 1 - 1 = 2 * Sym + Block + Cp
  BY SizesType
<1>7. f >= 1
  BY DEF Typed
<1> QED
  BY <1>1, <1>2, <1>3, <1>4, <1>5, <1>6, <1>7 DEF Noise

\* A sequence of symbols not before h, with one more of the kind.
LEMMA NotBeforeAppend ==
  ASSUME NEW A, NEW q \in Seq(A), NEW s, NEW h,
         \A d \in DOMAIN q : NotBefore(q[d], h), NotBefore(s, h)
  PROVE  \A d \in DOMAIN Append(q, s) : NotBefore(Append(q, s)[d], h)
<1> SUFFICES ASSUME NEW d \in DOMAIN Append(q, s)
             PROVE  NotBefore(Append(q, s)[d], h)
  OBVIOUS
<1>1. \/ d \in DOMAIN q /\ Append(q, s)[d] = q[d]
      \/ Append(q, s)[d] = s
  OBVIOUS
<1> QED
  BY <1>1

\* The decoder's state is in order: cc and out follow what was sent by frame g,
\* and the frames in done are over and delivered.
Stored(A, cc, out, done, g) ==
  /\ cc \in Collected(A) /\ out \in Seq(Payload(A))
  /\ Ordered(cc, out)
  /\ cc.head <= g
  /\ \A i \in DOMAIN out : out[i].head <= g
  /\ \A f \in done : /\ cc.sample_count # 0 => cc.head > f
                     /\ size[f] = Full => Once(out, OwnPayload(f))

LEMMA StoredTaking ==
  ASSUME Typed, NEW A, NEW c, NEW out, NEW done, NEW g \in Int, NEW s \in Symbol(A),
         done \subseteq 1 .. air.frame,
         Stored(A, c, out, done, g), NotBefore(s, c.head)
  PROVE  /\ Stored(A, Collect(c, s), Hand(c, out, s), done, g)
         /\ Collect(c, s).head = c.head
         /\ Collect(c, s).sample_count # 0 => c.sample_count # 0
<1> DEFINE cc == Collect(c, s)
           oo == Hand(c, out, s)
<1>0. /\ c \in Collected(A) /\ out \in Seq(Payload(A))
      /\ Ordered(c, out) /\ c.head <= g
      /\ \A i \in DOMAIN out : out[i].head <= g
  BY DEF Stored
<1>1. /\ c.sample_count \in Nat /\ c.samples \in Seq(Symbol(A)) /\ c.head \in Nat
      /\ c.sample_count # 0 => Len(c.samples) < c.sample_count
      /\ Len(c.samples) \in Nat
  BY <1>0, CollectedType DEF Ordered
<1>t. Taken(A, c, out, s)
  BY <1>0, <1>1, Taking
<1>2. /\ cc \in Collected(A) /\ oo \in Seq(Payload(A)) /\ cc.head = c.head
      /\ cc.sample_count # 0 => c.sample_count # 0
  BY <1>t DEF Taken
<1>3. Ordered(cc, oo)
  BY <1>0, TakingOrdered
<1>4. \A i \in DOMAIN oo : oo[i].head <= g
  <2>1. c.sample_count = 0 \/ Len(c.samples) + 1 < c.sample_count
                           \/ Len(c.samples) + 1 >= c.sample_count
    BY <1>1
  <2> DEFINE p == [head |-> c.head, samples |-> Append(c.samples, s)]
  <2>p. p.head = c.head /\ p = [head |-> c.head, samples |-> Append(c.samples, s)]
    OBVIOUS
  <2> HIDE DEF p, oo, cc
  <2>2. oo = out \/ oo = Append(out, p)
    BY <2>1, <2>p, <1>t DEF Taken, oo
  <2>3. CASE oo = out
    BY <1>0, <2>3
  <2>4. CASE oo = Append(out, p)
    <3> SUFFICES ASSUME NEW i \in DOMAIN oo PROVE oo[i].head <= g
      OBVIOUS
    <3>1. (i \in DOMAIN out /\ oo[i] = out[i]) \/ oo[i] = p
      BY <1>0, <2>4
    <3> QED
      BY <1>0, <2>p, <3>1
  <2> QED
    BY <2>2, <2>3, <2>4
<1>5. ASSUME NEW f \in done
      PROVE  /\ cc.sample_count # 0 => cc.head > f
             /\ size[f] = Full => Once(oo, OwnPayload(f))
  <2>1. /\ c.sample_count # 0 => c.head > f
        /\ size[f] = Full => Once(out, OwnPayload(f))
    BY DEF Stored
  <2>2. cc.sample_count # 0 => cc.head > f
    BY <1>2, <2>1
  <2>3. ASSUME c.sample_count # 0 PROVE Append(c.samples, s) # OwnPayload(f)
    <3> DEFINE q == Append(c.samples, s)
               w == OwnPayload(f)
               x == <<f, 2 * Sym + Block + Cp>>
    <3>1. f \in 1 .. air.frame /\ x[1] = f /\ f \in Nat
      BY DEF Typed
    <3>2. 1 \in DOMAIN w /\ w[1].samples[1] = x /\ x # Noise
      BY <3>1, OwnBegins
    <3>3. \A d \in DOMAIN c.samples : NotBefore(c.samples[d], c.head)
      BY <1>0, <2>3 DEF Ordered
    <3>4. \A d \in DOMAIN q : NotBefore(q[d], c.head)
      BY <1>1, <3>3, NotBeforeAppend
    <3>5. f < c.head
      BY <1>1, <2>1, <2>3, <3>1
    <3> HIDE DEF q, w, x
    <3>6. q # w
      BY <1>1, <3>1, <3>2, <3>4, <3>5, NotOwn
    <3> QED
      BY <3>6 DEF q, w
  <2>4. ASSUME size[f] = Full PROVE Once(oo, OwnPayload(f))
    BY <1>0, <1>1, <1>t, <2>1, <2>3, <2>4, OnceKept
  <2> QED
    BY <2>2, <2>4
<1> HIDE DEF cc, oo
<1>6. Stored(A, cc, oo, done, g)
  BY <1>0, <1>2, <1>3, <1>4, <1>5 DEF Stored
<1> QED
  BY <1>2, <1>6 DEF cc, oo

\* Heads are frame numbers.
LEMMA PayloadHeads ==
  ASSUME NEW A, NEW out \in Seq(Payload(A))
  PROVE  \A i \in DOMAIN out : out[i].head \in Nat
<1>1. \A i \in DOMAIN out : out[i] \in Payload(A)
  OBVIOUS
<1>2. \A p \in Payload(A) : p.head \in Nat
  BY DEF Payload
<1> QED
  BY <1>1, <1>2

\* The header of frame g empties the frame.
LEMMA StoredBegun ==
  ASSUME NEW A, NEW c, NEW out, NEW done, NEW g \in Nat, NEW n \in Sizes,
         Stored(A, c, out, done, g - 1), done \subseteq 1 .. g - 1
  PROVE  Stored(A, [sample_count |-> n, samples |-> << >>, head |-> g], out, done, g)
<1> DEFINE b == [sample_count |-> n, samples |-> << >>, head |-> g]
<1>1. n \in Nat \ {0}
  BY SymbolsAssumption
<1>2. /\ b.sample_count = n /\ b.samples = << >> /\ b.head = g
      /\ b \in Collected(A)
  BY DEF Collected
<1> HIDE DEF b
<1>3. Len(b.samples) < b.sample_count /\ DOMAIN b.samples = {}
  BY <1>1, <1>2
<1>4. \A i \in DOMAIN out : out[i].head \in Nat /\ out[i].head <= g - 1
  BY PayloadHeads DEF Stored
<1>5. \A i \in DOMAIN out : out[i].head < g /\ out[i].head <= g
  BY <1>4
<1>6. Ordered(b, out)
  BY <1>2, <1>3, <1>5 DEF Ordered, Stored
<1>7. \A f \in done : g > f
  OBVIOUS
<1>8. Stored(A, b, out, done, g)
  <2>1. b.head <= g
    BY <1>2
  <2>2. \A f \in done : /\ b.sample_count # 0 => b.head > f
                       /\ size[f] = Full => Once(out, OwnPayload(f))
    BY <1>2, <1>7 DEF Stored
  <2>3. \A i \in DOMAIN out : out[i].head <= g
    BY <1>5
  <2>4. out \in Seq(Payload(A))
    BY DEF Stored
  <2> QED
    BY <1>2, <1>6, <2>1, <2>2, <2>3, <2>4 DEF Stored
<1> QED
  BY <1>8 DEF b

\* What is in order for a frame is in order for a later one, with fewer frames done.
LEMMA StoredMore ==
  ASSUME NEW A, NEW c, NEW out, NEW done, NEW g \in Int, NEW h \in Int, NEW less,
         Stored(A, c, out, done, g), g <= h, less \subseteq done
  PROVE  Stored(A, c, out, less, h)
<1>1. c.head \in Nat /\ \A i \in DOMAIN out : out[i].head \in Nat
  <2>1. c \in Collected(A) /\ out \in Seq(Payload(A))
    BY DEF Stored
  <2> QED
    BY <2>1, CollectedType, PayloadHeads
<1>2. c.head <= h /\ \A i \in DOMAIN out : out[i].head <= h
  BY <1>1 DEF Stored
<1> QED
  BY <1>2 DEF Stored

\* The samples of the symbol being filled are the frame on the air's, or noise.
OwnVector ==
  \A j \in 1 .. Sym : \/ m_current_vector.samples[j] = Noise
                      \/ m_current_vector.samples[j][1] = air.frame

\* What holds of the stream when it takes the sample x.
Streams(x) ==
  /\ air' \in [frame : 0 .. MaxFrames, next : Nat, quiet : 0 .. Sts]
  /\ size' \in Seq(Sizes) /\ Len(size') = air'.frame
  /\ air.frame <= air'.frame
  /\ \A f \in 1 .. air.frame : size'[f] = size[f]
  /\ whole \subseteq whole' /\ whole' \subseteq 1 .. air.frame
  /\ x \in OnAir' /\ OnAir \subseteq OnAir'

LEMMA SamplesType ==
  /\ Noise \in Samples
  /\ \A f \in Nat, k \in Nat : f >= 1 /\ f <= MaxFrames => <<f, k>> \in Samples
  /\ \A x \in Samples : x[1] \in Nat /\ x[2] \in Nat
BY SizesType DEF Samples, Frames, Noise

\* What was on the air stays so.
LEMMA AirGrows ==
  ASSUME air \in [frame : 0 .. MaxFrames, next : Nat, quiet : 0 .. Sts],
         air' \in [frame : 0 .. MaxFrames, next : Nat, quiet : 0 .. Sts],
         \/ air'.frame = air.frame /\ (air'.next = 0 \/ (air.next > 0 /\ air.next <= air'.next))
         \/ air'.frame > air.frame
  PROVE  OnAir \subseteq OnAir'
<1> SUFFICES ASSUME NEW x \in OnAir PROVE x \in OnAir'
  OBVIOUS
<1>1. /\ x \in Samples /\ x[1] \in Nat /\ x[2] \in Nat
      /\ \/ x = Noise
         \/ x[1] < air.frame
         \/ x[1] = air.frame /\ (air.next > 0 => x[2] < air.next)
  BY SamplesType DEF OnAir
<1>2. air.frame \in Nat /\ air'.frame \in Nat /\ air.next \in Nat /\ air'.next \in Nat
  BY SizesType
<1>3. \/ x = Noise
      \/ x[1] < air'.frame
      \/ x[1] = air'.frame /\ (air'.next > 0 => x[2] < air'.next)
  BY <1>1, <1>2
<1> QED
  BY <1>1, <1>3 DEF OnAir

\* The state of the decoder is in order as it stands.
LEMMA StoredNow ==
  ASSUME SymInv, OnAir \subseteq OnAir'
  PROVE  Stored(OnAir', m_current_frame, delivered, whole \ refused, air.frame)
<1>1. /\ m_current_frame \in Collected(OnAir') /\ delivered \in Seq(Payload(OnAir'))
  <2>1. Collected(OnAir) \subseteq Collected(OnAir') /\ Seq(Payload(OnAir)) \subseteq Seq(Payload(OnAir'))
    BY Larger
  <2> QED
    BY <2>1 DEF SymInv, Typed
<1> QED
  BY <1>1 DEF Stored, SymInv, Heads, Kept

\* The invariant is restored if its parts are.
LEMMA Assembled ==
  ASSUME SymInv, NEW tag, NEW x, Receive(tag, x), Streams(x),
         m_current_vector'.tag \in {"NONE", "LTS_START"},
         m_lts_flag' \in {0, 2}, m_frame_start' \in BOOLEAN,
         m_chan_est' \in Seq(Row(Samples)), m_symbol_count' \in 0 .. Period - 1,
         Stored(OnAir', m_current_frame', delivered', whole' \ refused', air'.frame),
         Place', Pending'
  PROVE  SymInv'
<1> USE DEF SymInv
<1>1. m_offset' \in 0 .. Block - 1 /\ m_current_vector' \in [samples : Row(OnAir'), tag : {"NONE", "LTS_START"}]
  <2>1. /\ OffsetAt(tag) \in 0 .. Block - 1
        /\ m_offset' = IF OffsetAt(tag) + 1 = Block THEN 0 ELSE OffsetAt(tag) + 1
        /\ m_current_vector'.samples = [j \in 1 .. Sym |-> m_current_vector'.samples[j]]
        /\ \A j \in 1 .. Sym : m_current_vector'.samples[j] =
             IF j = OffsetAt(tag) - Cp + 1 THEN x ELSE m_current_vector.samples[j]
        /\ m_current_vector' = [samples |-> m_current_vector'.samples, tag |-> m_current_vector'.tag]
    <3>1. \A sm, tg, e : e = [samples |-> sm, tag |-> tg] => e = [samples |-> sm, tag |-> e.tag]
      OBVIOUS
    <3> QED
      BY <3>1, Filling
  <2>2. m_offset' \in 0 .. Block - 1
    <3>1. \A o \in 0 .. Block - 1 : (IF o + 1 = Block THEN 0 ELSE o + 1) \in 0 .. Block - 1
      BY SizesType
    <3>2. (IF OffsetAt(tag) + 1 = Block THEN 0 ELSE OffsetAt(tag) + 1) \in 0 .. Block - 1
      BY <2>1, <3>1
    <3> QED
      BY <2>1, <3>2
  <2>3. \A j \in 1 .. Sym : m_current_vector.samples[j] \in OnAir'
    BY DEF Typed, Row, Streams
  <2>4. \A j \in 1 .. Sym : m_current_vector'.samples[j] \in OnAir'
    BY <2>1, <2>3 DEF Streams
  <2>5. m_current_vector'.samples \in Row(OnAir')
    BY <2>1, <2>4 DEF Row
  <2> QED
    BY <2>1, <2>2, <2>5
<1>2. whole' \subseteq 1 .. air'.frame
  <2>1. /\ air.frame \in Nat /\ air'.frame \in Nat /\ air.frame <= air'.frame
        /\ whole' \subseteq 1 .. air.frame
    BY SizesType DEF Streams, Typed
  <2>2. \A a, b \in Nat : a <= b => 1 .. a \subseteq 1 .. b
    OBVIOUS
  <2>3. 1 .. air.frame \subseteq 1 .. air'.frame
    BY <2>1, <2>2
  <2> QED
    BY <2>1, <2>3
<1>3. Typed'
  BY <1>1, <1>2 DEF Typed, Stored, Streams
<1>4. Ordered(m_current_frame', delivered') /\ Heads'
  BY DEF Stored, Heads
<1>5. Kept'
  <2> SUFFICES ASSUME NEW f \in whole' \ refused'
               PROVE  /\ m_current_frame'.sample_count # 0 => m_current_frame'.head > f
                      /\ size'[f] = Full => Once(delivered', OwnPayload(f)')
    BY DEF Kept
  <2>1. size'[f] = size[f]
    BY DEF Streams
  <2>2. OwnPayload(f)' = OwnPayload(f)
    BY <2>1 DEF OwnPayload
  <2> QED
    BY <2>1, <2>2 DEF Stored
<1> QED
  BY <1>3, <1>4, <1>5

\* A sample of the frame on the air, or noise, outside the training: the symbol
\* it completes is the header after the training, and data otherwise.
Plain ==
  /\ m_offset' = IF m_offset + 1 = Block THEN 0 ELSE m_offset + 1
  /\ m_current_vector'.tag = "NONE" /\ OwnVector'
  /\ m_current_vector'.samples \in Row(OnAir')
  /\ m_lts_flag' = 0 /\ m_chan_est' = m_chan_est
  /\ m_offset + 1 # Block =>
       UNCHANGED <<m_frame_start, m_symbol_count, m_current_frame, delivered, refused>>
  /\ m_offset + 1 = Block => m_frame_start' = FALSE
  /\ m_symbol_count' \in 0 .. Period - 1 /\ refused \subseteq refused'
  /\ Stored(OnAir', m_current_frame', delivered', whole \ refused', air.frame)

LEMMA PlainSample ==
  ASSUME SymInv, NEW x, Receive("NONE", x), Streams(x), air'.frame = air.frame,
         m_lts_flag = 0, m_current_vector.tag = "NONE", OwnVector,
         x = Noise \/ x[1] = air.frame
  PROVE  Plain
<1> DEFINE w == m_current_vector'.samples
           v == [samples |-> w, tag |-> "NONE"]
           s == Heard(w)
<1>0. Typed /\ OnAir \subseteq OnAir' /\ air.frame \in Nat
  BY SizesType DEF SymInv, Typed, Streams
<1>1. /\ m_offset \in 0 .. Block - 1
      /\ m_offset' = IF m_offset + 1 = Block THEN 0 ELSE m_offset + 1
      /\ m_current_vector'.tag = "NONE"
      /\ w = [j \in 1 .. Sym |-> w[j]]
      /\ \A j \in 1 .. Sym : w[j] = IF j = m_offset - Cp + 1 THEN x ELSE m_current_vector.samples[j]
      /\ Cut("NONE", x) = IF m_offset + 1 = Block THEN << v >> ELSE << >>
  <2>1. OffsetAt("NONE") = m_offset
    BY DEF OffsetAt
  <2> QED
    BY <1>0, <2>1, Fills
<1>2. \A j \in 1 .. Sym : w[j] = Noise \/ w[j][1] = air.frame
  BY <1>1 DEF OwnVector
<1>3. OwnVector'
  BY <1>2 DEF OwnVector
<1>4. w \in Row(OnAir')
  <2>1. \A j \in 1 .. Sym : m_current_vector.samples[j] \in OnAir'
    BY <1>0 DEF Typed, Row
  <2>2. \A j \in 1 .. Sym : w[j] \in OnAir'
    BY <1>1, <2>1 DEF Streams
  <2> QED
    BY <1>1, <2>2 DEF Row
<1>w. m_current_vector'.samples \in Row(OnAir')
  BY <1>4
<1>5. Stored(OnAir', m_current_frame, delivered, whole \ refused, air.frame)
  BY <1>0, StoredNow
<1>6. s \in Symbol(OnAir') /\ s.samples = w
  BY <1>0, <1>4, HeardType
<1>7. NotBefore(s, m_current_frame.head)
  <2>1. m_current_frame.head <= air.frame
    BY DEF SymInv, Heads
  <2> HIDE DEF s, w
  <2> QED
    BY <1>2, <1>6, <2>1 DEF NotBefore
<1>8. v.samples = w /\ v.tag = "NONE"
  OBVIOUS
<1>9. whole \ refused \subseteq 1 .. air.frame
  BY <1>0 DEF Typed
<1> HIDE DEF s, w, v
<1>c. m_offset + 1 = Block => Cut("NONE", x) = << v >> /\ v.tag # "LTS_START"
  BY <1>1, <1>8
<1>10. CASE m_offset + 1 # Block
  <2>1. UNCHANGED <<m_lts_flag, m_frame_start, m_chan_est, m_symbol_count,
                    m_current_frame, delivered, refused>>
    BY <1>1, <1>10, NoCut
  <2>2. m_symbol_count' \in 0 .. Period - 1
    BY <1>0, <2>1 DEF Typed
  <2> QED
    BY <1>1, <1>3, <1>w, <1>5, <1>10, <2>1, <2>2 DEF Plain
<1>11. CASE m_offset + 1 = Block /\ ~m_frame_start
  <2>1. /\ m_frame_start' = FALSE /\ UNCHANGED <<m_lts_flag, m_chan_est, refused>>
        /\ m_symbol_count' = (m_symbol_count + 1) % Period
        /\ m_current_frame' = Collect(m_current_frame, s)
        /\ delivered' = Hand(m_current_frame, delivered, s)
    <3>1. Cut("NONE", x) = << v >> /\ v.tag # "LTS_START" /\ ~m_frame_start
      BY <1>11, <1>c
    <3>2. s = Heard(v.samples)
      BY <1>8 DEF s
    <3> QED
      BY <1>0, <3>1, <3>2, DataSymbol
  <2>2. m_symbol_count' \in 0 .. Period - 1
    BY <1>0, <2>1, SizesType DEF Typed
  <2>3. Stored(OnAir', Collect(m_current_frame, s), Hand(m_current_frame, delivered, s),
               whole \ refused, air.frame)
    BY <1>0, <1>5, <1>6, <1>7, <1>9, StoredTaking
  <2> QED
    BY <1>1, <1>3, <1>w, <1>11, <2>1, <2>2, <2>3 DEF Plain
<1>12. CASE m_offset + 1 = Block /\ m_frame_start
  <2>1. /\ m_frame_start' = FALSE /\ UNCHANGED <<m_lts_flag, m_chan_est>>
        /\ m_symbol_count' = 1 % Period
        /\ delivered' = Hand(m_current_frame, delivered, s)
        /\ \E n \in HeaderReads(s) :
             IF n = 0
               THEN /\ m_current_frame' = Collect(m_current_frame, s)
                    /\ refused' = IF IntactHeader(air'.frame, s)
                                    THEN refused \cup {air'.frame} ELSE refused
               ELSE /\ m_current_frame' = [sample_count |-> n, samples |-> << >>,
                                           head |-> air'.frame]
                    /\ refused' = refused
    <3>1. Cut("NONE", x) = << v >> /\ v.tag # "LTS_START" /\ m_frame_start
      BY <1>12, <1>c
    <3>2. s = Heard(v.samples)
      BY <1>8 DEF s
    <3> QED
      BY <1>0, <3>1, <3>2, HeaderSymbol
  <2>2. m_symbol_count' \in 0 .. Period - 1
    BY <2>1, SizesType
  <2>3. /\ air.frame \notin whole
        /\ \A i \in DOMAIN delivered : delivered[i].head < air.frame
        /\ m_current_frame.head < air.frame
    BY <1>12 DEF SymInv, Pending
  <2>4. Stored(OnAir', m_current_frame, delivered, whole \ refused, air.frame - 1)
    <3>1. \A i \in DOMAIN delivered : delivered[i].head \in Nat
      BY <1>0, PayloadHeads DEF Typed
    <3>2. m_current_frame.head \in Nat
      BY <1>0 DEF Typed, Collected
    <3>3. /\ m_current_frame.head <= air.frame - 1
          /\ \A i \in DOMAIN delivered : delivered[i].head <= air.frame - 1
      BY <1>0, <2>3, <3>1, <3>2
    <3> QED
      BY <1>5, <3>3 DEF Stored
  <2>5. Stored(OnAir', Collect(m_current_frame, s), Hand(m_current_frame, delivered, s),
               whole \ refused, air.frame - 1)
    <3>1. air.frame - 1 \in Int
      BY <1>0
    <3> QED
      BY <1>0, <1>6, <1>7, <1>9, <2>4, <3>1, StoredTaking
  <2>6. PICK n \in HeaderReads(s) :
             IF n = 0
               THEN /\ m_current_frame' = Collect(m_current_frame, s)
                    /\ refused' = IF IntactHeader(air'.frame, s)
                                    THEN refused \cup {air'.frame} ELSE refused
               ELSE /\ m_current_frame' = [sample_count |-> n, samples |-> << >>,
                                           head |-> air'.frame]
                    /\ refused' = refused
    BY <2>1
  <2>7. n = 0 \/ n \in Sizes
    <3>1. \A f \in DOMAIN size : size[f] \in Sizes
      BY <1>0 DEF Typed
    <3> QED
      BY <3>1 DEF HeaderReads
  <2>8. CASE n = 0
    <3>1. m_current_frame' = Collect(m_current_frame, s) /\ whole \ refused' \subseteq whole \ refused
      BY <2>6, <2>8
    <3>2. Stored(OnAir', m_current_frame', delivered', whole \ refused', air.frame)
      <4>1. air.frame - 1 <= air.frame /\ air.frame - 1 \in Int /\ air.frame \in Int
        BY <1>0
      <4> QED
        BY <2>1, <2>5, <3>1, <4>1, StoredMore
    <3> QED
      BY <1>1, <1>3, <1>w, <1>12, <2>1, <2>2, <3>2 DEF Plain
  <2>9. CASE n # 0
    <3>1. /\ m_current_frame' = [sample_count |-> n, samples |-> << >>, head |-> air.frame]
          /\ refused' = refused /\ n \in Sizes
      BY <2>6, <2>7, <2>9
    <3>2. whole \ refused \subseteq 1 .. air.frame - 1
      <4>1. whole \subseteq 1 .. air.frame
        BY <1>0 DEF Typed
      <4>2. \A f \in 1 .. air.frame : f # air.frame => f \in 1 .. air.frame - 1
        BY <1>0
      <4> QED
        BY <2>3, <4>1, <4>2
    <3>3. Stored(OnAir', m_current_frame', delivered', whole \ refused', air.frame)
      BY <1>0, <2>1, <2>5, <3>1, <3>2, StoredBegun
    <3> QED
      BY <1>1, <1>3, <1>w, <1>12, <2>1, <2>2, <3>3 DEF Plain
  <2> QED
    BY <2>8, <2>9
<1>13. m_frame_start \in BOOLEAN
  BY <1>0 DEF Typed
<1> QED
  BY <1>10, <1>11, <1>12

\* Noise between frames and in place of a frame cut short.
LEMMA NoiseStep ==
  ASSUME SymInv, NEW q \in 0 .. Sts, air' = Quiet(q), UNCHANGED <<size, whole>>,
         Receive("NONE", Noise),
         m_lts_flag = 0, m_current_vector.tag = "NONE", OwnVector,
         m_chan_est = << >> \/ Len(m_chan_est) = 2,
         m_frame_start => q <= m_offset + 1
  PROVE  SymInv'
<1>0. Typed /\ air.frame \in 0 .. MaxFrames /\ air.frame \in Nat
  BY SizesType DEF SymInv, Typed
<1>1. /\ air'.frame = air.frame /\ air'.next = 0 /\ air'.quiet = q
      /\ air' \in [frame : 0 .. MaxFrames, next : Nat, quiet : 0 .. Sts]
  BY <1>0 DEF Quiet
<1>2. Streams(Noise)
  <2>1. OnAir \subseteq OnAir'
    BY <1>0, <1>1, AirGrows DEF Typed
  <2>2. Noise \in OnAir'
    BY SamplesType DEF OnAir
  <2> QED
    BY <1>0, <1>1, <2>1, <2>2 DEF Streams, Typed
<1>3. Plain
  BY <1>1, <1>2, PlainSample
<1>4. m_frame_start' \in BOOLEAN /\ m_chan_est' \in Seq(Row(Samples))
  BY <1>0, <1>3 DEF Plain, Typed
<1>5. m_frame_start' => m_frame_start /\ m_offset + 1 # Block
  BY <1>3 DEF Plain
<1>6. Place'
  <2>1. m_frame_start' => air'.quiet <= m_offset'
    BY <1>1, <1>3, <1>5 DEF Plain
  <2>2. Between'
    BY <1>3, <2>1 DEF Between, Plain, OwnVector
  <2> QED
    BY <1>1, <2>2 DEF Place
<1>7. Pending'
  <2> SUFFICES ASSUME m_frame_start'
               PROVE  /\ air'.frame \notin whole'
                      /\ \A i \in DOMAIN delivered' : delivered'[i].head < air'.frame
                      /\ m_current_frame'.head < air'.frame
    BY <1>1 DEF Pending
  <2>1. delivered' = delivered /\ m_current_frame' = m_current_frame
    BY <1>3, <1>5 DEF Plain
  <2> QED
    BY <1>1, <1>5, <2>1 DEF SymInv, Pending
<1>8. Stored(OnAir', m_current_frame', delivered', whole' \ refused', air'.frame)
  BY <1>1, <1>3 DEF Plain
<1> QED
  BY <1>2, <1>3, <1>4, <1>6, <1>7, <1>8, Assembled DEF Plain

\* The sample a frame sends next, and that the frame is not over before its end.
LEMMA Sending ==
  ASSUME SymInv, SendSample
  PROVE  /\ air.next \in Nat /\ air.frame \in 1 .. MaxFrames /\ air.frame \notin whole
         /\ air.frame \in 1 .. Len(size) /\ size[air.frame] \in Nat
         /\ size[air.frame] >= 1 /\ size[air.frame] \in Sizes
         /\ Streams(<<air.frame, air.next>>) /\ air'.frame = air.frame
         /\ Receive(TagOf(air.next), <<air.frame, air.next>>)
         /\ size' = size
         /\ IF air.next + 1 = FrameLength(size[air.frame])
              THEN air'.next = 0 /\ air'.quiet = 0 /\ whole' = whole \cup {air.frame}
              ELSE air'.next = air.next + 1 /\ whole' = whole
         /\ InFirst \/ InSecond \/ \E d \in 0 .. size[air.frame] : InSymbol(d)
<1>0. /\ Typed /\ air.frame \in 0 .. MaxFrames /\ air.frame \in Nat /\ air.next \in Nat
      /\ air = [frame |-> air.frame, next |-> air.next, quiet |-> air.quiet]
      /\ air.quiet \in 0 .. Sts /\ 0 \in 0 .. Sts
      /\ MaxFrames \in Nat
  BY SizesType DEF SymInv, Typed
<1>1. air.next > 0
  BY DEF SendSample
<1>2. /\ air.frame >= 1 /\ air.frame \notin whole
      /\ InFirst \/ InSecond \/ \E d \in 0 .. size[air.frame] : InSymbol(d)
  BY <1>1 DEF SymInv, Place
<1>3. air.frame \in 1 .. air.frame /\ air.frame \in 1 .. Len(size)
  BY <1>0, <1>2 DEF Typed
<1>4. /\ Receive(TagOf(air.next), <<air.frame, air.next>>) /\ size' = size
      /\ air' = IF air.next + 1 = FrameLength(size[air.frame])
                  THEN Quiet(0) ELSE [air EXCEPT !.next = air.next + 1]
      /\ whole' = IF air.next + 1 = FrameLength(size[air.frame])
                    THEN whole \cup {air.frame} ELSE whole
  BY DEF SendSample
<1>5. /\ air'.frame = air.frame
      /\ air' \in [frame : 0 .. MaxFrames, next : Nat, quiet : 0 .. Sts]
      /\ IF air.next + 1 = FrameLength(size[air.frame])
           THEN air'.next = 0 /\ air'.quiet = 0 /\ whole' = whole \cup {air.frame}
           ELSE air'.next = air.next + 1 /\ whole' = whole
  <2>1. CASE air.next + 1 = FrameLength(size[air.frame])
    BY <1>0, <1>4, <2>1 DEF Quiet
  <2>2. CASE air.next + 1 # FrameLength(size[air.frame])
    BY <1>0, <1>4, <2>2
  <2> QED
    BY <2>1, <2>2
<1>6. OnAir \subseteq OnAir'
  <2>1. air'.next = 0 \/ (air.next > 0 /\ air.next <= air'.next)
    BY <1>0, <1>1, <1>5
  <2> QED
    BY <1>0, <1>5, <2>1, AirGrows DEF Typed
<1>7. <<air.frame, air.next>> \in OnAir'
  <2> DEFINE x == <<air.frame, air.next>>
  <2>1. x \in Samples /\ x[1] = air.frame /\ x[2] = air.next
    BY <1>0, <1>2, SamplesType
  <2>2. air'.next > 0 => air.next < air'.next
    BY <1>0, <1>5
  <2> HIDE DEF x
  <2>3. x \in OnAir'
    BY <1>5, <2>1, <2>2 DEF OnAir
  <2> QED
    BY <2>3 DEF x
<1>8. Streams(<<air.frame, air.next>>)
  <2>1. whole \subseteq whole' /\ whole' \subseteq 1 .. air.frame
    BY <1>0, <1>3, <1>5 DEF Typed
  <2> QED
    BY <1>0, <1>4, <1>5, <1>6, <1>7, <2>1 DEF Streams, Typed
<1>9. size[air.frame] \in Nat /\ size[air.frame] >= 1 /\ size[air.frame] \in Sizes
  BY <1>0, <1>3, OwnBegins
<1> QED
  BY <1>0, <1>2, <1>3, <1>4, <1>5, <1>8, <1>9

\* A step within the training, which frame_decoder does not hear of.
LEMMA TrainingStep ==
  ASSUME SymInv, SendSample, air.next < 2 * Sym,
         UNCHANGED <<m_symbol_count, m_current_frame, delivered, refused>>,
         m_current_vector'.tag \in {"NONE", "LTS_START"},
         m_lts_flag' \in {0, 2}, m_frame_start' \in BOOLEAN,
         m_chan_est' \in Seq(Row(Samples)),
         InFirst' \/ InSecond' \/ InSymbol(0)'
  PROVE  SymInv'
<1> DEFINE x == <<air.frame, air.next>>
<1>1. /\ air.next \in Nat /\ air.frame \in 1 .. MaxFrames /\ air.frame \notin whole
      /\ air.frame \in 1 .. Len(size) /\ size[air.frame] \in Nat /\ size[air.frame] >= 1
      /\ Streams(x) /\ air'.frame = air.frame
      /\ Receive(TagOf(air.next), x) /\ size' = size
      /\ IF air.next + 1 = FrameLength(size[air.frame])
           THEN air'.next = 0 /\ air'.quiet = 0 /\ whole' = whole \cup {air.frame}
           ELSE air'.next = air.next + 1 /\ whole' = whole
      /\ air.next > 0
  BY Sending DEF SendSample
<1> HIDE DEF x
<1>2. air.next + 1 # FrameLength(size[air.frame])
  <2>1. FrameLength(size[air.frame]) = FrameAt(size[air.frame]) + Block
        /\ FrameAt(size[air.frame]) >= 2 * Sym /\ FrameAt(size[air.frame]) \in Nat
    BY <1>1, FrameSteps
  <2> QED
    BY <1>1, <2>1, SizesType
<1>3. air'.next = air.next + 1 /\ whole' = whole
  BY <1>1, <1>2
<1>4. Place'
  <2>1. air'.frame >= 1 /\ air'.frame \notin whole' /\ air'.next # 0
    BY <1>1, <1>3, SizesType
  <2>2. 0 \in 0 .. size'[air'.frame]
    BY <1>1
  <2> QED
    BY <2>1, <2>2 DEF Place
<1>5. Pending'
  <2>1. /\ \A i \in DOMAIN delivered : delivered[i].head < air.frame
        /\ m_current_frame.head < air.frame
    BY <1>1 DEF SymInv, Pending
  <2> QED
    BY <1>1, <1>3, <2>1 DEF Pending
<1>6. Stored(OnAir', m_current_frame', delivered', whole' \ refused', air'.frame)
  <2>1. OnAir \subseteq OnAir'
    BY <1>1 DEF Streams
  <2>2. Stored(OnAir', m_current_frame, delivered, whole \ refused, air.frame)
    BY <2>1, StoredNow
  <2> QED
    BY <1>1, <1>3, <2>2
<1>7. m_symbol_count' \in 0 .. Period - 1
  BY DEF SymInv, Typed
<1> QED
  BY <1>1, <1>4, <1>5, <1>6, <1>7, Assembled

\* The first symbol of the training: fft_symbols fills it behind the tag LTS_START.
LEMMA FirstStep ==
  ASSUME SymInv, SendSample, InFirst
  PROVE  SymInv'
<1> DEFINE k == air.next
           x == <<air.frame, air.next>>
           w == m_current_vector'.samples
           v == [samples |-> w, tag |-> "LTS_START"]
<1>1. /\ k \in Nat /\ k > 0 /\ k < Sym /\ air.frame \in 1 .. MaxFrames
      /\ air.frame \in Nat /\ Sym \in Nat
      /\ size[air.frame] \in Nat
      /\ air'.frame = air.frame
      /\ Receive(TagOf(k), x) /\ Typed
      /\ IF k + 1 = FrameLength(size[air.frame])
           THEN air'.next = 0 ELSE air'.next = k + 1
  BY Sending, SizesType DEF SendSample, InFirst, SymInv
<1>2. air'.next = k + 1
  <2>1. /\ FrameLength(size[air.frame]) = FrameAt(size[air.frame]) + Block
        /\ FrameAt(size[air.frame]) >= 2 * Sym /\ FrameAt(size[air.frame]) \in Nat
    BY <1>1, FrameSteps
  <2> QED
    BY <1>1, <2>1, SizesType
<1>3. TagOf(k) = "NONE" /\ OffsetAt("NONE") = Cp + k
  BY <1>1 DEF TagOf, OffsetAt, InFirst
<1> DEFINE o == OffsetAt("NONE")
<1>4. /\ m_offset' = IF o + 1 = Block THEN 0 ELSE o + 1
      /\ m_current_vector'.tag = IF o + 1 = Block THEN "NONE" ELSE "LTS_START"
      /\ w = [j \in 1 .. Sym |-> w[j]]
      /\ \A j \in 1 .. Sym : w[j] = IF j = o - Cp + 1 THEN x ELSE m_current_vector.samples[j]
      /\ Cut("NONE", x) = IF o + 1 = Block THEN << v >> ELSE << >>
  <2>1. m_current_vector.tag = "LTS_START"
    BY DEF InFirst
  <2>2. Receive("NONE", x)
    BY <1>1, <1>3
  <2> HIDE DEF x
  <2> QED
    BY <1>1, <2>1, <2>2, Fills
<1>5. (o + 1 = Block <=> k + 1 = Sym) /\ o - Cp + 1 = k + 1 /\ o + 1 = Cp + (k + 1)
  <2> HIDE DEF k, o
  <2>1. o = Cp + k
    BY <1>3 DEF o, k
  <2> QED
    BY <1>1, <2>1, SizesType
<1>x. x = <<air.frame, k>>
  OBVIOUS
<1>8. Receive("NONE", x)
  BY <1>1, <1>3
<1>9. air.next < 2 * Sym
  BY <1>1
<1>7. v.samples = w /\ v.tag = "LTS_START"
  OBVIOUS
<1> HIDE DEF k, x, w, v, o
<1>6. \A i \in 1 .. k + 1 : i \in 1 .. Sym /\ w[i] = <<air.frame, i - 1>>
  <2> SUFFICES ASSUME NEW i \in 1 .. k + 1 PROVE i \in 1 .. Sym /\ w[i] = <<air.frame, i - 1>>
    OBVIOUS
  <2>1. i \in 1 .. Sym /\ (i = k + 1 \/ i \in 1 .. k)
    BY <1>1
  <2>2. CASE i = k + 1
    <3>1. w[i] = x /\ i - 1 = k
      BY <1>1, <1>4, <1>5, <2>1, <2>2
    <3> QED
      BY <1>x, <2>1, <3>1
  <2>3. CASE i \in 1 .. k
    <3>1. w[i] = m_current_vector.samples[i]
      BY <1>1, <1>4, <1>5, <2>1, <2>3
    <3> QED
      BY <2>1, <2>3, <3>1 DEF InFirst, k
  <2> QED
    BY <2>1, <2>2, <2>3
<1>10. CASE k + 1 = Sym
  <2>1. Cut("NONE", x) = << v >>
    BY <1>4, <1>5, <1>10
  <2>2. /\ m_lts_flag' = 2 /\ m_chan_est' = << w >>
        /\ UNCHANGED <<m_frame_start, m_symbol_count, m_current_frame, delivered, refused>>
    BY <1>1, <1>7, <1>8, <2>1, FirstTraining
  <2>3. w = Training(air.frame)[1] /\ w = [j \in 1 .. Sym |-> <<air.frame, j - 1>>]
    <3>1. \A j \in 1 .. Sym : w[j] = <<air.frame, j - 1>>
      BY <1>6, <1>10
    <3>2. w = [j \in 1 .. Sym |-> <<air.frame, j - 1>>]
      BY <1>4, <3>1
    <3> QED
      BY <3>2 DEF Training
  <2>4. w \in Row(Samples)
    <3>1. \A j \in 1 .. Sym : <<air.frame, j - 1>> \in Samples
      BY <1>1, SamplesType
    <3> QED
      BY <2>3, <3>1 DEF Row
  <2>5. m_offset' = 0 /\ m_current_vector'.tag = "NONE" /\ ~m_frame_start'
    BY <1>4, <1>5, <1>10, <2>2 DEF InFirst
  <2>6. InSecond'
    <3>1. air'.next = Sym /\ Sym < 2 * Sym /\ 1 .. air'.next - Sym = {}
      BY <1>1, <1>2, <1>10, SizesType
    <3>2. m_chan_est' = << Training(air'.frame)[1] >>
      BY <1>1, <2>2, <2>3
    <3> QED
      BY <1>1, <2>2, <2>5, <3>1, <3>2 DEF InSecond, Training
  <2>7. m_chan_est' \in Seq(Row(Samples))
    BY <2>2, <2>4
  <2>8. m_lts_flag' \in {0, 2} /\ m_frame_start' \in BOOLEAN
    BY <1>1, <2>2 DEF Typed
  <2> QED
    BY <1>9, <2>2, <2>5, <2>6, <2>7, <2>8, TrainingStep
<1>11. CASE k + 1 # Sym
  <2>1. Cut("NONE", x) = << >>
    BY <1>4, <1>5, <1>11
  <2>2. UNCHANGED <<m_lts_flag, m_frame_start, m_chan_est, m_symbol_count,
                    m_current_frame, delivered, refused>>
    BY <1>8, <2>1, NoCut
  <2>3. /\ m_offset' = Cp + (k + 1) /\ k + 1 < Sym
        /\ m_current_vector'.tag = "LTS_START"
    BY <1>1, <1>4, <1>5, <1>11, SizesType
  <2>4. InFirst'
    BY <1>1, <1>2, <1>6, <2>2, <2>3 DEF InFirst, k, w
  <2>5. m_chan_est' \in Seq(Row(Samples)) /\ m_lts_flag' \in {0, 2} /\ m_frame_start' \in BOOLEAN
    BY <1>1, <2>2 DEF Typed
  <2> QED
    BY <1>9, <2>2, <2>3, <2>4, <2>5, TrainingStep
<1> QED
  BY <1>10, <1>11

\* What a sequence of one becomes with a second.
LEMMA AppendSecond ==
  ASSUME NEW S, NEW p \in Seq(S), Len(p) = 1, NEW b \in S, NEW q \in Seq(S),
         Len(q) = 2, q[1] = p[1], q[2] = b
  PROVE  Append(p, b) = q
<1>0. Append(p, b) \in Seq(S)
  BY AppendProperties
<1>1. Len(Append(p, b)) = Len(p) + 1
  BY AppendProperties
<1>2. \A i \in 1 .. Len(p) : Append(p, b)[i] = p[i]
  BY AppendProperties
<1>3. Append(p, b)[Len(p) + 1] = b
  BY AppendProperties
<1> DEFINE r == Append(p, b)
<1>4. r \in Seq(S) /\ r[Len(p) + 1] = b /\ Len(r) = Len(p) + 1 /\ \A i \in 1 .. Len(p) : r[i] = p[i]
  BY <1>0, <1>1, <1>2, <1>3
<1> HIDE DEF r
<1>5. \A i \in 1 .. 2 : r[i] = q[i]
  <2>1. \A i \in 1 .. 2 : i = 1 \/ i = 2
    OBVIOUS
  <2>2. r[1] = q[1] /\ r[2] = q[2]
    BY <1>4
  <2> QED
    BY <2>1, <2>2
<1> QED
  BY <1>4, <1>5, SeqEqual DEF r

\* The estimate is of the two symbols of the training.
LEMMA PairAppend ==
  ASSUME NEW a, NEW b
  PROVE  Append(<< a >>, b) = << a, b >>
<1>1. << a >> \in Seq({a, b}) /\ Len(<< a >>) = 1 /\ << a >>[1] = a
  OBVIOUS
<1>2. << a, b >> \in Seq({a, b}) /\ Len(<< a, b >>) = 2 /\ << a, b >>[1] = a /\ << a, b >>[2] = b
  OBVIOUS
<1>3. b \in {a, b}
  OBVIOUS
<1> QED
  BY <1>1, <1>2, <1>3, AppendSecond

\* The second symbol of the training, which completes the estimate and sets
\* m_frame_start.
LEMMA SecondStep ==
  ASSUME SymInv, SendSample, InSecond
  PROVE  SymInv'
<1> DEFINE k == air.next
           tag == TagOf(air.next)
           x == <<air.frame, air.next>>
           w == m_current_vector'.samples
           v == [samples |-> w, tag |-> "NONE"]
<1>1. /\ k \in Nat /\ k >= Sym /\ k < 2 * Sym /\ air.frame \in 1 .. MaxFrames
      /\ air.frame \in Nat /\ Sym \in Nat /\ Sym >= 2 /\ Cp \in Nat
      /\ size[air.frame] \in Nat
      /\ air'.frame = air.frame
      /\ Receive(tag, x) /\ Typed
      /\ IF k + 1 = FrameLength(size[air.frame])
           THEN air'.next = 0 ELSE air'.next = k + 1
  BY Sending, SizesType DEF SendSample, InSecond, SymInv
<1>2. air'.next = k + 1
  <2>1. /\ FrameLength(size[air.frame]) = FrameAt(size[air.frame]) + Block
        /\ FrameAt(size[air.frame]) >= 2 * Sym /\ FrameAt(size[air.frame]) \in Nat
    BY <1>1, FrameSteps
  <2> QED
    BY <1>1, <2>1, SizesType
<1>3. tag \in {"NONE", "LTS2"} /\ OffsetAt(tag) = Cp + k - Sym
  <2>1. CASE k = Sym
    <3>1. tag = "LTS2" /\ Cp + k - Sym = Cp
      BY <1>1, <2>1 DEF TagOf
    <3> QED
      BY <3>1 DEF OffsetAt
  <2>2. CASE k # Sym
    <3>1. tag = "NONE" /\ m_offset = Cp + k - Sym
      BY <1>1, <2>2 DEF TagOf, InSecond
    <3> QED
      BY <3>1 DEF OffsetAt
  <2> QED
    BY <2>1, <2>2
<1> DEFINE o == OffsetAt(tag)
<1>4. /\ m_offset' = IF o + 1 = Block THEN 0 ELSE o + 1
      /\ m_current_vector'.tag = "NONE"
      /\ w = [j \in 1 .. Sym |-> w[j]]
      /\ \A j \in 1 .. Sym : w[j] = IF j = o - Cp + 1 THEN x ELSE m_current_vector.samples[j]
      /\ Cut(tag, x) = IF o + 1 = Block THEN << v >> ELSE << >>
  <2>1. m_current_vector.tag = "NONE"
    BY DEF InSecond
  <2> HIDE DEF x, tag
  <2> QED
    BY <1>1, <1>3, <2>1, Fills
<1>5. (o + 1 = Block <=> k + 1 = 2 * Sym) /\ o - Cp + 1 = k - Sym + 1 /\ o + 1 = Cp + (k + 1) - Sym
  <2>1. o = Cp + k - Sym
    BY <1>3
  <2> HIDE DEF k, o
  <2> QED
    BY <1>1, <2>1, SizesType
<1>x. x = <<air.frame, k>>
  OBVIOUS
<1>7. v.samples = w /\ v.tag # "LTS_START"
  OBVIOUS
<1>8. m_lts_flag = 2 /\ ~m_frame_start
  BY DEF InSecond
<1> HIDE DEF x, w, v, o
<1>6. \A i \in 1 .. k + 1 - Sym : i \in 1 .. Sym /\ w[i] = <<air.frame, Sym + i - 1>>
  <2> SUFFICES ASSUME NEW i \in 1 .. k + 1 - Sym
               PROVE  i \in 1 .. Sym /\ w[i] = <<air.frame, Sym + i - 1>>
    OBVIOUS
  <2>1. i \in 1 .. Sym /\ (i = k - Sym + 1 \/ i \in 1 .. k - Sym)
    BY <1>1
  <2>2. CASE i = k - Sym + 1
    <3>1. w[i] = x /\ Sym + i - 1 = k
      BY <1>1, <1>4, <1>5, <2>1, <2>2
    <3> QED
      BY <1>x, <2>1, <3>1
  <2>3. CASE i \in 1 .. k - Sym
    <3>1. w[i] = m_current_vector.samples[i]
      BY <1>1, <1>4, <1>5, <2>1, <2>3
    <3> QED
      BY <2>1, <2>3, <3>1 DEF InSecond
  <2> QED
    BY <2>1, <2>2, <2>3
<1>9. air.next < 2 * Sym
  BY <1>1
<1> HIDE DEF k, tag
<1>10. CASE k + 1 = 2 * Sym
  <2>1. Cut(tag, x) = << v >>
    BY <1>4, <1>5, <1>10
  <2>2. /\ m_lts_flag' = 0 /\ m_chan_est' = Append(m_chan_est, w)
        /\ m_frame_start' = TRUE
        /\ UNCHANGED <<m_symbol_count, m_current_frame, delivered, refused>>
    BY <1>1, <1>7, <1>8, <2>1, SecondTraining
  <2>3. w = [j \in 1 .. Sym |-> <<air.frame, Sym + j - 1>>]
    <3>1. \A j \in 1 .. Sym : j \in 1 .. k + 1 - Sym
      BY <1>1, <1>10
    <3>2. \A j \in 1 .. Sym : w[j] = <<air.frame, Sym + j - 1>>
      BY <1>6, <3>1
    <3> QED
      BY <1>4, <3>2
  <2>4. w \in Row(Samples)
    <3>1. \A j \in 1 .. Sym : <<air.frame, Sym + j - 1>> \in Samples
      <4>1. \A j \in 1 .. Sym : Sym + j - 1 \in Nat
        BY <1>1
      <4> QED
        BY <1>1, <4>1, SamplesType
    <3> QED
      BY <2>3, <3>1 DEF Row
  <2>5. m_offset' = 0 /\ m_current_vector'.tag = "NONE"
    BY <1>4, <1>5, <1>10
  <2>6. m_chan_est' = Training(air.frame) /\ m_chan_est' \in Seq(Row(Samples))
    <3>1. m_chan_est = << Training(air.frame)[1] >> /\ m_chan_est \in Seq(Row(Samples))
      BY <1>1 DEF InSecond, Typed
    <3>2. Training(air.frame) = << Training(air.frame)[1], w >>
      BY <2>3 DEF Training
    <3>3. Append(<< Training(air.frame)[1] >>, w) = << Training(air.frame)[1], w >>
      BY PairAppend
    <3>4. m_chan_est' = Training(air.frame)
      BY <2>2, <3>1, <3>2, <3>3
    <3>5. Append(m_chan_est, w) \in Seq(Row(Samples))
      BY <2>4, <3>1
    <3> QED
      BY <2>2, <3>4, <3>5
  <2>7. InSymbol(0)'
    <3>1. air'.next = FrameAt(0) + m_offset'
      <4>1. FrameAt(0) = 2 * Sym /\ 2 * Sym \in Nat
        BY <1>1, FrameSteps
      <4> QED
        BY <1>2, <1>10, <2>5, <4>1
    <3>2. 1 .. m_offset' - Cp = {}
      BY <1>1, <2>5
    <3>3. \A j \in 1 .. Sym : w[j] = <<air'.frame, Sym + j - 1>>
      BY <1>1, <2>3
    <3>4. \A j \in 1 .. Sym : w[j][1] = air'.frame
      BY <3>3
    <3>5. m_chan_est' = Training(air'.frame)
      BY <1>1, <2>6
    <3> QED
      BY <2>2, <2>5, <3>1, <3>2, <3>4, <3>5 DEF InSymbol, w, Training, FrameAt
  <2> QED
    BY <1>9, <2>2, <2>5, <2>6, <2>7, TrainingStep
<1>11. CASE k + 1 # 2 * Sym
  <2>1. Cut(tag, x) = << >>
    BY <1>4, <1>5, <1>11
  <2>2. UNCHANGED <<m_lts_flag, m_frame_start, m_chan_est, m_symbol_count,
                    m_current_frame, delivered, refused>>
    BY <1>1, <2>1, NoCut
  <2>3. /\ k + 1 >= Sym /\ k + 1 < 2 * Sym /\ k + 1 # Sym
        /\ m_offset' = Cp + (k + 1) - Sym
        /\ m_current_vector'.tag = "NONE"
    BY <1>1, <1>4, <1>5, <1>11
  <2>4. InSecond'
    <3>1. m_chan_est' = << Training(air'.frame)[1] >>
      BY <1>1, <2>2 DEF InSecond
    <3> QED
      BY <1>1, <1>2, <1>6, <1>8, <2>2, <2>3, <3>1 DEF InSecond, w, Training
  <2>5. m_chan_est' \in Seq(Row(Samples)) /\ m_lts_flag' \in {0, 2} /\ m_frame_start' \in BOOLEAN
    BY <1>1, <2>2 DEF Typed
  <2> QED
    BY <1>9, <2>2, <2>3, <2>4, <2>5, TrainingStep
<1> QED
  BY <1>10, <1>11

\* The first sample of a frame: fft_symbols restarts its symbol, whatever it held.
LEMMA StartStep ==
  ASSUME SymInv, NEW n \in Sizes, StartFrame(n)
  PROVE  SymInv'
<1> DEFINE f == air.frame + 1
           x == <<air.frame + 1, 0>>
           w == m_current_vector'.samples
           v == m_current_vector
           s == Heard(m_current_vector.samples)
<1>0. /\ Typed /\ air.frame \in Nat /\ air.frame < MaxFrames /\ MaxFrames \in Nat
      /\ Cp \in Nat /\ Cp >= 1 /\ Sym \in Nat /\ Sym >= 2 /\ Block \in Nat /\ Block = Cp + Sym
      /\ Sts = 2 * Block /\ Between /\ air.next = 0 /\ air.quiet = Sts
      /\ 0 \in 0 .. Sts /\ m_offset \in 0 .. Block - 1
  BY SizesType DEF SymInv, Typed, StartFrame, Place
<1>1. /\ f \in 0 .. MaxFrames /\ f \in Nat /\ f >= 1 /\ f > air.frame
      /\ air' = [frame |-> f, next |-> 1, quiet |-> 0]
      /\ size' = Append(size, n) /\ whole' = whole /\ Receive("LTS1", x)
  BY <1>0 DEF StartFrame
<1>a. /\ air'.frame = f /\ air'.next = 1
      /\ air' \in [frame : 0 .. MaxFrames, next : Nat, quiet : 0 .. Sts]
  BY <1>0, <1>1
<1>x. x \in Samples /\ x = <<f, 0>>
  BY <1>0, <1>1, SamplesType
<1>2. ~m_frame_start
  <2>1. m_frame_start => Sts <= m_offset
    BY <1>0 DEF Between
  <2> QED
    BY <1>0, <2>1
<1>3. OffsetAt("LTS1") = Cp /\ Cp + 1 # Block
  BY <1>0 DEF OffsetAt
<1> HIDE DEF f, x
<1>4. /\ m_offset' = Cp + 1 /\ m_current_vector'.tag = "LTS_START"
      /\ w[1] = x
      /\ Cut("LTS1", x) = CutShort("LTS1")
  <2>1. \A sm, tg, e : e = [samples |-> sm, tag |-> tg] => e.tag = tg
    OBVIOUS
  <2>2. /\ m_offset' = Cp + 1
        /\ m_current_vector' = [samples |-> m_current_vector'.samples, tag |-> "LTS_START"]
        /\ \A j \in 1 .. Sym : m_current_vector'.samples[j] =
             IF j = Cp - Cp + 1 THEN x ELSE m_current_vector.samples[j]
        /\ Cut("LTS1", x) = CutShort("LTS1")
    BY <1>0, <1>1, <1>3, Filling
  <2>3. 1 \in 1 .. Sym /\ Cp - Cp + 1 = 1
    BY <1>0
  <2> QED
    BY <2>1, <2>2, <2>3
<1>5. Streams(x)
  <2>1. OnAir \subseteq OnAir'
    BY <1>0, <1>1, <1>a, AirGrows DEF Typed
  <2>2. x \in OnAir'
    <3>1. x[1] = f /\ x[2] = 0
      BY <1>x
    <3> QED
      BY <1>a, <1>x, <3>1 DEF OnAir
  <2>3. /\ size' \in Seq(Sizes) /\ Len(size') = Len(size) + 1
        /\ \A g \in 1 .. Len(size) : size'[g] = size[g]
    BY <1>0, <1>1 DEF Typed
  <2>4. Len(size) = air.frame
    BY <1>0 DEF Typed
  <2>5. whole \subseteq whole' /\ whole' \subseteq 1 .. air.frame
    BY <1>0, <1>1 DEF Typed
  <2> QED
    BY <1>0, <1>1, <1>a, <2>1, <2>2, <2>3, <2>4, <2>5 DEF Streams, f
<1>6. Stored(OnAir', m_current_frame, delivered, whole \ refused, air.frame)
  <2>1. OnAir \subseteq OnAir'
    BY <1>5 DEF Streams
  <2> QED
    BY <2>1, StoredNow
<1>7. /\ UNCHANGED <<m_lts_flag, m_frame_start, m_chan_est, refused>>
      /\ m_symbol_count' \in 0 .. Period - 1
      /\ Stored(OnAir', m_current_frame', delivered', whole \ refused, air.frame)
  <2>1. CASE m_offset >= Cp
    <3>1. Cut("LTS1", x) = << v >> /\ v.tag # "LTS_START" /\ m_lts_flag = 0
      BY <1>0, <1>4, <2>1 DEF CutShort, Between
    <3>2. /\ m_frame_start' = FALSE /\ UNCHANGED <<m_lts_flag, m_chan_est, refused>>
          /\ m_symbol_count' = (m_symbol_count + 1) % Period
          /\ m_current_frame' = Collect(m_current_frame, s)
          /\ delivered' = Hand(m_current_frame, delivered, s)
      <4> HIDE DEF w
      <4> QED
        BY <1>0, <1>1, <1>2, <3>1, DataSymbol
    <3>3. s \in Symbol(OnAir') /\ s.samples = v.samples
      <4>1. v.samples \in Row(OnAir)
        BY <1>0 DEF Typed
      <4>2. v.samples \in Row(OnAir')
        BY <1>5, <4>1, Larger DEF Streams
      <4> QED
        BY <1>0, <4>2, HeardType
    <3>4. NotBefore(s, m_current_frame.head)
      <4>1. \A j \in 1 .. Sym : v.samples[j] = Noise \/ v.samples[j][1] = air.frame
        BY <1>0 DEF Between
      <4>2. m_current_frame.head <= air.frame
        BY DEF SymInv, Heads
      <4> HIDE DEF s
      <4> QED
        BY <3>3, <4>1, <4>2 DEF NotBefore
    <3>5. whole \ refused \subseteq 1 .. air.frame
      BY <1>0 DEF Typed
    <3> HIDE DEF s, v
    <3>6. Stored(OnAir', Collect(m_current_frame, s), Hand(m_current_frame, delivered, s),
                 whole \ refused, air.frame)
      BY <1>0, <1>6, <3>3, <3>4, <3>5, StoredTaking
    <3>7. m_symbol_count' \in 0 .. Period - 1
      BY <1>0, <3>2, SizesType DEF Typed
    <3>8. m_frame_start' = m_frame_start
      BY <1>0, <1>2, <3>2 DEF Typed
    <3> QED
      BY <3>2, <3>6, <3>7, <3>8
  <2>2. CASE ~(m_offset >= Cp)
    <3>1. Cut("LTS1", x) = << >>
      BY <1>4, <2>2 DEF CutShort
    <3>2. UNCHANGED <<m_lts_flag, m_frame_start, m_chan_est, m_symbol_count,
                      m_current_frame, delivered, refused>>
      BY <1>1, <3>1, NoCut
    <3> QED
      BY <1>0, <1>6, <3>2 DEF Typed
  <2> QED
    BY <2>1, <2>2
<1>8. Stored(OnAir', m_current_frame', delivered', whole' \ refused', air'.frame)
  <2>1. air.frame \in Int /\ f \in Int /\ air.frame <= f
    BY <1>0, <1>1
  <2>2. Stored(OnAir', m_current_frame', delivered', whole \ refused, f)
    BY <1>7, <2>1, StoredMore
  <2> QED
    BY <1>1, <1>7, <1>a, <2>2
<1>9. Place'
  <2>1. InFirst'
    <3>1. \A i \in 1 .. 1 : i = 1 /\ i - 1 = 0
      OBVIOUS
    <3>2. \A i \in 1 .. air'.next : m_current_vector'.samples[i] = <<air'.frame, i - 1>>
      BY <1>4, <1>a, <1>x, <3>1
    <3> QED
      BY <1>0, <1>2, <1>4, <1>7, <1>a, <3>2 DEF InFirst, Between
  <2>2. f \notin whole
    BY <1>0, <1>1 DEF Typed
  <2> QED
    BY <1>1, <1>a, <2>1, <2>2 DEF Place
<1>10. Pending'
  <2>1. f \notin whole
    BY <1>0, <1>1 DEF Typed
  <2>2. /\ m_current_frame'.head <= air.frame /\ m_current_frame' \in Collected(OnAir')
        /\ delivered' \in Seq(Payload(OnAir'))
        /\ \A i \in DOMAIN delivered' : delivered'[i].head <= air.frame
    BY <1>7 DEF Stored
  <2>3. /\ m_current_frame'.head \in Nat
        /\ \A i \in DOMAIN delivered' : delivered'[i].head \in Nat
    BY <2>2, CollectedType, PayloadHeads
  <2>4. m_current_frame'.head < f /\ \A i \in DOMAIN delivered' : delivered'[i].head < f
    <3>1. \A h \in Nat : h <= air.frame => h < f
      BY <1>0, <1>1
    <3> QED
      BY <2>2, <2>3, <3>1
  <2> QED
    BY <1>1, <1>a, <2>1, <2>4 DEF Pending
<1>11. m_lts_flag' \in {0, 2} /\ m_frame_start' \in BOOLEAN /\ m_chan_est' \in Seq(Row(Samples))
  BY <1>0, <1>7 DEF Typed
<1> QED
  BY <1>1, <1>4, <1>5, <1>7, <1>8, <1>9, <1>10, <1>11, Assembled

\* A frame's payload grows by its own symbols.
LEMMA OwnGrows ==
  ASSUME NEW f, NEW d \in Nat, d >= 1
  PROVE  /\ Append(OwnPart(f, d - 1),
                   [samples |-> Body(f, d), est |-> Training(f), pol |-> d % Period])
              = OwnPart(f, d)
         /\ Len(OwnPart(f, d - 1)) = d - 1
<1> DEFINE g(e) == [samples |-> Body(f, e), est |-> Training(f), pol |-> e % Period]
<1>1. OwnPart(f, d - 1) = [e \in 1 .. d - 1 |-> g(e)] /\ OwnPart(f, d) = [e \in 1 .. d |-> g(e)]
  BY DEF OwnPart
<1> HIDE DEF g
<1> DEFINE p == [e \in 1 .. d - 1 |-> g(e)]
           q == [e \in 1 .. d |-> g(e)]
           S == {g(e) : e \in 1 .. d}
<1>2. p \in Seq(S) /\ Len(p) = d - 1
  OBVIOUS
<1>3. q \in Seq(S) /\ Len(q) = d
  OBVIOUS
<1>4. g(d) \in S
  OBVIOUS
<1>5. \A i \in 1 .. d : q[i] = g(i) /\ (i \in 1 .. d - 1 => p[i] = g(i))
  OBVIOUS
<1> HIDE DEF p, q, S
<1>6. Append(p, g(d)) \in Seq(S)
  BY <1>2, <1>4, AppendProperties
<1>7. Len(Append(p, g(d))) = Len(p) + 1
  BY <1>2, <1>4, AppendProperties
<1>8. \A i \in 1 .. Len(p) : Append(p, g(d))[i] = p[i]
  BY <1>2, <1>4, AppendProperties
<1>9. Append(p, g(d))[Len(p) + 1] = g(d)
  BY <1>2, <1>4, AppendProperties
<1> DEFINE r == Append(p, g(d))
<1>10. /\ r \in Seq(S) /\ Len(r) = d /\ r[d] = g(d)
       /\ \A i \in 1 .. d - 1 : r[i] = p[i]
  BY <1>2, <1>6, <1>7, <1>8, <1>9
<1> HIDE DEF r
<1>11. \A i \in 1 .. d : r[i] = q[i]
  <2>1. \A i \in 1 .. d : i = d \/ i \in 1 .. d - 1
    OBVIOUS
  <2> QED
    BY <1>5, <1>10, <2>1
<1>12. r = q
  BY <1>3, <1>10, <1>11, SeqEqual
<1> QED
  BY <1>1, <1>2, <1>12 DEF r, p, q, g

\* The polarities are counted modulo their period.
LEMMA ModStep ==
  ASSUME NEW d \in Nat, NEW p \in Nat, p >= 1
  PROVE  ((d % p) + 1) % p = (d + 1) % p
<1> DEFINE r == d % p
           q == d \div p
<1>1. r \in 0 .. p - 1 /\ q \in Int /\ d = p * q + r
  OBVIOUS
<1> HIDE DEF r, q
<1>2. \A a \in Int, b \in 0 .. p - 1 : (p * a + b) % p = b
  OBVIOUS
<1>3. CASE r + 1 < p
  BY <1>1, <1>2, <1>3
<1>4. CASE r + 1 = p
  BY <1>1, <1>2, <1>4
<1> QED
  BY <1>1, <1>3, <1>4 DEF r

\* The samples of the d-th symbol after the training.
LEMMA BodySamples ==
  ASSUME NEW f, NEW d \in Nat
  PROVE  Body(f, d) = [j \in 1 .. Sym |-> <<f, FrameAt(d) + Cp + j - 1>>]
BY DEF Body, FrameAt

\* Only frame f sends what frame f's header looks like.
LEMMA OwnHeader ==
  ASSUME Typed, NEW f \in DOMAIN size
  PROVE  /\ IntactHeader(f, [samples |-> Body(f, 0), est |-> Training(f), pol |-> 0])
         /\ HeaderReads([samples |-> Body(f, 0), est |-> Training(f), pol |-> 0])
              \subseteq {0, size[f]}
<1> DEFINE s == [samples |-> Body(f, 0), est |-> Training(f), pol |-> 0]
           sent == {g \in DOMAIN size : IntactHeader(g, s)}
<1>1. IntactHeader(f, s)
  BY DEF IntactHeader
<1>2. ASSUME NEW g \in sent PROVE g = f
  <2>1. s.samples = Body(g, 0) /\ s.samples = Body(f, 0)
    BY DEF IntactHeader
  <2>2. 1 \in 1 .. Sym
    BY SizesType
  <2>3. Body(f, 0)[1] = Body(g, 0)[1]
    BY <2>1
  <2>4. Body(f, 0)[1] = <<f, 2 * Sym + 0 * Block + Cp + 1 - 1>> /\ Body(g, 0)[1] = <<g, 2 * Sym + 0 * Block + Cp + 1 - 1>>
    BY <2>2 DEF Body
  <2> QED
    BY <2>3, <2>4
<1>3. f \in sent
  BY <1>1
<1>4. HeaderReads(s) = {0} \cup {size[g] : g \in sent}
  <2>1. HeaderReads(s) = IF sent = {} THEN {0} \cup Sizes ELSE {0} \cup {size[g] : g \in sent}
    BY DEF HeaderReads
  <2> HIDE DEF sent
  <2> QED
    BY <1>3, <2>1
<1> HIDE DEF sent
<1>5. HeaderReads(s) \subseteq {0, size[f]}
  BY <1>2, <1>4
<1> QED
  BY <1>1, <1>5

\* A sample of the d-th symbol after the training: what it does to fft_symbols,
\* and where it leaves the frame.
LEMMA SymbolSample ==
  ASSUME SymInv, SendSample, NEW d \in 0 .. size[air.frame], InSymbol(d)
  PROVE  LET f == air.frame
             w == m_current_vector'.samples
             x == <<air.frame, air.next>>
         IN
         /\ Receive("NONE", x) /\ Plain
         /\ air.next + 1 = FrameLength(size[f]) <=> d = size[f] /\ m_offset + 1 = Block
         /\ \A i \in 1 .. m_offset + 1 - Cp : w[i] = <<f, FrameAt(d) + Cp + i - 1>>
         /\ m_offset + 1 = Block => w = Body(f, d)
         /\ Cut("NONE", x) = IF m_offset + 1 = Block
                               THEN << [samples |-> w, tag |-> "NONE"] >> ELSE << >>
         /\ air.next + 1 = FrameAt(d) + (m_offset + 1)
<1> DEFINE f == air.frame
           k == air.next
           n == size[air.frame]
           o == m_offset
           x == <<air.frame, air.next>>
           w == m_current_vector'.samples
<1>0. /\ Typed /\ Cp \in Nat /\ Sym \in Nat /\ Sym >= 2 /\ Block \in Nat
      /\ Block = Cp + Sym /\ o \in 0 .. Block - 1 /\ o \in Nat
  BY SizesType DEF SymInv, Typed
<1>1. /\ k \in Nat /\ f \in 1 .. Len(size) /\ n \in Nat /\ n >= 1
      /\ Streams(x) /\ air'.frame = f /\ Receive(TagOf(k), x) /\ size' = size
  BY Sending
<1>2. /\ d \in Nat /\ d <= n
      /\ k = FrameAt(d) + o /\ FrameAt(d) \in Nat /\ FrameAt(d) >= 2 * Sym
      /\ m_current_vector.tag = "NONE" /\ m_lts_flag = 0 /\ OwnVector
      /\ \A i \in 1 .. o - Cp : m_current_vector.samples[i] = <<f, FrameAt(d) + Cp + i - 1>>
  <2>1. d \in Nat /\ d <= n
    BY <1>1
  <2>2. FrameAt(d) \in Nat /\ FrameAt(d) >= 2 * Sym
    BY <2>1, FrameSteps
  <2>3. /\ k = FrameAt(d) + o /\ m_current_vector.tag = "NONE" /\ m_lts_flag = 0
        /\ OwnVector
        /\ \A i \in 1 .. o - Cp : m_current_vector.samples[i] = <<f, FrameAt(d) + Cp + i - 1>>
    BY DEF InSymbol, OwnVector
  <2> QED
    BY <2>1, <2>2, <2>3
<1>3. TagOf(k) = "NONE" /\ OffsetAt("NONE") = o
  <2>1. k # 0 /\ k # Sym
    <3> HIDE DEF k, o
    <3> QED
      BY <1>0, <1>2
  <2> QED
    BY <2>1 DEF TagOf, OffsetAt
<1>4. k + 1 = FrameLength(n) <=> d = n /\ o + 1 = Block
  <2>1. /\ FrameLength(n) = FrameAt(n) + Block /\ FrameAt(n) \in Nat
        /\ d < n => FrameAt(d) + Block <= FrameAt(n)
    BY <1>1, <1>2, FrameSteps
  <2>2. k = FrameAt(d) + o /\ o \in Nat /\ o < Block /\ Block \in Nat /\ Block >= 1
    BY <1>0, <1>2
  <2> HIDE DEF k, n, o
  <2>3. CASE d = n
    BY <1>2, <2>1, <2>2, <2>3
  <2>4. CASE d # n
    <3>1. d < n
      BY <1>1, <1>2, <2>4
    <3> QED
      BY <1>2, <2>1, <2>2, <2>4, <3>1
  <2> QED
    BY <2>3, <2>4
<1>x. x[1] = f /\ x = <<f, k>>
  OBVIOUS
<1>5. Receive("NONE", x)
  BY <1>1, <1>3
<1> HIDE DEF x
<1>6. Plain
  BY <1>1, <1>2, <1>5, <1>x, PlainSample
<1>7. /\ w = [j \in 1 .. Sym |-> w[j]]
      /\ \A j \in 1 .. Sym : w[j] = IF j = o - Cp + 1 THEN x ELSE m_current_vector.samples[j]
      /\ Cut("NONE", x) = IF o + 1 = Block THEN << [samples |-> w, tag |-> "NONE"] >> ELSE << >>
  BY <1>0, <1>2, <1>3, <1>5, Fills
<1> HIDE DEF f, k, n, o, w
<1>8. \A i \in 1 .. o + 1 - Cp : i \in 1 .. Sym /\ w[i] = <<f, FrameAt(d) + Cp + i - 1>>
  <2> SUFFICES ASSUME NEW i \in 1 .. o + 1 - Cp
               PROVE  i \in 1 .. Sym /\ w[i] = <<f, FrameAt(d) + Cp + i - 1>>
    OBVIOUS
  <2>1. i \in 1 .. Sym /\ (i = o - Cp + 1 \/ (i # o - Cp + 1 /\ i \in 1 .. o - Cp))
    BY <1>0
  <2>2. CASE i = o - Cp + 1
    <3>1. w[i] = x /\ FrameAt(d) + Cp + i - 1 = k
      BY <1>0, <1>2, <1>7, <2>1, <2>2
    <3> QED
      BY <1>x, <2>1, <3>1
  <2>3. CASE i # o - Cp + 1 /\ i \in 1 .. o - Cp
    <3>1. w[i] = m_current_vector.samples[i]
      BY <1>7, <2>1, <2>3
    <3> QED
      BY <1>2, <2>1, <2>3, <3>1
  <2> QED
    BY <2>1, <2>2, <2>3
<1>9. ASSUME o + 1 = Block PROVE w = Body(f, d)
  <2>1. \A j \in 1 .. Sym : j \in 1 .. o + 1 - Cp
    BY <1>0, <1>9
  <2>2. \A j \in 1 .. Sym : w[j] = <<f, FrameAt(d) + Cp + j - 1>>
    BY <1>8, <2>1
  <2>3. w = [j \in 1 .. Sym |-> <<f, FrameAt(d) + Cp + j - 1>>]
    BY <1>7, <2>2
  <2> QED
    BY <1>2, <2>3, BodySamples
<1>10. k + 1 = FrameAt(d) + (o + 1)
  BY <1>0, <1>2
<1> QED
  BY <1>4, <1>5, <1>6, <1>7, <1>8, <1>9, <1>10 DEF f, k, n, o, w, x

\* What the completed symbol, one of the data, is for frame_decoder.
LEMMA OwnData ==
  ASSUME SymInv, NEW d \in Nat, d >= 1, InSymbol(d)
  PROVE  Heard(Body(air.frame, d)) =
           [samples |-> Body(air.frame, d), est |-> Training(air.frame), pol |-> d % Period]
<1>1. ~m_frame_start
  BY DEF InSymbol
<1> QED
  BY <1>1 DEF InSymbol, Heard

\* Before its last sample nothing that was handed over is the frame's payload.
LEMMA NotYetSent ==
  ASSUME SymInv, NEW f, NEW n \in Nat, n >= 1, f = air.frame, size[f] = n,
         air.next > 0, air.next <= FrameAt(n) + Block - 1,
         NEW i \in DOMAIN delivered
  PROVE  delivered[i].samples # OwnPayload(f)
<1> SUFFICES ASSUME delivered[i].samples = OwnPayload(f) PROVE FALSE
  OBVIOUS
<1>0. Cp \in Nat /\ Sym \in Nat /\ Sym >= 2 /\ Block = Cp + Sym /\ FrameAt(n) \in Nat
      /\ air.next \in Nat
  BY SizesType, FrameSteps DEF SymInv, Typed
<1>1. delivered[i].samples \in Seq(Symbol(OnAir))
  <2>1. delivered[i] \in Payload(OnAir)
    BY DEF SymInv, Typed
  <2> QED
    BY <2>1 DEF Payload
<1>2. n \in DOMAIN delivered[i].samples /\ delivered[i].samples[n].samples = Body(f, n)
  <2>1. OwnPayload(f) = [d \in 1 .. n |-> [samples |-> Body(f, d), est |-> Training(f),
                                           pol |-> d % Period]]
    BY DEF OwnPayload
  <2> QED
    BY <2>1
<1>3. Body(f, n) \in Row(OnAir)
  <2>1. delivered[i].samples[n] \in Symbol(OnAir)
    BY <1>1, <1>2
  <2> QED
    BY <1>2, <2>1 DEF Symbol
<1>4. Body(f, n)[Sym] \in OnAir
  BY <1>0, <1>3 DEF Row
<1> DEFINE x == <<f, FrameAt(n) + Block - 1>>
<1>5. Body(f, n)[Sym] = x
  <2>1. Body(f, n)[Sym] = <<f, FrameAt(n) + Cp + Sym - 1>>
    BY <1>0, BodySamples
  <2>2. FrameAt(n) + Cp + Sym - 1 = FrameAt(n) + Block - 1
    BY <1>0
  <2> QED
    BY <2>1, <2>2
<1>6. x[1] = f /\ x[2] = FrameAt(n) + Block - 1 /\ (x = Noise => f = 0 /\ FrameAt(n) + Block - 1 = 0)
  BY DEF Noise
<1>7. FrameAt(n) + Block - 1 > 0 /\ ~(FrameAt(n) + Block - 1 < air.next)
  BY <1>0
<1>8. ~(f < air.frame)
  BY DEF SymInv, Typed
<1> HIDE DEF x
<1>9. x \in OnAir
  BY <1>4, <1>5
<1> QED
  BY <1>0, <1>6, <1>7, <1>8, <1>9 DEF OnAir

\* A sample of the header or of the data.  It is the header that sets the frame
\* up, the symbols before the last that the frame keeps, and the last that is
\* decoded and, in a frame of the right size, handed over.
LEMMA SymbolStep ==
  ASSUME SymInv, SendSample, NEW d \in 0 .. size[air.frame], InSymbol(d)
  PROVE  SymInv'
<1> DEFINE f == air.frame
           k == air.next
           n == size[air.frame]
           o == m_offset
           x == <<air.frame, air.next>>
           w == m_current_vector'.samples
           s == Heard(w)
<1>0. /\ Typed /\ Cp \in Nat /\ Cp >= 1 /\ Sym \in Nat /\ Sym >= 2 /\ Block \in Nat
      /\ Block = Cp + Sym /\ o \in 0 .. Block - 1 /\ o \in Nat
      /\ Period \in Nat /\ Period >= 1
  BY SizesType DEF SymInv, Typed
<1>1. /\ k \in Nat /\ f \in 1 .. Len(size) /\ f \in 1 .. MaxFrames /\ f \notin whole
      /\ n \in Nat /\ n >= 1 /\ n \in Sizes
      /\ Streams(x) /\ air'.frame = f /\ size' = size
      /\ IF k + 1 = FrameLength(n)
           THEN air'.next = 0 /\ air'.quiet = 0 /\ whole' = whole \cup {f}
           ELSE air'.next = k + 1 /\ whole' = whole
  BY Sending
<1>2. /\ Receive("NONE", x) /\ Plain
      /\ k + 1 = FrameLength(n) <=> d = n /\ o + 1 = Block
      /\ \A i \in 1 .. o + 1 - Cp : w[i] = <<f, FrameAt(d) + Cp + i - 1>>
      /\ o + 1 = Block => w = Body(f, d)
      /\ Cut("NONE", x) = IF o + 1 = Block
                            THEN << [samples |-> w, tag |-> "NONE"] >> ELSE << >>
      /\ k + 1 = FrameAt(d) + (o + 1)
  BY SymbolSample
<1>3. /\ d \in Nat /\ d <= n /\ FrameAt(d) \in Nat /\ FrameAt(d) >= 2 * Sym
      /\ FrameAt(d + 1) = FrameAt(d) + Block /\ d + 1 \in Nat
  <2>1. d \in Nat /\ d <= n
    BY <1>1
  <2> QED
    BY <2>1, FrameSteps
<1>4. /\ m_current_vector.tag = "NONE" /\ m_lts_flag = 0 /\ m_chan_est = Training(f)
      /\ m_frame_start <=> d = 0
      /\ d >= 1 => m_symbol_count = d % Period
      /\ d >= 1 /\ f \notin refused =>
           /\ m_current_frame.head = f
           /\ m_current_frame.sample_count = n
           /\ m_current_frame.samples = OwnPart(f, d - 1)
  BY DEF InSymbol
<1>5. /\ m_offset' = IF o + 1 = Block THEN 0 ELSE o + 1
      /\ m_current_vector'.tag = "NONE" /\ OwnVector'
      /\ m_lts_flag' = 0 /\ m_chan_est' = m_chan_est
      /\ o + 1 # Block =>
           UNCHANGED <<m_frame_start, m_symbol_count, m_current_frame, delivered, refused>>
      /\ o + 1 = Block => m_frame_start' = FALSE
      /\ m_symbol_count' \in 0 .. Period - 1 /\ refused \subseteq refused'
      /\ Stored(OnAir', m_current_frame', delivered', whole \ refused', f)
  BY <1>2 DEF Plain
<1>6. m_frame_start' \in BOOLEAN /\ m_chan_est' \in Seq(Row(Samples))
  BY <1>0, <1>5 DEF Typed
<1>t. Training(air'.frame) = Training(f) /\ Len(Training(f)) = 2
  BY <1>1 DEF Training
<1>7. ASSUME Place', Pending',
             Stored(OnAir', m_current_frame', delivered', whole' \ refused', f)
      PROVE  SymInv'
  BY <1>1, <1>2, <1>5, <1>6, <1>7, Assembled
<1>s. s = Heard(w)
  OBVIOUS
<1>w. w = m_current_vector'.samples
  OBVIOUS
<1>f. f = air.frame /\ n = size[f] /\ k = air.next /\ o = m_offset
  OBVIOUS
<1> HIDE DEF f, k, n, o, x, w, s
<1>k. /\ k \in Nat /\ k + 1 = FrameAt(d) + (o + 1) /\ k + 1 >= 2 * Sym /\ k + 1 > 0
      /\ o + 1 = Block => k + 1 = FrameAt(d) + Block
  <2>1. k + 1 = FrameAt(d) + (o + 1) /\ k \in Nat /\ FrameAt(d) \in Nat
        /\ FrameAt(d) >= 2 * Sym /\ Sym \in Nat /\ o \in Nat
    BY <1>0, <1>1, <1>2, <1>3
  <2> QED
    BY <2>1
<1>a. /\ air'.frame = f
      /\ \A i \in 1 .. o + 1 - Cp : w[i] = <<f, FrameAt(d) + Cp + i - 1>>
      /\ m_offset' = IF o + 1 = Block THEN 0 ELSE o + 1
      /\ air'.next = 0 \/ air'.next = k + 1
  BY <1>1, <1>2, <1>5
<1>8. ASSUME NEW e \in 0 .. n, air'.next > 0, InSymbol(e)'
      PROVE  Place'
  <2>1. air'.frame >= 1 /\ air'.frame \notin whole' /\ size'[air'.frame] = n
    BY <1>1, <1>8, <1>f
  <2> QED
    BY <1>8, <2>1 DEF Place
<1>9. CASE o + 1 # Block
  <2>1. air'.next = k + 1 /\ whole' = whole /\ k + 1 > 0
    BY <1>1, <1>2, <1>9
  <2>2. InSymbol(d)'
    <3>1. air'.next = FrameAt(d) + m_offset'
      BY <1>2, <1>5, <1>9, <2>1
    <3>2. \A i \in 1 .. m_offset' - Cp : w[i] = <<air'.frame, FrameAt(d) + Cp + i - 1>>
      <4>1. m_offset' = o + 1
        BY <1>9, <1>a
      <4>2. \A i \in 1 .. o + 1 - Cp : w[i] = <<air'.frame, FrameAt(d) + Cp + i - 1>>
        BY <1>a
      <4>3. 1 .. m_offset' - Cp = 1 .. o + 1 - Cp
        BY <1>0, <4>1
      <4> QED
        BY <4>2, <4>3
    <3>3. /\ m_frame_start' <=> d = 0
          /\ d >= 1 => m_symbol_count' = d % Period
          /\ d >= 1 /\ air'.frame \notin refused' =>
               /\ m_current_frame'.head = air'.frame
               /\ m_current_frame'.sample_count = size'[air'.frame]
               /\ m_current_frame'.samples = OwnPart(air'.frame, d - 1)
      BY <1>1, <1>4, <1>5, <1>9, <1>f
    <3>4. m_chan_est' = Training(air'.frame)
      BY <1>4, <1>5, <1>t
    <3> QED
      BY <1>5, <1>w, <3>1, <3>2, <3>3, <3>4 DEF InSymbol, OwnVector, FrameAt, Training, OwnPart, Body
  <2>3. Place'
    BY <1>1, <1>8, <2>1, <2>2, <1>f
  <2>4. Pending'
    <3> SUFFICES ASSUME m_frame_start' \/ (air'.next > 0 /\ air'.next < 2 * Sym)
                 PROVE  /\ air'.frame \notin whole'
                        /\ \A i \in DOMAIN delivered' : delivered'[i].head < air'.frame
                        /\ m_current_frame'.head < air'.frame
      BY DEF Pending
    <3>1. ~(air'.next > 0 /\ air'.next < 2 * Sym)
      BY <1>0, <1>2, <1>3, <2>1
    <3>2. m_frame_start
      BY <1>5, <1>9, <3>1
    <3>3. /\ \A i \in DOMAIN delivered : delivered[i].head < f
          /\ m_current_frame.head < f
      BY <1>f, <3>2 DEF SymInv, Pending
    <3> QED
      BY <1>1, <1>5, <1>9, <2>1, <3>3
  <2>5. Stored(OnAir', m_current_frame', delivered', whole' \ refused', f)
    BY <1>5, <2>1
  <2> QED
    BY <1>7, <2>3, <2>4, <2>5
<1>10. ASSUME o + 1 = Block PROVE Pending'
  <2>1. ~m_frame_start' /\ ~(air'.next > 0 /\ air'.next < 2 * Sym)
    <3>1. ~(air'.next > 0 /\ air'.next < 2 * Sym)
      BY <1>0, <1>a, <1>k
    <3> QED
      BY <1>5, <1>10, <3>1
  <2> QED
    BY <2>1 DEF Pending
<1>11. ASSUME o + 1 = Block, d < n, m_symbol_count' = (d + 1) % Period,
              f \notin refused' =>
                /\ m_current_frame'.head = f
                /\ m_current_frame'.sample_count = n
                /\ m_current_frame'.samples = OwnPart(f, d)
       PROVE  SymInv'
  <2>1. air'.next = k + 1 /\ whole' = whole /\ k + 1 > 0
    BY <1>1, <1>2, <1>11
  <2>2. InSymbol(d + 1)'
    <3>1. air'.next = FrameAt(d + 1) + m_offset' /\ m_offset' = 0
      <4>1. m_offset' = 0 /\ k + 1 = FrameAt(d) + Block
        BY <1>11, <1>a, <1>k
      <4>2. FrameAt(d) \in Nat /\ FrameAt(d + 1) = FrameAt(d) + Block /\ Block \in Nat
        BY <1>0, <1>3
      <4> QED
        BY <2>1, <4>1, <4>2
    <3>2. 1 .. m_offset' - Cp = {}
      BY <1>0, <3>1
    <3>3. /\ m_frame_start' <=> d + 1 = 0
          /\ d + 1 >= 1 => m_symbol_count' = (d + 1) % Period
      BY <1>3, <1>5, <1>11
    <3>4. air'.frame \notin refused' =>
               /\ m_current_frame'.head = air'.frame
               /\ m_current_frame'.sample_count = size'[air'.frame]
               /\ m_current_frame'.samples = OwnPart(air'.frame, d + 1 - 1)
      <4>1. d + 1 - 1 = d
        BY <1>3
      <4> QED
        BY <1>1, <1>11, <1>f, <4>1
    <3>5. m_chan_est' = Training(air'.frame)
      BY <1>4, <1>5, <1>t
    <3> QED
      BY <1>5, <1>w, <3>1, <3>2, <3>3, <3>4, <3>5 DEF InSymbol, OwnVector, FrameAt, Training, OwnPart, Body
  <2>3. d + 1 \in 0 .. n
    BY <1>1, <1>3, <1>11
  <2>4. Place'
    BY <1>8, <2>1, <2>2, <2>3, <1>1
  <2>5. Stored(OnAir', m_current_frame', delivered', whole' \ refused', f)
    BY <1>5, <2>1
  <2> QED
    BY <1>7, <1>10, <1>11, <2>4, <2>5
<1> DEFINE v == [samples |-> w, tag |-> "NONE"]
<1>v. v.samples = w /\ v.tag # "LTS_START" /\ (o + 1 = Block => Cut("NONE", x) = << v >>)
  BY <1>2
<1> HIDE DEF v
<1>12. CASE o + 1 = Block /\ d = 0
  <2>1. /\ m_symbol_count' = 1 % Period
        /\ \E m \in HeaderReads(s) :
             IF m = 0
               THEN /\ m_current_frame' = Collect(m_current_frame, s)
                    /\ refused' = IF IntactHeader(air'.frame, s)
                                    THEN refused \cup {air'.frame} ELSE refused
               ELSE /\ m_current_frame' = [sample_count |-> m, samples |-> << >>,
                                           head |-> air'.frame]
                    /\ refused' = refused
    <3>1. Cut("NONE", x) = << v >> /\ v.tag # "LTS_START" /\ m_frame_start
      BY <1>4, <1>12, <1>v
    <3>2. s = Heard(v.samples)
      BY <1>s, <1>v
    <3> QED
      BY <1>0, <1>2, <1>4, <3>1, <3>2, HeaderSymbol
  <2>2. s = [samples |-> Body(f, 0), est |-> Training(f), pol |-> 0]
    <3>1. w = Body(f, 0) /\ m_frame_start
      BY <1>2, <1>4, <1>12
    <3> QED
      BY <1>4, <1>s, <3>1 DEF Heard
  <2>3. f \in DOMAIN size
    BY <1>0, <1>1 DEF Typed
  <2>4. IntactHeader(f, s) /\ HeaderReads(s) \subseteq {0, n}
    BY <1>0, <1>f, <2>2, <2>3, OwnHeader
  <2>5. PICK m \in {0, n} :
             IF m = 0
               THEN /\ m_current_frame' = Collect(m_current_frame, s)
                    /\ refused' = IF IntactHeader(air'.frame, s)
                                    THEN refused \cup {air'.frame} ELSE refused
               ELSE /\ m_current_frame' = [sample_count |-> m, samples |-> << >>,
                                           head |-> air'.frame]
                    /\ refused' = refused
    BY <2>1, <2>4
  <2>6. f \notin refused' =>
          /\ m_current_frame'.head = f
          /\ m_current_frame'.sample_count = n
          /\ m_current_frame'.samples = OwnPart(f, 0)
    <3>1. CASE m = 0
      BY <1>1, <2>4, <2>5, <3>1
    <3>2. CASE m # 0
      <4>1. m_current_frame' = [sample_count |-> n, samples |-> << >>, head |-> f]
        BY <1>1, <2>5, <3>2
      <4>2. OwnPart(f, 0) = << >>
        BY DEF OwnPart
      <4> QED
        BY <4>1, <4>2
    <3> QED
      BY <3>1, <3>2
  <2>7. m_symbol_count' = (d + 1) % Period /\ d < n
    <3>1. d + 1 = 1
      BY <1>12
    <3> QED
      BY <1>1, <1>12, <2>1, <3>1
  <2> QED
    BY <1>11, <1>12, <2>6, <2>7
<1>13. ASSUME o + 1 = Block, d >= 1
       PROVE  /\ refused' = refused
              /\ m_symbol_count' = (d + 1) % Period
              /\ m_current_frame' = Collect(m_current_frame, s)
              /\ delivered' = Hand(m_current_frame, delivered, s)
              /\ s = [samples |-> Body(f, d), est |-> Training(f), pol |-> d % Period]
              /\ Taken(OnAir', m_current_frame, delivered, s)
              /\ Append(OwnPart(f, d - 1), s) = OwnPart(f, d)
              /\ Len(OwnPart(f, d - 1)) = d - 1
  <2>0. ~m_frame_start
    BY <1>4, <1>13
  <2>1. /\ UNCHANGED refused
        /\ m_symbol_count' = (m_symbol_count + 1) % Period
        /\ m_current_frame' = Collect(m_current_frame, s)
        /\ delivered' = Hand(m_current_frame, delivered, s)
    <3>1. Cut("NONE", x) = << v >> /\ v.tag # "LTS_START"
      BY <1>13, <1>v
    <3>2. s = Heard(v.samples)
      BY <1>s, <1>v
    <3> QED
      BY <1>0, <1>2, <1>4, <2>0, <3>1, <3>2, DataSymbol
  <2>2. m_symbol_count' = (d + 1) % Period
    BY <1>0, <1>3, <1>4, <1>13, <2>1, ModStep
  <2>3. s = [samples |-> Body(f, d), est |-> Training(f), pol |-> d % Period]
    BY <1>2, <1>3, <1>13, <1>f, <1>s, OwnData
  <2>4. Append(OwnPart(f, d - 1), s) = OwnPart(f, d) /\ Len(OwnPart(f, d - 1)) = d - 1
    BY <1>3, <1>13, <2>3, OwnGrows
  <2>5. Taken(OnAir', m_current_frame, delivered, s)
    <3>1. OnAir \subseteq OnAir'
      BY <1>1 DEF Streams
    <3>2. Stored(OnAir', m_current_frame, delivered, whole \ refused, air.frame)
      BY <3>1, StoredNow
    <3>3. w \in Row(OnAir')
      BY <1>2, <1>w DEF Plain
    <3>4. s \in Symbol(OnAir')
      BY <1>0, <1>s, <3>3, HeardType
    <3>5. /\ m_current_frame \in Collected(OnAir') /\ delivered \in Seq(Payload(OnAir'))
          /\ m_current_frame.sample_count # 0 =>
               Len(m_current_frame.samples) < m_current_frame.sample_count
      BY <3>2 DEF Stored, Ordered
    <3> QED
      BY <3>4, <3>5, Taking
  <2> QED
    BY <2>1, <2>2, <2>3, <2>4, <2>5
<1>14. CASE o + 1 = Block /\ d >= 1 /\ d < n
  <2> DEFINE c == m_current_frame
             cc == Collect(m_current_frame, s)
  <2>1. /\ m_current_frame' = cc /\ refused' = refused
        /\ m_symbol_count' = (d + 1) % Period
        /\ Taken(OnAir', c, delivered, s)
        /\ Append(OwnPart(f, d - 1), s) = OwnPart(f, d)
        /\ Len(OwnPart(f, d - 1)) = d - 1
    BY <1>13, <1>14
  <2>2. ASSUME f \notin refused
        PROVE  cc.head = f /\ cc.sample_count = n /\ cc.samples = OwnPart(f, d)
    <3>1. c.head = f /\ c.sample_count = n /\ c.samples = OwnPart(f, d - 1)
      BY <1>4, <1>14, <2>2
    <3>2. c.sample_count # 0 /\ Len(c.samples) + 1 < c.sample_count
      <4>1. Len(c.samples) = d - 1
        BY <2>1, <3>1
      <4>2. d - 1 + 1 < n /\ n # 0
        BY <1>1, <1>3, <1>14
      <4> HIDE DEF c
      <4> QED
        BY <3>1, <4>1, <4>2
    <3> HIDE DEF c
    <3>3. /\ cc.head = c.head /\ cc.sample_count = c.sample_count
          /\ cc.samples = Append(c.samples, s)
      BY <2>1, <3>2 DEF Taken, c
    <3> QED
      BY <2>1, <3>1, <3>3
  <2> HIDE DEF cc
  <2> QED
    BY <1>11, <1>14, <2>1, <2>2
<1>15. CASE o + 1 = Block /\ d = n
  <2> DEFINE c == m_current_frame
             cc == Collect(m_current_frame, s)
             oo == Hand(m_current_frame, delivered, s)
  <2>1. /\ m_current_frame' = cc /\ delivered' = oo /\ refused' = refused
        /\ Taken(OnAir', c, delivered, s)
        /\ Append(OwnPart(f, n - 1), s) = OwnPart(f, n)
        /\ Len(OwnPart(f, n - 1)) = n - 1
    BY <1>1, <1>13, <1>15
  <2>2. /\ air'.next = 0 /\ air'.quiet = 0 /\ whole' = whole \cup {f}
        /\ m_offset' = 0 /\ m_frame_start' = FALSE
    BY <1>1, <1>2, <1>5, <1>15
  <2>3. Place'
    <3>1. Between'
      BY <1>4, <1>5, <1>t, <2>2 DEF Between, OwnVector
    <3> QED
      BY <2>2, <3>1 DEF Place
  <2>4. ASSUME f \notin refused
        PROVE  cc.sample_count = 0 /\ (n = Full => Once(oo, OwnPayload(f)))
    <3>1. c.head = f /\ c.sample_count = n /\ c.samples = OwnPart(f, n - 1)
      BY <1>1, <1>4, <1>15, <2>4
    <3>2. c.sample_count # 0 /\ Len(c.samples) + 1 >= c.sample_count
      BY <1>1, <2>1, <3>1
    <3>3. OwnPart(f, n) = OwnPayload(f)
      BY <1>f DEF OwnPart, OwnPayload
    <3>4. Append(c.samples, s) = OwnPayload(f)
      BY <2>1, <3>1, <3>3
    <3>5. \A i \in DOMAIN delivered : delivered[i].samples # OwnPayload(f)
      <4>1. k > 0
        BY <1>0, <1>k
      <4>2. k <= FrameAt(n) + Block - 1
        <5>1. k + 1 = FrameAt(n) + Block
          BY <1>15, <1>k
        <5>2. FrameAt(n) \in Nat /\ Block \in Nat
          BY <1>0, <1>3, <1>15
        <5> QED
          BY <1>k, <5>1, <5>2
      <4> QED
        BY <1>1, <1>f, <4>1, <4>2, NotYetSent
    <3> HIDE DEF c
    <3>6. cc.sample_count = 0
      BY <2>1, <3>2 DEF Taken, c
    <3>7. ASSUME n = Full PROVE Once(oo, OwnPayload(f))
      <4>1. c.sample_count = Full
        BY <3>1, <3>7
      <4>2. Taken(OnAir', c, delivered, s)
        BY <2>1
      <4>3. delivered \in Seq(Payload(OnAir'))
        <5>1. OnAir \subseteq OnAir'
          BY <1>1 DEF Streams
        <5> QED
          BY <5>1, StoredNow DEF Stored
      <4>4. Once(Hand(c, delivered, s), OwnPayload(f))
        BY <3>2, <3>4, <3>5, <4>1, <4>2, <4>3, OnceMade
      <4> QED
        BY <4>4 DEF c
    <3> QED
      BY <3>6, <3>7
  <2> HIDE DEF cc, oo, c
  <2>5. Stored(OnAir', m_current_frame', delivered', whole' \ refused', f)
    <3> SUFFICES ASSUME NEW g \in whole' \ refused'
                 PROVE  /\ m_current_frame'.sample_count # 0 => m_current_frame'.head > g
                        /\ size[g] = Full => Once(delivered', OwnPayload(g))
      BY <1>5 DEF Stored
    <3>1. CASE g \in whole \ refused'
      BY <1>5, <3>1 DEF Stored
    <3>2. CASE g = f
      BY <1>f, <2>1, <2>4, <3>2
    <3> QED
      BY <2>2, <3>1, <3>2
  <2> QED
    BY <1>7, <1>10, <1>15, <2>3, <2>5
<1> QED
  BY <1>1, <1>3, <1>9, <1>12, <1>14, <1>15

-----------------------------------------------------------------------------
(* The theorems *)

\* The invariant holds at the start.
LEMMA InitInv == Init => SymInv
<1> SUFFICES ASSUME Init PROVE SymInv
  OBVIOUS
<1> USE DEF Init
<1>0. Sts \in Nat /\ Block \in Nat /\ Block >= 1 /\ MaxFrames \in Nat /\ Period \in Nat /\ Period >= 1
  BY SizesType
<1>1. Noise \in OnAir
  BY SamplesType DEF OnAir
<1>2. m_current_vector \in [samples : Row(OnAir), tag : {"NONE", "LTS_START"}]
  BY <1>1 DEF Row
<1>3. m_current_frame \in Collected(OnAir)
  BY DEF Idle, Collected
<1>4. Typed
  <2>1. air \in [frame : 0 .. MaxFrames, next : Nat, quiet : 0 .. Sts]
    BY <1>0
  <2>2. m_offset \in 0 .. Block - 1 /\ m_symbol_count \in 0 .. Period - 1
    BY <1>0
  <2>3. /\ size \in Seq(Sizes) /\ Len(size) = air.frame
        /\ m_chan_est \in Seq(Row(Samples)) /\ delivered \in Seq(Payload(OnAir))
    OBVIOUS
  <2> QED
    BY <1>2, <1>3, <2>1, <2>2, <2>3 DEF Typed
<1>5. Place
  BY DEF Place, Between
<1>6. DOMAIN delivered = {} /\ m_current_frame.sample_count = 0 /\ m_current_frame.head = 0
  BY DEF Idle
<1>7. Ordered(m_current_frame, delivered) /\ Heads /\ Kept
  BY <1>6 DEF Ordered, Heads, Kept
<1>8. Pending
  BY DEF Pending
<1> QED
  BY <1>4, <1>5, <1>7, <1>8 DEF SymInv

\* Every step keeps the invariant.
LEMMA NextInv == SymInv /\ [Next]_vars => SymInv'
<1> SUFFICES ASSUME SymInv, [Next]_vars PROVE SymInv'
  OBVIOUS
<1>1. ASSUME NEW n \in Sizes, StartFrame(n) PROVE SymInv'
  BY <1>1, StartStep
<1>2. CASE SendSample
  <2>1. InFirst \/ InSecond \/ \E d \in 0 .. size[air.frame] : InSymbol(d)
    BY <1>2, Sending
  <2>2. ASSUME NEW d \in 0 .. size[air.frame], InSymbol(d) PROVE SymInv'
    BY <1>2, <2>2, SymbolStep
  <2> QED
    BY <1>2, <2>1, <2>2, FirstStep, SecondStep
<1>3. CASE CutOff
  <2>0. /\ air.next \in Nat /\ Sym \in Nat /\ Sym >= 2 /\ Sts \in Nat /\ Block \in Nat /\ Block >= 1
        /\ Sts = 2 * Block /\ m_offset \in Nat
    BY SizesType DEF SymInv, Typed
  <2>1. air' = Quiet(1) /\ UNCHANGED <<size, whole>> /\ Receive("NONE", Noise) /\ air.next >= 2 * Sym
    BY <1>3 DEF CutOff
  <2>2. PICK d \in 0 .. size[air.frame] : InSymbol(d)
    <3>1. ~InFirst /\ ~InSecond /\ air.next > 0
      BY <2>0, <2>1 DEF InFirst, InSecond
    <3> QED
      BY <3>1 DEF SymInv, Place
  <2>3. /\ m_lts_flag = 0 /\ m_current_vector.tag = "NONE" /\ OwnVector
        /\ Len(m_chan_est) = 2
    BY <2>2 DEF InSymbol, OwnVector, Training
  <2>4. 1 \in 0 .. Sts /\ 1 <= m_offset + 1
    BY <2>0
  <2> QED
    BY <2>1, <2>3, <2>4, NoiseStep
<1>4. CASE Silence
  <2>0. /\ Sts \in Nat /\ air.quiet \in 0 .. Sts /\ m_offset \in Nat
        /\ m_offset < Sts
    BY SizesType DEF SymInv, Typed
  <2> DEFINE q == IF air.quiet < Sts THEN air.quiet + 1 ELSE Sts
  <2>1. /\ air.next = 0 /\ air' = Quiet(q) /\ UNCHANGED <<size, whole>>
        /\ Receive("NONE", Noise)
    BY <1>4 DEF Silence
  <2>2. Between
    BY <2>1 DEF SymInv, Place
  <2>3. /\ m_lts_flag = 0 /\ m_current_vector.tag = "NONE" /\ OwnVector
        /\ m_chan_est = << >> \/ Len(m_chan_est) = 2
    BY <2>2 DEF Between, OwnVector
  <2>4. q \in 0 .. Sts /\ (m_frame_start => q <= m_offset + 1)
    BY <2>0, <2>2 DEF Between
  <2> HIDE DEF q
  <2> QED
    BY <2>1, <2>3, <2>4, NoiseStep
<1>5. CASE UNCHANGED vars
  BY <1>5 DEF vars, SymInv, Typed, OnAir, Place, Between, InFirst, InSecond, InSymbol,
              Heads, Pending, Kept, OwnPayload
<1> QED
  BY <1>1, <1>2, <1>3, <1>4, <1>5 DEF Next

\* The invariant is one of the specification: where the four blocks are is fixed
\* by the place in the frame on the air, and nothing they hold is out of order.
THEOREM SymbolsInvariant == Spec => []SymInv
BY InitInv, NextInv, PTL DEF Spec

\* fft_symbols never fills past its symbol, channel_est never holds a third
\* training symbol, frame_decoder never more symbols than its header announced.
THEOREM SymbolsTyped == Spec => []TypeOK
<1>1. SymInv => TypeOK
  <2> SUFFICES ASSUME SymInv PROVE TypeOK
    OBVIOUS
  <2>1. Typed
    BY DEF SymInv
  <2>2. m_offset \in 0 .. Block - 1 /\ m_lts_flag \in {0, 2} /\ m_frame_start \in BOOLEAN
        /\ m_symbol_count \in 0 .. Period - 1
    BY <2>1 DEF Typed
  <2>3. /\ m_current_vector.tag \in {"NONE", "LTS_START"}
        /\ \A j \in 1 .. Sym : m_current_vector.samples[j] \in Samples
    BY <2>1 DEF Typed, Row, OnAir
  <2>4. Len(m_chan_est) = (IF m_lts_flag = 2 THEN 1 ELSE IF m_chan_est = << >> THEN 0 ELSE 2)
    <3>1. air.next \in Nat
      BY <2>1 DEF Typed
    <3>2. Between \/ InFirst \/ InSecond \/ \E d \in 0 .. size[air.frame] : InSymbol(d)
      BY <3>1 DEF SymInv, Place
    <3>3. CASE Between
      BY <3>3 DEF Between
    <3>4. CASE InFirst
      BY <3>4 DEF InFirst
    <3>5. CASE InSecond
      BY <3>5 DEF InSecond
    <3>6. CASE \E d \in 0 .. size[air.frame] : InSymbol(d)
      <4>1. m_lts_flag = 0 /\ m_chan_est = Training(air.frame)
        BY <3>6 DEF InSymbol
      <4>2. Len(Training(air.frame)) = 2 /\ Training(air.frame) # << >>
        BY DEF Training
      <4> QED
        BY <4>1, <4>2
    <3> QED
      BY <3>2, <3>3, <3>4, <3>5, <3>6
  <2>5. /\ m_current_frame.sample_count \in {0} \cup Sizes
        /\ m_current_frame.sample_count # 0 =>
             Len(m_current_frame.samples) < m_current_frame.sample_count
    <3>1. m_current_frame \in Collected(OnAir)
      BY <2>1 DEF Typed
    <3> QED
      BY <3>1, CollectedType DEF SymInv, Ordered
  <2> QED
    BY <2>2, <2>3, <2>4, <2>5 DEF TypeOK
<1> QED
  BY <1>1, SymbolsInvariant, PTL

\* A frame of 1930 bytes that was sent to its last sample, and whose header was
\* not refused, is delivered exactly once: its own symbols in order, each with the
\* frame's own estimate and polarity, whatever was on the air before it.
THEOREM SymbolsDeliverWhole == Spec => []WholeFrameDelivered
<1>1. SymInv => WholeFrameDelivered
  <2> SUFFICES ASSUME SymInv, NEW f \in whole \ refused, size[f] = Full
               PROVE  Cardinality({i \in DOMAIN delivered :
                                     delivered[i].samples = OwnPayload(f)}) = 1
    BY DEF WholeFrameDelivered
  <2>1. PICK i \in DOMAIN delivered :
          /\ delivered[i].samples = OwnPayload(f)
          /\ \A k \in DOMAIN delivered : delivered[k].samples = OwnPayload(f) => k = i
    BY DEF SymInv, Kept, Once
  <2>2. {k \in DOMAIN delivered : delivered[k].samples = OwnPayload(f)} = {i}
    BY <2>1
  <2> QED
    BY <2>2, FS_Singleton
<1> QED
  BY <1>1, SymbolsInvariant, PTL

\* frame_decoder mixes no frames: a payload holds nothing that was on the air
\* before its header's frame, and one header begins at most one payload.
THEOREM SymbolsInOrder == Spec => []NothingOlderThanHeader
<1>1. SymInv => NothingOlderThanHeader
  BY DEF SymInv, Ordered, NotBefore, NothingOlderThanHeader
<1> QED
  BY <1>1, SymbolsInvariant, PTL

=============================================================================
