------------------------- MODULE TimingSyncProofs -------------------------
(***************************************************************************)
(* timing_sync for every size of the batches, the prefix and the symbols,  *)
(* any lags and any shares of clipped samples: the types, the watchdog,    *)
(* the gate on clipped preambles, and where the tags are.                  *)
(***************************************************************************)
EXTENDS TimingSync, NaturalsInduction, WellFoundedInduction, TLAPS

\* The marks on the samples a call of n has before it, the carry-over first.
Seen(n) == Marks(n + Carry - 1)

\* Where a preamble that is clear of the last one may begin.
Starts(n) == {i \in 0 .. n - 1 : gap + i >= Gap}

\* The marks a call of Work looks at.
Input(n, arrived) ==
    m_carryover \cup Shift({m \in ahead \cup arrived : m.at < n}, Carry)

(***************************************************************************)
(* The inductive invariant: the types, and the last LTS behind a learnt    *)
(* estimate is at most one batch older than the watchdog's count says      *)
(* (timing_sync.cpp:177-192).                                              *)
(***************************************************************************)
Counted == m_phase_offset # "neutral" => age <= m_samples_since_lts + MaxBatch

IInv == TypeOK /\ Counted

\* A bounded non-empty set of integers has a largest.
LEMMA GreatestExists ==
  ASSUME NEW n \in Int, NEW T \in SUBSET Int, T # {}, \A x \in T : x < n
  PROVE  \E x \in T : \A y \in T : y <= x
<1> DEFINE R == {ss \in Nat \X Nat : ss[1] < ss[2]}
           D == {n - x : x \in T}
<1>1. IsWellFoundedOn(R, Nat)
  BY NatLessThanWellFounded DEF OpToRel
<1>2. D \subseteq Nat /\ D # {}
  <2>1. \A x \in T : n - x \in Nat
    OBVIOUS
  <2> QED
    BY <2>1
<1>3. PICK d \in D : \A e \in D : ~(<<e, d>> \in R)
  <2> HIDE DEF R, D
  <2> QED
    BY <1>1, <1>2, WFMin
<1>4. \A e \in D : e < d => <<e, d>> \in R
  BY <1>2
<1>5. \A e \in D : ~(e < d)
  BY <1>3, <1>4
<1>6. PICK x \in T : d = n - x
  OBVIOUS
<1>7. \A y \in T : n - y \in D
  OBVIOUS
<1> HIDE DEF D, R
<1>8. \A y \in T : ~(n - y < n - x)
  BY <1>5, <1>6, <1>7
<1> QED
  BY <1>8

LEMMA MaxBatchBounds ==
  MaxBatch \in Batches /\ MaxBatch \in Nat /\ \A n \in Batches : n <= MaxBatch
<1>1. PICK n \in Batches : \A m \in Batches : m <= n
  BY TimingAssumption
<1>2. MaxBatch \in Batches /\ \A m \in Batches : m <= MaxBatch
  BY <1>1 DEF MaxBatch
<1> QED
  BY <1>2, TimingAssumption

\* Held keeps what is at n or later, and counts it from n.
LEMMA HeldPlaced ==
  ASSUME NEW n \in Nat, NEW marks \in SUBSET Seen(n)
  PROVE  Held(marks, n) \subseteq Marks(Carry - 1)
<1> SUFFICES ASSUME NEW m \in marks, m.at >= n
             PROVE  [m EXCEPT !.at = @ + (-n)] \in Marks(Carry - 1)
  BY DEF Held, Shift
<1>1. m \in Seen(n)
  OBVIOUS
<1> QED
  BY <1>1, TimingAssumption DEF Seen, Marks

\* Nothing, a false alarm or a frame.
LEMMA ArrivalShapes ==
  ASSUME NEW n \in Nat, NEW c \in BOOLEAN, NEW marks \in Arrivals(n, c)
  PROVE  \/ marks = {}
         \/ \E i \in Starts(n) : marks = {Mark(i, "STS_END", FALSE)}
         \/ \E i \in Starts(n), lag \in Lags : marks = FrameMarks(i, lag, n, c)
<1> DEFINE one == {{}}
           alarms == {{Mark(i, "STS_END", FALSE)} : i \in Starts(n)}
           frames == {FrameMarks(i, lag, n, c) : i \in Starts(n), lag \in Lags}
<1>1. marks \in one \/ marks \in alarms \/ marks \in frames
  <2>1. Arrivals(n, c) = one \cup alarms \cup frames
    BY DEF Arrivals, Starts
  <2> HIDE DEF one, alarms, frames
  <2> QED
    BY <2>1
<1>2. marks \in one => marks = {}
  OBVIOUS
<1>3. marks \in alarms =>
        \E i \in Starts(n) : marks = {Mark(i, "STS_END", FALSE)}
  OBVIOUS
<1>4. marks \in frames =>
        \E i \in Starts(n), lag \in Lags : marks = FrameMarks(i, lag, n, c)
  OBVIOUS
<1> HIDE DEF one, alarms, frames
<1> QED
  BY <1>1, <1>2, <1>3, <1>4

\* What is on the air begins in the batch and ends a carry-over later at most.
LEMMA ArrivalsPlaced ==
  ASSUME NEW n \in Nat, NEW c \in BOOLEAN, NEW marks \in Arrivals(n, c)
  PROVE  marks \subseteq Seen(n) /\ At(marks, "STS_END") \subseteq 0 .. n - 1
<1>1. \A at \in 0 .. n + Carry - 1, what \in Tags \cup Signs, b \in BOOLEAN :
        Mark(at, what, b) \in Seen(n)
  BY DEF Mark, Seen, Marks
<1>2. CASE marks = {}
  BY <1>2 DEF At
<1>3. CASE \E i \in Starts(n) : marks = {Mark(i, "STS_END", FALSE)}
  <2>1. PICK i \in Starts(n) : marks = {Mark(i, "STS_END", FALSE)}
    BY <1>3
  <2>2. i \in 0 .. n - 1 /\ i \in 0 .. n + Carry - 1 /\ "STS_END" \in Tags
    BY TimingAssumption DEF Tags, Starts
  <2>3. At(marks, "STS_END") \subseteq {i}
    BY <2>1 DEF At, Mark
  <2> QED
    BY <1>1, <2>1, <2>2, <2>3
<1>4. ASSUME NEW i \in Starts(n), NEW lag \in Lags,
             marks = FrameMarks(i, lag, n, c)
      PROVE  marks \subseteq Seen(n) /\ At(marks, "STS_END") \subseteq 0 .. n - 1
  <2> DEFINE p == i + Cp - lag
             E == 0 .. n + Carry - 1
  <2>1. /\ i \in 0 .. n - 1 /\ i \in E
        /\ p \in E /\ p + Lts \in E
        /\ p - Back \in E /\ p - Back + Lts \in E
    BY TimingAssumption DEF Starts
  <2> HIDE DEF p
  <2>2. marks \subseteq
          {Mark(i, "STS_END", c), Mark(p, "peak", FALSE),
           Mark(p + Lts, "peak", FALSE), Mark(p - Back, "due1", FALSE),
           Mark(p - Back + Lts, "due2", FALSE)}
    BY <1>4 DEF FrameMarks, p
  <2>3. /\ Mark(i, "STS_END", c) \in Seen(n)
        /\ Mark(p, "peak", FALSE) \in Seen(n)
        /\ Mark(p + Lts, "peak", FALSE) \in Seen(n)
        /\ Mark(p - Back, "due1", FALSE) \in Seen(n)
        /\ Mark(p - Back + Lts, "due2", FALSE) \in Seen(n)
    BY <1>1, <2>1 DEF Tags, Signs
  <2>4. At(marks, "STS_END") \subseteq {i}
    BY <2>2 DEF At, Mark
  <2> QED
    BY <2>1, <2>2, <2>3, <2>4
<1>5. \/ marks = {}
      \/ \E i \in Starts(n) : marks = {Mark(i, "STS_END", FALSE)}
      \/ \E i \in Starts(n), lag \in Lags : marks = FrameMarks(i, lag, n, c)
  BY ArrivalShapes
<1> QED
  BY <1>2, <1>3, <1>4, <1>5

\* The tags of a preamble stand where it does.
LEMMA TaggedMarks ==
  ASSUME NEW n \in Nat, NEW input \in SUBSET Seen(n)
  PROVE  Tagged(input, n) \subseteq Seen(n)
<1>1. ASSUME NEW x, NEW p \in Found(input, x)
      PROVE  TagsFor(p) \subseteq Seen(n)
  <2> DEFINE E == 0 .. n + Carry - 1
  <2>1. At(input, "peak") \subseteq E
    BY DEF At, Seen, Marks
  <2>2. p \in E /\ p + Lts \in E /\ p >= Cp
    BY <2>1, TimingAssumption DEF Found, Pairs, LtsOffset
  <2>3. p - Back \in E /\ p - Back + Lts \in E
    BY <2>2, TimingAssumption
  <2> QED
    BY <2>3 DEF TagsFor, Mark, Seen, Marks, Tags
<1> QED
  BY <1>1 DEF Tagged

\* The last hit of a batch is one, and inside the batch.
LEMMA LastHit ==
  ASSUME NEW n \in Nat, NEW input \in SUBSET Seen(n), Hits(input, n) # {}
  PROVE  Last(Hits(input, n)) \in 0 .. n - 1
<1> DEFINE H == Hits(input, n)
<1>1. H \subseteq 0 .. n - 1
  BY DEF Hits, Searched, At, Seen, Marks
<1>2. H # {}
  OBVIOUS
<1> HIDE DEF H
<1>3. \E x \in H : \A y \in H : y <= x
  BY <1>1, <1>2, GreatestExists
<1>4. Last(H) \in H
  BY <1>3 DEF Last
<1> QED
  BY <1>1, <1>4 DEF H

\* A batch of n behind the samples held back.
LEMMA InputPlaced ==
  ASSUME NEW n \in Nat, NEW fed \in SUBSET Seen(n), NEW held \in SUBSET Marks(Carry - 1)
  PROVE  held \cup Shift({m \in fed : m.at < n}, Carry) \subseteq Seen(n)
<1>1. \A m \in fed : m.at < n => [m EXCEPT !.at = @ + Carry] \in Seen(n)
  BY TimingAssumption DEF Seen, Marks
<1>2. held \subseteq Seen(n)
  BY TimingAssumption DEF Seen, Marks
<1> QED
  BY <1>1, <1>2 DEF Shift

\* The average of a share and an average is at most the greater of the two.
LEMMA AverageBetween ==
  ASSUME NEW f \in Nat, NEW share \in Nat, clip_fraction \in 0 .. f
  PROVE  Published(share) \in 0 .. f \/ Published(share) \in 0 .. share
BY DEF Published

\* No mark is outside the samples of the call.
LEMMA CallMarks ==
  ASSUME TypeOK, NEW n \in Batches, NEW c \in BOOLEAN,
         NEW arrived \in Arrivals(n, c)
  PROVE  /\ n \in Nat /\ n > Carry /\ n <= MaxBatch /\ MaxBatch \in Nat
         /\ Carry \in Nat /\ m_carryover \subseteq Marks(Carry - 1)
         /\ arrived \subseteq Seen(n) /\ ahead \subseteq Seen(n)
         /\ At(arrived, "STS_END") \subseteq 0 .. n - 1
         /\ Input(n, arrived) \subseteq Seen(n)
         /\ Tagged(Input(n, arrived), n) \subseteq Seen(n)
<1>1. n \in Nat /\ n > Carry /\ n <= MaxBatch /\ MaxBatch \in Nat /\ Carry \in Nat
  BY MaxBatchBounds, TimingAssumption
<1>2. arrived \subseteq Seen(n) /\ At(arrived, "STS_END") \subseteq 0 .. n - 1
  BY <1>1, ArrivalsPlaced
<1>3. ahead \subseteq Seen(n) /\ m_carryover \subseteq Marks(Carry - 1)
  BY <1>1 DEF TypeOK, Seen, Marks
<1>4. Input(n, arrived) \subseteq Seen(n)
  <2> DEFINE fed == ahead \cup arrived
  <2>1. fed \subseteq Seen(n)
    BY <1>2, <1>3
  <2> HIDE DEF fed
  <2>2. m_carryover \cup Shift({m \in fed : m.at < n}, Carry) \subseteq Seen(n)
    BY <1>1, <1>3, <2>1, InputPlaced
  <2> QED
    BY <2>2 DEF Input, fed
<1> QED
  BY <1>1, <1>2, <1>3, <1>4, TaggedMarks

LEMMA WorkKeeps ==
  ASSUME IInv, NEW n \in Batches, NEW c \in BOOLEAN,
         NEW arrived \in Arrivals(n, c), NEW share \in Fractions,
         Work(n, arrived, share)
  PROVE  IInv'
<1> DEFINE fed   == ahead \cup arrived
           input == Input(n, arrived)
           hits  == Hits(input, n)
           done  == Tagged(input, n)
           since == Since(hits, n)
           ends  == At(arrived, "STS_END")
<1>1. n \in Nat /\ n <= MaxBatch /\ MaxBatch \in Nat
  BY CallMarks DEF IInv
<1>2. ends \subseteq 0 .. n - 1
  BY CallMarks DEF IInv
<1>3. fed \subseteq Seen(n)
  BY CallMarks DEF IInv
<1>4. input \subseteq Seen(n)
  BY CallMarks DEF IInv
<1>5. done \subseteq Seen(n)
  BY CallMarks DEF IInv
<1>6. m_carryover' \subseteq Marks(Carry - 1) /\ ahead' \subseteq Marks(Carry - 1)
  <2>1. m_carryover' = Held(done, n) /\ ahead' = Held(fed, n)
    BY DEF Work, Held, Input
  <2> HIDE DEF done, fed
  <2> QED
    BY <1>1, <1>3, <1>5, <2>1, HeldPlaced
<1>7. output_buffer' \subseteq Marks(MaxBatch - 1)
  <2>1. output_buffer' = {m \in done : m.at < n}
    BY DEF Work, Input
  <2> HIDE DEF done
  <2> QED
    BY <1>1, <1>5, <2>1 DEF Seen, Marks
<1>8. gap' \in 0 .. Gap
  <2>1. gap' = Least(Gap, IF ends = {} THEN gap + n
                          ELSE n - CHOOSE i \in ends : TRUE)
    BY DEF Work
  <2>2. ends # {} => (CHOOSE i \in ends : TRUE) \in 0 .. n - 1
    BY <1>2
  <2> HIDE DEF ends
  <2> QED
    BY <1>1, <2>1, <2>2, TimingAssumption DEF Least, IInv, TypeOK
<1>9. /\ clip' \in Fractions
      /\ \E f \in Fractions : clip_fraction' \in 0 .. f
  <2>1. clip' = share /\ clip_fraction' = Published(share)
    BY DEF Work
  <2>2. PICK f \in Fractions : clip_fraction \in 0 .. f
    BY DEF IInv, TypeOK
  <2>3. f \in Nat /\ share \in Nat
    BY TimingAssumption
  <2> QED
    BY <2>1, <2>2, <2>3, AverageBetween
<1>10. /\ m_phase_offset' \in {"neutral", "clean", "garbage"}
       /\ m_samples_since_lts' \in 0 .. Reset
       /\ age' \in 0 .. AgeCap
       /\ Counted'
  <2>1. /\ m_samples_since_lts' = IF since > Reset THEN 0 ELSE since
        /\ age' = Least(AgeCap, IF hits = {} THEN age + n ELSE n - Last(hits))
        /\ \E published, next :
             m_phase_offset' = IF since > Reset THEN "neutral"
                               ELSE Learnt(input, hits, published, next)
    BY DEF Work, Input
  <2>2. AgeCap \in Nat
    BY <1>1, TimingAssumption DEF AgeCap
  <2>3. m_phase_offset' \in {"neutral", "clean", "garbage"}
    <3>1. \A published, next :
            Learnt(input, hits, published, next)
              \in {m_phase_offset, "clean", "garbage"}
      BY DEF Learnt
    <3> HIDE DEF hits, input, since
    <3> QED
      BY <2>1, <3>1 DEF IInv, TypeOK
  <2>4. CASE hits = {}
    <3>1. since = m_samples_since_lts + n
      BY <2>4 DEF Since
    <3>2. \A published, next :
            Learnt(input, hits, published, next) = m_phase_offset
      BY <2>4 DEF Learnt
    <3> HIDE DEF hits, input, since
    <3>3. age' \in 0 .. AgeCap /\ age' <= age + n
      BY <1>1, <2>1, <2>2, <2>4 DEF Least, IInv, TypeOK
    <3>4. m_phase_offset' # "neutral" =>
            ~(since > Reset) /\ m_phase_offset # "neutral"
      BY <2>1, <3>2
    <3> QED
      BY <1>1, <2>1, <2>3, <3>1, <3>3, <3>4, TimingAssumption
      DEF IInv, TypeOK, Counted, MaxBatch
  <2>5. CASE hits # {}
    <3>1. since = 0
      BY <2>5 DEF Since
    <3>2. Last(hits) \in 0 .. n - 1
      <4> HIDE DEF input
      <4> QED
        BY <1>1, <1>4, <2>5, LastHit
    <3> HIDE DEF hits, input, since
    <3>3. age' \in 0 .. AgeCap /\ age' <= n
      BY <1>1, <2>1, <2>2, <2>5, <3>2 DEF Least
    <3> QED
      BY <1>1, <2>1, <2>3, <3>1, <3>3, TimingAssumption DEF Counted, MaxBatch
  <2> QED
    BY <2>4, <2>5
<1> QED
  BY <1>6, <1>7, <1>8, <1>9, <1>10 DEF IInv, TypeOK, AgeCap, MaxBatch

LEMMA InitOK == Init => IInv
<1> SUFFICES ASSUME Init PROVE IInv
  OBVIOUS
<1>1. clip \in Fractions /\ clip \in Nat /\ clip_fraction = (3 * clip) \div 10
  BY TimingAssumption DEF Init
<1>2. clip_fraction \in 0 .. clip
  BY <1>1
<1> QED
  BY <1>1, <1>2, MaxBatchBounds, TimingAssumption
  DEF Init, IInv, TypeOK, Counted, AgeCap

LEMMA NextKeeps == IInv /\ [Next]_vars => IInv'
<1> SUFFICES ASSUME IInv, [Next]_vars PROVE IInv'
  OBVIOUS
<1>1. CASE Next
  <2>1. (clip >= Heavy) \in BOOLEAN
    BY TimingAssumption DEF IInv, TypeOK
  <2>2. PICK n \in Batches :
          \E arrived \in Arrivals(n, clip >= Heavy), share \in Fractions :
            Work(n, arrived, share)
    BY <1>1 DEF Next
  <2> QED
    BY <2>1, <2>2, WorkKeeps
<1>2. CASE UNCHANGED vars
  BY <1>2 DEF vars, IInv, TypeOK, Counted, MaxBatch, AgeCap
<1> QED
  BY <1>1, <1>2

(***************************************************************************)
(* Clipping.  A share of Heavy or more leaves the average at Fresh when    *)
(* its batch is fed, and at Faded(Fresh) while an STS_END of it is held    *)
(* back for the next call.                                                 *)
(***************************************************************************)
Faded(level) == (7 * level) \div 10
Fresh == (3 * Heavy) \div 10

ClipInv ==
    /\ clip >= Heavy => clip_fraction >= Fresh
    /\ (\E m \in m_carryover : m.what = "STS_END" /\ m.clipped)
         => clip_fraction >= Faded(Fresh)
    /\ At(ahead, "STS_END") = {}
    /\ m_phase_offset # "garbage"

LEMMA Averages ==
  ASSUME NEW share \in Nat, clip_fraction \in Nat
  PROVE  /\ Fresh \in Nat /\ Faded(Fresh) \in Nat
         /\ Faded(Faded(Fresh)) > Limit /\ Faded(Fresh) > Limit
         /\ Fresh > Limit
         /\ Published(share) \in Nat
         /\ share >= Heavy => Published(share) >= Fresh
         /\ clip_fraction >= Fresh => Published(share) >= Faded(Fresh)
         /\ clip_fraction >= Faded(Fresh)
              => Published(share) >= Faded(Faded(Fresh))
<1>1. Heavy \in Nat /\ Limit \in Nat
  BY TimingAssumption
<1>2. (7 * ((7 * ((3 * Heavy) \div 10)) \div 10)) \div 10 > Limit
  BY TimingAssumption
<1> QED
  BY <1>1, <1>2 DEF Fresh, Faded, Published

LEMMA ArrivalClips ==
  ASSUME NEW n \in Nat, NEW c \in BOOLEAN, NEW marks \in Arrivals(n, c),
         NEW m \in marks, m.clipped
  PROVE  c
<1>1. CASE \E i \in Starts(n) : marks = {Mark(i, "STS_END", FALSE)}
  BY <1>1 DEF Mark
<1>2. ASSUME NEW i \in Starts(n), NEW lag \in Lags,
             marks = FrameMarks(i, lag, n, c)
      PROVE  c
  <2> DEFINE p == i + Cp - lag
  <2>1. marks \subseteq
          {Mark(i, "STS_END", c), Mark(p, "peak", FALSE),
           Mark(p + Lts, "peak", FALSE), Mark(p - Back, "due1", FALSE),
           Mark(p - Back + Lts, "due2", FALSE)}
    BY <1>2 DEF FrameMarks
  <2> HIDE DEF p
  <2> QED
    BY <2>1 DEF Mark
<1> QED
  BY <1>1, <1>2, ArrivalShapes

LEMMA ClipKept ==
  ASSUME IInv, ClipInv, NEW n \in Batches,
         NEW arrived \in Arrivals(n, clip >= Heavy), NEW share \in Fractions,
         Work(n, arrived, share)
  PROVE  ClipInv'
<1> DEFINE fed   == ahead \cup arrived
           input == Input(n, arrived)
           hits  == Hits(input, n)
           done  == Tagged(input, n)
           next  == Published(share)
<1>1. (clip >= Heavy) \in BOOLEAN /\ clip_fraction \in Nat /\ share \in Nat
  BY TimingAssumption DEF IInv, TypeOK
<1>2. /\ n \in Nat /\ n > Carry /\ Carry \in Nat
      /\ m_carryover \subseteq Marks(Carry - 1)
      /\ arrived \subseteq Seen(n) /\ ahead \subseteq Seen(n)
      /\ At(arrived, "STS_END") \subseteq 0 .. n - 1
      /\ input \subseteq Seen(n) /\ done \subseteq Seen(n)
  BY <1>1, CallMarks DEF IInv
<1>3. /\ m_carryover' = Held(done, n) /\ ahead' = Held(fed, n)
      /\ clip' = share /\ clip_fraction' = next
  BY DEF Work, Held, Input
<1>4. At(ahead', "STS_END") = {}
  <2> SUFFICES ASSUME NEW m \in fed, m.at >= n,
                      [m EXCEPT !.at = @ + (-n)].what = "STS_END"
               PROVE  FALSE
    BY <1>3 DEF At, Held, Shift
  <2>1. m \in Seen(n)
    BY <1>2
  <2>2. m.what = "STS_END" /\ m.at \in Int
    BY <2>1 DEF Seen, Marks
  <2>3. m \in arrived
    BY <2>2 DEF ClipInv, At
  <2> QED
    BY <1>2, <2>2, <2>3 DEF At
\* a clipped STS_END that the call looks at shows in both averages
<1>5. ASSUME NEW m \in input, m.what = "STS_END", m.clipped
      PROVE  m \in m_carryover \/ clip >= Heavy
  <2> SUFFICES ASSUME m \notin m_carryover PROVE clip >= Heavy
    OBVIOUS
  <2>1. PICK k \in fed : k.at < n /\ m = [k EXCEPT !.at = @ + Carry]
    BY DEF Input, Shift
  <2>2. k \in Seen(n)
    BY <1>2
  <2>3. k.what = "STS_END" /\ k.clipped
    BY <1>5, <2>1, <2>2 DEF Marks, Seen
  <2>4. k \in arrived
    BY <2>3 DEF ClipInv, At
  <2> QED
    BY <1>1, <1>2, <2>3, <2>4, ArrivalClips
<1>6. ASSUME NEW m \in input, m.what = "STS_END", m.clipped
      PROVE  clip_fraction > Limit /\ next > Limit
  <2>1. clip_fraction >= Fresh \/ clip_fraction >= Faded(Fresh)
    BY <1>5, <1>6 DEF ClipInv
  <2> QED
    BY <1>1, <2>1, Averages, TimingAssumption DEF Faded, Fresh
\* one that it holds back was in the batch
<1>7. ASSUME NEW k \in m_carryover', k.what = "STS_END", k.clipped
      PROVE  next >= Faded(Fresh)
  <2>1. PICK m \in done : m.at >= n /\ k = [m EXCEPT !.at = @ + (-n)]
    BY <1>3 DEF Held, Shift
  <2>2. m \in Seen(n)
    BY <1>2
  <2>3. m.what = "STS_END" /\ m.clipped /\ m.at \in Int
    BY <1>7, <2>1, <2>2 DEF Seen, Marks
  <2>4. \A x : \A p \in Found(input, x) : \A t \in TagsFor(p) :
          t.clipped = FALSE
    BY DEF TagsFor, Mark
  <2>5. m \in input
    BY <2>3, <2>4 DEF Tagged
  <2>6. m \notin m_carryover
    BY <1>2, <2>1, <2>3 DEF Marks
  <2>7. clip >= Heavy
    BY <1>5, <2>3, <2>5, <2>6
  <2> QED
    BY <1>1, <2>7, Averages DEF ClipInv
<1>8. clip' >= Heavy => next >= Fresh
  BY <1>1, <1>3, Averages
<1>9. m_phase_offset' # "garbage"
  <2>1. PICK published :
          m_phase_offset' = IF Since(hits, n) > Reset THEN "neutral"
                            ELSE Learnt(input, hits, published, next)
    BY DEF Work, Input
  <2> DEFINE xs == {x \in hits : (IF x < published THEN clip_fraction
                                  ELSE next) <= Limit}
  <2>2. xs # {} => Last(xs) \in xs
    <3>1. hits \subseteq 0 .. n - 1
      <4> HIDE DEF input
      <4> QED
        BY <1>2 DEF Hits, Searched, At, Seen, Marks
    <3> HIDE DEF hits, next
    <3>2. xs \subseteq hits
      OBVIOUS
    <3> HIDE DEF xs
    <3>3. xs \in SUBSET Int /\ n \in Int
      BY <1>2, <3>1, <3>2
    <3>4. \A x \in xs : x < n
      BY <1>2, <3>1, <3>2
    <3>5. xs # {} => \E x \in xs : \A y \in xs : y <= x
      BY <3>3, <3>4, GreatestExists
    <3> QED
      BY <3>5 DEF Last
  <2>3. xs # {} => ~Clipped(input, Last(xs))
    <3> SUFFICES ASSUME xs # {}, NEW m \in input, m.what = "STS_END", m.clipped
                 PROVE  FALSE
      BY DEF Clipped
    <3>1. clip_fraction > Limit /\ next > Limit
      BY <1>6
    <3>2. next \in Nat
      BY <1>1, Averages
    <3> HIDE DEF next, hits, input
    <3> QED
      BY <1>1, <2>2, <3>1, <3>2, TimingAssumption
  <2>4. Learnt(input, hits, published, next) # "garbage"
    <3> HIDE DEF hits, input, next
    <3> QED
      BY <2>3 DEF Learnt, ClipInv
  <2> QED
    BY <2>1, <2>4
<1> QED
  BY <1>3, <1>4, <1>7, <1>8, <1>9 DEF ClipInv

(***************************************************************************)
(* Tags.  View is all that is known of the stream before a call, counted   *)
(* from the start of the carry-over, and Firsts what the search finds      *)
(* behind the STS_ENDs of the first n samples.  Settled: to search the     *)
(* carry-over now would put the tags where they are due.  Clear: the peaks *)
(* of a preamble end before another can begin.                             *)
(***************************************************************************)
View == m_carryover \cup Shift(ahead, Carry)
Moved(S, k) == {z + k : z \in S}
Below(S, n) == {z \in S : z < n}
From(S, n) == {z \in S : z >= n}
FoundIn(marks, S) == UNION {Found(marks, x) : x \in S}
Firsts(marks, n) == FoundIn(marks, Searched(marks, n))

Settled ==
    /\ At(View, "due1") =
         At(View, "LTS1") \cup Moved(Firsts(View, Carry), -Back)
    /\ At(View, "due2") =
         At(View, "LTS2") \cup Moved(Firsts(View, Carry), Lts - Back)

Clear ==
    /\ At(ahead, "STS_END") \cup At(ahead, "LTS1") \cup At(ahead, "LTS2") = {}
    /\ \A x \in At(m_carryover, "STS_END") : x = Carry - gap
    /\ \A q \in At(View, "peak") : q < 2 * Carry - gap

TagInv == Settled /\ Clear /\ TagsFollowStream

LEMMA MovedTwice ==
  ASSUME NEW S \in SUBSET Int, NEW j \in Int, NEW k \in Int
  PROVE  Moved(Moved(S, j), k) = Moved(S, j + k)
<1>1. \A z \in S : (z + j) + k = z + (j + k)
  OBVIOUS
<1> QED
  BY <1>1 DEF Moved

LEMMA MovedUnion ==
  ASSUME NEW S, NEW T, NEW k
  PROVE  Moved(S \cup T, k) = Moved(S, k) \cup Moved(T, k)
BY DEF Moved

LEMMA PartsInt ==
  ASSUME NEW S \in SUBSET Int, NEW n, NEW k \in Int
  PROVE  /\ From(S, n) \in SUBSET Int /\ Below(S, n) \in SUBSET Int
         /\ Moved(S, k) \in SUBSET Int
<1>1. From(S, n) \subseteq Int
  BY DEF From
<1>2. Below(S, n) \subseteq Int
  BY DEF Below
<1>3. Moved(S, k) \subseteq Int
  BY DEF Moved
<1> QED
  BY <1>1, <1>2, <1>3

LEMMA FromHigh ==
  ASSUME NEW n \in Int, NEW A \in SUBSET Int, \A a \in A : a < n, NEW B
  PROVE  From(A \cup B, n) = From(B, n)
<1>1. \A a \in A : ~(a >= n)
  OBVIOUS
<1> QED
  BY <1>1 DEF From

LEMMA BelowLow ==
  ASSUME NEW n \in Int, NEW A \in SUBSET Int, \A a \in A : a < n, NEW B
  PROVE  Below(A \cup B, n) = A \cup Below(B, n)
BY DEF Below

LEMMA BelowTwice ==
  ASSUME NEW n \in Int, NEW m \in Int, n <= m, NEW B \in SUBSET Int
  PROVE  Below(Below(B, m), n) = Below(B, n)
<1>1. \A z \in B : z < n => z < m
  OBVIOUS
<1> QED
  BY <1>1 DEF Below

\* To hold back what the call has seen and to wait for the rest loses nothing.
LEMMA SplitFrom ==
  ASSUME NEW n \in Nat, NEW k \in Nat, NEW V \in SUBSET Int,
         NEW A \in SUBSET Int, \A v \in V : v < n + k
  PROVE  From(Below(V \cup Moved(A, k), n + k), n) \cup Moved(From(A, n), k)
           = From(V \cup Moved(A, k), n)
<1> DEFINE M == Moved(A, k)
<1>1. \A a \in A : a + k \in M /\ (a >= n => a + k >= n)
                   /\ (a + k < n + k \/ a >= n)
  BY DEF Moved
<1>2. Moved(From(A, n), k) = From(M, n + k)
  BY DEF Moved, From
<1>3. M \subseteq Int
  BY DEF Moved
<1> HIDE DEF M
<1>4. From(Below(V \cup M, n + k), n) \cup From(M, n + k) = From(V \cup M, n)
  <2>1. \A z \in M : z < n + k \/ z >= n + k
    BY <1>3
  <2>2. \A z \in M : z >= n + k => z >= n
    BY <1>3
  <2> QED
    BY <2>1, <2>2 DEF From, Below
<1> QED
  BY <1>2, <1>4 DEF M

LEMMA AtUnion ==
  ASSUME NEW A, NEW B, NEW w
  PROVE  At(A \cup B, w) = At(A, w) \cup At(B, w)
BY DEF At

LEMMA AtShift ==
  ASSUME NEW last \in Int, NEW A \in SUBSET Marks(last), NEW k \in Int, NEW w
  PROVE  At(Shift(A, k), w) = Moved(At(A, w), k)
<1>1. ASSUME NEW m \in A
      PROVE  /\ [m EXCEPT !.at = @ + k].what = m.what
             /\ [m EXCEPT !.at = @ + k].at = m.at + k
  <2>1. m \in Marks(last)
    OBVIOUS
  <2> QED
    BY <2>1 DEF Marks
<1>2. ASSUME NEW z \in At(Shift(A, k), w)
      PROVE  z \in Moved(At(A, w), k)
  <2>1. PICK m \in A : [m EXCEPT !.at = @ + k].what = w
                       /\ z = [m EXCEPT !.at = @ + k].at
    BY DEF At, Shift
  <2>2. m.what = w /\ z = m.at + k
    BY <1>1, <2>1
  <2> QED
    BY <2>2 DEF At, Moved
<1>3. ASSUME NEW z \in Moved(At(A, w), k)
      PROVE  z \in At(Shift(A, k), w)
  <2>1. PICK m \in A : m.what = w /\ z = m.at + k
    BY DEF At, Moved
  <2>2. [m EXCEPT !.at = @ + k] \in Shift(A, k)
    BY DEF Shift
  <2> QED
    BY <1>1, <2>1, <2>2 DEF At
<1> QED
  BY <1>2, <1>3

LEMMA AtBelow ==
  ASSUME NEW A, NEW n, NEW w
  PROVE  At({m \in A : m.at < n}, w) = Below(At(A, w), n)
BY DEF At, Below

LEMMA AtFrom ==
  ASSUME NEW A, NEW n, NEW w
  PROVE  At({m \in A : m.at >= n}, w) = From(At(A, w), n)
BY DEF At, From

LEMMA AtInt ==
  ASSUME NEW last \in Int, NEW A \in SUBSET Marks(last), NEW w
  PROVE  At(A, w) \subseteq 0 .. last
BY DEF At, Marks

LEMMA FirstsInt ==
  ASSUME NEW last \in Int, NEW marks \in SUBSET Marks(last), NEW n
  PROVE  Firsts(marks, n) \subseteq Int
<1>1. At(marks, "peak") \subseteq Int
  BY DEF At, Marks
<1> QED
  BY <1>1 DEF Firsts, FoundIn, Found, Pairs

\* The search adds a pair of tags for every first symbol it finds.
LEMMA TaggedAt ==
  ASSUME NEW last \in Int, NEW marks \in SUBSET Marks(last), NEW n,
         NEW done, done = Tagged(marks, n),
         NEW F, F = Firsts(marks, n)
  PROVE  /\ At(done, "LTS1") = At(marks, "LTS1") \cup Moved(F, -Back)
         /\ At(done, "LTS2") = At(marks, "LTS2") \cup Moved(F, Lts - Back)
         /\ \A w \in {"STS_END", "peak", "due1", "due2"} :
              At(done, w) = At(marks, w)
<1> DEFINE new == UNION {TagsFor(p) : p \in F}
<1>1. done = marks \cup new
  BY DEF Tagged, Firsts, FoundIn
<1>2. F \subseteq Int
  BY FirstsInt
<1>3. \A p \in F : TagsFor(p) =
        {[at |-> p - Back, what |-> "LTS1", clipped |-> FALSE],
         [at |-> p + (Lts - Back), what |-> "LTS2", clipped |-> FALSE]}
  BY <1>2, TimingAssumption DEF TagsFor, Mark
<1>4. At(new, "LTS1") = Moved(F, -Back)
  <2>1. ASSUME NEW z \in At(new, "LTS1") PROVE z \in Moved(F, -Back)
    BY <1>2, <1>3, TimingAssumption DEF At, Moved
  <2>2. ASSUME NEW p \in F PROVE p + (-Back) \in At(new, "LTS1")
    <3>1. [at |-> p - Back, what |-> "LTS1", clipped |-> FALSE] \in new
      BY <1>3
    <3> HIDE DEF new
    <3> QED
      BY <1>2, <3>1, TimingAssumption DEF At
  <2> QED
    BY <2>1, <2>2 DEF Moved
<1>5. At(new, "LTS2") = Moved(F, Lts - Back)
  <2>1. ASSUME NEW z \in At(new, "LTS2") PROVE z \in Moved(F, Lts - Back)
    BY <1>2, <1>3, TimingAssumption DEF At, Moved
  <2>2. ASSUME NEW p \in F PROVE p + (Lts - Back) \in At(new, "LTS2")
    <3>1. [at |-> p + (Lts - Back), what |-> "LTS2", clipped |-> FALSE] \in new
      BY <1>3
    <3> HIDE DEF new
    <3> QED
      BY <1>2, <3>1, TimingAssumption DEF At
  <2> QED
    BY <2>1, <2>2 DEF Moved
<1>6. \A w \in {"STS_END", "peak", "due1", "due2"} : At(new, w) = {}
  BY <1>3 DEF At
<1> HIDE DEF new
<1>7. \A w : At(done, w) = At(marks, w) \cup At(new, w)
  BY <1>1, AtUnion
<1> QED
  BY <1>4, <1>5, <1>6, <1>7

LEMMA AtMark ==
  ASSUME NEW at, NEW what, NEW clipped, NEW w
  PROVE  At({Mark(at, what, clipped)}, w) = IF w = what THEN {at} ELSE {}
<1> DEFINE m == Mark(at, what, clipped)
<1>1. m.at = at /\ m.what = what
  BY DEF Mark
<1> HIDE DEF m
<1>2. CASE w = what
  <2>1. {k \in {m} : k.what = w} = {m}
    BY <1>1, <1>2
  <2> QED
    BY <1>1, <1>2, <2>1 DEF At, m
<1>3. CASE w # what
  <2>1. {k \in {m} : k.what = w} = {}
    BY <1>1, <1>3
  <2> QED
    BY <1>3, <2>1 DEF At, m
<1> QED
  BY <1>2, <1>3

\* The frame at i: its STS_END, its peaks, and where its tags are due.
LEMMA FrameAt ==
  ASSUME NEW i \in Int, NEW lag \in Lags, NEW n \in Int, NEW c,
         NEW marks, marks = FrameMarks(i, lag, n, c),
         NEW p, p = i + Cp - lag,
         NEW P, P = IF Missed(i, lag, n) THEN {} ELSE {p}
  PROVE  /\ At(marks, "STS_END") = {i}
         /\ At(marks, "peak") = {p, p + Lts}
         /\ At(marks, "LTS1") = {} /\ At(marks, "LTS2") = {}
         /\ At(marks, "due1") = Moved(P, -Back)
         /\ At(marks, "due2") = Moved(P, Lts - Back)
<1>1. p \in Int /\ p - Back = p + (-Back) /\ p - Back + Lts = p + (Lts - Back)
  BY TimingAssumption
<1> DEFINE seen == {Mark(i, "STS_END", c), Mark(p, "peak", FALSE),
                    Mark(p + Lts, "peak", FALSE)}
           due == IF Missed(i, lag, n) THEN {}
                  ELSE {Mark(p + (-Back), "due1", FALSE),
                        Mark(p + (Lts - Back), "due2", FALSE)}
<1>2. marks = seen \cup due
  BY <1>1 DEF FrameMarks
<1>3. /\ At(seen, "STS_END") = {i} /\ At(seen, "peak") = {p, p + Lts}
      /\ \A w \in {"LTS1", "LTS2", "due1", "due2"} : At(seen, w) = {}
  <2> DEFINE end == {Mark(i, "STS_END", c)}
             one == {Mark(p, "peak", FALSE)}
             two == {Mark(p + Lts, "peak", FALSE)}
  <2>1. \A w : /\ At(end, w) = IF w = "STS_END" THEN {i} ELSE {}
               /\ At(one, w) = IF w = "peak" THEN {p} ELSE {}
               /\ At(two, w) = IF w = "peak" THEN {p + Lts} ELSE {}
    BY AtMark
  <2>2. seen = end \cup (one \cup two)
    OBVIOUS
  <2> HIDE DEF end, one, two, seen
  <2>3. \A w : At(seen, w) = At(end, w) \cup (At(one, w) \cup At(two, w))
    <3> TAKE w
    <3>1. At(one \cup two, w) = At(one, w) \cup At(two, w)
      BY AtUnion
    <3>2. At(end \cup (one \cup two), w) = At(end, w) \cup At(one \cup two, w)
      BY AtUnion
    <3> QED
      BY <2>2, <3>1, <3>2
  <2> QED
    BY <2>1, <2>3
<1>4. \A w \in {"STS_END", "peak", "LTS1", "LTS2"} : At(due, w) = {}
  BY DEF At, Mark
<1>5. At(due, "due1") = Moved(P, -Back) /\ At(due, "due2") = Moved(P, Lts - Back)
  <2>1. CASE Missed(i, lag, n)
    BY <2>1 DEF At, Mark, Moved
  <2>2. CASE ~Missed(i, lag, n)
    <3> DEFINE one == {Mark(p + (-Back), "due1", FALSE)}
               two == {Mark(p + (Lts - Back), "due2", FALSE)}
    <3>1. due = one \cup two
      BY <2>2
    <3>2. /\ At(one, "due1") = {p + (-Back)} /\ At(one, "due2") = {}
          /\ At(two, "due2") = {p + (Lts - Back)} /\ At(two, "due1") = {}
      BY AtMark
    <3> HIDE DEF due, one, two
    <3>3. /\ At(due, "due1") = {p + (-Back)}
          /\ At(due, "due2") = {p + (Lts - Back)}
      <4>1. \A w : At(one \cup two, w) = At(one, w) \cup At(two, w)
        BY AtUnion
      <4> QED
        BY <3>1, <3>2, <4>1
    <3> QED
      BY <2>2, <3>3 DEF Moved
  <2> QED
    BY <2>1, <2>2
<1> HIDE DEF seen, due
<1>6. \A w : At(marks, w) = At(seen, w) \cup At(due, w)
  BY <1>2, AtUnion
<1>7. /\ At(marks, "STS_END") = {i} /\ At(marks, "peak") = {p, p + Lts}
      /\ At(marks, "LTS1") = {} /\ At(marks, "LTS2") = {}
  BY <1>3, <1>4, <1>6
<1>8. At(marks, "due1") = Moved(P, -Back) /\ At(marks, "due2") = Moved(P, Lts - Back)
  <2>1. At(seen, "due1") = {} /\ At(seen, "due2") = {}
    BY <1>3
  <2>2. /\ At(marks, "due1") = At(seen, "due1") \cup At(due, "due1")
        /\ At(marks, "due2") = At(seen, "due2") \cup At(due, "due2")
    BY <1>6
  <2> QED
    BY <1>5, <2>1, <2>2
<1> QED
  BY <1>7, <1>8

\* The peaks of a frame are those of its first symbol, and of no other: what
\* the search behind x finds among peaks that include no others in its window.
LEMMA FrameFound ==
  ASSUME NEW marks, NEW x \in Int, NEW lag \in Lags,
         NEW p, p = x + Cp - lag,
         At(marks, "peak") \cap Window(x) = {p, p + Lts}
  PROVE  Found(marks, x) = IF x >= lag THEN {p} ELSE {}
<1>1. Lts \in Nat /\ Cp \in Nat /\ lag \in Int /\ p \in Int
  BY TimingAssumption
<1>2. Pairs(marks, x) = {p}
  <2>1. Pairs(marks, x) = {q \in {p, p + Lts} : q + Lts \in {p, p + Lts}}
    BY DEF Pairs
  <2>2. p + Lts + Lts \in {p, p + Lts} => p + Lts = p
    BY <1>1
  <2> QED
    BY <2>1, <2>2
<1> QED
  BY <1>1, <1>2 DEF Found, LtsOffset

LEMMA NothingFound ==
  ASSUME NEW marks, NEW x, At(marks, "peak") \cap Window(x) = {}
  PROVE  Found(marks, x) = {}
BY DEF Found, Pairs

LEMMA SameFound ==
  ASSUME NEW marks, NEW others, NEW x,
         At(marks, "peak") \cap Window(x) = At(others, "peak") \cap Window(x)
  PROVE  Found(marks, x) = Found(others, x)
BY DEF Found, Pairs

\* The stream a call sees, and what of it is left for the next call.
All(arrived, w) == At(View, w) \cup Moved(At(arrived, w), Carry)

LEMMA ViewAt ==
  ASSUME TypeOK, NEW w
  PROVE  /\ At(View, w) = At(m_carryover, w) \cup Moved(At(ahead, w), Carry)
         /\ At(View, w) \subseteq 0 .. 2 * Carry - 1
         /\ View \subseteq Marks(2 * Carry - 1)
<1>1. Carry \in Nat
  BY TimingAssumption
<1>2. m_carryover \subseteq Marks(Carry - 1) /\ ahead \subseteq Marks(Carry - 1)
  BY DEF TypeOK
<1>3. At(Shift(ahead, Carry), w) = Moved(At(ahead, w), Carry)
  BY <1>1, <1>2, AtShift
<1>4. View \subseteq Marks(2 * Carry - 1)
  <2>1. \A m \in ahead : [m EXCEPT !.at = @ + Carry] \in Marks(2 * Carry - 1)
    BY <1>1, <1>2 DEF Marks
  <2>2. m_carryover \subseteq Marks(2 * Carry - 1)
    BY <1>1, <1>2 DEF Marks
  <2> QED
    BY <2>1, <2>2 DEF View, Shift
<1>5. At(View, w) \subseteq 0 .. 2 * Carry - 1
  BY <1>1, <1>4, AtInt
<1> QED
  BY <1>3, <1>4, <1>5, AtUnion DEF View

LEMMA InputAt ==
  ASSUME TypeOK, NEW n \in Batches, NEW c \in BOOLEAN,
         NEW arrived \in Arrivals(n, c), NEW w
  PROVE  At(Input(n, arrived), w) = Below(All(arrived, w), n + Carry)
<1> DEFINE fed == ahead \cup arrived
           now == {m \in fed : m.at < n}
<1>1. /\ n \in Nat /\ n > Carry /\ Carry \in Nat
      /\ fed \subseteq Seen(n)
      /\ arrived \subseteq Marks(n + Carry - 1)
  BY CallMarks DEF Seen
<1>2. At(now, w) = Below(At(ahead, w) \cup At(arrived, w), n)
  <2>1. At(fed, w) = At(ahead, w) \cup At(arrived, w)
    BY AtUnion
  <2> HIDE DEF fed
  <2>2. At(now, w) = Below(At(fed, w), n)
    BY AtBelow
  <2> QED
    BY <2>1, <2>2
<1>3. now \subseteq Marks(n + Carry - 1) /\ n + Carry - 1 \in Int
  BY <1>1 DEF Seen
<1> HIDE DEF now
<1>4. At(Shift(now, Carry), w) = Moved(At(now, w), Carry)
  BY <1>1, <1>3, AtShift
<1>5. At(Input(n, arrived), w) = At(m_carryover, w) \cup At(Shift(now, Carry), w)
  BY AtUnion DEF Input, now
<1>6. /\ At(m_carryover, w) \subseteq 0 .. Carry - 1
      /\ At(ahead, w) \subseteq 0 .. Carry - 1
      /\ At(arrived, w) \subseteq 0 .. n + Carry - 1
  BY <1>1, AtInt DEF TypeOK
<1>7. At(View, w) = At(m_carryover, w) \cup Moved(At(ahead, w), Carry)
  BY ViewAt
<1> QED
  BY <1>1, <1>2, <1>4, <1>5, <1>6, <1>7 DEF All, Moved, Below

LEMMA ViewAfter ==
  ASSUME TypeOK, NEW n \in Batches, NEW c \in BOOLEAN,
         NEW arrived \in Arrivals(n, c), NEW share, Work(n, arrived, share),
         NEW done, done = Tagged(Input(n, arrived), n), NEW w
  PROVE  /\ At(View', w) = Moved(From(At(done, w), n), -n)
                               \cup Moved(From(At(arrived, w), n), Carry - n)
         /\ At(m_carryover', w) = Moved(From(At(done, w), n), -n)
         /\ At(ahead', w) = Moved(From(At(arrived, w), n), -n)
<1> DEFINE fed == ahead \cup arrived
           kept == {m \in done : m.at >= n}
           rest == {m \in fed : m.at >= n}
<1>1. /\ n \in Nat /\ n > Carry /\ Carry \in Nat /\ n + Carry - 1 \in Int
      /\ fed \subseteq Marks(n + Carry - 1)
      /\ arrived \subseteq Marks(n + Carry - 1)
      /\ done \subseteq Marks(n + Carry - 1)
  BY CallMarks DEF Seen
<1>2. m_carryover' = Shift(kept, -n) /\ ahead' = Shift(rest, -n)
  BY DEF Work, Held, Input
<1>3. At(kept, w) = From(At(done, w), n)
  BY AtFrom
<1>4. At(rest, w) = From(At(arrived, w), n)
  <2>1. At(rest, w) = From(At(ahead, w) \cup At(arrived, w), n)
    <3>1. At(fed, w) = At(ahead, w) \cup At(arrived, w)
      BY AtUnion
    <3> HIDE DEF fed
    <3>2. At(rest, w) = From(At(fed, w), n)
      BY AtFrom
    <3> QED
      BY <3>1, <3>2
  <2>2. At(ahead, w) \subseteq 0 .. Carry - 1
    BY <1>1, AtInt DEF TypeOK
  <2> QED
    BY <1>1, <2>1, <2>2 DEF From
<1>5. kept \subseteq Marks(n + Carry - 1) /\ rest \subseteq Marks(n + Carry - 1)
  BY <1>1
<1>6. rest \subseteq Marks(n + Carry - 1) /\ ahead' \subseteq Marks(Carry - 1)
  <2>1. fed \subseteq Seen(n)
    BY <1>1 DEF Seen
  <2> HIDE DEF fed
  <2> QED
    BY <1>1, <1>2, <1>5, <2>1, HeldPlaced DEF Held
<1> HIDE DEF kept, rest
<1>7. At(m_carryover', w) = Moved(At(kept, w), -n)
  BY <1>1, <1>2, <1>5, AtShift
<1>8. At(ahead', w) = Moved(At(rest, w), -n)
  BY <1>1, <1>2, <1>5, AtShift
<1>9. At(Shift(ahead', Carry), w) = Moved(At(ahead', w), Carry)
  BY <1>1, <1>6, AtShift
<1>10. At(View', w) = At(m_carryover', w) \cup At(Shift(ahead', Carry), w)
  BY AtUnion DEF View
<1>11. At(arrived, w) \subseteq Int
  BY <1>1 DEF At, Marks
<1>12. Moved(Moved(From(At(arrived, w), n), -n), Carry)
         = Moved(From(At(arrived, w), n), Carry - n)
  <2>1. From(At(arrived, w), n) \in SUBSET Int
    BY <1>11 DEF From
  <2>2. -n \in Int /\ -n + Carry = Carry - n
    BY <1>1
  <2> QED
    BY <1>1, <2>1, <2>2, MovedTwice
<1> QED
  BY <1>3, <1>4, <1>7, <1>8, <1>9, <1>10, <1>12

\* What an arrival puts on the stream: an STS_END at i that is clear of the
\* last, with or without peaks, and the first symbols that are to be found.
Brings(marks, ends, K, P) ==
    /\ At(marks, "STS_END") = ends /\ At(marks, "peak") = K
    /\ At(marks, "LTS1") = {} /\ At(marks, "LTS2") = {}
    /\ At(marks, "due1") = Moved(P, -Back)
    /\ At(marks, "due2") = Moved(P, Lts - Back)

BringsFrame(n, marks, i, lag) ==
    LET p == i + Cp - lag IN
    Brings(marks, {i}, {p, p + Lts}, IF Missed(i, lag, n) THEN {} ELSE {p})

LEMMA ArrivalAt ==
  ASSUME NEW n \in Nat, NEW c \in BOOLEAN, NEW marks \in Arrivals(n, c)
  PROVE  \/ Brings(marks, {}, {}, {})
         \/ \E i \in Starts(n) : Brings(marks, {i}, {}, {})
         \/ \E i \in Starts(n), lag \in Lags : BringsFrame(n, marks, i, lag)
<1> USE DEF Brings
<1>1. CASE marks = {}
  <2>1. \A w : At(marks, w) = {}
    BY <1>1 DEF At
  <2>2. \A k : Moved({}, k) = {}
    BY DEF Moved
  <2> QED
    BY <2>1, <2>2
<1>2. ASSUME NEW i \in Starts(n), marks = {Mark(i, "STS_END", FALSE)}
      PROVE  Brings(marks, {i}, {}, {})
  <2>1. \A k : Moved({}, k) = {}
    BY DEF Moved
  <2> QED
    BY <1>2, <2>1, AtMark
<1>3. ASSUME NEW i \in Starts(n), NEW lag \in Lags,
             marks = FrameMarks(i, lag, n, c)
      PROVE  BringsFrame(n, marks, i, lag)
  <2>1. i \in Int /\ n \in Int
    BY DEF Starts
  <2> QED
    BY <1>3, <2>1, FrameAt DEF BringsFrame
<1> HIDE DEF Brings
<1>4. CASE \E i \in Starts(n) : marks = {Mark(i, "STS_END", FALSE)}
  BY <1>2, <1>4
<1>5. CASE \E i \in Starts(n), lag \in Lags : marks = FrameMarks(i, lag, n, c)
  <2>1. PICK i \in Starts(n), lag \in Lags : marks = FrameMarks(i, lag, n, c)
    BY <1>5
  <2> QED
    BY <1>3, <2>1
<1> QED
  BY <1>1, <1>4, <1>5, ArrivalShapes

\* What the marks that are not tags are at, for this call and the next.
LEMMA CallAt ==
  ASSUME TypeOK, NEW n \in Batches, NEW c \in BOOLEAN,
         NEW arrived \in Arrivals(n, c), NEW share, Work(n, arrived, share),
         NEW w \in {"STS_END", "peak", "due1", "due2"}
  PROVE  At(View', w) = Moved(From(All(arrived, w), n), -n)
<1> DEFINE done == Tagged(Input(n, arrived), n)
           V == At(View, w)
           A == At(arrived, w)
<1>1. /\ n \in Nat /\ n > Carry /\ Carry \in Nat
      /\ Input(n, arrived) \subseteq Seen(n)
      /\ A \subseteq 0 .. n + Carry - 1
      /\ V \subseteq 0 .. 2 * Carry - 1
  <2>1. n \in Nat /\ Carry \in Nat /\ arrived \subseteq Marks(n + Carry - 1)
    BY CallMarks DEF Seen
  <2> QED
    BY <2>1, CallMarks, ViewAt, AtInt
<1>2. At(done, w) = At(Input(n, arrived), w)
  <2>1. Input(n, arrived) \subseteq Marks(n + Carry - 1) /\ n + Carry - 1 \in Int
    BY <1>1 DEF Seen
  <2> QED
    BY <2>1, TaggedAt
<1>3. At(Input(n, arrived), w) = Below(V \cup Moved(A, Carry), n + Carry)
  BY InputAt DEF All
<1>4. At(View', w) = Moved(From(At(done, w), n), -n)
                       \cup Moved(From(A, n), Carry - n)
  BY ViewAfter
<1> HIDE DEF done, V, A
<1>5. From(Below(V \cup Moved(A, Carry), n + Carry), n) \cup Moved(From(A, n), Carry)
        = From(V \cup Moved(A, Carry), n)
  <2>1. V \in SUBSET Int /\ A \in SUBSET Int /\ \A v \in V : v < n + Carry
    BY <1>1
  <2> QED
    BY <1>1, <2>1, SplitFrom
<1>6. Moved(From(A, n), Carry - n) = Moved(Moved(From(A, n), Carry), -n)
  <2>1. A \in SUBSET Int /\ -n \in Int /\ Carry + (-n) = Carry - n
    BY <1>1
  <2>2. From(A, n) \in SUBSET Int
    BY <1>1, <2>1, PartsInt
  <2> QED
    BY <1>1, <2>1, <2>2, MovedTwice
<1>7. At(View', w) =
        Moved(From(Below(V \cup Moved(A, Carry), n + Carry), n)
                \cup Moved(From(A, n), Carry), -n)
  <2> DEFINE S == From(Below(V \cup Moved(A, Carry), n + Carry), n)
             T == Moved(From(A, n), Carry)
  <2>1. At(View', w) = Moved(S, -n) \cup Moved(T, -n)
    BY <1>2, <1>3, <1>4, <1>6
  <2> HIDE DEF S, T
  <2>2. At(View', w) = Moved(S \cup T, -n)
    BY <2>1, MovedUnion
  <2> QED
    BY <2>2 DEF S, T
<1>8. All(arrived, w) = V \cup Moved(A, Carry)
  BY DEF All, V, A
<1> QED
  BY <1>5, <1>7, <1>8

\* The STS_ENDs a call searches, the peaks it searches among, and those that
\* it leaves to the next.
LEMMA CallSees ==
  ASSUME TypeOK, Clear, NEW n \in Batches, NEW c \in BOOLEAN,
         NEW arrived \in Arrivals(n, c), NEW share, Work(n, arrived, share),
         NEW ends, ends = Moved(At(arrived, "STS_END"), Carry),
         NEW peaks, peaks = At(View, "peak") \cup Moved(At(arrived, "peak"), Carry)
  PROVE  /\ Searched(View, Carry) = At(m_carryover, "STS_END")
         /\ Searched(Input(n, arrived), n)
              = At(m_carryover, "STS_END") \cup Below(ends, n)
         /\ At(View', "STS_END") = Moved(From(ends, n), -n)
         /\ Searched(View', Carry) = Moved(From(ends, n), -n)
         /\ At(Input(n, arrived), "peak") = Below(peaks, n + Carry)
         /\ At(View', "peak") = Moved(From(peaks, n), -n)
         /\ At(m_carryover, "STS_END") \subseteq 0 .. Carry - 1
<1> DEFINE input == Input(n, arrived)
           Ends == At(m_carryover, "STS_END")
           here == At(arrived, "STS_END")
           V == At(View, "peak")
           K == At(arrived, "peak")
<1>1. /\ n \in Nat /\ n > Carry /\ Carry \in Nat
      /\ Lts \in Nat /\ Cp \in Nat /\ Back \in Nat /\ Gap \in Nat
      /\ Carry = Cp + 2 * Lts /\ Gap >= Carry /\ gap \in 0 .. Gap
      /\ Ends \subseteq 0 .. Carry - 1 /\ here \subseteq 0 .. n - 1
      /\ V \subseteq 0 .. 2 * Carry - 1
      /\ \A lag \in Lags : lag \in 1 .. Cp - Back
  <2>1. m_carryover \subseteq Marks(Carry - 1) /\ Carry - 1 \in Int
    BY TimingAssumption DEF TypeOK
  <2>2. Ends \subseteq 0 .. Carry - 1
    BY <2>1, AtInt
  <2> QED
    BY <2>2, CallMarks, ViewAt, TimingAssumption DEF TypeOK
\* the STS_ENDs that are searched
<1>2. At(View, "STS_END") = Ends
  <2>1. At(ahead, "STS_END") = {}
    BY DEF Clear
  <2> QED
    BY <2>1, ViewAt DEF Moved
<1>3. Searched(View, Carry) = Ends
  BY <1>1, <1>2 DEF Searched
<1>4. Searched(input, n) = Ends \cup Below(Moved(here, Carry), n)
  <2>1. At(input, "STS_END") = Below(Ends \cup Moved(here, Carry), n + Carry)
    BY <1>2, InputAt DEF All
  <2> HIDE DEF input, Ends, here
  <2>2. here \in SUBSET Int /\ Ends \in SUBSET Int
    BY <1>1
  <2>3. Moved(here, Carry) \in SUBSET Int
    <3>1. Carry \in Int
      BY <1>1
    <3> QED
      BY <2>2, <3>1, PartsInt
  <2>4. Searched(input, n) = Below(At(input, "STS_END"), n)
    BY DEF Searched, Below
  <2>5. Ends \cup Moved(here, Carry) \in SUBSET Int
    BY <2>2, <2>3
  <2>6. Searched(input, n) = Below(Ends \cup Moved(here, Carry), n)
    <3>1. n \in Int /\ n + Carry \in Int /\ n <= n + Carry
      BY <1>1
    <3> QED
      BY <2>1, <2>4, <2>5, <3>1, BelowTwice
  <2>7. \A x \in Ends : x < n
    BY <1>1
  <2> QED
    BY <1>1, <2>2, <2>6, <2>7, BelowLow
<1>5. At(View', "STS_END") = Moved(From(Moved(here, Carry), n), -n)
  <2>1. At(View', "STS_END") = Moved(From(Ends \cup Moved(here, Carry), n), -n)
    BY <1>2, CallAt DEF All
  <2> HIDE DEF Ends, here
  <2>2. Ends \in SUBSET Int /\ \A x \in Ends : x < n
    BY <1>1
  <2>3. From(Ends \cup Moved(here, Carry), n) = From(Moved(here, Carry), n)
    <3>1. n \in Int
      BY <1>1
    <3> QED
      BY <2>2, <3>1, FromHigh
  <2> QED
    BY <2>1, <2>3
<1>6. Searched(View', Carry) = At(View', "STS_END")
  <2> HIDE DEF here
  <2>1. ASSUME NEW z \in Moved(From(Moved(here, Carry), n), -n)
        PROVE  z < Carry
    <3>1. PICK i \in here : z = i + Carry + (-n)
      BY DEF Moved, From
    <3>2. i \in 0 .. n - 1
      BY <1>1
    <3> QED
      BY <1>1, <3>1, <3>2
  <2> QED
    BY <1>5, <2>1 DEF Searched
\* the peaks they are searched among
<1>7. At(input, "peak") = Below(V \cup Moved(K, Carry), n + Carry)
  BY InputAt DEF All
<1>8. At(View', "peak") = Moved(From(V \cup Moved(K, Carry), n), -n)
  BY CallAt DEF All
<1> QED
  BY <1>1, <1>3, <1>4, <1>5, <1>6, <1>7, <1>8

\* The constants of the search, in the form the steps below use.
LEMMA Sizes ==
  ASSUME TypeOK, NEW n \in Batches
  PROVE  /\ n \in Nat /\ n > Carry /\ Carry \in Nat
         /\ Lts \in Nat /\ Cp \in Nat /\ Back \in Nat /\ Gap \in Nat
         /\ Carry = Cp + 2 * Lts /\ Gap >= Carry /\ gap \in 0 .. Gap
         /\ \A lag \in Lags : lag \in 1 .. Cp - Back
BY TimingAssumption DEF TypeOK

\* The peaks of an arrival lie between its STS_END and the end of what the
\* search behind it looks at, and so behind all that was there before.
LEMMA PeaksBehind ==
  ASSUME TypeOK, NEW n \in Batches, NEW c \in BOOLEAN,
         NEW arrived \in Arrivals(n, c), NEW k \in At(arrived, "peak")
  PROVE  \E i \in Starts(n) :
           /\ At(arrived, "STS_END") = {i}
           /\ k \in Int /\ k >= i /\ k < i + Carry
           /\ k + Carry >= 2 * Carry - gap
<1>1. /\ n \in Nat /\ n > Carry /\ Carry \in Nat
      /\ Lts \in Nat /\ Cp \in Nat /\ Back \in Nat /\ Gap \in Nat
      /\ Carry = Cp + 2 * Lts /\ Gap >= Carry /\ gap \in 0 .. Gap
      /\ \A lag \in Lags : lag \in 1 .. Cp - Back
  BY Sizes
<1>2. PICK i \in Starts(n), lag \in Lags :
        /\ At(arrived, "STS_END") = {i}
        /\ k \in {i + Cp - lag, i + Cp - lag + Lts}
  <2>1. \A e : ~Brings(arrived, e, {}, {})
    BY DEF Brings
  <2>2. PICK i \in Starts(n), lag \in Lags : BringsFrame(n, arrived, i, lag)
    BY <1>1, <2>1, ArrivalAt
  <2> QED
    BY <2>2 DEF Brings, BringsFrame
<1>3. i \in Nat /\ gap + i >= Gap /\ lag \in 1 .. Cp - Back
  BY <1>1, <1>2 DEF Starts
<1> QED
  BY <1>1, <1>2, <1>3

\* The next call, too, has at most one preamble that it has not searched, and
\* no peaks beyond it.
LEMMA StillBefore ==
  ASSUME NEW v \in Int, NEW g \in Int, NEW h \in Int, NEW n \in Int,
         h <= g + n, v < 2 * Carry - g
  PROVE  v + (-n) < 2 * Carry - h
BY TimingAssumption

LEMMA ClearKept ==
  ASSUME TypeOK, Clear, NEW n \in Batches, NEW c \in BOOLEAN,
         NEW arrived \in Arrivals(n, c), NEW share, Work(n, arrived, share)
  PROVE  Clear'
<1> DEFINE here == At(arrived, "STS_END")
           ends == Moved(here, Carry)
           V == At(View, "peak")
           K == At(arrived, "peak")
           peaks == V \cup Moved(K, Carry)
<1>1. /\ n \in Nat /\ n > Carry /\ Carry \in Nat
      /\ Lts \in Nat /\ Cp \in Nat /\ Back \in Nat /\ Gap \in Nat
      /\ Carry = Cp + 2 * Lts /\ Gap >= Carry /\ gap \in 0 .. Gap
      /\ \A lag \in Lags : lag \in 1 .. Cp - Back
  BY Sizes
<1>2. here \subseteq 0 .. n - 1 /\ V \subseteq 0 .. 2 * Carry - 1
  BY CallMarks, ViewAt
<1>3. gap' = Least(Gap, IF here = {} THEN gap + n
                        ELSE n - CHOOSE i \in here : TRUE)
  BY DEF Work
<1>4. \A w \in {"STS_END", "LTS1", "LTS2"} : At(ahead', w) = {}
  <2>1. \A w : At(ahead', w) = Moved(From(At(arrived, w), n), -n)
    BY ViewAfter
  <2>2. At(arrived, "LTS1") = {} /\ At(arrived, "LTS2") = {}
    <3> DEFINE none == At(arrived, "LTS1") = {} /\ At(arrived, "LTS2") = {}
    <3>1. \A e, k, f : Brings(arrived, e, k, f) => none
      BY DEF Brings
    <3>2. \A i, lag : BringsFrame(n, arrived, i, lag) => none
      BY <3>1 DEF BringsFrame
    <3> HIDE DEF none
    <3>3. none
      BY <1>1, <3>1, <3>2, ArrivalAt
    <3> QED
      BY <3>3 DEF none
  <2>3. \A i \in here : ~(i >= n)
    BY <1>1, <1>2
  <2>4. From(here, n) = {} /\ From({}, n) = {} /\ Moved({}, -n) = {}
    BY <2>3 DEF From, Moved
  <2> QED
    BY <2>1, <2>2, <2>4
<1>5. At(m_carryover', "STS_END") = Moved(From(ends, n), -n)
  <2>1. At(View', "STS_END") = Moved(From(ends, n), -n)
    BY CallSees
  <2>2. At(View', "STS_END") = At(m_carryover', "STS_END")
                                 \cup Moved(From(here, n), Carry - n)
    BY ViewAfter
  <2>3. \A i \in here : ~(i >= n)
    BY <1>1, <1>2
  <2>4. Moved(From(here, n), Carry - n) = {}
    BY <2>3 DEF From, Moved
  <2> QED
    BY <2>1, <2>2, <2>4
<1>6. At(View', "peak") = Moved(From(peaks, n), -n)
  BY CallSees
<1>7. CASE here = {}
  <2>1. At(m_carryover', "STS_END") = {}
    BY <1>5, <1>7 DEF Moved, From
  <2>2. K = {}
    BY <1>7, PeaksBehind
  <2>3. gap' \in Int /\ gap' <= gap + n
    BY <1>1, <1>3, <1>7 DEF Least
  <2>4. ASSUME NEW q \in At(View', "peak")
        PROVE  q < 2 * Carry - gap'
    <3>1. PICK v \in V : q = v + (-n)
      BY <1>6, <2>2, <2>4 DEF Moved, From
    <3>2. v \in Int /\ v < 2 * Carry - gap
      BY <1>1, <1>2 DEF Clear
    <3>3. gap \in Int /\ n \in Int /\ Carry \in Int
      BY <1>1
    <3> HIDE DEF V
    <3>4. gap' \in Int /\ gap' <= gap + n
      BY <2>3
    <3>5. v + (-n) < 2 * Carry - gap'
      BY <3>2, <3>3, <3>4, StillBefore
    <3> QED
      BY <3>1, <3>5
  <2> QED
    BY <1>4, <2>1, <2>4 DEF Clear
<1>8. CASE here # {}
  <2>1. PICK i \in Starts(n) : here = {i}
    <3>1. ~Brings(arrived, {}, {}, {})
      BY <1>8 DEF Brings
    <3>2. \A i, k, f : Brings(arrived, {i}, k, f) => here = {i}
      BY DEF Brings
    <3>3. \A i, lag : BringsFrame(n, arrived, i, lag) => here = {i}
      BY DEF Brings, BringsFrame
    <3> HIDE DEF here
    <3> QED
      BY <1>1, <3>1, <3>2, <3>3, ArrivalAt
  <2>2. i \in 0 .. n - 1 /\ gap + i >= Gap
    BY <2>1 DEF Starts
  <2>3. (CHOOSE j \in here : TRUE) = i
    BY <2>1
  <2>4. gap' = Least(Gap, n - i)
    BY <1>3, <1>8, <2>3
  <2> HIDE DEF here
  <2>5. ASSUME NEW x \in At(m_carryover', "STS_END")
        PROVE  x = Carry - gap'
    <3>1. i + Carry >= n /\ x = i + Carry + (-n)
      BY <1>5, <2>1, <2>5 DEF Moved, From
    <3> QED
      BY <1>1, <2>2, <2>4, <3>1 DEF Least
  <2>6. gap' \in Int /\ gap' <= n - i
    BY <1>1, <2>2, <2>4 DEF Least
  <2>7. ASSUME NEW q \in At(View', "peak")
        PROVE  q < 2 * Carry - gap'
    <3>1. PICK z \in peaks : q = z + (-n)
      BY <1>6, <2>7 DEF Moved, From
    <3>2. CASE z \in V
      <4>1. z \in Int /\ z < 2 * Carry - gap
        BY <1>1, <1>2, <3>2 DEF Clear
      <4>2. gap \in Int /\ n \in Int /\ gap' <= gap + n
        BY <1>1, <2>2, <2>6
      <4>3. z + (-n) < 2 * Carry - gap'
        BY <2>6, <4>1, <4>2, StillBefore
      <4> QED
        BY <3>1, <4>3
    <3>3. CASE z \in Moved(K, Carry)
      <4>1. PICK k \in K : z = k + Carry
        BY <3>3 DEF Moved
      <4>2. k \in Int /\ k < i + Carry
        BY <2>1, PeaksBehind DEF here
      <4>3. n \in Int /\ -i \in Int /\ gap' <= -i + n
        BY <1>1, <2>2, <2>6
      <4>4. z \in Int /\ z < 2 * Carry - (-i)
        BY <1>1, <2>2, <4>1, <4>2
      <4>5. z + (-n) < 2 * Carry - gap'
        BY <2>6, <4>3, <4>4, StillBefore
      <4> QED
        BY <3>1, <4>5
    <3> QED
      BY <3>1, <3>2, <3>3
  <2> QED
    BY <1>4, <2>5, <2>7 DEF Clear
<1> QED
  BY <1>7, <1>8

\* Behind the STS_END at X the search sees the peaks that arrived with it and
\* no others, whether this call searches it or the next.
LEMMA WindowSees ==
  ASSUME TypeOK, Clear, NEW n \in Batches, NEW c \in BOOLEAN,
         NEW arrived \in Arrivals(n, c), NEW share, Work(n, arrived, share),
         NEW i \in Starts(n), At(arrived, "STS_END") = {i},
         NEW X, X = i + Carry,
         NEW K, K = Moved(At(arrived, "peak"), Carry)
  PROVE  /\ X < n => At(Input(n, arrived), "peak") \cap Window(X)
                       = K \cap Window(X)
         /\ X >= n => At(View', "peak") \cap Window(X - n)
                        = Moved(K, -n) \cap Window(X - n)
<1> DEFINE V == At(View, "peak")
<1>1. /\ n \in Nat /\ n > Carry /\ Carry \in Nat
      /\ Lts \in Nat /\ Cp \in Nat /\ Back \in Nat /\ Gap \in Nat
      /\ Carry = Cp + 2 * Lts /\ Gap >= Carry /\ gap \in 0 .. Gap
      /\ \A lag \in Lags : lag \in 1 .. Cp - Back
  BY Sizes
<1>2. i \in 0 .. n - 1 /\ gap + i >= Gap /\ X \in Nat
  BY <1>1 DEF Starts
<1>3. \A v \in V : v \in Int /\ v < X
  <2> SUFFICES ASSUME NEW v \in V PROVE v \in Int /\ v < X
    OBVIOUS
  <2>1. v \in Int /\ v < 2 * Carry - gap
    BY ViewAt DEF Clear
  <2> QED
    BY <1>1, <1>2, <2>1
<1>4. \A k \in K : k \in Int /\ k >= X /\ k < X + Carry
  <2> SUFFICES ASSUME NEW k \in At(arrived, "peak")
               PROVE  /\ k + Carry \in Int /\ k + Carry >= X
                      /\ k + Carry < X + Carry
    BY DEF Moved
  <2>1. k \in Int /\ k >= i /\ k < i + Carry
    BY PeaksBehind
  <2> QED
    BY <1>1, <1>2, <2>1
<1>5. /\ At(Input(n, arrived), "peak") = Below(V \cup K, n + Carry)
      /\ At(View', "peak") = Moved(From(V \cup K, n), -n)
  BY CallSees
<1>6. \A x, z : z \in Window(x) => z \in x .. x + Carry - Lts - 1
  BY DEF Window
<1> HIDE DEF V
<1>7. ASSUME X < n
      PROVE  Below(V \cup K, n + Carry) \cap Window(X) = K \cap Window(X)
  <2>1. \A v \in V : v \notin Window(X)
    BY <1>1, <1>2, <1>3, <1>6
  <2>2. \A k \in K : k < n + Carry
    <3> SUFFICES ASSUME NEW k \in K PROVE k < n + Carry
      OBVIOUS
    <3>1. k \in Int /\ k < X + Carry
      BY <1>4
    <3> QED
      BY <1>1, <1>2, <1>7, <3>1
  <2> QED
    BY <2>1, <2>2 DEF Below
<1>8. ASSUME X >= n
      PROVE  Moved(From(V \cup K, n), -n) \cap Window(X - n)
               = Moved(K, -n) \cap Window(X - n)
  <2>1. \A v \in V : v + (-n) \notin Window(X - n)
    <3> SUFFICES ASSUME NEW v \in V, v + (-n) \in Window(X - n) PROVE FALSE
      OBVIOUS
    <3>1. v \in Int /\ v < X
      BY <1>3
    <3>2. v + (-n) >= X - n
      BY <1>1, <1>2, <1>6
    <3> QED
      BY <1>1, <1>2, <3>1, <3>2
  <2>2. \A k \in K : k >= n
    <3> SUFFICES ASSUME NEW k \in K PROVE k >= n
      OBVIOUS
    <3>1. k \in Int /\ k >= X
      BY <1>4
    <3> QED
      BY <1>1, <1>2, <1>8, <3>1
  <2> QED
    BY <2>1, <2>2 DEF Moved, From
<1> QED
  BY <1>5, <1>7, <1>8

LEMMA FoundInBoth ==
  ASSUME NEW marks, NEW A, NEW B
  PROVE  FoundIn(marks, A \cup B) = FoundIn(marks, A) \cup FoundIn(marks, B)
<1>1. \A S, z : z \in FoundIn(marks, S) <=> \E x \in S : z \in Found(marks, x)
  BY DEF FoundIn
<1> QED
  BY <1>1

LEMMA OneEnd ==
  ASSUME NEW n \in Int, NEW x \in Int
  PROVE  /\ x < n => Below({x}, n) = {x} /\ Moved(From({x}, n), -n) = {}
         /\ x >= n => Below({x}, n) = {} /\ Moved(From({x}, n), -n) = {x - n}
<1>1. x < n => Below({x}, n) = {x} /\ From({x}, n) = {}
  BY DEF Below, From
<1>2. x >= n => Below({x}, n) = {} /\ From({x}, n) = {x}
  BY DEF Below, From
<1>3. Moved({}, -n) = {} /\ Moved({x}, -n) = {x - n}
  <2>1. x + (-n) = x - n
    OBVIOUS
  <2> QED
    BY <2>1 DEF Moved
<1> QED
  BY <1>1, <1>2, <1>3

\* The call that searches a preamble is the first that has the STS_END before
\* its last Carry samples; what earlier preambles show does not change.
LEMMA CallFinds ==
  ASSUME TypeOK, Clear, NEW n \in Batches, NEW c \in BOOLEAN,
         NEW arrived \in Arrivals(n, c), NEW share, Work(n, arrived, share)
  PROVE  \E P, N, M \in SUBSET Int :
           /\ At(arrived, "LTS1") = {} /\ At(arrived, "LTS2") = {}
           /\ At(arrived, "due1") = Moved(P, -Back)
           /\ At(arrived, "due2") = Moved(P, Lts - Back)
           /\ Firsts(Input(n, arrived), n) = Firsts(View, Carry) \cup N
           /\ Firsts(View', Carry) = M
           /\ Moved(P, Carry) = N \cup Moved(M, n)
           /\ \A q \in M : q - Back >= 0
<1> DEFINE input == Input(n, arrived)
           Ends == At(m_carryover, "STS_END")
           here == At(arrived, "STS_END")
           ends == Moved(here, Carry)
           V == At(View, "peak")
           K == Moved(At(arrived, "peak"), Carry)
           Known == Firsts(View, Carry)
           Found1 == Firsts(input, n)
           Found2 == Firsts(View', Carry)
<1>1. /\ n \in Nat /\ n > Carry /\ Carry \in Nat
      /\ Lts \in Nat /\ Cp \in Nat /\ Back \in Nat /\ Gap \in Nat
      /\ Carry = Cp + 2 * Lts /\ Gap >= Carry /\ gap \in 0 .. Gap
      /\ \A lag \in Lags : lag \in 1 .. Cp - Back
  BY Sizes
<1>2. /\ Searched(View, Carry) = Ends
      /\ Searched(input, n) = Ends \cup Below(ends, n)
      /\ Searched(View', Carry) = Moved(From(ends, n), -n)
      /\ At(input, "peak") = Below(V \cup K, n + Carry)
      /\ Ends \subseteq 0 .. Carry - 1
  BY CallSees
<1>3. ASSUME NEW x \in Ends
      PROVE  Found(input, x) = Found(View, x)
  <2>1. x \in 0 .. Carry - 1 /\ x = Carry - gap
    BY <1>2 DEF Clear
  <2>2. \A k \in K : k \notin Window(x)
    <3> SUFFICES ASSUME NEW k \in At(arrived, "peak")
                 PROVE  k + Carry \notin Window(x)
      BY DEF Moved
    <3>1. k \in Int /\ k + Carry >= 2 * Carry - gap
      BY PeaksBehind
    <3>2. k + Carry >= x + Carry
      BY <1>1, <2>1, <3>1
    <3> QED
      BY <1>1, <2>1, <3>1, <3>2 DEF Window
  <2>3. \A v \in V : v < n + Carry
    BY <1>1, ViewAt
  <2>4. At(input, "peak") \cap Window(x) = V \cap Window(x)
    <3> HIDE DEF input, V, K
    <3> QED
      BY <1>2, <2>2, <2>3 DEF Below
  <2> QED
    BY <2>4, SameFound
<1>4. Found1 = Known \cup FoundIn(input, Below(ends, n))
  <2>1. FoundIn(input, Ends) = FoundIn(View, Ends)
    BY <1>3 DEF FoundIn
  <2> HIDE DEF input, Ends, ends
  <2>2. FoundIn(input, Ends \cup Below(ends, n))
          = FoundIn(input, Ends) \cup FoundIn(input, Below(ends, n))
    BY FoundInBoth
  <2> QED
    BY <1>2, <2>1, <2>2 DEF Firsts
<1>5. Found2 = FoundIn(View', Moved(From(ends, n), -n))
  BY <1>2 DEF Firsts
<1>6. ASSUME NEW i \in Int, here = {i}, NEW X, X = i + Carry
      PROVE  /\ X < n => Found1 = Known \cup Found(input, X) /\ Found2 = {}
             /\ X >= n => Found1 = Known /\ Found2 = Found(View', X - n)
  <2>1. X \in Int /\ n \in Int
    BY <1>1, <1>6
  <2>2. ends = {X}
    BY <1>6 DEF Moved
  <2>3. \A marks : FoundIn(marks, {}) = {}
                  /\ \A x : FoundIn(marks, {x}) = Found(marks, x)
    BY DEF FoundIn
  <2> HIDE DEF input, ends, Known, Found1, Found2
  <2>4. CASE X < n
    <3>1. Below(ends, n) = {X} /\ Moved(From(ends, n), -n) = {}
      BY <2>1, <2>2, <2>4, OneEnd
    <3>2. Found1 = Known \cup Found(input, X) /\ Found2 = {}
      BY <1>4, <1>5, <2>3, <3>1
    <3> QED
      BY <2>1, <2>4, <3>2
  <2>5. CASE X >= n
    <3>1. Below(ends, n) = {} /\ Moved(From(ends, n), -n) = {X - n}
      BY <2>1, <2>2, <2>5, OneEnd
    <3>2. Found1 = Known /\ Found2 = Found(View', X - n)
      BY <1>4, <1>5, <2>3, <3>1
    <3> QED
      BY <2>1, <2>5, <3>2
  <2> QED
    BY <2>1, <2>4, <2>5
<1> DEFINE Outcome(P, N, M) ==
             /\ At(arrived, "LTS1") = {} /\ At(arrived, "LTS2") = {}
             /\ At(arrived, "due1") = Moved(P, -Back)
             /\ At(arrived, "due2") = Moved(P, Lts - Back)
             /\ Found1 = Known \cup N
             /\ Found2 = M
             /\ Moved(P, Carry) = N \cup Moved(M, n)
             /\ \A q \in M : q - Back >= 0
<1>7. \A k : Moved({}, k) = {}
  BY DEF Moved
<1>8. CASE Brings(arrived, {}, {}, {})
  <2>1. ends = {}
    BY <1>7, <1>8 DEF Brings
  <2>2. Below({}, n) = {} /\ From({}, n) = {}
    BY DEF Below, From
  <2>3. \A marks : FoundIn(marks, {}) = {}
    BY DEF FoundIn
  <2>4. Found1 = Known /\ Found2 = {}
    <3> HIDE DEF ends, input, Known, Found1, Found2
    <3> QED
      BY <1>4, <1>5, <1>7, <2>1, <2>2, <2>3
  <2>5. Outcome({}, {}, {})
    <3> HIDE DEF Found1, Found2, Known
    <3> QED
      BY <1>7, <1>8, <2>4 DEF Brings
  <2> HIDE DEF Outcome
  <2> QED
    BY <2>5 DEF Outcome
<1>9. CASE \E i \in Starts(n) : Brings(arrived, {i}, {}, {})
  <2>1. PICK i \in Starts(n) : Brings(arrived, {i}, {}, {})
    BY <1>9
  <2> DEFINE X == i + Carry
  <2>2. here = {i} /\ K = {} /\ i \in Int /\ X \in Int
    <3>1. here = {i} /\ At(arrived, "peak") = {}
      BY <2>1 DEF Brings
    <3>2. i \in Int /\ X \in Int
      BY <1>1 DEF Starts
    <3> QED
      BY <1>7, <3>1, <3>2
  <2>3. /\ X < n => Found(input, X) = {}
        /\ X >= n => Found(View', X - n) = {}
    <3>1. /\ X < n => At(input, "peak") \cap Window(X) = K \cap Window(X)
          /\ X >= n => At(View', "peak") \cap Window(X - n)
                         = Moved(K, -n) \cap Window(X - n)
      BY <2>2, WindowSees
    <3> HIDE DEF input, K, X
    <3> QED
      BY <1>7, <2>2, <3>1, NothingFound
  <2>4. Found1 = Known /\ Found2 = {}
    <3>1. /\ X < n => Found1 = Known \cup Found(input, X) /\ Found2 = {}
          /\ X >= n => Found1 = Known /\ Found2 = Found(View', X - n)
      BY <1>6, <2>2
    <3>2. X < n \/ X >= n
      BY <1>1, <2>2
    <3> HIDE DEF Found1, Found2, Known, input, X
    <3>3. CASE X < n
      BY <2>3, <3>1, <3>3
    <3>4. CASE X >= n
      BY <2>3, <3>1, <3>4
    <3> QED
      BY <3>2, <3>3, <3>4
  <2>5. Outcome({}, {}, {})
    <3> HIDE DEF Found1, Found2, Known
    <3> QED
      BY <1>7, <2>1, <2>4 DEF Brings
  <2> HIDE DEF Outcome
  <2> QED
    BY <2>5 DEF Outcome
<1>10. CASE \E i \in Starts(n), lag \in Lags : BringsFrame(n, arrived, i, lag)
  <2>1. PICK i \in Starts(n), lag \in Lags : BringsFrame(n, arrived, i, lag)
    BY <1>10
  <2> DEFINE X == i + Carry
             p == i + Cp - lag
             P == IF Missed(i, lag, n) THEN {} ELSE {p}
  <2>2. Brings(arrived, {i}, {p, p + Lts}, P)
    BY <2>1 DEF BringsFrame
  <2>3. i \in 0 .. n - 1 /\ lag \in 1 .. Cp - Back
    BY <1>1 DEF Starts
  <2>4. p \in Int /\ X \in Int /\ p + Carry = X + Cp - lag
    BY <1>1, <2>3
  <2>5. K = {p + Carry, p + Carry + Lts}
    <3>1. At(arrived, "peak") = {p, p + Lts}
      BY <2>2 DEF Brings
    <3>2. p + Lts + Carry = p + Carry + Lts
      BY <1>1, <2>4
    <3> HIDE DEF p
    <3> QED
      BY <3>1, <3>2 DEF Moved
  <2>6. here = {i}
    BY <2>2 DEF Brings
  <2>7. /\ X < n => Found1 = Known \cup Found(input, X) /\ Found2 = {}
        /\ X >= n => Found1 = Known /\ Found2 = Found(View', X - n)
    BY <1>6, <2>3, <2>6
  <2>8. /\ X < n => At(input, "peak") \cap Window(X) = K \cap Window(X)
        /\ X >= n => At(View', "peak") \cap Window(X - n)
                       = Moved(K, -n) \cap Window(X - n)
    BY <2>6, WindowSees
  <2>9. \A e, k, f : Brings(arrived, e, k, f) =>
          /\ At(arrived, "LTS1") = {} /\ At(arrived, "LTS2") = {}
          /\ At(arrived, "due1") = Moved(f, -Back)
          /\ At(arrived, "due2") = Moved(f, Lts - Back)
    BY DEF Brings
  <2>10. CASE X < n
    <3>1. P = {p}
      BY <1>1, <2>3, <2>10 DEF Missed
    <3>2. {p + Carry, p + Carry + Lts} \subseteq Window(X)
      BY <1>1, <2>3 DEF Window
    <3>3. Found(input, X) = {p + Carry}
      <4>1. At(input, "peak") \cap Window(X) = {p + Carry, p + Carry + Lts}
        BY <2>5, <2>8, <2>10, <3>2
      <4>2. X >= lag
        BY <1>1, <2>3
      <4> HIDE DEF input, X, p
      <4> QED
        BY <2>4, <4>1, <4>2, FrameFound
    <3>4. Moved({p}, Carry) = {p + Carry} \cup Moved({}, n)
      BY <1>7 DEF Moved
    <3>5. Found1 = Known \cup {p + Carry} /\ Found2 = {}
      BY <2>7, <2>10, <3>3
    <3>6. Outcome({p}, {p + Carry}, {})
      <4> HIDE DEF Found1, Found2, Known, P, p
      <4> QED
        BY <2>2, <2>9, <3>1, <3>4, <3>5
    <3>7. {p} \in SUBSET Int /\ {p + Carry} \in SUBSET Int
      BY <1>1, <2>4
    <3> HIDE DEF Outcome, p
    <3> QED
      BY <3>6, <3>7 DEF Outcome
  <2>11. CASE X >= n
    <3> DEFINE q == p + Carry - n
               M == IF X - n >= lag THEN {q} ELSE {}
    <3>1. q \in Int /\ q = (X - n) + Cp - lag /\ q + n = p + Carry
      BY <1>1, <2>4
    <3>2. {q, q + Lts} \subseteq Window(X - n)
      BY <1>1, <2>3, <2>11 DEF Window
    <3>3. Moved(K, -n) = {q, q + Lts}
      <4>1. p + Carry + (-n) = q /\ p + Carry + Lts + (-n) = q + Lts
        BY <1>1, <2>4
      <4> HIDE DEF q, p, K
      <4> QED
        BY <2>5, <4>1 DEF Moved
    <3>4. Found(View', X - n) = M
      <4>1. At(View', "peak") \cap Window(X - n) = {q, q + Lts}
        BY <2>8, <2>11, <3>2, <3>3
      <4>2. X - n \in Int
        BY <1>1, <2>4
      <4> HIDE DEF X, q
      <4> QED
        BY <3>1, <4>1, <4>2, FrameFound
    <3>5. P = IF X - n >= lag THEN {p} ELSE {}
      BY <1>1, <2>3, <2>4, <2>11 DEF Missed
    <3>6. Moved(P, Carry) = {} \cup Moved(M, n)
      <4> HIDE DEF p, q, P, X
      <4>1. CASE X - n >= lag
        BY <3>1, <3>5, <4>1 DEF Moved
      <4>2. CASE ~(X - n >= lag)
        BY <1>7, <3>5, <4>2
      <4> QED
        BY <4>1, <4>2
    <3>7. \A z \in M : z - Back >= 0
      BY <1>1, <2>3, <2>11, <3>1
    <3>8. Found1 = Known /\ Found2 = M
      BY <2>7, <2>11, <3>4
    <3>9. Outcome(P, {}, M)
      <4> HIDE DEF Found1, Found2, Known, P, M, p
      <4> QED
        BY <2>2, <2>9, <3>6, <3>7, <3>8
    <3>10. P \in SUBSET Int /\ M \in SUBSET Int
      BY <2>4, <3>1
    <3> HIDE DEF Outcome, P, M
    <3> QED
      BY <3>9, <3>10 DEF Outcome
  <2> QED
    BY <1>1, <2>4, <2>10, <2>11
<1> QED
  BY <1>1, <1>8, <1>9, <1>10, ArrivalAt

\* T: a tag in the view, D: where it is due, F: the first symbols found in it;
\* P: those that arrive, N: found by this call, M: by the next; d: from a first
\* symbol to its tag.
Consistent(n, d, T, D, F, P, N, M) ==
    /\ n \in Nat /\ d \in Int /\ n > Carry /\ Carry \in Int
    /\ T \in SUBSET Int /\ D \in SUBSET Int /\ F \in SUBSET Int
    /\ P \in SUBSET Int /\ N \in SUBSET Int /\ M \in SUBSET Int
    /\ D = T \cup Moved(F, d)
    /\ Moved(P, Carry) = N \cup Moved(M, n)
    /\ \A q \in M : q + d >= 0

\* The first n places of the tagged view and of what is due agree, and the rest
\* differs by what the next call finds.
Agreed(n, d, M, tags, due) ==
    /\ Below(tags, n) = Below(due, n)
    /\ Moved(From(due, n), -n) = Moved(From(tags, n), -n) \cup Moved(M, d)

\* To tag what is found now, and later what is found later, is to tag it all.
LEMMA TagsAgree ==
  ASSUME NEW n, NEW d, NEW T, NEW D, NEW F, NEW P, NEW N, NEW M,
         Consistent(n, d, T, D, F, P, N, M)
  PROVE  Agreed(n, d, M, T \cup Moved(F \cup N, d),
                D \cup Moved(Moved(P, d), Carry))
<1> DEFINE tags == T \cup Moved(F \cup N, d)
           due == D \cup Moved(Moved(P, d), Carry)
<1> USE DEF Consistent
<1>1. Moved(Moved(P, d), Carry) = Moved(N, d) \cup Moved(Moved(M, d), n)
  <2>1. Moved(Moved(P, d), Carry) = Moved(Moved(P, Carry), d)
    <3>1. Moved(Moved(P, d), Carry) = Moved(P, d + Carry)
      BY MovedTwice
    <3>2. Moved(Moved(P, Carry), d) = Moved(P, Carry + d)
      BY MovedTwice
    <3>3. d + Carry = Carry + d
      OBVIOUS
    <3> QED
      BY <3>1, <3>2, <3>3
  <2>2. Moved(M, n) \in SUBSET Int
    BY PartsInt
  <2>3. Moved(N \cup Moved(M, n), d) = Moved(N, d) \cup Moved(Moved(M, n), d)
    BY MovedUnion
  <2>4. Moved(Moved(M, n), d) = Moved(Moved(M, d), n)
    BY MovedTwice
  <2> QED
    BY <2>1, <2>3, <2>4
<1>2. tags = D \cup Moved(N, d)
  BY MovedUnion
<1> DEFINE L == Moved(Moved(M, d), n)
<1>3. due = tags \cup L
  BY <1>1, <1>2
<1> HIDE DEF tags, due
<1>4. tags \in SUBSET Int
  BY <1>2, PartsInt
<1>5. L \in SUBSET Int /\ \A z \in L : z >= n
  <2>1. Moved(M, d) \in SUBSET Int /\ \A z \in Moved(M, d) : z >= 0
    BY PartsInt DEF Moved
  <2> QED
    BY <2>1 DEF Moved
<1>6. Below(tags, n) = Below(due, n)
  <2> HIDE DEF L
  <2>1. \A z \in L : ~(z < n)
    BY <1>5
  <2> QED
    BY <1>3, <2>1 DEF Below
<1>7. From(due, n) = From(tags, n) \cup L
  <2> HIDE DEF L
  <2> QED
    BY <1>3, <1>5 DEF From
<1>8. Moved(L, -n) = Moved(M, d)
  <2>1. Moved(M, d) \in SUBSET Int
    BY PartsInt
  <2>2. Moved(L, -n) = Moved(Moved(M, d), n + (-n))
    BY <2>1, MovedTwice
  <2>3. n + (-n) = 0
    OBVIOUS
  <2>4. Moved(Moved(M, d), 0) = Moved(M, d)
    <3> DEFINE R == Moved(M, d)
    <3> HIDE DEF R
    <3>1. \A z \in R : z + 0 = z
      BY <2>1 DEF R
    <3>2. Moved(R, 0) = R
      BY <3>1 DEF Moved
    <3> QED
      BY <3>2 DEF R
  <2> QED
    BY <2>2, <2>3, <2>4
<1>9. Moved(From(due, n), -n) = Moved(From(tags, n), -n) \cup Moved(L, -n)
  <2> HIDE DEF L
  <2> QED
    <3> DEFINE A == From(tags, n)
    <3> HIDE DEF A
    <3>1. Moved(A \cup L, -n) = Moved(A, -n) \cup Moved(L, -n)
      BY MovedUnion
    <3> QED
      BY <1>7, <3>1 DEF A
<1>10. Agreed(n, d, M, tags, due)
  <2> HIDE DEF L
  <2> QED
    BY <1>6, <1>8, <1>9 DEF Agreed
<1> QED
  BY <1>10 DEF tags, due

\* One of the two tags, where it is due, and what a call that makes done of
\* its input adds.
OneTag(n, arrived, done, tag, due, d, F, P, N, M) ==
    /\ tag \in {"LTS1", "LTS2"} /\ due \in {"due1", "due2"}
    /\ d \in Int /\ d >= -Back
    /\ F \in SUBSET Int /\ P \in SUBSET Int
    /\ N \in SUBSET Int /\ M \in SUBSET Int
    /\ At(View, due) = At(View, tag) \cup Moved(F, d)
    /\ At(arrived, tag) = {} /\ At(arrived, due) = Moved(P, d)
    /\ At(done, tag) = At(Input(n, arrived), tag) \cup Moved(F \cup N, d)
    /\ At(done, due) = At(Input(n, arrived), due)
    /\ Moved(P, Carry) = N \cup Moved(M, n)
    /\ \A q \in M : q - Back >= 0

LEMMA OneTagKept ==
  ASSUME TypeOK, Clear, NEW n \in Batches, NEW c \in BOOLEAN,
         NEW arrived \in Arrivals(n, c), NEW share, Work(n, arrived, share),
         NEW done, done = Tagged(Input(n, arrived), n),
         NEW tag, NEW due, NEW d, NEW F, NEW P, NEW N, NEW M,
         OneTag(n, arrived, done, tag, due, d, F, P, N, M)
  PROVE  /\ At(View', due) = At(View', tag) \cup Moved(M, d)
         /\ At(output_buffer', tag) = At(output_buffer', due)
<1> DEFINE T == At(View, tag)
           D == At(View, due)
           tags == T \cup Moved(F \cup N, d)
           all == D \cup Moved(Moved(P, d), Carry)
<1>1. /\ n \in Nat /\ n > Carry /\ Carry \in Nat /\ Back \in Nat
      /\ n + Carry \in Int /\ n <= n + Carry
  BY Sizes
<1>2. /\ T \in SUBSET Int /\ D \in SUBSET Int
      /\ \A z \in T : z < n + Carry
  BY <1>1, ViewAt
<1>3. \A q \in M : q + d >= 0
  <2> SUFFICES ASSUME NEW q \in M PROVE q + d >= 0
    OBVIOUS
  <2>1. q \in Int /\ q - Back >= 0 /\ d \in Int /\ d >= -Back
    BY DEF OneTag
  <2> QED
    BY <1>1, <2>1
<1>4. /\ Below(tags, n) = Below(all, n)
      /\ Moved(From(all, n), -n) = Moved(From(tags, n), -n) \cup Moved(M, d)
  <2> HIDE DEF T, D
  <2>1. D = T \cup Moved(F, d)
    BY DEF OneTag, T, D
  <2>2. Consistent(n, d, T, D, F, P, N, M)
    BY <1>1, <1>2, <1>3, <2>1 DEF Consistent, OneTag
  <2>3. Agreed(n, d, M, tags, all)
    BY <2>2, TagsAgree
  <2> QED
    BY <2>3 DEF Agreed
<1>5. At(done, tag) = tags
  <2>1. At(Input(n, arrived), tag) = Below(T \cup Moved({}, Carry), n + Carry)
    <3>1. At(Input(n, arrived), tag) = Below(All(arrived, tag), n + Carry)
      BY InputAt
    <3>2. At(arrived, tag) = {}
      BY DEF OneTag
    <3> QED
      BY <3>1, <3>2 DEF All
  <2>2. Moved({}, Carry) = {} /\ Below({}, n + Carry) = {}
    BY DEF Moved, Below
  <2> HIDE DEF T
  <2>3. Below(T \cup {}, n + Carry) = T \cup Below({}, n + Carry)
    BY <1>1, <1>2, BelowLow
  <2> QED
    BY <2>1, <2>2, <2>3 DEF OneTag
<1>6. At(done, due) = Below(all, n + Carry)
  <2>1. At(Input(n, arrived), due) = Below(All(arrived, due), n + Carry)
    BY InputAt
  <2> QED
    BY <2>1 DEF All, OneTag
<1>7. At(output_buffer', tag) = Below(tags, n)
  <2>1. output_buffer' = {m \in done : m.at < n}
    BY DEF Work, Input
  <2>2. At({m \in done : m.at < n}, tag) = Below(At(done, tag), n)
    BY AtBelow
  <2> HIDE DEF tags
  <2> QED
    BY <1>5, <2>1, <2>2
<1>8. At(output_buffer', due) = Below(all, n)
  <2>1. output_buffer' = {m \in done : m.at < n}
    BY DEF Work, Input
  <2>2. Moved(Moved(P, d), Carry) \in SUBSET Int
    <3>1. Moved(P, d) \in SUBSET Int
      BY PartsInt DEF OneTag
    <3>2. Carry \in Int
      BY <1>1
    <3> QED
      BY <3>1, <3>2, PartsInt
  <2>3. all \in SUBSET Int
    <3> HIDE DEF D
    <3> QED
      BY <1>2, <2>2
  <2> HIDE DEF all
  <2>4. Below(Below(all, n + Carry), n) = Below(all, n)
    <3>1. n \in Int
      BY <1>1
    <3> QED
      BY <1>1, <2>3, <3>1, BelowTwice
  <2>5. At({m \in done : m.at < n}, due) = Below(At(done, due), n)
    BY AtBelow
  <2> QED
    BY <1>6, <2>1, <2>4, <2>5
<1>9. At(View', due) = Moved(From(all, n), -n)
  <2>1. At(View', due) = Moved(From(All(arrived, due), n), -n)
    <3>1. due \in {"STS_END", "peak", "due1", "due2"}
      BY DEF OneTag
    <3> QED
      BY <3>1, CallAt
  <2> QED
    BY <2>1 DEF All, OneTag
<1>10. At(View', tag) = Moved(From(tags, n), -n)
  <2>1. At(View', tag) = Moved(From(At(done, tag), n), -n)
                           \cup Moved(From({}, n), Carry - n)
    <3>1. At(View', tag) = Moved(From(At(done, tag), n), -n)
                             \cup Moved(From(At(arrived, tag), n), Carry - n)
      BY ViewAfter
    <3>2. At(arrived, tag) = {}
      BY DEF OneTag
    <3> QED
      BY <3>1, <3>2
  <2>2. From({}, n) = {} /\ Moved({}, Carry - n) = {}
    BY DEF From, Moved
  <2> HIDE DEF tags
  <2> QED
    BY <1>5, <2>1, <2>2
<1> HIDE DEF tags, all
<1> QED
  BY <1>4, <1>7, <1>8, <1>9, <1>10

LEMMA TagsKept ==
  ASSUME TypeOK, TagInv, NEW n \in Batches, NEW c \in BOOLEAN,
         NEW arrived \in Arrivals(n, c), NEW share, Work(n, arrived, share)
  PROVE  TagInv'
<1> DEFINE input == Input(n, arrived)
           done == Tagged(input, n)
           F == Firsts(View, Carry)
<1>1. n \in Nat /\ Carry \in Nat /\ Lts \in Nat /\ Back \in Nat
  BY Sizes
<1>2. PICK P, N, M \in SUBSET Int :
        /\ At(arrived, "LTS1") = {} /\ At(arrived, "LTS2") = {}
        /\ At(arrived, "due1") = Moved(P, -Back)
        /\ At(arrived, "due2") = Moved(P, Lts - Back)
        /\ Firsts(input, n) = F \cup N
        /\ Firsts(View', Carry) = M
        /\ Moved(P, Carry) = N \cup Moved(M, n)
        /\ \A q \in M : q - Back >= 0
  BY CallFinds DEF TagInv
<1>3. F \in SUBSET Int
  <2>1. View \subseteq Marks(2 * Carry - 1) /\ 2 * Carry - 1 \in Int
    BY <1>1, ViewAt
  <2> QED
    BY <2>1, FirstsInt
<1>4. /\ At(done, "LTS1") = At(input, "LTS1") \cup Moved(F \cup N, -Back)
      /\ At(done, "LTS2") = At(input, "LTS2") \cup Moved(F \cup N, Lts - Back)
      /\ At(done, "due1") = At(input, "due1")
      /\ At(done, "due2") = At(input, "due2")
  <2>1. input \in SUBSET Marks(n + Carry - 1) /\ n + Carry - 1 \in Int
    BY <1>1, CallMarks DEF Seen
  <2> DEFINE all == Firsts(input, n)
  <2> HIDE DEF input
  <2>2. /\ At(done, "LTS1") = At(input, "LTS1") \cup Moved(all, -Back)
        /\ At(done, "LTS2") = At(input, "LTS2") \cup Moved(all, Lts - Back)
        /\ \A w \in {"STS_END", "peak", "due1", "due2"} :
             At(done, w) = At(input, w)
    BY <2>1, TaggedAt
  <2> HIDE DEF F, done
  <2> QED
    BY <1>2, <2>2
<1>5. /\ At(View, "due1") = At(View, "LTS1") \cup Moved(F, -Back)
      /\ At(View, "due2") = At(View, "LTS2") \cup Moved(F, Lts - Back)
      /\ Clear
  BY DEF TagInv, Settled
<1>6. -Back \in Int /\ Lts - Back \in Int /\ -Back >= -Back /\ Lts - Back >= -Back
  BY <1>1
<1> HIDE DEF F, done
<1>7. /\ At(View', "due1") = At(View', "LTS1") \cup Moved(M, -Back)
      /\ At(output_buffer', "LTS1") = At(output_buffer', "due1")
  <2>1. OneTag(n, arrived, done, "LTS1", "due1", -Back, F, P, N, M)
    BY <1>2, <1>3, <1>4, <1>5, <1>6 DEF OneTag
  <2> QED
    BY <1>5, <2>1, OneTagKept DEF done
<1>8. /\ At(View', "due2") = At(View', "LTS2") \cup Moved(M, Lts - Back)
      /\ At(output_buffer', "LTS2") = At(output_buffer', "due2")
  <2>1. OneTag(n, arrived, done, "LTS2", "due2", Lts - Back, F, P, N, M)
    BY <1>2, <1>3, <1>4, <1>5, <1>6 DEF OneTag
  <2> QED
    BY <1>5, <2>1, OneTagKept DEF done
<1>9. Clear'
  BY <1>5, ClearKept
<1> QED
  BY <1>2, <1>7, <1>8, <1>9 DEF TagInv, Settled, TagsFollowStream

(***************************************************************************)
(* The types, for every size of the batches: no tag of a preamble ever     *)
(* reaches past the carry-over of the call that writes it, and every       *)
(* sample tagged is in the buffer (timing_sync.cpp:86-202).                *)
(***************************************************************************)
THEOREM TypeCorrect == Spec => []TypeOK
<1>1. IInv => TypeOK
  BY DEF IInv
<1> QED
  BY <1>1, InitOK, NextKeeps, PTL DEF Spec

(***************************************************************************)
(* A frequency estimate is never in force more than Reset samples and one  *)
(* batch after the last LTS that was found, whatever the sizes of the      *)
(* batches are and wherever they cut the frames (timing_sync.cpp:177-192). *)
(***************************************************************************)
THEOREM NoEstimateOutlived == Spec => []EstimateNotOutlived
<1>1. IInv => EstimateNotOutlived
  BY MaxBatchBounds, TimingAssumption
  DEF IInv, TypeOK, Counted, EstimateNotOutlived
<1> QED
  BY <1>1, InitOK, NextKeeps, PTL DEF Spec

(***************************************************************************)
(* The tags on the samples passed on do not depend on where the batches    *)
(* are cut: every frame's symbols carry them at the right sample, and      *)
(* nothing else does, except that a frame whose STS_END falls on the first *)
(* samples of the searched buffer is lost (timing_sync.cpp:105-137,        *)
(* 194-202).                                                               *)
(***************************************************************************)
THEOREM TagsRight == Spec => []TagsFollowStream
<1>1. Init => TagInv
  <2> SUFFICES ASSUME Init PROVE TagInv
    OBVIOUS
  <2>1. m_carryover = {} /\ View = {} /\ ahead = {} /\ output_buffer = {}
    BY DEF Init, View, Shift
  <2>2. \A w : At({}, w) = {}
    BY DEF At
  <2>3. Firsts(View, Carry) = {}
    BY <2>1, <2>2 DEF Firsts, FoundIn, Searched
  <2>4. \A k : Moved({}, k) = {}
    BY DEF Moved
  <2> QED
    BY <2>1, <2>2, <2>3, <2>4
    DEF TagInv, Settled, Clear, TagsFollowStream
<1>2. IInv /\ TagInv /\ [Next]_vars => TagInv'
  <2> SUFFICES ASSUME IInv, TagInv, [Next]_vars PROVE TagInv'
    OBVIOUS
  <2>1. CASE Next
    <3>1. (clip >= Heavy) \in BOOLEAN
      BY TimingAssumption DEF IInv, TypeOK
    <3>2. PICK n \in Batches :
            \E arrived \in Arrivals(n, clip >= Heavy), share \in Fractions :
              Work(n, arrived, share)
      BY <2>1 DEF Next
    <3> QED
      BY <3>1, <3>2, TagsKept DEF IInv
  <2>2. CASE UNCHANGED vars
    BY <2>2 DEF vars, TagInv, Settled, Clear, TagsFollowStream, View
  <2> QED
    BY <2>1, <2>2
<1>3. TagInv => TagsFollowStream
  BY DEF TagInv
<1> QED
  BY <1>1, <1>2, <1>3, InitOK, NextKeeps, PTL DEF Spec

(***************************************************************************)
(* Nothing is learnt from a preamble in a heavily clipped batch, whichever *)
(* of two averages the gate reads (timing_sync.cpp:153,                    *)
(* rx_power_monitor.h:40-57).                                              *)
(***************************************************************************)
THEOREM NoClippedEstimate == Spec => []NotLearntFromClipped
<1>1. Init => ClipInv
  <2> SUFFICES ASSUME Init PROVE ClipInv
    OBVIOUS
  <2>1. clip \in Nat /\ clip_fraction = (3 * clip) \div 10 /\ Heavy \in Nat
    BY TimingAssumption DEF Init
  <2>2. clip >= Heavy => clip_fraction >= Fresh
    BY <2>1 DEF Fresh
  <2> QED
    BY <2>2 DEF Init, ClipInv, At
<1>2. IInv /\ ClipInv /\ [Next]_vars => ClipInv'
  <2> SUFFICES ASSUME IInv, ClipInv, [Next]_vars PROVE ClipInv'
    OBVIOUS
  <2>1. CASE Next
    BY <2>1, ClipKept DEF Next
  <2>2. CASE UNCHANGED vars
    BY <2>2 DEF vars, ClipInv, At
  <2> QED
    BY <2>1, <2>2
<1>3. ClipInv => NotLearntFromClipped
  BY DEF ClipInv, NotLearntFromClipped
<1> QED
  BY <1>1, <1>2, <1>3, InitOK, NextKeeps, PTL DEF Spec
=============================================================================
