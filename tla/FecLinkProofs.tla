---------------------------- MODULE FecLinkProofs ----------------------------
(***************************************************************************)
(* For every range of ids, window, jump limit, vote count, code rate and   *)
(* number of faults.  Of the decoder on its own, whatever arrives: its     *)
(* state stays within its window, and the window only moves forward until  *)
(* the watchdog drops it.  Of the link: any K packets deliver a            *)
(* generation, once and unmixed, and HealTime generations after the last   *)
(* fault every one is delivered.                                           *)
(*                                                                         *)
(* DecoderTypeOK and WindowBound together are inductive.  The heart of the *)
(* argument is arithmetic on a circle of 2 * Half ids: as LargeJump +      *)
(* Window < Half, a window and a jump never reach round to each other, so  *)
(* the order that the 16-bit casts compute is the true one near a window.  *)
(*                                                                         *)
(* LinkInv is the inductive invariant of the link.  It follows the place   *)
(* of the stream on the circle, seen from the decoder's baseline: near the *)
(* window packets get in, far from it they are voted for, and behind it    *)
(* they are counted.  What the decoder has counted bounds how far the      *)
(* stream can have run on, so that it never comes round to the baseline    *)
(* it left, and bounds the generations that pass before the watchdog.      *)
(*                                                                         *)
(* Of the link with a spreader, the last part, which needs nothing that is *)
(* assumed of the link: it implements the decoder, and a fade of R packets *)
(* for each row of a block is mended.  SpreadInv says where the block on   *)
(* the air is in the columns, and that what the decoder lacks of a row is  *)
(* what the run of lost packets took from it.                              *)
(***************************************************************************)
EXTENDS FecLink, SpreadLink, TLAPS, FiniteSetTheorems, SequenceTheorems

-----------------------------------------------------------------------------
(* The decoder on its own *)

IInv == DecoderTypeOK /\ WindowBound

-----------------------------------------------------------------------------
(* Arithmetic on ids *)

\* The 16-bit difference of two ids lies in half the circle either way.
LEMMA DiffType ==
  ASSUME NEW a \in GenId, NEW b \in GenId
  PROVE  /\ Diff(a, b) \in Int
         /\ -Half <= Diff(a, b) /\ Diff(a, b) < Half
         /\ Diff(a, a) = 0
BY DecoderAssumption DEF Diff, GenId

\* A window that ends at g starts Window - 1 ids before it, across the wrap too.
LEMMA StartType ==
  ASSUME NEW g \in GenId
  PROVE  /\ WindowStart(g) \in GenId
         /\ Diff(g, WindowStart(g)) = Window - 1
BY DecoderAssumption DEF Diff, GenId, WindowStart

\* Pulling the window up to a generation that is at most LargeJump ahead.
LEMMA PullForward ==
  ASSUME NEW base \in GenId, NEW g \in GenId,
         Diff(g, base) \in Window .. LargeJump
  PROVE  /\ Diff(WindowStart(g), base) > 0
         /\ Diff(WindowStart(g), g) <= 0
         /\ \A k \in GenId : Diff(k, base) \in 0 .. Window - 1 =>
              IF Diff(WindowStart(g), k) <= 0
                THEN Diff(k, WindowStart(g)) \in 0 .. Window - 1
                ELSE Diff(k, WindowStart(g)) < 0
BY DecoderAssumption DEF Diff, GenId, WindowStart

\* Moving it to a generation so far ahead that the vote had to decide.
LEMMA JumpForward ==
  ASSUME NEW base \in GenId, NEW g \in GenId,
         ~(Diff(base, g) > 0), ~(Diff(g, base) \in 0 .. LargeJump)
  PROVE  /\ Diff(WindowStart(g), base) > 0
         /\ \A k \in GenId : Diff(k, base) \in 0 .. Window - 1 =>
              IF Diff(WindowStart(g), k) <= 0
                THEN Diff(k, WindowStart(g)) \in 0 .. Window - 1
                ELSE Diff(k, WindowStart(g)) < 0
BY DecoderAssumption DEF Diff, GenId, WindowStart

-----------------------------------------------------------------------------
(* Steps of the decoder *)

\* A decoder that was just built satisfies the invariant.
LEMMA InitIInv == Init => IInv
<1> SUFFICES ASSUME Init PROVE IInv
  OBVIOUS
<1>1. 0 \in GenId /\ 0 \in 0 .. Confirm - 1 /\ 0 \in 0 .. Reacquire - 1
  BY DecoderAssumption DEF GenId
<1>2. symbols \in [GenId -> SUBSET (Esi \X Source)]
  BY DEF Init
<1> QED
  BY <1>1, <1>2 DEF Init, IInv, DecoderTypeOK, WindowBound

\* What the tail of process_phy_packet does to a decoder whose generations
\* `kept` lie in the window that starts at `base`.
LEMMA IngestStep ==
  ASSUME NEW g \in GenId, NEW e \in Esi, NEW s \in Source,
         NEW kept \in SUBSET GenId, NEW base \in GenId,
         DecoderTypeOK, kept \subseteq gens,
         \A k \in kept : Diff(k, base) \in 0 .. Window - 1,
         Diff(g, base) \in 0 .. LargeJump,
         Ingest(g, e, s, kept, base)
  PROVE  /\ have_baseline' = TRUE
         /\ consecutive_old' = 0
         /\ baseline' \in GenId
         /\ gens' \in SUBSET GenId /\ g \in gens'
         /\ symbols' \in [GenId -> SUBSET (Esi \X Source)]
         /\ completed' \in SUBSET gens'
         /\ out' \in SUBSET Source
         /\ \A k \in gens' : Diff(k, baseline') \in 0 .. Window - 1
         /\ Diff(baseline', base) >= 0
         /\ Diff(g, base) < Window => baseline' = base
         /\ \A k \in kept \ gens' : Diff(k, baseline') < 0
<1> USE DEF DecoderTypeOK
<1> have_baseline' = TRUE /\ consecutive_old' = 0
  BY DEF Ingest
<1>d. Diff(base, base) = 0
  BY DiffType
<1>1. CASE g \in kept \cap completed
  <2>1. /\ gens' = kept
        /\ completed' = completed \cap kept
        /\ symbols' = [k \in GenId |-> IF k \in kept THEN symbols[k] ELSE {}]
        /\ baseline' = base
        /\ out' = {}
    BY <1>1 DEF Ingest
  <2> QED
    BY <2>1, <1>d, <1>1
<1>2. CASE ~(g \in kept \cap completed)
  <2> DEFINE syms == WithSymbol(IF g \in kept THEN symbols[g] ELSE {}, e, s)
             floor == IF Diff(g, base) >= Window THEN WindowStart(g) ELSE base
             left == IF floor = base THEN kept \cup {g}
                                     ELSE (kept \cup {g}) \cap NotBehind(floor)
  <2>1. /\ gens' = left
        /\ completed' = (completed \cap left) \cup (IF Decodes(syms) THEN {g} ELSE {})
        /\ symbols' = [k \in GenId |->
                         IF k = g THEN (IF Decodes(syms) THEN {} ELSE syms)
                         ELSE IF k \in left THEN symbols[k] ELSE {}]
        /\ baseline' = floor
        /\ out' = IF Decodes(syms) THEN {y[2] : y \in syms} ELSE {}
    BY <1>2 DEF Ingest
  <2>2. syms \in SUBSET (Esi \X Source)
    BY DEF WithSymbol
  <2>3. out' \in SUBSET Source
    BY <2>1, <2>2
  <2>4. /\ floor \in GenId
        /\ left \in SUBSET GenId
        /\ g \in left
        /\ \A k \in left : Diff(k, floor) \in 0 .. Window - 1
        /\ Diff(floor, base) >= 0
        /\ Diff(g, base) < Window => floor = base
        /\ \A k \in kept \ left : Diff(k, floor) < 0
    <3>1. CASE Diff(g, base) >= Window
      <4>1. floor = WindowStart(g) /\ floor \in GenId /\ Diff(g, floor) = Window - 1
        BY <3>1, StartType
      <4>2. Diff(g, base) \in Window .. LargeJump
        BY <3>1, DecoderAssumption
      <4>3. /\ Diff(floor, base) > 0
            /\ Diff(floor, g) <= 0
            /\ \A k \in GenId : Diff(k, base) \in 0 .. Window - 1 =>
                 IF Diff(floor, k) <= 0
                   THEN Diff(k, floor) \in 0 .. Window - 1
                   ELSE Diff(k, floor) < 0
        BY <4>1, <4>2, PullForward
      <4>4. floor # base
        BY <4>3, <1>d
      <4>5. left = (kept \cup {g}) \cap {k \in GenId : Diff(floor, k) <= 0}
        BY <4>4 DEF NotBehind
      <4> HIDE DEF floor, left
      <4>6. Window - 1 \in 0 .. Window - 1
        BY DecoderAssumption
      <4>7. g \in left
        BY <4>5, <4>3
      <4>8. \A k \in left : Diff(k, floor) \in 0 .. Window - 1
        BY <4>1, <4>3, <4>5, <4>6
      <4>9. \A k \in kept \ left : Diff(k, floor) < 0
        BY <4>3, <4>5
      <4>10. Diff(floor, base) >= 0 /\ ~(Diff(g, base) < Window)
        BY <4>1, <4>3, <3>1, DiffType, DecoderAssumption
      <4> QED
        BY <4>1, <4>5, <4>7, <4>8, <4>9, <4>10
    <3>2. CASE ~(Diff(g, base) >= Window)
      <4>1. floor = base /\ left = kept \cup {g}
        BY <3>2
      <4> HIDE DEF floor, left
      <4>2. Diff(g, base) \in 0 .. Window - 1
        BY <3>2, DecoderAssumption
      <4> QED
        BY <4>1, <4>2, <1>d
    <3> QED
      BY <3>1, <3>2
  <2> HIDE DEF syms, floor, left
  <2>5. symbols' \in [GenId -> SUBSET (Esi \X Source)]
    BY <2>1, <2>2
  <2>6. completed' \in SUBSET gens'
    BY <2>1, <2>4
  <2> QED
    BY <2>1, <2>3, <2>4, <2>5, <2>6
<1> QED
  BY <1>1, <1>2

\* What a packet may do to the window, whatever its header says.
Forward ==
  have_baseline /\ have_baseline' =>
    /\ Diff(baseline', baseline) >= 0
    /\ \A g \in gens \ gens' : Diff(g, baseline') < 0

\* One packet keeps the invariant and never moves the window back.
LEMMA PacketStep ==
  ASSUME NEW g \in GenId, NEW e \in Esi, NEW s \in Source,
         IInv, Packet(g, e, s)
  PROVE  IInv' /\ Forward
<1> USE DEF IInv, DecoderTypeOK, WindowBound
<1>0. /\ baseline \in GenId /\ Base(g) \in GenId
      /\ Diff(g, g) = 0 /\ Diff(baseline, baseline) = 0
      /\ Diff(g, Base(g)) \in Int
  BY DiffType DEF Base
<1>1. CASE DropOld(g)
  <2>1. CASE consecutive_old + 1 >= Reacquire
    <3>1. Resync /\ out' = {}
      BY <1>1, <2>1 DEF DropOld
    <3>2. symbols' \in [GenId -> SUBSET (Esi \X Source)]
      BY <3>1 DEF Resync
    <3>3. 0 \in 0 .. Confirm - 1 /\ 0 \in 0 .. Reacquire - 1
      BY DecoderAssumption
    <3> QED
      BY <3>1, <3>2, <3>3 DEF Resync, Forward
  <2>2. CASE ~(consecutive_old + 1 >= Reacquire)
    <3>1. /\ consecutive_old' = consecutive_old + 1
          /\ UNCHANGED <<state, have_baseline, baseline, jump_candidate, jump_votes>>
          /\ out' = {}
      BY <1>1, <2>2 DEF DropOld
    <3>2. consecutive_old' \in 0 .. Reacquire - 1
      BY <3>1, <2>2, DecoderAssumption
    <3> QED
      BY <3>1, <3>2, <1>0 DEF state, Forward
  <2> QED
    BY <2>1, <2>2
<1>2. CASE Quarantine(g)
  <2>1. Votes(g) \in 0 .. Confirm - 1
    BY <1>2, DecoderAssumption DEF Quarantine, Votes, Agrees
  <2> QED
    BY <1>2, <2>1, <1>0 DEF Quarantine, state, Forward
<1>3. CASE Accept(g, e, s)
  <2>1. PICK kept, base : kept = gens /\ base = Base(g)
    OBVIOUS
  <2>2. kept \in SUBSET GenId /\ base \in GenId /\ kept \subseteq gens
    BY <2>1, <1>0
  <2>3. \A k \in kept : Diff(k, base) \in 0 .. Window - 1
    BY <2>1 DEF Base
  <2>4. Diff(g, base) \in 0 .. LargeJump
    BY <1>3, <2>1 DEF Accept, IsNear
  <2>5. Ingest(g, e, s, kept, base)
    BY <1>3, <2>1 DEF Accept, Ingest
  <2>6. UNCHANGED <<jump_candidate, jump_votes>> /\ 0 \in 0 .. Reacquire - 1
    BY <1>3, DecoderAssumption DEF Accept
  <2>7. /\ have_baseline' = TRUE
        /\ consecutive_old' = 0
        /\ baseline' \in GenId
        /\ gens' \in SUBSET GenId
        /\ symbols' \in [GenId -> SUBSET (Esi \X Source)]
        /\ completed' \in SUBSET gens'
        /\ out' \in SUBSET Source
        /\ \A k \in gens' : Diff(k, baseline') \in 0 .. Window - 1
        /\ Diff(baseline', base) >= 0
        /\ \A k \in kept \ gens' : Diff(k, baseline') < 0
    BY <2>2, <2>3, <2>4, <2>5, IngestStep
  <2>8. Forward
    BY <2>1, <2>7 DEF Forward, Base
  <2> QED
    BY <2>6, <2>7, <2>8
<1>4. CASE Believe(g, e, s)
  <2>1. PICK kept, base : /\ kept = gens \cap NotBehind(WindowStart(g))
                          /\ base = WindowStart(g)
    OBVIOUS
  <2>2. /\ kept \in SUBSET GenId /\ base \in GenId /\ kept \subseteq gens
        /\ Diff(g, base) = Window - 1
    BY <2>1, StartType
  <2>3. have_baseline /\ Base(g) = baseline
    <3>1. ~IsOld(g) /\ ~(Diff(g, Base(g)) \in 0 .. LargeJump)
      BY <1>4 DEF Believe, IsFar
    <3>2. 0 \in 0 .. LargeJump
      BY DecoderAssumption
    <3> QED
      BY <3>1, <3>2, <1>0 DEF Base
  <2>4. /\ Diff(base, baseline) > 0
        /\ \A k \in GenId : Diff(k, baseline) \in 0 .. Window - 1 =>
             IF Diff(base, k) <= 0
               THEN Diff(k, base) \in 0 .. Window - 1
               ELSE Diff(k, base) < 0
    BY <1>4, <2>1, <2>3, <1>0, JumpForward DEF Believe, IsFar, IsOld
  <2>5. \A k \in kept : Diff(k, base) \in 0 .. Window - 1
    BY <2>1, <2>4 DEF NotBehind
  <2>6. \A k \in gens \ kept : Diff(k, base) < 0
    BY <2>1, <2>4 DEF NotBehind
  <2>7. Ingest(g, e, s, kept, base)
    BY <1>4, <2>1 DEF Believe, Ingest
  <2>8. Diff(g, base) \in 0 .. LargeJump /\ Diff(g, base) < Window
    BY <2>2, DecoderAssumption
  <2>9. /\ have_baseline' = TRUE
        /\ consecutive_old' = 0
        /\ gens' \in SUBSET GenId
        /\ symbols' \in [GenId -> SUBSET (Esi \X Source)]
        /\ completed' \in SUBSET gens'
        /\ out' \in SUBSET Source
        /\ \A k \in gens' : Diff(k, baseline') \in 0 .. Window - 1
        /\ baseline' = base
        /\ \A k \in kept \ gens' : Diff(k, baseline') < 0
    BY <2>2, <2>5, <2>7, <2>8, IngestStep
  <2>10. /\ jump_votes' \in 0 .. Confirm - 1
         /\ jump_candidate' \in GenId
         /\ 0 \in 0 .. Reacquire - 1
    BY <1>4, DecoderAssumption DEF Believe
  <2>11. Diff(baseline', baseline) >= 0
    BY <2>2, <2>4, <2>9, <1>0, DiffType
  <2>12. \A k \in gens \ gens' : Diff(k, baseline') < 0
    BY <2>6, <2>9
  <2>13. Forward
    BY <2>11, <2>12 DEF Forward
  <2> QED
    BY <2>2, <2>9, <2>10, <2>13
<1> QED
  BY <1>1, <1>2, <1>3, <1>4 DEF Packet

\* Every packet keeps the invariant and moves the window forward or drops it.
LEMMA NextStep == IInv /\ [Next]_decoder => IInv' /\ (Forward \/ UNCHANGED decoder)
<1>1. ASSUME IInv, Next PROVE IInv' /\ Forward
  BY <1>1, PacketStep DEF Next
<1>2. ASSUME IInv, UNCHANGED decoder PROVE IInv'
  BY <1>2 DEF IInv, DecoderTypeOK, WindowBound, decoder
<1> QED
  BY <1>1, <1>2

-----------------------------------------------------------------------------
(* Theorems *)

\* The inductive invariant holds throughout every behaviour of the decoder.
THEOREM DecoderInvariant == Spec => []IInv
BY InitIInv, NextStep, PTL DEF Spec

\* Every field of the decoder keeps its type, for all packet sequences.
THEOREM DecoderTyped == Spec => []DecoderTypeOK
BY DecoderInvariant, PTL DEF IInv

\* No packet sequence makes m_gens hold anything outside its window.
THEOREM DecoderWindowBound == Spec => []WindowBound
BY DecoderInvariant, PTL DEF IInv

\* Short of the watchdog, no packet sequence moves the window back or makes
\* it forget what it still covers.
THEOREM DecoderNeverBack == Spec => NeverBack
<1>1. IInv /\ [Next]_decoder =>
        [have_baseline /\ have_baseline' =>
           /\ Diff(baseline', baseline) >= 0
           /\ \A g \in gens \ gens' : Diff(g, baseline') < 0]_decoder
  BY NextStep DEF Forward
<1> QED
  BY <1>1, DecoderInvariant, PTL DEF Spec, NeverBack

-----------------------------------------------------------------------------
(* The link: where the stream is, and the invariant *)

\* The packets of a generation.
Size == K + R

\* How far id a is past id b on the circle.
Ahead(a, b) == IF a >= b THEN a - b ELSE a - b + 2 * Half

\* Where the generation being sent is, seen from the decoder's baseline.
Pos == Ahead(Current, baseline)
Near == have_baseline /\ Pos <= LargeJump
Far == have_baseline /\ LargeJump < Pos /\ Pos <= Half
Old == have_baseline /\ Half < Pos

\* The packets of this generation that have gone by have all voted for it.
Voted ==
  esi > 0 => jump_votes >= esi /\ Diff(Current, jump_candidate) \in -Window .. Window

\* The indices and the sources of a set of symbols.
Indices(set) == {y[1] : y \in set}
Origins(set) == {y[2] : y \in set}

\* A generation whose packets lie here undecoded lacks some, and nothing is
\* kept of one that is not here.
Undecoded ==
  \A g \in GenId : /\ ~Decodes(symbols[g])
                   /\ g \notin gens => symbols[g] = {}

\* n packets of this generation are in, and they and no others are in its
\* decoder; or it has been delivered.
Collecting(n) ==
  ~decoded =>
    /\ n > 0 => Current \in gens
    /\ Current \notin completed
    /\ symbols[Current] \subseteq (0 .. esi - 1) \X {Made}
    /\ Cardinality(Indices(symbols[Current])) >= n

\* As long as nothing spoiled the decoder: the stream has not gone round to the
\* baseline again.
Bounded ==
  /\ outage < MaxOutage => Pos < outage + Window
  /\ outage = MaxOutage /\ ~Old => Pos < MaxOutage + Window
  /\ outage = MaxOutage /\ Old =>
       (Pos + 1 - MaxOutage - Window) * Size + esi <= consecutive_old

Unspoiled ==
  ~spoiled =>
    /\ run = 0
    /\ have_baseline => Bounded
    /\ ~Old => consecutive_old <= corrupted
    /\ outage = MaxOutage /\ Near => esi = 0
    /\ outage = MaxOutage /\ Far => Voted
    /\ \A g \in gens : /\ Ahead(g, baseline) <= Pos
                       /\ \A y \in symbols[g] : y[2] = <<run, g>>
    /\ decoded => Current \in completed

Reached ==
  reach => ~spoiled /\ (have_baseline => Near) /\ Collecting(arrived)

\* Since the last fault every packet has arrived.
Healing ==
  good > 0 =>
    /\ Old => (good - 1) * Size + esi <= consecutive_old
    /\ Far => good = 1 /\ Voted
    /\ Near => /\ esi > 0 => Pos < Window
               /\ \A g \in gens :
                    Diff(g, Current) > 0 => Diff(g, Current) + good <= HealTime
    /\ ~have_baseline => good + Window <= HealTime + (IF esi = 0 THEN 2 ELSE 1)
    /\ good > HealTime => Collecting(esi)

LinkInv ==
  /\ TypeOK /\ WindowBound /\ arrived <= esi
  /\ Undecoded /\ Unspoiled /\ Reached /\ Healing

-----------------------------------------------------------------------------
(* The circle and the sizes *)

LEMMA Sizes ==
  /\ Size \in Nat /\ Size > 0 /\ Size >= Confirm /\ Size >= K /\ K \in Nat /\ K >= 1
  /\ HealTime \in Nat /\ HealTime >= Window /\ Window \in Nat /\ Window >= 2
  /\ Confirm \in Nat /\ Confirm >= 1 /\ Reacquire \in Nat /\ Reacquire >= 1
  /\ (HealTime - Window) * Size <= Reacquire - 1
  /\ Reacquire - 1 < (HealTime - Window + 1) * Size
<1> DEFINE X == Reacquire - 1
           Q == X \div Size
<1>1. Size \in Nat /\ Size > 0 /\ X \in Nat /\ Window \in Nat
  BY DecoderAssumption, LinkAssumption DEF Size
<1>2. HealTime = Q + Window
  BY DEF HealTime, Size
<1>3. Q \in Nat /\ Q * Size <= X /\ X < (Q + 1) * Size
  <2> HIDE DEF X
  <2>1. Q \in Nat /\ Size * Q <= X /\ X < Size * Q + Size
    BY <1>1
  <2> HIDE DEF Q
  <2> QED
    BY <1>1, <2>1
<1> HIDE DEF Q
<1>4. HealTime - Window = Q
  BY <1>1, <1>2, <1>3
<1>5. HealTime \in Nat /\ HealTime >= Window
  BY <1>1, <1>2, <1>3
<1>6. (HealTime - Window) * Size <= X /\ X < (HealTime - Window + 1) * Size
  BY <1>3, <1>4
<1> QED
  BY <1>1, <1>5, <1>6, DecoderAssumption, LinkAssumption DEF Size

\* The order of the casts is that of the circle.
LEMMA AheadDiff ==
  ASSUME NEW a \in GenId, NEW b \in GenId
  PROVE  /\ Ahead(a, b) \in 0 .. 2 * Half - 1 /\ Half \in Nat
         /\ Diff(a, b) = IF Ahead(a, b) < Half THEN Ahead(a, b)
                         ELSE Ahead(a, b) - 2 * Half
         /\ Diff(b, a) > 0 <=> Ahead(a, b) > Half
         /\ Ahead(a, a) = 0
BY DecoderAssumption DEF Ahead, Diff, GenId

\* Two ids less than half a circle past the same one.
LEMMA DiffNear ==
  ASSUME NEW a \in GenId, NEW b \in GenId, NEW c \in GenId,
         Ahead(a, c) < Half, Ahead(b, c) < Half
  PROVE  Diff(a, b) = Ahead(a, c) - Ahead(b, c)
BY DecoderAssumption DEF Ahead, Diff, GenId

\* The generation being sent, and the next.
LEMMA CurrentId ==
  ASSUME gen_id \in GenId
  PROVE  /\ Current \in GenId /\ Half \in Nat /\ Half > 0
         /\ Current = IF gen_id = 0 THEN 2 * Half - 1 ELSE gen_id - 1
         /\ (gen_id + 1) % (2 * Half) \in GenId
         /\ (((gen_id + 1) % (2 * Half)) - 1) % (2 * Half) = gen_id
<1>1. Half \in Nat /\ Half > 0
  BY DecoderAssumption
<1>2. Current = IF gen_id = 0 THEN 2 * Half - 1 ELSE gen_id - 1
  BY <1>1 DEF Current, GenId
<1>3. (gen_id + 1) % (2 * Half) = IF gen_id = 2 * Half - 1 THEN 0 ELSE gen_id + 1
  BY <1>1 DEF GenId
<1>4. gen_id % (2 * Half) = gen_id /\ (-1) % (2 * Half) = 2 * Half - 1
  BY <1>1 DEF GenId
<1> QED
  BY <1>1, <1>2, <1>3, <1>4 DEF GenId

\* One more generation: everything is one further behind.
LEMMA OneOn ==
  ASSUME gen_id \in GenId, NEW b \in GenId
  PROVE  /\ Ahead(gen_id, b) = IF Ahead(Current, b) = 2 * Half - 1 THEN 0
                               ELSE Ahead(Current, b) + 1
         /\ Diff(b, Current) > -Half => Diff(b, gen_id) = Diff(b, Current) - 1
<1>1. /\ Half \in Nat /\ Half > 0
      /\ Current = IF gen_id = 0 THEN 2 * Half - 1 ELSE gen_id - 1
  BY CurrentId
<1> QED
  BY <1>1 DEF Ahead, Diff, GenId

-----------------------------------------------------------------------------
(* A packet that gets in *)

\* What is left of a generation's symbols after one that did not complete it.
LEMMA IndexFinite ==
  ASSUME NEW set \in SUBSET (Esi \X Source)
  PROVE  /\ IsFiniteSet(Indices(set))
         /\ Cardinality(Indices(set)) \in Nat
<1>1. Indices(set) \subseteq 0 .. K + R - 1
  BY LinkAssumption DEF Indices
<1>2. IsFiniteSet(0 .. K + R - 1)
  BY DecoderAssumption, LinkAssumption, FS_Interval
<1> QED
  BY <1>1, <1>2, FS_Subset, FS_CardinalityType

\* No symbols are not enough.
LEMMA NoneDecodes == ~Decodes({})
<1>1. {y[1] : y \in {}} = {}
  OBVIOUS
<1>2. Cardinality({y[1] : y \in {}}) = 0
  BY <1>1, FS_EmptySet, Zenon
<1>3. ~(0 >= K)
  BY DecoderAssumption
<1> QED
  BY <1>2, <1>3 DEF Decodes

\* The tail of process_phy_packet, generation by generation.
Taken(g, e, s) ==
  /\ have_baseline' = TRUE /\ consecutive_old' = 0
  /\ g \in gens' /\ gens' \subseteq gens \cup {g}
  /\ \A k \in GenId \ {g} : symbols'[k] = IF k \in gens' THEN symbols[k] ELSE {}
  /\ \A k \in completed' : k \in completed \/ k = g
  /\ g \in completed => /\ g \in completed' /\ out' = {}
                        /\ symbols'[g] = symbols[g]
  /\ g \notin completed =>
       LET syms == WithSymbol(symbols[g], e, s) IN
       IF Decodes(syms)
         THEN g \in completed' /\ symbols'[g] = {} /\ out' = Origins(syms)
         ELSE g \notin completed' /\ symbols'[g] = syms /\ out' = {}

LEMMA IngestTakes ==
  ASSUME NEW g \in GenId, NEW e \in Esi, NEW s \in Source,
         NEW kept \in SUBSET GenId, NEW base \in GenId,
         DecoderTypeOK, Undecoded, kept \subseteq gens, g \in gens => g \in kept,
         \A k \in kept : Diff(k, base) \in 0 .. Window - 1,
         Diff(g, base) \in 0 .. LargeJump,
         Ingest(g, e, s, kept, base)
  PROVE  Taken(g, e, s)
<1>1. /\ have_baseline' = TRUE /\ consecutive_old' = 0
      /\ g \in gens' /\ gens' \in SUBSET GenId
  BY IngestStep
<1>2. completed \subseteq gens
  BY DEF DecoderTypeOK
<1>3. CASE g \in kept \cap completed
  <2>1. /\ gens' = kept
        /\ completed' = completed \cap kept
        /\ symbols' = [k \in GenId |-> IF k \in kept THEN symbols[k] ELSE {}]
        /\ out' = {}
    BY <1>3 DEF Ingest
  <2>2. \A k \in GenId : symbols'[k] = IF k \in gens' THEN symbols[k] ELSE {}
    BY <2>1
  <2> QED
    BY <1>1, <1>3, <2>1, <2>2 DEF Taken
<1>4. CASE ~(g \in kept \cap completed)
  <2> DEFINE syms == WithSymbol(IF g \in kept THEN symbols[g] ELSE {}, e, s)
             floor == IF Diff(g, base) >= Window THEN WindowStart(g) ELSE base
             left == IF floor = base THEN kept \cup {g}
                                     ELSE (kept \cup {g}) \cap NotBehind(floor)
  <2>1. /\ gens' = left
        /\ completed' = (completed \cap left) \cup (IF Decodes(syms) THEN {g} ELSE {})
        /\ symbols' = [k \in GenId |->
                         IF k = g THEN (IF Decodes(syms) THEN {} ELSE syms)
                         ELSE IF k \in left THEN symbols[k] ELSE {}]
        /\ out' = IF Decodes(syms) THEN {y[2] : y \in syms} ELSE {}
    BY <1>4 DEF Ingest
  <2>2. left \subseteq gens \cup {g}
    OBVIOUS
  <2>3. g \notin completed
    BY <1>2, <1>4
  <2>4. syms = WithSymbol(symbols[g], e, s)
    BY DEF Undecoded
  <2> HIDE DEF syms, left, floor
  <2>5. \A k \in GenId \ {g} : symbols'[k] = IF k \in gens' THEN symbols[k] ELSE {}
    BY <2>1
  <2>6. symbols'[g] = IF Decodes(syms) THEN {} ELSE syms
    BY <2>1
  <2>7. IF Decodes(syms)
          THEN g \in completed' /\ symbols'[g] = {} /\ out' = Origins(syms)
          ELSE g \notin completed' /\ symbols'[g] = syms /\ out' = {}
    BY <2>1, <2>3, <2>6 DEF Origins
  <2> QED
    BY <1>1, <2>1, <2>2, <2>3, <2>4, <2>5, <2>7 DEF Taken
<1> QED
  BY <1>3, <1>4

\* A packet in reach of the window, or one that was voted for.
LEMMA GoesIn ==
  ASSUME IInv, Undecoded, NEW g \in GenId, NEW e \in Esi, NEW s \in Source,
         Accept(g, e, s) \/ Believe(g, e, s)
  PROVE  /\ Taken(g, e, s)
         /\ baseline' \in GenId /\ Diff(g, baseline') \in 0 .. Window - 1
         /\ \/ baseline' = Base(g) /\ jump_votes' = jump_votes
            \/ Diff(g, baseline') = Window - 1
<1> USE DEF IInv, DecoderTypeOK, WindowBound
<1>1. CASE Accept(g, e, s)
  <2>1. PICK kept, base : kept = gens /\ base = Base(g)
    OBVIOUS
  <2>2. kept \in SUBSET GenId /\ base \in GenId /\ kept \subseteq gens
    BY <2>1 DEF Base
  <2>3. \A k \in kept : Diff(k, base) \in 0 .. Window - 1
    BY <2>1 DEF Base
  <2>4. Diff(g, base) \in 0 .. LargeJump
    BY <1>1, <2>1 DEF Accept, IsNear
  <2>5. Ingest(g, e, s, kept, base)
    BY <1>1, <2>1 DEF Accept, Ingest
  <2>6. /\ g \in gens' /\ baseline' \in GenId
        /\ \A k \in gens' : Diff(k, baseline') \in 0 .. Window - 1
        /\ Diff(g, base) < Window => baseline' = base
    BY <2>2, <2>3, <2>4, <2>5, IngestStep
  <2>7. Taken(g, e, s)
    BY <2>1, <2>2, <2>3, <2>4, <2>5, IngestTakes
  <2>8. Diff(g, base) >= Window => Diff(g, baseline') = Window - 1
    <3> SUFFICES ASSUME Diff(g, base) >= Window PROVE Diff(g, baseline') = Window - 1
      OBVIOUS
    <3>1. ~(g \in kept \cap completed)
      BY <2>3, DecoderAssumption
    <3>2. baseline' = WindowStart(g)
      BY <2>5, <3>1 DEF Ingest
    <3> QED
      BY <3>2, StartType
  <2>9. jump_votes' = jump_votes
    BY <1>1 DEF Accept
  <2> QED
    BY <2>1, <2>4, <2>6, <2>7, <2>8, <2>9, DecoderAssumption
<1>2. CASE Believe(g, e, s)
  <2>1. PICK kept, base : /\ kept = gens \cap NotBehind(WindowStart(g))
                          /\ base = WindowStart(g)
    OBVIOUS
  <2>2. /\ kept \in SUBSET GenId /\ base \in GenId /\ kept \subseteq gens
        /\ Diff(g, base) = Window - 1
    BY <2>1, StartType
  <2>3. ~(Diff(baseline, g) > 0) /\ ~(Diff(g, baseline) \in 0 .. LargeJump)
        /\ have_baseline
    <3>1. ~IsOld(g) /\ ~(Diff(g, Base(g)) \in 0 .. LargeJump)
      BY <1>2 DEF Believe, IsFar
    <3>2. 0 \in 0 .. LargeJump
      BY DecoderAssumption
    <3> QED
      BY <3>1, <3>2, DiffType DEF Base, IsOld
  <2>4. \A k \in GenId : Diff(k, baseline) \in 0 .. Window - 1 =>
             IF Diff(base, k) <= 0
               THEN Diff(k, base) \in 0 .. Window - 1
               ELSE Diff(k, base) < 0
    BY <2>1, <2>3, JumpForward
  <2>5. \A k \in kept : Diff(k, base) \in 0 .. Window - 1
    BY <2>1, <2>4 DEF NotBehind
  <2>6. g \notin gens
    BY <2>3, DecoderAssumption
  <2>7. Ingest(g, e, s, kept, base)
    BY <1>2, <2>1 DEF Believe, Ingest
  <2>8. Diff(g, base) \in 0 .. LargeJump /\ Diff(g, base) < Window
    BY <2>2, DecoderAssumption
  <2>9. baseline' = base
    BY <2>2, <2>5, <2>7, <2>8, IngestStep
  <2>10. Taken(g, e, s)
    BY <2>2, <2>5, <2>6, <2>7, <2>8, IngestTakes
  <2> QED
    BY <2>2, <2>9, <2>10, DecoderAssumption
<1> QED
  BY <1>1, <1>2

\* What is kept of a generation never suffices to decode it.
LEMMA UndecodedStep ==
  ASSUME IInv, Undecoded, NEW g \in GenId, NEW e \in Esi, NEW s \in Source,
         Packet(g, e, s)
  PROVE  Undecoded'
<1>1. CASE DropOld(g)
  BY <1>1, NoneDecodes DEF DropOld, Resync, state, Undecoded, Decodes
<1>2. CASE Quarantine(g)
  BY <1>2 DEF Quarantine, state, Undecoded, Decodes
<1>3. CASE Accept(g, e, s) \/ Believe(g, e, s)
  <2>1. Taken(g, e, s)
    BY <1>3, GoesIn
  <2>2. ASSUME NEW k \in GenId, k # g
        PROVE  ~Decodes(symbols'[k]) /\ (k \notin gens' => symbols'[k] = {})
    <3>1. symbols'[k] = IF k \in gens' THEN symbols[k] ELSE {}
      BY <2>1, <2>2 DEF Taken
    <3> QED
      BY <3>1, NoneDecodes DEF Undecoded
  <2>3. g \in gens' /\ ~Decodes(symbols'[g])
    <3> DEFINE syms == WithSymbol(symbols[g], e, s)
    <3>1. /\ g \in gens'
          /\ g \in completed => symbols'[g] = symbols[g]
          /\ g \notin completed =>
               IF Decodes(syms) THEN symbols'[g] = {} ELSE symbols'[g] = syms
      BY <2>1 DEF Taken
    <3> HIDE DEF syms
    <3> QED
      BY <3>1, NoneDecodes DEF Undecoded
  <2>4. \A k \in GenId : ~Decodes(symbols'[k]) /\ (k \notin gens' => symbols'[k] = {})
    BY <2>2, <2>3
  <2> QED
    BY <2>4 DEF Undecoded, Decodes
<1> QED
  BY <1>1, <1>2, <1>3 DEF Packet

\* The indices and the sources of a set of symbols that one joins.
LEMMA OneMore ==
  ASSUME NEW set, NEW m
  PROVE  /\ Indices(set \cup {m}) = Indices(set) \cup {m[1]}
         /\ (\A y \in set : y[2] = m[2]) => Origins(set \cup {m}) = {m[2]}
BY DEF Indices, Origins

\* A packet of the generation being sent, the first with its index.
LEMMA Collects ==
  ASSUME IInv, NEW n \in Nat, Collecting(n), Current \in GenId,
         esi \in 0 .. K + R - 1, Taken(Current, esi, Made),
         decoded' = (decoded \/ out' = {Made})
  PROVE  ~decoded' => /\ Current \in gens' /\ Current \notin completed'
                      /\ symbols'[Current] \subseteq (0 .. esi) \X {Made}
                      /\ Cardinality(Indices(symbols'[Current])) >= n + 1
<1> SUFFICES ASSUME ~decoded'
             PROVE  /\ Current \in gens' /\ Current \notin completed'
                    /\ symbols'[Current] \subseteq (0 .. esi) \X {Made}
                    /\ Cardinality(Indices(symbols'[Current])) >= n + 1
  OBVIOUS
<1> DEFINE set == symbols[Current]
           syms == WithSymbol(set, esi, Made)
           m == <<esi, Made>>
<1>1. /\ Current \notin completed
      /\ set \subseteq (0 .. esi - 1) \X {Made}
      /\ Cardinality(Indices(set)) >= n
  BY DEF Collecting
<1>m. m[1] = esi /\ m[2] = Made
  OBVIOUS
<1>2. syms = set \cup {m}
  <2>1. \A y \in set : y[1] # esi
    BY <1>1
  <2> QED
    BY <2>1 DEF WithSymbol
<1>3. Indices(syms) = Indices(set) \cup {esi}
  <2> HIDE DEF m, syms, set
  <2> QED
    BY <1>m, <1>2, OneMore
<1>4. Origins(syms) = {Made}
  <2>1. \A y \in set : y[2] = m[2]
    BY <1>1, <1>m
  <2> HIDE DEF m, syms, set
  <2> QED
    BY <1>m, <1>2, <2>1, OneMore
<1>5. symbols'[Current] = syms /\ Current \in gens' /\ Current \notin completed'
  <2>1. /\ Current \in gens'
        /\ IF Decodes(syms) THEN out' = Origins(syms)
           ELSE Current \notin completed' /\ symbols'[Current] = syms
    BY <1>1 DEF Taken
  <2> HIDE DEF syms
  <2> QED
    BY <1>4, <2>1
<1>6. esi \notin Indices(set)
  BY <1>1 DEF Indices
<1>7. Cardinality(Indices(syms)) = Cardinality(Indices(set)) + 1
  <2>1. set \in SUBSET (Esi \X Source)
    BY DEF IInv, DecoderTypeOK
  <2>2. IsFiniteSet(Indices(set))
    BY <2>1, IndexFinite
  <2> QED
    BY <1>3, <1>6, <2>2, FS_AddElement
<1>8. syms \subseteq (0 .. esi) \X {Made}
  <2>1. \A y \in set : y \in (0 .. esi) \X {Made}
    BY <1>1
  <2> QED
    BY <1>2, <2>1
<1>9. Cardinality(Indices(set)) \in Nat
  BY IndexFinite DEF IInv, DecoderTypeOK
<1> HIDE DEF set, syms
<1> QED
  BY <1>1, <1>5, <1>7, <1>8, <1>9

-----------------------------------------------------------------------------
(* The encoder's steps *)

\* Products of the size of a generation.
LEMMA Products ==
  ASSUME NEW s \in Nat, NEW a \in Int, NEW b \in Int
  PROVE  /\ (a + b) * s = a * s + b * s
         /\ (a - b) * s = a * s - b * s
         /\ a <= b => a * s <= b * s
         /\ a * s \in Int /\ 1 * s = s /\ 0 * s = 0
OBVIOUS

LEMMA PosType ==
  ASSUME TypeOK
  PROVE  /\ Current \in GenId /\ baseline \in GenId /\ Pos \in 0 .. 2 * Half - 1
         /\ Half \in Nat /\ LargeJump < Half /\ Window <= LargeJump
         /\ Window \in Nat /\ LargeJump \in Nat /\ esi \in Nat
BY CurrentId, AheadDiff, DecoderAssumption, LinkAssumption DEF TypeOK, DecoderTypeOK, Pos

\* The stream does not come round to the baseline it left.
LEMMA NotRound ==
  ASSUME TypeOK, Bounded, have_baseline
  PROVE  Pos + 1 < 2 * Half /\ MaxOutage + Window < 2 * Half
<1>1. /\ Size \in Nat /\ Pos \in Int /\ Half \in Int /\ MaxOutage \in Int
      /\ Window \in Int /\ Reacquire \in Nat
      /\ consecutive_old < Reacquire /\ consecutive_old \in Int
      /\ outage <= MaxOutage /\ outage \in Int /\ esi \in Nat
  BY PosType, DecoderAssumption, LinkAssumption, Sizes DEF TypeOK, DecoderTypeOK, Size
<1>2. (MaxOutage + Window) * Size + Reacquire < (2 * Half) * Size
  BY LinkAssumption DEF Size
<1>3. MaxOutage + Window < 2 * Half
  <2>1. MaxOutage + Window \in Int /\ 2 * Half \in Int
    BY <1>1
  <2>2. 2 * Half <= MaxOutage + Window => (2 * Half) * Size <= (MaxOutage + Window) * Size
    BY <1>1, <2>1, Products
  <2>3. (MaxOutage + Window) * Size \in Int /\ (2 * Half) * Size \in Int
    BY <1>1, <2>1, Products
  <2> QED
    BY <1>1, <1>2, <2>1, <2>2, <2>3
<1>4. CASE outage = MaxOutage /\ Old
  <2> DEFINE a == Pos + 1
             b == MaxOutage + Window
             c == 2 * Half
  <2>1. a \in Int /\ b \in Int /\ c \in Int
    BY <1>1
  <2>2. (a - b) * Size + esi <= consecutive_old
    <3>1. a - b = Pos + 1 - MaxOutage - Window
      BY <1>1
    <3>2. (Pos + 1 - MaxOutage - Window) * Size + esi <= consecutive_old
      BY <1>4 DEF Bounded
    <3> QED
      BY <3>1, <3>2
  <2>3. b * Size + Reacquire < c * Size
    BY <1>2
  <2> HIDE DEF a, b, c
  <2>4. /\ (a - b) * Size = a * Size - b * Size
        /\ c <= a => c * Size <= a * Size
        /\ a * Size \in Int /\ b * Size \in Int /\ c * Size \in Int
    BY <1>1, <2>1, Products
  <2>5. a < c
    BY <1>1, <2>1, <2>2, <2>3, <2>4
  <2> QED
    BY <1>3, <2>5 DEF a, c
<1>5. CASE ~(outage = MaxOutage /\ Old)
  BY <1>1, <1>3, <1>5 DEF Bounded
<1> QED
  BY <1>4, <1>5

\* add_rtp_packet and flush: a generation begins.
LEMMA EncodeKeeps ==
  ASSUME LinkInv, Encode
  PROVE  LinkInv'
<1> DEFINE pos == Ahead(gen_id, baseline)
<1> USE DEF LinkInv
<1>1. /\ Current \in GenId /\ baseline \in GenId /\ Pos \in 0 .. 2 * Half - 1
      /\ Half \in Nat /\ LargeJump < Half /\ Window <= LargeJump
      /\ Window \in Nat /\ LargeJump \in Nat /\ gen_id \in GenId
      /\ Size \in Nat /\ Size >= Confirm /\ Size > 0 /\ 2 <= Window
      /\ HealTime \in Nat /\ HealTime >= Window
  BY PosType, Sizes DEF TypeOK
<1>2. /\ esi = Size /\ esi' = 0 /\ arrived' = 0 /\ decoded' = FALSE
      /\ reach' = (InReach(gen_id) /\ ~spoiled)
      /\ outage' = IF outage < MaxOutage THEN outage + 1 ELSE outage
      /\ good' = IF good <= HealTime THEN good + 1 ELSE good
      /\ UNCHANGED <<decoder, run, corrupted, spoiled>>
  BY DEF Encode, EncodeGeneration, Size
<1>3. /\ Current' = gen_id /\ gen_id' \in GenId
      /\ Pos' = pos
      /\ pos = IF Pos = 2 * Half - 1 THEN 0 ELSE Pos + 1
  <2>1. gen_id' = (gen_id + 1) % (2 * Half)
    BY DEF Encode, EncodeGeneration
  <2>2. Current' = gen_id /\ gen_id' \in GenId
    BY <1>1, <2>1, CurrentId DEF Current
  <2> QED
    BY <1>1, <1>2, <2>2, OneOn DEF Pos, decoder
<1>4. TypeOK' /\ WindowBound'
  <2>1. DecoderTypeOK' /\ WindowBound'
    BY <1>2 DEF decoder, TypeOK, DecoderTypeOK, WindowBound
  <2>2. reach' \in BOOLEAN
    BY <1>2 DEF TypeOK, InReach
  <2>3. good' \in 0 .. HealTime + 1 /\ outage' \in 0 .. MaxOutage
    BY <1>1, <1>2, LinkAssumption DEF TypeOK
  <2>4. {reach', decoded', spoiled'} \subseteq BOOLEAN
    BY <1>2, <2>2 DEF TypeOK
  <2>5. esi' \in 0 .. Size /\ arrived' \in 0 .. Size
    BY <1>1, <1>2
  <2>6. UNCHANGED <<run, corrupted>>
    BY <1>2
  <2> QED
    BY <1>3, <2>1, <2>3, <2>4, <2>5, <2>6 DEF TypeOK, Size
<1>5. Undecoded'
  BY <1>2 DEF Undecoded, Decodes, decoder
\* Where the generations are that are kept.
<1>6. \A g \in gens : /\ have_baseline /\ g \in GenId
                      /\ Ahead(g, baseline) < Window
                      /\ Diff(g, baseline) = Ahead(g, baseline)
  <2> SUFFICES ASSUME NEW g \in gens
               PROVE  /\ have_baseline /\ g \in GenId
                      /\ Ahead(g, baseline) < Window
                      /\ Diff(g, baseline) = Ahead(g, baseline)
    OBVIOUS
  <2>1. have_baseline /\ Diff(g, baseline) \in 0 .. Window - 1 /\ g \in GenId
    BY DEF WindowBound, TypeOK, DecoderTypeOK
  <2> QED
    BY <1>1, <2>1, AheadDiff
\* A generation that is sent for the first time finds nothing of its id.
<1>7. ~spoiled => gen_id \notin gens /\ (have_baseline => pos = Pos + 1)
  <2> SUFFICES ASSUME ~spoiled
               PROVE  gen_id \notin gens /\ (have_baseline => pos = Pos + 1)
    OBVIOUS
  <2>1. have_baseline => pos = Pos + 1
    BY <1>1, <1>3, NotRound DEF Unspoiled
  <2>2. \A g \in gens : have_baseline /\ Ahead(g, baseline) <= Pos
    BY <1>6 DEF Unspoiled
  <2>3. ASSUME gen_id \in gens PROVE FALSE
    <3>1. have_baseline /\ pos <= Pos
      BY <2>2, <2>3
    <3> HIDE DEF pos
    <3> QED
      BY <1>1, <2>1, <3>1
  <2> QED
    BY <2>1, <2>3
<1>8. have_baseline /\ ~Near /\ ~Far => Old
  BY <1>1 DEF Near, Far, Old
<1>9. Voted => FALSE
  BY <1>1, <1>2, DecoderAssumption DEF Voted, TypeOK, DecoderTypeOK
<1>10. gen_id \notin gens => Collecting(0)'
  <2> SUFFICES ASSUME gen_id \notin gens
               PROVE  Collecting(0)'
    OBVIOUS
  <2>1. symbols'[Current'] = {} /\ Current' \notin completed'
    BY <1>1, <1>2, <1>3 DEF Undecoded, TypeOK, DecoderTypeOK, decoder
  <2>2. Cardinality(Indices(symbols'[Current'])) = 0
    <3>1. Indices({}) = {}
      BY DEF Indices
    <3> QED
      BY <2>1, <3>1, FS_EmptySet
  <2>3. /\ 0 > 0 => Current' \in gens'
        /\ symbols'[Current'] \subseteq (0 .. esi' - 1) \X {Made'}
        /\ Cardinality(Indices(symbols'[Current'])) >= 0
    BY <2>1, <2>2
  <2> QED
    BY <2>1, <2>3 DEF Collecting, Indices
<1>11. Unspoiled'
  <2> SUFFICES ASSUME ~spoiled
               PROVE  /\ run = 0
                      /\ have_baseline => Bounded'
                      /\ ~Old' => consecutive_old <= corrupted
                      /\ \A g \in gens : /\ Ahead(g, baseline) <= pos
                                         /\ \A y \in symbols[g] : y[2] = <<run, g>>
    BY <1>2, <1>3 DEF Unspoiled, decoder, Voted
  <2>1. run = 0 /\ \A g \in gens : \A y \in symbols[g] : y[2] = <<run, g>>
    BY DEF Unspoiled
  <2>2. \A g \in gens : Ahead(g, baseline) <= pos
    <3> SUFFICES ASSUME NEW g \in gens PROVE Ahead(g, baseline) <= pos
      OBVIOUS
    <3>1. have_baseline /\ Ahead(g, baseline) <= Pos
      BY <1>6 DEF Unspoiled
    <3>2. Ahead(g, baseline) \in Int
      BY <1>1, <1>6, AheadDiff
    <3> HIDE DEF pos
    <3> QED
      BY <1>1, <1>7, <3>1, <3>2
  <2>3. ~Old' => consecutive_old <= corrupted
    <3>1. Old => Old'
      BY <1>1, <1>2, <1>3, <1>7 DEF Old, decoder
    <3> QED
      BY <3>1 DEF Unspoiled
  <2>4. ASSUME have_baseline PROVE Bounded'
    <3>1. Pos' = Pos + 1
      BY <1>3, <1>7, <2>4
    <3>2. /\ consecutive_old' = consecutive_old /\ consecutive_old \in Nat
          /\ outage \in 0 .. MaxOutage /\ MaxOutage \in Nat
      BY <1>2, LinkAssumption DEF decoder, TypeOK, DecoderTypeOK
    <3>3. Bounded
      BY <2>4 DEF Unspoiled
    <3>4. CASE outage < MaxOutage
      <4>1. outage' = outage + 1 /\ Pos < outage + Window
        BY <1>2, <3>3, <3>4 DEF Bounded
      <4>2. outage' = MaxOutage =>
              (Pos' + 1 - MaxOutage - Window) * Size + esi' <= consecutive_old'
        <5> SUFFICES ASSUME outage' = MaxOutage
                     PROVE  (Pos' + 1 - MaxOutage - Window) * Size <= 0
          <6>1. (Pos' + 1 - MaxOutage - Window) * Size \in Int
            BY <1>1, <3>1, <3>2, Products
          <6> QED
            BY <1>2, <3>2, <6>1
        <5>1. Pos' + 1 - MaxOutage - Window \in Int /\ Pos' + 1 - MaxOutage - Window <= 0
          BY <1>1, <3>1, <3>2, <4>1
        <5>2. 0 * Size = 0
          BY <1>1
        <5> QED
          BY <1>1, <5>1, <5>2, Products
      <4> QED
        BY <1>1, <3>1, <3>2, <4>1, <4>2 DEF Bounded
    <3>5. CASE outage = MaxOutage
      <4>1. outage' = MaxOutage
        BY <1>2, <3>2, <3>5
      <4>2. Old
        BY <1>1, <1>2, <1>8, <1>9, <2>4, <3>5 DEF Unspoiled
      <4>3. Old'
        BY <1>1, <1>2, <3>1, <4>2 DEF Old, decoder
      <4>4. (Pos + 1 - MaxOutage - Window) * Size + Size <= consecutive_old
        BY <1>2, <3>3, <3>5, <4>2 DEF Bounded
      <4>5. (Pos' + 1 - MaxOutage - Window) * Size <= consecutive_old
        <5> DEFINE a == Pos + 1 - MaxOutage - Window
        <5>1. a \in Int /\ Pos' + 1 - MaxOutage - Window = a + 1
          BY <1>1, <3>1, <3>2
        <5>2. a * Size + Size <= consecutive_old
          BY <4>4
        <5> HIDE DEF a
        <5>3. (a + 1) * Size = a * Size + Size
          BY <1>1, <5>1
        <5> QED
          BY <5>1, <5>2, <5>3
      <4>6. (Pos' + 1 - MaxOutage - Window) * Size \in Int
        BY <1>1, <3>1, <3>2, Products
      <4> QED
        BY <1>2, <3>2, <4>1, <4>3, <4>5, <4>6 DEF Bounded
    <3> QED
      BY <3>2, <3>4, <3>5
  <2> QED
    BY <2>1, <2>2, <2>3, <2>4
<1>12. Reached'
  <2> SUFFICES ASSUME InReach(gen_id), ~spoiled
               PROVE  (have_baseline => pos <= LargeJump) /\ Collecting(0)'
    BY <1>2, <1>3 DEF Reached, Near, decoder
  <2>1. have_baseline => pos <= LargeJump
    BY <1>1, AheadDiff DEF InReach
  <2> QED
    BY <1>7, <1>10, <2>1
\* Behind the window there are few packets left before the watchdog wakes.
<1>13. good > 0 /\ Old => /\ good * Size <= consecutive_old
                          /\ good <= HealTime - Window
  <2> SUFFICES ASSUME good > 0, Old
               PROVE  good * Size <= consecutive_old /\ good <= HealTime - Window
    OBVIOUS
  <2>1. (good - 1) * Size + Size <= consecutive_old /\ good \in Nat
    BY <1>1, <1>2 DEF Healing, TypeOK
  <2>2. consecutive_old \in Nat /\ consecutive_old <= Reacquire - 1 /\ Reacquire \in Nat
    BY DecoderAssumption DEF TypeOK, DecoderTypeOK
  <2>3. (good - 1) * Size = good * Size - Size /\ good * Size \in Int
    BY <1>1, <2>1
  <2> DEFINE h == HealTime - Window + 1
  <2>4. h \in Nat /\ Reacquire - 1 < h * Size /\ h * Size \in Int
    BY <1>1, Sizes
  <2>5. good >= h => h * Size <= good * Size
    <3> HIDE DEF h
    <3> QED
      BY <1>1, <2>1, <2>4, Products
  <2>6. good < h
    <3> HIDE DEF h
    <3> QED
      BY <1>1, <2>1, <2>2, <2>3, <2>4, <2>5
  <2> QED
    BY <1>1, <2>1, <2>2, <2>3, <2>6
<1>14. good > 0 /\ Near => Pos < Window
  BY <1>1, <1>2 DEF Healing
<1>15. good > 0 /\ Far => FALSE
  BY <1>9 DEF Healing
<1>16. good > 0 /\ ~have_baseline => good + Window <= HealTime + 1
  BY <1>1, <1>2 DEF Healing
<1>17. Healing'
  <2>0. /\ Old' <=> have_baseline /\ Half < pos
        /\ Far' <=> have_baseline /\ LargeJump < pos /\ pos <= Half
        /\ Near' <=> have_baseline /\ pos <= LargeJump
        /\ have_baseline' = have_baseline /\ consecutive_old' = consecutive_old
        /\ gens' = gens /\ Voted' /\ good \in 0 .. HealTime + 1 /\ pos \in Int
        /\ consecutive_old \in Nat
    BY <1>1, <1>2, <1>3 DEF Old, Far, Near, decoder, Voted, TypeOK, DecoderTypeOK
  <2>1. Old' => (good' - 1) * Size + esi' <= consecutive_old'
    <3> SUFFICES ASSUME Old' PROVE (good' - 1) * Size <= consecutive_old
      <4>1. (good' - 1) * Size \in Int
        BY <1>1, <1>2, <2>0
      <4> QED
        BY <1>2, <2>0, <4>1
    <3>1. CASE good = 0
      BY <1>1, <1>2, <2>0, <3>1
    <3>2. CASE good > 0
      <4>1. Old
        BY <1>1, <1>3, <1>8, <1>14, <1>15, <2>0, <3>2
      <4>2. good' - 1 = good
        BY <1>1, <1>2, <1>13, <2>0, <3>2, <4>1
      <4> QED
        BY <1>13, <3>2, <4>1, <4>2
    <3> QED
      BY <2>0, <3>1, <3>2
  <2>2. Far' => good' = 1
    <3>1. good > 0 => ~Far'
      BY <1>1, <1>3, <1>8, <1>14, <1>15, <2>0 DEF Old
    <3> QED
      BY <1>1, <1>2, <2>0, <3>1
  <2>3. ASSUME Near', NEW g \in gens, Diff(g, gen_id) > 0
        PROVE  Diff(g, gen_id) + good' <= HealTime
    <3>1. /\ g \in GenId /\ Ahead(g, baseline) < Window /\ Ahead(g, baseline) \in Nat
          /\ have_baseline
      BY <1>1, <1>6, AheadDiff
    <3>2. Diff(g, gen_id) = Ahead(g, baseline) - pos
      BY <1>1, <2>0, <2>3, <3>1, DiffNear
    <3>3. CASE good = 0
      <4>1. pos >= 0
        BY <1>1, <1>3
      <4> QED
        BY <1>1, <1>2, <2>0, <3>1, <3>2, <3>3, <4>1
    <3>4. CASE good > 0 /\ Near
      <4>1. Pos < Window /\ Diff(g, Current) = Ahead(g, baseline) - Pos
        BY <1>1, <1>14, <3>1, <3>4, DiffNear DEF Pos
      <4>2. pos = Pos + 1
        BY <1>1, <1>3, <4>1
      <4>3. Diff(g, Current) > 0
        BY <1>1, <2>0, <2>3, <3>1, <3>2, <4>1, <4>2
      <4>4. Diff(g, Current) + good <= HealTime
        BY <3>4, <4>3 DEF Healing
      <4> QED
        BY <1>1, <1>2, <2>0, <3>1, <3>2, <4>1, <4>2, <4>4
    <3>5. CASE good > 0 /\ Old
      <4>1. pos = 0
        BY <1>1, <1>3, <2>0, <2>3, <3>5 DEF Old
      <4> QED
        BY <1>1, <1>2, <1>13, <2>0, <3>1, <3>2, <3>5, <4>1
    <3> QED
      BY <1>8, <1>15, <2>0, <3>1, <3>3, <3>4, <3>5
  <2>4. ~have_baseline => good' + Window <= HealTime + 2
    BY <1>1, <1>2, <1>16, <2>0
  <2>5. good' > HealTime => Collecting(0)'
    <3> SUFFICES ASSUME good' > HealTime PROVE gen_id \notin gens
      BY <1>10
    <3>1. good > 0 /\ good >= HealTime
      BY <1>1, <1>2, <2>0
    <3>2. Near /\ Pos < Window
      BY <1>1, <1>8, <1>13, <1>14, <1>15, <1>16, <2>0, <3>1
    <3>3. \A g \in gens : Diff(g, Current) <= 0
      <4> SUFFICES ASSUME NEW g \in gens, ~(Diff(g, Current) <= 0) PROVE FALSE
        OBVIOUS
      <4>1. Diff(g, Current) \in Int
        BY <1>1, <1>6, AheadDiff
      <4>2. Diff(g, Current) + good <= HealTime
        BY <3>1, <3>2, <4>1 DEF Healing
      <4> QED
        BY <1>1, <2>0, <3>1, <4>1, <4>2
    <3>4. pos = Pos + 1
      BY <1>1, <1>3, <3>2
    <3>5. ASSUME gen_id \in gens PROVE FALSE
      <4>1. pos < Window
        BY <1>6, <3>5
      <4>2. Diff(gen_id, Current) = pos - Pos
        BY <1>1, <2>0, <3>2, <4>1, DiffNear DEF Pos
      <4> QED
        BY <1>1, <2>0, <3>3, <3>4, <3>5, <4>2
    <3> QED
      BY <3>5
  <2> HIDE DEF pos
  <2>6. ASSUME Near', NEW g \in gens', Diff(g, Current') > 0
        PROVE  Diff(g, Current') + good' <= HealTime
    BY <1>3, <2>0, <2>3, <2>6
  <2> QED
    BY <1>2, <2>0, <2>1, <2>2, <2>4, <2>5, <2>6 DEF Healing
<1> QED
  BY <1>2, <1>4, <1>5, <1>11, <1>12, <1>17

\* The transmitter is started again.
LEMMA RestartKeeps ==
  ASSUME LinkInv, Restart
  PROVE  LinkInv'
<1> USE DEF LinkInv
<1>1. /\ run < MaxRestarts /\ run' = run + 1 /\ gen_id' = 0 /\ esi' = Size
      /\ spoiled' = TRUE /\ reach' = FALSE /\ good' = 0
      /\ UNCHANGED <<decoder, corrupted, arrived, decoded, outage>>
  BY DEF Restart, Size
<1>2. DecoderTypeOK' /\ WindowBound'
  BY <1>1 DEF decoder, TypeOK, DecoderTypeOK, WindowBound
<1>3. /\ gen_id' \in GenId /\ esi' \in 0 .. Size /\ run' \in 0 .. MaxRestarts
      /\ good' \in 0 .. HealTime + 1 /\ arrived' \in 0 .. Size /\ arrived' <= esi'
  BY <1>1, Sizes, DecoderAssumption, LinkAssumption DEF TypeOK, GenId, Size
<1>4. {reach', decoded', spoiled'} \subseteq BOOLEAN
  BY <1>1 DEF TypeOK
<1>5. TypeOK'
  BY <1>1, <1>2, <1>3, <1>4 DEF TypeOK, Size
<1>6. Undecoded'
  BY <1>1 DEF Undecoded, Decodes, decoder
<1> QED
  BY <1>1, <1>2, <1>3, <1>5, <1>6 DEF Unspoiled, Reached, Healing

-----------------------------------------------------------------------------
(* The radio's steps *)

\* The packet is not in the decoder, which stays where it is.
LEMMA Aside ==
  ASSUME LinkInv, TypeOK', outage < MaxOutage, esi' = esi + 1, good' = 0,
         UNCHANGED <<gen_id, run, have_baseline, baseline, gens, symbols, completed,
                     spoiled, reach, arrived, decoded, outage>>,
         ~spoiled /\ ~Old => consecutive_old' <= corrupted'
  PROVE  Unspoiled' /\ Reached' /\ Healing'
<1> USE DEF LinkInv
<1>1. /\ Current' = Current /\ Pos' = Pos /\ Made' = Made /\ esi \in Nat
      /\ outage' < MaxOutage /\ outage' = outage
  BY PosType DEF Current, Pos, Made
<1>2. /\ Near' <=> Near
      /\ Far' <=> Far
      /\ Old' <=> Old
  BY <1>1 DEF Near, Far, Old
<1>3. Unspoiled'
  <2> SUFFICES ASSUME ~spoiled PROVE Unspoiled'
    BY DEF Unspoiled
  <2>1. have_baseline' => Bounded'
    BY <1>1, LinkAssumption DEF Unspoiled, Bounded, TypeOK
  <2>2. \A g \in gens' : /\ Ahead(g, baseline') <= Pos'
                         /\ \A y \in symbols'[g] : y[2] = <<run', g>>
    BY <1>1 DEF Unspoiled
  <2>3. run' = 0 /\ (decoded' => Current' \in completed')
    BY <1>1 DEF Unspoiled
  <2>4. outage' # MaxOutage
    BY <1>1, LinkAssumption DEF TypeOK
  <2> QED
    BY <1>1, <1>2, <2>1, <2>2, <2>3, <2>4 DEF Unspoiled
<1>4. Reached'
  <2> SUFFICES ASSUME reach
               PROVE  ~spoiled /\ (have_baseline => Near) /\ Collecting(arrived)'
    BY <1>2 DEF Reached
  <2>1. ~spoiled /\ (have_baseline => Near) /\ Collecting(arrived)
    BY DEF Reached
  <2>2. 0 .. esi - 1 \subseteq 0 .. esi' - 1
    BY <1>1
  <2>3. Collecting(arrived)'
    BY <1>1, <2>1, <2>2 DEF Collecting, Indices
  <2> QED
    BY <2>1, <2>3
<1> QED
  BY <1>3, <1>4 DEF Healing

\* The types on the transmitter's side after a packet has left.
LEMMA SentTypes ==
  ASSUME TypeOK, arrived <= esi, Sent, IInv'
  PROVE  /\ esi' = esi + 1 /\ UNCHANGED <<gen_id, run>>
         /\ esi \in 0 .. K + R - 1 /\ esi \in Nat
         /\ UNCHANGED <<arrived>> => arrived' <= esi'
         /\ arrived' = arrived + 1 => arrived' \in 0 .. K + R /\ arrived' <= esi'
         /\ /\ corrupted' \in 0 .. MaxCorrupt /\ arrived' \in 0 .. K + R
            /\ outage' \in 0 .. MaxOutage /\ good' \in 0 .. HealTime + 1
            /\ {reach', decoded', spoiled'} \subseteq BOOLEAN
            => TypeOK' /\ WindowBound'
<1>1. /\ esi' = esi + 1 /\ UNCHANGED <<gen_id, run>> /\ esi \in 0 .. K + R - 1
      /\ esi \in Nat /\ esi' \in 0 .. K + R /\ K + R \in Nat
  BY DecoderAssumption, LinkAssumption DEF Sent, NextPacket, TypeOK
<1>2. DecoderTypeOK' /\ WindowBound'
  BY DEF IInv
<1>3. arrived \in Nat
  BY LinkAssumption DEF TypeOK
<1> QED
  BY <1>1, <1>2, <1>3 DEF TypeOK

\* The radio loses the packet.
LEMMA LoseKeeps ==
  ASSUME LinkInv, Lose
  PROVE  LinkInv'
<1> USE DEF LinkInv
<1>1. /\ Sent /\ outage < MaxOutage /\ out' = {} /\ good' = 0
      /\ UNCHANGED <<have_baseline, baseline, gens, symbols, completed,
                     jump_candidate, jump_votes, consecutive_old, corrupted,
                     spoiled, reach, arrived, decoded, outage>>
  BY DEF Lose, history
<1>2. IInv'
  BY <1>1 DEF TypeOK, IInv, DecoderTypeOK, WindowBound
<1>3. TypeOK' /\ WindowBound' /\ arrived' <= esi' /\ esi' = esi + 1
      /\ UNCHANGED <<gen_id, run>>
  <2>1. 0 \in 0 .. HealTime + 1
    BY Sizes
  <2> QED
    BY <1>1, <1>2, <2>1, SentTypes DEF TypeOK
<1>4. ~spoiled /\ ~Old => consecutive_old' <= corrupted'
  BY <1>1 DEF Unspoiled
<1>5. Unspoiled' /\ Reached' /\ Healing'
  BY <1>1, <1>3, <1>4, Aside
<1>6. Undecoded'
  BY <1>1 DEF Undecoded, Decodes
<1> QED
  BY <1>3, <1>5, <1>6

\* The radio hands up the packet with wrong bytes.
LEMMA CorruptKeeps ==
  ASSUME LinkInv, Corrupt
  PROVE  LinkInv' /\ (~spoiled' => out' = {})
<1> USE DEF LinkInv
<1>1. PICK g \in GenId, e \in Esi :
        /\ Packet(g, e, Noise)
        /\ spoiled' = (spoiled \/ Spoils(g))
  BY DEF Corrupt
<1>2. /\ Sent /\ outage < MaxOutage /\ good' = 0
      /\ corrupted < MaxCorrupt /\ corrupted' = corrupted + 1
      /\ reach' = (reach /\ ~spoiled')
      /\ UNCHANGED <<arrived, decoded, outage>>
  BY DEF Corrupt
<1>3. Noise \in Source
  BY LinkAssumption DEF Sources
<1>4. IInv /\ IInv' /\ Undecoded'
  BY <1>1, <1>3, PacketStep, UndecodedStep DEF IInv, TypeOK
<1>5. TypeOK' /\ WindowBound' /\ arrived' <= esi' /\ esi' = esi + 1
      /\ UNCHANGED <<gen_id, run>>
  <2>1. 0 \in 0 .. HealTime + 1
    BY Sizes
  <2>2. corrupted' \in 0 .. MaxCorrupt
    BY <1>2, LinkAssumption DEF TypeOK
  <2>5. spoiled' \in BOOLEAN
    BY <1>1 DEF TypeOK, Spoils, InReach, Agrees
  <2>6. reach' \in BOOLEAN /\ decoded' \in BOOLEAN
    BY <1>2 DEF TypeOK
  <2> QED
    BY <1>2, <1>4, <2>1, <2>2, <2>5, <2>6, SentTypes DEF TypeOK
<1>6. CASE spoiled'
  <2>0. ~reach'
    <3>1. reach' = (reach /\ ~spoiled')
      BY <1>2
    <3> QED
      BY <1>6, <3>1, Zenon
  <2>1. ~reach' /\ ~(good' > 0)
    BY <1>2, <2>0
  <2>2. Unspoiled' /\ Reached' /\ Healing'
    BY <1>6, <2>1 DEF Unspoiled, Reached, Healing
  <2> QED
    BY <1>4, <1>5, <1>6, <2>2
<1>7. CASE ~spoiled'
  <2>1. /\ ~spoiled /\ have_baseline /\ ~(Diff(g, baseline) \in 0 .. LargeJump)
        /\ ~Agrees(g) /\ reach' = reach /\ spoiled' = spoiled
    BY <1>1, <1>2, <1>7 DEF Spoils, InReach, TypeOK
  \* One wrong packet is not enough for a vote.
  <2>2. ~Accept(g, e, Noise) /\ ~Believe(g, e, Noise)
    <3>1. Votes(g) = 1 /\ Base(g) = baseline
      BY <2>1 DEF Votes, Base
    <3>2. 1 < Confirm
      BY <1>2, LinkAssumption, DecoderAssumption DEF TypeOK
    <3> QED
      BY <2>1, <3>1, <3>2, DecoderAssumption DEF Accept, Believe, IsNear
  <2>3. DropOld(g) \/ Quarantine(g)
    BY <1>1, <2>2 DEF Packet
  <2>4. out' = {}
    BY <2>3 DEF DropOld, Quarantine
  <2> SUFFICES Unspoiled' /\ Reached' /\ Healing'
    BY <1>4, <1>5, <2>4
  <2>5. ~Old => consecutive_old <= corrupted
    BY <2>1 DEF Unspoiled
  <2>6. corrupted \in Nat /\ consecutive_old \in Nat /\ MaxCorrupt < Reacquire
        /\ MaxCorrupt \in Nat /\ Reacquire \in Nat
    BY DecoderAssumption, LinkAssumption DEF TypeOK, DecoderTypeOK
  <2>7. CASE Quarantine(g)
    <3>1. UNCHANGED <<state, have_baseline, baseline, consecutive_old>>
      BY <2>7 DEF Quarantine
    <3>2. ~spoiled /\ ~Old => consecutive_old' <= corrupted'
      BY <1>2, <2>5, <2>6, <3>1
    <3> QED
      BY <1>2, <1>4, <1>5, <2>1, <3>1, <3>2, Aside DEF state
  <2>8. CASE DropOld(g) /\ consecutive_old + 1 < Reacquire
    <3>1. /\ UNCHANGED <<state, have_baseline, baseline>>
          /\ consecutive_old' = consecutive_old + 1
      BY <2>6, <2>8 DEF DropOld
    <3>2. ~spoiled /\ ~Old => consecutive_old' <= corrupted'
      BY <1>2, <2>5, <2>6, <3>1
    <3> QED
      BY <1>2, <1>4, <1>5, <2>1, <3>1, <3>2, Aside DEF state
  \* Only where the stream itself is behind the window can it wake the watchdog.
  <2>9. CASE DropOld(g) /\ consecutive_old + 1 >= Reacquire
    <3>1. /\ gens' = {} /\ have_baseline' = FALSE /\ consecutive_old' = 0
      BY <2>9 DEF DropOld, Resync
    <3>2. Old
      BY <1>2, <2>5, <2>6, <2>9
    <3>3. ~reach'
      BY <2>1, <3>2, PosType DEF Reached, Near, Old
    <3>4. ~decoded
      <4>1. Current \notin gens
        BY <3>2, PosType, AheadDiff DEF WindowBound, Old, Pos
      <4> QED
        BY <2>1, <4>1 DEF Unspoiled, TypeOK, DecoderTypeOK
    <3>5. Unspoiled'
      <4>1. run' = 0 /\ ~decoded' /\ consecutive_old' <= corrupted'
        BY <1>2, <1>5, <2>1, <2>6, <3>1, <3>4 DEF Unspoiled
      <4> QED
        BY <3>1, <4>1 DEF Unspoiled, Near, Far
    <3> QED
      BY <1>2, <1>4, <1>5, <3>3, <3>5 DEF Reached, Healing
  <2> QED
    BY <2>6, <2>7, <2>8, <2>9, <2>3
<1> QED
  BY <1>6, <1>7

\* How the decoder sees the id of the generation being sent.
LEMMA Seen ==
  ASSUME TypeOK
  PROVE  /\ IsOld(Current) <=> Old
         /\ IsFar(Current) <=> Far
         /\ IsNear(Current) <=> ~have_baseline \/ Near
<1>1. /\ Current \in GenId /\ baseline \in GenId /\ Pos \in 0 .. 2 * Half - 1
      /\ Half \in Nat /\ LargeJump < Half /\ LargeJump \in Nat
      /\ have_baseline \in BOOLEAN
  BY PosType DEF TypeOK, DecoderTypeOK
<1>2. /\ Diff(Current, baseline) = IF Pos < Half THEN Pos ELSE Pos - 2 * Half
      /\ Diff(baseline, Current) > 0 <=> Pos > Half
  BY <1>1, AheadDiff DEF Pos
<1>3. Diff(Current, Current) = 0
  BY <1>1, AheadDiff, DecoderAssumption
<1>4. Diff(Current, baseline) \in 0 .. LargeJump <=> Pos <= LargeJump
  BY <1>1, <1>2
<1>5. CASE have_baseline
  <2>1. Base(Current) = baseline
    BY <1>5 DEF Base
  <2>2. IsOld(Current) <=> Old
    BY <1>1, <1>2, <1>5, <2>1 DEF IsOld, Old
  <2>3. IsFar(Current) <=> Far
    BY <1>1, <1>4, <1>5, <2>1, <2>2 DEF IsFar, Far, Old
  <2>4. IsNear(Current) <=> Near
    BY <1>1, <1>4, <1>5, <2>1, <2>2 DEF IsNear, Near, Old
  <2> QED
    BY <1>5, <2>2, <2>3, <2>4
<1>6. CASE ~have_baseline
  <2>1. Base(Current) = Current
    BY <1>6 DEF Base
  <2> QED
    BY <1>1, <1>3, <1>6, <2>1 DEF IsOld, IsFar, IsNear, Old, Far, Near
<1> QED
  BY <1>1, <1>5, <1>6

\* Behind the window there are few packets left before the watchdog wakes.
LEMMA OldFew ==
  ASSUME TypeOK, Healing, good > 0, Old
  PROVE  good <= HealTime - Window + 1 /\ good < HealTime
<1>1. /\ Size \in Nat /\ Size > 0 /\ HealTime \in Nat /\ HealTime >= Window
      /\ Window \in Nat /\ Window >= 2 /\ esi \in Nat /\ good \in Nat
      /\ consecutive_old \in Nat /\ consecutive_old <= Reacquire - 1
      /\ Reacquire \in Nat
  BY Sizes, PosType DEF TypeOK, DecoderTypeOK
<1> DEFINE a == good - 1
           h == HealTime - Window + 1
<1>2. a * Size + esi <= consecutive_old
  BY DEF Healing
<1>3. Reacquire - 1 < h * Size
  BY Sizes
<1>4. a \in Int /\ h \in Int
  BY <1>1
<1> HIDE DEF a, h
<1>5. h <= a => h * Size <= a * Size
  BY <1>1, <1>4, Products
<1>6. h * Size \in Int /\ a * Size \in Int
  BY <1>1, <1>4, Products
<1>7. a < h
  BY <1>1, <1>2, <1>3, <1>4, <1>5, <1>6
<1> QED
  BY <1>1, <1>7 DEF a, h

\* What comes out is the generation being sent, for the first time.
LEMMA TakenOnce ==
  ASSUME LinkInv, ~spoiled, Taken(Current, esi, Made)
  PROVE  /\ \A y \in symbols'[Current] : y[2] = Made
         /\ out' # {} => out' = {Made} /\ ~decoded /\ Current \in completed'
<1> USE DEF LinkInv
<1> DEFINE set == symbols[Current]
           syms == WithSymbol(set, esi, Made)
           m == <<esi, Made>>
<1>1. m[2] = Made
  OBVIOUS
<1>2. \A y \in set : y[2] = m[2]
  <2>1. Current \in gens => \A y \in set : y[2] = Made
    BY DEF Unspoiled, Made
  <2>2. Current \notin gens => set = {}
    BY PosType DEF Undecoded
  <2> QED
    BY <2>1, <2>2
<1>3. ~Decodes(set)
  BY PosType DEF Undecoded
<1>4. syms = set \/ syms = set \cup {m}
  BY DEF WithSymbol
<1>5. /\ Current \in completed => out' = {} /\ symbols'[Current] = set
      /\ Current \notin completed =>
           IF Decodes(syms)
             THEN Current \in completed' /\ symbols'[Current] = {} /\ out' = Origins(syms)
             ELSE symbols'[Current] = syms /\ out' = {}
  BY DEF Taken
<1>6. decoded => Current \in completed
  BY DEF Unspoiled
<1>7. \A y \in syms : y[2] = m[2]
  <2> HIDE DEF set, syms
  <2>1. \A y \in set \cup {m} : y[2] = m[2]
    BY <1>2
  <2> QED
    BY <1>2, <1>4, <2>1
<1> HIDE DEF set, syms, m
<1>8. Origins(set \cup {m}) = {m[2]}
  BY <1>2, OneMore
<1>9. Decodes(syms) => Origins(syms) = {Made}
  BY <1>1, <1>3, <1>4, <1>8
<1> QED
  BY <1>1, <1>2, <1>5, <1>6, <1>7, <1>9

\* The packet arrives and is dropped as one of the past.
LEMMA OldKeeps ==
  ASSUME LinkInv, TypeOK', Old, DropOld(Current), esi' = esi + 1,
         UNCHANGED <<gen_id, run, corrupted, good, reach, spoiled, arrived, decoded, outage>>
  PROVE  Unspoiled' /\ Reached' /\ Healing'
<1> USE DEF LinkInv
<1>1. /\ Current' = Current /\ Made' = Made /\ esi \in Nat
      /\ Pos \in 0 .. 2 * Half - 1 /\ Half \in Nat /\ LargeJump < Half
      /\ LargeJump \in Nat /\ Window <= LargeJump /\ Window \in Nat
      /\ consecutive_old \in Nat /\ Reacquire \in Nat /\ corrupted \in Nat
      /\ good \in Nat /\ Size \in Nat /\ HealTime \in Nat
      /\ outage \in Nat /\ MaxOutage \in Nat
  BY PosType, Sizes, DecoderAssumption, LinkAssumption
     DEF Current, Made, TypeOK, DecoderTypeOK
<1>2. ~reach' /\ ~Near /\ ~Far
  BY <1>1 DEF Reached, Near, Far, Old
<1>3. good > 0 => good <= HealTime - Window + 1 /\ good < HealTime
  BY OldFew
<1>4. CASE consecutive_old + 1 < Reacquire
  <2>1. /\ UNCHANGED <<state, have_baseline, baseline>>
        /\ consecutive_old' = consecutive_old + 1
    BY <1>1, <1>4 DEF DropOld
  <2>2. Pos' = Pos /\ Old' /\ ~Near' /\ ~Far'
    BY <1>1, <1>2, <2>1 DEF Pos, Old, Near, Far
  <2>3. ~spoiled => Unspoiled'
    <3> SUFFICES ASSUME ~spoiled PROVE Unspoiled'
      OBVIOUS
    <3>1. Bounded
      BY DEF Unspoiled, Old
    <3>2. Bounded'
      <4>1. outage = MaxOutage => (Pos + 1 - MaxOutage - Window) * Size + esi <= consecutive_old
        BY <3>1 DEF Bounded
      <4>2. (Pos + 1 - MaxOutage - Window) * Size \in Int
        BY <1>1, Products
      <4>3. outage' = MaxOutage =>
              (Pos' + 1 - MaxOutage - Window) * Size + esi' <= consecutive_old'
        BY <1>1, <2>1, <2>2, <4>1, <4>2
      <4>4. outage < MaxOutage => Pos < outage + Window
        BY <3>1 DEF Bounded
      <4> QED
        BY <2>2, <4>3, <4>4 DEF Bounded
    <3>3. \A g \in gens' : /\ Ahead(g, baseline') <= Pos'
                           /\ \A y \in symbols'[g] : y[2] = <<run', g>>
      BY <2>1, <2>2 DEF Unspoiled, state
    <3>4. run' = 0 /\ (decoded' => Current' \in completed')
      BY <1>1, <2>1 DEF Unspoiled, state
    <3> QED
      BY <2>2, <3>2, <3>3, <3>4 DEF Unspoiled
  <2>4. good > 0 => (good - 1) * Size + esi' <= consecutive_old'
    <3>1. good > 0 => (good - 1) * Size + esi <= consecutive_old
      BY DEF Healing
    <3>2. (good - 1) * Size \in Int
      BY <1>1, Products
    <3> QED
      BY <1>1, <2>1, <3>1, <3>2
  <2>5. Healing'
    BY <1>1, <1>3, <2>1, <2>2, <2>4 DEF Healing, Old
  <2> QED
    BY <1>2, <2>3, <2>5 DEF Reached, Unspoiled
<1>5. CASE consecutive_old + 1 >= Reacquire
  <2>1. gens' = {} /\ ~have_baseline' /\ consecutive_old' = 0
    BY <1>5 DEF DropOld, Resync
  <2>2. ~spoiled => ~decoded
    <3>1. Current \notin gens
      BY PosType, AheadDiff DEF WindowBound, Old, Pos
    <3> QED
      BY <3>1 DEF Unspoiled, TypeOK, DecoderTypeOK
  <2>3. Unspoiled'
    <3>1. ~spoiled => run' = 0 /\ ~decoded' /\ consecutive_old' <= corrupted'
      BY <1>1, <2>1, <2>2 DEF Unspoiled
    <3> QED
      BY <2>1, <3>1 DEF Unspoiled, Near, Far
  <2>4. Healing'
    <3>1. esi' # 0 /\ good' = good
      BY <1>1
    <3>2. good > 0 => good + Window <= HealTime + 1 /\ ~(good > HealTime)
      BY <1>1, <1>3
    <3> QED
      BY <2>1, <3>1, <3>2 DEF Healing, Near, Far, Old
  <2> QED
    BY <1>2, <2>3, <2>4 DEF Reached
<1> QED
  BY <1>1, <1>4, <1>5

\* The packet arrives and waits for others to second it.
LEMMA FarKeeps ==
  ASSUME LinkInv, TypeOK', Far, Quarantine(Current), esi' = esi + 1,
         UNCHANGED <<gen_id, run, corrupted, good, reach, spoiled, arrived, decoded, outage>>
  PROVE  Unspoiled' /\ Reached' /\ Healing'
<1> USE DEF LinkInv
<1>1. /\ Current' = Current /\ Made' = Made /\ esi \in Nat /\ Current \in GenId
      /\ Pos \in 0 .. 2 * Half - 1 /\ Half \in Nat /\ LargeJump < Half
      /\ LargeJump \in Nat /\ Window <= LargeJump /\ Window \in Nat /\ Window >= 2
      /\ good \in Nat /\ HealTime \in Nat /\ HealTime >= Window
      /\ jump_votes \in Nat /\ jump_candidate \in GenId
      /\ outage \in 0 .. MaxOutage /\ MaxOutage \in Nat
  BY PosType, Sizes, DecoderAssumption, LinkAssumption
     DEF Current, Made, TypeOK, DecoderTypeOK
<1>2. ~reach' /\ ~Near /\ ~Old
  BY <1>1 DEF Reached, Near, Far, Old
<1>3. /\ UNCHANGED <<state, have_baseline, baseline, consecutive_old>>
      /\ jump_votes' = Votes(Current)
      /\ jump_candidate' = IF Agrees(Current) THEN jump_candidate ELSE Current
  BY DEF Quarantine
<1>4. Pos' = Pos /\ Far' /\ ~Near' /\ ~Old'
  BY <1>1, <1>2, <1>3 DEF Pos, Old, Near, Far
<1>5. Voted => Voted'
  <2> SUFFICES ASSUME Voted
               PROVE  /\ jump_votes' >= esi'
                      /\ Diff(Current, jump_candidate') \in -Window .. Window
    BY <1>1 DEF Voted
  <2>1. Diff(Current, Current) = 0
    BY <1>1, AheadDiff, DecoderAssumption
  <2>2. Agrees(Current) => jump_votes' = jump_votes + 1
    BY <1>3 DEF Votes
  <2>3. ~Agrees(Current) => jump_votes' = 1 /\ jump_candidate' = Current
    BY <1>3 DEF Votes
  <2>4. Agrees(Current) => /\ jump_candidate' = jump_candidate
                           /\ Diff(Current, jump_candidate) \in -Window .. Window
    BY <1>3 DEF Agrees
  <2>5. esi > 0 => jump_votes >= esi /\ Agrees(Current)
    BY <1>1 DEF Voted, Agrees
  <2>6. 0 \in -Window .. Window
    BY <1>1
  <2>7. jump_votes' >= esi'
    BY <1>1, <2>2, <2>3, <2>5
  <2> QED
    BY <2>1, <2>3, <2>4, <2>6, <2>7
<1>6. Unspoiled'
  <2> SUFFICES ASSUME ~spoiled PROVE Unspoiled'
    BY DEF Unspoiled
  <2>1. Bounded'
    <3>1. Bounded
      BY DEF Unspoiled, Far
    <3> QED
      BY <1>2, <1>4, <3>1 DEF Bounded
  <2>2. \A g \in gens' : /\ Ahead(g, baseline') <= Pos'
                         /\ \A y \in symbols'[g] : y[2] = <<run', g>>
    BY <1>3, <1>4 DEF Unspoiled, state
  <2>3. /\ run' = 0 /\ (decoded' => Current' \in completed')
        /\ consecutive_old' <= corrupted'
    BY <1>1, <1>2, <1>3 DEF Unspoiled, state
  <2>4. outage' = MaxOutage => Voted'
    BY <1>5 DEF Unspoiled
  <2> QED
    BY <1>4, <2>1, <2>2, <2>3, <2>4 DEF Unspoiled
<1>7. Healing'
  <2>1. good > 0 => good = 1 /\ Voted /\ ~(good > HealTime)
    BY <1>1 DEF Healing
  <2> QED
    BY <1>4, <1>5, <2>1 DEF Healing, Far
<1> QED
  BY <1>2, <1>6, <1>7 DEF Reached

\* The packet arrives and gets in.
LEMMA InKeeps ==
  ASSUME LinkInv, TypeOK', WindowBound',
         Accept(Current, esi, Made) \/ Believe(Current, esi, Made),
         esi \in Esi, Made \in Source, esi' = esi + 1, outage' = 0,
         UNCHANGED <<gen_id, run, corrupted, good, reach, spoiled>>,
         arrived' = IF reach THEN arrived + 1 ELSE arrived,
         decoded' = (decoded \/ out' = {Made})
  PROVE  Unspoiled' /\ Reached' /\ Healing'
<1> USE DEF LinkInv
<1>1. /\ Current' = Current /\ Made' = Made /\ esi \in 0 .. K + R - 1
      /\ Current \in GenId /\ esi \in Nat /\ arrived \in Nat
      /\ Pos \in 0 .. 2 * Half - 1 /\ Half \in Nat /\ LargeJump < Half
      /\ LargeJump \in Nat /\ Window <= LargeJump /\ Window \in Nat /\ Window >= 2
      /\ good \in Nat /\ HealTime \in Nat /\ HealTime >= Window
      /\ corrupted \in Nat /\ MaxOutage \in Nat /\ MaxOutage > 0
  BY PosType, Sizes, DecoderAssumption, LinkAssumption
     DEF Current, Made, TypeOK, DecoderTypeOK
<1>2. IInv
  BY DEF IInv, TypeOK
<1>3. /\ Taken(Current, esi, Made)
      /\ baseline' \in GenId /\ Diff(Current, baseline') \in 0 .. Window - 1
      /\ baseline' = Base(Current) \/ Diff(Current, baseline') = Window - 1
  BY <1>1, <1>2, GoesIn
<1>4. Pos' = Diff(Current, baseline') /\ Pos' \in 0 .. Window - 1
  BY <1>1, <1>3, AheadDiff DEF Pos
<1>5. have_baseline' = TRUE /\ consecutive_old' = 0 /\ gens' \subseteq gens \cup {Current}
  BY <1>3 DEF Taken
<1>6. Near' /\ ~Far' /\ ~Old'
  BY <1>1, <1>4, <1>5 DEF Near, Far, Old
<1>7. \A g \in gens' : /\ g \in GenId /\ Ahead(g, baseline') \in 0 .. Window - 1
  <2> SUFFICES ASSUME NEW g \in gens'
               PROVE  g \in GenId /\ Ahead(g, baseline') \in 0 .. Window - 1
    OBVIOUS
  <2>1. g \in GenId /\ Diff(g, baseline') \in 0 .. Window - 1
    BY DEF WindowBound, TypeOK, DecoderTypeOK
  <2> QED
    BY <1>1, <1>3, <2>1, AheadDiff
<1>8. \A n \in Nat : Collecting(n) =>
        (~decoded' => /\ Current \in gens' /\ Current \notin completed'
                      /\ symbols'[Current] \subseteq (0 .. esi' - 1) \X {Made}
                      /\ Cardinality(Indices(symbols'[Current])) >= n + 1)
  <2>1. esi' - 1 = esi
    BY <1>1
  <2> QED
    BY <1>1, <1>2, <1>3, <2>1, Collects
<1>9. Unspoiled'
  <2> SUFFICES ASSUME ~spoiled PROVE Unspoiled'
    BY DEF Unspoiled
  <2>1. Bounded'
    BY <1>1, <1>4 DEF Bounded
  <2>2. \A g \in gens' : Ahead(g, baseline') <= Pos'
    <3> SUFFICES ASSUME NEW g \in gens' PROVE Ahead(g, baseline') <= Pos'
      OBVIOUS
    <3>1. CASE Diff(Current, baseline') = Window - 1
      BY <1>1, <1>4, <1>7, <3>1
    <3>2. CASE g = Current
      BY <1>1, <1>4, <3>2 DEF Pos
    <3>3. CASE g \in gens /\ baseline' = Base(Current)
      <4>1. have_baseline /\ Ahead(g, baseline) <= Pos
        BY <3>3 DEF Unspoiled, WindowBound
      <4>2. baseline' = baseline /\ Pos' = Pos
        BY <1>1, <3>3, <4>1 DEF Base, Pos
      <4> QED
        BY <4>1, <4>2
    <3> QED
      BY <1>3, <1>5, <3>1, <3>2, <3>3
  <2>3. \A g \in gens' : \A y \in symbols'[g] : y[2] = <<run, g>>
    <3> SUFFICES ASSUME NEW g \in gens', NEW y \in symbols'[g]
                 PROVE  y[2] = <<run, g>>
      OBVIOUS
    <3>1. CASE g = Current
      BY <1>3, <3>1, TakenOnce DEF Made
    <3>2. CASE g # Current
      <4>1. g \in gens /\ symbols'[g] = symbols[g]
        BY <1>3, <1>5, <1>7, <3>2 DEF Taken
      <4> QED
        BY <4>1 DEF Unspoiled
    <3> QED
      BY <3>1, <3>2
  <2>4. decoded' => Current \in completed'
    <3>1. decoded => Current \in completed'
      BY <1>3 DEF Unspoiled, Taken
    <3>2. out' = {Made} => Current \in completed'
      BY <1>3, TakenOnce
    <3> QED
      BY <3>1, <3>2
  <2>5. run' = 0 /\ run' = run /\ consecutive_old' <= corrupted'
    BY <1>1, <1>5 DEF Unspoiled
  <2>6. outage' # MaxOutage
    BY <1>1
  <2> QED
    BY <1>1, <1>6, <2>1, <2>2, <2>3, <2>4, <2>5, <2>6 DEF Unspoiled
<1>10. Reached'
  <2> SUFFICES ASSUME reach PROVE ~spoiled /\ Collecting(arrived)'
    BY <1>6 DEF Reached
  <2>1. ~spoiled /\ Collecting(arrived)
    BY DEF Reached
  <2>2. arrived' = arrived + 1
    OBVIOUS
  <2>3. ~decoded' => /\ Current \in gens' /\ Current \notin completed'
                     /\ symbols'[Current] \subseteq (0 .. esi' - 1) \X {Made}
                     /\ Cardinality(Indices(symbols'[Current])) >= arrived + 1
    BY <1>1, <1>8, <2>1
  <2>4. Collecting(arrived)'
    BY <1>1, <2>2, <2>3 DEF Collecting
  <2> QED
    BY <2>1, <2>4
<1>11. Healing'
  <2> SUFFICES ASSUME good > 0
               PROVE  /\ \A g \in gens' : Diff(g, Current) > 0 =>
                              Diff(g, Current) + good <= HealTime
                      /\ good > HealTime => Collecting(esi)'
    BY <1>1, <1>4, <1>5, <1>6 DEF Healing
  <2>1. ASSUME NEW g \in gens', Diff(g, Current) > 0
        PROVE  Diff(g, Current) + good <= HealTime
    <3>1. Diff(g, Current) = Ahead(g, baseline') - Pos'
      BY <1>1, <1>3, <1>4, <1>7, DiffNear DEF Pos
    <3>2. g \in gens
      BY <1>1, <1>5, <2>1, AheadDiff, DecoderAssumption
    <3>3. have_baseline
      BY <3>2 DEF WindowBound
    <3>4. CASE Near
      BY <2>1, <3>2, <3>4 DEF Healing
    <3>5. CASE Far
      <4>1. good = 1
        BY <3>5 DEF Healing
      <4> QED
        BY <1>1, <1>4, <1>7, <3>1, <4>1
    <3>6. ~Old
      BY Seen, <1>1 DEF Accept, Believe, IsNear, IsFar
    <3> QED
      BY <1>1, <3>3, <3>4, <3>5, <3>6 DEF Near, Far, Old
  <2>2. ASSUME good > HealTime PROVE Collecting(esi)'
    <3>1. Collecting(esi)
      BY <2>2 DEF Healing
    <3>2. ~decoded' => /\ Current \in gens' /\ Current \notin completed'
                       /\ symbols'[Current] \subseteq (0 .. esi' - 1) \X {Made}
                       /\ Cardinality(Indices(symbols'[Current])) >= esi + 1
      BY <1>1, <1>8, <3>1
    <3> QED
      BY <1>1, <3>2 DEF Collecting
  <2> QED
    BY <2>1, <2>2
<1> QED
  BY <1>9, <1>10, <1>11

\* The radio hands up the packet.
LEMMA DeliverKeeps ==
  ASSUME LinkInv, Deliver
  PROVE  LinkInv' /\ (~spoiled /\ out' # {} => out' = {Made} /\ ~decoded)
<1> USE DEF LinkInv
<1>1. /\ Sent /\ Packet(Current, esi, Made)
      /\ arrived' = IF reach THEN arrived + 1 ELSE arrived
      /\ decoded' = (decoded \/ out' = {Made})
      /\ outage' = IF GetsIn(Current) THEN 0 ELSE outage
      /\ UNCHANGED <<corrupted, good, reach, spoiled>>
  BY DEF Deliver
<1>2. /\ Current \in GenId /\ esi \in Esi /\ Made \in Source
      /\ esi' = esi + 1 /\ UNCHANGED <<gen_id, run>>
      /\ arrived \in Nat /\ MaxOutage \in Nat
  BY <1>1, PosType, DecoderAssumption, LinkAssumption
     DEF Sent, NextPacket, TypeOK, Sources, Made
<1>3. IInv /\ IInv' /\ Undecoded'
  BY <1>1, <1>2, PacketStep, UndecodedStep DEF IInv, TypeOK
<1>4. TypeOK' /\ WindowBound' /\ arrived' <= esi'
  <2>1. arrived' = arrived \/ arrived' = arrived + 1
    BY <1>1
  <2>2. arrived' \in 0 .. K + R /\ arrived' <= esi'
    BY <1>1, <1>3, <2>1, SentTypes DEF TypeOK
  <2>3. outage' \in 0 .. MaxOutage
    BY <1>1, <1>2 DEF TypeOK
  <2>4. decoded' \in BOOLEAN
    BY <1>1
  <2> QED
    BY <1>1, <1>3, <2>2, <2>3, <2>4, SentTypes DEF TypeOK
<1>5. ASSUME ~Accept(Current, esi, Made), ~Believe(Current, esi, Made)
      PROVE  /\ out' = {} /\ UNCHANGED <<decoded, outage>>
             /\ reach => FALSE
             /\ (Old /\ DropOld(Current)) \/ (Far /\ Quarantine(Current))
  <2>1. DropOld(Current) \/ Quarantine(Current)
    BY <1>1, <1>5 DEF Packet
  <2>2. out' = {}
    BY <2>1 DEF DropOld, Quarantine
  <2>3. decoded' = decoded
    BY <1>1, <2>2 DEF TypeOK
  <2>4. ~GetsIn(Current)
    <3>1. CASE DropOld(Current)
      BY <3>1 DEF DropOld, GetsIn, IsNear, IsFar
    <3>2. CASE Quarantine(Current)
      <4>1. Votes(Current) \in Int
        BY <1>3, DecoderAssumption DEF Votes, IInv, DecoderTypeOK
      <4>2. ~(Votes(Current) >= Confirm)
        BY <3>2, <4>1, DecoderAssumption DEF Quarantine
      <4> QED
        BY <3>2, <4>2 DEF Quarantine, GetsIn, IsFar, IsNear
    <3> QED
      BY <2>1, <3>1, <3>2
  <2>5. (Old /\ DropOld(Current)) \/ (Far /\ Quarantine(Current))
    BY <2>1, Seen DEF DropOld, Quarantine
  <2>6. reach => FALSE
    BY <2>5, PosType DEF Reached, Old, Far, Near
  <2> QED
    BY <1>1, <2>2, <2>3, <2>4, <2>5, <2>6
<1>6. CASE Accept(Current, esi, Made) \/ Believe(Current, esi, Made)
  <2>1. GetsIn(Current)
    BY <1>6 DEF Accept, Believe, GetsIn
  <2>2. Unspoiled' /\ Reached' /\ Healing'
    BY <1>1, <1>2, <1>4, <1>6, <2>1, InKeeps
  <2>3. Taken(Current, esi, Made)
    BY <1>2, <1>3, <1>6, GoesIn
  <2>4. ~spoiled /\ out' # {} => out' = {Made} /\ ~decoded
    BY <2>3, TakenOnce
  <2> QED
    BY <1>3, <1>4, <2>2, <2>4
<1>7. CASE ~Accept(Current, esi, Made) /\ ~Believe(Current, esi, Made)
  <2>1. /\ out' = {} /\ UNCHANGED <<decoded, outage, arrived>>
        /\ (Old /\ DropOld(Current)) \/ (Far /\ Quarantine(Current))
    BY <1>1, <1>5, <1>7
  <2>2. Unspoiled' /\ Reached' /\ Healing'
    BY <1>1, <1>2, <1>4, <2>1, OldKeeps, FarKeeps
  <2> QED
    BY <1>3, <1>4, <2>1, <2>2
<1> QED
  BY <1>6, <1>7

\* Nothing happens.
LEMMA StutterKeeps ==
  ASSUME LinkInv, UNCHANGED linkVars
  PROVE  LinkInv'
<1> USE DEF LinkInv
<1>1. UNCHANGED <<decoder, gen_id, esi, run, corrupted, good, spoiled, reach,
                  arrived, decoded, outage>>
  BY DEF linkVars, tx, encoder, history
<1>2. /\ UNCHANGED <<Current, Made, Pos>>
      /\ Near' <=> Near
      /\ Far' <=> Far
      /\ Old' <=> Old
      /\ Voted' <=> Voted
  BY <1>1 DEF Current, Made, Pos, Near, Far, Old, Voted, decoder
<1>3. TypeOK' /\ WindowBound' /\ arrived' <= esi'
  BY <1>1 DEF TypeOK, DecoderTypeOK, WindowBound, decoder
<1>4. Undecoded'
  BY <1>1 DEF Undecoded, Decodes, decoder
<1>5. Unspoiled'
  <2>1. Bounded' <=> Bounded
    BY <1>1, <1>2 DEF Bounded, decoder
  <2> QED
    BY <1>1, <1>2, <2>1 DEF Unspoiled, decoder
<1>6. Collecting(arrived)' <=> Collecting(arrived)
  BY <1>1, <1>2 DEF Collecting, Indices, decoder
<1>7. Collecting(esi)' <=> Collecting(esi)
  BY <1>1, <1>2 DEF Collecting, Indices, decoder
<1>8. Reached'
  BY <1>1, <1>2, <1>6 DEF Reached, decoder
<1>9. Healing'
  BY <1>1, <1>2, <1>7 DEF Healing, decoder
<1> QED
  BY <1>3, <1>4, <1>5, <1>8, <1>9

-----------------------------------------------------------------------------
(* The link *)

\* LinkInv is inductive: it holds before the first packet and through every
\* step of the transmitter and the radio.
THEOREM LinkInvariant == LinkSpec => []LinkInv
<1>1. LinkInit => LinkInv
  <2> SUFFICES ASSUME LinkInit PROVE LinkInv
    OBVIOUS
  <2>1. IInv
    BY InitIInv DEF LinkInit
  <2>2. DecoderTypeOK /\ WindowBound
    BY <2>1 DEF IInv
  <2>3. TypeOK
    <3>1. /\ 0 \in GenId /\ K + R \in 0 .. K + R /\ 0 \in 0 .. MaxRestarts
          /\ 0 \in 0 .. MaxCorrupt /\ 0 \in 0 .. K + R /\ 0 \in 0 .. MaxOutage
          /\ 0 \in 0 .. HealTime + 1
      BY Sizes, DecoderAssumption, LinkAssumption DEF GenId
    <3> QED
      BY <2>2, <3>1 DEF TypeOK, LinkInit, EncoderInit
  <2>4. Undecoded
    BY NoneDecodes DEF Undecoded, LinkInit, Init
  <2>5. Unspoiled
    BY <2>3 DEF Unspoiled, LinkInit, Init, Near, Far, TypeOK
  <2>6. Reached /\ Healing
    BY DEF Reached, Healing, LinkInit
  <2>7. arrived <= esi
    BY <2>3, DecoderAssumption, LinkAssumption DEF LinkInit, EncoderInit
  <2> QED
    BY <2>2, <2>3, <2>4, <2>5, <2>6, <2>7 DEF LinkInv
<1>2. LinkInv /\ [LinkNext]_linkVars => LinkInv'
  <2> SUFFICES ASSUME LinkInv, [LinkNext]_linkVars PROVE LinkInv'
    OBVIOUS
  <2>1. CASE Encode
    BY <2>1, EncodeKeeps
  <2>2. CASE Restart
    BY <2>2, RestartKeeps
  <2>3. CASE Deliver
    BY <2>3, DeliverKeeps
  <2>4. CASE Lose
    BY <2>4, LoseKeeps
  <2>5. CASE Corrupt
    BY <2>5, CorruptKeeps
  <2>6. CASE UNCHANGED linkVars
    BY <2>6, StutterKeeps
  <2> QED
    BY <2>1, <2>2, <2>3, <2>4, <2>5, <2>6 DEF LinkNext
<1> QED
  BY <1>1, <1>2, PTL DEF LinkSpec

\* No loss, wrong packet or restart drives the encoder or the decoder out of
\* its range (fec_encoder.h, fec_decoder.h).
THEOREM LinkTyped == LinkSpec => []TypeOK
<1>1. LinkInv => TypeOK
  BY DEF LinkInv
<1> QED
  BY <1>1, LinkInvariant, PTL

\* The point of the code: any K packets of a generation that began in reach of
\* the window deliver it, whatever was lost or came wrong among them.
THEOREM LinkAnyKSuffice == LinkSpec => []AnyKSuffice
<1>1. LinkInv => AnyKSuffice
  <2> SUFFICES ASSUME LinkInv, reach, arrived >= K, ~decoded PROVE FALSE
    BY DEF AnyKSuffice, LinkInv, TypeOK
  <2>1. Cardinality(Indices(symbols[Current])) >= arrived
    BY DEF LinkInv, Reached, Collecting
  <2>2. Current \in GenId /\ symbols \in [GenId -> SUBSET (Esi \X Source)]
    BY PosType DEF LinkInv, TypeOK, DecoderTypeOK
  <2>3. Cardinality(Indices(symbols[Current])) \in Nat
    BY <2>2, IndexFinite
  <2>4. ~(Cardinality(Indices(symbols[Current])) >= K)
    BY <2>2 DEF LinkInv, Undecoded, Decodes, Indices
  <2>5. arrived \in Nat /\ K \in Nat
    BY DecoderAssumption, LinkAssumption DEF LinkInv, TypeOK
  <2> QED
    BY <2>1, <2>3, <2>4, <2>5
<1> QED
  BY <1>1, LinkInvariant, PTL

\* From whatever state faults left the decoder in, HealTime generations without
\* another are enough: from then on each one is delivered.
THEOREM LinkHeals == LinkSpec => []HealsInTime
<1>1. LinkInv => HealsInTime
  <2> SUFFICES ASSUME LinkInv, good > HealTime, esi = K + R, ~decoded PROVE FALSE
    BY DEF HealsInTime, LinkInv, TypeOK
  <2>1. good > 0 /\ K + R >= K /\ K \in Nat /\ K + R \in Nat
    BY Sizes DEF LinkInv, TypeOK, Size
  <2>2. Cardinality(Indices(symbols[Current])) >= esi
    BY <2>1 DEF LinkInv, Healing, Collecting
  <2>3. Current \in GenId /\ symbols \in [GenId -> SUBSET (Esi \X Source)]
    BY PosType DEF LinkInv, TypeOK, DecoderTypeOK
  <2>4. Cardinality(Indices(symbols[Current])) \in Nat
    BY <2>3, IndexFinite
  <2>5. ~(Cardinality(Indices(symbols[Current])) >= K)
    BY <2>3 DEF LinkInv, Undecoded, Decodes, Indices
  <2> QED
    BY <2>1, <2>2, <2>4, <2>5
<1> QED
  BY <1>1, LinkInvariant, PTL

\* What process_phy_packet hands up is the generation being sent, unmixed, and
\* once, as long as no wrong packet got in.
THEOREM LinkDeliversOnce == LinkSpec => DeliversOnce
<1> DEFINE A == ~spoiled' /\ esi' = esi + 1 /\ out' # {} => out' = {Made} /\ ~decoded
<1>1. LinkInv /\ [LinkNext]_linkVars => [A]_linkVars
  <2> SUFFICES ASSUME LinkInv, LinkNext, ~spoiled', esi' = esi + 1, out' # {}
               PROVE  out' = {Made} /\ ~decoded
    OBVIOUS
  <2>1. CASE Encode
    BY <2>1, Sizes DEF Encode, EncodeGeneration, Size
  <2>2. CASE Restart
    BY <2>2 DEF Restart
  <2>3. CASE Deliver
    BY <2>3, DeliverKeeps DEF Deliver
  <2>4. CASE Lose
    BY <2>4 DEF Lose
  <2>5. CASE Corrupt
    BY <2>5, CorruptKeeps
  <2> QED
    BY <2>1, <2>2, <2>3, <2>4, <2>5 DEF LinkNext
<1> QED
  BY <1>1, LinkInvariant, PTL DEF LinkSpec, DeliversOnce

-----------------------------------------------------------------------------
(* The link with a spreader: ids and blocks *)

LEMMA SpreadSizes ==
  /\ Size \in Nat /\ Size > 0 /\ Esi = 0 .. Size - 1 /\ Data \in Source
  /\ K \in Nat /\ K > 0 /\ R \in Nat /\ Size = K + R
  /\ Depth \in Nat /\ Depth > 0 /\ Half \in Nat /\ Half > 0
  /\ Block = Depth * Size /\ Block \in Nat /\ Block >= Size
  /\ MaxFade \in Nat /\ MaxWild \in Nat
<1>1. /\ Size \in Nat /\ Size > 0 /\ Depth \in Nat /\ Depth > 0
  BY DecoderAssumption, SpreadAssumption, SpreaderAssumption DEF Size
<1>2. Depth * Size \in Nat /\ Depth * Size >= Size
  BY <1>1
<1> QED
  BY <1>1, <1>2, DecoderAssumption, SpreadAssumption DEF Size, Block

\* The id that is i generations past g.
Plus(g, i) == (g + i) % (2 * Half)

\* The remainder is what is left when a multiple is taken off.
LEMMA Remainder ==
  ASSUME NEW m \in Nat, m > 0, NEW q \in Int, NEW r \in 0 .. m - 1
  PROVE  (m * q + r) % m = r
<1> DEFINE x == m * q + r
           p == x \div m
           t == x % m
<1>1. x \in Int /\ p \in Int /\ t \in 0 .. m - 1 /\ x = m * p + t
  OBVIOUS
<1>2. m * q + r = m * p + t
  BY <1>1
<1> HIDE DEF x, p, t
<1>3. m * (q - p) = t - r
  BY <1>1, <1>2
<1>4. q - p >= 1 => m * (q - p) >= m
  BY <1>1
<1>5. q - p <= -1 => m * (q - p) <= -m
  BY <1>1
<1>6. q = p
  BY <1>1, <1>3, <1>4, <1>5
<1>7. t = r
  BY <1>1, <1>2, <1>6
<1> QED
  BY <1>7 DEF x, t

\* What div and mod are.
LEMMA Division ==
  ASSUME NEW m \in Nat, m > 0, NEW x \in Int
  PROVE  /\ x \div m \in Int /\ x % m \in 0 .. m - 1
         /\ x = m * (x \div m) + (x % m)
OBVIOUS

\* Generations on from generations on, across the wrap.
LEMMA PlusPlus ==
  ASSUME NEW g \in GenId, NEW i \in Nat, NEW j \in Nat
  PROVE  /\ Plus(g, i) \in GenId
         /\ Plus(g, 0) = g
         /\ Plus(Plus(g, i), j) = Plus(g, i + j)
<1> DEFINE m == 2 * Half
           q == (g + i) \div m
           h == Plus(g, i)
           u == (h + j) \div m
           v == (h + j) % m
<1>1. m \in Nat /\ m > 0 /\ g \in 0 .. m - 1
  BY SpreadSizes DEF GenId
<1> HIDE DEF m
<1>2. q \in Int /\ h \in 0 .. m - 1 /\ g + i = m * q + h
  <2>1. g + i \in Int
    BY <1>1
  <2> QED
    BY <1>1, <2>1, Division DEF Plus, m
<1> HIDE DEF q, h
<1>3. u \in Int /\ v \in 0 .. m - 1 /\ h + j = m * u + v
  <2>1. h + j \in Int
    BY <1>1, <1>2
  <2> QED
    BY <1>1, <2>1, Division
<1> HIDE DEF u, v
<1>4. g + (i + j) = m * (q + u) + v
  BY <1>1, <1>2, <1>3
<1>5. (g + (i + j)) % m = v
  <2>1. q + u \in Int
    BY <1>2, <1>3
  <2>2. (m * (q + u) + v) % m = v
    BY <1>1, <1>3, <2>1, Remainder
  <2> QED
    BY <1>4, <2>2
<1>6. Plus(h, j) = v /\ Plus(g, i + j) = v
  BY <1>5 DEF Plus, m, v
<1>7. Plus(g, 0) = g
  BY <1>1 DEF Plus, m
<1> QED
  BY <1>1, <1>2, <1>6, <1>7 DEF h, GenId, m

\* The id after h is another, and the one before it is h.
LEMMA PlusOne ==
  ASSUME NEW h \in GenId
  PROVE  Plus(h, 1) # h /\ (Plus(h, 1) - 1) % (2 * Half) = h
<1>1. Half \in Nat /\ Half > 1 /\ h \in 0 .. 2 * Half - 1
  BY DecoderAssumption DEF GenId
<1>2. Plus(h, 1) = IF h = 2 * Half - 1 THEN 0 ELSE h + 1
  BY <1>1 DEF Plus
<1>3. h % (2 * Half) = h /\ (-1) % (2 * Half) = 2 * Half - 1
  BY <1>1
<1> QED
  BY <1>1, <1>2, <1>3

\* Columns of n places, counted through.
LEMMA Radix ==
  ASSUME NEW n \in Nat, NEW c \in Nat, NEW d \in Nat,
         NEW i \in 0 .. n - 1, NEW j \in 0 .. n - 1
  PROVE  /\ c * n + i \in Nat
         /\ c * n + i < d * n + j <=> c < d \/ (c = d /\ i < j)
         /\ c * n + i = d * n + j => c = d /\ i = j
<1>1. c * n \in Nat /\ d * n \in Nat
  OBVIOUS
<1>2. ASSUME NEW a \in Nat, NEW b \in Nat, a < b PROVE a * n + n <= b * n
  <2>1. b - a - 1 \in Nat
    BY <1>2
  <2>2. (b - a - 1) * n >= 0
    BY <2>1
  <2>3. (b - a - 1) * n = b * n - a * n - n
    OBVIOUS
  <2> QED
    BY <2>2, <2>3
<1>3. c < d => c * n + n <= d * n
  BY <1>2
<1>4. d < c => d * n + n <= c * n
  BY <1>2
<1> QED
  BY <1>1, <1>3, <1>4

\* Every number below n * Size is one column and one row.
LEMMA Cell ==
  ASSUME NEW n \in Nat, NEW x \in Nat, x < n * Size
  PROVE  \E c \in 0 .. Size - 1, i \in 0 .. n - 1 : x = c * n + i
<1>1. Size \in Nat /\ Size > 0 /\ n > 0
  BY SpreadSizes
<1> DEFINE c == x \div n
           i == x % n
<1>2. c \in Int /\ i \in 0 .. n - 1 /\ x = n * c + i
  BY <1>1, Division
<1> HIDE DEF c, i
<1>3. c * n = n * c /\ Size * n = n * Size
  BY <1>1, <1>2
<1>4. ~(c < 0)
  <2> SUFFICES ASSUME c <= -1 PROVE FALSE
    BY <1>2
  <2>1. n * c <= -n
    BY <1>1, <1>2
  <2> QED
    BY <1>1, <1>2, <2>1
<1>5. ~(c >= Size)
  <2> SUFFICES ASSUME c >= Size PROVE FALSE
    OBVIOUS
  <2>1. n * c >= n * Size
    BY <1>1, <1>2
  <2> QED
    BY <1>1, <1>2, <2>1
<1>6. c \in 0 .. Size - 1 /\ x = c * n + i
  BY <1>1, <1>2, <1>3, <1>4, <1>5
<1> QED
  BY <1>2, <1>6

-----------------------------------------------------------------------------
(* A block, read by columns *)

\* l rows from id g on, the last with k of its packets.
Stack(g, l, k) ==
  [r \in 1 .. l |->
     Row(Plus(g, r - 1), [c \in 1 .. (IF r = l THEN k ELSE Size) |-> c - 1])]

\* Interleaved, with its parts named: the places before x, and the place q.
Rank(rows, x) == Cardinality({y \in Places(rows) : ColumnFirst(y, x)})
PlaceOf(rows, q) == CHOOSE x \in Places(rows) : Rank(rows, x) = q - 1

LEMMA InterleavedDef ==
  ASSUME NEW rows
  PROVE  Interleaved(rows) =
           [q \in 1 .. Cardinality(Places(rows)) |->
              <<rows[PlaceOf(rows, q)[2]].gen_id,
                rows[PlaceOf(rows, q)[2]].pkts[PlaceOf(rows, q)[1]]>>]
BY DEF Interleaved, PlaceOf, Rank

\* The places of full rows are a rectangle.
LEMMA Rectangle ==
  ASSUME NEW g \in GenId, NEW n \in Nat, NEW rows, rows = Stack(g, n, Size)
  PROVE  /\ DOMAIN rows = 1 .. n
         /\ \A r \in 1 .. n : /\ rows[r].gen_id = Plus(g, r - 1)
                             /\ rows[r].pkts = [c \in 1 .. Size |-> c - 1]
         /\ Places(rows) = (1 .. Size) \X (1 .. n)
<1>1. /\ DOMAIN rows = 1 .. n
      /\ \A r \in 1 .. n : /\ rows[r].gen_id = Plus(g, r - 1)
                          /\ rows[r].pkts = [c \in 1 .. Size |-> c - 1]
  BY DEF Stack, Row
<1>2. \A r \in 1 .. n : DOMAIN rows[r].pkts = 1 .. Size
  BY <1>1
<1>3. Places(rows) = UNION {(1 .. Size) \X {r} : r \in 1 .. n}
  <2>1. \A r \in 1 .. n : (DOMAIN rows[r].pkts) \X {r} = (1 .. Size) \X {r}
    BY <1>2
  <2>2. {(DOMAIN rows[r].pkts) \X {r} : r \in 1 .. n} = {(1 .. Size) \X {r} : r \in 1 .. n}
    BY <2>1
  <2>3. Places(rows) = UNION {(DOMAIN rows[r].pkts) \X {r} : r \in 1 .. n}
    BY <1>1 DEF Places
  <2> QED
    BY <2>2, <2>3
<1>4. UNION {(1 .. Size) \X {r} : r \in 1 .. n} = (1 .. Size) \X (1 .. n)
  <2> DEFINE U == UNION {(1 .. Size) \X {r} : r \in 1 .. n}
  <2>1. U \subseteq (1 .. Size) \X (1 .. n)
    OBVIOUS
  <2>2. ASSUME NEW c \in 1 .. Size, NEW r \in 1 .. n PROVE <<c, r>> \in U
    <3>1. <<c, r>> \in (1 .. Size) \X {r}
      OBVIOUS
    <3> QED
      BY <3>1
  <2>3. (1 .. Size) \X (1 .. n) \subseteq U
    BY <2>2
  <2> QED
    BY <2>1, <2>3
<1> QED
  BY <1>1, <1>3, <1>4

\* The first m numbers are m.
LEMMA FirstNumbers ==
  ASSUME NEW m \in Nat
  PROVE  IsFiniteSet(1 .. m) /\ Cardinality(1 .. m) = m
<1>1. 1 \in Int /\ m \in Int /\ m - 1 + 1 = m /\ (1 > m <=> m = 0)
  OBVIOUS
<1> QED
  BY <1>1, FS_Interval

\* As many places come before one as the count through the columns says.
LEMMA RankInRectangle ==
  ASSUME NEW n \in Nat, NEW rows, Places(rows) = (1 .. Size) \X (1 .. n),
         NEW c \in 0 .. Size - 1, NEW i \in 0 .. n - 1
  PROVE  Rank(rows, <<c + 1, i + 1>>) = c * n + i
<1> DEFINE A == (1 .. c) \X (1 .. n)
           B == {c + 1} \X (1 .. i)
<1>1. Size \in Nat /\ c \in Nat /\ i \in Nat
  BY SpreadSizes
<1>2. {y \in Places(rows) : ColumnFirst(y, <<c + 1, i + 1>>)} = A \cup B
  BY <1>1 DEF ColumnFirst
<1>3. IsFiniteSet(A) /\ Cardinality(A) = c * n
  <2>1. /\ IsFiniteSet(1 .. c) /\ Cardinality(1 .. c) = c
        /\ IsFiniteSet(1 .. n) /\ Cardinality(1 .. n) = n
    BY <1>1, FirstNumbers
  <2>2. IsFiniteSet(A) /\ Cardinality(A) = Cardinality(1 .. c) * Cardinality(1 .. n)
    BY <2>1, FS_Product
  <2> HIDE DEF A
  <2> QED
    BY <2>1, <2>2
<1>4. IsFiniteSet(B) /\ Cardinality(B) = i
  <2>1. /\ IsFiniteSet({c + 1}) /\ Cardinality({c + 1}) = 1
        /\ IsFiniteSet(1 .. i) /\ Cardinality(1 .. i) = i
    <3>1. IsFiniteSet({c + 1}) /\ Cardinality({c + 1}) = 1
      BY FS_Singleton
    <3>2. IsFiniteSet(1 .. i) /\ Cardinality(1 .. i) = i
      BY <1>1, FirstNumbers
    <3> QED
      BY <3>1, <3>2
  <2>2. IsFiniteSet(B) /\ Cardinality(B) = Cardinality({c + 1}) * Cardinality(1 .. i)
    BY <2>1, FS_Product
  <2> QED
    BY <1>1, <2>1, <2>2
<1>5. A \cap B = {}
  BY <1>1
<1>6. Cardinality(A \cap B) = 0
  BY <1>5, FS_EmptySet
<1> HIDE DEF A, B
<1>7. Cardinality(A \cup B) = Cardinality(A) + Cardinality(B) - Cardinality(A \cap B)
  BY <1>3, <1>4, FS_Union
<1>8. c * n \in Int
  BY <1>1
<1> QED
  <2>1. Cardinality(A \cup B) = c * n + i
    BY <1>1, <1>3, <1>4, <1>6, <1>7, <1>8
  <2> QED
    BY <1>2, <2>1 DEF Rank

\* What a full block of n rows goes out as.
LEMMA ReadByColumns ==
  ASSUME NEW g \in GenId, NEW n \in Nat, NEW rows, rows = Stack(g, n, Size)
  PROVE  /\ Interleaved(rows) \in Seq(GenId \X Esi)
         /\ Len(Interleaved(rows)) = n * Size
         /\ \A c \in 0 .. Size - 1, i \in 0 .. n - 1 :
              Interleaved(rows)[c * n + i + 1] = <<Plus(g, i), c>>
<1>1. Size \in Nat /\ Size > 0 /\ Esi = 0 .. Size - 1 /\ n * Size \in Nat
  BY SpreadSizes
<1>2. /\ \A r \in 1 .. n : /\ rows[r].gen_id = Plus(g, r - 1)
                          /\ rows[r].pkts = [c \in 1 .. Size |-> c - 1]
      /\ Places(rows) = (1 .. Size) \X (1 .. n)
  BY Rectangle
<1>3. Cardinality(Places(rows)) = n * Size
  <2>1. /\ IsFiniteSet(1 .. Size) /\ Cardinality(1 .. Size) = Size
        /\ IsFiniteSet(1 .. n) /\ Cardinality(1 .. n) = n
    BY <1>1, FirstNumbers
  <2>2. Cardinality((1 .. Size) \X (1 .. n)) = Cardinality(1 .. Size) * Cardinality(1 .. n)
    BY <2>1, FS_Product
  <2>3. Size * n = n * Size
    BY <1>1
  <2> QED
    BY <1>2, <2>1, <2>2, <2>3
<1>4. ASSUME NEW c \in 0 .. Size - 1, NEW i \in 0 .. n - 1
      PROVE  /\ PlaceOf(rows, c * n + i + 1) = <<c + 1, i + 1>>
             /\ c * n + i + 1 \in 1 .. n * Size
  <2> DEFINE z == c * n + i
             x == <<c + 1, i + 1>>
  <2>1. x \in Places(rows) /\ Rank(rows, x) = z
    BY <1>1, <1>2, RankInRectangle
  <2>2. ASSUME NEW y \in Places(rows), Rank(rows, y) = z PROVE y = x
    <3>1. PICK d \in 0 .. Size - 1, j \in 0 .. n - 1 : y = <<d + 1, j + 1>>
      <4>1. /\ y = <<y[1], y[2]>> /\ y[1] \in 1 .. Size /\ y[2] \in 1 .. n
        BY <1>2
      <4>2. /\ y[1] - 1 \in 0 .. Size - 1 /\ y[2] - 1 \in 0 .. n - 1
            /\ y[1] = (y[1] - 1) + 1 /\ y[2] = (y[2] - 1) + 1
        BY <1>1, <4>1
      <4> QED
        BY <4>1, <4>2
    <3>2. d * n + j = c * n + i
      BY <1>2, <2>2, <3>1, RankInRectangle
    <3>3. d = c /\ j = i
      BY <1>1, <3>2, Radix
    <3> QED
      BY <3>1, <3>3
  <2>3. (z + 1) - 1 = z /\ z \in Nat
    BY <1>1, Radix
  <2>4. z + 1 \in 1 .. n * Size
    <3>1. c + 1 <= Size /\ c \in Nat /\ n > 0
      BY <1>1
    <3>2. (c + 1) * n <= Size * n
      BY <1>1, <3>1
    <3>3. (c + 1) * n = c * n + n /\ Size * n = n * Size
      BY <1>1, <3>1
    <3> QED
      BY <1>1, <2>3, <3>2, <3>3
  <2> HIDE DEF z, x
  <2>5. PlaceOf(rows, z + 1) = x
    BY <2>1, <2>2, <2>3 DEF PlaceOf
  <2> QED
    BY <2>4, <2>5 DEF z, x
<1>5. \A c \in 0 .. Size - 1, i \in 0 .. n - 1 :
        Interleaved(rows)[c * n + i + 1] = <<Plus(g, i), c>>
  <2> TAKE c \in 0 .. Size - 1, i \in 0 .. n - 1
  <2> DEFINE q == c * n + i + 1
  <2>1. PlaceOf(rows, q) = <<c + 1, i + 1>> /\ q \in 1 .. n * Size
    BY <1>4
  <2> HIDE DEF q
  <2>2. Interleaved(rows)[q] = <<rows[i + 1].gen_id, rows[i + 1].pkts[c + 1]>>
    <3>1. Interleaved(rows)[q] = <<rows[PlaceOf(rows, q)[2]].gen_id,
                                   rows[PlaceOf(rows, q)[2]].pkts[PlaceOf(rows, q)[1]]>>
      BY <1>3, <2>1, InterleavedDef
    <3>2. PlaceOf(rows, q)[1] = c + 1 /\ PlaceOf(rows, q)[2] = i + 1
      BY <2>1
    <3> QED
      BY <3>1, <3>2
  <2>3. i + 1 \in 1 .. n /\ c + 1 \in 1 .. Size /\ (i + 1) - 1 = i /\ (c + 1) - 1 = c
    BY <1>1
  <2>4. rows[i + 1].gen_id = Plus(g, i) /\ rows[i + 1].pkts[c + 1] = c
    BY <1>2, <2>3
  <2> QED
    BY <2>2, <2>4 DEF q
<1>6. Interleaved(rows) \in [1 .. n * Size -> GenId \X Esi]
  <2>1. ASSUME NEW q \in 1 .. n * Size PROVE Interleaved(rows)[q] \in GenId \X Esi
    <3>1. q - 1 \in Nat /\ q - 1 < n * Size
      BY <1>1
    <3>2. PICK c \in 0 .. Size - 1, i \in 0 .. n - 1 : q - 1 = c * n + i
      BY <3>1, Cell
    <3>3. q = c * n + i + 1 /\ i \in Nat
      BY <1>1, <3>1, <3>2, Radix
    <3>4. Interleaved(rows)[q] = <<Plus(g, i), c>>
      BY <1>5, <3>3
    <3> QED
        <4>1. Plus(g, i) \in GenId /\ c \in Esi
        BY <1>1, <3>3, PlusPlus
      <4> QED
        BY <3>4, <4>1
  <2> QED
    BY <1>3, <2>1, InterleavedDef
<1>7. Interleaved(rows) \in Seq(GenId \X Esi) /\ Len(Interleaved(rows)) = n * Size
  BY <1>1, <1>6
<1> QED
  BY <1>5, <1>7

-----------------------------------------------------------------------------
(* The sender: what is on the air, and what waits behind it *)

\* How many packets of a block of n rows are gone.
Gone(n) == n * Size - Len(m_outq)

\* The block on the air has n rows from id o on.
OnAir(n, o) ==
  /\ m_outq \in Seq(GenId \X Esi) /\ Len(m_outq) <= n * Size
  /\ \A c \in 0 .. Size - 1, i \in 0 .. n - 1 :
       c * n + i >= Gone(n) => m_outq[(c * n + i) - Gone(n) + 1] = <<Plus(o, i), c>>

\* The next one has l rows so far, from id g on.
Rows(g, l) ==
  /\ esi \in 0 .. Size
  /\ m_rows = Stack(g, l, IF esi = 0 THEN Size ELSE esi)
  /\ gen_id = Plus(g, IF esi = 0 THEN l + 1 ELSE l)
  /\ 0 < esi /\ esi < Size => l >= 1

\* What m_rows is a sequence of.
RowSet == [gen_id : GenId, pkts : Seq(Esi)]

\* A stack with its last row begun: how long it is and what its rows are.
LEMMA StackIs ==
  ASSUME NEW g \in GenId, NEW l \in Nat, NEW k \in 1 .. Size
  PROVE  /\ Stack(g, l, k) \in Seq(RowSet) /\ Len(Stack(g, l, k)) = l
         /\ Stack(g, l, k) = <<>> <=> l = 0
         /\ l > 0 => /\ Stack(g, l, k)[l].gen_id = Plus(g, l - 1)
                     /\ Stack(g, l, k)[l].pkts = [c \in 1 .. k |-> c - 1]
<1> DEFINE S == Stack(g, l, k)
<1>1. Size \in Nat /\ Esi = 0 .. Size - 1
  BY SpreadSizes
<1>2. ASSUME NEW j \in 0 .. Size PROVE [c \in 1 .. j |-> c - 1] \in Seq(Esi)
  <2>1. [c \in 1 .. j |-> c - 1] \in [1 .. j -> Esi]
    BY <1>1
  <2> QED
    BY <1>1, <2>1
<1>3. \A r \in 1 .. l : Row(Plus(g, r - 1), [c \in 1 .. (IF r = l THEN k ELSE Size) |-> c - 1]) \in RowSet
  <2> TAKE r \in 1 .. l
  <2>1. Plus(g, r - 1) \in GenId
    BY PlusPlus
  <2>2. (IF r = l THEN k ELSE Size) \in 0 .. Size
    BY <1>1
  <2>3. [c \in 1 .. (IF r = l THEN k ELSE Size) |-> c - 1] \in Seq(Esi)
    BY <1>2, <2>2
  <2> QED
    BY <2>1, <2>3 DEF Row, RowSet
<1>4. S \in [1 .. l -> RowSet]
  BY <1>3 DEF Stack
<1>5. S \in Seq(RowSet) /\ Len(S) = l
  BY <1>4
<1>6. l > 0 => /\ S[l].gen_id = Plus(g, l - 1)
               /\ S[l].pkts = [c \in 1 .. k |-> c - 1]
  BY DEF Stack, Row
<1> HIDE DEF S
<1>7. S = <<>> <=> l = 0
  BY <1>5, EmptySeq
<1> QED
  BY <1>5, <1>6, <1>7 DEF S

\* A packet more in the last row.
LEMMA StackGrows ==
  ASSUME NEW g \in GenId, NEW l \in Nat
  PROVE  Append(Stack(g, l, Size), Row(Plus(g, l), <<0>>)) = Stack(g, l + 1, 1)
<1> DEFINE S == Stack(g, l, Size)
           T == Stack(g, l + 1, 1)
           row == Row(Plus(g, l), <<0>>)
<1>1. Size \in Nat /\ Size > 0 /\ 1 \in 1 .. Size /\ Size \in 1 .. Size
  BY SpreadSizes
<1>2. S \in Seq(RowSet) /\ Len(S) = l /\ T \in Seq(RowSet) /\ Len(T) = l + 1
  <2>1. l + 1 \in Nat
    OBVIOUS
  <2>2. T \in Seq(RowSet) /\ Len(T) = l + 1
    BY <1>1, <2>1, StackIs
  <2> QED
    BY <1>1, <2>2, StackIs
<1>3. <<0>> = [c \in 1 .. 1 |-> c - 1]
  OBVIOUS
<1>4. row = T[l + 1]
  BY <1>3 DEF Stack
<1>5. \A r \in 1 .. l : S[r] = T[r]
  <2> TAKE r \in 1 .. l
  <2>1. S[r] = Row(Plus(g, r - 1), [c \in 1 .. Size |-> c - 1])
    BY DEF Stack
  <2>2. r \in 1 .. l + 1 /\ r # l + 1
    OBVIOUS
  <2>3. T[r] = Row(Plus(g, r - 1), [c \in 1 .. Size |-> c - 1])
    BY <2>2 DEF Stack
  <2> QED
    BY <2>1, <2>3
<1> HIDE DEF S, T, row
<1>6. row \in RowSet
  BY <1>2, <1>4
<1>7. Append(S, row) \in Seq(RowSet) /\ Len(Append(S, row)) = l + 1
  BY <1>2, <1>6
<1>8. \A r \in 1 .. l + 1 : Append(S, row)[r] = T[r]
  BY <1>2, <1>4, <1>5, <1>6
<1>9. Append(S, row) = T
  BY <1>2, <1>7, <1>8, SeqEqual
<1> QED
  BY <1>9 DEF S, T, row

\* The last row is full and the next begins.
LEMMA StackFills ==
  ASSUME NEW g \in GenId, NEW l \in Nat, l > 0, NEW k \in 1 .. Size - 1
  PROVE  [Stack(g, l, k) EXCEPT ![l].pkts = Append(@, k)] = Stack(g, l, k + 1)
<1> DEFINE S == Stack(g, l, k)
           T == Stack(g, l, k + 1)
           f == [c \in 1 .. k |-> c - 1]
           h == [c \in 1 .. k + 1 |-> c - 1]
<1>1. Size \in Nat /\ Esi = 0 .. Size - 1
  BY SpreadSizes
<1>2. Append(f, k) = h
  <2>1. f \in [1 .. k -> Int] /\ h \in [1 .. k + 1 -> Int]
    OBVIOUS
  <2>2. f \in Seq(Int) /\ Len(f) = k /\ h \in Seq(Int) /\ Len(h) = k + 1
    BY <2>1
  <2>3. Append(f, k) \in Seq(Int) /\ Len(Append(f, k)) = k + 1
    BY <2>2
  <2>4. \A j \in 1 .. k + 1 : Append(f, k)[j] = h[j]
    BY <2>2
  <2> QED
    BY <2>2, <2>3, <2>4, SeqEqual
<1>3. /\ DOMAIN S = 1 .. l /\ DOMAIN T = 1 .. l
      /\ \A r \in 1 .. l : r # l => S[r] = T[r]
      /\ S[l] = Row(Plus(g, l - 1), f) /\ T[l] = Row(Plus(g, l - 1), h)
  BY DEF Stack
<1> HIDE DEF S, T, f, h
<1>4. [S EXCEPT ![l].pkts = Append(@, k)] =
        [r \in 1 .. l |-> IF r = l THEN [S[l] EXCEPT !.pkts = Append(S[l].pkts, k)]
                                   ELSE S[r]]
  BY <1>3
<1>5. [S[l] EXCEPT !.pkts = Append(S[l].pkts, k)] = T[l]
  <2>1. S[l] = [gen_id |-> Plus(g, l - 1), pkts |-> f]
    BY <1>3 DEF Row
  <2>2. S[l].pkts = f
    BY <2>1
  <2>3. [S[l] EXCEPT !.pkts = h] = [gen_id |-> Plus(g, l - 1), pkts |-> h]
    BY <2>1
  <2> QED
    BY <1>2, <1>3, <2>2, <2>3 DEF Row
<1>6. T = [r \in 1 .. l |-> T[r]]
  BY <1>3 DEF T, Stack
<1> QED
  BY <1>3, <1>4, <1>5, <1>6 DEF S, T

\* The rows while a generation is in the outbox.
LEMMA RowsIs ==
  ASSUME NEW g \in GenId, NEW l \in Nat, Rows(g, l)
  PROVE  /\ m_rows \in Seq(RowSet) /\ Len(m_rows) = l /\ (m_rows = <<>> <=> l = 0)
         /\ l > 0 => m_rows[l].gen_id = Plus(g, l - 1)
         /\ gen_id \in GenId /\ esi \in Nat
         /\ esi = 0 => Current = Plus(g, l)
         /\ 0 < esi /\ esi < Size => l > 0 /\ Current = Plus(g, l - 1)
<1>1. Size \in Nat /\ Size > 0 /\ esi \in 0 .. Size
  BY SpreadSizes DEF Rows
<1> DEFINE k == IF esi = 0 THEN Size ELSE esi
<1>2. k \in 1 .. Size
  BY <1>1
<1>3. m_rows = Stack(g, l, k)
  BY DEF Rows
<1> HIDE DEF k
<1>4. /\ m_rows \in Seq(RowSet) /\ Len(m_rows) = l /\ (m_rows = <<>> <=> l = 0)
      /\ l > 0 => m_rows[l].gen_id = Plus(g, l - 1)
  BY <1>2, <1>3, StackIs
<1>5. gen_id \in GenId
  <2>1. gen_id = Plus(g, IF esi = 0 THEN l + 1 ELSE l)
    BY DEF Rows
  <2>2. (IF esi = 0 THEN l + 1 ELSE l) \in Nat
    OBVIOUS
  <2> QED
    BY <2>1, <2>2, PlusPlus
<1>6. ASSUME NEW j \in Nat, gen_id = Plus(g, j + 1) PROVE Current = Plus(g, j)
  <2>1. Plus(g, j) \in GenId /\ Plus(Plus(g, j), 1) = Plus(g, j + 1)
    BY PlusPlus
  <2>2. (Plus(Plus(g, j), 1) - 1) % (2 * Half) = Plus(g, j)
    BY <2>1, PlusOne
  <2> QED
    BY <1>6, <2>1, <2>2 DEF Current
<1>7. esi = 0 => Current = Plus(g, l)
  BY <1>6 DEF Rows
<1>8. 0 < esi /\ esi < Size => l > 0 /\ Current = Plus(g, l - 1)
  <2> SUFFICES ASSUME 0 < esi, esi < Size PROVE l > 0 /\ Current = Plus(g, l - 1)
    OBVIOUS
  <2>1. l > 0 /\ gen_id = Plus(g, l)
    BY <1>1 DEF Rows
  <2>2. l - 1 \in Nat /\ (l - 1) + 1 = l
    BY <2>1
  <2> QED
    BY <1>6, <2>1, <2>2
<1> QED
  BY <1>1, <1>4, <1>5, <1>7, <1>8

\* Encoding a generation leaves the rows as they are.
LEMMA FillRows ==
  ASSUME NEW g \in GenId, NEW l \in Nat, Rows(g, l), Fill
  PROVE  Rows(g, l)'
<1>1. /\ esi = Size /\ gen_id' = (gen_id + 1) % (2 * Half) /\ esi' = 0 /\ m_rows' = m_rows
      /\ Size \in Nat /\ Size > 0
  BY SpreadSizes DEF Fill, EncodeGeneration, spreader, Size
<1>2. gen_id = Plus(g, l) /\ m_rows = Stack(g, l, Size)
  BY <1>1 DEF Rows
<1>3. gen_id' = Plus(g, l + 1)
  BY <1>1, <1>2, PlusPlus DEF Plus
<1> QED
  BY <1>1, <1>2, <1>3 DEF Rows

\* A packet that is pushed goes into the last row, starts a new one, or starts
\* the next block and sends the rows there are.
LEMMA PushRows ==
  ASSUME NEW g \in GenId, NEW l \in 0 .. Depth, Rows(g, l), PushNext
  PROVE  /\ Emits(Current) => /\ l = Depth /\ m_rows = Stack(g, l, Size)
                              /\ m_outq' = m_outq \o Interleaved(m_rows)
                              /\ Rows(Plus(g, l), 1)'
         /\ ~Emits(Current) => /\ m_outq' = m_outq
                               /\ \E m \in 0 .. Depth : Rows(g, m)'
<1>1. /\ Size \in Nat /\ Size > 0 /\ esi \in 0 .. Size /\ esi < Size /\ esi' = esi + 1
      /\ gen_id' = gen_id /\ l \in Nat /\ Depth \in Nat
  BY SpreadSizes DEF PushNext, NextPacket, Size, Rows
<1>2. Push(Current, esi)
  BY DEF PushNext
<1>3. /\ m_rows \in Seq(RowSet) /\ Len(m_rows) = l /\ (m_rows = <<>> <=> l = 0)
      /\ l > 0 => m_rows[l].gen_id = Plus(g, l - 1)
      /\ esi = 0 => Current = Plus(g, l)
      /\ 0 < esi => l > 0 /\ Current = Plus(g, l - 1)
  BY <1>1, RowsIs
<1>4. NewRow(Current) <=> esi = 0
  <2>0. NewRow(Current) <=> l = 0 \/ m_rows[l].gen_id # Current
    <3>1. Len(m_rows) = l /\ (m_rows = <<>> <=> l = 0)
      BY <1>3
    <3> QED
      BY <3>1, Zenon DEF NewRow
  <2>1. CASE esi = 0
    <3>1. ASSUME l > 0 PROVE Plus(g, l) # Plus(g, l - 1)
      <4>1. l - 1 \in Nat /\ (l - 1) + 1 = l
        BY <1>1, <3>1
      <4>2. Plus(g, l - 1) \in GenId /\ Plus(Plus(g, l - 1), 1) = Plus(g, l)
        BY <4>1, PlusPlus
      <4> QED
        BY <4>2, PlusOne
    <3> QED
      BY <1>1, <1>3, <2>0, <2>1, <3>1
  <2>2. CASE esi > 0
    BY <1>1, <1>3, <2>0, <2>2
  <2> QED
    BY <1>1, <2>1, <2>2
<1>5. CASE esi = 0
  <2>1. /\ m_rows = Stack(g, l, Size) /\ gen_id = Plus(g, l + 1)
        /\ NewRow(Current) /\ Current = Plus(g, l) /\ esi' = 1
    BY <1>1, <1>3, <1>4, <1>5 DEF Rows
  <2>2. CASE Emits(Current)
    <3>1. l = Depth
      <4>1. Len(m_rows) >= Depth /\ Len(m_rows) = l
        BY <1>3, <2>2 DEF Emits
      <4> QED
        BY <1>1, <4>1
    <3>2. /\ m_outq' = m_outq \o Interleaved(m_rows)
          /\ m_rows' = Append(<<>>, Row(Plus(g, l), <<0>>))
      BY <1>2, <1>5, <2>1, <2>2 DEF Push
    <3> DEFINE h == Plus(g, l)
    <3>3. h \in GenId /\ Plus(h, 0) = h /\ Plus(h, 1) = Plus(g, l + 1)
      BY <1>1, PlusPlus
    <3>4. Stack(h, 0, Size) = <<>>
      BY DEF Stack
    <3>5. m_rows' = Stack(h, 1, 1)
      BY <3>2, <3>3, <3>4, StackGrows
    <3> HIDE DEF h
    <3>6. Rows(h, 1)'
      BY <1>1, <2>1, <3>3, <3>5 DEF Rows
    <3> QED
      BY <2>1, <2>2, <3>1, <3>2, <3>6 DEF h
  <2>3. CASE ~Emits(Current)
    <3>1. l < Depth /\ l + 1 \in 0 .. Depth
      <4>1. ~(Len(m_rows) >= Depth) /\ Len(m_rows) = l
        BY <1>3, <2>1, <2>3 DEF Emits
      <4> QED
        BY <1>1, <4>1
    <3>2. /\ m_outq' = m_outq
          /\ m_rows' = Append(m_rows, Row(Plus(g, l), <<0>>))
      BY <1>2, <1>5, <2>1, <2>3 DEF Push
    <3>3. m_rows' = Stack(g, l + 1, 1)
      BY <1>1, <2>1, <3>2, StackGrows
    <3>4. Rows(g, l + 1)'
      BY <1>1, <2>1, <3>3 DEF Rows
    <3> QED
      BY <2>3, <3>1, <3>2, <3>4
  <2> QED
    BY <2>2, <2>3
<1>6. CASE esi > 0
  <2>1. ~NewRow(Current) /\ ~Emits(Current) /\ l > 0 /\ esi' > 0
    BY <1>1, <1>3, <1>4, <1>6 DEF Emits
  <2>2. m_rows = Stack(g, l, esi) /\ gen_id = Plus(g, l)
    BY <1>1, <1>6 DEF Rows
  <2>3. /\ m_outq' = m_outq
        /\ m_rows' = [m_rows EXCEPT ![l].pkts = Append(@, esi)]
    <3>1. Len(m_rows) = l
      BY <1>3
    <3> QED
      BY <1>2, <2>1, <3>1, Zenon DEF Push
  <2>4. m_rows' = Stack(g, l, esi + 1)
    <3>1. esi \in 1 .. Size - 1
      BY <1>1, <1>6
    <3>2. [Stack(g, l, esi) EXCEPT ![l].pkts = Append(@, esi)] = Stack(g, l, esi + 1)
      BY <1>1, <2>1, <3>1, StackFills
    <3> QED
      BY <2>2, <2>3, <3>2, Zenon
  <2>5. Rows(g, l)'
    BY <1>1, <2>1, <2>2, <2>4 DEF Rows
  <2> QED
    BY <2>1, <2>3, <2>5
<1> QED
  BY <1>1, <1>5, <1>6

\* On idle the rows there are go out.
LEMMA IdleRows ==
  ASSUME NEW g \in GenId, NEW l \in Nat, Rows(g, l), Idle
  PROVE  /\ l > 0 /\ m_rows = Stack(g, l, Size)
         /\ m_outq' = m_outq \o Interleaved(m_rows)
         /\ Rows(Plus(g, l), 0)'
<1>1. /\ Size \in Nat /\ Size > 0 /\ esi = Size /\ esi' = esi /\ gen_id' = gen_id
      /\ m_rows # <<>> /\ m_rows' = <<>> /\ m_outq' = m_outq \o Interleaved(m_rows)
  BY SpreadSizes DEF Idle, FlushPartial, encoder, Size
<1>2. l > 0
  BY <1>1, RowsIs
<1>3. m_rows = Stack(g, l, Size) /\ gen_id = Plus(g, l)
  BY <1>1 DEF Rows
<1>4. Plus(g, l) \in GenId /\ Plus(Plus(g, l), 0) = Plus(g, l)
  BY PlusPlus
<1>5. m_rows' = Stack(Plus(g, l), 0, Size)
  BY <1>1 DEF Stack
<1>6. Rows(Plus(g, l), 0)'
  <2> DEFINE h == Plus(g, l)
  <2>1. gen_id' = Plus(h, 0) /\ m_rows' = Stack(h, 0, Size)
    BY <1>1, <1>3, <1>4, <1>5
  <2> HIDE DEF h
  <2>2. Rows(h, 0)'
    BY <1>1, <2>1 DEF Rows
  <2> QED
    BY <2>2 DEF h
<1> QED
  BY <1>1, <1>2, <1>3, <1>6

\* A block of n rows that starts is on the air whole.
LEMMA BlockStarts ==
  ASSUME NEW g \in GenId, NEW n \in Nat, m_outq = <<>>, m_rows = Stack(g, n, Size),
         m_outq' = m_outq \o Interleaved(m_rows)
  PROVE  OnAir(n, g)' /\ Gone(n)' = 0
<1> DEFINE seq == Interleaved(m_rows)
<1>1. /\ seq \in Seq(GenId \X Esi) /\ Len(seq) = n * Size
      /\ \A c \in 0 .. Size - 1, i \in 0 .. n - 1 : seq[c * n + i + 1] = <<Plus(g, i), c>>
  BY ReadByColumns
<1> HIDE DEF seq
<1>2. m_outq' = seq
  BY <1>1, ConcatEmptySeq DEF seq
<1>3. n * Size \in Nat
  BY SpreadSizes
<1>4. Gone(n)' = 0
  BY <1>1, <1>2, <1>3 DEF Gone
<1>5. \A c \in 0 .. Size - 1, i \in 0 .. n - 1 :
        m_outq'[(c * n + i) - Gone(n)' + 1] = <<Plus(g, i), c>>
  <2> TAKE c \in 0 .. Size - 1, i \in 0 .. n - 1
  <2>1. (c * n + i) - 0 + 1 = c * n + i + 1
    BY SpreadSizes, Radix
  <2> QED
    BY <1>1, <1>2, <1>4, <2>1
<1>6. m_outq' \in Seq(GenId \X Esi) /\ Len(m_outq') <= n * Size
  BY <1>1, <1>2, <1>3
<1>7. OnAir(n, g)'
  BY <1>5, <1>6 DEF OnAir
<1> QED
  BY <1>4, <1>7

\* Some packet of the block is still to come, or all are gone.
LEMMA GoneIs ==
  ASSUME NEW n \in Nat, NEW o \in GenId, OnAir(n, o)
  PROVE  /\ Gone(n) \in Nat /\ n * Size \in Nat /\ Gone(n) <= n * Size
         /\ m_outq = <<>> => Gone(n) = n * Size
         /\ m_outq # <<>> => Gone(n) < n * Size
<1>1. n * Size \in Nat /\ m_outq \in Seq(GenId \X Esi) /\ Len(m_outq) <= n * Size
  BY SpreadSizes DEF OnAir
<1>2. Len(m_outq) \in Nat /\ (m_outq = <<>> => Len(m_outq) = 0)
  BY <1>1, EmptySeq
<1>3. m_outq # <<>> => Len(m_outq) > 0
  BY <1>1, EmptySeq
<1> QED
  BY <1>1, <1>2, <1>3 DEF Gone

\* The packet that leaves is the next place of the block.
LEMMA PopsNext ==
  ASSUME NEW n \in Nat, NEW o \in GenId, OnAir(n, o), Pop
  PROVE  /\ OnAir(n, o)' /\ Gone(n)' = Gone(n) + 1
         /\ \E c \in 0 .. Size - 1, i \in 0 .. n - 1 :
              /\ c * n + i = Gone(n) /\ Head(m_outq) = <<Plus(o, i), c>>
<1>1. /\ m_outq \in Seq(GenId \X Esi) /\ m_outq # <<>> /\ m_outq' = Tail(m_outq)
      /\ Size \in Nat
  BY SpreadSizes DEF OnAir, Pop
<1>2. /\ m_outq' \in Seq(GenId \X Esi) /\ Len(m_outq') = Len(m_outq) - 1
      /\ \A j \in 1 .. Len(m_outq') : m_outq'[j] = m_outq[j + 1]
      /\ Len(m_outq) \in Nat /\ Len(m_outq) > 0 /\ Head(m_outq) = m_outq[1]
  BY <1>1, HeadTailProperties, EmptySeq
<1>3. Gone(n) \in Nat /\ n * Size \in Nat /\ Gone(n) < n * Size
  BY <1>1, GoneIs
<1>4. Gone(n)' = Gone(n) + 1
  BY <1>2, <1>3 DEF Gone
<1>5. PICK c \in 0 .. Size - 1, i \in 0 .. n - 1 : Gone(n) = c * n + i
  BY <1>3, Cell
<1>6. Head(m_outq) = <<Plus(o, i), c>>
  <2>1. c * n + i >= Gone(n) /\ (c * n + i) - Gone(n) + 1 = 1
    BY <1>3, <1>5
  <2>2. m_outq[(c * n + i) - Gone(n) + 1] = <<Plus(o, i), c>>
    BY <2>1 DEF OnAir
  <2> QED
    BY <1>2, <2>1, <2>2
<1>7. ASSUME NEW d \in 0 .. Size - 1, NEW j \in 0 .. n - 1, d * n + j >= Gone(n) + 1
      PROVE  m_outq'[(d * n + j) - (Gone(n) + 1) + 1] = <<Plus(o, j), d>>
  <2> DEFINE x == d * n + j
             w == Gone(n)
  <2>1. x \in Nat /\ x < n * Size
    <3>1. x \in Nat /\ d * n \in Nat
      BY <1>1, Radix
    <3>2. (d + 1) * n <= Size * n
      BY <1>1
    <3>3. (d + 1) * n = d * n + n /\ Size * n = n * Size
      BY <1>1
    <3> QED
      BY <1>3, <3>1, <3>2, <3>3
  <2>2. m_outq[x - w + 1] = <<Plus(o, j), d>>
    <3>1. d * n + j >= Gone(n)
      BY <1>3, <1>7, <2>1
    <3> QED
      BY <3>1 DEF OnAir
  <2>3. w \in Nat /\ x >= w + 1 /\ Len(m_outq) = n * Size - w
    <3>1. w \in Nat /\ x >= w + 1
      BY <1>3, <1>7
    <3> DEFINE all == n * Size
    <3>2. all \in Nat /\ w = all - Len(m_outq) /\ Len(m_outq) \in Nat
      BY <1>2, <1>3 DEF Gone
    <3> HIDE DEF x, w, all
    <3>3. Len(m_outq) = all - w
      BY <3>1, <3>2
    <3> QED
      BY <3>1, <3>3 DEF all
  <2> HIDE DEF x, w
  <2>4. x - (w + 1) + 1 \in 1 .. Len(m_outq') /\ (x - (w + 1) + 1) + 1 = x - w + 1
    <3>1. Len(m_outq') = n * Size - w - 1
      BY <1>2, <2>3
    <3> QED
      BY <1>3, <2>1, <2>3, <3>1
  <2>5. m_outq'[x - (w + 1) + 1] = <<Plus(o, j), d>>
    BY <1>2, <2>2, <2>4
  <2> QED
    BY <2>5 DEF x, w
<1>8. Len(m_outq') <= n * Size
  BY <1>2, <1>3, <1>4 DEF OnAir
<1>9. OnAir(n, o)'
  BY <1>2, <1>4, <1>7, <1>8 DEF OnAir
<1> QED
  BY <1>4, <1>5, <1>6, <1>9

\* The sender's steps.  Either the block on the air stays and the rows may grow,
\* or it is over and the rows there are follow it.
LEMMA SenderStep ==
  ASSUME NEW n \in Nat, NEW o \in GenId, NEW l \in 0 .. Depth,
         OnAir(n, o), Rows(Plus(o, n), l), Fill \/ PushNext \/ Idle
  PROVE  /\ UNCHANGED <<decoder, air>>
         /\ \/ /\ UNCHANGED <<m_outq, account>>
               /\ OnAir(n, o)' /\ \E m \in 0 .. Depth : Rows(Plus(o, n), m)'
            \/ /\ Begin /\ l > 0 /\ m_outq = <<>>
               /\ m_rows = Stack(Plus(o, n), l, Size)
               /\ OnAir(l, Plus(o, n))' /\ Gone(l)' = 0
               /\ \E m \in 0 .. Depth : Rows(Plus(Plus(o, n), l), m)'
<1> DEFINE g == Plus(o, n)
<1>1. g \in GenId /\ l \in Nat /\ Depth \in Nat /\ Depth > 0
  BY SpreadSizes, PlusPlus
<1>2. ASSUME m_outq' = m_outq PROVE OnAir(n, o)'
  BY <1>2 DEF OnAir, Gone
<1> HIDE DEF g
<1>3. CASE Fill
  <2>1. UNCHANGED <<decoder, air, m_outq, account>>
    BY <1>3 DEF Fill, spreader
  <2>2. Rows(g, l)'
    BY <1>1, <1>3, FillRows DEF g
  <2> QED
    BY <1>2, <2>1, <2>2 DEF g
<1>4. CASE PushNext
  <2>1. UNCHANGED <<decoder, air>> /\ m_outq = <<>>
    BY <1>4 DEF PushNext
  <2>2. CASE Emits(Current)
    <3>1. Begin
      BY <1>4, <2>2 DEF PushNext
    <3>2. /\ l = Depth /\ m_rows = Stack(g, l, Size)
          /\ m_outq' = m_outq \o Interleaved(m_rows) /\ Rows(Plus(g, l), 1)'
      BY <1>1, <1>4, <2>2, PushRows DEF g
    <3>3. OnAir(l, g)' /\ Gone(l)' = 0
      BY <1>1, <2>1, <3>2, BlockStarts
    <3>4. 1 \in 0 .. Depth /\ l > 0
      BY <1>1, <3>2
    <3> QED
      BY <2>1, <3>1, <3>2, <3>3, <3>4 DEF g
  <2>3. CASE ~Emits(Current)
    <3>1. UNCHANGED account
      BY <1>4, <2>3 DEF PushNext
    <3>2. m_outq' = m_outq /\ \E m \in 0 .. Depth : Rows(g, m)'
      BY <1>1, <1>4, <2>3, PushRows DEF g
    <3> QED
      BY <1>2, <2>1, <3>1, <3>2 DEF g
  <2> QED
    BY <2>2, <2>3
<1>5. CASE Idle
  <2>1. UNCHANGED <<decoder, air>> /\ m_outq = <<>> /\ Begin
    BY <1>5 DEF Idle
  <2>2. /\ l > 0 /\ m_rows = Stack(g, l, Size)
        /\ m_outq' = m_outq \o Interleaved(m_rows) /\ Rows(Plus(g, l), 0)'
    BY <1>1, <1>5, IdleRows DEF g
  <2>3. OnAir(l, g)' /\ Gone(l)' = 0
    BY <1>1, <2>1, <2>2, BlockStarts
  <2>4. 0 \in 0 .. Depth
    BY <1>1
  <2> QED
    BY <2>1, <2>2, <2>3, <2>4 DEF g
<1> QED
  BY <1>3, <1>4, <1>5

\* The radio leaves the rows as they are.
LEMMA RowsStay ==
  ASSUME NEW g \in GenId, NEW l \in Nat, Rows(g, l), UNCHANGED <<m_rows, gen_id, esi>>
  PROVE  Rows(g, l)'
BY DEF Rows

\* What the sender has in hand: the block on the air and the rows behind it.
Laid(n, o) == OnAir(n, o) /\ \E l \in 0 .. Depth : Rows(Plus(o, n), l)

LaidOut == \E n \in 0 .. Depth, o \in GenId : Laid(n, o)

\* Nothing is on the air at first, and every step leaves a block or starts one.
LEMMA LaidFirst == SpreadInit => Laid(0, 0)
<1> SUFFICES ASSUME SpreadInit PROVE Laid(0, 0)
  OBVIOUS
<1>1. /\ m_rows = <<>> /\ m_outq = <<>> /\ gen_id = 0 /\ esi = Size
      /\ Size \in Nat /\ Size > 0 /\ 0 \in 0 .. Depth /\ 0 \in GenId
  BY SpreadSizes DEF SpreadInit, EncoderInit, SpreaderInit, GenId, Size
<1>2. Len(m_outq) = 0 /\ m_outq \in Seq(GenId \X Esi) /\ 0 * Size = 0
  BY <1>1, EmptySeq
<1>3. OnAir(0, 0)
  BY <1>2, <1>1 DEF OnAir
<1>4. Plus(0, 0) = 0
  BY <1>1, PlusPlus
<1>5. Stack(0, 0, Size) = <<>>
  BY DEF Stack
<1>6. Rows(0, 0)
  BY <1>1, <1>4, <1>5 DEF Rows
<1> QED
  BY <1>1, <1>3, <1>4, <1>6 DEF Laid

LEMMA LaidStep ==
  ASSUME NEW n \in 0 .. Depth, NEW o \in GenId, Laid(n, o), [SpreadNext]_spreadVars
  PROVE  LaidOut'
<1> PICK l \in 0 .. Depth : OnAir(n, o) /\ Rows(Plus(o, n), l)
  BY DEF Laid
<1>1. n \in Nat /\ l \in Nat /\ Plus(o, n) \in GenId
  BY SpreadSizes, PlusPlus
<1>2. CASE Fill \/ PushNext \/ Idle
  <2>1. \/ OnAir(n, o)' /\ \E m \in 0 .. Depth : Rows(Plus(o, n), m)'
        \/ /\ OnAir(l, Plus(o, n))'
           /\ \E m \in 0 .. Depth : Rows(Plus(Plus(o, n), l), m)'
    BY <1>1, <1>2, SenderStep
  <2> QED
    BY <1>1, <2>1 DEF LaidOut, Laid
<1>3. CASE Hear \/ Fade
  <2>1. Pop /\ UNCHANGED <<m_rows, gen_id, esi>>
    BY <1>3 DEF Hear, Fade, Pop, encoder
  <2>2. OnAir(n, o)'
    BY <1>1, <2>1, PopsNext
  <2>3. Rows(Plus(o, n), l)'
    BY <1>1, <2>1, RowsStay
  <2> QED
    BY <2>2, <2>3 DEF LaidOut, Laid
<1>4. CASE Wild \/ UNCHANGED spreadVars
  <2>1. UNCHANGED <<m_outq, m_rows, gen_id, esi>>
    BY <1>4 DEF Wild, spreadVars, encoder, spreader
  <2>2. OnAir(n, o)'
    BY <2>1 DEF OnAir, Gone
  <2>3. Rows(Plus(o, n), l)'
    BY <1>1, <2>1, RowsStay
  <2> QED
    BY <2>2, <2>3 DEF LaidOut, Laid
<1> QED
  BY <1>2, <1>3, <1>4 DEF SpreadNext

\* The decoder behind the spreader is FecDecoder: every packet that the radio
\* hands up, out of order as it comes, is one that FecDecoder may take, and no
\* other step moves the decoder (phy_spreader.h:33-35, "RX NEEDS NO CHANGES").
THEOREM SpreadImplementsDecoder == SpreadSpec => Spec
<1>1. SpreadInit => Init /\ LaidOut
  <2>1. 0 \in 0 .. Depth /\ 0 \in GenId
    BY SpreadSizes DEF GenId
  <2> QED
    BY <2>1, LaidFirst DEF SpreadInit, LaidOut
<1>2. LaidOut /\ [SpreadNext]_spreadVars => LaidOut' /\ [Next]_decoder
  <2> SUFFICES ASSUME LaidOut, [SpreadNext]_spreadVars PROVE LaidOut' /\ [Next]_decoder
    OBVIOUS
  <2> PICK n \in 0 .. Depth, o \in GenId : Laid(n, o)
    BY DEF LaidOut
  <2>1. LaidOut'
    BY LaidStep
  <2>2. CASE Hear
    <3>1. Pop /\ Packet(Head(m_outq)[1], Head(m_outq)[2], Data)
      BY <2>2 DEF Hear
    <3>2. PICK c \in 0 .. Size - 1, i \in 0 .. n - 1 : Head(m_outq) = <<Plus(o, i), c>>
      BY <3>1, SpreadSizes, PopsNext DEF Laid
    <3>3. Plus(o, i) \in GenId /\ c \in Esi /\ Data \in Source
      BY SpreadSizes, PlusPlus
    <3> QED
      BY <2>1, <3>1, <3>2, <3>3 DEF Next
  <2>3. CASE Wild
    BY <2>1, <2>3, SpreadSizes DEF Wild, Next
  <2>4. CASE Fill \/ PushNext \/ Idle \/ Fade \/ UNCHANGED spreadVars
    BY <2>1, <2>4 DEF Fill, PushNext, Idle, Fade, spreadVars
  <2> QED
    BY <2>2, <2>3, <2>4 DEF SpreadNext
<1> QED
  BY <1>1, <1>2, PTL DEF SpreadSpec, Spec

\* Behind the spreader, too, the decoder keeps its generations inside a window
\* that only the watchdog moves back (fec_decoder.h:83-116, 200-237).
THEOREM SpreadDecoderKept ==
  SpreadSpec => []DecoderTypeOK /\ []WindowBound /\ NeverBack
BY SpreadImplementsDecoder, DecoderTyped, DecoderWindowBound, DecoderNeverBack

\* The invariant of the decoder, and that it keeps nothing it could decode.
LEMMA SpreadDecoder == SpreadSpec => [](IInv /\ Undecoded)
<1>1. Init => IInv /\ Undecoded
  BY InitIInv, NoneDecodes DEF Undecoded, Init
<1>2. IInv /\ Undecoded /\ [Next]_decoder => (IInv /\ Undecoded)'
  <2>1. ASSUME IInv, Undecoded, Next PROVE (IInv /\ Undecoded)'
    BY <2>1, PacketStep, UndecodedStep DEF Next
  <2>2. ASSUME IInv, Undecoded, UNCHANGED decoder PROVE (IInv /\ Undecoded)'
    BY <2>2 DEF IInv, DecoderTypeOK, WindowBound, Undecoded, Decodes, decoder
  <2> QED
    BY <2>1, <2>2
<1> QED
  BY <1>1, <1>2, SpreadImplementsDecoder, PTL DEF Spec

-----------------------------------------------------------------------------
(* Fades: where the decoder is, and what it lacks of the block on the air *)

\* The hypotheses.  The rows of a block fit the window, and the decoder still
\* takes the first packet after the longest fade as one of the stream, though
\* the blocks before and after it were hit as well.
FadesInReach ==
  /\ Depth <= Window
  /\ (Window + 2 * Depth - 2) * Size + MaxFade <= LargeJump * Size

\* Where the run of lost packets began in the block, if there is one: behind it
\* come the packets that were heard since.
LostFrom(n) == Gone(n) - lost - quiet

\* The counts of the fade, as they go with the block.
Fading(n) ==
  /\ fade \in 0 .. MaxFade /\ quiet \in 0 .. Block /\ lost \in Nat /\ wild \in Nat
  /\ fade > 0 => quiet = 0
  /\ lost > 0 => LostFrom(n) >= 0
  /\ lost = 0 /\ fade > 0 => Gone(n) = 0

\* d is the way from the baseline to the block when p of its packets are gone.
\* One of them was heard and pulled the window up, or the fade is at least as
\* old as the block.
Close(p, d) ==
  /\ -Depth < d
  /\ IF fade >= p THEN Size * (d - Window - Depth + 1) <= fade - p
                  ELSE d <= Window - 1

\* No generation is kept from beyond the block that began last.
InStep(n, o) ==
  wild = 0 /\ have_baseline =>
    /\ Close(Gone(n), Diff(o, baseline))
    /\ \A k \in gens :
         Diff(k, baseline) < Diff(o, baseline) + (IF Gone(n) = 0 THEN 0 ELSE n)

\* The packets of row i that were heard.
Got(n, i) ==
  {c \in 0 .. Size - 1 :
     /\ c * n + i < Gone(n)
     /\ lost > 0 => ~(c * n + i \in LostFrom(n) .. LostFrom(n) + lost - 1)}

\* What is not delivered yet of a block holds just what was heard of it.
Mending(n, o) ==
  block # {} =>
    /\ wild = 0 /\ have_baseline /\ Diff(o, baseline) >= 0
    /\ block = {Plus(o, i) : i \in 0 .. n - 1}
    /\ \A i \in 0 .. n - 1 : Plus(o, i) \notin delivered =>
         /\ Plus(o, i) \notin completed
         /\ symbols[Plus(o, i)] = {<<c, Data>> : c \in Got(n, i)}

\* Ids that are i apart, seen from the baseline.
LEMMA NearIds ==
  ASSUME NEW o \in GenId, NEW b \in GenId, NEW i \in Nat, i < Half
  PROVE  /\ Plus(o, i) \in GenId
         /\ Diff(o, b) + i < Half => Diff(Plus(o, i), b) = Diff(o, b) + i
         /\ Diff(Plus(o, i), b) - i >= -Half => Diff(o, b) = Diff(Plus(o, i), b) - i
<1>1. Half \in Nat /\ Half > 0
  BY SpreadSizes
<1>2. Plus(o, i) = IF o + i < 2 * Half THEN o + i ELSE o + i - 2 * Half
  <2>1. CASE o + i < 2 * Half
    BY <1>1, <2>1 DEF Plus, GenId
  <2>2. CASE ~(o + i < 2 * Half)
    <3> DEFINE m == 2 * Half
               r == o + i - m
    <3>1. m \in Nat /\ m > 0 /\ r \in 0 .. m - 1 /\ m * 1 + r = o + i
      BY <1>1, <2>2 DEF GenId
    <3>2. (m * 1 + r) % m = r
      BY <3>1, Remainder
    <3> HIDE DEF m, r
    <3>3. (o + i) % m = r
      BY <3>1, <3>2
    <3> QED
      BY <2>2, <3>3 DEF Plus, m, r
  <2> QED
    BY <2>1, <2>2
<1> QED
  BY <1>1, <1>2 DEF Diff, GenId

\* Products are in the order of their factors.
LEMMA Ordered ==
  ASSUME NEW s \in Nat, s > 0, NEW a \in Int, NEW b \in Int
  PROVE  /\ s * a <= s * b => a <= b
         /\ a <= b => s * a <= s * b
         /\ s * a \in Int /\ s * (a + b) = s * a + s * b
<1>1. ASSUME a <= b PROVE s * a <= s * b
  BY <1>1
<1>2. ASSUME b + 1 <= a PROVE s * b + s <= s * a
  <2>1. a - b - 1 \in Nat
    BY <1>2
  <2>2. s * (a - b - 1) >= 0
    BY <2>1
  <2>3. s * (a - b - 1) = s * a - s * b - s
    OBVIOUS
  <2> QED
    BY <2>2, <2>3
<1> QED
  BY <1>1, <1>2

\* The whole block is within the jump the decoder believes at once.
LEMMA WithinJump ==
  ASSUME FadesInReach, NEW p \in Nat, NEW d \in Int, Close(p, d), fade \in 0 .. MaxFade
  PROVE  /\ d + Depth - 1 <= LargeJump /\ LargeJump + Window < Half
         /\ Depth <= Window /\ Window >= 2
         /\ LargeJump \in Nat /\ Window \in Nat /\ Depth \in Nat /\ Depth > 0
         /\ Half \in Nat
<1>1. /\ Size \in Nat /\ Size > 0 /\ Depth \in Nat /\ Depth > 0 /\ Half \in Nat
      /\ LargeJump \in Nat /\ Window \in Nat /\ MaxFade \in Nat /\ fade \in Nat
      /\ LargeJump + Window < Half /\ Window >= 2 /\ Depth <= Window /\ fade <= MaxFade
  BY SpreadSizes, DecoderAssumption DEF FadesInReach
<1> DEFINE a == Window + 2 * Depth - 2
           e == d - Window - Depth + 1
<1>2. a \in Int /\ e \in Int
  BY <1>1
<1>3. a * Size + MaxFade <= LargeJump * Size
  BY DEF FadesInReach
<1>4. a * Size = Size * a /\ LargeJump * Size = Size * LargeJump
  BY <1>1, <1>2
<1>5. IF fade >= p THEN Size * e <= fade - p ELSE d <= Window - 1
  BY DEF Close
<1>6. a <= LargeJump
  <2> HIDE DEF a
  <2>1. Size * a <= Size * LargeJump
    BY <1>1, <1>2, <1>3, <1>4, Ordered
  <2> QED
    BY <1>1, <1>2, <2>1, Ordered
<1>7. CASE fade >= p
  <2> HIDE DEF a, e
  <2>1. Size * e + Size * a <= Size * LargeJump
    BY <1>1, <1>2, <1>3, <1>4, <1>5, <1>7, Ordered
  <2>2. Size * (e + a) <= Size * LargeJump
    BY <1>1, <1>2, <2>1, Ordered
  <2>3. e + a \in Int
    BY <1>2
  <2>4. e + a <= LargeJump
    BY <1>1, <2>2, <2>3, Ordered
  <2> QED
    BY <1>1, <2>4 DEF a, e
<1>8. CASE ~(fade >= p)
  BY <1>1, <1>5, <1>6, <1>8
<1> QED
  BY <1>1, <1>7, <1>8

\* A block is over and the next begins: everything of it is still to come, and
\* the decoder has kept nothing that has the id of one of its rows.
LEMMA BeginKeeps ==
  ASSUME FadesInReach, IInv, Undecoded,
         NEW n \in 0 .. Depth, NEW o \in GenId, NEW l \in 1 .. Depth, NEW g,
         g = Plus(o, n), OnAir(n, o), Fading(n), InStep(n, o),
         m_outq = <<>>, m_rows = Stack(g, l, Size),
         Begin, Gone(l)' = 0, UNCHANGED <<decoder, air>>
  PROVE  Fading(l)' /\ InStep(l, g)' /\ Mending(l, g)'
<1>1. /\ Size \in Nat /\ Size > 0 /\ Depth \in Nat /\ Depth > 0 /\ n \in Nat /\ l \in Nat
      /\ Half \in Nat /\ Window \in Nat /\ LargeJump \in Nat
      /\ LargeJump + Window < Half /\ Window >= 2 /\ Depth <= Window
  BY SpreadSizes, DecoderAssumption DEF FadesInReach
<1>2. /\ UNCHANGED <<have_baseline, baseline, gens, symbols, completed>>
      /\ UNCHANGED <<fade, quiet, wild>> /\ lost' = 0 /\ delivered' = {}
  BY DEF decoder, air, Begin
<1>3. /\ fade \in 0 .. MaxFade /\ quiet \in 0 .. Block /\ wild \in Nat
      /\ fade > 0 => quiet = 0
      /\ fade \in Nat
  BY SpreadSizes DEF Fading
<1>4. Fading(l)'
  BY <1>2, <1>3 DEF Fading
<1>5. Gone(n) = n * Size /\ n * Size \in Nat /\ (Gone(n) = 0 => n = 0)
  <2>1. Gone(n) = n * Size /\ n * Size \in Nat
    BY <1>1, GoneIs
  <2>2. n > 0 => n * Size > 0
    BY <1>1
  <2> QED
    BY <1>1, <2>1, <2>2
<1>6. g \in GenId /\ baseline \in GenId /\ gens \in SUBSET GenId /\ completed \in SUBSET gens
  BY <1>1, PlusPlus DEF IInv, DecoderTypeOK
<1>7. Diff(o, baseline) \in Int /\ Diff(g, baseline) \in Int
  BY <1>6, DiffType
<1>8. ASSUME wild = 0, have_baseline
      PROVE  /\ Diff(g, baseline) = Diff(o, baseline) + n
             /\ -Depth < Diff(g, baseline)
             /\ Size * (Diff(g, baseline) - Window - Depth + 1) <= fade
             /\ \A k \in gens : Diff(k, baseline) < Diff(g, baseline)
  <2> DEFINE d == Diff(o, baseline)
             e == d - Window - Depth + 1
  <2>1. /\ Close(n * Size, d)
        /\ \A k \in gens : Diff(k, baseline) < d + (IF Gone(n) = 0 THEN 0 ELSE n)
    BY <1>5, <1>8 DEF InStep
  <2>2. d + Depth - 1 <= LargeJump
    BY <1>3, <1>5, <1>7, <2>1, WithinJump
  <2>3. Diff(g, baseline) = d + n
    <3>1. n < Half /\ d + n < Half
      BY <1>1, <1>7, <2>2
    <3> QED
      BY <1>1, <1>6, <3>1, NearIds
  <2>4. -Depth < d
    BY <2>1 DEF Close
  <2>5. IF fade >= n * Size THEN Size * e <= fade - n * Size ELSE d <= Window - 1
    BY <2>1 DEF Close
  <2> HIDE DEF d
  <2>6. Size * (e + n) <= fade
    <3>1. e \in Int /\ d \in Int
      BY <1>1, <1>7 DEF d
    <3>2. CASE fade >= n * Size
      <4>1. Size * (e + n) = Size * e + Size * n /\ Size * n = n * Size /\ Size * e \in Int
        BY <1>1, <3>1, Ordered
      <4> QED
        BY <1>3, <1>5, <2>5, <3>2, <4>1
    <3>3. CASE ~(fade >= n * Size)
      <4>1. e + n <= 0
        BY <1>1, <2>5, <3>1, <3>3
      <4>2. Size * (e + n) <= Size * 0
        BY <1>1, <3>1, <4>1, Ordered
      <4> QED
        BY <1>1, <1>3, <3>1, <4>2
    <3> QED
      BY <3>2, <3>3
  <2>7. (d + n) - Window - Depth + 1 = e + n
    BY <1>1, <1>7 DEF d
  <2>8. \A k \in gens : Diff(k, baseline) < d + n
    <3> TAKE k \in gens
    <3>1. Diff(k, baseline) < d + (IF Gone(n) = 0 THEN 0 ELSE n)
      BY <2>1
    <3>2. (IF Gone(n) = 0 THEN 0 ELSE n) = n
      BY <1>5
    <3> QED
      BY <3>1, <3>2
  <2> QED
    BY <1>1, <1>7, <2>3, <2>4, <2>6, <2>7, <2>8 DEF d
<1>9. InStep(l, g)'
  <2> SUFFICES ASSUME wild' = 0, have_baseline'
               PROVE  /\ Close(0, Diff(g, baseline))'
                      /\ \A k \in gens' : Diff(k, baseline') < Diff(g, baseline') + 0
    BY DEF InStep
  <2>1. /\ -Depth < Diff(g, baseline)
        /\ Size * (Diff(g, baseline) - Window - Depth + 1) <= fade
        /\ \A k \in gens : Diff(k, baseline) < Diff(g, baseline)
    BY <1>2, <1>8
  <2>2. fade - 0 = fade /\ fade >= 0 /\ Diff(g, baseline) + 0 = Diff(g, baseline)
    BY <1>3, <1>7
  <2>3. Close(0, Diff(g, baseline))
    BY <2>1, <2>2 DEF Close
  <2>4. Close(0, Diff(g, baseline))'
    BY <1>2, <2>3 DEF Close
  <2> QED
    BY <1>2, <2>1, <2>2, <2>4
<1>10. Mending(l, g)'
  <2> SUFFICES ASSUME block' # {} PROVE Mending(l, g)'
    BY DEF Mending
  <2> DEFINE gs == {m_rows[r].gen_id : r \in DOMAIN m_rows}
  <2>1. /\ block' = gs /\ wild = 0 /\ have_baseline
        /\ \A k \in gs : Diff(k, baseline) \in 0 .. LargeJump
    BY DEF Begin
  <2>2. gs = {Plus(g, i) : i \in 0 .. l - 1}
    <3>1. DOMAIN m_rows = 1 .. l /\ \A r \in 1 .. l : m_rows[r].gen_id = Plus(g, r - 1)
      BY DEF Stack, Row
    <3>2. gs = {Plus(g, r - 1) : r \in 1 .. l}
      BY <3>1
    <3>3. \A r \in 1 .. l : r - 1 \in 0 .. l - 1
      BY <1>1
    <3>4. \A i \in 0 .. l - 1 : i + 1 \in 1 .. l /\ (i + 1) - 1 = i
      BY <1>1
    <3> QED
      BY <3>2, <3>3, <3>4
  <2> HIDE DEF gs
  <2>3. Diff(g, baseline) >= 0
    <3>1. 0 \in 0 .. l - 1 /\ Plus(g, 0) = g
      BY <1>1, <1>6, PlusPlus
    <3>2. g \in gs
      BY <2>2, <3>1
    <3> QED
      BY <2>1, <3>2
  <2>4. ASSUME NEW i \in 0 .. l - 1
        PROVE  /\ Plus(g, i) \notin completed
               /\ symbols[Plus(g, i)] = {}
               /\ Got(l, i)' = {}
    <3>1. Plus(g, i) \in GenId /\ i \in Nat /\ i < Half
      <4>1. i \in Nat /\ i < Half
        BY <1>1
      <4> QED
        BY <1>6, <4>1, PlusPlus
    <3>2. Diff(Plus(g, i), baseline) \in 0 .. LargeJump
      BY <2>1, <2>2
    <3>3. Diff(g, baseline) = Diff(Plus(g, i), baseline) - i
      BY <1>1, <1>6, <3>1, <3>2, NearIds
    <3>4. Plus(g, i) \notin gens
      BY <1>7, <1>8, <2>1, <3>1, <3>2, <3>3
    <3>5. \A c \in 0 .. Size - 1 : ~(c * l + i < 0)
      BY <1>1, <3>1, Radix
    <3>6. Got(l, i)' = {}
      BY <3>5 DEF Got
    <3> QED
      BY <1>6, <3>1, <3>4, <3>6 DEF Undecoded
  <2>5. \A i \in 0 .. l - 1 : /\ Plus(g, i) \notin completed'
                            /\ symbols'[Plus(g, i)] = {<<c, Data>> : c \in Got(l, i)'}
    BY <1>2, <2>4
  <2> QED
    BY <1>2, <2>1, <2>2, <2>3, <2>5 DEF Mending
<1> QED
  BY <1>4, <1>9, <1>10

\* While there is a packet to come, a fade that hit the block is not a whole
\* block ago.
LEMMA Recent ==
  ASSUME NEW n \in 0 .. Depth, NEW o \in GenId, OnAir(n, o), m_outq # <<>>, Fading(n)
  PROVE  /\ Gone(n) \in Nat /\ Gone(n) < Block /\ n > 0
         /\ lost > 0 => quiet < Block
<1>1. /\ Size \in Nat /\ Size > 0 /\ Depth \in Nat /\ n \in Nat
      /\ Block = Depth * Size /\ Block \in Nat
  BY SpreadSizes
<1>2. Gone(n) \in Nat /\ n * Size \in Nat /\ Gone(n) < n * Size
  BY <1>1, GoneIs
<1>3. n * Size <= Depth * Size
  BY <1>1
<1>4. n > 0
  BY <1>1, <1>2
<1> QED
  BY <1>1, <1>2, <1>3, <1>4 DEF Fading, LostFrom

\* A packet that fades is one less of its row, and no packet more.
LEMMA FadeKeeps ==
  ASSUME NEW n \in 0 .. Depth, NEW o \in GenId,
         IInv, OnAir(n, o), Fading(n), InStep(n, o), Mending(n, o), Fade
  PROVE  Fading(n)' /\ InStep(n, o)' /\ Mending(n, o)'
<1>1. /\ Pop /\ wild = 0 /\ fade < MaxFade /\ (fade = 0 => quiet = Block)
      /\ fade' = fade + 1 /\ quiet' = 0 /\ lost' = lost + 1
      /\ UNCHANGED <<have_baseline, baseline, gens, symbols, completed>>
      /\ UNCHANGED <<wild, block, delivered>>
  BY DEF Fade, decoder
<1>2. Gone(n) \in Nat /\ Gone(n)' = Gone(n) + 1 /\ (lost > 0 => quiet < Block) /\ n > 0
  BY <1>1, SpreadSizes, PopsNext, Recent DEF Pop
<1>3. /\ fade \in 0 .. MaxFade /\ lost \in Nat /\ wild \in Nat /\ fade \in Nat
      /\ quiet \in 0 .. Block /\ Block \in Nat /\ Size \in Nat
      /\ fade > 0 => quiet = 0
      /\ lost > 0 => LostFrom(n) >= 0
      /\ lost = 0 /\ fade > 0 => Gone(n) = 0
  BY SpreadSizes DEF Fading
<1>4. lost > 0 => quiet = 0
  BY <1>1, <1>2, <1>3
<1>5. /\ LostFrom(n)' = Gone(n) - lost
      /\ lost > 0 => LostFrom(n) = Gone(n) - lost
      /\ Gone(n) - lost >= 0
  <2>1. LostFrom(n)' = Gone(n) - lost
    BY <1>1, <1>2, <1>3 DEF LostFrom
  <2>2. lost > 0 => LostFrom(n) = Gone(n) - lost
    BY <1>2, <1>3, <1>4 DEF LostFrom
  <2>3. Gone(n) - lost >= 0
    BY <1>2, <1>3, <2>2
  <2> QED
    BY <2>1, <2>2, <2>3
<1>6. Fading(n)'
  <2>1. fade' \in 0 .. MaxFade /\ lost' \in Nat /\ lost' # 0 /\ wild' \in Nat /\ quiet' \in 0 .. Block
    BY <1>1, <1>3, SpreadSizes
  <2> QED
    BY <1>1, <1>5, <2>1 DEF Fading
<1>7. ASSUME NEW i \in 0 .. n - 1 PROVE Got(n, i)' = Got(n, i)
  <2>1. ASSUME NEW c \in 0 .. Size - 1
        PROVE  /\ c * n + i < Gone(n) + 1
               /\ lost + 1 > 0 =>
                    ~(c * n + i \in Gone(n) - lost .. (Gone(n) - lost) + (lost + 1) - 1)
               <=>
               /\ c * n + i < Gone(n)
               /\ lost > 0 => ~(c * n + i \in LostFrom(n) .. LostFrom(n) + lost - 1)
    <3>1. c * n + i \in Nat
      BY <1>2, <1>3, Radix
    <3> QED
      BY <1>2, <1>3, <1>5, <3>1
  <2> QED
    BY <1>1, <1>2, <1>5, <2>1 DEF Got
<1>8. InStep(n, o)'
  <2> SUFFICES ASSUME wild' = 0, have_baseline' PROVE InStep(n, o)'
    BY DEF InStep
  <2>1. /\ Close(Gone(n), Diff(o, baseline))
        /\ \A k \in gens :
             Diff(k, baseline) < Diff(o, baseline) + (IF Gone(n) = 0 THEN 0 ELSE n)
    BY <1>1 DEF InStep
  <2>2. Close(Gone(n), Diff(o, baseline))'
    <3>1. fade + 1 >= Gone(n) + 1 <=> fade >= Gone(n)
      BY <1>2, <1>3
    <3>2. (fade + 1) - (Gone(n) + 1) = fade - Gone(n)
      BY <1>2, <1>3
    <3> QED
      BY <1>1, <1>2, <2>1, <3>1, <3>2 DEF Close
  <2>3. ASSUME NEW k \in gens PROVE Diff(k, baseline) < Diff(o, baseline) + n
    <3>1. Diff(k, baseline) < Diff(o, baseline) + (IF Gone(n) = 0 THEN 0 ELSE n)
      BY <2>1
    <3>2. Diff(o, baseline) \in Int /\ Diff(k, baseline) \in Int /\ n \in Nat
      BY SpreadSizes, DiffType DEF IInv, DecoderTypeOK
    <3> QED
      BY <1>2, <3>1, <3>2
  <2>4. ~(Gone(n)' = 0)
    BY <1>2
  <2> QED
    BY <1>1, <2>2, <2>3, <2>4 DEF InStep
<1>9. Mending(n, o)'
  BY <1>1, <1>7 DEF Mending
<1> QED
  BY <1>6, <1>8, <1>9

\* The packet that is heard is one more of its row.
LEMMA HearGot ==
  ASSUME NEW n \in 0 .. Depth, NEW o \in GenId, OnAir(n, o), Fading(n), Hear,
         NEW i \in 0 .. n - 1
  PROVE  Got(n, i)' = Got(n, i) \cup {c \in 0 .. Size - 1 : c * n + i = Gone(n)}
<1>1. /\ Pop /\ quiet' = Least(Block, quiet + 1) /\ lost' = lost
      /\ Size \in Nat /\ Block \in Nat /\ n \in Nat
  BY SpreadSizes DEF Hear
<1>2. Gone(n) \in Nat /\ Gone(n)' = Gone(n) + 1 /\ (lost > 0 => quiet < Block)
  BY <1>1, PopsNext, Recent DEF Pop
<1>3. lost \in Nat /\ quiet \in 0 .. Block
  BY DEF Fading
<1>4. lost > 0 => LostFrom(n)' = LostFrom(n)
  <2> SUFFICES ASSUME lost > 0 PROVE LostFrom(n)' = LostFrom(n)
    OBVIOUS
  <2>1. quiet' = quiet + 1
    BY <1>1, <1>2, <1>3 DEF Least
  <2> QED
    BY <1>1, <1>2, <1>3, <2>1 DEF LostFrom
<1>5. lost > 0 => LostFrom(n) \in Int /\ LostFrom(n) + lost - 1 < Gone(n)
  BY <1>2, <1>3 DEF LostFrom
<1>6. ASSUME NEW c \in 0 .. Size - 1
      PROVE  /\ c * n + i < Gone(n) + 1
             /\ lost > 0 => ~(c * n + i \in LostFrom(n) .. LostFrom(n) + lost - 1)
             <=>
             \/ /\ c * n + i < Gone(n)
                /\ lost > 0 => ~(c * n + i \in LostFrom(n) .. LostFrom(n) + lost - 1)
             \/ c * n + i = Gone(n)
  <2>1. c * n + i \in Nat
    BY <1>1, Radix
  <2> QED
    BY <1>2, <1>3, <1>5, <2>1
<1> QED
  BY <1>1, <1>2, <1>4, <1>6 DEF Got

\* A packet of the block that is heard never looks too far ahead.  If it is not
\* taken it is behind the baseline, which then lies within the block.
LEMMA HearNear ==
  ASSUME FadesInReach, IInv,
         NEW n \in 0 .. Depth, NEW o \in GenId, NEW i \in 0 .. n - 1, NEW c \in Esi,
         NEW p \in Nat, Close(p, Diff(o, baseline)), fade \in 0 .. MaxFade, have_baseline,
         Packet(Plus(o, i), c, Data)
  PROVE  \/ Accept(Plus(o, i), c, Data)
         \/ DropOld(Plus(o, i)) /\ Diff(o, baseline) < 0
<1> DEFINE g == Plus(o, i)
           d == Diff(o, baseline)
<1>1. baseline \in GenId /\ g \in GenId /\ i \in Nat /\ n \in Nat
  BY SpreadSizes, PlusPlus DEF IInv, DecoderTypeOK
<1>2. d \in Int
  BY <1>1, DiffType
<1>3. /\ d + Depth - 1 <= LargeJump /\ LargeJump + Window < Half
      /\ Depth <= Window /\ Window >= 2
      /\ LargeJump \in Nat /\ Window \in Nat /\ Depth \in Nat /\ Depth > 0
      /\ Half \in Nat
  BY <1>2, WithinJump
<1>4. -Depth < d
  BY DEF Close
<1>5. Diff(g, baseline) = d + i
  <2>1. i < Half /\ d + i < Half
    BY <1>1, <1>2, <1>3
  <2> QED
    BY <1>1, <2>1, NearIds
<1> HIDE DEF d, g
<1>6. IsOld(g) <=> d + i < 0
  <2>1. IsOld(g) <=> Diff(baseline, g) > 0
    BY DEF IsOld, Base
  <2>2. Diff(baseline, g) > 0 <=> Diff(g, baseline) < 0 /\ Diff(g, baseline) # -Half
    BY <1>1, <1>3 DEF Diff, GenId
  <2> QED
    BY <1>1, <1>2, <1>3, <1>4, <1>5, <2>1, <2>2
<1>7. ~IsFar(g)
  <2>1. IsFar(g) => ~IsOld(g) /\ ~(Diff(g, baseline) \in 0 .. LargeJump)
    BY DEF IsFar, Base
  <2>2. ~(d + i < 0) => d + i \in 0 .. LargeJump
    BY <1>1, <1>2, <1>3
  <2> QED
    BY <1>5, <1>6, <2>1, <2>2
<1>8. DropOld(g) \/ Accept(g, c, Data)
  BY <1>7 DEF Packet, Quarantine, Believe, g
<1>9. DropOld(g) => d < 0
  BY <1>1, <1>2, <1>6 DEF DropOld
<1> QED
  BY <1>8, <1>9 DEF d, g

\* Where the block is, seen from the decoder that took a packet of it.
LEMMA HearMoves ==
  ASSUME FadesInReach, IInv, IInv', Undecoded,
         NEW n \in 0 .. Depth, NEW o \in GenId, NEW i \in 0 .. n - 1, NEW c \in Esi,
         Accept(Plus(o, i), c, Data)
  PROVE  /\ Taken(Plus(o, i), c, Data) /\ have_baseline' = TRUE
         /\ Diff(o, baseline') = Diff(Plus(o, i), baseline') - i
         /\ Diff(o, baseline') \in Int
         /\ Diff(o, baseline') <= Window - 1 /\ -Depth < Diff(o, baseline')
         /\ \/ baseline' = Base(Plus(o, i))
            \/ Diff(o, baseline') = Window - 1 - i /\ Diff(o, baseline') >= 0
         /\ Data \in Source /\ Plus(o, i) \in GenId /\ baseline' \in GenId
<1> DEFINE g == Plus(o, i)
<1>1. g \in GenId /\ Data \in Source /\ i \in Nat /\ n \in Nat
  BY SpreadSizes, PlusPlus
<1>2. /\ Depth <= Window /\ Window \in Nat /\ Depth \in Nat /\ Half \in Nat
      /\ Window < Half
  BY SpreadSizes, DecoderAssumption DEF FadesInReach
<1> HIDE DEF g
<1>3. /\ Taken(g, c, Data) /\ baseline' \in GenId
      /\ Diff(g, baseline') \in 0 .. Window - 1
      /\ baseline' = Base(g) \/ Diff(g, baseline') = Window - 1
  BY <1>1, GoesIn DEF g
<1>4. Diff(o, baseline') = Diff(g, baseline') - i
  <2>1. i < Half /\ Diff(g, baseline') - i >= -Half
    BY <1>1, <1>2, <1>3
  <2> QED
    BY <1>1, <1>3, <2>1, NearIds DEF g
<1>5. have_baseline' = TRUE
  BY <1>3 DEF Taken
<1> QED
  BY <1>1, <1>2, <1>3, <1>4, <1>5 DEF g

\* A packet that is heard, of whatever row, leaves the decoder in step.
LEMMA HearInStep ==
  ASSUME FadesInReach, IInv, IInv', Undecoded,
         NEW n \in 0 .. Depth, NEW o \in GenId, NEW i \in 0 .. n - 1, NEW c \in Esi,
         Gone(n) \in Nat, Gone(n)' = Gone(n) + 1, fade' = 0, wild' = wild,
         fade \in 0 .. MaxFade, InStep(n, o), Packet(Plus(o, i), c, Data)
  PROVE  InStep(n, o)'
<1> SUFFICES ASSUME wild' = 0, have_baseline' PROVE InStep(n, o)'
  BY DEF InStep
<1> DEFINE g == Plus(o, i)
<1>1. /\ g \in GenId /\ i \in Nat /\ n \in Nat /\ i < n /\ Depth \in Nat /\ Window \in Nat
      /\ baseline \in GenId /\ gens \in SUBSET GenId /\ Window >= 2 /\ LargeJump \in Nat
      /\ baseline' \in GenId /\ gens' \in SUBSET GenId
  <2>1. i \in Nat /\ n \in Nat /\ i < n /\ Depth \in Nat
    BY SpreadSizes
  <2>2. baseline \in GenId /\ gens \in SUBSET GenId
    BY DEF IInv, DecoderTypeOK
  <2>3. baseline' \in GenId /\ gens' \in SUBSET GenId
    BY DEF IInv, DecoderTypeOK
  <2> QED
    BY <2>1, <2>2, <2>3, PlusPlus, DecoderAssumption
<1>2. /\ Diff(o, baseline) \in Int /\ Diff(o, baseline') \in Int
      /\ \A k \in gens : Diff(k, baseline) \in Int
  BY <1>1, DiffType
<1>3. have_baseline =>
        /\ Close(Gone(n), Diff(o, baseline))
        /\ \A k \in gens : Diff(k, baseline) < Diff(o, baseline) + n
  <2> SUFFICES ASSUME have_baseline
               PROVE  /\ Close(Gone(n), Diff(o, baseline))
                      /\ \A k \in gens : Diff(k, baseline) < Diff(o, baseline) + n
    OBVIOUS
  <2>1. /\ Close(Gone(n), Diff(o, baseline))
        /\ \A k \in gens :
             Diff(k, baseline) < Diff(o, baseline) + (IF Gone(n) = 0 THEN 0 ELSE n)
    BY DEF InStep
  <2>2. ASSUME NEW k \in gens PROVE Diff(k, baseline) < Diff(o, baseline) + n
    <3>1. Diff(k, baseline) < Diff(o, baseline) + (IF Gone(n) = 0 THEN 0 ELSE n)
      BY <2>1
    <3> QED
      BY <1>1, <1>2, <3>1
  <2> QED
    BY <2>1, <2>2
<1>4. SUFFICES /\ -Depth < Diff(o, baseline') /\ Diff(o, baseline') <= Window - 1
               /\ \A k \in gens' : Diff(k, baseline') < Diff(o, baseline') + n
  <2>1. ~(0 >= Gone(n) + 1) /\ Gone(n) + 1 # 0
    OBVIOUS
  <2> QED
    BY <1>4, <2>1 DEF InStep, Close
<1> HIDE DEF g
<1>5. CASE have_baseline /\ DropOld(g) /\ Diff(o, baseline) < 0
  <2>1. UNCHANGED <<baseline, gens>>
    <3>1. ~(consecutive_old + 1 >= Reacquire)
      BY <1>5 DEF DropOld, Resync
    <3> QED
      BY <1>5, <3>1 DEF DropOld, state
  <2>2. -Depth < Diff(o, baseline) /\ Diff(o, baseline) <= Window - 1
    BY <1>1, <1>2, <1>3, <1>5 DEF Close
  <2> QED
    BY <1>3, <1>5, <2>1, <2>2
<1>6. CASE Accept(g, c, Data)
  <2>1. /\ Diff(o, baseline') = Diff(g, baseline') - i
        /\ Diff(o, baseline') <= Window - 1 /\ -Depth < Diff(o, baseline')
        /\ baseline' = Base(g) \/ Diff(o, baseline') = Window - 1 - i
        /\ Taken(g, c, Data)
    BY <1>6, HearMoves DEF g
  <2>2. ASSUME NEW k \in gens' PROVE Diff(k, baseline') < Diff(o, baseline') + n
    <3>1. Diff(k, baseline') \in 0 .. Window - 1
      BY DEF IInv, WindowBound
    <3>2. CASE k = g
      BY <1>1, <1>2, <2>1, <3>1, <3>2
    <3>3. CASE Diff(o, baseline') = Window - 1 - i
      BY <1>1, <1>2, <3>1, <3>3
    <3>4. CASE k # g /\ baseline' = Base(g)
      <4>1. k \in gens
        BY <2>1, <3>4 DEF Taken
      <4>2. have_baseline
        BY <4>1 DEF IInv, WindowBound
      <4> QED
        BY <1>3, <3>4, <4>1, <4>2 DEF Base
    <3> QED
      BY <2>1, <3>2, <3>3, <3>4
  <2> QED
    BY <2>1, <2>2
<1>7. ASSUME ~have_baseline PROVE Accept(g, c, Data)
  <2>1. Diff(g, g) = 0 /\ 0 \in 0 .. LargeJump
    BY <1>1, DiffType
  <2>2. ~IsOld(g) /\ ~IsFar(g)
    BY <1>7, <2>1 DEF IsOld, IsFar, Base
  <2> QED
    BY <2>2 DEF Packet, DropOld, Quarantine, Believe, g
<1>8. ASSUME have_baseline
      PROVE  Accept(g, c, Data) \/ (DropOld(g) /\ Diff(o, baseline) < 0)
  BY <1>3, <1>8, HearNear DEF g
<1> QED
  BY <1>5, <1>6, <1>7, <1>8

\* The rows of the block that were not heard now keep what they had, and the
\* one that was has one packet more or is delivered.
LEMMA HearMending ==
  ASSUME FadesInReach, IInv, IInv', Undecoded,
         NEW n \in 0 .. Depth, NEW o \in GenId, NEW i \in 0 .. n - 1,
         NEW c \in 0 .. Size - 1, c * n + i = Gone(n),
         OnAir(n, o), Fading(n), InStep(n, o), Mending(n, o),
         Hear, Packet(Plus(o, i), c, Data), Head(m_outq) = <<Plus(o, i), c>>
  PROVE  Mending(n, o)'
<1> SUFFICES ASSUME block' # {} PROVE Mending(n, o)'
  BY DEF Mending
<1> DEFINE g == Plus(o, i)
           d == Diff(o, baseline)
<1>1. /\ g \in GenId /\ i \in Nat /\ n \in Nat /\ i < n /\ c \in Esi /\ c \in Nat
      /\ Depth \in Nat /\ Window \in Nat /\ Size \in Nat /\ Half \in Nat
      /\ baseline \in GenId /\ Depth <= Window /\ Window < Half - Window
  BY SpreadSizes, PlusPlus, DecoderAssumption DEF IInv, DecoderTypeOK, FadesInReach
<1>2. /\ UNCHANGED <<wild, block>> /\ block # {} /\ wild = 0 /\ have_baseline /\ d >= 0
      /\ block = {Plus(o, j) : j \in 0 .. n - 1}
      /\ \A j \in 0 .. n - 1 : Plus(o, j) \notin delivered =>
           /\ Plus(o, j) \notin completed
           /\ symbols[Plus(o, j)] = {<<b, Data>> : b \in Got(n, j)}
      /\ delivered' = IF out' # {} THEN block \cap (delivered \cup {g}) ELSE delivered
  <2>1. /\ UNCHANGED <<wild, block>>
        /\ delivered' = IF out' # {} THEN block \cap (delivered \cup {Head(m_outq)[1]})
                                    ELSE delivered
    BY DEF Hear
  <2>2. Head(m_outq)[1] = g
    OBVIOUS
  <2>3. block # {}
    BY <2>1
  <2> QED
    BY <2>1, <2>2, <2>3 DEF Mending
<1>3. d \in Int
  BY <1>1, DiffType
<1>4. Accept(g, c, Data) /\ Packet(g, c, Data)
  <2>1. Gone(n) \in Nat /\ Close(Gone(n), d) /\ fade \in 0 .. MaxFade
    BY <1>1, <1>2, GoneIs DEF InStep, Fading
  <2> QED
    BY <1>1, <1>2, <1>3, <2>1, HearNear
<1> HIDE DEF g, d
<1>5. /\ Taken(g, c, Data) /\ have_baseline' = TRUE /\ Forward /\ baseline' \in GenId
      /\ Diff(o, baseline') >= 0 /\ Diff(o, baseline') <= Window - 1
      /\ Diff(o, baseline') \in Int /\ Data \in Source
  <2>1. /\ Taken(g, c, Data) /\ have_baseline' = TRUE /\ baseline' \in GenId
        /\ Diff(o, baseline') <= Window - 1 /\ Diff(o, baseline') \in Int
        /\ baseline' = Base(g) \/ Diff(o, baseline') >= 0
        /\ Data \in Source
    BY <1>1, <1>4, HearMoves DEF g
  <2>2. Base(g) = baseline
    BY <1>2 DEF Base
  <2>3. Forward
    BY <1>1, <1>4, <2>1, PacketStep
  <2> QED
    BY <1>2, <2>1, <2>2, <2>3 DEF d
<1>6. \A j \in 0 .. n - 1 : Plus(o, j) \in block /\ Plus(o, j) \in GenId /\ j \in Nat /\ j < Half
  <2> TAKE j \in 0 .. n - 1
  <2>1. j \in Nat /\ j < Half
    BY <1>1
  <2> QED
    BY <1>2, <2>1, PlusPlus
<1>7. \A j \in 0 .. n - 1 : Plus(o, j) \notin delivered' => Plus(o, j) \notin delivered
  BY <1>2, <1>6
<1>8. ASSUME NEW j \in 0 .. n - 1, j # i, Plus(o, j) \notin delivered'
      PROVE  /\ Plus(o, j) \notin completed'
             /\ symbols'[Plus(o, j)] = {<<b, Data>> : b \in Got(n, j)'}
  <2> DEFINE k == Plus(o, j)
  <2>1. k \in GenId /\ k # g
    <3>1. Diff(o, o) = 0
      BY DiffType
    <3>2. Diff(k, o) = j /\ Diff(g, o) = i
      <4>1. 0 + j < Half /\ 0 + i < Half /\ i < Half /\ 0 + j = j /\ 0 + i = i /\ j < Half
        BY <1>1, <1>6
      <4>2. Diff(Plus(o, j), o) = j
        BY <1>6, <3>1, <4>1, NearIds
      <4>3. Diff(Plus(o, i), o) = i
        BY <1>1, <3>1, <4>1, NearIds
      <4> QED
        BY <4>2, <4>3 DEF g
    <3> QED
      BY <1>6, <1>8, <3>2
  <2>2. k \notin completed /\ symbols[k] = {<<b, Data>> : b \in Got(n, j)}
    BY <1>2, <1>7, <1>8
  <2>3. k \notin completed' /\ symbols'[k] = IF k \in gens' THEN symbols[k] ELSE {}
    BY <1>5, <2>1, <2>2 DEF Taken
  <2>4. k \notin gens' => symbols[k] = {}
    <3>1. Diff(k, baseline') = Diff(o, baseline') + j
      <4>1. Diff(o, baseline') + j < Half
        BY <1>1, <1>5
      <4> QED
        BY <1>5, <1>6, <4>1, NearIds
    <3>2. ~(Diff(k, baseline') < 0)
      BY <1>5, <1>6, <3>1
    <3>3. k \notin gens' => k \notin gens
      BY <1>2, <1>5, <3>2 DEF Forward
    <3> QED
      BY <2>1, <3>3 DEF Undecoded
  <2>5. Got(n, j)' = Got(n, j)
    <3>1. \A b \in 0 .. Size - 1 : b * n + j # Gone(n)
      BY <1>1, <1>8, Radix
    <3>2. Got(n, j)' = Got(n, j) \cup {b \in 0 .. Size - 1 : b * n + j = Gone(n)}
      BY HearGot
    <3> QED
      BY <3>1, <3>2
  <2> QED
    BY <2>2, <2>3, <2>4, <2>5
<1>9. ASSUME g \notin delivered'
      PROVE  /\ g \notin completed'
             /\ symbols'[g] = {<<b, Data>> : b \in Got(n, i)'}
  <2> DEFINE syms == WithSymbol(symbols[g], c, Data)
  <2>1. g \notin completed /\ symbols[g] = {<<b, Data>> : b \in Got(n, i)}
    BY <1>2, <1>7, <1>9 DEF g
  <2>2. syms = symbols[g] \cup {<<c, Data>>}
    <3>1. Gone(n) \in Nat
      BY <1>1, GoneIs
    <3>2. c \notin Got(n, i)
      BY <3>1 DEF Got
    <3>3. \A y \in symbols[g] : y[1] # c
      BY <2>1, <3>2
    <3> QED
      BY <3>3 DEF WithSymbol
  <2>3. IF Decodes(syms)
          THEN out' = Origins(syms)
          ELSE g \notin completed' /\ symbols'[g] = syms
    BY <1>5, <2>1 DEF Taken
  <2>4. ~Decodes(syms)
    <3> SUFFICES ASSUME Decodes(syms) PROVE FALSE
      OBVIOUS
    <3>1. <<c, Data>> \in syms
      BY <2>2
    <3> HIDE DEF syms
    <3>2. out' # {}
      BY <2>3, <3>1 DEF Origins
    <3>3. g \in block
      BY <1>6 DEF g
    <3> QED
      BY <1>2, <1>9, <3>2, <3>3
  <2>5. Got(n, i)' = Got(n, i) \cup {c}
    <3>1. \A b \in 0 .. Size - 1 : b * n + i = Gone(n) <=> b = c
      BY <1>1, Radix
    <3>2. Got(n, i)' = Got(n, i) \cup {b \in 0 .. Size - 1 : b * n + i = Gone(n)}
      BY HearGot
    <3> QED
      BY <3>1, <3>2
  <2> HIDE DEF syms
  <2> QED
    BY <2>1, <2>2, <2>3, <2>4, <2>5
<1>10. \A j \in 0 .. n - 1 : Plus(o, j) \notin delivered' =>
         /\ Plus(o, j) \notin completed'
         /\ symbols'[Plus(o, j)] = {<<b, Data>> : b \in Got(n, j)'}
  BY <1>8, <1>9 DEF g
<1> QED
  BY <1>2, <1>5, <1>10 DEF Mending

\* Read by columns, R losses in a row for each of n rows are at most R of one
\* row: K of its packets are left.
LEMMA RowSurvives ==
  ASSUME NEW n \in 0 .. Depth, NEW o \in GenId, NEW i \in 0 .. n - 1,
         OnAir(n, o), Fading(n), m_outq = <<>>, lost <= R * n
  PROVE  Cardinality(Got(n, i)) >= K
<1> DEFINE L == LostFrom(n)
           missed == {c \in 0 .. Size - 1 : lost > 0 /\ c * n + i \in L .. L + lost - 1}
           z == L + n - 1 - i
           f == z \div n
<1>1. /\ Size \in Nat /\ Size = K + R /\ K \in Nat /\ R \in Nat /\ Depth \in Nat
      /\ n \in Nat /\ n > 0 /\ i \in Nat /\ lost \in Nat
  BY SpreadSizes DEF Fading
<1>2. Gone(n) = n * Size /\ n * Size \in Nat /\ L \in Int /\ (lost > 0 => L >= 0)
  <2>1. Gone(n) = n * Size /\ n * Size \in Nat
    BY <1>1, GoneIs
  <2>2. quiet \in Int
    BY SpreadSizes DEF Fading
  <2> QED
    BY <1>1, <2>1, <2>2 DEF Fading, LostFrom
<1>3. 0 .. Size - 1 = Got(n, i) \cup missed
  <2>1. ASSUME NEW c \in 0 .. Size - 1 PROVE c * n + i < Gone(n)
    <3>1. c * n + i \in Nat /\ c * n \in Nat
      BY <1>1, Radix
    <3>2. (c + 1) * n <= Size * n
      BY <1>1
    <3>3. (c + 1) * n = c * n + n /\ Size * n = n * Size
      BY <1>1
    <3> QED
      BY <1>1, <1>2, <3>1, <3>2, <3>3
  <2> QED
    BY <2>1 DEF Got
<1>4. lost > 0 => f \in Int /\ \A c \in missed : c \in f .. f + R - 1
  <2> SUFFICES ASSUME lost > 0 PROVE f \in Int /\ \A c \in missed : c \in f .. f + R - 1
    OBVIOUS
  <2>1. z \in Int /\ z = L + n - 1 - i /\ L \in Int
    BY <1>1, <1>2
  <2>2. f \in Int /\ z % n \in 0 .. n - 1 /\ z = n * f + (z % n)
    BY <1>1, <2>1, Division
  <2> DEFINE rest == z % n
             nf == n * f
  <2>3. f \in Int /\ nf \in Int /\ rest \in 0 .. n - 1 /\ z = nf + rest /\ nf = n * f
    BY <1>1, <2>2
  <2>4. n \in Nat /\ i \in 0 .. n - 1
    BY <1>1
  <2>5. \A c \in missed : c \in Nat /\ L <= c * n + i /\ c * n + i <= L + lost - 1
    BY <1>1, <1>2
  <2> HIDE DEF f, rest, nf, z, L, missed
  <2>6. ASSUME NEW c \in missed PROVE c \in f .. f + R - 1
    <3> DEFINE nc == n * c
               nR == n * R
    <3>1. /\ c \in Nat /\ nc \in Nat /\ nR \in Nat
          /\ L <= nc + i /\ nc + i <= L + lost - 1 /\ lost <= nR
      BY <1>1, <2>5
    <3>2. n * (c + 1) = nc + n /\ n * (f + R) = nf + nR
      BY <1>1, <2>3, <3>1
    <3> HIDE DEF nc, nR
    <3>3. nf < nc + n
      BY <2>1, <2>3, <2>4, <3>1
    <3>4. nc < nf + nR
      BY <1>1, <2>1, <2>3, <2>4, <3>1
    <3>5. ~(c + 1 <= f)
      <4>1. c + 1 <= f => n * (c + 1) <= n * f
        BY <2>3, <2>4, <3>1, Ordered
      <4> QED
        BY <2>3, <2>4, <3>1, <3>2, <3>3, <4>1
    <3>6. ~(f + R <= c)
      <4>1. f + R <= c => n * (f + R) <= n * c
        BY <1>1, <2>3, <2>4, <3>1, Ordered
      <4> QED
        BY <1>1, <2>3, <2>4, <3>1, <3>2, <3>4, <4>1 DEF nc
    <3>7. c \in Int /\ f \in Int /\ R \in Int
      BY <1>1, <2>3, <3>1
    <3>8. f <= c /\ c <= f + R - 1
      BY <3>5, <3>6, <3>7
    <3> QED
      BY <3>7, <3>8
  <2> QED
    BY <2>3, <2>6
<1> HIDE DEF L, f, z
<1>5. IsFiniteSet(missed) /\ Cardinality(missed) \in Nat /\ Cardinality(missed) <= R
  <2>1. CASE lost > 0
    <3>1. IsFiniteSet(f .. f + R - 1) /\ Cardinality(f .. f + R - 1) = R
      <4>1. f \in Int /\ f + R - 1 \in Int /\ R \in Nat
        BY <1>1, <1>4, <2>1
      <4>2. (f + R - 1) - f + 1 = R /\ (f > f + R - 1 <=> R = 0)
        BY <4>1
      <4> QED
        BY <4>1, <4>2, FS_Interval
    <3> DEFINE span == f .. f + R - 1
    <3>2. missed \in SUBSET span
      BY <1>4, <2>1
    <3>3. IsFiniteSet(span) /\ Cardinality(span) = R
      BY <3>1
    <3> HIDE DEF missed, span
    <3>4. IsFiniteSet(missed) /\ Cardinality(missed) <= R
      BY <3>2, <3>3, FS_Subset
    <3> QED
      BY <3>4, FS_CardinalityType
  <2>2. CASE ~(lost > 0)
    <3>1. missed = {}
      BY <2>2
    <3> QED
      BY <1>1, <3>1, FS_EmptySet
  <2> QED
    BY <2>1, <2>2
<1> DEFINE got == Got(n, i)
<1>6. IsFiniteSet(0 .. Size - 1) /\ Cardinality(0 .. Size - 1) = Size
  BY <1>1, FS_Interval
<1>7. IsFiniteSet(got) /\ Cardinality(got) \in Nat
  <2>1. got \in SUBSET (0 .. Size - 1)
    BY DEF Got
  <2> QED
    BY <1>6, <2>1, FS_Subset, FS_CardinalityType
<1> HIDE DEF got, missed
<1>8. /\ Cardinality(got \cup missed) =
           Cardinality(got) + Cardinality(missed) - Cardinality(got \cap missed)
      /\ Cardinality(got \cap missed) \in Nat
  BY <1>5, <1>7, FS_Union, FS_Intersection, FS_CardinalityType
<1>9. Cardinality(got \cup missed) = Size
  BY <1>3, <1>6 DEF got
<1>10. Cardinality(got) >= K
  BY <1>1, <1>5, <1>7, <1>8, <1>9
<1> QED
  BY <1>10 DEF got

\* The inductive invariant of the link with a spreader, with IInv and Undecoded
\* of the decoder.
SpreadInv ==
  \E n \in 0 .. Depth, o \in GenId :
    Laid(n, o) /\ Fading(n) /\ InStep(n, o) /\ Mending(n, o)

\* K packets of a row that was not delivered would have been decoded.
LEMMA MendedBlock == IInv /\ Undecoded /\ SpreadInv => FadeMended
<1> SUFFICES ASSUME IInv, Undecoded, SpreadInv, m_outq = <<>>,
                    lost <= R * Cardinality(block), NEW k \in block, k \notin delivered
             PROVE  FALSE
  BY DEF FadeMended
<1> PICK n \in 0 .. Depth, o \in GenId :
           Laid(n, o) /\ Fading(n) /\ InStep(n, o) /\ Mending(n, o)
  BY DEF SpreadInv
<1>1. n \in Nat /\ R \in Nat /\ K \in Nat /\ lost \in Nat
  BY SpreadSizes DEF Fading
<1>2. PICK i \in 0 .. n - 1 : k = Plus(o, i)
  BY DEF Mending
<1>3. symbols[k] = {<<c, Data>> : c \in Got(n, i)} /\ k \in GenId
  <2>1. block # {}
    OBVIOUS
  <2>2. k \in GenId
    BY <1>2, PlusPlus
  <2>3. Plus(o, i) \notin delivered
    BY <1>2
  <2> QED
    BY <1>2, <2>1, <2>2, <2>3 DEF Mending
<1>4. Cardinality(block) \in Nat /\ Cardinality(block) <= n
  <2> DEFINE f == [j \in 1 .. n |-> Plus(o, j - 1)]
  <2>1. block = {Plus(o, j) : j \in 0 .. n - 1}
    BY DEF Mending
  <2>2. \A j \in 0 .. n - 1 : j + 1 \in 1 .. n /\ (j + 1) - 1 = j
    BY <1>1
  <2>3. \A j \in 1 .. n : j - 1 \in 0 .. n - 1
    BY <1>1
  <2>4. f \in [1 .. n -> block]
    BY <2>1, <2>3
  <2>5. \A b \in block : \E j \in 1 .. n : f[j] = b
    BY <2>1, <2>2
  <2> HIDE DEF f
  <2>6. f \in Surjection(1 .. n, block)
    BY <2>4, <2>5 DEF Surjection
  <2>7. IsFiniteSet(1 .. n) /\ Cardinality(1 .. n) = n
    BY <1>1, FS_Interval
  <2> QED
    BY <2>6, <2>7, FS_Surjection, FS_CardinalityType
<1>5. lost <= R * n
  <2> DEFINE b == Cardinality(block)
  <2>1. b \in Nat /\ b <= n /\ lost <= R * b
    BY <1>4
  <2> HIDE DEF b
  <2>2. R * b <= R * n
    BY <1>1, <2>1
  <2>3. R * b \in Nat /\ R * n \in Nat
    BY <1>1, <2>1
  <2> QED
    BY <1>1, <2>1, <2>2, <2>3
<1>6. Cardinality(Got(n, i)) >= K
  BY <1>5, RowSurvives DEF Laid
<1>7. {y[1] : y \in symbols[k]} = Got(n, i)
  <2> DEFINE G == Got(n, i)
  <2>1. symbols[k] = {<<c, Data>> : c \in G}
    BY <1>3
  <2> HIDE DEF G
  <2>2. \A y \in symbols[k] : y[1] \in G
    BY <2>1
  <2>3. \A c \in G : <<c, Data>> \in symbols[k] /\ <<c, Data>>[1] = c
    BY <2>1
  <2>4. {y[1] : y \in symbols[k]} = G
    BY <2>2, <2>3
  <2> QED
    BY <2>4 DEF G
<1> QED
  BY <1>3, <1>6, <1>7 DEF Undecoded, Decodes

\* A step that leaves what Fading, InStep and Mending speak of leaves them.
LEMMA FadesStay ==
  ASSUME NEW n \in Nat, NEW o \in GenId, Fading(n), InStep(n, o), Mending(n, o),
         UNCHANGED <<decoder, air, account, m_outq>>
  PROVE  Fading(n)' /\ InStep(n, o)' /\ Mending(n, o)'
<1>1. UNCHANGED <<have_baseline, baseline, gens, symbols, completed>>
  BY DEF decoder
<1>2. UNCHANGED <<fade, quiet, wild, block, lost, delivered>>
  BY DEF air, account
<1>3. Gone(n)' = Gone(n) /\ LostFrom(n)' = LostFrom(n)
  BY <1>2 DEF Gone, LostFrom
<1>4. Fading(n)'
  BY <1>2, <1>3 DEF Fading
<1>5. InStep(n, o)'
  BY <1>1, <1>2, <1>3 DEF InStep, Close
<1>6. \A i : Got(n, i)' = Got(n, i)
  BY <1>2, <1>3 DEF Got
<1>7. Mending(n, o)'
  BY <1>1, <1>2, <1>6 DEF Mending
<1> QED
  BY <1>4, <1>5, <1>7

\* A packet that is heard ends the fade and adds to the quiet after it.
LEMMA HearFading ==
  ASSUME NEW n \in 0 .. Depth, NEW o \in GenId, OnAir(n, o), Fading(n), Hear
  PROVE  Fading(n)'
<1>1. /\ Pop /\ fade' = 0 /\ quiet' = Least(Block, quiet + 1)
      /\ UNCHANGED <<lost, wild>>
  BY DEF Hear
<1>2. Gone(n) \in Nat /\ Gone(n)' = Gone(n) + 1
  BY <1>1, SpreadSizes, PopsNext, Recent DEF Pop
<1>3. /\ quiet \in 0 .. Block /\ lost \in Nat /\ wild \in Nat /\ Block \in Nat
      /\ MaxFade \in Nat /\ (lost > 0 => LostFrom(n) >= 0)
  BY SpreadSizes, SpreadAssumption DEF Fading
<1>4. quiet' \in 0 .. Block /\ quiet' <= quiet + 1
  BY <1>1, <1>3 DEF Least
<1>5. lost > 0 => LostFrom(n)' >= 0
  BY <1>1, <1>2, <1>3, <1>4 DEF LostFrom
<1> QED
  BY <1>1, <1>3, <1>4, <1>5 DEF Fading

\* Every step of the sender and of the radio keeps it.
LEMMA SpreadInvStep ==
  ASSUME FadesInReach, IInv, IInv', Undecoded, SpreadInv, [SpreadNext]_spreadVars
  PROVE  SpreadInv'
<1> PICK n \in 0 .. Depth, o \in GenId :
           Laid(n, o) /\ Fading(n) /\ InStep(n, o) /\ Mending(n, o)
  BY DEF SpreadInv
<1> PICK l \in 0 .. Depth : OnAir(n, o) /\ Rows(Plus(o, n), l)
  BY DEF Laid
<1>1. n \in Nat /\ l \in Nat /\ Plus(o, n) \in GenId
  BY SpreadSizes, PlusPlus
<1>2. CASE Fill \/ PushNext \/ Idle
  <2>1. CASE /\ UNCHANGED <<decoder, air, m_outq, account>>
             /\ OnAir(n, o)' /\ \E m \in 0 .. Depth : Rows(Plus(o, n), m)'
    <3>1. Fading(n)' /\ InStep(n, o)' /\ Mending(n, o)'
      BY <1>1, <2>1, FadesStay
    <3> QED
      BY <2>1, <3>1 DEF SpreadInv, Laid
  <2>2. CASE /\ UNCHANGED <<decoder, air>>
             /\ Begin /\ l > 0 /\ m_outq = <<>>
             /\ m_rows = Stack(Plus(o, n), l, Size)
             /\ OnAir(l, Plus(o, n))' /\ Gone(l)' = 0
             /\ \E m \in 0 .. Depth : Rows(Plus(Plus(o, n), l), m)'
    <3>1. l \in 1 .. Depth
      BY <1>1, <2>2
    <3>2. Fading(l)' /\ InStep(l, Plus(o, n))' /\ Mending(l, Plus(o, n))'
      BY <2>2, <3>1, BeginKeeps
    <3> QED
      BY <1>1, <2>2, <3>2 DEF SpreadInv, Laid
  <2> QED
    BY <1>1, <1>2, <2>1, <2>2, SenderStep
<1>3. CASE Hear \/ Fade
  <2>1. Pop /\ UNCHANGED <<m_rows, gen_id, esi>>
    BY <1>3 DEF Hear, Fade, Pop, encoder
  <2>2. OnAir(n, o)' /\ Gone(n)' = Gone(n) + 1
    BY <1>1, <2>1, PopsNext
  <2>3. Laid(n, o)'
    BY <1>1, <2>1, <2>2, RowsStay DEF Laid
  <2>4. Fading(n)' /\ InStep(n, o)' /\ Mending(n, o)'
    <3>1. CASE Fade
      BY <3>1, FadeKeeps
    <3>2. CASE Hear
      <4>1. PICK c \in 0 .. Size - 1, i \in 0 .. n - 1 :
                   c * n + i = Gone(n) /\ Head(m_outq) = <<Plus(o, i), c>>
        BY <1>1, <2>1, PopsNext
      <4>2. Packet(Plus(o, i), c, Data) /\ fade' = 0 /\ wild' = wild
        BY <3>2, <4>1 DEF Hear
      <4>3. Gone(n) \in Nat /\ c \in Esi /\ fade \in 0 .. MaxFade
        BY <1>1, GoneIs, SpreadSizes DEF Fading
      <4>4. InStep(n, o)'
        BY <2>2, <4>2, <4>3, HearInStep
      <4>5. Mending(n, o)'
        BY <3>2, <4>1, <4>2, HearMending
      <4> QED
        BY <3>2, <4>4, <4>5, HearFading
    <3> QED
      BY <1>3, <3>1, <3>2
  <2> QED
    BY <2>3, <2>4 DEF SpreadInv
<1>4. CASE Wild
  <2>1. /\ UNCHANGED <<m_outq, m_rows, gen_id, esi, fade, quiet>>
        /\ quiet = Block /\ wild' = wild + 1 /\ block' = {} /\ lost' = 0
    BY <1>4 DEF Wild, encoder, spreader
  <2>2. Laid(n, o)'
    <3>1. OnAir(n, o)'
      BY <2>1 DEF OnAir, Gone
    <3> QED
      BY <1>1, <2>1, <3>1, RowsStay DEF Laid
  <2>3. /\ fade \in 0 .. MaxFade /\ quiet \in 0 .. Block /\ wild \in Nat
        /\ (fade > 0 => quiet = 0) /\ Block > 0
    BY SpreadSizes DEF Fading
  <2>4. Fading(n)'
    BY <2>1, <2>3 DEF Fading
  <2>5. InStep(n, o)' /\ Mending(n, o)'
    BY <2>1, <2>3 DEF InStep, Mending
  <2> QED
    BY <2>2, <2>4, <2>5 DEF SpreadInv
<1>5. CASE UNCHANGED spreadVars
  <2>1. UNCHANGED <<decoder, air, account, m_outq, m_rows, gen_id, esi>>
    BY <1>5 DEF spreadVars, encoder, spreader
  <2>2. Laid(n, o)'
    <3>1. OnAir(n, o)'
      BY <2>1 DEF OnAir, Gone
    <3> QED
      BY <1>1, <2>1, <3>1, RowsStay DEF Laid
  <2>3. Fading(n)' /\ InStep(n, o)' /\ Mending(n, o)'
    BY <1>1, <2>1, FadesStay
  <2> QED
    BY <2>2, <2>3 DEF SpreadInv
<1> QED
  BY <1>2, <1>3, <1>4, <1>5 DEF SpreadNext

\* It holds of a link that has sent nothing.
LEMMA SpreadInvFirst == SpreadInit => SpreadInv
<1> SUFFICES ASSUME SpreadInit PROVE SpreadInv
  OBVIOUS
<1>1. /\ fade = 0 /\ quiet = Block /\ wild = 0 /\ block = {} /\ lost = 0
      /\ have_baseline = FALSE
  BY DEF SpreadInit, Init
<1>2. 0 \in 0 .. Depth /\ 0 \in GenId /\ Block \in Nat /\ MaxFade \in Nat
  BY SpreadSizes, SpreadAssumption DEF GenId
<1>3. Fading(0)
  BY <1>1, <1>2 DEF Fading
<1>4. InStep(0, 0) /\ Mending(0, 0)
  BY <1>1 DEF InStep, Mending
<1> QED
  BY <1>2, <1>3, <1>4, LaidFirst DEF SpreadInv

\* A fade of up to R packets for each row of a block costs no generation of it
\* (phy_spreader.h:11-16), for every depth, code rate and length of fade that
\* FadesInReach allows: whatever came before the block, and however often.
THEOREM SpreadFadeMended == FadesInReach => (SpreadSpec => []FadeMended)
<1> SUFFICES ASSUME FadesInReach PROVE SpreadSpec => []FadeMended
  OBVIOUS
<1>1. SpreadInit => SpreadInv
  BY SpreadInvFirst
<1>2. IInv /\ IInv' /\ Undecoded /\ SpreadInv /\ [SpreadNext]_spreadVars => SpreadInv'
  BY SpreadInvStep
<1>3. IInv /\ Undecoded /\ SpreadInv => FadeMended
  BY MendedBlock
<1> QED
  BY <1>1, <1>2, <1>3, SpreadDecoder, PTL DEF SpreadSpec
=============================================================================
