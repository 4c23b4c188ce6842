---------------------------- MODULE TimingSync ----------------------------
(***************************************************************************)
(* timing_sync: finds the two LTS symbols behind each STS_END, tags them   *)
(* for fft_symbols, learns the frequency offset from them and forgets it   *)
(* when no LTS has come for long.  It works on batches of any size above   *)
(* Carry and holds the last Carry samples of each back for the next call.  *)
(*                                                                         *)
(* A stretch of samples is the set of the marks on it: an offset, and what *)
(* is there, a tag of the code or the true start of an LTS symbol, where   *)
(* the correlation peaks.  frame_detector runs on the next batch at the    *)
(* same time and publishes that batch's clipping to RxPowerMonitor, which  *)
(* smooths it and which this block reads.                                  *)
(***************************************************************************)
EXTENDS Integers

CONSTANTS Lts,        \* samples of an LTS symbol (64)
          Cp,         \* samples of the prefix before the first (32)
          Carry,      \* CARRYOVER_LENGTH (160)
          Back,       \* samples the tags stand before the symbols (8)
          Lags,       \* how late in the prefix frame_detector may say STS_END
          Batches,    \* sizes of the batches
          Gap,        \* least distance of two STS_END (a frame: 3 Carry)
          Reset,      \* RESET_AFTER_SAMPLES
          Fractions,  \* shares of near-clip samples a batch may have, in units
          Limit,      \* the average above which nothing is learnt (0.02);
                      \* averages are rounded down to units
          Heavy       \* the share from which on a batch is heavily clipped

ASSUME TimingAssumption ==
    /\ Lts \in Nat /\ Cp \in Nat /\ Back \in 0 .. Cp /\ Reset \in Nat
    /\ Carry = Cp + 2 * Lts
    /\ Gap \in Nat /\ Gap >= Carry
    /\ Lags \subseteq 1 .. Cp - Back
    /\ \E n \in Batches : \A m \in Batches : m <= n
    /\ \A n \in Batches : n \in Nat /\ n > Carry
    /\ Fractions \subseteq Nat /\ Limit \in Nat /\ Heavy \in Nat
    \* a heavy share still shows in the average two batches later
    /\ (7 * ((7 * ((3 * Heavy) \div 10)) \div 10)) \div 10 > Limit

Tags == {"STS_END", "LTS1", "LTS2"}
Signs == {"peak", "due1", "due2"}
Marks(last) == [at : 0 .. last, what : Tags \cup Signs, clipped : BOOLEAN]

MaxBatch == CHOOSE n \in Batches : \A m \in Batches : m <= n

VARIABLES
    m_carryover,          \* the marks on the samples held back
    m_phase_offset,       \* "neutral", or the preamble it was learnt from
    m_samples_since_lts,
    clip_fraction,        \* RxPowerMonitor's smoothed share, in units
    clip,                 \* the share in the batch that is fed now
    ahead,                \* the marks on samples still to come
    gap,                  \* samples since the last STS_END, up to Gap
    output_buffer,        \* the marks on the samples passed on
    age                   \* history: samples since an LTS was last found

vars == <<m_carryover, m_phase_offset, m_samples_since_lts, clip_fraction,
          clip, ahead, gap, output_buffer, age>>

Mark(at, what, clipped) == [at |-> at, what |-> what, clipped |-> clipped]
Shift(marks, by) == {[m EXCEPT !.at = @ + by] : m \in marks}
At(marks, what) == {m.at : m \in {k \in marks : k.what = what}}

(***************************************************************************)
(* The samples of a batch of n.  A frame whose STS_END is at offset i has  *)
(* its first LTS symbol Cp - lag later; STS_END may be a false alarm too.  *)
(* The peaks of a frame must be tagged where due1 and due2 are, unless its *)
(* STS_END is among the first lag samples of the buffer that is searched,  *)
(* so that the prefix begins before it.                                    *)
(***************************************************************************)
Missed(i, lag, n) == i + Carry - n \in 0 .. lag - 1

FrameMarks(i, lag, n, c) ==
    LET p == i + Cp - lag IN
    {Mark(i, "STS_END", c), Mark(p, "peak", FALSE),
     Mark(p + Lts, "peak", FALSE)}
      \cup IF Missed(i, lag, n) THEN {}
           ELSE {Mark(p - Back, "due1", FALSE),
                 Mark(p - Back + Lts, "due2", FALSE)}

\* What may be on the air in the batch besides what began earlier: nothing,
\* a false alarm, or a frame; preambles stand clear of one another.
Arrivals(n, c) ==
    LET starts == {i \in 0 .. n - 1 : gap + i >= Gap} IN
    {{}} \cup {{Mark(i, "STS_END", FALSE)} : i \in starts}
         \cup {FrameMarks(i, lag, n, c) : i \in starts, lag \in Lags}

(***************************************************************************)
(* The search behind an STS_END at x of the buffer: the starts of first    *)
(* symbols such that both peaks are inside the window.                     *)
(***************************************************************************)
Window(x) == x .. x + Carry - Lts - 1

Pairs(input, x) ==
    LET near == At(input, "peak") \cap Window(x) IN
    {p \in near : p + Lts \in near}

\* The start of the prefix must be in the buffer; the break leaves found set.
LtsOffset(p) == p - Cp
Found(input, x) == {p \in Pairs(input, x) : LtsOffset(p) >= 0}

\* Mutant: the STS_ENDs among the samples held back are searched as well.
SearchedAll(input, n) == At(input, "STS_END")

Searched(input, n) == {x \in At(input, "STS_END") : x < n}

\* Mutant: the second tag is put where the second symbol starts.
TagsPlain(p) ==
    {Mark(p - Back, "LTS1", FALSE), Mark(p + Lts, "LTS2", FALSE)}

TagsFor(p) ==
    {Mark(p - Back, "LTS1", FALSE), Mark(p - Back + Lts, "LTS2", FALSE)}

Tagged(input, n) ==
    input \cup UNION {UNION {TagsFor(p) : p \in Found(input, x)} :
                      x \in Searched(input, n)}

Hits(input, n) == {x \in Searched(input, n) : Found(input, x) # {}}

Clipped(input, x) ==
    \E m \in input : m.what = "STS_END" /\ m.at = x /\ m.clipped

\* Mutant: the average forgets as fast as it should remember.
PublishedFast(share) == (3 * clip_fraction + 7 * share) \div 10

\* RxPowerMonitor::publish, its exponential average rounded down to a unit.
Published(share) == (7 * clip_fraction + 3 * share) \div 10

Last(hits) == CHOOSE x \in hits : \A y \in hits : y <= x

(***************************************************************************)
(* The estimate is learnt at every hit where RxPowerMonitor shows no       *)
(* clipping: its old value before frame_detector publishes the next one,   *)
(* at some point of this loop, the new one after.                          *)
(***************************************************************************)
Learnt(input, hits, published, next) ==
    LET xs == {x \in hits :
                 (IF x < published THEN clip_fraction ELSE next) <= Limit}
    IN  IF xs = {} THEN m_phase_offset
        ELSE IF Clipped(input, Last(xs)) THEN "garbage" ELSE "clean"

\* Mutant: the watchdog looks at this batch only.
SinceBatch(hits, n) == IF hits # {} THEN 0 ELSE n

Since(hits, n) == IF hits # {} THEN 0 ELSE m_samples_since_lts + n

Least(a, b) == IF a < b THEN a ELSE b

AgeCap == Reset + 2 * MaxBatch

Held(input, n) == Shift({m \in input : m.at >= n}, -n)

Work(n, arrived, share) ==
    LET fed   == ahead \cup arrived
        input == m_carryover \cup Shift({m \in fed : m.at < n}, Carry)
        hits  == Hits(input, n)
        done  == Tagged(input, n)
        since == Since(hits, n)
        ends  == At(arrived, "STS_END")
    IN  /\ output_buffer' = {m \in done : m.at < n}
        /\ m_carryover' = Held(done, n)
        \* published: the first hit after the new value is there
        /\ \E published \in {n} \cup hits :
             m_phase_offset' = IF since > Reset THEN "neutral"
                               ELSE Learnt(input, hits, published,
                                           Published(share))
        /\ m_samples_since_lts' = IF since > Reset THEN 0 ELSE since
        /\ clip_fraction' = Published(share)
        /\ clip' = share
        /\ ahead' = Shift({m \in fed : m.at >= n}, -n)
        /\ gap' = Least(Gap, IF ends = {} THEN gap + n
                             ELSE n - CHOOSE i \in ends : TRUE)
        /\ age' = Least(AgeCap, IF hits = {} THEN age + n
                                ELSE n - Last(hits))

Init ==
    /\ m_carryover = {}
    /\ m_phase_offset = "neutral"
    /\ m_samples_since_lts = 0
    /\ clip \in Fractions
    /\ clip_fraction = (3 * clip) \div 10
    /\ ahead = {}
    /\ gap = Gap
    /\ output_buffer = {}
    /\ age = 0

Next ==
    \E n \in Batches :
      \E arrived \in Arrivals(n, clip >= Heavy), share \in Fractions :
        Work(n, arrived, share)

Spec == Init /\ [][Next]_vars

-----------------------------------------------------------------------------
(***************************************************************************)
(* Type invariant: no mark is ever held outside the carry-over, the tags   *)
(* of a preamble never reach past it, and the watchdog's count stays at or *)
(* below its limit.                                                        *)
(***************************************************************************)
TypeOK ==
    /\ m_carryover \subseteq Marks(Carry - 1)
    /\ output_buffer \subseteq Marks(MaxBatch - 1)
    /\ m_phase_offset \in {"neutral", "clean", "garbage"}
    /\ m_samples_since_lts \in 0 .. Reset
    /\ clip \in Fractions
    /\ \E f \in Fractions : clip_fraction \in 0 .. f
    /\ ahead \subseteq Marks(Carry - 1)
    /\ gap \in 0 .. Gap
    /\ age \in 0 .. AgeCap

(***************************************************************************)
(* The tags on the samples passed on do not depend on where the batches    *)
(* are cut: every frame's symbols carry them at the right sample, the      *)
(* second exactly a symbol after the first, and nothing else does, except  *)
(* that a frame whose STS_END falls on the first samples of the searched   *)
(* buffer is lost (timing_sync.cpp:105-137, 194-202).                      *)
(***************************************************************************)
TagsFollowStream ==
    /\ At(output_buffer, "LTS1") = At(output_buffer, "due1")
    /\ At(output_buffer, "LTS2") = At(output_buffer, "due2")

(***************************************************************************)
(* A frequency estimate is never in force more than Reset samples and one  *)
(* batch after the last LTS that was found (timing_sync.cpp:177-192).      *)
(***************************************************************************)
EstimateNotOutlived ==
    m_phase_offset # "neutral" => age <= Reset + MaxBatch

(***************************************************************************)
(* Nothing is learnt from a preamble in a heavily clipped batch: whichever *)
(* of two batches' averages the gate happens to read, and though the       *)
(* preamble may be searched for only with the next batch, Heavy clipping   *)
(* still shows in it (timing_sync.cpp:153, rx_power_monitor.h:40-57).  It  *)
(* is less than timing_sync.h:12-15 promises, since a Heavy share is       *)
(* several times the limit.                                                *)
(***************************************************************************)
NotLearntFromClipped == m_phase_offset # "garbage"
=============================================================================
