------------------------------ MODULE LinkAgcProofs ------------------------------
(***************************************************************************)
(* Proofs about LinkAgc: the type invariant, and that the loop does not    *)
(* react to its own changes as long as the averages are at most one        *)
(* reading late.  The invariant behind the second: while the averages have *)
(* not caught up, either the quiet tick is still to come or it has been    *)
(* spent, on the one late reading there can be.                            *)
(***************************************************************************)
EXTENDS LinkAgc, TLAPS

\* A gain that is clamped is in the band (link_agc.h:160).
LEMMA ClampInBand ==
  ASSUME NEW g \in Int
  PROVE  Clamp(g) \in GainMin .. GainMax
BY AgcAssumption DEF Clamp, Most, Least

\* The gain that the readings call for is a whole number of dB.
LEMMA WantedInt == TypeOK => Wanted \in Int
BY AgcAssumption DEF TypeOK, Wanted, Least, Below, Above

\* What the converter makes of a signal is at most full scale.
LEMMA LevelBounded ==
  ASSUME NEW g \in Int, signal \in Signals
  PROVE  LevelAt(g) \in Int /\ LevelAt(g) <= FullScale
BY AgcAssumption DEF LevelAt, Least

LEMMA DeviceInt == TypeOK => device \in Int
BY AgcAssumption DEF TypeOK

LEMMA LateInRange == TypeOK => Late \in 0 .. Lag
BY AgcAssumption DEF TypeOK, Late, Least

LEMMA LowTicksInRange == TypeOK => LowTicks \in 0 .. UpHold
BY AgcAssumption DEF TypeOK, LowTicks, Least

-----------------------------------------------------------------------------

LEMMA InitTypeOK == Init => TypeOK
<1> SUFFICES ASSUME Init PROVE TypeOK
  OBVIOUS
<1>1. PICK g \in Settings :
        /\ \/ device = Clamp(g) /\ gain = device /\ faults = 0
           \/ device \in {g, Clamp(g)} /\ gain = GainMin /\ faults = 1
        /\ \/ level = NoReading /\ clip = FALSE
           \/ level = LevelAt(g) /\ clip = (level > ClipLevel)
  BY DEF Init
<1>2. g \in Int
  BY AgcAssumption
<1>3. Clamp(g) \in GainMin .. GainMax
  BY <1>2, ClampInBand
<1>4. GainMin \in GainMin .. GainMax
  BY AgcAssumption
<1>5. /\ gain \in GainMin .. GainMax
      /\ device \in (GainMin .. GainMax) \cup Settings
  BY <1>1, <1>3, <1>4
<1>6. LevelAt(g) \in Int /\ LevelAt(g) <= FullScale
  BY <1>2, LevelBounded DEF Init
<1>7. level \in Int /\ level <= NoReading
  BY <1>1, <1>6, AgcAssumption DEF NoReading
<1>8. clip \in BOOLEAN
  <2>1. (level > ClipLevel) \in BOOLEAN
    OBVIOUS
  <2> QED
    BY <1>1, <2>1
<1>9. /\ low_ticks \in 0 .. UpHold /\ late \in 0 .. Lag
      /\ moves \in 0 .. MaxMoves /\ faults \in 0 .. MaxFaults
  BY <1>1, AgcAssumption DEF Init
<1> QED
  BY <1>5, <1>7, <1>8, <1>9 DEF Init, TypeOK

LEMMA NextTypeOK == TypeOK /\ [Next]_vars => TypeOK'
<1> SUFFICES ASSUME TypeOK, [Next]_vars PROVE TypeOK'
  OBVIOUS
<1> USE DEF TypeOK
<1>1. CASE Batch
  <2>1. LevelAt(device) \in Int /\ LevelAt(device) <= FullScale
    BY DeviceInt, LevelBounded
  <2>2. level' \in Int /\ level' <= NoReading
    <3> DEFINE target == LevelAt(device)
    <3>1. level' \in {target} \cup (level + 1 .. target) \cup (target .. level - 1)
      BY <1>1 DEF Batch
    <3> QED
      BY <2>1, <3>1, AgcAssumption DEF NoReading
  <2>3. clip' \in BOOLEAN
    <3>1. (LevelAt(device) > ClipLevel) \in BOOLEAN
      OBVIOUS
    <3>2. \/ clip' \in {LevelAt(device) > ClipLevel}
          \/ clip' \in {clip, LevelAt(device) > ClipLevel}
      BY <1>1 DEF Batch
    <3> QED
      BY <3>1, <3>2
  <2> QED
    BY <1>1, <2>2, <2>3 DEF Batch, loop
<1>2. CASE Move
  BY <1>2, AgcAssumption DEF Move, loop, monitor
<1>3. CASE SettleTick
  BY <1>3, LateInRange DEF SettleTick, monitor
<1>4. CASE Hold
  BY <1>4, LateInRange, LowTicksInRange DEF Hold, monitor
<1>5. CASE Change
  <2>1. Clamp(Wanted) \in GainMin .. GainMax
    BY WantedInt, ClampInBand
  <2>2. /\ gain' \in GainMin .. GainMax
        /\ device' \in (GainMin .. GainMax) \cup Settings
        /\ faults' \in 0 .. MaxFaults
    BY <1>5, <2>1, AgcAssumption DEF Change, SetGain
  <2>3. late' \in 0 .. Lag /\ low_ticks' \in 0 .. UpHold
    BY <1>5, LowTicksInRange, AgcAssumption DEF Change
  <2> QED
    BY <1>5, <2>2, <2>3 DEF Change, monitor, SettleAfter
<1>6. CASE UNCHANGED vars
  BY <1>6 DEF vars, loop, monitor
<1> QED
  BY <1>1, <1>2, <1>3, <1>4, <1>5, <1>6 DEF Next, Tick

\* The gain that the loop holds and publishes never leaves its band, and low_ticks
\* and the late readings stay in their range, for every band, window, signal and
\* pattern of driver failures (link_agc.h:99-192).
THEOREM AgcTyped == Safety => []TypeOK
BY InitTypeOK, NextTypeOK, PTL DEF Safety

-----------------------------------------------------------------------------

\* While the averages are behind, the quiet tick is to come or has been spent.
QuietFirst == ~seen => settle \/ late >= 1

LEMMA QuietInductive ==
  ASSUME Lag <= 1
  PROVE  TypeOK /\ QuietFirst /\ [Next]_vars => QuietFirst'
<1> SUFFICES ASSUME TypeOK, QuietFirst, [Next]_vars, ~seen' PROVE settle' \/ late' >= 1
  BY DEF QuietFirst
<1> USE DEF QuietFirst, TypeOK
<1>1. CASE Batch
  BY <1>1 DEF Batch, loop
<1>2. CASE Move
  BY <1>2 DEF Move, loop
<1>3. CASE SettleTick
  <2>1. ~seen /\ late < Lag /\ late' = Late
    BY <1>3 DEF SettleTick, Reading
  <2> QED
    BY <2>1, AgcAssumption DEF Late, Least
<1>4. CASE Hold
  BY <1>4, AgcAssumption DEF Hold, Reading
<1>5. CASE Change
  BY <1>5 DEF Change, SettleAfter
<1>6. CASE UNCHANGED vars
  BY <1>6 DEF vars, loop
<1> QED
  BY <1>1, <1>2, <1>3, <1>4, <1>5, <1>6 DEF Next, Tick

\* The loop never reacts to its own transition: one settle tick is enough, for
\* any attack, release and window, when a change shows in the averages within
\* one reading (link_agc.h:118-122, 161-173).
THEOREM AgcNoEcho ==
  ASSUME Lag <= 1
  PROVE  Safety => NoEcho
<1>1. Init => QuietFirst
  BY DEF Init, QuietFirst
<1>2. TypeOK /\ QuietFirst /\ [Next]_vars => [gain' # gain => seen]_vars
  <2> SUFFICES ASSUME TypeOK, QuietFirst, Next, gain' # gain PROVE seen
    BY DEF vars, loop
  <2>1. Change
    BY DEF Next, Tick, Batch, Move, SettleTick, Hold, loop
  <2> QED
    BY <2>1, AgcAssumption DEF Change, Reading, QuietFirst, TypeOK
<1> QED
  BY <1>1, <1>2, InitTypeOK, NextTypeOK, QuietInductive, PTL DEF Safety, NoEcho
=============================================================================
