-------------------------------- MODULE LinkAgc --------------------------------
(***************************************************************************)
(* LinkAgc: the gain loop of video_rx, and RxPowerMonitor, through which   *)
(* it sees the signal.  Gains are in dB and levels in dB over some floor;  *)
(* the device sets gains in steps of 1 dB, the unit here.  A tick that     *)
(* reads, decides and calls the driver is one step: only this thread       *)
(* touches the gain, and a level that moves meanwhile is one read late.    *)
(*                                                                         *)
(* frame_detector publishes batches at its own pace, and each moves the    *)
(* two averages a part of the way, from the level of a gain that is over   *)
(* to the level of the present one.  Lag says how many readings may be     *)
(* taken before a change is wholly in them.  With 4096 samples a batch at  *)
(* 5 MHz, some 120 batches come in a tick of 100 ms, and the slow average  *)
(* needs about 30 of them: Lag is 1.                                       *)
(***************************************************************************)
EXTENDS Integers

CONSTANTS GainMin, GainMax,    \* m_gain_min, m_gain_max
          WinLow, WinHigh,     \* m_win_low, m_win_high
          ClipLevel,           \* mean level above which more than 1 % clips
          FullScale,           \* the level of 0 dBFS
          AttackStep, MaxDown, UpStep, UpHold,
          Signals,             \* levels the air may give at GainMin
          Settings,            \* gains the device may have before seed_gain
          Lag,                 \* readings in a row that may be late
          MaxMoves,            \* bound: changes of the signal
          MaxFaults            \* bound: calls of the driver that throw

ASSUME AgcAssumption ==
  /\ {GainMin, GainMax, WinLow, WinHigh, ClipLevel, FullScale} \subseteq Int
  /\ {AttackStep, MaxDown, UpStep, UpHold} \subseteq Nat \ {0}
  /\ Signals \subseteq Int /\ Settings \subseteq Int
  /\ {Lag, MaxMoves, MaxFaults} \subseteq Nat
  /\ GainMin <= GainMax
  /\ WinLow <= WinHigh /\ WinHigh <= ClipLevel
  /\ ClipLevel < FullScale

Least(a, b) == IF a < b THEN a ELSE b
Most(a, b) == IF a < b THEN b ELSE a

NoReading == FullScale + 1

VARIABLES device,     \* the gain the hardware has
          gain,       \* the gain run() takes it to have, and publishes
          low_ticks, settle,
          level,      \* RxPowerMonitor's mean in dBFS, or NoReading
          clip,       \* is its clip fraction above the threshold?
          signal,     \* what the air gives at GainMin
          seen,       \* the averages have caught up since the last change
          late,       \* readings taken since then, while they had not
          moves, faults

loop == <<device, gain, low_ticks, settle>>
monitor == <<level, clip>>
vars == <<loop, monitor, signal, seen, late, moves, faults>>

-----------------------------------------------------------------------------
(* The air and RxPowerMonitor *)

\* What the converter makes of the signal: it saturates.
LevelAt(g) == Least(FullScale, signal + g - GainMin)

\* publish: the averages move towards the level of the samples.  The clip
\* fraction has the shorter memory, so it is true when the mean is.
Batch ==
  LET target == LevelAt(device) IN
  /\ level' \in IF level = NoReading THEN {target}
                ELSE {target} \cup (level + 1 .. target) \cup (target .. level - 1)
  /\ clip' \in IF level' = target THEN {target > ClipLevel}
               ELSE {clip, target > ClipLevel}
  /\ seen' = (seen \/ level' = target)
  /\ UNCHANGED <<loop, signal, late, moves, faults>>

\* The other end of the link moves, or a fade comes or goes.
Move ==
  /\ moves < MaxMoves
  /\ moves' = moves + 1
  /\ signal' \in Signals \ {signal}
  /\ UNCHANGED <<loop, monitor, seen, late, faults>>

-----------------------------------------------------------------------------
(* LinkAgc::run *)

\* Mutant: the gain is not kept in its band.
ClampNot(g) == g

Clamp(g) == Most(GainMin, Least(GainMax, g))

Above == clip \/ level > WinHigh
Below == ~Above /\ level < WinLow

\* Mutant: every low reading counts as the first.
LowTicksFirst == IF Below THEN 1 ELSE 0

\* (low_ticks is only compared with m_up_hold, and is counted no further.)
LowTicks == IF Below THEN Least(UpHold, low_ticks + 1) ELSE 0

\* The gain that the readings call for.
Wanted ==
  IF clip THEN gain - AttackStep
  ELSE IF level > WinHigh THEN gain - Least(MaxDown, level - WinHigh)
  ELSE IF Below /\ low_ticks + 1 >= UpHold THEN gain + UpStep
  ELSE gain

\* set_rx_gain(g), then get_rx_gain: either may throw, and what was read
\* before then stays in `gain'.
SetGain(g) ==
  \/ device' = g /\ gain' = g /\ faults' = faults
  \/ /\ faults < MaxFaults
     /\ faults' = faults + 1
     /\ device' \in {device, g}
     /\ gain' = gain

\* Mutant: the loop decides again at once.
SettleNot == FALSE

\* After any attempt at a change.
SettleAfter == TRUE

Reading == level # NoReading /\ (seen \/ late < Lag)

Late == IF seen THEN 0 ELSE Least(Lag, late + 1)

\* One quiet tick after a change.
SettleTick ==
  /\ Reading
  /\ settle
  /\ settle' = FALSE
  /\ late' = Late
  /\ UNCHANGED <<device, gain, low_ticks, monitor, signal, seen, moves, faults>>

\* The readings leave the gain where it is.
Hold ==
  /\ Reading
  /\ ~settle
  /\ Clamp(Wanted) = gain
  /\ low_ticks' = LowTicks
  /\ late' = Late
  /\ UNCHANGED <<device, gain, settle, monitor, signal, seen, moves, faults>>

Change ==
  /\ Reading
  /\ ~settle
  /\ Clamp(Wanted) # gain
  /\ SetGain(Clamp(Wanted))
  /\ low_ticks' = LowTicks
  /\ settle' = SettleAfter
  /\ seen' = FALSE
  /\ late' = 0
  /\ UNCHANGED <<monitor, signal, moves>>

Tick == SettleTick \/ Hold \/ Change

\* seed_gain.  When one of its three calls throws, the gain is taken to be the
\* least, whatever the device has.  Batches may have been published before.
Init ==
  /\ signal \in Signals
  /\ \E g \in Settings :
       /\ \/ device = Clamp(g) /\ gain = device /\ faults = 0
          \/ device \in {g, Clamp(g)} /\ gain = GainMin /\ faults = 1
       /\ \/ level = NoReading /\ clip = FALSE
          \/ level = LevelAt(g) /\ clip = (level > ClipLevel)
  /\ faults <= MaxFaults
  /\ low_ticks = 0
  /\ settle = FALSE
  /\ seen = TRUE
  /\ late = 0
  /\ moves = 0

Next == Batch \/ Move \/ Tick

Safety == Init /\ [][Next]_vars

\* The loop's thread sleeps and runs; samples keep coming.
Spec == Safety /\ WF_vars(Batch) /\ WF_vars(Tick)

-----------------------------------------------------------------------------
(* Properties *)

\* Type invariant.  The gain that the loop holds is always in its band, and so
\* is the device's from the first change on, whatever the driver throws
\* (link_agc.h:161-173, 175-184).
TypeOK ==
  /\ gain \in GainMin .. GainMax
  /\ device \in (GainMin .. GainMax) \cup Settings
  /\ low_ticks \in 0 .. UpHold
  /\ settle \in BOOLEAN
  /\ level \in Int /\ level <= NoReading
  /\ clip \in BOOLEAN
  /\ signal \in Signals
  /\ seen \in BOOLEAN
  /\ late \in 0 .. Lag
  /\ moves \in 0 .. MaxMoves
  /\ faults \in 0 .. MaxFaults

\* The loop never reacts to its own transition: when it decides on a change,
\* the averages it reads have caught up with its last one.  This is what the
\* settle tick is for (link_agc.h:27-28, 118-122), and it takes averages that
\* are no more than one reading late.
NoEcho == [][gain' # gain => seen]_vars

Centred ==
  LET l == LevelAt(device) IN
  \/ l \in WinLow .. WinHigh
  \/ l < WinLow /\ device = GainMax
  \/ l > WinHigh /\ device = GainMin

\* The loop takes the gain to be at an end of the band already, and the device
\* has another: seed_gain failed, or reading the gain back did.
Misled == gain \in {GainMin, GainMax} /\ device # gain

\* The loop does not hunt.  Wherever gain and signal start, once the signal
\* stays and the driver works the gain stays too, with the level in the window,
\* or at the end of the band that is nearest to it.  Only a loop that is misled
\* may stop elsewhere (link_agc.h:99-188).
Converges ==
  /\ <>[][device' = device]_vars
  /\ <>[](Centred \/ Misled)
=============================================================================
