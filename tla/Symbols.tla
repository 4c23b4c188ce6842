------------------------------ MODULE Symbols ------------------------------
(***************************************************************************)
(* The symbol half of the receive chain: fft_symbols cuts the tagged       *)
(* samples into symbols, channel_est equalises them with the two LTS       *)
(* symbols, phase_tracker turns them by the pilot polarity of their number *)
(* in the frame, frame_decoder collects them and decodes the frame.        *)
(*                                                                         *)
(* Each block is a function of the stream it is fed, however the stream is *)
(* cut into batches (ReceiverChain is about the batches), so one step      *)
(* takes one sample through the four blocks.  A sample is the place it was *)
(* sent from, <<frame, index>>, or Noise (no frame); what a symbol holds   *)
(* is a sequence of those.                                                 *)
(***************************************************************************)
EXTENDS Integers, Sequences, FiniteSets

CONSTANTS Cp,          \* samples of a cyclic prefix (16)
          Sym,         \* samples of a symbol (64)
          Period,      \* pilot polarities before they repeat (127)
          Sizes,       \* data symbols a frame may have
          Full,        \* those of a frame of 1930 bytes
          MaxFrames    \* bound: frames on the air

ASSUME SymbolsAssumption == /\ Cp \in Nat \ {0}
                            /\ Sym \in Nat \ {0, 1}
                            /\ Period \in Nat \ {0}
                            /\ Sizes \subseteq Nat \ {0}
                            /\ Full \in Sizes
                            /\ MaxFrames \in Nat

Noise == <<0, 0>>
Frames == 1 .. MaxFrames
Samples == {Noise} \cup (Frames \X Nat)

VARIABLES
    air,          \* the frame on the air: its number, size, next sample; quiet
    m_offset, m_current_vector,              \* fft_symbols
    m_lts_flag, m_frame_start, m_chan_est,   \* channel_est
    m_symbol_count,                          \* phase_tracker, modulo Period
    m_current_frame,                         \* frame_decoder
    delivered,    \* payloads handed to the application
    size,         \* history: the size of each frame sent
    whole,        \* history: frames sent to their last sample
    refused       \* history: frames whose header, though intact, was refused

vars == <<air, m_offset, m_current_vector, m_lts_flag, m_frame_start,
          m_chan_est, m_symbol_count, m_current_frame, delivered, size,
          whole, refused>>

(***************************************************************************)
(* The air.  A frame is two LTS symbols without prefixes, then a header    *)
(* and the data, each a prefix and a symbol; timing_sync tagged its first  *)
(* sample LTS1 and the first of the second symbol LTS2.  Its sender or a   *)
(* louder one may cut it short anywhere; the short training sequence of    *)
(* the next frame, two symbols long, is noise to these blocks.             *)
(***************************************************************************)
Block == Cp + Sym
Sts == 2 * Block
FrameLength(n) == 2 * Sym + (1 + n) * Block

Quiet(q) == [frame |-> air.frame, next |-> 0, quiet |-> q]
TagOf(k) == IF k = 0 THEN "LTS1" ELSE IF k = Sym THEN "LTS2" ELSE "NONE"

\* What frame f sends as its d-th symbol after the LTS (0 is the header).
Body(f, d) == [j \in 1 .. Sym |-> <<f, 2 * Sym + d * Block + Cp + j - 1>>]
Training(f) == << [j \in 1 .. Sym |-> <<f, j - 1>>],
                  [j \in 1 .. Sym |-> <<f, Sym + j - 1>>] >>

(***************************************************************************)
(* fft_symbols: the symbols one sample completes, and the state after it.  *)
(* A frame that starts inside a symbol pushes the unfinished one.          *)
(***************************************************************************)
\* Mutant: only the first training symbol sets the offset.
OffsetOnceAt(tag) == IF tag = "LTS1" THEN Cp ELSE m_offset

OffsetAt(tag) == IF tag \in {"LTS1", "LTS2"} THEN Cp ELSE m_offset

VectorAt(tag) ==
    IF tag = "LTS1" THEN [m_current_vector EXCEPT !.tag = "LTS_START"]
    ELSE m_current_vector

Filled(tag, sample) ==
    LET o == OffsetAt(tag) IN
    IF o >= Cp THEN [VectorAt(tag) EXCEPT !.samples[o - Cp + 1] = sample]
    ELSE VectorAt(tag)

CutShort(tag) ==
    IF tag = "LTS1" /\ m_offset >= Cp THEN <<m_current_vector>> ELSE << >>

Completes(tag) == OffsetAt(tag) + 1 = Block

Cut(tag, sample) ==
    IF Completes(tag) THEN <<Filled(tag, sample)>> ELSE CutShort(tag)

(***************************************************************************)
(* channel_est and phase_tracker: what one symbol does to their state, and *)
(* what they pass on.                                                      *)
(***************************************************************************)
\* The receiver's state that a symbol passes through.
Trackers == [flag |-> m_lts_flag, start |-> m_frame_start, est |-> m_chan_est,
             count |-> m_symbol_count, frame |-> m_current_frame,
             out |-> delivered, refused |-> refused]

IsTraining(t, v) == v.tag = "LTS_START" \/ t.flag > 0

\* Mutant: the symbol after the training is taken for training too.
LearnThree(t, v) ==
    LET flag == IF v.tag = "LTS_START" THEN 1 ELSE t.flag
        est  == IF v.tag = "LTS_START" THEN << >> ELSE t.est
    IN  [t EXCEPT !.est = Append(est, v.samples),
                  !.flag = IF flag = 3 THEN 0 ELSE flag + 1,
                  !.start = @ \/ flag = 3]

Learn(t, v) ==
    LET flag == IF v.tag = "LTS_START" THEN 1 ELSE t.flag
        est  == IF v.tag = "LTS_START" THEN << >> ELSE t.est
    IN  [t EXCEPT !.est = Append(est, v.samples),
                  !.flag = IF flag = 2 THEN 0 ELSE flag + 1,
                  !.start = @ \/ flag = 2]

CountOf(t) == IF t.start THEN 0 ELSE t.count

Equalised(t, v) ==
    [samples |-> v.samples, est |-> t.est, pol |-> CountOf(t)]

Track(t) ==
    [t EXCEPT !.start = FALSE, !.count = (CountOf(t) + 1) % Period]

(***************************************************************************)
(* frame_decoder: copy the symbol if the frame lacks any, decode the frame *)
(* once it lacks none, then look for a header in the same symbol.          *)
(***************************************************************************)
Idle == [sample_count |-> 0, samples |-> << >>, head |-> 0]

Copied(c, s) ==
    IF Len(c.samples) < c.sample_count
    THEN [c EXCEPT !.samples = Append(@, s)]
    ELSE c

Due(c) == c.sample_count # 0 /\ Len(c.samples) >= c.sample_count

\* ppdu::decode_data succeeds on the length alone: the checksum is not used.
DecodeData(c) == c.sample_count = Full

Deliver(t, s) ==
    LET c == Copied(t.frame, s) IN
    IF Due(c)
    THEN [t EXCEPT !.frame = [c EXCEPT !.sample_count = 0],
                   !.out = IF DecodeData(c)
                           THEN Append(@, [head |-> c.head,
                                           samples |-> c.samples])
                           ELSE @]
    ELSE [t EXCEPT !.frame = c]

\* A header symbol as frame f sent it, and equalised as f needs.
IntactHeader(f, s) ==
    s = [samples |-> Body(f, 0), est |-> Training(f), pol |-> 0]

\* The sizes ppdu::decode_header may read, 0 when it refuses the header: a
\* single parity bit lets a damaged header through with any size.
HeaderReads(s) ==
    LET sent == {f \in DOMAIN size : IntactHeader(f, s)} IN
    IF sent = {} THEN {0} \cup Sizes ELSE {0} \cup {size[f] : f \in sent}

\* Mutant: a new frame keeps the symbols copied for the one before it.
BeginKeeping(t, f, n, s) ==
    IF n = 0
    THEN [t EXCEPT !.refused = IF IntactHeader(f, s) THEN @ \cup {f} ELSE @]
    ELSE [t EXCEPT !.frame = [@ EXCEPT !.sample_count = n, !.head = f]]

Begin(t, f, n, s) ==
    IF n = 0
    THEN [t EXCEPT !.refused = IF IntactHeader(f, s) THEN @ \cup {f} ELSE @]
    ELSE [t EXCEPT !.frame = [sample_count |-> n, samples |-> << >>,
                              head |-> f]]

\* What a symbol may leave behind, frame f being the one on the air.
After(t, v, f) ==
    IF IsTraining(t, v) THEN {Learn(t, v)}
    ELSE LET s == Equalised(t, v)
             d == Deliver(Track(t), s)
         IN  IF t.start THEN {Begin(d, f, n, s) : n \in HeaderReads(s)}
             ELSE {d}

\* A symbol is longer than a sample, so no sample pushes two.
AfterAll(vs, f) ==
    IF vs = << >> THEN {Trackers} ELSE After(Trackers, vs[1], f)

(***************************************************************************)
(* One sample through the four blocks.                                     *)
(***************************************************************************)
Receive(tag, sample) ==
    /\ \E t \in AfterAll(Cut(tag, sample), air'.frame) :
         /\ m_lts_flag' = t.flag
         /\ m_frame_start' = t.start
         /\ m_chan_est' = t.est
         /\ m_symbol_count' = t.count
         /\ m_current_frame' = t.frame
         /\ delivered' = t.out
         /\ refused' = t.refused
    /\ m_offset' = IF Completes(tag) THEN 0 ELSE OffsetAt(tag) + 1
    /\ m_current_vector' = IF Completes(tag)
                           THEN [Filled(tag, sample) EXCEPT !.tag = "NONE"]
                           ELSE Filled(tag, sample)

StartFrame(n) ==
    /\ air.next = 0 /\ air.quiet = Sts /\ air.frame < MaxFrames
    /\ air' = [frame |-> air.frame + 1, next |-> 1, quiet |-> 0]
    /\ size' = Append(size, n)
    /\ UNCHANGED whole
    /\ Receive("LTS1", <<air.frame + 1, 0>>)

SendSample ==
    /\ air.next > 0
    /\ LET k    == air.next
           last == k + 1 = FrameLength(size[air.frame])
       IN  /\ air' = IF last THEN Quiet(0) ELSE [air EXCEPT !.next = k + 1]
           /\ whole' = IF last THEN whole \cup {air.frame} ELSE whole
           /\ UNCHANGED size
           /\ Receive(TagOf(k), <<air.frame, k>>)

\* Training was heard to its end, or timing_sync would not have tagged it.
CutOff ==
    /\ air.next >= 2 * Sym
    /\ air' = Quiet(1)
    /\ UNCHANGED <<size, whole>>
    /\ Receive("NONE", Noise)

Silence ==
    /\ air.next = 0
    /\ air' = Quiet(IF air.quiet < Sts THEN air.quiet + 1 ELSE Sts)
    /\ UNCHANGED <<size, whole>>
    /\ Receive("NONE", Noise)

Init ==
    /\ air = [frame |-> 0, next |-> 0, quiet |-> 0]
    /\ m_offset = 0
    /\ m_current_vector = [samples |-> [j \in 1 .. Sym |-> Noise],
                           tag |-> "NONE"]
    /\ m_lts_flag = 0
    /\ m_frame_start = FALSE
    /\ m_chan_est = << >>
    /\ m_symbol_count = 0
    /\ m_current_frame = Idle
    /\ delivered = << >>
    /\ size = << >>
    /\ whole = {}
    /\ refused = {}

Next ==
    \/ \E n \in Sizes : StartFrame(n)
    \/ SendSample
    \/ CutOff
    \/ Silence

Spec == Init /\ [][Next]_vars

-----------------------------------------------------------------------------
(***************************************************************************)
(* Type invariant.  channel_est is never fed a third training symbol and   *)
(* never equalises with one alone, and frame_decoder's vector never holds  *)
(* more symbols than the frame has.                                        *)
(***************************************************************************)
TypeOK ==
    /\ m_offset \in 0 .. Block - 1
    /\ m_current_vector.tag \in {"NONE", "LTS_START"}
    /\ \A j \in 1 .. Sym : m_current_vector.samples[j] \in Samples
    /\ m_lts_flag \in {0, 2}
    /\ Len(m_chan_est) = (IF m_lts_flag = 2 THEN 1 ELSE
                          IF m_chan_est = << >> THEN 0 ELSE 2)
    /\ m_frame_start \in BOOLEAN
    /\ m_symbol_count \in 0 .. Period - 1
    /\ m_current_frame.sample_count \in {0} \cup Sizes
    /\ m_current_frame.sample_count # 0 =>
         Len(m_current_frame.samples) < m_current_frame.sample_count

\* What frame f's payload is when every symbol of it is received: its own
\* symbols, equalised with its own training, turned by its own polarities.
OwnPayload(f) ==
    [d \in 1 .. size[f] |-> [samples |-> Body(f, d), est |-> Training(f),
                             pol |-> d % Period]]

(***************************************************************************)
(* Every frame of the accepted length that is sent to its end is delivered *)
(* by its last sample, whatever was on the air before it, unless its       *)
(* header was refused although it came through intact: its own symbols in  *)
(* order, with its own channel estimate and pilot polarities, and once     *)
(* (fft_symbols.cpp:42-71, channel_est.cpp:44-83, phase_tracker.cpp:77-102,*)
(* frame_decoder.cpp:54-89).                                               *)
(***************************************************************************)
WholeFrameDelivered ==
    \A f \in whole \ refused : size[f] = Full =>
      Cardinality({i \in DOMAIN delivered :
                     delivered[i].samples = OwnPayload(f)}) = 1

(***************************************************************************)
(* No payload holds a sample that was on the air before the frame whose    *)
(* header began it, not even the rest of an unfinished symbol, and a       *)
(* header begins at most one payload (frame_decoder.cpp:54-69).            *)
(***************************************************************************)
NothingOlderThanHeader ==
    /\ \A i \in DOMAIN delivered : \A d \in DOMAIN delivered[i].samples :
         LET s == delivered[i].samples[d] IN
         \A j \in 1 .. Sym :
           s.samples[j] = Noise \/ s.samples[j][1] >= delivered[i].head
    /\ \A i, j \in DOMAIN delivered : i < j =>
         delivered[i].head < delivered[j].head

=============================================================================
