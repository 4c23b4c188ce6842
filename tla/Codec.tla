------------------------------- MODULE Codec -------------------------------
(***************************************************************************)
(* The codec between bytes and subcarriers: ppdu with the scrambler, the   *)
(* convolutional code, puncturer, interleaver, modulator and symbol_mapper *)
(* on the way out, and their inverses with the Viterbi decoder on the way  *)
(* in.  One frame is sent; noise moves the samples of a few neighbouring   *)
(* subcarriers of one symbol to the next constellation point; the receiver *)
(* decodes the header, then the data the header announces.                 *)
(*                                                                         *)
(* An axis of a sample is an odd integer level; scaling, the transforms    *)
(* and equalisation are taken to be exact.  The numbers of the decoder     *)
(* (8 bit soft values and metrics) are the code's.                         *)
(***************************************************************************)
EXTENDS Integers, Sequences, FiniteSets

CONSTANTS Frames,      \* frames that may be sent: [rate, payload, crc]
          Burst(_)     \* width of the noise on a symbol sent at a rate

VARIABLES
    frame,       \* the frame sent
    air,         \* its symbols: the header, then the data
    reading,     \* "send", "header", "data", "done": what is decoded next
    noise,       \* subcarriers hit in the part being decoded
    spent,       \* the noise has come
    soft,        \* soft bits of the part being decoded, none in between
    metrics,     \* path metrics of the 64 encoder states
    decisions,   \* one set of states per trellis step
    header,      \* the header received
    heard        \* the data bytes received

vars == <<frame, air, reading, noise, spent, soft, metrics, decisions,
          header, heard>>

BitAt(n, i) == (n \div 2^i) % 2
Odd(S) == Cardinality(S) % 2
Parity(n) == Odd({i \in 0 .. 23 : BitAt(n, i) = 1})
Concat(n, F(_)) ==
    LET upto[i \in 0 .. n] == IF i = 0 THEN << >> ELSE upto[i - 1] \o F(i)
    IN  upto[n]

-----------------------------------------------------------------------------
(* Rates, and the symbols a frame takes. *)

Params(f, c, d, b, code) ==
    [rate_field |-> f, cbps |-> c, dbps |-> d, bpsc |-> b, code |-> code]

RateParams ==
    [RATE_1_2_BPSK  |-> Params(13, 48, 24, 1, "1/2"),
     RATE_2_3_BPSK  |-> Params(14, 48, 32, 1, "2/3"),
     RATE_3_4_BPSK  |-> Params(15, 48, 36, 1, "3/4"),
     RATE_1_2_QPSK  |-> Params(5, 96, 48, 2, "1/2"),
     RATE_2_3_QPSK  |-> Params(6, 96, 64, 2, "2/3"),
     RATE_3_4_QPSK  |-> Params(7, 96, 72, 2, "3/4"),
     RATE_1_2_QAM16 |-> Params(9, 192, 96, 4, "1/2"),
     RATE_2_3_QAM16 |-> Params(10, 192, 128, 4, "2/3"),
     RATE_3_4_QAM16 |-> Params(11, 192, 144, 4, "3/4"),
     RATE_2_3_QAM64 |-> Params(1, 288, 192, 6, "2/3"),
     RATE_3_4_QAM64 |-> Params(3, 288, 216, 6, "3/4")]

VALID_RATES == {13, 14, 15, 5, 6, 7, 9, 10, 11, 1, 3}
FromRateField(f) == CHOOSE r \in DOMAIN RateParams : RateParams[r].rate_field = f

NumSymbols(rate, length) ==
    (16 + 8 * (length + 4) + 6 + RateParams[rate].dbps - 1)
      \div RateParams[rate].dbps

DataBitCount(rate, length) ==
    NumSymbols(rate, length) * RateParams[rate].dbps

-----------------------------------------------------------------------------
(* What is sent: the bits of the header and of the data. *)

HeaderBits(f) ==
    LET even  == RateParams[f.rate].rate_field * 2^13 + (Len(f.payload) % 2^12)
        field == (even + Parity(even) * 2^17) * 2^6
    IN  [i \in 1 .. 24 |-> BitAt(field, 24 - i)]

\* service, payload, checksum, padding; one byte more than the symbols hold.
DataByte(f, x) ==
    LET n == Len(f.payload) IN
    IF x \in 2 .. n + 1 THEN f.payload[x - 1]
    ELSE IF x \in n + 2 .. n + 5 THEN f.crc[x - n - 1]
    ELSE 0

\* The scrambler makes one bit per byte, the lowest of its register, and turns
\* the byte's lowest bit by it.
Register[x \in Nat] ==
    IF x = 0 THEN 93
    ELSE LET r == Register[x - 1]
         IN  ((2 * r) % 128) + ((BitAt(r, 6) + BitAt(r, 3)) % 2)

Scrambled(b, x) ==
    IF Register[x + 1] % 2 = 0 THEN b
    ELSE IF b % 2 = 0 THEN b + 1 ELSE b - 1

DataBits(f) ==
    LET bits == DataBitCount(f.rate, Len(f.payload))
        byte == [x \in 0 .. bits \div 8 |->
                   IF x < bits \div 8 THEN Scrambled(DataByte(f, x), x) ELSE 0]
    IN  [i \in 1 .. bits |-> BitAt(byte[(i - 1) \div 8], 7 - ((i - 1) % 8))]

(***************************************************************************)
(* The convolutional code.  Taps gives the two polynomials, 121 and 91, as *)
(* the ages of the bits they add; of the data, six bits too many are       *)
(* encoded, which the decoder takes to be a tail of zeros.                 *)
(***************************************************************************)
Taps == << {0, 3, 4, 5, 6}, {0, 1, 3, 4, 6} >>

ConvEncode(bits) ==
    [j \in 1 .. 2 * Len(bits) |->
       LET t == (j + 1) \div 2 IN
       Odd({d \in Taps[2 - (j % 2)] : d < t /\ bits[t - d] = 1})]

\* The places kept of each 2, 4 or 6 coded bits.
Kept(code) ==
    CASE code = "1/2" -> <<0, 1>>
      [] code = "2/3" -> <<0, 2, 3>>
      [] code = "3/4" -> <<0, 1, 3, 5>>
Period(k) == 2 * (Len(k) - 1)

Puncture(coded, code) ==
    LET k == Kept(code)
        n == Len(k)
    IN  [i \in 1 .. (Len(coded) \div Period(k)) * n |->
           coded[Period(k) * ((i - 1) \div n) + k[((i - 1) % n) + 1] + 1]]

Erasure == 127

Depuncture(s, code) ==
    LET k == Kept(code) IN
    [i \in 1 .. (Len(s) \div Len(k)) * Period(k) |->
       LET q == {x \in DOMAIN k : k[x] = (i - 1) % Period(k)}
       IN  IF q = {} THEN Erasure
           ELSE s[Len(k) * ((i - 1) \div Period(k)) + CHOOSE x \in q : TRUE]]

\* Mutant: neighbours stay neighbours.
InterleaveStraight(k) == k

\* BitInterleave(48, 1).index, whatever the rate.
InterleaveIndex(k) == 3 * (k % 16) + (k \div 16)

InverseIndex == [p \in 0 .. 47 |-> CHOOSE k \in 0 .. 47 : InterleaveIndex(k) = p]

Interleave(s) ==
    [i \in DOMAIN s |->
       s[48 * ((i - 1) \div 48) + InverseIndex[(i - 1) % 48] + 1]]
Deinterleave(s) ==
    [i \in DOMAIN s |->
       s[48 * ((i - 1) \div 48) + InterleaveIndex((i - 1) % 48) + 1]]

-----------------------------------------------------------------------------
(* Constellations: QAM<NumBits>, one axis at a time. *)

NumBits(rate) ==
    IF RateParams[rate].bpsc = 1 THEN 1 ELSE RateParams[rate].bpsc \div 2
AxesPerSample(rate) == IF RateParams[rate].bpsc = 1 THEN 1 ELSE 2

\* Mutant: without the flip, a binary and not a Gray code.
QamEncodeBinary(bits) ==
    LET at[i \in 0 .. Len(bits)] ==
          IF i = 0 THEN 0 ELSE 2 * bits[i] - 1 + 2 * at[i - 1]
    IN  at[Len(bits)]

QamEncode(bits) ==
    LET at[i \in 0 .. Len(bits)] ==
          IF i = 0 THEN [pt |-> 0, flip |-> 1]
          ELSE LET was == at[i - 1]
                   bit == 2 * bits[i] - 1
               IN  [pt |-> bit * was.flip + 2 * was.pt,
                    flip |-> was.flip * (-bit)]
    IN  at[Len(bits)].pt

\* Mutant: loud samples are not clamped.
ClampBelow(i) == IF i < 0 THEN 0 ELSE i

Clamp(i) == IF i < 0 THEN 0 ELSE IF i > 255 THEN 255 ELSE i

QamDecode(level, n) ==
    LET amp(i) == 2^(8 - i)
        at[i \in 1 .. n] ==
          IF i = 1 THEN [pt |-> level * 2^(8 - n), flip |-> 1]
          ELSE LET was == at[i - 1]
                   bit == IF was.pt < 0 THEN -1 ELSE 1
               IN  [pt |-> was.pt - bit * amp(i - 1), flip |-> -bit]
    IN  [i \in 1 .. n |-> Clamp(at[i].flip * at[i].pt + 128)]

Modulate(bits, rate) ==
    LET n == NumBits(rate)
        a == AxesPerSample(rate)
        axis(x) == QamEncode(SubSeq(bits, n * (x - 1) + 1, n * x))
    IN  [q \in 1 .. Len(bits) \div (n * a) |->
           [x \in 1 .. a |-> axis(a * (q - 1) + x)]]

Demodulate(samples, rate) ==
    LET sample(q) == Concat(AxesPerSample(rate),
                            LAMBDA x : QamDecode(samples[q][x], NumBits(rate)))
    IN  Concat(Len(samples), sample)

-----------------------------------------------------------------------------
(* Subcarriers.  The sender and the receiver keep a table each. *)

ActiveMap == (6 .. 10) \cup (12 .. 24) \cup (26 .. 31) \cup (33 .. 38)
             \cup (40 .. 52) \cup (54 .. 58)
DataSubcarriers == (6 .. 58) \ {11, 25, 32, 39, 53}

Rank(S, c) == Cardinality({d \in S : d <= c})
CarrierOf == [q \in 1 .. 48 |->
                CHOOSE c \in DataSubcarriers : Rank(DataSubcarriers, c) = q]

\* A symbol; its pilots and nulls carry no data.
MapSymbol(samples) ==
    [c \in 0 .. 63 |-> IF c \in ActiveMap THEN samples[Rank(ActiveMap, c)]
                       ELSE << >>]

MapSymbols(samples) ==
    [s \in 1 .. Len(samples) \div 48 |->
       MapSymbol(SubSeq(samples, 48 * (s - 1) + 1, 48 * s))]

DemapSymbol(symbol) == [q \in 1 .. 48 |-> symbol[CarrierOf[q]]]

EncodeBits(bits, rate) ==
    MapSymbols(Modulate(
      Interleave(Puncture(ConvEncode(bits), RateParams[rate].code)), rate))

\* The samples of these subcarriers move to the next point, on every axis.
Hit(symbol, carriers, rate) ==
    LET moved(level) == IF level = 2^NumBits(rate) - 1 THEN level - 2
                        ELSE level + 2
    IN  [c \in 0 .. 63 |->
           IF c \in carriers
           THEN [x \in DOMAIN symbol[c] |-> moved(symbol[c][x])]
           ELSE symbol[c]]

SoftBits(symbols, rate) ==
    Depuncture(Deinterleave(Demodulate(
      Concat(Len(symbols), LAMBDA s : DemapSymbol(symbols[s])), rate)),
      RateParams[rate].code)

-----------------------------------------------------------------------------
(* The Viterbi decoder. *)

States == 0 .. 63
Branchtab ==
    [k \in 1 .. 2 |->
       [s \in 0 .. 31 |-> Odd({d \in Taps[k] : BitAt(2 * s, d) = 1})]]

ViterbiInit == [s \in States |-> IF s = 0 THEN 0 ELSE 63]

BranchCost(s, v) ==
    LET off(k) == IF Branchtab[k][s] = 1 THEN 255 - v[k] ELSE v[k]
    IN  ((off(1) + off(2) + 1) \div 2) \div 4

\* Mutant: a sum that does not fit wraps.
Wrapped(n) == n % 256

Saturated(n) == IF n > 255 THEN 255 ELSE n

\* State s comes from s \div 2 or from the state 32 above it.
CostBelow(s, v) == LET c == BranchCost(s \div 2, v)
                   IN  IF s % 2 = 0 THEN c ELSE 63 - c
FromBelow(m, s, v) == Saturated(m[s \div 2] + CostBelow(s, v))
FromAbove(m, s, v) == Saturated(m[s \div 2 + 32] + 63 - CostBelow(s, v))

Decided(m, v) == {s \in States : FromAbove(m, s, v) <= FromBelow(m, s, v)}

Survivor(m, s, v) ==
    LET a == FromAbove(m, s, v)
        b == FromBelow(m, s, v)
    IN  IF a <= b THEN a ELSE b

Renormalized(m) ==
    IF m[0] > 210
    THEN LET least == CHOOSE x \in {m[s] : s \in States} :
                        \A s \in States : x <= m[s]
         IN  [s \in States |-> m[s] - least]
    ELSE m

\* From state 0 at the end, back over the decisions past the tail.
Chainback(d, n) ==
    LET last[j \in 0 .. n] ==
          IF j = 0 THEN [state |-> 0, bits |-> << >>]
          ELSE LET was == last[j - 1]
                   bit == IF was.state \in d[n - j + 1 + 6] THEN 1 ELSE 0
               IN  [state |-> was.state \div 2 + 32 * bit,
                    bits |-> <<bit>> \o was.bits]
    IN  last[n].bits

Value(bits) ==
    LET upto[i \in 0 .. Len(bits)] ==
          IF i = 0 THEN 0 ELSE 2 * upto[i - 1] + bits[i]
    IN  upto[Len(bits)]

\* The bytes of n decoded bits, descrambled.
Bytes(bits, n) ==
    LET bit(i) == IF i > Len(bits) THEN 0 ELSE bits[i]
    IN  [x \in 0 .. n - 1 |->
           Scrambled(Value([i \in 1 .. 8 |-> bit(8 * x + i)]), x)]

-----------------------------------------------------------------------------
(* The state machine. *)

NoHeader == [rate |-> "none", length |-> 0, num_symbols |-> 0]
\* The header in 18 decoded bits.
HeaderOf(bits) ==
    LET field  == Value(bits) * 2^6
        f      == (field \div 2^19) % 16
        length == (field \div 2^6) % 2^12
    IN  IF Parity(field) = 1 \/ f \notin VALID_RATES THEN NoHeader
        ELSE [rate |-> FromRateField(f), length |-> length,
              num_symbols |-> NumSymbols(FromRateField(f), length)]

Init ==
    /\ frame \in Frames
    /\ air = << >>
    /\ reading = "send"
    /\ noise = {}
    /\ spent = FALSE
    /\ soft = << >>
    /\ metrics = ViterbiInit
    /\ decisions = << >>
    /\ header = NoHeader
    /\ heard = << >>

Send ==
    /\ reading = "send"
    /\ air' = EncodeBits(HeaderBits(frame), "RATE_1_2_BPSK")
              \o EncodeBits(DataBits(frame), frame.rate)
    /\ reading' = "header"
    /\ UNCHANGED <<frame, noise, spent, soft, metrics, decisions, header, heard>>

\* Symbols are received, one of them perhaps with noise, and conv_decode starts.
Receive(symbols, rate) ==
    /\ soft = << >>
    /\ \/ /\ soft' = SoftBits(symbols, rate)
          /\ UNCHANGED <<noise, spent>>
       \/ /\ ~spent
          /\ Burst(rate) > 0
          /\ \E s \in DOMAIN symbols, c \in 0 .. 64 - Burst(rate) :
               LET carriers == c .. c + Burst(rate) - 1 IN
               /\ carriers \cap DataSubcarriers # {}
               /\ noise' = carriers \cap DataSubcarriers
               /\ soft' = SoftBits([symbols EXCEPT ![s] = Hit(@, carriers, rate)],
                                   rate)
          /\ spent' = TRUE
    /\ metrics' = ViterbiInit
    /\ decisions' = << >>
    /\ UNCHANGED <<frame, air, reading, header, heard>>

ReceiveHeader ==
    /\ reading = "header"
    /\ Receive(SubSeq(air, 1, 1), "RATE_1_2_BPSK")

ReceiveData ==
    /\ reading = "data"
    /\ header.num_symbols < Len(air)
    /\ Receive(SubSeq(air, 2, 1 + header.num_symbols), header.rate)

StepsLeft == 2 * Len(decisions) < Len(soft)

TrellisStep ==
    /\ StepsLeft
    /\ LET n == Len(decisions)
           v == <<soft[2 * n + 1], soft[2 * n + 2]>>
       IN  /\ decisions' = Append(decisions, Decided(metrics, v))
           /\ metrics' = Renormalized([s \in States |-> Survivor(metrics, s, v)])
    /\ UNCHANGED <<frame, air, reading, noise, spent, soft, header, heard>>

Decoded ==
    /\ soft # << >> /\ ~StepsLeft
    /\ soft' = << >>
    /\ metrics' = ViterbiInit
    /\ decisions' = << >>
    /\ noise' = {}
    /\ UNCHANGED <<frame, air, spent>>

DecodeHeader ==
    /\ reading = "header"
    /\ Decoded
    /\ header' = HeaderOf(Chainback(decisions, 18))
    /\ reading' = IF header' = NoHeader THEN "done" ELSE "data"
    /\ UNCHANGED heard

\* Up to the checksum, which nothing compares; what is accepted is in Symbols.
DecodeData ==
    /\ reading = "data"
    /\ Decoded
    /\ LET n == DataBitCount(header.rate, header.length)
       IN  heard' = Bytes(Chainback(decisions, n - 6), n \div 8)
    /\ reading' = "done"
    /\ UNCHANGED header

Next ==
    \/ Send \/ ReceiveHeader \/ TrellisStep \/ DecodeHeader
    \/ ReceiveData \/ DecodeData

Spec == Init /\ [][Next]_vars

-----------------------------------------------------------------------------
(* Type invariant.  Soft values and metrics fit the code's bytes, and the  *)
(* decoder reads no further than its soft bits.                            *)
TypeOK ==
    /\ frame \in Frames
    /\ reading \in {"send", "header", "data", "done"}
    /\ spent \in BOOLEAN
    /\ \A i \in DOMAIN soft : soft[i] \in 0 .. 255
    /\ metrics \in [States -> 0 .. 255]
    /\ \A i \in DOMAIN decisions : decisions[i] \subseteq States
    /\ 2 * Len(decisions) <= Len(soft)

(***************************************************************************)
(* The receiver knows how long a frame is before its data comes: through   *)
(* noise on up to five neighbouring subcarriers the header is read as it   *)
(* was sent, and it announces as many symbols as follow it                 *)
(* (ppdu.cpp:81-110, 174-224; interleaver.h:66-75).                      *)
(***************************************************************************)
HeaderHeard ==
    reading \in {"data", "done"} =>
      header = [rate |-> frame.rate, length |-> Len(frame.payload),
                num_symbols |-> Len(air) - 1]

(***************************************************************************)
(* The payload of every frame comes back bit for bit, at every rate without*)
(* noise, and at the rates with noise through a burst as wide as the code  *)
(* of the rate can mend: what the sender's stages spread out the           *)
(* receiver's put together again (ppdu.cpp:112-171, 229-303).              *)
(***************************************************************************)
PayloadHeard ==
    reading = "done" =>
      \A x \in DOMAIN frame.payload :
        x + 1 \in DOMAIN heard /\ heard[x + 1] = frame.payload[x]

(***************************************************************************)
(* A sample that is taken for the next point of its constellation costs    *)
(* one bit on each axis and no more: the constellations are Gray coded in  *)
(* both directions, so noise of one level costs the decoder the fewest     *)
(* bits (qam.h:83-125).                                                    *)
(***************************************************************************)
OneLevelOneBit ==
    soft # << >> /\ decisions = << >> =>
      LET rate  == IF reading = "header" THEN "RATE_1_2_BPSK" ELSE header.rate
          coded == ConvEncode(IF reading = "header" THEN HeaderBits(frame)
                              ELSE DataBits(frame))
          wrong == {i \in DOMAIN soft :
                      /\ soft[i] # Erasure
                      /\ (soft[i] >= 128) # (coded[i] = 1)}
      IN  Cardinality(wrong) = Cardinality(noise) * AxesPerSample(rate)

(***************************************************************************)
(* Without noise the checksum comes back as it was sent (ppdu.h:135-138:   *)
(* decoding succeeds "based on calculating and comparing the IEEE CRC-32   *)
(* appended to the end of the payload").                                   *)
(***************************************************************************)
CrcHeard ==
    reading = "done" /\ ~spent =>
      \A x \in 1 .. 4 : heard[Len(frame.payload) + 1 + x] = frame.crc[x]
=============================================================================
