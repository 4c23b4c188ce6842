------------------------------ MODULE MCCodec ------------------------------
(* Small frames for Codec, each with its true CRC-32 (of two zero bytes and *)
(* the payload, lowest byte first).                                         *)
EXTENDS Codec

One(rate) == [rate |-> rate, payload |-> <<165>>, crc |-> <<117, 142, 253, 89>>]
Two(rate) == [rate |-> rate, payload |-> <<0, 255>>, crc |-> <<145, 48, 70, 12>>]

\* A frame at every rate.
EveryRate == {One(r) : r \in DOMAIN RateParams \ {"RATE_3_4_QAM16"}}
             \cup {Two("RATE_3_4_QAM16")}

\* At this rate two bytes leave a tail that matters.
ShortTail == {One("RATE_2_3_BPSK"), Two("RATE_2_3_BPSK")}

\* The rate of the header, the rate of video_tx and the two larger
\* constellations; the widest burst that each of them mends.
SomeNoise(rate) ==
    CASE rate = "RATE_1_2_BPSK"  -> 5
      [] rate = "RATE_1_2_QPSK"  -> 2
      [] rate = "RATE_3_4_QAM16" -> 1
      [] rate = "RATE_2_3_QAM64" -> 1
      [] OTHER -> 0
NoNoise(rate) == 0
=============================================================================
