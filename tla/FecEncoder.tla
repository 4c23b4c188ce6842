------------------------------- MODULE FecEncoder ------------------------------
(***************************************************************************)
(* FecEncoder: the generation in the outbox and how much of it has left.   *)
(* The buffer it is made from, full or padded by flush, is in VideoTx; the *)
(* transmitter empties the outbox before it adds anything more.            *)
(***************************************************************************)
EXTENDS FecCommon

VARIABLES gen_id,      \* m_gen_id: the id the next generation gets
          esi          \* the front of m_outbox; K + R when it is empty

encoder == <<gen_id, esi>>

EncoderInit ==
  /\ gen_id = 0
  /\ esi = K + R

\* The generation in the outbox: m_gen_id has been counted up behind it.
Current == (gen_id - 1) % (2 * Half)

\* encode_current_generation, and the count after it.
EncodeGeneration ==
  /\ esi = K + R
  /\ gen_id' = (gen_id + 1) % (2 * Half)
  /\ esi' = 0

NextPacket ==
  /\ esi < K + R
  /\ esi' = esi + 1
  /\ UNCHANGED gen_id
=============================================================================
