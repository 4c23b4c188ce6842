------------------------------ MODULE SpreadLink ------------------------------
(***************************************************************************)
(* SpreadLink: FecEncoder, PhySpreader, a radio that fades, and FecDecoder.*)
(* The sender follows the usage in phy_spreader.h:37-41: packets of the    *)
(* encoder are pushed, what the spreader has ready is sent before more is  *)
(* pushed, and on idle, with the encoder flushed, it is flushed too.       *)
(*                                                                         *)
(* A fade loses a run of packets, and the next comes a whole block after   *)
(* it.  The radio may also hand up packets that nobody sent (decode_data   *)
(* does not compare the checksum), with any id at all; what fades cost is  *)
(* asked only of behaviours without them.                                  *)
(***************************************************************************)
EXTENDS FecDecoder, FecEncoder, PhySpreader

CONSTANTS Data,       \* what all symbols are made from (FecLink tells them apart)
          MaxFade,    \* bound: packets lost in a row
          MaxWild     \* bound: packets that nobody sent

ASSUME SpreadAssumption ==
  /\ Esi = 0 .. K + R - 1
  /\ Data \in Source
  /\ R \in Nat /\ MaxFade \in Nat /\ MaxWild \in Nat

Block == Depth * (K + R)

VARIABLES fade,       \* packets the present fade has lost
          quiet,      \* packets since the last fade, up to Block
          wild,       \* packets handed up that nobody sent
          block,      \* history: the generations in the block on the air,
                      \* if it began in the reach of the decoder
          lost,       \* history: packets of it that were lost
          delivered   \* history: generations of it that were delivered

air == <<fade, quiet, wild>>
account == <<block, lost, delivered>>
spreadVars == <<decoder, encoder, spreader, air, account>>

SpreadInit ==
  /\ Init
  /\ EncoderInit
  /\ SpreaderInit
  /\ fade = 0 /\ quiet = Block /\ wild = 0
  /\ block = {} /\ lost = 0 /\ delivered = {}

-----------------------------------------------------------------------------
(* The sender *)

\* A generation is full, or the encoder's flush has padded it.
Fill ==
  /\ m_outq = <<>>
  /\ EncodeGeneration
  /\ UNCHANGED <<decoder, spreader, air, account>>

\* The block that goes on the air now.
Begin ==
  LET gs == {m_rows[r].gen_id : r \in DOMAIN m_rows}
      joined == have_baseline /\ \A g \in gs : Diff(g, baseline) \in 0 .. LargeJump
  IN
  /\ block' = IF joined /\ wild = 0 THEN gs ELSE {}
  /\ lost' = 0
  /\ delivered' = {}

PushNext ==
  /\ m_outq = <<>>
  /\ NextPacket
  /\ Push(Current, esi)
  /\ IF Emits(Current) THEN Begin ELSE UNCHANGED account
  /\ UNCHANGED <<decoder, air>>

Idle ==
  /\ esi = K + R
  /\ m_outq = <<>>
  /\ m_rows # <<>>
  /\ FlushPartial
  /\ Begin
  /\ UNCHANGED <<decoder, encoder, air>>

-----------------------------------------------------------------------------
(* The radio *)

Least(a, b) == IF a < b THEN a ELSE b

Hear ==
  /\ Pop
  /\ Packet(Head(m_outq)[1], Head(m_outq)[2], Data)
  /\ fade' = 0
  /\ quiet' = Least(Block, quiet + 1)
  /\ delivered' = IF out' # {} THEN block \cap (delivered \cup {Head(m_outq)[1]})
                                ELSE delivered
  /\ UNCHANGED <<encoder, wild, block, lost>>

Fade ==
  /\ Pop
  /\ wild = 0
  /\ fade < MaxFade
  /\ fade = 0 => quiet = Block
  /\ fade' = fade + 1
  /\ quiet' = 0
  /\ lost' = lost + 1
  /\ UNCHANGED <<decoder, encoder, wild, block, delivered>>

Wild ==
  /\ wild < MaxWild
  /\ quiet = Block
  /\ wild' = wild + 1
  /\ \E g \in GenId, e \in Esi : Packet(g, e, Data)
  /\ block' = {} /\ lost' = 0 /\ delivered' = {}
  /\ UNCHANGED <<encoder, spreader, fade, quiet>>

SpreadNext == Fill \/ PushNext \/ Idle \/ Hear \/ Fade \/ Wild

SpreadSpec == SpreadInit /\ [][SpreadNext]_spreadVars

-----------------------------------------------------------------------------
(* Properties *)

\* A fade of up to R packets for each row of a block costs nothing: when the
\* block is sent, every generation of it was delivered.  It takes a decoder
\* that had its baseline before the block; one that starts inside it takes the
\* first generation it hears for the oldest (phy_spreader.h:66-77, 119-128).
FadeMended ==
  m_outq = <<>> /\ lost <= R * Cardinality(block)
    => block \subseteq delivered
=============================================================================
