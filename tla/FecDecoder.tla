------------------------------ MODULE FecDecoder ------------------------------
(***************************************************************************)
(* FecDecoder: which generations the receive side of the FEC keeps, and    *)
(* how it decides that a packet belongs to the stream.  Every comparison   *)
(* of ids is the code's cast of a difference to a signed integer of their  *)
(* width.                                                                  *)
(*                                                                         *)
(* A symbol is a pair <<esi, source>>: its index in its generation and the *)
(* data the encoder made it from.  RaptorQ is external: it recovers the    *)
(* data of K distinct symbols, keeps the first symbol it sees of an index, *)
(* and cannot tell whether the symbols come from the same source.          *)
(* symbols_seen, which also counts repeated symbols, only decides when the *)
(* decoder is asked; asking it in vain changes nothing, so the count is    *)
(* left out.  Packets of another size or another K are dropped untouched   *)
(* and are no step here.                                                   *)
(***************************************************************************)
EXTENDS FecCommon, FiniteSets

CONSTANTS Window,      \* WINDOW_GENERATIONS
          LargeJump,   \* LARGE_JUMP_GENS
          Confirm,     \* JUMP_CONFIRM_PACKETS
          Reacquire,   \* REACQUIRE_AFTER_OLD
          Esi,         \* the symbol indices of a generation
          Source       \* what generations are made from

ASSUME DecoderAssumption ==
  /\ Half \in Nat /\ Window \in Nat /\ LargeJump \in Nat
  /\ Confirm \in Nat /\ Reacquire \in Nat /\ K \in Nat \ {0}
  /\ 2 <= Window /\ Window <= LargeJump /\ LargeJump + Window < Half
  /\ 1 <= Confirm /\ 1 <= Reacquire

VARIABLES have_baseline, baseline,   \* m_have_baseline, m_baseline_gen
          gens,                      \* the keys of m_gens
          symbols,                   \* the symbols of each undecoded generation
          completed,                 \* the generations with completed set
          jump_candidate, jump_votes, consecutive_old,
          out                        \* the sources of what the last packet decoded

state == <<gens, symbols, completed>>
sync == <<have_baseline, baseline, jump_candidate, jump_votes, consecutive_old>>
decoder == <<have_baseline, baseline, gens, symbols, completed,
             jump_candidate, jump_votes, consecutive_old, out>>

Init ==
  /\ have_baseline = FALSE
  /\ baseline = 0
  /\ gens = {}
  /\ symbols = [g \in GenId |-> {}]
  /\ completed = {}
  /\ jump_candidate = 0
  /\ jump_votes = 0
  /\ consecutive_old = 0
  /\ out = {}

-----------------------------------------------------------------------------
(* Arithmetic on ids *)

\* static_cast<int16_t>(a - b), for ids a and b
Diff(a, b) ==
  LET d == a - b
  IN IF d >= Half THEN d - 2 * Half ELSE IF d < -Half THEN d + 2 * Half ELSE d

\* Mutant: the cast back to uint16_t is missing.
WindowStartPlain(g) == g - (Window - 1)

\* static_cast<uint16_t>(g - (WINDOW_GENERATIONS - 1))
WindowStart(g) ==
  IF g - (Window - 1) < 0 THEN g - (Window - 1) + 2 * Half ELSE g - (Window - 1)

\* Mutant: the baseline moves and nothing is evicted.
NotBehindAll(base) == GenId

\* What set_baseline_evict keeps: nothing that is behind the new baseline.
NotBehind(base) == {g \in GenId : Diff(base, g) <= 0}

-----------------------------------------------------------------------------
(* process_phy_packet *)

\* The baseline the packet is compared with: the first packet sets it.
Base(g) == IF have_baseline THEN baseline ELSE g

\* Mutant: no packet is behind the window.
IsOldNever(g) == FALSE

IsOld(g) == Diff(Base(g), g) > 0
IsFar(g) == ~IsOld(g) /\ ~(Diff(g, Base(g)) \in 0 .. LargeJump)
IsNear(g) == ~IsOld(g) /\ Diff(g, Base(g)) \in 0 .. LargeJump

\* Mutant: the watchdog forgets the generations but keeps its baseline.
ResyncKeepsBaseline ==
  /\ gens' = {}
  /\ symbols' = [g \in GenId |-> {}]
  /\ completed' = {}
  /\ jump_votes' = 0
  /\ consecutive_old' = 0
  /\ UNCHANGED <<have_baseline, baseline, jump_candidate>>

\* resync(): the baseline and the candidate keep their last values, unused.
Resync ==
  /\ gens' = {}
  /\ symbols' = [g \in GenId |-> {}]
  /\ completed' = {}
  /\ have_baseline' = FALSE
  /\ jump_votes' = 0
  /\ consecutive_old' = 0
  /\ UNCHANGED <<baseline, jump_candidate>>

\* A packet behind the window is dropped and counted; enough of them in a run
\* make the decoder start over with the next packet.
DropOld(g) ==
  /\ IsOld(g)
  /\ IF consecutive_old + 1 >= Reacquire
       THEN Resync
       ELSE /\ consecutive_old' = consecutive_old + 1
            /\ UNCHANGED <<state, have_baseline, baseline, jump_candidate, jump_votes>>
  /\ out' = {}

\* Does a far packet agree with the candidate, and where that leaves the vote.
Agrees(g) == jump_votes > 0 /\ Diff(g, jump_candidate) \in -Window .. Window

\* Mutant: the old code, which believed a single packet.
VotesTrusting(g) == Confirm

Votes(g) == IF Agrees(g) THEN jump_votes + 1 ELSE 1

\* Too few agree: the packet is dropped, not ingested.
Quarantine(g) ==
  /\ IsFar(g)
  /\ Votes(g) < Confirm
  /\ jump_votes' = Votes(g)
  /\ jump_candidate' = IF Agrees(g) THEN jump_candidate ELSE g
  /\ UNCHANGED <<state, have_baseline, baseline, consecutive_old>>
  /\ out' = {}

\* add_symbol: RaptorQ keeps the first symbol of an index.
WithSymbol(set, e, s) == IF \E y \in set : y[1] = e THEN set ELSE set \cup {<<e, s>>}

\* Mutant: one symbol more is waited for than the code rate needs.
DecodesLate(set) == Cardinality({y[1] : y \in set}) > K

\* attempt_decode succeeds on K symbols of different indices.
Decodes(set) == Cardinality({y[1] : y \in set}) >= K

\* The tail of process_phy_packet: the packet enters its generation, created
\* if it is new, may complete it, and pulls the window forward.  `kept` are
\* the generations there are, `base` the baseline, when it starts.
Ingest(g, e, s, kept, base) ==
  /\ consecutive_old' = 0
  /\ have_baseline' = TRUE
  /\ IF g \in kept \cap completed
       THEN /\ gens' = kept
            /\ completed' = completed \cap kept
            /\ symbols' = [k \in GenId |-> IF k \in kept THEN symbols[k] ELSE {}]
            /\ baseline' = base
            /\ out' = {}
       ELSE LET syms == WithSymbol(IF g \in kept THEN symbols[g] ELSE {}, e, s)
                floor == IF Diff(g, base) >= Window THEN WindowStart(g) ELSE base
                left == IF floor = base THEN kept \cup {g}
                                        ELSE (kept \cup {g}) \cap NotBehind(floor)
            IN /\ gens' = left
               /\ completed' = (completed \cap left) \cup (IF Decodes(syms) THEN {g} ELSE {})
               /\ symbols' = [k \in GenId |->
                                IF k = g THEN (IF Decodes(syms) THEN {} ELSE syms)
                                ELSE IF k \in left THEN symbols[k] ELSE {}]
               /\ baseline' = floor
               /\ out' = IF Decodes(syms) THEN {y[2] : y \in syms} ELSE {}

\* A packet in or a little ahead of the window.
Accept(g, e, s) ==
  /\ IsNear(g)
  /\ Ingest(g, e, s, gens, Base(g))
  /\ UNCHANGED <<jump_candidate, jump_votes>>

\* A far packet that enough others agreed with: the window moves there first.
Believe(g, e, s) ==
  /\ IsFar(g)
  /\ Votes(g) >= Confirm
  /\ jump_votes' = 0
  /\ jump_candidate' = IF Agrees(g) THEN jump_candidate ELSE g
  /\ Ingest(g, e, s, gens \cap NotBehind(WindowStart(g)), WindowStart(g))

Packet(g, e, s) ==
  DropOld(g) \/ Quarantine(g) \/ Accept(g, e, s) \/ Believe(g, e, s)

\* Any packet may come next: nothing is assumed of the radio.
Next == \E g \in GenId, e \in Esi, s \in Source : Packet(g, e, s)

Spec == Init /\ [][Next]_decoder

-----------------------------------------------------------------------------
(* Properties *)

\* Type invariant.  The ids stay in range through the casts, only generations
\* in m_gens are completed, and votes and old packets stay below what they
\* trigger at (fec_decoder.h:83-116, 200-237).
DecoderTypeOK ==
  /\ have_baseline \in BOOLEAN
  /\ baseline \in GenId
  /\ gens \in SUBSET GenId
  /\ symbols \in [GenId -> SUBSET (Esi \X Source)]
  /\ completed \in SUBSET gens
  /\ jump_candidate \in GenId
  /\ jump_votes \in 0 .. Confirm - 1
  /\ consecutive_old \in 0 .. Reacquire - 1
  /\ out \in SUBSET Source

\* Whatever arrives, wraps or is corrupted, decoder state exists for at most
\* the Window generations that start at the baseline, and for none before one
\* is set: no id, however wild, makes m_gens grow or outlive the window.
WindowBound ==
  \A g \in gens : have_baseline /\ Diff(g, baseline) \in 0 .. Window - 1

\* The window never moves back, and never forgets a generation it still
\* covers; only the watchdog, which drops the baseline too, starts over.
NeverBack ==
  [][have_baseline /\ have_baseline' =>
       /\ Diff(baseline', baseline) >= 0
       /\ \A g \in gens \ gens' : Diff(g, baseline') < 0]_decoder
=============================================================================
