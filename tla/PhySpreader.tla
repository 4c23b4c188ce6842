------------------------------ MODULE PhySpreader ------------------------------
(***************************************************************************)
(* PhySpreader: the block interleaver between the FEC encoder and the      *)
(* radio.  A packet is its generation id and its index in the generation;  *)
(* rows are generations, and a full block of rows is read by columns.      *)
(***************************************************************************)
EXTENDS Integers, Sequences, FiniteSets

CONSTANT Depth   \* m_depth

ASSUME SpreaderAssumption == Depth \in Nat \ {0}

VARIABLES m_rows,   \* records of gen_id and pkts, the indices in it so far
          m_outq    \* packets <<gen_id, esi>>

spreader == <<m_rows, m_outq>>

\* The places of a block, <<column, row>>; a row that is shorter drops out.
Places(rows) == UNION {(DOMAIN rows[r].pkts) \X {r} : r \in DOMAIN rows}

\* Mutant: the block is read row by row.
RowFirst(x, y) == x[2] < y[2] \/ (x[2] = y[2] /\ x[1] < y[1])

ColumnFirst(x, y) == x[1] < y[1] \/ (x[1] = y[1] /\ x[2] < y[2])

\* emit_interleaved: place q is the one with q - 1 places before it.
Interleaved(rows) ==
  LET before(x) == {y \in Places(rows) : ColumnFirst(y, x)}
      place(q) == CHOOSE x \in Places(rows) : Cardinality(before(x)) = q - 1
      packet(x) == <<rows[x[2]].gen_id, rows[x[2]].pkts[x[1]]>>
  IN [q \in 1 .. Cardinality(Places(rows)) |-> packet(place(q))]

Row(g, pkts) == [gen_id |-> g, pkts |-> pkts]

\* Does the packet begin a new row, and is the block behind it full?
NewRow(g) == m_rows = <<>> \/ m_rows[Len(m_rows)].gen_id # g
Emits(g) == NewRow(g) /\ Len(m_rows) >= Depth

Push(g, e) ==
  LET kept == IF Emits(g) THEN <<>> ELSE m_rows IN
  /\ m_outq' = IF Emits(g) THEN m_outq \o Interleaved(m_rows) ELSE m_outq
  /\ m_rows' = IF NewRow(g) THEN Append(kept, Row(g, <<e>>))
               ELSE [m_rows EXCEPT ![Len(m_rows)].pkts = Append(@, e)]

Pop ==
  /\ m_outq # <<>>
  /\ m_outq' = Tail(m_outq)
  /\ UNCHANGED m_rows

\* flush_partial
FlushPartial ==
  /\ m_outq' = m_outq \o Interleaved(m_rows)
  /\ m_rows' = <<>>

SpreaderInit == m_rows = <<>> /\ m_outq = <<>>
=============================================================================
