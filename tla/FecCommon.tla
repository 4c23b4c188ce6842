------------------------------- MODULE FecCommon -------------------------------
(***************************************************************************)
(* What the two ends of the FEC share (fec_common.h).  The ids of          *)
(* generations are unsigned and wrap at 2 * Half (65536 in the code); a    *)
(* generation is K packets of data and R that mend.                        *)
(***************************************************************************)
EXTENDS Integers

CONSTANTS Half,        \* half the range of a generation id
          K,           \* SOURCE_SYMBOLS_PER_GEN
          R            \* REPAIR_SYMBOLS_PER_GEN

GenId == 0 .. 2 * Half - 1
=============================================================================
