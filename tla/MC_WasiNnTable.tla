--------------------------- MODULE MC_WasiNnTable ---------------------------
(***************************************************************************)
(* Model-checking instance of WasiNnTable: two graphs the host may insert, *)
(* a 2-bit key counter (standing for u32) and enough inserts to pass its   *)
(* maximum.                                                                *)
(***************************************************************************)
EXTENDS WasiNnTable

CONSTANTS g1, g2

MC_Values == {g1, g2}
=============================================================================
