------------------------------- MODULE InstrTlbMC -------------------------------
(* An instance of InstrTlb for TLC: three pages of two lines, one of which is  *)
(* read as data too, for two frames.                                           *)
EXTENDS InstrTlb

MCPagesOf == [side \in Sides |-> IF side = "I" THEN {2, 3, 4} ELSE {3}]
===============================================================================
