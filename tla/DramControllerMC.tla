-------------------------- MODULE DramControllerMC --------------------------
(* Instances of DramController for TLC. *)
EXTENDS DramController, TLC

CONSTANTS a1, a2, a3, p1, b1, b2

MCBanks == {b1, b2}
MCData == {a1, a2, a3}
MCPtw == {p1}
\* a1 and a2 conflict in a bank, a1 and p1 share a row.
MCBankOf == (a1 :> b1) @@ (a2 :> b1) @@ (a3 :> b2) @@ (p1 :> b1)
MCRowOf == (a1 :> 0) @@ (a2 :> 1) @@ (a3 :> 0) @@ (p1 :> 0)

\* The walker reads a line that is also ordinary data: nothing keeps the random
\* frames of va_to_pa out of the page-table region.
MCShared == {a1}
=============================================================================
