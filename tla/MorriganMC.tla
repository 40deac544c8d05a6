------------------------------- MODULE MorriganMC -------------------------------
(* An instance of Morrigan for TLC: every stream of a few misses over four     *)
(* pages, which then repeats.  Pages 1 and 5 have the same tag, page 4 has     *)
(* tag 0; the hashes of the history tables tell all contexts apart.            *)
EXTENDS Morrigan

CONSTANTS Period, MaxMisses

MCPages == {1, 2, 4, 5}
MCContinuations(s) ==
  IF Len(s) < Period THEN MCPages
  ELSE IF Len(s) < MaxMisses THEN {s[Len(s) + 1 - Period]} ELSE {}

MCHLen == <<1, 2, 3>>
Fold(c) == FoldFunction(+, 0, [i \in DOMAIN c |-> c[i] * 4^(i - 1)])
MCRow(t, p, c) == (p + Fold(c)) % 3
MCTag(t, p, c) == p + 4 * (Fold(c) \div 3)

MCSlots == <<1, 2, 3>>
MCSets  == <<1, 1, 1>>
MCAssoc == <<2, 1, 1>>
MCHash(p) == p
===============================================================================
