----------------------------- MODULE StlbBlockMC -----------------------------
(* Instances of StlbBlock for TLC. *)
EXTENDS StlbBlock, TLC

CONSTANTS f1, f2, f3

\* Pages of one leaf page-table line, in three sub-blocks of two one of which has
\* two pages: three blocks compete for two ways, and four pages for three frames.
MCPages == {1, 2, 3, 6}
MCFrames == {f1, f2, f3}
MCFootprints == {{}, {3}, {1, 6}}
Symmetry == Permutations(MCFrames)

\* Two sub-blocks of four.
MCTwoBlocks == {1, 2, 3, 4, 6}
=============================================================================
