------------------------------- MODULE PageWalkMC -------------------------------
(* Instances of PageWalk for TLC. *)
EXTENDS PageWalk, TLC

(* Pages 2 and 3 share a leaf line; 4 has upper levels of its own.             *)
MCPages   == {2, 3, 4}
MCPwcSets == [pml4 |-> 1, pdp |-> 2, pd |-> 2]
MCPwcWays == [pml4 |-> 1, pdp |-> 1, pd |-> 1]
SymFrames == Permutations(Frames)
MCWays    == [L1D |-> 1, L2C |-> 1, LLC |-> 2]
===============================================================================
