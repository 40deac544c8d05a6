-------------------------- MODULE CacheHierarchyMC --------------------------
(* Instances of CacheHierarchy for TLC. *)
EXTENDS CacheHierarchy

CONSTANTS lx, la, lb

\* One way in each L1, so that every fill evicts; the L2C read queue is as large
\* as the two L1 MSHRs together (inc/cache.h: 32 for 8 + 16).
MCWays == [c \in Caches |-> IF c = "L2C" THEN 2 ELSE 1]
MCMshr == [c \in Caches |-> IF c = "L1I" THEN 1 ELSE 2]
MCRq == [c \in Caches |-> IF c = "L2C" THEN 3 ELSE 2]
MCWq == [c \in Caches |-> 1]
MCPq == [c \in Caches |-> 1]

\* The smallest caches, for the liveness runs.
MCSmallWays == [c \in Caches |-> 1]
MCSmallMshr == [c \in Caches |-> IF c = "L2C" THEN 2 ELSE 1]
MCSmallRq == [c \in Caches |-> 2]

MCCode == {lx}
MCData == {la, lb}
MCPrefetches == {<<"L1I", lx, 1>>, <<"L1D", la, 1>>, <<"L1D", lb, 2>>, <<"L2C", la, 2>>}

\* A line that holds both instructions and data.
MCShared == {la}
MCSharedPrefetches == {<<"L1D", la, 1>>}
MCNoPrefetch == {}
=============================================================================
