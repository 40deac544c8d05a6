------------------------------ MODULE PrefetchBuffer ------------------------------
(* What the STLB's prefetch queue promises, whatever its cells do: a small     *)
(* set of translations, at most one per page, each given to at most one miss,  *)
(* that forgets the oldest ones, and those only when it is full.               *)
EXTENDS Integers, FiniteSets

CONSTANT Capacity

VARIABLES
  waiting,   \* records with a page, a frame and the cycle it came (since)
  answers    \* the answers to misses on their way, from here or elsewhere

Init == waiting = {} /\ answers = {}

GivenTo(e) == [page |-> e.page, frame |-> e.frame]

(* One miss: it may take a translation as its answer, then new ones arrive.    *)
Serve(taken) ==
  LET base == waiting \ taken
      new  == waiting' \ base
      lost == base \ waiting'
  IN /\ \A e \in taken : GivenTo(e) \in answers' \ answers
     /\ \A e \in new : \A x \in base \cup new : x.since =< e.since
     /\ \A e \in lost, kept \in base \ lost : e.since =< kept.since
     /\ lost # {} => Cardinality(waiting') = Capacity
     /\ Cardinality(waiting') =< Capacity
     /\ \A x, y \in waiting' : x.page = y.page => x = y

Next == Serve({}) \/ \E e \in waiting : Serve({e})

Spec == Init /\ [][Next]_<<waiting, answers>>
===============================================================================
