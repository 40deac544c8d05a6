-------------------------------- MODULE Morrigan --------------------------------
(* The Morrigan STLB prefetcher with T-IRIP: stlb_prefetcher_operate of        *)
(* prefetcher/morriganPT_tage2.stlb_pref, called on every instruction STLB     *)
(* miss, with the prefetch queue that answers some of them (InstrTlb has the   *)
(* queue in detail; here it is large enough).                                  *)
EXTENDS Tirip, Irip

CONSTANT Warmup     \* misses after which a repeating stream has been learned

VARIABLE queued     \* pages whose translations wait in the STLB prefetch queue

vars == <<misses, tht, history_reg, pend, alloc_since_reset, irip, decay_timer, queued>>

Init == StreamInit /\ TiripInit /\ IripInit /\ queued = {}

(* Only pages that have a frame can be prefetched (va_to_pa_prefetch).         *)
MappedAfter(page) == Range(misses) \cup {page}

Operate(page) ==
  LET answered == page \in queued
      known    == IF answered THEN Rewarded(irip, page) ELSE irip
      issued   == TiripPredicts(page) \cup IripPredicts(known, page, answered)
                  \cup UNION {LineOf(q) : q \in {q \in TiripPredicts(page) : EnablePrefFp}}
  IN /\ Miss(page)
     /\ TiripOperate(page)
     /\ IripOperate(page, answered)
     /\ queued' = (queued \ {page}) \cup (issued \cap MappedAfter(page))

Next == \E page \in Pages : Operate(page)

Spec == Init /\ [][Next]_vars

--------------------------------------------------------------------------------
(* Everything has its type; confidence stays within its limits.                *)
TypeOK ==
  /\ misses \in Seq(Pages)
  /\ TiripTypeOK
  /\ IripTypeOK
  /\ queued \subseteq Pages

(* Every row of a history table has a way for each of its contexts.            *)
ContextsFit ==
  \A t \in Tables, r \in Rows :
    LET here == {i \in HLen[t] + 1 .. Len(misses) :
                   Row(t, PartialVpn(misses[i]), ContextAt(t, i)) = r}
    IN Cardinality({<<misses[i], ContextAt(t, i)>> : i \in here}) =< Cardinality(Ways)

(* A stream that repeats is learned: after Warmup misses the history tables    *)
(* predict every next page, as tools/tage_selftest.cc expects of streams whose *)
(* successors are determined by their context.  Repeats of one page carry no   *)
(* distance to learn, pages with the same tag are one to the tables, and       *)
(* contexts that crowd a row evict each other.                                 *)
Learns ==
  /\ Len(misses) >= Warmup
  /\ \A p, q \in Range(misses) : PartialVpn(p) = PartialVpn(q) => p = q
  /\ ContextsFit
  => \A next \in Continuations(misses) \ {previous_vpn} : pend.pred.delta = Delta(next)
===============================================================================
