------------------------------- MODULE MissStream -------------------------------
(* The instruction STLB misses that drive the Morrigan prefetcher: each calls  *)
(* stlb_prefetcher_operate once (src/cache.cc:1057-1062).  The length of the   *)
(* stream is total_istlb_misses and s_timer, its last page is previous_vpn.    *)
EXTENDS Integers, Sequences

CONSTANTS
  Pages,             \* pages of the instruction stream; 0 stands for no page
  TagSpan,           \* 2^TAG_BITS
  Continuations(_)   \* the pages that may miss next, given the misses so far;
                     \* {} ends the simulation (bounds the runs)

ASSUME StreamAssumption ==
  /\ Pages \subseteq Nat \ {0}
  /\ TagSpan \in Nat \ {0}

VARIABLE misses      \* the pages missed so far

(* vpn & TAG_MASK *)
PartialVpn(page) == page % TagSpan

Now          == Len(misses) + 1      \* s_timer during the next call
previous_vpn == misses[Len(misses)]
Delta(page)  == page - previous_vpn

(* The i-th miss went to the page at this distance.                            *)
Observed(i) == misses[i + 1] - misses[i]

StreamInit == misses = <<>>

Miss(page) ==
  /\ page \in Pages \cap Continuations(misses)
  /\ misses' = Append(misses, page)
===============================================================================
