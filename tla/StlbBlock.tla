------------------------------ MODULE StlbBlock ------------------------------
(***************************************************************************)
(* The sectored ("block") second-level TLB of src/cache.cc in its detail    *)
(* and sparsity modes, together with the page table it caches.              *)
(*                                                                          *)
(* One entry holds up to Ptes translations that share a tag; every sector   *)
(* slot carries the offset, within the eight-entry leaf page-table line, of *)
(* the translation it holds.  A lookup (stlb_block_lookup) sets accessed    *)
(* bits, a miss walks (va_to_pa, which may allocate a frame or swap a page  *)
(* out and invalidate it), and a fill (stlb_block_fill) completes the walk  *)
(* some cycles later from whatever the page table then holds.               *)
(***************************************************************************)
EXTENDS Integers, FiniteSets

CONSTANTS
  Pages,     \* virtual page numbers the program touches
  Frames,    \* DRAM_PAGES physical page numbers
  NoFrame,   \* absence of a mapping
  NumSet,    \* STLB_SET
  NumWay,    \* STLB_WAY
  Ptes,      \* STLB_PTES_PER_BLOCK
  Sparsity,  \* TRUE: STLB_BLOCK_SPARSITY, FALSE: STLB_BLOCK_DETAIL
  MshrSize,  \* STLB_MSHR_SIZE
  PqSize,    \* STLB_PQ_SIZE
  Footprints,\* the translation footprints an L2C/LLC line may carry
  MaxStat    \* bound on the statistics counters, for model checking only

ASSUME StlbAssumption ==
  /\ Pages \subseteq Nat
  /\ NumSet \in Nat \ {0}
  /\ NumWay \in Nat \ {0}
  /\ Ptes \in {1, 2, 4, 8}
  /\ Sparsity \in BOOLEAN
  /\ NoFrame \notin Frames
  /\ Footprints \subseteq SUBSET (0..7)

VARIABLES
  pageTable,     \* page_table: the frame of every mapped page
  mshr,          \* pages with an outstanding walk in the STLB's MSHR
  pq,            \* pages with a translation in the STLB prefetch queue
  block,         \* stlb_block[set][way], without its lru field
  lru,           \* stlb_block[set][way].lru
  evictions,     \* stlb_block_evictions
  matrix,        \* stlb_valid_footprint_matrix[valid][footprint]
  prefilledTotal,\* stlb_prefilled_ptes_total / stlb_sparsity_...
  prefilledHit,  \* stlb_prefilled_ptes_hit / stlb_sparsity_...
  phase          \* "warmup", "roi" or "done"

stats == <<evictions, matrix, prefilledTotal, prefilledHit>>
vars == <<pageTable, mshr, pq, block, lru, evictions, matrix, prefilledTotal,
          prefilledHit, phase>>

Sets == 0..(NumSet - 1)
Ways == 0..(NumWay - 1)
Slots == 0..(Ptes - 1)
Offsets == 0..7

Entry == [tag : Nat, valid : SUBSET Slots, accessed : SUBSET Slots,
          prefilled : SUBSET Slots, offset : [Slots -> Offsets],
          pte : [Slots -> Frames \cup {NoFrame}]]

EmptyEntry == [tag |-> 0, valid |-> {}, accessed |-> {}, prefilled |-> {},
               offset |-> [s \in Slots |-> 0], pte |-> [s \in Slots |-> NoFrame]]

Least(S) == CHOOSE x \in S : \A y \in S : x <= y

-----------------------------------------------------------------------------
(* Address decomposition. *)

BlockVpn(v) == v \div Ptes
Offset(v) == v % 8
SetOf(v) == BlockVpn(v) % NumSet

\* lookup_allocated_pte for the eight pages of v's leaf page-table line.
LinePage(v, o) == 8 * (v \div 8) + o
Mapped(v) == v \in Pages /\ pageTable[v] # NoFrame
AllocatedOffsets(v) == {o \in Offsets : Mapped(LinePage(v, o))}

\* The sub-block restriction of the fill loops (only spelled out for 2 and 4).
SameSubBlock(o1, o2) == Ptes \in {2, 4} => (o1 \div Ptes) = (o2 \div Ptes)

-----------------------------------------------------------------------------
(* Lookup: the slots in which stlb_block_lookup would find page v. *)

TagMatch(v, w) == /\ block[SetOf(v)][w].valid # {}
                  /\ block[SetOf(v)][w].tag = BlockVpn(v)

SlotMatch(v, w) == {s \in block[SetOf(v)][w].valid :
                      block[SetOf(v)][w].offset[s] = Offset(v)}

HitWays(v) == {w \in Ways : TagMatch(v, w) /\ SlotMatch(v, w) # {}}
Hits(v) == HitWays(v) # {}

\* What the lookup returns: the first matching slot of the first matching way.
Lookup(v) ==
  IF Hits(v)
  THEN LET w == Least(HitWays(v)) IN block[SetOf(v)][w].pte[Least(SlotMatch(v, w))]
  ELSE NoFrame

\* Variants of Touch: every other way ages, or none does.
TouchAgesAll(row, w) == [x \in Ways |-> IF x = w THEN 0 ELSE row[x] + 1]
TouchAgesNone(row, w) == [row EXCEPT ![w] = 0]

\* Promotion to the front of the LRU stack of a set.
Touch(row, w) == [x \in Ways |-> IF x = w THEN 0
                                 ELSE IF row[x] < row[w] THEN row[x] + 1
                                 ELSE row[x]]

-----------------------------------------------------------------------------
(* Eviction statistics: evict_stlb_block. *)

\* The block histogram after entry e has been evicted.
Counted(m, e) ==
  IF e.accessed = {} THEN m
  ELSE [m EXCEPT ![Cardinality(e.valid)][Cardinality(e.accessed)] = @ + 1]

CountEviction(e) ==
  /\ matrix' = Counted(matrix, e)
  /\ evictions' = evictions + (IF e.accessed = {} THEN 0 ELSE 1)

-----------------------------------------------------------------------------
(* Fill. *)

\* Variant: the search for a resident block is forgotten.
ExistingWaysIgnored(v) == {}

ExistingWays(v) == {w \in Ways : TagMatch(v, w)}
InvalidWays(v) == {w \in Ways : block[SetOf(v)][w].valid = {}}
LruWays(v) == {w \in Ways : lru[SetOf(v)][w] = NumWay - 1}

\* Variant: the most recently used way is the victim.
VictimMru(v) == IF InvalidWays(v) # {} THEN Least(InvalidWays(v))
                ELSE Least({w \in Ways : lru[SetOf(v)][w] = 0})

\* The way of a new block: an invalid one, else the LRU one, else way 0.
VictimWay(v) == IF InvalidWays(v) # {} THEN Least(InvalidWays(v))
                ELSE IF LruWays(v) # {} THEN Least(LruWays(v))
                ELSE 0

\* The translations a new block may take, and the order in which they claim
\* slots: sparsity takes the requested one, then the sub-block's footprint,
\* then left-overs of the whole line; detail the sub-block in address order.
Candidates(v) ==
  IF Sparsity THEN AllocatedOffsets(v)
  ELSE {o \in AllocatedOffsets(v) :
          IF Ptes = 1 THEN o = Offset(v) ELSE SameSubBlock(Offset(v), o)}

Priority(v, fp, o) ==
  IF ~Sparsity \/ o = Offset(v) THEN (IF Sparsity THEN 0 ELSE o)
  ELSE IF o \in fp /\ SameSubBlock(Offset(v), o) THEN 8 + o
  ELSE 16 + o

Rank(v, fp, o) ==
  Cardinality({p \in Candidates(v) : Priority(v, fp, p) < Priority(v, fp, o)})

\* The offset that ends up in slot s of a new block for page v.
Claims(v, fp, s) == {o \in Candidates(v) : Rank(v, fp, o) = s}

NewEntry(v, fp) ==
  LET filled == {s \in Slots : Claims(v, fp, s) # {}}
      off == [s \in Slots |-> IF s \in filled
                              THEN CHOOSE o \in Claims(v, fp, s) : TRUE ELSE 0]
  IN [tag |-> BlockVpn(v),
      valid |-> filled,
      accessed |-> {s \in filled : off[s] = Offset(v)},
      prefilled |-> filled,
      offset |-> off,
      pte |-> [s \in Slots |-> IF s \in filled THEN pageTable[LinePage(v, off[s])]
                               ELSE NoFrame]]

\* The slot that receives the requested translation in a resident block.
TargetSlots(e) ==
  IF e.valid # Slots THEN {Least(Slots \ e.valid)}
  ELSE IF e.accessed # Slots THEN {Least(Slots \ e.accessed)}
  ELSE Slots

InstallInSlot(e, v, t) ==
  [e EXCEPT !.valid = @ \cup {t}, !.accessed = @ \cup {t},
            !.prefilled = @ \cup {t}, !.offset[t] = Offset(v),
            !.pte[t] = pageTable[v]]

\* The footprint used as a filter: LLC first after an LLC or DRAM hit.
FootprintMask(llcFirst, l2, llc) ==
  IF llcFirst THEN (IF llc # {} THEN llc ELSE l2)
  ELSE (IF l2 # {} THEN l2 ELSE llc)

Filters ==
  IF Sparsity
  THEN {FootprintMask(llcFirst, l2, llc) :
          llcFirst \in BOOLEAN, l2 \in Footprints, llc \in Footprints}
  ELSE {{}}

\* stlb_block_fill when the sparsity mode finds the block resident.
FillResident(v) ==
  /\ Sparsity /\ ExistingWays(v) # {}
  /\ LET w == Least(ExistingWays(v))
         e == block[SetOf(v)][w]
     IN /\ IF Mapped(v)
           THEN \E t \in TargetSlots(e) :
                  block' = [block EXCEPT ![SetOf(v)][w] = InstallInSlot(e, v, t)]
           ELSE UNCHANGED block
        /\ prefilledTotal' = prefilledTotal + (IF Mapped(v) THEN 1 ELSE 0)
        /\ lru' = [lru EXCEPT ![SetOf(v)] = Touch(@, w)]
  /\ UNCHANGED <<evictions, matrix, prefilledHit>>

\* stlb_block_fill otherwise; only the replacement of another block is counted.
FillBlock(v) ==
  /\ ~Sparsity \/ ExistingWays(v) = {}
  /\ LET w == IF ExistingWays(v) # {} THEN Least(ExistingWays(v)) ELSE VictimWay(v)
         old == block[SetOf(v)][w]
     IN /\ \E fp \in Filters :
             LET e == NewEntry(v, fp)
             IN /\ block' = [block EXCEPT ![SetOf(v)][w] = e]
                /\ prefilledTotal' = prefilledTotal + Cardinality(e.valid)
        /\ IF old.valid # {} /\ (Sparsity \/ old.tag # BlockVpn(v))
           THEN CountEviction(old)
           ELSE UNCHANGED <<evictions, matrix>>
        /\ lru' = [lru EXCEPT ![SetOf(v)] = Touch(@, w)]
  /\ UNCHANGED prefilledHit

-----------------------------------------------------------------------------
(* Invalidation and the page table. *)

Without(e, slots) == [e EXCEPT !.valid = @ \ slots, !.accessed = @ \ slots,
                               !.prefilled = @ \ slots]

\* stlb_block_invalidate(v): clear v's slot; an emptied entry is "evicted", but
\* its accessed mask has been cleared by then.
\* Variant: the swapped-out page stays in the STLB.
InvalidatesNothing(v) == block

InvalidatedBlocks(v) ==
  [block EXCEPT ![SetOf(v)] =
     [w \in Ways |-> IF TagMatch(v, w) THEN Without(@[w], SlotMatch(v, w)) ELSE @[w]]]

Emptied(v) == {w \in Ways : TagMatch(v, w) /\ SlotMatch(v, w) = block[SetOf(v)][w].valid}

InvalidateBlock(v) ==
  /\ block' = InvalidatedBlocks(v)
  /\ IF Emptied(v) # {}
     THEN CountEviction(InvalidatedBlocks(v)[SetOf(v)][Least(Emptied(v))])
     ELSE UNCHANGED <<evictions, matrix>>

MappedPages == {u \in Pages : pageTable[u] # NoFrame}
\* Variant: the check of inverse_table is forgotten.
AnyFrames == Frames

FreeFrames == {f \in Frames : \A u \in Pages : pageTable[u] # f}

\* va_to_pa: the page is mapped, gets a free frame, or takes the frame of the
\* lowest mapped page (recent_page is never filled, so the search for a not
\* recently used page stops at the first one).
VaToPa(v) ==
  \/ /\ Mapped(v)
     /\ UNCHANGED <<pageTable, block, evictions, matrix>>
  \/ /\ ~Mapped(v) /\ FreeFrames # {}
     /\ \E f \in FreeFrames : pageTable' = [pageTable EXCEPT ![v] = f]
     /\ UNCHANGED <<block, evictions, matrix>>
  \/ /\ ~Mapped(v) /\ FreeFrames = {} /\ MappedPages # {}
     /\ LET victim == Least(MappedPages)
        IN /\ pageTable' = [pageTable EXCEPT ![v] = pageTable[victim],
                                             ![victim] = NoFrame]
           /\ InvalidateBlock(victim)

-----------------------------------------------------------------------------
(* The handlers of the STLB. *)

Init ==
  /\ pageTable = [v \in Pages |-> NoFrame]
  /\ mshr = {} /\ pq = {}
  /\ block = [i \in Sets |-> [w \in Ways |-> EmptyEntry]]
  /\ lru = [i \in Sets |-> [w \in Ways |-> w]]
  /\ evictions = 0
  /\ matrix = [n \in 0..Ptes |-> [m \in 0..Ptes |-> 0]]
  /\ prefilledTotal = 0 /\ prefilledHit = 0
  /\ phase = "warmup"

\* The masks after a lookup of slot s. Variant: the prefilled bit stays.
AccessKeepsPrefilled(e, s) == [e EXCEPT !.accessed = @ \cup {s}]
Access(e, s) == [e EXCEPT !.accessed = @ \cup {s}, !.prefilled = @ \ {s}]

\* handle_read, hit side: check_hit -> stlb_block_lookup.
ReadHit(v) ==
  /\ phase # "done" /\ Hits(v)
  /\ LET w == Least(HitWays(v))
         s == Least(SlotMatch(v, w))
         e == block[SetOf(v)][w]
     IN /\ block' = [block EXCEPT ![SetOf(v)][w] = Access(@, s)]
        /\ prefilledHit' = prefilledHit + (IF s \in e.prefilled THEN 1 ELSE 0)
        /\ lru' = [lru EXCEPT ![SetOf(v)] = Touch(@, w)]
  /\ UNCHANGED <<pageTable, mshr, pq, evictions, matrix, prefilledTotal, phase>>

\* handle_read, miss side: a new MSHR, then a prefetch-queue hit or a walk. Only
\* an instruction miss looks into the prefetch queue.
ReadMiss(v, instruction) ==
  /\ phase # "done" /\ ~Hits(v)
  /\ v \notin mshr /\ Cardinality(mshr) < MshrSize
  /\ mshr' = mshr \cup {v}
  /\ IF instruction /\ v \in pq
     THEN /\ pq' = pq \ {v}
          /\ UNCHANGED <<pageTable, block, evictions, matrix>>
     ELSE VaToPa(v) /\ UNCHANGED pq
  /\ UNCHANGED <<lru, prefilledTotal, prefilledHit, phase>>

\* prefetch_page: a page that is mapped enters the prefetch queue.
PrefetchPage(v) ==
  /\ phase # "done"
  /\ Mapped(v) /\ v \notin pq /\ Cardinality(pq) < PqSize
  /\ pq' = pq \cup {v}
  /\ UNCHANGED <<pageTable, mshr, block, lru, stats, phase>>

\* handle_fill -> fill_cache -> stlb_block_fill.
Fill(v) ==
  /\ phase # "done" /\ v \in mshr
  /\ evictions < MaxStat /\ prefilledTotal < MaxStat
  /\ mshr' = mshr \ {v}
  /\ FillResident(v) \/ FillBlock(v)
  /\ UNCHANGED <<pageTable, pq, phase>>

\* reset_cache_stats at the start of the region of interest.
ResetCacheStats ==
  /\ phase = "warmup" /\ phase' = "roi"
  /\ block' = [i \in Sets |-> [w \in Ways |-> [block[i][w] EXCEPT !.accessed = {}]]]
  /\ evictions' = 0
  /\ matrix' = [n \in 0..Ptes |-> [m \in 0..Ptes |-> 0]]
  /\ UNCHANGED <<pageTable, mshr, pq, lru, prefilledTotal, prefilledHit>>

\* flush_stat_counters, when the simulation ends with knob_flush_on_end.
LiveEntries == {p \in Sets \X Ways : block[p[1]][p[2]].accessed # {}}

FlushStatCounters ==
  /\ phase = "roi" /\ phase' = "done"
  /\ evictions' = evictions + Cardinality(LiveEntries)
  /\ matrix' = [n \in 0..Ptes |-> [m \in 0..Ptes |-> matrix[n][m] +
                  Cardinality({p \in LiveEntries :
                                 /\ Cardinality(block[p[1]][p[2]].valid) = n
                                 /\ Cardinality(block[p[1]][p[2]].accessed) = m})]]
  /\ block' = [i \in Sets |-> [w \in Ways |->
                 IF block[i][w].accessed = {} THEN block[i][w]
                 ELSE [block[i][w] EXCEPT !.accessed = {}, !.prefilled = {}]]]
  /\ UNCHANGED <<pageTable, mshr, pq, lru, prefilledTotal, prefilledHit>>

Next ==
  \/ \E v \in Pages : ReadHit(v)
  \/ \E v \in Pages, instruction \in BOOLEAN : ReadMiss(v, instruction)
  \/ \E v \in Pages : PrefetchPage(v)
  \/ \E v \in Pages : Fill(v)
  \/ ResetCacheStats
  \/ FlushStatCounters

Spec == Init /\ [][Next]_vars

-----------------------------------------------------------------------------
(* Properties. *)

\* Every variable stays in its domain.
TypeOK ==
  /\ pageTable \in [Pages -> Frames \cup {NoFrame}]
  /\ mshr \subseteq Pages /\ pq \subseteq Pages
  /\ block \in [Sets -> [Ways -> Entry]]
  /\ lru \in [Sets -> [Ways -> Ways]]
  /\ evictions \in Nat /\ prefilledTotal \in Nat /\ prefilledHit \in Nat
  /\ matrix \in [0..Ptes -> [0..Ptes -> Nat]]
  /\ phase \in {"warmup", "roi", "done"}

\* The lru fields of a set always form a permutation of 0..NumWay-1, so the scan
\* of stlb_block_fill for lru == NUM_WAY - 1 finds a way and its fallback to way
\* 0 is never taken.
LruPermutation ==
  \A i \in Sets : /\ \A k \in Ways : \E w \in Ways : lru[i][w] = k
                  /\ \A w1, w2 \in Ways : lru[i][w1] = lru[i][w2] => w1 = w2

\* No two valid entries of a set share a tag, the accessed and prefilled bits are
\* kept for valid slots only, and in detail mode no two slots of an entry hold the
\* same translation: whichever misses overlap, a page has one place in the STLB.
OnePlace ==
  \A i \in Sets, w \in Ways :
    LET e == block[i][w] IN
    /\ e.accessed \cup e.prefilled \subseteq e.valid
    /\ \A s, t \in e.valid : ~Sparsity /\ e.offset[s] = e.offset[t] => s = t
    /\ \A x \in Ways : /\ x # w /\ e.valid # {} /\ block[i][x].valid # {}
                       => block[i][x].tag # e.tag

\* Every slot that a lookup could select for a page, whatever the order of fills,
\* in-place replacements, invalidations and swaps before, holds the frame the page
\* table has for it, and the page is mapped: the inductive form of Coherent.
SlotsCoherent ==
  \A v \in Pages, w \in Ways :
    TagMatch(v, w) =>
      \A s \in SlotMatch(v, w) : /\ pageTable[v] # NoFrame
                                 /\ block[SetOf(v)][w].pte[s] = pageTable[v]

\* A hit returns the current translation, whatever fills, in-place slot
\* replacements, invalidations and swaps came before it.
Coherent == \A v \in Pages : Hits(v) => Lookup(v) = pageTable[v]

\* The two-level accounting of prefilled translations: a translation is counted
\* as hit at most once per time it was counted as prefilled.
PrefilledBits == {p \in Sets \X Ways \X Slots : p[3] \in block[p[1]][p[2]].prefilled}
PrefilledAccounting == prefilledHit + Cardinality(PrefilledBits) <= prefilledTotal

\* The sum of a row of the histogram.
Total(row) ==
  LET sum[k \in 0..Ptes] == IF k = 0 THEN row[0] ELSE sum[k - 1] + row[k] IN sum[Ptes]
AllCells(m) == Total([n \in 0..Ptes |-> Total(m[n])])

\* The eviction histogram: every counted eviction is in exactly one cell, and a
\* block never shows more accessed than valid slots, before and after the
\* counters restart at the region of interest.
HistogramConsistent ==
  /\ evictions = AllCells(matrix)
  /\ \A n, m \in 0..Ptes : matrix[n][m] > 0 => 1 <= m /\ m <= n

\* Both: the statistics of evictions and prefills never count anything twice,
\* not even what spans the reset at the region of interest.
StatisticsConsistent == PrefilledAccounting /\ HistogramConsistent

\* Only the least recently used block of a full set is replaced by another.
OnlyLruReplaced ==
  [][\A i \in Sets, w \in Ways :
       /\ block[i][w].valid # {} /\ block'[i][w].valid # {}
       /\ block'[i][w].tag # block[i][w].tag
       => \A x \in Ways \ {w} : lru[i][x] < lru[i][w] /\ block[i][x].valid # {}]_vars

\* Seen from outside, the block STLB is a cache of the page table.
Abstract == INSTANCE TranslationCache WITH
              answer <- [v \in Pages |-> Lookup(v)]
RefinesTranslationCache == Abstract!AbsSpec
=============================================================================
