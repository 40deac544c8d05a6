-------------------------------- MODULE PageWalk --------------------------------
(* Page walks (va_to_pa and mmu_cache_prefetch_search, src/main.cc): the page  *)
(* table, the page-walk caches (src/cache.cc:143-254), the four levels looked  *)
(* up through L1D, L2C and LLC, the lines a walk fills into them, and the      *)
(* footprints it leaves there (record_footprint_on_eviction,                   *)
(* mark_translation_access).  A walk is one call and one step.                 *)
(*                                                                             *)
(* The caches have one set each and any replacement; data lines come and go.   *)
(* The DRAM read of a line no cache holds is PtwRead of DramController.        *)
EXTENDS Integers, FiniteSets, Sequences, SequencesExt

CONSTANTS
  Pages,            \* virtual page numbers
  Frames,           \* DRAM_PAGES physical frames
  TableSize,        \* entries of a table (512)
  LineEntries,      \* entries of a cache line (8)
  PwcSets, PwcWays, \* geometry of the PML4, PDP and PD caches
  Ways,             \* ways of L1D, L2C and LLC
  Garbage,          \* what uninitialised variables may hold
  PtwStartLevels,   \* configurations: 1, walks start in the L1D, 2: in the L2C
  MaxWalks          \* bound of mmu_timer

Caches    == {"L1D", "L2C", "LLC"}
PwcLevels == {"pml4", "pdp", "pd"}
Levels    == PwcLevels \cup {"pt"}

ASSUME PageWalkAssumption ==
  /\ Pages \cup Garbage \subseteq Nat /\ IsFiniteSet(Frames) /\ Frames # {}
  /\ {TableSize, LineEntries, MaxWalks} \subseteq Nat \ {0}
  /\ PwcSets \in [PwcLevels -> Nat \ {0}] /\ PwcWays \in [PwcLevels -> Nat \ {0}]
  /\ Ways \in [Caches -> Nat \ {0}]
  /\ PtwStartLevels \subseteq {1, 2}

VARIABLES
  pageTable,   \* page_table: mapped pages to frames
  pwc,         \* PML4, PDP and PD caches: position to tag and time stamp
  mmu_timer,
  mem,         \* the blocks of the caches and their footprint histograms
  roi,         \* the statistics have been reset
  PTW_START_LEVEL,  \* the configuration
  lastUse      \* history: the last walk that used a tag, per level

vars == <<pageTable, pwc, mmu_timer, mem, roi, PTW_START_LEVEL, lastUse>>

--------------------------------------------------------------------------------
(* Radix tree: the entry of a page in all tables of a level, which is also the *)
(* tag in the page-walk cache, and the line and place in it that hold it.      *)
Span == [pml4 |-> TableSize * TableSize * TableSize, pdp |-> TableSize * TableSize,
         pd |-> TableSize, pt |-> 1]
Entry(level, page) == page \div Span[level]
Line(level, page)  == <<level, Entry(level, page) \div LineEntries>>
Offset(page)       == page % LineEntries
DataLine(frame)    == <<"data", frame>>

--------------------------------------------------------------------------------
(* Page-walk caches *)
Positions(k)  == (0 .. PwcSets[k] - 1) \X (0 .. PwcWays[k] - 1)

(* lru_pd looks at one set only, the other two at their whole arrays.          *)
Group(k, tag) == {p \in Positions(k) : k = "pd" => p[1] = tag % PwcSets[k]}

(* search_*: every set is searched; tag 0 is what the arrays start with.       *)
Hit(k, tag) == \E p \in Positions(k) : pwc[k][p].tag = tag

Before(p, q) == p[1] < q[1] \/ (p[1] = q[1] /\ p[2] =< q[2])
FirstOf(S)   == CHOOSE p \in S : \A q \in S : Before(p, q)

TouchKeepsStamp(k, tag) ==       \* variant: a hit does not renew the time stamp
  LET group  == Group(k, tag)
      same   == {p \in group : pwc[k][p].tag = tag}
      oldest == {p \in group : \A q \in group : pwc[k][p].lru =< pwc[k][q].lru}
  IN IF same # {} THEN pwc[k]
     ELSE [pwc[k] EXCEPT ![FirstOf(oldest)] = [tag |-> tag, lru |-> mmu_timer']]

(* lru_*: a tag that is there gets the time stamp, else the oldest goes.       *)
Touch(k, tag) ==
  LET group  == Group(k, tag)
      same   == {p \in group : pwc[k][p].tag = tag}
      oldest == {p \in group : \A q \in group : pwc[k][p].lru =< pwc[k][q].lru}
  IN [pwc[k] EXCEPT ![FirstOf(IF same # {} THEN same ELSE oldest)] =
        [tag |-> tag, lru |-> mmu_timer']]

UsePwc(tags) ==
  /\ mmu_timer < MaxWalks
  /\ mmu_timer' = mmu_timer + 1
  /\ pwc' = [k \in PwcLevels |-> Touch(k, tags[k])]
  /\ lastUse' = [k \in PwcLevels |-> [lastUse[k] EXCEPT ![tags[k]] = mmu_timer']]

--------------------------------------------------------------------------------
(* Blocks and footprints.  seen is history: the entries whose translations     *)
(* were walked for since the block was filled or the statistics reset.         *)
NoLine     == <<>>
NoLevel    == "none"
EmptyBlock == [line |-> NoLine, ptw_level |-> NoLevel, footprint |-> {}, seen |-> {}]

Holding(m, c, line) == {w \in DOMAIN m.cache[c] : m.cache[c][w].line = line}

OverwriteUnrecorded(m, c, w, line) ==   \* variant: the victim is not recorded
  [m EXCEPT !.cache[c][w] = [EmptyBlock EXCEPT !.line = line]]

(* record_footprint_on_eviction, then the block is another's or invalid.       *)
Overwrite(m, c, w, line) ==
  LET entries == Cardinality(m.cache[c][w].footprint)
  IN [m EXCEPT !.cache[c][w] = [EmptyBlock EXCEPT !.line = line],
               !.footprint[c] = [n \in DOMAIN @ |-> IF n = entries THEN @[n] + 1 ELSE @[n]]]

MarkEveryLevel(m, c, w, level, offset) ==   \* variant: upper levels count too
  [m EXCEPT !.cache[c][w] = [@ EXCEPT !.ptw_level = level,
                                      !.footprint = @ \cup {offset}],
            !.begun[c] = IF m.cache[c][w].footprint = {} THEN @ + 1 ELSE @]

(* mark_translation_access: only the leaf level leaves a footprint.  begun is  *)
(* history: footprints that have become non-empty.                             *)
Mark(m, c, w, level, offset) ==
  LET b == m.cache[c][w]
      reached == [b EXCEPT !.ptw_level = level]
  IN IF level # "pt" THEN [m EXCEPT !.cache[c][w] = reached]
     ELSE [m EXCEPT !.cache[c][w] = [reached EXCEPT !.footprint = @ \cup {offset}],
                    !.begun[c] = IF b.footprint = {} THEN @ + 1 ELSE @]

(* find_victim: an invalid way first, else any.                                *)
Victims(m, c) ==
  LET invalid == Holding(m, c, NoLine)
  IN IF invalid = {} THEN DOMAIN m.cache[c] ELSE {Min(invalid)}

Allocate(m, c, level, page) ==
  {Mark(Overwrite(m, c, w, Line(level, page)), c, w, level, Offset(page)) : w \in Victims(m, c)}

--------------------------------------------------------------------------------
(* One level of a walk *)
First    == IF PTW_START_LEVEL = 1 THEN "L1D" ELSE "L2C"
Searched == {First, "L2C", "LLC"}
Nearer   == [L1D |-> {}, L2C |-> {"L1D"}, LLC |-> {"L1D", "L2C"}]

(* The caches that miss before the first hit, and the one that hits.  The leaf *)
(* is filled into the L1D wherever the search starts.                          *)
Missed(m, line) ==
  {c \in Searched : \A d \in Searched \cap (Nearer[c] \cup {c}) : Holding(m, d, line) = {}}
Hits(m, line) ==
  {c \in Searched \ Missed(m, line) : Searched \cap Nearer[c] \subseteq Missed(m, line)}
Filled(m, level, page) ==
  LET missed == Missed(m, Line(level, page))
  IN IF level = "pt" /\ PTW_START_LEVEL # 1 THEN missed \cup {"L1D"} ELSE missed

MarkHit(m, level, page) ==
  LET line == Line(level, page)
  IN IF Hits(m, line) = {} THEN {m}
     ELSE {Mark(m, c, Min(Holding(m, c, line)), level, Offset(page)) : c \in Hits(m, line)}

(* History: every copy of the leaf's line has seen the walk. *)
See(m, level, page) ==
  LET Shown(b) == IF b.line = Line(level, page) THEN [b EXCEPT !.seen = @ \cup {Offset(page)}]
                  ELSE b
  IN IF level # "pt" THEN m
     ELSE [m EXCEPT !.cache = [c \in Caches |-> [w \in 1 .. Ways[c] |-> Shown(m.cache[c][w])]]]

(* The outcomes of a level: the hit is marked and, unless the walk is magic,   *)
(* the caches that missed get the line.                                        *)
Fill(M, c, fills, level, page) ==
  IF c \in fills THEN UNION {Allocate(m, c, level, page) : m \in M} ELSE M
LookUp(m, level, page, magic) ==
  LET fills == IF magic THEN {} ELSE Filled(m, level, page)
      l1d   == Fill(MarkHit(m, level, page), "L1D", fills, level, page)
      l2c   == Fill(l1d, "L2C", fills, level, page)
      llc   == Fill(l2c, "LLC", fills, level, page)
  IN {See(n, level, page) : n \in llc}

(* A walk looks up the levels that no page-walk cache hits - each on its own   *)
(* account - and always the leaf.                                              *)
WalkLevel(M, level, page, tags, magic) ==
  IF level # "pt" /\ Hit(level, tags[level]) THEN M
  ELSE UNION {LookUp(m, level, page, magic) : m \in M}
WalkOutcomes(page, tags, magic) ==
  LET pml4 == WalkLevel({mem}, "pml4", page, tags, magic)
      pdp  == WalkLevel(pml4, "pdp", page, tags, magic)
      pd   == WalkLevel(pdp, "pd", page, tags, magic)
  IN WalkLevel(pd, "pt", page, tags, magic)

--------------------------------------------------------------------------------
(* va_to_pa *)
Tags(page) == [k \in PwcLevels |-> Entry(k, page)]
MapTo(page, frame) ==
  [p \in DOMAIN pageTable \cup {page} |-> IF p = page THEN frame ELSE pageTable[p]]
FreeFrames == Frames \ Range(pageTable)

(* The frame's line is dropped from every cache that holds it. *)
Dropped(m, c, line) ==
  IF Holding(m, c, line) = {} THEN m ELSE Overwrite(m, c, Min(Holding(m, c, line)), NoLine)
Invalidated(line) == Dropped(Dropped(Dropped(mem, "L1D", line), "L2C", line), "LLC", line)

(* Mapped or mapped now: the walk takes place.  magic walks - the code         *)
(* prefetcher's - fill nothing.                                                *)
Walk(page, magic) ==
  /\ UsePwc(Tags(page))
  /\ \/ page \in DOMAIN pageTable /\ UNCHANGED pageTable
     \/ /\ page \notin DOMAIN pageTable
        /\ \E frame \in FreeFrames : pageTable' = MapTo(page, frame)
  /\ mem' \in WalkOutcomes(page, Tags(page), magic)
  /\ UNCHANGED <<roi, PTW_START_LEVEL>>

(* No frame is free: the lowest mapped page loses its frame, and there is a    *)
(* stall in place of the walk.                                                 *)
Swap(page) ==
  LET victim == Min(DOMAIN pageTable)
      frame  == pageTable[victim]
  IN
  /\ page \notin DOMAIN pageTable /\ FreeFrames = {}
  /\ UsePwc(Tags(page))
  /\ pageTable' = [p \in (DOMAIN pageTable \ {victim}) \cup {page} |->
                     IF p = page THEN frame ELSE pageTable[p]]
  /\ mem' = Invalidated(DataLine(frame))
  /\ UNCHANGED <<roi, PTW_START_LEVEL>>

(* mmu_cache_prefetch_search, for a mapped page: compare_pml4, compare_pdp and *)
(* compare_pd are never assigned, so the page-walk caches are searched for and *)
(* updated with any values.  Nothing is filled.                                *)
UsableTags == Garbage \cup {Entry(k, page) : k \in PwcLevels, page \in Pages}
PrefetchWalk(page) ==
  /\ page \in DOMAIN pageTable
  /\ \E tags \in [PwcLevels -> Garbage] :
       /\ UsePwc(tags)
       /\ mem' \in WalkOutcomes(page, tags, TRUE)
  /\ UNCHANGED <<pageTable, roi, PTW_START_LEVEL>>

(* A data line is filled into a cache (module CacheHierarchy). *)
DataFill(c) ==
  /\ \E frame \in Range(pageTable) :
       /\ Holding(mem, c, DataLine(frame)) = {}
       /\ \E w \in Victims(mem, c) : mem' = Overwrite(mem, c, w, DataLine(frame))
  /\ UNCHANGED <<pageTable, pwc, mmu_timer, roi, PTW_START_LEVEL, lastUse>>

(* reset_cache_stats of every cache at the start of the region of interest.    *)
StatsReset ==
  [cache |-> [c \in Caches |-> [w \in 1 .. Ways[c] |->
                [EmptyBlock EXCEPT !.line = mem.cache[c][w].line]]],
   footprint |-> [c \in Caches |-> [n \in 1 .. LineEntries |-> 0]],
   begun |-> [c \in Caches |-> 0]]

ResetCacheStats ==
  /\ ~roi /\ roi' = TRUE
  /\ mem' = StatsReset
  /\ UNCHANGED <<pageTable, pwc, mmu_timer, PTW_START_LEVEL, lastUse>>

--------------------------------------------------------------------------------
Init ==
  /\ pageTable = <<>>
  /\ pwc = [k \in PwcLevels |-> [p \in Positions(k) |-> [tag |-> 0, lru |-> 0]]]
  /\ mmu_timer = 0
  /\ mem = [cache |-> [c \in Caches |-> [w \in 1 .. Ways[c] |-> EmptyBlock]],
            footprint |-> [c \in Caches |-> [n \in 1 .. LineEntries |-> 0]],
            begun |-> [c \in Caches |-> 0]]
  /\ roi = FALSE
  /\ PTW_START_LEVEL \in PtwStartLevels
  /\ lastUse = [k \in PwcLevels |-> [t \in UsableTags |-> 0]]

Next ==
  \/ \E page \in Pages, magic \in BOOLEAN : Walk(page, magic)
  \/ \E page \in Pages : Swap(page)
  \/ \E page \in Pages : PrefetchWalk(page)
  \/ \E c \in Caches : DataFill(c)
  \/ ResetCacheStats

Spec == Init /\ [][Next]_vars

--------------------------------------------------------------------------------
(* Properties *)

BlockType ==
  [line : {NoLine} \cup {Line(level, page) : level \in Levels, page \in Pages}
                   \cup {DataLine(frame) : frame \in Frames},
   ptw_level : {NoLevel} \cup Levels, footprint : SUBSET (0 .. LineEntries - 1),
   seen : SUBSET (0 .. LineEntries - 1)]

(* Every variable has its type; the page table is injective; and "upper-level  *)
(* radix entries must not contribute to translation footprint"                 *)
(* (mark_translation_access): only leaf lines have one.                        *)
TypeOK ==
  /\ DOMAIN pageTable \subseteq Pages /\ Range(pageTable) \subseteq Frames
  /\ PTW_START_LEVEL \in PtwStartLevels
  /\ \A p, q \in DOMAIN pageTable : pageTable[p] = pageTable[q] => p = q
  /\ \A k \in PwcLevels : pwc[k] \in [Positions(k) -> [tag : UsableTags \cup {0}, lru : 0 .. mmu_timer]]
  /\ \A c \in Caches : mem.cache[c] \in [1 .. Ways[c] -> BlockType]
  /\ \A c \in Caches : \A w \in 1 .. Ways[c] :
       LET b == mem.cache[c][w] IN b.footprint # {} => b.ptw_level = "pt" /\ b.line[1] = "pt"

(* A page-walk cache holds the tags its group used most recently: the stamp of *)
(* an entry is the last use of its tag, no tag occupies two used entries, and  *)
(* a tag that is no longer there was used before all that are.                 *)
PwcIsLru ==
  \A k \in PwcLevels :
    LET used == {p \in Positions(k) : pwc[k][p].lru > 0} IN
    /\ \A p \in used : pwc[k][p].lru = lastUse[k][pwc[k][p].tag]
    /\ \A p, q \in used : pwc[k][p].tag = pwc[k][q].tag => p = q
    /\ \A t \in UsableTags :
         lastUse[k][t] > 0 /\ (\A p \in used : pwc[k][p].tag # t)
         => \A p \in Group(k, t) : pwc[k][p].lru > lastUse[k][t]

(* "When the block is evicted or invalidated, each non-empty mask increments   *)
(* the histogram" (README.md): a footprint that was begun is either still in   *)
(* its block or counted exactly once, across fills, swaps and the reset.       *)
Total(histogram) ==
  LET sum[n \in 0 .. LineEntries] == IF n = 0 THEN 0 ELSE sum[n - 1] + histogram[n]
  IN sum[LineEntries]
FootprintConserved ==
  \A c \in Caches :
    mem.begun[c] = Total(mem.footprint[c]) +
                   Cardinality({w \in 1 .. Ways[c] : mem.cache[c][w].footprint # {}})

(* The cache a walk starts in sees every walk: the footprint of a line there   *)
(* is exactly the set of entries walked for since the line came in.            *)
FirstCacheAccumulates ==
  \A w \in 1 .. Ways[First] :
    LET b == mem.cache[First][w] IN b.footprint = b.seen

(* Both: footprints of page-table lines are complete and counted once.         *)
FootprintsExact == FootprintConserved /\ FirstCacheAccumulates
===============================================================================
