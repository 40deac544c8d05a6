-------------------------------- MODULE InstrTlb --------------------------------
(* Address translation end to end: the first-level TLBs of instructions and    *)
(* data, the STLB they share (CACHE with cache_type IS_ITLB, IS_DTLB, IS_STLB, *)
(* in the STLB mode ANALYSIS), the STLB prefetch queue and the free-distance   *)
(* table fctb that answer instruction misses, and the page table behind them,  *)
(* which takes frames away from pages when there are no free ones (va_to_pa).  *)
(* The handlers of one cycle run in any order; a fill waits any time.          *)
EXTENDS PrefetchQueue, Sequences, SequencesExt

CONSTANTS
  PagesOf,           \* pages that instructions ("I") and data ("D") touch
  Frames,            \* physical frames, DRAM_PAGES of them
  TlbWays, TlbMshrs, \* a first-level TLB
  StlbWays, StlbMshrs,
  LinePages,         \* translations in a cache line of the page table: 8
  FctbSize,          \* FCTB_SIZE
  Stalls,            \* cycles a page walk may take
  MaxCycle,          \* the runs end at this cycle
  MaxCalls           \* prefetch_page calls of one stlb_prefetcher_operate

Sides   == {"I", "D"}
AllPages == PagesOf["I"] \cup PagesOf["D"]

(* Page 0 marks an empty place; the zeroed entries of fctb stand for the first *)
(* line, which holds no pages of programs.                                     *)
ASSUME TlbAssumption ==
  /\ {TlbWays, TlbMshrs, StlbWays, StlbMshrs, LinePages, FctbSize} \subseteq Nat \ {0}
  /\ AllPages \subseteq Nat \ (0 .. LinePages - 1) /\ Frames \subseteq Nat \ {0} /\ Frames # {}
  /\ Stalls \subseteq Nat /\ Stalls # {} /\ MaxCycle \in Nat /\ MaxCalls \in Nat /\ Never > MaxCycle

VARIABLES
  cycle,      \* current_core_cycle
  pageTable,  \* the frame of each page, 0 if none
  tlb,        \* per side, the valid blocks, last used first
  mshr,       \* per side, the misses in flight; frame 0 until it is returned
  stlb,       \* the valid blocks of the STLB, last used first
  stlbRq,     \* its read queue
  stlbMshr,   \* its misses in flight, all returned, in the order of their fills
  pq,         \* its prefetch queue
  fctb        \* page walks in progress: page, place in its line, start, stall

vars == <<cycle, pageTable, tlb, mshr, stlb, stlbRq, stlbMshr, pq, fctb>>

(* Every copy of a translation says if its page lost its frame while the copy  *)
(* was in flight or queued (raced); the code has no such bit.                  *)
Copy(page, frame, raced) == [page |-> page, frame |-> frame, raced |-> raced]

PagesIn(s) == {s[i].page : i \in DOMAIN s}
Find(s, page) == CHOOSE i \in DOMAIN s : s[i].page = page

(* What is left of s, in its order, without the entries of some pages.         *)
Without(s, pages) ==
  LET kept     == {i \in DOMAIN s : s[i].page \notin pages}
      place(i) == Cardinality({j \in kept : j =< i})
  IN [n \in 1 .. Cardinality(kept) |-> s[CHOOSE i \in kept : place(i) = n]]

(* update_replacement_state of a hit; a fill into an invalid or the LRU way.   *)
TouchedTwice(s, page) == <<s[Find(s, page)]>> \o s    \* variant: the block stays where it was

Touched(s, page) == <<s[Find(s, page)]>> \o Without(s, {page})
Filled(s, copy, ways) == SubSeq(<<copy>> \o s, 1, Min({Len(s) + 1, ways}))

--------------------------------------------------------------------------------
(* The free-distance table *)

Line(page) == page \div LinePages
ColdEntry  == [page |-> 0, position |-> 0, start |-> 0, stall |-> 0]

(* search_fctb: position pages back, the others forward.                       *)
FctbHits(e, page) ==
  page \in (e.page - e.position) .. (e.page + LinePages - 1 - e.position)

FctbKnows(table, page) == \E i \in DOMAIN table : FctbHits(table[i], page)

(* fctb_replacement_policy *)
FctbVictim(table) ==
  Min({i \in DOMAIN table : \A j \in DOMAIN table : table[i].start =< table[j].start})

(* The place of a page in its line, from the byte address of a demand miss and *)
(* from the page number of a prefetch.                                         *)
PageBytes == 4096
DemandPlaceOfPage(page) == (page % (LinePages * PageBytes)) \div PageBytes   \* variant: of the wrong address
DemandPlace(page) == ((PageBytes * page) % (LinePages * PageBytes)) \div PageBytes
PrefetchPlace(page) == page % LinePages

Walked(table, page, place, stall) ==
  [table EXCEPT ![FctbVictim(table)] =
     [page |-> page, position |-> place, start |-> cycle, stall |-> stall]]

(* refresh_fctb *)
Refreshed(table) ==
  [i \in DOMAIN table |-> IF cycle > table[i].start + table[i].stall THEN ColdEntry
                          ELSE table[i]]

--------------------------------------------------------------------------------
(* The page table *)

FreeFrames == {f \in Frames : \A p \in AllPages : pageTable[p] # f}
Mapped     == {p \in AllPages : pageTable[p] # 0}

(* What va_to_pa may leave: a page without a frame gets a free one, or, when   *)
(* there is none, that of the lowest mapped page.                              *)
PageTablesWith(page) ==
  IF pageTable[page] # 0 THEN {pageTable}
  ELSE IF FreeFrames # {} THEN {[pageTable EXCEPT ![page] = f] : f \in FreeFrames}
  ELSE {[pageTable EXCEPT ![page] = pageTable[Min(Mapped)], ![Min(Mapped)] = 0]}

Lost(table) == {p \in Mapped : table[p] = 0}

Raced(copy, lost) == IF copy.page \in lost THEN [copy EXCEPT !.raced = TRUE] ELSE copy
RacedQueue(q, lost) == [q EXCEPT !.entry = [c \in Cells |-> Raced(@[c], lost)]]
RacedSeq(s, lost) == [i \in DOMAIN s |-> Raced(s[i], lost)]
RacedMisses(misses, lost) ==
  {IF m.frame = 0 THEN m ELSE Raced(m, lost) : m \in misses}

InvalidatedInstructionsOnly(lost) ==   \* variant: the data TLB is forgotten
  [side \in Sides |-> IF side = "I" THEN Without(tlb[side], lost) ELSE tlb[side]]

(* The invalidate_entry calls of va_to_pa; queue and misses keep their copies. *)
Invalidated(lost) == [side \in Sides |-> Without(tlb[side], lost)]

(* va_to_pa for a page, called by a miss of the STLB.                          *)
Swapped(table) ==
  /\ pageTable' = table
  /\ tlb'  = Invalidated(Lost(table))
  /\ stlb' = Without(stlb, Lost(table))
  /\ mshr' = [side \in Sides |-> RacedMisses(mshr[side], Lost(table))]

--------------------------------------------------------------------------------
(* The first-level TLBs *)

Init ==
  /\ cycle = 0
  /\ pageTable = [p \in AllPages |-> 0]
  /\ tlb = [side \in Sides |-> <<>>] /\ mshr = [side \in Sides |-> {}]
  /\ stlb = <<>> /\ stlbRq = <<>> /\ stlbMshr = <<>>
  /\ pq = EmptyQueue
  /\ fctb = [i \in 1 .. FctbSize |-> ColdEntry]

Tick ==
  /\ cycle < MaxCycle
  /\ cycle' = cycle + 1
  /\ UNCHANGED <<pageTable, tlb, mshr, stlb, stlbRq, stlbMshr, pq, fctb>>

TlbHit(side, page) ==
  /\ page \in PagesIn(tlb[side])
  /\ tlb' = [tlb EXCEPT ![side] = Touched(@, page)]
  /\ UNCHANGED <<cycle, pageTable, mshr, stlb, stlbRq, stlbMshr, pq, fctb>>

QueuedOnce(rq, side, page) ==    \* variant: a request that finds its page queued is dropped
  IF page \in PagesIn(rq) THEN rq ELSE Append(rq, [page |-> page, sides |-> {side}])

(* STLB.add_rq: a page is queued once, for both sides if both ask.             *)
Queued(rq, side, page) ==
  IF page \in PagesIn(rq) THEN [rq EXCEPT ![Find(rq, page)].sides = @ \cup {side}]
  ELSE Append(rq, [page |-> page, sides |-> {side}])

(* A new miss; one for a page in flight merges with it.                        *)
TlbMiss(side, page) ==
  /\ page \notin PagesIn(tlb[side])
  /\ \A m \in mshr[side] : m.page # page
  /\ Cardinality(mshr[side]) < TlbMshrs
  /\ mshr' = [mshr EXCEPT ![side] = @ \cup {Copy(page, 0, FALSE)}]
  /\ stlbRq' = Queued(stlbRq, side, page)
  /\ UNCHANGED <<cycle, pageTable, tlb, stlb, stlbMshr, pq, fctb>>

TlbFill(side, page) ==
  /\ \E m \in mshr[side] :
       /\ m.page = page /\ m.frame # 0
       /\ tlb' = [tlb EXCEPT ![side] = Filled(@, m, TlbWays)]
       /\ mshr' = [mshr EXCEPT ![side] = @ \ {m}]
  /\ UNCHANGED <<cycle, pageTable, stlb, stlbRq, stlbMshr, pq, fctb>>

(* return_data of the STLB to the TLBs that asked.                             *)
Returned(sides, copy) ==
  [side \in Sides |-> IF side \notin sides THEN mshr[side]
     ELSE {IF m.page = copy.page THEN copy ELSE m : m \in mshr[side]}]

--------------------------------------------------------------------------------
(* The STLB *)

StlbHit ==
  /\ stlbRq # <<>> /\ Head(stlbRq).page \in PagesIn(stlb)
  /\ mshr' = Returned(Head(stlbRq).sides, stlb[Find(stlb, Head(stlbRq).page)])
  /\ stlb' = Touched(stlb, Head(stlbRq).page)
  /\ stlbRq' = Tail(stlbRq)
  /\ UNCHANGED <<cycle, pageTable, tlb, stlbMshr, pq, fctb>>

StlbMerge ==
  LET page == Head(stlbRq).page
  IN /\ stlbRq # <<>> /\ page \notin PagesIn(stlb)
     /\ page \in PagesIn(stlbMshr)
     /\ stlbMshr' = [stlbMshr EXCEPT ![Find(stlbMshr, page)].sides =
                        @ \cup Head(stlbRq).sides]
     /\ stlbRq' = Tail(stlbRq)
     /\ UNCHANGED <<cycle, pageTable, tlb, mshr, stlb, pq, fctb>>

(* prefetch_page, with the frame a page has now: only a page that has one and  *)
(* is not queued is queued; a prefetch that is not free walks, unless a walk   *)
(* on its way has its line.                                                    *)
PrefetchPage(table, s, call) ==
  IF table[call.page] = 0 \/ CheckVpn(s.pq, call.page) # NoCell THEN s
  ELSE [pq   |-> Prefetched(s.pq, [page |-> call.page, frame |-> table[call.page],
                                   since |-> cycle, raced |-> FALSE]),
        fctb |-> IF call.free \/ FctbKnows(s.fctb, call.page) THEN s.fctb
                 ELSE Walked(s.fctb, call.page, PrefetchPlace(call.page), call.stall)]

(* The calls of one stlb_prefetcher_operate, one after the other.              *)
AfterCalls(table, s, calls) ==
  LET after[k \in 0 .. Len(calls)] ==
        IF k = 0 THEN s ELSE PrefetchPage(table, after[k - 1], calls[k])
  IN after[Len(calls)]

(* What stlb_prefetcher_operate may ask for; Morrigan says what it does.       *)
Calls == BoundedSeq([page : AllPages, free : BOOLEAN, stall : Stalls], MaxCalls)

(* A new miss of the STLB.  An instruction asks the prefetch queue, then fctb: *)
(* a walk on its way may have fetched the line.  Else, and when the page has   *)
(* no frame, va_to_pa walks.  The frame is fixed here; the fill comes later.   *)
StlbMiss ==
  LET request == Head(stlbRq)
      page    == request.page
      instr   == "I" \in request.sides
      cell    == CheckVpn(pq, page)
      queued  == instr /\ cell # NoCell
  IN /\ stlbRq # <<>>
     /\ page \notin PagesIn(stlb) \cup PagesIn(stlbMshr)
     /\ Len(stlbMshr) < StlbMshrs
     /\ stlbRq' = Tail(stlbRq)
     /\ \E table \in IF queued THEN {pageTable} ELSE PageTablesWith(page),
           stall \in Stalls, calls \in IF instr THEN Calls ELSE {<<>>} :
          LET answer == IF queued THEN pq.entry[cell] ELSE Copy(page, table[page], FALSE)
              walks  == IF ~instr THEN fctb
                        ELSE IF queued \/ FctbKnows(Refreshed(fctb), page) THEN Refreshed(fctb)
                        ELSE Walked(Refreshed(fctb), page, DemandPlace(page), stall)
              before == [pq |-> IF queued THEN Taken(pq, cell) ELSE RacedQueue(pq, Lost(table)),
                         fctb |-> walks]
              after  == AfterCalls(table, before, calls)
          IN /\ Swapped(table)
             /\ stlbMshr' = Append(RacedSeq(stlbMshr, Lost(table)),
                                   [page |-> page, sides |-> request.sides,
                                    frame |-> answer.frame, raced |-> answer.raced])
             /\ pq' = after.pq /\ fctb' = after.fctb
     /\ UNCHANGED cycle

StlbFill ==
  /\ stlbMshr # <<>>
  /\ LET m    == Head(stlbMshr)
         copy == Copy(m.page, m.frame, m.raced)
     IN /\ stlb' = Filled(stlb, copy, StlbWays)
        /\ mshr' = Returned(m.sides, copy)
  /\ stlbMshr' = Tail(stlbMshr)
  /\ UNCHANGED <<cycle, pageTable, tlb, stlbRq, pq, fctb>>

Next ==
  \/ Tick \/ StlbHit \/ StlbMerge \/ StlbMiss \/ StlbFill
  \/ \E side \in Sides : \E page \in PagesOf[side] :
       TlbHit(side, page) \/ TlbMiss(side, page) \/ TlbFill(side, page)

Spec == Init /\ [][Next]_vars

--------------------------------------------------------------------------------
Copies == [page : AllPages, frame : Frames, raced : BOOLEAN]

(* Everything has its type and its capacity, and no TLB holds a page twice.    *)
TypeOK ==
  /\ cycle \in 0 .. MaxCycle
  /\ pageTable \in [AllPages -> Frames \cup {0}]
  /\ \A s \in {tlb["I"], tlb["D"], stlb} :
       s \in Seq(Copies) /\ Cardinality(PagesIn(s)) = Len(s)
  /\ \A side \in Sides : /\ Len(tlb[side]) =< TlbWays /\ Cardinality(mshr[side]) =< TlbMshrs
                         /\ mshr[side] \subseteq Copies \cup [page : AllPages, frame : {0}, raced : {FALSE}]
  /\ Len(stlb) =< StlbWays /\ Len(stlbMshr) =< StlbMshrs
  /\ stlbRq \in Seq([page : AllPages, sides : SUBSET Sides])
  /\ stlbMshr \in Seq([page : AllPages, sides : SUBSET Sides, frame : Frames, raced : BOOLEAN])
  /\ Cardinality(Holders(pq, 0)) + pq.occupancy = PqSize
  /\ \A i \in DOMAIN fctb : fctb[i].page \in AllPages \cup {0}

(* The prefetch queue behaves like a set of the newest translations, each      *)
(* taken by one miss: its holes, its wrap-around and its early return when it  *)
(* is empty lose none and answer none twice.                                   *)
Buffer == INSTANCE PrefetchBuffer WITH Capacity <- PqSize,
  waiting <- {[page |-> e.page, frame |-> e.frame, since |-> e.since] : e \in Waiting(pq)},
  answers <- {[page |-> e.page, frame |-> e.frame] : e \in Range(stlbMshr)}
ImplementsPrefetchBuffer == Buffer!Spec

(* Two pages never share a frame, and every copy of a translation, wherever it *)
(* is, is the current one unless its page was swapped out while the copy was   *)
(* in a queue or on its way: the invalidations of va_to_pa miss only those.    *)
InFlight == {m \in mshr["I"] \cup mshr["D"] : m.frame # 0}
TlbsAgree ==
  /\ \A p, r \in Mapped : p # r => pageTable[p] # pageTable[r]
  /\ \A e \in Range(tlb["I"]) \cup Range(tlb["D"]) \cup Range(stlb) \cup InFlight
             \cup Range(stlbMshr) \cup Waiting(pq) :
       e.raced \/ pageTable[e.page] = e.frame

(* A miss of a first-level TLB is in exactly one place of the STLB until it is *)
(* answered, and the STLB answers nobody who did not ask (return_data asserts  *)
(* that it finds the miss).                                                    *)
MissesOnTheirWay ==
  \A side \in Sides, page \in AllPages :
    LET at(s) == Cardinality({i \in DOMAIN s : s[i].page = page /\ side \in s[i].sides})
    IN at(stlbRq) + at(stlbMshr) = Cardinality({m \in mshr[side] : m.page = page /\ m.frame = 0})

(* No line of the page table has two walks on their way: what search_fctb      *)
(* finds is what a demand miss or a prefetch before it entered, each with its  *)
(* own formula for the place in the line.                                      *)
OneWalkPerLine ==
  \A i, j \in DOMAIN fctb :
    i # j /\ fctb[i].page # 0 /\ fctb[j].page # 0 => Line(fctb[i].page) # Line(fctb[j].page)
===============================================================================
