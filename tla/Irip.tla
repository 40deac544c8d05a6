---------------------------------- MODULE Irip ----------------------------------
(* IRIP, Morrigan's prediction tables S1, S2, S4 and S8                        *)
(* (prefetcher/morriganPT_tage2.stlb_pref, the same code in morriganPT): an    *)
(* entry of level l remembers up to Slots[l] distances to the pages missed     *)
(* after its own, and moves up one level when it needs one more.  The          *)
(* replacement is RP_MP = 1 as build_all.sh sets it; freq, which only weighs   *)
(* its random choice, is left out and any way may be the victim.               *)
EXTENDS MissStream, FiniteSets, SequencesExt

CONSTANTS
  Slots,          \* successors per entry of each level (1, 2, 4, 8)
  Sets, Assoc,    \* geometry of each level
  Hash(_),        \* hash32
  ConfLimit,      \* 2^CNF_BITS
  ResetFreq,      \* RESET_FREQ
  LineEntries,    \* entries of a cache line of the page table (8)
  EnableFp,       \* ENABLE_FP = 1
  EnablePrefFp    \* ENABLE_PREF_FP = 1

Levels == 1 .. Len(Slots)

ASSUME IripAssumption ==
  /\ Slots \in Seq(Nat \ {0}) /\ Slots # <<>> /\ Slots[1] = 1
  /\ \A l \in Levels \ {1} : Slots[l] > Slots[l - 1]
  /\ Sets \in [Levels -> Nat \ {0}] /\ Assoc \in [Levels -> Nat \ {0}]
  /\ \A p \in 0 .. TagSpan - 1 : Hash(p) \in Nat
  /\ {ConfLimit, ResetFreq, LineEntries} \subseteq Nat \ {0}
  /\ {EnableFp, EnablePrefFp} \subseteq BOOLEAN

VARIABLES
  irip,           \* irip_s1, irip_s2, irip_s4, irip_s8
  decay_timer

iripVars == <<irip, decay_timer>>

Entries(l)     == 0 .. Assoc[l] - 1
IripRow(l, tag) == Hash(tag) % Sets[l]

FreeEntry(l) == [vpn |-> 0, successor_delta |-> [k \in 1 .. Slots[l] |-> 0],
                 confidence |-> [k \in 1 .. Slots[l] |-> 0]]

--------------------------------------------------------------------------------
(* Lookup: search_markov_table, level after level                              *)
IripRowOf(T, l, tag)  == T[l][IripRow(l, tag)]
Holding(T, l, tag)    == {w \in Entries(l) : IripRowOf(T, l, tag)[w].vpn = tag}
LevelsWith(T, tag)    == {l \in Levels : Holding(T, l, tag) # {}}
Level(T, tag)         == Min(LevelsWith(T, tag))
Known(T, tag)         == IripRowOf(T, Level(T, tag), tag)[Min(Holding(T, Level(T, tag), tag))]

(* Where a page goes: S1 and S2 take a free way first, S4 and S8 look for the  *)
(* page itself, which is not there; then any way is the victim.                *)
PlacesFor(T, l, tag) ==
  LET wanted == {w \in Entries(l) : IripRowOf(T, l, tag)[w].vpn = IF l =< 2 THEN 0 ELSE tag}
  IN IF wanted # {} THEN {Min(wanted)} ELSE Entries(l)

--------------------------------------------------------------------------------
(* A miss that a prefetch has answered (answer # -1) raises the confidence of  *)
(* the first unsaturated successor of every entry that leads to the page.      *)
LeadsToSaturated(e, page) ==   \* variant: confidence is not limited
  {k \in DOMAIN e.successor_delta :
     /\ e.successor_delta[k] # 0
     /\ PartialVpn(page) = PartialVpn(e.successor_delta[k] + e.vpn)}

LeadsTo(e, page) ==
  {k \in DOMAIN e.successor_delta :
     /\ e.successor_delta[k] # 0
     /\ PartialVpn(page) = PartialVpn(e.successor_delta[k] + e.vpn)
     /\ e.confidence[k] < ConfLimit}

RewardedEntry(e, page) ==
  IF LeadsTo(e, page) = {} THEN e
  ELSE [e EXCEPT !.confidence[Min(LeadsTo(e, page))] = @ + 1]

Rewarded(T, page) ==
  [l \in Levels |-> IF l = 1 THEN T[l]
     ELSE [r \in DOMAIN T[l] |-> [w \in Entries(l) |-> RewardedEntry(T[l][r][w], page)]]]

--------------------------------------------------------------------------------
(* Prefetches                                                                  *)
LineOf(page) == {q \in Pages : q \div LineEntries = page \div LineEntries}

MostConfident(e) ==
  Min({k \in DOMAIN e.confidence : \A j \in DOMAIN e.confidence :
         e.confidence[j] =< e.confidence[k]})

(* An unknown page gets the rest of its page-table line (SDP), a known one its *)
(* successors, with the line of the most confident if ENABLE_PREF_FP.          *)
IripPredicts(T, page, answered) ==
  LET e    == Known(T, PartialVpn(page))
      next == {k \in DOMAIN e.successor_delta : e.successor_delta[k] # 0}
  IN IF LevelsWith(T, PartialVpn(page)) = {}
     THEN IF EnableFp /\ ~answered THEN {} ELSE LineOf(page) \ {page}
     ELSE {page + e.successor_delta[k] : k \in next}
          \cup UNION {LineOf(page + e.successor_delta[k]) :
                        k \in {k \in next : EnablePrefFp /\ k = MostConfident(e)}}

Inserted(T, tag, way) ==
  [T EXCEPT ![1][IripRow(1, tag)][way] = [FreeEntry(1) EXCEPT !.vpn = tag]]

--------------------------------------------------------------------------------
(* Training                                                                    *)
FreeSlots(e) == {k \in DOMAIN e.successor_delta : e.successor_delta[k] = 0}

WithSuccessor(e, k, delta) ==
  [vpn             |-> e.vpn,
   successor_delta |-> [e.successor_delta EXCEPT ![k] = delta],
   confidence      |-> [e.confidence EXCEPT ![k] = 0]]

LeastConfident(e) ==
  Min({k \in DOMAIN e.confidence : \A j \in DOMAIN e.confidence :
         e.confidence[k] =< e.confidence[j]})

Padded(s, n) == [k \in 1 .. n |-> IF k \in DOMAIN s THEN s[k] ELSE 0]

PromotedLosesLast(e, l, delta) ==   \* variant: the new successor takes a used slot
  [vpn             |-> e.vpn,
   successor_delta |-> [Padded(e.successor_delta, Slots[l + 1]) EXCEPT ![Slots[l]] = delta],
   confidence      |-> Padded(e.confidence, Slots[l + 1])]

(* An entry one level up: its successors, the new one, free slots.             *)
Promoted(e, l, delta) ==
  [vpn             |-> e.vpn,
   successor_delta |-> [Padded(e.successor_delta, Slots[l + 1]) EXCEPT ![Slots[l] + 1] = delta],
   confidence      |-> Padded(e.confidence, Slots[l + 1])]

MovedKeepsOld(T, l, way, tag, target, delta) ==   \* variant: the old entry stays
  [T EXCEPT ![l + 1][IripRow(l + 1, tag)][target] =
              Promoted(IripRowOf(T, l, tag)[way], l, delta)]

Moved(T, l, way, tag, target, delta) ==
  [T EXCEPT ![l][IripRow(l, tag)][way] = FreeEntry(l),
            ![l + 1][IripRow(l + 1, tag)][target] =
              Promoted(IripRowOf(T, l, tag)[way], l, delta)]

(* The tables after the previous page has learned the distance to this one;    *)
(* a set because the victim of a promotion is any way.                         *)
Trained(T, tag, delta) ==
  LET l   == Level(T, tag)
      way == Min(Holding(T, l, tag))
      e   == Known(T, tag)
  IN IF LevelsWith(T, tag) = {} \/ delta \in Range(e.successor_delta) THEN {T}
     ELSE IF FreeSlots(e) # {}
     THEN {[T EXCEPT ![l][IripRow(l, tag)][way] = WithSuccessor(e, Min(FreeSlots(e)), delta)]}
     ELSE IF l < Len(Slots)
     THEN {Moved(T, l, way, tag, target, delta) : target \in PlacesFor(T, l + 1, tag)}
     ELSE {[T EXCEPT ![l][IripRow(l, tag)][way] = WithSuccessor(e, LeastConfident(e), delta)]}

(* reset_frequency, every ResetFreq instruction misses                         *)
DecayedEntry(e) == [e EXCEPT !.confidence = [k \in DOMAIN @ |-> @[k] \div 2]]

Decayed(T) ==
  [l \in Levels |-> [r \in DOMAIN T[l] |-> [w \in Entries(l) |-> DecayedEntry(T[l][r][w])]]]

--------------------------------------------------------------------------------
IripInit ==
  /\ irip = [l \in Levels |-> [r \in 0 .. Sets[l] - 1 |-> [w \in Entries(l) |-> FreeEntry(l)]]]
  /\ decay_timer = 0

(* The part of stlb_prefetcher_operate that is about these tables.             *)
IripOperate(page, answered) ==
  LET tag      == PartialVpn(page)
      rewarded == IF answered THEN Rewarded(irip, page) ELSE irip
      decay    == decay_timer + 1 > ResetFreq
  IN /\ \E way \in PlacesFor(rewarded, 1, tag) :
          LET present == IF LevelsWith(rewarded, tag) # {} THEN rewarded
                         ELSE Inserted(rewarded, tag, way)
          IN \E trained \in IF misses = <<>> THEN {present}
                            ELSE Trained(present, PartialVpn(previous_vpn), Delta(page)) :
               irip' = IF decay THEN Decayed(trained) ELSE trained
     /\ decay_timer' = IF decay THEN 0 ELSE decay_timer + 1

--------------------------------------------------------------------------------
IripTypeOK ==
  /\ DOMAIN irip = Levels
  /\ \A l \in Levels : irip[l] \in [0 .. Sets[l] - 1 -> [Entries(l) ->
       [vpn : 0 .. TagSpan - 1, successor_delta : [1 .. Slots[l] -> Int],
        confidence : [1 .. Slots[l] -> 0 .. ConfLimit]]]]
  /\ decay_timer \in 0 .. ResetFreq

(* Tag 0 is a free way's: the pages that have it share what they find there.   *)
Tags == 1 .. TagSpan - 1

(* A page has one entry in the four tables together, in its row: a promotion   *)
(* moves it and an insertion follows a search of all tables.                   *)
OneEntryPerPage ==
  \A l, m \in Levels : \A r \in DOMAIN irip[l], s \in DOMAIN irip[m] :
    \A w \in Entries(l), x \in Entries(m) :
      irip[l][r][w].vpn = irip[m][s][x].vpn /\ irip[l][r][w].vpn # 0
      => l = m /\ r = s /\ w = x /\ r = IripRow(l, irip[l][r][w].vpn)

(* What an entry remembers did come after one of the pages with its tag.       *)
SuccessorsObserved ==
  \A l \in Levels : \A r \in DOMAIN irip[l], w \in Entries(l), k \in 1 .. Slots[l] :
    LET e == irip[l][r][w]
    IN e.vpn # 0 /\ e.successor_delta[k] # 0 =>
         \E i \in 1 .. Len(misses) - 1 :
           PartialVpn(misses[i]) = e.vpn /\ Observed(i) = e.successor_delta[k]

(* The tables are searchable and truthful, through insertion, promotion and    *)
(* replacement: a page has one entry, in its row, and every distance in it was *)
(* seen.                                                                       *)
EntriesTrue == OneEntryPerPage /\ SuccessorsObserved

Successors(T, tag) == Range(Known(T, tag).successor_delta) \ {0}

(* An entry forgets nothing while it stays in the tables, through training and *)
(* promotion, except that a full one of the last level gives one successor up  *)
(* for the new distance (which is 0 when the page misses twice in a row).      *)
SuccessorsKept ==
  [][\A tag \in Tags : LevelsWith(irip, tag) # {} /\ LevelsWith(irip', tag) # {} =>
       LET lost == Successors(irip, tag) \ Successors(irip', tag)
       IN lost = {} \/ /\ Level(irip, tag) = Len(Slots) /\ Cardinality(lost) = 1
                       /\ Cardinality(Successors(irip, tag)) = Slots[Len(Slots)]]_irip
===============================================================================
