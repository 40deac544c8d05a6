-------------------------- MODULE StlbBlockProofs ---------------------------
(***************************************************************************)
(* Theorems about StlbBlock and their proofs.                               *)
(***************************************************************************)
EXTENDS StlbBlock, TLAPS, FiniteSetTheorems, WellFoundedInduction

-----------------------------------------------------------------------------
(* Arithmetic of the address decomposition, and minima. *)

\* A non-empty set of naturals has a least element, and Least returns it.
LEMMA LeastElement ==
  ASSUME NEW S \in SUBSET Nat, S # {}
  PROVE  Least(S) \in S /\ \A y \in S : Least(S) <= y
<1>1. \E x \in S : \A y \in S : ~ (<<y, x>> \in OpToRel(<, Nat))
  BY NatLessThanWellFounded, WFMin, Zenon
<1>2. ASSUME NEW x \in Nat, NEW y \in Nat, y < x
      PROVE  <<y, x>> \in OpToRel(<, Nat)
  BY <1>2, Zenon DEF OpToRel
<1>3. \E x \in S : \A y \in S : x <= y
  <2>1. PICK x \in S : \A y \in S : ~ (<<y, x>> \in OpToRel(<, Nat))
    BY <1>1
  <2>2. ASSUME NEW y \in S PROVE ~(y < x)
    BY <1>2, <2>1
  <2> QED  BY <2>2
<1> QED  BY <1>3 DEF Least

\* A virtual page belongs to a set and to one of eight offsets.
LEMMA AddressTypes ==
  ASSUME NEW v \in Pages
  PROVE  BlockVpn(v) \in Nat /\ SetOf(v) \in Sets /\ Offset(v) \in Offsets
<1>1. v \in Nat  BY StlbAssumption
<1>2. BlockVpn(v) \in Nat
  BY <1>1, StlbAssumption DEF BlockVpn
<1>3. SetOf(v) \in 0..(NumSet - 1)
  BY <1>2, StlbAssumption DEF SetOf
<1> QED  BY <1>1, <1>2, <1>3 DEF Offset, Offsets, Sets

\* The address of a page is determined by its block and its offset: the tag and
\* the offset stored with a slot identify the translation it holds.
LEMMA BlockAndOffset ==
  ASSUME NEW u \in Pages, NEW v \in Pages, BlockVpn(u) = BlockVpn(v)
  PROVE  LinePage(v, Offset(u)) = u /\ (Offset(u) = Offset(v) => u = v)
<1>1. u \in Nat /\ v \in Nat  BY StlbAssumption
<1>2. u \div Ptes = v \div Ptes  BY DEF BlockVpn
<1>3. Ptes \in {1, 2, 4, 8}  BY StlbAssumption
<1>4. u \div 8 = v \div 8
  <2>1. CASE Ptes = 1  BY <2>1, <1>1, <1>2
  <2>2. CASE Ptes = 2  BY <2>2, <1>1, <1>2
  <2>3. CASE Ptes = 4  BY <2>3, <1>1, <1>2
  <2>4. CASE Ptes = 8  BY <2>4, <1>1, <1>2
  <2> QED  BY <1>3, <2>1, <2>2, <2>3, <2>4
<1>5. u = 8 * (u \div 8) + (u % 8) /\ v = 8 * (v \div 8) + (v % 8)  BY <1>1
<1> QED  BY <1>1, <1>4, <1>5 DEF LinePage, Offset

-----------------------------------------------------------------------------
(* Cardinalities. *)

\* The masks of an entry are finite, with between 0 and Ptes members.
LEMMA SlotCount ==
  ASSUME NEW S \in SUBSET Slots
  PROVE  IsFiniteSet(S) /\ Cardinality(S) \in 0..Ptes
<1>1. Ptes \in Nat /\ Ptes > 0  BY StlbAssumption
<1>2. IsFiniteSet(Slots) /\ Cardinality(Slots) = Ptes
  BY <1>1, FS_Interval DEF Slots
<1>3. IsFiniteSet(S) /\ Cardinality(S) <= Ptes
  BY <1>2, FS_Subset
<1> QED  BY <1>1, <1>3, FS_CardinalityType

\* The number of entries of the STLB in any set of them is a natural.
LEMMA EntryCount ==
  ASSUME NEW S \in SUBSET (Sets \X Ways)
  PROVE  Cardinality(S) \in Nat
<1>1. IsFiniteSet(Sets) /\ IsFiniteSet(Ways)
  BY StlbAssumption, FS_Interval DEF Sets, Ways
<1>2. IsFiniteSet(Sets \X Ways)  BY <1>1, FS_Product
<1> QED  BY <1>2, FS_Subset, FS_CardinalityType

-----------------------------------------------------------------------------
(* Types of what the handlers compute. *)

\* Promotion keeps the lru fields of a set within the associativity.
LEMMA TouchType ==
  ASSUME NEW row \in [Ways -> Ways], NEW w \in Ways
  PROVE  Touch(row, w) \in [Ways -> Ways]
<1>1. NumWay \in Nat \ {0}  BY StlbAssumption
<1>2. 0 \in Ways  BY <1>1 DEF Ways
<1>3. ASSUME NEW x \in Ways, row[x] < row[w]
      PROVE  row[x] + 1 \in Ways
  <2>1. row[x] \in 0 .. NumWay - 1 /\ row[w] \in 0 .. NumWay - 1  BY DEF Ways
  <2>2. \A a, b \in 0 .. NumWay - 1 : a < b => a + 1 \in 0 .. NumWay - 1  BY <1>1
  <2> QED  BY <1>3, <2>1, <2>2 DEF Ways
<1>4. ASSUME NEW x \in Ways
      PROVE  (IF x = w THEN 0 ELSE IF row[x] < row[w] THEN row[x] + 1 ELSE row[x]) \in Ways
  BY <1>2, <1>3
<1> QED  BY <1>4 DEF Touch

\* The replacement scan of stlb_block_fill ends with a way of the set.
LEMMA VictimWayType ==
  ASSUME TypeOK, NEW v \in Pages
  PROVE  VictimWay(v) \in Ways
<1>1. InvalidWays(v) \in SUBSET Nat /\ InvalidWays(v) \subseteq Ways
  BY StlbAssumption DEF InvalidWays, Ways
<1>2. LruWays(v) \in SUBSET Nat /\ LruWays(v) \subseteq Ways
  BY StlbAssumption DEF LruWays, Ways
<1>3. 0 \in Ways  BY StlbAssumption DEF Ways
<1> QED  BY <1>1, <1>2, <1>3, LeastElement DEF VictimWay

\* A resident block is found in one of the ways with its tag.
LEMMA ExistingWayType ==
  ASSUME NEW v \in Pages, ExistingWays(v) # {}
  PROVE  Least(ExistingWays(v)) \in ExistingWays(v) /\ Least(ExistingWays(v)) \in Ways
<1>1. ExistingWays(v) \in SUBSET Nat /\ ExistingWays(v) \subseteq Ways
  BY StlbAssumption DEF ExistingWays, Ways
<1> QED  BY <1>1, LeastElement

\* A hit returns the first matching slot of the first matching way.
LEMMA HitType ==
  ASSUME TypeOK, NEW v \in Pages, Hits(v)
  PROVE  LET w == Least(HitWays(v))
             s == Least(SlotMatch(v, w))
         IN /\ w \in Ways /\ TagMatch(v, w)
            /\ s \in Slots /\ s \in SlotMatch(v, w)
            /\ s \in block[SetOf(v)][w].valid
<1> DEFINE w == Least(HitWays(v))
<1>1. HitWays(v) \in SUBSET Nat /\ HitWays(v) # {}
  BY StlbAssumption DEF HitWays, Hits, Ways
<1>2. w \in HitWays(v)  BY <1>1, LeastElement
<1>3. w \in Ways /\ TagMatch(v, w) /\ SlotMatch(v, w) # {}
  BY <1>2 DEF HitWays
<1>4. SetOf(v) \in Sets  BY AddressTypes
<1>5. block[SetOf(v)][w] \in Entry  BY <1>3, <1>4 DEF TypeOK
<1>6. SlotMatch(v, w) \subseteq Slots /\ SlotMatch(v, w) \subseteq block[SetOf(v)][w].valid
  BY <1>5 DEF SlotMatch, Entry
<1>7. SlotMatch(v, w) \in SUBSET Nat
  BY <1>6, StlbAssumption DEF Slots
<1>8. Least(SlotMatch(v, w)) \in SlotMatch(v, w)
  BY <1>3, <1>7, LeastElement
<1> HIDE DEF w
<1> QED  BY <1>3, <1>6, <1>8 DEF w

\* An entry stays an entry when an access changes its masks.
LEMMA AccessType ==
  ASSUME NEW e \in Entry, NEW s \in Slots
  PROVE  Access(e, s) \in Entry
BY DEF Access, Entry

\* An entry stays an entry when slots are cleared.
LEMMA WithoutType ==
  ASSUME NEW e \in Entry, NEW S
  PROVE  Without(e, S) \in Entry
BY DEF Without, Entry

\* The slot the requested translation goes to in a resident block is a slot.
LEMMA TargetSlotsType ==
  ASSUME NEW e \in Entry
  PROVE  TargetSlots(e) \subseteq Slots
<1>1. ASSUME NEW S \in SUBSET Slots, S # Slots
      PROVE  Least(Slots \ S) \in Slots
  <2>1. Slots \in SUBSET Nat  BY StlbAssumption DEF Slots
  <2>2. Slots \ S # {}  BY <1>1, Zenon
  <2>3. Slots \ S \in SUBSET Nat  BY <2>1
  <2> QED  BY <2>2, <2>3, LeastElement
<1>2. e.valid \in SUBSET Slots /\ e.accessed \in SUBSET Slots  BY DEF Entry
<1> QED  BY <1>1, <1>2 DEF TargetSlots

\* An entry stays an entry when the requested translation is put into a slot.
LEMMA InstallType ==
  ASSUME TypeOK, NEW e \in Entry, NEW v \in Pages, NEW t \in Slots
  PROVE  InstallInSlot(e, v, t) \in Entry
<1>1. pageTable[v] \in Frames \cup {NoFrame} /\ Offset(v) \in Offsets
  BY AddressTypes DEF TypeOK
<1>2. /\ e.valid \cup {t} \in SUBSET Slots
      /\ e.accessed \cup {t} \in SUBSET Slots
      /\ e.prefilled \cup {t} \in SUBSET Slots
      /\ [e.offset EXCEPT ![t] = Offset(v)] \in [Slots -> Offsets]
      /\ [e.pte EXCEPT ![t] = pageTable[v]] \in [Slots -> Frames \cup {NoFrame}]
  BY <1>1 DEF Entry
<1> QED  BY <1>1, <1>2 DEF InstallInSlot, Entry

\* A new block is an entry: only mapped pages of the line enter it.
LEMMA NewEntryType ==
  ASSUME TypeOK, NEW v \in Pages, NEW fp
  PROVE  NewEntry(v, fp) \in Entry
<1> DEFINE filled == {s \in Slots : Claims(v, fp, s) # {}}
           off == [s \in Slots |-> IF s \in filled
                              THEN CHOOSE o \in Claims(v, fp, s) : TRUE ELSE 0]
           frame == [s \in Slots |-> IF s \in filled
                              THEN pageTable[LinePage(v, off[s])] ELSE NoFrame]
<1>1. ASSUME NEW s \in filled
      PROVE  off[s] \in Claims(v, fp, s)
  OBVIOUS
<1>2. \A s \in Slots : Claims(v, fp, s) \subseteq AllocatedOffsets(v)
  BY DEF Claims, Candidates
<1>3. ASSUME NEW s \in filled
      PROVE  off[s] \in Offsets /\ LinePage(v, off[s]) \in Pages
  BY <1>1, <1>2 DEF AllocatedOffsets, Mapped
<1>4. off \in [Slots -> Offsets]
  BY <1>3 DEF Offsets
<1>5. frame \in [Slots -> Frames \cup {NoFrame}]
  BY <1>3 DEF TypeOK
<1>6. filled \in SUBSET Slots /\ {s \in filled : off[s] = Offset(v)} \in SUBSET Slots
  OBVIOUS
<1>7. BlockVpn(v) \in Nat  BY AddressTypes
<1>8. NewEntry(v, fp) = [tag |-> BlockVpn(v), valid |-> filled,
          accessed |-> {s \in filled : off[s] = Offset(v)}, prefilled |-> filled,
          offset |-> off, pte |-> frame]
  BY DEF NewEntry
<1> HIDE DEF filled, off, frame
<1> QED  BY <1>4, <1>5, <1>6, <1>7, <1>8 DEF Entry

\* Counting an eviction keeps the histogram and its total natural.
LEMMA CountEvictionType ==
  ASSUME TypeOK, NEW e \in Entry, CountEviction(e)
  PROVE  evictions' \in Nat /\ matrix' \in [0..Ptes -> [0..Ptes -> Nat]]
<1>1. Cardinality(e.valid) \in 0..Ptes /\ Cardinality(e.accessed) \in 0..Ptes
  BY SlotCount DEF Entry
<1>2. evictions' \in Nat  BY DEF CountEviction, TypeOK
<1>3. matrix \in [0..Ptes -> [0..Ptes -> Nat]]  BY DEF TypeOK
<1>4. Counted(matrix, e) \in [0..Ptes -> [0..Ptes -> Nat]]
  <2> DEFINE n == Cardinality(e.valid)
             m == Cardinality(e.accessed)
             row == [matrix[n] EXCEPT ![m] = @ + 1]
  <2>1. row \in [0..Ptes -> Nat]
    <3>1. matrix[n] \in [0..Ptes -> Nat]  BY <1>1, <1>3
    <3>2. \A k \in Nat : k + 1 \in Nat  OBVIOUS
    <3>3. matrix[n][m] \in Nat  BY <1>1, <3>1
    <3>4. matrix[n][m] + 1 \in Nat  BY <3>2, <3>3, Zenon
    <3> QED  BY <3>1, <3>4
  <2>2. [matrix EXCEPT ![n][m] = @ + 1] = [matrix EXCEPT ![n] = row]
    BY <1>1, <1>3
  <2>3. [matrix EXCEPT ![n] = row] \in [0..Ptes -> [0..Ptes -> Nat]]
    BY <1>1, <1>3, <2>1
  <2> QED  BY <1>3, <2>2, <2>3 DEF Counted
<1> QED  BY <1>2, <1>4 DEF CountEviction

\* Clearing a page's slots leaves entries.
LEMMA InvalidatedType ==
  ASSUME TypeOK, NEW v \in Pages
  PROVE  InvalidatedBlocks(v) \in [Sets -> [Ways -> Entry]]
<1>1. SetOf(v) \in Sets  BY AddressTypes
<1>2. block \in [Sets -> [Ways -> Entry]]  BY DEF TypeOK
<1>3. ASSUME NEW w \in Ways
      PROVE  Without(block[SetOf(v)][w], SlotMatch(v, w)) \in Entry
  BY <1>1, <1>2, WithoutType
<1> QED  BY <1>1, <1>2, <1>3 DEF InvalidatedBlocks

\* The page a swap chooses is mapped.
LEMMA SwapVictim ==
  ASSUME MappedPages # {}
  PROVE  Least(MappedPages) \in Pages /\ pageTable[Least(MappedPages)] # NoFrame
<1>1. MappedPages \in SUBSET Nat  BY StlbAssumption DEF MappedPages
<1>2. Least(MappedPages) \in MappedPages  BY <1>1, LeastElement
<1> QED  BY <1>2 DEF MappedPages

-----------------------------------------------------------------------------
(* Type correctness. *)

\* The constructors leave the block STLB well-typed.
LEMMA InitType == Init => TypeOK
<1> SUFFICES ASSUME Init PROVE TypeOK  OBVIOUS
<1>1. EmptyEntry \in Entry
  BY DEF EmptyEntry, Entry, Offsets
<1>2. block \in [Sets -> [Ways -> Entry]]  BY <1>1 DEF Init
<1>3. lru \in [Sets -> [Ways -> Ways]]  BY DEF Init
<1>4. matrix \in [0..Ptes -> [0..Ptes -> Nat]]  BY DEF Init
<1>5. pageTable \in [Pages -> Frames \cup {NoFrame}]  BY DEF Init
<1> QED  BY <1>2, <1>3, <1>4, <1>5 DEF Init, TypeOK

\* va_to_pa keeps the page table, the STLB and the histogram well-typed.
LEMMA VaToPaType ==
  ASSUME TypeOK, NEW v \in Pages, VaToPa(v)
  PROVE  /\ pageTable' \in [Pages -> Frames \cup {NoFrame}]
         /\ block' \in [Sets -> [Ways -> Entry]]
         /\ evictions' \in Nat
         /\ matrix' \in [0..Ptes -> [0..Ptes -> Nat]]
<1>1. CASE /\ Mapped(v)
           /\ UNCHANGED <<pageTable, block, evictions, matrix>>
  BY <1>1 DEF TypeOK
<1>2. CASE /\ \E f \in FreeFrames : pageTable' = [pageTable EXCEPT ![v] = f]
           /\ UNCHANGED <<block, evictions, matrix>>
  BY <1>2 DEF TypeOK, FreeFrames
<1>3. CASE /\ MappedPages # {}
           /\ LET victim == Least(MappedPages)
              IN /\ pageTable' = [pageTable EXCEPT ![v] = pageTable[victim],
                                                   ![victim] = NoFrame]
                 /\ InvalidateBlock(victim)
  <2> DEFINE victim == Least(MappedPages)
  <2>1. victim \in Pages  BY <1>3, SwapVictim
  <2> HIDE DEF victim
  <2>2. /\ pageTable' = [pageTable EXCEPT ![v] = pageTable[victim], ![victim] = NoFrame]
        /\ InvalidateBlock(victim)
    BY <1>3 DEF victim
  <2>3. pageTable' \in [Pages -> Frames \cup {NoFrame}]
    BY <2>1, <2>2 DEF TypeOK
  <2>4. InvalidatedBlocks(victim) \in [Sets -> [Ways -> Entry]]
    BY <2>1, InvalidatedType
  <2>5. evictions' \in Nat /\ matrix' \in [0..Ptes -> [0..Ptes -> Nat]]
    <3>1. CASE Emptied(victim) # {}
      <4>1. Emptied(victim) \in SUBSET Nat /\ Emptied(victim) \subseteq Ways
        BY StlbAssumption DEF Emptied, Ways
      <4>2. Least(Emptied(victim)) \in Ways  BY <3>1, <4>1, LeastElement
      <4>3. InvalidatedBlocks(victim)[SetOf(victim)][Least(Emptied(victim))] \in Entry
        BY <2>1, <2>4, <4>2, AddressTypes
      <4> QED  BY <2>2, <3>1, <4>3, CountEvictionType DEF InvalidateBlock
    <3>2. CASE Emptied(victim) = {}
      BY <2>2, <3>2 DEF InvalidateBlock, TypeOK
    <3> QED  BY <3>1, <3>2
  <2> QED  BY <2>2, <2>3, <2>4, <2>5 DEF InvalidateBlock
<1> QED  BY <1>1, <1>2, <1>3 DEF VaToPa

\* stlb_block_fill keeps the STLB and its counters well-typed.
LEMMA FillType ==
  ASSUME TypeOK, NEW v \in Pages, FillResident(v) \/ FillBlock(v)
  PROVE  /\ block' \in [Sets -> [Ways -> Entry]]
         /\ lru' \in [Sets -> [Ways -> Ways]]
         /\ evictions' \in Nat /\ prefilledTotal' \in Nat /\ prefilledHit' \in Nat
         /\ matrix' \in [0..Ptes -> [0..Ptes -> Nat]]
<1>1. SetOf(v) \in Sets  BY AddressTypes
<1>2. block \in [Sets -> [Ways -> Entry]] /\ lru \in [Sets -> [Ways -> Ways]]
  BY DEF TypeOK
<1>3. ASSUME NEW w \in Ways, lru' = [lru EXCEPT ![SetOf(v)] = Touch(@, w)]
      PROVE  lru' \in [Sets -> [Ways -> Ways]]
  BY <1>1, <1>2, <1>3, TouchType
<1>4. ASSUME NEW w \in Ways, NEW e \in Entry, block' = [block EXCEPT ![SetOf(v)][w] = e]
      PROVE  block' \in [Sets -> [Ways -> Entry]]
  BY <1>1, <1>2, <1>4
<1>5. CASE FillResident(v)
  <2> DEFINE w == Least(ExistingWays(v))
             e == block[SetOf(v)][w]
  <2>1. w \in Ways  BY <1>5, ExistingWayType DEF FillResident
  <2>2. e \in Entry  BY <1>1, <1>2, <2>1
  <2>3. block' \in [Sets -> [Ways -> Entry]]
    <3>1. CASE Mapped(v)
      <4>1. PICK t \in TargetSlots(e) :
                block' = [block EXCEPT ![SetOf(v)][w] = InstallInSlot(e, v, t)]
        BY <1>5, <3>1 DEF FillResident
      <4>2. t \in Slots  BY <2>2, TargetSlotsType
      <4>3. InstallInSlot(e, v, t) \in Entry  BY <2>2, <4>2, InstallType
      <4> QED  BY <1>4, <2>1, <4>1, <4>3
    <3>2. CASE ~Mapped(v)
      BY <1>2, <1>5, <3>2 DEF FillResident
    <3> QED  BY <3>1, <3>2
  <2>4. lru' = [lru EXCEPT ![SetOf(v)] = Touch(@, w)]  BY <1>5 DEF FillResident
  <2>5. lru' \in [Sets -> [Ways -> Ways]]  BY <1>3, <2>1, <2>4
  <2>6. /\ evictions' = evictions /\ prefilledHit' = prefilledHit /\ matrix' = matrix
        /\ prefilledTotal' = prefilledTotal + (IF Mapped(v) THEN 1 ELSE 0)
    BY <1>5 DEF FillResident
  <2> QED  BY <2>3, <2>5, <2>6 DEF TypeOK
<1>6. CASE FillBlock(v)
  <2> DEFINE w == IF ExistingWays(v) # {} THEN Least(ExistingWays(v)) ELSE VictimWay(v)
             old == block[SetOf(v)][w]
  <2>1. w \in Ways  BY ExistingWayType, VictimWayType
  <2>2. old \in Entry  BY <1>1, <1>2, <2>1
  <2>3. PICK fp \in Filters :
          /\ block' = [block EXCEPT ![SetOf(v)][w] = NewEntry(v, fp)]
          /\ prefilledTotal' = prefilledTotal + Cardinality(NewEntry(v, fp).valid)
    BY <1>6 DEF FillBlock
  <2>4. NewEntry(v, fp) \in Entry  BY NewEntryType
  <2>5. block' \in [Sets -> [Ways -> Entry]]  BY <1>4, <2>1, <2>3, <2>4
  <2>6. Cardinality(NewEntry(v, fp).valid) \in Nat
    BY <2>4, SlotCount, StlbAssumption DEF Entry
  <2>7. prefilledTotal' \in Nat  BY <2>3, <2>6 DEF TypeOK
  <2>8. CountEviction(old) \/ UNCHANGED <<evictions, matrix>>  BY <1>6 DEF FillBlock
  <2>9. evictions' \in Nat /\ matrix' \in [0..Ptes -> [0..Ptes -> Nat]]
    BY <2>2, <2>8, CountEvictionType DEF TypeOK
  <2>10. lru' = [lru EXCEPT ![SetOf(v)] = Touch(@, w)] /\ prefilledHit' = prefilledHit
    BY <1>6 DEF FillBlock
  <2>11. lru' \in [Sets -> [Ways -> Ways]]  BY <1>3, <2>1, <2>10
  <2> QED  BY <2>5, <2>7, <2>9, <2>10, <2>11 DEF TypeOK
<1> QED  BY <1>5, <1>6

\* Every handler of the STLB, and the resets of its counters, keep it well-typed.
LEMMA NextType ==
  ASSUME TypeOK, [Next]_vars
  PROVE  TypeOK'
<1>1. ASSUME NEW v \in Pages, ReadHit(v) PROVE TypeOK'
  <2> DEFINE w == Least(HitWays(v))
             s == Least(SlotMatch(v, w))
  <2>1. w \in Ways /\ s \in Slots  BY <1>1, HitType DEF ReadHit
  <2>2. SetOf(v) \in Sets  BY AddressTypes
  <2>3. block \in [Sets -> [Ways -> Entry]] /\ lru \in [Sets -> [Ways -> Ways]]
    BY DEF TypeOK
  <2>4. Access(block[SetOf(v)][w], s) \in Entry  BY <2>1, <2>2, <2>3, AccessType
  <2>5. block' = [block EXCEPT ![SetOf(v)][w] = Access(@, s)]  BY <1>1 DEF ReadHit
  <2>6. block' \in [Sets -> [Ways -> Entry]]
    BY <2>1, <2>2, <2>3, <2>4, <2>5
  <2>7. lru' = [lru EXCEPT ![SetOf(v)] = Touch(@, w)]  BY <1>1 DEF ReadHit
  <2>8. lru' \in [Sets -> [Ways -> Ways]]
    BY <2>1, <2>2, <2>3, <2>7, TouchType
  <2>9. prefilledHit' \in Nat  BY <1>1 DEF ReadHit, TypeOK
  <2>10. UNCHANGED <<pageTable, mshr, pq, evictions, matrix, prefilledTotal, phase>>
    BY <1>1 DEF ReadHit
  <2> QED  BY <2>6, <2>8, <2>9, <2>10 DEF TypeOK
<1>2. ASSUME NEW v \in Pages, NEW instruction \in BOOLEAN, ReadMiss(v, instruction)
      PROVE  TypeOK'
  <2>1. mshr' \subseteq Pages /\ pq' \subseteq Pages  BY <1>2 DEF ReadMiss, TypeOK
  <2>2. UNCHANGED <<lru, prefilledTotal, prefilledHit, phase>>  BY <1>2 DEF ReadMiss
  <2>3. UNCHANGED <<pageTable, block, evictions, matrix>> \/ VaToPa(v)
    BY <1>2 DEF ReadMiss
  <2>4. /\ pageTable' \in [Pages -> Frames \cup {NoFrame}]
        /\ block' \in [Sets -> [Ways -> Entry]]
        /\ evictions' \in Nat
        /\ matrix' \in [0..Ptes -> [0..Ptes -> Nat]]
    BY <2>3, VaToPaType DEF TypeOK
  <2> QED  BY <2>1, <2>2, <2>4 DEF TypeOK
<1>3. ASSUME NEW v \in Pages, PrefetchPage(v) PROVE TypeOK'
  BY <1>3 DEF PrefetchPage, TypeOK, stats
<1>4. ASSUME NEW v \in Pages, Fill(v) PROVE TypeOK'
  <2>1. FillResident(v) \/ FillBlock(v)  BY <1>4 DEF Fill
  <2>2. mshr' \subseteq Pages /\ UNCHANGED <<pageTable, pq, phase>>
    BY <1>4 DEF Fill, TypeOK
  <2> QED  BY <2>1, <2>2, FillType DEF TypeOK
<1>5. CASE ResetCacheStats
  <2>1. block \in [Sets -> [Ways -> Entry]]  BY DEF TypeOK
  <2>2. \A e \in Entry : [e EXCEPT !.accessed = {}] \in Entry  BY DEF Entry
  <2>3. block' \in [Sets -> [Ways -> Entry]]
    BY <1>5, <2>1, <2>2 DEF ResetCacheStats
  <2>4. matrix' \in [0..Ptes -> [0..Ptes -> Nat]] /\ evictions' = 0 /\ phase' = "roi"
    BY <1>5 DEF ResetCacheStats
  <2>5. UNCHANGED <<pageTable, mshr, pq, lru, prefilledTotal, prefilledHit>>
    BY <1>5 DEF ResetCacheStats
  <2> QED  BY <2>3, <2>4, <2>5 DEF TypeOK
<1>6. CASE FlushStatCounters
  <2>1. block \in [Sets -> [Ways -> Entry]]  BY DEF TypeOK
  <2>2. \A e \in Entry : [e EXCEPT !.accessed = {}, !.prefilled = {}] \in Entry
    BY DEF Entry
  <2>3. block' \in [Sets -> [Ways -> Entry]]
    BY <1>6, <2>1, <2>2 DEF FlushStatCounters
  <2>4. Cardinality(LiveEntries) \in Nat  BY EntryCount DEF LiveEntries
  <2>5. evictions' \in Nat
    <3>1. evictions' = evictions + Cardinality(LiveEntries)  BY <1>6 DEF FlushStatCounters
    <3>2. evictions \in Nat  BY DEF TypeOK
    <3> QED  BY <2>4, <3>1, <3>2
  <2>6. ASSUME NEW n \in 0..Ptes, NEW m \in 0..Ptes
        PROVE  matrix[n][m] + Cardinality({p \in LiveEntries :
                   /\ Cardinality(block[p[1]][p[2]].valid) = n
                   /\ Cardinality(block[p[1]][p[2]].accessed) = m}) \in Nat
    <3> DEFINE S == {p \in LiveEntries :
                   /\ Cardinality(block[p[1]][p[2]].valid) = n
                   /\ Cardinality(block[p[1]][p[2]].accessed) = m}
    <3>1. S \in SUBSET (Sets \X Ways)  BY DEF LiveEntries
    <3>2. Cardinality(S) \in Nat  BY <3>1, EntryCount
    <3>3. matrix[n][m] \in Nat  BY DEF TypeOK
    <3> HIDE DEF S
    <3>4. matrix[n][m] + Cardinality(S) \in Nat  BY <3>2, <3>3
    <3> QED  BY <3>4 DEF S
  <2>7. matrix' \in [0..Ptes -> [0..Ptes -> Nat]]
    BY <1>6, <2>6 DEF FlushStatCounters
  <2>8. phase' = "done" /\ UNCHANGED <<pageTable, mshr, pq, lru, prefilledTotal, prefilledHit>>
    BY <1>6 DEF FlushStatCounters
  <2> QED  BY <2>3, <2>5, <2>7, <2>8 DEF TypeOK
<1>7. CASE UNCHANGED vars
  BY <1>7 DEF TypeOK, vars
<1> QED  BY <1>1, <1>2, <1>3, <1>4, <1>5, <1>6, <1>7 DEF Next

\* Every reachable state of the block STLB is well-typed, for any geometry, any
\* number of pages and frames and both block modes.
THEOREM TypeCorrect == Spec => []TypeOK
<1>1. Init => TypeOK  BY InitType
<1>2. TypeOK /\ [Next]_vars => TypeOK'  BY NextType
<1> QED  BY <1>1, <1>2, PTL DEF Spec

-----------------------------------------------------------------------------
(* The LRU stack. *)

IsPermutation(row) ==
  /\ \A k \in Ways : \E w \in Ways : row[w] = k
  /\ \A w1, w2 \in Ways : row[w1] = row[w2] => w1 = w2

\* Promotion turns a permutation of the LRU positions into another one.
LEMMA TouchPermutes ==
  ASSUME NEW row \in [Ways -> Ways], NEW w \in Ways, IsPermutation(row)
  PROVE  IsPermutation(Touch(row, w))
<1> DEFINE new == Touch(row, w)
<1>1. /\ new[w] = 0
      /\ \A x \in Ways : x # w /\ row[x] < row[w] => new[x] = row[x] + 1
      /\ \A x \in Ways : x # w /\ ~(row[x] < row[w]) => new[x] = row[x]
  BY DEF Touch
<1>2. /\ \A k \in Ways : \E x \in Ways : row[x] = k
      /\ \A w1, w2 \in Ways : row[w1] = row[w2] => w1 = w2
  BY DEF IsPermutation
<1>3. Ways \subseteq Nat /\ \A x \in Ways : row[x] \in Nat
  BY StlbAssumption DEF Ways
<1> HIDE DEF new
<1>4. ASSUME NEW k \in Ways PROVE \E x \in Ways : new[x] = k
  <2>1. CASE k = 0  BY <1>1, <2>1
  <2>2. CASE k # 0 /\ k <= row[w]
    <3>1. k - 1 \in Ways  BY <2>2, StlbAssumption DEF Ways
    <3>2. PICK x \in Ways : row[x] = k - 1  BY <1>2, <3>1
    <3>3. row[x] < row[w] /\ x # w  BY <1>3, <2>2, <3>2
    <3> QED  BY <1>1, <1>3, <3>2, <3>3
  <2>3. CASE ~(k <= row[w])
    <3>1. PICK x \in Ways : row[x] = k  BY <1>2
    <3>2. ~(row[x] < row[w]) /\ x # w  BY <1>3, <2>3, <3>1
    <3> QED  BY <1>1, <3>1, <3>2
  <2> QED  BY <2>1, <2>2, <2>3
<1>5. ASSUME NEW x \in Ways, NEW y \in Ways, new[x] = new[y] PROVE x = y
  BY <1>1, <1>2, <1>3, <1>5
<1> QED  BY <1>4, <1>5 DEF IsPermutation, new

\* A step leaves the LRU fields alone or promotes one way of one set.
LEMMA LruStep ==
  ASSUME TypeOK, [Next]_vars
  PROVE  \/ UNCHANGED lru
         \/ \E i \in Sets, w \in Ways : lru' = [lru EXCEPT ![i] = Touch(@, w)]
<1>1. ASSUME NEW v \in Pages, ReadHit(v)
      PROVE  \E i \in Sets, w \in Ways : lru' = [lru EXCEPT ![i] = Touch(@, w)]
  BY <1>1, HitType, AddressTypes DEF ReadHit
<1>2. ASSUME NEW v \in Pages, FillResident(v)
      PROVE  \E i \in Sets, w \in Ways : lru' = [lru EXCEPT ![i] = Touch(@, w)]
  BY <1>2, ExistingWayType, AddressTypes DEF FillResident
<1>3. ASSUME NEW v \in Pages, FillBlock(v)
      PROVE  \E i \in Sets, w \in Ways : lru' = [lru EXCEPT ![i] = Touch(@, w)]
  BY <1>3, ExistingWayType, VictimWayType, AddressTypes DEF FillBlock
<1>4. ASSUME NEW v \in Pages, Fill(v)
      PROVE  \E i \in Sets, w \in Ways : lru' = [lru EXCEPT ![i] = Touch(@, w)]
  BY <1>2, <1>3, <1>4 DEF Fill
<1>5. ASSUME \/ \E v \in Pages, instruction \in BOOLEAN : ReadMiss(v, instruction)
             \/ \E v \in Pages : PrefetchPage(v)
             \/ ResetCacheStats
             \/ FlushStatCounters
             \/ UNCHANGED vars
      PROVE  UNCHANGED lru
  BY <1>5 DEF ReadMiss, PrefetchPage, ResetCacheStats, FlushStatCounters, vars
<1> QED  BY <1>1, <1>4, <1>5 DEF Next

\* Every step keeps the LRU fields of every set a permutation: none promotes a
\* way without ageing those before it.
LEMMA LruInductive ==
  ASSUME TypeOK, LruPermutation, [Next]_vars
  PROVE  LruPermutation'
<1>1. \A i \in Sets : lru[i] \in [Ways -> Ways] /\ IsPermutation(lru[i])
  BY DEF TypeOK, LruPermutation, IsPermutation
<1>2. ASSUME NEW i \in Sets, NEW w \in Ways, lru' = [lru EXCEPT ![i] = Touch(@, w)],
             NEW j \in Sets
      PROVE  IsPermutation(lru'[j])
  <2>1. IsPermutation(Touch(lru[i], w))  BY <1>1, TouchPermutes
  <2>2. lru'[j] = IF j = i THEN Touch(lru[i], w) ELSE lru[j]  BY <1>2 DEF TypeOK
  <2> QED  BY <1>1, <2>1, <2>2
<1>3. \A j \in Sets : IsPermutation(lru'[j])  BY <1>1, <1>2, LruStep
<1> QED  BY <1>3 DEF LruPermutation, IsPermutation

\* The LRU positions of every set are always a permutation: the replacement scan
\* of stlb_block_fill finds a way and never falls back to way 0.
THEOREM LruCorrect == Spec => []LruPermutation
<1>1. Init => LruPermutation  BY DEF Init, LruPermutation
<1>2. TypeOK /\ LruPermutation /\ [Next]_vars => LruPermutation'  BY LruInductive
<1> QED  BY <1>1, <1>2, TypeCorrect, PTL DEF Spec

-----------------------------------------------------------------------------
(* What a step does to the entries. *)

\* f is e with some slots cleared and some mask bits changed.
Shrinks(e, f) ==
  /\ f.tag = e.tag /\ f.offset = e.offset /\ f.pte = e.pte
  /\ f.valid \subseteq e.valid
  /\ e.accessed \cup e.prefilled \subseteq e.valid
     => f.accessed \cup f.prefilled \subseteq f.valid

\* v's translation takes slot t of its resident block (sparsity mode only).
Installs(v, w, t) ==
  /\ Sparsity /\ Mapped(v) /\ w \in ExistingWays(v) /\ t \in Slots
  /\ block' = [block EXCEPT ![SetOf(v)][w] = InstallInSlot(@, v, t)]

\* A new block for v replaces way w: its own, or the victim when there is none.
Replaces(v, w, fp) ==
  /\ w \in Ways
  /\ w \in ExistingWays(v) \/ (ExistingWays(v) = {} /\ w = VictimWay(v))
  /\ block' = [block EXCEPT ![SetOf(v)][w] = NewEntry(v, fp)]

\* A fill installs one translation, builds a block, or finds nothing mapped.
LEMMA FillCases ==
  ASSUME TypeOK, NEW v \in Pages, Fill(v)
  PROVE  \/ ~Mapped(v) /\ UNCHANGED block
         \/ \E w \in Ways, t \in Slots : Installs(v, w, t)
         \/ \E w \in Ways, fp \in Filters : Replaces(v, w, fp)
<1>1. SetOf(v) \in Sets /\ block \in [Sets -> [Ways -> Entry]]
  BY AddressTypes DEF TypeOK
<1>2. CASE FillResident(v)
  <2> DEFINE w == Least(ExistingWays(v))
             e == block[SetOf(v)][w]
  <2>1. w \in Ways /\ w \in ExistingWays(v)
    BY <1>2, ExistingWayType DEF FillResident
  <2>2. CASE Mapped(v)
    <3>1. PICK t \in TargetSlots(e) :
              block' = [block EXCEPT ![SetOf(v)][w] = InstallInSlot(e, v, t)]
      BY <1>2, <2>2 DEF FillResident
    <3>2. e \in Entry  BY <1>1, <2>1
    <3>3. t \in Slots  BY <3>2, TargetSlotsType
    <3> HIDE DEF w
    <3>4. block' = [block EXCEPT ![SetOf(v)][w] = InstallInSlot(@, v, t)]
      BY <1>1, <2>1, <3>1
    <3>5. Installs(v, w, t)
      BY <1>2, <2>1, <2>2, <3>3, <3>4 DEF Installs, FillResident
    <3> QED  BY <2>1, <3>3, <3>5
  <2>3. CASE ~Mapped(v)  BY <1>2, <2>3 DEF FillResident
  <2> QED  BY <2>2, <2>3
<1>3. CASE FillBlock(v)
  <2> DEFINE w == IF ExistingWays(v) # {} THEN Least(ExistingWays(v)) ELSE VictimWay(v)
  <2>1. /\ w \in Ways
        /\ w \in ExistingWays(v) \/ (ExistingWays(v) = {} /\ w = VictimWay(v))
    BY ExistingWayType, VictimWayType
  <2>2. PICK fp \in Filters : block' = [block EXCEPT ![SetOf(v)][w] = NewEntry(v, fp)]
    BY <1>3 DEF FillBlock
  <2> HIDE DEF w
  <2>3. Replaces(v, w, fp)  BY <2>1, <2>2 DEF Replaces
  <2> QED  BY <2>1, <2>3
<1> QED  BY <1>2, <1>3 DEF Fill

\* An invalidation only clears slots.
LEMMA InvalidateShrinks ==
  ASSUME TypeOK, NEW v \in Pages, block' = InvalidatedBlocks(v),
         NEW i \in Sets, NEW w \in Ways
  PROVE  Shrinks(block[i][w], block'[i][w])
<1>1. block \in [Sets -> [Ways -> Entry]] /\ SetOf(v) \in Sets
  BY AddressTypes DEF TypeOK
<1>2. block[i][w] \in Entry  BY <1>1
<1>3. ASSUME NEW e \in Entry, NEW S PROVE Shrinks(e, Without(e, S)) /\ Shrinks(e, e)
  BY DEF Shrinks, Without, Entry
<1>4. \/ block'[i][w] = block[i][w]
      \/ block'[i][w] = Without(block[i][w], SlotMatch(v, w))
  BY <1>1 DEF InvalidatedBlocks
<1> QED  BY <1>2, <1>3, <1>4

\* Every step but a fill only clears slots and changes mask bits.
LEMMA OtherStepsShrink ==
  ASSUME TypeOK, [Next]_vars, \A v \in Pages : ~Fill(v),
         NEW i \in Sets, NEW w \in Ways
  PROVE  Shrinks(block[i][w], block'[i][w])
<1>1. block \in [Sets -> [Ways -> Entry]]  BY DEF TypeOK
<1>2. block[i][w] \in Entry  BY <1>1
<1>3. \A e \in Entry : Shrinks(e, e)  BY DEF Shrinks, Entry
<1>4. ASSUME NEW v \in Pages, ReadHit(v) PROVE Shrinks(block[i][w], block'[i][w])
  <2> DEFINE x == Least(HitWays(v))
             s == Least(SlotMatch(v, x))
  <2>1. x \in Ways /\ s \in block[SetOf(v)][x].valid  BY <1>4, HitType DEF ReadHit
  <2>2. block' = [block EXCEPT ![SetOf(v)][x] = Access(@, s)]  BY <1>4 DEF ReadHit
  <2>3. SetOf(v) \in Sets  BY AddressTypes
  <2>4. ASSUME NEW e \in Entry, NEW t \in e.valid PROVE Shrinks(e, Access(e, t))
    BY DEF Shrinks, Access, Entry
  <2> HIDE DEF x, s
  <2>5. block'[i][w] = IF i = SetOf(v) /\ w = x THEN Access(block[i][w], s) ELSE block[i][w]
    BY <1>1, <2>1, <2>2, <2>3
  <2> QED  BY <1>2, <1>3, <2>1, <2>4, <2>5
<1>5. ASSUME NEW v \in Pages, NEW instruction \in BOOLEAN, ReadMiss(v, instruction)
      PROVE  Shrinks(block[i][w], block'[i][w])
  <2>1. UNCHANGED block \/ (MappedPages # {} /\ InvalidateBlock(Least(MappedPages)))
    BY <1>5 DEF ReadMiss, VaToPa
  <2>2. CASE UNCHANGED block  BY <1>2, <1>3, <2>2
  <2>3. CASE MappedPages # {} /\ InvalidateBlock(Least(MappedPages))
    BY <2>3, SwapVictim, InvalidateShrinks DEF InvalidateBlock
  <2> QED  BY <2>1, <2>2, <2>3
<1>6. CASE ResetCacheStats
  <2>1. block'[i][w] = [block[i][w] EXCEPT !.accessed = {}]
    BY <1>1, <1>6 DEF ResetCacheStats
  <2>2. \A e \in Entry : Shrinks(e, [e EXCEPT !.accessed = {}])
    BY DEF Shrinks, Entry
  <2> QED  BY <1>2, <2>1, <2>2
<1>7. CASE FlushStatCounters
  <2>1. \/ block'[i][w] = block[i][w]
        \/ block'[i][w] = [block[i][w] EXCEPT !.accessed = {}, !.prefilled = {}]
    BY <1>1, <1>7 DEF FlushStatCounters
  <2>2. \A e \in Entry : Shrinks(e, [e EXCEPT !.accessed = {}, !.prefilled = {}])
    BY DEF Shrinks, Entry
  <2> QED  BY <1>2, <1>3, <2>1, <2>2
<1>8. CASE UNCHANGED vars \/ \E v \in Pages : PrefetchPage(v)
  BY <1>2, <1>3, <1>8 DEF vars, PrefetchPage
<1> QED  BY <1>4, <1>5, <1>6, <1>7, <1>8 DEF Next

\* The slots of a new block: no translation twice, each from the page table.
LEMMA NewEntryFacts ==
  ASSUME NEW v \in Pages, NEW fp
  PROVE  LET e == NewEntry(v, fp)
         IN /\ e.tag = BlockVpn(v)
            /\ e.accessed \cup e.prefilled \subseteq e.valid
            /\ \A s, t \in e.valid : e.offset[s] = e.offset[t] => s = t
            /\ \A s \in e.valid : /\ Mapped(LinePage(v, e.offset[s]))
                                  /\ e.pte[s] = pageTable[LinePage(v, e.offset[s])]
<1> DEFINE e == NewEntry(v, fp)
           filled == {s \in Slots : Claims(v, fp, s) # {}}
           off == [s \in Slots |-> IF s \in filled
                              THEN CHOOSE o \in Claims(v, fp, s) : TRUE ELSE 0]
           frame == [s \in Slots |-> IF s \in filled
                              THEN pageTable[LinePage(v, off[s])] ELSE NoFrame]
<1>1. e = [tag |-> BlockVpn(v), valid |-> filled,
           accessed |-> {s \in filled : off[s] = Offset(v)}, prefilled |-> filled,
           offset |-> off, pte |-> frame]
  BY DEF NewEntry
<1>2. \A s \in filled : off[s] \in Claims(v, fp, s) /\ s \in Slots
  OBVIOUS
<1>3. \A s \in filled : Rank(v, fp, off[s]) = s /\ off[s] \in AllocatedOffsets(v)
  BY <1>2 DEF Claims, Candidates
<1>4. \A s \in filled : frame[s] = pageTable[LinePage(v, off[s])]
  BY <1>2
<1> HIDE DEF e, filled, off, frame
<1>5. /\ e.tag = BlockVpn(v) /\ e.valid = filled /\ e.offset = off /\ e.pte = frame
      /\ e.accessed = {s \in filled : off[s] = Offset(v)} /\ e.prefilled = filled
  BY <1>1
<1>6. \A s, t \in filled : off[s] = off[t] => s = t  BY <1>3
<1>7. \A s \in filled : Mapped(LinePage(v, off[s]))  BY <1>3 DEF AllocatedOffsets
<1>8. e.accessed \cup e.prefilled \subseteq e.valid  BY <1>5
<1> QED  BY <1>4, <1>5, <1>6, <1>7, <1>8 DEF e

\* The requested translation in slot t changes that slot and the masks only.
LEMMA InstallFacts ==
  ASSUME TypeOK, NEW e \in Entry, NEW v \in Pages, NEW t \in Slots
  PROVE  LET f == InstallInSlot(e, v, t)
         IN /\ f.tag = e.tag
            /\ f.valid = e.valid \cup {t}
            /\ f.accessed = e.accessed \cup {t} /\ f.prefilled = e.prefilled \cup {t}
            /\ \A s \in Slots :
                 /\ f.offset[s] = IF s = t THEN Offset(v) ELSE e.offset[s]
                 /\ f.pte[s] = IF s = t THEN pageTable[v] ELSE e.pte[s]
<1>1. e.offset \in [Slots -> Offsets] /\ e.pte \in [Slots -> Frames \cup {NoFrame}]
  BY DEF Entry
<1> DEFINE f == InstallInSlot(e, v, t)
<1>2. f.tag = e.tag  BY DEF InstallInSlot, Entry
<1>3. f.valid = e.valid \cup {t}  BY DEF InstallInSlot, Entry
<1>4. f.accessed = e.accessed \cup {t}  BY DEF InstallInSlot, Entry
<1>5. f.prefilled = e.prefilled \cup {t}  BY DEF InstallInSlot, Entry
<1>6. f.offset = [e.offset EXCEPT ![t] = Offset(v)]  BY DEF InstallInSlot, Entry
<1>7. f.pte = [e.pte EXCEPT ![t] = pageTable[v]]  BY DEF InstallInSlot, Entry
<1> HIDE DEF f
<1>8. \A s \in Slots : /\ f.offset[s] = IF s = t THEN Offset(v) ELSE e.offset[s]
                       /\ f.pte[s] = IF s = t THEN pageTable[v] ELSE e.pte[s]
  BY <1>1, <1>6, <1>7
<1> QED  BY <1>2, <1>3, <1>4, <1>5, <1>8 DEF f

-----------------------------------------------------------------------------
(* One place per translation. *)

\* The part of OnePlace that concerns one entry.
EntryOK(e) ==
  /\ e.accessed \cup e.prefilled \subseteq e.valid
  /\ \A s, t \in e.valid : ~Sparsity /\ e.offset[s] = e.offset[t] => s = t

\* The part that concerns two entries of a set.
TagsDiffer(e, f) == e.valid # {} /\ f.valid # {} => e.tag # f.tag

\* OnePlace, stated entry by entry and pair of entries by pair.
LEMMA OnePlaceParts ==
  OnePlace <=> /\ \A i \in Sets, w \in Ways : EntryOK(block[i][w])
               /\ \A i \in Sets, w \in Ways, x \in Ways :
                    x # w => TagsDiffer(block[i][w], block[i][x])
BY DEF OnePlace, EntryOK, TagsDiffer

\* No fill, invalidation or lookup gives a translation a second place.
LEMMA OnePlaceInductive ==
  ASSUME TypeOK, OnePlace, [Next]_vars
  PROVE  OnePlace'
<1>1. block \in [Sets -> [Ways -> Entry]]  BY DEF TypeOK
<1>2. /\ \A i \in Sets, w \in Ways : EntryOK(block[i][w])
      /\ \A i \in Sets, w \in Ways, x \in Ways :
           x # w => TagsDiffer(block[i][w], block[i][x])
  BY OnePlaceParts
<1>3. ASSUME \A i \in Sets, w \in Ways : EntryOK(block'[i][w]),
             \A i \in Sets, w \in Ways, x \in Ways :
               x # w => TagsDiffer(block'[i][w], block'[i][x])
      PROVE  OnePlace'
  BY <1>3 DEF OnePlace, EntryOK, TagsDiffer
<1>4. CASE \A v \in Pages : ~Fill(v)
  <2>1. \A i \in Sets, w \in Ways : Shrinks(block[i][w], block'[i][w])
    BY <1>4, OtherStepsShrink
  <2>2. \A i \in Sets, w \in Ways : EntryOK(block'[i][w])
    BY <1>2, <2>1 DEF EntryOK, Shrinks
  <2>3. \A i \in Sets, w \in Ways, x \in Ways :
          x # w => TagsDiffer(block'[i][w], block'[i][x])
    BY <1>2, <2>1 DEF TagsDiffer, Shrinks
  <2> QED  BY <1>3, <2>2, <2>3
<1>5. ASSUME NEW v \in Pages, Fill(v) PROVE OnePlace'
  <2>1. SetOf(v) \in Sets  BY AddressTypes
  <2>2. CASE UNCHANGED block  BY <1>2, <1>3, <2>2
  <2>3. ASSUME NEW w \in Ways, NEW t \in Slots, Installs(v, w, t) PROVE OnePlace'
    <3> DEFINE e == block[SetOf(v)][w]
               f == InstallInSlot(e, v, t)
    <3>1. e \in Entry /\ EntryOK(e)  BY <1>1, <1>2, <2>1
    <3>2. f.tag = e.tag /\ e.valid # {} /\ EntryOK(f)
      BY <2>3, <3>1, InstallFacts DEF Installs, ExistingWays, TagMatch, EntryOK
    <3>3. \A i \in Sets, x \in Ways :
            block'[i][x] = IF i = SetOf(v) /\ x = w THEN f ELSE block[i][x]
      BY <1>1, <2>1, <2>3 DEF Installs
    <3> HIDE DEF f
    <3>4. \A i \in Sets, x \in Ways : EntryOK(block'[i][x])
      BY <1>2, <3>2, <3>3
    <3>5. \A i \in Sets, x \in Ways, y \in Ways :
            y # x => TagsDiffer(block'[i][x], block'[i][y])
      BY <1>2, <2>1, <3>2, <3>3 DEF TagsDiffer
    <3> QED  BY <1>3, <3>4, <3>5
  <2>4. ASSUME NEW w \in Ways, NEW fp \in Filters, Replaces(v, w, fp) PROVE OnePlace'
    <3> DEFINE e == NewEntry(v, fp)
    <3>1. EntryOK(e) /\ e.tag = BlockVpn(v)  BY NewEntryFacts DEF EntryOK
    <3>2. \A i \in Sets, x \in Ways :
            block'[i][x] = IF i = SetOf(v) /\ x = w THEN e ELSE block[i][x]
      BY <1>1, <2>1, <2>4 DEF Replaces
    <3> HIDE DEF e
    <3>3. \A x \in Ways : x # w => block[SetOf(v)][x].valid = {}
                                   \/ block[SetOf(v)][x].tag # BlockVpn(v)
      <4>1. CASE w \in ExistingWays(v)
        BY <1>2, <2>1, <4>1 DEF ExistingWays, TagMatch, TagsDiffer
      <4>2. CASE ExistingWays(v) = {}
        BY <4>2 DEF ExistingWays, TagMatch
      <4> QED  BY <2>4, <4>1, <4>2 DEF Replaces
    <3>4. \A i \in Sets, x \in Ways : EntryOK(block'[i][x])
      BY <1>2, <3>1, <3>2
    <3>5. \A i \in Sets, x \in Ways, y \in Ways :
            y # x => TagsDiffer(block'[i][x], block'[i][y])
      BY <1>2, <2>1, <3>1, <3>2, <3>3 DEF TagsDiffer
    <3> QED  BY <1>3, <3>4, <3>5
  <2> QED  BY <1>5, <2>2, <2>3, <2>4, FillCases
<1> QED  BY <1>4, <1>5

\* Whatever misses overlap, a translation block has one way of its set, and in
\* detail mode a page one slot.
THEOREM OnePlaceCorrect == Spec => []OnePlace
<1>1. Init => OnePlace
  BY DEF Init, OnePlace, EmptyEntry
<1>2. TypeOK /\ OnePlace /\ [Next]_vars => OnePlace'  BY OnePlaceInductive
<1> QED  BY <1>1, <1>2, TypeCorrect, PTL DEF Spec

-----------------------------------------------------------------------------
(* Replacement. *)

\* A block that gives way to another was the least recently used of a full set.
LEMMA OnlyLruReplacedStep ==
  ASSUME TypeOK, LruPermutation, [Next]_vars, NEW i \in Sets, NEW w \in Ways,
         block[i][w].valid # {}, block'[i][w].tag # block[i][w].tag
  PROVE  \A x \in Ways \ {w} : lru[i][x] < lru[i][w] /\ block[i][x].valid # {}
<1>1. block \in [Sets -> [Ways -> Entry]] /\ lru \in [Sets -> [Ways -> Ways]]
  BY DEF TypeOK
<1>2. PICK v \in Pages : Fill(v)  BY OtherStepsShrink DEF Shrinks
<1>3. SetOf(v) \in Sets  BY AddressTypes
<1>4. ASSUME NEW x \in Ways, NEW t \in Slots, Installs(v, x, t) PROVE FALSE
  <2>1. block[SetOf(v)][x] \in Entry  BY <1>1, <1>3
  <2>2. InstallInSlot(block[SetOf(v)][x], v, t).tag = block[SetOf(v)][x].tag
    BY <2>1, InstallFacts
  <2>3. block'[i][w] = IF i = SetOf(v) /\ w = x
                       THEN InstallInSlot(block[SetOf(v)][x], v, t) ELSE block[i][w]
    BY <1>1, <1>3, <1>4 DEF Installs
  <2> QED  BY <2>2, <2>3
<1>5. PICK x \in Ways, fp \in Filters : Replaces(v, x, fp)
  BY <1>2, <1>4, FillCases
<1>6. /\ i = SetOf(v) /\ w = x
      /\ BlockVpn(v) # block[i][w].tag
  <2>1. block'[i][w] = IF i = SetOf(v) /\ w = x THEN NewEntry(v, fp) ELSE block[i][w]
    BY <1>1, <1>3, <1>5 DEF Replaces
  <2> QED  BY <2>1, NewEntryFacts
<1>7. ExistingWays(v) = {} /\ w = VictimWay(v)
  BY <1>5, <1>6 DEF Replaces, ExistingWays, TagMatch
<1>8. InvalidWays(v) = {}
  <2>1. SUFFICES ASSUME InvalidWays(v) # {} PROVE FALSE  OBVIOUS
  <2>2. InvalidWays(v) \in SUBSET Nat  BY StlbAssumption DEF InvalidWays, Ways
  <2>3. VictimWay(v) \in InvalidWays(v)
    BY <2>1, <2>2, LeastElement DEF VictimWay
  <2> QED  BY <1>6, <1>7, <2>3 DEF InvalidWays
<1>9. lru[i][w] = NumWay - 1
  <2>1. NumWay - 1 \in Ways  BY StlbAssumption DEF Ways
  <2>2. LruWays(v) # {}
    <3>1. PICK z \in Ways : lru[SetOf(v)][z] = NumWay - 1
      BY <1>3, <2>1, Zenon DEF LruPermutation
    <3> QED  BY <3>1 DEF LruWays
  <2>3. LruWays(v) \in SUBSET Nat  BY StlbAssumption DEF LruWays, Ways
  <2>4. VictimWay(v) \in LruWays(v)
    BY <1>8, <2>2, <2>3, LeastElement DEF VictimWay
  <2> QED  BY <1>6, <1>7, <2>4 DEF LruWays
<1>10. ASSUME NEW y \in Ways \ {w} PROVE lru[i][y] < lru[i][w] /\ block[i][y].valid # {}
  <2>1. lru[i][y] # lru[i][w]  BY DEF LruPermutation
  <2>2. lru[i][y] \in 0..(NumWay - 1)  BY <1>1 DEF Ways
  <2>3. lru[i][y] < lru[i][w]  BY <1>9, <2>1, <2>2, StlbAssumption
  <2> QED  BY <1>6, <1>8, <2>3 DEF InvalidWays
<1> QED  BY <1>10

\* Replacement evicts the least recently used block, and only from a full set.
THEOREM OnlyLruReplacedCorrect == Spec => OnlyLruReplaced
<1>1. TypeOK /\ LruPermutation /\ [Next]_vars
      => [\A i \in Sets, w \in Ways :
            /\ block[i][w].valid # {} /\ block'[i][w].valid # {}
            /\ block'[i][w].tag # block[i][w].tag
            => \A x \in Ways \ {w} : lru[i][x] < lru[i][w] /\ block[i][x].valid # {}]_vars
  BY OnlyLruReplacedStep
<1> QED  BY <1>1, TypeCorrect, LruCorrect, PTL DEF Spec, OnlyLruReplaced

-----------------------------------------------------------------------------
(* Coherence with the page table. *)

\* A step of the page table: nothing, a new mapping that leaves the STLB alone, or
\* a swap that invalidates the page it unmaps.
LEMMA PageTableStep ==
  ASSUME [Next]_vars
  PROVE  \/ UNCHANGED pageTable
         \/ /\ UNCHANGED block
            /\ \E v \in Pages, f \in FreeFrames :
                 pageTable[v] = NoFrame /\ pageTable' = [pageTable EXCEPT ![v] = f]
         \/ /\ MappedPages # {}
            /\ \E v \in Pages :
                 LET victim == Least(MappedPages)
                 IN /\ pageTable[v] = NoFrame
                    /\ pageTable' = [pageTable EXCEPT ![v] = pageTable[victim],
                                                      ![victim] = NoFrame]
                    /\ block' = InvalidatedBlocks(victim)
<1>1. ASSUME NEW v \in Pages, VaToPa(v)
      PROVE  \/ UNCHANGED pageTable
             \/ /\ UNCHANGED block
                /\ \E f \in FreeFrames :
                     pageTable[v] = NoFrame /\ pageTable' = [pageTable EXCEPT ![v] = f]
             \/ /\ MappedPages # {}
                /\ LET victim == Least(MappedPages)
                   IN /\ pageTable[v] = NoFrame
                      /\ pageTable' = [pageTable EXCEPT ![v] = pageTable[victim],
                                                        ![victim] = NoFrame]
                      /\ block' = InvalidatedBlocks(victim)
  BY <1>1 DEF VaToPa, Mapped, InvalidateBlock
<1>2. ASSUME NEW v \in Pages, NEW instruction \in BOOLEAN, ReadMiss(v, instruction)
      PROVE  UNCHANGED pageTable \/ VaToPa(v)
  BY <1>2 DEF ReadMiss
<1>3. ASSUME \/ \E v \in Pages : ReadHit(v) \/ PrefetchPage(v) \/ Fill(v)
             \/ ResetCacheStats \/ FlushStatCounters \/ UNCHANGED vars
      PROVE  UNCHANGED pageTable
  BY <1>3 DEF ReadHit, PrefetchPage, Fill, ResetCacheStats, FlushStatCounters, vars
<1> QED  BY <1>1, <1>2, <1>3 DEF Next

\* Slots that would answer for u in an entry e.
Answering(u, e) == {s \in e.valid : e.tag = BlockVpn(u) /\ e.offset[s] = Offset(u)}

\* The coherence of one entry with the frame f of page u.
EntryCoherent(u, e, f) == \A s \in Answering(u, e) : f # NoFrame /\ e.pte[s] = f

\* SlotsCoherent, stated entry by entry.
LEMMA SlotsCoherentParts ==
  SlotsCoherent <=> \A u \in Pages, w \in Ways :
                      EntryCoherent(u, block[SetOf(u)][w], pageTable[u])
BY DEF SlotsCoherent, EntryCoherent, Answering, TagMatch, SlotMatch

\* No step leaves a reachable slot that disagrees with the page table: a step that
\* changes a mapping clears the slots of the page that loses it.
LEMMA SlotsCoherentInductive ==
  ASSUME TypeOK, SlotsCoherent, [Next]_vars
  PROVE  SlotsCoherent'
<1>1. block \in [Sets -> [Ways -> Entry]] /\ pageTable \in [Pages -> Frames \cup {NoFrame}]
  BY DEF TypeOK
<1>2. \A u \in Pages, w \in Ways : EntryCoherent(u, block[SetOf(u)][w], pageTable[u])
  BY SlotsCoherentParts
<1>3. SUFFICES \A u \in Pages, w \in Ways :
                 EntryCoherent(u, block'[SetOf(u)][w], pageTable'[u])
  BY DEF SlotsCoherent, EntryCoherent, Answering, TagMatch, SlotMatch, SetOf
<1>4. \A u \in Pages : SetOf(u) \in Sets  BY AddressTypes
<1>5. ASSUME NEW u, NEW e, NEW f, NEW g, Shrinks(e, f), EntryCoherent(u, e, g)
      PROVE  EntryCoherent(u, f, g)
  BY <1>5 DEF Shrinks, EntryCoherent, Answering
<1>6. CASE UNCHANGED pageTable /\ \A v \in Pages : ~Fill(v)
  <2>1. \A i \in Sets, w \in Ways : Shrinks(block[i][w], block'[i][w])
    BY <1>6, OtherStepsShrink
  <2> QED  BY <1>2, <1>4, <1>5, <1>6, <2>1
<1>7. ASSUME NEW v \in Pages, NEW f \in FreeFrames, UNCHANGED block,
             pageTable[v] = NoFrame, pageTable' = [pageTable EXCEPT ![v] = f],
             NEW u \in Pages, NEW w \in Ways
      PROVE  EntryCoherent(u, block'[SetOf(u)][w], pageTable'[u])
  <2>1. CASE u = v  BY <1>2, <1>7, <2>1 DEF EntryCoherent
  <2>2. CASE u # v  BY <1>1, <1>2, <1>7, <2>2
  <2> QED  BY <2>1, <2>2
<1>8. ASSUME NEW v \in Pages, NEW x \in Pages, pageTable[v] = NoFrame,
             pageTable[x] # NoFrame,
             pageTable' = [pageTable EXCEPT ![v] = pageTable[x], ![x] = NoFrame],
             block' = InvalidatedBlocks(x),
             NEW u \in Pages, NEW w \in Ways
      PROVE  EntryCoherent(u, block'[SetOf(u)][w], pageTable'[u])
  <2>1. Shrinks(block[SetOf(u)][w], block'[SetOf(u)][w])
    BY <1>4, <1>8, InvalidateShrinks
  <2>2. CASE u = x
    <3> DEFINE e == block[SetOf(x)][w]
    <3>1. e \in Entry  BY <1>1, <1>4
    <3>2. block'[SetOf(x)][w] = IF TagMatch(x, w) THEN Without(e, SlotMatch(x, w)) ELSE e
      BY <1>1, <1>4, <1>8 DEF InvalidatedBlocks
    <3>3. ASSUME NEW S PROVE /\ Without(e, S).valid = e.valid \ S
                             /\ Without(e, S).tag = e.tag
                             /\ Without(e, S).offset = e.offset
      BY <3>1 DEF Without, Entry
    <3>4. Answering(x, block'[SetOf(x)][w]) = {}
      BY <3>2, <3>3 DEF Answering, TagMatch, SlotMatch
    <3> QED  BY <2>2, <3>4 DEF EntryCoherent
  <2>3. CASE u = v
    <3>1. Answering(u, block[SetOf(u)][w]) = {}  BY <1>2, <1>8, <2>3 DEF EntryCoherent
    <3> QED  BY <2>1, <3>1 DEF EntryCoherent, Shrinks, Answering
  <2>4. CASE u # v /\ u # x
    <3>1. pageTable'[u] = pageTable[u]  BY <1>1, <1>8, <2>4
    <3> QED  BY <1>2, <1>5, <2>1, <3>1
  <2> QED  BY <2>2, <2>3, <2>4
<1>9. ASSUME NEW v \in Pages, Fill(v), NEW u \in Pages, NEW w \in Ways
      PROVE  EntryCoherent(u, block'[SetOf(u)][w], pageTable'[u])
  <2>1. pageTable' = pageTable  BY <1>9 DEF Fill
  <2>2. CASE UNCHANGED block  BY <1>2, <2>1, <2>2
  <2>3. ASSUME NEW x \in Ways, NEW t \in Slots, Installs(v, x, t)
        PROVE  EntryCoherent(u, block'[SetOf(u)][w], pageTable[u])
    <3> DEFINE e == block[SetOf(v)][x]
               f == InstallInSlot(e, v, t)
    <3>1. e \in Entry  BY <1>1, <1>4
    <3>2. block'[SetOf(u)][w] = IF SetOf(u) = SetOf(v) /\ w = x THEN f
                                ELSE block[SetOf(u)][w]
      BY <1>1, <1>4, <2>3 DEF Installs
    <3>3. CASE SetOf(u) = SetOf(v) /\ w = x
      <4>1. /\ f.tag = e.tag /\ f.valid = e.valid \cup {t} /\ f.valid \subseteq Slots
            /\ \A s \in Slots :
                 /\ f.offset[s] = IF s = t THEN Offset(v) ELSE e.offset[s]
                 /\ f.pte[s] = IF s = t THEN pageTable[v] ELSE e.pte[s]
        BY <3>1, InstallFacts DEF Entry
      <4>2. e.tag = BlockVpn(v) /\ pageTable[v] # NoFrame
        BY <2>3 DEF Installs, ExistingWays, TagMatch, Mapped
      <4>3. EntryCoherent(u, e, pageTable[u])  BY <1>2, <3>3
      <4> HIDE DEF e, f
      <4>4. ASSUME NEW s \in Answering(u, f)
            PROVE  pageTable[u] # NoFrame /\ f.pte[s] = pageTable[u]
        <5>1. s \in f.valid /\ f.tag = BlockVpn(u) /\ f.offset[s] = Offset(u)
          BY DEF Answering
        <5>2. CASE s = t
          <6>1. Offset(u) = Offset(v) /\ BlockVpn(u) = BlockVpn(v)
            BY <4>1, <4>2, <5>1, <5>2
          <6>2. u = v  BY <6>1, BlockAndOffset
          <6> QED  BY <4>1, <4>2, <5>2, <6>2
        <5>3. CASE s # t
          <6>1. s \in Answering(u, e)  BY <4>1, <5>1, <5>3 DEF Answering
          <6> QED  BY <4>1, <4>3, <5>1, <5>3, <6>1 DEF EntryCoherent
        <5> QED  BY <5>2, <5>3
      <4> QED  BY <3>2, <3>3, <4>4 DEF EntryCoherent
    <3>4. CASE ~(SetOf(u) = SetOf(v) /\ w = x)  BY <1>2, <3>2, <3>4
    <3> QED  BY <3>3, <3>4
  <2>4. ASSUME NEW x \in Ways, NEW fp \in Filters, Replaces(v, x, fp)
        PROVE  EntryCoherent(u, block'[SetOf(u)][w], pageTable[u])
    <3> DEFINE e == NewEntry(v, fp)
    <3>1. block'[SetOf(u)][w] = IF SetOf(u) = SetOf(v) /\ w = x THEN e
                                ELSE block[SetOf(u)][w]
      BY <1>1, <1>4, <2>4 DEF Replaces
    <3>2. /\ e.tag = BlockVpn(v)
          /\ \A s \in e.valid : /\ Mapped(LinePage(v, e.offset[s]))
                                /\ e.pte[s] = pageTable[LinePage(v, e.offset[s])]
      BY NewEntryFacts
    <3> HIDE DEF e
    <3>3. ASSUME NEW s \in Answering(u, e)
          PROVE  pageTable[u] # NoFrame /\ e.pte[s] = pageTable[u]
      <4>1. s \in e.valid /\ BlockVpn(u) = BlockVpn(v) /\ e.offset[s] = Offset(u)
        BY <3>2 DEF Answering
      <4>2. LinePage(v, e.offset[s]) = u  BY <4>1, BlockAndOffset
      <4> QED  BY <3>2, <4>1, <4>2 DEF Mapped
    <3>4. EntryCoherent(u, e, pageTable[u])  BY <3>3 DEF EntryCoherent
    <3> QED  BY <1>2, <3>1, <3>4
  <2> QED  BY <1>9, <2>1, <2>2, <2>3, <2>4, FillCases
<1>10. CASE UNCHANGED pageTable  BY <1>6, <1>9, <1>10
<1>11. CASE ~UNCHANGED pageTable
  BY <1>7, <1>8, <1>11, PageTableStep, SwapVictim
<1> QED  BY <1>10, <1>11

\* Every slot that a lookup could select holds the current translation.
THEOREM SlotsCoherentCorrect == Spec => []SlotsCoherent
<1>1. Init => SlotsCoherent
  <2> SUFFICES ASSUME Init, NEW v \in Pages, NEW w \in Ways PROVE ~TagMatch(v, w)
    BY DEF SlotsCoherent
  <2> QED  BY AddressTypes DEF Init, TagMatch, EmptyEntry
<1>2. TypeOK /\ SlotsCoherent /\ [Next]_vars => SlotsCoherent'
  BY SlotsCoherentInductive
<1> QED  BY <1>1, <1>2, TypeCorrect, PTL DEF Spec

\* A hit never returns a stale frame: not after a swap has moved the frame to
\* another page, nor after an overlapping fill.
THEOREM CoherentCorrect == Spec => []Coherent
<1>1. TypeOK /\ SlotsCoherent => Coherent
  BY HitType DEF SlotsCoherent, Coherent, Lookup
<1> QED  BY <1>1, TypeCorrect, SlotsCoherentCorrect, PTL

-----------------------------------------------------------------------------
(* The refinement of TranslationCache. *)

\* An entry that a lookup of u would select.
Selects(u, e) == Answering(u, e) # {}

\* A page hits exactly when some entry of its set answers for it.
LEMMA HitsSelects ==
  ASSUME NEW u \in Pages
  PROVE  /\ Hits(u) <=> \E w \in Ways : Selects(u, block[SetOf(u)][w])
         /\ Hits(u)' <=> \E w \in Ways : Selects(u, block'[SetOf(u)][w])
BY DEF Hits, HitWays, TagMatch, SlotMatch, Selects, Answering, SetOf, BlockVpn, Offset

\* The requested translation is among the first Ptes candidates of a new block,
\* whichever the mode: a fill makes the walked page answerable.
LEMMA RequestedClaims ==
  ASSUME NEW v \in Pages, NEW fp, Mapped(v)
  PROVE  Rank(v, fp, Offset(v)) \in Slots /\ Offset(v) \in Candidates(v)
<1> DEFINE off == Offset(v)
           before == {p \in Candidates(v) : Priority(v, fp, p) < Priority(v, fp, off)}
<1>1. off \in 0..7 /\ off \in Offsets  BY AddressTypes DEF Offsets
<1>2. off \in AllocatedOffsets(v)
  <2>1. LinePage(v, off) = v  BY BlockAndOffset
  <2> QED  BY <1>1, <2>1 DEF AllocatedOffsets
<1>3. off \in Candidates(v)
  BY <1>2 DEF Candidates, SameSubBlock
<1>4. \A p \in Candidates(v) : p \in 0..7
  BY DEF Candidates, AllocatedOffsets, Offsets
<1>5. Ptes \in {1, 2, 4, 8} /\ Sparsity \in BOOLEAN  BY StlbAssumption
<1> HIDE DEF off
<1>6. CASE Sparsity
  <2>1. Priority(v, fp, off) = 0  BY <1>6 DEF Priority, off
  <2>2. \A p \in Candidates(v) : Priority(v, fp, p) \in Nat
    BY <1>4, <1>6 DEF Priority
  <2>3. before = {}  BY <2>1, <2>2
  <2>4. Rank(v, fp, off) = 0  BY <2>3, FS_EmptySet DEF Rank
  <2> QED  BY <1>3, <1>5, <2>4 DEF Slots, off
<1>7. CASE ~Sparsity
  <2>1. \A p \in Candidates(v) \cup {off} : Priority(v, fp, p) = p
    BY <1>7 DEF Priority
  <2>2. \A p \in before : p \in 0..7 /\ p < off /\ p \in Candidates(v)
    BY <1>3, <1>4, <2>1
  <2>3. \A p \in Candidates(v) : IF Ptes = 1 THEN p = off ELSE SameSubBlock(off, p)
    BY <1>7 DEF Candidates, off
  <2>4. \A p \in before : off - p < Ptes
    <3>1. CASE Ptes = 1  BY <1>1, <2>2, <2>3, <3>1
    <3>2. CASE Ptes = 2  BY <1>1, <2>2, <2>3, <3>2 DEF SameSubBlock
    <3>3. CASE Ptes = 4  BY <1>1, <2>2, <2>3, <3>3 DEF SameSubBlock
    <3>4. CASE Ptes = 8  BY <1>1, <2>2, <3>4
    <3> QED  BY <1>5, <3>1, <3>2, <3>3, <3>4
  <2> DEFINE low == off - (Ptes - 1)
             high == off - 1
  <2>5. low \in Int /\ high \in Int /\ before \subseteq low..high
    BY <1>1, <1>5, <2>2, <2>4
  <2>6. high - low + 1 = Ptes - 1  BY <1>1, <1>5
  <2> HIDE DEF low, high, before
  <2>7. IsFiniteSet(low..high) /\ Cardinality(low..high) = Ptes - 1
    BY <1>5, <2>5, <2>6, FS_Interval
  <2>8. IsFiniteSet(before) /\ Cardinality(before) <= Ptes - 1
    BY <2>5, <2>7, FS_Subset
  <2>9. Cardinality(before) \in 0..(Ptes - 1)
    BY <1>5, <2>8, FS_CardinalityType
  <2>10. Rank(v, fp, off) = Cardinality(before)  BY DEF Rank, before
  <2> QED  BY <1>3, <2>9, <2>10 DEF Slots, off
<1> QED  BY <1>5, <1>6, <1>7

\* Two candidates never claim the same slot.
LEMMA OneClaim ==
  ASSUME NEW v \in Pages, NEW fp, NEW s, NEW o1 \in Claims(v, fp, s),
         NEW o2 \in Claims(v, fp, s)
  PROVE  o1 = o2
<1> DEFINE C == Candidates(v)
           P(o) == Priority(v, fp, o)
           before(o) == {p \in C : P(p) < P(o)}
<1>1. o1 \in C /\ o2 \in C /\ Rank(v, fp, o1) = Rank(v, fp, o2)  BY DEF Claims
<1>2. C \subseteq 0..7  BY DEF Candidates, AllocatedOffsets, Offsets
<1>3. \A o \in C : P(o) \in Nat  BY <1>2 DEF Priority
<1>4. Offset(v) \in 0..7  BY AddressTypes DEF Offsets
<1>5. \A o, p \in C : P(o) = P(p) => o = p  BY <1>2, <1>4 DEF Priority
<1>6. \A o \in C : Rank(v, fp, o) = Cardinality(before(o))  BY DEF Rank
<1>7. IsFiniteSet(C)
  <2>1. IsFiniteSet(0..7)
    <3>1. 0 \in Int /\ 7 \in Int  OBVIOUS
    <3> QED  BY <3>1, FS_Interval, Zenon
  <2>2. C \in SUBSET (0..7)  BY <1>2
  <2> HIDE DEF C
  <2> QED  BY <2>1, <2>2, FS_Subset
<1> HIDE DEF C, P
<1>8. ASSUME NEW o \in C, NEW p \in C, P(o) < P(p)
      PROVE  Cardinality(before(o)) # Cardinality(before(p))
  <2>1. before(o) \subseteq before(p)  BY <1>3, <1>8
  <2>2. o \in before(p) /\ o \notin before(o)  BY <1>3, <1>8
  <2>3. IsFiniteSet(before(p))  BY <1>7, FS_Subset
  <2> HIDE DEF before
  <2>4. before(o) \in SUBSET before(p) /\ before(o) # before(p)  BY <2>1, <2>2
  <2> QED  BY <2>3, <2>4, FS_Subset
<1>9. ~(P(o1) < P(o2)) /\ ~(P(o2) < P(o1))  BY <1>1, <1>6, <1>8
<1> QED  BY <1>1, <1>3, <1>5, <1>9

\* The new block of a mapped page answers for it.
LEMMA NewEntrySelects ==
  ASSUME NEW v \in Pages, NEW fp, Mapped(v)
  PROVE  Selects(v, NewEntry(v, fp))
<1> DEFINE r == Rank(v, fp, Offset(v))
           filled == {s \in Slots : Claims(v, fp, s) # {}}
           off == [s \in Slots |-> IF s \in filled
                              THEN CHOOSE o \in Claims(v, fp, s) : TRUE ELSE 0]
<1>1. r \in Slots /\ Offset(v) \in Candidates(v)  BY RequestedClaims
<1>2. Offset(v) \in Claims(v, fp, r)  BY <1>1 DEF Claims
<1>3. r \in filled  BY <1>1, <1>2
<1>4. off[r] \in Claims(v, fp, r)  BY <1>1, <1>3
<1>5. off[r] = Offset(v)
  <2>1. \A o \in Claims(v, fp, r) : o = Offset(v)
    BY <1>2, OneClaim
  <2> QED  BY <1>4, <2>1
<1>6. /\ NewEntry(v, fp).tag = BlockVpn(v) /\ NewEntry(v, fp).valid = filled
      /\ NewEntry(v, fp).offset = off
  BY DEF NewEntry
<1> HIDE DEF r, filled, off
<1>7. r \in Answering(v, NewEntry(v, fp))  BY <1>3, <1>5, <1>6 DEF Answering
<1> QED  BY <1>7 DEF Selects

\* Steps that only change mask bits keep every answer.
SameSlots(e, f) ==
  f.tag = e.tag /\ f.valid = e.valid /\ f.offset = e.offset /\ f.pte = e.pte

\* A step that neither fills nor changes the page table keeps what every slot holds.
LEMMA MaskStep ==
  ASSUME TypeOK, [Next]_vars, \A v \in Pages : ~Fill(v), UNCHANGED pageTable,
         NEW i \in Sets, NEW w \in Ways
  PROVE  SameSlots(block[i][w], block'[i][w])
<1>1. block \in [Sets -> [Ways -> Entry]]  BY DEF TypeOK
<1>2. block[i][w] \in Entry  BY <1>1
<1>3. ASSUME NEW v \in Pages, ReadHit(v) PROVE SameSlots(block[i][w], block'[i][w])
  <2> DEFINE x == Least(HitWays(v))
             s == Least(SlotMatch(v, x))
  <2>1. x \in Ways /\ SetOf(v) \in Sets  BY <1>3, HitType, AddressTypes DEF ReadHit
  <2>2. block' = [block EXCEPT ![SetOf(v)][x] = Access(@, s)]  BY <1>3 DEF ReadHit
  <2>3. ASSUME NEW e \in Entry, NEW t PROVE SameSlots(e, Access(e, t))
    BY DEF SameSlots, Access, Entry
  <2> HIDE DEF x, s
  <2>4. block'[i][w] = IF i = SetOf(v) /\ w = x THEN Access(block[i][w], s) ELSE block[i][w]
    BY <1>1, <2>1, <2>2
  <2> QED  BY <1>2, <2>3, <2>4 DEF SameSlots
<1>4. ASSUME NEW v \in Pages, NEW instruction \in BOOLEAN, ReadMiss(v, instruction)
      PROVE  UNCHANGED block
  <2>1. \A f \in Frames : [pageTable EXCEPT ![v] = f][v] = f  BY DEF TypeOK
  <2>2. Mapped(v) <=> pageTable[v] # NoFrame  BY DEF Mapped
  <2>3. ASSUME ~Mapped(v), MappedPages # {},
               pageTable' = [pageTable EXCEPT ![v] = pageTable[Least(MappedPages)],
                                              ![Least(MappedPages)] = NoFrame]
        PROVE  FALSE
    BY <2>2, <2>3, SwapVictim DEF TypeOK
  <2> QED  BY <1>4, <2>3 DEF ReadMiss, VaToPa
<1>5. CASE ResetCacheStats
  <2>1. block'[i][w] = [block[i][w] EXCEPT !.accessed = {}]
    BY <1>1, <1>5 DEF ResetCacheStats
  <2> QED  BY <1>2, <2>1 DEF SameSlots, Entry
<1>6. CASE FlushStatCounters
  <2>1. \/ block'[i][w] = block[i][w]
        \/ block'[i][w] = [block[i][w] EXCEPT !.accessed = {}, !.prefilled = {}]
    BY <1>1, <1>6 DEF FlushStatCounters
  <2>2. \A e \in Entry : SameSlots(e, [e EXCEPT !.accessed = {}, !.prefilled = {}])
    BY DEF SameSlots, Entry
  <2> QED  BY <1>2, <2>1, <2>2 DEF SameSlots
<1>7. CASE UNCHANGED vars \/ \E v \in Pages : PrefetchPage(v)
  BY <1>7 DEF vars, PrefetchPage, SameSlots
<1>8. CASE UNCHANGED block  BY <1>8 DEF SameSlots
<1> QED  BY <1>3, <1>4, <1>5, <1>6, <1>7, <1>8 DEF Next

\* A page without a frame is in no slot.
LEMMA UnmappedMisses ==
  ASSUME SlotsCoherent, NEW u \in Pages, pageTable[u] = NoFrame
  PROVE  ~Hits(u) /\ \A w \in Ways : ~Selects(u, block[SetOf(u)][w])
BY DEF SlotsCoherent, Hits, HitWays, TagMatch, SlotMatch, Selects, Answering

\* A swap makes the STLB miss on the victim and on no other page.
LEMMA SwapAnswers ==
  ASSUME TypeOK, NEW x \in Pages, block' = InvalidatedBlocks(x), NEW u \in Pages
  PROVE  Hits(u)' <=> Hits(u) /\ u # x
<1>1. block \in [Sets -> [Ways -> Entry]] /\ SetOf(u) \in Sets /\ SetOf(x) \in Sets
  BY AddressTypes DEF TypeOK
<1>2. ASSUME NEW w \in Ways
      PROVE  Selects(u, block'[SetOf(u)][w]) <=> Selects(u, block[SetOf(u)][w]) /\ u # x
  <2> DEFINE e == block[SetOf(u)][w]
             S == SlotMatch(x, w)
             f == block'[SetOf(u)][w]
  <2>1. e \in Entry  BY <1>1
  <2>2. f = IF SetOf(u) = SetOf(x) /\ TagMatch(x, w) THEN Without(e, S) ELSE e
    BY <1>1 DEF InvalidatedBlocks
  <2>3. ASSUME NEW T PROVE /\ Without(e, T).valid = e.valid \ T
                           /\ Without(e, T).tag = e.tag
                           /\ Without(e, T).offset = e.offset
    BY <2>1 DEF Without, Entry
  <2>4. CASE SetOf(u) = SetOf(x) /\ TagMatch(x, w)
    <3>1. S = {s \in e.valid : e.offset[s] = Offset(x)} /\ e.tag = BlockVpn(x)
      BY <2>4 DEF SlotMatch, TagMatch
    <3> HIDE DEF e, f, S
    <3>2. CASE u = x
      <4>1. f.valid = e.valid \ S /\ f.offset = e.offset  BY <2>2, <2>3, <2>4
      <4>2. Answering(u, f) = {}  BY <3>1, <3>2, <4>1 DEF Answering
      <4> QED  BY <3>2, <4>2 DEF Selects, f
    <3>3. CASE u # x
      <4>1. e.tag = BlockVpn(u) => Offset(u) # Offset(x)
        BY <3>1, <3>3, BlockAndOffset
      <4>2. f.tag = e.tag /\ f.valid = e.valid \ S /\ f.offset = e.offset
        BY <2>2, <2>3, <2>4
      <4>3. Answering(u, f) = Answering(u, e)
        BY <3>1, <4>1, <4>2 DEF Answering
      <4> QED  BY <3>3, <4>3 DEF Selects, e, f
    <3> QED  BY <3>2, <3>3 DEF e, f
  <2>5. CASE ~(SetOf(u) = SetOf(x) /\ TagMatch(x, w))
    <3>1. u = x => ~Selects(u, e)
      BY <2>5 DEF Selects, Answering, TagMatch
    <3> QED  BY <2>2, <2>5, <3>1
  <2> QED  BY <2>4, <2>5
<1> QED  BY <1>2, HitsSelects

\* After a fill the walked page is answered from the page table.
LEMMA FillAnswers ==
  ASSUME TypeOK, SlotsCoherent, Coherent', NEW v \in Pages, Fill(v)
  PROVE  Lookup(v)' = pageTable[v]
<1>1. pageTable' = pageTable  BY DEF Fill
<1>2. Lookup(v)' = IF Hits(v)' THEN pageTable[v] ELSE NoFrame
  BY <1>1 DEF Coherent, Lookup
<1>3. CASE ~Mapped(v)  BY <1>2, <1>3 DEF Mapped
<1>4. CASE Mapped(v)
  <2>1. SetOf(v) \in Sets /\ block \in [Sets -> [Ways -> Entry]]
    BY AddressTypes DEF TypeOK
  <2>2. ASSUME NEW w \in Ways, NEW t \in Slots, Installs(v, w, t) PROVE Hits(v)'
    <3> DEFINE e == block[SetOf(v)][w]
               f == InstallInSlot(e, v, t)
    <3>1. e \in Entry /\ e.tag = BlockVpn(v)
      BY <2>1, <2>2 DEF Installs, ExistingWays, TagMatch
    <3>2. f.tag = e.tag /\ t \in f.valid /\ f.offset[t] = Offset(v)
      BY <3>1, InstallFacts
    <3>3. block'[SetOf(v)][w] = f  BY <2>1, <2>2 DEF Installs
    <3> HIDE DEF e, f
    <3>4. Selects(v, f)  BY <3>1, <3>2 DEF Selects, Answering
    <3> QED  BY <3>3, <3>4, HitsSelects
  <2>3. ASSUME NEW w \in Ways, NEW fp \in Filters, Replaces(v, w, fp) PROVE Hits(v)'
    <3>1. block'[SetOf(v)][w] = NewEntry(v, fp)  BY <2>1, <2>3 DEF Replaces
    <3>2. Selects(v, NewEntry(v, fp))  BY <1>4, NewEntrySelects
    <3> QED  BY <3>1, <3>2, HitsSelects
  <2> QED  BY <1>2, <1>4, <2>2, <2>3, FillCases
<1> QED  BY <1>3, <1>4

\* Each step of the STLB is a step of the translation cache, or leaves every
\* answer and the page table as they were.
LEMMA StepRefines ==
  ASSUME TypeOK, SlotsCoherent, Coherent, Coherent', [Next]_vars
  PROVE  [Abstract!AbsNext]_(Abstract!absVars)
<1> DEFINE answer == [v \in Pages |-> Lookup(v)]
<1>1. \A u \in Pages : Lookup(u) = IF Hits(u) THEN pageTable[u] ELSE NoFrame
  BY DEF Coherent, Lookup
<1>2. \A u \in Pages : Lookup(u)' = IF Hits(u)' THEN pageTable'[u] ELSE NoFrame
  BY DEF Coherent, Lookup
<1>3. pageTable \in [Pages -> Frames \cup {NoFrame}]  BY DEF TypeOK
<1>4. ASSUME \A u \in Pages : Lookup(u)' = Lookup(u) PROVE answer' = answer
  BY <1>4
<1>5. CASE UNCHANGED pageTable /\ \A v \in Pages : ~Fill(v)
  <2>1. \A i \in Sets, w \in Ways : SameSlots(block[i][w], block'[i][w])
    BY <1>5, MaskStep
  <2>2. \A u \in Pages : Hits(u)' <=> Hits(u)
    BY <2>1, HitsSelects, AddressTypes DEF SameSlots, Selects, Answering
  <2>3. \A u \in Pages : Lookup(u)' = Lookup(u)  BY <1>1, <1>2, <1>5, <2>2
  <2> QED  BY <1>4, <1>5, <2>3 DEF Abstract!absVars
<1>6. ASSUME NEW v \in Pages, Fill(v) PROVE Abstract!Complete(v)
  <2>1. UNCHANGED pageTable  BY <1>6 DEF Fill
  <2>2. \A u \in Pages : answer'[u] \in {answer[u], NoFrame, pageTable[u]}
    BY <1>2, <2>1
  <2>3. answer'[v] = pageTable[v]  BY <1>6, FillAnswers
  <2> QED  BY <2>1, <2>2, <2>3 DEF Abstract!Complete, Abstract!FromPageTable
<1>7. ASSUME NEW v \in Pages, NEW f \in FreeFrames, UNCHANGED block,
             pageTable[v] = NoFrame, pageTable' = [pageTable EXCEPT ![v] = f]
      PROVE  Abstract!Map(v, f)
  <2>1. \A u \in Pages : Hits(u)' <=> Hits(u)  BY <1>7, HitsSelects
  <2>2. ~Hits(v)  BY <1>7, UnmappedMisses
  <2>3. \A u \in Pages : u # v => pageTable'[u] = pageTable[u]  BY <1>3, <1>7
  <2>4. \A u \in Pages : Lookup(u)' = Lookup(u)  BY <1>1, <1>2, <2>1, <2>2, <2>3
  <2>5. answer' = answer  BY <1>4, <2>4
  <2>6. \A u \in Pages : pageTable[u] # f  BY <1>7 DEF FreeFrames
  <2> QED  BY <1>7, <2>5, <2>6 DEF Abstract!Map
<1>8. ASSUME NEW v \in Pages, NEW x \in Pages, pageTable[v] = NoFrame,
             pageTable[x] # NoFrame,
             pageTable' = [pageTable EXCEPT ![v] = pageTable[x], ![x] = NoFrame],
             block' = InvalidatedBlocks(x)
      PROVE  Abstract!Swap(v, x)
  <2>1. \A u \in Pages : Hits(u)' <=> Hits(u) /\ u # x  BY <1>8, SwapAnswers
  <2>2. ~Hits(v)  BY <1>8, UnmappedMisses
  <2>3. \A u \in Pages : u # v /\ u # x => pageTable'[u] = pageTable[u]  BY <1>3, <1>8
  <2>4. \A u \in Pages : Lookup(u)' = IF u = x THEN NoFrame ELSE Lookup(u)
    BY <1>1, <1>2, <2>1, <2>2, <2>3
  <2>5. answer' = [answer EXCEPT ![x] = NoFrame]  BY <2>4
  <2> QED  BY <1>8, <2>5 DEF Abstract!Swap
<1>9. CASE UNCHANGED pageTable
  BY <1>5, <1>6, <1>9 DEF Abstract!AbsNext
<1>10. CASE ~UNCHANGED pageTable
  <2>1. \/ \E v \in Pages, f \in Frames : Abstract!Map(v, f)
        \/ \E v, x \in Pages : Abstract!Swap(v, x)
    BY <1>7, <1>8, <1>10, PageTableStep, SwapVictim DEF FreeFrames
  <2> QED  BY <2>1 DEF Abstract!AbsNext
<1> QED  BY <1>9, <1>10

\* The empty STLB is an initial state of the translation cache.
LEMMA InitRefines == Init => Abstract!AbsInit
<1> SUFFICES ASSUME Init PROVE Abstract!AbsInit  OBVIOUS
<1>1. \A v \in Pages, w \in Ways : ~TagMatch(v, w)
  BY AddressTypes DEF Init, TagMatch, EmptyEntry
<1>2. \A v \in Pages : Lookup(v) = NoFrame
  BY <1>1 DEF Lookup, Hits, HitWays
<1>3. [v \in Pages |-> Lookup(v)] = [v \in Pages |-> NoFrame]  BY <1>2
<1> QED  BY <1>3 DEF Init, Abstract!AbsInit

\* Seen through its lookups the block STLB is a cache of the page table, in both
\* modes and for every geometry: a swap takes the victim's translation with it in
\* the same step, and the walk a fill completes is answerable at once.
THEOREM Refinement == Spec => RefinesTranslationCache
<1>1. Init => Abstract!AbsInit  BY InitRefines
<1>2. TypeOK /\ SlotsCoherent /\ Coherent /\ Coherent' /\ [Next]_vars
      => [Abstract!AbsNext]_(Abstract!absVars)
  BY StepRefines
<1> QED  BY <1>1, <1>2, TypeCorrect, SlotsCoherentCorrect, CoherentCorrect, PTL
         DEF Spec, RefinesTranslationCache, Abstract!AbsSpec

-----------------------------------------------------------------------------
(* Sums over the histogram. *)

Cells == 0 .. Ptes
RowType == [Cells -> Nat]
MatrixType == [Cells -> RowType]

LEMMA CellsFacts ==
  /\ Ptes \in Nat /\ 0 \in Cells /\ Ptes \in Cells /\ Cells \subseteq Nat
  /\ \A n \in Cells : n # 0 => n - 1 \in Cells
<1>1. Ptes \in Nat /\ Ptes # 0  BY StlbAssumption
<1> QED  BY <1>1 DEF Cells

\* f is the sequence of partial sums of row h up to n.
PartialSums(f, h, n) ==
  f \in [0 .. n -> Nat] /\ f[0] = h[0] /\ \A i \in 1 .. n : f[i] = f[i - 1] + h[i]

\* Every row has its partial sums.
LEMMA PartialSumsExist ==
  ASSUME NEW h \in RowType, NEW n \in Cells
  PROVE  \E f : PartialSums(f, h, n)
<1> DEFINE S == {m \in Cells : ~ \E f : PartialSums(f, h, m)}
<1>0. Ptes \in Nat  BY CellsFacts
<1>1. SUFFICES ASSUME S # {} PROVE FALSE  OBVIOUS
<1> DEFINE m == Least(S)
<1>2. m \in S /\ \A k \in S : m <= k
  <2>1. S \in SUBSET Nat  BY CellsFacts
  <2> HIDE DEF S
  <2> QED  BY <1>1, <2>1, LeastElement
<1> HIDE DEF m
<1>3. m \in 0 .. Ptes /\ h[m] \in Nat /\ h[0] \in Nat
  BY <1>0, <1>2 DEF Cells, RowType
<1>4. m # 0
  <2> DEFINE z == [i \in 0 .. 0 |-> h[0]]
  <2>1. z \in [0 .. 0 -> Nat] /\ z[0] = h[0] /\ 1 .. 0 = {}  BY <1>3
  <2>2. PartialSums(z, h, 0)  BY <2>1 DEF PartialSums
  <2> QED  BY <1>2, <2>2
<1>5. m \in Nat /\ m - 1 \in Cells /\ m - 1 \notin S  BY <1>0, <1>2, <1>3, <1>4 DEF Cells
<1>6. PICK f : PartialSums(f, h, m - 1)  BY <1>5
<1> DEFINE g == [i \in 0 .. m |-> IF i = m THEN f[m - 1] + h[m] ELSE f[i]]
<1>7. \A i \in 0 .. m - 1 : f[i] \in Nat
  BY <1>0, <1>4, <1>5, <1>6 DEF PartialSums
<1>8. g \in [0 .. m -> Nat]  BY <1>3, <1>4, <1>5, <1>7
<1>9. g[0] = h[0]  BY <1>4, <1>5, <1>6 DEF PartialSums
<1>10. \A i \in 1 .. m : g[i] = g[i - 1] + h[i]  BY <1>4, <1>5, <1>6 DEF PartialSums
<1>11. PartialSums(g, h, m)  BY <1>8, <1>9, <1>10 DEF PartialSums
<1> QED  BY <1>2, <1>11

\* The recursive function in Total computes them.
LEMMA TotalIs ==
  ASSUME NEW h \in RowType
  PROVE  \E f : PartialSums(f, h, Ptes) /\ Total(h) = f[Ptes]
<1> DEFINE IsSum(f) == f = [k \in 0 .. Ptes |-> IF k = 0 THEN h[0] ELSE f[k - 1] + h[k]]
           s == CHOOSE f : IsSum(f)
<1>0. Ptes \in Nat /\ Ptes \in Cells  BY CellsFacts
<1>1. PICK f : PartialSums(f, h, Ptes)  BY <1>0, PartialSumsExist
<1>2. IsSum(f)
  <2>1. f = [k \in 0 .. Ptes |-> f[k]]  BY <1>1 DEF PartialSums
  <2>2. \A k \in 0 .. Ptes : f[k] = IF k = 0 THEN h[0] ELSE f[k - 1] + h[k]
    BY <1>0, <1>1 DEF PartialSums
  <2> QED  BY <2>1, <2>2
<1>3. Total(h) = s[Ptes]  BY DEF Total
<1>4. IsSum(s)  BY <1>2
<1>5. \A k \in 0 .. Ptes : s[k] = IF k = 0 THEN h[0] ELSE s[k - 1] + h[k]
  BY <1>4
<1> HIDE DEF s, IsSum
<1> DEFINE S == {k \in Cells : s[k] # f[k]}
<1>6. S = {}
  <2> SUFFICES ASSUME S # {} PROVE FALSE  OBVIOUS
  <2> DEFINE m == Least(S)
  <2>1. m \in S /\ \A k \in S : m <= k
    <3>1. S \in SUBSET Nat  BY CellsFacts
    <3> HIDE DEF S
    <3> QED  BY <3>1, LeastElement
  <2> HIDE DEF m
  <2>2. m # 0  BY <1>0, <1>1, <1>5, <2>1 DEF PartialSums
  <2>3. m \in 1 .. Ptes /\ m - 1 \in 0 .. Ptes /\ m - 1 \notin S
    BY <1>0, <2>1, <2>2 DEF Cells
  <2>4. s[m] = s[m - 1] + h[m] /\ f[m] = f[m - 1] + h[m] /\ s[m - 1] = f[m - 1]
    BY <1>1, <1>5, <2>2, <2>3 DEF PartialSums, Cells
  <2> QED  BY <2>1, <2>4
<1>7. s[Ptes] = f[Ptes]  BY <1>0, <1>6
<1> QED  BY <1>1, <1>3, <1>7

\* A total is a number.
LEMMA TotalNat ==
  ASSUME NEW h \in RowType
  PROVE  Total(h) \in Nat
<1>1. PICK f : PartialSums(f, h, Ptes) /\ Total(h) = f[Ptes]  BY TotalIs
<1> QED  BY <1>1, CellsFacts DEF PartialSums

\* A row of zeros.
LEMMA TotalZero ==
  ASSUME NEW h \in RowType, \A n \in Cells : h[n] = 0
  PROVE  Total(h) = 0
<1>0. Ptes \in Nat /\ Ptes \in Cells  BY CellsFacts
<1>1. PICK f : PartialSums(f, h, Ptes) /\ Total(h) = f[Ptes]  BY TotalIs
<1> DEFINE S == {n \in Cells : f[n] # 0}
<1>2. S = {}
  <2> SUFFICES ASSUME S # {} PROVE FALSE  OBVIOUS
  <2> DEFINE m == Least(S)
  <2>1. m \in S /\ \A k \in S : m <= k
    <3>1. S \in SUBSET Nat  BY CellsFacts
    <3> HIDE DEF S
    <3> QED  BY <3>1, LeastElement
  <2> HIDE DEF m
  <2>2. m # 0  BY <1>0, <1>1, <2>1 DEF PartialSums, Cells
  <2>3. m \in 1 .. Ptes /\ m - 1 \in 0 .. Ptes /\ m - 1 \notin S
    BY <1>0, <2>1, <2>2 DEF Cells
  <2>4. f[m] = f[m - 1] + h[m] /\ h[m] = 0 /\ f[m - 1] = 0
    BY <1>1, <2>1, <2>3 DEF PartialSums, Cells
  <2> QED  BY <2>1, <2>4
<1> QED  BY <1>0, <1>1, <1>2

\* The members of a finite set, each counted in one cell, add their number.
LEMMA TotalSpread ==
  ASSUME NEW h \in RowType, NEW g \in RowType, NEW A, IsFiniteSet(A), NEW k \in [A -> Cells],
         \A n \in Cells : g[n] = h[n] + Cardinality({a \in A : k[a] = n})
  PROVE  Total(g) = Total(h) + Cardinality(A)
<1>0. Ptes \in Nat /\ Ptes \in Cells  BY CellsFacts
<1>1. PICK f : PartialSums(f, h, Ptes) /\ Total(h) = f[Ptes]  BY TotalIs
<1>2. PICK e : PartialSums(e, g, Ptes) /\ Total(g) = e[Ptes]  BY TotalIs
<1> DEFINE At(n) == {a \in A : k[a] = n}
           Upto(n) == {a \in A : k[a] <= n}
           S == {n \in Cells : e[n] # f[n] + Cardinality(Upto(n))}
<1>3. ASSUME NEW T \in SUBSET A PROVE IsFiniteSet(T) /\ Cardinality(T) \in Nat
  BY FS_Subset, FS_CardinalityType
<1>4. ASSUME NEW m \in 1 .. Ptes
      PROVE  Cardinality(Upto(m)) = Cardinality(Upto(m - 1)) + Cardinality(At(m))
  <2>1. \A a \in A : k[a] \in Nat  BY CellsFacts
  <2>2. Upto(m) = Upto(m - 1) \cup At(m) /\ Upto(m - 1) \cap At(m) = {}
    BY <1>0, <2>1
  <2>3. Upto(m - 1) \in SUBSET A /\ At(m) \in SUBSET A  OBVIOUS
  <2> HIDE DEF Upto, At
  <2>4. /\ IsFiniteSet(Upto(m - 1)) /\ IsFiniteSet(At(m))
        /\ Cardinality(Upto(m - 1)) \in Nat /\ Cardinality(At(m)) \in Nat
    BY <1>3, <2>3
  <2>5. Cardinality(Upto(m - 1) \cup At(m))
          = Cardinality(Upto(m - 1)) + Cardinality(At(m)) - Cardinality({})
    BY <2>2, <2>4, FS_Union
  <2> QED  BY <2>2, <2>4, <2>5, FS_EmptySet
<1>5. Upto(0) = At(0)
  <2>1. \A a \in A : k[a] \in Nat  BY CellsFacts
  <2> QED  BY <2>1
<1>6. Upto(Ptes) = A
  <2>1. \A a \in A : k[a] \in 0 .. Ptes  BY DEF Cells
  <2> QED  BY <1>0, <2>1
<1>7. \A n : Upto(n) \in SUBSET A /\ At(n) \in SUBSET A  OBVIOUS
<1>8. \A n : Cardinality(Upto(n)) \in Nat /\ Cardinality(At(n)) \in Nat  BY <1>3, <1>7
<1>9. \A n \in Cells : g[n] = h[n] + Cardinality(At(n))  OBVIOUS
<1> HIDE DEF Upto, At
<1>10. S = {}
  <2> SUFFICES ASSUME S # {} PROVE FALSE  OBVIOUS
  <2> DEFINE m == Least(S)
  <2>1. m \in S /\ \A j \in S : m <= j
    <3>1. S \in SUBSET Nat  BY CellsFacts
    <3> HIDE DEF S
    <3> QED  BY <3>1, LeastElement
  <2> HIDE DEF m
  <2>2. m # 0
    <3>1. 0 \in Cells  BY CellsFacts
    <3>2. e[0] = f[0] + Cardinality(Upto(0))
      BY <1>1, <1>2, <1>5, <1>9, <3>1 DEF PartialSums
    <3> QED  BY <2>1, <3>2
  <2>3. m \in 1 .. Ptes /\ m - 1 \in 0 .. Ptes /\ m - 1 \notin S /\ m \in Cells
    BY <1>0, <2>1, <2>2 DEF Cells
  <2>4. f[m] = f[m - 1] + h[m] /\ e[m] = e[m - 1] + g[m]
    BY <1>1, <1>2, <2>3 DEF PartialSums
  <2>5. f[m - 1] \in Nat /\ h[m] \in Nat  BY <1>1, <2>3 DEF PartialSums, RowType
  <2>6. e[m - 1] = f[m - 1] + Cardinality(Upto(m - 1))  BY <2>3 DEF Cells
  <2>7. g[m] = h[m] + Cardinality(At(m))  BY <1>9, <2>3
  <2>8. e[m] = f[m] + Cardinality(Upto(m))  BY <1>4, <1>8, <2>3, <2>4, <2>5, <2>6, <2>7
  <2> QED  BY <2>1, <2>8
<1> QED  BY <1>0, <1>1, <1>2, <1>6, <1>10

\* The members a of A are added to histogram M, each in the cell k[a], l[a].
Spread(M, N, A, k, l) ==
  \A n, m \in Cells : N[n][m] = M[n][m] + Cardinality({a \in A : k[a] = n /\ l[a] = m})

\* The same in two dimensions.
LEMMA CellsSpread ==
  ASSUME NEW M \in MatrixType, NEW N \in MatrixType, NEW A, IsFiniteSet(A),
         NEW k \in [A -> Cells], NEW l \in [A -> Cells], Spread(M, N, A, k, l)
  PROVE  AllCells(N) = AllCells(M) + Cardinality(A)
<1> DEFINE At(n) == {a \in A : k[a] = n}
           Rows(X) == [n \in 0 .. Ptes |-> Total(X[n])]
<1>1. ASSUME NEW n \in Cells
      PROVE  Total(N[n]) = Total(M[n]) + Cardinality(At(n))
  <2> DEFINE B == At(n)
             i == [a \in B |-> l[a]]
  <2>1. IsFiniteSet(B)  BY FS_Subset
  <2>2. i \in [B -> Cells]  OBVIOUS
  <2>3. N[n] \in RowType /\ M[n] \in RowType  BY DEF MatrixType
  <2>4. ASSUME NEW m \in Cells
        PROVE  N[n][m] = M[n][m] + Cardinality({a \in B : i[a] = m})
    <3>1. {a \in B : i[a] = m} = {a \in A : k[a] = n /\ l[a] = m}  OBVIOUS
    <3> QED  BY <3>1 DEF Spread
  <2> HIDE DEF B, i
  <2>5. Total(N[n]) = Total(M[n]) + Cardinality(B)  BY <2>1, <2>2, <2>3, <2>4, TotalSpread
  <2> QED  BY <2>5 DEF B
<1>2. ASSUME NEW X \in MatrixType
      PROVE  Rows(X) \in RowType /\ \A n \in Cells : Rows(X)[n] = Total(X[n])
  <2>1. \A n \in Cells : Total(X[n]) \in Nat  BY TotalNat DEF MatrixType
  <2> QED  BY <2>1 DEF RowType, Cells
<1>3. /\ Rows(M) \in RowType /\ Rows(N) \in RowType
      /\ \A n \in Cells : Rows(N)[n] = Rows(M)[n] + Cardinality(At(n))
  BY <1>1, <1>2
<1>4. AllCells(M) = Total(Rows(M)) /\ AllCells(N) = Total(Rows(N))  BY DEF AllCells
<1> HIDE DEF Rows
<1>5. Total(Rows(N)) = Total(Rows(M)) + Cardinality(A)  BY <1>3, TotalSpread
<1> QED  BY <1>4, <1>5

-----------------------------------------------------------------------------
(* The eviction histogram. *)

\* An entry has bits for valid slots only.
Masked(e) == e \in Entry /\ e.accessed \cup e.prefilled \subseteq e.valid

\* What HistogramConsistent says of a count and a histogram.
HistogramOK(count, M) ==
  /\ count = AllCells(M)
  /\ \A n, m \in Cells : M[n][m] > 0 => 1 <= m /\ m <= n

LEMMA MaskedSizes ==
  ASSUME NEW e, Masked(e)
  PROVE  /\ Cardinality(e.valid) \in Cells /\ Cardinality(e.accessed) \in Cells
         /\ Cardinality(e.accessed) <= Cardinality(e.valid)
         /\ e.accessed # {} => 1 <= Cardinality(e.accessed)
<1>1. e.valid \in SUBSET Slots /\ e.accessed \in SUBSET Slots /\ e.accessed \in SUBSET e.valid
  BY DEF Masked, Entry
<1>2. /\ IsFiniteSet(e.valid) /\ Cardinality(e.valid) \in Cells
      /\ IsFiniteSet(e.accessed) /\ Cardinality(e.accessed) \in Cells
  BY <1>1, SlotCount DEF Cells
<1>3. Cardinality(e.accessed) <= Cardinality(e.valid)  BY <1>1, <1>2, FS_Subset
<1>4. e.accessed # {} => Cardinality(e.accessed) # 0  BY <1>2, FS_EmptySet
<1>5. Cardinality(e.accessed) # 0 => 1 <= Cardinality(e.accessed)  BY <1>2, CellsFacts
<1> QED  BY <1>2, <1>3, <1>4, <1>5

\* An eviction that is counted is counted in one cell.
LEMMA CountedOnce ==
  ASSUME TypeOK, HistogramOK(evictions, matrix), NEW e, Masked(e), CountEviction(e)
  PROVE  HistogramOK(evictions', matrix')
<1>1. matrix \in MatrixType  BY DEF TypeOK, MatrixType, RowType, Cells
<1>2. CASE e.accessed = {}
  <2>1. evictions' = evictions /\ matrix' = matrix
    BY <1>2 DEF CountEviction, Counted, TypeOK
  <2> QED  BY <2>1
<1>3. CASE e.accessed # {}
  <2> DEFINE n == Cardinality(e.valid)
             m == Cardinality(e.accessed)
  <2>1. n \in Cells /\ m \in Cells /\ m <= n /\ 1 <= m  BY <1>3, MaskedSizes
  <2>2. /\ matrix' = [matrix EXCEPT ![n][m] = @ + 1]
        /\ evictions' = evictions + 1
    BY <1>3 DEF CountEviction, Counted
  <2>3. matrix' \in MatrixType
    BY CountEvictionType DEF Masked, MatrixType, RowType, Cells
  <2> HIDE DEF n, m
  <2>4. ASSUME NEW a \in Cells, NEW b \in Cells
        PROVE  matrix'[a][b] = IF a = n /\ b = m THEN matrix[a][b] + 1 ELSE matrix[a][b]
    BY <1>1, <2>1, <2>2 DEF MatrixType, RowType
  <2>5. \A a, b \in Cells : matrix[a][b] \in Nat  BY <1>1 DEF MatrixType, RowType
  <2> DEFINE A == {0}
             k == [x \in A |-> n]
             l == [x \in A |-> m]
  <2>6. IsFiniteSet(A) /\ Cardinality(A) = 1  BY FS_Singleton
  <2>7. k \in [A -> Cells] /\ l \in [A -> Cells]  BY <2>1
  <2>8. ASSUME NEW a \in Cells, NEW b \in Cells
        PROVE  matrix'[a][b] = matrix[a][b] + Cardinality({x \in A : k[x] = a /\ l[x] = b})
    <3>1. CASE a = n /\ b = m
      <4>1. {x \in A : k[x] = a /\ l[x] = b} = A  BY <3>1
      <4> QED  BY <2>4, <2>6, <3>1, <4>1
    <3>2. CASE ~(a = n /\ b = m)
      <4>1. {x \in A : k[x] = a /\ l[x] = b} = {}  BY <3>2
      <4>2. Cardinality({}) = 0  BY FS_EmptySet
      <4>3. matrix'[a][b] = matrix[a][b] /\ matrix[a][b] \in Nat  BY <2>4, <2>5, <3>2
      <4> HIDE DEF A, k, l
      <4> QED  BY <4>1, <4>2, <4>3
    <3> QED  BY <3>1, <3>2
  <2> HIDE DEF A, k, l
  <2>12. Spread(matrix, matrix', A, k, l)  BY <2>8 DEF Spread
  <2>9. AllCells(matrix') = AllCells(matrix) + 1
    BY <1>1, <2>3, <2>6, <2>7, <2>12, CellsSpread
  <2>10. evictions' = AllCells(matrix')  BY <2>2, <2>9 DEF HistogramOK
  <2>11. ASSUME NEW a \in Cells, NEW b \in Cells, matrix'[a][b] > 0
         PROVE  1 <= b /\ b <= a
    BY <2>1, <2>4, <2>5, <2>11 DEF HistogramOK
  <2> QED  BY <2>10, <2>11 DEF HistogramOK
<1> QED  BY <1>2, <1>3

\* The empty histogram.
LEMMA ZeroHistogram ==
  ASSUME NEW M, \A n \in Cells : M[n] \in RowType, \A n, m \in Cells : M[n][m] = 0
  PROVE  HistogramOK(0, M)
<1> DEFINE T(n) == Total(M[n])
           R == [n \in 0..Ptes |-> T(n)]
<1>1. \A n \in Cells : T(n) = 0  BY TotalZero
<1> HIDE DEF T
<1>2. R \in RowType /\ \A n \in Cells : R[n] = 0  BY <1>1 DEF RowType, Cells
<1> HIDE DEF R
<1>3. Total(R) = 0  BY <1>2, TotalZero
<1>4. AllCells(M) = 0  BY <1>3 DEF AllCells, R, T
<1>5. \A n, m \in Cells : ~(M[n][m] > 0)  OBVIOUS
<1> QED  BY <1>4, <1>5, Zenon DEF HistogramOK

LEMMA EmptyHistogram == HistogramOK(0, [n \in 0..Ptes |-> [m \in 0..Ptes |-> 0]])
<1> DEFINE M == [n \in 0..Ptes |-> [m \in 0..Ptes |-> 0]]
<1>1. \A n \in Cells : M[n] \in RowType  BY DEF Cells, RowType
<1>2. \A n, m \in Cells : M[n][m] = 0  BY DEF Cells
<1> HIDE DEF M
<1>3. HistogramOK(0, M)  BY <1>1, <1>2, ZeroHistogram
<1> QED  BY <1>3 DEF M

\* Entries are masked, and stay so when slots are cleared.
LEMMA EntriesMasked ==
  ASSUME TypeOK, OnePlace, NEW i \in Sets, NEW w \in Ways
  PROVE  Masked(block[i][w]) /\ \A S : Masked(Without(block[i][w], S))
<1>1. block[i][w] \in Entry  BY DEF TypeOK
<1>2. Masked(block[i][w])  BY <1>1 DEF OnePlace, Masked
<1>3. ASSUME NEW S PROVE Masked(Without(block[i][w], S))
  <2> DEFINE e == block[i][w]
  <2>1. Without(e, S) \in Entry  BY <1>1, WithoutType
  <2>2. /\ Without(e, S).valid = e.valid \ S /\ Without(e, S).accessed = e.accessed \ S
        /\ Without(e, S).prefilled = e.prefilled \ S
    BY <1>1 DEF Without, Entry
  <2> HIDE DEF e
  <2> QED  BY <1>2, <2>1, <2>2 DEF Masked, e
<1> QED  BY <1>2, <1>3

\* The histogram stays exact: what is counted has been used, and is counted once.
LEMMA HistogramInductive ==
  ASSUME TypeOK, OnePlace, HistogramOK(evictions, matrix), [Next]_vars
  PROVE  HistogramOK(evictions', matrix')
<1>1. CASE UNCHANGED <<evictions, matrix>>  BY <1>1
<1>2. ASSUME NEW v \in Pages, FillBlock(v)
      PROVE  HistogramOK(evictions', matrix')
  <2> DEFINE w == IF ExistingWays(v) # {} THEN Least(ExistingWays(v)) ELSE VictimWay(v)
             old == block[SetOf(v)][w]
  <2>1. w \in Ways  BY ExistingWayType, VictimWayType
  <2>2. Masked(old)  BY <2>1, AddressTypes, EntriesMasked
  <2>3. CountEviction(old) \/ UNCHANGED <<evictions, matrix>>  BY <1>2 DEF FillBlock
  <2> HIDE DEF old
  <2> QED  BY <1>1, <2>2, <2>3, CountedOnce
<1>3. ASSUME NEW v \in Pages, Fill(v)
      PROVE  HistogramOK(evictions', matrix')
  BY <1>1, <1>2, <1>3 DEF Fill, FillResident
<1>4. ASSUME NEW v \in Pages, NEW instruction \in BOOLEAN, ReadMiss(v, instruction)
      PROVE  HistogramOK(evictions', matrix')
  <2>1. \/ UNCHANGED <<evictions, matrix>>
        \/ MappedPages # {} /\ InvalidateBlock(Least(MappedPages))
    BY <1>4 DEF ReadMiss, VaToPa
  <2>2. CASE MappedPages # {} /\ InvalidateBlock(Least(MappedPages))
    <3> DEFINE u == Least(MappedPages)
               x == Least(Emptied(u))
               e == InvalidatedBlocks(u)[SetOf(u)][x]
    <3>1. u \in Pages  BY <2>2, SwapVictim
    <3>2. CASE Emptied(u) # {}
      <4>1. Emptied(u) \in SUBSET Nat /\ Emptied(u) \subseteq Ways
        BY StlbAssumption DEF Emptied, Ways
      <4> HIDE DEF u
      <4>2. x \in Ways  BY <3>2, <4>1, LeastElement
      <4>3. SetOf(u) \in Sets /\ block \in [Sets -> [Ways -> Entry]]
        BY <3>1, AddressTypes DEF TypeOK
      <4> HIDE DEF x
      <4>4. e = block[SetOf(u)][x] \/ e = Without(block[SetOf(u)][x], SlotMatch(u, x))
        BY <4>2, <4>3 DEF InvalidatedBlocks
      <4>5. Masked(e)  BY <4>2, <4>3, <4>4, EntriesMasked
      <4>6. CountEviction(e)  BY <2>2, <3>2 DEF InvalidateBlock, u, x
      <4> HIDE DEF e
      <4> QED  BY <4>5, <4>6, CountedOnce
    <3>3. CASE Emptied(u) = {}  BY <1>1, <2>2, <3>3 DEF InvalidateBlock
    <3> QED  BY <3>2, <3>3
  <2> QED  BY <1>1, <2>1, <2>2
<1>5. CASE ResetCacheStats
  BY <1>5, EmptyHistogram, Zenon DEF ResetCacheStats
<1>6. CASE FlushStatCounters
  <2> DEFINE A == LiveEntries
             k == [p \in A |-> Cardinality(block[p[1]][p[2]].valid)]
             l == [p \in A |-> Cardinality(block[p[1]][p[2]].accessed)]
  <2>1. ASSUME NEW p \in A
        PROVE  k[p] \in Cells /\ l[p] \in Cells /\ l[p] <= k[p] /\ 1 <= l[p]
    <3>1. p[1] \in Sets /\ p[2] \in Ways /\ block[p[1]][p[2]].accessed # {}
      BY DEF LiveEntries
    <3>2. Masked(block[p[1]][p[2]])  BY <3>1, EntriesMasked
    <3> QED  BY <3>1, <3>2, MaskedSizes
  <2>2. k \in [A -> Cells] /\ l \in [A -> Cells]  BY <2>1
  <2>3. IsFiniteSet(A)
    <3>1. IsFiniteSet(Sets) /\ IsFiniteSet(Ways)
      BY StlbAssumption, FS_Interval DEF Sets, Ways
    <3> QED  BY <3>1, FS_Product, FS_Subset DEF LiveEntries
  <2>4. matrix \in MatrixType  BY DEF TypeOK, MatrixType, RowType, Cells
  <2>5. TypeOK'  BY NextType
  <2>6. matrix' \in MatrixType  BY <2>5 DEF TypeOK, MatrixType, RowType, Cells
  <2>7. ASSUME NEW n \in Cells, NEW m \in Cells
        PROVE  matrix'[n][m] = matrix[n][m] + Cardinality({p \in A : k[p] = n /\ l[p] = m})
    <3> DEFINE B == {p \in LiveEntries : /\ Cardinality(block[p[1]][p[2]].valid) = n
                                         /\ Cardinality(block[p[1]][p[2]].accessed) = m}
    <3>1. matrix'[n][m] = matrix[n][m] + Cardinality(B)
      BY <1>6 DEF FlushStatCounters, Cells
    <3>2. B = {p \in A : k[p] = n /\ l[p] = m}  OBVIOUS
    <3> QED  BY <3>1, <3>2
  <2>8. evictions' = evictions + Cardinality(A)  BY <1>6 DEF FlushStatCounters
  <2>9. \A p \in A : l[p] <= k[p] /\ 1 <= l[p]  BY <2>1
  <2> HIDE DEF A, k, l
  <2>12. Spread(matrix, matrix', A, k, l)  BY <2>7 DEF Spread
  <2>10. AllCells(matrix') = AllCells(matrix) + Cardinality(A)
    BY <2>2, <2>3, <2>4, <2>6, <2>12, CellsSpread
  <2>11. ASSUME NEW n \in Cells, NEW m \in Cells, matrix'[n][m] > 0
         PROVE  1 <= m /\ m <= n
    <3> DEFINE B == {p \in A : k[p] = n /\ l[p] = m}
    <3>1. CASE B = {}
      <4>1. matrix'[n][m] = matrix[n][m] + 0  BY <2>7, <3>1, FS_EmptySet
      <4>2. matrix[n][m] \in Nat  BY <2>4 DEF MatrixType, RowType
      <4> QED  BY <2>11, <4>1, <4>2 DEF HistogramOK
    <3>2. CASE B # {}  BY <2>9, <3>2
    <3> QED  BY <3>1, <3>2
  <2> QED  BY <2>8, <2>10, <2>11 DEF HistogramOK
<1>7. ASSUME \/ \E v \in Pages : ReadHit(v)
             \/ \E v \in Pages : PrefetchPage(v)
             \/ UNCHANGED vars
      PROVE  UNCHANGED <<evictions, matrix>>
  BY <1>7 DEF ReadHit, PrefetchPage, vars, stats
<1> QED  BY <1>1, <1>3, <1>4, <1>5, <1>6, <1>7 DEF Next

-----------------------------------------------------------------------------
(* Prefilled translations. *)

\* The slots of a block array that are marked as prefilled.
BitsOf(b) == {p \in Sets \X Ways \X Slots : p[3] \in b[p[1]][p[2]].prefilled}

LEMMA BitsFinite ==
  ASSUME NEW T \in SUBSET (Sets \X Ways \X Slots)
  PROVE  IsFiniteSet(T) /\ Cardinality(T) \in Nat
<1>1. IsFiniteSet(Sets) /\ IsFiniteSet(Ways) /\ IsFiniteSet(Slots)
  BY StlbAssumption, FS_Interval DEF Sets, Ways, Slots
<1> DEFINE P == (Sets \X Ways) \X Slots
           f == [p \in T |-> <<<<p[1], p[2]>>, p[3]>>]
<1>2. IsFiniteSet(P)  BY <1>1, FS_Product
<1>3. f \in Injection(T, P)
  <2>1. f \in [T -> P]  OBVIOUS
  <2>2. ASSUME NEW p \in T, NEW q \in T, f[p] = f[q] PROVE p = q
    <3>1. p = <<p[1], p[2], p[3]>> /\ q = <<q[1], q[2], q[3]>>  OBVIOUS
    <3>2. f[p] = <<<<p[1], p[2]>>, p[3]>> /\ f[q] = <<<<q[1], q[2]>>, q[3]>>  OBVIOUS
    <3>3. p[1] = q[1] /\ p[2] = q[2] /\ p[3] = q[3]  BY <2>2, <3>2
    <3> QED  BY <3>1, <3>3
  <2> HIDE DEF f, P
  <2> QED  BY <2>1, <2>2 DEF Injection, IsInjective
<1> HIDE DEF P, f
<1>4. IsFiniteSet(T)  BY <1>2, <1>3, FS_Injection
<1> QED  BY <1>4, FS_CardinalityType

\* When bits only go, their number does not grow.
LEMMA FewerBits ==
  ASSUME NEW b, NEW c,
         \A i \in Sets, w \in Ways : c[i][w].prefilled \subseteq b[i][w].prefilled
  PROVE  Cardinality(BitsOf(c)) <= Cardinality(BitsOf(b))
<1>1. BitsOf(c) \subseteq BitsOf(b) /\ BitsOf(b) \in SUBSET (Sets \X Ways \X Slots)
  BY DEF BitsOf
<1> HIDE DEF BitsOf
<1> QED  BY <1>1, BitsFinite, FS_Subset

\* One bit less.
LEMMA OneBitLess ==
  ASSUME NEW b, NEW c, NEW j \in Sets, NEW x \in Ways, NEW s \in Slots,
         s \in b[j][x].prefilled, s \notin c[j][x].prefilled,
         \A i \in Sets, w \in Ways : c[i][w].prefilled \subseteq b[i][w].prefilled
  PROVE  Cardinality(BitsOf(c)) + 1 <= Cardinality(BitsOf(b))
<1> DEFINE p == <<j, x, s>>
<1>1. BitsOf(c) \subseteq BitsOf(b) \ {p} /\ p \in BitsOf(b)
      /\ BitsOf(b) \in SUBSET (Sets \X Ways \X Slots)
  BY DEF BitsOf
<1> HIDE DEF BitsOf, p
<1>2. IsFiniteSet(BitsOf(b)) /\ Cardinality(BitsOf(b)) \in Nat  BY <1>1, BitsFinite
<1>3. IsFiniteSet(BitsOf(b) \ {p}) /\ Cardinality(BitsOf(b) \ {p}) = Cardinality(BitsOf(b)) - 1
  BY <1>1, <1>2, FS_RemoveElement
<1>4. Cardinality(BitsOf(c)) <= Cardinality(BitsOf(b) \ {p}) /\ Cardinality(BitsOf(c)) \in Nat
  BY <1>1, <1>3, FS_Subset, FS_CardinalityType
<1> QED  BY <1>2, <1>3, <1>4

\* An entry gets the bits of V at most.
LEMMA MoreBits ==
  ASSUME NEW b, NEW c, NEW j \in Sets, NEW x \in Ways, NEW V \in SUBSET Slots,
         c[j][x].prefilled \subseteq b[j][x].prefilled \cup V,
         \A i \in Sets, w \in Ways :
           i # j \/ w # x => c[i][w].prefilled \subseteq b[i][w].prefilled
  PROVE  Cardinality(BitsOf(c)) <= Cardinality(BitsOf(b)) + Cardinality(V)
<1> DEFINE W == {<<j, x, s>> : s \in V}
           f == [s \in V |-> <<j, x, s>>]
<1>1. BitsOf(c) \subseteq BitsOf(b) \cup W
  <2>1. ASSUME NEW p \in BitsOf(c) PROVE p \in BitsOf(b) \cup W
    <3>1. /\ p[1] \in Sets /\ p[2] \in Ways /\ p[3] \in Slots /\ p = <<p[1], p[2], p[3]>>
          /\ p[3] \in c[p[1]][p[2]].prefilled
      BY DEF BitsOf
    <3>2. CASE p[3] \in b[p[1]][p[2]].prefilled  BY <3>1, <3>2 DEF BitsOf
    <3>3. CASE p[3] \notin b[p[1]][p[2]].prefilled
      <4>1. p[1] = j /\ p[2] = x /\ p[3] \in V  BY <3>1, <3>3
      <4> QED  BY <3>1, <4>1
    <3> QED  BY <3>2, <3>3
  <2> QED  BY <2>1
<1>2. BitsOf(b) \in SUBSET (Sets \X Ways \X Slots)  BY DEF BitsOf
<1>3. f \in Surjection(V, W)  BY DEF Surjection
<1>4. IsFiniteSet(V) /\ Cardinality(V) \in Nat  BY SlotCount, FS_CardinalityType
<1> HIDE DEF BitsOf, W, f
<1>5. IsFiniteSet(W) /\ Cardinality(W) <= Cardinality(V)  BY <1>3, <1>4, FS_Surjection
<1>6. IsFiniteSet(BitsOf(b)) /\ Cardinality(BitsOf(b)) \in Nat  BY <1>2, BitsFinite
<1>7. /\ IsFiniteSet(BitsOf(b) \cup W)
      /\ Cardinality(BitsOf(b) \cup W)
           = Cardinality(BitsOf(b)) + Cardinality(W) - Cardinality(BitsOf(b) \cap W)
  BY <1>5, <1>6, FS_Union
<1>8. Cardinality(BitsOf(b) \cap W) \in Nat /\ Cardinality(W) \in Nat
  BY <1>5, <1>6, FS_Intersection, FS_CardinalityType
<1>9. Cardinality(BitsOf(c)) <= Cardinality(BitsOf(b) \cup W) /\ Cardinality(BitsOf(c)) \in Nat
  BY <1>1, <1>7, FS_Subset, FS_CardinalityType
<1> QED  BY <1>4, <1>5, <1>6, <1>7, <1>8, <1>9

\* What PrefilledAccounting says.
PrefilledOK(hit, total, b) == hit + Cardinality(BitsOf(b)) <= total

\* The accounting stays: every bit was counted when it was set, and a hit that is
\* counted takes its bit away.
LEMMA PrefilledInductive ==
  ASSUME TypeOK, PrefilledOK(prefilledHit, prefilledTotal, block), [Next]_vars
  PROVE  PrefilledOK(prefilledHit', prefilledTotal', block')
<1>0. /\ block \in [Sets -> [Ways -> Entry]] /\ prefilledHit \in Nat /\ prefilledTotal \in Nat
      /\ \A b : Cardinality(BitsOf(b)) \in Nat
  <2>1. \A b : BitsOf(b) \in SUBSET (Sets \X Ways \X Slots)  BY DEF BitsOf
  <2> QED  BY <2>1, BitsFinite DEF TypeOK
<1>1. ASSUME prefilledHit' = prefilledHit, prefilledTotal' = prefilledTotal,
             \A i \in Sets, w \in Ways : block'[i][w].prefilled \subseteq block[i][w].prefilled
      PROVE  PrefilledOK(prefilledHit', prefilledTotal', block')
  <2>1. Cardinality(BitsOf(block')) <= Cardinality(BitsOf(block))  BY <1>1, FewerBits
  <2> QED  BY <1>0, <1>1, <2>1 DEF PrefilledOK
<1>2. ASSUME NEW v \in Pages, ReadHit(v)
      PROVE  PrefilledOK(prefilledHit', prefilledTotal', block')
  <2> DEFINE x == Least(HitWays(v))
             s == Least(SlotMatch(v, x))
             j == SetOf(v)
  <2>1. x \in Ways /\ s \in Slots  BY <1>2, HitType DEF ReadHit
  <2>2. /\ block' = [block EXCEPT ![j][x] = Access(@, s)]
        /\ prefilledHit' = prefilledHit + (IF s \in block[j][x].prefilled THEN 1 ELSE 0)
        /\ prefilledTotal' = prefilledTotal
    BY <1>2 DEF ReadHit
  <2>3. j \in Sets  BY AddressTypes
  <2> HIDE DEF x, s, j
  <2>4. ASSUME NEW i \in Sets, NEW w \in Ways
        PROVE  block'[i][w].prefilled
                 = IF i = j /\ w = x THEN block[i][w].prefilled \ {s} ELSE block[i][w].prefilled
    <3>1. block'[i][w] = IF i = j /\ w = x THEN Access(block[i][w], s) ELSE block[i][w]
      BY <1>0, <2>1, <2>2, <2>3
    <3>2. block[i][w] \in Entry  BY <1>0
    <3>3. Access(block[i][w], s).prefilled = block[i][w].prefilled \ {s}
      BY <3>2 DEF Access, Entry
    <3> QED  BY <3>1, <3>3
  <2>5. \A i \in Sets, w \in Ways : block'[i][w].prefilled \subseteq block[i][w].prefilled
    BY <2>4
  <2>6. CASE s \in block[j][x].prefilled
    <3>1. s \notin block'[j][x].prefilled  BY <2>1, <2>3, <2>4
    <3>2. Cardinality(BitsOf(block')) + 1 <= Cardinality(BitsOf(block))
      BY <2>1, <2>3, <2>5, <2>6, <3>1, OneBitLess
    <3>3. prefilledHit' = prefilledHit + 1  BY <2>2, <2>6
    <3> QED  BY <1>0, <2>2, <3>2, <3>3 DEF PrefilledOK
  <2>7. CASE s \notin block[j][x].prefilled
    BY <1>0, <1>1, <2>2, <2>5, <2>7
  <2> QED  BY <2>6, <2>7
<1>3. ASSUME NEW v \in Pages, NEW instruction \in BOOLEAN, ReadMiss(v, instruction)
      PROVE  PrefilledOK(prefilledHit', prefilledTotal', block')
  <2>1. \/ UNCHANGED block
        \/ MappedPages # {} /\ InvalidateBlock(Least(MappedPages))
    BY <1>3 DEF ReadMiss, VaToPa
  <2>2. prefilledHit' = prefilledHit /\ prefilledTotal' = prefilledTotal
    BY <1>3 DEF ReadMiss
  <2>3. CASE UNCHANGED block  BY <1>1, <2>2, <2>3
  <2>4. CASE MappedPages # {} /\ InvalidateBlock(Least(MappedPages))
    <3> DEFINE u == Least(MappedPages)
    <3>1. u \in Pages  BY <2>4, SwapVictim
    <3>2. block' = InvalidatedBlocks(u)  BY <2>4 DEF InvalidateBlock
    <3> HIDE DEF u
    <3>3. ASSUME NEW i \in Sets, NEW w \in Ways
          PROVE  block'[i][w].prefilled \subseteq block[i][w].prefilled
      <4>1. SetOf(u) \in Sets  BY <3>1, AddressTypes
      <4>2. \/ block'[i][w] = block[i][w]
            \/ block'[i][w] = Without(block[i][w], SlotMatch(u, w))
        BY <1>0, <3>2, <4>1 DEF InvalidatedBlocks
      <4>3. block[i][w] \in Entry  BY <1>0
      <4>4. ASSUME NEW S
            PROVE  Without(block[i][w], S).prefilled = block[i][w].prefilled \ S
        BY <4>3 DEF Without, Entry
      <4> QED  BY <4>2, <4>4
    <3> QED  BY <1>1, <2>2, <3>3
  <2> QED  BY <2>1, <2>3, <2>4
<1>4. ASSUME NEW v \in Pages, FillResident(v)
      PROVE  PrefilledOK(prefilledHit', prefilledTotal', block')
  <2> DEFINE w == Least(ExistingWays(v))
             j == SetOf(v)
             e == block[j][w]
  <2>1. w \in Ways /\ j \in Sets  BY <1>4, ExistingWayType, AddressTypes DEF FillResident
  <2>2. e \in Entry  BY <1>0, <2>1
  <2>3. CASE Mapped(v)
    <3>1. PICK t \in TargetSlots(e) : block' = [block EXCEPT ![j][w] = InstallInSlot(e, v, t)]
      BY <1>4, <2>3 DEF FillResident
    <3>2. t \in Slots  BY <2>2, <3>1, TargetSlotsType
    <3>3. InstallInSlot(e, v, t).prefilled = e.prefilled \cup {t}
      BY <2>2, <3>2, InstallFacts
    <3>4. prefilledHit' = prefilledHit /\ prefilledTotal' = prefilledTotal + 1
      BY <1>4, <2>3 DEF FillResident
    <3> HIDE DEF w, j
    <3>5. /\ block'[j][w] = InstallInSlot(e, v, t)
          /\ \A i \in Sets, x \in Ways : i # j \/ x # w => block'[i][x] = block[i][x]
      BY <1>0, <2>1, <3>1
    <3>6. Cardinality(BitsOf(block')) <= Cardinality(BitsOf(block)) + Cardinality({t})
      <4>1. {t} \in SUBSET Slots  BY <3>2
      <4>2. block'[j][w].prefilled \subseteq block[j][w].prefilled \cup {t}
        BY <3>3, <3>5
      <4>3. \A i \in Sets, x \in Ways :
              i # j \/ x # w => block'[i][x].prefilled \subseteq block[i][x].prefilled
        BY <3>5
      <4> QED  BY <2>1, <4>1, <4>2, <4>3, MoreBits
    <3>7. Cardinality({t}) = 1  BY FS_Singleton
    <3> QED  BY <1>0, <3>4, <3>6, <3>7 DEF PrefilledOK
  <2>4. CASE ~Mapped(v)
    <3>1. UNCHANGED <<block, prefilledHit>> /\ prefilledTotal' = prefilledTotal
      BY <1>0, <1>4, <2>4 DEF FillResident
    <3> QED  BY <1>1, <3>1
  <2> QED  BY <2>3, <2>4
<1>5. ASSUME NEW v \in Pages, FillBlock(v)
      PROVE  PrefilledOK(prefilledHit', prefilledTotal', block')
  <2> DEFINE w == IF ExistingWays(v) # {} THEN Least(ExistingWays(v)) ELSE VictimWay(v)
             j == SetOf(v)
  <2>1. w \in Ways /\ j \in Sets  BY ExistingWayType, VictimWayType, AddressTypes
  <2>2. PICK fp \in Filters :
          /\ block' = [block EXCEPT ![j][w] = NewEntry(v, fp)]
          /\ prefilledTotal' = prefilledTotal + Cardinality(NewEntry(v, fp).valid)
    BY <1>5 DEF FillBlock
  <2>3. prefilledHit' = prefilledHit  BY <1>5 DEF FillBlock
  <2> DEFINE n == NewEntry(v, fp)
             V == n.valid
  <2>4. V \in SUBSET Slots /\ n.prefilled \subseteq V
    BY NewEntryType, NewEntryFacts DEF Entry
  <2>5. Cardinality(V) \in Nat  BY <2>4, SlotCount DEF Slots
  <2> HIDE DEF w, j, n
  <2>6. /\ block'[j][w] = n
        /\ \A i \in Sets, x \in Ways : i # j \/ x # w => block'[i][x] = block[i][x]
    BY <1>0, <2>1, <2>2 DEF n
  <2>7. Cardinality(BitsOf(block')) <= Cardinality(BitsOf(block)) + Cardinality(V)
    <3>1. block'[j][w].prefilled \subseteq block[j][w].prefilled \cup V
      BY <2>4, <2>6
    <3>2. \A i \in Sets, x \in Ways :
            i # j \/ x # w => block'[i][x].prefilled \subseteq block[i][x].prefilled
      BY <2>6
    <3> HIDE DEF V
    <3> QED  BY <2>1, <2>4, <3>1, <3>2, MoreBits
  <2>8. prefilledTotal' = prefilledTotal + Cardinality(V)  BY <2>2 DEF n
  <2> HIDE DEF V
  <2> QED  BY <1>0, <2>3, <2>5, <2>7, <2>8 DEF PrefilledOK
<1>6. CASE ResetCacheStats
  <2>1. ASSUME NEW i \in Sets, NEW w \in Ways
        PROVE  block'[i][w].prefilled \subseteq block[i][w].prefilled
    <3>1. block'[i][w] = [block[i][w] EXCEPT !.accessed = {}]
      BY <1>6 DEF ResetCacheStats
    <3>2. block[i][w] \in Entry  BY <1>0
    <3> QED  BY <3>1, <3>2 DEF Entry
  <2> QED  BY <1>1, <1>6, <2>1 DEF ResetCacheStats
<1>7. CASE FlushStatCounters
  <2>1. ASSUME NEW i \in Sets, NEW w \in Ways
        PROVE  block'[i][w].prefilled \subseteq block[i][w].prefilled
    <3>1. \/ block'[i][w] = block[i][w]
          \/ block'[i][w] = [block[i][w] EXCEPT !.accessed = {}, !.prefilled = {}]
      BY <1>7 DEF FlushStatCounters
    <3>2. block[i][w] \in Entry  BY <1>0
    <3>3. \A e \in Entry : [e EXCEPT !.accessed = {}, !.prefilled = {}].prefilled = {}
      BY DEF Entry
    <3> QED  BY <3>1, <3>2, <3>3
  <2> QED  BY <1>1, <1>7, <2>1 DEF FlushStatCounters
<1>8. ASSUME UNCHANGED vars \/ \E v \in Pages : PrefetchPage(v)
      PROVE  PrefilledOK(prefilledHit', prefilledTotal', block')
  <2>1. UNCHANGED <<block, prefilledHit, prefilledTotal>>
    BY <1>8 DEF vars, PrefetchPage, stats
  <2> QED  BY <1>1, <2>1
<1> QED  BY <1>2, <1>3, <1>4, <1>5, <1>6, <1>7, <1>8 DEF Next, Fill

LEMMA StatisticsParts ==
  StatisticsConsistent <=> /\ PrefilledOK(prefilledHit, prefilledTotal, block)
                           /\ HistogramOK(evictions, matrix)
BY DEF StatisticsConsistent, PrefilledAccounting, PrefilledBits, HistogramConsistent,
       PrefilledOK, BitsOf, HistogramOK, Cells

\* No prefilled translation is counted as hit twice, and every eviction of a block
\* that was used is counted in one cell of the histogram, with no more accessed
\* than valid slots: through in-place fills, swaps, the restart of the statistics at
\* the region of interest and the flush at the end.
THEOREM StatisticsCorrect == Spec => []StatisticsConsistent
<1>1. Init => StatisticsConsistent
  <2> SUFFICES ASSUME Init PROVE StatisticsConsistent  OBVIOUS
  <2>1. BitsOf(block) = {}  BY DEF Init, BitsOf, EmptyEntry
  <2>2. PrefilledOK(prefilledHit, prefilledTotal, block)
    <3>1. Cardinality(BitsOf(block)) = 0  BY <2>1, FS_EmptySet
    <3>2. prefilledHit = 0 /\ prefilledTotal = 0  BY DEF Init
    <3> QED  BY <3>1, <3>2 DEF PrefilledOK
  <2>3. HistogramOK(evictions, matrix)  BY EmptyHistogram, Zenon DEF Init
  <2> QED  BY <2>2, <2>3, StatisticsParts
<1>2. TypeOK /\ OnePlace /\ StatisticsConsistent /\ [Next]_vars => StatisticsConsistent'
  <2> SUFFICES ASSUME TypeOK, OnePlace, StatisticsConsistent, [Next]_vars
               PROVE  StatisticsConsistent'
    OBVIOUS
  <2>1. PrefilledOK(prefilledHit', prefilledTotal', block')
    BY StatisticsParts, PrefilledInductive
  <2>2. HistogramOK(evictions', matrix')  BY StatisticsParts, HistogramInductive
  <2> QED
    BY <2>1, <2>2 DEF StatisticsConsistent, PrefilledAccounting, PrefilledBits,
                      HistogramConsistent, PrefilledOK, BitsOf, HistogramOK, Cells
<1> QED  BY <1>1, <1>2, TypeCorrect, OnePlaceCorrect, PTL DEF Spec

=============================================================================
