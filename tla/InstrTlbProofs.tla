----------------------------- MODULE InstrTlbProofs -----------------------------
(* Proofs about InstrTlb, for all sets of pages and frames, all sizes of the   *)
(* TLBs, MSHRs, the prefetch queue and the free-distance table, and whatever   *)
(* the prefetcher asks for.                                                    *)
EXTENDS InstrTlb, FiniteSetTheorems, SequenceTheorems, WellFoundedInduction, TLAPS

--------------------------------------------------------------------------------
(* Least elements and sizes *)

(* Min returns the least element of a non-empty set of naturals.               *)
LEMMA LeastNat ==
  ASSUME NEW S, \A x \in S : x \in Nat, S # {}
  PROVE  Min(S) \in S /\ \A y \in S : Min(S) =< y
<1>0. S \subseteq Nat  OBVIOUS
<1>1. \E x \in S : \A y \in S : ~ (<<y, x>> \in OpToRel(<, Nat))
  BY <1>0, NatLessThanWellFounded, WFMin, Zenon
<1>2. ASSUME NEW x \in Nat, NEW y \in Nat, y < x
      PROVE  <<y, x>> \in OpToRel(<, Nat)
  BY <1>2, Zenon DEF OpToRel
<1>3. PICK x \in S : \A y \in S : ~ (<<y, x>> \in OpToRel(<, Nat))  BY <1>1
<1>4. x \in Nat /\ \A y \in S : y \in Nat /\ ~ (y < x)  BY <1>0, <1>2, <1>3
<1>5. \A y \in S : x =< y  BY <1>4
<1> QED  BY <1>5 DEF Min

LEMMA SizesType ==
  /\ TlbWays \in Nat \ {0} /\ TlbMshrs \in Nat \ {0} /\ StlbWays \in Nat \ {0}
  /\ StlbMshrs \in Nat \ {0} /\ LinePages \in Nat \ {0} /\ FctbSize \in Nat \ {0}
  /\ PqSize \in Nat \ {0} /\ Never \in Nat /\ MaxCycle \in Nat /\ MaxCycle < Never
  /\ AllPages \subseteq Nat /\ 0 \notin AllPages /\ 0 \notin Frames /\ Stalls \subseteq Nat
  /\ \A p \in AllPages : p >= LinePages
<1>1. LinePages \in Nat \ {0} /\ AllPages \subseteq Nat \ (0 .. LinePages - 1)
  BY TlbAssumption
<1>2. \A p \in AllPages : p \in Nat /\ p \notin 0 .. LinePages - 1  BY <1>1
<1>3. \A p \in AllPages : p >= LinePages /\ p # 0  BY <1>1, <1>2
<1> QED  BY <1>1, <1>2, <1>3, TlbAssumption, QueueAssumption

(* What every sequence has.                                                    *)
LEMMA SeqElements ==
  ASSUME NEW S, NEW s \in Seq(S)
  PROVE  Len(s) \in Nat /\ DOMAIN s = 1 .. Len(s) /\ \A k \in DOMAIN s : s[k] \in S
<1>1. Len(s) \in Nat /\ DOMAIN s = 1 .. Len(s) /\ s \in [1 .. Len(s) -> S]
  BY LenProperties, Zenon
<1> QED  BY <1>1

(* A function on 1 .. n is a sequence of length n.                             *)
LEMMA FunctionIsSeq ==
  ASSUME NEW S, NEW n \in Nat, NEW f \in [1 .. n -> S]
  PROVE  f \in Seq(S) /\ Len(f) = n /\ DOMAIN f = 1 .. n
<1>1. f \in Seq(S)  BY SeqDef
<1>2. DOMAIN f = 1 .. n /\ DOMAIN f = 1 .. Len(f) /\ Len(f) \in Nat
  BY <1>1, LenProperties
<1> QED  BY <1>1, <1>2

--------------------------------------------------------------------------------
(* Lists of entries *)

(* No page has two entries.                                                    *)
Distinct(s) == \A i, j \in DOMAIN s : s[i].page = s[j].page => i = j

LEMMA FindFacts ==
  ASSUME NEW s, NEW page \in PagesIn(s)
  PROVE  Find(s, page) \in DOMAIN s /\ s[Find(s, page)].page = page
<1>1. \E i \in DOMAIN s : s[i].page = page  BY DEF PagesIn
<1> QED  BY <1>1 DEF Find

LEMMA FindsIt ==
  ASSUME NEW s, Distinct(s), NEW i \in DOMAIN s
  PROVE  Find(s, s[i].page) = i
<1>1. s[i].page \in PagesIn(s)  BY DEF PagesIn
<1> QED  BY <1>1, FindFacts DEF Distinct

(* The pages and the entries of a list.                                        *)
LEMMA PagesOfEntries ==
  ASSUME NEW s, NEW p
  PROVE  p \in PagesIn(s) <=> \E e \in Range(s) : e.page = p
BY DEF PagesIn, Range

(* What is left when some pages are dropped: r has these entries of s, once,   *)
(* and is shorter when any was dropped.                                        *)
Remains(r, s, pages) ==
  /\ \A i \in DOMAIN r : \E j \in DOMAIN s : r[i] = s[j] /\ s[j].page \notin pages
  /\ \A j \in DOMAIN s : s[j].page \notin pages => \E i \in DOMAIN r : r[i] = s[j]
  /\ Distinct(s) => Distinct(r)
  /\ Len(r) =< Len(s)
  /\ \A j \in DOMAIN s : s[j].page \in pages => Len(r) < Len(s)

LEMMA WithoutFacts ==
  ASSUME NEW S, NEW s \in Seq(S), NEW pages
  PROVE  Without(s, pages) \in Seq(S) /\ Remains(Without(s, pages), s, pages)
<1> DEFINE kept     == {i \in DOMAIN s : s[i].page \notin pages}
           Upto(i)  == {j \in kept : j =< i}
           place(i) == Cardinality(Upto(i))
           n        == Cardinality(kept)
           at(k)    == CHOOSE i \in kept : place(i) = k
           r        == [k \in 1 .. n |-> s[at(k)]]
<1>1. Len(s) \in Nat /\ DOMAIN s = 1 .. Len(s) /\ \A k \in DOMAIN s : s[k] \in S
  BY SeqElements
<1>2. IsFiniteSet(1 .. Len(s)) /\ Cardinality(1 .. Len(s)) = Len(s)
  <2>1. 1 \in Int /\ Len(s) \in Int  BY <1>1
  <2>2. /\ IsFiniteSet(1 .. Len(s))
        /\ Cardinality(1 .. Len(s)) = IF 1 > Len(s) THEN 0 ELSE Len(s) - 1 + 1
    BY <2>1, FS_Interval, Zenon
  <2> QED  BY <1>1, <2>2
<1>3. kept \subseteq 1 .. Len(s) /\ \A i \in kept : i \in Nat  BY <1>1
<1>4. IsFiniteSet(kept) /\ n \in Nat /\ n =< Len(s)
  BY <1>2, <1>3, FS_Subset, FS_CardinalityType
<1>5. \A i : Upto(i) \subseteq kept  OBVIOUS
<1>6. ASSUME NEW i \in kept
      PROVE  /\ IsFiniteSet(Upto(i)) /\ place(i) \in Nat /\ place(i) =< n /\ place(i) # 0
  <2>1. i \in Upto(i)  BY <1>3
  <2> HIDE DEF Upto, kept
  <2>2. IsFiniteSet(Upto(i)) /\ place(i) =< n /\ place(i) \in Nat
    BY <1>4, <1>5, FS_Subset, FS_CardinalityType
  <2> QED  BY <2>1, <2>2, FS_EmptySet
<1>7. ASSUME NEW i \in kept, NEW j \in kept, place(i) = place(j) PROVE i = j
  <2>1. ASSUME NEW a \in kept, NEW b \in kept, a < b, place(a) = place(b) PROVE FALSE
    <3>1. Upto(a) \subseteq Upto(b) /\ b \in Upto(b) /\ b \notin Upto(a)  BY <1>3, <2>1
    <3> HIDE DEF Upto, kept
    <3>2. IsFiniteSet(Upto(b))  BY <1>6
    <3>3. Upto(b) = Upto(a)  BY <2>1, <3>1, <3>2, FS_Subset
    <3> QED  BY <3>1, <3>3
  <2>2. i \in Nat /\ j \in Nat  BY <1>3
  <2>3. ~(i < j) /\ ~(j < i)  BY <1>7, <2>1
  <2> QED  BY <2>2, <2>3
<1> DEFINE f == [i \in kept |-> place(i)]
<1>8. \A k \in 1 .. n : at(k) \in kept /\ place(at(k)) = k
  <2> HIDE DEF kept, Upto
  <2>1. \A i \in kept : place(i) \in 1 .. n  BY <1>4, <1>6
  <2> HIDE DEF place
  <2>2. f \in [kept -> 1 .. n] /\ \A i, j \in kept : f[i] = f[j] => i = j  BY <1>7, <2>1
  <2>3. f \in Injection(kept, 1 .. n)
    <3> HIDE DEF f
    <3> QED  BY <2>2 DEF Injection, IsInjective
  <2>4. IsFiniteSet(1 .. n) /\ Cardinality(1 .. n) = n
    <3> HIDE DEF n
    <3>1. 1 \in Int /\ n \in Int  BY <1>4
    <3>2. /\ IsFiniteSet(1 .. n)
          /\ Cardinality(1 .. n) = IF 1 > n THEN 0 ELSE n - 1 + 1
      BY <3>1, FS_Interval, Zenon
    <3> QED  BY <1>4, <3>2
  <2>5. f \in Surjection(kept, 1 .. n)
    <3> HIDE DEF f
    <3> QED  BY <2>3, <2>4, FS_Injection
  <2>6. ASSUME NEW k \in 1 .. n PROVE \E i \in kept : f[i] = k
    <3> HIDE DEF f, n
    <3> QED  BY <2>5 DEF Surjection
  <2>7. \A k \in 1 .. n : \E i \in kept : place(i) = k  BY <2>6
  <2> HIDE DEF f, n
  <2> QED  BY <2>7
<1>9. Without(s, pages) = r  BY DEF Without
<1> HIDE DEF f, r, at, n, place, Upto
<1>10. r \in [1 .. n -> S] /\ \A k \in 1 .. n : r[k] = s[at(k)]  BY <1>1, <1>8 DEF r
<1>11. r \in Seq(S) /\ Len(r) = n /\ DOMAIN r = 1 .. n  BY <1>4, <1>10, FunctionIsSeq
<1>12. ASSUME NEW j \in DOMAIN s, s[j].page \notin pages
       PROVE  \E i \in DOMAIN r : r[i] = s[j]
  <2>1. j \in kept  BY <1>12
  <2>2. place(j) \in 1 .. n  BY <1>4, <1>6, <2>1
  <2>3. at(place(j)) = j  BY <1>7, <1>8, <2>1, <2>2
  <2> QED  BY <1>10, <1>11, <2>2, <2>3
<1>13. ASSUME Distinct(s), NEW i \in DOMAIN r, NEW j \in DOMAIN r, r[i].page = r[j].page
       PROVE  i = j
  <2>1. s[at(i)].page = s[at(j)].page /\ at(i) \in DOMAIN s /\ at(j) \in DOMAIN s
    BY <1>8, <1>10, <1>11, <1>13
  <2>2. at(i) = at(j)  BY <1>13, <2>1 DEF Distinct
  <2> QED  BY <1>8, <1>11, <2>2
<1>14. ASSUME NEW j \in DOMAIN s, s[j].page \in pages PROVE n < Len(s)
  <2>1. j \in 1 .. Len(s) /\ j \notin kept  BY <1>1, <1>14
  <2> HIDE DEF kept
  <2>2. kept # 1 .. Len(s)  BY <2>1
  <2>3. n # Len(s)  BY <1>2, <1>3, <2>2, FS_Subset DEF n
  <2>4. n \in Nat /\ n =< Len(s) /\ Len(s) \in Nat  BY <1>1, <1>4
  <2> HIDE DEF n
  <2> QED  BY <2>3, <2>4
<1>15. \A i \in DOMAIN r : \E j \in DOMAIN s : r[i] = s[j] /\ s[j].page \notin pages
  BY <1>8, <1>10, <1>11
<1>16. Remains(r, s, pages)
  BY <1>4, <1>11, <1>12, <1>13, <1>14, <1>15 DEF Remains, Distinct
<1> QED  BY <1>9, <1>11, <1>16

(* A list of at most n entries, one for a page.                                *)
ListOK(s, S, n) == s \in Seq(S) /\ Len(s) =< n /\ Distinct(s)

LEMMA DropFacts ==
  ASSUME NEW S, NEW n \in Nat, NEW s, ListOK(s, S, n), NEW pages
  PROVE  /\ ListOK(Without(s, pages), S, n)
         /\ Range(Without(s, pages)) = {e \in Range(s) : e.page \notin pages}
<1> DEFINE r == Without(s, pages)
<1>1. r \in Seq(S) /\ Remains(r, s, pages)  BY WithoutFacts DEF ListOK
<1>2. Len(r) \in Nat /\ Len(s) \in Nat  BY <1>1, SeqElements DEF ListOK
<1> HIDE DEF r
<1>3. ListOK(r, S, n)  BY <1>1, <1>2 DEF ListOK, Remains
<1>4. Range(r) = {e \in Range(s) : e.page \notin pages}  BY <1>1 DEF Remains, Range
<1> QED  BY <1>3, <1>4 DEF r

(* An entry in front of a list.                                                *)
LEMMA PutInFront ==
  ASSUME NEW S, NEW s \in Seq(S), NEW e \in S, NEW r, r = <<e>> \o s
  PROVE  /\ r \in Seq(S) /\ Len(r) = Len(s) + 1 /\ DOMAIN r = 1 .. Len(s) + 1
         /\ r[1] = e /\ \A i \in 1 .. Len(s) : r[i + 1] = s[i]
         /\ Range(r) = {e} \cup Range(s)
         /\ Distinct(s) /\ e.page \notin PagesIn(s) => Distinct(r)
<1>1. <<e>> \in Seq(S) /\ Len(<<e>>) = 1  OBVIOUS
<1>2. Len(s) \in Nat /\ DOMAIN s = 1 .. Len(s)  BY SeqElements
<1>3. r \in Seq(S) /\ Len(r) = Len(s) + 1  BY <1>1, ConcatProperties
<1>4. DOMAIN r = 1 .. Len(s) + 1  BY <1>3, SeqElements
<1>5. ASSUME NEW i \in 1 .. Len(s) + 1
      PROVE  r[i] = IF i =< 1 THEN <<e>>[i] ELSE s[i - 1]
  BY <1>1, <1>2, <1>5, ConcatProperties
<1>6. r[1] = e  BY <1>2, <1>5
<1>7. \A i \in 1 .. Len(s) : r[i + 1] = s[i]  BY <1>2, <1>5
<1>8. \A i \in DOMAIN r : i = 1 \/ (i - 1 \in 1 .. Len(s) /\ r[i] = s[i - 1])
  BY <1>2, <1>4, <1>5
<1>9. Range(r) = {e} \cup Range(s)
  <2>1. \A x \in Range(r) : x \in {e} \cup Range(s)  BY <1>2, <1>6, <1>8 DEF Range
  <2>2. \A x \in Range(s) : x \in Range(r)
    <3>1. \A i \in DOMAIN s : i + 1 \in DOMAIN r  BY <1>2, <1>4
    <3> QED  BY <1>2, <1>7, <3>1 DEF Range
  <2>3. e \in Range(r)  BY <1>2, <1>4, <1>6 DEF Range
  <2> QED  BY <2>1, <2>2, <2>3
<1>10. ASSUME Distinct(s), e.page \notin PagesIn(s) PROVE Distinct(r)
  <2>1. \A i \in DOMAIN s : s[i].page # e.page  BY <1>10 DEF PagesIn
  <2>2. ASSUME NEW i \in DOMAIN r, NEW j \in DOMAIN r, r[i].page = r[j].page PROVE i = j
    <3>1. CASE i = 1 /\ j = 1  BY <3>1
    <3>2. CASE i = 1 /\ j # 1  BY <1>2, <1>6, <1>8, <2>1, <2>2, <3>2
    <3>3. CASE i # 1 /\ j = 1  BY <1>2, <1>6, <1>8, <2>1, <2>2, <3>3
    <3>4. CASE i # 1 /\ j # 1
      <4>1. i - 1 \in DOMAIN s /\ j - 1 \in DOMAIN s /\ s[i - 1].page = s[j - 1].page
        BY <1>2, <1>8, <2>2, <3>4
      <4>2. i - 1 = j - 1  BY <1>10, <4>1 DEF Distinct
      <4> QED  BY <1>2, <1>4, <4>2
    <3> QED  BY <3>1, <3>2, <3>3, <3>4
  <2> QED  BY <2>2 DEF Distinct
<1> QED  BY <1>3, <1>4, <1>6, <1>7, <1>9, <1>10

(* A hit moves a block to the front.                                           *)
LEMMA TouchedFacts ==
  ASSUME NEW S, NEW n \in Nat, NEW s, ListOK(s, S, n), NEW page \in PagesIn(s)
  PROVE  ListOK(Touched(s, page), S, n) /\ Range(Touched(s, page)) = Range(s)
<1> DEFINE w == Without(s, {page})
           e == s[Find(s, page)]
           r == Touched(s, page)
<1>1. Find(s, page) \in DOMAIN s /\ e.page = page  BY FindFacts
<1>2. s \in Seq(S) /\ Len(s) \in Nat  BY SeqElements DEF ListOK
<1>3. e \in S /\ e \in Range(s)  BY <1>1, <1>2, SeqElements DEF Range
<1>4. ListOK(w, S, n) /\ Range(w) = {x \in Range(s) : x.page \notin {page}}
  BY DropFacts
<1>5. w \in Seq(S) /\ Len(w) \in Nat /\ Len(w) < Len(s)
  <2>1. w \in Seq(S) /\ Remains(w, s, {page})  BY <1>2, WithoutFacts
  <2>2. Len(w) \in Nat  BY <2>1, SeqElements
  <2> HIDE DEF w, e
  <2> QED  BY <1>1, <2>1, <2>2 DEF Remains, e
<1>6. e.page \notin PagesIn(w)
  <2> HIDE DEF w, e
  <2> QED  BY <1>1, <1>4, PagesOfEntries
<1>7. r = <<e>> \o w  BY DEF Touched
<1>8. \A x \in Range(s) : x.page = page => x = e
  <2> HIDE DEF w, r
  <2>1. \A i \in DOMAIN s : s[i].page = page => i = Find(s, page)
    BY <1>1 DEF ListOK, Distinct
  <2> QED  BY <2>1 DEF Range
<1> HIDE DEF w, e, r
<1>9. r \in Seq(S) /\ Len(r) = Len(w) + 1 /\ Range(r) = {e} \cup Range(w) /\ Distinct(r)
  <2>1. Distinct(w) /\ e.page \notin PagesIn(w)  BY <1>4, <1>6 DEF ListOK
  <2>2. e \in S /\ w \in Seq(S)  BY <1>3, <1>5
  <2>3. /\ r \in Seq(S) /\ Len(r) = Len(w) + 1 /\ Range(r) = {e} \cup Range(w)
        /\ Distinct(w) /\ e.page \notin PagesIn(w) => Distinct(r)
    BY ONLY <1>7, <2>2, PutInFront, ZenonT(60)
  <2> QED  BY <2>1, <2>3
<1>10. Range(r) = Range(s)  BY <1>3, <1>4, <1>8, <1>9
<1>11. Len(r) =< n  BY <1>2, <1>5, <1>9 DEF ListOK
<1> QED  BY <1>9, <1>10, <1>11 DEF ListOK, r

(* A fill puts a block in front and may take the last one away.                *)
LEMMA FilledFacts ==
  ASSUME NEW S, NEW n \in Nat \ {0}, NEW s, ListOK(s, S, n), NEW e \in S,
         e.page \notin PagesIn(s)
  PROVE  ListOK(Filled(s, e, n), S, n) /\ Range(Filled(s, e, n)) \subseteq {e} \cup Range(s)
<1> DEFINE t == <<e>> \o s
           m == Min({Len(s) + 1, n})
           r == Filled(s, e, n)
<1>1. s \in Seq(S) /\ Len(s) \in Nat  BY SeqElements DEF ListOK
<1>2. /\ t \in Seq(S) /\ Len(t) = Len(s) + 1 /\ DOMAIN t = 1 .. Len(s) + 1
      /\ Range(t) = {e} \cup Range(s) /\ Distinct(t)
  BY <1>1, PutInFront DEF ListOK
<1>3. m \in 1 .. Len(s) + 1 /\ m =< n
  <2>1. /\ \A x \in {Len(s) + 1, n} : x \in Nat
        /\ {Len(s) + 1, n} # {}
    BY <1>1
  <2>2. m \in {Len(s) + 1, n} /\ \A y \in {Len(s) + 1, n} : m =< y
    BY <2>1, LeastNat, Zenon
  <2> HIDE DEF m
  <2> QED  BY <1>1, <2>2
<1>4. r = SubSeq(t, 1, m)  BY DEF Filled
<1> HIDE DEF t, m, r
<1>5. 1 \in 1 .. Len(t) + 1 /\ m \in 1 - 1 .. Len(t)  BY <1>1, <1>2, <1>3
<1>6. r \in Seq(S) /\ Len(r) = m /\ \A i \in 1 .. m : r[i] = t[i]
  <2>1. /\ SubSeq(t, 1, m) \in Seq(S)
        /\ Len(SubSeq(t, 1, m)) = IF 1 =< m THEN m - 1 + 1 ELSE 0
        /\ \A i \in 1 .. m - 1 + 1 : SubSeq(t, 1, m)[i] = t[1 + i - 1]
    BY <1>2, <1>5, SubSeqProperties
  <2> QED  BY <1>3, <1>4, <2>1
<1>7. DOMAIN r = 1 .. m /\ DOMAIN r \subseteq DOMAIN t
  BY <1>1, <1>2, <1>3, <1>6, SeqElements
<1>8. Distinct(r)  BY <1>2, <1>6, <1>7 DEF Distinct
<1>9. Range(r) \subseteq Range(t)  BY <1>6, <1>7 DEF Range
<1> QED  BY <1>2, <1>3, <1>6, <1>8, <1>9 DEF ListOK, r

--------------------------------------------------------------------------------
(* The page table *)

(* No two pages share a frame.                                                 *)
TableOK(table) ==
  /\ table \in [AllPages -> Frames \cup {0}]
  /\ \A p, r \in AllPages : table[p] # 0 /\ table[p] = table[r] => p = r

(* A page that had a frame keeps it or is lost.                                *)
Swaps(table) ==
  /\ TableOK(table) /\ Lost(table) \subseteq AllPages
  /\ \A p \in AllPages : pageTable[p] # 0 /\ p \notin Lost(table) => table[p] = pageTable[p]

(* va_to_pa: the page has a frame.                                             *)
LEMMA SwapFacts ==
  ASSUME TableOK(pageTable), NEW page \in AllPages, NEW table \in PageTablesWith(page)
  PROVE  Swaps(table) /\ table[page] \in Frames
<1> USE SizesType DEF Swaps
<1>1. /\ pageTable \in [AllPages -> Frames \cup {0}]
      /\ \A p, r \in AllPages : pageTable[p] # 0 /\ pageTable[p] = pageTable[r] => p = r
  BY DEF TableOK
<1>2. CASE pageTable[page] # 0
  <2>1. table = pageTable  BY <1>2 DEF PageTablesWith
  <2> QED  BY <1>1, <1>2, <2>1 DEF TableOK, Lost, Mapped
<1>3. CASE pageTable[page] = 0 /\ FreeFrames # {}
  <2>1. PICK f \in FreeFrames : table = [pageTable EXCEPT ![page] = f]
    BY <1>3 DEF PageTablesWith
  <2>2. f \in Frames /\ \A p \in AllPages : pageTable[p] # f  BY DEF FreeFrames
  <2>3. \A p \in AllPages : table[p] = IF p = page THEN f ELSE pageTable[p]
    BY <1>1, <2>1
  <2>4. table \in [AllPages -> Frames \cup {0}]  BY <1>1, <2>1, <2>2
  <2>5. TableOK(table)  BY <1>1, <2>2, <2>3, <2>4 DEF TableOK
  <2> QED  BY <1>1, <1>3, <2>2, <2>3, <2>5 DEF Lost, Mapped
<1>4. CASE pageTable[page] = 0 /\ FreeFrames = {}
  <2> DEFINE low == Min(Mapped)
  <2>1. table = [pageTable EXCEPT ![page] = pageTable[low], ![low] = 0]
    BY <1>4 DEF PageTablesWith
  <2>2. low \in Mapped
    <3>1. Mapped # {}  BY <1>4, TlbAssumption DEF FreeFrames, Mapped
    <3>2. \A x \in Mapped : x \in Nat  BY DEF Mapped
    <3> QED  BY <3>1, <3>2, LeastNat
  <2> HIDE DEF low
  <2>3. low \in AllPages /\ pageTable[low] # 0 /\ low # page  BY <1>4, <2>2 DEF Mapped
  <2>4. \A p \in AllPages : table[p] = IF p = low THEN 0
                                       ELSE IF p = page THEN pageTable[low] ELSE pageTable[p]
    BY <1>1, <2>1, <2>3
  <2>5. table \in [AllPages -> Frames \cup {0}]  BY <1>1, <2>1, <2>3
  <2>6. TableOK(table)  BY <1>1, <1>4, <2>3, <2>4, <2>5 DEF TableOK
  <2>7. table[page] \in Frames  BY <1>1, <2>3, <2>4
  <2> QED  BY <1>1, <1>4, <2>3, <2>4, <2>6, <2>7 DEF Lost, Mapped
<1> QED  BY <1>2, <1>3, <1>4

(* A copy is the current one unless its page was swapped out meanwhile.        *)
CopyOK(e, table) == e.raced \/ table[e.page] = e.frame

(* What va_to_pa does to the copies it does not invalidate.                    *)
RacedIs(r, e, lost) ==
  /\ r.page = e.page /\ r.frame = e.frame
  /\ r.raced = (e.raced \/ e.page \in lost)
  /\ e.page \notin lost => r = e

LEMMA RacedCopy ==
  ASSUME NEW e \in Copies, NEW lost
  PROVE  Raced(e, lost) \in Copies /\ RacedIs(Raced(e, lost), e, lost)
BY DEF Raced, RacedIs, Copies

LEMMA RacedEntry ==
  ASSUME NEW P, NEW F, NEW T, NEW e \in [page : P, frame : F, since : T, raced : BOOLEAN],
         NEW lost
  PROVE  /\ Raced(e, lost) \in [page : P, frame : F, since : T, raced : BOOLEAN]
         /\ RacedIs(Raced(e, lost), e, lost) /\ Raced(e, lost).since = e.since
BY DEF Raced, RacedIs

(* Requests and misses of the STLB.                                            *)
RqTypes    == [page : AllPages, sides : SUBSET Sides]
StlbMisses == [page : AllPages, sides : SUBSET Sides, frame : Frames, raced : BOOLEAN]

LEMMA RacedMiss ==
  ASSUME NEW e \in StlbMisses, NEW lost
  PROVE  /\ Raced(e, lost) \in StlbMisses /\ RacedIs(Raced(e, lost), e, lost)
         /\ Raced(e, lost).sides = e.sides
BY DEF Raced, RacedIs, StlbMisses

--------------------------------------------------------------------------------
(* The free-distance table *)

FctbEntries == [page : AllPages \cup {0}, position : 0 .. LinePages - 1, start : Nat, stall : Nat]

(* Every walk knows the place of its page in the line, and no line has two.    *)
FctbOK(table) ==
  /\ table \in [1 .. FctbSize -> FctbEntries]
  /\ \A i \in 1 .. FctbSize : table[i].position = table[i].page % LinePages
  /\ \A i, j \in 1 .. FctbSize :
       i # j /\ table[i].page # 0 /\ table[j].page # 0 => Line(table[i].page) # Line(table[j].page)

LEMMA LineOf ==
  ASSUME NEW p \in Nat
  PROVE  /\ Line(p) \in Nat /\ p % LinePages \in 0 .. LinePages - 1
         /\ p = LinePages * Line(p) + (p % LinePages)
<1>1. LinePages \in Nat /\ LinePages > 0  BY SizesType
<1>2. p % LinePages \in 0 .. LinePages - 1  BY <1>1
<1>4. p = LinePages * (p \div LinePages) + (p % LinePages)
  BY <1>1
<1>3. p \div LinePages \in Nat  BY <1>1
<1> QED  BY <1>2, <1>3, <1>4 DEF Line

LEMMA EntryPages ==
  /\ \A e \in FctbEntries : e.page \in Nat
  /\ \A p \in AllPages : p \in Nat
  /\ LinePages \in Nat
<1>1. \A p \in AllPages : p \in Nat  BY SizesType
<1>2. \A e \in FctbEntries : e.page \in AllPages \cup {0}  BY DEF FctbEntries
<1>3. LinePages \in Nat  BY SizesType
<1>4. 0 \in Nat  OBVIOUS
<1> QED  BY <1>1, <1>2, <1>3, <1>4

(* search_fctb finds every page of the line of an entry.                       *)
LEMMA SameLineIsHit ==
  ASSUME NEW e \in FctbEntries, e.position = e.page % LinePages,
         NEW page \in AllPages, Line(page) = Line(e.page)
  PROVE  FctbHits(e, page)
<1>1. e.page \in Nat /\ page \in Nat /\ LinePages \in Nat  BY EntryPages, Zenon
<1> DEFINE base == LinePages * Line(page)
           m    == page % LinePages
<1>2. base \in Int  BY <1>1, LineOf
<1>3. e.page = base + e.position /\ e.position \in 0 .. LinePages - 1  BY <1>1, LineOf
<1>4. page = base + m /\ m \in 0 .. LinePages - 1  BY <1>1, LineOf
<1> HIDE DEF base, m
<1>5. e.page - e.position =< page /\ page =< e.page + LinePages - 1 - e.position
  BY <1>1, <1>2, <1>3, <1>4
<1> QED  BY <1>1, <1>3, <1>5 DEF FctbHits

LEMMA ColdIsEntry ==
  ColdEntry \in FctbEntries /\ ColdEntry.position = ColdEntry.page % LinePages /\ ColdEntry.page = 0
<1>1. LinePages \in Nat /\ LinePages > 0  BY SizesType
<1>2. 0 % LinePages = 0  BY <1>1
<1> QED  BY <1>1, <1>2 DEF ColdEntry, FctbEntries

LEMMA VictimFacts ==
  ASSUME NEW table, FctbOK(table)
  PROVE  FctbVictim(table) \in 1 .. FctbSize
<1> DEFINE starts == {table[i].start : i \in 1 .. FctbSize}
           least  == {i \in DOMAIN table : \A j \in DOMAIN table : table[i].start =< table[j].start}
<1>1. DOMAIN table = 1 .. FctbSize /\ \A i \in 1 .. FctbSize : table[i].start \in Nat
  BY DEF FctbOK, FctbEntries
<1>2. 1 \in 1 .. FctbSize  BY SizesType
<1>3. starts # {} /\ \A x \in starts : x \in Nat  BY <1>1, <1>2
<1>4. PICK m \in starts : \A y \in starts : m =< y
  <2> HIDE DEF starts
  <2> QED  BY <1>3, LeastNat
<1>5. least # {}  BY <1>1, <1>4
<1>6. \A x \in least : x \in Nat  BY <1>1
<1> HIDE DEF least
<1>7. Min(least) \in least  BY <1>5, <1>6, LeastNat
<1> QED  BY <1>1, <1>7 DEF FctbVictim, least

LEMMA Divided ==
  ASSUME NEW x \in Nat, NEW d \in Nat, d > 0
  PROVE  x \div d \in Nat /\ x % d \in 0 .. d - 1 /\ x = d * (x \div d) + (x % d)
<1>1. x = d * (x \div d) + (x % d)  OBVIOUS
<1>2. x % d \in 0 .. d - 1  OBVIOUS
<1>3. x \div d \in Nat  OBVIOUS
<1> QED  BY <1>1, <1>2, <1>3

(* The formula of the demand miss gives the place the prefetch takes: the low  *)
(* bits of the page number, shifted by the size of a page and back.            *)
LEMMA PlacesAgree ==
  ASSUME NEW page \in AllPages
  PROVE  DemandPlace(page) = page % LinePages
<1>1. page \in Nat /\ LinePages \in Nat /\ LinePages > 0  BY SizesType
<1> DEFINE line == page \div LinePages
           low  == page % LinePages
           span == LinePages * PageBytes
           addr == PageBytes * page
           far  == addr \div span
           rest == addr % span
<1>2. /\ line \in Nat /\ low \in 0 .. LinePages - 1
      /\ page = LinePages * line + low
  BY <1>1, LineOf DEF Line
<1>3. span \in Nat /\ span > 0 /\ span = 4096 * LinePages /\ addr \in Nat /\ addr = 4096 * page
  BY <1>1 DEF PageBytes
<1>4. far \in Int /\ rest \in 0 .. span - 1 /\ addr = span * far + rest
  <2> HIDE DEF span, addr
  <2>1. span \in Nat /\ span > 0 /\ addr \in Nat  BY <1>3
  <2> QED  BY <2>1, Divided
<1>5. addr = span * line + 4096 * low
  <2>1. 4096 * (LinePages * line) = span * line
    <3> HIDE DEF span, line
    <3> QED  BY <1>1, <1>2, <1>3
  <2>2. LinePages * line \in Int
    <3> HIDE DEF line
    <3> QED  BY <1>1, <1>2
  <2> HIDE DEF span, line, low, addr
  <2> QED  BY <1>1, <1>2, <1>3, <2>1, <2>2
<1> HIDE DEF line, low, span, addr, far, rest
<1>6. 4096 * low \in 0 .. span - 1  BY <1>1, <1>2, <1>3
<1>7. far = line
  <2>1. CASE far < line
    <3>1. span * line >= span * far + span  BY <1>2, <1>3, <1>4, <2>1
    <3> QED  BY <1>2, <1>3, <1>4, <1>5, <1>6, <3>1
  <2>2. CASE line < far
    <3>1. span * far >= span * line + span  BY <1>2, <1>3, <1>4, <2>2
    <3> QED  BY <1>2, <1>3, <1>4, <1>5, <1>6, <3>1
  <2> QED  BY <1>2, <1>4, <2>1, <2>2
<1>8. rest = 4096 * low  BY <1>2, <1>3, <1>4, <1>5, <1>7
<1>9. (4096 * low) \div 4096 = low  BY <1>2
<1> QED  BY <1>8, <1>9 DEF DemandPlace, PageBytes, rest, addr, span, low

(* A walk is entered for a line that has none.                                 *)
LEMMA WalkedKeeps ==
  ASSUME NEW table, FctbOK(table), NEW page \in AllPages, NEW stall \in Stalls,
         NEW place, place = page % LinePages, ~FctbKnows(table, page), cycle \in Nat
  PROVE  FctbOK(Walked(table, page, place, stall))
<1> DEFINE v == FctbVictim(table)
           w == [page |-> page, position |-> place, start |-> cycle, stall |-> stall]
           r == Walked(table, page, place, stall)
<1>1. v \in 1 .. FctbSize  BY VictimFacts
<1>2. w \in FctbEntries /\ w.page = page /\ w.position = page % LinePages
  <2>1. page \in Nat /\ stall \in Nat  BY SizesType
  <2>2. page % LinePages \in 0 .. LinePages - 1  BY <2>1, LineOf
  <2> QED  BY <2>1, <2>2 DEF FctbEntries
<1>3. r = [table EXCEPT ![v] = w]  BY DEF Walked
<1> HIDE DEF v, w, r
<1>4. table \in [1 .. FctbSize -> FctbEntries]  BY DEF FctbOK
<1>5. r \in [1 .. FctbSize -> FctbEntries]  BY <1>1, <1>2, <1>3, <1>4
<1>6. \A i \in 1 .. FctbSize : r[i] = IF i = v THEN w ELSE table[i]  BY <1>1, <1>3, <1>4
<1>7. \A i \in 1 .. FctbSize : ~FctbHits(table[i], page)  BY <1>4 DEF FctbKnows
<1>8. \A i \in 1 .. FctbSize : Line(table[i].page) # Line(page)
  BY <1>4, <1>7, SameLineIsHit DEF FctbOK
<1>9. \A i \in 1 .. FctbSize : r[i].position = r[i].page % LinePages
  BY <1>2, <1>6 DEF FctbOK
<1>10. ASSUME NEW i \in 1 .. FctbSize, NEW j \in 1 .. FctbSize,
              i # j, r[i].page # 0, r[j].page # 0
       PROVE  Line(r[i].page) # Line(r[j].page)
  BY <1>2, <1>6, <1>8, <1>10 DEF FctbOK
<1> QED  BY <1>5, <1>9, <1>10 DEF FctbOK, r

LEMMA RefreshedKeeps ==
  ASSUME NEW table, FctbOK(table)
  PROVE  FctbOK(Refreshed(table))
<1> DEFINE r == Refreshed(table)
<1>1. table \in [1 .. FctbSize -> FctbEntries]  BY DEF FctbOK
<1>2. r = [i \in 1 .. FctbSize |-> IF cycle > table[i].start + table[i].stall THEN ColdEntry
                                   ELSE table[i]]
  BY <1>1 DEF Refreshed
<1>3. \A i \in 1 .. FctbSize : r[i] = ColdEntry \/ r[i] = table[i]  BY <1>2
<1>4. r \in [1 .. FctbSize -> FctbEntries]  BY <1>1, <1>2, <1>3, ColdIsEntry
<1> HIDE DEF r
<1>5. \A i \in 1 .. FctbSize : r[i].position = r[i].page % LinePages
  BY <1>3, ColdIsEntry DEF FctbOK
<1>6. ASSUME NEW i \in 1 .. FctbSize, NEW j \in 1 .. FctbSize,
             i # j, r[i].page # 0, r[j].page # 0
      PROVE  Line(r[i].page) # Line(r[j].page)
  BY <1>3, <1>6, ColdIsEntry DEF FctbOK
<1> QED  BY <1>4, <1>5, <1>6 DEF FctbOK, r

--------------------------------------------------------------------------------
(* The prefetch queue *)

Entries(now) == [page : AllPages, frame : Frames, since : 0 .. now, raced : BOOLEAN]

(* The cells are full or empty, the occupancy counts the full ones, and no two *)
(* hold a page.                                                                *)
QueueOK(q, now) ==
  /\ q \in [entry : [Cells -> Entries(now) \cup {EmptyCell}], head : Cells, tail : Cells,
            occupancy : Nat]
  /\ q.occupancy + Cardinality(Holders(q, 0)) = PqSize
  /\ \A c, d \in Cells : q.entry[c].page # 0 /\ q.entry[c].page = q.entry[d].page => c = d

(* What a queue offers: PrefetchBuffer's waiting.                              *)
Slot(e) == [page |-> e.page, frame |-> e.frame, since |-> e.since]
Kept(q) == {Slot(q.entry[c]) : c \in Cells \ Holders(q, 0)}

LEMMA CellsType ==
  /\ IsFiniteSet(Cells) /\ Cardinality(Cells) = PqSize /\ 0 \in Cells
  /\ \A c \in Cells : c \in Nat /\ c < PqSize /\ c # NoCell
  /\ \A i \in 0 .. PqSize : Wrapped(i) \in Cells
<1>1. PqSize \in Nat \ {0}  BY SizesType
<1>2. 0 \in Int /\ PqSize - 1 \in Int  BY <1>1
<1>3. /\ IsFiniteSet(0 .. PqSize - 1)
      /\ Cardinality(0 .. PqSize - 1) = IF 0 > PqSize - 1 THEN 0 ELSE PqSize - 1 - 0 + 1
  BY <1>2, FS_Interval, Zenon
<1> QED  BY <1>1, <1>3 DEF Cells, Wrapped, NoCell

LEMMA HolesType ==
  ASSUME NEW q, NEW now, QueueOK(q, now), NEW p
  PROVE  /\ Holders(q, p) \subseteq Cells /\ IsFiniteSet(Holders(q, p))
         /\ Cardinality(Holders(q, p)) \in Nat
         /\ q.occupancy \in 0 .. PqSize
         /\ q.occupancy = 0 => Holders(q, 0) = Cells
         /\ q.occupancy # PqSize => Holders(q, 0) # {}
         /\ q.occupancy = PqSize => Holders(q, 0) = {}
<1>1. \A x : Holders(q, x) \subseteq Cells  BY DEF Holders
<1>2. \A x : IsFiniteSet(Holders(q, x)) /\ Cardinality(Holders(q, x)) \in Nat
  BY <1>1, CellsType, FS_Subset, FS_CardinalityType
<1>3. q.occupancy \in Nat /\ q.occupancy + Cardinality(Holders(q, 0)) = PqSize
  BY DEF QueueOK
<1>4. q.occupancy \in 0 .. PqSize  BY <1>2, <1>3, SizesType
<1>5. ASSUME q.occupancy = 0 PROVE Holders(q, 0) = Cells
  <2>1. Cardinality(Holders(q, 0)) = Cardinality(Cells)  BY <1>2, <1>3, <1>5, CellsType
  <2> QED  BY <1>1, <2>1, CellsType, FS_Subset
<1>6. ASSUME q.occupancy # PqSize PROVE Holders(q, 0) # {}
  BY <1>3, <1>6, FS_EmptySet
<1>7. ASSUME q.occupancy = PqSize PROVE Holders(q, 0) = {}
  <2>1. Cardinality(Holders(q, 0)) = 0  BY <1>2, <1>3, <1>7, SizesType
  <2> QED  BY <1>2, <2>1, FS_EmptySet
<1> QED  BY <1>1, <1>2, <1>4, <1>5, <1>6, <1>7

(* check_queue_vpn finds a page that is there.                                 *)
LEMMA CheckVpnFacts ==
  ASSUME NEW q, NEW now, QueueOK(q, now), NEW page \in AllPages
  PROVE  /\ CheckVpn(q, page) = NoCell => \A c \in Cells : q.entry[c].page # page
         /\ CheckVpn(q, page) # NoCell =>
              CheckVpn(q, page) \in Cells /\ q.entry[CheckVpn(q, page)].page = page
<1> DEFINE held == Holders(q, page)
<1>1. \A x \in held : x \in Cells /\ q.entry[x].page = page /\ x \in Nat
  BY CellsType DEF Holders
<1>2. CASE q.occupancy = 0
  <2>1. Holders(q, 0) = Cells  BY <1>2, HolesType
  <2>2. \A c \in Cells : q.entry[c].page = 0  BY <2>1 DEF Holders
  <2>3. held = {}  BY <2>2, SizesType DEF Holders
  <2> QED  BY <2>2, <2>3, SizesType DEF CheckVpn
<1>3. CASE q.occupancy # 0 /\ held = {}
  <2>1. \A c \in Cells : q.entry[c].page # page  BY <1>3 DEF Holders
  <2> QED  BY <1>3, <2>1 DEF CheckVpn
<1>4. CASE q.occupancy # 0 /\ held # {}
  <2>1. CheckVpn(q, page) = Min(held)  BY <1>4 DEF CheckVpn
  <2> HIDE DEF held
  <2>2. Min(held) \in held  BY <1>1, <1>4, LeastNat
  <2> QED  BY <1>1, <2>1, <2>2, CellsType
<1> QED  BY <1>2, <1>3, <1>4

(* What a full cell holds.                                                     *)
LEMMA FullCell ==
  ASSUME NEW q, NEW now \in Nat, QueueOK(q, now), NEW c \in Cells
  PROVE  /\ c \in Holders(q, 0) => q.entry[c] = EmptyCell
         /\ c \notin Holders(q, 0) => q.entry[c] \in Entries(now)
         /\ c \notin Holders(q, 0) <=> q.entry[c].page # 0
<1>1. q.entry[c] \in Entries(now) \cup {EmptyCell}  BY DEF QueueOK
<1>2. \A e \in Entries(now) : e.page # 0  BY SizesType DEF Entries
<1>3. EmptyCell.page = 0  BY DEF EmptyCell
<1> QED  BY <1>1, <1>2, <1>3 DEF Holders

(* A cell that is emptied: by a demand miss, or when a new entry needs it.     *)
LEMMA EmptiedFacts ==
  ASSUME NEW q, NEW now \in Nat, QueueOK(q, now), NEW c \in Cells, q.entry[c].page # 0,
         NEW h \in Cells, NEW t \in Cells,
         NEW r, r = [entry |-> [q.entry EXCEPT ![c] = EmptyCell], head |-> h, tail |-> t,
                     occupancy |-> q.occupancy - 1]
  PROVE  QueueOK(r, now) /\ Kept(r) = Kept(q) \ {Slot(q.entry[c])}
<1>1. q.entry \in [Cells -> Entries(now) \cup {EmptyCell}]  BY DEF QueueOK
<1>2. r.entry = [q.entry EXCEPT ![c] = EmptyCell] /\ r.occupancy = q.occupancy - 1
      /\ r.head = h /\ r.tail = t
  OBVIOUS
<1>3. \A d \in Cells : r.entry[d] = IF d = c THEN EmptyCell ELSE q.entry[d]  BY <1>1, <1>2
<1>4. r.entry \in [Cells -> Entries(now) \cup {EmptyCell}]  BY <1>1, <1>2
<1>5. EmptyCell.page = 0  BY DEF EmptyCell
<1>6. Holders(r, 0) = Holders(q, 0) \cup {c} /\ c \notin Holders(q, 0)
  BY <1>3, <1>5 DEF Holders
<1>7. IsFiniteSet(Holders(q, 0)) /\ Cardinality(Holders(q, 0)) \in Nat /\ q.occupancy \in 0 .. PqSize
      /\ q.occupancy # 0
  BY <1>6, HolesType
<1>8. Cardinality(Holders(r, 0)) = Cardinality(Holders(q, 0)) + 1
  BY <1>6, <1>7, FS_AddElement
<1>9. q.occupancy + Cardinality(Holders(q, 0)) = PqSize  BY DEF QueueOK
<1>10. r.occupancy \in Nat /\ r.occupancy + Cardinality(Holders(r, 0)) = PqSize
  BY <1>2, <1>7, <1>8, <1>9, SizesType
<1>11. r \in [entry : [Cells -> Entries(now) \cup {EmptyCell}], head : Cells, tail : Cells,
              occupancy : Nat]
  BY <1>2, <1>4, <1>10
<1>12. \A d, k \in Cells : r.entry[d].page # 0 /\ r.entry[d].page = r.entry[k].page => d = k
  BY <1>3, <1>5 DEF QueueOK
<1>13. QueueOK(r, now)  BY <1>10, <1>11, <1>12 DEF QueueOK
<1>14. \A d \in Cells \ Holders(q, 0) : Slot(q.entry[d]) = Slot(q.entry[c]) => d = c
  <2>1. ASSUME NEW d \in Cells \ Holders(q, 0), Slot(q.entry[d]) = Slot(q.entry[c]) PROVE d = c
    <3>1. q.entry[d].page = q.entry[c].page  BY <2>1 DEF Slot
    <3> QED  BY <3>1 DEF QueueOK
  <2> QED  BY <2>1
<1>15. \A d \in Cells \ Holders(r, 0) :
         d \in Cells \ Holders(q, 0) /\ d # c /\ r.entry[d] = q.entry[d]
  BY <1>3, <1>6
<1>16. \A d \in Cells \ Holders(q, 0) :
         d # c => d \in Cells \ Holders(r, 0) /\ r.entry[d] = q.entry[d]
  BY <1>3, <1>6
<1>17. Kept(r) = Kept(q) \ {Slot(q.entry[c])}
  <2>1. ASSUME NEW x \in Kept(r) PROVE x \in Kept(q) \ {Slot(q.entry[c])}
    <3>1. PICK d \in Cells \ Holders(r, 0) : x = Slot(r.entry[d])  BY <2>1 DEF Kept
    <3>2. x = Slot(q.entry[d]) /\ d \in Cells \ Holders(q, 0) /\ d # c  BY <1>15, <3>1
    <3> QED  BY <1>14, <3>2 DEF Kept
  <2>2. ASSUME NEW x \in Kept(q), x # Slot(q.entry[c]) PROVE x \in Kept(r)
    <3>1. PICK d \in Cells \ Holders(q, 0) : x = Slot(q.entry[d])  BY <2>2 DEF Kept
    <3>2. d # c  BY <2>2, <3>1
    <3> QED  BY <1>16, <3>1, <3>2 DEF Kept
  <2> QED  BY <2>1, <2>2
<1> QED  BY <1>13, <1>17

(* A hole that is filled.                                                      *)
LEMMA EnteredFacts ==
  ASSUME NEW q, NEW now \in Nat, QueueOK(q, now), NEW c \in Holders(q, 0), NEW e \in Entries(now),
         \A d \in Cells : q.entry[d].page # e.page,
         NEW t \in Cells,
         NEW r, r = [entry |-> [q.entry EXCEPT ![c] = e], head |-> q.head, tail |-> t,
                     occupancy |-> q.occupancy + 1]
  PROVE  QueueOK(r, now) /\ Kept(r) = Kept(q) \cup {Slot(e)}
<1>1. q.entry \in [Cells -> Entries(now) \cup {EmptyCell}] /\ q.head \in Cells  BY DEF QueueOK
<1>2. c \in Cells /\ q.entry[c].page = 0  BY DEF Holders
<1>3. /\ r.entry = [q.entry EXCEPT ![c] = e] /\ r.occupancy = q.occupancy + 1
      /\ r.head = q.head /\ r.tail = t
  OBVIOUS
<1>4. \A d \in Cells : r.entry[d] = IF d = c THEN e ELSE q.entry[d]  BY <1>1, <1>2, <1>3
<1>5. r.entry \in [Cells -> Entries(now) \cup {EmptyCell}]  BY <1>1, <1>3
<1>6. e.page # 0  BY SizesType DEF Entries
<1>7. Holders(r, 0) = Holders(q, 0) \ {c}  BY <1>4, <1>6 DEF Holders
<1>8. IsFiniteSet(Holders(q, 0)) /\ Cardinality(Holders(q, 0)) \in Nat /\ q.occupancy \in 0 .. PqSize
  BY HolesType
<1>9. Cardinality(Holders(r, 0)) = Cardinality(Holders(q, 0)) - 1
  BY <1>7, <1>8, FS_RemoveElement
<1>10. q.occupancy + Cardinality(Holders(q, 0)) = PqSize  BY DEF QueueOK
<1>11. r.occupancy \in Nat /\ r.occupancy + Cardinality(Holders(r, 0)) = PqSize
  BY <1>3, <1>8, <1>9, <1>10, SizesType
<1>12. r \in [entry : [Cells -> Entries(now) \cup {EmptyCell}], head : Cells, tail : Cells,
              occupancy : Nat]
  BY <1>1, <1>3, <1>5, <1>11
<1>13. \A d, k \in Cells : r.entry[d].page # 0 /\ r.entry[d].page = r.entry[k].page => d = k
  BY <1>4 DEF QueueOK
<1>14. QueueOK(r, now)  BY <1>11, <1>12, <1>13 DEF QueueOK
<1>15. \A d \in Cells : d \notin Holders(r, 0) <=> d = c \/ d \notin Holders(q, 0)  BY <1>7
<1>16. Kept(r) = Kept(q) \cup {Slot(e)}
  <2>1. ASSUME NEW x \in Kept(r) PROVE x \in Kept(q) \cup {Slot(e)}
    <3>1. PICK d \in Cells \ Holders(r, 0) : x = Slot(r.entry[d])  BY <2>1 DEF Kept
    <3>2. CASE d = c  BY <1>4, <3>1, <3>2
    <3>3. CASE d # c
      <4>1. d \in Cells \ Holders(q, 0) /\ x = Slot(q.entry[d])  BY <1>4, <1>15, <3>1, <3>3
      <4> QED  BY <4>1 DEF Kept
    <3> QED  BY <3>2, <3>3
  <2>2. ASSUME NEW x \in Kept(q) PROVE x \in Kept(r)
    <3>1. PICK d \in Cells \ Holders(q, 0) : x = Slot(q.entry[d])  BY <2>2 DEF Kept
    <3>2. d # c  BY <3>1
    <3>3. d \in Cells \ Holders(r, 0) /\ x = Slot(r.entry[d])  BY <1>4, <1>15, <3>1, <3>2
    <3> QED  BY <3>3 DEF Kept
  <2>3. Slot(e) \in Kept(r)
    <3>1. c \in Cells \ Holders(r, 0) /\ Slot(e) = Slot(r.entry[c])  BY <1>2, <1>4, <1>15
    <3> QED  BY <3>1 DEF Kept
  <2> QED  BY <2>1, <2>2, <2>3
<1> QED  BY <1>14, <1>16

(* The oldest entry of a queue without holes.                                  *)
LEMMA OldestFacts ==
  ASSUME NEW q, NEW now \in Nat, QueueOK(q, now), Holders(q, 0) = {}
  PROVE  /\ OldestCell(q) \in Cells
         /\ \A c \in Cells : q.entry[OldestCell(q)].since =< q.entry[c].since
<1> DEFINE times  == {q.entry[c].since : c \in Cells}
           oldest == {c \in Cells : \A x \in Cells : q.entry[c].since =< q.entry[x].since}
<1>1. \A c \in Cells : q.entry[c] \in Entries(now)  BY FullCell
<1>2. \A c \in Cells : q.entry[c].since \in Nat  BY <1>1 DEF Entries
<1>3. times # {} /\ \A x \in times : x \in Nat  BY <1>2, CellsType
<1>4. PICK m \in times : \A y \in times : m =< y
  <2> HIDE DEF times
  <2> QED  BY <1>3, LeastNat
<1>5. oldest # {} /\ \A c \in oldest : c \in Nat  BY <1>4, CellsType
<1> HIDE DEF oldest
<1>6. Min(oldest) \in oldest  BY <1>5, LeastNat
<1> QED  BY <1>6 DEF oldest, OldestCell

(* add_pq of a page that is not queued, when there is a hole.                  *)
LEMMA AddPqFacts ==
  ASSUME NEW q, NEW now \in Nat, QueueOK(q, now), q.occupancy # PqSize,
         NEW e \in Entries(now), \A d \in Cells : q.entry[d].page # e.page
  PROVE  /\ QueueOK(AddPq(q, e), now) /\ AddPq(q, e).occupancy = q.occupancy + 1
         /\ Kept(AddPq(q, e)) = Kept(q) \cup {Slot(e)}
         /\ \A d \in Cells : AddPq(q, e).entry[d] \in {e, q.entry[d]}
<1> DEFINE h == Min(Holders(q, 0))
           w == Wrapped(h + 1)
           r == [entry |-> [q.entry EXCEPT ![h] = e], head |-> q.head, tail |-> w,
                 occupancy |-> q.occupancy + 1]
<1>1. Holders(q, 0) # {} /\ \A c \in Holders(q, 0) : c \in Nat /\ c \in Cells
  BY HolesType, CellsType
<1>2. h \in Holders(q, 0)  BY <1>1, LeastNat
<1>3. q \in [entry : [Cells -> Entries(now) \cup {EmptyCell}], head : Cells, tail : Cells,
             occupancy : Nat]
  BY DEF QueueOK
<1>4. UpdateTail(q) = [q EXCEPT !.tail = h]  BY <1>1 DEF UpdateTail
<1>5. w \in Cells
  <2>1. h \in Nat /\ h < PqSize  BY <1>1, <1>2, CellsType
  <2>2. h + 1 \in 0 .. PqSize  BY <2>1, SizesType
  <2> QED  BY <2>2, CellsType
<1> HIDE DEF h
<1>6. UpdateTail(q).tail = h /\ UpdateTail(q).head = q.head /\ UpdateTail(q).entry = q.entry
      /\ UpdateTail(q).occupancy = q.occupancy
  BY <1>3, <1>4
<1>7. UpdateTail(q) = [entry |-> q.entry, head |-> q.head, tail |-> h, occupancy |-> q.occupancy]
  BY <1>3, <1>4
<1>8. AddPq(q, e) = [UpdateTail(q) EXCEPT !.entry[UpdateTail(q).tail] = e, !.occupancy = @ + 1,
                                          !.tail = Wrapped(@ + 1)]
  BY DEF AddPq
<1> HIDE DEF w
<1>9. AddPq(q, e) = r  BY <1>6, <1>7, <1>8 DEF w
<1>10. QueueOK(r, now) /\ Kept(r) = Kept(q) \cup {Slot(e)}
  <2> HIDE DEF r
  <2>1. r = [entry |-> [q.entry EXCEPT ![h] = e], head |-> q.head, tail |-> w,
             occupancy |-> q.occupancy + 1]
    BY DEF r
  <2> QED  BY <1>2, <1>5, <2>1, EnteredFacts
<1>11. r.occupancy = q.occupancy + 1  OBVIOUS
<1>12. \A d \in Cells : r.entry[d] \in {e, q.entry[d]}  BY <1>3
<1> HIDE DEF r
<1> QED  BY <1>9, <1>10, <1>11, <1>12

(* remove_queue_lru of a full queue.                                           *)
LEMMA RemoveLruFacts ==
  ASSUME NEW q, NEW now \in Nat, now < Never, QueueOK(q, now), q.occupancy = PqSize
  PROVE  /\ QueueOK(RemoveLru(q), now) /\ RemoveLru(q).occupancy = PqSize - 1
         /\ \A d \in Cells : RemoveLru(q).entry[d] \in {EmptyCell, q.entry[d]}
         /\ \E x \in Kept(q) : /\ Kept(RemoveLru(q)) = Kept(q) \ {x}
                               /\ \A y \in Kept(q) : x.since =< y.since
<1> DEFINE o == OldestCell(q)
           r == [entry |-> [q.entry EXCEPT ![o] = EmptyCell], head |-> q.head, tail |-> q.tail,
                 occupancy |-> q.occupancy - 1]
<1>1. Holders(q, 0) = {}  BY HolesType
<1>2. o \in Cells /\ \A c \in Cells : q.entry[o].since =< q.entry[c].since
  BY <1>1, OldestFacts
<1>3. q \in [entry : [Cells -> Entries(now) \cup {EmptyCell}], head : Cells, tail : Cells,
             occupancy : Nat]
  BY DEF QueueOK
<1>4. \A c \in Cells : q.entry[c] \in Entries(now) /\ q.entry[c].page # 0  BY <1>1, FullCell
<1>5. q.entry[o].since # Never
  <2>1. q.entry[o].since \in 0 .. now  BY <1>2, <1>4 DEF Entries
  <2> QED  BY <2>1, SizesType
<1>6. RemoveLru(q) = [q EXCEPT !.entry[o] = EmptyCell, !.occupancy = @ - 1]
  BY <1>5 DEF RemoveLru
<1> HIDE DEF o
<1>7. RemoveLru(q) = r  BY <1>3, <1>6
<1>8. q.head \in Cells /\ q.tail \in Cells  BY <1>3
<1>9. QueueOK(r, now) /\ Kept(r) = Kept(q) \ {Slot(q.entry[o])}
  <2> HIDE DEF r
  <2>1. r = [entry |-> [q.entry EXCEPT ![o] = EmptyCell], head |-> q.head, tail |-> q.tail,
             occupancy |-> q.occupancy - 1]
    BY DEF r
  <2> QED  BY <1>2, <1>4, <1>8, <2>1, EmptiedFacts
<1>10. Slot(q.entry[o]) \in Kept(q)  BY <1>1, <1>2 DEF Kept
<1>11. ASSUME NEW y \in Kept(q) PROVE Slot(q.entry[o]).since =< y.since
  BY <1>2 DEF Kept, Slot
<1>12. r.occupancy = PqSize - 1  OBVIOUS
<1>13. \A d \in Cells : r.entry[d] \in {EmptyCell, q.entry[d]}  BY <1>3
<1> HIDE DEF r
<1> QED  BY <1>7, <1>9, <1>10, <1>11, <1>12, <1>13

(* What prefetch_page does to the queue: it enters the page, and forgets the   *)
(* oldest entry when it was full.                                              *)
LEMMA PrefetchedFacts ==
  ASSUME NEW q, NEW now \in Nat, now < Never, QueueOK(q, now),
         NEW e \in Entries(now), CheckVpn(q, e.page) = NoCell
  PROVE  /\ QueueOK(Prefetched(q, e), now)
         /\ \A d \in Cells : Prefetched(q, e).entry[d] \in {e, EmptyCell, q.entry[d]}
         /\ \/ /\ q.occupancy # PqSize /\ Kept(Prefetched(q, e)) = Kept(q) \cup {Slot(e)}
            \/ /\ q.occupancy = PqSize /\ Prefetched(q, e).occupancy = PqSize
               /\ \E x \in Kept(q) : /\ Kept(Prefetched(q, e)) = (Kept(q) \ {x}) \cup {Slot(e)}
                                     /\ \A y \in Kept(q) : x.since =< y.since
<1>1. e.page \in AllPages /\ e.page # 0  BY SizesType DEF Entries
<1>2. \A d \in Cells : q.entry[d].page # e.page  BY <1>1, CheckVpnFacts
<1>3. CASE q.occupancy # PqSize
  <2>1. Prefetched(q, e) = AddPq(q, e)  BY <1>3 DEF Prefetched
  <2> QED  BY <1>2, <1>3, <2>1, AddPqFacts
<1>4. CASE q.occupancy = PqSize
  <2> DEFINE m == RemoveLru(q)
  <2>1. Prefetched(q, e) = AddPq(m, e)  BY <1>4 DEF Prefetched
  <2>2. /\ QueueOK(m, now) /\ m.occupancy = PqSize - 1
        /\ \A d \in Cells : m.entry[d] \in {EmptyCell, q.entry[d]}
        /\ \E x \in Kept(q) : Kept(m) = Kept(q) \ {x} /\ \A y \in Kept(q) : x.since =< y.since
    BY <1>4, RemoveLruFacts
  <2> HIDE DEF m
  <2>3. EmptyCell.page = 0  BY DEF EmptyCell
  <2>4. \A d \in Cells : m.entry[d].page # e.page  BY <1>1, <1>2, <2>2, <2>3
  <2>5. m.occupancy # PqSize /\ m.occupancy + 1 = PqSize  BY <2>2, SizesType
  <2>6. /\ QueueOK(AddPq(m, e), now) /\ AddPq(m, e).occupancy = m.occupancy + 1
        /\ Kept(AddPq(m, e)) = Kept(m) \cup {Slot(e)}
        /\ \A d \in Cells : AddPq(m, e).entry[d] \in {e, m.entry[d]}
    BY <2>2, <2>4, <2>5, AddPqFacts
  <2>7. \A d \in Cells : AddPq(m, e).entry[d] \in {e, EmptyCell, q.entry[d]}  BY <2>2, <2>6
  <2> QED  BY <1>4, <2>1, <2>2, <2>5, <2>6, <2>7
<1> QED  BY <1>3, <1>4

(* remove_queue_prefetch: a demand miss takes its translation.                 *)
LEMMA TakenFacts ==
  ASSUME NEW q, NEW now \in Nat, QueueOK(q, now), NEW c \in Cells, q.entry[c].page # 0
  PROVE  /\ QueueOK(Taken(q, c), now) /\ Kept(Taken(q, c)) = Kept(q) \ {Slot(q.entry[c])}
         /\ \A d \in Cells : Taken(q, c).entry[d] \in {EmptyCell, q.entry[d]}
<1> DEFINE h == Wrapped((IF q.head = q.tail THEN c ELSE q.head) + 1)
           t == IF q.head = q.tail THEN c ELSE q.tail
           r == [entry |-> [q.entry EXCEPT ![c] = EmptyCell], head |-> h, tail |-> t,
                 occupancy |-> q.occupancy - 1]
<1>1. q \in [entry : [Cells -> Entries(now) \cup {EmptyCell}], head : Cells, tail : Cells,
             occupancy : Nat]
  BY DEF QueueOK
<1>2. \A x \in Cells : Wrapped(x + 1) \in Cells
  <2>1. \A x \in Cells : x + 1 \in 0 .. PqSize  BY CellsType, SizesType
  <2> QED  BY <2>1, CellsType
<1>3. h \in Cells /\ t \in Cells
  <2>1. q.head \in Cells /\ q.tail \in Cells  BY <1>1
  <2> QED  BY <1>2, <2>1
<1>8. Taken(q, c) = [q EXCEPT !.entry[c] = EmptyCell, !.occupancy = @ - 1, !.head = h, !.tail = t]
  BY <1>1 DEF Taken
<1> HIDE DEF h, t
<1>4. Taken(q, c) = r  BY <1>1, <1>8
<1>5. \A d \in Cells : r.entry[d] \in {EmptyCell, q.entry[d]}  BY <1>1
<1>6. r = [entry |-> [q.entry EXCEPT ![c] = EmptyCell], head |-> h, tail |-> t,
           occupancy |-> q.occupancy - 1]
  OBVIOUS
<1> HIDE DEF r
<1>7. QueueOK(r, now) /\ Kept(r) = Kept(q) \ {Slot(q.entry[c])}
  BY <1>3, <1>6, EmptiedFacts
<1> QED  BY <1>4, <1>5, <1>7

(* A swap marks the entries of the pages that lost their frame.                *)
LEMMA RacedQueueFacts ==
  ASSUME NEW q, NEW now \in Nat, QueueOK(q, now), NEW lost \in SUBSET AllPages
  PROVE  /\ QueueOK(RacedQueue(q, lost), now) /\ Kept(RacedQueue(q, lost)) = Kept(q)
         /\ \A c \in Cells : /\ RacedQueue(q, lost).entry[c] = Raced(q.entry[c], lost)
                             /\ RacedIs(Raced(q.entry[c], lost), q.entry[c], lost)
<1> DEFINE r == RacedQueue(q, lost)
           f == [c \in Cells |-> Raced(q.entry[c], lost)]
<1>1. q \in [entry : [Cells -> Entries(now) \cup {EmptyCell}], head : Cells, tail : Cells,
             occupancy : Nat]
  BY DEF QueueOK
<1>2. r = [entry |-> f, head |-> q.head, tail |-> q.tail, occupancy |-> q.occupancy]
  BY <1>1 DEF RacedQueue
<1>3. ASSUME NEW c \in Cells
      PROVE  /\ Raced(q.entry[c], lost) \in Entries(now) \cup {EmptyCell}
             /\ RacedIs(Raced(q.entry[c], lost), q.entry[c], lost)
             /\ Raced(q.entry[c], lost).since = q.entry[c].since
  <2>1. CASE q.entry[c] = EmptyCell
    <3>1. EmptyCell.page \notin lost  BY SizesType DEF EmptyCell
    <3>2. Raced(q.entry[c], lost) = EmptyCell  BY <2>1, <3>1 DEF Raced
    <3>3. EmptyCell.raced \in BOOLEAN  BY DEF EmptyCell
    <3>4. RacedIs(EmptyCell, EmptyCell, lost)  BY <3>1, <3>3 DEF RacedIs
    <3> QED  BY <2>1, <3>2, <3>4
  <2>2. CASE q.entry[c] \in Entries(now)  BY <2>2, RacedEntry DEF Entries
  <2> QED  BY <1>1, <2>1, <2>2
<1>4. /\ r.entry = f /\ r.head = q.head /\ r.tail = q.tail /\ r.occupancy = q.occupancy
  BY <1>2
<1>5. \A c \in Cells : r.entry[c] = Raced(q.entry[c], lost)  BY <1>4
<1>6. f \in [Cells -> Entries(now) \cup {EmptyCell}]  BY <1>3
<1>7. r \in [entry : [Cells -> Entries(now) \cup {EmptyCell}], head : Cells, tail : Cells,
             occupancy : Nat]
  BY <1>1, <1>2, <1>6
<1> HIDE DEF r, f
<1>8. \A c \in Cells : r.entry[c].page = q.entry[c].page /\ Slot(r.entry[c]) = Slot(q.entry[c])
  BY <1>3, <1>5 DEF RacedIs, Slot
<1>9. Holders(r, 0) = Holders(q, 0)  BY <1>8 DEF Holders
<1>10. Kept(r) = Kept(q)  BY <1>8, <1>9 DEF Kept
<1>11. QueueOK(r, now)  BY <1>4, <1>7, <1>8, <1>9 DEF QueueOK
<1> QED  BY <1>3, <1>5, <1>10, <1>11 DEF r

--------------------------------------------------------------------------------
(* One miss that the STLB serves: what it does to the queue and the table      *)

Current(q, table) == \A c \in Cells : q.entry[c].page # 0 => CopyOK(q.entry[c], table)

(* From what was kept before (old) the oldest are forgotten, and those only    *)
(* when the queue is full; what is new is of this cycle.                       *)
Grown(old, q) ==
  /\ \A x \in Kept(q) : x \in old \/ x.since = cycle
  /\ \A e \in old \ Kept(q), x \in Kept(q) : e.since =< x.since
  /\ old \ Kept(q) # {} => q.occupancy = PqSize

ServedOK(s, table, old) ==
  /\ QueueOK(s.pq, cycle) /\ Current(s.pq, table) /\ FctbOK(s.fctb)
  /\ Grown(old, s.pq)

CallType == [page : AllPages, free : BOOLEAN, stall : Stalls]

LEMMA PrefetchPageKeeps ==
  ASSUME cycle \in Nat, cycle < Never, NEW table, TableOK(table), NEW old,
         \A x \in old : x.since \in 0 .. cycle,
         NEW s, ServedOK(s, table, old), NEW call \in CallType
  PROVE  ServedOK(PrefetchPage(table, s, call), table, old)
<1> DEFINE r == PrefetchPage(table, s, call)
           e == [page |-> call.page, frame |-> table[call.page], since |-> cycle, raced |-> FALSE]
<1>1. call.page \in AllPages /\ call.stall \in Stalls  BY DEF CallType
<1>2. CASE table[call.page] = 0 \/ CheckVpn(s.pq, call.page) # NoCell
  BY <1>2 DEF PrefetchPage
<1>3. CASE table[call.page] # 0 /\ CheckVpn(s.pq, call.page) = NoCell
  <2>1. /\ r.pq = Prefetched(s.pq, e)
        /\ r.fctb = IF call.free \/ FctbKnows(s.fctb, call.page) THEN s.fctb
                    ELSE Walked(s.fctb, call.page, PrefetchPlace(call.page), call.stall)
    BY <1>3 DEF PrefetchPage
  <2>2. e \in Entries(cycle) /\ e.page = call.page /\ e.since = cycle /\ CopyOK(e, table)
    <3>1. table[call.page] \in Frames  BY <1>1, <1>3 DEF TableOK
    <3>2. e.raced \in BOOLEAN /\ cycle \in 0 .. cycle  OBVIOUS
    <3>3. e \in Entries(cycle)  BY <1>1, <3>1, <3>2 DEF Entries
    <3> QED  BY <3>3 DEF CopyOK
  <2>3. Slot(e).since = cycle  BY <2>2 DEF Slot
  <2> HIDE DEF e, r
  <2> DEFINE q == s.pq
             n == Prefetched(s.pq, e)
  <2>4. QueueOK(q, cycle) /\ Current(q, table) /\ FctbOK(s.fctb) /\ Grown(old, q)
    BY DEF ServedOK
  <2>5. /\ QueueOK(n, cycle)
        /\ \A d \in Cells : n.entry[d] \in {e, EmptyCell, q.entry[d]}
        /\ \/ /\ q.occupancy # PqSize /\ Kept(n) = Kept(q) \cup {Slot(e)}
           \/ /\ q.occupancy = PqSize /\ n.occupancy = PqSize
              /\ \E x \in Kept(q) : /\ Kept(n) = (Kept(q) \ {x}) \cup {Slot(e)}
                                    /\ \A y \in Kept(q) : x.since =< y.since
    BY <1>3, <2>2, <2>4, PrefetchedFacts
  <2>6. FctbOK(r.fctb)  BY <1>1, <2>1, <2>4, WalkedKeeps DEF PrefetchPlace
  <2> HIDE DEF q, n
  <2>7. Current(n, table)
    <3>1. EmptyCell.page = 0  BY DEF EmptyCell
    <3> QED  BY <2>2, <2>4, <2>5, <3>1 DEF Current
  <2>8. Grown(old, n)
    <3>1. CASE q.occupancy # PqSize /\ Kept(n) = Kept(q) \cup {Slot(e)}
      <4>1. old \ Kept(q) = {}  BY <2>4, <3>1 DEF Grown
      <4>2. old \ Kept(n) = {}  BY <3>1, <4>1
      <4>3. \A x \in Kept(n) : x \in old \/ x.since = cycle  BY <2>3, <2>4, <3>1 DEF Grown
      <4> QED  BY <4>2, <4>3 DEF Grown
    <3>2. ASSUME n.occupancy = PqSize, NEW x \in Kept(q), Kept(n) = (Kept(q) \ {x}) \cup {Slot(e)},
                 \A y \in Kept(q) : x.since =< y.since
          PROVE  Grown(old, n)
      <4>1. \A y \in Kept(n) : y \in old \/ y.since = cycle  BY <2>3, <2>4, <3>2 DEF Grown
      <4>2. ASSUME NEW d \in old \ Kept(n), NEW y \in Kept(n) PROVE d.since =< y.since
        <5>1. CASE y = Slot(e)
          <6>1. d.since \in 0 .. cycle  BY <4>2
          <6> QED  BY <2>3, <5>1, <6>1
        <5>2. CASE y \in Kept(q) /\ d = x  BY <3>2, <5>2
        <5>3. CASE y \in Kept(q) /\ d # x
          <6>1. d \in old \ Kept(q)  BY <3>2, <4>2, <5>3
          <6> QED  BY <2>4, <5>3, <6>1 DEF Grown
        <5> QED  BY <3>2, <4>2, <5>1, <5>2, <5>3
      <4> QED  BY <3>2, <4>1, <4>2 DEF Grown
    <3> QED  BY <2>5, <3>1, <3>2
  <2>9. r.pq = n  BY <2>1 DEF n
  <2>10. ServedOK(r, table, old)  BY <2>5, <2>6, <2>7, <2>8, <2>9 DEF ServedOK
  <2> QED  BY <2>10 DEF r
<1> QED  BY <1>2, <1>3

(* The states of the queue and the table between the calls.                    *)
Between(f, table, s, calls, n) ==
  /\ f = [k \in 0 .. n |-> f[k]]
  /\ \A k \in 0 .. n : f[k] = IF k = 0 THEN s ELSE PrefetchPage(table, f[k - 1], calls[k])

LEMMA BetweenExists ==
  ASSUME NEW table, NEW s, NEW calls, NEW n \in Nat
  PROVE  \E f : Between(f, table, s, calls, n)
<1> DEFINE S == {k \in Nat : ~ \E f : Between(f, table, s, calls, k)}
<1>1. S = {}
  <2> SUFFICES ASSUME S # {} PROVE FALSE  OBVIOUS
  <2> DEFINE m == Min(S)
  <2>1. m \in S /\ \A k \in S : m =< k
    <3>1. \A k \in S : k \in Nat  OBVIOUS
    <3> HIDE DEF S
    <3> QED  BY <3>1, LeastNat
  <2>2. m \in Nat /\ ~ \E f : Between(f, table, s, calls, m)  BY <2>1
  <2> HIDE DEF m
  <2>3. CASE m = 0
    <3> DEFINE g == [k \in 0 .. 0 |-> s]
    <3>1. g = [k \in 0 .. 0 |-> g[k]] /\ \A k \in 0 .. 0 : k = 0 /\ g[k] = s  OBVIOUS
    <3> HIDE DEF g
    <3>2. Between(g, table, s, calls, 0)  BY <3>1 DEF Between
    <3> QED  BY <2>2, <2>3, <3>2
  <2>4. CASE m # 0
    <3>1. m - 1 \in Nat /\ m - 1 \notin S  BY <2>1, <2>2, <2>4
    <3>2. PICK f : Between(f, table, s, calls, m - 1)  BY <3>1
    <3> DEFINE g == [k \in 0 .. m |-> IF k = m THEN PrefetchPage(table, f[m - 1], calls[m])
                                      ELSE f[k]]
    <3>3. \A k \in 0 .. m : g[k] = IF k = m THEN PrefetchPage(table, f[m - 1], calls[m]) ELSE f[k]
      OBVIOUS
    <3>4. g = [k \in 0 .. m |-> g[k]]  OBVIOUS
    <3> HIDE DEF g
    <3>5. ASSUME NEW k \in 0 .. m
          PROVE  g[k] = IF k = 0 THEN s ELSE PrefetchPage(table, g[k - 1], calls[k])
      <4>1. CASE k = 0
        <5>1. 0 \in 0 .. m - 1 /\ 0 # m  BY <2>2, <2>4
        <5>2. g[k] = f[0] /\ f[0] = s  BY <3>2, <3>3, <4>1, <5>1 DEF Between
        <5> QED  BY <4>1, <5>2
      <4>2. CASE k # 0 /\ k # m
        <5>1. k \in 0 .. m - 1 /\ k - 1 \in 0 .. m /\ k - 1 # m  BY <2>2, <4>2
        <5>2. g[k] = f[k] /\ g[k - 1] = f[k - 1]  BY <3>3, <4>2, <5>1
        <5> QED  BY <3>2, <4>2, <5>1, <5>2 DEF Between
      <4>3. CASE k = m
        <5>1. m - 1 \in 0 .. m /\ m - 1 # m  BY <2>2, <2>4
        <5> QED  BY <2>4, <3>3, <4>3, <5>1
      <4> QED  BY <4>1, <4>2, <4>3
    <3>6. Between(g, table, s, calls, m)  BY <3>4, <3>5 DEF Between
    <3> QED  BY <2>2, <3>6
  <2> QED  BY <2>3, <2>4
<1> QED  BY <1>1

LEMMA AfterCallsFacts ==
  ASSUME cycle \in Nat, cycle < Never, NEW table, TableOK(table), NEW old,
         \A x \in old : x.since \in 0 .. cycle,
         NEW s, ServedOK(s, table, old), NEW calls \in Seq(CallType)
  PROVE  ServedOK(AfterCalls(table, s, calls), table, old)
<1> DEFINE n == Len(calls)
           Is(f) == f = [k \in 0 .. Len(calls) |->
                           IF k = 0 THEN s ELSE PrefetchPage(table, f[k - 1], calls[k])]
           after == CHOOSE f : Is(f)
<1>1. n \in Nat /\ DOMAIN calls = 1 .. n /\ \A k \in 1 .. n : calls[k] \in CallType
  BY SeqElements
<1>2. PICK f : Between(f, table, s, calls, n)  BY <1>1, BetweenExists
<1>3. Is(f)  BY <1>2 DEF Between
<1>4. AfterCalls(table, s, calls) = after[n]  BY DEF AfterCalls
<1>5. Is(after)  BY <1>3
<1>6. \A k \in 0 .. n : after[k] = IF k = 0 THEN s ELSE PrefetchPage(table, after[k - 1], calls[k])
  BY <1>5
<1> HIDE DEF after, Is, n
<1> DEFINE S == {k \in 0 .. n : ~ServedOK(after[k], table, old)}
<1>7. S = {}
  <2> SUFFICES ASSUME S # {} PROVE FALSE  OBVIOUS
  <2> DEFINE m == Min(S)
  <2>1. m \in S /\ \A k \in S : m =< k
    <3>1. \A k \in S : k \in Nat  BY <1>1
    <3> HIDE DEF S
    <3> QED  BY <3>1, LeastNat
  <2>2. m \in 0 .. n /\ ~ServedOK(after[m], table, old)  BY <2>1
  <2> HIDE DEF m
  <2>3. m # 0  BY <1>1, <1>6, <2>2
  <2>4. m \in 1 .. n /\ m - 1 \in 0 .. n /\ m - 1 \notin S  BY <1>1, <2>1, <2>2, <2>3
  <2>5. ServedOK(after[m - 1], table, old)  BY <2>4
  <2>6. after[m] = PrefetchPage(table, after[m - 1], calls[m]) /\ calls[m] \in CallType
    BY <1>1, <1>6, <2>3, <2>4
  <2>7. ServedOK(PrefetchPage(table, after[m - 1], calls[m]), table, old)
    <3> HIDE DEF S
    <3> QED  BY <2>5, <2>6, PrefetchPageKeeps
  <2> QED  BY <2>2, <2>6, <2>7
<1>8. n \in 0 .. n  BY <1>1
<1> QED  BY <1>4, <1>7, <1>8

--------------------------------------------------------------------------------
(* Lists that lose their head, grow or change                                  *)

LEMMA TailFacts ==
  ASSUME NEW S, NEW s \in Seq(S), s # <<>>, Distinct(s)
  PROVE  /\ Head(s) \in S /\ Head(s) = s[1] /\ Range(s) = {Head(s)} \cup Range(Tail(s))
         /\ Tail(s) \in Seq(S) /\ Len(Tail(s)) = Len(s) - 1 /\ Distinct(Tail(s))
         /\ \A e \in Range(Tail(s)) : e.page # Head(s).page
<1>1. Len(s) \in Nat /\ DOMAIN s = 1 .. Len(s) /\ \A k \in DOMAIN s : s[k] \in S
  BY SeqElements
<1>2. Len(s) # 0  BY EmptySeq
<1>3. /\ Head(s) = s[1] /\ Tail(s) \in Seq(S) /\ Len(Tail(s)) = Len(s) - 1
      /\ \A i \in 1 .. Len(Tail(s)) : Tail(s)[i] = s[i + 1]
  BY HeadTailProperties
<1>4. DOMAIN Tail(s) = 1 .. Len(s) - 1  BY <1>3, SeqElements
<1> DEFINE t == Tail(s)
<1> HIDE DEF t
<1>5. DOMAIN t = 1 .. Len(s) - 1 /\ \A i \in DOMAIN t : i + 1 \in DOMAIN s /\ t[i] = s[i + 1]
  BY <1>1, <1>3, <1>4 DEF t
<1>6. 1 \in DOMAIN s /\ \A i \in DOMAIN s : i = 1 \/ (i - 1 \in DOMAIN t /\ t[i - 1] = s[i])
  <2>1. 1 \in DOMAIN s  BY <1>1, <1>2
  <2>2. ASSUME NEW i \in DOMAIN s, i # 1 PROVE i - 1 \in DOMAIN t /\ t[i - 1] = s[i]
    <3>1. i - 1 \in DOMAIN t /\ i - 1 + 1 = i  BY <1>1, <1>5, <2>2
    <3> QED  BY <1>5, <3>1
  <2> QED  BY <2>1, <2>2
<1>7. Range(s) = {s[1]} \cup Range(t)
  <2>1. \A x \in Range(s) : x \in {s[1]} \cup Range(t)  BY <1>6 DEF Range
  <2>2. \A x \in Range(t) : x \in Range(s)  BY <1>5 DEF Range
  <2>3. s[1] \in Range(s)  BY <1>6 DEF Range
  <2> QED  BY <2>1, <2>2, <2>3
<1>8. \A i, j \in DOMAIN t : t[i].page = t[j].page => i = j
  <2>1. ASSUME NEW i \in DOMAIN t, NEW j \in DOMAIN t, t[i].page = t[j].page PROVE i = j
    <3>1. i + 1 = j + 1  BY <1>5, <2>1 DEF Distinct
    <3> QED  BY <1>1, <1>5, <3>1
  <2> QED  BY <2>1
<1>9. \A i \in DOMAIN t : t[i].page # s[1].page
  <2>1. ASSUME NEW i \in DOMAIN t, t[i].page = s[1].page PROVE FALSE
    <3>1. i + 1 = 1  BY <1>5, <1>6, <2>1 DEF Distinct
    <3> QED  BY <1>1, <1>5, <3>1
  <2> QED  BY <2>1
<1>10. \A e \in Range(t) : e.page # s[1].page  BY <1>9 DEF Range
<1>11. Distinct(t)  BY <1>8 DEF Distinct
<1>12. s[1] \in S  BY <1>1, <1>6
<1> QED  BY <1>3, <1>7, <1>10, <1>11, <1>12 DEF t

LEMMA AppendFacts ==
  ASSUME NEW S, NEW s \in Seq(S), Distinct(s), NEW e \in S, e.page \notin PagesIn(s)
  PROVE  /\ Append(s, e) \in Seq(S) /\ Len(Append(s, e)) = Len(s) + 1
         /\ Range(Append(s, e)) = Range(s) \cup {e} /\ Distinct(Append(s, e))
<1> DEFINE r == Append(s, e)
<1>1. Len(s) \in Nat /\ DOMAIN s = 1 .. Len(s)  BY SeqElements
<1>2. /\ r \in Seq(S) /\ Len(r) = Len(s) + 1
      /\ \A i \in 1 .. Len(s) : r[i] = s[i]
      /\ r[Len(s) + 1] = e
  BY AppendProperties
<1>3. DOMAIN r = 1 .. Len(s) + 1  BY <1>2, SeqElements
<1> HIDE DEF r
<1>4. \A i \in DOMAIN r : i = Len(s) + 1 \/ (i \in DOMAIN s /\ r[i] = s[i])  BY <1>1, <1>2, <1>3
<1>5. \A i \in DOMAIN s : i \in DOMAIN r /\ r[i] = s[i]  BY <1>1, <1>2, <1>3
<1>6. Len(s) + 1 \in DOMAIN r  BY <1>1, <1>3
<1>7. Range(r) = Range(s) \cup {e}
  <2>1. \A x \in Range(r) : x \in Range(s) \cup {e}  BY <1>2, <1>4 DEF Range
  <2>2. \A x \in Range(s) : x \in Range(r)  BY <1>5 DEF Range
  <2>3. e \in Range(r)  BY <1>2, <1>6 DEF Range
  <2> QED  BY <2>1, <2>2, <2>3
<1>8. \A i \in DOMAIN s : s[i].page # e.page  BY DEF PagesIn
<1>9. Distinct(r)  BY <1>2, <1>4, <1>8 DEF Distinct
<1> QED  BY <1>2, <1>7, <1>9 DEF r

(* An entry that changes but keeps its page.                                   *)
Replaced(r, s, e) == \A x : x \in Range(r) <=> (x \in Range(s) /\ x.page # e.page) \/ x = e

LEMMA ChangedFacts ==
  ASSUME NEW S, NEW s \in Seq(S), Distinct(s), NEW i \in DOMAIN s, NEW e \in S,
         e.page = s[i].page, NEW r, r = [s EXCEPT ![i] = e]
  PROVE  /\ r \in Seq(S) /\ Len(r) = Len(s) /\ Distinct(r)
         /\ Replaced(r, s, e)
<1>1. Len(s) \in Nat /\ DOMAIN s = 1 .. Len(s) /\ s \in [1 .. Len(s) -> S]
  BY SeqElements, SeqDef
<1>2. r \in [1 .. Len(s) -> S]  BY <1>1
<1>3. r \in Seq(S) /\ Len(r) = Len(s) /\ DOMAIN r = 1 .. Len(s)  BY <1>1, <1>2, FunctionIsSeq
<1>4. \A k \in DOMAIN s : r[k] = IF k = i THEN e ELSE s[k]  BY <1>1
<1>5. DOMAIN r = DOMAIN s  BY <1>1, <1>3
<1>6. \A j, k \in DOMAIN r : r[j].page = r[k].page => j = k  BY <1>4, <1>5 DEF Distinct
<1>7. \A k \in DOMAIN s : k # i => s[k].page # e.page  BY DEF Distinct
<1>8. \A x : x \in Range(r) <=> (x \in Range(s) /\ x.page # e.page) \/ x = e
  <2>1. \A x \in Range(r) : (x \in Range(s) /\ x.page # e.page) \/ x = e
    BY <1>4, <1>5, <1>7 DEF Range
  <2>2. \A x \in Range(s) : x.page # e.page => x \in Range(r)  BY <1>4, <1>5 DEF Range
  <2>3. e \in Range(r)  BY <1>4, <1>5 DEF Range
  <2> QED  BY <2>1, <2>2, <2>3
<1>9. Distinct(r)  BY <1>6 DEF Distinct
<1>10. Replaced(r, s, e)  BY <1>8 DEF Replaced
<1> QED  BY <1>3, <1>9, <1>10

LEMMA RacedSeqFacts ==
  ASSUME NEW s \in Seq(StlbMisses), Distinct(s), NEW lost
  PROVE  /\ RacedSeq(s, lost) \in Seq(StlbMisses) /\ Len(RacedSeq(s, lost)) = Len(s)
         /\ Distinct(RacedSeq(s, lost))
         /\ Range(RacedSeq(s, lost)) = {Raced(e, lost) : e \in Range(s)}
<1> DEFINE r == RacedSeq(s, lost)
<1>1. Len(s) \in Nat /\ DOMAIN s = 1 .. Len(s) /\ \A k \in DOMAIN s : s[k] \in StlbMisses
  BY SeqElements
<1>2. \A e \in StlbMisses : Raced(e, lost) \in StlbMisses /\ Raced(e, lost).page = e.page
  BY RacedMiss DEF RacedIs
<1>3. r = [k \in DOMAIN s |-> Raced(s[k], lost)]  BY DEF RacedSeq
<1> HIDE DEF r
<1>4. r \in [1 .. Len(s) -> StlbMisses]  BY <1>1, <1>2, <1>3
<1>5. r \in Seq(StlbMisses) /\ Len(r) = Len(s) /\ DOMAIN r = DOMAIN s
  BY <1>1, <1>4, FunctionIsSeq
<1>6. \A k \in DOMAIN s : r[k] = Raced(s[k], lost) /\ r[k].page = s[k].page
  BY <1>1, <1>2, <1>3
<1>7. Distinct(r)  BY <1>5, <1>6 DEF Distinct
<1>8. Range(r) = {Raced(e, lost) : e \in Range(s)}  BY <1>5, <1>6 DEF Range
<1> QED  BY <1>5, <1>7, <1>8 DEF r

(* The misses of a first-level TLB: at most one for a page; frame 0 until it   *)
(* is returned.                                                                *)
MissTypes == Copies \cup [page : AllPages, frame : {0}, raced : {FALSE}]
MissesOK(misses) ==
  /\ misses \subseteq MissTypes /\ IsFiniteSet(misses) /\ Cardinality(misses) =< TlbMshrs
  /\ \A m, n \in misses : m.page = n.page => m = n

LEMMA MissTypeFacts ==
  ASSUME NEW m \in MissTypes
  PROVE  /\ m.page \in AllPages /\ m.raced \in BOOLEAN
         /\ m.frame # 0 => m \in Copies
         /\ m \in Copies => m.frame # 0
<1>1. CASE m \in Copies  BY <1>1, SizesType DEF Copies
<1>2. CASE m \in [page : AllPages, frame : {0}, raced : {FALSE}]
  <2>1. m.page \in AllPages /\ m.frame = 0 /\ m.raced = FALSE  BY <1>2
  <2>2. m \notin Copies  BY <2>1, SizesType DEF Copies
  <2> QED  BY <2>1, <2>2
<1> QED  BY <1>1, <1>2 DEF MissTypes

(* Misses that change but keep their pages.                                    *)
LEMMA MappedMisses ==
  ASSUME NEW misses, MissesOK(misses), NEW g \in [misses -> MissTypes],
         \A m \in misses : g[m].page = m.page,
         NEW r, r = {g[m] : m \in misses}
  PROVE  MissesOK(r)
<1>1. g \in Surjection(misses, r)
  <2>1. \A m \in misses : g[m] \in r  OBVIOUS
  <2>2. \A x \in r : \E m \in misses : g[m] = x  OBVIOUS
  <2> QED  BY <2>1, <2>2 DEF Surjection
<1>2. IsFiniteSet(misses) /\ Cardinality(misses) =< TlbMshrs /\ Cardinality(misses) \in Nat
  BY FS_CardinalityType DEF MissesOK
<1>3. IsFiniteSet(r) /\ Cardinality(r) =< Cardinality(misses)  BY <1>1, <1>2, FS_Surjection
<1>4. Cardinality(r) =< TlbMshrs
  <2>1. Cardinality(r) \in Nat  BY <1>3, FS_CardinalityType
  <2> QED  BY <1>2, <1>3, <2>1, SizesType
<1>5. r \subseteq MissTypes  OBVIOUS
<1>6. \A m, n \in r : m.page = n.page => m = n  BY DEF MissesOK
<1> QED  BY <1>3, <1>4, <1>5, <1>6 DEF MissesOK

(* A page that waits for an answer of the STLB.                                *)
Pending(misses, page) == \E m \in misses : m.page = page /\ m.frame = 0

(* A first-level TLB: its blocks t and misses are of different pages, and what *)
(* they say is what the page table says, or marked.                            *)
SideOK(t, misses, table) ==
  /\ ListOK(t, Copies, TlbWays) /\ MissesOK(misses)
  /\ \A m \in misses, e \in Range(t) : m.page # e.page
  /\ \A e \in Range(t) : CopyOK(e, table)
  /\ \A m \in misses : m.frame = 0 \/ CopyOK(m, table)

(* return_data of a copy: the miss of its page is answered.                    *)
LEMMA ReturnedFacts ==
  ASSUME NEW t, NEW misses, NEW table, SideOK(t, misses, table),
         NEW copy \in Copies, CopyOK(copy, table),
         NEW r, r = {IF m.page = copy.page THEN copy ELSE m : m \in misses}
  PROVE  /\ SideOK(t, r, table)
         /\ \A page : Pending(r, page) <=> Pending(misses, page) /\ page # copy.page
<1> DEFINE g == [m \in misses |-> IF m.page = copy.page THEN copy ELSE m]
<1>1. MissesOK(misses)  BY DEF SideOK
<1>2. \A m \in misses : g[m] = IF m.page = copy.page THEN copy ELSE m  OBVIOUS
<1>3. g \in [misses -> MissTypes]  BY <1>1 DEF MissesOK, MissTypes
<1>4. \A m \in misses : g[m].page = m.page  BY <1>2
<1>5. r = {g[m] : m \in misses}  OBVIOUS
<1> HIDE DEF g
<1>6. MissesOK(r)
  <2> DEFINE u == {g[m] : m \in misses}
  <2>1. u = {g[m] : m \in misses}  OBVIOUS
  <2> HIDE DEF u
  <2>2. MissesOK(u)  BY <1>1, <1>3, <1>4, <2>1, MappedMisses
  <2> QED  BY <1>5, <2>2 DEF u
<1>7. \A x \in r : x = copy \/ (x \in misses /\ x.page # copy.page)  OBVIOUS
<1>8. \A x \in r : \E m \in misses : x.page = m.page  OBVIOUS
<1>9. copy.frame # 0  BY SizesType DEF Copies
<1>10. \A m \in misses : m.page # copy.page => m \in r  OBVIOUS
<1>11. ASSUME NEW page PROVE Pending(r, page) <=> Pending(misses, page) /\ page # copy.page
  BY <1>7, <1>9, <1>10 DEF Pending
<1>12. SideOK(t, r, table)
  <2>1. \A m \in r, e \in Range(t) : m.page # e.page  BY <1>8 DEF SideOK
  <2>2. \A m \in r : m.frame = 0 \/ CopyOK(m, table)  BY <1>7 DEF SideOK
  <2> QED  BY <1>6, <2>1, <2>2 DEF SideOK
<1> QED  BY <1>11, <1>12

(* va_to_pa: a first-level TLB forgets the page that lost its frame.           *)
LEMMA SwapSide ==
  ASSUME NEW table, Swaps(table),
         NEW t, NEW misses, SideOK(t, misses, pageTable),
         NEW r, r = RacedMisses(misses, Lost(table))
  PROVE  /\ SideOK(Without(t, Lost(table)), r, table)
         /\ \A p : Pending(r, p) <=> Pending(misses, p)
<1> DEFINE lost == Lost(table)
           w    == Without(t, lost)
           g    == [m \in misses |-> IF m.frame = 0 THEN m ELSE Raced(m, lost)]
<1>1. MissesOK(misses) /\ ListOK(t, Copies, TlbWays)  BY DEF SideOK
<1>2. lost \subseteq AllPages
      /\ \A p \in AllPages : pageTable[p] # 0 /\ p \notin lost => table[p] = pageTable[p]
  BY DEF Swaps
<1>3. r = {g[m] : m \in misses}  BY DEF RacedMisses
<1>4. \A m \in misses : g[m] = IF m.frame = 0 THEN m ELSE Raced(m, lost)  OBVIOUS
<1>5. DOMAIN g = misses /\ g = [m \in misses |-> g[m]]  OBVIOUS
<1> HIDE DEF g, lost
<1>6. \A m \in misses : m \in MissTypes  BY <1>1 DEF MissesOK
<1>7. ASSUME NEW m \in misses
      PROVE  /\ g[m] \in MissTypes /\ g[m].page = m.page /\ g[m].frame = m.frame
             /\ m.frame = 0 => g[m] = m
             /\ m.frame # 0 => g[m].raced = (m.raced \/ m.page \in lost)
  <2>1. CASE m.frame = 0  BY <1>4, <1>6, <2>1
  <2>2. CASE m.frame # 0
    <3>1. m \in Copies  BY <1>6, <2>2, MissTypeFacts
    <3>2. Raced(m, lost) \in Copies /\ RacedIs(Raced(m, lost), m, lost)  BY <3>1, RacedCopy
    <3> QED  BY <1>4, <2>2, <3>2 DEF RacedIs, MissTypes
  <2> QED  BY <2>1, <2>2
<1>8. g \in [misses -> MissTypes]  BY <1>5, <1>7
<1>9. MissesOK(r)  BY <1>1, <1>3, <1>7, <1>8, MappedMisses
<1>10. ListOK(w, Copies, TlbWays) /\ Range(w) = {e \in Range(t) : e.page \notin lost}
  <2>1. TlbWays \in Nat  BY SizesType
  <2> QED  BY <1>1, <2>1, DropFacts
<1> HIDE DEF w
<1>11. \A p : Pending(r, p) <=> Pending(misses, p)  BY <1>3, <1>7 DEF Pending
<1>12. \A e \in Range(t) : e \in Copies
  <2>1. t \in Seq(Copies)  BY <1>1 DEF ListOK
  <2> QED  BY <2>1, SeqElements DEF Range
<1>13. ASSUME NEW e \in Copies, CopyOK(e, pageTable), e.page \notin lost PROVE CopyOK(e, table)
  <2>1. e.page \in AllPages /\ e.frame \in Frames /\ e.frame # 0  BY SizesType DEF Copies
  <2> QED  BY <1>2, <1>13, <2>1 DEF CopyOK
<1>14. \A e \in Range(w) : CopyOK(e, table)  BY <1>10, <1>12, <1>13 DEF SideOK
<1>15. ASSUME NEW m \in misses, m.frame # 0 PROVE CopyOK(g[m], table)
  <2>1. CopyOK(m, pageTable) /\ m \in Copies  BY <1>6, <1>15, MissTypeFacts DEF SideOK
  <2>2. m.page \notin lost => CopyOK(m, table)  BY <1>13, <2>1
  <2> QED  BY <1>7, <1>15, <2>2 DEF CopyOK
<1>16. \A x \in r : x.frame = 0 \/ CopyOK(x, table)  BY <1>3, <1>7, <1>15
<1>17. \A x \in r, e \in Range(w) : x.page # e.page  BY <1>3, <1>7, <1>10 DEF SideOK
<1>18. SideOK(w, r, table)  BY <1>9, <1>10, <1>14, <1>16, <1>17 DEF SideOK
<1> QED  BY <1>11, <1>18 DEF w, lost

(* The STLB: its blocks and its misses.                                        *)
StlbOK(st, ms, table) ==
  /\ ListOK(st, Copies, StlbWays) /\ ListOK(ms, StlbMisses, StlbMshrs)
  /\ \A m \in Range(ms), e \in Range(st) : m.page # e.page
  /\ \A e \in Range(st) : CopyOK(e, table)
  /\ \A m \in Range(ms) : CopyOK(m, table)

LEMMA SwapStlb ==
  ASSUME NEW table, Swaps(table),
         NEW st, NEW ms, StlbOK(st, ms, pageTable)
  PROVE  StlbOK(Without(st, Lost(table)), RacedSeq(ms, Lost(table)), table)
<1> DEFINE lost == Lost(table)
           w    == Without(st, lost)
           r    == RacedSeq(ms, lost)
<1>1. lost \subseteq AllPages
      /\ \A p \in AllPages : pageTable[p] # 0 /\ p \notin lost => table[p] = pageTable[p]
  BY DEF Swaps
<1> HIDE DEF lost
<1>2. ListOK(st, Copies, StlbWays) /\ ListOK(ms, StlbMisses, StlbMshrs)  BY DEF StlbOK
<1>3. ListOK(w, Copies, StlbWays) /\ Range(w) = {e \in Range(st) : e.page \notin lost}
  <2>1. StlbWays \in Nat  BY SizesType
  <2> QED  BY <1>2, <2>1, DropFacts
<1>4. /\ r \in Seq(StlbMisses) /\ Len(r) = Len(ms) /\ Distinct(r)
      /\ Range(r) = {Raced(e, lost) : e \in Range(ms)}
  BY <1>2, RacedSeqFacts DEF ListOK
<1> HIDE DEF w, r
<1>5. ListOK(r, StlbMisses, StlbMshrs)  BY <1>2, <1>4 DEF ListOK
<1>6. /\ \A e \in Range(st) : e \in Copies
      /\ \A e \in Range(ms) : e \in StlbMisses
  <2>1. st \in Seq(Copies) /\ ms \in Seq(StlbMisses)  BY <1>2 DEF ListOK
  <2> QED  BY <2>1, SeqElements DEF Range
<1>7. ASSUME NEW e, e.page \in AllPages, e.frame \in Frames, CopyOK(e, pageTable), e.page \notin lost
      PROVE  CopyOK(e, table)
  <2>1. e.frame # 0  BY <1>7, SizesType
  <2> QED  BY <1>1, <1>7, <2>1 DEF CopyOK
<1>8. \A e \in Range(w) : CopyOK(e, table)  BY <1>3, <1>6, <1>7 DEF StlbOK, Copies
<1>9. ASSUME NEW e \in Range(ms)
      PROVE  Raced(e, lost).page = e.page /\ CopyOK(Raced(e, lost), table)
  <2>1. e.page \in AllPages /\ e.frame \in Frames  BY <1>6 DEF StlbMisses
  <2>2. RacedIs(Raced(e, lost), e, lost)  BY <1>6, RacedMiss
  <2>3. CopyOK(e, pageTable)  BY DEF StlbOK
  <2>4. e.page \notin lost => CopyOK(e, table)  BY <1>7, <2>1, <2>3
  <2> QED  BY <2>2, <2>4 DEF RacedIs, CopyOK
<1>10. \A m \in Range(r), e \in Range(w) : m.page # e.page  BY <1>3, <1>4, <1>9 DEF StlbOK
<1>11. \A m \in Range(r) : CopyOK(m, table)  BY <1>4, <1>9
<1>12. StlbOK(w, r, table)  BY <1>3, <1>5, <1>8, <1>10, <1>11 DEF StlbOK
<1> QED  BY <1>12 DEF w, r, lost

(* The requests and misses of the STLB that a first-level TLB waits for.       *)
Asks(s, side, page) == \E e \in Range(s) : e.page = page /\ side \in e.sides

OnWay(rq, ms, misses, side) ==
  \A page \in AllPages :
    /\ Pending(misses, page) <=> Asks(rq, side, page) \/ Asks(ms, side, page)
    /\ ~(Asks(rq, side, page) /\ Asks(ms, side, page))

LEMMA AsksTail ==
  ASSUME NEW S, NEW s \in Seq(S), s # <<>>, Distinct(s), NEW side, NEW page
  PROVE  /\ page # Head(s).page => (Asks(Tail(s), side, page) <=> Asks(s, side, page))
         /\ page = Head(s).page => /\ ~Asks(Tail(s), side, page)
                                   /\ Asks(s, side, page) <=> side \in Head(s).sides
<1>1. /\ Range(s) = {Head(s)} \cup Range(Tail(s))
      /\ \A e \in Range(Tail(s)) : e.page # Head(s).page
  BY TailFacts
<1> QED  BY <1>1 DEF Asks

(* add_rq: the request is in the queue, and nothing else changes.              *)
LEMMA QueuedFacts ==
  ASSUME NEW rq \in Seq(RqTypes), Distinct(rq), NEW side \in Sides, NEW page \in AllPages
  PROVE  /\ Queued(rq, side, page) \in Seq(RqTypes) /\ Distinct(Queued(rq, side, page))
         /\ \A s, p : Asks(Queued(rq, side, page), s, p)
                        <=> Asks(rq, s, p) \/ (s = side /\ p = page)
<1> DEFINE r == Queued(rq, side, page)
<1>1. CASE page \in PagesIn(rq)
  <2> DEFINE i == Find(rq, page)
             e == [rq[i] EXCEPT !.sides = @ \cup {side}]
  <2>1. i \in DOMAIN rq /\ rq[i].page = page  BY <1>1, FindFacts
  <2>2. rq[i] \in RqTypes /\ rq[i] \in Range(rq)  BY <2>1, SeqElements DEF Range
  <2>3. e \in RqTypes /\ e.page = page /\ e.sides = rq[i].sides \cup {side}
    BY <2>1, <2>2 DEF RqTypes
  <2>4. r = [rq EXCEPT ![i] = e]  BY <1>1, <2>1 DEF Queued
  <2>5. \A x \in Range(rq) : x.page = page => x = rq[i]
    BY <2>1 DEF Range, Distinct
  <2> HIDE DEF e, i, r
  <2>6. /\ r \in Seq(RqTypes) /\ Distinct(r)
        /\ Replaced(r, rq, e)
    <3>1. e.page = rq[i].page  BY <2>1, <2>3
    <3>2. i \in DOMAIN rq /\ e \in RqTypes /\ r = [rq EXCEPT ![i] = e]  BY <2>1, <2>3, <2>4
    <3> QED  BY <3>1, <3>2, ChangedFacts
  <2>7. ASSUME NEW s, NEW p PROVE Asks(r, s, p) <=> Asks(rq, s, p) \/ (s = side /\ p = page)
    <3>1. CASE p = page
      <4>1. Asks(r, s, p) <=> s \in e.sides  BY <2>3, <2>6, <3>1 DEF Asks, Replaced
      <4>2. Asks(rq, s, p) <=> s \in rq[i].sides  BY <2>1, <2>2, <2>5, <3>1 DEF Asks
      <4> QED  BY <2>3, <3>1, <4>1, <4>2
    <3>2. CASE p # page  BY <2>3, <2>6, <3>2 DEF Asks, Replaced
    <3> QED  BY <3>1, <3>2
  <2> QED  BY <2>6, <2>7 DEF r
<1>2. CASE page \notin PagesIn(rq)
  <2> DEFINE e == [page |-> page, sides |-> {side}]
  <2>1. e \in RqTypes /\ e.page = page /\ e.sides = {side}  BY DEF RqTypes
  <2>2. r = Append(rq, e)  BY <1>2 DEF Queued
  <2> HIDE DEF e, r
  <2>3. r \in Seq(RqTypes) /\ Range(r) = Range(rq) \cup {e} /\ Distinct(r)
    BY <1>2, <2>1, <2>2, AppendFacts
  <2>4. \A s, p : Asks(r, s, p) <=> Asks(rq, s, p) \/ (s = side /\ p = page)
    BY <2>1, <2>3 DEF Asks
  <2> QED  BY <2>3, <2>4 DEF r
<1> QED  BY <1>1, <1>2

--------------------------------------------------------------------------------
(* The inductive invariant *)

IInv ==
  /\ cycle \in 0 .. MaxCycle /\ TableOK(pageTable)
  /\ DOMAIN tlb = Sides /\ DOMAIN mshr = Sides
  /\ \A side \in Sides : /\ SideOK(tlb[side], mshr[side], pageTable)
                         /\ OnWay(stlbRq, stlbMshr, mshr[side], side)
  /\ stlbRq \in Seq(RqTypes) /\ Distinct(stlbRq)
  /\ StlbOK(stlb, stlbMshr, pageTable)
  /\ QueueOK(pq, cycle) /\ Current(pq, pageTable)
  /\ FctbOK(fctb)

LEMMA EmptyList ==
  ASSUME NEW S, NEW n \in Nat
  PROVE  ListOK(<<>>, S, n) /\ Range(<<>>) = {} /\ PagesIn(<<>>) = {}
<1>1. <<>> \in Seq(S) /\ Len(<<>>) = 0 /\ DOMAIN <<>> = {}  BY EmptySeq
<1> QED  BY <1>1 DEF ListOK, Distinct, Range, PagesIn

LEMMA InitInv ==
  ASSUME Init
  PROVE  IInv
<1>1. cycle = 0 /\ cycle \in 0 .. MaxCycle  BY SizesType DEF Init
<1>2. TableOK(pageTable)  BY DEF Init, TableOK
<1>3. \A S, n : n \in Nat => ListOK(<<>>, S, n)  BY EmptyList
<1>4. Range(<<>>) = {}
  <2>1. 0 \in Nat  OBVIOUS
  <2> QED  BY <2>1, EmptyList
<1>5. \A side \in Sides : tlb[side] = <<>> /\ mshr[side] = {}  BY DEF Init
<1>6. MissesOK({})
  <2>1. IsFiniteSet({}) /\ Cardinality({}) = 0  BY FS_EmptySet
  <2> QED  BY <2>1, SizesType DEF MissesOK
<1>7. TlbWays \in Nat /\ StlbWays \in Nat /\ StlbMshrs \in Nat  BY SizesType
<1>8. SideOK(<<>>, {}, pageTable)  BY <1>3, <1>4, <1>6, <1>7 DEF SideOK
<1>9. StlbOK(<<>>, <<>>, pageTable)  BY <1>3, <1>4, <1>7 DEF StlbOK
<1>10. stlbRq = <<>> /\ stlbMshr = <<>> /\ stlb = <<>>  BY DEF Init
<1>11. \A side \in Sides : OnWay(stlbRq, stlbMshr, mshr[side], side)
  BY <1>4, <1>5, <1>10 DEF OnWay, Asks, Pending
<1>12. stlbRq \in Seq(RqTypes) /\ Distinct(stlbRq)  BY <1>3, <1>7, <1>10 DEF ListOK
<1>13. /\ pq = EmptyQueue /\ EmptyCell.page = 0
       /\ pq = [entry |-> pq.entry, head |-> 0, tail |-> 0, occupancy |-> 0]
       /\ \A c \in Cells : pq.entry[c] = EmptyCell
       /\ pq.entry \in [Cells -> Entries(cycle) \cup {EmptyCell}]
  BY DEF Init, EmptyQueue, EmptyCell
<1>14. QueueOK(pq, cycle)
  <2>1. 0 \in Cells /\ Cardinality(Cells) = PqSize  BY CellsType
  <2>2. pq \in [entry : [Cells -> Entries(cycle) \cup {EmptyCell}], head : Cells, tail : Cells,
                occupancy : Nat]
    BY <1>13, <2>1
  <2>3. Holders(pq, 0) = Cells  BY <1>13 DEF Holders
  <2>4. pq.occupancy = 0  BY <1>13
  <2>5. pq.occupancy + Cardinality(Holders(pq, 0)) = PqSize  BY <2>1, <2>3, <2>4, SizesType
  <2> QED  BY <1>13, <2>2, <2>5 DEF QueueOK
<1>15. Current(pq, pageTable)  BY <1>13 DEF Current
<1>16. FctbOK(fctb)
  <2>1. fctb \in [1 .. FctbSize -> FctbEntries] /\ \A i \in 1 .. FctbSize : fctb[i] = ColdEntry
    BY ColdIsEntry DEF Init
  <2> QED  BY <2>1, ColdIsEntry DEF FctbOK
<1>17. DOMAIN tlb = Sides /\ DOMAIN mshr = Sides
  BY DEF Init
<1> QED  BY <1>1, <1>2, <1>5, <1>8, <1>9, <1>10, <1>11, <1>12, <1>14, <1>15, <1>16, <1>17 DEF IInv

--------------------------------------------------------------------------------
(* Every step keeps it                                                         *)

LEMMA SidePages ==
  ASSUME NEW side \in Sides
  PROVE  PagesOf[side] \subseteq AllPages /\ PagesOf["I"] \subseteq AllPages
BY DEF Sides, AllPages

LEMMA TickKeeps ==
  ASSUME IInv, Tick
  PROVE  IInv'
<1>1. /\ cycle' = cycle + 1 /\ cycle < MaxCycle /\ cycle \in 0 .. MaxCycle
      /\ UNCHANGED <<pageTable, tlb, mshr, stlb, stlbRq, stlbMshr, pq, fctb>>
  BY DEF Tick, IInv
<1>2. cycle' \in 0 .. MaxCycle  BY <1>1, SizesType
<1>3. Entries(cycle) \subseteq Entries(cycle')
  <2>1. 0 .. cycle \subseteq 0 .. cycle'  BY <1>1, SizesType
  <2> QED  BY <2>1 DEF Entries
<1>4. QueueOK(pq, cycle')
  <2>1. QueueOK(pq, cycle)  BY DEF IInv
  <2>2. pq \in [entry : [Cells -> Entries(cycle') \cup {EmptyCell}], head : Cells, tail : Cells,
                occupancy : Nat]
    BY <1>3, <2>1 DEF QueueOK
  <2> QED  BY <2>1, <2>2 DEF QueueOK
<1> QED  BY <1>1, <1>2, <1>4 DEF IInv

LEMMA TlbHitKeeps ==
  ASSUME IInv, NEW side \in Sides, NEW page \in PagesOf[side], TlbHit(side, page)
  PROVE  IInv'
<1>1. /\ page \in PagesIn(tlb[side])
      /\ tlb' = [tlb EXCEPT ![side] = Touched(tlb[side], page)]
      /\ UNCHANGED <<cycle, pageTable, mshr, stlb, stlbRq, stlbMshr, pq, fctb>>
  BY DEF TlbHit
<1>2. SideOK(tlb[side], mshr[side], pageTable) /\ DOMAIN tlb = Sides  BY DEF IInv
<1>3. /\ ListOK(Touched(tlb[side], page), Copies, TlbWays)
      /\ Range(Touched(tlb[side], page)) = Range(tlb[side])
  <2>1. TlbWays \in Nat /\ ListOK(tlb[side], Copies, TlbWays)  BY <1>2, SizesType DEF SideOK
  <2> QED  BY <1>1, <2>1, TouchedFacts
<1>4. SideOK(Touched(tlb[side], page), mshr[side], pageTable)  BY <1>2, <1>3 DEF SideOK
<1>5. \A s \in Sides : tlb'[s] = IF s = side THEN Touched(tlb[side], page) ELSE tlb[s]
  BY <1>1, <1>2
<1>6. DOMAIN tlb' = Sides  BY <1>1, <1>2
<1>7. \A s \in Sides : SideOK(tlb'[s], mshr'[s], pageTable')  BY <1>1, <1>4, <1>5 DEF IInv
<1> QED  BY <1>1, <1>6, <1>7 DEF IInv

LEMMA TlbMissKeeps ==
  ASSUME IInv, NEW side \in Sides, NEW page \in PagesOf[side], TlbMiss(side, page)
  PROVE  IInv'
<1> DEFINE n == Copy(page, 0, FALSE)
           u == mshr[side] \cup {n}
<1>1. /\ page \notin PagesIn(tlb[side]) /\ \A m \in mshr[side] : m.page # page
      /\ Cardinality(mshr[side]) < TlbMshrs
      /\ mshr' = [mshr EXCEPT ![side] = u]
      /\ stlbRq' = Queued(stlbRq, side, page)
      /\ UNCHANGED <<cycle, pageTable, tlb, stlb, stlbMshr, pq, fctb>>
  BY DEF TlbMiss
<1>2. SideOK(tlb[side], mshr[side], pageTable) /\ DOMAIN mshr = Sides  BY DEF IInv
<1>3. page \in AllPages  BY SidePages
<1>4. n \in MissTypes /\ n.page = page /\ n.frame = 0
  BY <1>3 DEF Copy, MissTypes
<1> HIDE DEF n
<1>5. MissesOK(u)
  <2>1. MissesOK(mshr[side])  BY <1>2 DEF SideOK
  <2>2. n \notin mshr[side]  BY <1>1, <1>4
  <2>3. IsFiniteSet(mshr[side]) /\ Cardinality(mshr[side]) \in Nat
    BY <2>1, FS_CardinalityType DEF MissesOK
  <2>4. IsFiniteSet(u) /\ Cardinality(u) = Cardinality(mshr[side]) + 1
    BY <2>2, <2>3, FS_AddElement
  <2>5. Cardinality(u) =< TlbMshrs  BY <1>1, <2>3, <2>4, SizesType
  <2>6. u \subseteq MissTypes  BY <1>4, <2>1 DEF MissesOK
  <2>7. \A m, k \in u : m.page = k.page => m = k  BY <1>1, <1>4, <2>1 DEF MissesOK
  <2> QED  BY <2>4, <2>5, <2>6, <2>7 DEF MissesOK
<1>6. SideOK(tlb[side], u, pageTable)
  <2>1. \A e \in Range(tlb[side]) : e.page # page  BY <1>1, PagesOfEntries
  <2>2. \A m \in u, e \in Range(tlb[side]) : m.page # e.page  BY <1>2, <1>4, <2>1 DEF SideOK
  <2>3. \A m \in u : m.frame = 0 \/ CopyOK(m, pageTable)  BY <1>2, <1>4 DEF SideOK
  <2> QED  BY <1>2, <1>5, <2>2, <2>3 DEF SideOK
<1>7. \A p : Pending(u, p) <=> Pending(mshr[side], p) \/ p = page  BY <1>4 DEF Pending
<1>8. ~Pending(mshr[side], page)  BY <1>1 DEF Pending
<1> HIDE DEF u
<1>9. DOMAIN mshr' = Sides /\ \A s \in Sides : mshr'[s] = IF s = side THEN u ELSE mshr[s]
  BY <1>1, <1>2
<1>10. stlbRq \in Seq(RqTypes) /\ Distinct(stlbRq)  BY DEF IInv
<1>11. /\ stlbRq' \in Seq(RqTypes) /\ Distinct(stlbRq')
       /\ \A s, p : Asks(stlbRq', s, p) <=> Asks(stlbRq, s, p) \/ (s = side /\ p = page)
  BY <1>1, <1>3, <1>10, QueuedFacts
<1>12. ASSUME NEW s \in Sides PROVE OnWay(stlbRq', stlbMshr', mshr'[s], s)
  <2>1. OnWay(stlbRq, stlbMshr, mshr[s], s) /\ stlbMshr' = stlbMshr  BY <1>1 DEF IInv
  <2>2. CASE s # side
    <3>1. mshr'[s] = mshr[s]  BY <1>9, <2>2
    <3> QED  BY <1>11, <2>1, <2>2, <3>1 DEF OnWay
  <2>3. CASE s = side
    <3>1. mshr'[s] = u  BY <1>9, <2>3
    <3>2. ~Asks(stlbRq, s, page) /\ ~Asks(stlbMshr, s, page)
      BY <1>3, <1>8, <2>1, <2>3 DEF OnWay
    <3> QED  BY <1>7, <1>8, <1>11, <2>1, <2>3, <3>1, <3>2 DEF OnWay
  <2> QED  BY <2>2, <2>3
<1>13. \A s \in Sides : SideOK(tlb'[s], mshr'[s], pageTable')  BY <1>1, <1>6, <1>9 DEF IInv
<1> QED  BY <1>1, <1>9, <1>11, <1>12, <1>13 DEF IInv

LEMMA TlbFillKeeps ==
  ASSUME IInv, NEW side \in Sides, NEW page \in PagesOf[side], TlbFill(side, page)
  PROVE  IInv'
<1>1. PICK m \in mshr[side] :
        /\ m.page = page /\ m.frame # 0
        /\ tlb' = [tlb EXCEPT ![side] = Filled(tlb[side], m, TlbWays)]
        /\ mshr' = [mshr EXCEPT ![side] = mshr[side] \ {m}]
  BY DEF TlbFill
<1>2. UNCHANGED <<cycle, pageTable, stlb, stlbRq, stlbMshr, pq, fctb>>  BY DEF TlbFill
<1>3. /\ SideOK(tlb[side], mshr[side], pageTable) /\ DOMAIN mshr = Sides /\ DOMAIN tlb = Sides
  BY DEF IInv
<1> DEFINE t == Filled(tlb[side], m, TlbWays)
           u == mshr[side] \ {m}
<1>4. m \in Copies /\ CopyOK(m, pageTable)
  BY <1>1, <1>3, MissTypeFacts DEF SideOK, MissesOK
<1>5. ListOK(t, Copies, TlbWays) /\ Range(t) \subseteq {m} \cup Range(tlb[side])
  <2>1. TlbWays \in Nat \ {0} /\ ListOK(tlb[side], Copies, TlbWays)  BY <1>3, SizesType DEF SideOK
  <2>2. m.page \notin PagesIn(tlb[side])  BY <1>3, PagesOfEntries DEF SideOK
  <2> QED  BY <1>4, <2>1, <2>2, FilledFacts
<1>6. MissesOK(u)
  <2>1. MissesOK(mshr[side])  BY <1>3 DEF SideOK
  <2>2. u \subseteq mshr[side]  OBVIOUS
  <2>3. IsFiniteSet(mshr[side]) /\ Cardinality(mshr[side]) \in Nat
    BY <2>1, FS_CardinalityType DEF MissesOK
  <2>4. IsFiniteSet(u) /\ Cardinality(u) =< Cardinality(mshr[side])
    BY <2>2, <2>3, FS_Subset
  <2>5. Cardinality(u) \in Nat  BY <2>4, FS_CardinalityType
  <2> HIDE DEF u
  <2>6. Cardinality(u) =< TlbMshrs  BY <2>1, <2>3, <2>4, <2>5, SizesType DEF MissesOK
  <2> QED  BY <2>1, <2>2, <2>4, <2>6 DEF MissesOK
<1> HIDE DEF t
<1>7. SideOK(t, u, pageTable)
  <2>1. \A k \in u : k.page # m.page  BY <1>3 DEF SideOK, MissesOK
  <2>2. \A k \in u, e \in Range(t) : k.page # e.page  BY <1>3, <1>5, <2>1 DEF SideOK
  <2>3. \A e \in Range(t) : CopyOK(e, pageTable)  BY <1>3, <1>4, <1>5 DEF SideOK
  <2>4. \A k \in u : k.frame = 0 \/ CopyOK(k, pageTable)  BY <1>3 DEF SideOK
  <2> QED  BY <1>5, <1>6, <2>2, <2>3, <2>4 DEF SideOK
<1>8. \A p : Pending(u, p) <=> Pending(mshr[side], p)  BY <1>1 DEF Pending
<1>9. /\ DOMAIN mshr' = Sides /\ DOMAIN tlb' = Sides
      /\ \A s \in Sides : mshr'[s] = (IF s = side THEN u ELSE mshr[s])
      /\ \A s \in Sides : tlb'[s] = (IF s = side THEN t ELSE tlb[s])
  BY <1>1, <1>3 DEF t
<1> HIDE DEF u
<1>10. ASSUME NEW s \in Sides
       PROVE  SideOK(tlb'[s], mshr'[s], pageTable') /\ OnWay(stlbRq', stlbMshr', mshr'[s], s)
  <2>1. SideOK(tlb[s], mshr[s], pageTable) /\ OnWay(stlbRq, stlbMshr, mshr[s], s)  BY DEF IInv
  <2>2. SideOK(tlb'[s], mshr'[s], pageTable')  BY <1>2, <1>7, <1>9, <2>1
  <2>3. \A p : Pending(mshr'[s], p) <=> Pending(mshr[s], p)  BY <1>8, <1>9
  <2>4. OnWay(stlbRq', stlbMshr', mshr'[s], s)  BY <1>2, <2>1, <2>3 DEF OnWay
  <2> QED  BY <2>2, <2>4
<1> QED  BY <1>2, <1>9, <1>10 DEF IInv

(* return_data to the first-level TLBs that asked.                             *)
LEMMA ReturnedKeeps ==
  ASSUME IInv, NEW sides, NEW copy \in Copies, CopyOK(copy, pageTable),
         NEW u, u = Returned(sides, copy)
  PROVE  /\ DOMAIN u = Sides
         /\ \A s \in Sides :
              /\ SideOK(tlb[s], u[s], pageTable)
              /\ \A p : Pending(u[s], p) <=> Pending(mshr[s], p) /\ ~(p = copy.page /\ s \in sides)
<1>1. DOMAIN u = Sides  BY DEF Returned
<1>2. ASSUME NEW s \in Sides
      PROVE  /\ SideOK(tlb[s], u[s], pageTable)
             /\ \A p : Pending(u[s], p) <=> Pending(mshr[s], p) /\ ~(p = copy.page /\ s \in sides)
  <2>1. SideOK(tlb[s], mshr[s], pageTable)  BY DEF IInv
  <2>2. CASE s \notin sides
    <3>1. u[s] = mshr[s]  BY <2>2 DEF Returned
    <3> QED  BY <2>1, <2>2, <3>1
  <2>3. CASE s \in sides
    <3> DEFINE r == {IF m.page = copy.page THEN copy ELSE m : m \in mshr[s]}
    <3>1. u[s] = r  BY <2>3 DEF Returned
    <3>2. SideOK(tlb[s], r, pageTable)  BY <2>1, ReturnedFacts
    <3>3. \A p : Pending(r, p) <=> Pending(mshr[s], p) /\ p # copy.page  BY <2>1, ReturnedFacts
    <3> HIDE DEF r
    <3> QED  BY <2>3, <3>1, <3>2, <3>3
  <2> QED  BY <2>2, <2>3
<1> QED  BY <1>1, <1>2

LEMMA StlbHitKeeps ==
  ASSUME IInv, StlbHit
  PROVE  IInv'
<1> DEFINE h    == Head(stlbRq)
           copy == stlb[Find(stlb, h.page)]
<1>1. /\ stlbRq # <<>> /\ h.page \in PagesIn(stlb)
      /\ mshr' = Returned(h.sides, copy)
      /\ stlb' = Touched(stlb, h.page) /\ stlbRq' = Tail(stlbRq)
      /\ UNCHANGED <<cycle, pageTable, tlb, stlbMshr, pq, fctb>>
  BY DEF StlbHit
<1>2. /\ stlbRq \in Seq(RqTypes) /\ Distinct(stlbRq) /\ StlbOK(stlb, stlbMshr, pageTable)
  BY DEF IInv
<1>3. ListOK(stlb, Copies, StlbWays) /\ stlb \in Seq(Copies)  BY <1>2 DEF StlbOK, ListOK
<1>4. copy \in Copies /\ copy.page = h.page /\ CopyOK(copy, pageTable)
  <2>1. Find(stlb, h.page) \in DOMAIN stlb /\ copy.page = h.page  BY <1>1, FindFacts
  <2>2. copy \in Copies /\ copy \in Range(stlb)  BY <1>3, <2>1, SeqElements DEF Range
  <2> QED  BY <1>2, <2>1, <2>2 DEF StlbOK
<1> HIDE DEF copy
<1>5. StlbOK(stlb', stlbMshr', pageTable')
  <2>1. StlbWays \in Nat  BY SizesType
  <2>2. ListOK(Touched(stlb, h.page), Copies, StlbWays) /\ Range(Touched(stlb, h.page)) = Range(stlb)
    BY <1>1, <1>3, <2>1, TouchedFacts
  <2> QED  BY <1>1, <1>2, <2>2 DEF StlbOK
<1>6. /\ DOMAIN mshr' = Sides
      /\ \A s \in Sides :
           /\ SideOK(tlb[s], mshr'[s], pageTable)
           /\ \A p : Pending(mshr'[s], p) <=> Pending(mshr[s], p) /\ ~(p = h.page /\ s \in h.sides)
  BY <1>1, <1>4, ReturnedKeeps
<1>7. /\ h \in RqTypes /\ stlbRq' \in Seq(RqTypes) /\ Distinct(stlbRq')
  BY <1>1, <1>2, TailFacts
<1>8. ASSUME NEW s \in Sides PROVE OnWay(stlbRq', stlbMshr', mshr'[s], s)
  <2>1. OnWay(stlbRq, stlbMshr, mshr[s], s)  BY DEF IInv
  <2> SUFFICES ASSUME NEW p \in AllPages
               PROVE  /\ Pending(mshr'[s], p) <=> Asks(stlbRq', s, p) \/ Asks(stlbMshr', s, p)
                      /\ ~(Asks(stlbRq', s, p) /\ Asks(stlbMshr', s, p))
    BY DEF OnWay
  <2>2. /\ Pending(mshr[s], p) <=> Asks(stlbRq, s, p) \/ Asks(stlbMshr, s, p)
        /\ ~(Asks(stlbRq, s, p) /\ Asks(stlbMshr, s, p))
    BY <2>1 DEF OnWay
  <2>3. /\ p # h.page => (Asks(stlbRq', s, p) <=> Asks(stlbRq, s, p))
        /\ p = h.page => /\ ~Asks(stlbRq', s, p)
                         /\ Asks(stlbRq, s, p) <=> s \in h.sides
    BY <1>1, <1>2, AsksTail
  <2>4. Pending(mshr'[s], p) <=> Pending(mshr[s], p) /\ ~(p = h.page /\ s \in h.sides)
    BY <1>6
  <2>5. stlbMshr' = stlbMshr  BY <1>1
  <2>6. CASE p # h.page  BY <2>2, <2>3, <2>4, <2>5, <2>6
  <2>7. CASE p = h.page  BY <2>2, <2>3, <2>4, <2>5, <2>7
  <2> QED  BY <2>6, <2>7
<1>9. \A s \in Sides : SideOK(tlb'[s], mshr'[s], pageTable')  BY <1>1, <1>6
<1> QED  BY <1>1, <1>5, <1>6, <1>7, <1>8, <1>9 DEF IInv

LEMMA StlbMergeKeeps ==
  ASSUME IInv, StlbMerge
  PROVE  IInv'
<1> DEFINE h == Head(stlbRq)
           i == Find(stlbMshr, h.page)
           e == [stlbMshr[i] EXCEPT !.sides = @ \cup h.sides]
<1>1. /\ stlbRq # <<>> /\ h.page \in PagesIn(stlbMshr)
      /\ stlbMshr' = [stlbMshr EXCEPT ![i].sides = @ \cup h.sides]
      /\ stlbRq' = Tail(stlbRq)
      /\ UNCHANGED <<cycle, pageTable, tlb, mshr, stlb, pq, fctb>>
  BY DEF StlbMerge
<1>2. /\ stlbRq \in Seq(RqTypes) /\ Distinct(stlbRq) /\ StlbOK(stlb, stlbMshr, pageTable)
  BY DEF IInv
<1>3. h \in RqTypes /\ stlbRq' \in Seq(RqTypes) /\ Distinct(stlbRq')
  BY <1>1, <1>2, TailFacts
<1>4. ListOK(stlbMshr, StlbMisses, StlbMshrs) /\ stlbMshr \in Seq(StlbMisses) /\ Distinct(stlbMshr)
  BY <1>2 DEF StlbOK, ListOK
<1>5. i \in DOMAIN stlbMshr /\ stlbMshr[i].page = h.page  BY <1>1, FindFacts
<1>6. stlbMshr[i] \in StlbMisses /\ stlbMshr[i] \in Range(stlbMshr)
  BY <1>4, <1>5, SeqElements DEF Range
<1>7. /\ e \in StlbMisses /\ e.page = h.page /\ e.frame = stlbMshr[i].frame
      /\ e.raced = stlbMshr[i].raced /\ e.sides = stlbMshr[i].sides \cup h.sides
  <2>1. h.sides \subseteq Sides  BY <1>3 DEF RqTypes
  <2> HIDE DEF h
  <2> QED  BY <1>5, <1>6, <2>1 DEF StlbMisses
<1>8. stlbMshr' = [stlbMshr EXCEPT ![i] = e]  BY <1>1, <1>5
<1>9. \A x \in Range(stlbMshr) : x.page = h.page => x = stlbMshr[i]
  BY <1>4, <1>5 DEF Range, Distinct
<1> HIDE DEF e, i
<1>10. /\ stlbMshr' \in Seq(StlbMisses) /\ Len(stlbMshr') = Len(stlbMshr) /\ Distinct(stlbMshr')
       /\ Replaced(stlbMshr', stlbMshr, e)
  <2>1. e.page = stlbMshr[i].page  BY <1>5, <1>7
  <2>2. /\ i \in DOMAIN stlbMshr /\ e \in StlbMisses /\ stlbMshr \in Seq(StlbMisses)
        /\ Distinct(stlbMshr)
    BY <1>4, <1>5, <1>7
  <2>3. \A r : r = [stlbMshr EXCEPT ![i] = e]
          => /\ r \in Seq(StlbMisses) /\ Len(r) = Len(stlbMshr) /\ Distinct(r)
             /\ Replaced(r, stlbMshr, e)
    BY <2>1, <2>2, ChangedFacts
  <2> QED  BY <1>8, <2>3
<1>11. StlbOK(stlb', stlbMshr', pageTable')
  <2>1. ListOK(stlbMshr', StlbMisses, StlbMshrs)  BY <1>4, <1>10 DEF ListOK
  <2>2. CopyOK(e, pageTable) /\ \A x \in Range(stlb) : x.page # e.page
    BY <1>2, <1>5, <1>6, <1>7 DEF StlbOK, CopyOK
  <2>3. \A m \in Range(stlbMshr') : m = e \/ m \in Range(stlbMshr)  BY <1>10 DEF Replaced
  <2>4. \A m \in Range(stlbMshr') : CopyOK(m, pageTable)  BY <1>2, <2>2, <2>3 DEF StlbOK
  <2>5. \A m \in Range(stlbMshr'), x \in Range(stlb) : m.page # x.page
    BY <1>2, <2>2, <2>3 DEF StlbOK
  <2> QED  BY <1>1, <1>2, <2>1, <2>4, <2>5 DEF StlbOK
<1>12. ASSUME NEW s \in Sides, NEW p \in AllPages
       PROVE  /\ p # h.page => (Asks(stlbMshr', s, p) <=> Asks(stlbMshr, s, p))
              /\ p = h.page => (Asks(stlbMshr', s, p) <=> Asks(stlbMshr, s, p) \/ s \in h.sides)
  <2>1. CASE p # h.page  BY <1>7, <1>10, <2>1 DEF Asks, Replaced
  <2>2. CASE p = h.page
    <3>1. Asks(stlbMshr', s, p) <=> s \in e.sides  BY <1>7, <1>10, <2>2 DEF Asks, Replaced
    <3>2. Asks(stlbMshr, s, p) <=> s \in stlbMshr[i].sides
      BY <1>5, <1>6, <1>9, <2>2 DEF Asks
    <3> QED  BY <1>7, <2>2, <3>1, <3>2
  <2> QED  BY <2>1, <2>2
<1>13. ASSUME NEW s \in Sides PROVE OnWay(stlbRq', stlbMshr', mshr'[s], s)
  <2>1. OnWay(stlbRq, stlbMshr, mshr[s], s)  BY DEF IInv
  <2> SUFFICES ASSUME NEW p \in AllPages
               PROVE  /\ Pending(mshr'[s], p) <=> Asks(stlbRq', s, p) \/ Asks(stlbMshr', s, p)
                      /\ ~(Asks(stlbRq', s, p) /\ Asks(stlbMshr', s, p))
    BY DEF OnWay
  <2>2. /\ Pending(mshr[s], p) <=> Asks(stlbRq, s, p) \/ Asks(stlbMshr, s, p)
        /\ ~(Asks(stlbRq, s, p) /\ Asks(stlbMshr, s, p))
    BY <2>1 DEF OnWay
  <2>3. /\ p # h.page => (Asks(stlbRq', s, p) <=> Asks(stlbRq, s, p))
        /\ p = h.page => /\ ~Asks(stlbRq', s, p)
                         /\ Asks(stlbRq, s, p) <=> s \in h.sides
    BY <1>1, <1>2, AsksTail
  <2>4. mshr' = mshr  BY <1>1
  <2>5. CASE p # h.page  BY <1>12, <2>2, <2>3, <2>4, <2>5
  <2>6. CASE p = h.page  BY <1>12, <2>2, <2>3, <2>4, <2>6
  <2> QED  BY <2>5, <2>6
<1>14. \A s \in Sides : SideOK(tlb'[s], mshr'[s], pageTable')  BY <1>1 DEF IInv
<1>15. DOMAIN tlb' = Sides /\ DOMAIN mshr' = Sides  BY <1>1 DEF IInv
<1> QED  BY <1>1, <1>3, <1>11, <1>13, <1>14, <1>15 DEF IInv

LEMMA StlbFillKeeps ==
  ASSUME IInv, StlbFill
  PROVE  IInv'
<1> DEFINE m    == Head(stlbMshr)
           copy == Copy(m.page, m.frame, m.raced)
<1>1. /\ stlbMshr # <<>>
      /\ stlb' = Filled(stlb, copy, StlbWays) /\ mshr' = Returned(m.sides, copy)
      /\ stlbMshr' = Tail(stlbMshr)
      /\ UNCHANGED <<cycle, pageTable, tlb, stlbRq, pq, fctb>>
  BY DEF StlbFill
<1>2. /\ StlbOK(stlb, stlbMshr, pageTable) /\ stlbMshr \in Seq(StlbMisses) /\ Distinct(stlbMshr)
      /\ Len(stlbMshr) =< StlbMshrs
  BY DEF IInv, StlbOK, ListOK
<1>3. /\ m \in StlbMisses /\ Range(stlbMshr) = {m} \cup Range(stlbMshr')
      /\ stlbMshr' \in Seq(StlbMisses) /\ Len(stlbMshr') = Len(stlbMshr) - 1 /\ Distinct(stlbMshr')
      /\ \A e \in Range(stlbMshr') : e.page # m.page
  BY <1>1, <1>2, TailFacts
<1>4. copy \in Copies /\ copy.page = m.page /\ CopyOK(copy, pageTable)
  <2>1. CopyOK(m, pageTable)  BY <1>2, <1>3 DEF StlbOK
  <2> HIDE DEF m
  <2>2. /\ copy.page = m.page /\ copy.frame = m.frame /\ copy.raced = m.raced
        /\ copy \in Copies
    BY <1>3 DEF Copy, StlbMisses, Copies
  <2> QED  BY <2>1, <2>2 DEF CopyOK
<1> HIDE DEF copy
<1>5. StlbOK(stlb', stlbMshr', pageTable')
  <2>1. StlbWays \in Nat \ {0} /\ StlbMshrs \in Nat  BY SizesType
  <2>2. copy.page \notin PagesIn(stlb)  BY <1>2, <1>3, <1>4, PagesOfEntries DEF StlbOK
  <2>3. ListOK(stlb', Copies, StlbWays) /\ Range(stlb') \subseteq {copy} \cup Range(stlb)
    BY <1>1, <1>2, <1>4, <2>1, <2>2, FilledFacts DEF StlbOK
  <2>4. ListOK(stlbMshr', StlbMisses, StlbMshrs)
    <3>1. Len(stlbMshr) \in Nat  BY <1>2, SeqElements
    <3> QED  BY <1>2, <1>3, <2>1, <3>1 DEF ListOK
  <2>5. \A k \in Range(stlbMshr'), e \in Range(stlb') : k.page # e.page
    BY <1>2, <1>3, <1>4, <2>3 DEF StlbOK
  <2>6. \A e \in Range(stlb') : CopyOK(e, pageTable)  BY <1>2, <1>4, <2>3 DEF StlbOK
  <2>7. \A e \in Range(stlbMshr') : CopyOK(e, pageTable)  BY <1>2, <1>3 DEF StlbOK
  <2> QED  BY <1>1, <2>3, <2>4, <2>5, <2>6, <2>7 DEF StlbOK
<1>6. /\ DOMAIN mshr' = Sides
      /\ \A s \in Sides :
           /\ SideOK(tlb[s], mshr'[s], pageTable)
           /\ \A p : Pending(mshr'[s], p) <=> Pending(mshr[s], p) /\ ~(p = m.page /\ s \in m.sides)
  BY <1>1, <1>4, ReturnedKeeps
<1>7. ASSUME NEW s \in Sides PROVE OnWay(stlbRq', stlbMshr', mshr'[s], s)
  <2>1. OnWay(stlbRq, stlbMshr, mshr[s], s)  BY DEF IInv
  <2> SUFFICES ASSUME NEW p \in AllPages
               PROVE  /\ Pending(mshr'[s], p) <=> Asks(stlbRq', s, p) \/ Asks(stlbMshr', s, p)
                      /\ ~(Asks(stlbRq', s, p) /\ Asks(stlbMshr', s, p))
    BY DEF OnWay
  <2>2. /\ Pending(mshr[s], p) <=> Asks(stlbRq, s, p) \/ Asks(stlbMshr, s, p)
        /\ ~(Asks(stlbRq, s, p) /\ Asks(stlbMshr, s, p))
    BY <2>1 DEF OnWay
  <2>3. /\ p # m.page => (Asks(stlbMshr', s, p) <=> Asks(stlbMshr, s, p))
        /\ p = m.page => /\ ~Asks(stlbMshr', s, p)
                         /\ Asks(stlbMshr, s, p) <=> s \in m.sides
    BY <1>1, <1>2, AsksTail
  <2>4. Pending(mshr'[s], p) <=> Pending(mshr[s], p) /\ ~(p = m.page /\ s \in m.sides)
    BY <1>6
  <2>5. stlbRq' = stlbRq  BY <1>1
  <2>6. CASE p # m.page  BY <2>2, <2>3, <2>4, <2>5, <2>6
  <2>7. CASE p = m.page  BY <2>2, <2>3, <2>4, <2>5, <2>7
  <2> QED  BY <2>6, <2>7
<1>8. \A s \in Sides : SideOK(tlb'[s], mshr'[s], pageTable')  BY <1>1, <1>6
<1> QED  BY <1>1, <1>5, <1>6, <1>7, <1>8 DEF IInv

(* A miss that the STLB serves: with which page table, with which answer, and  *)
(* what of the queue is left once the answer is taken from it.                 *)
Served(table, answer, old) ==
  LET h == Head(stlbRq)
  IN /\ Swaps(table) /\ Swapped(table)
     /\ stlbRq # <<>> /\ stlbRq' = Tail(stlbRq) /\ cycle' = cycle
     /\ h.page \notin PagesIn(stlb) /\ h.page \notin PagesIn(stlbMshr)
     /\ Len(stlbMshr) < StlbMshrs
     /\ answer \in StlbMisses /\ answer.page = h.page /\ answer.sides = h.sides
     /\ CopyOK(answer, table)
     /\ stlbMshr' = Append(RacedSeq(stlbMshr, Lost(table)), answer)
     /\ QueueOK(pq', cycle) /\ Current(pq', table) /\ FctbOK(fctb') /\ Grown(old, pq')
     /\ \/ old = Kept(pq)
        \/ \E x \in Kept(pq) : /\ old = Kept(pq) \ {x}
                               /\ x.page = answer.page /\ x.frame = answer.frame

LEMMA KeptTimes ==
  ASSUME NEW q, NEW now \in Nat, QueueOK(q, now)
  PROVE  \A x \in Kept(q) : x.since \in 0 .. now /\ x.page \in AllPages /\ x.frame \in Frames
<1>1. \A c \in Cells \ Holders(q, 0) : q.entry[c] \in Entries(now)  BY FullCell
<1> QED  BY <1>1 DEF Kept, Slot, Entries

LEMMA StlbMissServes ==
  ASSUME IInv, StlbMiss
  PROVE  \E table, answer, old : Served(table, answer, old)
<1> DEFINE h      == Head(stlbRq)
           page   == h.page
           instr  == "I" \in h.sides
           cell   == CheckVpn(pq, page)
           queued == instr /\ cell # NoCell
<1>1. /\ stlbRq # <<>> /\ page \notin PagesIn(stlb) \cup PagesIn(stlbMshr)
      /\ Len(stlbMshr) < StlbMshrs /\ stlbRq' = Tail(stlbRq) /\ cycle' = cycle
  BY DEF StlbMiss
<1>2. PICK table \in IF queued THEN {pageTable} ELSE PageTablesWith(page),
           stall \in Stalls, calls \in IF instr THEN Calls ELSE {<<>>} :
        LET answer == IF queued THEN pq.entry[cell] ELSE Copy(page, table[page], FALSE)
            walks  == IF ~instr THEN fctb
                      ELSE IF queued \/ FctbKnows(Refreshed(fctb), page) THEN Refreshed(fctb)
                      ELSE Walked(Refreshed(fctb), page, DemandPlace(page), stall)
            before == [pq |-> IF queued THEN Taken(pq, cell) ELSE RacedQueue(pq, Lost(table)),
                       fctb |-> walks]
            after  == AfterCalls(table, before, calls)
        IN /\ Swapped(table)
           /\ stlbMshr' = Append(RacedSeq(stlbMshr, Lost(table)),
                                 [page |-> page, sides |-> h.sides,
                                  frame |-> answer.frame, raced |-> answer.raced])
           /\ pq' = after.pq /\ fctb' = after.fctb
  BY DEF StlbMiss
<1> DEFINE lost   == Lost(table)
           given  == IF queued THEN pq.entry[cell] ELSE Copy(page, table[page], FALSE)
           walks  == IF ~instr THEN fctb
                     ELSE IF queued \/ FctbKnows(Refreshed(fctb), page) THEN Refreshed(fctb)
                     ELSE Walked(Refreshed(fctb), page, DemandPlace(page), stall)
           left   == IF queued THEN Taken(pq, cell) ELSE RacedQueue(pq, lost)
           before == [pq |-> left, fctb |-> walks]
           after  == AfterCalls(table, before, calls)
           answer == [page |-> page, sides |-> h.sides, frame |-> given.frame,
                      raced |-> given.raced]
           old    == Kept(left)
<1>3. /\ Swapped(table) /\ stlbMshr' = Append(RacedSeq(stlbMshr, lost), answer)
      /\ pq' = after.pq /\ fctb' = after.fctb
  BY <1>2
<1>4. /\ queued => table = pageTable
      /\ ~queued => table \in PageTablesWith(page)
      /\ calls \in Seq(CallType)
  <2>1. CallType = [page : AllPages, free : BOOLEAN, stall : Stalls]  BY DEF CallType
  <2>2. Calls \subseteq Seq(CallType)
    <3>1. Calls = UNION {[1 .. m -> CallType] : m \in 0 .. MaxCalls}
      BY <2>1 DEF Calls, BoundedSeq, SeqOf
    <3>2. \A m \in 0 .. MaxCalls : m \in Nat
      OBVIOUS
    <3>3. ASSUME NEW m \in Nat, NEW f \in [1 .. m -> CallType] PROVE f \in Seq(CallType)
      BY FunctionIsSeq
    <3> HIDE DEF instr, queued
    <3> QED  BY <3>1, <3>2, <3>3
  <2>3. <<>> \in Seq(CallType)  BY EmptySeq
  <2> HIDE DEF queued, instr
  <2> QED  BY <1>2, <2>2, <2>3
<1>5. /\ stlbRq \in Seq(RqTypes) /\ Distinct(stlbRq) /\ TableOK(pageTable)
      /\ QueueOK(pq, cycle) /\ Current(pq, pageTable) /\ FctbOK(fctb) /\ cycle \in 0 .. MaxCycle
  BY DEF IInv
<1>6. cycle \in Nat /\ cycle < Never  BY <1>5, SizesType
<1>7. page \in AllPages /\ h.sides \subseteq Sides
  <2>1. h \in RqTypes  BY <1>1, <1>5, TailFacts
  <2> QED  BY <2>1 DEF RqTypes
<1>8. queued => cell \in Cells /\ pq.entry[cell].page = page
  BY <1>5, <1>7, CheckVpnFacts
<1> HIDE DEF queued, cell, instr, page, h
<1>9. /\ Swaps(table)
      /\ queued => table = pageTable /\ lost = {}
      /\ ~queued => table[page] \in Frames
  <2>1. CASE queued
    <3>1. table = pageTable  BY <1>4, <2>1
    <3>2. lost = {}  BY <3>1 DEF Lost, Mapped
    <3> QED  BY <1>5, <2>1, <3>1, <3>2 DEF Swaps
  <2>2. CASE ~queued  BY <1>4, <1>5, <1>7, <2>2, SwapFacts
  <2> QED  BY <2>1, <2>2
<1>10. lost \subseteq AllPages /\ TableOK(table)  BY <1>9 DEF Swaps
<1> HIDE DEF lost
<1>11. /\ QueueOK(left, cycle) /\ Current(left, table)
       /\ \/ old = Kept(pq)
          \/ \E x \in Kept(pq) : /\ old = Kept(pq) \ {x}
                                 /\ x.page = page /\ x.frame = given.frame
       /\ given.frame \in Frames /\ given.raced \in BOOLEAN
       /\ given.raced \/ table[page] = given.frame
  <2>1. CASE queued
    <3>1. cell \in Cells /\ pq.entry[cell].page = page /\ page # 0
      BY <1>7, <1>8, <2>1, SizesType
    <3>2. left = Taken(pq, cell) /\ given = pq.entry[cell]  BY <2>1
    <3>3. /\ QueueOK(left, cycle) /\ Kept(left) = Kept(pq) \ {Slot(pq.entry[cell])}
          /\ \A d \in Cells : left.entry[d] \in {EmptyCell, pq.entry[d]}
      BY <1>5, <1>6, <3>1, <3>2, TakenFacts
    <3> HIDE DEF left, given
    <3>4. EmptyCell.page = 0  BY DEF EmptyCell
    <3>5. Current(left, table)  BY <1>5, <1>9, <2>1, <3>3, <3>4 DEF Current
    <3>6. cell \notin Holders(pq, 0) /\ pq.entry[cell] \in Entries(cycle)
      BY <1>5, <1>6, <3>1, FullCell
    <3>7. Slot(given) \in Kept(pq) /\ Slot(given).page = page /\ Slot(given).frame = given.frame
      BY <3>1, <3>2, <3>6 DEF Kept, Slot
    <3>8. given.frame \in Frames /\ given.raced \in BOOLEAN  BY <3>2, <3>6 DEF Entries
    <3>9. CopyOK(given, table) /\ given.page = page
      BY <1>5, <1>9, <2>1, <3>1, <3>2 DEF Current
    <3> QED  BY <3>2, <3>3, <3>5, <3>7, <3>8, <3>9 DEF CopyOK
  <2>2. CASE ~queued
    <3>1. left = RacedQueue(pq, lost)  BY <2>2
    <3>2. given = Copy(page, table[page], FALSE)  BY <2>2
    <3>3. given.frame = table[page] /\ given.raced \in BOOLEAN
      <4>1. \A b \in BOOLEAN : /\ Copy(page, table[page], b).frame = table[page]
                              /\ Copy(page, table[page], b).raced = b
        BY DEF Copy
      <4>2. FALSE \in BOOLEAN  OBVIOUS
      <4> HIDE DEF given
      <4> QED  BY <3>2, <4>1, <4>2
    <3> HIDE DEF left, given
    <3>4. /\ QueueOK(left, cycle) /\ Kept(left) = Kept(pq)
          /\ \A c \in Cells : left.entry[c] = Raced(pq.entry[c], lost)
                              /\ RacedIs(Raced(pq.entry[c], lost), pq.entry[c], lost)
      BY <1>5, <1>6, <1>10, <3>1, RacedQueueFacts
    <3>5. ASSUME NEW c \in Cells, left.entry[c].page # 0 PROVE CopyOK(left.entry[c], table)
      <4>1. RacedIs(left.entry[c], pq.entry[c], lost)  BY <3>4
      <4>2. pq.entry[c].page # 0  BY <3>5, <4>1 DEF RacedIs
      <4>3. pq.entry[c] \in Entries(cycle) /\ CopyOK(pq.entry[c], pageTable)
        BY <1>5, <1>6, <4>2, FullCell DEF Current
      <4>4. pq.entry[c].page \in AllPages /\ pq.entry[c].frame \in Frames /\ pq.entry[c].frame # 0
        BY <4>3, SizesType DEF Entries
      <4> QED  BY <1>9, <4>1, <4>3, <4>4 DEF RacedIs, CopyOK, Swaps, lost
    <3>6. Current(left, table)  BY <3>5 DEF Current
    <3> QED  BY <1>9, <2>2, <3>3, <3>4, <3>6
  <2> QED  BY <2>1, <2>2
<1> HIDE DEF left, given
<1>12. FctbOK(walks)
  <2>1. FctbOK(Refreshed(fctb))  BY <1>5, RefreshedKeeps
  <2>2. stall \in Stalls  BY <1>2
  <2>3. CASE ~instr  BY <1>5, <2>3
  <2>4. CASE instr /\ (queued \/ FctbKnows(Refreshed(fctb), page))  BY <2>1, <2>4
  <2>5. CASE instr /\ ~queued /\ ~FctbKnows(Refreshed(fctb), page)
    <3>1. FctbOK(Walked(Refreshed(fctb), page, DemandPlace(page), stall))
      BY <1>6, <1>7, <2>1, <2>2, <2>5, WalkedKeeps, PlacesAgree
    <3> QED  BY <2>5, <3>1
  <2> QED  BY <2>3, <2>4, <2>5
<1> HIDE DEF walks
<1>13. before.pq = left /\ before.fctb = walks  OBVIOUS
<1>14. \A x \in old : x.since \in 0 .. cycle  BY <1>6, <1>11, KeptTimes
<1>15. ServedOK(before, table, old)
  <2>1. Grown(old, left)  BY DEF Grown
  <2> HIDE DEF before, old
  <2> QED  BY <1>11, <1>12, <1>13, <2>1 DEF ServedOK
<1> HIDE DEF before, old
<1>16. ServedOK(after, table, old)  BY <1>4, <1>6, <1>10, <1>14, <1>15, AfterCallsFacts
<1>17. /\ answer \in StlbMisses /\ answer.page = page /\ answer.sides = h.sides
       /\ answer.frame = given.frame /\ CopyOK(answer, table)
  BY <1>7, <1>11 DEF StlbMisses, CopyOK
<1> HIDE DEF after, answer
<1>18. /\ QueueOK(pq', cycle) /\ Current(pq', table) /\ FctbOK(fctb') /\ Grown(old, pq')
  BY <1>3, <1>16 DEF ServedOK
<1>19. \/ old = Kept(pq)
       \/ \E x \in Kept(pq) : /\ old = Kept(pq) \ {x}
                              /\ x.page = answer.page /\ x.frame = answer.frame
  BY <1>11, <1>17 DEF old
<1>20. Served(table, answer, old)
  BY <1>1, <1>3, <1>9, <1>17, <1>18, <1>19 DEF Served, lost, page, h
<1> QED  BY <1>20

LEMMA StlbMissKeeps ==
  ASSUME IInv, StlbMiss
  PROVE  IInv'
<1>1. PICK table, answer, old : Served(table, answer, old)  BY StlbMissServes
<1> DEFINE h    == Head(stlbRq)
           lost == Lost(table)
           ms   == RacedSeq(stlbMshr, lost)
<1>2. /\ Swaps(table) /\ cycle' = cycle
      /\ pageTable' = table /\ tlb' = [side \in Sides |-> Without(tlb[side], lost)]
      /\ stlb' = Without(stlb, lost)
      /\ mshr' = [side \in Sides |-> RacedMisses(mshr[side], lost)]
      /\ stlbRq # <<>> /\ stlbRq' = Tail(stlbRq)
      /\ h.page \notin PagesIn(stlb) /\ h.page \notin PagesIn(stlbMshr)
      /\ Len(stlbMshr) < StlbMshrs
      /\ answer \in StlbMisses /\ answer.page = h.page /\ answer.sides = h.sides
      /\ CopyOK(answer, table) /\ stlbMshr' = Append(ms, answer)
      /\ QueueOK(pq', cycle) /\ Current(pq', table) /\ FctbOK(fctb')
  BY <1>1 DEF Served, Swapped, Invalidated
<1>3. DOMAIN tlb' = Sides /\ DOMAIN mshr' = Sides  BY <1>2
<1>4. ASSUME NEW s \in Sides
      PROVE  /\ SideOK(tlb'[s], mshr'[s], table)
             /\ \A p : Pending(mshr'[s], p) <=> Pending(mshr[s], p)
  <2> DEFINE r == RacedMisses(mshr[s], lost)
  <2>1. tlb'[s] = Without(tlb[s], lost) /\ mshr'[s] = r  BY <1>2
  <2>2. SideOK(tlb[s], mshr[s], pageTable)  BY DEF IInv
  <2>3. r = RacedMisses(mshr[s], Lost(table))  OBVIOUS
  <2> HIDE DEF r
  <2>4. /\ SideOK(Without(tlb[s], Lost(table)), r, table)
        /\ \A p : Pending(r, p) <=> Pending(mshr[s], p)
    BY <1>2, <2>2, <2>3, SwapSide
  <2> QED  BY <2>1, <2>4
<1>5. /\ stlbRq \in Seq(RqTypes) /\ Distinct(stlbRq) /\ StlbOK(stlb, stlbMshr, pageTable)
  BY DEF IInv
<1>6. stlbRq' \in Seq(RqTypes) /\ Distinct(stlbRq')  BY <1>2, <1>5, TailFacts
<1>7. /\ StlbOK(stlb', ms, table)
      /\ ListOK(stlbMshr, StlbMisses, StlbMshrs) /\ ListOK(stlb, Copies, StlbWays)
  BY <1>2, <1>5, SwapStlb DEF StlbOK
<1>8. /\ stlbMshr \in Seq(StlbMisses) /\ Distinct(stlbMshr)
      /\ ms \in Seq(StlbMisses) /\ Len(ms) = Len(stlbMshr) /\ Distinct(ms)
      /\ Range(ms) = {Raced(e, lost) : e \in Range(stlbMshr)}
  BY <1>7, RacedSeqFacts DEF ListOK
<1>9. ASSUME NEW e \in Range(stlbMshr)
      PROVE  Raced(e, lost).page = e.page /\ Raced(e, lost).sides = e.sides
  <2>1. e \in StlbMisses  BY <1>8, SeqElements DEF Range
  <2> QED  BY <2>1, RacedMiss DEF RacedIs
<1>10. \A e \in Range(stlb') : e.page # h.page
  <2>1. StlbWays \in Nat  BY SizesType
  <2> DEFINE w == Without(stlb, lost)
  <2>2. Range(w) = {e \in Range(stlb) : e.page \notin lost}  BY <1>7, <2>1, DropFacts
  <2>3. stlb' = w  BY <1>2
  <2> HIDE DEF w
  <2>4. \A e \in Range(stlb) : e.page # h.page  BY <1>2, PagesOfEntries
  <2> QED  BY <2>2, <2>3, <2>4
<1> HIDE DEF ms, lost
<1>11. answer.page \notin PagesIn(ms)
  <2>1. \A e \in Range(stlbMshr) : e.page # h.page  BY <1>2, PagesOfEntries
  <2>2. \A x \in Range(ms) : x.page # h.page  BY <1>8, <1>9, <2>1
  <2> QED  BY <1>2, <2>2, PagesOfEntries
<1>12. /\ stlbMshr' \in Seq(StlbMisses) /\ Len(stlbMshr') = Len(ms) + 1
       /\ Range(stlbMshr') = Range(ms) \cup {answer} /\ Distinct(stlbMshr')
  BY <1>2, <1>8, <1>11, AppendFacts
<1>13. StlbOK(stlb', stlbMshr', table)
  <2>1. Len(stlbMshr) \in Nat  BY <1>8, SeqElements
  <2>2. ListOK(stlbMshr', StlbMisses, StlbMshrs)
    BY <1>2, <1>8, <1>12, <2>1, SizesType DEF ListOK
  <2>3. \A m \in Range(stlbMshr'), e \in Range(stlb') : m.page # e.page
    BY <1>2, <1>7, <1>10, <1>12 DEF StlbOK
  <2>4. \A m \in Range(stlbMshr') : CopyOK(m, table)  BY <1>2, <1>7, <1>12 DEF StlbOK
  <2> QED  BY <1>7, <2>2, <2>3, <2>4 DEF StlbOK
<1>14. ASSUME NEW s \in Sides, NEW p
       PROVE  /\ Asks(stlbMshr', s, p) <=> Asks(stlbMshr, s, p) \/ (p = h.page /\ s \in h.sides)
              /\ p = h.page => ~Asks(stlbMshr, s, p)
  <2>1. Asks(ms, s, p) <=> Asks(stlbMshr, s, p)  BY <1>8, <1>9 DEF Asks
  <2>2. p = h.page => ~Asks(stlbMshr, s, p)  BY <1>2, PagesOfEntries DEF Asks
  <2> QED  BY <1>2, <1>12, <2>1, <2>2 DEF Asks
<1>15. ASSUME NEW s \in Sides PROVE OnWay(stlbRq', stlbMshr', mshr'[s], s)
  <2>1. OnWay(stlbRq, stlbMshr, mshr[s], s)  BY DEF IInv
  <2> SUFFICES ASSUME NEW p \in AllPages
               PROVE  /\ Pending(mshr'[s], p) <=> Asks(stlbRq', s, p) \/ Asks(stlbMshr', s, p)
                      /\ ~(Asks(stlbRq', s, p) /\ Asks(stlbMshr', s, p))
    BY DEF OnWay
  <2>2. /\ Pending(mshr[s], p) <=> Asks(stlbRq, s, p) \/ Asks(stlbMshr, s, p)
        /\ ~(Asks(stlbRq, s, p) /\ Asks(stlbMshr, s, p))
    BY <2>1 DEF OnWay
  <2>3. /\ p # h.page => (Asks(stlbRq', s, p) <=> Asks(stlbRq, s, p))
        /\ p = h.page => /\ ~Asks(stlbRq', s, p)
                         /\ Asks(stlbRq, s, p) <=> s \in h.sides
    BY <1>2, <1>5, AsksTail
  <2>4. Pending(mshr'[s], p) <=> Pending(mshr[s], p)  BY <1>4
  <2>5. CASE p # h.page  BY <1>14, <2>2, <2>3, <2>4, <2>5
  <2>6. CASE p = h.page  BY <1>14, <2>2, <2>3, <2>4, <2>6
  <2> QED  BY <2>5, <2>6
<1>16. TableOK(table) /\ cycle \in 0 .. MaxCycle  BY <1>2 DEF Swaps, IInv
<1> QED  BY <1>2, <1>3, <1>4, <1>6, <1>13, <1>15, <1>16 DEF IInv

LEMMA Inductive == IInv /\ [Next]_vars => IInv'
<1> SUFFICES ASSUME IInv, [Next]_vars PROVE IInv'  OBVIOUS
<1>1. CASE UNCHANGED vars  BY <1>1 DEF vars, IInv
<1>2. CASE Next
  <2>1. CASE Tick  BY <2>1, TickKeeps
  <2>2. CASE StlbHit  BY <2>2, StlbHitKeeps
  <2>3. CASE StlbMerge  BY <2>3, StlbMergeKeeps
  <2>4. CASE StlbMiss  BY <2>4, StlbMissKeeps
  <2>5. CASE StlbFill  BY <2>5, StlbFillKeeps
  <2>6. ASSUME NEW side \in Sides, NEW page \in PagesOf[side],
               TlbHit(side, page) \/ TlbMiss(side, page) \/ TlbFill(side, page)
        PROVE  IInv'
    BY <2>6, TlbHitKeeps, TlbMissKeeps, TlbFillKeeps
  <2> QED  BY <1>2, <2>1, <2>2, <2>3, <2>4, <2>5, <2>6 DEF Next
<1> QED  BY <1>1, <1>2

LEMMA InvHolds == Spec => []IInv
BY InitInv, Inductive, PTL DEF Spec

--------------------------------------------------------------------------------
(* What it says of the properties                                              *)

LEMMA DistinctSize ==
  ASSUME NEW S, NEW s \in Seq(S), Distinct(s)
  PROVE  Cardinality(PagesIn(s)) = Len(s)
<1> DEFINE n == Len(s)
           f == [i \in 1 .. n |-> s[i].page]
<1>1. n \in Nat /\ DOMAIN s = 1 .. n  BY SeqElements
<1>2. IsFiniteSet(1 .. n) /\ Cardinality(1 .. n) = n
  <2>1. 1 \in Int /\ n \in Int  BY <1>1
  <2>2. /\ IsFiniteSet(1 .. n)
        /\ Cardinality(1 .. n) = IF 1 > n THEN 0 ELSE n - 1 + 1
    BY <2>1, FS_Interval, Zenon
  <2> HIDE DEF n
  <2> QED  BY <1>1, <2>2
<1>3. \A i \in 1 .. n : f[i] = s[i].page  OBVIOUS
<1>4. f \in [1 .. n -> PagesIn(s)]  BY <1>1 DEF PagesIn
<1>5. \A x \in PagesIn(s) : \E i \in 1 .. n : f[i] = x  BY <1>1 DEF PagesIn
<1>6. \A i, j \in 1 .. n : f[i] = f[j] => i = j  BY <1>1, <1>3 DEF Distinct
<1> HIDE DEF f, n
<1>7. f \in Surjection(1 .. n, PagesIn(s))  BY <1>4, <1>5 DEF Surjection
<1>8. f \in Injection(1 .. n, PagesIn(s))  BY <1>4, <1>6 DEF Injection, IsInjective
<1> QED  BY <1>2, <1>7, <1>8, FS_Surjection DEF n

(* A set of at most one element.                                               *)
LEMMA AtMostOne ==
  ASSUME NEW S, \A x, y \in S : x = y
  PROVE  Cardinality(S) = IF S = {} THEN 0 ELSE 1
<1>1. CASE S = {}  BY <1>1, FS_EmptySet
<1>2. CASE S # {}
  <2>1. PICK x : x \in S  BY <1>2
  <2>2. S = {x}  BY <2>1
  <2> QED  BY <1>2, <2>2, FS_Singleton
<1> QED  BY <1>1, <1>2

LEMMA TypeFollows == IInv => TypeOK
<1> SUFFICES ASSUME IInv PROVE TypeOK  OBVIOUS
<1>1. cycle \in 0 .. MaxCycle /\ pageTable \in [AllPages -> Frames \cup {0}]
  BY DEF IInv, TableOK
<1>2. "I" \in Sides /\ "D" \in Sides  BY DEF Sides
<1>3. \A side \in Sides : ListOK(tlb[side], Copies, TlbWays) /\ MissesOK(mshr[side])
  BY DEF IInv, SideOK
<1>4. ListOK(stlb, Copies, StlbWays) /\ ListOK(stlbMshr, StlbMisses, StlbMshrs)
  BY DEF IInv, StlbOK
<1>5. \A s \in {tlb["I"], tlb["D"], stlb} :
        s \in Seq(Copies) /\ Cardinality(PagesIn(s)) = Len(s)
  <2>1. \A s \in {tlb["I"], tlb["D"], stlb} : s \in Seq(Copies) /\ Distinct(s)
    BY <1>2, <1>3, <1>4 DEF ListOK
  <2> QED  BY <2>1, DistinctSize
<1>6. \A side \in Sides :
        /\ Len(tlb[side]) =< TlbWays /\ Cardinality(mshr[side]) =< TlbMshrs
        /\ mshr[side] \subseteq Copies \cup [page : AllPages, frame : {0}, raced : {FALSE}]
  BY <1>3 DEF ListOK, MissesOK, MissTypes
<1>7. Len(stlb) =< StlbWays /\ Len(stlbMshr) =< StlbMshrs  BY <1>4 DEF ListOK
<1>8. stlbRq \in Seq([page : AllPages, sides : SUBSET Sides])  BY DEF IInv, RqTypes
<1>9. stlbMshr \in Seq([page : AllPages, sides : SUBSET Sides, frame : Frames, raced : BOOLEAN])
  BY <1>4 DEF ListOK, StlbMisses
<1>10. Cardinality(Holders(pq, 0)) + pq.occupancy = PqSize
  <2>1. QueueOK(pq, cycle)  BY DEF IInv
  <2> QED  BY <2>1, HolesType DEF QueueOK
<1>11. \A i \in DOMAIN fctb : fctb[i].page \in AllPages \cup {0}
  BY DEF IInv, FctbOK, FctbEntries
<1> QED  BY <1>1, <1>5, <1>6, <1>7, <1>8, <1>9, <1>10, <1>11 DEF TypeOK

LEMMA AgreeFollows == IInv => TlbsAgree
<1> SUFFICES ASSUME IInv PROVE TlbsAgree  OBVIOUS
<1>1. "I" \in Sides /\ "D" \in Sides  BY DEF Sides
<1>2. \A p, r \in Mapped : p # r => pageTable[p] # pageTable[r]
  BY DEF IInv, TableOK, Mapped
<1>3. \A e \in Range(tlb["I"]) \cup Range(tlb["D"]) \cup Range(stlb) \cup Range(stlbMshr) :
        CopyOK(e, pageTable)
  BY <1>1 DEF IInv, SideOK, StlbOK
<1>4. \A e \in InFlight : CopyOK(e, pageTable)  BY <1>1 DEF IInv, SideOK, InFlight
<1>5. \A e \in Waiting(pq) : CopyOK(e, pageTable)
  <2>1. \A c \in Cells \ Holders(pq, 0) : CopyOK(pq.entry[c], pageTable)
    BY DEF IInv, Current, Holders
  <2> QED  BY <2>1 DEF Waiting
<1> QED  BY <1>2, <1>3, <1>4, <1>5 DEF TlbsAgree, CopyOK

LEMMA OnTheirWayFollows == IInv => MissesOnTheirWay
<1> SUFFICES ASSUME IInv, NEW side \in Sides, NEW page \in AllPages
             PROVE  Cardinality({i \in DOMAIN stlbRq : stlbRq[i].page = page /\ side \in stlbRq[i].sides})
                    + Cardinality({i \in DOMAIN stlbMshr :
                                     stlbMshr[i].page = page /\ side \in stlbMshr[i].sides})
                    = Cardinality({m \in mshr[side] : m.page = page /\ m.frame = 0})
  BY DEF MissesOnTheirWay
<1> DEFINE At(s)   == {i \in DOMAIN s : s[i].page = page /\ side \in s[i].sides}
           waits   == {m \in mshr[side] : m.page = page /\ m.frame = 0}
<1>1. ASSUME NEW s, Distinct(s)
      PROVE  Cardinality(At(s)) = IF Asks(s, side, page) THEN 1 ELSE 0
  <2>1. \A i, j \in At(s) : i = j  BY <1>1 DEF Distinct
  <2>2. At(s) = {} <=> ~Asks(s, side, page)  BY DEF Asks, Range
  <2> HIDE DEF At
  <2> QED  BY <2>1, <2>2, AtMostOne
<1>2. Distinct(stlbRq) /\ Distinct(stlbMshr) /\ MissesOK(mshr[side])
      /\ OnWay(stlbRq, stlbMshr, mshr[side], side)
  BY DEF IInv, StlbOK, ListOK, SideOK
<1>3. Cardinality(waits) = IF Pending(mshr[side], page) THEN 1 ELSE 0
  <2>1. \A m, k \in waits : m = k  BY <1>2 DEF MissesOK
  <2>2. waits = {} <=> ~Pending(mshr[side], page)  BY DEF Pending
  <2> HIDE DEF waits
  <2> QED  BY <2>1, <2>2, AtMostOne
<1>4. /\ Pending(mshr[side], page) <=> Asks(stlbRq, side, page) \/ Asks(stlbMshr, side, page)
      /\ ~(Asks(stlbRq, side, page) /\ Asks(stlbMshr, side, page))
  BY <1>2 DEF OnWay
<1>5. /\ Cardinality(At(stlbRq)) = IF Asks(stlbRq, side, page) THEN 1 ELSE 0
      /\ Cardinality(At(stlbMshr)) = IF Asks(stlbMshr, side, page) THEN 1 ELSE 0
  BY <1>1, <1>2
<1> HIDE DEF waits, At
<1>6. Cardinality(At(stlbRq)) + Cardinality(At(stlbMshr)) = Cardinality(waits)
  BY <1>3, <1>4, <1>5
<1> QED  BY <1>6 DEF waits, At

LEMMA OneWalkFollows == IInv => OneWalkPerLine
BY DEF IInv, FctbOK, OneWalkPerLine

(* Everything has its type and its capacity, no TLB holds a page twice, the    *)
(* prefetch queue counts its entries: for every size of the structures.        *)
THEOREM TypeCorrect == Spec => []TypeOK
BY InvHolds, TypeFollows, PTL

(* No frame belongs to two pages, and no TLB, queue or miss in flight says     *)
(* what the page table does not, except of a page that va_to_pa swapped out    *)
(* after the copy was made.                                                    *)
THEOREM TlbsAgreeCorrect == Spec => []TlbsAgree
BY InvHolds, AgreeFollows, PTL

(* A miss of a first-level TLB waits in exactly one place of the STLB until    *)
(* return_data answers it, and nobody else is answered.                        *)
THEOREM MissesOnTheirWayCorrect == Spec => []MissesOnTheirWay
BY InvHolds, OnTheirWayFollows, PTL

(* search_fctb and the entries of demand misses and prefetches agree on the    *)
(* line of a page: two walks on their way never fetch the same line.           *)
THEOREM OneWalkPerLineCorrect == Spec => []OneWalkPerLine
BY InvHolds, OneWalkFollows, PTL

--------------------------------------------------------------------------------
(* The prefetch queue implements PrefetchBuffer                                *)

Held    == {[page |-> e.page, frame |-> e.frame, since |-> e.since] : e \in Waiting(pq)}
Answers == {[page |-> e.page, frame |-> e.frame] : e \in Range(stlbMshr)}

LEMMA OffersKept ==
  ASSUME NEW q
  PROVE  {[page |-> e.page, frame |-> e.frame, since |-> e.since] : e \in Waiting(q)} = Kept(q)
<1> DEFINE held == {Slot(e) : e \in Waiting(q)}
<1>1. \A x \in Kept(q) : \E e \in Waiting(q) : x = Slot(e)  BY DEF Kept, Waiting
<1>2. \A e \in Waiting(q) : Slot(e) \in Kept(q)  BY DEF Kept, Waiting
<1>3. held = Kept(q)  BY <1>1, <1>2
<1> QED  BY <1>3 DEF Slot

LEMMA HeldIsKept == Held = Kept(pq) /\ Held' = Kept(pq')
<1>1. Held = Kept(pq)  BY OffersKept DEF Held
<1>2. Held' = Kept(pq')
  <2> DEFINE q == pq'
  <2>1. Held' = {[page |-> e.page, frame |-> e.frame, since |-> e.since] : e \in Waiting(q)}
    BY DEF Held
  <2> HIDE DEF q
  <2>2. Held' = Kept(q)  BY <2>1, OffersKept
  <2> QED  BY <2>2 DEF q
<1> QED  BY <1>1, <1>2

(* The queue offers as many translations as it counts, of as many pages.       *)
LEMMA KeptSize ==
  ASSUME NEW q, NEW now \in Nat, QueueOK(q, now)
  PROVE  /\ Cardinality(Kept(q)) = q.occupancy /\ q.occupancy =< PqSize
         /\ \A x, y \in Kept(q) : x.page = y.page => x = y
<1> DEFINE full == Cells \ Holders(q, 0)
           f    == [c \in full |-> Slot(q.entry[c])]
<1>1. /\ IsFiniteSet(Cells) /\ Cardinality(Cells) = PqSize /\ Holders(q, 0) \subseteq Cells
      /\ IsFiniteSet(Holders(q, 0)) /\ q.occupancy \in 0 .. PqSize
      /\ Cardinality(Holders(q, 0)) \in Nat
  BY CellsType, HolesType
<1>2. q.occupancy + Cardinality(Holders(q, 0)) = PqSize  BY DEF QueueOK
<1>3. IsFiniteSet(full) /\ Cardinality(full) = q.occupancy
  <2>1. IsFiniteSet(full)  BY <1>1, FS_Subset
  <2>2. Cells = full \cup Holders(q, 0) /\ full \cap Holders(q, 0) = {}  BY <1>1
  <2> HIDE DEF full
  <2>3. Cardinality(full \cup Holders(q, 0)) = Cardinality(full) + Cardinality(Holders(q, 0))
                                               - Cardinality({})
    BY <1>1, <2>1, <2>2, FS_Union
  <2>4. Cardinality({}) = 0 /\ Cardinality(full) \in Nat  BY <2>1, FS_EmptySet, FS_CardinalityType
  <2> QED  BY <1>1, <1>2, <2>1, <2>2, <2>3, <2>4, SizesType
<1>4. \A c \in full : f[c] = Slot(q.entry[c]) /\ q.entry[c].page # 0  BY DEF Holders
<1>5. f \in [full -> Kept(q)] /\ \A x \in Kept(q) : \E c \in full : x = f[c]  BY DEF Kept
<1>6. \A c, d \in full : f[c].page = f[d].page => c = d
  <2>1. \A c \in full : f[c].page = q.entry[c].page /\ c \in Cells  BY DEF Slot
  <2> QED  BY <1>4, <2>1 DEF QueueOK
<1> HIDE DEF f, full
<1>7. f \in Surjection(full, Kept(q)) /\ f \in Injection(full, Kept(q))
  BY <1>5, <1>6 DEF Surjection, Injection, IsInjective
<1>8. Cardinality(Kept(q)) = q.occupancy  BY <1>3, <1>7, FS_Surjection
<1>9. \A x, y \in Kept(q) : x.page = y.page => x = y  BY <1>5, <1>6
<1> QED  BY <1>1, <1>8, <1>9

LEMMA BufferInit == Init => Buffer!Init
<1> SUFFICES ASSUME Init PROVE Buffer!Init  OBVIOUS
<1>1. Waiting(pq) = {}
  <2>1. pq.entry = [c \in Cells |-> EmptyCell]  BY DEF Init, EmptyQueue
  <2>2. \A c \in Cells : pq.entry[c] = EmptyCell  BY <2>1
  <2> QED  BY <2>2 DEF Waiting, Holders, EmptyCell
<1>2. Range(stlbMshr) = {}
  <2>1. 0 \in Nat  OBVIOUS
  <2> QED  BY <2>1, EmptyList DEF Init
<1> QED  BY <1>1, <1>2 DEF Buffer!Init

(* PrefetchBuffer's step, of what waits before and after (w and v) and of the  *)
(* answers on their way before and after (a and b).                            *)
Serving(w, v, a, b, taken) ==
  LET base == w \ taken
      new  == v \ base
      lost == base \ v
  IN /\ \A e \in taken : Buffer!GivenTo(e) \in b \ a
     /\ \A e \in new : \A x \in base \cup new : x.since =< e.since
     /\ \A e \in lost, kept \in base \ lost : e.since =< kept.since
     /\ lost # {} => Buffer!Cardinality(v) = PqSize
     /\ Buffer!Cardinality(v) =< PqSize
     /\ \A x, y \in v : x.page = y.page => x = y

LEMMA SameSize ==
  ASSUME NEW S
  PROVE  Buffer!Cardinality(S) = Cardinality(S)
BY DEF Buffer!Cardinality, Cardinality

LEMMA ServeIs ==
  ASSUME NEW taken
  PROVE  Buffer!Serve(taken) <=> Serving(Held, Held', Answers, Answers', taken)
BY Zenon DEF Buffer!Serve, Serving, Held, Answers

(* A step that leaves the queue alone serves nobody.                           *)
LEMMA ServesNobody ==
  ASSUME IInv, pq' = pq
  PROVE  Buffer!Serve({})
<1>1. Held' = Held  BY DEF Held
<1>2. /\ Cardinality(Held) =< PqSize
      /\ \A x, y \in Held : x.page = y.page => x = y
  <2>1. cycle \in Nat /\ QueueOK(pq, cycle)  BY SizesType DEF IInv
  <2>2. PqSize \in Nat /\ pq.occupancy \in Nat  BY <2>1, SizesType DEF QueueOK
  <2> QED  BY <2>1, <2>2, HeldIsKept, KeptSize
<1>3. Serving(Held, Held', Answers, Answers', {})
  <2>1. Held \ {} = Held  OBVIOUS
  <2> QED  BY <1>1, <1>2, <2>1, SameSize DEF Serving
<1> QED  BY <1>3, ServeIs

(* A miss of the STLB serves itself from the queue, or nobody.                 *)
LEMMA StlbMissServesOne ==
  ASSUME IInv, StlbMiss
  PROVE  Buffer!Next
<1>1. PICK table, answer, old : Served(table, answer, old)  BY StlbMissServes
<1> DEFINE w == Held
           v == Held'
           a == Answers
           b == Answers'
<1>2. /\ cycle \in Nat /\ cycle' = cycle /\ QueueOK(pq, cycle) /\ QueueOK(pq', cycle)
      /\ Grown(old, pq')
  BY <1>1, SizesType DEF IInv, Served
<1>3. w = Kept(pq) /\ v = Kept(pq')  BY HeldIsKept
<1>4. /\ Cardinality(v) = pq'.occupancy /\ pq'.occupancy =< PqSize
      /\ \A x, y \in v : x.page = y.page => x = y
  BY <1>2, <1>3, KeptSize
<1>5. /\ \A x \in v : x \in old \/ x.since = cycle
      /\ \A e \in old \ v, x \in v : e.since =< x.since
      /\ old \ v # {} => pq'.occupancy = PqSize
  BY <1>2, <1>3 DEF Grown
<1>6. \A x \in w : x.since \in 0 .. cycle  BY <1>2, <1>3, KeptTimes
<1>7. \A x \in v : x.since \in 0 .. cycle  BY <1>2, <1>3, KeptTimes
<1>8. ASSUME NEW taken, old = w \ taken, \A e \in taken : Buffer!GivenTo(e) \in b \ a
      PROVE  Serving(w, v, a, b, taken)
  <2> HIDE DEF w, v, a, b
  <2>1. \A e \in v \ old : \A x \in old \cup (v \ old) : x.since =< e.since
    <3>1. \A e \in v \ old : e.since = cycle  BY <1>5
    <3>2. \A x \in old \cup (v \ old) : x.since \in 0 .. cycle  BY <1>6, <1>7, <1>8
    <3>3. \A k \in 0 .. cycle : k =< cycle  BY <1>2
    <3> QED  BY <3>1, <3>2, <3>3
  <2>2. \A e \in old \ v, kept \in old \ (old \ v) : e.since =< kept.since  BY <1>5
  <2>3. old \ v # {} => Buffer!Cardinality(v) = PqSize  BY <1>4, <1>5, SameSize
  <2>4. Buffer!Cardinality(v) =< PqSize  BY <1>4, SameSize
  <2> QED  BY <1>4, <1>8, <2>1, <2>2, <2>3, <2>4 DEF Serving
<1>9. CASE old = Kept(pq)
  <2>1. old = w \ {}  BY <1>3, <1>9
  <2> HIDE DEF w, v, a, b
  <2>2. Serving(w, v, a, b, {})  BY <1>8, <2>1
  <2>3. Buffer!Serve({})  BY <2>2, ServeIs DEF w, v, a, b
  <2> QED  BY <2>3 DEF Buffer!Next
<1>10. ASSUME NEW x \in Kept(pq), old = Kept(pq) \ {x},
              x.page = answer.page, x.frame = answer.frame
       PROVE  Buffer!Next
  <2> DEFINE lost == Lost(table)
             ms   == RacedSeq(stlbMshr, lost)
  <2>1. /\ stlbMshr' = Append(ms, answer) /\ answer \in StlbMisses
        /\ answer.page = Head(stlbRq).page /\ Head(stlbRq).page \notin PagesIn(stlbMshr)
    BY <1>1 DEF Served
  <2>2. stlbMshr \in Seq(StlbMisses) /\ Distinct(stlbMshr)  BY DEF IInv, StlbOK, ListOK
  <2>3. /\ ms \in Seq(StlbMisses) /\ Distinct(ms)
        /\ Range(ms) = {Raced(e, lost) : e \in Range(stlbMshr)}
    BY <2>2, RacedSeqFacts
  <2>4. \A e \in Range(stlbMshr) : e \in StlbMisses  BY <2>2, SeqElements DEF Range
  <2>5. \A e \in Range(stlbMshr) : Raced(e, lost).page = e.page
    BY <2>4, RacedMiss DEF RacedIs
  <2>6. \A e \in Range(stlbMshr) : e.page # answer.page  BY <2>1, PagesOfEntries
  <2> HIDE DEF ms, lost
  <2>7. answer.page \notin PagesIn(ms)
    <3>1. \A e \in Range(ms) : e.page # answer.page  BY <2>3, <2>5, <2>6
    <3> QED  BY <3>1, PagesOfEntries
  <2>8. Range(stlbMshr') = Range(ms) \cup {answer}  BY <2>1, <2>3, <2>7, AppendFacts
  <2>9. Buffer!GivenTo(x) \in b
    <3>1. b = {[page |-> e.page, frame |-> e.frame] : e \in Range(stlbMshr')}  BY DEF Answers
    <3>2. answer \in Range(stlbMshr')  BY <2>8
    <3>3. Buffer!GivenTo(x) = [page |-> answer.page, frame |-> answer.frame]
      BY <1>10 DEF Buffer!GivenTo
    <3> HIDE DEF b
    <3> QED  BY <3>1, <3>2, <3>3
  <2>10. Buffer!GivenTo(x) \notin a
    <3>1. Buffer!GivenTo(x).page = answer.page  BY <1>10 DEF Buffer!GivenTo
    <3>2. \A y \in a : \E e \in Range(stlbMshr) : y.page = e.page  BY DEF Answers
    <3> HIDE DEF a
    <3> QED  BY <2>6, <3>1, <3>2
  <2>11. old = w \ {x} /\ x \in w  BY <1>3, <1>10
  <2> HIDE DEF w, v, a, b
  <2>12. Serving(w, v, a, b, {x})  BY <1>8, <2>9, <2>10, <2>11
  <2>13. Buffer!Serve({x}) /\ x \in Held  BY <2>11, <2>12, ServeIs DEF w, v, a, b
  <2> QED  BY <2>13 DEF Buffer!Next, Held
<1>11. \/ old = Kept(pq)
       \/ \E x \in Kept(pq) : /\ old = Kept(pq) \ {x}
                              /\ x.page = answer.page /\ x.frame = answer.frame
  BY <1>1 DEF Served
<1> QED  BY <1>9, <1>10, <1>11

LEMMA StepImplements == IInv /\ [Next]_vars => [Buffer!Next]_<<Held, Answers>>
<1> SUFFICES ASSUME IInv, [Next]_vars PROVE [Buffer!Next]_<<Held, Answers>>  OBVIOUS
<1>1. CASE pq' = pq
  <2>1. Buffer!Serve({})  BY <1>1, ServesNobody
  <2> QED  BY <2>1 DEF Buffer!Next
<1>2. CASE StlbMiss  BY <1>2, StlbMissServesOne
<1>3. CASE UNCHANGED vars  BY <1>1, <1>3 DEF vars
<1>4. CASE Next /\ ~StlbMiss
  <2>1. pq' = pq
    BY <1>4 DEF Next, Tick, StlbHit, StlbMerge, StlbFill, TlbHit, TlbMiss, TlbFill
  <2> QED  BY <1>1, <2>1
<1> QED  BY <1>2, <1>3, <1>4

(* The prefetch queue, with its holes, its wrap-around and its early return,   *)
(* loses no translation but the oldest when it is full, and gives each to at   *)
(* most one miss, whatever the prefetcher asks for in between.                 *)
THEOREM QueueImplementsBuffer == Spec => ImplementsPrefetchBuffer
<1>1. Init => Buffer!Init  BY BufferInit
<1>2. IInv /\ [Next]_vars => [Buffer!Next]_<<Held, Answers>>  BY StepImplements
<1>3. Spec => []IInv  BY InvHolds
<1> QED  BY <1>1, <1>2, <1>3, PTL DEF Spec, ImplementsPrefetchBuffer, Buffer!Spec, Held, Answers
===============================================================================
