----------------------------- MODULE PageWalkProofs -----------------------------
(***************************************************************************)
(* Proofs about PageWalk, for all geometries of the page-walk caches, the   *)
(* tables and the caches, and all values of the uninitialised variables.    *)
(***************************************************************************)
EXTENDS PageWalk, FiniteSetTheorems, WellFoundedInduction, TLAPS

-----------------------------------------------------------------------------
(* Positions of a page-walk cache, and the first of some *)

LEMMA LeastNat ==
  ASSUME NEW S, \A x \in S : x \in Nat, S # {}
  PROVE  \E x \in S : \A y \in S : x <= y
<1>0. S \subseteq Nat  OBVIOUS
<1>1. \E x \in S : \A y \in S : ~ (<<y, x>> \in OpToRel(<, Nat))
  BY <1>0, NatLessThanWellFounded, WFMin, Zenon
<1>2. ASSUME NEW x \in Nat, NEW y \in Nat, y < x
      PROVE  <<y, x>> \in OpToRel(<, Nat)
  BY <1>2, Zenon DEF OpToRel
<1>3. PICK x \in S : \A y \in S : ~ (<<y, x>> \in OpToRel(<, Nat))  BY <1>1
<1>4. x \in Nat /\ \A y \in S : y \in Nat /\ ~ (y < x)  BY <1>0, <1>2, <1>3
<1>5. \A y \in S : x <= y  BY <1>4
<1> QED  BY <1>5

\* The sizes and the tags that no walk wrote are numbers.
LEMMA SizesType ==
  /\ TableSize \in Nat \ {0} /\ LineEntries \in Nat \ {0} /\ MaxWalks \in Nat
  /\ \A k \in PwcLevels : PwcSets[k] \in Nat \ {0} /\ PwcWays[k] \in Nat \ {0}
  /\ Pages \subseteq Nat /\ Garbage \subseteq Nat
BY PageWalkAssumption

LEMMA PositionFacts ==
  ASSUME NEW k \in PwcLevels, NEW p \in Positions(k)
  PROVE  p[1] \in 0 .. PwcSets[k] - 1 /\ p[2] \in 0 .. PwcWays[k] - 1 /\ p = <<p[1], p[2]>>
         /\ p[1] \in Nat /\ p[2] \in Nat
BY SizesType DEF Positions

\* Positions are ordered.
LEMMA BeforeFacts ==
  ASSUME NEW k \in PwcLevels
  PROVE  /\ \A p, q \in Positions(k) : Before(p, q) /\ Before(q, p) => p = q
         /\ \A p \in Positions(k) : Before(p, p)
<1>1. ASSUME NEW p \in Positions(k), NEW q \in Positions(k), Before(p, q), Before(q, p)
      PROVE  p = q
  <2>1. p[1] \in Nat /\ p[2] \in Nat /\ q[1] \in Nat /\ q[2] \in Nat
        /\ p = <<p[1], p[2]>> /\ q = <<q[1], q[2]>>
    BY PositionFacts
  <2>2. p[1] = q[1] /\ p[2] = q[2]  BY <1>1, <2>1 DEF Before
  <2> QED  BY <2>1, <2>2
<1>2. \A p \in Positions(k) : Before(p, p)  BY PositionFacts DEF Before
<1> QED  BY <1>1, <1>2

LEMMA FirstOfIs ==
  ASSUME NEW k \in PwcLevels, NEW S, S \subseteq Positions(k), S # {}
  PROVE  FirstOf(S) \in S /\ \A q \in S : Before(FirstOf(S), q)
<1>1. \A p \in S : p[1] \in Nat /\ p[2] \in Nat  BY PositionFacts
<1> DEFINE A == {p[1] : p \in S}
<1>2. PICK a \in A : \A y \in A : a <= y
  <2>1. A # {} /\ \A x \in A : x \in Nat  BY <1>1
  <2> HIDE DEF A
  <2> QED  BY <2>1, LeastNat
<1> DEFINE T == {p \in S : p[1] = a}
           B == {p[2] : p \in T}
<1>3. PICK b \in B : \A y \in B : b <= y
  <2>1. B # {} /\ \A x \in B : x \in Nat  BY <1>1
  <2> HIDE DEF B
  <2> QED  BY <2>1, LeastNat
<1>4. PICK p \in S : p[1] = a /\ p[2] = b  OBVIOUS
<1>5. \A q \in S : Before(p, q)
  <2> SUFFICES ASSUME NEW q \in S PROVE Before(p, q)  OBVIOUS
  <2>1. a <= q[1] /\ (q[1] = a => b <= q[2])  BY <1>2, <1>3
  <2>2. p[1] \in Nat /\ p[2] \in Nat /\ q[1] \in Nat /\ q[2] \in Nat  BY <1>1
  <2> QED  BY <1>4, <2>1, <2>2 DEF Before
<1> QED  BY <1>4, <1>5 DEF FirstOf

LEMMA GroupFacts ==
  ASSUME NEW k \in PwcLevels, NEW t \in Nat
  PROVE  Group(k, t) \subseteq Positions(k) /\ Group(k, t) # {}
<1> DEFINE s == t % PwcSets[k]
           p == <<s, 0>>
<1>1. PwcSets[k] \in Nat \ {0} /\ PwcWays[k] \in Nat \ {0}  BY SizesType
<1>2. s \in 0 .. PwcSets[k] - 1 /\ 0 \in 0 .. PwcWays[k] - 1  BY <1>1
<1> HIDE DEF s
<1>3. p \in Positions(k) /\ p[1] = s  BY <1>2 DEF Positions
<1> QED  BY <1>3 DEF Group, s

-----------------------------------------------------------------------------
(* Page-walk caches *)

\* The tags a walk may ask for.
LEMMA EntryIsNat ==
  ASSUME NEW k \in PwcLevels \cup {"pt"}, NEW page \in Nat
  PROVE  Entry(k, page) \in Nat
<1>1. TableSize * TableSize \in Nat \ {0} /\ TableSize * TableSize * TableSize \in Nat \ {0}
  <2>1. \A x, y \in Nat \ {0} : x * y \in Nat \ {0}  OBVIOUS
  <2> QED  BY <2>1, SizesType
<1>2. Span[k] \in Nat \ {0}  BY <1>1, SizesType DEF Span, PwcLevels
<1>3. \A x \in Nat, y \in Nat \ {0} : x \div y \in Nat  OBVIOUS
<1> QED  BY <1>2, <1>3 DEF Entry

LEMMA UsableTagsNat == UsableTags \subseteq Nat
<1>1. \A k \in PwcLevels, page \in Pages : Entry(k, page) \in Nat  BY SizesType, EntryIsNat
<1>2. Garbage \subseteq Nat  BY SizesType
<1>3. SUFFICES ASSUME NEW t \in UsableTags PROVE t \in Nat  OBVIOUS
<1>4. CASE t \in Garbage  BY <1>2, <1>4
<1>5. CASE \E k \in PwcLevels, page \in Pages : t = Entry(k, page)
  <2>1. PICK k \in PwcLevels, page \in Pages : t = Entry(k, page)  BY <1>5
  <2> QED  BY <1>1, <2>1
<1> QED  BY <1>3, <1>4, <1>5 DEF UsableTags

\* The two positions are searched together for a victim.
Together(k, p, q) == k = "pd" => p[1] = q[1]

\* A page-walk cache f of level k, when the walk `now` has been and u is the last use
\* of each tag: it is typed; what is not used is as it was at the start and behind
\* what is used; used entries have the stamp of their tag, no two the same tag or
\* stamp; and a tag that is not there is older than all its group holds.
PwcTyped(k, f, u, now) ==
  /\ f \in [Positions(k) -> [tag : UsableTags \cup {0}, lru : 0 .. now]]
  /\ u \in [UsableTags -> 0 .. now]
Unused(k, f) ==
  /\ \A p \in Positions(k) : f[p].lru = 0 => f[p].tag = 0
  /\ \A p, q \in Positions(k) :
       Together(k, p, q) /\ f[p].lru > 0 /\ f[q].lru = 0 => Before(p, q)
Stamped(k, f, u) ==
  \A p \in Positions(k) : f[p].lru > 0 =>
    /\ f[p].tag \in UsableTags /\ p \in Group(k, f[p].tag) /\ f[p].lru = u[f[p].tag]
OneEach(k, f) ==
  \A p, q \in Positions(k) :
    f[p].lru > 0 /\ f[q].lru > 0 /\ (f[p].tag = f[q].tag \/ f[p].lru = f[q].lru) => p = q
GoneIsOlder(k, f, u) ==
  \A t \in UsableTags :
    u[t] > 0 /\ (\A p \in Positions(k) : f[p].lru > 0 => f[p].tag # t)
    => \A p \in Group(k, t) : f[p].lru > u[t]

PwcOK(k, f, u, now) ==
  /\ PwcTyped(k, f, u, now) /\ Unused(k, f) /\ Stamped(k, f, u) /\ OneEach(k, f)
  /\ GoneIsOlder(k, f, u)

\* The entry a walk with tag s takes at level k.
Same(k, f, s) == {p \in Group(k, s) : f[p].tag = s}
Oldest(k, f, s) == {p \in Group(k, s) : \A q \in Group(k, s) : f[p].lru =< f[q].lru}
Chosen(k, f, s) == FirstOf(IF Same(k, f, s) # {} THEN Same(k, f, s) ELSE Oldest(k, f, s))

\* What is known of the entry taken: a tag in use is found where it is, and otherwise
\* the oldest entry of the group goes, unused ones first and in their order.
Takes(k, f, s, c) ==
  /\ c \in Group(k, s) /\ c \in Positions(k)
  /\ \A p \in Positions(k) : f[p].lru > 0 /\ f[p].tag = s => p = c
  /\ f[c].lru = 0 => \A q \in Group(k, s) : f[q].lru = 0 => Before(c, q)
  /\ f[c].tag # s => \A q \in Group(k, s) : f[c].lru =< f[q].lru

LEMMA ChosenTakes ==
  ASSUME NEW k \in PwcLevels, NEW f, NEW u, NEW now \in Nat, PwcOK(k, f, u, now),
         NEW s \in UsableTags
  PROVE  Takes(k, f, s, Chosen(k, f, s))
<1> DEFINE G == Group(k, s)
           c == Chosen(k, f, s)
<1>1. s \in Nat  BY UsableTagsNat
<1>2. G \subseteq Positions(k) /\ G # {}  BY <1>1, GroupFacts
<1>3. \A p \in Positions(k) : f[p].lru \in 0 .. now /\ f[p].tag \in UsableTags \cup {0}
  BY DEF PwcOK, PwcTyped
<1>4. \A p \in Positions(k) : f[p].lru > 0 /\ f[p].tag = s => p \in Same(k, f, s)
  BY DEF PwcOK, Stamped, Same
<1>5. \A p, q \in G : Together(k, p, q)  BY DEF Together, Group
<1>6. CASE Same(k, f, s) # {}
  <2>1. Same(k, f, s) \subseteq Positions(k)  BY <1>2 DEF Same
  <2>2. c \in Same(k, f, s) /\ \A q \in Same(k, f, s) : Before(c, q)
    BY <1>6, <2>1, FirstOfIs DEF Chosen
  <2> HIDE DEF c
  <2>3. c \in G /\ f[c].tag = s /\ c \in Positions(k)  BY <1>2, <2>2 DEF Same
  <2>4. ASSUME NEW p \in Positions(k), f[p].lru > 0, f[p].tag = s
        PROVE  p = c
    <3>1. p \in Same(k, f, s) /\ p \in G  BY <1>4, <2>4 DEF Same
    <3>2. CASE f[c].lru > 0  BY <2>3, <2>4, <3>2 DEF PwcOK, OneEach
    <3>3. CASE f[c].lru = 0
      <4>1. Before(p, c)  BY <1>5, <2>3, <2>4, <3>1, <3>3 DEF PwcOK, Unused
      <4>2. Before(c, p)  BY <2>2, <3>1
      <4> QED  BY <2>3, <4>1, <4>2, BeforeFacts
    <3> QED  BY <1>3, <2>3, <3>2, <3>3
  <2>5. ASSUME f[c].lru = 0, NEW q \in G, f[q].lru = 0
        PROVE  Before(c, q)
    <3>1. f[c].tag = 0 /\ f[q].tag = 0  BY <1>2, <2>3, <2>5 DEF PwcOK, Unused
    <3>2. q \in Same(k, f, s)  BY <2>3, <2>5, <3>1 DEF Same
    <3> QED  BY <2>2, <3>2
  <2> QED  BY <2>3, <2>4, <2>5 DEF Takes, c
<1>7. CASE Same(k, f, s) = {}
  <2>1. Oldest(k, f, s) \subseteq Positions(k) /\ Oldest(k, f, s) # {}
    <3> DEFINE L == {f[p].lru : p \in G}
    <3>1. L # {} /\ \A x \in L : x \in Nat  BY <1>2, <1>3
    <3> HIDE DEF L
    <3>2. PICK x \in L : \A y \in L : x <= y  BY <3>1, LeastNat
    <3>3. PICK p \in G : x = f[p].lru  BY <3>2 DEF L
    <3>4. \A q \in G : f[p].lru =< f[q].lru  BY <3>2, <3>3 DEF L
    <3> QED  BY <1>2, <3>4 DEF Oldest
  <2>2. c \in Oldest(k, f, s) /\ \A q \in Oldest(k, f, s) : Before(c, q)
    BY <1>7, <2>1, FirstOfIs DEF Chosen
  <2> HIDE DEF c
  <2>3. c \in G /\ c \in Positions(k) /\ \A q \in G : f[c].lru =< f[q].lru
    BY <1>2, <2>2 DEF Oldest
  <2>4. ASSUME f[c].lru = 0, NEW q \in G, f[q].lru = 0
        PROVE  Before(c, q)
    <3>1. \A r \in G : f[q].lru =< f[r].lru  BY <1>2, <1>3, <2>4
    <3>2. q \in Oldest(k, f, s)  BY <3>1 DEF Oldest
    <3> QED  BY <2>2, <3>2
  <2> QED  BY <1>4, <1>7, <2>3, <2>4 DEF Takes, c
<1> QED  BY <1>6, <1>7

\* The cache and the last uses after the walk `now` took entry c for tag s.
Taken(f, c, s, now) == [f EXCEPT ![c] = [tag |-> s, lru |-> now]]

LEMMA PwcStep ==
  ASSUME NEW k \in PwcLevels, NEW f, NEW u, NEW now \in Nat, PwcOK(k, f, u, now),
         NEW s \in UsableTags, NEW c, Takes(k, f, s, c)
  PROVE  PwcOK(k, Taken(f, c, s, now + 1), [u EXCEPT ![s] = now + 1], now + 1)
<1> DEFINE n == now + 1
           g == Taken(f, c, s, n)
           v == [u EXCEPT ![s] = n]
<1>0. now + 1 \in Nat /\ now + 1 > 0 /\ now + 1 > now  OBVIOUS
<1> HIDE DEF n
<1>1. n \in Nat /\ n > 0 /\ n > now  BY <1>0 DEF n
<1>2. /\ c \in Group(k, s) /\ c \in Positions(k)
      /\ \A p \in Positions(k) : f[p].lru > 0 /\ f[p].tag = s => p = c
      /\ f[c].lru = 0 => \A q \in Group(k, s) : f[q].lru = 0 => Before(c, q)
      /\ f[c].tag # s => \A q \in Group(k, s) : f[c].lru =< f[q].lru
  BY DEF Takes
<1>3. /\ f \in [Positions(k) -> [tag : UsableTags \cup {0}, lru : 0 .. now]]
      /\ u \in [UsableTags -> 0 .. now]
      /\ \A p \in Positions(k) : f[p].lru \in 0 .. now /\ f[p].lru \in Nat
      /\ \A t \in UsableTags : u[t] \in 0 .. now /\ u[t] \in Nat
  BY DEF PwcOK, PwcTyped
<1>4. /\ g[c].tag = s /\ g[c].lru = n
      /\ \A p \in Positions(k) : p # c => g[p] = f[p]
      /\ v[s] = n /\ \A t \in UsableTags : t # s => v[t] = u[t]
  BY <1>2, <1>3 DEF Taken
<1>5. PwcTyped(k, g, v, n)
  <2>1. 0 .. now \subseteq 0 .. n /\ n \in 0 .. n  BY <1>1
  <2>2. [tag |-> s, lru |-> n] \in [tag : UsableTags \cup {0}, lru : 0 .. n]  BY <2>1
  <2>3. g \in [Positions(k) -> [tag : UsableTags \cup {0}, lru : 0 .. n]]
    BY <1>3, <2>1, <2>2 DEF Taken
  <2>4. v \in [UsableTags -> 0 .. n]  BY <1>3, <2>1
  <2> QED  BY <2>3, <2>4 DEF PwcTyped
<1> HIDE DEF g, v
<1>6. Unused(k, g)
  <2>1. \A p \in Positions(k) : g[p].lru = 0 => g[p].tag = 0
    BY <1>1, <1>4 DEF PwcOK, Unused
  <2>2. ASSUME NEW p \in Positions(k), NEW q \in Positions(k), Together(k, p, q),
               g[p].lru > 0, g[q].lru = 0
        PROVE  Before(p, q)
    <3>1. q # c /\ f[q].lru = 0  BY <1>1, <1>4, <2>2
    <3>2. CASE f[p].lru > 0  BY <2>2, <3>1, <3>2 DEF PwcOK, Unused
    <3>3. CASE f[p].lru = 0
      <4>1. p = c  BY <1>4, <2>2, <3>3
      <4>2. q \in Group(k, s)  BY <1>2, <2>2, <4>1 DEF Together, Group
      <4> QED  BY <1>2, <3>1, <3>3, <4>1, <4>2
    <3> QED  BY <1>3, <3>2, <3>3
  <2> QED  BY <2>1, <2>2 DEF Unused
<1>7. Stamped(k, g, v)
  BY <1>2, <1>4 DEF PwcOK, Stamped
<1>8. OneEach(k, g)
  <2> SUFFICES ASSUME NEW p \in Positions(k), NEW q \in Positions(k), g[p].lru > 0, g[q].lru > 0,
                      g[p].tag = g[q].tag \/ g[p].lru = g[q].lru
               PROVE  p = q
    BY DEF OneEach
  <2>1. CASE p # c /\ q # c  BY <1>4, <2>1 DEF PwcOK, OneEach
  <2>2. \A r \in Positions(k) : r # c => g[r].lru # n /\ (g[r].lru > 0 => g[r].tag # s)
    BY <1>1, <1>2, <1>3, <1>4
  <2> QED  BY <1>4, <2>1, <2>2
<1>9. GoneIsOlder(k, g, v)
  <2> SUFFICES ASSUME NEW t \in UsableTags, v[t] > 0,
                      \A p \in Positions(k) : g[p].lru > 0 => g[p].tag # t,
                      NEW p \in Group(k, t)
               PROVE  g[p].lru > v[t]
    BY DEF GoneIsOlder
  <2>1. t # s  BY <1>1, <1>2, <1>4
  <2>2. v[t] = u[t] /\ u[t] \in 0 .. now /\ p \in Positions(k)  BY <1>3, <1>4, <2>1 DEF Group
  <2>3. CASE p = c  BY <1>1, <1>4, <2>2, <2>3
  <2>4. CASE p # c
    <3>1. g[p] = f[p]  BY <1>4, <2>2, <2>4
    <3>2. CASE f[c].lru > 0 /\ f[c].tag = t
      <4>1. u[t] = f[c].lru /\ c \in Group(k, t)  BY <1>2, <3>2 DEF PwcOK, Stamped
      <4>2. p \in Group(k, s)  BY <1>2, <2>2, <4>1 DEF Group
      <4>3. f[c].lru =< f[p].lru  BY <1>2, <2>1, <3>2, <4>2
      <4>4. f[c].lru # f[p].lru
        BY <1>2, <1>3, <2>2, <2>4, <3>2, <4>3 DEF PwcOK, OneEach
      <4> QED  BY <1>2, <1>3, <2>2, <3>1, <4>1, <4>3, <4>4
    <3>3. CASE ~(f[c].lru > 0 /\ f[c].tag = t)
      <4>1. \A q \in Positions(k) : f[q].lru > 0 => f[q].tag # t  BY <1>4, <3>3
      <4>2. f[p].lru > u[t]  BY <2>2, <4>1 DEF PwcOK, GoneIsOlder
      <4> QED  BY <2>2, <3>1, <4>2
    <3> QED  BY <3>2, <3>3
  <2> QED  BY <2>3, <2>4
<1> QED  BY <1>5, <1>6, <1>7, <1>8, <1>9 DEF PwcOK, g, v, n

-----------------------------------------------------------------------------
(* All page-walk caches, in all steps *)

PwcInv ==
  /\ mmu_timer \in Nat
  /\ DOMAIN pwc = PwcLevels /\ DOMAIN lastUse = PwcLevels
  /\ \A k \in PwcLevels : PwcOK(k, pwc[k], lastUse[k], mmu_timer)

LEMMA UsePwcStep ==
  ASSUME PwcInv, NEW tags, \A k \in PwcLevels : tags[k] \in UsableTags, UsePwc(tags)
  PROVE  PwcInv'
<1>1. mmu_timer \in Nat /\ mmu_timer' = mmu_timer + 1  BY DEF PwcInv, UsePwc
<1>2. ASSUME NEW k \in PwcLevels
      PROVE  PwcOK(k, pwc'[k], lastUse'[k], mmu_timer + 1)
  <2> DEFINE f == pwc[k]
             u == lastUse[k]
             s == tags[k]
             c == Chosen(k, f, s)
  <2>1. PwcOK(k, f, u, mmu_timer) /\ s \in UsableTags  BY DEF PwcInv
  <2>2. pwc'[k] = Taken(f, c, s, mmu_timer + 1)
    BY <1>1 DEF UsePwc, Touch, Taken, Chosen, Same, Oldest
  <2>3. lastUse'[k] = [u EXCEPT ![s] = mmu_timer + 1]  BY <1>1 DEF UsePwc
  <2> HIDE DEF f, u, s, c
  <2>4. Takes(k, f, s, c)  BY <1>1, <2>1, ChosenTakes DEF c
  <2>5. PwcOK(k, Taken(f, c, s, mmu_timer + 1), [u EXCEPT ![s] = mmu_timer + 1], mmu_timer + 1)
    BY <1>1, <2>1, <2>4, PwcStep
  <2> QED  BY <2>2, <2>3, <2>5
<1>3. DOMAIN pwc' = PwcLevels /\ DOMAIN lastUse' = PwcLevels  BY DEF UsePwc
<1> QED  BY <1>1, <1>2, <1>3 DEF PwcInv

LEMMA StepPwcInv ==
  ASSUME PwcInv, [Next]_vars
  PROVE  PwcInv'
<1>1. ASSUME NEW page \in Pages PROVE \A k \in PwcLevels : Tags(page)[k] \in UsableTags
  BY DEF Tags, UsableTags
<1>2. ASSUME NEW page \in Pages, NEW magic \in BOOLEAN, Walk(page, magic)
      PROVE  PwcInv'
  BY <1>1, <1>2, UsePwcStep DEF Walk
<1>3. ASSUME NEW page \in Pages, Swap(page)
      PROVE  PwcInv'
  BY <1>1, <1>3, UsePwcStep DEF Swap
<1>4. ASSUME NEW page \in Pages, PrefetchWalk(page)
      PROVE  PwcInv'
  <2>1. PICK tags \in [PwcLevels -> Garbage] : UsePwc(tags)  BY <1>4 DEF PrefetchWalk
  <2>2. \A k \in PwcLevels : tags[k] \in UsableTags  BY DEF UsableTags
  <2> QED  BY <2>1, <2>2, UsePwcStep
<1>5. CASE UNCHANGED <<pwc, mmu_timer, lastUse>>  BY <1>5 DEF PwcInv
<1> QED  BY <1>2, <1>3, <1>4, <1>5 DEF Next, DataFill, ResetCacheStats, vars

LEMMA InitPwcInv ==
  ASSUME Init
  PROVE  PwcInv
<1>1. ASSUME NEW k \in PwcLevels
      PROVE  PwcOK(k, pwc[k], lastUse[k], mmu_timer)
  <2> DEFINE f == pwc[k]
             u == lastUse[k]
  <2>1. mmu_timer = 0 /\ 0 \in 0 .. 0  BY DEF Init
  <2>2. f = [p \in Positions(k) |-> [tag |-> 0, lru |-> 0]] /\ u = [t \in UsableTags |-> 0]
    BY DEF Init
  <2>3. \A p \in Positions(k) : f[p].lru = 0 /\ f[p].tag = 0  BY <2>2
  <2>4. \A t \in UsableTags : u[t] = 0  BY <2>2
  <2>5. PwcTyped(k, f, u, mmu_timer)  BY <2>1, <2>2 DEF PwcTyped
  <2> HIDE DEF f, u
  <2>6. Unused(k, f) /\ Stamped(k, f, u) /\ OneEach(k, f) /\ GoneIsOlder(k, f, u)
    BY <2>3, <2>4 DEF Unused, Stamped, OneEach, GoneIsOlder
  <2> QED  BY <2>5, <2>6 DEF PwcOK, f, u
<1> QED  BY <1>1 DEF Init, PwcInv

\* The page-walk caches keep their invariant in every reachable state.
THEOREM PwcInductive == Spec => []PwcInv
<1>1. Init => PwcInv  BY InitPwcInv
<1>2. PwcInv /\ [Next]_vars => PwcInv'  BY StepPwcInv
<1> QED  BY <1>1, <1>2, PTL DEF Spec

\* The page-walk caches hold the tags their groups used last, whatever the tags that
\* the prefetch walks read from uninitialised variables - tag 0 included, which the
\* entries that were never used hold too.
THEOREM PwcIsLruCorrect == Spec => []PwcIsLru
<1>1. ASSUME PwcInv PROVE PwcIsLru
  <2> SUFFICES ASSUME NEW k \in PwcLevels
               PROVE  LET used == {p \in Positions(k) : pwc[k][p].lru > 0} IN
                      /\ \A p \in used : pwc[k][p].lru = lastUse[k][pwc[k][p].tag]
                      /\ \A p, q \in used : pwc[k][p].tag = pwc[k][q].tag => p = q
                      /\ \A t \in UsableTags :
                           lastUse[k][t] > 0 /\ (\A p \in used : pwc[k][p].tag # t)
                           => \A p \in Group(k, t) : pwc[k][p].lru > lastUse[k][t]
    BY DEF PwcIsLru
  <2>1. PwcOK(k, pwc[k], lastUse[k], mmu_timer)  BY <1>1 DEF PwcInv
  <2> QED  BY <2>1 DEF PwcOK, Stamped, OneEach, GoneIsOlder
<1> QED  BY <1>1, PwcInductive, PTL

-----------------------------------------------------------------------------
(* Histograms and their totals *)

Histograms == [1 .. LineEntries -> Nat]

\* f is the sequence of partial sums of h up to n.
PartialSums(f, h, n) ==
  f \in [0 .. n -> Nat] /\ f[0] = 0 /\ \A i \in 1 .. n : f[i] = f[i - 1] + h[i]

\* Every histogram has its partial sums.
LEMMA PartialSumsExist ==
  ASSUME NEW h \in Histograms, NEW n \in 0 .. LineEntries
  PROVE  \E f : PartialSums(f, h, n)
<1> DEFINE S == {m \in 0 .. LineEntries : ~ \E f : PartialSums(f, h, m)}
<1>0. LineEntries \in Nat  BY SizesType
<1>1. SUFFICES S = {}  OBVIOUS
<1>2. SUFFICES ASSUME S # {} PROVE FALSE  OBVIOUS
<1>3. PICK m \in S : \A k \in S : m <= k
  <2>1. \A x \in S : x \in Nat  OBVIOUS
  <2> HIDE DEF S
  <2> QED  BY <1>2, <2>1, LeastNat
<1>4. m # 0
  <2> DEFINE z == [i \in 0 .. 0 |-> 0]
  <2>1. z \in [0 .. 0 -> Nat] /\ z[0] = 0 /\ 1 .. 0 = {}  BY <1>0
  <2>2. PartialSums(z, h, 0)  BY <2>1 DEF PartialSums
  <2> QED  BY <2>2
<1>5. m \in Nat /\ m - 1 \in 0 .. LineEntries /\ m - 1 \notin S  BY <1>0, <1>3, <1>4
<1>6. PICK f : PartialSums(f, h, m - 1)  BY <1>5
<1> DEFINE g == [i \in 0 .. m |-> IF i = m THEN f[m - 1] + h[m] ELSE f[i]]
<1>7. h[m] \in Nat /\ \A i \in 0 .. m - 1 : f[i] \in Nat
  BY <1>0, <1>4, <1>5, <1>6 DEF PartialSums, Histograms
<1>8. g \in [0 .. m -> Nat]  BY <1>4, <1>5, <1>7
<1>9. g[0] = 0  BY <1>4, <1>5, <1>6 DEF PartialSums
<1>10. \A i \in 1 .. m : g[i] = g[i - 1] + h[i]  BY <1>4, <1>5, <1>6 DEF PartialSums
<1>11. PartialSums(g, h, m)  BY <1>8, <1>9, <1>10 DEF PartialSums
<1> QED  BY <1>3, <1>11

\* The recursive function in Total computes them.
LEMMA TotalIs ==
  ASSUME NEW h \in Histograms
  PROVE  \E f : PartialSums(f, h, LineEntries) /\ Total(h) = f[LineEntries]
<1> DEFINE IsSum(f) == f = [n \in 0 .. LineEntries |-> IF n = 0 THEN 0 ELSE f[n - 1] + h[n]]
           s == CHOOSE f : IsSum(f)
<1>0. LineEntries \in Nat  BY SizesType
<1>1. PICK f : PartialSums(f, h, LineEntries)  BY <1>0, PartialSumsExist
<1>2. IsSum(f)
  <2>1. f = [n \in 0 .. LineEntries |-> f[n]]  BY <1>1 DEF PartialSums
  <2>2. \A n \in 0 .. LineEntries : f[n] = IF n = 0 THEN 0 ELSE f[n - 1] + h[n]
    BY <1>0, <1>1 DEF PartialSums
  <2> QED  BY <2>1, <2>2
<1>3. Total(h) = s[LineEntries]  BY DEF Total
<1>4. IsSum(s)  BY <1>2
<1>5. \A n \in 0 .. LineEntries : s[n] = IF n = 0 THEN 0 ELSE s[n - 1] + h[n]
  BY <1>4
<1>6. DOMAIN s = 0 .. LineEntries  BY <1>4
<1> HIDE DEF s, IsSum
<1> DEFINE S == {n \in 0 .. LineEntries : s[n] # f[n]}
<1>7. S = {}
  <2> SUFFICES ASSUME S # {} PROVE FALSE  OBVIOUS
  <2>1. PICK m \in S : \A k \in S : m <= k
    <3>1. \A x \in S : x \in Nat  OBVIOUS
    <3> HIDE DEF S
    <3> QED  BY <3>1, LeastNat
  <2>2. m # 0  BY <1>0, <1>1, <1>5 DEF PartialSums
  <2>3. m \in 1 .. LineEntries /\ m - 1 \in 0 .. LineEntries /\ m - 1 \notin S
    BY <1>0, <2>1, <2>2
  <2>4. s[m] = s[m - 1] + h[m] /\ f[m] = f[m - 1] + h[m] /\ s[m - 1] = f[m - 1]
    BY <1>1, <1>5, <2>2, <2>3 DEF PartialSums
  <2> QED  BY <2>1, <2>4
<1>8. s[LineEntries] = f[LineEntries]  BY <1>0, <1>7
<1> QED  BY <1>1, <1>3, <1>8

\* A total is a number.
LEMMA TotalNat ==
  ASSUME NEW h \in Histograms
  PROVE  Total(h) \in Nat
<1>1. LineEntries \in Nat  BY SizesType
<1>2. PICK f : PartialSums(f, h, LineEntries) /\ Total(h) = f[LineEntries]  BY TotalIs
<1> QED  BY <1>1, <1>2 DEF PartialSums

\* An empty histogram.
LEMMA TotalZero == Total([n \in 1 .. LineEntries |-> 0]) = 0
<1> DEFINE h == [n \in 1 .. LineEntries |-> 0]
<1>0. LineEntries \in Nat  BY SizesType
<1>1. h \in Histograms /\ \A n \in 1 .. LineEntries : h[n] = 0  BY DEF Histograms
<1> HIDE DEF h
<1>2. PICK f : PartialSums(f, h, LineEntries) /\ Total(h) = f[LineEntries]  BY <1>1, TotalIs
<1> DEFINE S == {n \in 0 .. LineEntries : f[n] # 0}
<1>3. S = {}
  <2> SUFFICES ASSUME S # {} PROVE FALSE  OBVIOUS
  <2>1. PICK m \in S : \A k \in S : m <= k
    <3>1. \A x \in S : x \in Nat  OBVIOUS
    <3> HIDE DEF S
    <3> QED  BY <3>1, LeastNat
  <2>2. m # 0  BY <1>0, <1>2 DEF PartialSums
  <2>3. m \in 1 .. LineEntries /\ m - 1 \in 0 .. LineEntries /\ m - 1 \notin S
    BY <1>0, <2>1, <2>2
  <2>4. f[m] = f[m - 1] + h[m] /\ h[m] = 0 /\ f[m - 1] = 0
    BY <1>1, <1>2, <2>3 DEF PartialSums
  <2> QED  BY <2>1, <2>4
<1>4. f[LineEntries] = 0  BY <1>0, <1>3
<1> QED  BY <1>2, <1>4 DEF h

\* One more footprint of size k: 0 is not in the histogram.
OneMore(h, k) == [n \in DOMAIN h |-> IF n = k THEN h[n] + 1 ELSE h[n]]

\* It adds one to the total.
LEMMA TotalOneMore ==
  ASSUME NEW h \in Histograms, NEW k \in 0 .. LineEntries
  PROVE  /\ OneMore(h, k) \in Histograms
         /\ Total(OneMore(h, k)) = Total(h) + IF k = 0 THEN 0 ELSE 1
<1> DEFINE g == OneMore(h, k)
<1>0. LineEntries \in Nat  BY SizesType
<1>1. g \in Histograms /\ \A n \in 1 .. LineEntries : g[n] = IF n = k THEN h[n] + 1 ELSE h[n]
  BY DEF Histograms, OneMore
<1> HIDE DEF g
<1>2. PICK f : PartialSums(f, h, LineEntries) /\ Total(h) = f[LineEntries]  BY TotalIs
<1>3. PICK e : PartialSums(e, g, LineEntries) /\ Total(g) = e[LineEntries]  BY <1>1, TotalIs
<1> DEFINE Extra(n) == IF k # 0 /\ k <= n THEN 1 ELSE 0
           S == {n \in 0 .. LineEntries : e[n] # f[n] + Extra(n)}
<1>4. S = {}
  <2> SUFFICES ASSUME S # {} PROVE FALSE  OBVIOUS
  <2>1. PICK m \in S : \A j \in S : m <= j
    <3>1. \A x \in S : x \in Nat  OBVIOUS
    <3> HIDE DEF S
    <3> QED  BY <3>1, LeastNat
  <2>2. m # 0  BY <1>0, <1>2, <1>3 DEF PartialSums
  <2>3. m \in 1 .. LineEntries /\ m - 1 \in 0 .. LineEntries /\ m - 1 \notin S
    BY <1>0, <2>1, <2>2
  <2>4. f[m] = f[m - 1] + h[m] /\ e[m] = e[m - 1] + g[m]
    BY <1>2, <1>3, <2>3 DEF PartialSums
  <2>5. f[m - 1] \in Nat /\ h[m] \in Nat  BY <1>2, <2>3 DEF PartialSums, Histograms
  <2>6. e[m - 1] = f[m - 1] + Extra(m - 1)  BY <2>3
  <2>7. g[m] = IF m = k THEN h[m] + 1 ELSE h[m]  BY <1>1, <2>3
  <2>8. e[m] = f[m] + Extra(m)  BY <2>3, <2>4, <2>5, <2>6, <2>7
  <2> QED  BY <2>1, <2>8
<1>5. e[LineEntries] = f[LineEntries] + Extra(LineEntries)  BY <1>0, <1>4
<1>6. Extra(LineEntries) = IF k = 0 THEN 0 ELSE 1  BY <1>0
<1> QED  BY <1>1, <1>2, <1>3, <1>5, <1>6 DEF g

-----------------------------------------------------------------------------
(* Blocks *)

Rows == {f \in [Caches -> UNION {[1 .. Ways[c] -> BlockType] : c \in Caches}] :
           \A c \in Caches : f[c] \in [1 .. Ways[c] -> BlockType]}
MemType == [cache : Rows, footprint : [Caches -> Histograms], begun : [Caches -> Nat]]

Lines == {Line(level, page) : level \in Levels, page \in Pages}
         \cup {DataLine(frame) : frame \in Frames}

\* What a walk of the level leaves in the footprint of the entry's line.
Left(level, offset) == IF level = "pt" THEN {offset} ELSE {}

\* The block that Overwrite and Mark leave.
Fresh(line) == [line |-> line, ptw_level |-> NoLevel, footprint |-> {}, seen |-> {}]
Marked(b, level, offset) ==
  [line |-> b.line, ptw_level |-> level, footprint |-> b.footprint \cup Left(level, offset),
   seen |-> b.seen]

\* n is m with the block of way w of cache c replaced by b.
Replaces(m, n, c, w, b) ==
  \A d \in Caches : \A v \in 1 .. Ways[d] :
    n.cache[d][v] = IF d = c /\ v = w THEN b ELSE m.cache[d][v]

\* The types of the parts.
LEMMA BlockFacts ==
  ASSUME NEW m \in MemType, NEW c \in Caches
  PROVE  /\ DOMAIN m.cache[c] = 1 .. Ways[c] /\ Ways[c] \in Nat \ {0}
         /\ \A w \in 1 .. Ways[c] : m.cache[c][w] \in BlockType
         /\ m.footprint[c] \in Histograms /\ m.begun[c] \in Nat
BY PageWalkAssumption DEF MemType, Rows

LEMMA FreshType ==
  ASSUME NEW line \in Lines \cup {NoLine}
  PROVE  Fresh(line) \in BlockType
BY DEF Fresh, BlockType, Lines

LEMMA OffsetType ==
  ASSUME NEW page \in Pages
  PROVE  Offset(page) \in 0 .. LineEntries - 1
<1>1. page \in Nat /\ LineEntries \in Nat \ {0}  BY SizesType
<1> QED  BY <1>1 DEF Offset

LEMMA MarkedType ==
  ASSUME NEW b \in BlockType, NEW level \in Levels, NEW o \in 0 .. LineEntries - 1
  PROVE  Marked(b, level, o) \in BlockType
BY DEF Marked, BlockType, Left

\* One block of one cache gets another value.
Swapped(old, new, c, w, b) ==
  \A d \in Caches : \A v \in 1 .. Ways[d] :
    new[d][v] = IF d = c /\ v = w THEN b ELSE old[d][v]

LEMMA RowStep ==
  ASSUME NEW m \in MemType, NEW c \in Caches, NEW w \in 1 .. Ways[c], NEW b \in BlockType,
         NEW rows, rows = [m.cache EXCEPT ![c][w] = b]
  PROVE  rows \in Rows /\ Swapped(m.cache, rows, c, w, b)
<1> DEFINE old == m.cache
<1>1. old \in Rows  BY DEF MemType
<1> HIDE DEF old
<1>2. DOMAIN old = Caches /\ \A d \in Caches : old[d] \in [1 .. Ways[d] -> BlockType]
  BY <1>1 DEF Rows
<1>3. DOMAIN rows = Caches /\ \A d \in Caches : rows[d] = IF d = c THEN [old[c] EXCEPT ![w] = b] ELSE old[d]
  BY <1>2 DEF old
<1>4. ASSUME NEW d \in Caches PROVE rows[d] \in [1 .. Ways[d] -> BlockType]
  <2>1. CASE d = c
    <3>1. old[c] \in [1 .. Ways[c] -> BlockType]  BY <1>2
    <3>2. [old[c] EXCEPT ![w] = b] \in [1 .. Ways[c] -> BlockType]  BY <3>1
    <3> QED  BY <1>3, <2>1, <3>2
  <2>2. CASE d # c  BY <1>2, <1>3, <2>2
  <2> QED  BY <2>1, <2>2
<1>5. rows \in Rows
  <2>1. rows = [d \in Caches |-> rows[d]]  BY <1>3
  <2>2. \A d \in Caches : rows[d] \in UNION {[1 .. Ways[e] -> BlockType] : e \in Caches}  BY <1>4
  <2>3. rows \in [Caches -> UNION {[1 .. Ways[e] -> BlockType] : e \in Caches}]
    BY <2>1, <2>2
  <2> QED  BY <1>4, <2>3 DEF Rows
<1>6. \A d \in Caches : \A v \in 1 .. Ways[d] :
        rows[d][v] = IF d = c /\ v = w THEN b ELSE old[d][v]
  BY <1>2, <1>3
<1> QED  BY <1>5, <1>6 DEF old, Swapped

\* A footprint counts as its size, which is 0 when there is none.
LEMMA FootprintSize ==
  ASSUME NEW F \in SUBSET (0 .. LineEntries - 1)
  PROVE  /\ IsFiniteSet(F) /\ Cardinality(F) \in 0 .. LineEntries
         /\ Cardinality(F) = 0 <=> F = {}
<1>1. LineEntries \in Nat \ {0}  BY SizesType
<1>2. 0 \in Int /\ LineEntries - 1 \in Int  BY <1>1
<1>3. IsFiniteSet(0 .. LineEntries - 1)
      /\ Cardinality(0 .. LineEntries - 1) = IF 0 > LineEntries - 1 THEN 0 ELSE LineEntries - 1 - 0 + 1
  BY <1>2, FS_Interval, Zenon
<1>4. Cardinality(0 .. LineEntries - 1) = LineEntries  BY <1>1, <1>3
<1>5. IsFiniteSet(F) /\ Cardinality(F) <= Cardinality(0 .. LineEntries - 1)
  BY <1>3, FS_Subset
<1>6. Cardinality(F) \in Nat  BY <1>5, FS_CardinalityType
<1>7. Cardinality(F) = 0 <=> F = {}  BY <1>5, FS_EmptySet
<1> QED  BY <1>1, <1>4, <1>5, <1>6, <1>7

\* The total of cache d after a block with footprint F of cache c is recorded.
Recorded(m, n, c, F) ==
  \A d \in Caches :
    Total(n.footprint[d]) = Total(m.footprint[d]) + IF d = c /\ F # {} THEN 1 ELSE 0

LEMMA OverwriteIs ==
  ASSUME NEW m \in MemType, NEW c \in Caches, NEW w \in 1 .. Ways[c],
         NEW line \in Lines \cup {NoLine}, NEW n, n = Overwrite(m, c, w, line)
  PROVE  /\ n \in MemType /\ Replaces(m, n, c, w, Fresh(line)) /\ n.begun = m.begun
         /\ Recorded(m, n, c, m.cache[c][w].footprint)
<1> DEFINE F == m.cache[c][w].footprint
           k == Cardinality(F)
           rows == [m.cache EXCEPT ![c][w] = Fresh(line)]
           hist == [m.footprint EXCEPT ![c] = OneMore(m.footprint[c], k)]
<1>1. F \in SUBSET (0 .. LineEntries - 1)  BY BlockFacts DEF BlockType
<1>2. k \in 0 .. LineEntries /\ (k = 0 <=> F = {})  BY <1>1, FootprintSize
<1>3. n = [cache |-> rows, footprint |-> hist, begun |-> m.begun]
  <2>1. [EmptyBlock EXCEPT !.line = line] = Fresh(line)  BY DEF EmptyBlock, Fresh
  <2>2. n = [m EXCEPT !.cache[c][w] = Fresh(line), !.footprint[c] = OneMore(m.footprint[c], k)]
    BY <2>1 DEF Overwrite, OneMore
  <2>3. n = [m EXCEPT !.cache = rows, !.footprint = hist]  BY <2>2
  <2> QED  BY <2>3 DEF MemType
<1>4. m.footprint \in [Caches -> Histograms] /\ m.begun \in [Caches -> Nat]  BY DEF MemType
<1> HIDE DEF k, F
<1>5. /\ OneMore(m.footprint[c], k) \in Histograms
      /\ Total(OneMore(m.footprint[c], k)) = Total(m.footprint[c]) + IF k = 0 THEN 0 ELSE 1
  BY <1>2, <1>4, TotalOneMore
<1>6. \A d \in Caches : Total(m.footprint[d]) \in Nat  BY <1>4, TotalNat
<1> DEFINE G == OneMore(m.footprint[c], k)
<1>7. hist = [m.footprint EXCEPT ![c] = G]  OBVIOUS
<1> HIDE DEF G
<1>8. hist \in [Caches -> Histograms]
      /\ \A d \in Caches : hist[d] = IF d = c THEN G ELSE m.footprint[d]
  BY <1>4, <1>5, <1>7 DEF G
<1> HIDE DEF hist
<1>9. \A d \in Caches :
        Total(hist[d]) = Total(m.footprint[d]) + IF d = c /\ F # {} THEN 1 ELSE 0
  BY <1>2, <1>5, <1>6, <1>8 DEF G
<1>10. Fresh(line) \in BlockType  BY FreshType
<1>rows. rows = [m.cache EXCEPT ![c][w] = Fresh(line)]  OBVIOUS
<1> HIDE DEF rows
<1>11. rows \in Rows /\ Swapped(m.cache, rows, c, w, Fresh(line))
  BY <1>rows, <1>10, RowStep
<1>12. n \in MemType  BY <1>3, <1>4, <1>8, <1>11 DEF MemType
<1> QED  BY <1>3, <1>9, <1>11, <1>12 DEF Replaces, Swapped, Recorded, F

\* What the operators on blocks do.
LEMMA MarkIs ==
  ASSUME NEW m \in MemType, NEW c \in Caches, NEW w \in 1 .. Ways[c],
         NEW level \in Levels, NEW o \in 0 .. LineEntries - 1,
         NEW n, n = Mark(m, c, w, level, o)
  PROVE  /\ n \in MemType /\ Replaces(m, n, c, w, Marked(m.cache[c][w], level, o))
         /\ n.footprint = m.footprint
         /\ \A d \in Caches :
              n.begun[d] = m.begun[d] +
                IF d = c /\ level = "pt" /\ m.cache[c][w].footprint = {} THEN 1 ELSE 0
<1> DEFINE b == m.cache[c][w]
           rows == [m.cache EXCEPT ![c][w] = Marked(b, level, o)]
           one == level = "pt" /\ b.footprint = {}
           begun == [m.begun EXCEPT ![c] = IF one THEN @ + 1 ELSE @]
<1>1. b \in BlockType  BY BlockFacts
<1>2. b = [line |-> b.line, ptw_level |-> b.ptw_level, footprint |-> b.footprint, seen |-> b.seen]
  BY <1>1 DEF BlockType
<1>3. m = [cache |-> m.cache, footprint |-> m.footprint, begun |-> m.begun]
      /\ m.cache \in Rows /\ m.footprint \in [Caches -> Histograms]
      /\ m.begun \in [Caches -> Nat]
  BY DEF MemType
<1>4. n = [cache |-> rows, footprint |-> m.footprint, begun |-> begun]
  <2> DEFINE reached == [b EXCEPT !.ptw_level = level]
             F == b.footprint \cup {o}
  <2>1. reached = [line |-> b.line, ptw_level |-> level, footprint |-> b.footprint, seen |-> b.seen]
    <3> HIDE DEF b
    <3> QED  BY <1>2
  <2>3. CASE level = "pt"
    <3>1. [reached EXCEPT !.footprint = @ \cup {o}] = Marked(b, level, o)
      <4>1. [reached EXCEPT !.footprint = @ \cup {o}] = [reached EXCEPT !.footprint = F]
        BY <2>1
      <4>2. Marked(b, level, o) =
              [line |-> b.line, ptw_level |-> level, footprint |-> F, seen |-> b.seen]
        BY <2>3 DEF Marked, Left
      <4> HIDE DEF reached, F, b
      <4> QED  BY <2>1, <4>1, <4>2
    <3>2. n = [m EXCEPT !.cache[c][w] = [reached EXCEPT !.footprint = @ \cup {o}],
                        !.begun[c] = IF b.footprint = {} THEN @ + 1 ELSE @]
      BY <2>3 DEF Mark
    <3>3. n = [m EXCEPT !.cache[c][w] = Marked(b, level, o),
                        !.begun[c] = IF b.footprint = {} THEN @ + 1 ELSE @]
      BY <3>1, <3>2
    <3>4. n = [m EXCEPT !.cache = rows, !.begun = begun]  BY <2>3, <3>3
    <3> HIDE DEF rows, begun
    <3> QED  BY <1>3, <3>4
  <2>2. CASE level # "pt"
    <3>1. reached = Marked(b, level, o)  BY <2>1, <2>2 DEF Marked, Left
    <3>2. n = [m EXCEPT !.cache[c][w] = reached]  BY <2>2 DEF Mark
    <3>3. n = [m EXCEPT !.cache[c][w] = Marked(b, level, o)]  BY <3>1, <3>2
    <3>4. begun = m.begun  BY <1>3, <2>2
    <3> QED  BY <1>3, <3>3, <3>4
  <2> QED  BY <2>2, <2>3
<1>5. Marked(b, level, o) \in BlockType  BY <1>1, MarkedType
<1>rows. rows = [m.cache EXCEPT ![c][w] = Marked(b, level, o)]  OBVIOUS
<1> HIDE DEF rows
<1>6. rows \in Rows /\ Swapped(m.cache, rows, c, w, Marked(b, level, o))
  BY <1>rows, <1>5, RowStep
<1>7. begun \in [Caches -> Nat]
      /\ \A d \in Caches : begun[d] = m.begun[d] + IF d = c /\ one THEN 1 ELSE 0
  BY <1>3
<1> HIDE DEF rows, begun
<1>8. n \in MemType  BY <1>3, <1>4, <1>6, <1>7 DEF MemType
<1> QED  BY <1>4, <1>6, <1>7, <1>8 DEF Replaces, Swapped

LEMMA SeeIs ==
  ASSUME NEW m \in MemType, NEW level \in Levels, NEW page \in Pages,
         NEW n, n = See(m, level, page)
  PROVE  /\ n \in MemType /\ n.footprint = m.footprint /\ n.begun = m.begun
         /\ \A d \in Caches : \A v \in 1 .. Ways[d] :
              LET b == m.cache[d][v] IN
              n.cache[d][v] = [line |-> b.line, ptw_level |-> b.ptw_level,
                               footprint |-> b.footprint,
                               seen |-> b.seen \cup IF b.line = Line(level, page)
                                                    THEN Left(level, Offset(page)) ELSE {}]
<1> DEFINE After(b) == [line |-> b.line, ptw_level |-> b.ptw_level,
                        footprint |-> b.footprint,
                        seen |-> b.seen \cup IF b.line = Line(level, page)
                                             THEN Left(level, Offset(page)) ELSE {}]
           rows == [d \in Caches |-> [v \in 1 .. Ways[d] |-> After(m.cache[d][v])]]
<1>1. m = [cache |-> m.cache, footprint |-> m.footprint, begun |-> m.begun]
      /\ m.cache \in Rows /\ m.footprint \in [Caches -> Histograms]
      /\ m.begun \in [Caches -> Nat]
  BY DEF MemType
<1>2. \A b \in BlockType :
        b = [line |-> b.line, ptw_level |-> b.ptw_level, footprint |-> b.footprint, seen |-> b.seen]
  BY DEF BlockType
<1>3. Offset(page) \in 0 .. LineEntries - 1  BY OffsetType
<1>4. \A b \in BlockType : After(b) \in BlockType  BY <1>3 DEF BlockType, Left
<1>5. m.cache = [d \in Caches |-> [v \in 1 .. Ways[d] |-> m.cache[d][v]]]
  BY <1>1 DEF Rows
<1>6. \A d \in Caches : \A v \in 1 .. Ways[d] : m.cache[d][v] \in BlockType  BY BlockFacts
<1>7. n = [cache |-> rows, footprint |-> m.footprint, begun |-> m.begun]
  <2>1. CASE level = "pt"
    <3>1. \A b \in BlockType :
            (IF b.line = Line(level, page) THEN [b EXCEPT !.seen = @ \cup {Offset(page)}] ELSE b)
            = After(b)
      BY <1>2, <2>1 DEF Left
    <3> DEFINE Shown(b) ==
          IF b.line = Line(level, page) THEN [b EXCEPT !.seen = @ \cup {Offset(page)}] ELSE b
    <3>2. n = [m EXCEPT !.cache = [d \in Caches |-> [v \in 1 .. Ways[d] |-> Shown(m.cache[d][v])]]]
      BY <2>1 DEF See
    <3>3. \A d \in Caches : \A v \in 1 .. Ways[d] : Shown(m.cache[d][v]) = After(m.cache[d][v])
      BY <1>6, <3>1
    <3> HIDE DEF Shown, After
    <3>4. n = [m EXCEPT !.cache = rows]  BY <3>2, <3>3
    <3> QED  BY <1>1, <3>4
  <2>2. CASE level # "pt"
    <3>1. \A b \in BlockType : After(b) = b  BY <1>2, <2>2 DEF Left
    <3>2. rows = m.cache  BY <1>5, <1>6, <3>1
    <3>3. n = m  BY <2>2 DEF See
    <3> QED  BY <1>1, <3>2, <3>3
  <2> QED  BY <2>1, <2>2
<1>8. rows \in Rows
  <2>1. \A d \in Caches : rows[d] \in [1 .. Ways[d] -> BlockType]  BY <1>4, <1>6
  <2> HIDE DEF rows
  <2>2. rows = [d \in Caches |-> rows[d]]  BY DEF rows
  <2>3. rows \in [Caches -> UNION {[1 .. Ways[e] -> BlockType] : e \in Caches}]
    BY <2>1, <2>2
  <2> QED  BY <2>1, <2>3 DEF Rows
<1>9. n \in MemType  BY <1>1, <1>7, <1>8 DEF MemType
<1> QED  BY <1>7, <1>9

-----------------------------------------------------------------------------
(* What holds of the blocks and histograms in every state, and within a walk *)

Owners(m, c)  == {w \in 1 .. Ways[c] : m.cache[c][w].footprint # {}}
LeafOnly(m) ==
  \A c \in Caches : \A w \in 1 .. Ways[c] :
    LET b == m.cache[c][w] IN b.footprint # {} => b.ptw_level = "pt" /\ b.line[1] = "pt"
Counted(m) ==
  \A c \in Caches : m.begun[c] = Total(m.footprint[c]) + Cardinality(Owners(m, c))
\* A line that a walk looks for has one copy in each cache it looks in.
OneCopy(m) ==
  \A c \in Searched : \A v, w \in 1 .. Ways[c] :
    m.cache[c][v].line = m.cache[c][w].line /\ m.cache[c][v].line # NoLine => v = w

Sound(m) == m \in MemType /\ LeafOnly(m) /\ Counted(m) /\ OneCopy(m)

\* The first cache's footprints are what was walked for; X is still to be added to
\* what was walked for in the given line.
Accumulated(m, line, X) ==
  \A w \in 1 .. Ways[First] :
    LET b == m.cache[First][w] IN b.footprint = b.seen \cup IF b.line = line THEN X ELSE {}

\* The caches searched, from the first on.
LEMMA SearchedFacts ==
  ASSUME PTW_START_LEVEL \in PtwStartLevels
  PROVE  /\ First \in Searched /\ Searched \subseteq Caches
         /\ Searched \cap Nearer[First] = {}
         /\ \A c \in Searched : c # First => First \in Nearer[c]
         /\ PTW_START_LEVEL # 1 => "L1D" \notin Searched
BY PageWalkAssumption DEF First, Searched, Nearer, Caches

\* The blocks with a footprint can be counted.
LEMMA OwnersFinite ==
  ASSUME NEW m \in MemType, NEW c \in Caches
  PROVE  IsFiniteSet(Owners(m, c)) /\ Cardinality(Owners(m, c)) \in Nat
<1>1. Ways[c] \in Int /\ 1 \in Int  BY BlockFacts
<1>2. IsFiniteSet(1 .. Ways[c])
      /\ Cardinality(1 .. Ways[c]) = IF 1 > Ways[c] THEN 0 ELSE Ways[c] - 1 + 1
  BY <1>1, FS_Interval, Zenon
<1>3. IsFiniteSet(Owners(m, c))  BY <1>2, FS_Subset DEF Owners
<1> QED  BY <1>3, FS_CardinalityType

\* Overwriting a block counts its footprint.
LEMMA OverwriteSound ==
  ASSUME PTW_START_LEVEL \in PtwStartLevels,
         NEW m, Sound(m), NEW c \in Caches, NEW w \in 1 .. Ways[c],
         NEW line \in Lines \cup {NoLine},
         c \in Searched /\ line # NoLine => Holding(m, c, line) = {},
         NEW n, n = Overwrite(m, c, w, line)
  PROVE  Sound(n) /\ Replaces(m, n, c, w, Fresh(line))
<1>1. m \in MemType  BY DEF Sound
<1>2. /\ n \in MemType /\ Replaces(m, n, c, w, Fresh(line)) /\ n.begun = m.begun
      /\ Recorded(m, n, c, m.cache[c][w].footprint)
  BY <1>1, OverwriteIs
<1>3. LeafOnly(n)  BY <1>2 DEF Sound, LeafOnly, Replaces, Fresh
<1>4. ASSUME NEW d \in Caches
      PROVE  n.begun[d] = Total(n.footprint[d]) + Cardinality(Owners(n, d))
  <2>1. m.begun[d] = Total(m.footprint[d]) + Cardinality(Owners(m, d))  BY DEF Sound, Counted
  <2>2. IsFiniteSet(Owners(m, d)) /\ Cardinality(Owners(m, d)) \in Nat  BY <1>1, OwnersFinite
  <2>3. Total(m.footprint[d]) \in Nat  BY <1>1, BlockFacts, TotalNat
  <2>4. CASE d = c /\ w \in Owners(m, c)
    <3>1. Owners(n, d) = Owners(m, d) \ {w}  BY <1>2, <2>4 DEF Owners, Replaces, Fresh
    <3>2. Cardinality(Owners(n, d)) = Cardinality(Owners(m, d)) - 1
      BY <2>2, <2>4, <3>1, FS_RemoveElement
    <3>3. Total(n.footprint[d]) = Total(m.footprint[d]) + 1
      BY <1>2, <2>4 DEF Recorded, Owners
    <3> QED  BY <1>2, <2>1, <2>2, <2>3, <3>2, <3>3
  <2>5. CASE ~(d = c /\ w \in Owners(m, c))
    <3>1. Owners(n, d) = Owners(m, d)  BY <1>2, <2>5 DEF Owners, Replaces, Fresh
    <3>2. Total(n.footprint[d]) = Total(m.footprint[d])
      BY <1>2, <2>3, <2>5 DEF Recorded, Owners
    <3> QED  BY <1>2, <2>1, <3>1, <3>2
  <2> QED  BY <2>4, <2>5
<1>5. OneCopy(n)
  <2> SUFFICES ASSUME NEW d \in Searched, NEW v \in 1 .. Ways[d], NEW u \in 1 .. Ways[d],
                      n.cache[d][v].line = n.cache[d][u].line, n.cache[d][v].line # NoLine
               PROVE  v = u
    BY DEF OneCopy
  <2>1. d \in Caches  BY SearchedFacts
  <2> DEFINE B == Fresh(line)
  <2>2. (n.cache[d][v] = IF d = c /\ v = w THEN B ELSE m.cache[d][v])
        /\ (n.cache[d][u] = IF d = c /\ u = w THEN B ELSE m.cache[d][u])
    BY <1>2, <2>1 DEF Replaces
  <2>3. m.cache[d][v].line = m.cache[d][u].line /\ m.cache[d][v].line # NoLine => v = u
    BY DEF Sound, OneCopy
  <2>4. B.line = line  BY DEF Fresh
  <2> HIDE DEF B
  <2>5. d = c /\ line # NoLine => m.cache[d][v].line # line /\ m.cache[d][u].line # line
    BY <1>1, BlockFacts DEF Holding
  <2> QED  BY <2>2, <2>3, <2>4, <2>5
<1> QED  BY <1>2, <1>3, <1>4, <1>5 DEF Sound, Counted

\* Marking a block that holds the line of an entry begins or extends its footprint.
LEMMA MarkSound ==
  ASSUME PTW_START_LEVEL \in PtwStartLevels,
         NEW m, Sound(m), NEW c \in Caches, NEW w \in 1 .. Ways[c],
         NEW level \in Levels, NEW page \in Pages, m.cache[c][w].line = Line(level, page),
         NEW n, n = Mark(m, c, w, level, Offset(page))
  PROVE  Sound(n) /\ Replaces(m, n, c, w, Marked(m.cache[c][w], level, Offset(page)))
<1> DEFINE o == Offset(page)
           b == m.cache[c][w]
           B == Marked(b, level, o)
<1>0. o \in 0 .. LineEntries - 1  BY OffsetType
<1> HIDE DEF o
<1>1. m \in MemType  BY DEF Sound
<1>2. /\ n \in MemType /\ Replaces(m, n, c, w, B) /\ n.footprint = m.footprint
      /\ \A d \in Caches :
           n.begun[d] = m.begun[d] +
             IF d = c /\ level = "pt" /\ b.footprint = {} THEN 1 ELSE 0
  BY <1>0, <1>1, MarkIs DEF o
<1>3. b.line[1] = level  BY DEF Line
<1>4. level # "pt" => b.footprint = {}  BY <1>3 DEF Sound, LeafOnly
<1>5. B.line = b.line /\ B.ptw_level = level /\ B.footprint = b.footprint \cup Left(level, o)
  BY DEF Marked
<1>6. B.footprint # {} <=> level = "pt"  BY <1>4, <1>5 DEF Left
<1> HIDE DEF B, b
<1>7. LeafOnly(n)
  <2> SUFFICES ASSUME NEW d \in Caches, NEW v \in 1 .. Ways[d], n.cache[d][v].footprint # {}
               PROVE  n.cache[d][v].ptw_level = "pt" /\ n.cache[d][v].line[1] = "pt"
    BY DEF LeafOnly
  <2>1. CASE d = c /\ v = w
    <3>1. n.cache[d][v] = B  BY <1>2, <2>1 DEF Replaces
    <3> QED  BY <1>3, <1>5, <1>6, <3>1
  <2>2. CASE ~(d = c /\ v = w)
    <3>1. n.cache[d][v] = m.cache[d][v]  BY <1>2, <2>2 DEF Replaces
    <3> QED  BY <3>1 DEF Sound, LeafOnly
  <2> QED  BY <2>1, <2>2
<1>8. ASSUME NEW d \in Caches
      PROVE  n.begun[d] = Total(n.footprint[d]) + Cardinality(Owners(n, d))
  <2>1. m.begun[d] = Total(m.footprint[d]) + Cardinality(Owners(m, d))  BY DEF Sound, Counted
  <2>2. IsFiniteSet(Owners(m, d)) /\ Cardinality(Owners(m, d)) \in Nat  BY <1>1, OwnersFinite
  <2>3. Total(m.footprint[d]) \in Nat  BY <1>1, BlockFacts, TotalNat
  <2>4. \A v \in 1 .. Ways[d] : n.cache[d][v] = IF d = c /\ v = w THEN B ELSE m.cache[d][v]
    BY <1>2 DEF Replaces
  <2>5. w \in Owners(m, c) <=> b.footprint # {}  BY DEF Owners, b
  <2>6. CASE d = c /\ level = "pt" /\ b.footprint = {}
    <3>1. Owners(n, d) = Owners(m, d) \cup {w} /\ w \notin Owners(m, d)
      BY <1>6, <2>4, <2>5, <2>6 DEF Owners
    <3>2. Cardinality(Owners(n, d)) = Cardinality(Owners(m, d)) + 1
      BY <2>2, <3>1, FS_AddElement
    <3>3. n.begun[d] = m.begun[d] + 1  BY <1>2, <2>6
    <3> QED  BY <1>2, <2>1, <2>2, <2>3, <3>2, <3>3
  <2>7. CASE ~(d = c /\ level = "pt" /\ b.footprint = {})
    <3>1. Owners(n, d) = Owners(m, d)
      BY <1>4, <1>6, <2>4, <2>5, <2>7 DEF Owners
    <3>2. n.begun[d] = m.begun[d]  BY <1>2, <2>1, <2>2, <2>3, <2>7
    <3> QED  BY <1>2, <2>1, <3>1, <3>2
  <2> QED  BY <2>6, <2>7
<1>9. \A d \in Caches : \A v \in 1 .. Ways[d] : n.cache[d][v].line = m.cache[d][v].line
  BY <1>2, <1>5 DEF Replaces, b
<1>10. OneCopy(n)  BY <1>9, SearchedFacts DEF Sound, OneCopy
<1> QED  BY <1>2, <1>7, <1>8, <1>10 DEF Sound, Counted, B, b, o

\* The history variable settles what the marks have added.
LEMMA SeeSound ==
  ASSUME PTW_START_LEVEL \in PtwStartLevels,
         NEW m, Sound(m), NEW level \in Levels, NEW page \in Pages,
         Accumulated(m, Line(level, page), Left(level, Offset(page))),
         NEW n, n = See(m, level, page)
  PROVE  Sound(n) /\ Accumulated(n, NoLine, {})
<1> DEFINE X == Left(level, Offset(page))
           line == Line(level, page)
<1>1. m \in MemType  BY DEF Sound
<1>2. /\ n \in MemType /\ n.footprint = m.footprint /\ n.begun = m.begun
      /\ \A d \in Caches : \A v \in 1 .. Ways[d] :
           LET b == m.cache[d][v] IN
           n.cache[d][v] = [line |-> b.line, ptw_level |-> b.ptw_level, footprint |-> b.footprint,
                            seen |-> b.seen \cup IF b.line = line THEN X ELSE {}]
  BY <1>1, SeeIs
<1> HIDE DEF X, line
<1>3. \A d \in Caches : \A v \in 1 .. Ways[d] :
        /\ n.cache[d][v].line = m.cache[d][v].line
        /\ n.cache[d][v].ptw_level = m.cache[d][v].ptw_level
        /\ n.cache[d][v].footprint = m.cache[d][v].footprint
        /\ n.cache[d][v].seen = m.cache[d][v].seen \cup IF m.cache[d][v].line = line THEN X ELSE {}
  <2> SUFFICES ASSUME NEW d \in Caches, NEW v \in 1 .. Ways[d]
               PROVE  /\ n.cache[d][v].line = m.cache[d][v].line
                      /\ n.cache[d][v].ptw_level = m.cache[d][v].ptw_level
                      /\ n.cache[d][v].footprint = m.cache[d][v].footprint
                      /\ n.cache[d][v].seen = m.cache[d][v].seen
                           \cup IF m.cache[d][v].line = line THEN X ELSE {}
    OBVIOUS
  <2> DEFINE b == m.cache[d][v]
             e == b.seen \cup IF b.line = line THEN X ELSE {}
  <2>1. n.cache[d][v] = [line |-> b.line, ptw_level |-> b.ptw_level, footprint |-> b.footprint,
                         seen |-> e]
    BY <1>2
  <2> HIDE DEF e
  <2>2. n.cache[d][v].line = b.line /\ n.cache[d][v].ptw_level = b.ptw_level
        /\ n.cache[d][v].footprint = b.footprint /\ n.cache[d][v].seen = e
    BY <2>1
  <2> QED  BY <2>2 DEF e
<1>4. LeafOnly(n)  BY <1>3 DEF Sound, LeafOnly
<1>5. \A d \in Caches : Owners(n, d) = Owners(m, d)  BY <1>3 DEF Owners
<1>6. Counted(n)  BY <1>2, <1>5 DEF Sound, Counted
<1>7. OneCopy(n)  BY <1>3, SearchedFacts DEF Sound, OneCopy
<1>8. Accumulated(n, NoLine, {})
  <2> SUFFICES ASSUME NEW v \in 1 .. Ways[First]
               PROVE  n.cache[First][v].footprint = n.cache[First][v].seen
    BY DEF Accumulated
  <2>1. First \in Caches  BY SearchedFacts
  <2>2. m.cache[First][v].footprint
          = m.cache[First][v].seen \cup IF m.cache[First][v].line = line THEN X ELSE {}
    BY DEF Accumulated, X, line
  <2> QED  BY <1>3, <2>1, <2>2
<1> QED  BY <1>2, <1>4, <1>6, <1>7, <1>8 DEF Sound

-----------------------------------------------------------------------------
(* One level of a walk *)

\* While the line is filled into the caches rest: those it was looked for in and are
\* still to be filled do not hold it.
Filling(m, line, X, rest) ==
  /\ Sound(m) /\ Accumulated(m, line, X)
  /\ \A c \in rest \cap Searched : Holding(m, c, line) = {}

LEMMA LineFacts ==
  ASSUME NEW level \in Levels, NEW page \in Pages
  PROVE  Line(level, page) \in Lines
BY DEF Lines

LEMMA LinesAreLines == \A line \in Lines : line # NoLine
BY DEF Lines, Line, DataLine, NoLine

\* The way that holds a line, and the way that find_victim gives.
LEMMA HoldingFacts ==
  ASSUME NEW m \in MemType, NEW c \in Caches, NEW line
  PROVE  /\ Holding(m, c, line) = {w \in 1 .. Ways[c] : m.cache[c][w].line = line}
         /\ Holding(m, c, line) # {} => Min(Holding(m, c, line)) \in Holding(m, c, line)
<1> DEFINE H == Holding(m, c, line)
<1>1. H = {w \in 1 .. Ways[c] : m.cache[c][w].line = line}  BY BlockFacts DEF Holding
<1>2. \A w \in H : w \in Nat  BY <1>1, BlockFacts
<1> HIDE DEF H
<1>3. ASSUME H # {} PROVE Min(H) \in H
  <2>1. \E x \in H : \A y \in H : x <= y  BY <1>2, <1>3, LeastNat
  <2> QED  BY <2>1 DEF Min
<1> QED  BY <1>1, <1>3 DEF H

LEMMA VictimsAreWays ==
  ASSUME NEW m \in MemType, NEW c \in Caches, NEW w \in Victims(m, c)
  PROVE  w \in 1 .. Ways[c]
BY HoldingFacts, BlockFacts DEF Victims

\* A line is allocated in a cache that has to be filled.
LEMMA AllocateStep ==
  ASSUME PTW_START_LEVEL \in PtwStartLevels, NEW level \in Levels, NEW page \in Pages,
         NEW m, NEW rest, NEW c \in Caches \cap rest, NEW n \in Allocate(m, c, level, page),
         Filling(m, Line(level, page), Left(level, Offset(page)), rest)
  PROVE  Filling(n, Line(level, page), Left(level, Offset(page)), rest \ {c})
<1> DEFINE line == Line(level, page)
           o == Offset(page)
           X == Left(level, o)
<1>0. Sound(m) /\ m \in MemType  BY DEF Filling, Sound
<1>1. PICK w \in Victims(m, c) :
        n = Mark(Overwrite(m, c, w, line), c, w, level, o)
  BY DEF Allocate
<1>2. w \in 1 .. Ways[c]  BY <1>0, VictimsAreWays
<1> DEFINE p == Overwrite(m, c, w, line)
<1>3. line \in Lines \cup {NoLine}  BY LineFacts
<1>4. c \in Searched => Holding(m, c, line) = {}  BY DEF Filling
<1> HIDE DEF p
<1>5. Sound(p) /\ Replaces(m, p, c, w, Fresh(line))
  BY <1>0, <1>2, <1>3, <1>4, OverwriteSound DEF p
<1>6. p.cache[c][w] = Fresh(line)  BY <1>2, <1>5 DEF Replaces
<1>7. p.cache[c][w].line = line  BY <1>6 DEF Fresh
<1>8. Sound(n) /\ Replaces(p, n, c, w, Marked(p.cache[c][w], level, o))
  BY <1>1, <1>2, <1>5, <1>7, MarkSound DEF p
<1> DEFINE B == Marked(p.cache[c][w], level, o)
<1>9. B.line = line /\ B.footprint = X /\ B.seen = {}  BY <1>6 DEF Marked, Fresh
<1> HIDE DEF B, line, X
<1>10. \A d \in Caches : \A v \in 1 .. Ways[d] :
         n.cache[d][v] = IF d = c /\ v = w THEN B ELSE m.cache[d][v]
  BY <1>5, <1>8 DEF Replaces, B
<1>11. Accumulated(n, line, X)
  <2> SUFFICES ASSUME NEW v \in 1 .. Ways[First]
               PROVE  n.cache[First][v].footprint
                        = n.cache[First][v].seen \cup IF n.cache[First][v].line = line THEN X ELSE {}
    BY DEF Accumulated
  <2>1. First \in Caches  BY SearchedFacts
  <2>2. n.cache[First][v] = IF First = c /\ v = w THEN B ELSE m.cache[First][v]  BY <1>10, <2>1
  <2>3. m.cache[First][v].footprint
          = m.cache[First][v].seen \cup IF m.cache[First][v].line = line THEN X ELSE {}
    BY DEF Filling, Accumulated, line, X
  <2> QED  BY <1>9, <2>2, <2>3
<1>12. ASSUME NEW d \in (rest \ {c}) \cap Searched PROVE Holding(n, d, line) = {}
  <2>1. d \in Caches /\ d # c /\ n \in MemType  BY <1>8, SearchedFacts DEF Sound
  <2>2. Holding(m, d, line) = {}  BY DEF Filling, line
  <2>3. \A v \in 1 .. Ways[d] : n.cache[d][v] = m.cache[d][v]  BY <1>10, <2>1
  <2> QED  BY <1>0, <2>1, <2>2, <2>3, HoldingFacts
<1> QED  BY <1>8, <1>11, <1>12 DEF Filling, line, X

\* The same for all the outcomes so far.
LEMMA FillStep ==
  ASSUME PTW_START_LEVEL \in PtwStartLevels, NEW level \in Levels, NEW page \in Pages,
         NEW M, NEW fills, NEW rest, NEW c \in Caches, c \in fills => c \in rest,
         \A m \in M : Filling(m, Line(level, page), Left(level, Offset(page)), rest)
  PROVE  \A n \in Fill(M, c, fills, level, page) :
           Filling(n, Line(level, page), Left(level, Offset(page)), rest \ {c})
<1> SUFFICES ASSUME NEW n \in Fill(M, c, fills, level, page)
             PROVE  Filling(n, Line(level, page), Left(level, Offset(page)), rest \ {c})
  OBVIOUS
<1>1. CASE c \in fills
  <2>1. PICK m \in M : n \in Allocate(m, c, level, page)  BY <1>1 DEF Fill
  <2> QED  BY <1>1, <2>1, AllocateStep
<1>2. CASE c \notin fills
  <2>1. n \in M  BY <1>2 DEF Fill
  <2> QED  BY <2>1 DEF Filling
<1> QED  BY <1>1, <1>2

\* After the hit is marked, the first cache has the walk in its footprint if it holds
\* the line, and the caches to be filled do not hold it.
LEMMA MarkHitStep ==
  ASSUME PTW_START_LEVEL \in PtwStartLevels, NEW level \in Levels, NEW page \in Pages,
         NEW m, Sound(m), Accumulated(m, NoLine, {}),
         NEW n \in MarkHit(m, level, page)
  PROVE  Filling(n, Line(level, page), Left(level, Offset(page)), Filled(m, level, page))
<1> DEFINE line == Line(level, page)
           o == Offset(page)
           X == Left(level, o)
<1>0. m \in MemType  BY DEF Sound
<1>1. \A d \in Searched \cap Filled(m, level, page) : d \in Missed(m, line)
  BY SearchedFacts DEF Filled
<1>2. \A d \in Missed(m, line) : Holding(m, d, line) = {}  BY DEF Missed, Nearer
<1>3. \A v \in 1 .. Ways[First] : m.cache[First][v].footprint = m.cache[First][v].seen
  BY DEF Accumulated
<1>4. First \in Caches /\ First \in Searched  BY SearchedFacts
<1>5. First \notin Missed(m, line) => First \in Hits(m, line)
  BY SearchedFacts DEF Hits
<1>6. ASSUME First \in Missed(m, line) PROVE \A v \in 1 .. Ways[First] : m.cache[First][v].line # line
  BY <1>0, <1>2, <1>4, <1>6, HoldingFacts
<1>7. CASE Hits(m, line) = {}
  <2>1. n = m  BY <1>7 DEF MarkHit
  <2>2. Accumulated(m, line, X)  BY <1>3, <1>5, <1>6, <1>7 DEF Accumulated
  <2> QED  BY <1>1, <1>2, <2>1, <2>2 DEF Filling
<1>8. CASE Hits(m, line) # {}
  <2>1. PICK c \in Hits(m, line) : n = Mark(m, c, Min(Holding(m, c, line)), level, o)
    BY <1>8 DEF MarkHit
  <2> DEFINE w == Min(Holding(m, c, line))
             B == Marked(m.cache[c][w], level, o)
  <2>2. c \in Searched /\ c \notin Missed(m, line)
        /\ \A d \in Searched \cap Nearer[c] : d \in Missed(m, line)
    BY <2>1 DEF Hits
  <2>3. c \in Caches  BY <2>2, SearchedFacts
  <2>4. Holding(m, c, line) # {}  BY <2>2 DEF Missed
  <2>5. w \in 1 .. Ways[c] /\ m.cache[c][w].line = line
    BY <1>0, <2>3, <2>4, HoldingFacts
  <2> HIDE DEF w
  <2>6. Sound(n) /\ Replaces(m, n, c, w, B)
    BY <2>1, <2>3, <2>5, MarkSound DEF w
  <2>7. B.line = line /\ B.footprint = m.cache[c][w].footprint \cup X
        /\ B.seen = m.cache[c][w].seen
    BY <2>5 DEF Marked
  <2> HIDE DEF B
  <2>8. \A d \in Caches : \A v \in 1 .. Ways[d] :
          n.cache[d][v] = IF d = c /\ v = w THEN B ELSE m.cache[d][v]
    BY <2>6 DEF Replaces
  <2>9. ASSUME NEW v \in 1 .. Ways[First]
        PROVE  n.cache[First][v].footprint
                 = n.cache[First][v].seen \cup IF n.cache[First][v].line = line THEN X ELSE {}
    <3>1. n.cache[First][v] = IF First = c /\ v = w THEN B ELSE m.cache[First][v]
      BY <1>4, <2>8
    <3>2. m.cache[First][v].footprint = m.cache[First][v].seen  BY <1>3
    <3>3. CASE First = c
      <4>1. m.cache[First][v].line = line => v = w
        BY <1>4, <2>5, <3>3, LineFacts, LinesAreLines DEF Sound, OneCopy
      <4> QED  BY <2>7, <3>1, <3>2, <3>3, <4>1
    <3>4. CASE First # c
      <4>1. First \in Missed(m, line)  BY <1>4, <2>2, <3>4, SearchedFacts
      <4>2. m.cache[First][v].line # line  BY <1>6, <4>1
      <4> QED  BY <3>1, <3>2, <3>4, <4>2
    <3> QED  BY <3>3, <3>4
  <2>10. Accumulated(n, line, X)  BY <2>9 DEF Accumulated
  <2>11. ASSUME NEW d \in Filled(m, level, page) \cap Searched PROVE Holding(n, d, line) = {}
    <3>1. d \in Caches /\ n \in MemType  BY <2>6, SearchedFacts DEF Sound
    <3>2. Holding(m, d, line) = {} /\ d # c  BY <1>1, <1>2, <2>2
    <3>3. \A v \in 1 .. Ways[d] : n.cache[d][v] = m.cache[d][v]  BY <2>8, <3>1, <3>2
    <3> QED  BY <1>0, <3>1, <3>2, <3>3, HoldingFacts
  <2> QED  BY <2>6, <2>10, <2>11 DEF Filling
<1> QED  BY <1>7, <1>8

\* Between the levels of a walk nothing is owed.
Settled(m) == Sound(m) /\ Accumulated(m, NoLine, {})

\* One level of a walk, and all of them.
LEMMA LookUpStep ==
  ASSUME PTW_START_LEVEL \in PtwStartLevels, NEW level \in Levels, NEW page \in Pages,
         NEW magic \in BOOLEAN, NEW m, Settled(m), NEW n \in LookUp(m, level, page, magic)
  PROVE  Settled(n)
<1> DEFINE line == Line(level, page)
           X == Left(level, Offset(page))
           rest == Filled(m, level, page)
           fills == IF magic THEN {} ELSE rest
           l1d == Fill(MarkHit(m, level, page), "L1D", fills, level, page)
           l2c == Fill(l1d, "L2C", fills, level, page)
           llc == Fill(l2c, "LLC", fills, level, page)
<1>1. PICK k \in llc : n = See(k, level, page)  BY DEF LookUp
<1>2. \A p \in MarkHit(m, level, page) : Filling(p, line, X, rest)
  BY MarkHitStep DEF Settled
<1>3. "L1D" \in Caches /\ "L2C" \in Caches /\ "LLC" \in Caches  BY DEF Caches
<1> HIDE DEF l1d, l2c, llc, rest, line, X
<1>4. \A c : c \in fills => c \in rest  OBVIOUS
<1> HIDE DEF fills
<1>5. \A p \in l1d : Filling(p, line, X, rest \ {"L1D"})
  BY <1>2, <1>3, <1>4, FillStep DEF l1d, line, X
<1>6. \A p \in l2c : Filling(p, line, X, (rest \ {"L1D"}) \ {"L2C"})
  <2>1. "L2C" \in fills => "L2C" \in rest \ {"L1D"}  BY <1>4
  <2> QED  BY <1>3, <1>5, <2>1, FillStep DEF l2c, line, X
<1>7. \A p \in llc : Filling(p, line, X, ((rest \ {"L1D"}) \ {"L2C"}) \ {"LLC"})
  <2>1. "LLC" \in fills => "LLC" \in (rest \ {"L1D"}) \ {"L2C"}  BY <1>4
  <2> QED  BY <1>3, <1>6, <2>1, FillStep DEF llc, line, X
<1>8. Sound(k) /\ Accumulated(k, line, X)  BY <1>1, <1>7 DEF Filling
<1> QED  BY <1>1, <1>8, SeeSound DEF Settled, line, X

LEMMA WalkStep ==
  ASSUME PTW_START_LEVEL \in PtwStartLevels, NEW page \in Pages, NEW tags,
         NEW magic \in BOOLEAN, Settled(mem), NEW n \in WalkOutcomes(page, tags, magic)
  PROVE  Settled(n)
<1>1. ASSUME NEW level \in Levels, NEW M, \A m \in M : Settled(m),
             NEW k \in WalkLevel(M, level, page, tags, magic)
      PROVE  Settled(k)
  <2>1. CASE k \in M  BY <1>1, <2>1
  <2>2. CASE k \notin M
    <3>1. PICK m \in M : k \in LookUp(m, level, page, magic)  BY <1>1, <2>2 DEF WalkLevel
    <3> QED  BY <1>1, <3>1, LookUpStep
  <2> QED  BY <2>1, <2>2
<1> DEFINE pml4 == WalkLevel({mem}, "pml4", page, tags, magic)
           pdp  == WalkLevel(pml4, "pdp", page, tags, magic)
           pd   == WalkLevel(pdp, "pd", page, tags, magic)
<1>2. n \in WalkLevel(pd, "pt", page, tags, magic)  BY DEF WalkOutcomes
<1>3. "pml4" \in Levels /\ "pdp" \in Levels /\ "pd" \in Levels /\ "pt" \in Levels
  BY DEF Levels, PwcLevels
<1> HIDE DEF pml4, pdp, pd
<1>4. \A m \in {mem} : Settled(m)  OBVIOUS
<1>5. \A m \in pml4 : Settled(m)  BY <1>1, <1>3, <1>4 DEF pml4
<1>6. \A m \in pdp : Settled(m)  BY <1>1, <1>3, <1>5 DEF pdp
<1>7. \A m \in pd : Settled(m)  BY <1>1, <1>3, <1>6 DEF pd
<1> QED  BY <1>1, <1>2, <1>3, <1>7

-----------------------------------------------------------------------------
(* All actions *)

\* Blocks overwritten outside a walk: data fills and invalidations.
LEMMA OverwriteSettled ==
  ASSUME PTW_START_LEVEL \in PtwStartLevels,
         NEW m, Settled(m), NEW c \in Caches, NEW w \in 1 .. Ways[c],
         NEW line \in Lines \cup {NoLine},
         c \in Searched /\ line # NoLine => Holding(m, c, line) = {},
         NEW n, n = Overwrite(m, c, w, line)
  PROVE  Settled(n)
<1> DEFINE B == Fresh(line)
<1>1. Sound(n) /\ Replaces(m, n, c, w, B)  BY OverwriteSound DEF Settled
<1>2. B.footprint = {} /\ B.seen = {}  BY DEF Fresh
<1> HIDE DEF B
<1>3. ASSUME NEW v \in 1 .. Ways[First]
      PROVE  n.cache[First][v].footprint = n.cache[First][v].seen
  <2>1. First \in Caches  BY SearchedFacts
  <2>2. n.cache[First][v] = IF First = c /\ v = w THEN B ELSE m.cache[First][v]
    BY <1>1, <2>1 DEF Replaces
  <2>3. m.cache[First][v].footprint = m.cache[First][v].seen  BY DEF Settled, Accumulated
  <2> QED  BY <1>2, <2>2, <2>3
<1> QED  BY <1>1, <1>3 DEF Settled, Accumulated

LEMMA DroppedSettled ==
  ASSUME PTW_START_LEVEL \in PtwStartLevels, NEW m, Settled(m), NEW c \in Caches, NEW line
  PROVE  Settled(Dropped(m, c, line))
<1>1. CASE Holding(m, c, line) = {}  BY <1>1 DEF Dropped
<1>2. CASE Holding(m, c, line) # {}
  <2> DEFINE w == Min(Holding(m, c, line))
             n == Overwrite(m, c, w, NoLine)
  <2>1. m \in MemType  BY DEF Settled, Sound
  <2>2. w \in 1 .. Ways[c]  BY <1>2, <2>1, HoldingFacts
  <2>3. Dropped(m, c, line) = n  BY <1>2 DEF Dropped
  <2> HIDE DEF w
  <2>4. NoLine \in Lines \cup {NoLine}  OBVIOUS
  <2>5. Settled(n)  BY <2>2, <2>4, OverwriteSettled
  <2> QED  BY <2>3, <2>5
<1> QED  BY <1>1, <1>2

\* The page table maps pages to frames, no two to one.
MapOK(table) ==
  /\ DOMAIN table \subseteq Pages /\ Range(table) \subseteq Frames
  /\ \A p, q \in DOMAIN table : table[p] = table[q] => p = q

MemInv == PTW_START_LEVEL \in PtwStartLevels /\ MapOK(pageTable) /\ Settled(mem)

LEMMA SettledNext ==
  ASSUME PTW_START_LEVEL' = PTW_START_LEVEL, Settled(mem')
  PROVE  Settled(mem)'
<1>1. First' = First /\ Searched' = Searched  BY DEF First, Searched
<1> QED  BY <1>1 DEF Settled, Sound, OneCopy, Accumulated

\* A page fault with a free frame.
LEMMA MappedMore ==
  ASSUME MapOK(pageTable), NEW page \in Pages, page \notin DOMAIN pageTable,
         NEW frame \in FreeFrames
  PROVE  MapOK(MapTo(page, frame))
BY DEF MapOK, MapTo, FreeFrames, Range

\* The reset of the statistics drops all footprints, and counts none.
LEMMA ResetSettled ==
  ASSUME MemInv
  PROVE  Settled(StatsReset)
<1> DEFINE n == StatsReset
           zero == [k \in 1 .. LineEntries |-> 0]
<1>0. mem \in MemType  BY DEF MemInv, Settled, Sound
<1>1. /\ n = [cache |-> n.cache, footprint |-> n.footprint, begun |-> n.begun]
      /\ n.footprint = [c \in Caches |-> zero] /\ n.begun = [c \in Caches |-> 0]
      /\ n.cache = [c \in Caches |-> [w \in 1 .. Ways[c] |-> Fresh(mem.cache[c][w].line)]]
  BY DEF StatsReset, EmptyBlock, Fresh
<1> HIDE DEF n
<1>2. zero \in Histograms /\ Total(zero) = 0  BY TotalZero DEF Histograms
<1> HIDE DEF zero
<1>3. \A c \in Caches : \A w \in 1 .. Ways[c] : mem.cache[c][w].line \in Lines \cup {NoLine}
  BY <1>0, BlockFacts DEF BlockType, Lines
<1>4. \A c \in Caches : \A w \in 1 .. Ways[c] : n.cache[c][w] = Fresh(mem.cache[c][w].line)
  BY <1>1
<1>fields. \A c \in Caches : \A w \in 1 .. Ways[c] :
        n.cache[c][w].line = mem.cache[c][w].line /\ n.cache[c][w].footprint = {}
        /\ n.cache[c][w].seen = {}
  <2> SUFFICES ASSUME NEW c \in Caches, NEW w \in 1 .. Ways[c]
               PROVE  n.cache[c][w].line = mem.cache[c][w].line
                      /\ n.cache[c][w].footprint = {} /\ n.cache[c][w].seen = {}
    OBVIOUS
  <2> DEFINE line == mem.cache[c][w].line
  <2>1. n.cache[c][w] = Fresh(line)  BY <1>4
  <2> HIDE DEF line
  <2>2. n.cache[c][w].line = line /\ n.cache[c][w].footprint = {} /\ n.cache[c][w].seen = {}
    BY <2>1 DEF Fresh
  <2> QED  BY <2>2 DEF line
<1>5. n.cache \in Rows
  <2>1. \A c \in Caches : n.cache[c] \in [1 .. Ways[c] -> BlockType]
    BY <1>1, <1>3, FreshType
  <2>2. n.cache = [c \in Caches |-> n.cache[c]]  BY <1>1
  <2>3. n.cache \in [Caches -> UNION {[1 .. Ways[e] -> BlockType] : e \in Caches}]
    BY <2>1, <2>2
  <2> QED  BY <2>1, <2>3 DEF Rows
<1>6. n \in MemType
  <2>1. n.footprint \in [Caches -> Histograms] /\ n.begun \in [Caches -> Nat]  BY <1>1, <1>2
  <2> QED  BY <1>1, <1>5, <2>1 DEF MemType
<1>7. LeafOnly(n)  BY <1>fields DEF LeafOnly
<1>8. \A c \in Caches : Owners(n, c) = {}  BY <1>fields DEF Owners
<1>9. Counted(n)
  <2>1. \A c \in Caches : n.begun[c] = 0 /\ Total(n.footprint[c]) = 0  BY <1>1, <1>2
  <2>2. \A c \in Caches : Cardinality(Owners(n, c)) = 0  BY <1>8, FS_EmptySet
  <2> QED  BY <2>1, <2>2 DEF Counted
<1>10. OneCopy(n)
  BY <1>fields, SearchedFacts DEF MemInv, Settled, Sound, OneCopy
<1>11. Accumulated(n, NoLine, {})
  BY <1>fields, SearchedFacts DEF MemInv, Accumulated
<1> QED  BY <1>6, <1>7, <1>9, <1>10, <1>11 DEF Settled, Sound, n

\* Every step preserves the invariant.
LEMMA StepMemInv ==
  ASSUME MemInv, [Next]_vars
  PROVE  MemInv'
<1>0. PTW_START_LEVEL \in PtwStartLevels /\ MapOK(pageTable) /\ Settled(mem)
      /\ mem \in MemType
  BY DEF MemInv, Settled, Sound
<1>1. ASSUME NEW page \in Pages, NEW magic \in BOOLEAN, Walk(page, magic)
      PROVE  MemInv'
  <2>1. MapOK(pageTable')
    <3>1. CASE pageTable' = pageTable  BY <1>0, <3>1
    <3>2. CASE pageTable' # pageTable
      <4>1. PICK frame \in FreeFrames : page \notin DOMAIN pageTable /\ pageTable' = MapTo(page, frame)
        BY <1>1, <3>2 DEF Walk
      <4> QED  BY <1>0, <4>1, MappedMore
    <3> QED  BY <3>1, <3>2
  <2>2. mem' \in WalkOutcomes(page, Tags(page), magic) /\ PTW_START_LEVEL' = PTW_START_LEVEL
    BY <1>1 DEF Walk
  <2>3. Settled(mem')  BY <1>0, <2>2, WalkStep
  <2> QED  BY <1>0, <2>1, <2>2, <2>3, SettledNext DEF MemInv, MapOK
<1>2. ASSUME NEW page \in Pages, Swap(page)
      PROVE  MemInv'
  <2> DEFINE victim == Min(DOMAIN pageTable)
             frame  == pageTable[victim]
             line   == DataLine(frame)
             m1 == Dropped(mem, "L1D", line)
             m2 == Dropped(m1, "L2C", line)
  <2>1. victim \in DOMAIN pageTable
    <3> DEFINE D == DOMAIN pageTable
    <3>1. D # {}  BY <1>2, PageWalkAssumption DEF Swap, FreeFrames, Range
    <3>2. \A x \in D : x \in Nat  BY <1>0, SizesType DEF MapOK
    <3> HIDE DEF D
    <3>3. \E x \in D : \A y \in D : x <= y  BY <3>1, <3>2, LeastNat
    <3>4. Min(D) \in D  BY <3>3 DEF Min
    <3> QED  BY <3>4 DEF D
  <2>2. /\ page \notin DOMAIN pageTable
        /\ pageTable' = [p \in (DOMAIN pageTable \ {victim}) \cup {page} |->
                           IF p = page THEN frame ELSE pageTable[p]]
        /\ mem' = Invalidated(line) /\ PTW_START_LEVEL' = PTW_START_LEVEL
    BY <1>2 DEF Swap
  <2> HIDE DEF victim
  <2>3. MapOK(pageTable')  BY <1>0, <2>1, <2>2 DEF MapOK, Range
  <2>4. mem' = Dropped(m2, "LLC", line)  BY <2>2 DEF Invalidated
  <2>5. "L1D" \in Caches /\ "L2C" \in Caches /\ "LLC" \in Caches  BY DEF Caches
  <2> HIDE DEF line, m1, m2
  <2>6. Settled(m1)  BY <1>0, <2>5, DroppedSettled DEF m1
  <2>7. Settled(m2)  BY <1>0, <2>5, <2>6, DroppedSettled DEF m2
  <2>8. Settled(mem')  BY <1>0, <2>4, <2>5, <2>7, DroppedSettled
  <2> QED  BY <1>0, <2>2, <2>3, <2>8, SettledNext DEF MemInv, MapOK
<1>3. ASSUME NEW page \in Pages, PrefetchWalk(page)
      PROVE  MemInv'
  <2>1. PICK tags \in [PwcLevels -> Garbage] : mem' \in WalkOutcomes(page, tags, TRUE)
    BY <1>3 DEF PrefetchWalk
  <2>2. TRUE \in BOOLEAN  OBVIOUS
  <2>3. Settled(mem')  BY <1>0, <2>1, <2>2, WalkStep
  <2> QED  BY <1>0, <1>3, <2>3, SettledNext DEF MemInv, MapOK, PrefetchWalk
<1>4. ASSUME NEW c \in Caches, DataFill(c)
      PROVE  MemInv'
  <2>1. PICK frame \in Range(pageTable), w \in Victims(mem, c) :
          /\ Holding(mem, c, DataLine(frame)) = {}
          /\ mem' = Overwrite(mem, c, w, DataLine(frame))
    BY <1>4 DEF DataFill
  <2>2. w \in 1 .. Ways[c]  BY <1>0, VictimsAreWays
  <2>3. DataLine(frame) \in Lines \cup {NoLine}  BY <1>0 DEF MapOK, Lines
  <2>4. Settled(mem')  BY <1>0, <2>1, <2>2, <2>3, OverwriteSettled
  <2> QED  BY <1>0, <1>4, <2>4, SettledNext DEF MemInv, MapOK, DataFill
<1>5. ASSUME ResetCacheStats
      PROVE  MemInv'
  <2>1. Settled(mem')  BY <1>5, ResetSettled DEF ResetCacheStats
  <2> QED  BY <1>0, <1>5, <2>1, SettledNext DEF MemInv, MapOK, ResetCacheStats
<1>6. CASE UNCHANGED vars
  <2>1. Settled(mem')  BY <1>0, <1>6 DEF vars
  <2> QED  BY <1>0, <1>6, <2>1, SettledNext DEF MemInv, MapOK, vars
<1> QED  BY <1>1, <1>2, <1>3, <1>4, <1>5, <1>6 DEF Next

LEMMA InitMemInv ==
  ASSUME Init
  PROVE  MemInv
<1> DEFINE zero == [k \in 1 .. LineEntries |-> 0]
<1>1. /\ mem = [cache |-> mem.cache, footprint |-> mem.footprint, begun |-> mem.begun]
      /\ mem.footprint = [c \in Caches |-> zero] /\ mem.begun = [c \in Caches |-> 0]
      /\ mem.cache = [c \in Caches |-> [w \in 1 .. Ways[c] |-> Fresh(NoLine)]]
  BY DEF Init, EmptyBlock, Fresh
<1>2. zero \in Histograms /\ Total(zero) = 0  BY TotalZero DEF Histograms
<1> HIDE DEF zero
<1>3. NoLine \in Lines \cup {NoLine}  OBVIOUS
<1>4. \A c \in Caches : \A w \in 1 .. Ways[c] : mem.cache[c][w] = Fresh(NoLine)  BY <1>1
<1>fields. \A c \in Caches : \A w \in 1 .. Ways[c] :
        mem.cache[c][w].line = NoLine /\ mem.cache[c][w].footprint = {}
        /\ mem.cache[c][w].seen = {}
  BY <1>4 DEF Fresh
<1>5. mem.cache \in Rows
  <2>1. \A c \in Caches : mem.cache[c] \in [1 .. Ways[c] -> BlockType]
    BY <1>1, <1>3, FreshType
  <2>2. mem.cache = [c \in Caches |-> mem.cache[c]]  BY <1>1
  <2>3. mem.cache \in [Caches -> UNION {[1 .. Ways[e] -> BlockType] : e \in Caches}]
    BY <2>1, <2>2
  <2> QED  BY <2>1, <2>3 DEF Rows
<1>6. mem \in MemType
  <2>1. mem.footprint \in [Caches -> Histograms] /\ mem.begun \in [Caches -> Nat]
    BY <1>1, <1>2
  <2> QED  BY <1>1, <1>5, <2>1 DEF MemType
<1>7. LeafOnly(mem)  BY <1>fields DEF LeafOnly
<1>8. \A c \in Caches : Owners(mem, c) = {}  BY <1>fields DEF Owners
<1>9. Counted(mem)
  <2>1. \A c \in Caches : mem.begun[c] = 0 /\ Total(mem.footprint[c]) = 0  BY <1>1, <1>2
  <2>2. \A c \in Caches : Cardinality(Owners(mem, c)) = 0  BY <1>8, FS_EmptySet
  <2> QED  BY <2>1, <2>2 DEF Counted
<1>10. PTW_START_LEVEL \in PtwStartLevels /\ pageTable = <<>>  BY DEF Init
<1>11. OneCopy(mem)  BY <1>fields, <1>10, SearchedFacts DEF OneCopy
<1>12. Accumulated(mem, NoLine, {})  BY <1>fields, <1>10, SearchedFacts DEF Accumulated
<1>13. MapOK(pageTable)  BY <1>10 DEF MapOK, Range
<1> QED  BY <1>6, <1>7, <1>9, <1>10, <1>11, <1>12, <1>13 DEF MemInv, Settled, Sound

\* The blocks and histograms keep their invariant in every reachable state.
THEOREM MemInductive == Spec => []MemInv
<1>1. Init => MemInv  BY InitMemInv
<1>2. MemInv /\ [Next]_vars => MemInv'  BY StepMemInv
<1> QED  BY <1>1, <1>2, PTL DEF Spec

\* Every variable keeps its type, no two pages share a frame, and only leaf lines have
\* a footprint, for every geometry and both configurations.
THEOREM TypeCorrect == Spec => []TypeOK
<1>1. ASSUME PwcInv, MemInv PROVE TypeOK
  <2>1. \A k \in PwcLevels :
          pwc[k] \in [Positions(k) -> [tag : UsableTags \cup {0}, lru : 0 .. mmu_timer]]
    BY <1>1 DEF PwcInv, PwcOK, PwcTyped
  <2>2. \A c \in Caches : mem.cache[c] \in [1 .. Ways[c] -> BlockType]
    BY <1>1 DEF MemInv, Settled, Sound, MemType, Rows
  <2>3. \A c \in Caches : \A w \in 1 .. Ways[c] :
          LET b == mem.cache[c][w] IN b.footprint # {} => b.ptw_level = "pt" /\ b.line[1] = "pt"
    BY <1>1 DEF MemInv, Settled, Sound, LeafOnly
  <2> QED  BY <1>1, <2>1, <2>2, <2>3 DEF TypeOK, MemInv, MapOK
<1> QED  BY <1>1, PwcInductive, MemInductive, PTL

\* Footprints are counted once, when their block is overwritten, invalidated or reset,
\* and the cache that walks are looked up in first has the entries walked for in them.
THEOREM FootprintsExactCorrect == Spec => []FootprintsExact
<1>1. ASSUME MemInv PROVE FootprintsExact
  <2>1. FootprintConserved
    BY <1>1 DEF MemInv, Settled, Sound, Counted, Owners, FootprintConserved
  <2>2. FirstCacheAccumulates
    BY <1>1 DEF MemInv, Settled, Accumulated, FirstCacheAccumulates
  <2> QED  BY <2>1, <2>2 DEF FootprintsExact
<1> QED  BY <1>1, MemInductive, PTL
=============================================================================
