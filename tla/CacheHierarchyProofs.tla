------------------------ MODULE CacheHierarchyProofs ------------------------
(***************************************************************************)
(* Proofs about CacheHierarchy, for all sets of lines, sizes of the caches, *)
(* queues and MSHRs, and prefetchers: the typing of the state, that an L1   *)
(* holds a line once and never waits for a line it holds, that modified     *)
(* lines are handed down, that no step is taken for nothing (a measure of   *)
(* the work ahead falls), and - when code and data share no line - that     *)
(* every miss of an L1 is answered, answered once, and never stuck.         *)
(***************************************************************************)
EXTENDS CacheHierarchy, FiniteSetTheorems, WellFoundedInduction, SequenceTheorems, TLAPS

-----------------------------------------------------------------------------
(* The inductive invariant *)

Types == {"LOAD", "RFO", "PREFETCH", "WRITEBACK"}
Levels == {1, 2, 4}

\* A packet or entry that is to be returned to an L1 fills up to there.
FillsUp(p) == p.fill # {} => p.level = 1

PacketType ==
  {p \in [line : Lines, type : Types, level : Levels, fill : SUBSET L1] : FillsUp(p)}
EntryType ==
  {e \in [line : Lines, type : Types, level : Levels, fill : SUBSET L1, returned : BOOLEAN] :
     FillsUp(e)}
BlockType == [line : Lines \cup {NoLine}, dirty : BOOLEAN]

\* What the queues of cache c hold.  Reads come from the core or from an L1 that
\* misses, stores from the core, write-backs from the L1D; the prefetches of an L1
\* that are to fill it name it, the others name nobody.
Reads(c) == {p \in PacketType : p.level = 1 /\ p.fill # {} /\ (c \in L1 => p.fill = {c})}
Writes(c) == {p \in PacketType : c \in L1 => (p.level = 1 /\ p.fill = {c})}
Prefs(c) ==
  {p \in PacketType : c \in L1 => (p.fill \subseteq {c} /\ (p.level = 1 => p.fill = {c}))}

ReadKinds == [c \in Caches |-> Reads(c)]
WriteKinds == [c \in Caches |-> Writes(c)]
PrefKinds == [c \in Caches |-> Prefs(c)]

\* The queues of one kind, within their sizes.
QueuesOK(q, size, kinds) ==
  DOMAIN q = Caches /\ \A c \in Caches : q[c] \in Seq(kinds[c]) /\ Len(q[c]) <= size[c]

\* The MSHRs: an entry is found at its line.
MshrOK(m) ==
  /\ m \in [Caches -> [Lines -> EntryType \cup {NoEntry}]]
  /\ \A c \in Caches, a \in Lines : m[c][a] # NoEntry => m[c][a].line = a

Occ(m, c) == {a \in Lines : m[c][a] # NoEntry}
Within(m) == \A c \in Caches : IsFiniteSet(Occ(m, c)) /\ Cardinality(Occ(m, c)) <= MshrSize[c]

BlocksOK(b) ==
  /\ DOMAIN b = Caches
  /\ \A c \in Caches : b[c] \in [1 .. Ways[c] -> BlockType]
  /\ \A c \in Caches : \A w \in 1 .. Ways[c] : b[c][w].line = NoLine => ~b[c][w].dirty

Typed ==
  /\ QueuesOK(rq, RqSize, ReadKinds) /\ QueuesOK(wq, WqSize, WriteKinds)
  /\ QueuesOK(pq, PqSize, PrefKinds)
  /\ MshrOK(mshr) /\ Within(mshr) /\ BlocksOK(block)
  /\ llc \subseteq Lines
  /\ pending \in [L1 -> SUBSET Lines]

\* An L1 holds a line once, and does not wait for it.
Single(b, m) ==
  \A u \in L1 : \A w \in 1 .. Ways[u] :
    b[u][w].line # NoLine =>
      /\ m[u][b[u][w].line] = NoEntry
      /\ \A x \in 1 .. Ways[u] : b[u][x].line = b[u][w].line => x = w

CacheInv == Typed /\ Single(block, mshr)

-----------------------------------------------------------------------------
(* Sequences and sets *)

\* A function on 1 .. n is a sequence of length n.
LEMMA FunctionIsSeq ==
  ASSUME NEW S, NEW n \in Nat, NEW f \in [1 .. n -> S]
  PROVE  f \in Seq(S) /\ Len(f) = n /\ DOMAIN f = 1 .. n
<1>1. f \in Seq(S)  BY SeqDef
<1>2. DOMAIN f = 1 .. n /\ DOMAIN f = 1 .. Len(f) /\ Len(f) \in Nat
  BY <1>1, LenProperties
<1> QED  BY <1>1, <1>2

\* What every sequence has.
LEMMA SeqElements ==
  ASSUME NEW S, NEW s \in Seq(S)
  PROVE  Len(s) \in Nat /\ DOMAIN s = 1 .. Len(s) /\ \A k \in DOMAIN s : s[k] \in S
<1>1. Len(s) \in Nat /\ DOMAIN s = 1 .. Len(s) /\ s \in [1 .. Len(s) -> S]
  BY LenProperties, Zenon
<1> QED  BY <1>1

\* The head of a queue and what it leaves.
LEMMA Popped ==
  ASSUME NEW S, NEW s \in Seq(S), s # <<>>
  PROVE  /\ Len(s) \in Nat \ {0} /\ DOMAIN s = 1 .. Len(s) /\ Head(s) = s[1] /\ Head(s) \in S
         /\ Tail(s) \in Seq(S) /\ Len(Tail(s)) = Len(s) - 1 /\ DOMAIN Tail(s) = 1 .. Len(s) - 1
         /\ \A i \in 1 .. Len(s) - 1 : Tail(s)[i] = s[i + 1]
<1>1. /\ Len(s) \in Nat \ {0} /\ DOMAIN s = 1 .. Len(s)
      /\ Head(s) \in S /\ Tail(s) \in Seq(S) /\ Len(Tail(s)) = Len(s) - 1
      /\ \A i \in 1 .. Len(Tail(s)) : Tail(s)[i] = s[i + 1]
  BY EmptySeq, HeadTailProperties, SeqElements
<1>2. DOMAIN Tail(s) = 1 .. Len(s) - 1  BY <1>1, SeqElements
<1>3. Head(s) = s[1]  OBVIOUS
<1> QED  BY <1>1, <1>2, <1>3

\* A queue and its new last element.
LEMMA Pushed ==
  ASSUME NEW S, NEW s \in Seq(S), NEW x \in S
  PROVE  /\ Append(s, x) \in Seq(S) /\ Len(Append(s, x)) = Len(s) + 1 /\ Len(s) \in Nat
         /\ DOMAIN s = 1 .. Len(s) /\ DOMAIN Append(s, x) = 1 .. Len(s) + 1
         /\ \A i \in 1 .. Len(s) : Append(s, x)[i] = s[i]
         /\ Append(s, x)[Len(s) + 1] = x
<1> DEFINE r == Append(s, x)
<1>1. /\ r \in Seq(S) /\ Len(r) = Len(s) + 1 /\ Len(s) \in Nat /\ DOMAIN s = 1 .. Len(s)
      /\ \A i \in 1 .. Len(s) : r[i] = s[i]
      /\ r[Len(s) + 1] = x
  BY AppendProperties, SeqElements
<1> HIDE DEF r
<1>2. DOMAIN r = 1 .. Len(s) + 1  BY <1>1, SeqElements
<1> QED  BY <1>1, <1>2 DEF r

-----------------------------------------------------------------------------
(* Queues *)

LEMMA CachesFacts ==
  /\ "L1I" \in Caches /\ "L1D" \in Caches /\ "L2C" \in Caches
  /\ L1 \subseteq Caches /\ "L2C" \notin L1 /\ "L1I" \in L1 /\ "L1D" \in L1
  /\ "L1I" # "L1D"
  /\ \A c \in Caches : c \in L1 \/ c = "L2C"
  /\ \A u \in L1 : u = "L1I" \/ u = "L1D"
BY DEF Caches, L1

LEMMA SizesType ==
  ASSUME NEW c \in Caches
  PROVE  /\ Ways[c] \in Nat \ {0} /\ MshrSize[c] \in Nat \ {0}
         /\ RqSize[c] \in Nat \ {0} /\ WqSize[c] \in Nat \ {0} /\ PqSize[c] \in Nat \ {0}
BY HierarchyAssumption

\* r is q with s for its queue at c.
Replaced(q, r, c, s, size, kinds) ==
  /\ QueuesOK(r, size, kinds)
  /\ r[c] = s
  /\ \A d \in Caches : d # c => r[d] = q[d]

LEMMA QueueReplaced ==
  ASSUME NEW q, NEW size, NEW kinds, QueuesOK(q, size, kinds), NEW c \in Caches,
         NEW s, s \in Seq(kinds[c]), Len(s) <= size[c]
  PROVE  Replaced(q, [q EXCEPT ![c] = s], c, s, size, kinds)
BY DEF QueuesOK, Replaced

\* A queue loses its head.
LEMMA QueuePopped ==
  ASSUME NEW q, NEW size, NEW kinds, QueuesOK(q, size, kinds), NEW c \in Caches, q[c] # <<>>,
         size[c] \in Nat
  PROVE  /\ Replaced(q, [q EXCEPT ![c] = Tail(@)], c, Tail(q[c]), size, kinds)
         /\ Head(q[c]) \in kinds[c]
<1>1. q[c] \in Seq(kinds[c]) /\ Len(q[c]) <= size[c]  BY DEF QueuesOK
<1>2. /\ Head(q[c]) \in kinds[c] /\ Tail(q[c]) \in Seq(kinds[c])
      /\ Len(Tail(q[c])) = Len(q[c]) - 1 /\ Len(q[c]) \in Nat
  BY <1>1, Popped
<1>3. Len(Tail(q[c])) <= size[c]  BY <1>1, <1>2
<1>4. Replaced(q, [q EXCEPT ![c] = Tail(q[c])], c, Tail(q[c]), size, kinds)
  BY <1>2, <1>3, QueueReplaced, Zenon
<1> QED  BY <1>2, <1>4

\* A queue gains an element.
LEMMA QueuePushed ==
  ASSUME NEW q, NEW size, NEW kinds, QueuesOK(q, size, kinds), NEW c \in Caches, size[c] \in Nat,
         Len(q[c]) < size[c] \/ Len(q[c]) # size[c], NEW p, p \in kinds[c]
  PROVE  Replaced(q, [q EXCEPT ![c] = Append(@, p)], c, Append(q[c], p), size, kinds)
<1>1. q[c] \in Seq(kinds[c]) /\ Len(q[c]) <= size[c]  BY DEF QueuesOK
<1> DEFINE K == kinds[c]
           t == q[c]
<1>a. t \in Seq(K) /\ p \in K  BY <1>1
<1> HIDE DEF K, t
<1>b. Append(t, p) \in Seq(K) /\ Len(Append(t, p)) = Len(t) + 1 /\ Len(t) \in Nat
  BY <1>a, Pushed
<1>2. /\ Append(q[c], p) \in Seq(kinds[c]) /\ Len(Append(q[c], p)) = Len(q[c]) + 1
      /\ Len(q[c]) \in Nat
  BY <1>b DEF K, t
<1>3. Len(Append(q[c], p)) <= size[c]  BY <1>1, <1>2
<1>4. Replaced(q, [q EXCEPT ![c] = Append(q[c], p)], c, Append(q[c], p), size, kinds)
  BY <1>2, <1>3, QueueReplaced, Zenon
<1> QED  BY <1>4

-----------------------------------------------------------------------------
(* Merging *)

\* r is s with the flags of p added at the line of p.
MergedAs(s, r, p) ==
  /\ Len(r) = Len(s) /\ DOMAIN r = DOMAIN s
  /\ \A i \in DOMAIN s :
       /\ r[i].line = s[i].line
       /\ r[i].fill = IF s[i].line = p.line THEN s[i].fill \cup p.fill ELSE s[i].fill

\* MergePq raises the level of the packets it merges into.
LEMMA PrefMet ==
  ASSUME NEW c \in Caches, NEW e \in Prefs(c), NEW p \in Prefs(c)
  PROVE  LET f == [e EXCEPT !.fill = @ \cup p.fill, !.level = MinLevel(@, p.level)]
         IN f \in Prefs(c) /\ f.line = e.line /\ f.fill = e.fill \cup p.fill
<1> DEFINE f == [e EXCEPT !.fill = @ \cup p.fill, !.level = MinLevel(@, p.level)]
<1>0. /\ e \in [line : Lines, type : Types, level : Levels, fill : SUBSET L1]
      /\ p \in [line : Lines, type : Types, level : Levels, fill : SUBSET L1]
      /\ FillsUp(e) /\ FillsUp(p)
  BY DEF Prefs, PacketType
<1> DEFINE g == [e EXCEPT !.fill = @ \cup p.fill]
           h == [g EXCEPT !.level = MinLevel(e.level, p.level)]
           Fields == [line : Lines, type : Types, level : Levels, fill : SUBSET L1]
<1>a. g \in Fields /\ g.line = e.line /\ g.fill = e.fill \cup p.fill /\ g.level = e.level
  BY <1>0
<1>b. f = h  OBVIOUS
<1>2. /\ MinLevel(e.level, p.level) \in Levels
      /\ MinLevel(e.level, p.level) = 1 <=> (e.level = 1 \/ p.level = 1)
  BY <1>0 DEF MinLevel, Levels
<1> HIDE DEF g
<1>1. /\ h \in Fields /\ h.line = e.line /\ h.fill = e.fill \cup p.fill
      /\ h.level = MinLevel(e.level, p.level)
  BY <1>a, <1>2
<1> HIDE DEF h, f
<1>4. f \in Fields /\ f.line = e.line /\ f.fill = e.fill \cup p.fill
      /\ f.level = MinLevel(e.level, p.level)
  BY <1>b, <1>1
<1>5. FillsUp(f)  BY <1>0, <1>4, <1>2 DEF FillsUp
<1>6. c \in L1 => (f.fill \subseteq {c} /\ (f.level = 1 => f.fill = {c}))
  BY <1>4, <1>2 DEF Prefs
<1>7. f \in Prefs(c)  BY <1>4, <1>5, <1>6 DEF Prefs, PacketType
<1> QED  BY <1>4, <1>7 DEF f

LEMMA PrefsMerged ==
  ASSUME NEW c \in Caches, NEW s \in Seq(Prefs(c)), NEW p \in Prefs(c)
  PROVE  MergePq(s, p) \in Seq(Prefs(c)) /\ MergedAs(s, MergePq(s, p), p)
<1>1. Len(s) \in Nat /\ DOMAIN s = 1 .. Len(s) /\ \A k \in DOMAIN s : s[k] \in Prefs(c)
  BY SeqElements, Zenon
<1> DEFINE r == MergePq(s, p)
           Met(e) == [e EXCEPT !.fill = @ \cup p.fill, !.level = MinLevel(@, p.level)]
<1>2. \A e \in Prefs(c) : Met(e) \in Prefs(c) /\ Met(e).line = e.line /\ Met(e).fill = e.fill \cup p.fill
  BY PrefMet
<1>3. r = [i \in DOMAIN s |-> IF s[i].line = p.line THEN Met(s[i]) ELSE s[i]]
  BY DEF MergePq
<1> HIDE DEF Met, r
<1>4. r \in [1 .. Len(s) -> Prefs(c)]  BY <1>1, <1>2, <1>3
<1>5. \A i \in DOMAIN s : /\ r[i].line = s[i].line
                          /\ r[i].fill = IF s[i].line = p.line THEN s[i].fill \cup p.fill ELSE s[i].fill
  BY <1>1, <1>2, <1>3
<1>6. r \in Seq(Prefs(c)) /\ Len(r) = Len(s) /\ DOMAIN r = DOMAIN s  BY <1>1, <1>4, FunctionIsSeq
<1> QED  BY <1>5, <1>6 DEF r, MergedAs

LEMMA ReadMet ==
  ASSUME NEW e \in Reads("L2C"), NEW p \in Reads("L2C")
  PROVE  LET f == [e EXCEPT !.fill = @ \cup p.fill]
         IN f \in Reads("L2C") /\ f.line = e.line /\ f.fill = e.fill \cup p.fill
<1> DEFINE f == [e EXCEPT !.fill = @ \cup p.fill]
<1>0. /\ e \in [line : Lines, type : Types, level : Levels, fill : SUBSET L1]
      /\ p.fill \in SUBSET L1 /\ e.level = 1 /\ e.fill # {}
  BY DEF Reads, PacketType
<1>1. /\ f.line = e.line /\ f.type = e.type /\ f.fill = e.fill \cup p.fill /\ f.level = e.level
      /\ f \in [line : Lines, type : Types, level : Levels, fill : SUBSET L1]
  BY <1>0
<1> HIDE DEF f
<1>2. f \in Reads("L2C")  BY <1>0, <1>1, CachesFacts DEF Reads, PacketType, FillsUp
<1> QED  BY <1>1, <1>2 DEF f

LEMMA ReadsMerged ==
  ASSUME NEW s \in Seq(Reads("L2C")), NEW p \in Reads("L2C")
  PROVE  Merge(s, p) \in Seq(Reads("L2C")) /\ MergedAs(s, Merge(s, p), p)
<1>1. Len(s) \in Nat /\ DOMAIN s = 1 .. Len(s) /\ \A k \in DOMAIN s : s[k] \in Reads("L2C")
  BY SeqElements, Zenon
<1> DEFINE r == Merge(s, p)
           Met(e) == [e EXCEPT !.fill = @ \cup p.fill]
<1>2. \A e \in Reads("L2C") : Met(e) \in Reads("L2C") /\ Met(e).line = e.line
                              /\ Met(e).fill = e.fill \cup p.fill
  BY ReadMet
<1>3. r = [i \in DOMAIN s |-> IF s[i].line = p.line THEN Met(s[i]) ELSE s[i]]
  BY DEF Merge
<1> HIDE DEF Met, r
<1>4. r \in [1 .. Len(s) -> Reads("L2C")]  BY <1>1, <1>2, <1>3
<1>5. \A i \in DOMAIN s : /\ r[i].line = s[i].line
                          /\ r[i].fill = IF s[i].line = p.line THEN s[i].fill \cup p.fill ELSE s[i].fill
  BY <1>1, <1>2, <1>3
<1>6. r \in Seq(Reads("L2C")) /\ Len(r) = Len(s) /\ DOMAIN r = DOMAIN s
  BY <1>1, <1>4, FunctionIsSeq
<1> QED  BY <1>5, <1>6 DEF r, MergedAs

-----------------------------------------------------------------------------
(* MSHR entries *)

Returned(e) == [e EXCEPT !.returned = TRUE]

LEMMA NoEntryFacts ==
  /\ NoEntry \notin EntryType /\ NoEntry.fill = {} /\ NoEntry.line \notin Lines
BY HierarchyAssumption DEF NoEntry, EntryType

LEMMA ReturnedFacts ==
  ASSUME NEW e \in EntryType
  PROVE  /\ Returned(e) \in EntryType /\ Returned(e) # NoEntry
         /\ Returned(e).line = e.line /\ Returned(e).fill = e.fill /\ Returned(e).level = e.level
         /\ Returned(e).type = e.type /\ Returned(e).returned
<1>1. ASSUME NEW b \in BOOLEAN
      PROVE  LET f == [e EXCEPT !.returned = b]
             IN /\ f \in EntryType /\ f.line = e.line /\ f.fill = e.fill /\ f.level = e.level
                /\ f.type = e.type /\ f.returned = b
  BY DEF EntryType, FillsUp
<1>2. TRUE \in BOOLEAN  OBVIOUS
<1> QED  BY <1>1, <1>2, NoEntryFacts, Zenon DEF Returned

\* n is m with the entry of line a at cache c set to e.
PutAs(m, n, c, a, e) ==
  /\ MshrOK(n)
  /\ n[c][a] = e
  /\ \A d \in Caches, x \in Lines : d # c \/ x # a => n[d][x] = m[d][x]

LEMMA EntryPut ==
  ASSUME NEW m, MshrOK(m), NEW c \in Caches, NEW a \in Lines, NEW e,
         e = NoEntry \/ (e \in EntryType /\ e.line = a)
  PROVE  PutAs(m, [m EXCEPT ![c][a] = e], c, a, e)
<1> DEFINE n == [m EXCEPT ![c][a] = e]
<1>1. n \in [Caches -> [Lines -> EntryType \cup {NoEntry}]]  BY DEF MshrOK
<1>2. n[c][a] = e  BY DEF MshrOK
<1>3. \A d \in Caches, x \in Lines : d # c \/ x # a => n[d][x] = m[d][x]  BY DEF MshrOK
<1> HIDE DEF n
<1>4. MshrOK(n)  BY <1>1, <1>2, <1>3 DEF MshrOK
<1> QED  BY <1>2, <1>3, <1>4 DEF PutAs, n

\* n is m with the entries of line a at the caches of U completed.
AnsweredAs(m, n, U, a) ==
  /\ MshrOK(n)
  /\ \A c \in Caches, x \in Lines :
       n[c][x] = IF c \in U /\ x = a /\ m[c][x] # NoEntry THEN Returned(m[c][x]) ELSE m[c][x]

\* A completed entry is still there, with its flags.
LEMMA AnsweredFacts ==
  ASSUME NEW m, NEW n, NEW U, NEW a, MshrOK(m), AnsweredAs(m, n, U, a)
  PROVE  /\ \A c \in Caches, x \in Lines :
              /\ n[c][x] = NoEntry <=> m[c][x] = NoEntry
              /\ n[c][x].fill = m[c][x].fill
         /\ \A c \in Caches : Occ(n, c) = Occ(m, c)
<1>1. ASSUME NEW c \in Caches, NEW x \in Lines
      PROVE  (n[c][x] = NoEntry <=> m[c][x] = NoEntry) /\ n[c][x].fill = m[c][x].fill
  <2>1. m[c][x] \in EntryType \/ m[c][x] = NoEntry  BY DEF MshrOK
  <2> QED  BY <2>1, ReturnedFacts DEF AnsweredAs
<1> QED  BY <1>1 DEF Occ

LEMMA AnsweredNobody ==
  ASSUME NEW m, NEW a, MshrOK(m)
  PROVE  AnsweredAs(m, m, {}, a)
BY DEF AnsweredAs

LEMMA ReturnDataIs ==
  ASSUME NEW m, MshrOK(m), NEW u \in Caches, NEW a \in Lines
  PROVE  AnsweredAs(m, ReturnData(m, u, a), {u}, a)
<1>1. CASE m[u][a] = NoEntry
  BY <1>1 DEF ReturnData, AnsweredAs
<1>2. CASE m[u][a] # NoEntry
  <2>1. m[u][a] \in EntryType /\ m[u][a].line = a  BY <1>2 DEF MshrOK
  <2> DEFINE e == Returned(m[u][a])
             n == [m EXCEPT ![u][a] = e]
  <2>2. e \in EntryType /\ e.line = a  BY <2>1, ReturnedFacts
  <2>3. ReturnData(m, u, a) = n  BY <1>2 DEF ReturnData, Returned
  <2> HIDE DEF e
  <2>4. PutAs(m, n, u, a, e)  BY <2>2, EntryPut
  <2> HIDE DEF n
  <2>5. AnsweredAs(m, n, {u}, a)  BY <1>2, <2>4 DEF PutAs, AnsweredAs, e
  <2> QED  BY <2>3, <2>5
<1> QED  BY <1>1, <1>2

\* The upper caches a packet of cache c is to be returned to.
Uppers(c, p) == IF c = "L2C" THEN p.fill ELSE {}

LEMMA AnswerIs ==
  ASSUME NEW m, MshrOK(m), NEW c \in Caches, NEW p, p.line \in Lines, p.level \in Levels,
         p.fill \subseteq L1, FillsUp(p)
  PROVE  AnsweredAs(m, Answer(m, c, p), Uppers(c, p), p.line)
<1>1. CASE p.level < FillLevel(c)
  <2>1. c = "L2C"  BY <1>1 DEF FillLevel, Levels
  <2> DEFINE n == [u \in Caches |-> IF u \in p.fill THEN ReturnData(m, u, p.line)[u] ELSE m[u]]
  <2>2. Answer(m, c, p) = n  BY <1>1 DEF Answer
  <2>3. \A u \in Caches : AnsweredAs(m, ReturnData(m, u, p.line), {u}, p.line)  BY ReturnDataIs
  <2>4. ASSUME NEW u \in Caches
        PROVE  /\ n[u] \in [Lines -> EntryType \cup {NoEntry}]
               /\ \A x \in Lines :
                    n[u][x] = IF u \in p.fill /\ x = p.line /\ m[u][x] # NoEntry
                              THEN Returned(m[u][x]) ELSE m[u][x]
    <3>1. CASE u \in p.fill
      <4> DEFINE r == ReturnData(m, u, p.line)
      <4>1. n[u] = r[u]  BY <3>1
      <4>2. AnsweredAs(m, r, {u}, p.line)  BY <2>3
      <4> HIDE DEF n, r
      <4> QED  BY <3>1, <4>1, <4>2 DEF AnsweredAs, MshrOK
    <3>2. CASE u \notin p.fill
      <4>1. n[u] = m[u]  BY <3>2
      <4> HIDE DEF n
      <4> QED  BY <3>2, <4>1 DEF MshrOK
    <3> QED  BY <3>1, <3>2
  <2>5. n \in [Caches -> [Lines -> EntryType \cup {NoEntry}]]  BY <2>4
  <2> HIDE DEF n
  <2>6. \A u \in Caches, x \in Lines : n[u][x] # NoEntry => n[u][x].line = x
    <3> SUFFICES ASSUME NEW u \in Caches, NEW x \in Lines, n[u][x] # NoEntry
                 PROVE  n[u][x].line = x
      OBVIOUS
    <3>1. m[u][x] # NoEntry  BY <2>4
    <3>2. m[u][x] \in EntryType /\ m[u][x].line = x  BY <3>1 DEF MshrOK
    <3> QED  BY <2>4, <3>2, ReturnedFacts
  <2>7. AnsweredAs(m, n, p.fill, p.line)  BY <2>4, <2>5, <2>6 DEF AnsweredAs, MshrOK
  <2> QED  BY <2>1, <2>2, <2>7 DEF Uppers
<1>2. CASE ~(p.level < FillLevel(c))
  <2>1. Answer(m, c, p) = m  BY <1>2 DEF Answer
  <2>2. Uppers(c, p) = {}
    BY <1>2 DEF FillLevel, Levels, Uppers, FillsUp
  <2> QED  BY <2>1, <2>2, AnsweredNobody
<1> QED  BY <1>1, <1>2

-----------------------------------------------------------------------------
(* The calls on the lower level *)

\* What LowerRead does: the L2C asks the LLC; for an L1 the write queue answers, or
\* the read queue takes the packet, as a new one or merged, or is full.
LoweredAnswered(c, p, q, m) ==
  c \in L1 /\ llc' = llc /\ rq' = q /\ AnsweredAs(m, mshr', p.fill, p.line)
LoweredQueued(c, p, q, m) ==
  /\ c \in L1 /\ llc' = llc /\ mshr' = m
  /\ \/ /\ Queued(q["L2C"], p.line)
        /\ Replaced(q, rq', "L2C", Merge(q["L2C"], p), RqSize, ReadKinds)
     \/ /\ ~Queued(q["L2C"], p.line) /\ Len(q["L2C"]) # RqSize["L2C"]
        /\ Replaced(q, rq', "L2C", Append(q["L2C"], p), RqSize, ReadKinds)
LoweredFull(c, p, q, m) ==
  /\ c \in L1 /\ llc' = llc /\ mshr' = m /\ rq' = q
  /\ ~Queued(q["L2C"], p.line) /\ Len(q["L2C"]) = RqSize["L2C"]
LoweredOut(c, p, q, m) == c = "L2C" /\ llc' = llc \cup {p.line} /\ mshr' = m /\ rq' = q

LEMMA LowerReadIs ==
  ASSUME NEW c \in Caches, NEW p, p \in Reads(c), NEW q, NEW m,
         QueuesOK(q, RqSize, ReadKinds), MshrOK(m), LowerRead(c, p, q, m)
  PROVE  \/ LoweredOut(c, p, q, m) \/ LoweredAnswered(c, p, q, m)
         \/ LoweredQueued(c, p, q, m) \/ LoweredFull(c, p, q, m)
<1>1. CASE c = "L2C"  BY <1>1 DEF LowerRead, LoweredOut
<1>2. CASE c # "L2C"
  <2>0. c \in L1 /\ llc' = llc  BY <1>2, CachesFacts DEF LowerRead
  <2>1. p \in Reads("L2C") /\ p \in PacketType /\ p.line \in Lines /\ p.level \in Levels
        /\ p.fill \subseteq L1 /\ FillsUp(p)
    BY CachesFacts DEF Reads, PacketType
  <2>2. q["L2C"] \in Seq(Reads("L2C")) /\ Len(q["L2C"]) <= RqSize["L2C"] /\ RqSize["L2C"] \in Nat
    BY CachesFacts, SizesType DEF QueuesOK, ReadKinds
  <2>3. CASE Queued(wq["L2C"], p.line)
    <3>1. rq' = q /\ mshr' = Answer(m, "L2C", p)  BY <1>2, <2>3 DEF LowerRead
    <3>2. "L2C" \in Caches /\ Uppers("L2C", p) = p.fill  BY CachesFacts DEF Uppers
    <3>3. AnsweredAs(m, Answer(m, "L2C", p), Uppers("L2C", p), p.line)
      BY <2>1, <3>2, AnswerIs
    <3> QED  BY <2>0, <3>1, <3>2, <3>3 DEF LoweredAnswered
  <2>4. CASE ~Queued(wq["L2C"], p.line) /\ Queued(q["L2C"], p.line)
    <3>1. rq' = [q EXCEPT !["L2C"] = Merge(q["L2C"], p)] /\ mshr' = m
      BY <1>2, <2>4 DEF LowerRead
    <3>2. Merge(q["L2C"], p) \in Seq(Reads("L2C")) /\ MergedAs(q["L2C"], Merge(q["L2C"], p), p)
      BY <2>1, <2>2, ReadsMerged
    <3>3. Len(Merge(q["L2C"], p)) <= RqSize["L2C"]  BY <2>2, <3>2 DEF MergedAs
    <3>4. "L2C" \in Caches /\ ReadKinds["L2C"] = Reads("L2C")  BY CachesFacts DEF ReadKinds
    <3>5. Merge(q["L2C"], p) \in Seq(ReadKinds["L2C"])  BY <3>2, <3>4
    <3>6. Replaced(q, [q EXCEPT !["L2C"] = Merge(q["L2C"], p)], "L2C", Merge(q["L2C"], p),
                   RqSize, ReadKinds)
      BY <3>3, <3>4, <3>5, QueueReplaced, Zenon
    <3> QED  BY <2>0, <2>4, <3>1, <3>6 DEF LoweredQueued
  <2>5. CASE ~Queued(wq["L2C"], p.line) /\ ~Queued(q["L2C"], p.line)
             /\ Len(q["L2C"]) = RqSize["L2C"]
    BY <1>2, <2>0, <2>5 DEF LowerRead, LoweredFull
  <2>6. CASE ~Queued(wq["L2C"], p.line) /\ ~Queued(q["L2C"], p.line)
             /\ Len(q["L2C"]) # RqSize["L2C"]
    <3>1. rq' = [q EXCEPT !["L2C"] = Append(q["L2C"], p)] /\ mshr' = m
      BY <1>2, <2>6 DEF LowerRead
    <3>2. "L2C" \in Caches /\ p \in ReadKinds["L2C"]  BY <2>1, CachesFacts DEF ReadKinds
    <3>3. Replaced(q, [q EXCEPT !["L2C"] = Append(q["L2C"], p)], "L2C", Append(q["L2C"], p),
                   RqSize, ReadKinds)
      BY <2>2, <2>6, <3>2, QueuePushed, Zenon
    <3> QED  BY <2>0, <2>6, <3>1, <3>3 DEF LoweredQueued
  <2> QED  BY <2>3, <2>4, <2>5, <2>6
<1> QED  BY <1>1, <1>2

\* What AddPq does to the prefetch queue of c.
AskedAnswered(c, p, q, m) == pq' = q /\ AnsweredAs(m, mshr', Uppers(c, p), p.line)
AskedQueued(c, p, q, m) ==
  /\ mshr' = m
  /\ \/ /\ Queued(q[c], p.line)
        /\ Replaced(q, pq', c, MergePq(q[c], p), PqSize, PrefKinds)
     \/ /\ ~Queued(q[c], p.line) /\ Len(q[c]) # PqSize[c]
        /\ Replaced(q, pq', c, Append(q[c], p), PqSize, PrefKinds)
AskedFull(c, p, q, m) ==
  mshr' = m /\ pq' = q /\ ~Queued(q[c], p.line) /\ Len(q[c]) = PqSize[c]

LEMMA AddPqIs ==
  ASSUME NEW c \in Caches, NEW p, p \in Prefs(c), NEW q, NEW m,
         QueuesOK(q, PqSize, PrefKinds), MshrOK(m), AddPq(c, p, q, m)
  PROVE  AskedAnswered(c, p, q, m) \/ AskedQueued(c, p, q, m) \/ AskedFull(c, p, q, m)
<1>1. p \in PacketType /\ p.line \in Lines /\ p.level \in Levels /\ p.fill \subseteq L1 /\ FillsUp(p)
  BY DEF Prefs, PacketType
<1>2. q[c] \in Seq(Prefs(c)) /\ Len(q[c]) <= PqSize[c] /\ PqSize[c] \in Nat
  BY SizesType DEF QueuesOK, PrefKinds
<1>3. CASE c # "L1D" /\ Queued(wq[c], p.line)
  <2>1. pq' = q /\ mshr' = Answer(m, c, p)  BY <1>3 DEF AddPq
  <2>2. AnsweredAs(m, Answer(m, c, p), Uppers(c, p), p.line)  BY <1>1, AnswerIs
  <2> QED  BY <2>1, <2>2 DEF AskedAnswered
<1>4. CASE ~(c # "L1D" /\ Queued(wq[c], p.line)) /\ Queued(q[c], p.line)
  <2>1. pq' = [q EXCEPT ![c] = MergePq(q[c], p)] /\ mshr' = m  BY <1>4 DEF AddPq
  <2>2. MergePq(q[c], p) \in Seq(Prefs(c)) /\ MergedAs(q[c], MergePq(q[c], p), p)
    BY <1>2, PrefsMerged
  <2>3. Len(MergePq(q[c], p)) <= PqSize[c]  BY <1>2, <2>2 DEF MergedAs
  <2>4. MergePq(q[c], p) \in Seq(PrefKinds[c])  BY <2>2 DEF PrefKinds
  <2>5. Replaced(q, [q EXCEPT ![c] = MergePq(q[c], p)], c, MergePq(q[c], p), PqSize, PrefKinds)
    BY <2>3, <2>4, QueueReplaced, Zenon
  <2> QED  BY <1>4, <2>1, <2>5 DEF AskedQueued
<1>5. CASE ~(c # "L1D" /\ Queued(wq[c], p.line)) /\ ~Queued(q[c], p.line)
           /\ Len(q[c]) = PqSize[c]
  BY <1>5 DEF AddPq, AskedFull
<1>6. CASE ~(c # "L1D" /\ Queued(wq[c], p.line)) /\ ~Queued(q[c], p.line)
           /\ Len(q[c]) # PqSize[c]
  <2>1. pq' = [q EXCEPT ![c] = Append(q[c], p)] /\ mshr' = m  BY <1>6 DEF AddPq
  <2>2. p \in PrefKinds[c]  BY DEF PrefKinds
  <2>3. Replaced(q, [q EXCEPT ![c] = Append(q[c], p)], c, Append(q[c], p), PqSize, PrefKinds)
    BY <1>2, <1>6, <2>2, QueuePushed, Zenon
  <2> QED  BY <1>6, <2>1, <2>3 DEF AskedQueued
<1> QED  BY <1>3, <1>4, <1>5, <1>6

-----------------------------------------------------------------------------
(* New entries, merged entries and their number *)

EntryOf(p, done) ==
  [line |-> p.line, type |-> p.type, level |-> p.level, fill |-> p.fill, returned |-> done]

LEMMA EntryOfFacts ==
  ASSUME NEW p \in PacketType, NEW done \in BOOLEAN
  PROVE  /\ EntryOf(p, done) \in EntryType /\ EntryOf(p, done).line = p.line
         /\ EntryOf(p, done).fill = p.fill /\ EntryOf(p, done).returned = done
         /\ EntryOf(p, done).level = p.level
BY DEF EntryOf, PacketType, EntryType, FillsUp

LEMMA AddMshrIs ==
  ASSUME NEW m, MshrOK(m), NEW c \in Caches, NEW p \in PacketType
  PROVE  PutAs(m, AddMshr(m, c, p), c, p.line, EntryOf(p, FALSE))
<1> DEFINE e == EntryOf(p, FALSE)
<1>1. AddMshr(m, c, p) = [m EXCEPT ![c][p.line] = e]  BY DEF AddMshr, EntryOf
<1>2. FALSE \in BOOLEAN  OBVIOUS
<1>3. e \in EntryType /\ e.line = p.line  BY <1>2, EntryOfFacts
<1>4. p.line \in Lines  BY DEF PacketType
<1> HIDE DEF e
<1>5. PutAs(m, [m EXCEPT ![c][p.line] = e], c, p.line, e)  BY <1>3, <1>4, EntryPut
<1> QED  BY <1>1, <1>5 DEF e

\* What a merge leaves: an entry of the line, with the flags of the packet.
MergedEntry(e, p, f) ==
  /\ f \in EntryType /\ f.line = e.line /\ f.returned = e.returned
  /\ f.fill = e.fill \cup p.fill \/ (e.type = "PREFETCH" /\ f.fill = p.fill)

\* What raising an entry leaves.
Raised(e, p, f) == MergedEntry(e, p, f) /\ f.fill = e.fill \cup p.fill

LEMMA RaiseEntry ==
  ASSUME NEW e \in EntryType, NEW p \in PacketType
  PROVE  Raised(e, p, RaiseMshr(e, p))
<1> DEFINE Fields == [line : Lines, type : Types, level : Levels, fill : SUBSET L1,
                      returned : BOOLEAN]
           f == RaiseMshr(e, p)
           g == [e EXCEPT !.fill = @ \cup p.fill]
           h == [g EXCEPT !.level = MinLevel(e.level, p.level)]
<1>0. e \in Fields /\ p.fill \in SUBSET L1 /\ p.level \in Levels /\ FillsUp(e) /\ FillsUp(p)
  BY DEF EntryType, PacketType
<1>1. /\ g \in Fields /\ g.line = e.line /\ g.fill = e.fill \cup p.fill /\ g.level = e.level
      /\ g.returned = e.returned
  BY <1>0
<1>2. f = h
  <2>1. h = [e EXCEPT !.fill = @ \cup p.fill, !.level = MinLevel(@, p.level)]  BY <1>0
  <2>2. [e EXCEPT !.fill = @ \cup p.fill, !.level = MinLevel(@, p.level)] = f
    BY <1>0 DEF EntryType, RaiseMshr
  <2> QED  BY <2>1, <2>2
<1>3. /\ MinLevel(e.level, p.level) \in Levels
      /\ MinLevel(e.level, p.level) = 1 <=> (e.level = 1 \/ p.level = 1)
  BY <1>0 DEF MinLevel, Levels
<1> HIDE DEF g
<1>4. /\ h \in Fields /\ h.line = e.line /\ h.fill = e.fill \cup p.fill
      /\ h.level = MinLevel(e.level, p.level) /\ h.returned = e.returned
  BY <1>1, <1>3
<1> HIDE DEF h
<1>5. FillsUp(h)  BY <1>0, <1>3, <1>4 DEF FillsUp
<1>6. Raised(e, p, h)  BY <1>4, <1>5 DEF Raised, MergedEntry, EntryType
<1> QED  BY <1>2, <1>6

LEMMA MergeMshrIs ==
  ASSUME NEW e \in EntryType, NEW p \in PacketType, e.line = p.line
  PROVE  MergedEntry(e, p, MergeMshr(e, p))
<1>1. CASE e.type = "PREFETCH"
  <2>1. MergeMshr(e, p) = EntryOf(p, e.returned)  BY <1>1 DEF MergeMshr, EntryOf
  <2>2. e.returned \in BOOLEAN  BY DEF EntryType
  <2>3. /\ EntryOf(p, e.returned) \in EntryType /\ EntryOf(p, e.returned).line = p.line
        /\ EntryOf(p, e.returned).fill = p.fill /\ EntryOf(p, e.returned).returned = e.returned
    BY <2>2, EntryOfFacts
  <2> QED  BY <1>1, <2>1, <2>3 DEF MergedEntry
<1>2. CASE e.type # "PREFETCH"
  <2>1. MergeMshr(e, p) = RaiseMshr(e, p)
    BY <1>2 DEF MergeMshr
  <2> QED  BY <2>1, RaiseEntry DEF Raised
<1> QED  BY <1>1, <1>2

\* An entry put where there is one, or where there is room.
LEMMA WithinPut ==
  ASSUME NEW m, NEW n, NEW c \in Caches, NEW a \in Lines, NEW e, Within(m), PutAs(m, n, c, a, e),
         e # NoEntry => (m[c][a] # NoEntry \/ Cardinality(Occ(m, c)) < MshrSize[c])
  PROVE  Within(n)
<1>1. ASSUME NEW d \in Caches, d # c
      PROVE  Occ(n, d) = Occ(m, d)
  BY <1>1 DEF PutAs, Occ
<1>2. IsFiniteSet(Occ(m, c)) /\ Cardinality(Occ(m, c)) <= MshrSize[c] /\ MshrSize[c] \in Nat
  BY SizesType DEF Within
<1>3. IsFiniteSet(Occ(n, c)) /\ Cardinality(Occ(n, c)) <= MshrSize[c]
  <2>1. CASE e = NoEntry \/ m[c][a] # NoEntry
    <3>1. Occ(n, c) \subseteq Occ(m, c)  BY <2>1 DEF PutAs, Occ
    <3>2. /\ IsFiniteSet(Occ(n, c)) /\ Cardinality(Occ(n, c)) <= Cardinality(Occ(m, c))
          /\ Cardinality(Occ(n, c)) \in Nat /\ Cardinality(Occ(m, c)) \in Nat
      BY <1>2, <3>1, FS_Subset, FS_CardinalityType
    <3> QED  BY <1>2, <3>2
  <2>2. CASE e # NoEntry /\ m[c][a] = NoEntry
    <3>1. Occ(n, c) = Occ(m, c) \cup {a}  BY <2>2 DEF PutAs, Occ
    <3>2. a \notin Occ(m, c)  BY <2>2 DEF Occ
    <3>3. /\ IsFiniteSet(Occ(n, c)) /\ Cardinality(Occ(n, c)) = Cardinality(Occ(m, c)) + 1
          /\ Cardinality(Occ(m, c)) \in Nat
      BY <1>2, <3>1, <3>2, FS_AddElement, FS_CardinalityType
    <3> QED  BY <1>2, <2>2, <3>3
  <2> QED  BY <2>1, <2>2
<1> QED  BY <1>1, <1>3 DEF Within

LEMMA WithinAnswered ==
  ASSUME NEW m, NEW n, NEW U, NEW a, MshrOK(m), Within(m), AnsweredAs(m, n, U, a)
  PROVE  MshrOK(n) /\ Within(n)
<1>1. \A c \in Caches : Occ(n, c) = Occ(m, c)  BY AnsweredFacts
<1> QED  BY <1>1 DEF Within, AnsweredAs

-----------------------------------------------------------------------------
(* Blocks *)

\* n is b with way w of cache c taken by line a.
InstalledAs(b, n, c, w, a, d) ==
  /\ BlocksOK(n)
  /\ n[c][w] = [line |-> a, dirty |-> d]
  /\ \A e \in Caches : \A x \in 1 .. Ways[e] : e # c \/ x # w => n[e][x] = b[e][x]

LEMMA BlockInstalled ==
  ASSUME NEW b, BlocksOK(b), NEW c \in Caches, NEW w \in 1 .. Ways[c], NEW a \in Lines,
         NEW d \in BOOLEAN
  PROVE  InstalledAs(b, [b EXCEPT ![c][w] = [line |-> a, dirty |-> d]], c, w, a, d)
<1> DEFINE v == [line |-> a, dirty |-> d]
           n == [b EXCEPT ![c][w] = v]
<1>1. v \in BlockType /\ v.line # NoLine  BY HierarchyAssumption DEF BlockType
<1> HIDE DEF v
<1>2. DOMAIN n = Caches /\ \A e \in Caches : n[e] \in [1 .. Ways[e] -> BlockType]
  BY <1>1 DEF BlocksOK
<1>3. n[c][w] = v /\ \A e \in Caches : \A x \in 1 .. Ways[e] : e # c \/ x # w => n[e][x] = b[e][x]
  BY DEF BlocksOK
<1> HIDE DEF n
<1>4. BlocksOK(n)  BY <1>1, <1>2, <1>3 DEF BlocksOK
<1> QED  BY <1>3, <1>4 DEF InstalledAs, n, v

LEMMA VictimsAreWays ==
  ASSUME BlocksOK(block), NEW c \in Caches
  PROVE  Victims(c) \subseteq 1 .. Ways[c] /\ DOMAIN block[c] = 1 .. Ways[c]
BY DEF Victims, Invalid, BlocksOK

\* A write-back leaves the write queue of the L2C with every line it had, and with
\* the modified line of an L1 that is replaced.
Evicted(c, w, q) ==
  /\ QueuesOK(wq', WqSize, WriteKinds)
  /\ \A d \in Caches : d # "L2C" => wq'[d] = q[d]
  /\ \A a \in Lines : Queued(q["L2C"], a) => Queued(wq'["L2C"], a)
  /\ c # "L2C" /\ block[c][w].dirty => Queued(wq'["L2C"], block[c][w].line)

LEMMA EvictIs ==
  ASSUME NEW c \in Caches, NEW w \in 1 .. Ways[c], BlocksOK(block), NEW q,
         QueuesOK(q, WqSize, WriteKinds), Evict(c, w, q)
  PROVE  Evicted(c, w, q)
<1> DEFINE v == block[c][w]
           p == Packet(v.line, "WRITEBACK", 2, {})
<1>1. CASE ~v.dirty \/ c = "L2C"
  BY <1>1 DEF Evict, Evicted
<1>2. CASE ~(~v.dirty \/ c = "L2C") /\ Queued(q["L2C"], v.line)
  <2>1. wq' = q  BY <1>2 DEF Evict
  <2> QED  BY <1>2, <2>1 DEF Evicted
<1>3. CASE ~(~v.dirty \/ c = "L2C") /\ ~Queued(q["L2C"], v.line)
  <2>1. Len(q["L2C"]) < WqSize["L2C"] /\ wq' = [q EXCEPT !["L2C"] = Append(q["L2C"], p)]
    BY <1>3 DEF Evict
  <2>2. v.line \in Lines  BY <1>3 DEF BlocksOK, BlockType
  <2>3. "L2C" \in Caches /\ WqSize["L2C"] \in Nat  BY CachesFacts, SizesType
  <2>4. p \in PacketType /\ p.line = v.line
    BY <2>2 DEF Packet, PacketType, Types, Levels, FillsUp
  <2> HIDE DEF p, v
  <2>5. p \in WriteKinds["L2C"]  BY <2>3, <2>4, CachesFacts DEF WriteKinds, Writes
  <2>6. Replaced(q, [q EXCEPT !["L2C"] = Append(q["L2C"], p)], "L2C", Append(q["L2C"], p),
                 WqSize, WriteKinds)
    BY <2>1, <2>3, <2>5, QueuePushed, Zenon
  <2> DEFINE s == q["L2C"]
             r == wq'["L2C"]
  <2>7. s \in Seq(WriteKinds["L2C"]) /\ r = Append(s, p)
    BY <2>1, <2>3, <2>6 DEF Replaced, QueuesOK
  <2> HIDE DEF s, r
  <2>8. /\ Len(s) \in Nat /\ DOMAIN s = 1 .. Len(s) /\ DOMAIN r = 1 .. Len(s) + 1
        /\ \A i \in 1 .. Len(s) : r[i] = s[i]
        /\ r[Len(s) + 1] = p
    BY <2>5, <2>7, Pushed
  <2>9. Queued(r, v.line) /\ \A a \in Lines : Queued(s, a) => Queued(r, a)
    BY <2>4, <2>8 DEF Queued
  <2> QED  BY <2>1, <2>6, <2>9 DEF Evicted, Replaced, r, s, v
<1> QED  BY <1>1, <1>2, <1>3

\* New entries only for lines the L1 does not hold.
LEMMA SingleKept ==
  ASSUME NEW b, NEW m, NEW n, BlocksOK(b), Single(b, m),
         \A u \in L1 : \A w \in 1 .. Ways[u] :
           b[u][w].line # NoLine /\ m[u][b[u][w].line] = NoEntry => n[u][b[u][w].line] = NoEntry
  PROVE  Single(b, n)
BY DEF Single

-----------------------------------------------------------------------------
(* Steps *)

LEMMA HeldLines ==
  ASSUME NEW b, BlocksOK(b)
  PROVE  \A c \in Caches : \A w \in 1 .. Ways[c] :
           b[c][w].line # NoLine => b[c][w].line \in Lines
BY DEF BlocksOK, BlockType

\* The parts of the invariant the MSHRs take part in.
MissesOK(b, m) == MshrOK(m) /\ Within(m) /\ Single(b, m)

LEMMA AnsweredStep ==
  ASSUME CacheInv, NEW n, NEW U, NEW a, AnsweredAs(mshr, n, U, a)
  PROVE  MissesOK(block, n)
<1>1. MshrOK(mshr) /\ Within(mshr) /\ BlocksOK(block) /\ Single(block, mshr)
  BY DEF CacheInv, Typed
<1>2. MshrOK(n) /\ Within(n)  BY <1>1, WithinAnswered
<1>3. \A c \in Caches, x \in Lines : n[c][x] = NoEntry <=> mshr[c][x] = NoEntry
  BY <1>1, AnsweredFacts
<1>4. \A u \in L1 : \A w \in 1 .. Ways[u] :
        block[u][w].line # NoLine => block[u][w].line \in Lines
  BY <1>1, HeldLines, CachesFacts
<1>5. Single(block, n)  BY <1>1, <1>3, <1>4, CachesFacts DEF Single
<1> QED  BY <1>2, <1>5 DEF MissesOK

\* An entry is put where there is one, or for a line that misses.
LEMMA PutStep ==
  ASSUME CacheInv, NEW n, NEW c \in Caches, NEW a \in Lines, NEW e, PutAs(mshr, n, c, a, e),
         \/ mshr[c][a] # NoEntry
         \/ ~Present(c, a) /\ Cardinality(Occupied(c)) < MshrSize[c]
  PROVE  MissesOK(block, n)
<1>1. MshrOK(mshr) /\ Within(mshr) /\ BlocksOK(block) /\ Single(block, mshr)
  BY DEF CacheInv, Typed
<1>2. Occupied(c) = Occ(mshr, c)  BY DEF Occupied, Occ
<1>3. Within(n)  BY <1>1, <1>2, WithinPut
<1>4. MshrOK(n)  BY DEF PutAs
<1>5. \A u \in L1 : \A w \in 1 .. Ways[u] :
        /\ block[u][w].line # NoLine => block[u][w].line \in Lines
        /\ u = c /\ block[u][w].line = a => Present(c, a)
  <2>1. ASSUME NEW u \in L1, NEW w \in 1 .. Ways[u]
        PROVE  /\ block[u][w].line # NoLine => block[u][w].line \in Lines
               /\ u = c /\ block[u][w].line = a => Present(c, a)
    <3>1. u \in Caches  BY CachesFacts
    <3>2. block[u] \in [1 .. Ways[u] -> BlockType]  BY <1>1, <3>1 DEF BlocksOK
    <3>3. block[u][w].line \in Lines \cup {NoLine}  BY <3>2 DEF BlockType
    <3>4. w \in DOMAIN block[u]  BY <3>2
    <3> QED  BY <3>3, <3>4 DEF Present
  <2> QED  BY <2>1
<1>6. Single(block, n)
  <2>1. ASSUME NEW u \in L1, NEW w \in 1 .. Ways[u], block[u][w].line # NoLine
        PROVE  n[u][block[u][w].line] = NoEntry
    <3>1. block[u][w].line \in Lines /\ mshr[u][block[u][w].line] = NoEntry
      BY <1>1, <1>5, <2>1 DEF Single
    <3>2. u \in Caches  BY CachesFacts
    <3>3. CASE u # c \/ block[u][w].line # a  BY <3>1, <3>2, <3>3 DEF PutAs
    <3>4. CASE u = c /\ block[u][w].line = a  BY <1>5, <3>1, <3>4
    <3> QED  BY <3>3, <3>4
  <2> QED  BY <1>1, <2>1 DEF Single
<1> QED  BY <1>3, <1>4, <1>6 DEF MissesOK

\* A step that leaves the blocks alone keeps the invariant if it keeps its parts.
LEMMA Kept ==
  ASSUME CacheInv, QueuesOK(rq', RqSize, ReadKinds), QueuesOK(wq', WqSize, WriteKinds),
         QueuesOK(pq', PqSize, PrefKinds), MissesOK(block, mshr'), block' = block,
         llc' \subseteq Lines, pending' \in [L1 -> SUBSET Lines]
  PROVE  CacheInv'
BY DEF CacheInv, Typed, MissesOK

LEMMA CompletesType ==
  ASSUME pending \in [L1 -> SUBSET Lines], NEW c, NEW a
  PROVE  Completes(c, a) \in [L1 -> SUBSET Lines]
BY DEF Completes

\* A read or a store that misses.
LEMMA ReadMiss ==
  ASSUME CacheInv, NEW c \in Caches, NEW p, p \in Reads(c), NEW q,
         QueuesOK(q, RqSize, ReadKinds),
         ~Present(c, p.line), Cardinality(Occupied(c)) < MshrSize[c],
         LowerRead(c, p, q, AddMshr(mshr, c, p))
  PROVE  /\ QueuesOK(rq', RqSize, ReadKinds) /\ MissesOK(block, mshr')
         /\ llc' \subseteq Lines
<1> DEFINE m == AddMshr(mshr, c, p)
<1>1. /\ MshrOK(mshr) /\ Within(mshr) /\ llc \subseteq Lines /\ p \in PacketType /\ p.line \in Lines
      /\ BlocksOK(block)
  BY DEF CacheInv, Typed, Reads, PacketType
<1>2. PutAs(mshr, m, c, p.line, EntryOf(p, FALSE))  BY <1>1, AddMshrIs
<1> HIDE DEF m
<1>3. MissesOK(block, m)  BY <1>1, <1>2, PutStep
<1>4. MshrOK(m)  BY <1>3 DEF MissesOK
<1>5. LowerRead(c, p, q, m)  BY DEF m
<1>6. \/ LoweredOut(c, p, q, m) \/ LoweredAnswered(c, p, q, m)
      \/ LoweredQueued(c, p, q, m) \/ LoweredFull(c, p, q, m)
  BY <1>4, <1>5, LowerReadIs
<1>7. CASE LoweredAnswered(c, p, q, m)
  <2>1. rq' = q /\ llc' = llc /\ AnsweredAs(m, mshr', p.fill, p.line)
    BY <1>7 DEF LoweredAnswered
  <2>2. MshrOK(mshr') /\ Within(mshr')  BY <1>3, <2>1, WithinAnswered DEF MissesOK
  <2>3. \A d \in Caches, x \in Lines : mshr'[d][x] = NoEntry <=> m[d][x] = NoEntry
    BY <1>4, <2>1, AnsweredFacts
  <2>4. \A u \in L1 : \A w \in 1 .. Ways[u] :
          block[u][w].line # NoLine => block[u][w].line \in Lines
    BY <1>1, CachesFacts, HeldLines
  <2>5. Single(block, mshr')  BY <1>3, <2>3, <2>4, CachesFacts DEF Single, MissesOK
  <2> QED  BY <1>1, <2>1, <2>2, <2>5 DEF MissesOK
<1> QED
  BY <1>1, <1>3, <1>6, <1>7 DEF LoweredOut, LoweredQueued, LoweredFull, Replaced

\* A request that merges with an outstanding miss.
LEMMA MergeStep ==
  ASSUME CacheInv, NEW c \in Caches, NEW p, p \in PacketType, p.line \in Occupied(c), NEW f,
         mshr' = [mshr EXCEPT ![c][p.line] = f], MergedEntry(mshr[c][p.line], p, f)
  PROVE  PutAs(mshr, mshr', c, p.line, f) /\ MissesOK(block, mshr')
<1>1. MshrOK(mshr) /\ p.line \in Lines /\ mshr[c][p.line] # NoEntry
  BY DEF CacheInv, Typed, PacketType, Occupied
<1>2. f \in EntryType /\ f.line = p.line  BY <1>1 DEF MergedEntry, MshrOK
<1>3. PutAs(mshr, [mshr EXCEPT ![c][p.line] = f], c, p.line, f)  BY <1>1, <1>2, EntryPut
<1>4. PutAs(mshr, mshr', c, p.line, f)  BY <1>3
<1> QED  BY <1>1, <1>4, PutStep

LEMMA HandleReadStep ==
  ASSUME CacheInv, NEW c \in Caches, HandleRead(c)
  PROVE  CacheInv'
<1> DEFINE p == Head(rq[c])
           rest == [rq EXCEPT ![c] = Tail(@)]
<1>1. /\ QueuesOK(rq, RqSize, ReadKinds) /\ QueuesOK(wq, WqSize, WriteKinds)
      /\ QueuesOK(pq, PqSize, PrefKinds) /\ MshrOK(mshr) /\ llc \subseteq Lines
      /\ pending \in [L1 -> SUBSET Lines]
  BY DEF CacheInv, Typed
<1>2. rq[c] # <<>> /\ wq' = wq /\ pq' = pq /\ block' = block  BY DEF HandleRead
<1>3. Replaced(rq, rest, c, Tail(rq[c]), RqSize, ReadKinds) /\ p \in ReadKinds[c]
  BY <1>1, <1>2, SizesType, QueuePopped
<1>4. p \in Reads(c) /\ p \in PacketType /\ QueuesOK(rest, RqSize, ReadKinds)
  BY <1>3 DEF Replaced, ReadKinds, Reads
<1>5. /\ p.line \in Lines /\ p.level \in Levels /\ p.fill \subseteq L1 /\ FillsUp(p)
  BY <1>4 DEF PacketType
<1>6. \/ Present(c, p.line) /\ rq' = rest /\ mshr' = Answer(mshr, c, p)
         /\ pending' = Completes(c, p.line) /\ llc' = llc
      \/ ~Present(c, p.line) /\ Cardinality(Occupied(c)) < MshrSize[c]
         /\ LowerRead(c, p, rest, AddMshr(mshr, c, p)) /\ pending' = pending
      \/ p.line \in Occupied(c) /\ rq' = rest /\ llc' = llc /\ pending' = pending
         /\ mshr' = [mshr EXCEPT ![c][p.line] = MergeMshr(@, p)]
  BY DEF HandleRead
<1> HIDE DEF p, rest
<1>7. CASE Present(c, p.line) /\ rq' = rest /\ mshr' = Answer(mshr, c, p)
           /\ pending' = Completes(c, p.line) /\ llc' = llc
  <2>1. AnsweredAs(mshr, mshr', Uppers(c, p), p.line)  BY <1>1, <1>5, <1>7, AnswerIs
  <2>2. MissesOK(block, mshr')  BY <2>1, AnsweredStep
  <2>3. pending' \in [L1 -> SUBSET Lines]  BY <1>1, <1>7, CompletesType
  <2> QED  BY <1>1, <1>2, <1>4, <1>7, <2>2, <2>3, Kept
<1>8. CASE ~Present(c, p.line) /\ Cardinality(Occupied(c)) < MshrSize[c]
           /\ LowerRead(c, p, rest, AddMshr(mshr, c, p)) /\ pending' = pending
  <2>1. QueuesOK(rq', RqSize, ReadKinds) /\ MissesOK(block, mshr') /\ llc' \subseteq Lines
    BY <1>4, <1>8, ReadMiss
  <2> QED  BY <1>1, <1>2, <1>8, <2>1, Kept
<1>9. CASE p.line \in Occupied(c) /\ rq' = rest /\ llc' = llc /\ pending' = pending
           /\ mshr' = [mshr EXCEPT ![c][p.line] = MergeMshr(@, p)]
  <2> DEFINE e == mshr[c][p.line]
             f == MergeMshr(e, p)
  <2>1. e \in EntryType /\ e.line = p.line  BY <1>1, <1>9 DEF MshrOK, Occupied
  <2>2. MergedEntry(e, p, f)  BY <1>4, <2>1, MergeMshrIs
  <2>3. mshr' = [mshr EXCEPT ![c][p.line] = f]  BY <1>9
  <2> HIDE DEF f
  <2>4. MissesOK(block, mshr')  BY <1>4, <1>9, <2>2, <2>3, MergeStep
  <2> QED  BY <1>1, <1>2, <1>4, <1>9, <2>4, Kept
<1> QED  BY <1>6, <1>7, <1>8, <1>9

\* A set of numbers that is not empty has a least element.
LEMMA LeastNat ==
  ASSUME NEW S, \A x \in S : x \in Nat, S # {}
  PROVE  \E x \in S : \A y \in S : x <= y
<1>0. S \subseteq Nat  OBVIOUS
<1>1. \E x \in S : \A y \in S : ~ (<<y, x>> \in OpToRel(<, Nat))
  BY <1>0, NatLessThanWellFounded, WFMin, Zenon
<1>2. ASSUME NEW x \in Nat, NEW y \in Nat, y < x
      PROVE  <<y, x>> \in OpToRel(<, Nat)
  BY <1>2, Zenon DEF OpToRel
<1>3. PICK x \in S : \A y \in S : ~ (<<y, x>> \in OpToRel(<, Nat))  BY <1>1
<1>4. x \in Nat /\ \A y \in S : y \in Nat /\ ~ (y < x)  BY <1>0, <1>2, <1>3
<1>5. \A y \in S : x <= y  BY <1>4
<1> QED  BY <1>5

\* A store hit marks the line modified.
MarkedAs(b, n, c) ==
  /\ BlocksOK(n)
  /\ \A u \in Caches : \A w \in 1 .. Ways[u] :
       /\ n[u][w].line = b[u][w].line
       /\ b[u][w].dirty => n[u][w].dirty
       /\ u # c => n[u][w] = b[u][w]

LEMMA StoreHit ==
  ASSUME NEW b, BlocksOK(b), NEW c \in Caches, NEW a \in Lines
  PROVE  MarkedAs(b, [b EXCEPT ![c] = [w \in DOMAIN @ |-> IF b[c][w].line = a
                                                          THEN [b[c][w] EXCEPT !.dirty = TRUE]
                                                          ELSE b[c][w]]], c)
<1> DEFINE Marked(v, d) == [v EXCEPT !.dirty = d]
           n == [b EXCEPT ![c] = [w \in DOMAIN @ |-> IF b[c][w].line = a
                                                    THEN [b[c][w] EXCEPT !.dirty = TRUE]
                                                    ELSE b[c][w]]]
<1>1. \A v \in BlockType, d \in BOOLEAN :
        Marked(v, d) \in BlockType /\ Marked(v, d).line = v.line /\ Marked(v, d).dirty = d
  BY DEF BlockType
<1>2. TRUE \in BOOLEAN  OBVIOUS
<1>3. \A v \in BlockType : /\ Marked(v, TRUE) \in BlockType /\ Marked(v, TRUE).line = v.line
                           /\ Marked(v, TRUE).dirty
  BY <1>1, <1>2, Zenon
<1>4. n = [b EXCEPT ![c] = [w \in DOMAIN b[c] |-> IF b[c][w].line = a THEN Marked(b[c][w], TRUE)
                                                 ELSE b[c][w]]]
  OBVIOUS
<1>5. a # NoLine  BY HierarchyAssumption
<1> HIDE DEF Marked, n
<1>6. /\ DOMAIN n = Caches
      /\ \A u \in Caches : \A w \in 1 .. Ways[u] :
           n[u][w] = IF u = c /\ b[u][w].line = a THEN Marked(b[u][w], TRUE) ELSE b[u][w]
      /\ \A u \in Caches : n[u] \in [1 .. Ways[u] -> BlockType]
  BY <1>3, <1>4 DEF BlocksOK
<1>7. \A u \in Caches : \A w \in 1 .. Ways[u] : b[u][w] \in BlockType  BY DEF BlocksOK
<1>8. \A u \in Caches : \A w \in 1 .. Ways[u] :
        /\ n[u][w].line = b[u][w].line
        /\ b[u][w].dirty => n[u][w].dirty
        /\ u # c => n[u][w] = b[u][w]
        /\ n[u][w].line = NoLine => n[u][w] = b[u][w]
  <2> SUFFICES ASSUME NEW u \in Caches, NEW w \in 1 .. Ways[u]
               PROVE  /\ n[u][w].line = b[u][w].line
                      /\ b[u][w].dirty => n[u][w].dirty
                      /\ u # c => n[u][w] = b[u][w]
                      /\ n[u][w].line = NoLine => n[u][w] = b[u][w]
    OBVIOUS
  <2> DEFINE v == b[u][w]
             x == n[u][w]
  <2>1. v \in BlockType /\ x = IF u = c /\ v.line = a THEN Marked(v, TRUE) ELSE v
    BY <1>6, <1>7
  <2> HIDE DEF v, x
  <2>2. /\ x.line = v.line /\ (v.dirty => x.dirty) /\ (u # c => x = v)
        /\ (x.line = NoLine => x = v)
    BY <1>3, <1>5, <2>1
  <2> QED  BY <2>2 DEF v, x
<1>9. BlocksOK(n)  BY <1>6, <1>8 DEF BlocksOK
<1> QED  BY <1>8, <1>9 DEF n, MarkedAs

LEMMA HandleStoreStep ==
  ASSUME CacheInv, HandleStore
  PROVE  CacheInv'
<1> DEFINE c == "L1D"
           p == Head(wq[c])
           rest == [wq EXCEPT ![c] = Tail(@)]
<1>1. /\ QueuesOK(rq, RqSize, ReadKinds) /\ QueuesOK(wq, WqSize, WriteKinds)
      /\ QueuesOK(pq, PqSize, PrefKinds) /\ MshrOK(mshr) /\ Within(mshr) /\ llc \subseteq Lines
      /\ pending \in [L1 -> SUBSET Lines] /\ BlocksOK(block) /\ Single(block, mshr)
  BY DEF CacheInv, Typed
<1>2. /\ c \in Caches /\ c \in L1 /\ WqSize[c] \in Nat  BY CachesFacts, SizesType
<1>3. wq[c] # <<>> /\ wq' = rest /\ pq' = pq /\ pending' = pending  BY DEF HandleStore
<1>4. Replaced(wq, rest, c, Tail(wq[c]), WqSize, WriteKinds) /\ p \in WriteKinds[c]
  BY <1>1, <1>2, <1>3, QueuePopped
<1>5. p \in Reads(c) /\ p \in PacketType /\ QueuesOK(wq', WqSize, WriteKinds)
  BY <1>2, <1>3, <1>4 DEF Replaced, WriteKinds, Writes, Reads
<1>6. \/ rq' = rq /\ mshr' = mshr /\ llc' = llc
         /\ block' = [block EXCEPT ![c] =
                        [w \in DOMAIN @ |-> IF block[c][w].line = p.line
                                            THEN [block[c][w] EXCEPT !.dirty = TRUE]
                                            ELSE block[c][w]]]
      \/ ~Present(c, p.line) /\ Cardinality(Occupied(c)) < MshrSize[c] /\ block' = block
         /\ LowerRead(c, p, rq, AddMshr(mshr, c, p))
      \/ p.line \in Occupied(c) /\ rq' = rq /\ llc' = llc /\ block' = block
         /\ mshr' = [mshr EXCEPT ![c][p.line] = MergeMshr(@, p)]
  BY DEF HandleStore
<1> HIDE DEF p, rest
<1>7. CASE rq' = rq /\ mshr' = mshr /\ llc' = llc
           /\ block' = [block EXCEPT ![c] =
                          [w \in DOMAIN @ |-> IF block[c][w].line = p.line
                                              THEN [block[c][w] EXCEPT !.dirty = TRUE]
                                              ELSE block[c][w]]]
  <2>0. p.line \in Lines  BY <1>5 DEF PacketType
  <2>1. MarkedAs(block, block', c)  BY <1>1, <1>2, <1>7, <2>0, StoreHit, Zenon
  <2>2. BlocksOK(block') /\ Single(block', mshr)
    BY <1>1, <2>1, CachesFacts DEF Single, MarkedAs
  <2> QED  BY <1>1, <1>3, <1>5, <1>7, <2>2 DEF CacheInv, Typed
<1>8. CASE ~Present(c, p.line) /\ Cardinality(Occupied(c)) < MshrSize[c] /\ block' = block
           /\ LowerRead(c, p, rq, AddMshr(mshr, c, p))
  <2>1. QueuesOK(rq', RqSize, ReadKinds) /\ MissesOK(block, mshr') /\ llc' \subseteq Lines
    BY <1>1, <1>2, <1>5, <1>8, ReadMiss
  <2> QED  BY <1>1, <1>3, <1>5, <1>8, <2>1, Kept
<1>9. CASE p.line \in Occupied(c) /\ rq' = rq /\ llc' = llc /\ block' = block
           /\ mshr' = [mshr EXCEPT ![c][p.line] = MergeMshr(@, p)]
  <2> DEFINE e == mshr[c][p.line]
             f == MergeMshr(e, p)
  <2>1. e \in EntryType /\ e.line = p.line  BY <1>1, <1>2, <1>9 DEF MshrOK, Occupied
  <2>2. MergedEntry(e, p, f)  BY <1>5, <2>1, MergeMshrIs
  <2>3. mshr' = [mshr EXCEPT ![c][p.line] = f]  BY <1>9
  <2> HIDE DEF f
  <2>4. MissesOK(block, mshr')  BY <1>2, <1>5, <1>9, <2>2, <2>3, MergeStep
  <2> QED  BY <1>1, <1>3, <1>5, <1>9, <2>4, Kept
<1> QED  BY <1>6, <1>7, <1>8, <1>9

\* The write-back of an L1 takes a way of the L2C: the first that holds its line, or a
\* victim.
LEMMA WritebackWay ==
  ASSUME BlocksOK(block), HandleWriteback
  PROVE  \E w \in 1 .. Ways["L2C"] : /\ wq' = [wq EXCEPT !["L2C"] = Tail(@)]
                                     /\ Install("L2C", w, Head(wq["L2C"]).line, TRUE)
<1> DEFINE c == "L2C"
           a == Head(wq[c]).line
           rest == [wq EXCEPT ![c] = Tail(@)]
           hit == {w \in DOMAIN block[c] : block[c][w].line = a}
<1>1. c \in Caches /\ Ways[c] \in Nat  BY CachesFacts, SizesType
<1>2. hit \subseteq DOMAIN block[c] /\ Victims(c) \subseteq 1 .. Ways[c]
      /\ DOMAIN block[c] = 1 .. Ways[c]
  BY <1>1, VictimsAreWays
<1>3. PICK w \in (IF hit # {} THEN {CHOOSE x \in hit : \A y \in hit : x <= y} ELSE Victims(c)) :
        /\ IF hit # {} THEN wq' = rest ELSE Evict(c, w, rest)
        /\ Install(c, w, a, TRUE)
  BY DEF HandleWriteback
<1>4. wq' = rest  BY <1>3 DEF Evict
<1>5. w \in 1 .. Ways[c]
  <2>1. CASE hit # {}
    <3>1. \A x \in hit : x \in Nat  BY <1>1, <1>2
    <3>2. \E x \in hit : \A y \in hit : x <= y  BY <2>1, <3>1, LeastNat
    <3>3. w \in hit  BY <1>3, <2>1, <3>2
    <3> QED  BY <1>2, <3>3
  <2>2. CASE hit = {}  BY <1>2, <1>3, <2>2
  <2> QED  BY <2>1, <2>2
<1> QED  BY <1>3, <1>4, <1>5

LEMMA HandleWritebackStep ==
  ASSUME CacheInv, HandleWriteback
  PROVE  CacheInv'
<1> DEFINE c == "L2C"
           a == Head(wq[c]).line
           rest == [wq EXCEPT ![c] = Tail(@)]
<1>1. /\ QueuesOK(rq, RqSize, ReadKinds) /\ QueuesOK(wq, WqSize, WriteKinds)
      /\ QueuesOK(pq, PqSize, PrefKinds) /\ BlocksOK(block) /\ Single(block, mshr)
  BY DEF CacheInv, Typed
<1>2. c \in Caches /\ WqSize[c] \in Nat  BY CachesFacts, SizesType
<1>3. wq[c] # <<>> /\ UNCHANGED <<rq, pq, mshr, llc, pending, issued>>
  BY DEF HandleWriteback
<1>4. Replaced(wq, rest, c, Tail(wq[c]), WqSize, WriteKinds) /\ Head(wq[c]) \in WriteKinds[c]
  BY <1>1, <1>2, <1>3, QueuePopped
<1>5. a \in Lines /\ QueuesOK(rest, WqSize, WriteKinds)
  BY <1>2, <1>4 DEF Replaced, WriteKinds, Writes, PacketType
<1>6. \E w \in 1 .. Ways[c] : wq' = rest /\ Install(c, w, a, TRUE)  BY <1>1, WritebackWay
<1> HIDE DEF rest, a
<1>7. PICK w \in 1 .. Ways[c] : wq' = rest /\ Install(c, w, a, TRUE)  BY <1>6
<1>8. InstalledAs(block, block', c, w, a, TRUE)
  <2>1. block' = [block EXCEPT ![c][w] = [line |-> a, dirty |-> TRUE]]
    BY <1>7 DEF Install
  <2>2. TRUE \in BOOLEAN  OBVIOUS
  <2>3. InstalledAs(block, [block EXCEPT ![c][w] = [line |-> a, dirty |-> TRUE]], c, w, a, TRUE)
    BY <1>1, <1>2, <1>5, <1>7, <2>2, BlockInstalled
  <2> QED  BY <2>1, <2>3, Zenon
<1>9. Single(block', mshr)
  BY <1>1, <1>8, CachesFacts DEF Single, InstalledAs
<1> QED  BY <1>1, <1>3, <1>5, <1>7, <1>8, <1>9 DEF CacheInv, Typed, InstalledAs

\* A prefetch that misses, on its way down.
LEMMA PrefetchMiss ==
  ASSUME CacheInv, NEW c \in Caches, NEW p, p \in Prefs(c), NEW q,
         QueuesOK(q, PqSize, PrefKinds), q["L2C"] = pq["L2C"] \/ c = "L2C",
         ~Present(c, p.line), Cardinality(Occupied(c)) < MshrSize[c],
         LowerPrefetch(c, p, q, PrefetchMshr(mshr, c, p))
  PROVE  /\ QueuesOK(pq', PqSize, PrefKinds) /\ MissesOK(block, mshr')
         /\ llc' \subseteq Lines
<1> DEFINE m == PrefetchMshr(mshr, c, p)
<1>1. /\ MshrOK(mshr) /\ Within(mshr) /\ Single(block, mshr) /\ llc \subseteq Lines
      /\ p \in PacketType /\ p.line \in Lines /\ BlocksOK(block)
  BY DEF CacheInv, Typed, Prefs, PacketType
<1>2. MissesOK(block, m)
  <2>1. CASE p.level <= FillLevel(c)
    <3>1. PutAs(mshr, AddMshr(mshr, c, p), c, p.line, EntryOf(p, FALSE))  BY <1>1, AddMshrIs
    <3>2. MissesOK(block, AddMshr(mshr, c, p))  BY <1>1, <3>1, PutStep
    <3> QED  BY <2>1, <3>2 DEF PrefetchMshr
  <2>2. CASE ~(p.level <= FillLevel(c))  BY <1>1, <2>2 DEF MissesOK, PrefetchMshr
  <2> QED  BY <2>1, <2>2
<1> HIDE DEF m
<1>3. LowerPrefetch(c, p, q, m)  BY DEF m
<1>4. MshrOK(m) /\ Within(m) /\ Single(block, m)  BY <1>2 DEF MissesOK
<1>5. CASE c = "L2C"
  BY <1>1, <1>2, <1>3, <1>5 DEF LowerPrefetch
<1>6. CASE c # "L2C"
  <2>1. llc' = llc /\ AddPq("L2C", p, q, m)  BY <1>3, <1>6 DEF LowerPrefetch
  <2>2. "L2C" \in Caches /\ p \in Prefs("L2C")  BY <1>1, CachesFacts DEF Prefs
  <2>3. AskedAnswered("L2C", p, q, m) \/ AskedQueued("L2C", p, q, m) \/ AskedFull("L2C", p, q, m)
    BY <1>4, <2>1, <2>2, AddPqIs
  <2>4. CASE AskedAnswered("L2C", p, q, m)
    <3>1. pq' = q /\ AnsweredAs(m, mshr', Uppers("L2C", p), p.line)  BY <2>4 DEF AskedAnswered
    <3>2. MshrOK(mshr') /\ Within(mshr')  BY <1>4, <3>1, WithinAnswered
    <3>3. \A d \in Caches, x \in Lines : mshr'[d][x] = NoEntry <=> m[d][x] = NoEntry
      BY <1>4, <3>1, AnsweredFacts
    <3>4. \A u \in L1 : \A w \in 1 .. Ways[u] :
            block[u][w].line # NoLine => block[u][w].line \in Lines
      BY <1>1, CachesFacts, HeldLines
    <3>5. Single(block, mshr')  BY <1>4, <3>3, <3>4, CachesFacts DEF Single
    <3> QED  BY <1>1, <2>1, <3>1, <3>2, <3>5 DEF MissesOK
  <2>5. CASE AskedQueued("L2C", p, q, m)
    BY <1>1, <1>2, <2>1, <2>5 DEF AskedQueued, Replaced
  <2>6. CASE AskedFull("L2C", p, q, m)
    BY <1>1, <1>2, <2>1, <2>6 DEF AskedFull
  <2> QED  BY <2>3, <2>4, <2>5, <2>6
<1> QED  BY <1>5, <1>6

LEMMA HandlePrefetchStep ==
  ASSUME CacheInv, NEW c \in Caches, HandlePrefetch(c)
  PROVE  CacheInv'
<1> DEFINE p == Head(pq[c])
           rest == [pq EXCEPT ![c] = Tail(@)]
<1>1. /\ QueuesOK(rq, RqSize, ReadKinds) /\ QueuesOK(wq, WqSize, WriteKinds)
      /\ QueuesOK(pq, PqSize, PrefKinds) /\ MshrOK(mshr) /\ llc \subseteq Lines
      /\ pending \in [L1 -> SUBSET Lines]
  BY DEF CacheInv, Typed
<1>2. pq[c] # <<>> /\ rq' = rq /\ wq' = wq /\ block' = block /\ pending' = pending
  BY DEF HandlePrefetch
<1>3. Replaced(pq, rest, c, Tail(pq[c]), PqSize, PrefKinds) /\ p \in PrefKinds[c]
  BY <1>1, <1>2, SizesType, QueuePopped
<1>4. p \in Prefs(c) /\ p \in PacketType /\ QueuesOK(rest, PqSize, PrefKinds)
      /\ (rest["L2C"] = pq["L2C"] \/ c = "L2C")
  BY <1>3, CachesFacts DEF Replaced, PrefKinds, Prefs
<1>5. /\ p.line \in Lines /\ p.level \in Levels /\ p.fill \subseteq L1 /\ FillsUp(p)
  BY <1>4 DEF PacketType
<1>6. \/ Present(c, p.line) /\ pq' = rest /\ mshr' = Answer(mshr, c, p) /\ llc' = llc
      \/ ~Present(c, p.line) /\ Cardinality(Occupied(c)) < MshrSize[c]
         /\ LowerPrefetch(c, p, rest, PrefetchMshr(mshr, c, p))
      \/ p.line \in Occupied(c) /\ pq' = rest /\ llc' = llc
         /\ mshr' = [mshr EXCEPT ![c][p.line] = RaiseMshr(@, p)]
  BY DEF HandlePrefetch
<1> HIDE DEF p, rest
<1>7. CASE Present(c, p.line) /\ pq' = rest /\ mshr' = Answer(mshr, c, p) /\ llc' = llc
  <2>1. AnsweredAs(mshr, mshr', Uppers(c, p), p.line)  BY <1>1, <1>5, <1>7, AnswerIs
  <2>2. MissesOK(block, mshr')  BY <2>1, AnsweredStep
  <2> QED  BY <1>1, <1>2, <1>4, <1>7, <2>2, Kept
<1>8. CASE ~Present(c, p.line) /\ Cardinality(Occupied(c)) < MshrSize[c]
         /\ LowerPrefetch(c, p, rest, PrefetchMshr(mshr, c, p))
  <2>1. QueuesOK(pq', PqSize, PrefKinds) /\ MissesOK(block, mshr') /\ llc' \subseteq Lines
    BY <1>4, <1>8, PrefetchMiss
  <2> QED  BY <1>1, <1>2, <2>1, Kept
<1>9. CASE p.line \in Occupied(c) /\ pq' = rest /\ llc' = llc
         /\ mshr' = [mshr EXCEPT ![c][p.line] = RaiseMshr(@, p)]
  <2> DEFINE e == mshr[c][p.line]
             f == RaiseMshr(e, p)
  <2>1. e \in EntryType /\ e.line = p.line  BY <1>1, <1>9 DEF MshrOK, Occupied
  <2>2. MergedEntry(e, p, f)  BY <1>4, <2>1, RaiseEntry DEF Raised
  <2>3. mshr' = [mshr EXCEPT ![c][p.line] = f]  BY <1>9
  <2> HIDE DEF f
  <2>4. MissesOK(block, mshr')  BY <1>4, <1>9, <2>2, <2>3, MergeStep
  <2> QED  BY <1>1, <1>2, <1>4, <1>9, <2>4, Kept
<1> QED  BY <1>6, <1>7, <1>8, <1>9

\* A fill puts the line into a way and frees the entry.
LEMMA HandleFillStep ==
  ASSUME CacheInv, NEW c \in Caches, HandleFill(c)
  PROVE  CacheInv'
<1>1. /\ QueuesOK(rq, RqSize, ReadKinds) /\ QueuesOK(wq, WqSize, WriteKinds)
      /\ QueuesOK(pq, PqSize, PrefKinds) /\ MshrOK(mshr) /\ Within(mshr) /\ llc \subseteq Lines
      /\ pending \in [L1 -> SUBSET Lines] /\ BlocksOK(block) /\ Single(block, mshr)
  BY DEF CacheInv, Typed
<1>2. PICK a \in Occupied(c), w \in Victims(c) :
        /\ Evict(c, w, wq)
        /\ Install(c, w, a, c = "L1D" /\ mshr[c][a].type = "RFO")
        /\ mshr' = [Answer(mshr, c, mshr[c][a]) EXCEPT ![c][a] = NoEntry]
        /\ pending' = Filled(c, a)
        /\ UNCHANGED <<rq, pq, llc, issued>>
  BY DEF HandleFill
<1>3. w \in 1 .. Ways[c]  BY <1>1, VictimsAreWays
<1> DEFINE e == mshr[c][a]
           m == Answer(mshr, c, e)
           d == (c = "L1D" /\ e.type = "RFO")
<1>4. a \in Lines /\ e # NoEntry  BY DEF Occupied
<1>5. /\ e \in EntryType /\ e.line = a /\ e.line \in Lines /\ e.level \in Levels
      /\ e.fill \subseteq L1 /\ FillsUp(e)
  BY <1>1, <1>4 DEF MshrOK, EntryType
<1>6. d \in BOOLEAN  OBVIOUS
<1>7. /\ Evict(c, w, wq)
      /\ block' = [block EXCEPT ![c][w] = [line |-> a, dirty |-> d]]
      /\ mshr' = [m EXCEPT ![c][a] = NoEntry]
  BY <1>2 DEF Install
<1> HIDE DEF d, m
<1>8. AnsweredAs(mshr, m, Uppers(c, e), a)
  <2>1. AnsweredAs(mshr, Answer(mshr, c, e), Uppers(c, e), e.line)  BY <1>1, <1>5, AnswerIs
  <2> QED  BY <1>5, <2>1 DEF m
<1>9. MshrOK(m) /\ Within(m)  BY <1>1, <1>8, WithinAnswered
<1>10. PutAs(m, mshr', c, a, NoEntry)  BY <1>4, <1>7, <1>9, EntryPut
<1>a. Within(mshr')  BY <1>4, <1>9, <1>10, WithinPut
<1>11. MshrOK(mshr') /\ Within(mshr')  BY <1>a, <1>10 DEF PutAs
<1>12. Evicted(c, w, wq)  BY <1>1, <1>3, <1>7, EvictIs
<1>13. InstalledAs(block, block', c, w, a, d)
  BY <1>1, <1>3, <1>4, <1>6, <1>7, BlockInstalled
<1>14. Single(block', mshr')
  <2> SUFFICES ASSUME NEW u \in L1, NEW x \in 1 .. Ways[u], block'[u][x].line # NoLine
               PROVE  /\ mshr'[u][block'[u][x].line] = NoEntry
                      /\ \A y \in 1 .. Ways[u] : block'[u][y].line = block'[u][x].line => y = x
    BY DEF Single
  <2>1. \A v \in Caches, z \in Lines : m[v][z] = NoEntry <=> mshr[v][z] = NoEntry
    BY <1>1, <1>8, AnsweredFacts
  <2>2. u \in Caches  BY CachesFacts
  <2>3. block[u][x].line # NoLine => block[u][x].line \in Lines  BY <1>1, <2>2, HeldLines
  <2>4. \A v \in Caches, z \in Lines : mshr[v][z] = NoEntry => mshr'[v][z] = NoEntry
    BY <2>1, <1>10, <1>4 DEF PutAs
  <2>5. mshr'[c][a] = NoEntry  BY <1>10 DEF PutAs
  <2>6. \A y \in 1 .. Ways[u] : block[u][y].line = a /\ block[u][y].line # NoLine => u # c
    BY <1>1, <1>4 DEF Single
  <2>7. a # NoLine  BY <1>4, HierarchyAssumption
  <2>8. /\ block'[c][w].line = a
        /\ \A y \in 1 .. Ways[u] : u # c \/ y # w => block'[u][y] = block[u][y]
    BY <1>13, <2>2 DEF InstalledAs
  <2>9. CASE u = c /\ x = w
    BY <2>5, <2>6, <2>7, <2>8, <2>9
  <2>10. CASE u # c \/ x # w
    <3>1. /\ block[u][x].line # NoLine /\ block[u][x].line \in Lines
          /\ block'[u][x].line = block[u][x].line
      BY <2>3, <2>8, <2>10
    <3>2. /\ mshr[u][block[u][x].line] = NoEntry
          /\ \A y \in 1 .. Ways[u] : block[u][y].line = block[u][x].line => y = x
      BY <1>1, <3>1 DEF Single
    <3>3. u = c => block[u][x].line # a  BY <2>6, <3>1
    <3>4. mshr'[u][block'[u][x].line] = NoEntry  BY <2>2, <2>4, <3>1, <3>2
    <3>5. \A y \in 1 .. Ways[u] : block'[u][y].line = block'[u][x].line => y = x
      BY <2>8, <3>1, <3>2, <3>3
    <3> QED  BY <3>4, <3>5
  <2> QED  BY <2>9, <2>10
<1>15. pending' \in [L1 -> SUBSET Lines]  BY <1>1, <1>2, CompletesType DEF Filled
<1> QED
  BY <1>1, <1>2, <1>11, <1>12, <1>13, <1>14, <1>15 DEF CacheInv, Typed, Evicted, InstalledAs

\* The core, the prefetchers and the LLC.
LEMMA EnvironmentStep ==
  ASSUME CacheInv,
         \/ Core
         \/ \E p \in Prefetches : PrefetchLine(p[1], p[2], p[3])
         \/ \E a \in Lines : LlcReturn(a)
  PROVE  CacheInv'
<1>1. /\ QueuesOK(rq, RqSize, ReadKinds) /\ QueuesOK(wq, WqSize, WriteKinds)
      /\ QueuesOK(pq, PqSize, PrefKinds) /\ MshrOK(mshr) /\ llc \subseteq Lines
      /\ pending \in [L1 -> SUBSET Lines] /\ BlocksOK(block) /\ MissesOK(block, mshr)
  BY DEF CacheInv, Typed, MissesOK
<1>2. ASSUME NEW c \in L1, NEW a \in Lines, Demand(c, a)
      PROVE  CacheInv'
  <2>1. UNCHANGED <<wq, pq, mshr, block, llc>>  BY <1>2 DEF Demand
  <2>2. CASE UNCHANGED <<rq, pending>>
    BY <1>1, <2>1, <2>2, Kept
  <2>3. CASE ~UNCHANGED <<rq, pending>>
    <3> DEFINE p == Packet(a, "LOAD", 1, {c})
    <3>1. /\ Len(rq[c]) < RqSize[c] /\ rq' = [rq EXCEPT ![c] = Append(@, p)]
          /\ pending' = [pending EXCEPT ![c] = @ \cup {a}]
      BY <1>2, <2>3 DEF Demand
    <3>2. c \in Caches /\ RqSize[c] \in Nat  BY CachesFacts, SizesType
    <3>3. p \in PacketType /\ p.level = 1 /\ p.fill = {c}
      BY DEF Packet, PacketType, Types, Levels, FillsUp
    <3> HIDE DEF p
    <3>4. p \in ReadKinds[c]  BY <3>2, <3>3 DEF ReadKinds, Reads
    <3>5. Replaced(rq, [rq EXCEPT ![c] = Append(@, p)], c, Append(rq[c], p), RqSize, ReadKinds)
      BY <1>1, <3>1, <3>2, <3>4, QueuePushed, Zenon
    <3>6. QueuesOK(rq', RqSize, ReadKinds)  BY <3>1, <3>5 DEF Replaced
    <3>7. pending' \in [L1 -> SUBSET Lines]  BY <1>1, <3>1
    <3> QED  BY <1>1, <2>1, <3>6, <3>7, Kept
  <2> QED  BY <2>2, <2>3
<1>3. ASSUME NEW a \in Lines, Store(a)
      PROVE  CacheInv'
  <2> DEFINE p == Packet(a, "RFO", 1, {"L1D"})
  <2>1. /\ Len(wq["L1D"]) < WqSize["L1D"] /\ wq' = [wq EXCEPT !["L1D"] = Append(@, p)]
        /\ UNCHANGED <<rq, pq, mshr, block, llc, pending>>
    BY <1>3 DEF Store
  <2>2. "L1D" \in Caches /\ "L1D" \in L1 /\ WqSize["L1D"] \in Nat  BY CachesFacts, SizesType
  <2>3. p \in PacketType /\ p.level = 1 /\ p.fill = {"L1D"}
    BY <2>2 DEF Packet, PacketType, Types, Levels, FillsUp
  <2> HIDE DEF p
  <2>4. p \in WriteKinds["L1D"]  BY <2>2, <2>3 DEF WriteKinds, Writes
  <2>5. Replaced(wq, [wq EXCEPT !["L1D"] = Append(@, p)], "L1D", Append(wq["L1D"], p),
                 WqSize, WriteKinds)
    BY <1>1, <2>1, <2>2, <2>4, QueuePushed, Zenon
  <2>6. QueuesOK(wq', WqSize, WriteKinds)  BY <2>1, <2>5 DEF Replaced
  <2> QED  BY <1>1, <2>1, <2>6, Kept
<1>4. ASSUME NEW x \in Prefetches, PrefetchLine(x[1], x[2], x[3])
      PROVE  CacheInv'
  <2> DEFINE c == x[1]
             a == x[2]
             level == x[3]
             p == Packet(a, "PREFETCH", level, IF level = 1 THEN {c} ELSE {})
  <2>1. c \in Caches /\ a \in Lines /\ level \in Levels /\ (c = "L2C" => level # 1)
    BY HierarchyAssumption DEF Levels
  <2>2. AddPq(c, p, pq, mshr) /\ UNCHANGED <<rq, wq, block, llc, pending>>
    BY <1>4 DEF PrefetchLine
  <2>3. /\ p \in PacketType /\ p.level = level
        /\ p.fill = IF level = 1 THEN {c} ELSE {}
    BY <2>1, CachesFacts DEF Packet, PacketType, Types, FillsUp
  <2> HIDE DEF p, c, a, level
  <2>4. p \in Prefs(c)  BY <2>1, <2>3 DEF Prefs
  <2>5. AskedAnswered(c, p, pq, mshr) \/ AskedQueued(c, p, pq, mshr) \/ AskedFull(c, p, pq, mshr)
    BY <1>1, <2>1, <2>2, <2>4, AddPqIs
  <2>6. CASE AskedAnswered(c, p, pq, mshr)
    <3>1. pq' = pq /\ AnsweredAs(mshr, mshr', Uppers(c, p), p.line)  BY <2>6 DEF AskedAnswered
    <3>2. MissesOK(block, mshr')  BY <3>1, AnsweredStep
    <3> QED  BY <1>1, <2>2, <3>1, <3>2, Kept
  <2>7. CASE AskedQueued(c, p, pq, mshr)
    <3>1. mshr' = mshr /\ QueuesOK(pq', PqSize, PrefKinds)  BY <2>7 DEF AskedQueued, Replaced
    <3> QED  BY <1>1, <2>2, <3>1, Kept
  <2>8. CASE AskedFull(c, p, pq, mshr)
    <3>1. mshr' = mshr /\ pq' = pq  BY <2>8 DEF AskedFull
    <3> QED  BY <1>1, <2>2, <3>1, Kept
  <2> QED  BY <2>5, <2>6, <2>7, <2>8
<1>5. ASSUME NEW a \in Lines, LlcReturn(a)
      PROVE  CacheInv'
  <2>1. /\ llc' = llc \ {a} /\ mshr' = ReturnData(mshr, "L2C", a)
        /\ UNCHANGED <<rq, wq, pq, block, pending, issued>>
    BY <1>5 DEF LlcReturn
  <2>2. AnsweredAs(mshr, ReturnData(mshr, "L2C", a), {"L2C"}, a)
    BY <1>1, CachesFacts, ReturnDataIs
  <2>3. MissesOK(block, ReturnData(mshr, "L2C", a))  BY <2>2, AnsweredStep
  <2>4. llc' \subseteq Lines  BY <1>1, <2>1
  <2> QED  BY <1>1, <2>1, <2>3, <2>4, Kept
<1> QED  BY <1>2, <1>3, <1>4, <1>5, CachesFacts DEF Core, Lines

LEMMA InitCacheInv ==
  ASSUME Init
  PROVE  CacheInv
<1>1. \A c \in Caches : Occ(mshr, c) = {}  BY DEF Init, Occ
<1>2. Within(mshr)
  <2>1. IsFiniteSet({}) /\ Cardinality({}) = 0  BY FS_EmptySet
  <2>2. \A c \in Caches : MshrSize[c] \in Nat  BY SizesType
  <2> QED  BY <1>1, <2>1, <2>2 DEF Within
<1>3. \A S : <<>> \in Seq(S) /\ Len(<<>>) = 0  BY EmptySeq
<1>4. rq = [c \in Caches |-> <<>>] /\ wq = rq /\ pq = rq  BY DEF Init
<1>5. /\ QueuesOK(rq, RqSize, ReadKinds) /\ QueuesOK(wq, WqSize, WriteKinds)
      /\ QueuesOK(pq, PqSize, PrefKinds)
  BY <1>3, <1>4, SizesType DEF QueuesOK
<1>6. MshrOK(mshr)  BY DEF Init, MshrOK
<1>7. BlocksOK(block)
  <2>1. block = [c \in Caches |-> [w \in 1 .. Ways[c] |-> [line |-> NoLine, dirty |-> FALSE]]]
    BY DEF Init
  <2>2. \A d \in BOOLEAN : LET v == [line |-> NoLine, dirty |-> d]
                           IN v \in BlockType /\ v.dirty = d
    BY DEF BlockType
  <2>3. FALSE \in BOOLEAN  OBVIOUS
  <2> DEFINE v == [line |-> NoLine, dirty |-> FALSE]
  <2>4. v \in BlockType /\ ~v.dirty  BY <2>2, <2>3
  <2>5. block = [c \in Caches |-> [w \in 1 .. Ways[c] |-> v]]  BY <2>1
  <2> HIDE DEF v
  <2> QED  BY <2>4, <2>5 DEF BlocksOK
<1>8. Single(block, mshr)
  BY CachesFacts DEF Init, Single
<1>9. llc \subseteq Lines /\ pending \in [L1 -> SUBSET Lines]  BY DEF Init
<1> QED  BY <1>2, <1>5, <1>6, <1>7, <1>8, <1>9 DEF CacheInv, Typed

LEMMA StepCacheInv ==
  ASSUME CacheInv, [Next]_vars
  PROVE  CacheInv'
<1>1. CASE Core \/ (\E p \in Prefetches : PrefetchLine(p[1], p[2], p[3]))
           \/ (\E a \in Lines : LlcReturn(a))
  BY <1>1, EnvironmentStep
<1>2. CASE \E c \in Caches : HandleFill(c) \/ HandleRead(c) \/ HandlePrefetch(c)
  BY <1>2, HandleFillStep, HandleReadStep, HandlePrefetchStep
<1>3. CASE HandleStore  BY <1>3, HandleStoreStep
<1>4. CASE HandleWriteback  BY <1>4, HandleWritebackStep
<1>5. CASE UNCHANGED vars
  BY <1>5 DEF vars, CacheInv, Typed
<1> QED  BY <1>1, <1>2, <1>3, <1>4, <1>5 DEF Next

\* Every reachable state is well typed, and an L1 holds a line once and never while
\* it waits for it.
THEOREM Inductive == Spec => []CacheInv
<1>1. Init => CacheInv  BY InitCacheInv
<1>2. CacheInv /\ [Next]_vars => CacheInv'  BY StepCacheInv
<1> QED  BY <1>1, <1>2, PTL DEF Spec

\* Queues and MSHRs stay within their sizes, an MSHR entry stands at its line, and an
\* invalid block is clean.
THEOREM TypeCorrect == Spec => []TypeOK
<1>1. ASSUME CacheInv PROVE TypeOK
  <2>1. ASSUME NEW c \in Caches
        PROVE  /\ Len(rq[c]) <= RqSize[c] /\ Len(wq[c]) <= WqSize[c] /\ Len(pq[c]) <= PqSize[c]
               /\ Cardinality(Occupied(c)) <= MshrSize[c]
               /\ \A w \in DOMAIN block[c] : block[c][w].line = NoLine => ~block[c][w].dirty
    BY <1>1 DEF CacheInv, Typed, QueuesOK, Within, Occ, Occupied, BlocksOK
  <2>2. ASSUME NEW c \in Caches, NEW a \in Occupied(c)
        PROVE  mshr[c][a].line = a /\ mshr[c][a].level \in {1, 2, 4}
    <3>1. MshrOK(mshr) /\ a \in Lines /\ mshr[c][a] # NoEntry
      BY <1>1 DEF CacheInv, Typed, Occupied
    <3> QED  BY <3>1 DEF MshrOK, EntryType, Levels
  <2>3. llc \subseteq Lines /\ \A c \in L1 : pending[c] \subseteq Lines
    BY <1>1 DEF CacheInv, Typed
  <2> QED  BY <2>1, <2>2, <2>3 DEF TypeOK
<1> QED  BY <1>1, Inductive, PTL

\* A fill never brings in a line an L1 already holds: the two copies would serve
\* loads and stores by which way is found first.
THEOREM OneCopyPerL1Correct == Spec => []OneCopyPerL1
<1>1. ASSUME CacheInv PROVE OneCopyPerL1
  <2>1. \A u \in L1 : DOMAIN block[u] = 1 .. Ways[u]
    BY <1>1, CachesFacts DEF CacheInv, Typed, BlocksOK
  <2> QED  BY <1>1, <2>1 DEF CacheInv, Single, OneCopyPerL1
<1> QED  BY <1>1, Inductive, PTL

-----------------------------------------------------------------------------
(* Modified lines *)

Held(b, c, a) == \E w \in 1 .. Ways[c] : b[c][w].line = a /\ b[c][w].dirty
InHand(b, q, a) == Held(b, "L1D", a) \/ Queued(q["L2C"], a) \/ Held(b, "L2C", a)
Overwritten(b, n, a) ==
  \E w \in 1 .. Ways["L2C"] :
    b["L2C"][w].line = a /\ b["L2C"][w].dirty /\ n["L2C"][w] # b["L2C"][w]

LEMMA DirtyBlock ==
  ASSUME NEW v \in BlockType, NEW a
  PROVE  v = [line |-> a, dirty |-> TRUE] <=> v.line = a /\ v.dirty
<1>1. \A d \in BOOLEAN : v = [line |-> a, dirty |-> d] <=> v.line = a /\ v.dirty = d
  BY DEF BlockType
<1>2. TRUE \in BOOLEAN /\ v.dirty \in BOOLEAN  BY DEF BlockType
<1> QED  BY <1>1, <1>2, Zenon

DirtyWays(b, c, a) ==
  /\ DOMAIN b[c] = 1 .. Ways[c]
  /\ \A w \in 1 .. Ways[c] :
       b[c][w] = [line |-> a, dirty |-> TRUE] <=> b[c][w].line = a /\ b[c][w].dirty

LEMMA DirtyBlocks ==
  ASSUME NEW b, BlocksOK(b), NEW c \in Caches, NEW a
  PROVE  DirtyWays(b, c, a)
<1>1. DOMAIN b[c] = 1 .. Ways[c] /\ \A w \in 1 .. Ways[c] : b[c][w] \in BlockType
  BY DEF BlocksOK
<1>2. \A w \in 1 .. Ways[c] :
        b[c][w] = [line |-> a, dirty |-> TRUE] <=> b[c][w].line = a /\ b[c][w].dirty
  BY <1>1, DirtyBlock, Zenon
<1> QED  BY <1>1, <1>2, Zenon DEF DirtyWays

LEMMA InHandIs ==
  ASSUME BlocksOK(block), NEW a
  PROVE  Modified(a) <=> InHand(block, wq, a)
<1>1. ASSUME NEW c \in Caches
      PROVE  Dirty(c, a) <=> Held(block, c, a)
  <2>1. DirtyWays(block, c, a)  BY DirtyBlocks
  <2> QED  BY <2>1, Zenon DEF DirtyWays, Dirty, Held
<1> QED  BY <1>1, CachesFacts DEF Modified, InHand

LEMMA QueuedTail ==
  ASSUME NEW S, NEW s \in Seq(S), s # <<>>, NEW a
  PROVE  Queued(s, a) <=> Head(s).line = a \/ Queued(Tail(s), a)
<1>1. /\ Len(s) \in Nat \ {0} /\ DOMAIN s = 1 .. Len(s) /\ Head(s) = s[1]
      /\ DOMAIN Tail(s) = 1 .. Len(s) - 1
      /\ \A i \in 1 .. Len(s) - 1 : Tail(s)[i] = s[i + 1]
  BY Popped
<1>2. ASSUME NEW i \in 1 .. Len(s), i # 1
      PROVE  i - 1 \in 1 .. Len(s) - 1 /\ Tail(s)[i - 1] = s[i]
  <2>1. i - 1 \in 1 .. Len(s) - 1 /\ (i - 1) + 1 = i  BY <1>1, <1>2
  <2> QED  BY <1>1, <2>1
<1>3. ASSUME NEW i \in 1 .. Len(s) - 1
      PROVE  i + 1 \in 1 .. Len(s)
  BY <1>1
<1>4. 1 \in 1 .. Len(s)  BY <1>1
<1> QED  BY <1>1, <1>2, <1>3, <1>4 DEF Queued

\* A way taken: a modified line that stood there was written back, or stood in the L2C.
LEMMA TakenWay ==
  ASSUME NEW b, NEW n, NEW q, NEW r, NEW c \in Caches, NEW w \in 1 .. Ways[c], NEW v, NEW d,
         NEW a, InstalledAs(b, n, c, w, v, d),
         Queued(q["L2C"], a) => Queued(r["L2C"], a) \/ Held(n, "L2C", a),
         c # "L2C" /\ b[c][w].dirty /\ b[c][w].line = a => Queued(r["L2C"], a),
         InHand(b, q, a)
  PROVE  InHand(n, r, a) \/ Overwritten(b, n, a)
<1>1. \A e \in Caches : \A x \in 1 .. Ways[e] : e # c \/ x # w => n[e][x] = b[e][x]
  BY DEF InstalledAs
<1>2. CASE Queued(q["L2C"], a)  BY <1>2 DEF InHand
<1>3. CASE Held(b, "L1D", a)
  BY <1>1, <1>3, CachesFacts DEF Held, InHand
<1>4. CASE Held(b, "L2C", a)
  BY <1>1, <1>4, CachesFacts DEF Held, InHand, Overwritten
<1> QED  BY <1>2, <1>3, <1>4 DEF InHand

LEMMA StepInHand ==
  ASSUME CacheInv, Next, NEW a \in Lines, InHand(block, wq, a)
  PROVE  InHand(block', wq', a) \/ Overwritten(block, block', a)
<1>0. /\ QueuesOK(wq, WqSize, WriteKinds) /\ BlocksOK(block) /\ MshrOK(mshr)
  BY DEF CacheInv, Typed
<1>a. /\ "L2C" \in Caches /\ "L1D" \in Caches /\ "L1D" # "L2C"
      /\ WqSize["L2C"] \in Nat /\ WqSize["L1D"] \in Nat
  BY CachesFacts, SizesType
<1>b. ASSUME block' = block, wq'["L2C"] = wq["L2C"]
      PROVE  InHand(block', wq', a)
  BY <1>b DEF InHand
<1>1. CASE Core \/ (\E p \in Prefetches : PrefetchLine(p[1], p[2], p[3]))
           \/ (\E x \in Lines : LlcReturn(x))
  <2>1. CASE \E x \in Lines : Store(x)
    <3>1. PICK p : wq' = [wq EXCEPT !["L1D"] = Append(@, p)] /\ block' = block
      BY <2>1 DEF Store
    <3>2. wq'["L2C"] = wq["L2C"]  BY <1>0, <1>a, <3>1 DEF QueuesOK
    <3> QED  BY <1>b, <3>1, <3>2
  <2>2. CASE wq' = wq /\ block' = block  BY <1>b, <2>2
  <2> QED  BY <1>1, <2>1, <2>2 DEF Core, Demand, PrefetchLine, LlcReturn, Lines
<1>2. ASSUME NEW c \in Caches, HandleRead(c) \/ HandlePrefetch(c)
      PROVE  InHand(block', wq', a)
  BY <1>b, <1>2 DEF HandleRead, HandlePrefetch
<1>3. CASE HandleStore
  <2> DEFINE p == Head(wq["L1D"])
  <2>1. wq["L1D"] # <<>> /\ wq' = [wq EXCEPT !["L1D"] = Tail(@)]  BY <1>3 DEF HandleStore
  <2>2. Replaced(wq, [wq EXCEPT !["L1D"] = Tail(@)], "L1D", Tail(wq["L1D"]), WqSize, WriteKinds)
        /\ p \in WriteKinds["L1D"]
    BY <1>0, <1>a, <2>1, QueuePopped
  <2>3. wq'["L2C"] = wq["L2C"] /\ p.line \in Lines
    BY <1>a, <2>1, <2>2 DEF Replaced, WriteKinds, Writes, PacketType
  <2>4. \/ block' = block
        \/ block' = [block EXCEPT !["L1D"] =
                       [w \in DOMAIN @ |-> IF block["L1D"][w].line = p.line
                                           THEN [block["L1D"][w] EXCEPT !.dirty = TRUE]
                                           ELSE block["L1D"][w]]]
    BY <1>3 DEF HandleStore
  <2>5. CASE block' = block  BY <1>b, <2>3, <2>5
  <2>6. CASE block' # block
    <3>0. block' = [block EXCEPT !["L1D"] =
                      [w \in DOMAIN @ |-> IF block["L1D"][w].line = p.line
                                          THEN [block["L1D"][w] EXCEPT !.dirty = TRUE]
                                          ELSE block["L1D"][w]]]
      BY <2>4, <2>6, Zenon
    <3> HIDE DEF p
    <3>1. MarkedAs(block, block', "L1D")
      BY <1>0, <1>a, <2>3, <3>0, StoreHit, Zenon
    <3>2. \A c \in Caches : Held(block, c, a) => Held(block', c, a)
      BY <3>1 DEF MarkedAs, Held
    <3> QED  BY <1>a, <2>3, <3>2 DEF InHand
  <2> QED  BY <2>5, <2>6
<1>4. ASSUME NEW c \in Caches, HandleFill(c)
      PROVE  InHand(block', wq', a) \/ Overwritten(block, block', a)
  <2>1. PICK x \in Occupied(c), w \in Victims(c) :
          Evict(c, w, wq) /\ Install(c, w, x, c = "L1D" /\ mshr[c][x].type = "RFO")
    BY <1>4 DEF HandleFill
  <2> DEFINE d == (c = "L1D" /\ mshr[c][x].type = "RFO")
  <2>2. w \in 1 .. Ways[c] /\ x \in Lines  BY <1>0, <2>1, VictimsAreWays DEF Occupied
  <2>3. d \in BOOLEAN  OBVIOUS
  <2>4. block' = [block EXCEPT ![c][w] = [line |-> x, dirty |-> d]]  BY <2>1 DEF Install
  <2> HIDE DEF d
  <2>5. InstalledAs(block, block', c, w, x, d)  BY <1>0, <2>2, <2>3, <2>4, BlockInstalled
  <2>6. Evicted(c, w, wq)  BY <1>0, <2>1, <2>2, EvictIs
  <2>7. /\ Queued(wq["L2C"], a) => Queued(wq'["L2C"], a)
        /\ c # "L2C" /\ block[c][w].dirty /\ block[c][w].line = a => Queued(wq'["L2C"], a)
    BY <2>6 DEF Evicted
  <2> QED  BY <2>2, <2>5, <2>7, TakenWay
<1>5. CASE HandleWriteback
  <2> DEFINE c == "L2C"
             x == Head(wq[c]).line
             rest == [wq EXCEPT ![c] = Tail(@)]
             hit == {w \in DOMAIN block[c] : block[c][w].line = x}
  <2>1. wq[c] # <<>>  BY <1>5 DEF HandleWriteback
  <2>2. Replaced(wq, rest, c, Tail(wq[c]), WqSize, WriteKinds) /\ Head(wq[c]) \in WriteKinds[c]
    BY <1>0, <1>a, <2>1, QueuePopped
  <2>3. x \in Lines /\ rest[c] = Tail(wq[c]) /\ wq[c] \in Seq(WriteKinds[c])
    BY <1>0, <1>a, <2>2 DEF Replaced, QueuesOK, WriteKinds, Writes, PacketType
  <2>4. \E w \in 1 .. Ways[c] : wq' = rest /\ Install(c, w, x, TRUE)
    BY <1>0, <1>5, WritebackWay
  <2> HIDE DEF x, rest, hit
  <2>5. PICK w \in 1 .. Ways[c] : wq' = rest /\ Install(c, w, x, TRUE)  BY <2>4
  <2>6. TRUE \in BOOLEAN  OBVIOUS
  <2>7. block' = [block EXCEPT ![c][w] = [line |-> x, dirty |-> TRUE]]  BY <2>5 DEF Install
  <2>8. InstalledAs(block, [block EXCEPT ![c][w] = [line |-> x, dirty |-> TRUE]], c, w, x, TRUE)
    BY <1>0, <1>a, <2>3, <2>5, <2>6, BlockInstalled
  <2>9. InstalledAs(block, block', c, w, x, TRUE)  BY <2>7, <2>8, Zenon
  <2>10. Held(block', c, x)
    <3>1. block'[c][w] = [line |-> x, dirty |-> TRUE] /\ block'[c][w] \in BlockType
      BY <1>a, <2>9 DEF InstalledAs, BlocksOK
    <3>2. block'[c][w].line = x /\ block'[c][w].dirty  BY <3>1, DirtyBlock, Zenon
    <3> QED  BY <3>2 DEF Held
  <2>11. Queued(wq[c], a) => Queued(wq'[c], a) \/ Held(block', c, a)
    <3>1. Queued(wq[c], a) <=> Head(wq[c]).line = a \/ Queued(Tail(wq[c]), a)
      BY <2>1, <2>3, QueuedTail
    <3> QED  BY <2>3, <2>5, <2>10, <3>1 DEF x
  <2>12. c # "L2C" /\ block[c][w].dirty /\ block[c][w].line = a => Queued(wq'[c], a)
    OBVIOUS
  <2> QED  BY <1>a, <2>9, <2>11, <2>12, TakenWay
<1> QED  BY <1>1, <1>2, <1>3, <1>4, <1>5 DEF Next

\* A modified line leaves the L1D for the write queue of the L2C, the write queue for
\* the L2C, and the L2C only when it is replaced there: no step drops it on the way.
THEOREM ModifiedHandedDownCorrect == Spec => ModifiedHandedDown
<1> DEFINE HandedDown ==
             \A a \in Lines :
               Modified(a) /\ ~Modified(a)' =>
                 \E w \in DOMAIN block["L2C"] : /\ block["L2C"][w] = [line |-> a, dirty |-> TRUE]
                                                /\ block'["L2C"][w] # block["L2C"][w]
<1>1. ASSUME CacheInv, CacheInv', [Next]_vars
      PROVE  [HandedDown]_vars
  <2>1. CASE UNCHANGED vars  BY <2>1
  <2>2. CASE Next
    <3> SUFFICES ASSUME NEW a \in Lines, Modified(a), ~Modified(a)'
                 PROVE  \E w \in DOMAIN block["L2C"] :
                          /\ block["L2C"][w] = [line |-> a, dirty |-> TRUE]
                          /\ block'["L2C"][w] # block["L2C"][w]
      OBVIOUS
    <3>1. BlocksOK(block) /\ BlocksOK(block')  BY <1>1 DEF CacheInv, Typed
    <3>2. InHand(block, wq, a)  BY <3>1, InHandIs
    <3>3. ~InHand(block', wq', a)
      <4>1. ASSUME NEW c \in Caches, Held(block', c, a)
            PROVE  Dirty(c, a)'
        <5>1. DirtyWays(block', c, a)  BY <3>1, DirtyBlocks
        <5> QED  BY <4>1, <5>1, Zenon DEF DirtyWays, Dirty, Held
      <4> QED  BY <4>1, CachesFacts DEF Modified, InHand
    <3>4. Overwritten(block, block', a)  BY <1>1, <2>2, <3>2, <3>3, StepInHand
    <3>5. DirtyWays(block, "L2C", a)  BY <3>1, CachesFacts, DirtyBlocks
    <3> QED  BY <3>4, <3>5, Zenon DEF DirtyWays, Overwritten
  <2> QED  BY <1>1, <2>1, <2>2
<1>2. Spec => []CacheInv  BY Inductive
<1> HIDE DEF HandedDown
<1>3. Spec => [][HandedDown]_vars  BY <1>1, <1>2, PTL DEF Spec
<1> QED  BY <1>3 DEF HandedDown, ModifiedHandedDown

-----------------------------------------------------------------------------
(* Every miss is answered once                                              *)
(*                                                                          *)
(* Only when code and data share no line: an L2C entry keeps the flags of   *)
(* both L1 caches, and a read that merges into a prefetch's entry replaces  *)
(* them.  Prefetchers stay in the page of a demand (cache.cc:2560,          *)
(* next_line.l1i_pref:18), so the L1 caches' ask for lines of their side.   *)

Separate ==
  /\ CodeLines \cap DataLines = {}
  /\ \A p \in Prefetches : /\ p[1] = "L1I" => p[2] \in CodeLines
                           /\ p[1] = "L1D" => p[2] \in DataLines

\* The L1 cache a line is for.
Side(a) == IF a \in CodeLines THEN "L1I" ELSE "L1D"

\* Packets and entries of an L1 are of its side, and name only the side of their line.
SidedPacket(c, p) == p.fill \subseteq {Side(p.line)} /\ (c \in L1 => Side(p.line) = c)
SidedQueue(c, s) == \A i \in DOMAIN s : SidedPacket(c, s[i])
SidesOK(q) == \A c \in L1 : SidedQueue(c, q[c])
SidedMshr(m) ==
  \A c \in Caches, a \in Lines : m[c][a] # NoEntry =>
    m[c][a].fill \subseteq {Side(a)} /\ (c \in L1 => Side(a) = c)

\* No line twice in a queue of the L2C.
Distinct(s) == \A i, j \in DOMAIN s : s[i].line = s[j].line => i = j

\* The L2C is to return line a to L1 cache u, by a packet of queue s or by its MSHR.
Names(s, u, a) == \E i \in DOMAIN s : s[i].line = a /\ u \in s[i].fill
InMshr(m, u, a) == u \in m["L2C"][a].fill
Waits(m, c, a) == m[c][a] # NoEntry /\ ~m[c][a].returned

\* An L1 waits for a line exactly when one of the three places names it.
OneRequest(rs, ps, m) ==
  \A u \in L1, a \in Lines :
    /\ Waits(m, u, a) <=> (Names(rs, u, a) \/ Names(ps, u, a) \/ InMshr(m, u, a))
    /\ ~(Names(rs, u, a) /\ Names(ps, u, a))
    /\ ~(Names(rs, u, a) /\ InMshr(m, u, a))
    /\ ~(Names(ps, u, a) /\ InMshr(m, u, a))

ServedBy(rs, ps, m, l) ==
  /\ Distinct(rs) /\ Distinct(ps)
  /\ SidedQueue("L2C", rs) /\ SidedQueue("L2C", ps) /\ SidedMshr(m)
  /\ OneRequest(rs, ps, m)
  /\ l = {a \in Lines : Waits(m, "L2C", a)}

Served ==
  /\ ServedBy(rq["L2C"], pq["L2C"], mshr, llc)
  /\ SidesOK(rq) /\ SidesOK(wq) /\ SidesOK(pq)

-----------------------------------------------------------------------------
(* What a queue names *)

\* r is s with the packet p in it.
Joined(c, s, r, p) ==
  /\ SidedQueue(c, r)
  /\ Distinct(s) => Distinct(r)
  /\ \A u \in L1, a \in Lines : Names(r, u, a) <=> (Names(s, u, a) \/ (a = p.line /\ u \in p.fill))

LEMMA AppendJoins ==
  ASSUME NEW S, NEW s \in Seq(S), NEW p \in S, NEW c, SidedQueue(c, s), SidedPacket(c, p),
         ~Queued(s, p.line)
  PROVE  Joined(c, s, Append(s, p), p)
<1> DEFINE r == Append(s, p)
           n == Len(s)
<1>1. /\ n \in Nat /\ DOMAIN s = 1 .. n /\ DOMAIN r = 1 .. n + 1
      /\ \A i \in 1 .. n : r[i] = s[i]
      /\ r[n + 1] = p
  BY Pushed
<1> HIDE DEF r, n
<1>2. /\ \A i \in DOMAIN r : i \in DOMAIN s \/ i = n + 1
      /\ \A i \in DOMAIN s : i \in DOMAIN r /\ r[i] = s[i]
      /\ n + 1 \in DOMAIN r /\ r[n + 1] = p
  BY <1>1
<1>3. \A i \in DOMAIN s : s[i].line # p.line  BY DEF Queued
<1>4. SidedQueue(c, r)  BY <1>2 DEF SidedQueue
<1>5. ASSUME Distinct(s) PROVE Distinct(r)
  BY <1>2, <1>3, <1>5 DEF Distinct
<1>6. ASSUME NEW u \in L1, NEW a \in Lines
      PROVE  Names(r, u, a) <=> (Names(s, u, a) \/ (a = p.line /\ u \in p.fill))
  BY <1>2 DEF Names
<1> QED  BY <1>4, <1>5, <1>6 DEF Joined, r

LEMMA MergeJoins ==
  ASSUME NEW s, NEW r, NEW p, NEW c, MergedAs(s, r, p), SidedQueue(c, s), SidedPacket(c, p),
         Queued(s, p.line)
  PROVE  Joined(c, s, r, p)
<1>1. SidedQueue(c, r)
  BY DEF SidedQueue, SidedPacket, MergedAs
<1>2. Distinct(s) => Distinct(r)  BY DEF Distinct, MergedAs
<1>3. ASSUME NEW u \in L1, NEW a \in Lines
      PROVE  Names(r, u, a) <=> (Names(s, u, a) \/ (a = p.line /\ u \in p.fill))
  BY DEF Names, MergedAs, Queued
<1> QED  BY <1>1, <1>2, <1>3 DEF Joined

\* r is s without its head p, the only packet of its line.
Departed(c, s, r, p) ==
  /\ SidedQueue(c, r) /\ SidedPacket(c, p)
  /\ Distinct(s) =>
       /\ Distinct(r)
       /\ \A u \in L1, a \in Lines :
            /\ Names(r, u, a) <=> (Names(s, u, a) /\ a # p.line)
            /\ a = p.line => (Names(s, u, a) <=> u \in p.fill)

LEMMA TailDeparts ==
  ASSUME NEW S, NEW s \in Seq(S), s # <<>>, NEW c, SidedQueue(c, s)
  PROVE  Departed(c, s, Tail(s), Head(s))
<1> DEFINE r == Tail(s)
           n == Len(s)
           p == Head(s)
<1>1. /\ n \in Nat \ {0} /\ DOMAIN s = 1 .. n /\ p = s[1] /\ DOMAIN r = 1 .. n - 1
      /\ \A i \in 1 .. n - 1 : r[i] = s[i + 1]
  BY Popped
<1> HIDE DEF r, n, p
<1>2. /\ 1 \in DOMAIN s /\ s[1] = p
      /\ \A i \in DOMAIN r : i + 1 \in DOMAIN s /\ i + 1 # 1 /\ r[i] = s[i + 1] /\ i \in Nat
  BY <1>1
<1>3. \A i \in DOMAIN s : i = 1 \/ (i - 1 \in DOMAIN r /\ r[i - 1] = s[i])
  <2> SUFFICES ASSUME NEW i \in DOMAIN s, i # 1
               PROVE  i - 1 \in DOMAIN r /\ r[i - 1] = s[i]
    OBVIOUS
  <2>1. i - 1 \in 1 .. n - 1 /\ (i - 1) + 1 = i  BY <1>1
  <2> QED  BY <1>1, <2>1
<1>4. SidedQueue(c, r) /\ SidedPacket(c, p)  BY <1>2 DEF SidedQueue
<1>5. ASSUME Distinct(s)
      PROVE  /\ Distinct(r)
             /\ \A u \in L1, a \in Lines :
                  /\ Names(r, u, a) <=> (Names(s, u, a) /\ a # p.line)
                  /\ a = p.line => (Names(s, u, a) <=> u \in p.fill)
  <2>1. Distinct(r)
    <3> SUFFICES ASSUME NEW i \in DOMAIN r, NEW j \in DOMAIN r, r[i].line = r[j].line
                 PROVE  i = j
      BY DEF Distinct
    <3>1. i + 1 = j + 1  BY <1>2, <1>5 DEF Distinct
    <3> QED  BY <1>2, <3>1
  <2>2. \A i \in DOMAIN s : i # 1 => s[i].line # p.line  BY <1>2, <1>5 DEF Distinct
  <2>3. ASSUME NEW u \in L1, NEW a \in Lines
        PROVE  /\ Names(r, u, a) <=> (Names(s, u, a) /\ a # p.line)
               /\ a = p.line => (Names(s, u, a) <=> u \in p.fill)
    <3>1. Names(r, u, a) => Names(s, u, a) /\ a # p.line  BY <1>2, <2>2 DEF Names
    <3>2. Names(s, u, a) /\ a # p.line => Names(r, u, a)  BY <1>2, <1>3 DEF Names
    <3>3. a = p.line => (Names(s, u, a) <=> u \in p.fill)  BY <1>2, <2>2 DEF Names
    <3> QED  BY <3>1, <3>2, <3>3
  <2> QED  BY <2>1, <2>3
<1> QED  BY <1>4, <1>5 DEF Departed, r, p

-----------------------------------------------------------------------------
(* Who waits *)

LEMMA WaitsAnswered ==
  ASSUME NEW m, NEW n, NEW U, NEW a, MshrOK(m), AnsweredAs(m, n, U, a)
  PROVE  /\ \A c \in Caches, x \in Lines :
              /\ Waits(n, c, x) <=> (Waits(m, c, x) /\ ~(c \in U /\ x = a))
              /\ n[c][x].fill = m[c][x].fill
         /\ SidedMshr(m) => SidedMshr(n)
<1>1. ASSUME NEW c \in Caches, NEW x \in Lines
      PROVE  /\ Waits(n, c, x) <=> (Waits(m, c, x) /\ ~(c \in U /\ x = a))
             /\ n[c][x].fill = m[c][x].fill
             /\ n[c][x] = NoEntry <=> m[c][x] = NoEntry
  <2>1. m[c][x] \in EntryType \/ m[c][x] = NoEntry  BY DEF MshrOK
  <2> DEFINE e == m[c][x]
             f == n[c][x]
  <2>2. f = IF c \in U /\ x = a /\ e # NoEntry THEN Returned(e) ELSE e  BY DEF AnsweredAs
  <2>3. e \in EntryType => Returned(e) # NoEntry /\ Returned(e).returned
                           /\ Returned(e).fill = e.fill
    BY ReturnedFacts
  <2> QED  BY <2>1, <2>2, <2>3 DEF Waits
<1>2. SidedMshr(m) => SidedMshr(n)  BY <1>1 DEF SidedMshr
<1> QED  BY <1>1, <1>2

PutChanges(m, n, c, a, e) ==
  /\ \A d \in Caches, x \in Lines :
       d # c \/ x # a => (Waits(n, d, x) <=> Waits(m, d, x)) /\ n[d][x] = m[d][x]
  /\ Waits(n, c, a) <=> (e # NoEntry /\ ~e.returned)
  /\ n[c][a] = e

LEMMA WaitsPut ==
  ASSUME NEW m, NEW n, NEW c \in Caches, NEW a \in Lines, NEW e, PutAs(m, n, c, a, e)
  PROVE  PutChanges(m, n, c, a, e)
BY DEF PutAs, Waits, PutChanges

-----------------------------------------------------------------------------
(* How requests move *)

LEMMA ServedSwap ==
  ASSUME NEW rs, NEW ps, NEW m, NEW l, ServedBy(rs, ps, m, l)
  PROVE  ServedBy(ps, rs, m, l)
BY DEF ServedBy, OneRequest

\* An L1 that is asked again, or frees a completed entry, waits as before.
LEMMA UpperKeeps ==
  ASSUME NEW rs, NEW ps, NEW m, NEW l, ServedBy(rs, ps, m, l), NEW c \in L1, NEW a \in Lines,
         NEW n, NEW e, PutAs(m, n, c, a, e), Waits(m, c, a) <=> (e # NoEntry /\ ~e.returned),
         e # NoEntry => e.fill \subseteq {Side(a)} /\ Side(a) = c
  PROVE  ServedBy(rs, ps, n, l)
<1>w. PutChanges(m, n, c, a, e)  BY CachesFacts, WaitsPut
<1>1. /\ \A d \in Caches, x \in Lines : Waits(n, d, x) <=> Waits(m, d, x)
      /\ \A x \in Lines : n["L2C"][x] = m["L2C"][x]
      /\ n[c][a] = e
      /\ \A d \in Caches, x \in Lines : d # c \/ x # a => n[d][x] = m[d][x]
  BY <1>w, CachesFacts DEF PutChanges
<1>2. SidedMshr(n)  BY <1>1 DEF ServedBy, SidedMshr
<1>3. OneRequest(rs, ps, n)  BY <1>1, CachesFacts DEF ServedBy, OneRequest, InMshr
<1>4. l = {x \in Lines : Waits(n, "L2C", x)}  BY <1>1, CachesFacts DEF ServedBy
<1> QED  BY <1>2, <1>3, <1>4 DEF ServedBy

\* An L1 misses, and its packet joins a queue of the L2C.
LEMMA UpperAsks ==
  ASSUME NEW rs, NEW ps, NEW m, NEW l, ServedBy(rs, ps, m, l), NEW c \in L1,
         NEW p \in PacketType, p.fill = {c}, Side(p.line) = c, m[c][p.line] = NoEntry,
         NEW n, NEW e, PutAs(m, n, c, p.line, e), e # NoEntry, ~e.returned, e.fill = {c},
         NEW r, Joined("L2C", rs, r, p)
  PROVE  ServedBy(r, ps, n, l)
<1>0. p.line \in Lines /\ c \in Caches /\ c # "L2C"  BY CachesFacts DEF PacketType
<1>w. PutChanges(m, n, c, p.line, e)  BY <1>0, WaitsPut
<1>1. /\ \A d \in Caches, x \in Lines : d # c \/ x # p.line => (Waits(n, d, x) <=> Waits(m, d, x))
      /\ \A x \in Lines : n["L2C"][x] = m["L2C"][x]
      /\ n[c][p.line] = e /\ Waits(n, c, p.line)
      /\ \A d \in Caches, x \in Lines : d # c \/ x # p.line => n[d][x] = m[d][x]
  BY <1>w, <1>0, CachesFacts DEF PutChanges
<1>2. SidedMshr(n)  BY <1>1 DEF ServedBy, SidedMshr
<1>3. ~Waits(m, c, p.line)  BY DEF Waits
<1>4. \A u \in L1, a \in Lines :
        Names(r, u, a) <=> (Names(rs, u, a) \/ (a = p.line /\ u = c))
  BY DEF Joined
<1>5. \A u \in L1, a \in Lines : InMshr(n, u, a) <=> InMshr(m, u, a)  BY <1>1 DEF InMshr
<1>6. \A u \in L1, a \in Lines :
        Waits(n, u, a) <=> (Waits(m, u, a) \/ (a = p.line /\ u = c))
  BY <1>1, CachesFacts
<1>7. OneRequest(rs, ps, m)  BY DEF ServedBy
<1>8. OneRequest(r, ps, n)
  BY <1>0, <1>3, <1>4, <1>5, <1>6, <1>7 DEF OneRequest
<1>9. l = {x \in Lines : Waits(n, "L2C", x)}  BY <1>0, <1>1, CachesFacts DEF ServedBy
<1> QED  BY <1>2, <1>8, <1>9 DEF ServedBy, Joined

\* An L1 misses, and the write queue of the L2C answers at once.
LEMMA UpperAnswered ==
  ASSUME NEW rs, NEW ps, NEW m, NEW l, ServedBy(rs, ps, m, l), NEW c \in L1, NEW a \in Lines,
         Side(a) = c, m[c][a] = NoEntry,
         NEW n, NEW e, PutAs(m, n, c, a, e), e # NoEntry, e.fill = {c},
         NEW k, AnsweredAs(n, k, {c}, a)
  PROVE  ServedBy(rs, ps, k, l)
<1>0. c \in Caches /\ c # "L2C"  BY CachesFacts
<1>w. PutChanges(m, n, c, a, e)  BY <1>0, WaitsPut
<1>1. /\ \A d \in Caches, x \in Lines : d # c \/ x # a => (Waits(n, d, x) <=> Waits(m, d, x))
      /\ n[c][a] = e /\ \A d \in Caches, x \in Lines : d # c \/ x # a => n[d][x] = m[d][x]
  BY <1>w, <1>0 DEF PutChanges
<1>2. MshrOK(n)  BY DEF PutAs
<1>3. /\ \A d \in Caches, x \in Lines :
           /\ Waits(k, d, x) <=> (Waits(n, d, x) /\ ~(d = c /\ x = a))
           /\ k[d][x].fill = n[d][x].fill
      /\ SidedMshr(n) => SidedMshr(k)
  BY <1>2, WaitsAnswered
<1>4. ~Waits(m, c, a)  BY DEF Waits
<1>5. SidedMshr(k)  BY <1>1, <1>3 DEF ServedBy, SidedMshr
<1>6. \A d \in Caches, x \in Lines : Waits(k, d, x) <=> Waits(m, d, x)  BY <1>1, <1>3, <1>4
<1>7. \A u \in L1, x \in Lines : InMshr(k, u, x) <=> InMshr(m, u, x)
  BY <1>0, <1>1, <1>3, CachesFacts DEF InMshr
<1>8. OneRequest(rs, ps, k)  BY <1>6, <1>7, CachesFacts DEF ServedBy, OneRequest
<1>9. l = {x \in Lines : Waits(k, "L2C", x)}  BY <1>6, CachesFacts DEF ServedBy
<1> QED  BY <1>5, <1>8, <1>9 DEF ServedBy

\* A packet that names nobody joins.
LEMMA NobodyAsks ==
  ASSUME NEW rs, NEW ps, NEW m, NEW l, ServedBy(rs, ps, m, l), NEW p, p.fill = {},
         NEW r, Joined("L2C", rs, r, p)
  PROVE  ServedBy(r, ps, m, l)
<1>1. OneRequest(r, ps, m)  BY DEF ServedBy, OneRequest, Joined
<1> QED  BY <1>1 DEF ServedBy, Joined

\* The L2C returns the line of a packet to those it names.
LEMMA LowerReturns ==
  ASSUME NEW rs, NEW ps, NEW m, NEW l, MshrOK(m), ServedBy(rs, ps, m, l), NEW p \in PacketType,
         NEW r, Departed("L2C", rs, r, p), NEW n, AnsweredAs(m, n, p.fill, p.line)
  PROVE  ServedBy(r, ps, n, l)
<1>0. p.line \in Lines /\ p.fill \subseteq L1 /\ "L2C" \notin p.fill
  BY CachesFacts DEF PacketType
<1>1. /\ \A d \in Caches, x \in Lines :
           /\ Waits(n, d, x) <=> (Waits(m, d, x) /\ ~(d \in p.fill /\ x = p.line))
           /\ n[d][x].fill = m[d][x].fill
      /\ SidedMshr(n)
  BY WaitsAnswered DEF ServedBy
<1>2. /\ Distinct(r)
      /\ \A u \in L1, a \in Lines :
           /\ Names(r, u, a) <=> (Names(rs, u, a) /\ a # p.line)
           /\ a = p.line => (Names(rs, u, a) <=> u \in p.fill)
  BY DEF ServedBy, Departed
<1>3. OneRequest(rs, ps, m)  BY DEF ServedBy
<1>4. \A u \in L1, a \in Lines : InMshr(n, u, a) <=> InMshr(m, u, a)
  BY <1>1, CachesFacts DEF InMshr
<1>5. \A u \in L1, a \in Lines :
        Waits(n, u, a) <=> (Waits(m, u, a) /\ ~(u \in p.fill /\ a = p.line))
  BY <1>1, CachesFacts
<1>6. OneRequest(r, ps, n)  BY <1>2, <1>3, <1>4, <1>5 DEF OneRequest
<1>7. l = {x \in Lines : Waits(n, "L2C", x)}  BY <1>0, <1>1, CachesFacts DEF ServedBy
<1> QED  BY <1>1, <1>2, <1>6, <1>7 DEF ServedBy, Departed

\* The L2C misses: the flags of the packet move into a new entry.
LEMMA LowerAsks ==
  ASSUME NEW rs, NEW ps, NEW m, NEW l, ServedBy(rs, ps, m, l), NEW p \in PacketType,
         NEW r, Departed("L2C", rs, r, p), m["L2C"][p.line] = NoEntry,
         NEW n, NEW e, PutAs(m, n, "L2C", p.line, e), e # NoEntry, ~e.returned, e.fill = p.fill
  PROVE  ServedBy(r, ps, n, l \cup {p.line})
<1>0. p.line \in Lines /\ "L2C" \in Caches /\ "L2C" \notin L1  BY CachesFacts DEF PacketType
<1>w. PutChanges(m, n, "L2C", p.line, e)  BY <1>0, WaitsPut
<1>1. /\ \A d \in Caches, x \in Lines :
           d # "L2C" \/ x # p.line => (Waits(n, d, x) <=> Waits(m, d, x)) /\ n[d][x] = m[d][x]
      /\ Waits(n, "L2C", p.line) /\ n["L2C"][p.line] = e
  BY <1>w, <1>0 DEF PutChanges
<1>2. /\ Distinct(r) /\ SidedPacket("L2C", p)
      /\ \A u \in L1, a \in Lines :
           /\ Names(r, u, a) <=> (Names(rs, u, a) /\ a # p.line)
           /\ a = p.line => (Names(rs, u, a) <=> u \in p.fill)
  BY DEF ServedBy, Departed
<1>3. OneRequest(rs, ps, m)  BY DEF ServedBy
<1>4. \A u \in L1, a \in Lines :
        InMshr(n, u, a) <=> IF a = p.line THEN u \in p.fill ELSE InMshr(m, u, a)
  BY <1>0, <1>1 DEF InMshr
<1>5. \A u \in L1 : ~InMshr(m, u, p.line)  BY NoEntryFacts DEF InMshr
<1>6. \A u \in L1, a \in Lines : Waits(n, u, a) <=> Waits(m, u, a)
  BY <1>0, <1>1, CachesFacts
<1>7. OneRequest(r, ps, n)  BY <1>0, <1>2, <1>3, <1>4, <1>5, <1>6 DEF OneRequest
<1>8. SidedMshr(n)  BY <1>0, <1>1, <1>2 DEF ServedBy, SidedMshr, SidedPacket
<1>9. l \cup {p.line} = {x \in Lines : Waits(n, "L2C", x)}
  BY <1>0, <1>1 DEF ServedBy
<1> QED  BY <1>2, <1>7, <1>8, <1>9 DEF ServedBy, Departed

\* The L2C misses on a line it waits for: the flags move into its entry.
LEMMA LowerMerges ==
  ASSUME NEW rs, NEW ps, NEW m, NEW l, ServedBy(rs, ps, m, l), NEW p \in PacketType,
         NEW r, Departed("L2C", rs, r, p), m["L2C"][p.line] # NoEntry,
         NEW n, NEW f, PutAs(m, n, "L2C", p.line, f), f # NoEntry,
         f.returned = m["L2C"][p.line].returned, f.fill = m["L2C"][p.line].fill \cup p.fill
  PROVE  ServedBy(r, ps, n, l)
<1>0. p.line \in Lines /\ "L2C" \in Caches /\ "L2C" \notin L1  BY CachesFacts DEF PacketType
<1>w. PutChanges(m, n, "L2C", p.line, f)  BY <1>0, WaitsPut
<1>1. /\ \A d \in Caches, x \in Lines :
           d # "L2C" \/ x # p.line => (Waits(n, d, x) <=> Waits(m, d, x)) /\ n[d][x] = m[d][x]
      /\ (Waits(n, "L2C", p.line) <=> ~f.returned) /\ n["L2C"][p.line] = f
  BY <1>w, <1>0 DEF PutChanges
<1>2. /\ Distinct(r) /\ SidedPacket("L2C", p)
      /\ \A u \in L1, a \in Lines :
           /\ Names(r, u, a) <=> (Names(rs, u, a) /\ a # p.line)
           /\ a = p.line => (Names(rs, u, a) <=> u \in p.fill)
  BY DEF ServedBy, Departed
<1>3. OneRequest(rs, ps, m)  BY DEF ServedBy
<1>4. \A u \in L1, a \in Lines :
        InMshr(n, u, a) <=> (InMshr(m, u, a) \/ (a = p.line /\ u \in p.fill))
  BY <1>0, <1>1 DEF InMshr
<1>6. \A u \in L1, a \in Lines : Waits(n, u, a) <=> Waits(m, u, a)
  BY <1>0, <1>1, CachesFacts
<1>7. OneRequest(r, ps, n)  BY <1>0, <1>2, <1>3, <1>4, <1>6 DEF OneRequest
<1>8. SidedMshr(n)  BY <1>0, <1>1, <1>2 DEF ServedBy, SidedMshr, SidedPacket
<1>9. Waits(n, "L2C", p.line) <=> Waits(m, "L2C", p.line)  BY <1>1 DEF Waits
<1>10. l = {x \in Lines : Waits(n, "L2C", x)}
  BY <1>0, <1>1, <1>9 DEF ServedBy
<1> QED  BY <1>2, <1>7, <1>8, <1>10 DEF ServedBy, Departed

\* The L2C fills: it returns the line to those its entry names and frees it.
LEMMA LowerFills ==
  ASSUME NEW rs, NEW ps, NEW m, NEW l, MshrOK(m), ServedBy(rs, ps, m, l), NEW a \in Lines,
         NEW U, U = m["L2C"][a].fill, "L2C" \notin U, m["L2C"][a].returned,
         NEW k, AnsweredAs(m, k, U, a), NEW n, PutAs(k, n, "L2C", a, NoEntry)
  PROVE  ServedBy(rs, ps, n, l)
<1>0. "L2C" \in Caches /\ "L2C" \notin L1  BY CachesFacts
<1>1. /\ \A d \in Caches, x \in Lines :
           /\ Waits(k, d, x) <=> (Waits(m, d, x) /\ ~(d \in U /\ x = a))
           /\ k[d][x].fill = m[d][x].fill
      /\ SidedMshr(k)
  BY WaitsAnswered DEF ServedBy
<1>w. PutChanges(k, n, "L2C", a, NoEntry)  BY <1>0, WaitsPut
<1>2. /\ \A d \in Caches, x \in Lines :
           d # "L2C" \/ x # a => (Waits(n, d, x) <=> Waits(k, d, x)) /\ n[d][x] = k[d][x]
      /\ ~Waits(n, "L2C", a) /\ n["L2C"][a] = NoEntry
  BY <1>w, <1>0 DEF PutChanges
<1>3. ~Waits(m, "L2C", a)  BY DEF Waits
<1>4. SidedMshr(n)  BY <1>1, <1>2 DEF SidedMshr
<1>5. \A u \in L1, x \in Lines :
        /\ InMshr(n, u, x) <=> (InMshr(m, u, x) /\ x # a)
        /\ x = a => (InMshr(m, u, x) <=> u \in U)
  BY <1>0, <1>1, <1>2, NoEntryFacts DEF InMshr
<1>6. \A u \in L1, x \in Lines : Waits(n, u, x) <=> (Waits(m, u, x) /\ ~(u \in U /\ x = a))
  BY <1>0, <1>1, <1>2, CachesFacts
<1>7. OneRequest(rs, ps, m)  BY DEF ServedBy
<1>8. OneRequest(rs, ps, n)  BY <1>5, <1>6, <1>7 DEF OneRequest
<1>9. l = {x \in Lines : Waits(n, "L2C", x)}
  BY <1>0, <1>1, <1>2, <1>3 DEF ServedBy
<1> QED  BY <1>4, <1>8, <1>9 DEF ServedBy

\* The LLC answers the L2C.
LEMMA LlcAnswers ==
  ASSUME NEW rs, NEW ps, NEW m, NEW l, MshrOK(m), ServedBy(rs, ps, m, l), NEW a \in Lines,
         NEW n, AnsweredAs(m, n, {"L2C"}, a)
  PROVE  ServedBy(rs, ps, n, l \ {a})
<1>0. "L2C" \in Caches /\ "L2C" \notin L1  BY CachesFacts
<1>1. /\ \A d \in Caches, x \in Lines :
           /\ Waits(n, d, x) <=> (Waits(m, d, x) /\ ~(d = "L2C" /\ x = a))
           /\ n[d][x].fill = m[d][x].fill
      /\ SidedMshr(n)
  BY WaitsAnswered DEF ServedBy
<1>2. OneRequest(rs, ps, n)  BY <1>0, <1>1, CachesFacts DEF ServedBy, OneRequest, InMshr
<1>3. l \ {a} = {x \in Lines : Waits(n, "L2C", x)}  BY <1>0, <1>1 DEF ServedBy
<1> QED  BY <1>1, <1>2, <1>3 DEF ServedBy

-----------------------------------------------------------------------------
(* The read queue of the L2C has room for every miss of an L1: each of its  *)
(* packets stands for an entry that an L1 still waits on.                   *)

LEMMA ReadQueueRoom ==
  ASSUME CacheInv, Served, NEW c \in L1, Cardinality(Occupied(c)) < MshrSize[c]
  PROVE  Len(rq["L2C"]) # RqSize["L2C"]
<1> DEFINE s == rq["L2C"]
           n == Len(s)
           I == Occ(mshr, "L1I")
           D == Occ(mshr, "L1D")
           f == [i \in 1 .. n |-> s[i].line]
<1>0. Occupied(c) = Occ(mshr, c)  BY DEF Occupied, Occ
<1>1. s \in Seq(Reads("L2C"))  BY CachesFacts DEF CacheInv, Typed, QueuesOK, ReadKinds
<1>2. n \in Nat /\ DOMAIN s = 1 .. n /\ \A i \in 1 .. n : s[i] \in Reads("L2C")
  BY <1>1, SeqElements
<1>3. /\ Distinct(s) /\ SidedQueue("L2C", s) /\ OneRequest(s, pq["L2C"], mshr)
  BY DEF Served, ServedBy
<1>4. /\ IsFiniteSet(I) /\ IsFiniteSet(D)
      /\ Cardinality(I) <= MshrSize["L1I"] /\ Cardinality(D) <= MshrSize["L1D"]
      /\ Cardinality(I) \in Nat /\ Cardinality(D) \in Nat
      /\ MshrSize["L1I"] \in Nat /\ MshrSize["L1D"] \in Nat /\ RqSize["L2C"] \in Nat
  BY CachesFacts, SizesType, FS_CardinalityType DEF CacheInv, Typed, Within
<1>5. Cardinality(I) + Cardinality(D) < RqSize["L2C"]
  <2>1. MshrSize["L1I"] + MshrSize["L1D"] <= RqSize["L2C"]  BY HierarchyAssumption
  <2>2. Cardinality(I) < MshrSize["L1I"] \/ Cardinality(D) < MshrSize["L1D"]
    BY <1>0, CachesFacts
  <2> HIDE DEF I, D
  <2> QED  BY <1>4, <2>1, <2>2
<1>6. IsFiniteSet(I \cup D) /\ Cardinality(I \cup D) <= Cardinality(I) + Cardinality(D)
  <2>1. /\ IsFiniteSet(I \cup D)
        /\ Cardinality(I \cup D) = Cardinality(I) + Cardinality(D) - Cardinality(I \cap D)
    BY <1>4, FS_Union, Zenon
  <2>2. IsFiniteSet(I \cap D)
    <3>1. I \cap D \subseteq I  OBVIOUS
    <3> QED  BY <1>4, <3>1, FS_Subset, Zenon
  <2>3. Cardinality(I \cap D) \in Nat  BY <2>2, FS_CardinalityType, Zenon
  <2> HIDE DEF I, D
  <2> QED  BY <1>4, <2>1, <2>3
<1> HIDE DEF n, s, f
<1>7. f \in Injection(1 .. n, I \cup D)
  <2>1. ASSUME NEW i \in 1 .. n
        PROVE  s[i].line \in I \cup D
    <3>1. s[i] \in Reads("L2C") /\ s[i].line \in Lines /\ s[i].fill \subseteq L1 /\ s[i].fill # {}
      BY <1>2 DEF Reads, PacketType
    <3>2. PICK u \in L1 : u \in s[i].fill  BY <3>1
    <3>3. Names(s, u, s[i].line)  BY <1>2, <3>2 DEF Names
    <3>4. Waits(mshr, u, s[i].line)  BY <1>3, <3>1, <3>3 DEF OneRequest
    <3> QED  BY <3>1, <3>4, CachesFacts DEF Waits, Occ
  <2>2. f \in [1 .. n -> I \cup D]  BY <2>1 DEF f
  <2>3. \A i, j \in 1 .. n : f[i] = f[j] => i = j  BY <1>2, <1>3 DEF f, Distinct
  <2> QED  BY <2>2, <2>3 DEF Injection, IsInjective
<1>8. Cardinality(1 .. n) <= Cardinality(I \cup D)  BY <1>6, <1>7, FS_Injection
<1>9. Cardinality(1 .. n) = n
  <2>1. 1 \in Int /\ n \in Int  BY <1>2
  <2>2. Cardinality(1 .. n) = IF 1 > n THEN 0 ELSE n - 1 + 1  BY <2>1, FS_Interval, Zenon
  <2> QED  BY <1>2, <2>2
<1>10. Cardinality(I \cup D) \in Nat  BY <1>6, FS_CardinalityType
<1> HIDE DEF I, D
<1> QED  BY <1>2, <1>4, <1>5, <1>6, <1>8, <1>9, <1>10 DEF n, s

-----------------------------------------------------------------------------
(* The steps of the requests *)

LEMMA SidesPopped ==
  ASSUME NEW q, NEW r, NEW c \in Caches, NEW size, NEW kinds, QueuesOK(q, size, kinds),
         q[c] # <<>>, Replaced(q, r, c, Tail(q[c]), size, kinds), SidesOK(q)
  PROVE  SidesOK(r) /\ (c \in L1 => SidedPacket(c, Head(q[c])))
<1>1. q[c] \in Seq(kinds[c])  BY DEF QueuesOK
<1>2. ASSUME c \in L1
      PROVE  SidedQueue(c, r[c]) /\ SidedPacket(c, Head(q[c]))
  <2>1. SidedQueue(c, q[c])  BY <1>2 DEF SidesOK
  <2>2. Departed(c, q[c], Tail(q[c]), Head(q[c]))  BY <1>1, <2>1, TailDeparts
  <2> QED  BY <2>2 DEF Departed, Replaced
<1> QED  BY <1>2, CachesFacts DEF SidesOK, Replaced

\* What joins the queue of c leaves the others alone.
LEMMA SidesJoined ==
  ASSUME NEW q, NEW r, NEW c \in Caches, NEW s, NEW p, NEW size, NEW kinds,
         Replaced(q, r, c, s, size, kinds), SidesOK(q), Joined(c, q[c], s, p) \/ c \notin L1
  PROVE  SidesOK(r)
BY CachesFacts DEF SidesOK, Replaced, Joined

\* A packet of an L1 in its way to the read queue of the L2C.
LEMMA ReadMissServed ==
  ASSUME CacheInv, Served, NEW c \in L1, NEW p, p \in Reads(c), SidedPacket(c, p),
         p.line \notin Occupied(c), Cardinality(Occupied(c)) < MshrSize[c],
         NEW q, QueuesOK(q, RqSize, ReadKinds), q["L2C"] = rq["L2C"], SidesOK(q),
         LowerRead(c, p, q, AddMshr(mshr, c, p))
  PROVE  ServedBy(rq'["L2C"], pq["L2C"], mshr', llc') /\ SidesOK(rq')
<1> DEFINE m == AddMshr(mshr, c, p)
           e == EntryOf(p, FALSE)
<1>1. /\ MshrOK(mshr) /\ p \in PacketType /\ p.line \in Lines /\ c \in Caches /\ c # "L2C"
      /\ p.fill = {c} /\ Side(p.line) = c /\ mshr[c][p.line] = NoEntry
  BY CachesFacts DEF CacheInv, Typed, Reads, PacketType, SidedPacket, Occupied
<1>2. PutAs(mshr, m, c, p.line, e)  BY <1>1, AddMshrIs
<1>3. FALSE \in BOOLEAN  OBVIOUS
<1>4. e \in EntryType /\ e.fill = {c} /\ e.returned = FALSE  BY <1>1, <1>3, EntryOfFacts
<1>5. e # NoEntry /\ ~e.returned  BY <1>4, NoEntryFacts
<1> HIDE DEF m, e
<1>6. MshrOK(m)  BY <1>2 DEF PutAs
<1>7. LowerRead(c, p, q, m)  BY DEF m
<1>8. \/ LoweredOut(c, p, q, m) \/ LoweredAnswered(c, p, q, m)
      \/ LoweredQueued(c, p, q, m) \/ LoweredFull(c, p, q, m)
  BY <1>1, <1>6, <1>7, LowerReadIs
<1>9. ServedBy(rq["L2C"], pq["L2C"], mshr, llc)  BY DEF Served
<1>10. CASE LoweredOut(c, p, q, m)  BY <1>1, <1>10 DEF LoweredOut
<1>11. CASE LoweredFull(c, p, q, m)  BY <1>11, ReadQueueRoom DEF LoweredFull
<1>12. CASE LoweredAnswered(c, p, q, m)
  <2>1. llc' = llc /\ rq' = q /\ AnsweredAs(m, mshr', {c}, p.line)
    BY <1>1, <1>12 DEF LoweredAnswered
  <2>2. ServedBy(rq["L2C"], pq["L2C"], mshr', llc)
    BY <1>1, <1>2, <1>4, <1>5, <1>9, <2>1, UpperAnswered
  <2> QED  BY <2>1, <2>2
<1>13. CASE LoweredQueued(c, p, q, m)
  <2> DEFINE s == q["L2C"]
  <2>1. /\ llc' = llc /\ mshr' = m
        /\ \/ Queued(s, p.line) /\ Replaced(q, rq', "L2C", Merge(s, p), RqSize, ReadKinds)
           \/ ~Queued(s, p.line) /\ Replaced(q, rq', "L2C", Append(s, p), RqSize, ReadKinds)
    BY <1>13 DEF LoweredQueued
  <2>2. /\ s \in Seq(Reads("L2C")) /\ SidedQueue("L2C", s) /\ p \in Reads("L2C")
        /\ SidedPacket("L2C", p)
    BY <1>1, <1>9, CachesFacts DEF QueuesOK, ReadKinds, ServedBy, Reads, SidedPacket
  <2>3. Joined("L2C", s, rq'["L2C"], p)
    <3>1. CASE Queued(s, p.line) /\ Replaced(q, rq', "L2C", Merge(s, p), RqSize, ReadKinds)
      <4>1. MergedAs(s, Merge(s, p), p)  BY <2>2, ReadsMerged
      <4>2. Joined("L2C", s, Merge(s, p), p)  BY <2>2, <3>1, <4>1, MergeJoins
      <4> QED  BY <3>1, <4>2 DEF Replaced
    <3>2. CASE ~Queued(s, p.line) /\ Replaced(q, rq', "L2C", Append(s, p), RqSize, ReadKinds)
      <4>1. Joined("L2C", s, Append(s, p), p)  BY <2>2, <3>2, AppendJoins
      <4> QED  BY <3>2, <4>1 DEF Replaced
    <3> QED  BY <2>1, <3>1, <3>2
  <2>4. s = rq["L2C"]  OBVIOUS
  <2> HIDE DEF s
  <2>5. ServedBy(rq'["L2C"], pq["L2C"], m, llc)
    BY <1>1, <1>2, <1>4, <1>5, <1>9, <2>3, <2>4, UpperAsks
  <2>6. SidesOK(rq')  BY <2>1, CachesFacts, SidesJoined
  <2> QED  BY <2>1, <2>5, <2>6
<1> QED  BY <1>8, <1>10, <1>11, <1>12, <1>13

\* An L1 is asked again for a line it waits for.
LEMMA UpperMergeServed ==
  ASSUME CacheInv, Served, NEW c \in L1, NEW p, p \in PacketType, p.fill \subseteq {c},
         p.line \in Occupied(c), NEW f,
         mshr' = [mshr EXCEPT ![c][p.line] = f], MergedEntry(mshr[c][p.line], p, f)
  PROVE  ServedBy(rq["L2C"], pq["L2C"], mshr', llc)
<1>1. /\ c \in Caches /\ p.line \in Lines /\ mshr[c][p.line] # NoEntry /\ MshrOK(mshr)
      /\ ServedBy(rq["L2C"], pq["L2C"], mshr, llc)
  BY CachesFacts DEF Occupied, PacketType, CacheInv, Typed, Served
<1>2. PutAs(mshr, mshr', c, p.line, f)  BY <1>1, MergeStep
<1>3. mshr[c][p.line].fill \subseteq {Side(p.line)} /\ Side(p.line) = c
  BY <1>1 DEF ServedBy, SidedMshr
<1>4. /\ f # NoEntry /\ f.fill \subseteq {Side(p.line)}
      /\ f.returned = mshr[c][p.line].returned
  BY <1>3, NoEntryFacts DEF MergedEntry
<1>5. Waits(mshr, c, p.line) <=> (f # NoEntry /\ ~f.returned)
  BY <1>1, <1>4 DEF Waits
<1> QED  BY <1>1, <1>2, <1>3, <1>4, <1>5, UpperKeeps

\* The L2C is asked again for a line it waits for.
LEMMA LowerMergeServed ==
  ASSUME CacheInv, NEW p, p \in PacketType, p.line \in Occupied("L2C"), NEW f,
         mshr' = [mshr EXCEPT !["L2C"][p.line] = f], MergedEntry(mshr["L2C"][p.line], p, f),
         f.fill = mshr["L2C"][p.line].fill \cup p.fill,
         NEW rs, NEW ps, NEW r, ServedBy(rs, ps, mshr, llc), Departed("L2C", rs, r, p)
  PROVE  ServedBy(r, ps, mshr', llc)
<1>1. /\ "L2C" \in Caches /\ p.line \in Lines /\ mshr["L2C"][p.line] # NoEntry
  BY CachesFacts DEF Occupied, PacketType
<1>2. PutAs(mshr, mshr', "L2C", p.line, f)  BY <1>1, MergeStep
<1>3. f # NoEntry /\ f.returned = mshr["L2C"][p.line].returned
  BY NoEntryFacts DEF MergedEntry
<1> QED  BY <1>1, <1>2, <1>3, LowerMerges

LEMMA HandleReadServed ==
  ASSUME CacheInv, Served, NEW c \in Caches, HandleRead(c)
  PROVE  Served'
<1> DEFINE p == Head(rq[c])
           rest == [rq EXCEPT ![c] = Tail(@)]
<1>1. /\ QueuesOK(rq, RqSize, ReadKinds) /\ MshrOK(mshr)
      /\ ServedBy(rq["L2C"], pq["L2C"], mshr, llc)
      /\ SidesOK(rq) /\ SidesOK(wq) /\ SidesOK(pq)
  BY DEF CacheInv, Typed, Served
<1>2. rq[c] # <<>> /\ wq' = wq /\ pq' = pq  BY DEF HandleRead
<1>3. Replaced(rq, rest, c, Tail(rq[c]), RqSize, ReadKinds) /\ p \in ReadKinds[c]
  BY <1>1, <1>2, SizesType, QueuePopped
<1>4. p \in Reads(c) /\ p \in PacketType /\ QueuesOK(rest, RqSize, ReadKinds)
  BY <1>3 DEF Replaced, ReadKinds, Reads
<1>5. p.line \in Lines /\ p.level \in Levels /\ p.fill \subseteq L1 /\ FillsUp(p) /\ p.fill # {}
  BY <1>4 DEF PacketType, Reads
<1>6. SidesOK(rest) /\ (c \in L1 => SidedPacket(c, p))
  BY <1>1, <1>2, <1>3, SidesPopped
<1>7. \/ rq' = rest /\ mshr' = Answer(mshr, c, p) /\ llc' = llc
      \/ p.line \notin Occupied(c) /\ Cardinality(Occupied(c)) < MshrSize[c]
         /\ LowerRead(c, p, rest, AddMshr(mshr, c, p))
      \/ p.line \in Occupied(c) /\ rq' = rest /\ llc' = llc
         /\ mshr' = [mshr EXCEPT ![c][p.line] = MergeMshr(@, p)]
  BY DEF HandleRead
<1> HIDE DEF p, rest
<1>8. SUFFICES ServedBy(rq'["L2C"], pq["L2C"], mshr', llc') /\ SidesOK(rq')
  BY <1>1, <1>2 DEF Served
<1>9. ASSUME p.line \in Occupied(c), mshr' = [mshr EXCEPT ![c][p.line] = MergeMshr(@, p)]
      PROVE  /\ mshr' = [mshr EXCEPT ![c][p.line] = MergeMshr(mshr[c][p.line], p)]
             /\ MergedEntry(mshr[c][p.line], p, MergeMshr(mshr[c][p.line], p))
  <2>1. mshr[c][p.line] \in EntryType /\ mshr[c][p.line].line = p.line
    BY <1>1, <1>9 DEF MshrOK, Occupied
  <2>2. MergedEntry(mshr[c][p.line], p, MergeMshr(mshr[c][p.line], p))
    BY <1>4, <2>1, MergeMshrIs
  <2> QED  BY <1>9, <2>2
<1>10. CASE c \in L1
  <2>1. rest["L2C"] = rq["L2C"] /\ p.fill = {c} /\ SidedPacket(c, p)
    BY <1>3, <1>4, <1>6, <1>10, CachesFacts DEF Replaced, Reads
  <2>2. CASE rq' = rest /\ mshr' = Answer(mshr, c, p) /\ llc' = llc
    <3>1. mshr' = mshr
      BY <1>5, <1>10, <2>2, CachesFacts DEF Answer, FillLevel, Levels
    <3> QED  BY <1>1, <1>6, <2>1, <2>2, <3>1
  <2>3. CASE p.line \notin Occupied(c) /\ Cardinality(Occupied(c)) < MshrSize[c]
             /\ LowerRead(c, p, rest, AddMshr(mshr, c, p))
    BY <1>4, <1>6, <1>10, <2>1, <2>3, ReadMissServed
  <2>4. CASE p.line \in Occupied(c) /\ rq' = rest /\ llc' = llc
             /\ mshr' = [mshr EXCEPT ![c][p.line] = MergeMshr(@, p)]
    <3> DEFINE f == MergeMshr(mshr[c][p.line], p)
    <3>1. mshr' = [mshr EXCEPT ![c][p.line] = f] /\ MergedEntry(mshr[c][p.line], p, f)
      BY <1>9, <2>4
    <3> HIDE DEF f
    <3>2. p.fill \subseteq {c}  BY <2>1
    <3>3. ServedBy(rq["L2C"], pq["L2C"], mshr', llc)
      BY <1>4, <1>10, <2>4, <3>1, <3>2, UpperMergeServed
    <3> QED  BY <1>6, <2>1, <2>4, <3>3
  <2> QED  BY <1>7, <2>2, <2>3, <2>4
<1>11. CASE c = "L2C"
  <2>1. Departed("L2C", rq["L2C"], rest["L2C"], p)
    <3>1. rq["L2C"] \in Seq(ReadKinds["L2C"]) /\ SidedQueue("L2C", rq["L2C"]) /\ rq["L2C"] # <<>>
      BY <1>1, <1>2, <1>11, CachesFacts DEF QueuesOK, ServedBy
    <3>2. Departed("L2C", rq["L2C"], Tail(rq["L2C"]), Head(rq["L2C"]))  BY <3>1, TailDeparts
    <3> QED  BY <1>3, <1>11, <3>2 DEF Replaced, p
  <2>2. CASE rq' = rest /\ mshr' = Answer(mshr, c, p) /\ llc' = llc
    <3>1. AnsweredAs(mshr, Answer(mshr, c, p), Uppers(c, p), p.line)  BY <1>1, <1>5, AnswerIs
    <3>2. AnsweredAs(mshr, mshr', p.fill, p.line)  BY <1>11, <2>2, <3>1 DEF Uppers
    <3>3. ServedBy(rest["L2C"], pq["L2C"], mshr', llc)
      BY <1>1, <1>4, <2>1, <3>2, LowerReturns
    <3> QED  BY <1>6, <2>2, <3>3
  <2>3. CASE p.line \notin Occupied(c) /\ Cardinality(Occupied(c)) < MshrSize[c]
             /\ LowerRead(c, p, rest, AddMshr(mshr, c, p))
    <3> DEFINE e == EntryOf(p, FALSE)
    <3>1. llc' = llc \cup {p.line} /\ rq' = rest /\ mshr' = AddMshr(mshr, c, p)
      BY <1>11, <2>3 DEF LowerRead
    <3>2. PutAs(mshr, mshr', "L2C", p.line, e)  BY <1>1, <1>4, <1>11, <3>1, AddMshrIs
    <3>3. FALSE \in BOOLEAN  OBVIOUS
    <3>4. e \in EntryType /\ e.fill = p.fill /\ e.returned = FALSE
      BY <1>4, <3>3, EntryOfFacts
    <3>5. e # NoEntry /\ ~e.returned  BY <3>4, NoEntryFacts
    <3>6. mshr["L2C"][p.line] = NoEntry  BY <1>5, <1>11, <2>3 DEF Occupied
    <3> HIDE DEF e
    <3>7. ServedBy(rest["L2C"], pq["L2C"], mshr', llc \cup {p.line})
      BY <1>1, <1>4, <2>1, <3>2, <3>4, <3>5, <3>6, LowerAsks
    <3> QED  BY <1>6, <3>1, <3>7
  <2>4. CASE p.line \in Occupied(c) /\ rq' = rest /\ llc' = llc
             /\ mshr' = [mshr EXCEPT ![c][p.line] = MergeMshr(@, p)]
    <3> DEFINE e == mshr["L2C"][p.line]
               f == MergeMshr(e, p)
    <3>1. mshr' = [mshr EXCEPT !["L2C"][p.line] = f] /\ MergedEntry(e, p, f)
          /\ p.line \in Occupied("L2C")
      BY <1>9, <1>11, <2>4
    <3> HIDE DEF f
    <3>2. e.fill \subseteq {Side(p.line)}
      BY <1>1, <1>5, <3>1, CachesFacts DEF ServedBy, SidedMshr, Occupied
    <3>3. p.fill = {Side(p.line)}
      BY <1>5, <2>1 DEF Departed, SidedPacket
    <3>4. f.fill = e.fill \cup p.fill  BY <3>1, <3>2, <3>3 DEF MergedEntry
    <3>5. ServedBy(rest["L2C"], pq["L2C"], mshr', llc)
      BY <1>1, <1>4, <2>1, <3>1, <3>4, LowerMergeServed
    <3> QED  BY <1>6, <2>4, <3>5
  <2> QED  BY <1>7, <2>2, <2>3, <2>4
<1> QED  BY <1>10, <1>11, CachesFacts

LEMMA HandleStoreServed ==
  ASSUME CacheInv, Served, HandleStore
  PROVE  Served'
<1> DEFINE c == "L1D"
           p == Head(wq[c])
           rest == [wq EXCEPT ![c] = Tail(@)]
<1>1. /\ QueuesOK(rq, RqSize, ReadKinds) /\ QueuesOK(wq, WqSize, WriteKinds) /\ MshrOK(mshr)
      /\ ServedBy(rq["L2C"], pq["L2C"], mshr, llc)
      /\ SidesOK(rq) /\ SidesOK(wq) /\ SidesOK(pq)
  BY DEF CacheInv, Typed, Served
<1>2. c \in Caches /\ c \in L1 /\ WqSize[c] \in Nat  BY CachesFacts, SizesType
<1>3. wq[c] # <<>> /\ wq' = rest /\ pq' = pq  BY DEF HandleStore
<1>4. Replaced(wq, rest, c, Tail(wq[c]), WqSize, WriteKinds) /\ p \in WriteKinds[c]
  BY <1>1, <1>2, <1>3, QueuePopped
<1>5. p \in Reads(c) /\ p \in PacketType /\ p.fill = {c}
  BY <1>2, <1>4 DEF WriteKinds, Writes, Reads
<1>6. SidesOK(wq') /\ SidedPacket(c, p)
  BY <1>1, <1>2, <1>3, <1>4, SidesPopped
<1>7. \/ rq' = rq /\ mshr' = mshr /\ llc' = llc
      \/ p.line \notin Occupied(c) /\ Cardinality(Occupied(c)) < MshrSize[c]
         /\ LowerRead(c, p, rq, AddMshr(mshr, c, p))
      \/ p.line \in Occupied(c) /\ rq' = rq /\ llc' = llc
         /\ mshr' = [mshr EXCEPT ![c][p.line] = MergeMshr(@, p)]
  BY DEF HandleStore
<1> HIDE DEF p, rest
<1>8. SUFFICES ServedBy(rq'["L2C"], pq["L2C"], mshr', llc') /\ SidesOK(rq')
  BY <1>1, <1>3, <1>6 DEF Served
<1>9. CASE rq' = rq /\ mshr' = mshr /\ llc' = llc  BY <1>1, <1>9
<1>10. CASE p.line \notin Occupied(c) /\ Cardinality(Occupied(c)) < MshrSize[c]
            /\ LowerRead(c, p, rq, AddMshr(mshr, c, p))
  BY <1>1, <1>2, <1>5, <1>6, <1>10, ReadMissServed
<1>11. CASE p.line \in Occupied(c) /\ rq' = rq /\ llc' = llc
            /\ mshr' = [mshr EXCEPT ![c][p.line] = MergeMshr(@, p)]
  <2> DEFINE f == MergeMshr(mshr[c][p.line], p)
  <2>1. mshr[c][p.line] \in EntryType /\ mshr[c][p.line].line = p.line
    BY <1>1, <1>2, <1>11 DEF MshrOK, Occupied
  <2>2. MergedEntry(mshr[c][p.line], p, f)  BY <1>5, <2>1, MergeMshrIs
  <2>3. mshr' = [mshr EXCEPT ![c][p.line] = f]  BY <1>11
  <2> HIDE DEF f
  <2>4. p.fill \subseteq {c}  BY <1>5
  <2>5. ServedBy(rq["L2C"], pq["L2C"], mshr', llc)
    BY <1>2, <1>5, <1>11, <2>2, <2>3, <2>4, UpperMergeServed
  <2> QED  BY <1>1, <1>11, <2>5
<1> QED  BY <1>7, <1>9, <1>10, <1>11

\* Nobody is answered.
LEMMA AnsweredNone ==
  ASSUME NEW m, NEW n, NEW a, MshrOK(m), AnsweredAs(m, n, {}, a)
  PROVE  n = m
<1>1. \A c \in Caches, x \in Lines : n[c][x] = m[c][x]  BY DEF AnsweredAs
<1>2. /\ m \in [Caches -> [Lines -> EntryType \cup {NoEntry}]]
      /\ n \in [Caches -> [Lines -> EntryType \cup {NoEntry}]]
  BY DEF MshrOK, AnsweredAs
<1>3. ASSUME NEW c \in Caches PROVE n[c] = m[c]
  <2>1. n[c] \in [Lines -> EntryType \cup {NoEntry}] /\ m[c] \in [Lines -> EntryType \cup {NoEntry}]
    BY <1>2
  <2> QED  BY <1>1, <2>1
<1> QED  BY <1>2, <1>3

\* A packet joins the prefetch queue of a cache: appended, or merged.
LEMMA PrefetchJoins ==
  ASSUME NEW c \in Caches, NEW p, p \in Prefs(c), NEW q, NEW m, AskedQueued(c, p, q, m),
         QueuesOK(q, PqSize, PrefKinds), SidedQueue(c, q[c]), SidedPacket(c, p)
  PROVE  Joined(c, q[c], pq'[c], p) /\ \A d \in Caches : d # c => pq'[d] = q[d]
<1> DEFINE s == q[c]
<1>1. \/ Queued(s, p.line) /\ Replaced(q, pq', c, MergePq(s, p), PqSize, PrefKinds)
      \/ ~Queued(s, p.line) /\ Replaced(q, pq', c, Append(s, p), PqSize, PrefKinds)
  BY DEF AskedQueued
<1>2. s \in Seq(Prefs(c)) /\ SidedQueue(c, s)  BY DEF QueuesOK, PrefKinds
<1>3. CASE Queued(s, p.line) /\ Replaced(q, pq', c, MergePq(s, p), PqSize, PrefKinds)
  <2>1. MergedAs(s, MergePq(s, p), p)  BY <1>2, PrefsMerged
  <2>2. Joined(c, s, MergePq(s, p), p)  BY <1>2, <1>3, <2>1, MergeJoins
  <2> QED  BY <1>3, <2>2 DEF Replaced
<1>4. CASE ~Queued(s, p.line) /\ Replaced(q, pq', c, Append(s, p), PqSize, PrefKinds)
  <2>1. Joined(c, s, Append(s, p), p)  BY <1>2, <1>4, AppendJoins
  <2> QED  BY <1>4, <2>1 DEF Replaced
<1> QED  BY <1>1, <1>3, <1>4

\* A prefetch of an L1 in its way to the prefetch queue of the L2C.
LEMMA PrefetchMissServed ==
  ASSUME CacheInv, Served, NEW c \in L1, NEW p, p \in Prefs(c), SidedPacket(c, p),
         p.line \notin Occupied(c), Len(pq["L2C"]) < PqSize["L2C"],
         NEW q, QueuesOK(q, PqSize, PrefKinds), q["L2C"] = pq["L2C"], SidesOK(q),
         AddPq("L2C", p, q, PrefetchMshr(mshr, c, p))
  PROVE  ServedBy(rq["L2C"], pq'["L2C"], mshr', llc) /\ SidesOK(pq')
<1> DEFINE m == PrefetchMshr(mshr, c, p)
           e == EntryOf(p, FALSE)
<1>1. /\ MshrOK(mshr) /\ p \in PacketType /\ p.line \in Lines /\ c \in Caches /\ c # "L2C"
      /\ Side(p.line) = c /\ mshr[c][p.line] = NoEntry /\ p.level \in Levels
      /\ (p.level = 1 => p.fill = {c}) /\ (p.level # 1 => p.fill = {})
  BY CachesFacts DEF CacheInv, Typed, Prefs, PacketType, SidedPacket, Occupied, FillsUp
<1>2. \/ p.level = 1 /\ m = AddMshr(mshr, c, p)
      \/ p.level # 1 /\ m = mshr
  BY <1>1 DEF PrefetchMshr, FillLevel, Levels
<1>3. PutAs(mshr, AddMshr(mshr, c, p), c, p.line, e)  BY <1>1, AddMshrIs
<1>4. FALSE \in BOOLEAN  OBVIOUS
<1>5. e \in EntryType /\ e.fill = p.fill /\ e.returned = FALSE  BY <1>1, <1>4, EntryOfFacts
<1>6. e # NoEntry /\ ~e.returned  BY <1>5, NoEntryFacts
<1> HIDE DEF m, e
<1>7. MshrOK(m)  BY <1>1, <1>2, <1>3 DEF PutAs
<1>8. "L2C" \in Caches /\ p \in Prefs("L2C") /\ SidedPacket("L2C", p)
      /\ SidedQueue("L2C", q["L2C"])
  BY <1>1, CachesFacts DEF Prefs, SidedPacket, Served, ServedBy
<1>9. /\ \/ AskedAnswered("L2C", p, q, m) \/ AskedQueued("L2C", p, q, m)
         \/ AskedFull("L2C", p, q, m)
  <2>1. AddPq("L2C", p, q, m)  BY DEF m
  <2> QED  BY <1>7, <1>8, <2>1, AddPqIs
<1>10. /\ ServedBy(rq["L2C"], pq["L2C"], mshr, llc)
       /\ ServedBy(pq["L2C"], rq["L2C"], mshr, llc)
  BY ServedSwap DEF Served
<1>11. CASE AskedAnswered("L2C", p, q, m)
  <2>1. pq' = q /\ AnsweredAs(m, mshr', p.fill, p.line)
    BY <1>11 DEF AskedAnswered, Uppers
  <2>2. CASE p.level = 1
    <3>1. p.fill = {c} /\ PutAs(mshr, m, c, p.line, e) /\ e.fill = {c}
      BY <1>1, <1>2, <1>3, <1>5, <2>2
    <3>2. ServedBy(rq["L2C"], pq["L2C"], mshr', llc)
      BY <1>1, <1>6, <1>10, <2>1, <3>1, UpperAnswered
    <3> QED  BY <2>1, <3>2
  <2>3. CASE p.level # 1
    <3>1. mshr' = mshr  BY <1>1, <1>2, <2>1, <2>3, AnsweredNone
    <3> QED  BY <1>10, <2>1, <3>1
  <2> QED  BY <2>2, <2>3
<1>12. CASE AskedQueued("L2C", p, q, m)
  <2>1. mshr' = m  BY <1>12 DEF AskedQueued
  <2>2. Joined("L2C", pq["L2C"], pq'["L2C"], p) /\ \A d \in Caches : d # "L2C" => pq'[d] = q[d]
    BY <1>8, <1>12, PrefetchJoins
  <2>3. SidesOK(pq')  BY <2>2, CachesFacts DEF SidesOK
  <2>4. ServedBy(pq'["L2C"], rq["L2C"], mshr', llc)
    <3>1. CASE p.level = 1
      <4>1. p.fill = {c} /\ PutAs(mshr, m, c, p.line, e) /\ e.fill = {c}
        BY <1>1, <1>2, <1>3, <1>5, <3>1
      <4> QED  BY <1>1, <1>6, <1>10, <2>1, <2>2, <4>1, UpperAsks
    <3>2. CASE p.level # 1
      <4>1. p.fill = {} /\ mshr' = mshr  BY <1>1, <1>2, <2>1, <3>2
      <4>2. ServedBy(pq'["L2C"], rq["L2C"], mshr, llc)  BY <1>10, <2>2, <4>1, NobodyAsks
      <4> QED  BY <4>1, <4>2
    <3> QED  BY <3>1, <3>2
  <2> QED  BY <2>3, <2>4, ServedSwap
<1>13. CASE AskedFull("L2C", p, q, m)
  <2>1. Len(pq["L2C"]) = PqSize["L2C"]  BY <1>13 DEF AskedFull
  <2>2. Len(pq["L2C"]) < Len(pq["L2C"])  BY <2>1
  <2>3. Len(pq["L2C"]) \in Nat
    BY <1>8, SizesType, <2>1
  <2> QED  BY <2>2, <2>3
<1> QED  BY <1>9, <1>11, <1>12, <1>13

LEMMA HandlePrefetchServed ==
  ASSUME CacheInv, Served, NEW c \in Caches, HandlePrefetch(c)
  PROVE  Served'
<1> DEFINE p == Head(pq[c])
           rest == [pq EXCEPT ![c] = Tail(@)]
<1>1. /\ QueuesOK(pq, PqSize, PrefKinds) /\ MshrOK(mshr)
      /\ ServedBy(rq["L2C"], pq["L2C"], mshr, llc)
      /\ ServedBy(pq["L2C"], rq["L2C"], mshr, llc)
      /\ SidesOK(rq) /\ SidesOK(wq) /\ SidesOK(pq)
  BY ServedSwap DEF CacheInv, Typed, Served
<1>2. pq[c] # <<>> /\ wq' = wq /\ rq' = rq  BY DEF HandlePrefetch
<1>3. Replaced(pq, rest, c, Tail(pq[c]), PqSize, PrefKinds) /\ p \in PrefKinds[c]
  BY <1>1, <1>2, SizesType, QueuePopped
<1>4. p \in Prefs(c) /\ p \in PacketType /\ QueuesOK(rest, PqSize, PrefKinds)
  BY <1>3 DEF Replaced, PrefKinds, Prefs
<1>5. p.line \in Lines /\ p.level \in Levels /\ p.fill \subseteq L1 /\ FillsUp(p)
  BY <1>4 DEF PacketType
<1>6. SidesOK(rest) /\ (c \in L1 => SidedPacket(c, p))
  BY <1>1, <1>2, <1>3, SidesPopped
<1>7. \/ pq' = rest /\ mshr' = Answer(mshr, c, p) /\ llc' = llc
      \/ p.line \notin Occupied(c) /\ LowerHasRoom(c)
         /\ LowerPrefetch(c, p, rest, PrefetchMshr(mshr, c, p))
      \/ p.line \in Occupied(c) /\ pq' = rest /\ llc' = llc
         /\ mshr' = [mshr EXCEPT ![c][p.line] = RaiseMshr(@, p)]
  BY DEF HandlePrefetch
<1> HIDE DEF p, rest
<1>8. SUFFICES ServedBy(rq["L2C"], pq'["L2C"], mshr', llc') /\ SidesOK(pq')
  BY <1>1, <1>2 DEF Served
<1>9. ASSUME p.line \in Occupied(c), mshr' = [mshr EXCEPT ![c][p.line] = RaiseMshr(@, p)]
      PROVE  /\ mshr' = [mshr EXCEPT ![c][p.line] = RaiseMshr(mshr[c][p.line], p)]
             /\ Raised(mshr[c][p.line], p, RaiseMshr(mshr[c][p.line], p))
  <2>1. mshr[c][p.line] \in EntryType
    BY <1>1, <1>9 DEF MshrOK, Occupied
  <2>2. Raised(mshr[c][p.line], p, RaiseMshr(mshr[c][p.line], p))
    BY <1>4, <2>1, RaiseEntry
  <2> QED  BY <1>9, <2>2
<1>10. CASE c \in L1
  <2>1. rest["L2C"] = pq["L2C"] /\ p.fill \subseteq {c} /\ SidedPacket(c, p) /\ c # "L2C"
    BY <1>3, <1>4, <1>6, <1>10, CachesFacts DEF Replaced, Prefs
  <2>2. CASE pq' = rest /\ mshr' = Answer(mshr, c, p) /\ llc' = llc
    <3>1. mshr' = mshr
      BY <1>5, <1>10, <2>2, CachesFacts DEF Answer, FillLevel, Levels
    <3> QED  BY <1>1, <1>6, <2>1, <2>2, <3>1
  <2>3. CASE p.line \notin Occupied(c) /\ LowerHasRoom(c)
             /\ LowerPrefetch(c, p, rest, PrefetchMshr(mshr, c, p))
    <3>1. /\ Len(pq["L2C"]) < PqSize["L2C"] /\ llc' = llc
          /\ AddPq("L2C", p, rest, PrefetchMshr(mshr, c, p))
      BY <1>10, <2>1, <2>3 DEF LowerHasRoom, LowerPrefetch
    <3> QED  BY <1>4, <1>6, <1>10, <2>1, <2>3, <3>1, PrefetchMissServed
  <2>4. CASE p.line \in Occupied(c) /\ pq' = rest /\ llc' = llc
             /\ mshr' = [mshr EXCEPT ![c][p.line] = RaiseMshr(@, p)]
    <3> DEFINE f == RaiseMshr(mshr[c][p.line], p)
    <3>1. mshr' = [mshr EXCEPT ![c][p.line] = f] /\ MergedEntry(mshr[c][p.line], p, f)
      BY <1>9, <2>4 DEF Raised
    <3> HIDE DEF f
    <3>2. ServedBy(rq["L2C"], pq["L2C"], mshr', llc)
      BY <1>4, <1>10, <2>1, <2>4, <3>1, UpperMergeServed
    <3> QED  BY <1>6, <2>1, <2>4, <3>2
  <2> QED  BY <1>7, <2>2, <2>3, <2>4
<1>11. CASE c = "L2C"
  <2>1. Departed("L2C", pq["L2C"], rest["L2C"], p)
    <3>1. pq["L2C"] \in Seq(PrefKinds["L2C"]) /\ SidedQueue("L2C", pq["L2C"]) /\ pq["L2C"] # <<>>
      BY <1>1, <1>2, <1>11, CachesFacts DEF QueuesOK, ServedBy
    <3>2. Departed("L2C", pq["L2C"], Tail(pq["L2C"]), Head(pq["L2C"]))  BY <3>1, TailDeparts
    <3> QED  BY <1>3, <1>11, <3>2 DEF Replaced, p
  <2>2. CASE pq' = rest /\ mshr' = Answer(mshr, c, p) /\ llc' = llc
    <3>1. AnsweredAs(mshr, Answer(mshr, c, p), Uppers(c, p), p.line)  BY <1>1, <1>5, AnswerIs
    <3>2. AnsweredAs(mshr, mshr', p.fill, p.line)  BY <1>11, <2>2, <3>1 DEF Uppers
    <3>3. ServedBy(rest["L2C"], rq["L2C"], mshr', llc)
      BY <1>1, <1>4, <2>1, <3>2, LowerReturns
    <3> QED  BY <1>6, <2>2, <3>3, ServedSwap
  <2>3. CASE p.line \notin Occupied(c) /\ LowerHasRoom(c)
             /\ LowerPrefetch(c, p, rest, PrefetchMshr(mshr, c, p))
    <3>1. /\ llc' = IF p.level <= 2 THEN llc \cup {p.line} ELSE llc
          /\ pq' = rest /\ mshr' = PrefetchMshr(mshr, c, p)
      BY <1>11, <2>3 DEF LowerPrefetch
    <3>2. CASE p.level <= 2
      <4> DEFINE e == EntryOf(p, FALSE)
      <4>1. mshr' = AddMshr(mshr, c, p) /\ llc' = llc \cup {p.line}
        BY <1>11, <3>1, <3>2 DEF PrefetchMshr, FillLevel
      <4>2. PutAs(mshr, mshr', "L2C", p.line, e)  BY <1>1, <1>4, <1>11, <4>1, AddMshrIs
      <4>3. FALSE \in BOOLEAN  OBVIOUS
      <4>4. e \in EntryType /\ e.fill = p.fill /\ e.returned = FALSE
        BY <1>4, <4>3, EntryOfFacts
      <4>5. e # NoEntry /\ ~e.returned  BY <4>4, NoEntryFacts
      <4>6. mshr["L2C"][p.line] = NoEntry  BY <1>5, <1>11, <2>3 DEF Occupied
      <4> HIDE DEF e
      <4>7. ServedBy(rest["L2C"], rq["L2C"], mshr', llc \cup {p.line})
        BY <1>1, <1>4, <2>1, <4>2, <4>4, <4>5, <4>6, LowerAsks
      <4> QED  BY <1>6, <3>1, <4>1, <4>7, ServedSwap
    <3>3. CASE ~(p.level <= 2)
      <4>1. mshr' = mshr /\ llc' = llc  BY <1>11, <3>1, <3>3 DEF PrefetchMshr, FillLevel
      <4>2. p.fill = {}  BY <1>5, <3>3 DEF FillsUp, Levels
      <4>3. AnsweredAs(mshr, mshr', p.fill, p.line)  BY <1>1, <4>1, <4>2, AnsweredNobody
      <4>4. ServedBy(rest["L2C"], rq["L2C"], mshr', llc)
        BY <1>1, <1>4, <2>1, <4>3, LowerReturns
      <4> QED  BY <1>6, <3>1, <4>1, <4>4, ServedSwap
    <3> QED  BY <3>2, <3>3
  <2>4. CASE p.line \in Occupied(c) /\ pq' = rest /\ llc' = llc
             /\ mshr' = [mshr EXCEPT ![c][p.line] = RaiseMshr(@, p)]
    <3> DEFINE e == mshr["L2C"][p.line]
               f == RaiseMshr(e, p)
    <3>1. mshr' = [mshr EXCEPT !["L2C"][p.line] = f] /\ Raised(e, p, f)
          /\ p.line \in Occupied("L2C")
      BY <1>9, <1>11, <2>4
    <3> HIDE DEF f
    <3>2. MergedEntry(e, p, f) /\ f.fill = e.fill \cup p.fill  BY <3>1 DEF Raised
    <3>3. ServedBy(rest["L2C"], rq["L2C"], mshr', llc)
      BY <1>1, <1>4, <2>1, <3>1, <3>2, LowerMergeServed
    <3> QED  BY <1>6, <2>4, <3>3, ServedSwap
  <2> QED  BY <1>7, <2>2, <2>3, <2>4
<1> QED  BY <1>10, <1>11, CachesFacts

LEMMA HandleFillServed ==
  ASSUME CacheInv, Served, NEW c \in Caches, HandleFill(c)
  PROVE  Served'
<1>1. /\ QueuesOK(wq, WqSize, WriteKinds) /\ MshrOK(mshr) /\ BlocksOK(block)
      /\ ServedBy(rq["L2C"], pq["L2C"], mshr, llc)
      /\ SidesOK(rq) /\ SidesOK(wq) /\ SidesOK(pq)
  BY DEF CacheInv, Typed, Served
<1>2. PICK a \in Occupied(c), w \in Victims(c) :
        /\ mshr[c][a].returned
        /\ Evict(c, w, wq)
        /\ mshr' = [Answer(mshr, c, mshr[c][a]) EXCEPT ![c][a] = NoEntry]
        /\ UNCHANGED <<rq, pq, llc, issued>>
  BY DEF HandleFill
<1> DEFINE e == mshr[c][a]
           m == Answer(mshr, c, e)
<1>3. a \in Lines /\ e # NoEntry  BY DEF Occupied
<1>4. /\ e \in EntryType /\ e.line = a /\ e.line \in Lines /\ e.level \in Levels
      /\ e.fill \subseteq L1 /\ FillsUp(e)
  BY <1>1, <1>3 DEF MshrOK, EntryType
<1>5. mshr' = [m EXCEPT ![c][a] = NoEntry]  BY <1>2
<1>6. AnsweredAs(mshr, m, Uppers(c, e), a)
  <2>1. AnsweredAs(mshr, Answer(mshr, c, e), Uppers(c, e), e.line)  BY <1>1, <1>4, AnswerIs
  <2> QED  BY <1>4, <2>1 DEF m
<1> HIDE DEF m
<1>7. MshrOK(m)  BY <1>6 DEF AnsweredAs
<1>8. PutAs(m, mshr', c, a, NoEntry)  BY <1>3, <1>5, <1>7, EntryPut
<1>9. SidesOK(wq')
  <2>1. w \in 1 .. Ways[c]  BY <1>1, VictimsAreWays
  <2>2. Evicted(c, w, wq)  BY <1>1, <1>2, <2>1, EvictIs
  <2> QED  BY <1>1, <2>2, CachesFacts DEF Evicted, SidesOK
<1>10. ServedBy(rq["L2C"], pq["L2C"], mshr', llc)
  <2>1. CASE c \in L1
    <3>1. AnsweredAs(mshr, m, {}, a)  BY <1>6, <2>1, CachesFacts DEF Uppers
    <3>2. m = mshr  BY <1>1, <3>1, AnsweredNone
    <3>3. Waits(mshr, c, a) <=> (NoEntry # NoEntry /\ ~NoEntry.returned)
      BY <1>2 DEF Waits
    <3> QED  BY <1>1, <1>3, <1>8, <2>1, <3>2, <3>3, UpperKeeps
  <2>2. CASE c = "L2C"
    <3>1. AnsweredAs(mshr, m, e.fill, a) /\ mshr["L2C"][a].returned
      BY <1>2, <1>6, <2>2 DEF Uppers
    <3>2. "L2C" \notin e.fill  BY <1>4, CachesFacts
    <3> QED  BY <1>1, <1>3, <1>8, <2>2, <3>1, <3>2, LowerFills
  <2> QED  BY <2>1, <2>2, CachesFacts
<1> QED  BY <1>1, <1>2, <1>9, <1>10 DEF Served

LEMMA HandleWritebackServed ==
  ASSUME CacheInv, Served, HandleWriteback
  PROVE  Served'
<1>1. UNCHANGED <<rq, pq, mshr, llc>>  BY DEF HandleWriteback
<1>2. BlocksOK(block) /\ DOMAIN wq = Caches  BY DEF CacheInv, Typed, QueuesOK
<1>3. wq' = [wq EXCEPT !["L2C"] = Tail(@)]  BY <1>2, WritebackWay
<1>4. SidesOK(wq')  BY <1>2, <1>3, CachesFacts DEF Served, SidesOK
<1> QED  BY <1>1, <1>4 DEF Served

\* A packet of its side is appended to a queue of an L1.
LEMMA SidesAppended ==
  ASSUME NEW q, NEW c \in L1, NEW p, NEW size, NEW kinds, QueuesOK(q, size, kinds),
         p \in kinds[c], SidesOK(q), SidedPacket(c, p)
  PROVE  SidesOK([q EXCEPT ![c] = Append(@, p)])
<1> DEFINE s == q[c]
           r == [q EXCEPT ![c] = Append(@, p)]
           K == kinds[c]
<1>1. s \in Seq(K) /\ DOMAIN q = Caches /\ p \in K  BY CachesFacts DEF QueuesOK
<1>2. r[c] = Append(s, p) /\ \A d \in L1 : d # c => r[d] = q[d]  BY <1>1, CachesFacts
<1>3. SidedQueue(c, s)  BY DEF SidesOK
<1> HIDE DEF s, r, K
<1>4. SidedQueue(c, Append(s, p))
  <2>1. /\ Len(s) \in Nat /\ DOMAIN s = 1 .. Len(s)
        /\ DOMAIN Append(s, p) = 1 .. Len(s) + 1
        /\ \A i \in 1 .. Len(s) : Append(s, p)[i] = s[i]
        /\ Append(s, p)[Len(s) + 1] = p
    BY <1>1, Pushed
  <2>2. \A i \in 1 .. Len(s) + 1 : i \in 1 .. Len(s) \/ i = Len(s) + 1  BY <2>1
  <2> QED  BY <1>3, <2>1, <2>2 DEF SidedQueue
<1>5. SidesOK(r)  BY <1>2, <1>3, <1>4 DEF SidesOK
<1> QED  BY <1>5 DEF r

\* Code and data share no line, and the prefetchers of an L1 keep to its side.
LEMMA Sides ==
  ASSUME Separate
  PROVE  /\ \A a \in CodeLines : Side(a) = "L1I"
         /\ \A a \in DataLines : Side(a) = "L1D"
         /\ \A x \in Prefetches : x[1] \in L1 => Side(x[2]) = x[1]
BY DEF Separate, Side, L1

LEMMA EnvironmentServed ==
  ASSUME Separate, CacheInv, Served,
         \/ Core
         \/ \E p \in Prefetches : PrefetchLine(p[1], p[2], p[3])
         \/ \E a \in Lines : LlcReturn(a)
  PROVE  Served'
<1>1. /\ QueuesOK(rq, RqSize, ReadKinds) /\ QueuesOK(wq, WqSize, WriteKinds)
      /\ QueuesOK(pq, PqSize, PrefKinds) /\ MshrOK(mshr)
      /\ ServedBy(rq["L2C"], pq["L2C"], mshr, llc)
      /\ ServedBy(pq["L2C"], rq["L2C"], mshr, llc)
      /\ SidesOK(rq) /\ SidesOK(wq) /\ SidesOK(pq)
  BY ServedSwap DEF CacheInv, Typed, Served
<1>2. ASSUME NEW c \in L1, NEW a \in Lines, Side(a) = c, Demand(c, a)
      PROVE  Served'
  <2> DEFINE p == Packet(a, "LOAD", 1, {c})
  <2>1. /\ UNCHANGED <<wq, pq, mshr, block, llc>>
        /\ rq' = rq \/ rq' = [rq EXCEPT ![c] = Append(@, p)]
    BY <1>2 DEF Demand
  <2>2. p \in PacketType /\ p.level = 1 /\ p.fill = {c} /\ p.line = a
    BY DEF Packet, PacketType, Types, Levels, FillsUp
  <2> HIDE DEF p
  <2>3. p \in ReadKinds[c] /\ SidedPacket(c, p)
    BY <1>2, <2>2, CachesFacts DEF ReadKinds, Reads, SidedPacket
  <2>4. SidesOK([rq EXCEPT ![c] = Append(@, p)])
    BY <1>1, <2>3, SidesAppended, Zenon
  <2>5. SidesOK(rq')  BY <1>1, <2>1, <2>4, Zenon
  <2>6. rq'["L2C"] = rq["L2C"]  BY <1>1, <2>1, CachesFacts DEF QueuesOK
  <2> QED  BY <1>1, <2>1, <2>5, <2>6 DEF Served
<1>3. ASSUME NEW a \in Lines, Side(a) = "L1D", Store(a)
      PROVE  Served'
  <2> DEFINE p == Packet(a, "RFO", 1, {"L1D"})
  <2>1. wq' = [wq EXCEPT !["L1D"] = Append(@, p)] /\ UNCHANGED <<rq, pq, mshr, llc>>
    BY <1>3 DEF Store
  <2>2. "L1D" \in L1 /\ "L1D" \in Caches  BY CachesFacts
  <2>3. p \in PacketType /\ p.level = 1 /\ p.fill = {"L1D"} /\ p.line = a
    BY <2>2 DEF Packet, PacketType, Types, Levels, FillsUp
  <2> HIDE DEF p
  <2>4. p \in WriteKinds["L1D"] /\ SidedPacket("L1D", p)
    BY <1>3, <2>2, <2>3 DEF WriteKinds, Writes, SidedPacket
  <2>5. SidesOK([wq EXCEPT !["L1D"] = Append(@, p)])
    BY <1>1, <2>2, <2>4, SidesAppended, Zenon
  <2>6. SidesOK(wq')  BY <2>1, <2>5, Zenon
  <2> QED  BY <1>1, <2>1, <2>6 DEF Served
<1>4. ASSUME NEW x \in Prefetches, PrefetchLine(x[1], x[2], x[3])
      PROVE  Served'
  <2> DEFINE c == x[1]
             a == x[2]
             level == x[3]
             p == Packet(a, "PREFETCH", level, IF level = 1 THEN {c} ELSE {})
  <2>1. c \in Caches /\ a \in Lines /\ level \in Levels /\ (c = "L2C" => level # 1)
        /\ (c \in L1 => Side(a) = c)
    BY HierarchyAssumption, Sides DEF Levels
  <2>2. AddPq(c, p, pq, mshr) /\ UNCHANGED <<rq, wq, block, llc, pending>>
    BY <1>4 DEF PrefetchLine
  <2>3. /\ p \in PacketType /\ p.level = level /\ p.line = a
        /\ p.fill = IF level = 1 THEN {c} ELSE {}
    BY <2>1, CachesFacts DEF Packet, PacketType, Types, FillsUp
  <2> HIDE DEF p, c, a, level
  <2>4. p \in Prefs(c) /\ Uppers(c, p) = {} /\ SidedPacket(c, p)
    BY <2>1, <2>3, CachesFacts DEF Prefs, Uppers, SidedPacket
  <2>5. AskedAnswered(c, p, pq, mshr) \/ AskedQueued(c, p, pq, mshr) \/ AskedFull(c, p, pq, mshr)
    BY <1>1, <2>1, <2>2, <2>4, AddPqIs
  <2>6. mshr' = mshr
    <3>1. CASE AskedAnswered(c, p, pq, mshr)
      <4>1. AnsweredAs(mshr, mshr', {}, p.line)  BY <2>4, <3>1 DEF AskedAnswered
      <4> QED  BY <1>1, <4>1, AnsweredNone
    <3> QED  BY <2>5, <3>1 DEF AskedQueued, AskedFull
  <2>7. CASE ~AskedQueued(c, p, pq, mshr)
    <3>1. pq' = pq  BY <2>5, <2>7 DEF AskedAnswered, AskedFull
    <3> QED  BY <1>1, <2>2, <2>6, <3>1 DEF Served
  <2>8. CASE AskedQueued(c, p, pq, mshr)
    <3>1. SidedQueue(c, pq[c])  BY <1>1, <2>1, CachesFacts DEF SidesOK, ServedBy
    <3>2. Joined(c, pq[c], pq'[c], p) /\ \A d \in Caches : d # c => pq'[d] = pq[d]
      BY <1>1, <2>1, <2>4, <2>8, <3>1, PrefetchJoins
    <3>3. SidesOK(pq')  BY <1>1, <3>2, CachesFacts DEF SidesOK, Joined
    <3>4. ServedBy(pq'["L2C"], rq["L2C"], mshr, llc)
      <4>1. CASE c = "L2C"
        <5>1. p.fill = {}  BY <2>1, <2>3, <4>1
        <5> QED  BY <1>1, <3>2, <4>1, <5>1, NobodyAsks
      <4>2. CASE c # "L2C"
        <5>1. pq'["L2C"] = pq["L2C"]  BY <3>2, <4>2, CachesFacts
        <5> QED  BY <1>1, <5>1
      <4> QED  BY <4>1, <4>2
    <3>5. ServedBy(rq["L2C"], pq'["L2C"], mshr, llc)  BY <3>4, ServedSwap
    <3> QED  BY <1>1, <2>2, <2>6, <3>3, <3>5 DEF Served
  <2> QED  BY <2>7, <2>8
<1>5. ASSUME NEW a \in Lines, LlcReturn(a)
      PROVE  Served'
  <2>1. /\ llc' = llc \ {a} /\ mshr' = ReturnData(mshr, "L2C", a)
        /\ UNCHANGED <<rq, wq, pq>>
    BY <1>5 DEF LlcReturn
  <2>2. AnsweredAs(mshr, ReturnData(mshr, "L2C", a), {"L2C"}, a)
    BY <1>1, CachesFacts, ReturnDataIs
  <2>3. ServedBy(rq["L2C"], pq["L2C"], mshr', llc \ {a})  BY <1>1, <2>1, <2>2, LlcAnswers
  <2> QED  BY <1>1, <2>1, <2>3 DEF Served
<1> QED
  <2>1. /\ \A a \in CodeLines : a \in Lines /\ Side(a) = "L1I"
        /\ \A a \in DataLines : a \in Lines /\ Side(a) = "L1D"
        /\ "L1I" \in L1 /\ "L1D" \in L1
    BY Sides, CachesFacts DEF Lines
  <2> QED  BY <1>2, <1>3, <1>4, <1>5, <2>1 DEF Core

LEMMA InitServed ==
  ASSUME Init
  PROVE  Served
<1>1. /\ \A c \in Caches : rq[c] = <<>> /\ wq[c] = <<>> /\ pq[c] = <<>>
      /\ \A c \in Caches, a \in Lines : mshr[c][a] = NoEntry
      /\ llc = {}
  BY DEF Init
<1>2. DOMAIN <<>> = {}  OBVIOUS
<1>3. \A c : Distinct(<<>>) /\ SidedQueue(c, <<>>)  BY <1>2 DEF Distinct, SidedQueue
<1>4. \A u, a : ~Names(<<>>, u, a)  BY <1>2 DEF Names
<1>5. OneRequest(<<>>, <<>>, mshr)
  BY <1>1, <1>4, CachesFacts, NoEntryFacts DEF OneRequest, Waits, InMshr
<1>6. SidedMshr(mshr) /\ {a \in Lines : Waits(mshr, "L2C", a)} = {}
  BY <1>1, CachesFacts DEF SidedMshr, Waits
<1>7. SidesOK(rq) /\ SidesOK(wq) /\ SidesOK(pq)  BY <1>1, <1>3, CachesFacts DEF SidesOK
<1> QED  BY <1>1, <1>3, <1>5, <1>6, <1>7, CachesFacts DEF Served, ServedBy

LEMMA StepServed ==
  ASSUME Separate, CacheInv, Served, [Next]_vars
  PROVE  Served'
<1>1. CASE Core \/ (\E p \in Prefetches : PrefetchLine(p[1], p[2], p[3]))
           \/ (\E a \in Lines : LlcReturn(a))
  BY <1>1, EnvironmentServed
<1>2. CASE \E c \in Caches : HandleFill(c) \/ HandleRead(c) \/ HandlePrefetch(c)
  BY <1>2, HandleFillServed, HandleReadServed, HandlePrefetchServed
<1>3. CASE HandleStore  BY <1>3, HandleStoreServed
<1>4. CASE HandleWriteback  BY <1>4, HandleWritebackServed
<1>5. CASE UNCHANGED vars
  BY <1>5 DEF vars, Served
<1> QED  BY <1>1, <1>2, <1>3, <1>4, <1>5 DEF Next

-----------------------------------------------------------------------------
(* The requests are counted *)

LEMMA NamedOnce ==
  ASSUME NEW s, Distinct(s), NEW u, NEW a
  PROVE  Cardinality({i \in DOMAIN s : s[i].line = a /\ u \in s[i].fill})
           = IF Names(s, u, a) THEN 1 ELSE 0
<1> DEFINE N == {i \in DOMAIN s : s[i].line = a /\ u \in s[i].fill}
<1>1. CASE Names(s, u, a)
  <2>1. PICK i \in DOMAIN s : s[i].line = a /\ u \in s[i].fill  BY <1>1 DEF Names
  <2>2. N = {i}  BY <2>1 DEF Distinct
  <2> HIDE DEF N
  <2>3. Cardinality(N) = 1  BY <2>2, FS_Singleton
  <2> QED  BY <1>1, <2>3 DEF N
<1>2. CASE ~Names(s, u, a)
  <2>1. N = {}  BY <1>2 DEF Names
  <2> HIDE DEF N
  <2>2. Cardinality(N) = 0  BY <2>1, FS_EmptySet
  <2> QED  BY <1>2, <2>2 DEF N
<1> QED  BY <1>1, <1>2

LEMMA RequestsAre ==
  ASSUME Served, NEW u \in L1, NEW a \in Lines
  PROVE  /\ Requests(u, a) = IF Waits(mshr, u, a) THEN 1 ELSE 0
         /\ Awaits(u, a) <=> Waits(mshr, u, a)
<1> DEFINE rs == rq["L2C"]
           ps == pq["L2C"]
           R == Cardinality({i \in DOMAIN rs : rs[i].line = a /\ u \in rs[i].fill})
           P == Cardinality({i \in DOMAIN ps : ps[i].line = a /\ u \in ps[i].fill})
           M == IF u \in mshr["L2C"][a].fill THEN 1 ELSE 0
<1>1. Distinct(rs) /\ Distinct(ps) /\ OneRequest(rs, ps, mshr)  BY DEF Served, ServedBy
<1>2. /\ R = IF Names(rs, u, a) THEN 1 ELSE 0
      /\ P = IF Names(ps, u, a) THEN 1 ELSE 0
      /\ M = IF InMshr(mshr, u, a) THEN 1 ELSE 0
  <2>1. R = IF Names(rs, u, a) THEN 1 ELSE 0  BY <1>1, NamedOnce
  <2>2. P = IF Names(ps, u, a) THEN 1 ELSE 0  BY <1>1, NamedOnce
  <2> QED  BY <2>1, <2>2 DEF InMshr
<1>3. Requests(u, a) = R + P + M  BY DEF Requests
<1> HIDE DEF rs, ps, R, P, M
<1>4. /\ Waits(mshr, u, a) <=> (Names(rs, u, a) \/ Names(ps, u, a) \/ InMshr(mshr, u, a))
      /\ ~(Names(rs, u, a) /\ Names(ps, u, a))
      /\ ~(Names(rs, u, a) /\ InMshr(mshr, u, a))
      /\ ~(Names(ps, u, a) /\ InMshr(mshr, u, a))
  BY <1>1 DEF OneRequest
<1>5. R + P + M = IF Waits(mshr, u, a) THEN 1 ELSE 0  BY <1>2, <1>4
<1> QED  BY <1>3, <1>5 DEF Awaits, Waits

\* When code and data share no line, every miss of an L1 is answered, and answered
\* once: it has exactly one request below, in the read queue, the prefetch queue or
\* the MSHR of the L2C, whatever merges with it, and no request is dropped by the read
\* queue, whose "full" answer the callers ignore.
THEOREM EachMissAnsweredOnceCorrect ==
  ASSUME Separate
  PROVE  Spec => []EachMissAnsweredOnce
<1>1. Init => Served  BY InitServed
<1>2. CacheInv /\ Served /\ [Next]_vars => Served'  BY StepServed
<1>3. ASSUME CacheInv, Served PROVE EachMissAnsweredOnce
  <2>1. ReturnFindsEntry
    <3>1. ASSUME NEW u \in L1, NEW a \in Lines
          PROVE  Requests(u, a) <= (IF Awaits(u, a) THEN 1 ELSE 0)
      BY <1>3, RequestsAre
    <3> QED  BY <3>1 DEF ReturnFindsEntry
  <2>2. \A u \in L1, a \in Lines : Awaits(u, a) => Requests(u, a) = 1
    BY <1>3, RequestsAre
  <2>3. ASSUME NEW a \in Occupied("L2C"), mshr["L2C"][a].fill # {}
        PROVE  mshr["L2C"][a].level = 1
    <3>1. a \in Lines /\ mshr["L2C"][a] # NoEntry /\ MshrOK(mshr)
      BY <1>3 DEF Occupied, CacheInv, Typed
    <3>2. mshr["L2C"][a] \in EntryType  BY <3>1, CachesFacts DEF MshrOK
    <3> QED  BY <2>3, <3>2 DEF EntryType, FillsUp
  <2>4. llc = {a \in Lines : Awaits("L2C", a)}
    BY <1>3 DEF Served, ServedBy, Awaits, Waits
  <2> QED  BY <2>1, <2>2, <2>3, <2>4 DEF EachMissAnsweredOnce, MissNotLost
<1>4. Spec => []CacheInv  BY Inductive
<1>5. Spec => []Served  BY <1>1, <1>2, <1>4, PTL DEF Spec
<1> QED  BY <1>3, <1>4, <1>5, PTL

-----------------------------------------------------------------------------
(* Work *)

\* What the packets in the queues of one kind, the MSHR entries and the write-backs
\* weigh in Work.
PacketWeight(c) == IF c = "L2C" THEN 3 ELSE 6
EntryWeight(c) == IF c = "L2C" THEN 1 ELSE 2
InQueues(q) == 6 * (Len(q["L1I"]) + Len(q["L1D"])) + 3 * Len(q["L2C"])
InWrites(q) == 6 * Len(q["L1D"]) + Len(q["L2C"])
InMshrs(m) ==
  2 * (Cardinality(Occ(m, "L1I")) + Cardinality(Occ(m, "L1D"))) + Cardinality(Occ(m, "L2C"))
Total(r, p, w, m, l) == InQueues(r) + InQueues(p) + InWrites(w) + InMshrs(m) + Cardinality(l)

LEMMA QueueLengths ==
  ASSUME NEW q, NEW size, NEW kinds, QueuesOK(q, size, kinds)
  PROVE  /\ \A c \in Caches : Len(q[c]) \in Nat
         /\ InQueues(q) \in Nat /\ InWrites(q) \in Nat
<1>1. \A c \in Caches : Len(q[c]) \in Nat
  <2>1. ASSUME NEW c \in Caches PROVE Len(q[c]) \in Nat
    <3>1. q[c] \in Seq(kinds[c])  BY DEF QueuesOK
    <3> QED  BY <3>1, SeqElements
  <2> QED  BY <2>1
<1> DEFINE i == Len(q["L1I"])
           d == Len(q["L1D"])
           s == Len(q["L2C"])
<1>2. i \in Nat /\ d \in Nat /\ s \in Nat  BY <1>1, CachesFacts
<1>3. InQueues(q) = 6 * (i + d) + 3 * s /\ InWrites(q) = 6 * d + s  BY DEF InQueues, InWrites
<1> HIDE DEF i, d, s
<1>4. 6 * (i + d) + 3 * s \in Nat /\ 6 * d + s \in Nat  BY <1>2
<1> QED  BY <1>1, <1>3, <1>4

LEMMA MshrNumbers ==
  ASSUME NEW m, Within(m)
  PROVE  /\ \A c \in Caches : IsFiniteSet(Occ(m, c)) /\ Cardinality(Occ(m, c)) \in Nat
         /\ InMshrs(m) \in Nat
<1>1. \A c \in Caches : IsFiniteSet(Occ(m, c)) /\ Cardinality(Occ(m, c)) \in Nat
  BY FS_CardinalityType DEF Within
<1> QED  BY <1>1, CachesFacts DEF InMshrs

Parts(r, p, w, m, z) ==
  6 * (Len(r["L1I"]) + Len(r["L1D"]) + Len(p["L1I"]) + Len(p["L1D"]) + Len(w["L1D"]))
  + 3 * (Len(r["L2C"]) + Len(p["L2C"]))
  + 2 * (Cardinality(Occ(m, "L1I")) + Cardinality(Occ(m, "L1D")))
  + Cardinality(Occ(m, "L2C")) + Cardinality(z) + Len(w["L2C"])

LEMMA TotalIs ==
  ASSUME NEW r, NEW p, NEW w, NEW m, NEW z, QueuesOK(r, RqSize, ReadKinds),
         QueuesOK(p, PqSize, PrefKinds), QueuesOK(w, WqSize, WriteKinds), Within(m), IsFiniteSet(z)
  PROVE  Total(r, p, w, m, z) \in Nat /\ Total(r, p, w, m, z) = Parts(r, p, w, m, z)
<1> DEFINE ri == Len(r["L1I"])
           rd == Len(r["L1D"])
           rs == Len(r["L2C"])
           pi == Len(p["L1I"])
           pd == Len(p["L1D"])
           ps == Len(p["L2C"])
           wd == Len(w["L1D"])
           ws == Len(w["L2C"])
           mi == Cardinality(Occ(m, "L1I"))
           md == Cardinality(Occ(m, "L1D"))
           ms == Cardinality(Occ(m, "L2C"))
           l == Cardinality(z)
<1>1. InQueues(r) = 6 * (ri + rd) + 3 * rs /\ InQueues(p) = 6 * (pi + pd) + 3 * ps
  BY DEF InQueues
<1>2. InWrites(w) = 6 * wd + ws  BY DEF InWrites
<1>3. InMshrs(m) = 2 * (mi + md) + ms  BY DEF InMshrs
<1>4. ri \in Nat /\ rd \in Nat /\ rs \in Nat  BY QueueLengths, CachesFacts
<1>5. pi \in Nat /\ pd \in Nat /\ ps \in Nat  BY QueueLengths, CachesFacts
<1>6. wd \in Nat /\ ws \in Nat  BY QueueLengths, CachesFacts
<1>7. mi \in Nat /\ md \in Nat /\ ms \in Nat  BY MshrNumbers, CachesFacts
<1>8. l \in Nat  BY FS_CardinalityType
<1>9. Total(r, p, w, m, z) = InQueues(r) + InQueues(p) + InWrites(w) + InMshrs(m) + l
  BY DEF Total
<1>10. /\ Total(r, p, w, m, z) \in Nat
       /\ Total(r, p, w, m, z)
            = 6 * (ri + rd + pi + pd + wd) + 3 * (rs + ps) + 2 * (mi + md) + ms + l + ws
  <2> HIDE DEF ri, rd, rs, pi, pd, ps, wd, ws, mi, md, ms, l
  <2> QED  BY <1>1, <1>2, <1>3, <1>4, <1>5, <1>6, <1>7, <1>8, <1>9
<1> QED  BY <1>10 DEF Parts

\* A queue loses its head, gains a packet, or keeps its length.
Weighed(q, r, c, s) ==
  /\ InQueues(r) \in Nat /\ InQueues(q) \in Nat
  /\ Len(s) + 1 = Len(q[c]) => InQueues(r) + PacketWeight(c) = InQueues(q)
  /\ Len(s) = Len(q[c]) + 1 => InQueues(r) = InQueues(q) + PacketWeight(c)
  /\ Len(s) = Len(q[c]) => InQueues(r) = InQueues(q)

LEMMA QueueWeighs ==
  ASSUME NEW q, NEW r, NEW c \in Caches, NEW s, NEW size, NEW kinds,
         QueuesOK(q, size, kinds), Replaced(q, r, c, s, size, kinds)
  PROVE  Weighed(q, r, c, s)
<1>1. QueuesOK(r, size, kinds) /\ r[c] = s /\ \A d \in Caches : d # c => r[d] = q[d]
  BY DEF Replaced
<1> DEFINE i == Len(q["L1I"])
           d == Len(q["L1D"])
           z == Len(q["L2C"])
           n == Len(s)
<1>2. i \in Nat /\ d \in Nat /\ z \in Nat  BY QueueLengths, CachesFacts
<1>3. n \in Nat  BY <1>1, QueueLengths
<1>4. InQueues(r) \in Nat /\ InQueues(q) \in Nat  BY <1>1, QueueLengths
<1>5. InQueues(q) = 6 * (i + d) + 3 * z  BY DEF InQueues
<1>6. CASE c = "L2C"
  <2>1. r["L1I"] = q["L1I"] /\ r["L1D"] = q["L1D"] /\ r["L2C"] = s
    BY <1>1, <1>6, CachesFacts
  <2>2. InQueues(r) = 6 * (i + d) + 3 * n  BY <2>1 DEF InQueues
  <2>3. Len(q[c]) = z /\ PacketWeight(c) = 3  BY <1>6 DEF PacketWeight
  <2> HIDE DEF i, d, z, n
  <2> QED  BY <1>2, <1>3, <1>4, <1>5, <2>2, <2>3 DEF n, Weighed
<1>7. CASE c = "L1I"
  <2>1. r["L2C"] = q["L2C"] /\ r["L1D"] = q["L1D"] /\ r["L1I"] = s
    BY <1>1, <1>7, CachesFacts
  <2>2. InQueues(r) = 6 * (n + d) + 3 * z  BY <2>1 DEF InQueues
  <2>3. Len(q[c]) = i /\ PacketWeight(c) = 6  BY <1>7 DEF PacketWeight
  <2> HIDE DEF i, d, z, n
  <2> QED  BY <1>2, <1>3, <1>4, <1>5, <2>2, <2>3 DEF n, Weighed
<1>8. CASE c = "L1D"
  <2>1. r["L2C"] = q["L2C"] /\ r["L1I"] = q["L1I"] /\ r["L1D"] = s
    BY <1>1, <1>8, CachesFacts
  <2>2. InQueues(r) = 6 * (i + n) + 3 * z  BY <2>1 DEF InQueues
  <2>3. Len(q[c]) = d /\ PacketWeight(c) = 6  BY <1>8 DEF PacketWeight
  <2> HIDE DEF i, d, z, n
  <2> QED  BY <1>2, <1>3, <1>4, <1>5, <2>2, <2>3 DEF n, Weighed
<1> QED  BY <1>6, <1>7, <1>8, CachesFacts

\* The same, case by case.
LEMMA QueueLonger ==
  ASSUME NEW q, NEW r, NEW c \in Caches, NEW s, NEW size, NEW kinds,
         QueuesOK(q, size, kinds), Replaced(q, r, c, s, size, kinds), Len(s) = Len(q[c]) + 1
  PROVE  InQueues(r) \in Nat /\ InQueues(r) = InQueues(q) + PacketWeight(c)
<1>1. Weighed(q, r, c, s)  BY QueueWeighs
<1> QED  BY ONLY <1>1, Len(s) = Len(q[c]) + 1 DEF Weighed

LEMMA QueueSame ==
  ASSUME NEW q, NEW r, NEW c \in Caches, NEW s, NEW size, NEW kinds,
         QueuesOK(q, size, kinds), Replaced(q, r, c, s, size, kinds), Len(s) = Len(q[c])
  PROVE  InQueues(r) \in Nat /\ InQueues(r) = InQueues(q)
<1>1. Weighed(q, r, c, s)  BY QueueWeighs
<1> QED  BY ONLY <1>1, Len(s) = Len(q[c]) DEF Weighed

LEMMA PoppedWeighs ==
  ASSUME NEW q, NEW size, NEW kinds, QueuesOK(q, size, kinds), NEW c \in Caches, q[c] # <<>>,
         size[c] \in Nat
  PROVE  LET r == [q EXCEPT ![c] = Tail(@)]
         IN /\ QueuesOK(r, size, kinds) /\ InQueues(r) \in Nat
            /\ InQueues(r) + PacketWeight(c) = InQueues(q)
<1> DEFINE r == [q EXCEPT ![c] = Tail(@)]
<1>1. Replaced(q, r, c, Tail(q[c]), size, kinds)  BY QueuePopped
<1>2. q[c] \in Seq(kinds[c])  BY DEF QueuesOK
<1>3. Len(q[c]) \in Nat \ {0} /\ Len(Tail(q[c])) = Len(q[c]) - 1  BY <1>2, Popped
<1> HIDE DEF r
<1>4. Len(Tail(q[c])) + 1 = Len(q[c])  BY <1>3
<1>5. Weighed(q, r, c, Tail(q[c]))  BY <1>1, QueueWeighs
<1>6. InQueues(r) \in Nat /\ InQueues(r) + PacketWeight(c) = InQueues(q)
  BY ONLY <1>4, <1>5 DEF Weighed
<1> QED  BY <1>1, <1>6 DEF r, Replaced

\* An entry is added, changed or taken away.
EntryWeighed(m, n, c, a, e) ==
  /\ InMshrs(m) \in Nat /\ InMshrs(n) \in Nat
  /\ InMshrs(n) <= InMshrs(m) + EntryWeight(c)
  /\ m[c][a] # NoEntry /\ e # NoEntry => InMshrs(n) = InMshrs(m)
  /\ m[c][a] # NoEntry /\ e = NoEntry => InMshrs(n) + EntryWeight(c) = InMshrs(m)

LEMMA EntryWeighs ==
  ASSUME NEW m, NEW n, NEW c \in Caches, NEW a \in Lines, NEW e, Within(m), Within(n),
         PutAs(m, n, c, a, e)
  PROVE  EntryWeighed(m, n, c, a, e)
<1>1. ASSUME NEW d \in Caches, d # c
      PROVE  Occ(n, d) = Occ(m, d)
  BY <1>1 DEF PutAs, Occ
<1>2. /\ \A d \in Caches : IsFiniteSet(Occ(m, d)) /\ Cardinality(Occ(m, d)) \in Nat
      /\ \A d \in Caches : IsFiniteSet(Occ(n, d)) /\ Cardinality(Occ(n, d)) \in Nat
      /\ InMshrs(m) \in Nat /\ InMshrs(n) \in Nat
  BY MshrNumbers
<1> DEFINE x == Cardinality(Occ(m, c))
           y == Cardinality(Occ(n, c))
<1>3. /\ y <= x + 1
      /\ m[c][a] # NoEntry /\ e # NoEntry => y = x
      /\ m[c][a] # NoEntry /\ e = NoEntry => y + 1 = x
  <2>1. CASE e # NoEntry
    <3>1. Occ(n, c) = Occ(m, c) \cup {a}  BY <2>1 DEF PutAs, Occ
    <3>2. a \in Occ(m, c) <=> m[c][a] # NoEntry  BY DEF Occ
    <3> DEFINE X == Occ(m, c)
    <3>3. IsFiniteSet(X) /\ x \in Nat  BY <1>2
    <3> HIDE DEF X
    <3>4. Cardinality(X \cup {a}) = IF a \in X THEN Cardinality(X) ELSE Cardinality(X) + 1
      BY <3>3, FS_AddElement
    <3>5. y = IF a \in X THEN x ELSE x + 1  BY <3>1, <3>4 DEF X
    <3> HIDE DEF x, y
    <3> QED  BY <2>1, <3>2, <3>3, <3>5 DEF X
  <2>2. CASE e = NoEntry
    <3>1. Occ(n, c) = Occ(m, c) \ {a}  BY <2>2 DEF PutAs, Occ
    <3>2. a \in Occ(m, c) <=> m[c][a] # NoEntry  BY DEF Occ
    <3> DEFINE X == Occ(m, c)
    <3>3. IsFiniteSet(X) /\ x \in Nat /\ y \in Nat  BY <1>2
    <3> HIDE DEF X
    <3>4. Cardinality(X \ {a}) = IF a \in X THEN Cardinality(X) - 1 ELSE Cardinality(X)
      BY <3>3, FS_RemoveElement
    <3>5. y = IF a \in X THEN x - 1 ELSE x  BY <3>1, <3>4 DEF X
    <3> HIDE DEF x, y
    <3> QED  BY <2>2, <3>2, <3>3, <3>5 DEF X
  <2> QED  BY <2>1, <2>2
<1>4. x \in Nat /\ y \in Nat  BY <1>2
<1>5. /\ \A d \in Caches : d # c => Cardinality(Occ(n, d)) = Cardinality(Occ(m, d))
      /\ Cardinality(Occ(m, c)) = x /\ Cardinality(Occ(n, c)) = y
  BY <1>1
<1> HIDE DEF x, y
<1>6. CASE c = "L2C"
  BY <1>2, <1>3, <1>4, <1>5, <1>6, CachesFacts DEF InMshrs, EntryWeight, EntryWeighed
<1>7. CASE c = "L1I"
  BY <1>2, <1>3, <1>4, <1>5, <1>7, CachesFacts DEF InMshrs, EntryWeight, EntryWeighed
<1>8. CASE c = "L1D"
  BY <1>2, <1>3, <1>4, <1>5, <1>8, CachesFacts DEF InMshrs, EntryWeight, EntryWeighed
<1> QED  BY <1>2, <1>6, <1>7, <1>8, CachesFacts

LEMMA AnsweredWeighs ==
  ASSUME NEW m, NEW n, NEW U, NEW a, MshrOK(m), AnsweredAs(m, n, U, a)
  PROVE  InMshrs(n) = InMshrs(m)
BY AnsweredFacts, CachesFacts DEF InMshrs

\* The LLC is asked for a line.
LEMMA AskedLlc ==
  ASSUME IsFiniteSet(llc), NEW a, NEW l, l = llc \/ l = llc \cup {a}
  PROVE  /\ IsFiniteSet(l) /\ Cardinality(l) \in Nat /\ Cardinality(llc) \in Nat
         /\ Cardinality(l) <= Cardinality(llc) + 1
<1>1. Cardinality(llc) \in Nat  BY FS_CardinalityType
<1>2. CASE l = llc  BY <1>1, <1>2
<1>3. CASE l = llc \cup {a}
  <2>1. IsFiniteSet(l) /\ Cardinality(l) = IF a \in llc THEN Cardinality(llc) ELSE Cardinality(llc) + 1
    BY <1>3, FS_AddElement
  <2> QED  BY <1>1, <2>1
<1> QED  BY <1>2, <1>3

\* What a read that misses adds stays below the weight of its packet.
LEMMA ReadMissWeighs ==
  ASSUME CacheInv, IsFiniteSet(llc), NEW c \in Caches, NEW p, p \in Reads(c), NEW q,
         QueuesOK(q, RqSize, ReadKinds),
         ~Present(c, p.line), Cardinality(Occupied(c)) < MshrSize[c],
         LowerRead(c, p, q, AddMshr(mshr, c, p))
  PROVE  /\ IsFiniteSet(llc')
         /\ InQueues(rq') + InMshrs(mshr') + Cardinality(llc')
              < InQueues(q) + PacketWeight(c) + InMshrs(mshr) + Cardinality(llc)
         /\ InQueues(rq') \in Nat /\ InMshrs(mshr') \in Nat /\ Cardinality(llc') \in Nat
         /\ InQueues(q) \in Nat /\ InMshrs(mshr) \in Nat /\ Cardinality(llc) \in Nat
<1> DEFINE m == AddMshr(mshr, c, p)
           x == InQueues(q)
           x2 == InQueues(rq')
           y == InMshrs(mshr)
           ym == InMshrs(m)
           y2 == InMshrs(mshr')
           z == Cardinality(llc)
           z2 == Cardinality(llc')
<1>1. /\ MshrOK(mshr) /\ Within(mshr) /\ p \in PacketType /\ p.line \in Lines
  BY DEF CacheInv, Typed, Reads, PacketType
<1>2. PutAs(mshr, m, c, p.line, EntryOf(p, FALSE))  BY <1>1, AddMshrIs
<1>3. MissesOK(block, m)  BY <1>1, <1>2, PutStep
<1>4. MshrOK(m) /\ Within(m)  BY <1>3 DEF MissesOK
<1>5. y \in Nat /\ ym \in Nat /\ ym <= y + EntryWeight(c)
  BY <1>1, <1>2, <1>4, EntryWeighs DEF EntryWeighed
<1>6. LowerRead(c, p, q, m)  OBVIOUS
<1> HIDE DEF m
<1>7. \/ LoweredOut(c, p, q, m) \/ LoweredAnswered(c, p, q, m)
      \/ LoweredQueued(c, p, q, m) \/ LoweredFull(c, p, q, m)
  BY <1>4, <1>6, LowerReadIs
<1>8. x \in Nat  BY QueueLengths
<1>9. z \in Nat  BY FS_CardinalityType
<1>10. CASE LoweredOut(c, p, q, m)
  <2>1. c = "L2C" /\ llc' = llc \cup {p.line} /\ mshr' = m /\ rq' = q
    BY <1>10 DEF LoweredOut
  <2>2. IsFiniteSet(llc') /\ z2 \in Nat /\ z2 <= z + 1  BY <2>1, AskedLlc
  <2>3. x2 = x /\ y2 = ym /\ EntryWeight(c) = 1 /\ PacketWeight(c) = 3
    BY <2>1 DEF EntryWeight, PacketWeight
  <2>4. x2 + y2 + z2 < x + PacketWeight(c) + y + z /\ x2 \in Nat /\ y2 \in Nat
    <3> HIDE DEF x, x2, y, ym, y2, z, z2
    <3> QED  BY <1>5, <1>8, <1>9, <2>2, <2>3
  <2> QED  BY <1>5, <1>8, <1>9, <2>2, <2>4
<1>11. ASSUME c \in L1, llc' = llc, y2 = ym, x2 \in Nat, x2 <= x + 3
       PROVE  /\ x2 + y2 + z2 < x + PacketWeight(c) + y + z /\ y2 \in Nat /\ z2 \in Nat
              /\ IsFiniteSet(llc')
  <2>1. z2 = z /\ EntryWeight(c) = 2 /\ PacketWeight(c) = 6
    BY <1>11, CachesFacts DEF EntryWeight, PacketWeight
  <2>2. x2 + y2 + z2 < x + PacketWeight(c) + y + z /\ y2 \in Nat /\ z2 \in Nat
    <3> HIDE DEF x, x2, y, ym, y2, z, z2
    <3> QED  BY <1>5, <1>8, <1>9, <1>11, <2>1
  <2> QED  BY <1>11, <2>2
<1>12. CASE LoweredAnswered(c, p, q, m)
  <2>1. c \in L1 /\ llc' = llc /\ rq' = q /\ AnsweredAs(m, mshr', p.fill, p.line)
    BY <1>12 DEF LoweredAnswered
  <2>2. y2 = ym  BY <1>4, <2>1, AnsweredWeighs
  <2>3. x2 = x /\ x2 \in Nat /\ x2 <= x + 3
    <3>1. x2 = x  BY <2>1
    <3> HIDE DEF x, x2
    <3> QED  BY <1>8, <3>1
  <2> QED  BY <1>5, <1>8, <1>9, <1>11, <2>1, <2>2, <2>3
<1>13. CASE LoweredFull(c, p, q, m)
  <2>1. c \in L1 /\ llc' = llc /\ rq' = q /\ mshr' = m
    BY <1>13 DEF LoweredFull
  <2>2. y2 = ym  BY <2>1
  <2>3. x2 = x /\ x2 \in Nat /\ x2 <= x + 3
    <3>1. x2 = x  BY <2>1
    <3> HIDE DEF x, x2
    <3> QED  BY <1>8, <3>1
  <2> QED  BY <1>5, <1>8, <1>9, <1>11, <2>1, <2>2, <2>3
<1>14. CASE LoweredQueued(c, p, q, m)
  <2>1. c \in L1 /\ llc' = llc /\ mshr' = m  BY <1>14 DEF LoweredQueued
  <2>2. y2 = ym  BY <2>1
  <2>3. "L2C" \in Caches /\ PacketWeight("L2C") = 3  BY CachesFacts DEF PacketWeight
  <2>4. p \in Reads("L2C")  BY CachesFacts DEF Reads
  <2>5. q["L2C"] \in Seq(Reads("L2C"))  BY <2>3 DEF QueuesOK, ReadKinds
  <2>6. PICK s : /\ Replaced(q, rq', "L2C", s, RqSize, ReadKinds)
                 /\ Len(s) = Len(q["L2C"]) \/ Len(s) = Len(q["L2C"]) + 1
    <3>1. CASE Queued(q["L2C"], p.line)
      <4>1. Len(Merge(q["L2C"], p)) = Len(q["L2C"])
        BY <2>4, <2>5, ReadsMerged DEF MergedAs
      <4> QED  BY <1>14, <3>1, <4>1 DEF LoweredQueued
    <3>2. CASE ~Queued(q["L2C"], p.line)
      <4>1. Len(Append(q["L2C"], p)) = Len(q["L2C"]) + 1  BY <2>4, <2>5, Pushed
      <4> QED  BY <1>14, <3>2, <4>1 DEF LoweredQueued
    <3> QED  BY <3>1, <3>2
  <2>7. x2 \in Nat /\ (x2 = x + PacketWeight("L2C") \/ x2 = x)
    <3> DEFINE low == "L2C"
    <3>1. low \in Caches /\ Replaced(q, rq', low, s, RqSize, ReadKinds)  BY <2>3, <2>6
    <3>2. Len(s) = Len(q[low]) \/ Len(s) = Len(q[low]) + 1  BY <2>6
    <3> HIDE DEF low
    <3>3. CASE Len(s) = Len(q[low])  BY <3>1, <3>3, QueueSame
    <3>4. CASE Len(s) = Len(q[low]) + 1
      <4>1. x2 \in Nat /\ x2 = x + PacketWeight(low)  BY <3>1, <3>4, QueueLonger
      <4> QED  BY <4>1 DEF low
    <3> QED  BY <3>2, <3>3, <3>4
  <2>8. x2 \in Nat /\ x2 <= x + 3
    <3> HIDE DEF x, x2
    <3> QED  BY <1>8, <2>3, <2>7
  <2> QED  BY <1>5, <1>8, <1>9, <1>11, <2>1, <2>2, <2>8
<1> QED  BY <1>7, <1>10, <1>12, <1>13, <1>14

\* The write queue of the L1D or of the L2C loses its head.
WriteWeight(c) == IF c = "L2C" THEN 1 ELSE 6

LEMMA WritesPopped ==
  ASSUME NEW q, NEW size, NEW kinds, QueuesOK(q, size, kinds), NEW c \in Caches,
         c = "L1D" \/ c = "L2C", q[c] # <<>>, size[c] \in Nat
  PROVE  LET r == [q EXCEPT ![c] = Tail(@)]
         IN /\ QueuesOK(r, size, kinds) /\ InWrites(r) \in Nat
            /\ InWrites(r) + WriteWeight(c) = InWrites(q)
<1> DEFINE r == [q EXCEPT ![c] = Tail(@)]
           d == Len(q["L1D"])
           z == Len(q["L2C"])
           n == Len(Tail(q[c]))
<1>1. Replaced(q, r, c, Tail(q[c]), size, kinds)  BY QueuePopped
<1>2. q[c] \in Seq(kinds[c])  BY DEF QueuesOK
<1>3. Len(q[c]) \in Nat \ {0} /\ n = Len(q[c]) - 1  BY <1>2, Popped
<1> HIDE DEF r
<1>4. QueuesOK(r, size, kinds) /\ r[c] = Tail(q[c]) /\ \A e \in Caches : e # c => r[e] = q[e]
  BY <1>1 DEF Replaced
<1>5. InWrites(r) \in Nat /\ InWrites(q) = 6 * d + z  BY <1>4, QueueLengths DEF InWrites
<1>6. d \in Nat /\ z \in Nat  BY QueueLengths, CachesFacts
<1>7. CASE c = "L2C"
  <2>1. InWrites(r) = 6 * d + n  BY <1>4, <1>7, CachesFacts DEF InWrites
  <2>2. n = z - 1 /\ z \in Nat \ {0} /\ WriteWeight(c) = 1  BY <1>3, <1>7 DEF WriteWeight
  <2>3. InWrites(r) + WriteWeight(c) = InWrites(q)
    <3> HIDE DEF d, z, n
    <3> QED  BY <1>5, <1>6, <2>1, <2>2
  <2> QED  BY <1>4, <1>5, <2>3 DEF r
<1>8. CASE c = "L1D"
  <2>1. InWrites(r) = 6 * n + z  BY <1>4, <1>8, CachesFacts DEF InWrites
  <2>2. n = d - 1 /\ d \in Nat \ {0} /\ WriteWeight(c) = 6  BY <1>3, <1>8 DEF WriteWeight
  <2>3. InWrites(r) + WriteWeight(c) = InWrites(q)
    <3> HIDE DEF d, z, n
    <3> QED  BY <1>5, <1>6, <2>1, <2>2
  <2> QED  BY <1>4, <1>5, <2>3 DEF r
<1> QED  BY <1>7, <1>8

\* A fill of an L1 may leave a write-back, one of the L2C leaves none.
LEMMA EvictWeighs ==
  ASSUME NEW c \in Caches, NEW w \in 1 .. Ways[c], BlocksOK(block),
         QueuesOK(wq, WqSize, WriteKinds), Evict(c, w, wq)
  PROVE  /\ InWrites(wq') \in Nat /\ InWrites(wq) \in Nat
         /\ InWrites(wq') = InWrites(wq) \/ (c # "L2C" /\ InWrites(wq') = InWrites(wq) + 1)
<1> DEFINE v == block[c][w]
           p == Packet(v.line, "WRITEBACK", 2, {})
           d == Len(wq["L1D"])
           z == Len(wq["L2C"])
           n == Len(wq'["L2C"])
<1>1. Evicted(c, w, wq)  BY EvictIs
<1>2. InWrites(wq') \in Nat /\ InWrites(wq) \in Nat /\ d \in Nat /\ z \in Nat
  BY <1>1, QueueLengths, CachesFacts DEF Evicted
<1>3. CASE wq' = wq  BY <1>2, <1>3
<1>4. CASE ~(~v.dirty \/ c = "L2C") /\ ~Queued(wq["L2C"], v.line)
  <2>1. wq' = [wq EXCEPT !["L2C"] = Append(wq["L2C"], p)] /\ c # "L2C"  BY <1>4 DEF Evict
  <2>2. wq["L2C"] \in Seq(WriteKinds["L2C"]) /\ DOMAIN wq = Caches
    BY CachesFacts DEF QueuesOK
  <2>3. wq'["L2C"] = Append(wq["L2C"], p) /\ wq'["L1D"] = wq["L1D"]
    BY <2>1, <2>2, CachesFacts
  <2>4. n = z + 1  BY <2>2, <2>3
  <2>5. InWrites(wq') = 6 * d + n /\ InWrites(wq) = 6 * d + z  BY <2>3 DEF InWrites
  <2>6. InWrites(wq') = InWrites(wq) + 1
    <3> HIDE DEF d, z, n
    <3> QED  BY <1>2, <2>4, <2>5
  <2> QED  BY <1>2, <2>1, <2>6
<1>5. wq' = wq \/ (~(~v.dirty \/ c = "L2C") /\ ~Queued(wq["L2C"], v.line))
  BY DEF Evict
<1> QED  BY <1>3, <1>4, <1>5

-----------------------------------------------------------------------------
(* Every handler uses work up *)

Before == Total(rq, pq, wq, mshr, llc)
Sinks(r, p, w, m, l) == IsFiniteSet(l) /\ Total(r, p, w, m, l) < Before

LEMMA Weights ==
  ASSUME CacheInv, IsFiniteSet(llc)
  PROVE  /\ InQueues(rq) \in Nat /\ InQueues(pq) \in Nat /\ InWrites(wq) \in Nat
         /\ InMshrs(mshr) \in Nat /\ Cardinality(llc) \in Nat
<1>1. /\ QueuesOK(rq, RqSize, ReadKinds) /\ QueuesOK(wq, WqSize, WriteKinds)
      /\ QueuesOK(pq, PqSize, PrefKinds) /\ Within(mshr)
  BY DEF CacheInv, Typed
<1>2. InQueues(rq) \in Nat  BY <1>1, QueueLengths
<1>3. InQueues(pq) \in Nat  BY <1>1, QueueLengths
<1>4. InWrites(wq) \in Nat  BY <1>1, QueueLengths
<1> QED  BY <1>1, <1>2, <1>3, <1>4, MshrNumbers, FS_CardinalityType

\* A packet that is answered or merged leaves its queue and takes no room elsewhere.
LEMMA MergeWeighs ==
  ASSUME CacheInv, NEW c \in Caches, NEW p, p \in PacketType, p.line \in Occupied(c), NEW f,
         mshr' = [mshr EXCEPT ![c][p.line] = f], MergedEntry(mshr[c][p.line], p, f)
  PROVE  InMshrs(mshr') = InMshrs(mshr)
<1>1. PutAs(mshr, mshr', c, p.line, f) /\ MissesOK(block, mshr')  BY MergeStep
<1>2. Within(mshr) /\ Within(mshr') /\ p.line \in Lines /\ mshr[c][p.line] # NoEntry
  BY <1>1 DEF CacheInv, Typed, MissesOK, Occupied
<1>3. f \in EntryType  BY DEF MergedEntry
<1>4. f # NoEntry  BY <1>3, NoEntryFacts
<1>5. EntryWeighed(mshr, mshr', c, p.line, f)  BY <1>1, <1>2, EntryWeighs
<1> QED  BY ONLY <1>2, <1>4, <1>5 DEF EntryWeighed

LEMMA HandleReadSinks ==
  ASSUME CacheInv, IsFiniteSet(llc), NEW c \in Caches, HandleRead(c)
  PROVE  Sinks(rq', pq', wq', mshr', llc')
<1> DEFINE p == Head(rq[c])
           rest == [rq EXCEPT ![c] = Tail(@)]
           r == InQueues(rq)
           rr == InQueues(rest)
           r2 == InQueues(rq')
           m == InMshrs(mshr)
           m2 == InMshrs(mshr')
           l == Cardinality(llc)
           l2 == Cardinality(llc')
           o == InQueues(pq)
           w == InWrites(wq)
           k == PacketWeight(c)
<1>1. QueuesOK(rq, RqSize, ReadKinds) /\ MshrOK(mshr)  BY DEF CacheInv, Typed
<1>2. rq[c] # <<>> /\ wq' = wq /\ pq' = pq  BY DEF HandleRead
<1>3. p \in ReadKinds[c]  BY <1>1, <1>2, SizesType, QueuePopped
<1>4. QueuesOK(rest, RqSize, ReadKinds) /\ rr \in Nat /\ rr + k = r
  BY <1>1, <1>2, SizesType, PoppedWeighs
<1>5. p \in Reads(c) /\ p \in PacketType  BY <1>3 DEF ReadKinds, Reads
<1>6. /\ p.line \in Lines /\ p.level \in Levels /\ p.fill \subseteq L1 /\ FillsUp(p)
  BY <1>5 DEF PacketType
<1>7. r \in Nat /\ m \in Nat /\ l \in Nat /\ o \in Nat /\ w \in Nat /\ k \in Nat \ {0}
  BY Weights DEF PacketWeight
<1>8. \/ rq' = rest /\ mshr' = Answer(mshr, c, p) /\ llc' = llc
      \/ ~Present(c, p.line) /\ Cardinality(Occupied(c)) < MshrSize[c]
         /\ LowerRead(c, p, rest, AddMshr(mshr, c, p))
      \/ p.line \in Occupied(c) /\ rq' = rest /\ llc' = llc
         /\ mshr' = [mshr EXCEPT ![c][p.line] = MergeMshr(@, p)]
  BY DEF HandleRead
<1>9. Before = r + o + w + m + l  BY DEF Before, Total
<1>10. Total(rq', pq', wq', mshr', llc') = r2 + o + w + m2 + l2  BY <1>2 DEF Total
<1> HIDE DEF p, rest
<1>11. ASSUME rq' = rest, m2 = m, llc' = llc
       PROVE  Sinks(rq', pq', wq', mshr', llc')
  <2>1. r2 = rr /\ l2 = l /\ IsFiniteSet(llc')  BY <1>11
  <2>2. r2 + o + w + m2 + l2 < r + o + w + m + l
    <3> HIDE DEF r, rr, r2, m, m2, l, l2, o, w, k
    <3> QED  BY <1>4, <1>7, <1>11, <2>1
  <2> QED  BY <1>9, <1>10, <2>1, <2>2 DEF Sinks
<1>12. CASE rq' = rest /\ mshr' = Answer(mshr, c, p) /\ llc' = llc
  <2>1. AnsweredAs(mshr, mshr', Uppers(c, p), p.line)  BY <1>1, <1>6, <1>12, AnswerIs
  <2>2. m2 = m  BY <1>1, <2>1, AnsweredWeighs
  <2> QED  BY <1>11, <1>12, <2>2
<1>13. CASE ~Present(c, p.line) /\ Cardinality(Occupied(c)) < MshrSize[c]
            /\ LowerRead(c, p, rest, AddMshr(mshr, c, p))
  <2>1. /\ IsFiniteSet(llc') /\ r2 + m2 + l2 < rr + k + m + l
        /\ r2 \in Nat /\ m2 \in Nat /\ l2 \in Nat
    BY <1>4, <1>5, <1>13, ReadMissWeighs
  <2>2. r2 + o + w + m2 + l2 < r + o + w + m + l
    <3> HIDE DEF r, rr, r2, m, m2, l, l2, o, w, k
    <3> QED  BY <1>4, <1>7, <2>1
  <2> QED  BY <1>9, <1>10, <2>1, <2>2 DEF Sinks
<1>14. CASE p.line \in Occupied(c) /\ rq' = rest /\ llc' = llc
            /\ mshr' = [mshr EXCEPT ![c][p.line] = MergeMshr(@, p)]
  <2> DEFINE e == mshr[c][p.line]
             f == MergeMshr(e, p)
  <2>1. e \in EntryType /\ e.line = p.line  BY <1>1, <1>14 DEF MshrOK, Occupied
  <2>2. MergedEntry(e, p, f)  BY <1>5, <2>1, MergeMshrIs
  <2>3. mshr' = [mshr EXCEPT ![c][p.line] = f]  BY <1>14
  <2> HIDE DEF f
  <2>4. m2 = m  BY <1>5, <1>14, <2>2, <2>3, MergeWeighs
  <2> QED  BY <1>11, <1>14, <2>4
<1> QED  BY <1>8, <1>12, <1>13, <1>14

LEMMA HandleStoreSinks ==
  ASSUME CacheInv, IsFiniteSet(llc), HandleStore
  PROVE  Sinks(rq', pq', wq', mshr', llc')
<1> DEFINE c == "L1D"
           p == Head(wq[c])
           rest == [wq EXCEPT ![c] = Tail(@)]
           r == InQueues(rq)
           r2 == InQueues(rq')
           m == InMshrs(mshr)
           m2 == InMshrs(mshr')
           l == Cardinality(llc)
           l2 == Cardinality(llc')
           o == InQueues(pq)
           w == InWrites(wq)
           w2 == InWrites(wq')
           k == PacketWeight(c)
<1>1. /\ QueuesOK(rq, RqSize, ReadKinds) /\ QueuesOK(wq, WqSize, WriteKinds) /\ MshrOK(mshr)
  BY DEF CacheInv, Typed
<1>2. c \in Caches /\ c \in L1 /\ WqSize[c] \in Nat  BY CachesFacts, SizesType
<1>3. wq[c] # <<>> /\ wq' = rest /\ pq' = pq  BY DEF HandleStore
<1>4. p \in WriteKinds[c]  BY <1>1, <1>2, <1>3, QueuePopped
<1>5. p \in Reads(c) /\ p \in PacketType
  BY <1>2, <1>4 DEF WriteKinds, Writes, Reads
<1>6. w2 \in Nat /\ w2 + k = w
  <2>1. QueuesOK(rest, WqSize, WriteKinds) /\ InWrites(rest) \in Nat
        /\ InWrites(rest) + WriteWeight(c) = InWrites(wq)
    BY <1>1, <1>2, <1>3, WritesPopped
  <2>2. w2 = InWrites(rest) /\ k = WriteWeight(c)  BY <1>3 DEF PacketWeight, WriteWeight
  <2> HIDE DEF w2, k, rest
  <2> QED  BY <2>1, <2>2
<1>7. r \in Nat /\ m \in Nat /\ l \in Nat /\ o \in Nat /\ w \in Nat /\ k \in Nat \ {0}
  BY Weights DEF PacketWeight
<1>8. \/ rq' = rq /\ mshr' = mshr /\ llc' = llc
      \/ ~Present(c, p.line) /\ Cardinality(Occupied(c)) < MshrSize[c]
         /\ LowerRead(c, p, rq, AddMshr(mshr, c, p))
      \/ p.line \in Occupied(c) /\ rq' = rq /\ llc' = llc
         /\ mshr' = [mshr EXCEPT ![c][p.line] = MergeMshr(@, p)]
  BY DEF HandleStore
<1>9. Before = r + o + w + m + l  BY DEF Before, Total
<1>10. Total(rq', pq', wq', mshr', llc') = r2 + o + w2 + m2 + l2  BY <1>3 DEF Total
<1> HIDE DEF p, rest
<1>11. ASSUME rq' = rq, m2 = m, llc' = llc
       PROVE  Sinks(rq', pq', wq', mshr', llc')
  <2>1. r2 = r /\ l2 = l /\ IsFiniteSet(llc')  BY <1>11
  <2>2. r2 + o + w2 + m2 + l2 < r + o + w + m + l
    <3> HIDE DEF r, r2, m, m2, l, l2, o, w, w2, k
    <3> QED  BY <1>6, <1>7, <1>11, <2>1
  <2> QED  BY <1>9, <1>10, <2>1, <2>2 DEF Sinks
<1>12. CASE rq' = rq /\ mshr' = mshr /\ llc' = llc
  <2>1. m2 = m  BY <1>12
  <2> QED  BY <1>11, <1>12, <2>1
<1>13. CASE ~Present(c, p.line) /\ Cardinality(Occupied(c)) < MshrSize[c]
            /\ LowerRead(c, p, rq, AddMshr(mshr, c, p))
  <2>1. /\ IsFiniteSet(llc') /\ r2 + m2 + l2 < r + k + m + l
        /\ r2 \in Nat /\ m2 \in Nat /\ l2 \in Nat
    <3> HIDE DEF c
    <3> QED  BY <1>1, <1>2, <1>5, <1>13, ReadMissWeighs
  <2>2. r2 + o + w2 + m2 + l2 < r + o + w + m + l
    <3> HIDE DEF r, r2, m, m2, l, l2, o, w, w2, k
    <3> QED  BY <1>6, <1>7, <2>1
  <2> QED  BY <1>9, <1>10, <2>1, <2>2 DEF Sinks
<1>14. CASE p.line \in Occupied(c) /\ rq' = rq /\ llc' = llc
            /\ mshr' = [mshr EXCEPT ![c][p.line] = MergeMshr(@, p)]
  <2> DEFINE e == mshr[c][p.line]
             f == MergeMshr(e, p)
  <2>1. e \in EntryType /\ e.line = p.line  BY <1>1, <1>2, <1>14 DEF MshrOK, Occupied
  <2>2. MergedEntry(e, p, f)  BY <1>5, <2>1, MergeMshrIs
  <2>3. mshr' = [mshr EXCEPT ![c][p.line] = f]  BY <1>14
  <2> HIDE DEF f
  <2>4. m2 = m  BY <1>2, <1>5, <1>14, <2>2, <2>3, MergeWeighs
  <2> QED  BY <1>11, <1>14, <2>4
<1> QED  BY <1>8, <1>12, <1>13, <1>14

\* A fill frees its entry, and leaves at most one write-back.
LEMMA HandleFillSinks ==
  ASSUME CacheInv, IsFiniteSet(llc), NEW c \in Caches, HandleFill(c)
  PROVE  Sinks(rq', pq', wq', mshr', llc')
<1>1. /\ QueuesOK(wq, WqSize, WriteKinds) /\ MshrOK(mshr) /\ Within(mshr) /\ BlocksOK(block)
  BY DEF CacheInv, Typed
<1>2. PICK a \in Occupied(c), x \in Victims(c) :
        /\ Evict(c, x, wq)
        /\ mshr' = [Answer(mshr, c, mshr[c][a]) EXCEPT ![c][a] = NoEntry]
        /\ UNCHANGED <<rq, pq, llc, issued>>
  BY DEF HandleFill
<1>3. x \in 1 .. Ways[c]  BY <1>1, VictimsAreWays
<1> DEFINE e == mshr[c][a]
           n == Answer(mshr, c, e)
           r == InQueues(rq)
           m == InMshrs(mshr)
           mn == InMshrs(n)
           m2 == InMshrs(mshr')
           l == Cardinality(llc)
           o == InQueues(pq)
           w == InWrites(wq)
           w2 == InWrites(wq')
           k == EntryWeight(c)
<1>4. a \in Lines /\ e # NoEntry  BY DEF Occupied
<1>5. /\ e \in EntryType /\ e.line = a /\ e.line \in Lines /\ e.level \in Levels
      /\ e.fill \subseteq L1 /\ FillsUp(e)
  BY <1>1, <1>4 DEF MshrOK, EntryType
<1>6. AnsweredAs(mshr, n, Uppers(c, e), a)
  <2>1. AnsweredAs(mshr, Answer(mshr, c, e), Uppers(c, e), e.line)  BY <1>1, <1>5, AnswerIs
  <2> QED  BY <1>5, <2>1
<1>7. mshr' = [n EXCEPT ![c][a] = NoEntry]  BY <1>2
<1> HIDE DEF n
<1>8. MshrOK(n) /\ Within(n)  BY <1>1, <1>6, WithinAnswered
<1>9. PutAs(n, mshr', c, a, NoEntry)  BY <1>4, <1>7, <1>8, EntryPut
<1>10. Within(mshr')  BY <1>4, <1>8, <1>9, WithinPut
<1>11. EntryWeighed(n, mshr', c, a, NoEntry)  BY <1>4, <1>8, <1>9, <1>10, EntryWeighs
<1>12. n[c][a] # NoEntry  BY <1>1, <1>4, <1>6, AnsweredFacts
<1>13. m2 \in Nat /\ m2 + k = mn  BY <1>11, <1>12 DEF EntryWeighed
<1>14. mn = m  BY <1>1, <1>6, AnsweredWeighs
<1>15. w2 \in Nat /\ (w2 = w \/ (c # "L2C" /\ w2 = w + 1))  BY <1>1, <1>2, <1>3, EvictWeighs
<1>16. k \in Nat \ {0} /\ (c # "L2C" => k = 2)  BY DEF EntryWeight
<1>17. r \in Nat /\ m \in Nat /\ l \in Nat /\ o \in Nat /\ w \in Nat  BY Weights
<1>18. Before = r + o + w + m + l  BY DEF Before, Total
<1>19. Total(rq', pq', wq', mshr', llc') = r + o + w2 + m2 + l  BY <1>2 DEF Total
<1>20. r + o + w2 + m2 + l < r + o + w + m + l
  <2> HIDE DEF r, m, mn, m2, l, o, w, w2, k
  <2> QED  BY <1>13, <1>14, <1>15, <1>16, <1>17
<1>21. IsFiniteSet(llc')  BY <1>2
<1> QED  BY <1>18, <1>19, <1>20, <1>21 DEF Sinks

LEMMA HandleWritebackSinks ==
  ASSUME CacheInv, IsFiniteSet(llc), HandleWriteback
  PROVE  Sinks(rq', pq', wq', mshr', llc')
<1> DEFINE c == "L2C"
           rest == [wq EXCEPT ![c] = Tail(@)]
           r == InQueues(rq)
           m == InMshrs(mshr)
           l == Cardinality(llc)
           o == InQueues(pq)
           w == InWrites(wq)
           w2 == InWrites(wq')
<1>1. QueuesOK(wq, WqSize, WriteKinds) /\ BlocksOK(block)  BY DEF CacheInv, Typed
<1>2. c \in Caches /\ WqSize[c] \in Nat  BY CachesFacts, SizesType
<1>3. wq[c] # <<>> /\ UNCHANGED <<rq, pq, mshr, llc, pending, issued>>  BY DEF HandleWriteback
<1>4. wq' = rest  BY <1>1, WritebackWay
<1>5. InWrites(rest) \in Nat /\ InWrites(rest) + WriteWeight(c) = w
  BY <1>1, <1>2, <1>3, WritesPopped
<1>6. w2 \in Nat /\ w2 + 1 = w  BY <1>4, <1>5 DEF WriteWeight
<1>7. r \in Nat /\ m \in Nat /\ l \in Nat /\ o \in Nat /\ w \in Nat  BY Weights
<1>8. Before = r + o + w + m + l  BY DEF Before, Total
<1>9. Total(rq', pq', wq', mshr', llc') = r + o + w2 + m + l  BY <1>3 DEF Total
<1>10. r + o + w2 + m + l < r + o + w + m + l
  <2> HIDE DEF r, m, l, o, w, w2
  <2> QED  BY <1>6, <1>7
<1>11. IsFiniteSet(llc')  BY <1>3
<1> QED  BY <1>8, <1>9, <1>10, <1>11 DEF Sinks

LEMMA LlcReturnSinks ==
  ASSUME CacheInv, IsFiniteSet(llc), NEW a \in Lines, LlcReturn(a)
  PROVE  Sinks(rq', pq', wq', mshr', llc')
<1> DEFINE r == InQueues(rq)
           m == InMshrs(mshr)
           m2 == InMshrs(mshr')
           l == Cardinality(llc)
           l2 == Cardinality(llc')
           o == InQueues(pq)
           w == InWrites(wq)
<1>1. /\ a \in llc /\ llc' = llc \ {a} /\ mshr' = ReturnData(mshr, "L2C", a)
      /\ UNCHANGED <<rq, wq, pq>>
  BY DEF LlcReturn
<1>2. MshrOK(mshr)  BY DEF CacheInv, Typed
<1>3. AnsweredAs(mshr, mshr', {"L2C"}, a)  BY <1>1, <1>2, CachesFacts, ReturnDataIs
<1>4. m2 = m  BY <1>2, <1>3, AnsweredWeighs
<1>5. IsFiniteSet(llc') /\ l2 = l - 1  BY <1>1, FS_RemoveElement
<1>6. r \in Nat /\ m \in Nat /\ l \in Nat /\ o \in Nat /\ w \in Nat  BY Weights
<1>7. Before = r + o + w + m + l  BY DEF Before, Total
<1>8. Total(rq', pq', wq', mshr', llc') = r + o + w + m2 + l2  BY <1>1 DEF Total
<1>9. r + o + w + m2 + l2 < r + o + w + m + l
  <2> HIDE DEF r, m, m2, l, l2, o, w
  <2> QED  BY <1>4, <1>5, <1>6
<1> QED  BY <1>5, <1>7, <1>8, <1>9 DEF Sinks

\* So with a prefetch that misses.
LEMMA PrefetchMissWeighs ==
  ASSUME CacheInv, IsFiniteSet(llc), NEW c \in Caches, NEW p, p \in Prefs(c), NEW q,
         QueuesOK(q, PqSize, PrefKinds),
         ~Present(c, p.line), Cardinality(Occupied(c)) < MshrSize[c],
         LowerPrefetch(c, p, q, PrefetchMshr(mshr, c, p))
  PROVE  /\ IsFiniteSet(llc')
         /\ InQueues(pq') + InMshrs(mshr') + Cardinality(llc')
              < InQueues(q) + PacketWeight(c) + InMshrs(mshr) + Cardinality(llc)
         /\ InQueues(pq') \in Nat /\ InMshrs(mshr') \in Nat /\ Cardinality(llc') \in Nat
<1> DEFINE m == PrefetchMshr(mshr, c, p)
           x == InQueues(q)
           x2 == InQueues(pq')
           y == InMshrs(mshr)
           ym == InMshrs(m)
           y2 == InMshrs(mshr')
           z == Cardinality(llc)
           z2 == Cardinality(llc')
<1>1. /\ MshrOK(mshr) /\ Within(mshr) /\ Single(block, mshr) /\ p \in PacketType /\ p.line \in Lines
  BY DEF CacheInv, Typed, Prefs, PacketType
<1>2. EntryWeight(c) \in Nat  BY DEF EntryWeight
<1>3. MshrOK(m) /\ Within(m) /\ y \in Nat /\ ym \in Nat /\ ym <= y + EntryWeight(c)
  <2>1. CASE p.level <= FillLevel(c)
    <3> DEFINE n == AddMshr(mshr, c, p)
    <3>1. PutAs(mshr, n, c, p.line, EntryOf(p, FALSE))  BY <1>1, AddMshrIs
    <3>2. MissesOK(block, n)  BY <1>1, <3>1, PutStep
    <3>3. m = n  BY <2>1 DEF PrefetchMshr
    <3> HIDE DEF n
    <3>4. MshrOK(n) /\ Within(n)  BY <3>2 DEF MissesOK
    <3>5. EntryWeighed(mshr, n, c, p.line, EntryOf(p, FALSE))  BY <1>1, <3>1, <3>4, EntryWeighs
    <3> QED  BY <3>3, <3>4, <3>5 DEF EntryWeighed
  <2>2. CASE ~(p.level <= FillLevel(c))
    <3>1. m = mshr  BY <2>2 DEF PrefetchMshr
    <3>2. y \in Nat /\ ym = y  BY <1>1, <3>1, MshrNumbers
    <3>3. ym \in Nat /\ ym <= y + EntryWeight(c)
      <4> HIDE DEF y, ym
      <4> QED  BY <1>2, <3>2
    <3> QED  BY <1>1, <3>1, <3>2, <3>3
  <2> QED  BY <2>1, <2>2
<1>4. LowerPrefetch(c, p, q, m)  OBVIOUS
<1> HIDE DEF m
<1>5. x \in Nat  BY QueueLengths
<1>6. z \in Nat  BY FS_CardinalityType
<1>7. CASE c = "L2C"
  <2>1. (llc' = llc \/ llc' = llc \cup {p.line}) /\ mshr' = m /\ pq' = q
    BY <1>4, <1>7 DEF LowerPrefetch
  <2>2. IsFiniteSet(llc') /\ z2 \in Nat /\ z2 <= z + 1  BY <2>1, AskedLlc
  <2>3. x2 = x /\ y2 = ym /\ EntryWeight(c) = 1 /\ PacketWeight(c) = 3
    BY <1>7, <2>1 DEF EntryWeight, PacketWeight
  <2>4. x2 + y2 + z2 < x + PacketWeight(c) + y + z /\ x2 \in Nat /\ y2 \in Nat
    <3> HIDE DEF x, x2, y, ym, y2, z, z2
    <3> QED  BY <1>3, <1>5, <1>6, <2>2, <2>3
  <2> QED  BY <2>2, <2>4
<1>8. CASE c # "L2C"
  <2>1. llc' = llc /\ AddPq("L2C", p, q, m)  BY <1>4, <1>8 DEF LowerPrefetch
  <2>2. "L2C" \in Caches /\ p \in Prefs("L2C") /\ c \in L1
    BY <1>1, <1>8, CachesFacts DEF Prefs
  <2>3. AskedAnswered("L2C", p, q, m) \/ AskedQueued("L2C", p, q, m) \/ AskedFull("L2C", p, q, m)
    BY <1>3, <2>1, <2>2, AddPqIs
  <2>4. y2 = ym
    <3>1. ASSUME AskedAnswered("L2C", p, q, m) PROVE y2 = ym
      BY <1>3, <3>1, AnsweredWeighs DEF AskedAnswered
    <3>2. ASSUME mshr' = m PROVE y2 = ym  BY <3>2
    <3> QED  BY <2>3, <3>1, <3>2 DEF AskedQueued, AskedFull
  <2>5. x2 \in Nat /\ x2 <= x + 3
    <3>1. CASE pq' = q
      <4>1. x2 = x  BY <3>1
      <4> HIDE DEF x, x2
      <4> QED  BY <1>5, <4>1
    <3>2. CASE AskedQueued("L2C", p, q, m)
      <4> DEFINE low == "L2C"
      <4>1. q[low] \in Seq(Prefs(low)) /\ p \in Prefs(low) /\ low \in Caches
        BY <2>2 DEF QueuesOK, PrefKinds
      <4>2. \/ Replaced(q, pq', low, MergePq(q[low], p), PqSize, PrefKinds)
            \/ Replaced(q, pq', low, Append(q[low], p), PqSize, PrefKinds)
        BY <3>2 DEF AskedQueued
      <4>3. PacketWeight(low) = 3  BY DEF PacketWeight
      <4> HIDE DEF low
      <4>4. CASE Replaced(q, pq', low, MergePq(q[low], p), PqSize, PrefKinds)
        <5>1. Len(MergePq(q[low], p)) = Len(q[low])  BY <4>1, PrefsMerged DEF MergedAs
        <5>2. x2 \in Nat /\ x2 = x  BY <4>1, <4>4, <5>1, QueueSame
        <5> HIDE DEF x, x2
        <5> QED  BY <1>5, <5>2
      <4>5. CASE Replaced(q, pq', low, Append(q[low], p), PqSize, PrefKinds)
        <5>1. Len(Append(q[low], p)) = Len(q[low]) + 1  BY <4>1, Pushed
        <5>2. x2 \in Nat /\ x2 = x + PacketWeight(low)  BY <4>1, <4>5, <5>1, QueueLonger
        <5> HIDE DEF x, x2
        <5> QED  BY <1>5, <4>3, <5>2
      <4> QED  BY <4>2, <4>4, <4>5
    <3> QED  BY <2>3, <3>1, <3>2 DEF AskedAnswered, AskedFull
  <2>6. z2 = z /\ EntryWeight(c) = 2 /\ PacketWeight(c) = 6
    BY <1>8, <2>1 DEF EntryWeight, PacketWeight
  <2>7. x2 + y2 + z2 < x + PacketWeight(c) + y + z /\ y2 \in Nat /\ z2 \in Nat
    <3> HIDE DEF x, x2, y, ym, y2, z, z2
    <3> QED  BY <1>3, <1>5, <1>6, <2>4, <2>5, <2>6
  <2> QED  BY <2>1, <2>5, <2>7
<1> QED  BY <1>7, <1>8

LEMMA HandlePrefetchSinks ==
  ASSUME CacheInv, IsFiniteSet(llc), NEW c \in Caches, HandlePrefetch(c)
  PROVE  Sinks(rq', pq', wq', mshr', llc')
<1> DEFINE p == Head(pq[c])
           rest == [pq EXCEPT ![c] = Tail(@)]
           r == InQueues(pq)
           rr == InQueues(rest)
           r2 == InQueues(pq')
           m == InMshrs(mshr)
           m2 == InMshrs(mshr')
           l == Cardinality(llc)
           l2 == Cardinality(llc')
           o == InQueues(rq)
           w == InWrites(wq)
           k == PacketWeight(c)
<1>1. QueuesOK(pq, PqSize, PrefKinds) /\ MshrOK(mshr)  BY DEF CacheInv, Typed
<1>2. pq[c] # <<>> /\ wq' = wq /\ rq' = rq  BY DEF HandlePrefetch
<1>3. p \in PrefKinds[c]  BY <1>1, <1>2, SizesType, QueuePopped
<1>4. QueuesOK(rest, PqSize, PrefKinds) /\ rr \in Nat /\ rr + k = r
  BY <1>1, <1>2, SizesType, PoppedWeighs
<1>5. p \in Prefs(c) /\ p \in PacketType  BY <1>3 DEF PrefKinds, Prefs
<1>6. /\ p.line \in Lines /\ p.level \in Levels /\ p.fill \subseteq L1 /\ FillsUp(p)
  BY <1>5 DEF PacketType
<1>7. r \in Nat /\ m \in Nat /\ l \in Nat /\ o \in Nat /\ w \in Nat /\ k \in Nat \ {0}
  BY Weights DEF PacketWeight
<1>8. \/ pq' = rest /\ mshr' = Answer(mshr, c, p) /\ llc' = llc
      \/ ~Present(c, p.line) /\ Cardinality(Occupied(c)) < MshrSize[c]
         /\ LowerPrefetch(c, p, rest, PrefetchMshr(mshr, c, p))
      \/ p.line \in Occupied(c) /\ pq' = rest /\ llc' = llc
         /\ mshr' = [mshr EXCEPT ![c][p.line] = RaiseMshr(@, p)]
  BY DEF HandlePrefetch
<1>9. Before = o + r + w + m + l  BY DEF Before, Total
<1>10. Total(rq', pq', wq', mshr', llc') = o + r2 + w + m2 + l2  BY <1>2 DEF Total
<1> HIDE DEF p, rest
<1>11. ASSUME pq' = rest, m2 = m, llc' = llc
       PROVE  Sinks(rq', pq', wq', mshr', llc')
  <2>1. r2 = rr /\ l2 = l /\ IsFiniteSet(llc')  BY <1>11
  <2>2. o + r2 + w + m2 + l2 < o + r + w + m + l
    <3> HIDE DEF r, rr, r2, m, m2, l, l2, o, w, k
    <3> QED  BY <1>4, <1>7, <1>11, <2>1
  <2> QED  BY <1>9, <1>10, <2>1, <2>2 DEF Sinks
<1>12. CASE pq' = rest /\ mshr' = Answer(mshr, c, p) /\ llc' = llc
  <2>1. AnsweredAs(mshr, mshr', Uppers(c, p), p.line)  BY <1>1, <1>6, <1>12, AnswerIs
  <2>2. m2 = m  BY <1>1, <2>1, AnsweredWeighs
  <2> QED  BY <1>11, <1>12, <2>2
<1>13. CASE ~Present(c, p.line) /\ Cardinality(Occupied(c)) < MshrSize[c]
            /\ LowerPrefetch(c, p, rest, PrefetchMshr(mshr, c, p))
  <2>1. /\ IsFiniteSet(llc') /\ r2 + m2 + l2 < rr + k + m + l
        /\ r2 \in Nat /\ m2 \in Nat /\ l2 \in Nat
    BY <1>4, <1>5, <1>13, PrefetchMissWeighs
  <2>2. o + r2 + w + m2 + l2 < o + r + w + m + l
    <3> HIDE DEF r, rr, r2, m, m2, l, l2, o, w, k
    <3> QED  BY <1>4, <1>7, <2>1
  <2> QED  BY <1>9, <1>10, <2>1, <2>2 DEF Sinks
<1>14. CASE p.line \in Occupied(c) /\ pq' = rest /\ llc' = llc
            /\ mshr' = [mshr EXCEPT ![c][p.line] = RaiseMshr(@, p)]
  <2> DEFINE e == mshr[c][p.line]
             f == RaiseMshr(e, p)
  <2>1. e \in EntryType /\ e.line = p.line  BY <1>1, <1>14 DEF MshrOK, Occupied
  <2>2. MergedEntry(e, p, f)  BY <1>5, <2>1, RaiseEntry DEF Raised
  <2>3. mshr' = [mshr EXCEPT ![c][p.line] = f]  BY <1>14
  <2> HIDE DEF f
  <2>4. m2 = m  BY <1>5, <1>14, <2>2, <2>3, MergeWeighs
  <2> QED  BY <1>11, <1>14, <2>4
<1> QED  BY <1>8, <1>12, <1>13, <1>14

LEMMA WorkNow ==
  ASSUME CacheInv, IsFiniteSet(llc)
  PROVE  Work = Before /\ Work \in Nat
<1>1. /\ QueuesOK(rq, RqSize, ReadKinds) /\ QueuesOK(wq, WqSize, WriteKinds)
      /\ QueuesOK(pq, PqSize, PrefKinds) /\ Within(mshr)
  BY DEF CacheInv, Typed
<1>2. \A c \in Caches : Occupied(c) = Occ(mshr, c)  BY DEF Occupied, Occ
<1>3. Work = Parts(rq, pq, wq, mshr, llc)  BY <1>2, CachesFacts DEF Work, Parts
<1> QED  BY <1>1, <1>3, TotalIs DEF Before

LEMMA WorkNext ==
  ASSUME CacheInv', IsFiniteSet(llc')
  PROVE  Work' = Total(rq', pq', wq', mshr', llc') /\ Work' \in Nat
<1>1. /\ QueuesOK(rq', RqSize, ReadKinds) /\ QueuesOK(wq', WqSize, WriteKinds)
      /\ QueuesOK(pq', PqSize, PrefKinds) /\ Within(mshr')
  BY DEF CacheInv, Typed
<1>2. /\ Occupied("L1I")' = Occ(mshr', "L1I") /\ Occupied("L1D")' = Occ(mshr', "L1D")
      /\ Occupied("L2C")' = Occ(mshr', "L2C")
  BY DEF Occupied, Occ
<1>3. Work' = Parts(rq', pq', wq', mshr', llc')  BY <1>2 DEF Work, Parts
<1> QED  BY <1>1, <1>3, TotalIs

Fin == IsFiniteSet(llc) /\ issued \in Nat

LEMMA FinInit ==
  ASSUME Init
  PROVE  Fin
BY FS_EmptySet DEF Init, Fin

LEMMA StepSinks ==
  ASSUME CacheInv, Fin, Next
  PROVE  \/ llc' = llc /\ issued' = issued + 1
         \/ issued' = issued /\ Sinks(rq', pq', wq', mshr', llc')
<1>1. CASE Core \/ \E p \in Prefetches : PrefetchLine(p[1], p[2], p[3])
  BY <1>1 DEF Core, Demand, Store, PrefetchLine, Issue
<1>2. ASSUME NEW c \in Caches, HandleFill(c) \/ HandleRead(c) \/ HandlePrefetch(c)
      PROVE  issued' = issued /\ Sinks(rq', pq', wq', mshr', llc')
  <2>1. issued' = issued  BY <1>2 DEF HandleFill, HandleRead, HandlePrefetch
  <2> QED  BY <1>2, <2>1, HandleFillSinks, HandleReadSinks, HandlePrefetchSinks DEF Fin
<1>3. CASE HandleStore  BY <1>3, HandleStoreSinks DEF Fin, HandleStore
<1>4. CASE HandleWriteback  BY <1>4, HandleWritebackSinks DEF Fin, HandleWriteback
<1>5. ASSUME NEW a \in Lines, LlcReturn(a)
      PROVE  issued' = issued /\ Sinks(rq', pq', wq', mshr', llc')
  BY <1>5, LlcReturnSinks DEF Fin, LlcReturn
<1> QED  BY <1>1, <1>2, <1>3, <1>4, <1>5 DEF Next

LEMMA FinStep ==
  ASSUME CacheInv, Fin, [Next]_vars
  PROVE  Fin'
<1>1. CASE Next  BY <1>1, StepSinks DEF Fin, Sinks
<1>2. CASE UNCHANGED vars  BY <1>2 DEF vars, Fin
<1> QED  BY <1>1, <1>2

\* The handlers of the three caches never keep each other busy for nothing: a merge, a
\* retry, an eviction or an answer that made work of its own would let the system run
\* without ever completing a load.
THEOREM WorkShrinksCorrect == Spec => WorkShrinks
<1> DEFINE Shrinks == issued' = issued => Work' \in Nat /\ Work' < Work
<1>1. ASSUME CacheInv, CacheInv', Fin, Fin', [Next]_vars
      PROVE  [Shrinks]_vars
  <2>1. CASE UNCHANGED vars  BY <2>1
  <2>2. CASE Next
    <3> SUFFICES ASSUME issued' = issued PROVE Work' \in Nat /\ Work' < Work
      OBVIOUS
    <3>1. issued' # issued + 1  BY <1>1 DEF Fin
    <3>2. Sinks(rq', pq', wq', mshr', llc')  BY <1>1, <2>2, <3>1, StepSinks
    <3>3. Work = Before  BY <1>1, WorkNow DEF Fin
    <3>4. Work' = Total(rq', pq', wq', mshr', llc') /\ Work' \in Nat  BY <1>1, WorkNext DEF Fin
    <3> QED  BY <3>2, <3>3, <3>4 DEF Sinks
  <2> QED  BY <1>1, <2>1, <2>2
<1>2. Spec => []CacheInv  BY Inductive
<1>3. Init => Fin  BY FinInit
<1>4. CacheInv /\ Fin /\ [Next]_vars => Fin'  BY FinStep
<1>5. Spec => []Fin  BY <1>2, <1>3, <1>4, PTL DEF Spec
<1> HIDE DEF Shrinks
<1>6. Spec => [][Shrinks]_vars  BY <1>1, <1>2, <1>5, PTL DEF Spec
<1> QED  BY <1>6 DEF Shrinks, WorkShrinks

-----------------------------------------------------------------------------
(* The caches never all wait for each other                                 *)
(*                                                                          *)
(* The proof follows a request down: with nothing owed by the LLC, every    *)
(* entry of the L2C has returned and could be filled, so there is none;     *)
(* then the L2C takes whatever is queued, so nothing is; then no request    *)
(* below names an L1, so every entry of an L1 has returned; and so on up to *)
(* the loads of the core.                                                   *)

\* A line the core waits for is queued in its L1 or has an entry there.
Expects(q, m, d) ==
  \A u \in L1, a \in Lines : a \in d[u] => Queued(q[u], a) \/ m[u][a] # NoEntry
Wanted == Expects(rq, mshr, pending)

\* No entry of an L1 goes away.
Grows(m, n) == \A u \in L1, a \in Lines : m[u][a] # NoEntry => n[u][a] # NoEntry

LEMMA WantedKept ==
  ASSUME Wanted, \A u \in L1 : rq'[u] = rq[u], Grows(mshr, mshr'), pending' = pending
  PROVE  Wanted'
BY DEF Wanted, Expects, Grows

LEMMA AnsweredGrows ==
  ASSUME NEW m, NEW n, NEW U, NEW a, MshrOK(m), AnsweredAs(m, n, U, a)
  PROVE  Grows(m, n)
BY AnsweredFacts, CachesFacts DEF Grows

LEMMA PutGrows ==
  ASSUME NEW m, NEW n, NEW c \in Caches, NEW a \in Lines, NEW e, PutAs(m, n, c, a, e),
         e # NoEntry \/ c = "L2C"
  PROVE  Grows(m, n) /\ n[c][a] = e
BY CachesFacts DEF Grows, PutAs

LEMMA GrowsOn ==
  ASSUME NEW m, NEW n, NEW k, Grows(m, n), Grows(n, k)
  PROVE  Grows(m, k)
BY DEF Grows

LEMMA ReadMissGrows ==
  ASSUME CacheInv, NEW c \in Caches, NEW p, p \in Reads(c), NEW q,
         QueuesOK(q, RqSize, ReadKinds), LowerRead(c, p, q, AddMshr(mshr, c, p))
  PROVE  /\ Grows(mshr, mshr') /\ (c \in L1 => mshr'[c][p.line] # NoEntry)
         /\ \A u \in L1 : rq'[u] = q[u]
<1> DEFINE m == AddMshr(mshr, c, p)
<1>1. MshrOK(mshr) /\ p \in PacketType /\ p.line \in Lines
  BY DEF CacheInv, Typed, Reads, PacketType
<1>2. PutAs(mshr, m, c, p.line, EntryOf(p, FALSE))  BY <1>1, AddMshrIs
<1>3. EntryOf(p, FALSE) # NoEntry
  <2>1. EntryOf(p, FALSE) \in EntryType  BY <1>1, EntryOfFacts
  <2> QED  BY <2>1, NoEntryFacts
<1>4. LowerRead(c, p, q, m)  OBVIOUS
<1> HIDE DEF m
<1>5. MshrOK(m) /\ Grows(mshr, m) /\ m[c][p.line] # NoEntry
  <2>1. MshrOK(m)  BY <1>2 DEF PutAs
  <2> DEFINE e == EntryOf(p, FALSE)
  <2>2. PutAs(mshr, m, c, p.line, e) /\ e # NoEntry  BY <1>2, <1>3
  <2> HIDE DEF e
  <2>3. Grows(mshr, m) /\ m[c][p.line] = e  BY <1>1, <2>2, PutGrows
  <2> QED  BY <2>1, <2>2, <2>3
<1>6. \/ LoweredOut(c, p, q, m) \/ LoweredAnswered(c, p, q, m)
      \/ LoweredQueued(c, p, q, m) \/ LoweredFull(c, p, q, m)
  BY <1>4, <1>5, LowerReadIs
<1>7. Grows(m, mshr')
  <2>1. ASSUME LoweredAnswered(c, p, q, m) PROVE Grows(m, mshr')
    BY <1>5, <2>1, AnsweredGrows DEF LoweredAnswered
  <2>2. ASSUME mshr' = m PROVE Grows(m, mshr')  BY <2>2 DEF Grows
  <2> QED  BY <1>6, <2>1, <2>2 DEF LoweredOut, LoweredQueued, LoweredFull
<1>8. \A u \in L1 : rq'[u] = q[u]
  <2>1. ASSUME LoweredQueued(c, p, q, m) PROVE \A u \in L1 : rq'[u] = q[u]
    BY <2>1, CachesFacts DEF LoweredQueued, Replaced
  <2> QED  BY <1>6, <2>1 DEF LoweredOut, LoweredAnswered, LoweredFull
<1> QED  BY <1>1, <1>5, <1>7, <1>8, GrowsOn DEF Grows

LEMMA PrefetchMissGrows ==
  ASSUME CacheInv, NEW c \in Caches, NEW p, p \in Prefs(c), NEW q,
         QueuesOK(q, PqSize, PrefKinds), LowerPrefetch(c, p, q, PrefetchMshr(mshr, c, p))
  PROVE  Grows(mshr, mshr')
<1> DEFINE m == PrefetchMshr(mshr, c, p)
<1>1. MshrOK(mshr) /\ p \in PacketType /\ p.line \in Lines
  BY DEF CacheInv, Typed, Prefs, PacketType
<1>2. MshrOK(m) /\ Grows(mshr, m)
  <2>1. CASE p.level <= FillLevel(c)
    <3>1. PutAs(mshr, AddMshr(mshr, c, p), c, p.line, EntryOf(p, FALSE))  BY <1>1, AddMshrIs
    <3>2. EntryOf(p, FALSE) \in EntryType  BY <1>1, EntryOfFacts
    <3>3. EntryOf(p, FALSE) # NoEntry  BY <3>2, NoEntryFacts
    <3>4. m = AddMshr(mshr, c, p)  BY <2>1 DEF PrefetchMshr
    <3>5. PutAs(mshr, m, c, p.line, EntryOf(p, FALSE))  BY <3>1, <3>4
    <3> DEFINE e == EntryOf(p, FALSE)
    <3>6. MshrOK(m) /\ PutAs(mshr, m, c, p.line, e) /\ e # NoEntry
      BY <3>3, <3>5 DEF PutAs
    <3> HIDE DEF e, m
    <3> QED  BY <1>1, <3>6, PutGrows
  <2>2. CASE ~(p.level <= FillLevel(c))  BY <1>1, <2>2 DEF PrefetchMshr, Grows
  <2> QED  BY <2>1, <2>2
<1>3. LowerPrefetch(c, p, q, m)  OBVIOUS
<1> HIDE DEF m
<1>4. Grows(m, mshr')
  <2>1. ASSUME mshr' = m PROVE Grows(m, mshr')  BY <2>1 DEF Grows
  <2>2. CASE c = "L2C"  BY <1>3, <2>1, <2>2 DEF LowerPrefetch
  <2>3. CASE c # "L2C"
    <3>1. AddPq("L2C", p, q, m)  BY <1>3, <2>3 DEF LowerPrefetch
    <3>2. "L2C" \in Caches /\ p \in Prefs("L2C")  BY <1>1, CachesFacts DEF Prefs
    <3>3. \/ AskedAnswered("L2C", p, q, m) \/ AskedQueued("L2C", p, q, m)
          \/ AskedFull("L2C", p, q, m)
      BY <1>2, <3>1, <3>2, AddPqIs
    <3>4. ASSUME AskedAnswered("L2C", p, q, m) PROVE Grows(m, mshr')
      BY <1>2, <3>4, AnsweredGrows DEF AskedAnswered
    <3> QED  BY <2>1, <3>3, <3>4 DEF AskedQueued, AskedFull
  <2> QED  BY <2>2, <2>3
<1> QED  BY <1>2, <1>4, GrowsOn

LEMMA MergeGrows ==
  ASSUME CacheInv, NEW c \in Caches, NEW p, p \in PacketType, p.line \in Occupied(c), NEW f,
         mshr' = [mshr EXCEPT ![c][p.line] = f], MergedEntry(mshr[c][p.line], p, f)
  PROVE  Grows(mshr, mshr')
<1>1. PutAs(mshr, mshr', c, p.line, f)  BY MergeStep
<1>2. p.line \in Lines /\ f \in EntryType  BY DEF MergedEntry, Occupied
<1>3. f # NoEntry  BY <1>2, NoEntryFacts
<1> QED  BY <1>1, <1>2, <1>3, PutGrows

LEMMA HandleReadWanted ==
  ASSUME CacheInv, Wanted, NEW c \in Caches, HandleRead(c)
  PROVE  Wanted'
<1> DEFINE p == Head(rq[c])
           rest == [rq EXCEPT ![c] = Tail(@)]
<1>1. QueuesOK(rq, RqSize, ReadKinds) /\ MshrOK(mshr) /\ pending \in [L1 -> SUBSET Lines]
  BY DEF CacheInv, Typed
<1>2. rq[c] # <<>>  BY DEF HandleRead
<1>3. Replaced(rq, rest, c, Tail(rq[c]), RqSize, ReadKinds) /\ p \in ReadKinds[c]
  BY <1>1, <1>2, SizesType, QueuePopped
<1>4. p \in Reads(c) /\ p \in PacketType /\ QueuesOK(rest, RqSize, ReadKinds)
  BY <1>3 DEF Replaced, ReadKinds, Reads
<1>5. /\ p.line \in Lines /\ p.level \in Levels /\ p.fill \subseteq L1 /\ FillsUp(p)
  BY <1>4 DEF PacketType
<1>6. \A a : Queued(rq[c], a) => a = p.line \/ Queued(rest[c], a)
  <2>1. rq[c] \in Seq(ReadKinds[c])  BY <1>1 DEF QueuesOK
  <2>2. rest[c] = Tail(rq[c])  BY <1>3 DEF Replaced
  <2>3. ASSUME NEW a PROVE Queued(rq[c], a) <=> Head(rq[c]).line = a \/ Queued(Tail(rq[c]), a)
    <3> DEFINE s == rq[c]
               S == ReadKinds[c]
    <3>1. s \in Seq(S) /\ s # <<>>  BY <1>2, <2>1
    <3> HIDE DEF s, S
    <3>2. Queued(s, a) <=> Head(s).line = a \/ Queued(Tail(s), a)  BY <3>1, QueuedTail
    <3> QED  BY <3>2 DEF s
  <2> QED  BY <2>2, <2>3
<1>7. \A u \in L1 : u # c => rest[u] = rq[u]  BY <1>3, CachesFacts DEF Replaced
<1>8. \/ rq' = rest /\ mshr' = Answer(mshr, c, p) /\ pending' = Completes(c, p.line)
      \/ LowerRead(c, p, rest, AddMshr(mshr, c, p)) /\ pending' = pending
      \/ p.line \in Occupied(c) /\ rq' = rest /\ pending' = pending
         /\ mshr' = [mshr EXCEPT ![c][p.line] = MergeMshr(@, p)]
  BY DEF HandleRead
<1> HIDE DEF p, rest
<1>9. ASSUME Grows(mshr, mshr'), \A u \in L1 : rq'[u] = rest[u],
             pending' \in [L1 -> SUBSET Lines], \A u \in L1 : pending'[u] \subseteq pending[u],
             c \in L1 => mshr'[c][p.line] # NoEntry \/ p.line \notin pending'[c]
      PROVE  Wanted'
  BY <1>6, <1>7, <1>9 DEF Wanted, Expects, Grows
<1>10. CASE rq' = rest /\ mshr' = Answer(mshr, c, p) /\ pending' = Completes(c, p.line)
  <2>1. AnsweredAs(mshr, mshr', Uppers(c, p), p.line)  BY <1>1, <1>5, <1>10, AnswerIs
  <2>2. Grows(mshr, mshr')  BY <1>1, <2>1, AnsweredGrows
  <2>3. pending' \in [L1 -> SUBSET Lines]  BY <1>1, <1>10, CompletesType
  <2>4. \A u \in L1 : pending'[u] \subseteq pending[u]  BY <1>1, <1>10 DEF Completes
  <2>5. c \in L1 => p.line \notin pending'[c]  BY <1>1, <1>10 DEF Completes
  <2> QED  BY <1>9, <1>10, <2>2, <2>3, <2>4, <2>5
<1>11. CASE LowerRead(c, p, rest, AddMshr(mshr, c, p)) /\ pending' = pending
  <2>1. /\ Grows(mshr, mshr') /\ (c \in L1 => mshr'[c][p.line] # NoEntry)
        /\ \A u \in L1 : rq'[u] = rest[u]
    BY <1>4, <1>11, ReadMissGrows
  <2> QED  BY <1>1, <1>9, <1>11, <2>1
<1>12. CASE p.line \in Occupied(c) /\ rq' = rest /\ pending' = pending
            /\ mshr' = [mshr EXCEPT ![c][p.line] = MergeMshr(@, p)]
  <2> DEFINE e == mshr[c][p.line]
             f == MergeMshr(e, p)
  <2>1. e \in EntryType /\ e.line = p.line /\ e # NoEntry
    BY <1>1, <1>12 DEF MshrOK, Occupied
  <2>2. MergedEntry(e, p, f)  BY <1>4, <2>1, MergeMshrIs
  <2>3. mshr' = [mshr EXCEPT ![c][p.line] = f]  BY <1>12
  <2> HIDE DEF f
  <2>4. Grows(mshr, mshr')  BY <1>4, <1>12, <2>2, <2>3, MergeGrows
  <2>5. c \in L1 => mshr'[c][p.line] # NoEntry  BY <1>5, <2>1, <2>4 DEF Grows
  <2> QED  BY <1>1, <1>9, <1>12, <2>4, <2>5
<1> QED  BY <1>8, <1>10, <1>11, <1>12

LEMMA HandlePrefetchGrows ==
  ASSUME CacheInv, NEW c \in Caches, HandlePrefetch(c)
  PROVE  Grows(mshr, mshr')
<1> DEFINE p == Head(pq[c])
           rest == [pq EXCEPT ![c] = Tail(@)]
<1>1. QueuesOK(pq, PqSize, PrefKinds) /\ MshrOK(mshr)  BY DEF CacheInv, Typed
<1>2. pq[c] # <<>>  BY DEF HandlePrefetch
<1>3. Replaced(pq, rest, c, Tail(pq[c]), PqSize, PrefKinds) /\ p \in PrefKinds[c]
  BY <1>1, <1>2, SizesType, QueuePopped
<1>4. p \in Prefs(c) /\ p \in PacketType /\ QueuesOK(rest, PqSize, PrefKinds)
  BY <1>3 DEF Replaced, PrefKinds, Prefs
<1>5. /\ p.line \in Lines /\ p.level \in Levels /\ p.fill \subseteq L1 /\ FillsUp(p)
  BY <1>4 DEF PacketType
<1>6. \/ mshr' = Answer(mshr, c, p)
      \/ LowerPrefetch(c, p, rest, PrefetchMshr(mshr, c, p))
      \/ p.line \in Occupied(c) /\ mshr' = [mshr EXCEPT ![c][p.line] = RaiseMshr(@, p)]
  BY DEF HandlePrefetch
<1> HIDE DEF p, rest
<1>7. CASE mshr' = Answer(mshr, c, p)
  <2>1. AnsweredAs(mshr, mshr', Uppers(c, p), p.line)  BY <1>1, <1>5, <1>7, AnswerIs
  <2> QED  BY <1>1, <2>1, AnsweredGrows
<1>8. CASE LowerPrefetch(c, p, rest, PrefetchMshr(mshr, c, p))
  BY <1>4, <1>8, PrefetchMissGrows
<1>9. CASE p.line \in Occupied(c) /\ mshr' = [mshr EXCEPT ![c][p.line] = RaiseMshr(@, p)]
  <2> DEFINE e == mshr[c][p.line]
             f == RaiseMshr(e, p)
  <2>1. e \in EntryType /\ e.line = p.line  BY <1>1, <1>9 DEF MshrOK, Occupied
  <2>2. MergedEntry(e, p, f)  BY <1>4, <2>1, RaiseEntry DEF Raised
  <2>3. mshr' = [mshr EXCEPT ![c][p.line] = f]  BY <1>9
  <2> HIDE DEF f
  <2> QED  BY <1>4, <1>9, <2>2, <2>3, MergeGrows
<1> QED  BY <1>6, <1>7, <1>8, <1>9

LEMMA HandleStoreWanted ==
  ASSUME CacheInv, Wanted, HandleStore
  PROVE  Wanted'
<1> DEFINE c == "L1D"
           p == Head(wq[c])
<1>1. QueuesOK(rq, RqSize, ReadKinds) /\ QueuesOK(wq, WqSize, WriteKinds) /\ MshrOK(mshr)
  BY DEF CacheInv, Typed
<1>2. c \in Caches /\ c \in L1 /\ WqSize[c] \in Nat  BY CachesFacts, SizesType
<1>3. wq[c] # <<>> /\ pending' = pending  BY DEF HandleStore
<1>4. p \in WriteKinds[c]  BY <1>1, <1>2, <1>3, QueuePopped
<1>5. p \in Reads(c) /\ p \in PacketType  BY <1>2, <1>4 DEF WriteKinds, Writes, Reads
<1>6. \/ rq' = rq /\ mshr' = mshr
      \/ LowerRead(c, p, rq, AddMshr(mshr, c, p))
      \/ p.line \in Occupied(c) /\ rq' = rq
         /\ mshr' = [mshr EXCEPT ![c][p.line] = MergeMshr(@, p)]
  BY DEF HandleStore
<1> HIDE DEF c, p
<1>7. CASE rq' = rq /\ mshr' = mshr  BY <1>3, <1>7, WantedKept DEF Grows
<1>8. CASE LowerRead(c, p, rq, AddMshr(mshr, c, p))
  <2>1. Grows(mshr, mshr') /\ \A u \in L1 : rq'[u] = rq[u]
    BY <1>1, <1>2, <1>5, <1>8, ReadMissGrows
  <2> QED  BY <1>3, <2>1, WantedKept
<1>9. CASE p.line \in Occupied(c) /\ rq' = rq
           /\ mshr' = [mshr EXCEPT ![c][p.line] = MergeMshr(@, p)]
  <2> DEFINE e == mshr[c][p.line]
             f == MergeMshr(e, p)
  <2>1. e \in EntryType /\ e.line = p.line  BY <1>1, <1>2, <1>9 DEF MshrOK, Occupied
  <2>2. MergedEntry(e, p, f)  BY <1>5, <2>1, MergeMshrIs
  <2>3. mshr' = [mshr EXCEPT ![c][p.line] = f]  BY <1>9
  <2> HIDE DEF f
  <2>4. Grows(mshr, mshr')  BY <1>2, <1>5, <1>9, <2>2, <2>3, MergeGrows
  <2> QED  BY <1>3, <1>9, <2>4, WantedKept
<1> QED  BY <1>6, <1>7, <1>8, <1>9

\* A fill of an L1 frees the entry and completes its loads; a load of the line that
\* stays is still queued.
LEMMA HandleFillWanted ==
  ASSUME CacheInv, Wanted, NEW c \in Caches, HandleFill(c)
  PROVE  Wanted'
<1>1. MshrOK(mshr) /\ pending \in [L1 -> SUBSET Lines]  BY DEF CacheInv, Typed
<1>2. PICK a \in Occupied(c) :
        /\ mshr' = [Answer(mshr, c, mshr[c][a]) EXCEPT ![c][a] = NoEntry]
        /\ pending' = Filled(c, a)
        /\ UNCHANGED <<rq, pq, llc, issued>>
  BY DEF HandleFill
<1> DEFINE e == mshr[c][a]
           n == Answer(mshr, c, e)
<1>3. a \in Lines /\ e # NoEntry  BY DEF Occupied
<1>4. /\ e \in EntryType /\ e.line = a /\ e.line \in Lines /\ e.level \in Levels
      /\ e.fill \subseteq L1 /\ FillsUp(e)
  BY <1>1, <1>3 DEF MshrOK, EntryType
<1>5. AnsweredAs(mshr, n, Uppers(c, e), a)
  <2>1. AnsweredAs(mshr, Answer(mshr, c, e), Uppers(c, e), e.line)  BY <1>1, <1>4, AnswerIs
  <2> QED  BY <1>4, <2>1
<1>6. mshr' = [n EXCEPT ![c][a] = NoEntry]  BY <1>2
<1> HIDE DEF n
<1>7. MshrOK(n) /\ Grows(mshr, n)
  <2> DEFINE U == Uppers(c, e)
  <2>1. AnsweredAs(mshr, n, U, a)  BY <1>5
  <2>2. MshrOK(n)  BY <1>5 DEF AnsweredAs
  <2> HIDE DEF U
  <2> QED  BY <1>1, <2>1, <2>2, AnsweredGrows
<1>8. PutAs(n, mshr', c, a, NoEntry)  BY <1>3, <1>6, <1>7, EntryPut
<1>9. \A u \in L1, x \in Lines : u # c \/ x # a => (mshr[u][x] # NoEntry => mshr'[u][x] # NoEntry)
  BY <1>7, <1>8, CachesFacts DEF Grows, PutAs
<1>10. \A u \in L1 : \A x \in pending'[u] :
          x \in pending[u] /\ (u = c /\ x = a => Queued(rq[u], x))
  <2>1. CASE c = "L1D" /\ Queued(rq[c], a)  BY <1>2, <2>1 DEF Filled
  <2>2. CASE ~(c = "L1D" /\ Queued(rq[c], a))
    <3>1. pending' = Completes(c, a)  BY <1>2, <2>2 DEF Filled
    <3> QED  BY <1>1, <3>1 DEF Completes
  <2> QED  BY <2>1, <2>2
<1>11. rq' = rq  BY <1>2
<1> QED  BY <1>9, <1>10, <1>11 DEF Wanted, Expects

LEMMA DemandWanted ==
  ASSUME CacheInv, Wanted, NEW c \in L1, NEW a \in Lines, Demand(c, a)
  PROVE  Wanted'
<1>1. /\ QueuesOK(rq, RqSize, ReadKinds) /\ pending \in [L1 -> SUBSET Lines]
      /\ mshr' = mshr /\ c \in Caches /\ RqSize[c] \in Nat
  BY CachesFacts, SizesType DEF CacheInv, Typed, Demand
<1>2. CASE UNCHANGED <<rq, pending>>  BY <1>1, <1>2 DEF Wanted, Expects
<1>3. CASE ~UNCHANGED <<rq, pending>>
  <2> DEFINE p == Packet(a, "LOAD", 1, {c})
             s == rq[c]
  <2>1. /\ rq' = [rq EXCEPT ![c] = Append(@, p)]
        /\ pending' = [pending EXCEPT ![c] = @ \cup {a}]
    BY <1>3 DEF Demand
  <2>2. p \in PacketType /\ p.level = 1 /\ p.fill = {c} /\ p.line = a
    BY <1>1 DEF Packet, PacketType, Types, Levels, FillsUp
  <2>3. s \in Seq(ReadKinds[c]) /\ DOMAIN rq = Caches  BY <1>1 DEF QueuesOK
  <2> HIDE DEF p
  <2>4. p \in ReadKinds[c]  BY <1>1, <2>2 DEF ReadKinds, Reads
  <2>5. rq'[c] = Append(s, p) /\ \A u \in L1 : u # c => rq'[u] = rq[u]
    BY <1>1, <2>1, <2>3
  <2> HIDE DEF s
  <2>6. /\ Len(s) \in Nat /\ DOMAIN s = 1 .. Len(s) /\ DOMAIN Append(s, p) = 1 .. Len(s) + 1
        /\ \A i \in 1 .. Len(s) : Append(s, p)[i] = s[i]
        /\ Append(s, p)[Len(s) + 1] = p
    BY <2>3, <2>4, Pushed
  <2>7. Queued(rq'[c], a) /\ \A x \in Lines : Queued(s, x) => Queued(rq'[c], x)
    BY <2>2, <2>5, <2>6 DEF Queued
  <2>8. \A u \in L1 : pending'[u] = IF u = c THEN pending[u] \cup {a} ELSE pending[u]
    BY <1>1, <2>1
  <2> QED  BY <1>1, <2>5, <2>7, <2>8 DEF Wanted, Expects, s
<1> QED  BY <1>2, <1>3

LEMMA StepWanted ==
  ASSUME CacheInv, Wanted, [Next]_vars
  PROVE  Wanted'
<1>1. MshrOK(mshr)  BY DEF CacheInv, Typed
<1>2. CASE Core
  <2>1. ASSUME NEW a \in DataLines, Store(a) PROVE Wanted'
    BY <2>1, WantedKept DEF Store, Grows
  <2> QED  BY <1>2, <2>1, DemandWanted, CachesFacts DEF Core, Lines
<1>3. ASSUME NEW x \in Prefetches, PrefetchLine(x[1], x[2], x[3])
      PROVE  Wanted'
  <2> DEFINE c == x[1]
             a == x[2]
             level == x[3]
             p == Packet(a, "PREFETCH", level, IF level = 1 THEN {c} ELSE {})
  <2>1. c \in Caches /\ a \in Lines /\ level \in Levels /\ (c = "L2C" => level # 1)
    BY HierarchyAssumption DEF Levels
  <2>2. AddPq(c, p, pq, mshr) /\ UNCHANGED <<rq, wq, block, llc, pending>>
    BY <1>3 DEF PrefetchLine
  <2>3. /\ p \in PacketType /\ p.level = level
        /\ p.fill = IF level = 1 THEN {c} ELSE {}
    BY <2>1, CachesFacts DEF Packet, PacketType, Types, FillsUp
  <2>4. QueuesOK(pq, PqSize, PrefKinds)  BY DEF CacheInv, Typed
  <2> HIDE DEF p, c, a, level
  <2>5. p \in Prefs(c)  BY <2>1, <2>3 DEF Prefs
  <2>6. AskedAnswered(c, p, pq, mshr) \/ AskedQueued(c, p, pq, mshr) \/ AskedFull(c, p, pq, mshr)
    BY <1>1, <2>1, <2>2, <2>4, <2>5, AddPqIs
  <2>7. Grows(mshr, mshr')
    <3>1. ASSUME AskedAnswered(c, p, pq, mshr) PROVE Grows(mshr, mshr')
      BY <1>1, <3>1, AnsweredGrows DEF AskedAnswered
    <3>2. ASSUME mshr' = mshr PROVE Grows(mshr, mshr')  BY <3>2 DEF Grows
    <3> QED  BY <2>6, <3>1, <3>2 DEF AskedQueued, AskedFull
  <2> QED  BY <2>2, <2>7, WantedKept
<1>4. ASSUME NEW a \in Lines, LlcReturn(a)
      PROVE  Wanted'
  <2>1. mshr' = ReturnData(mshr, "L2C", a) /\ rq' = rq /\ pending' = pending
    BY <1>4 DEF LlcReturn
  <2>2. AnsweredAs(mshr, mshr', {"L2C"}, a)  BY <1>1, <2>1, CachesFacts, ReturnDataIs
  <2> QED  BY <1>1, <2>1, <2>2, AnsweredGrows, WantedKept
<1>5. ASSUME NEW c \in Caches, HandleFill(c) \/ HandleRead(c) \/ HandlePrefetch(c)
      PROVE  Wanted'
  <2>1. ASSUME HandlePrefetch(c) PROVE Wanted'
    <3>1. rq' = rq /\ pending' = pending  BY <2>1 DEF HandlePrefetch
    <3> QED  BY <2>1, <3>1, HandlePrefetchGrows, WantedKept
  <2> QED  BY <1>5, <2>1, HandleFillWanted, HandleReadWanted
<1>6. CASE HandleStore  BY <1>6, HandleStoreWanted
<1>7. CASE HandleWriteback
  BY <1>7, WantedKept DEF HandleWriteback, Grows
<1>8. CASE UNCHANGED vars
  BY <1>8 DEF vars, Wanted
<1> QED  BY <1>2, <1>3, <1>4, <1>5, <1>6, <1>7, <1>8 DEF Next

LEMMA VictimsThere ==
  ASSUME BlocksOK(block), NEW c \in Caches
  PROVE  Victims(c) # {}
<1>1. DOMAIN block[c] = 1 .. Ways[c] /\ Ways[c] \in Nat \ {0}
  BY VictimsAreWays, SizesType
<1>2. 1 \in DOMAIN block[c]  BY <1>1
<1> QED  BY <1>2 DEF Victims

\* A cache that could leave no write-back behind fills every entry that has returned.
LEMMA NoneReturned ==
  ASSUME BlocksOK(block), NEW c \in Caches, ~FillReady(c),
         c = "L2C" \/ Len(wq["L2C"]) < WqSize["L2C"],
         \A a \in Lines : ~Waits(mshr, c, a)
  PROVE  Occupied(c) = {}
<1> SUFFICES ASSUME NEW a \in Occupied(c) PROVE FALSE
  OBVIOUS
<1>1. a \in Lines /\ mshr[c][a] # NoEntry  BY DEF Occupied
<1>2. mshr[c][a].returned  BY <1>1 DEF Waits
<1>3. PICK w \in Victims(c) : TRUE  BY VictimsThere
<1> QED  BY <1>2, <1>3 DEF FillReady

\* A cache without entries takes the head of its queues.
LEMMA NoneQueued ==
  ASSUME NEW c \in Caches, Occupied(c) = {}, ~ReadReady(c), ~PrefetchReady(c), LowerHasRoom(c)
  PROVE  rq[c] = <<>> /\ pq[c] = <<>> /\ MshrRoom(c)
<1>1. Cardinality(Occupied(c)) = 0  BY FS_EmptySet
<1>2. MshrRoom(c)  BY <1>1, SizesType DEF MshrRoom
<1> QED  BY <1>2 DEF ReadReady, PrefetchReady

LEMMA NoWork ==
  ASSUME \A c \in Caches : rq[c] = <<>> /\ pq[c] = <<>> /\ Occupied(c) = {},
         wq["L1D"] = <<>>, wq["L2C"] = <<>>, llc = {}
  PROVE  Work = 0
<1>1. Len(<<>>) = 0 /\ Cardinality({}) = 0  BY EmptySeq, FS_EmptySet
<1>2. /\ Len(rq["L1I"]) = 0 /\ Len(rq["L1D"]) = 0 /\ Len(rq["L2C"]) = 0
      /\ Len(pq["L1I"]) = 0 /\ Len(pq["L1D"]) = 0 /\ Len(pq["L2C"]) = 0
      /\ Len(wq["L1D"]) = 0 /\ Len(wq["L2C"]) = 0
      /\ Cardinality(Occupied("L1I")) = 0 /\ Cardinality(Occupied("L1D")) = 0
      /\ Cardinality(Occupied("L2C")) = 0 /\ Cardinality(llc) = 0
  BY <1>1, CachesFacts
<1> QED  BY <1>2 DEF Work

LEMMA NothingLeft ==
  ASSUME CacheInv, Served, Wanted, ~SomeHandlerReady
  PROVE  Work = 0 /\ \A u \in L1 : pending[u] = {}
<1>1. BlocksOK(block) /\ MshrOK(mshr) /\ pending \in [L1 -> SUBSET Lines]
  BY DEF CacheInv, Typed
<1>2. /\ \A c \in Caches : ~FillReady(c) /\ ~ReadReady(c) /\ ~PrefetchReady(c)
      /\ ~StoreReady /\ wq["L2C"] = <<>> /\ llc = {}
  BY DEF SomeHandlerReady
<1>3. Occupied("L2C") = {}
  <2>1. \A a \in Lines : ~Waits(mshr, "L2C", a)  BY <1>2 DEF Served, ServedBy
  <2> QED  BY <1>1, <1>2, <2>1, CachesFacts, NoneReturned
<1>4. rq["L2C"] = <<>> /\ pq["L2C"] = <<>>
  BY <1>2, <1>3, CachesFacts, NoneQueued DEF LowerHasRoom
<1>5. ASSUME NEW u \in L1, NEW a \in Lines
      PROVE  ~Waits(mshr, u, a)
  <2>1. DOMAIN rq["L2C"] = {} /\ DOMAIN pq["L2C"] = {}  BY <1>4
  <2>2. mshr["L2C"][a] = NoEntry  BY <1>3 DEF Occupied
  <2>3. ~InMshr(mshr, u, a)  BY <2>2, NoEntryFacts DEF InMshr
  <2>4. ~Names(rq["L2C"], u, a) /\ ~Names(pq["L2C"], u, a)  BY <2>1 DEF Names
  <2> QED  BY <2>3, <2>4 DEF Served, ServedBy, OneRequest
<1>6. ASSUME NEW u \in L1
      PROVE  Occupied(u) = {} /\ rq[u] = <<>> /\ pq[u] = <<>> /\ MshrRoom(u)
  <2>1. u \in Caches  BY CachesFacts
  <2>2. Len(wq["L2C"]) < WqSize["L2C"] /\ Len(pq["L2C"]) < PqSize["L2C"]
    <3>1. Len(<<>>) = 0  BY EmptySeq
    <3> QED  BY <1>2, <1>4, <3>1, SizesType, CachesFacts
  <2>3. Occupied(u) = {}  BY <1>1, <1>2, <1>5, <2>1, <2>2, NoneReturned
  <2> QED  BY <1>2, <2>1, <2>2, <2>3, NoneQueued DEF LowerHasRoom
<1>7. wq["L1D"] = <<>>  BY <1>2, <1>6, CachesFacts DEF StoreReady
<1>8. Work = 0
  <2>1. \A c \in Caches : rq[c] = <<>> /\ pq[c] = <<>> /\ Occupied(c) = {}
    BY <1>3, <1>4, <1>6, CachesFacts
  <2> QED  BY <1>2, <1>7, <2>1, NoWork
<1>9. ASSUME NEW u \in L1, NEW a \in pending[u]
      PROVE  FALSE
  <2>1. a \in Lines  BY <1>1
  <2>2. DOMAIN rq[u] = {} /\ mshr[u][a] = NoEntry  BY <1>6, <2>1 DEF Occupied
  <2> QED  BY <2>1, <2>2 DEF Wanted, Expects, Queued
<1> QED  BY <1>8, <1>9

\* While anything is under way some handler can go on: no set of full queues, full MSHRs
\* and entries that have not returned waits for itself.  With the measure above this is
\* all the safety there is in "the DEADLOCK_CYCLE check never fires".
THEOREM NeverStuckCorrect ==
  ASSUME Separate
  PROVE  Spec => []NeverStuck
<1>1. Init => Served  BY InitServed
<1>2. CacheInv /\ Served /\ [Next]_vars => Served'  BY StepServed
<1>3. Spec => []CacheInv  BY Inductive
<1>4. Spec => []Served  BY <1>1, <1>2, <1>3, PTL DEF Spec
<1>5. Init => Wanted  BY DEF Init, Wanted, Expects
<1>6. CacheInv /\ Wanted /\ [Next]_vars => Wanted'  BY StepWanted
<1>7. Spec => []Wanted  BY <1>3, <1>5, <1>6, PTL DEF Spec
<1>8. CacheInv /\ Served /\ Wanted => NeverStuck
  BY NothingLeft DEF NeverStuck
<1> QED  BY <1>3, <1>4, <1>7, <1>8, PTL
=============================================================================
