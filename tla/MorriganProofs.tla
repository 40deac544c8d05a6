----------------------------- MODULE MorriganProofs -----------------------------
(***************************************************************************)
(* Theorems about Morrigan and their proofs: its tables are well typed, they *)
(* have one entry for each context or page, every entry says what the miss  *)
(* stream once did, an entry that stays forgets nothing, and a table that    *)
(* tells the stream apart predicts it right and loses entries by eviction.  *)
(***************************************************************************)
EXTENDS Morrigan, FiniteSetTheorems, WellFoundedInduction, TLAPS

-----------------------------------------------------------------------------
(* Minima and maxima. *)

\* Min returns the least element of a non-empty set of naturals.
LEMMA LeastElement ==
  ASSUME NEW S \in SUBSET Nat, S # {}
  PROVE  Min(S) \in S /\ \A y \in S : Min(S) =< y
<1>1. \E x \in S : \A y \in S : ~ (<<y, x>> \in OpToRel(<, Nat))
  BY NatLessThanWellFounded, WFMin, Zenon
<1>2. ASSUME NEW x \in Nat, NEW y \in Nat, y < x
      PROVE  <<y, x>> \in OpToRel(<, Nat)
  BY <1>2, Zenon DEF OpToRel
<1>3. \E x \in S : \A y \in S : x =< y
  <2>1. PICK x \in S : \A y \in S : ~ (<<y, x>> \in OpToRel(<, Nat))
    BY <1>1
  <2>2. ASSUME NEW y \in S PROVE ~(y < x)
    BY <1>2, <2>1
  <2> QED  BY <2>2
<1> QED  BY <1>3 DEF Min

\* Max returns the greatest element of a non-empty bounded set of naturals.
LEMMA GreatestElement ==
  ASSUME NEW n \in Nat, NEW S \in SUBSET (0 .. n), S # {}
  PROVE  Max(S) \in S /\ \A y \in S : Max(S) >= y
<1> DEFINE D == {n - x : x \in S}
<1>1. D \in SUBSET Nat /\ D # {}
  <2>1. \A x \in S : n - x \in Nat  OBVIOUS
  <2> QED  BY <2>1
<1>2. PICK d \in D : \A y \in D : d =< y  BY <1>1, LeastElement
<1>3. PICK x \in S : d = n - x  BY <1>2
<1>4. ASSUME NEW y \in S PROVE x >= y
  <2>1. n - y \in D  OBVIOUS
  <2>2. n - x =< n - y  BY <1>2, <1>3, <2>1
  <2> QED  BY <2>2
<1> QED  BY <1>4 DEF Max

-----------------------------------------------------------------------------
(* Entries and rows of the history tables. *)

HistoryEntry == [valid : BOOLEAN, tag : Nat, delta : Int, confidence : 0 .. ConfMax,
                 timestamp : Nat, u : {0, 1}]

\* A row that can predict, has one entry for a context, and of whose valid
\* entries the tag and the distance are in L.
RowTrue(row, L) ==
  /\ row \in [Ways -> HistoryEntry]
  /\ \A w \in Ways : row[w].valid =>
       /\ row[w].delta # 0 /\ row[w].confidence >= 1
       /\ <<row[w].tag, row[w].delta>> \in L
       /\ \A x \in Ways \ {w} : row[x].valid => row[x].tag # row[w].tag

\* An entry that may stand in such a row at way w.
EntryTrue(e, row, w, L) ==
  /\ e \in HistoryEntry
  /\ e.valid /\ e.delta # 0 /\ e.confidence >= 1 /\ <<e.tag, e.delta>> \in L
  /\ \A x \in Ways \ {w} : row[x].valid => row[x].tag # e.tag

LEMMA RowReplaced ==
  ASSUME NEW L, NEW row, RowTrue(row, L), NEW w \in Ways, NEW e, EntryTrue(e, row, w, L)
  PROVE  RowTrue([row EXCEPT ![w] = e], L)
BY DEF RowTrue, EntryTrue

\* Where a tag matches, the first match is a valid way with this tag.
LEMMA MatchIsWay ==
  ASSUME NEW row, NEW tag, Match(row, tag) # {}
  PROVE  /\ Min(Match(row, tag)) \in Ways
         /\ row[Min(Match(row, tag))].valid
         /\ row[Min(Match(row, tag))].tag = tag
<1>1. Match(row, tag) \in SUBSET Nat  BY TiripAssumption DEF Match
<1>2. Min(Match(row, tag)) \in Match(row, tag)  BY <1>1, LeastElement
<1> QED  BY <1>2 DEF Match

\* The fields of an entry.
LEMMA EntryFields ==
  ASSUME NEW e \in HistoryEntry
  PROVE  /\ e.tag \in Nat /\ e.delta \in Int
         /\ e.confidence \in 0 .. ConfMax /\ e.timestamp \in Nat /\ e.u \in {0, 1}
BY DEF HistoryEntry

\* An entry of the same context and distance.
SameContext(f, e) ==
  /\ f \in HistoryEntry
  /\ f.valid <=> e.valid
  /\ f.tag = e.tag /\ f.delta = e.delta

\* What the setters change and what they keep.
LEMMA StampedEntry ==
  ASSUME NEW e \in HistoryEntry, Now \in Nat
  PROVE  SameContext(Stamped(e), e) /\ Stamped(e).confidence = e.confidence
BY DEF HistoryEntry, Stamped, SameContext

LEMMA WithConfidenceEntry ==
  ASSUME NEW e \in HistoryEntry, NEW c \in 0 .. ConfMax
  PROVE  SameContext(WithConfidence(e, c), e) /\ WithConfidence(e, c).confidence = c
BY DEF HistoryEntry, WithConfidence, SameContext

LEMMA WithUseEntry ==
  ASSUME NEW e \in HistoryEntry, NEW u \in {0, 1}
  PROVE  SameContext(WithUse(e, u), e) /\ WithUse(e, u).confidence = e.confidence
BY DEF HistoryEntry, WithUse, SameContext

\* A new entry.
LEMMA NewEntryFields ==
  ASSUME NEW g \in Nat, NEW d \in Int, Now \in Nat
  PROVE  /\ NewEntry(g, d) \in HistoryEntry /\ NewEntry(g, d).valid
         /\ NewEntry(g, d).tag = g /\ NewEntry(g, d).delta = d
         /\ NewEntry(g, d).confidence = 1
BY TiripAssumption DEF HistoryEntry, NewEntry

\* Retraining keeps the context, and ends at the old or at the new distance.
LEMMA StrengthenedEntry ==
  ASSUME NEW e \in HistoryEntry, e.confidence >= 1, Now \in Nat
  PROVE  SameContext(Strengthened(e), e) /\ Strengthened(e).confidence >= 1
<1> DEFINE c == IF e.confidence < ConfMax THEN e.confidence + 1 ELSE e.confidence
           f == WithConfidence(e, c)
<1>1. c \in 0 .. ConfMax /\ c >= 1  BY TiripAssumption, EntryFields
<1>2. SameContext(f, e) /\ f.confidence = c  BY <1>1, WithConfidenceEntry
<1>3. Strengthened(e) = Stamped(f)  BY DEF Strengthened
<1> HIDE DEF f, c
<1>4. f \in HistoryEntry  BY <1>2 DEF SameContext
<1>5. SameContext(Stamped(f), f) /\ Stamped(f).confidence = f.confidence
  BY <1>4, StampedEntry
<1> QED  BY <1>1, <1>2, <1>3, <1>5 DEF SameContext

LEMMA WeakenedEntry ==
  ASSUME NEW e \in HistoryEntry, e.valid, e.confidence >= 1, Now \in Nat, NEW d \in Int
  PROVE  /\ Weakened(e, d) \in HistoryEntry /\ Weakened(e, d).valid
         /\ Weakened(e, d).tag = e.tag /\ Weakened(e, d).confidence >= 1
         /\ Weakened(e, d).delta \in {e.delta, d}
<1>1. CASE e.confidence > 1
  <2> DEFINE f == WithConfidence(e, e.confidence - 1)
  <2>1. e.confidence - 1 \in 0 .. ConfMax /\ e.confidence - 1 >= 1
    BY TiripAssumption, EntryFields, <1>1
  <2>2. SameContext(f, e) /\ f.confidence = e.confidence - 1
    BY <2>1, WithConfidenceEntry
  <2>3. Weakened(e, d) = Stamped(f)  BY <1>1 DEF Weakened
  <2> HIDE DEF f
  <2>4. f \in HistoryEntry  BY <2>2 DEF SameContext
  <2>5. SameContext(Stamped(f), f) /\ Stamped(f).confidence = f.confidence
    BY <2>4, StampedEntry
  <2> QED  BY <2>1, <2>2, <2>3, <2>5 DEF SameContext
<1>2. CASE ~(e.confidence > 1)
  <2> DEFINE f == NewEntry(e.tag, d)
  <2>1. e.tag \in Nat /\ e.u \in {0, 1}  BY EntryFields
  <2>2. f \in HistoryEntry /\ f.valid /\ f.tag = e.tag /\ f.delta = d /\ f.confidence = 1
    BY <2>1, NewEntryFields
  <2>3. Weakened(e, d) = WithUse(f, e.u)  BY <1>2 DEF Weakened
  <2> HIDE DEF f
  <2>4. SameContext(WithUse(f, e.u), f) /\ WithUse(f, e.u).confidence = f.confidence
    BY <2>1, <2>2, WithUseEntry
  <2> QED  BY <2>2, <2>3, <2>4 DEF SameContext
<1> QED  BY <1>1, <1>2

\* A valid entry of a row may be retrained in place.
LEMMA RowRetrained ==
  ASSUME NEW L, NEW row, RowTrue(row, L), NEW w \in Ways, row[w].valid,
         Now \in Nat, NEW d \in Int \ {0}, <<row[w].tag, d>> \in L
  PROVE  /\ EntryTrue(Strengthened(row[w]), row, w, L)
         /\ EntryTrue(Weakened(row[w], d), row, w, L)
         /\ EntryTrue(Retrained(row[w], d), row, w, L)
<1>1. row[w] \in HistoryEntry /\ row[w].confidence >= 1 /\ row[w].delta # 0
      /\ <<row[w].tag, row[w].delta>> \in L
      /\ \A x \in Ways \ {w} : row[x].valid => row[x].tag # row[w].tag
  BY DEF RowTrue
<1>2. EntryTrue(Strengthened(row[w]), row, w, L)
  BY <1>1, StrengthenedEntry DEF EntryTrue, SameContext
<1>3. EntryTrue(Weakened(row[w], d), row, w, L)
  <2> DEFINE e == Weakened(row[w], d)
  <2>1. e \in HistoryEntry /\ e.valid /\ e.tag = row[w].tag /\ e.confidence >= 1
        /\ e.delta \in {row[w].delta, d}
    BY <1>1, WeakenedEntry
  <2> HIDE DEF e
  <2>2. <<e.tag, e.delta>> \in L /\ e.delta # 0
    <3>1. CASE e.delta = d
      <4>1. <<e.tag, e.delta>> = <<row[w].tag, d>>  BY <2>1, <3>1
      <4> QED  BY <3>1, <4>1
    <3>2. CASE e.delta = row[w].delta
      <4>1. <<e.tag, e.delta>> = <<row[w].tag, row[w].delta>>  BY <2>1, <3>2
      <4> QED  BY <1>1, <3>2, <4>1
    <3> QED  BY <2>1, <3>1, <3>2
  <2>3. EntryTrue(e, row, w, L)  BY <1>1, <2>1, <2>2 DEF EntryTrue
  <2> QED  BY <2>3 DEF e
<1>4. CASE row[w].delta = d
  <2>1. Retrained(row[w], d) = Strengthened(row[w])  BY <1>4 DEF Retrained
  <2> QED  BY <1>2, <1>3, <2>1
<1>5. CASE row[w].delta # d
  <2>1. Retrained(row[w], d) = Weakened(row[w], d)  BY <1>5 DEF Retrained
  <2> QED  BY <1>2, <1>3, <2>1
<1> QED  BY <1>4, <1>5

-----------------------------------------------------------------------------
(* The history tables. *)

\* The tables as a whole: F[t][r] has the tags and distances that table t may
\* hold in row r.
TablesTrue(T, F) ==
  /\ T \in [Tables -> [Rows -> [Ways -> HistoryEntry]]]
  /\ \A t \in Tables, r \in Rows : RowTrue(T[t][r], F[t][r])

\* Keys are absent, or those of a row and a tag.
Keyed(keys) ==
  \A t \in Tables : keys[t] \in {NoKey} \cup [ok : {TRUE}, row : Rows, tag : Nat]

LEMMA KeyFields ==
  ASSUME NEW keys, Keyed(keys), NEW t \in Tables, keys[t].ok
  PROVE  keys[t].row \in Rows /\ keys[t].tag \in Nat
<1>1. keys[t] # NoKey  BY DEF NoKey
<1>2. keys[t] \in [ok : {TRUE}, row : Rows, tag : Nat]  BY <1>1 DEF Keyed
<1> QED  BY <1>2

\* One entry is replaced.
LEMMA TableReplaced ==
  ASSUME NEW T, NEW F, TablesTrue(T, F),
         NEW t \in Tables, NEW r \in Rows, NEW w \in Ways,
         NEW e, EntryTrue(e, T[t][r], w, F[t][r])
  PROVE  TablesTrue([T EXCEPT ![t][r][w] = e], F)
<1> DEFINE row == [T[t][r] EXCEPT ![w] = e]
           T2  == [T EXCEPT ![t][r][w] = e]
<1>1. RowTrue(T[t][r], F[t][r]) /\ T \in [Tables -> [Rows -> [Ways -> HistoryEntry]]]
  BY DEF TablesTrue
<1>2. RowTrue(row, F[t][r])  BY <1>1, RowReplaced
<1>3. row \in [Ways -> HistoryEntry]  BY <1>2 DEF RowTrue
<1>4. T2 = [T EXCEPT ![t][r] = row]  BY <1>1
<1> HIDE DEF row, T2
<1>5. T2 \in [Tables -> [Rows -> [Ways -> HistoryEntry]]]  BY <1>1, <1>3, <1>4
<1>6. ASSUME NEW t2 \in Tables, NEW r2 \in Rows
      PROVE  RowTrue(T2[t2][r2], F[t2][r2])
  <2>1. CASE t2 = t /\ r2 = r
    <3>1. T2[t2][r2] = row  BY <1>1, <1>4, <2>1
    <3> QED  BY <1>2, <2>1, <3>1
  <2>2. CASE ~(t2 = t /\ r2 = r)
    <3>1. T2[t2][r2] = T[t2][r2]  BY <1>1, <1>4, <2>2
    <3> QED  BY <3>1 DEF TablesTrue
  <2> QED  BY <2>1, <2>2
<1>7. TablesTrue(T2, F)  BY <1>5, <1>6 DEF TablesTrue
<1> QED  BY <1>7 DEF T2

\* A prediction names an entry, or no table.
PredictionTyped(pred, keys) ==
  /\ pred \in [tab : 0 .. Len(HLen), way : Ways \cup {0}, delta : Int]
  /\ pred.tab # 0 => keys[pred.tab].ok /\ pred.way \in Ways

\* tage_lookup finds a valid entry.
LEMMA LookupFinds ==
  ASSUME NEW T, NEW F, TablesTrue(T, F), NEW keys, Keyed(keys)
  PROVE  /\ PredictionTyped(Lookup(T, keys), keys)
         /\ LET pred == Lookup(T, keys)
            IN pred.tab # 0 =>
                 /\ T[pred.tab][keys[pred.tab].row][pred.way].valid
                 /\ T[pred.tab][keys[pred.tab].row][pred.way].tag = keys[pred.tab].tag
                 /\ T[pred.tab][keys[pred.tab].row][pred.way].delta = pred.delta
<1> DEFINE providers == {t \in Tables : Provides(T, keys, t)}
           t == Max(providers)
           row == T[t][keys[t].row]
           way == Min(Match(row, keys[t].tag))
<1>0. Len(HLen) \in Nat  BY TiripAssumption
<1>1. CASE providers = {}
  <2>1. Lookup(T, keys) = NoPrediction  BY <1>1 DEF Lookup
  <2> QED  BY <1>0, <2>1 DEF PredictionTyped, NoPrediction
<1>2. CASE providers # {}
  <2>1. providers \in SUBSET (0 .. Len(HLen))  BY <1>0 DEF Tables
  <2>2. t \in providers  BY <1>0, <1>2, <2>1, GreatestElement
  <2>3. t \in Tables /\ Provides(T, keys, t)  BY <2>2
  <2>4. keys[t].ok /\ Match(row, keys[t].tag) # {}  BY <2>3 DEF Provides
  <2>5. way \in Ways /\ row[way].valid /\ row[way].tag = keys[t].tag
    BY <2>4, MatchIsWay
  <2>6. Lookup(T, keys) = [tab |-> t, way |-> way, delta |-> row[way].delta]
    BY <1>2 DEF Lookup, Entry
  <2>7. keys[t].row \in Rows  BY <2>3, <2>4, KeyFields
  <2>8. row[way] \in HistoryEntry  BY <2>3, <2>5, <2>7 DEF TablesTrue
  <2>9. row[way].delta \in Int  BY <2>8, EntryFields
  <2>10. t \in 0 .. Len(HLen) /\ t # 0  BY <1>0, <2>3 DEF Tables
  <2> HIDE DEF t, way
  <2> QED  BY <2>4, <2>5, <2>6, <2>9, <2>10 DEF PredictionTyped
<1> QED  BY <1>1, <1>2

\* A lookup leaves the tables true.
LEMMA TouchedTrue ==
  ASSUME NEW T, NEW F, TablesTrue(T, F), NEW keys, Keyed(keys), Now \in Nat
  PROVE  TablesTrue(Touched(T, keys, Lookup(T, keys)), F)
<1> DEFINE pred == Lookup(T, keys)
<1>1. PredictionTyped(pred, keys)
      /\ (pred.tab # 0 => T[pred.tab][keys[pred.tab].row][pred.way].valid)
  BY LookupFinds
<1> HIDE DEF pred
<1>2. CASE pred.tab = 0
  <2>1. Touched(T, keys, pred) = T  BY <1>2 DEF Touched
  <2> QED  BY <2>1 DEF pred
<1>3. CASE pred.tab # 0
  <2> DEFINE t == pred.tab
             r == keys[t].row
             w == pred.way
             e == Stamped(T[t][r][w])
  <2>1. t \in Tables /\ w \in Ways /\ keys[t].ok
    BY <1>1, <1>3, TiripAssumption DEF PredictionTyped, Tables
  <2>2. r \in Rows  BY <2>1, KeyFields
  <2>3. RowTrue(T[t][r], F[t][r]) /\ T[t][r][w].valid
    BY <1>1, <1>3, <2>1, <2>2 DEF TablesTrue
  <2>4. T[t][r][w] \in HistoryEntry  BY <2>1, <2>3 DEF RowTrue
  <2>5. SameContext(e, T[t][r][w]) /\ e.confidence = T[t][r][w].confidence
    BY <2>4, StampedEntry
  <2>6. Touched(T, keys, pred) = [T EXCEPT ![t][r][w] = e]  BY <1>3 DEF Touched
  <2> HIDE DEF t, r, w, e
  <2>7. <<e.tag, e.delta>> = <<T[t][r][w].tag, T[t][r][w].delta>>
    BY <2>5 DEF SameContext
  <2>8. EntryTrue(e, T[t][r], w, F[t][r])
    BY <2>1, <2>3, <2>5, <2>7 DEF EntryTrue, RowTrue, SameContext
  <2>9. TablesTrue([T EXCEPT ![t][r][w] = e], F)
    BY <2>1, <2>2, <2>8, TableReplaced
  <2> QED  BY <2>6, <2>9 DEF pred
<1> QED  BY <1>2, <1>3

\* What training has learned: the distance d under every key.
Taught(keys, d, F) ==
  \A t \in Tables : keys[t].ok => <<keys[t].tag, d>> \in F[t][keys[t].row]

\* Judging the entry that predicted leaves the tables true.
LEMMA JudgedTrue ==
  ASSUME NEW T, NEW F, TablesTrue(T, F), NEW keys, Keyed(keys), NEW pred,
         PredictionTyped(pred, keys), NEW d \in Int \ {0}, Taught(keys, d, F), Now \in Nat
  PROVE  TablesTrue(Judged(T, keys, pred, d), F)
<1>1. CASE ~Resident(T, keys, pred)
  <2>1. Judged(T, keys, pred, d) = T  BY <1>1 DEF Judged
  <2> QED  BY <2>1
<1>2. CASE Resident(T, keys, pred)
  <2> DEFINE t == pred.tab
             r == keys[t].row
             w == pred.way
             e == Credited(T[t][r][w], pred, d)
  <2>1. t \in Tables /\ w \in Ways /\ keys[t].ok
    BY <1>2, TiripAssumption DEF PredictionTyped, Tables, Resident
  <2>2. r \in Rows  BY <2>1, KeyFields
  <2>3. RowTrue(T[t][r], F[t][r]) /\ T[t][r][w].valid /\ T[t][r][w].tag = keys[t].tag
    BY <1>2, <2>1, <2>2 DEF TablesTrue, Resident
  <2>4. <<T[t][r][w].tag, d>> \in F[t][r]
    <3>1. <<keys[t].tag, d>> \in F[t][r]  BY <2>1 DEF Taught
    <3> QED  BY <2>3, <3>1
  <2>5. Judged(T, keys, pred, d) = [T EXCEPT ![t][r][w] = e]  BY <1>2 DEF Judged
  <2>6. EntryTrue(e, T[t][r], w, F[t][r])
    <3> DEFINE s == Strengthened(T[t][r][w])
               v == Weakened(T[t][r][w], d)
    <3>1. EntryTrue(s, T[t][r], w, F[t][r]) /\ EntryTrue(v, T[t][r], w, F[t][r])
      BY <2>1, <2>3, <2>4, RowRetrained
    <3>2. e = WithUse(s, 1) \/ e = WithUse(v, 0)  BY DEF Credited
    <3> HIDE DEF s, v, e, t, r, w
    <3>3. ASSUME NEW f, EntryTrue(f, T[t][r], w, F[t][r]), NEW u \in {0, 1}
          PROVE  EntryTrue(WithUse(f, u), T[t][r], w, F[t][r])
      <4> DEFINE g == WithUse(f, u)
      <4>1. f \in HistoryEntry  BY <3>3 DEF EntryTrue
      <4>2. SameContext(g, f) /\ g.confidence = f.confidence  BY <4>1, WithUseEntry
      <4> HIDE DEF g
      <4>3. <<g.tag, g.delta>> = <<f.tag, f.delta>>  BY <4>2 DEF SameContext
      <4>4. EntryTrue(g, T[t][r], w, F[t][r])
        BY <3>3, <4>2, <4>3 DEF EntryTrue, SameContext
      <4> QED  BY <4>4 DEF g
    <3>4. EntryTrue(WithUse(s, 1), T[t][r], w, F[t][r])
          /\ EntryTrue(WithUse(v, 0), T[t][r], w, F[t][r])
      BY <3>1, <3>3
    <3> QED  BY <3>2, <3>4
  <2> HIDE DEF t, r, w, e
  <2>7. TablesTrue([T EXCEPT ![t][r][w] = e], F)
    BY <2>1, <2>2, <2>6, TableReplaced
  <2> QED  BY <2>5, <2>7
<1> QED  BY <1>1, <1>2

-----------------------------------------------------------------------------
(* Allocation *)

\* A row whose entries keep their context, distance and confidence.
LEMMA RowAged ==
  ASSUME NEW L, NEW row, RowTrue(row, L), NEW row2 \in [Ways -> HistoryEntry],
         \A w \in Ways : SameContext(row2[w], row[w])
                        /\ row2[w].confidence = row[w].confidence
  PROVE  RowTrue(row2, L)
<1>1. ASSUME NEW w \in Ways, row2[w].valid
      PROVE  /\ row2[w].delta # 0 /\ row2[w].confidence >= 1
             /\ <<row2[w].tag, row2[w].delta>> \in L
             /\ \A x \in Ways \ {w} : row2[x].valid => row2[x].tag # row2[w].tag
  <2>1. row[w].valid  BY <1>1 DEF SameContext
  <2>2. <<row2[w].tag, row2[w].delta>> = <<row[w].tag, row[w].delta>>  BY DEF SameContext
  <2>3. \A x \in Ways \ {w} : row2[x].valid => row2[x].tag # row2[w].tag
    BY <2>1 DEF SameContext, RowTrue
  <2> QED  BY <2>1, <2>2, <2>3 DEF SameContext, RowTrue
<1> QED  BY <1>1 DEF RowTrue

LEMMA AgedTrue ==
  ASSUME NEW L, NEW row, RowTrue(row, L)
  PROVE  RowTrue(Aged(row), L)
<1> DEFINE useful == {w \in Ways : row[w].u > 0}
           m == Min(useful)
<1>1. CASE useful = {}  BY <1>1 DEF Aged
<1>2. CASE useful # {}
  <2>1. m \in Ways /\ row[m].u > 0
    <3>1. useful \in SUBSET Nat  BY TiripAssumption
    <3> QED  BY <1>2, <3>1, LeastElement
  <2>2. Aged(row) = [row EXCEPT ![m] = WithUse(row[m], row[m].u - 1)]
    BY <1>2 DEF Aged
  <2> HIDE DEF m
  <2>3. row \in [Ways -> HistoryEntry]  BY DEF RowTrue
  <2>4. row[m] \in HistoryEntry /\ row[m].u - 1 \in {0, 1}
    <3>1. row[m].u \in {0, 1}  BY <2>1, <2>3, EntryFields
    <3> QED  BY <2>1, <2>3, <3>1
  <2> DEFINE e == WithUse(row[m], row[m].u - 1)
             row2 == [row EXCEPT ![m] = e]
  <2>5. SameContext(e, row[m]) /\ e.confidence = row[m].confidence
    BY <2>4, WithUseEntry
  <2> HIDE DEF e
  <2>6. e \in HistoryEntry  BY <2>5 DEF SameContext
  <2>7. row2 \in [Ways -> HistoryEntry]  BY <2>3, <2>6
  <2>8. ASSUME NEW w \in Ways
        PROVE  SameContext(row2[w], row[w]) /\ row2[w].confidence = row[w].confidence
    <3>1. CASE w = m  BY <2>3, <2>5, <3>1
    <3>2. CASE w # m
      <4>1. row2[w] = row[w] /\ row[w] \in HistoryEntry  BY <2>3, <3>2
      <4> QED  BY <4>1 DEF SameContext
    <3> QED  BY <3>1, <3>2
  <2> HIDE DEF row2
  <2>9. RowTrue(row2, L)  BY <2>7, <2>8, RowAged
  <2> QED  BY <2>2, <2>9 DEF row2, e
<1> QED  BY <1>1, <1>2

LEMMA ClaimedTrue ==
  ASSUME NEW L, NEW row, RowTrue(row, L), NEW g \in Nat, NEW d \in Int \ {0},
         <<g, d>> \in L, Now \in Nat, Match(row, g) # {} \/ Victims(row) # {}
  PROVE  RowTrue(Claimed(row, g, d), L)
<1>1. CASE Match(row, g) # {}
  <2> DEFINE m == Min(Match(row, g))
  <2>1. m \in Ways /\ row[m].valid /\ row[m].tag = g  BY <1>1, MatchIsWay
  <2>2. Claimed(row, g, d) = [row EXCEPT ![m] = Retrained(row[m], d)]
    BY <1>1 DEF Claimed
  <2> HIDE DEF m
  <2>3. <<row[m].tag, d>> \in L  BY <2>1
  <2>4. EntryTrue(Retrained(row[m], d), row, m, L)  BY <2>1, <2>3, RowRetrained
  <2>5. RowTrue([row EXCEPT ![m] = Retrained(row[m], d)], L)
    BY <2>1, <2>4, RowReplaced
  <2> QED  BY <2>2, <2>5
<1>2. CASE Match(row, g) = {}
  <2> DEFINE m == Min(Victims(row))
             e == NewEntry(g, d)
  <2>1. m \in Ways
    <3>1. Victims(row) \in SUBSET Ways
      <4> DEFINE invalid == {w \in Ways : ~row[w].valid}
      <4>1. CASE invalid = {}  BY <4>1 DEF Victims
      <4>2. CASE invalid # {}
        <5>1. Min(invalid) \in invalid  BY <4>2, TiripAssumption, LeastElement
        <5>2. Victims(row) = {Min(invalid)}  BY <4>2 DEF Victims
        <5> QED  BY <5>1, <5>2
      <4> QED  BY <4>1, <4>2
    <3>2. Victims(row) \in SUBSET Nat  BY <3>1, TiripAssumption
    <3> QED  BY <1>2, <3>1, <3>2, LeastElement
  <2>2. Claimed(row, g, d) = [row EXCEPT ![m] = e]  BY <1>2 DEF Claimed
  <2>3. e \in HistoryEntry /\ e.valid /\ e.tag = g /\ e.delta = d /\ e.confidence = 1
    BY NewEntryFields
  <2> HIDE DEF m, e
  <2>4. \A x \in Ways : row[x].valid => row[x].tag # g  BY <1>2 DEF Match
  <2>5. <<e.tag, e.delta>> \in L
    <3>1. <<e.tag, e.delta>> = <<g, d>>  BY <2>3
    <3> QED  BY <3>1
  <2>6. EntryTrue(e, row, m, L)  BY <2>3, <2>4, <2>5 DEF EntryTrue
  <2>7. RowTrue([row EXCEPT ![m] = e], L)  BY <2>1, <2>6, RowReplaced
  <2> QED  BY <2>2, <2>7
<1> QED  BY <1>1, <1>2

LEMMA AllocatedTrue ==
  ASSUME NEW T, NEW F, TablesTrue(T, F), NEW keys, Keyed(keys), NEW start,
         NEW d \in Int \ {0}, Taught(keys, d, F), Now \in Nat
  PROVE  TablesTrue(Allocated(T, keys, start, d), F)
<1> DEFINE takers == Takers(T, keys, start)
           T2 == Allocated(T, keys, start, d)
           row(t) == T[t][keys[t].row]
           new(t) == IF t \in takers THEN Claimed(row(t), keys[t].tag, d) ELSE Aged(row(t))
           left(t) == t \notin Tried(keys, start) \/ \E x \in takers : x < t
<1>1. T \in [Tables -> [Rows -> [Ways -> HistoryEntry]]]  BY DEF TablesTrue
<1>2. ASSUME NEW t \in Tables, ~left(t)
      PROVE  /\ keys[t].row \in Rows
             /\ RowTrue(new(t), F[t][keys[t].row])
             /\ new(t) \in [Ways -> HistoryEntry]
  <2>1. keys[t].ok /\ t \in Tried(keys, start)  BY <1>2 DEF Tried
  <2>2. keys[t].row \in Rows /\ keys[t].tag \in Nat  BY <2>1, KeyFields
  <2>3. RowTrue(row(t), F[t][keys[t].row])  BY <2>2 DEF TablesTrue
  <2>4. <<keys[t].tag, d>> \in F[t][keys[t].row]  BY <2>1 DEF Taught
  <2>5. CASE t \in takers
    <3>1. Match(row(t), keys[t].tag) # {} \/ Victims(row(t)) # {}
      BY <2>5 DEF Takers
    <3>2. RowTrue(Claimed(row(t), keys[t].tag, d), F[t][keys[t].row])
      BY <2>2, <2>3, <2>4, <3>1, ClaimedTrue
    <3>3. new(t) = Claimed(row(t), keys[t].tag, d)  BY <2>5
    <3> QED  BY <2>2, <3>2, <3>3 DEF RowTrue
  <2>6. CASE t \notin takers
    <3>1. RowTrue(Aged(row(t)), F[t][keys[t].row])  BY <2>3, AgedTrue
    <3>2. new(t) = Aged(row(t))  BY <2>6
    <3> QED  BY <2>2, <3>1, <3>2 DEF RowTrue
  <2> QED  BY <2>5, <2>6
<1>3. T2 = [t \in Tables |-> IF left(t) THEN T[t]
                             ELSE [T[t] EXCEPT ![keys[t].row] = new(t)]]
  BY DEF Allocated
<1> HIDE DEF T2, new, left
<1>4. ASSUME NEW t \in Tables
      PROVE  /\ T2[t] \in [Rows -> [Ways -> HistoryEntry]]
             /\ \A r \in Rows : RowTrue(T2[t][r], F[t][r])
  <2>1. CASE left(t)
    <3>1. T2[t] = T[t]  BY <1>3, <2>1
    <3> QED  BY <1>1, <3>1 DEF TablesTrue
  <2>2. CASE ~left(t)
    <3>1. T2[t] = [T[t] EXCEPT ![keys[t].row] = new(t)]  BY <1>3, <2>2
    <3>2. T[t] \in [Rows -> [Ways -> HistoryEntry]]  BY <1>1
    <3>3. T2[t] \in [Rows -> [Ways -> HistoryEntry]]  BY <1>2, <2>2, <3>1, <3>2
    <3>4. ASSUME NEW r \in Rows PROVE RowTrue(T2[t][r], F[t][r])
      <4>1. CASE r = keys[t].row
        <5>1. T2[t][r] = new(t)  BY <3>1, <3>2, <4>1
        <5> QED  BY <1>2, <2>2, <4>1, <5>1
      <4>2. CASE r # keys[t].row
        <5>1. T2[t][r] = T[t][r]  BY <3>1, <3>2, <4>2
        <5> QED  BY <5>1 DEF TablesTrue
      <4> QED  BY <4>1, <4>2
    <3> QED  BY <3>3, <3>4
  <2> QED  BY <2>1, <2>2
<1>5. T2 \in [Tables -> [Rows -> [Ways -> HistoryEntry]]]  BY <1>3, <1>4
<1>6. TablesTrue(T2, F)  BY <1>4, <1>5 DEF TablesTrue
<1> QED  BY <1>6 DEF T2

LEMMA AllUselessTrue ==
  ASSUME NEW T, NEW F, TablesTrue(T, F)
  PROVE  TablesTrue(AllUseless(T), F)
<1>1. T \in [Tables -> [Rows -> [Ways -> HistoryEntry]]]  BY DEF TablesTrue
<1>2. ASSUME NEW t \in Tables, NEW r \in Rows, NEW w \in Ways
      PROVE  /\ AllUseless(T)[t][r][w] \in HistoryEntry
             /\ SameContext(AllUseless(T)[t][r][w], T[t][r][w])
             /\ AllUseless(T)[t][r][w].confidence = T[t][r][w].confidence
  <2>1. AllUseless(T)[t][r][w] = WithUse(T[t][r][w], 0)  BY DEF AllUseless
  <2>2. T[t][r][w] \in HistoryEntry  BY <1>1
  <2>3. SameContext(WithUse(T[t][r][w], 0), T[t][r][w])
        /\ WithUse(T[t][r][w], 0).confidence = T[t][r][w].confidence
    BY <2>2, WithUseEntry
  <2> QED  BY <2>1, <2>3 DEF SameContext
<1>3. AllUseless(T) \in [Tables -> [Rows -> [Ways -> HistoryEntry]]]
  BY <1>2 DEF AllUseless
<1>4. ASSUME NEW t \in Tables, NEW r \in Rows
      PROVE  RowTrue(AllUseless(T)[t][r], F[t][r])
  <2>1. RowTrue(T[t][r], F[t][r])  BY DEF TablesTrue
  <2>2. AllUseless(T)[t][r] \in [Ways -> HistoryEntry]  BY <1>3
  <2> QED  BY <1>2, <2>1, <2>2, RowAged
<1> QED  BY <1>3, <1>4 DEF TablesTrue

\* tage_update leaves the tables true to what they may hold once the distance
\* has been learned.
LEMMA UpdateTrue ==
  ASSUME NEW T, NEW F, TablesTrue(T, F), NEW keys, Keyed(keys), NEW pred,
         PredictionTyped(pred, keys), NEW d \in Int, Taught(keys, d, F), Now \in Nat,
         alloc_since_reset \in 0 .. UReset - 1, Update(T, keys, pred, d)
  PROVE  TablesTrue(tht', F) /\ alloc_since_reset' \in 0 .. UReset - 1
<1>1. CASE d = 0  BY <1>1 DEF Update
<1>2. CASE d # 0
  <2> DEFINE judged == Judged(T, keys, pred, d)
             start  == StartTab(pred)
             claims == Takers(judged, keys, start) # {}
             due    == claims /\ alloc_since_reset + 1 >= UReset
             after  == Allocated(judged, keys, start, d)
  <2>1. TablesTrue(judged, F)  BY <1>2, JudgedTrue
  <2> HIDE DEF judged
  <2>2. TablesTrue(after, F)  BY <1>2, <2>1, AllocatedTrue
  <2>3. TablesTrue(AllUseless(after), F)  BY <2>2, AllUselessTrue
  <2> HIDE DEF after, claims
  <2>4. \/ tht' = judged /\ UNCHANGED alloc_since_reset
        \/ /\ tht' = IF due THEN AllUseless(after) ELSE after
           /\ alloc_since_reset' = IF due THEN 0
                                   ELSE alloc_since_reset + (IF claims THEN 1 ELSE 0)
    BY <1>2 DEF Update, judged, claims, after
  <2>5. TablesTrue(tht', F)  BY <2>1, <2>2, <2>3, <2>4
  <2>6. alloc_since_reset' \in 0 .. UReset - 1
    <3>1. UReset \in Nat /\ UReset >= 1  BY TiripAssumption
    <3> QED  BY <2>4, <3>1
  <2> QED  BY <2>5, <2>6
<1> QED  BY <1>1, <1>2

-----------------------------------------------------------------------------
(* The history of misses and the keys made of it. *)

\* The partial page numbers of the last misses, newest first.
Recent ==
  [k \in 1 .. (IF Len(misses) < MaxHist THEN Len(misses) ELSE MaxHist) |->
     PartialVpn(misses[Len(misses) + 1 - k])]

\* The key of the i-th miss in table t.
KeyAt(t, i) ==
  [ok |-> TRUE, row |-> Row(t, PartialVpn(misses[i]), ContextAt(t, i)),
   tag |-> Tag(t, PartialVpn(misses[i]), ContextAt(t, i))]

\* What the stream has shown so far: the tags and distances of the misses whose
\* successor is known, by table and row.
Shown ==
  [t \in Tables |-> [r \in Rows |->
     {x \in Nat \X Int : \E i \in HLen[t] + 1 .. Len(misses) - 1 :
        /\ Row(t, PartialVpn(misses[i]), ContextAt(t, i)) = r
        /\ Tag(t, PartialVpn(misses[i]), ContextAt(t, i)) = x[1]
        /\ Observed(i) = x[2]}]]

\* The pending prediction has followed the pending key before.
PredictionShown ==
  pend.pred.tab # 0 =>
    <<pend.keys[pend.pred.tab].tag, pend.pred.delta>>
      \in Shown[pend.pred.tab][pend.keys[pend.pred.tab].row]

\* The inductive invariant of the history tables: they hold only what the stream
\* has shown; the register is the recent past; the pending keys are those of the
\* last miss, in the tables for which the stream was long enough; and what was
\* predicted of it had been shown.
TiripInv ==
  /\ misses \in Seq(Pages)
  /\ history_reg = Recent
  /\ Keyed(pend.keys)
  /\ PredictionTyped(pend.pred, pend.keys)
  /\ \A t \in Tables, i \in Nat : i = Len(misses) /\ pend.keys[t].ok =>
       i > HLen[t] /\ pend.keys[t] = KeyAt(t, i)
  /\ alloc_since_reset \in 0 .. UReset - 1
  /\ TablesTrue(tht, Shown)
  /\ PredictionShown

LEMMA PartialType ==
  ASSUME NEW p \in Int
  PROVE  PartialVpn(p) \in 0 .. TagSpan - 1
BY StreamAssumption DEF PartialVpn

LEMMA MissType ==
  ASSUME misses \in Seq(Pages)
  PROVE  /\ Len(misses) \in Nat
         /\ \A j \in 1 .. Len(misses) :
              /\ misses[j] \in Pages /\ misses[j] \in Nat /\ misses[j] \in Int
              /\ PartialVpn(misses[j]) \in 0 .. TagSpan - 1
<1>1. ASSUME NEW j \in 1 .. Len(misses)
      PROVE  misses[j] \in Pages /\ misses[j] \in Nat /\ misses[j] \in Int
  <2>1. misses[j] \in Pages  OBVIOUS
  <2>2. \A p \in Pages : p \in Nat /\ p \in Int  BY StreamAssumption
  <2> QED  BY <2>1, <2>2
<1>2. \A j \in 1 .. Len(misses) : PartialVpn(misses[j]) \in 0 .. TagSpan - 1
  BY <1>1, PartialType
<1>3. Len(misses) \in Nat  OBVIOUS
<1> QED  BY <1>1, <1>2, <1>3, Zenon

\* The i-th page of a stream, with the pages before it, has a key.
LEMMA KeyType ==
  ASSUME NEW s \in Seq(Pages), NEW t \in Tables, NEW i \in HLen[t] + 1 .. Len(s),
         NEW c, c = [j \in 1 .. HLen[t] |-> PartialVpn(s[i - j])]
  PROVE  /\ Row(t, PartialVpn(s[i]), c) \in Rows
         /\ Tag(t, PartialVpn(s[i]), c) \in Nat
<1>1. HLen[t] \in Nat  BY TiripAssumption DEF Tables
<1>2. /\ Len(s) \in Nat
      /\ \A j \in 1 .. Len(s) : PartialVpn(s[j]) \in 0 .. TagSpan - 1
  <2>1. \A j \in 1 .. Len(s) : s[j] \in Pages  OBVIOUS
  <2>2. \A p \in Pages : p \in Int  BY StreamAssumption
  <2>3. \A j \in 1 .. Len(s) : PartialVpn(s[j]) \in 0 .. TagSpan - 1
    BY <2>1, <2>2, PartialType
  <2> QED  BY <2>3
<1>3. ASSUME NEW j \in 1 .. HLen[t]
      PROVE  PartialVpn(s[i - j]) \in 0 .. TagSpan - 1
  <2>1. i - j \in 1 .. Len(s)  BY <1>1, <1>2
  <2> QED  BY <1>2, <2>1
<1>4. c \in [1 .. HLen[t] -> 0 .. TagSpan - 1]  BY <1>3
<1>5. PartialVpn(s[i]) \in 0 .. TagSpan - 1
  <2>1. i \in 1 .. Len(s)  BY <1>1, <1>2
  <2> QED  BY <1>2, <2>1
<1> QED  BY <1>4, <1>5, TiripAssumption

\* One more miss leaves the keys of the earlier ones as they are.
LEMMA KeyKept ==
  ASSUME misses \in Seq(Pages), NEW page \in Pages, misses' = Append(misses, page),
         NEW t \in Tables, NEW i \in HLen[t] + 1 .. Len(misses)
  PROVE  /\ misses'[i] = misses[i]
         /\ ContextAt(t, i)' = ContextAt(t, i)
         /\ KeyAt(t, i)' = KeyAt(t, i)
<1>1. HLen[t] \in Nat  BY TiripAssumption DEF Tables
<1>2. \A j \in 1 .. Len(misses) : misses'[j] = misses[j]  OBVIOUS
<1>3. \A j \in 1 .. HLen[t] : i - j \in 1 .. Len(misses)  BY <1>1
<1>4. \A j \in 1 .. HLen[t] : misses'[i - j] = misses[i - j]  BY <1>2, <1>3
<1>5. ContextAt(t, i)' = ContextAt(t, i)  BY <1>4 DEF ContextAt
<1>6. misses'[i] = misses[i]  BY <1>1, <1>2
<1> QED  BY <1>5, <1>6 DEF KeyAt

\* What the stream has shown stays shown.
LEMMA ShownGrows ==
  ASSUME misses \in Seq(Pages), NEW page \in Pages, misses' = Append(misses, page),
         NEW t \in Tables, NEW r \in Rows
  PROVE  Shown[t][r] \subseteq Shown'[t][r]
<1> SUFFICES ASSUME NEW x \in Shown[t][r] PROVE x \in Shown'[t][r]  OBVIOUS
<1>1. x \in Nat \X Int  BY DEF Shown
<1>2. PICK i \in HLen[t] + 1 .. Len(misses) - 1 :
        /\ Row(t, PartialVpn(misses[i]), ContextAt(t, i)) = r
        /\ Tag(t, PartialVpn(misses[i]), ContextAt(t, i)) = x[1]
        /\ Observed(i) = x[2]
  BY DEF Shown
<1>3. HLen[t] \in Nat /\ Len(misses) \in Nat /\ Len(misses') = Len(misses) + 1
  BY TiripAssumption DEF Tables
<1>4. i \in HLen[t] + 1 .. Len(misses) /\ i \in HLen[t] + 1 .. Len(misses') - 1
  BY <1>3
<1>5. misses'[i] = misses[i] /\ ContextAt(t, i)' = ContextAt(t, i)
  BY <1>4, KeyKept
<1>6. misses'[i + 1] = misses[i + 1]  BY <1>3, <1>4
<1>7. Observed(i)' = Observed(i)  BY <1>5, <1>6 DEF Observed
<1> QED  BY <1>1, <1>2, <1>4, <1>5, <1>7 DEF Shown

LEMMA TablesTrueGrows ==
  ASSUME NEW T, NEW F, NEW G, TablesTrue(T, F),
         \A t \in Tables, r \in Rows : F[t][r] \subseteq G[t][r]
  PROVE  TablesTrue(T, G)
BY DEF TablesTrue, RowTrue

\* Pushing the missed page leaves the register the recent past.
LEMMA RecentPushed ==
  ASSUME misses \in Seq(Pages), NEW page \in Pages, misses' = Append(misses, page),
         history_reg = Recent
  PROVE  Pushed(page) = Recent'
<1> DEFINE n == Len(misses)
           h == IF n < MaxHist THEN n ELSE MaxHist
           h2 == IF n + 1 < MaxHist THEN n + 1 ELSE MaxHist
           s == <<PartialVpn(page)>> \o history_reg
<1>1. n \in Nat /\ MaxHist \in Nat /\ Len(misses') = n + 1  BY TiripAssumption
<1>2. h \in Nat /\ h2 \in Nat /\ h2 =< h + 1  BY <1>1
<1>3. history_reg = [k \in 1 .. h |-> PartialVpn(misses[n + 1 - k])]  BY DEF Recent
<1>4. history_reg \in Seq(Int)
  <2>1. \A j \in 1 .. n : PartialVpn(misses[j]) \in 0 .. TagSpan - 1
    BY MissType
  <2>2. ASSUME NEW k \in 1 .. h PROVE PartialVpn(misses[n + 1 - k]) \in Int
    <3>1. n + 1 - k \in 1 .. n  BY <1>1
    <3>2. PartialVpn(misses[n + 1 - k]) \in 0 .. TagSpan - 1  BY <2>1, <3>1
    <3> QED  BY <3>2, StreamAssumption
  <2> HIDE DEF h, n
  <2> QED  BY <1>2, <1>3, <2>2
<1>5. Len(history_reg) = h  BY <1>2, <1>3
<1>6. Min({Len(history_reg) + 1, MaxHist}) = h2
  <2>1. {h + 1, MaxHist} \in SUBSET Nat  BY <1>1
  <2>2. /\ Min({h + 1, MaxHist}) \in {h + 1, MaxHist}
        /\ Min({h + 1, MaxHist}) =< h + 1 /\ Min({h + 1, MaxHist}) =< MaxHist
    BY <2>1, LeastElement
  <2> QED  BY <1>1, <1>5, <2>2
<1>7. s \in Seq(Int) /\ Len(s) = h + 1
  <2>1. PartialVpn(page) \in Int  BY PartialType, StreamAssumption
  <2> HIDE DEF h
  <2> QED  BY <1>2, <1>4, <1>5, <2>1
<1>8. /\ s[1] = PartialVpn(page)
      /\ \A k \in 2 .. h + 1 : s[k] = PartialVpn(misses[n + 2 - k])
  <2>1. ASSUME NEW k \in 2 .. h + 1 PROVE s[k] = PartialVpn(misses[n + 2 - k])
    <3>1. s[k] = history_reg[k - 1]  BY <1>2, <1>4, <1>5
    <3>2. k - 1 \in 1 .. h /\ n + 1 - (k - 1) = n + 2 - k  BY <1>1, <1>2
    <3> QED  BY <1>3, <3>1, <3>2
  <2>2. s[1] = PartialVpn(page)  BY <1>4
  <2> QED  BY <2>1, <2>2
<1>9. Pushed(page) = [k \in 1 .. h2 |-> s[k]]
  <2>1. Pushed(page) = SubSeq(s, 1, h2)  BY <1>6 DEF Pushed
  <2> HIDE DEF s, h, h2
  <2> QED  BY <1>2, <1>7, <2>1
<1>10. Recent' = [k \in 1 .. h2 |-> PartialVpn(misses'[n + 2 - k])]
  BY <1>1 DEF Recent
<1>11. ASSUME NEW k \in 1 .. h2 PROVE s[k] = PartialVpn(misses'[n + 2 - k])
  <2>1. CASE k = 1
    <3>1. misses'[n + 1] = page  BY <1>1
    <3> QED  BY <1>1, <1>8, <2>1, <3>1
  <2>2. CASE k # 1
    <3>1. k \in 2 .. h + 1 /\ n + 2 - k \in 1 .. n  BY <1>1, <1>2, <2>2
    <3>2. misses'[n + 2 - k] = misses[n + 2 - k]  BY <3>1
    <3> QED  BY <1>8, <3>1, <3>2
  <2> QED  BY <2>1, <2>2
<1> HIDE DEF s, h, h2, n
<1> QED  BY <1>9, <1>10, <1>11

\* The keys of the missed page, before and after it is one of the misses.
LEMMA KeysMade ==
  ASSUME misses \in Seq(Pages), NEW page \in Pages, misses' = Append(misses, page),
         history_reg = Recent
  PROVE  /\ Keyed(Keys(page))
         /\ \A t \in Tables, i \in Nat : i = Len(misses') /\ Keys(page)[t].ok =>
              i > HLen[t] /\ Keys(page)[t] = KeyAt(t, i)'
<1> DEFINE n == Len(misses)
           h == IF n < MaxHist THEN n ELSE MaxHist
<1>1. n \in Nat /\ MaxHist \in Nat /\ Len(misses') = n + 1
      /\ misses'[n + 1] = page
  BY TiripAssumption
<1>2. history_reg = [k \in 1 .. h |-> PartialVpn(misses[n + 1 - k])]  BY DEF Recent
<1>3. h \in Nat /\ Len(history_reg) = h  BY <1>1, <1>2
<1>4. misses' \in Seq(Pages)  OBVIOUS
<1>5. ASSUME NEW t \in Tables, NEW i \in Nat, i = n + 1
      PROVE  \/ Keys(page)[t] = NoKey
             \/ /\ i > HLen[t]
                /\ Keys(page)[t] = KeyAt(t, i)'
                /\ KeyAt(t, i)' \in [ok : {TRUE}, row : Rows, tag : Nat]
  <2>1. HLen[t] \in Nat /\ HLen[t] =< MaxHist  BY TiripAssumption DEF Tables
  <2>2. CASE Len(history_reg) < HLen[t]  BY <2>2 DEF Keys
  <2>3. CASE ~(Len(history_reg) < HLen[t])
    <3>1. HLen[t] =< h /\ h =< n  BY <1>1, <1>3, <2>1, <2>3
    <3>2. ContextAt(t, i)' = [k \in 1 .. HLen[t] |-> PartialVpn(misses'[i - k])]
      BY DEF ContextAt
    <3>3. Context(t) = ContextAt(t, i)'
      <4>1. Context(t) = [k \in 1 .. HLen[t] |-> history_reg[k]]
        <5> HIDE DEF h
        <5> QED  BY <1>3, <2>1, <3>1 DEF Context
      <4>3. ASSUME NEW k \in 1 .. HLen[t]
            PROVE  history_reg[k] = PartialVpn(misses'[i - k])
        <5>1. k \in 1 .. h /\ i - k \in 1 .. n  BY <1>1, <1>5, <2>1, <3>1, <1>3
        <5>2. misses'[i - k] = misses[i - k]  BY <5>1
        <5>3. history_reg[k] = PartialVpn(misses[n + 1 - k])  BY <1>2, <5>1
        <5> QED  BY <1>1, <1>5, <5>2, <5>3
      <4> HIDE DEF n
      <4> QED  BY <3>2, <4>1, <4>3
    <3>4. misses'[i] = page  BY <1>1, <1>5
    <3>5. KeyAt(t, i)' = [ok |-> TRUE, row |-> Row(t, PartialVpn(page), Context(t)),
                          tag |-> Tag(t, PartialVpn(page), Context(t))]
      BY <3>3, <3>4 DEF KeyAt
    <3>6. Keys(page)[t] = KeyAt(t, i)'  BY <2>3, <3>5 DEF Keys
    <3>7. i \in HLen[t] + 1 .. Len(misses')  BY <1>1, <1>5, <2>1, <3>1
    <3>8. /\ Row(t, PartialVpn(misses'[i]), Context(t)) \in Rows
          /\ Tag(t, PartialVpn(misses'[i]), Context(t)) \in Nat
      <4> HIDE DEF n
      <4> QED  BY <1>4, <3>2, <3>3, <3>7, KeyType
    <3>9. KeyAt(t, i)' \in [ok : {TRUE}, row : Rows, tag : Nat]
      BY <3>4, <3>5, <3>8
    <3>10. i > HLen[t]  BY <1>1, <1>5, <2>1, <3>1
    <3> HIDE DEF n, h
    <3> QED  BY <3>6, <3>9, <3>10, Zenon
  <2> QED  BY <2>2, <2>3
<1>6. Keyed(Keys(page))
  <2>1. ASSUME NEW t \in Tables
        PROVE  Keys(page)[t] \in {NoKey} \cup [ok : {TRUE}, row : Rows, tag : Nat]
    <3>1. CASE Keys(page)[t] = NoKey  BY <3>1
    <3>2. CASE Keys(page)[t] # NoKey
      <4>1. PICK i \in Nat : i = n + 1  BY <1>1
      <4> HIDE DEF n
      <4>2. /\ Keys(page)[t] = KeyAt(t, i)'
            /\ KeyAt(t, i)' \in [ok : {TRUE}, row : Rows, tag : Nat]
        BY <1>5, <3>2, <4>1
      <4> QED  BY <4>2
    <3> QED  BY <3>1, <3>2
  <2> QED  BY <2>1 DEF Keyed
<1>7. ASSUME NEW t \in Tables, NEW i \in Nat, i = Len(misses'), Keys(page)[t].ok
      PROVE  i > HLen[t] /\ Keys(page)[t] = KeyAt(t, i)'
  <2>1. Keys(page)[t] # NoKey  BY <1>7 DEF NoKey
  <2>2. i = n + 1  BY <1>1, <1>7
  <2> HIDE DEF n
  <2> QED  BY <1>5, <2>1, <2>2
<1> QED  BY <1>6, <1>7

\* The distance to the missed page is what training teaches under the pending
\* keys.
LEMMA DistanceTaught ==
  ASSUME TiripInv, NEW page \in Pages, misses' = Append(misses, page), misses # <<>>
  PROVE  Delta(page) \in Int /\ Taught(pend.keys, Delta(page), Shown')
<1> DEFINE n == Len(misses)
           d == Delta(page)
<1>1. misses \in Seq(Pages)  BY DEF TiripInv
<1>2. Len(misses') = Len(misses) + 1  BY <1>1
<1>3. n \in Nat /\ n >= 1 /\ misses[n] \in Pages  BY <1>1
<1>4. d = page - misses[n] /\ d \in Int
  <2>1. \A p \in Pages : p \in Int  BY StreamAssumption
  <2> QED  BY <1>3, <2>1 DEF Delta, previous_vpn
<1>5. ASSUME NEW t \in Tables, pend.keys[t].ok
      PROVE  <<pend.keys[t].tag, d>> \in Shown'[t][pend.keys[t].row]
  <2>1. PICK i \in Nat : i = n  BY <1>3
  <2>2. i > HLen[t] /\ pend.keys[t] = KeyAt(t, i)
    BY <1>5, <2>1 DEF TiripInv
  <2>3. HLen[t] \in Nat  BY TiripAssumption DEF Tables
  <2>4. i \in HLen[t] + 1 .. Len(misses) /\ i \in HLen[t] + 1 .. Len(misses') - 1
    BY <1>2, <1>3, <2>1, <2>2, <2>3
  <2>5. misses'[i] = misses[i] /\ ContextAt(t, i)' = ContextAt(t, i)
    BY <1>1, <2>4, KeyKept
  <2>6. misses'[i + 1] = page  BY <1>1, <2>1
  <2>7. Observed(i)' = d  BY <1>4, <2>1, <2>5, <2>6 DEF Observed
  <2>8. pend.keys[t].row \in Rows /\ pend.keys[t].tag \in Nat
    BY <1>5, KeyFields DEF TiripInv
  <2>9. /\ Row(t, PartialVpn(misses'[i]), ContextAt(t, i)') = pend.keys[t].row
        /\ Tag(t, PartialVpn(misses'[i]), ContextAt(t, i)') = pend.keys[t].tag
    BY <2>2, <2>5 DEF KeyAt
  <2> HIDE DEF d, n
  <2> QED  BY <1>4, <2>4, <2>7, <2>8, <2>9 DEF Shown
<1>6. Taught(pend.keys, d, Shown')  BY <1>5 DEF Taught
<1> QED  BY <1>4, <1>6

\* A step of the prefetcher preserves the invariant of the history tables.
LEMMA TiripStep ==
  ASSUME TiripInv, NEW page \in Pages, misses' = Append(misses, page), TiripOperate(page)
  PROVE  TiripInv'
<1> DEFINE keys == Keys(page)
           pred == Lookup(tht, keys)
           T    == Touched(tht, keys, pred)
<1>1. misses \in Seq(Pages) /\ history_reg = Recent /\ TablesTrue(tht, Shown)
  BY DEF TiripInv
<1>2. misses' \in Seq(Pages) /\ Len(misses') = Len(misses) + 1  BY <1>1
<1>3. Now \in Nat  BY <1>1 DEF Now
<1>4. /\ Keyed(keys)
      /\ \A t \in Tables, i \in Nat : i = Len(misses') /\ keys[t].ok =>
           i > HLen[t] /\ keys[t] = KeyAt(t, i)'
  BY <1>1, KeysMade
<1>5. history_reg' = Recent'  BY <1>1, RecentPushed DEF TiripOperate
<1>6. TablesTrue(tht, Shown')
  <2>1. \A t \in Tables, r \in Rows : Shown[t][r] \subseteq Shown'[t][r]
    BY <1>1, ShownGrows
  <2> QED  BY <1>1, <2>1, TablesTrueGrows
<1> HIDE DEF keys
<1>7. pred.tab # 0 => <<keys[pred.tab].tag, pred.delta>> \in Shown'[pred.tab][keys[pred.tab].row]
  <2> HIDE DEF pred
  <2> SUFFICES ASSUME pred.tab # 0
               PROVE  <<keys[pred.tab].tag, pred.delta>> \in Shown'[pred.tab][keys[pred.tab].row]
    OBVIOUS
  <2> DEFINE t == pred.tab
             r == keys[t].row
             e == tht[t][r][pred.way]
  <2>1. /\ PredictionTyped(pred, keys)
        /\ e.valid /\ e.tag = keys[t].tag /\ e.delta = pred.delta
    BY <1>4, <1>6, LookupFinds DEF pred
  <2>2. t \in Tables /\ pred.way \in Ways /\ keys[t].ok
    BY <2>1, TiripAssumption DEF PredictionTyped, Tables
  <2>3. r \in Rows  BY <1>4, <2>2, KeyFields
  <2>4. <<e.tag, e.delta>> \in Shown'[t][r]
    BY <1>6, <2>1, <2>2, <2>3 DEF TablesTrue, RowTrue
  <2> QED  BY <2>1, <2>4
<1>8. TablesTrue(T, Shown') /\ PredictionTyped(pred, keys)
  BY <1>3, <1>4, <1>6, TouchedTrue, LookupFinds
<1>9. pend'.keys = keys /\ pend'.pred = pred
  BY DEF TiripOperate, keys
<1> HIDE DEF pred, T
<1>10. TablesTrue(tht', Shown') /\ alloc_since_reset' \in 0 .. UReset - 1
  <2>1. CASE misses = <<>>
    <3>1. tht' = T /\ alloc_since_reset' = alloc_since_reset
      BY <2>1 DEF TiripOperate, T, keys, pred
    <3> QED  BY <1>8, <3>1 DEF TiripInv
  <2>2. CASE misses # <<>>
    <3> DEFINE d == Delta(page)
    <3>1. Update(T, pend.keys, pend.pred, d)
      BY <2>2 DEF TiripOperate, TrainingKeys, T, keys, pred
    <3>3. d \in Int /\ Taught(pend.keys, d, Shown')  BY <2>2, DistanceTaught
    <3>6. Keyed(pend.keys) /\ PredictionTyped(pend.pred, pend.keys)
          /\ alloc_since_reset \in 0 .. UReset - 1
      BY DEF TiripInv
    <3> HIDE DEF d
    <3> QED  BY <1>3, <1>8, <3>1, <3>3, <3>6, UpdateTrue
  <2> QED  BY <2>1, <2>2
<1>11. PredictionShown'  BY <1>9, <1>7 DEF PredictionShown
<1> QED  BY <1>2, <1>4, <1>5, <1>8, <1>9, <1>10, <1>11 DEF TiripInv

LEMMA TiripStart ==
  ASSUME StreamInit, TiripInit
  PROVE  TiripInv
<1>1. misses = <<>> /\ Len(misses) = 0  BY DEF StreamInit
<1>2. misses \in Seq(Pages)  BY <1>1
<1>3. history_reg = Recent
  <2>1. history_reg = <<>>  BY DEF TiripInit
  <2>2. MaxHist \in Nat  BY TiripAssumption
  <2>3. Recent = [k \in 1 .. 0 |-> PartialVpn(misses[Len(misses) + 1 - k])]
    BY <1>1, <2>2 DEF Recent
  <2> QED  BY <2>1, <2>3
<1>4. Keyed(pend.keys) /\ \A t \in Tables : ~pend.keys[t].ok
  BY DEF TiripInit, Keyed, NoKey
<1>5. PredictionTyped(pend.pred, pend.keys)
  <2>1. Len(HLen) \in Nat  BY TiripAssumption
  <2> QED  BY <2>1 DEF TiripInit, PredictionTyped, NoPrediction
<1>6. alloc_since_reset \in 0 .. UReset - 1  BY TiripAssumption DEF TiripInit
<1>7. TablesTrue(tht, Shown)
  <2>1. NoEntry \in HistoryEntry  BY TiripAssumption DEF NoEntry, HistoryEntry
  <2>2. ~NoEntry.valid  BY DEF NoEntry
  <2>3. tht = [t \in Tables |-> [r \in Rows |-> [w \in Ways |-> NoEntry]]]
    BY DEF TiripInit
  <2> QED  BY <2>1, <2>2, <2>3 DEF TablesTrue, RowTrue
<1>8. PredictionShown  BY DEF TiripInit, NoPrediction, PredictionShown
<1> QED  BY <1>2, <1>3, <1>4, <1>5, <1>6, <1>7, <1>8 DEF TiripInv

\* What the invariant says of the tables.
LEMMA TiripConsequences ==
  ASSUME TiripInv
  PROVE  TiripTypeOK /\ ContextsUnique /\ TrainedByOccurrence
<1>1. misses \in Seq(Pages) /\ history_reg = Recent /\ TablesTrue(tht, Shown)
  BY DEF TiripInv
<1>2. tht \in [Tables -> [Rows -> [Ways -> HistoryEntry]]]  BY <1>1 DEF TablesTrue
<1>3. history_reg \in Seq(0 .. TagSpan - 1) /\ Len(history_reg) =< MaxHist
  <2> DEFINE n == Len(misses)
             h == IF n < MaxHist THEN n ELSE MaxHist
  <2>1. n \in Nat /\ MaxHist \in Nat /\ h \in Nat /\ h =< n /\ h =< MaxHist
    BY <1>1, TiripAssumption
  <2>2. history_reg = [k \in 1 .. h |-> PartialVpn(misses[n + 1 - k])]
    BY <1>1 DEF Recent
  <2>3. ASSUME NEW k \in 1 .. h PROVE PartialVpn(misses[n + 1 - k]) \in 0 .. TagSpan - 1
    <3>1. n + 1 - k \in 1 .. n  BY <2>1
    <3> QED  BY <1>1, <3>1, MissType
  <2> HIDE DEF n, h
  <2> QED  BY <2>1, <2>2, <2>3
<1>4. TiripTypeOK
  <2>1. \A t \in Tables : pend.keys[t] \in {NoKey} \cup [ok : {TRUE}, row : Rows, tag : Nat]
    BY DEF TiripInv, Keyed
  <2>2. pend.pred \in [tab : 0 .. Len(HLen), way : Ways \cup {0}, delta : Int]
    BY DEF TiripInv, PredictionTyped
  <2>3. alloc_since_reset \in 0 .. UReset - 1  BY DEF TiripInv
  <2> QED  BY <1>2, <1>3, <2>1, <2>2, <2>3 DEF TiripTypeOK, HistoryEntry
<1>5. ContextsUnique
  <2>1. ASSUME NEW t \in Tables, NEW r \in Rows PROVE RowTrue(tht[t][r], Shown[t][r])
    BY <1>1 DEF TablesTrue
  <2> QED  BY <2>1 DEF ContextsUnique, RowTrue
<1>6. TrainedByOccurrence
  <2> SUFFICES ASSUME NEW t \in Tables, NEW r \in Rows, NEW w \in Ways, tht[t][r][w].valid
               PROVE  \E i \in HLen[t] + 1 .. Len(misses) - 1 : LearnedAt(t, r, tht[t][r][w], i)
    BY DEF TrainedByOccurrence
  <2>1. <<tht[t][r][w].tag, tht[t][r][w].delta>> \in Shown[t][r]
    BY <1>1 DEF TablesTrue, RowTrue
  <2>2. PICK i \in HLen[t] + 1 .. Len(misses) - 1 :
          /\ Row(t, PartialVpn(misses[i]), ContextAt(t, i)) = r
          /\ Tag(t, PartialVpn(misses[i]), ContextAt(t, i)) = tht[t][r][w].tag
          /\ Observed(i) = tht[t][r][w].delta
    BY <2>1 DEF Shown
  <2> QED  BY <2>2 DEF LearnedAt
<1> QED  BY <1>4, <1>5, <1>6

-----------------------------------------------------------------------------
(* What a table that tells the stream apart keeps. *)

\* Among what table t may hold, a row and a tag have one distance.
Telling(F, t) ==
  \A r \in Rows : \A x, y \in F[t][r] : x[1] = y[1] => x[2] = y[2]

\* An entry of the same context and distance that is at least as confident.
Unharmed(f, e) == SameContext(f, e) /\ f.confidence >= e.confidence

\* What NeverUnlearned says of an entry: its way forgets it only for another
\* context.
Keeps(f, e) ==
  e.valid /\ f.tag = e.tag =>
    f.valid /\ f.delta = e.delta /\ f.confidence >= e.confidence

\* Table t keeps its entries, and keeps them or evicts them.
Spared(S, T, t) == \A r \in Rows, w \in Ways : Unharmed(S[t][r][w], T[t][r][w])
Evicts(S, T, t) == \A r \in Rows, w \in Ways : Keeps(S[t][r][w], T[t][r][w])

Typed(T) == T \in [Tables -> [Rows -> [Ways -> HistoryEntry]]]

LEMMA UnharmedItself ==
  ASSUME NEW e \in HistoryEntry
  PROVE  Unharmed(e, e)
<1>1. e.confidence \in 0 .. ConfMax  BY EntryFields
<1> QED  BY <1>1, TiripAssumption DEF Unharmed, SameContext

\* Entries spared, then kept or evicted, then spared, are kept or evicted.
LEMMA KeptThroughout ==
  ASSUME NEW T0, NEW T1, NEW T2, NEW T3, Typed(T0), Typed(T1), Typed(T2), Typed(T3),
         NEW t \in Tables, Spared(T1, T0, t), Evicts(T2, T1, t), Spared(T3, T2, t)
  PROVE  Evicts(T3, T0, t)
<1> SUFFICES ASSUME NEW r \in Rows, NEW w \in Ways
             PROVE  Keeps(T3[t][r][w], T0[t][r][w])
  BY DEF Evicts
<1> DEFINE e0 == T0[t][r][w]
           e1 == T1[t][r][w]
           e2 == T2[t][r][w]
           e3 == T3[t][r][w]
<1>1. /\ e0 \in HistoryEntry /\ e1 \in HistoryEntry
      /\ e2 \in HistoryEntry /\ e3 \in HistoryEntry
  BY DEF Typed
<1>2. Unharmed(e1, e0) /\ Keeps(e2, e1) /\ Unharmed(e3, e2)  BY DEF Spared, Evicts
<1> HIDE DEF e0, e1, e2, e3
<1>3. /\ e0.confidence \in Int /\ e1.confidence \in Int
      /\ e2.confidence \in Int /\ e3.confidence \in Int
  BY <1>1, EntryFields, TiripAssumption
<1>4. Keeps(e3, e0)  BY <1>2, <1>3 DEF Unharmed, SameContext, Keeps
<1> QED  BY <1>4 DEF e0, e3

LEMMA SparedIsKept ==
  ASSUME NEW S, NEW T, NEW t, Spared(S, T, t)
  PROVE  Evicts(S, T, t)
BY DEF Spared, Evicts, Unharmed, SameContext, Keeps

\* One entry is replaced by one that is no worse.
LEMMA OneSpared ==
  ASSUME NEW T, Typed(T), NEW t \in Tables, NEW u \in Tables, NEW r \in Rows,
         NEW w \in Ways, NEW e, t = u => Unharmed(e, T[u][r][w])
  PROVE  Spared([T EXCEPT ![u][r][w] = e], T, t)
<1> DEFINE S == [T EXCEPT ![u][r][w] = e]
<1>1. ASSUME NEW r2 \in Rows, NEW w2 \in Ways
      PROVE  Unharmed(S[t][r2][w2], T[t][r2][w2])
  <2>1. CASE t = u /\ r2 = r /\ w2 = w
    <3>1. S[t][r2][w2] = e  BY <2>1 DEF Typed
    <3> QED  BY <2>1, <3>1
  <2>2. CASE ~(t = u /\ r2 = r /\ w2 = w)
    <3>1. S[t][r2][w2] = T[t][r2][w2] /\ T[t][r2][w2] \in HistoryEntry
      BY <2>2 DEF Typed
    <3> QED  BY <3>1, UnharmedItself
  <2> QED  BY <2>1, <2>2
<1> QED  BY <1>1 DEF Spared

LEMMA StrengthenedUnharmed ==
  ASSUME NEW e \in HistoryEntry, Now \in Nat
  PROVE  Unharmed(Strengthened(e), e)
<1> DEFINE c == IF e.confidence < ConfMax THEN e.confidence + 1 ELSE e.confidence
           f == WithConfidence(e, c)
<1>1. c \in 0 .. ConfMax /\ c >= e.confidence  BY TiripAssumption, EntryFields
<1>2. SameContext(f, e) /\ f.confidence = c  BY <1>1, WithConfidenceEntry
<1>3. Strengthened(e) = Stamped(f)  BY DEF Strengthened
<1> HIDE DEF f, c
<1>4. f \in HistoryEntry  BY <1>2 DEF SameContext
<1>5. SameContext(Stamped(f), f) /\ Stamped(f).confidence = f.confidence
  BY <1>4, StampedEntry
<1> QED  BY <1>1, <1>2, <1>3, <1>5 DEF SameContext, Unharmed

LEMMA UseUnharmed ==
  ASSUME NEW e \in HistoryEntry, NEW f, Unharmed(f, e), NEW u \in {0, 1}
  PROVE  Unharmed(WithUse(f, u), e)
<1>1. f \in HistoryEntry  BY DEF Unharmed, SameContext
<1>2. SameContext(WithUse(f, u), f) /\ WithUse(f, u).confidence = f.confidence
  BY <1>1, WithUseEntry
<1> QED  BY <1>2 DEF Unharmed, SameContext

\* In a table that tells the stream apart, an entry under the key that is being
\* trained already has the distance that is taught.
LEMMA KnowsTheDistance ==
  ASSUME NEW T, NEW F, TablesTrue(T, F), NEW keys, Keyed(keys), NEW d, Taught(keys, d, F),
         NEW t \in Tables, Telling(F, t), keys[t].ok, NEW w \in Ways,
         T[t][keys[t].row][w].valid, T[t][keys[t].row][w].tag = keys[t].tag
  PROVE  T[t][keys[t].row][w].delta = d
<1> DEFINE r == keys[t].row
           e == T[t][r][w]
<1>1. r \in Rows  BY KeyFields
<1>2. <<e.tag, e.delta>> \in F[t][r]  BY <1>1 DEF TablesTrue, RowTrue
<1>3. <<keys[t].tag, d>> \in F[t][r]  BY DEF Taught
<1>4. \A x, y \in F[t][r] : x[1] = y[1] => x[2] = y[2]  BY <1>1 DEF Telling
<1> HIDE DEF e, r
<1>5. e.tag = keys[t].tag  BY DEF e, r
<1>6. e.delta = d  BY <1>2, <1>3, <1>4, <1>5
<1> QED  BY <1>6 DEF e, r

LEMMA TouchedSpares ==
  ASSUME NEW T, NEW F, TablesTrue(T, F), NEW keys, Keyed(keys), Now \in Nat,
         NEW t \in Tables
  PROVE  Spared(Touched(T, keys, Lookup(T, keys)), T, t)
<1> DEFINE pred == Lookup(T, keys)
<1>1. PredictionTyped(pred, keys)  BY LookupFinds
<1>2. Typed(T)  BY DEF TablesTrue, Typed
<1> HIDE DEF pred
<1>3. CASE pred.tab = 0
  <2>1. Touched(T, keys, pred) = T  BY <1>3 DEF Touched
  <2>2. Spared(T, T, t)  BY <1>2, UnharmedItself DEF Spared, Typed
  <2> QED  BY <2>1, <2>2 DEF pred
<1>4. CASE pred.tab # 0
  <2> DEFINE u == pred.tab
             r == keys[u].row
             w == pred.way
             e == Stamped(T[u][r][w])
  <2>1. u \in Tables /\ w \in Ways /\ keys[u].ok
    BY <1>1, <1>4, TiripAssumption DEF PredictionTyped, Tables
  <2>2. r \in Rows  BY <2>1, KeyFields
  <2>3. T[u][r][w] \in HistoryEntry  BY <1>2, <2>1, <2>2 DEF Typed
  <2>4. Unharmed(e, T[u][r][w])
    <3>1. T[u][r][w].confidence \in 0 .. ConfMax  BY <2>3, EntryFields
    <3>2. SameContext(e, T[u][r][w]) /\ e.confidence = T[u][r][w].confidence
      BY <2>3, StampedEntry
    <3> HIDE DEF e, u, r, w
    <3> QED  BY <3>1, <3>2, TiripAssumption DEF Unharmed
  <2>5. Touched(T, keys, pred) = [T EXCEPT ![u][r][w] = e]  BY <1>4 DEF Touched
  <2> HIDE DEF u, r, w, e
  <2>6. Spared([T EXCEPT ![u][r][w] = e], T, t)  BY <1>2, <2>1, <2>2, <2>4, OneSpared
  <2> QED  BY <2>5, <2>6 DEF pred
<1> QED  BY <1>3, <1>4

\* Judging spares a table whose prediction, if it made it, is right.
LEMMA JudgedSpares ==
  ASSUME NEW T, NEW F, TablesTrue(T, F), NEW keys, Keyed(keys), NEW pred,
         PredictionTyped(pred, keys), NEW d, Now \in Nat, NEW t \in Tables,
         pred.tab = t => pred.delta = d
  PROVE  Spared(Judged(T, keys, pred, d), T, t)
<1>1. Typed(T)  BY DEF TablesTrue, Typed
<1>2. CASE ~Resident(T, keys, pred)
  <2>1. Judged(T, keys, pred, d) = T  BY <1>2 DEF Judged
  <2>2. Spared(T, T, t)  BY <1>1, UnharmedItself DEF Spared, Typed
  <2> QED  BY <2>1, <2>2
<1>3. CASE Resident(T, keys, pred)
  <2> DEFINE u == pred.tab
             r == keys[u].row
             w == pred.way
             e == Credited(T[u][r][w], pred, d)
  <2>1. u \in Tables /\ w \in Ways /\ keys[u].ok
    BY <1>3, TiripAssumption DEF PredictionTyped, Tables, Resident
  <2>2. r \in Rows  BY <2>1, KeyFields
  <2>3. T[u][r][w] \in HistoryEntry  BY <1>1, <2>1, <2>2 DEF Typed
  <2>4. ASSUME t = u PROVE Unharmed(e, T[u][r][w])
    <3>1. e = WithUse(Strengthened(T[u][r][w]), 1)  BY <2>4 DEF Credited
    <3>2. Unharmed(Strengthened(T[u][r][w]), T[u][r][w])
      BY <2>3, StrengthenedUnharmed
    <3> HIDE DEF e, u, r, w
    <3> QED  BY <2>3, <3>1, <3>2, UseUnharmed
  <2>5. Judged(T, keys, pred, d) = [T EXCEPT ![u][r][w] = e]  BY <1>3 DEF Judged
  <2> HIDE DEF u, r, w, e
  <2>6. Spared([T EXCEPT ![u][r][w] = e], T, t)  BY <1>1, <2>1, <2>2, <2>4, OneSpared
  <2> QED  BY <2>5, <2>6
<1> QED  BY <1>2, <1>3

LEMMA AllUselessSpares ==
  ASSUME NEW T, Typed(T), NEW t \in Tables
  PROVE  Spared(AllUseless(T), T, t)
<1> SUFFICES ASSUME NEW r \in Rows, NEW w \in Ways
             PROVE  Unharmed(AllUseless(T)[t][r][w], T[t][r][w])
  BY DEF Spared
<1>1. AllUseless(T)[t][r][w] = WithUse(T[t][r][w], 0)  BY DEF AllUseless
<1>2. T[t][r][w] \in HistoryEntry  BY DEF Typed
<1>3. Unharmed(T[t][r][w], T[t][r][w])  BY <1>2, UnharmedItself
<1> QED  BY <1>1, <1>2, <1>3, UseUnharmed

LEMMA AgedUnharmed ==
  ASSUME NEW row \in [Ways -> HistoryEntry], NEW w \in Ways
  PROVE  Unharmed(Aged(row)[w], row[w])
<1> DEFINE useful == {x \in Ways : row[x].u > 0}
           m == Min(useful)
<1>1. row[w] \in HistoryEntry  OBVIOUS
<1>2. Unharmed(row[w], row[w])  BY <1>1, UnharmedItself
<1>3. CASE useful = {}
  <2>1. Aged(row) = row  BY <1>3 DEF Aged
  <2> QED  BY <1>2, <2>1
<1>4. CASE useful # {}
  <2>1. m \in Ways /\ row[m].u > 0
    <3>1. useful \in SUBSET Nat  BY TiripAssumption
    <3> QED  BY <1>4, <3>1, LeastElement
  <2>2. Aged(row) = [row EXCEPT ![m] = WithUse(row[m], row[m].u - 1)]
    BY <1>4 DEF Aged
  <2> HIDE DEF m
  <2>3. CASE w = m
    <3>1. Aged(row)[w] = WithUse(row[w], row[w].u - 1)  BY <2>2, <2>3
    <3>2. row[w].u - 1 \in {0, 1}
      <4>1. row[w].u \in {0, 1}  BY <1>1, EntryFields
      <4> QED  BY <2>1, <2>3, <4>1
    <3> QED  BY <1>1, <1>2, <3>1, <3>2, UseUnharmed
  <2>4. CASE w # m
    <3>1. Aged(row)[w] = row[w]  BY <2>2, <2>4
    <3> QED  BY <1>2, <3>1
  <2> QED  BY <2>3, <2>4
<1> QED  BY <1>3, <1>4

\* A claim keeps the entries of a row whose matching entry has the distance, but
\* for a victim that makes room for another context.
LEMMA ClaimedKeeps ==
  ASSUME NEW row \in [Ways -> HistoryEntry], NEW g, NEW d, Now \in Nat,
         \A w \in Ways : row[w].valid /\ row[w].tag = g => row[w].delta = d,
         NEW w \in Ways
  PROVE  Keeps(Claimed(row, g, d)[w], row[w])
<1>1. row[w] \in HistoryEntry  OBVIOUS
<1>2. Keeps(row[w], row[w])
  <2>1. Unharmed(row[w], row[w])  BY <1>1, UnharmedItself
  <2> QED  BY <2>1 DEF Unharmed, Keeps
<1>3. CASE Match(row, g) # {}
  <2> DEFINE m == Min(Match(row, g))
  <2>1. m \in Ways /\ row[m].valid /\ row[m].tag = g  BY <1>3, MatchIsWay
  <2>2. Claimed(row, g, d) = [row EXCEPT ![m] = Retrained(row[m], d)]
    BY <1>3 DEF Claimed
  <2> HIDE DEF m
  <2>3. CASE w = m
    <3>1. Claimed(row, g, d)[w] = Strengthened(row[w])
      BY <2>1, <2>2, <2>3 DEF Retrained
    <3>2. Unharmed(Strengthened(row[w]), row[w])  BY <1>1, StrengthenedUnharmed
    <3> QED  BY <3>1, <3>2 DEF Unharmed, SameContext, Keeps
  <2>4. CASE w # m
    <3>1. Claimed(row, g, d)[w] = row[w]  BY <2>2, <2>4
    <3> QED  BY <1>2, <3>1
  <2> QED  BY <2>3, <2>4
<1>4. CASE Match(row, g) = {}
  <2> DEFINE m == Min(Victims(row))
  <2>1. Claimed(row, g, d) = [row EXCEPT ![m] = NewEntry(g, d)]  BY <1>4 DEF Claimed
  <2> HIDE DEF m
  <2>2. CASE w = m
    <3>1. Claimed(row, g, d)[w].tag = g  BY <2>1, <2>2 DEF NewEntry
    <3>2. ~(row[w].valid /\ row[w].tag = g)  BY <1>4 DEF Match
    <3> QED  BY <3>1, <3>2 DEF Keeps
  <2>3. CASE w # m
    <3>1. Claimed(row, g, d)[w] = row[w]  BY <2>1, <2>3
    <3> QED  BY <1>2, <3>1
  <2> QED  BY <2>2, <2>3
<1> QED  BY <1>3, <1>4

LEMMA AllocatedKeeps ==
  ASSUME NEW T, NEW F, TablesTrue(T, F), NEW keys, Keyed(keys), NEW start,
         NEW d, Taught(keys, d, F), Now \in Nat, NEW t \in Tables, Telling(F, t)
  PROVE  Evicts(Allocated(T, keys, start, d), T, t)
<1> DEFINE takers == Takers(T, keys, start)
           T2 == Allocated(T, keys, start, d)
           row == T[t][keys[t].row]
           new == IF t \in takers THEN Claimed(row, keys[t].tag, d) ELSE Aged(row)
           left == t \notin Tried(keys, start) \/ \E x \in takers : x < t
<1>1. Typed(T)  BY DEF TablesTrue, Typed
<1>2. \A r \in Rows, w \in Ways : Keeps(T[t][r][w], T[t][r][w])
  <2>1. Spared(T, T, t)  BY <1>1, UnharmedItself DEF Spared, Typed
  <2> QED  BY <2>1, SparedIsKept DEF Evicts
<1>3. T2[t] = IF left THEN T[t] ELSE [T[t] EXCEPT ![keys[t].row] = new]
  BY DEF Allocated
<1>4. CASE left
  <2>1. T2[t] = T[t]  BY <1>3, <1>4
  <2> HIDE DEF T2
  <2>2. Evicts(T2, T, t)  BY <1>2, <2>1 DEF Evicts
  <2> QED  BY <2>2 DEF T2
<1>5. CASE ~left
  <2>1. keys[t].ok  BY <1>5 DEF Tried
  <2>2. keys[t].row \in Rows  BY <2>1, KeyFields
  <2>3. row \in [Ways -> HistoryEntry]  BY <1>1, <2>2 DEF Typed
  <2>4. T2[t] = [T[t] EXCEPT ![keys[t].row] = new]  BY <1>3, <1>5
  <2>5. \A w \in Ways : row[w].valid /\ row[w].tag = keys[t].tag => row[w].delta = d
    BY <2>1, KnowsTheDistance
  <2>6. ASSUME NEW w \in Ways PROVE Keeps(new[w], row[w])
    <3>1. CASE t \in takers
      <4>1. new = Claimed(row, keys[t].tag, d)  BY <3>1
      <4> HIDE DEF new, row
      <4> QED  BY <2>3, <2>5, <4>1, ClaimedKeeps
    <3>2. CASE t \notin takers
      <4>1. new = Aged(row)  BY <3>2
      <4> HIDE DEF new, row
      <4>2. Unharmed(new[w], row[w])  BY <2>3, <4>1, AgedUnharmed
      <4> QED  BY <4>2 DEF Unharmed, SameContext, Keeps
    <3> QED  BY <3>1, <3>2
  <2> HIDE DEF T2, new
  <2>7. ASSUME NEW r \in Rows, NEW w \in Ways PROVE Keeps(T2[t][r][w], T[t][r][w])
    <3>1. T[t] \in [Rows -> [Ways -> HistoryEntry]]  BY <1>1 DEF Typed
    <3>2. CASE r = keys[t].row
      <4>1. T2[t][r] = new  BY <2>4, <3>1, <3>2
      <4> QED  BY <2>6, <3>2, <4>1
    <3>3. CASE r # keys[t].row
      <4>1. T2[t][r] = T[t][r]  BY <2>4, <3>1, <3>3
      <4> QED  BY <1>2, <4>1
    <3> QED  BY <3>2, <3>3
  <2>8. Evicts(T2, T, t)  BY <2>7 DEF Evicts
  <2> QED  BY <2>8 DEF T2
<1> QED  BY <1>4, <1>5

\* tage_update, after the lookup has stamped its provider, keeps or evicts.
LEMMA UpdateKeeps ==
  ASSUME NEW T0, Typed(T0), NEW T, NEW F, TablesTrue(T, F), NEW keys, Keyed(keys),
         NEW pred, PredictionTyped(pred, keys), NEW d \in Int, Taught(keys, d, F),
         Now \in Nat, NEW t \in Tables, Telling(F, t), Spared(T, T0, t),
         pred.tab = t => pred.delta = d, Update(T, keys, pred, d)
  PROVE  Evicts(tht', T0, t)
<1>1. Typed(T)  BY DEF TablesTrue, Typed
<1>2. Evicts(T, T, t)
  <2>1. Spared(T, T, t)  BY <1>1, UnharmedItself DEF Spared, Typed
  <2> QED  BY <2>1, SparedIsKept
<1>3. Spared(T, T, t)  BY <1>1, UnharmedItself DEF Spared, Typed
<1>4. CASE d = 0
  <2>1. tht' = T  BY <1>4 DEF Update
  <2> QED  BY <1>1, <1>2, <1>3, <2>1, KeptThroughout
<1>5. CASE d # 0
  <2> DEFINE judged == Judged(T, keys, pred, d)
             start  == StartTab(pred)
             after  == Allocated(judged, keys, start, d)
  <2>1. TablesTrue(judged, F)  BY <1>5, JudgedTrue
  <2>2. Spared(judged, T, t)  BY JudgedSpares
  <2>3. tht' = judged \/ tht' = after \/ tht' = AllUseless(after)
    BY <1>5 DEF Update
  <2> HIDE DEF judged
  <2>4. TablesTrue(after, F)  BY <1>5, <2>1, AllocatedTrue
  <2>5. Evicts(after, judged, t)  BY <2>1, AllocatedKeeps
  <2> HIDE DEF after
  <2>6. TablesTrue(AllUseless(after), F)  BY <2>4, AllUselessTrue
  <2>7. Typed(judged) /\ Typed(after) /\ Typed(AllUseless(after))
    BY <2>1, <2>4, <2>6 DEF TablesTrue, Typed
  <2>8. Evicts(judged, T, t)  BY <2>2, SparedIsKept
  <2>9. Spared(judged, judged, t) /\ Spared(after, after, t)
    BY <2>7, UnharmedItself DEF Spared, Typed
  <2>10. Spared(AllUseless(after), after, t)  BY <2>7, AllUselessSpares
  <2>11. Evicts(judged, T0, t)  BY <1>1, <2>7, <2>8, <2>9, KeptThroughout
  <2>12. Spared(judged, T0, t)
    <3> SUFFICES ASSUME NEW r \in Rows, NEW w \in Ways
                 PROVE  Unharmed(judged[t][r][w], T0[t][r][w])
      BY DEF Spared
    <3>1. /\ T0[t][r][w] \in HistoryEntry /\ T[t][r][w] \in HistoryEntry
          /\ judged[t][r][w] \in HistoryEntry
      BY <1>1, <2>7 DEF Typed
    <3>2. /\ T0[t][r][w].confidence \in Int /\ T[t][r][w].confidence \in Int
          /\ judged[t][r][w].confidence \in Int
      BY <3>1, EntryFields, TiripAssumption
    <3>3. Unharmed(judged[t][r][w], T[t][r][w]) /\ Unharmed(T[t][r][w], T0[t][r][w])
      BY <2>2 DEF Spared
    <3> QED  BY <3>2, <3>3 DEF Unharmed, SameContext
  <2>13. Evicts(after, T0, t) /\ Evicts(AllUseless(after), T0, t)
    BY <2>5, <2>7, <2>9, <2>10, <2>12, KeptThroughout
  <2> QED  BY <2>3, <2>11, <2>13
<1> QED  BY <1>4, <1>5

\* Such a table has one distance for each key it has been shown.
LEMMA DeterminedTells ==
  ASSUME NEW t \in Tables, Determined(t)'
  PROVE  Telling(Shown', t)
<1> SUFFICES ASSUME NEW r \in Rows, NEW x \in Shown'[t][r], NEW y \in Shown'[t][r],
                    x[1] = y[1]
             PROVE  x[2] = y[2]
  BY DEF Telling
<1>1. PICK i \in HLen[t] + 1 .. Len(misses') - 1 :
        /\ Row(t, PartialVpn(misses'[i]), ContextAt(t, i)') = r
        /\ Tag(t, PartialVpn(misses'[i]), ContextAt(t, i)') = x[1]
        /\ Observed(i)' = x[2]
  BY DEF Shown
<1>2. PICK j \in HLen[t] + 1 .. Len(misses') - 1 :
        /\ Row(t, PartialVpn(misses'[j]), ContextAt(t, j)') = r
        /\ Tag(t, PartialVpn(misses'[j]), ContextAt(t, j)') = y[1]
        /\ Observed(j)' = y[2]
  BY DEF Shown
<1> QED  BY <1>1, <1>2 DEF Determined

\* The prediction of such a table is the distance that is taught.
LEMMA PredictsTheDistance ==
  ASSUME TiripInv, NEW page \in Pages, misses' = Append(misses, page),
         NEW t \in Tables, Telling(Shown', t), pend.pred.tab = t
  PROVE  misses # <<>> /\ Delta(page) = pend.pred.delta
<1>1. /\ misses \in Seq(Pages) /\ Keyed(pend.keys)
      /\ PredictionTyped(pend.pred, pend.keys) /\ PredictionShown
  BY DEF TiripInv
<1>2. t # 0 /\ pend.keys[t].ok  BY <1>1 DEF PredictionTyped, Tables
<1>3. pend.keys[t].row \in Rows  BY <1>1, <1>2, KeyFields
<1> DEFINE r == pend.keys[t].row
<1>4. <<pend.keys[t].tag, pend.pred.delta>> \in Shown[t][r]
  BY <1>1, <1>2 DEF PredictionShown
<1>5. misses # <<>>
  <2>1. HLen[t] \in Nat  BY TiripAssumption DEF Tables
  <2>2. \E i \in HLen[t] + 1 .. Len(misses) - 1 : TRUE  BY <1>3, <1>4 DEF Shown
  <2> QED  BY <2>1, <2>2
<1>6. <<pend.keys[t].tag, pend.pred.delta>> \in Shown'[t][r]
  BY <1>1, <1>3, <1>4, ShownGrows
<1>7. <<pend.keys[t].tag, Delta(page)>> \in Shown'[t][r]
  BY <1>2, <1>5, DistanceTaught DEF Taught
<1>8. \A x, y \in Shown'[t][r] : x[1] = y[1] => x[2] = y[2]  BY <1>3 DEF Telling
<1> HIDE DEF r
<1> QED  BY <1>5, <1>6, <1>7, <1>8

\* A miss that a table tells apart from the others leaves its entries or evicts
\* them.
LEMMA MissKeeps ==
  ASSUME TiripInv, NEW page \in Pages, misses' = Append(misses, page),
         TiripOperate(page), NEW t \in Tables, Telling(Shown', t)
  PROVE  Evicts(tht', tht, t)
<1> DEFINE keys == Keys(page)
           T    == Touched(tht, keys, Lookup(tht, keys))
<1>1. /\ misses \in Seq(Pages) /\ history_reg = Recent /\ TablesTrue(tht, Shown)
      /\ Keyed(pend.keys) /\ PredictionTyped(pend.pred, pend.keys)
  BY DEF TiripInv
<1>2. Now \in Nat  BY <1>1 DEF Now
<1>3. Keyed(keys)  BY <1>1, KeysMade
<1>4. TablesTrue(tht, Shown')
  <2>1. \A u \in Tables, r \in Rows : Shown[u][r] \subseteq Shown'[u][r]
    BY <1>1, ShownGrows
  <2> QED  BY <1>1, <2>1, TablesTrueGrows
<1>5. Typed(tht)  BY <1>1 DEF TablesTrue, Typed
<1> HIDE DEF keys
<1>6. TablesTrue(T, Shown') /\ Spared(T, tht, t)
  BY <1>2, <1>3, <1>4, TouchedTrue, TouchedSpares
<1>7. CASE misses = <<>>
  <2>1. tht' = T  BY <1>7 DEF TiripOperate, keys
  <2> QED  BY <1>6, <2>1, SparedIsKept
<1>8. CASE misses # <<>>
  <2>1. Update(T, pend.keys, pend.pred, Delta(page))
    BY <1>8 DEF TiripOperate, TrainingKeys, keys
  <2>2. Delta(page) \in Int /\ Taught(pend.keys, Delta(page), Shown')
    BY <1>8, DistanceTaught
  <2>3. pend.pred.tab = t => pend.pred.delta = Delta(page)  BY PredictsTheDistance
  <2> HIDE DEF T
  <2> QED  BY <1>1, <1>2, <1>5, <1>6, <2>1, <2>2, <2>3, UpdateKeeps
<1> QED  BY <1>7, <1>8

-----------------------------------------------------------------------------
(* Entries of the prediction tables. *)

IripEntry(l) ==
  [vpn : 0 .. TagSpan - 1, successor_delta : [1 .. Slots[l] -> Int],
   confidence : [1 .. Slots[l] -> 0 .. ConfLimit]]

\* An entry whose successors are in S, a set of tags and distances.
EntryOf(e, l, S) ==
  /\ e \in IripEntry(l)
  /\ e.vpn # 0 => \A k \in 1 .. Slots[l] :
       e.successor_delta[k] # 0 => <<e.vpn, e.successor_delta[k]>> \in S

\* The same entry but for its confidence.
SameSuccessors(f, e, l) ==
  f \in IripEntry(l) /\ f.vpn = e.vpn /\ f.successor_delta = e.successor_delta

LEMMA IripConstants ==
  /\ Len(Slots) \in Nat /\ 1 \in Levels /\ TagSpan >= 1 /\ TagSpan \in Nat
  /\ ConfLimit \in Nat /\ ConfLimit >= 1 /\ ResetFreq \in Nat /\ ResetFreq >= 1
  /\ \A l \in Levels :
       /\ l \in Nat /\ Slots[l] \in Nat /\ Slots[l] >= 1
       /\ Sets[l] \in Nat /\ Sets[l] >= 1 /\ Assoc[l] \in Nat /\ Assoc[l] >= 1
       /\ l < Len(Slots) => l + 1 \in Levels /\ Slots[l + 1] > Slots[l]
       /\ \A tag \in 0 .. TagSpan - 1 : IripRow(l, tag) \in 0 .. Sets[l] - 1
<1>1. Len(Slots) \in Nat /\ 1 \in Levels  BY IripAssumption DEF Levels
<1>2. /\ TagSpan >= 1 /\ TagSpan \in Nat
      /\ ConfLimit \in Nat /\ ConfLimit >= 1 /\ ResetFreq \in Nat /\ ResetFreq >= 1
  BY StreamAssumption, IripAssumption
<1>3. ASSUME NEW l \in Levels
      PROVE  /\ l \in Nat /\ Slots[l] \in Nat /\ Slots[l] >= 1
             /\ Sets[l] \in Nat /\ Sets[l] >= 1 /\ Assoc[l] \in Nat /\ Assoc[l] >= 1
             /\ l < Len(Slots) => l + 1 \in Levels /\ Slots[l + 1] > Slots[l]
  <2>1. l \in Nat /\ Slots[l] \in Nat /\ Slots[l] >= 1
    BY <1>1, IripAssumption DEF Levels
  <2>2. Sets[l] \in Nat /\ Sets[l] >= 1 /\ Assoc[l] \in Nat /\ Assoc[l] >= 1
    BY IripAssumption
  <2>3. ASSUME l < Len(Slots) PROVE l + 1 \in Levels /\ Slots[l + 1] > Slots[l]
    <3>1. l + 1 \in Levels /\ l + 1 # 1 /\ (l + 1) - 1 = l
      BY <1>1, <2>1, <2>3 DEF Levels
    <3> QED  BY <3>1, IripAssumption
  <2> QED  BY <2>1, <2>2, <2>3
<1>4. ASSUME NEW l \in Levels, NEW tag \in 0 .. TagSpan - 1
      PROVE  IripRow(l, tag) \in 0 .. Sets[l] - 1
  <2>1. Hash(tag) \in Nat  BY IripAssumption
  <2>2. Sets[l] \in Nat /\ Sets[l] >= 1  BY <1>3
  <2> QED  BY <2>1, <2>2 DEF IripRow
<1> QED  BY <1>1, <1>2, <1>3, <1>4

LEMMA SameEntryOf ==
  ASSUME NEW S, NEW l \in Levels, NEW e, EntryOf(e, l, S), NEW f, SameSuccessors(f, e, l)
  PROVE  EntryOf(f, l, S)
BY DEF EntryOf, SameSuccessors

LEMMA FreeEntryOf ==
  ASSUME NEW S, NEW l \in Levels
  PROVE  EntryOf(FreeEntry(l), l, S) /\ FreeEntry(l).vpn = 0
BY IripConstants DEF EntryOf, FreeEntry, IripEntry

LEMMA InsertedEntryOf ==
  ASSUME NEW S, NEW tag \in 0 .. TagSpan - 1
  PROVE  /\ EntryOf([FreeEntry(1) EXCEPT !.vpn = tag], 1, S)
         /\ [FreeEntry(1) EXCEPT !.vpn = tag].vpn = tag
<1> DEFINE f == FreeEntry(1)
           g == [f EXCEPT !.vpn = tag]
<1>1. f \in IripEntry(1)  BY FreeEntryOf, IripConstants DEF EntryOf
<1>2. \A k \in 1 .. Slots[1] : f.successor_delta[k] = 0  BY DEF FreeEntry
<1> HIDE DEF f
<1>3. g \in IripEntry(1) /\ g.vpn = tag /\ g.successor_delta = f.successor_delta
  BY <1>1 DEF IripEntry
<1> HIDE DEF g
<1>4. EntryOf(g, 1, S) /\ g.vpn = tag  BY <1>2, <1>3 DEF EntryOf
<1> QED  BY <1>4 DEF f, g

LEMMA RewardedSame ==
  ASSUME NEW l \in Levels, NEW e \in IripEntry(l), NEW page
  PROVE  SameSuccessors(RewardedEntry(e, page), e, l)
<1> DEFINE to == LeadsTo(e, page)
           k == Min(to)
<1>1. CASE to = {}
  <2>1. RewardedEntry(e, page) = e  BY <1>1 DEF RewardedEntry
  <2> QED  BY <2>1 DEF SameSuccessors
<1>2. CASE to # {}
  <2>1. to \in SUBSET Nat  BY IripConstants DEF LeadsTo, IripEntry
  <2>2. k \in to  BY <1>2, <2>1, LeastElement
  <2>3. k \in 1 .. Slots[l] /\ e.confidence[k] < ConfLimit
    BY <2>2 DEF LeadsTo, IripEntry
  <2>4. RewardedEntry(e, page) = [e EXCEPT !.confidence[k] = e.confidence[k] + 1]
    BY <1>2 DEF RewardedEntry
  <2> HIDE DEF k
  <2>5. e.confidence \in [1 .. Slots[l] -> 0 .. ConfLimit]  BY DEF IripEntry
  <2>6. e.confidence[k] + 1 \in 0 .. ConfLimit
    <3>1. e.confidence[k] \in 0 .. ConfLimit  BY <2>3, <2>5
    <3> QED  BY <2>3, <3>1, IripConstants
  <2>7. [e.confidence EXCEPT ![k] = e.confidence[k] + 1] \in [1 .. Slots[l] -> 0 .. ConfLimit]
    BY <2>5, <2>6
  <2> DEFINE c == [e.confidence EXCEPT ![k] = e.confidence[k] + 1]
  <2>8. RewardedEntry(e, page) = [e EXCEPT !.confidence = c]
    BY <2>4 DEF IripEntry
  <2> HIDE DEF c
  <2>9. /\ [e EXCEPT !.confidence = c] \in IripEntry(l)
        /\ [e EXCEPT !.confidence = c].vpn = e.vpn
        /\ [e EXCEPT !.confidence = c].successor_delta = e.successor_delta
    BY <2>7 DEF c, IripEntry
  <2> QED  BY <2>8, <2>9 DEF SameSuccessors
<1> QED  BY <1>1, <1>2

LEMMA DecayedSame ==
  ASSUME NEW l \in Levels, NEW e \in IripEntry(l)
  PROVE  SameSuccessors(DecayedEntry(e), e, l)
<1> DEFINE c == [k \in DOMAIN e.confidence |-> e.confidence[k] \div 2]
<1>1. e.confidence \in [1 .. Slots[l] -> 0 .. ConfLimit]  BY DEF IripEntry
<1>2. \A n \in 0 .. ConfLimit : n \div 2 \in 0 .. ConfLimit  BY IripConstants
<1>3. c \in [1 .. Slots[l] -> 0 .. ConfLimit]  BY <1>1, <1>2
<1>4. DecayedEntry(e) = [e EXCEPT !.confidence = c]  BY DEF DecayedEntry
<1> HIDE DEF c
<1>5. /\ [e EXCEPT !.confidence = c] \in IripEntry(l)
      /\ [e EXCEPT !.confidence = c].vpn = e.vpn
      /\ [e EXCEPT !.confidence = c].successor_delta = e.successor_delta
  BY <1>3 DEF IripEntry
<1> QED  BY <1>4, <1>5 DEF SameSuccessors

LEMMA WithSuccessorOf ==
  ASSUME NEW S, NEW l \in Levels, NEW e, EntryOf(e, l, S), NEW k \in 1 .. Slots[l],
         NEW d \in Int, <<e.vpn, d>> \in S
  PROVE  EntryOf(WithSuccessor(e, k, d), l, S) /\ WithSuccessor(e, k, d).vpn = e.vpn
<1>1. e \in IripEntry(l)  BY DEF EntryOf
<1>2. 0 \in 0 .. ConfLimit  BY IripConstants
<1>3. WithSuccessor(e, k, d) \in IripEntry(l) /\ WithSuccessor(e, k, d).vpn = e.vpn
      /\ WithSuccessor(e, k, d).successor_delta = [e.successor_delta EXCEPT ![k] = d]
  BY <1>1, <1>2 DEF WithSuccessor, IripEntry
<1>4. ASSUME e.vpn # 0, NEW j \in 1 .. Slots[l], WithSuccessor(e, k, d).successor_delta[j] # 0
      PROVE  <<e.vpn, WithSuccessor(e, k, d).successor_delta[j]>> \in S
  <2>1. e.successor_delta \in [1 .. Slots[l] -> Int]  BY <1>1 DEF IripEntry
  <2>2. CASE j = k
    <3>1. WithSuccessor(e, k, d).successor_delta[j] = d  BY <1>3, <2>1, <2>2
    <3> QED  BY <3>1
  <2>3. CASE j # k
    <3>1. WithSuccessor(e, k, d).successor_delta[j] = e.successor_delta[j]
      BY <1>3, <2>1, <2>3
    <3> QED  BY <1>4, <3>1 DEF EntryOf
  <2> QED  BY <2>2, <2>3
<1> QED  BY <1>3, <1>4 DEF EntryOf

LEMMA PromotedOf ==
  ASSUME NEW S, NEW l \in Levels, l < Len(Slots), NEW e, EntryOf(e, l, S),
         NEW d \in Int, <<e.vpn, d>> \in S
  PROVE  EntryOf(Promoted(e, l, d), l + 1, S) /\ Promoted(e, l, d).vpn = e.vpn
<1> DEFINE m == Slots[l]
           n == Slots[l + 1]
           p == Padded(e.successor_delta, n)
           s == [p EXCEPT ![m + 1] = d]
           f == Promoted(e, l, d)
<1>1. e \in IripEntry(l)  BY DEF EntryOf
<1>2. m \in Nat /\ n \in Nat /\ n > m /\ m >= 1 /\ ConfLimit \in Nat
  BY IripConstants
<1>3. e.successor_delta \in [1 .. m -> Int] /\ e.confidence \in [1 .. m -> 0 .. ConfLimit]
      /\ e.vpn \in 0 .. TagSpan - 1
  BY <1>1 DEF IripEntry
<1> HIDE DEF m, n
<1>4. p \in [1 .. n -> Int] /\ \A k \in 1 .. n :
        p[k] = IF k \in 1 .. m THEN e.successor_delta[k] ELSE 0
  BY <1>2, <1>3 DEF Padded
<1>5. Padded(e.confidence, n) \in [1 .. n -> 0 .. ConfLimit]
  BY <1>2, <1>3 DEF Padded
<1> HIDE DEF p
<1>6. s \in [1 .. n -> Int] /\ \A k \in 1 .. n : s[k] = IF k = m + 1 THEN d ELSE p[k]
  BY <1>2, <1>4
<1>7. f = [vpn |-> e.vpn, successor_delta |-> s, confidence |-> Padded(e.confidence, n)]
  BY DEF Promoted, m, n, p
<1> HIDE DEF f, s
<1>8. f \in IripEntry(l + 1) /\ f.vpn = e.vpn /\ f.successor_delta = s
  BY <1>3, <1>5, <1>6, <1>7 DEF IripEntry, n
<1>9. ASSUME f.vpn # 0, NEW k \in 1 .. n, s[k] # 0 PROVE <<f.vpn, s[k]>> \in S
  <2>1. CASE k = m + 1
    <3>1. s[k] = d  BY <1>6, <2>1
    <3> QED  BY <1>8, <3>1
  <2>2. CASE k # m + 1
    <3>1. s[k] = p[k]  BY <1>6, <2>2
    <3>2. k \in 1 .. m /\ s[k] = e.successor_delta[k]  BY <1>4, <1>9, <3>1
    <3> QED  BY <1>8, <1>9, <3>2 DEF EntryOf, m
  <2> QED  BY <2>1, <2>2
<1> QED  BY <1>8, <1>9 DEF EntryOf, f, n

-----------------------------------------------------------------------------
(* What an entry remembers. *)

Remembers(e) == Range(e.successor_delta) \ {0}

\* No distance is twice in the entry.
NoRepeat(e, l) ==
  \A j, k \in 1 .. Slots[l] :
    e.successor_delta[j] = e.successor_delta[k] /\ e.successor_delta[j] # 0 => j = k

\* Entry f of the same page remembers what e of level l did, but for one distance
\* that a full entry of the last level may have given up.
KeptIn(e, l, f) ==
  LET lost == Remembers(e) \ Remembers(f)
  IN lost = {} \/ /\ l = Len(Slots) /\ Cardinality(lost) = 1
                  /\ Cardinality(Remembers(e)) = Slots[Len(Slots)]

LEMMA RememberedSlots ==
  ASSUME NEW l \in Levels, NEW e \in IripEntry(l)
  PROVE  /\ DOMAIN e.successor_delta = 1 .. Slots[l]
         /\ \A x : x \in Remembers(e) <=> x # 0 /\ \E k \in 1 .. Slots[l] : e.successor_delta[k] = x
<1>1. DOMAIN e.successor_delta = 1 .. Slots[l]  BY DEF IripEntry
<1>2. \A x : x \in Range(e.successor_delta) <=> \E k \in DOMAIN e.successor_delta : e.successor_delta[k] = x
  BY DEF Range
<1> QED  BY <1>1, <1>2 DEF Remembers

\* A full entry remembers as many distances as it has slots.
LEMMA FullEntry ==
  ASSUME NEW l \in Levels, NEW e \in IripEntry(l), NoRepeat(e, l), FreeSlots(e) = {}
  PROVE  Cardinality(Remembers(e)) = Slots[l]
<1> DEFINE n == Slots[l]
           f == e.successor_delta
           R == Remembers(e)
<1>1. n \in Nat /\ n >= 1  BY IripConstants
<1>2. /\ DOMAIN f = 1 .. n /\ f \in [1 .. n -> Int]
      /\ \A x : x \in R <=> x # 0 /\ \E k \in 1 .. n : f[k] = x
  BY RememberedSlots DEF IripEntry
<1>3. \A k \in 1 .. n : f[k] # 0  BY <1>2 DEF FreeSlots
<1>4. \A j, k \in 1 .. n : f[j] = f[k] => j = k  BY <1>3 DEF NoRepeat
<1> HIDE DEF n, f, R
<1>5. f \in [1 .. n -> R] /\ \A x \in R : \E k \in 1 .. n : f[k] = x
  <2>1. \A k \in 1 .. n : f[k] \in R  BY <1>2, <1>3
  <2> QED  BY <1>2, <2>1
<1>6. f \in Surjection(1 .. n, R) /\ f \in Injection(1 .. n, R)
  BY <1>4, <1>5 DEF Surjection, Injection, IsInjective
<1>7. IsFiniteSet(1 .. n) /\ Cardinality(1 .. n) = n
  <2>1. 1 \in Int /\ n \in Int  BY <1>1
  <2>2. IsFiniteSet(1 .. n) /\ Cardinality(1 .. n) = IF 1 > n THEN 0 ELSE n - 1 + 1
    BY <2>1, FS_Interval, Zenon
  <2> QED  BY <1>1, <2>2
<1>8. Cardinality(R) = Cardinality(1 .. n)  BY <1>6, <1>7, FS_Surjection
<1> QED  BY <1>7, <1>8 DEF n, R

\* A distance that the entry has not gets a slot: all that was in another stays.
LEMMA SuccessorAdded ==
  ASSUME NEW l \in Levels, NEW e \in IripEntry(l), NoRepeat(e, l), NEW k \in 1 .. Slots[l],
         NEW d \in Int, d \notin Range(e.successor_delta)
  PROVE  LET f == WithSuccessor(e, k, d)
         IN /\ f \in IripEntry(l) /\ f.vpn = e.vpn /\ NoRepeat(f, l)
            /\ k \in FreeSlots(e) => KeptIn(e, l, f)
            /\ FreeSlots(e) = {} /\ l = Len(Slots) => KeptIn(e, l, f)
<1> DEFINE f == WithSuccessor(e, k, d)
           n == Slots[l]
           s == e.successor_delta
<1>1. s \in [1 .. n -> Int] /\ \A j \in 1 .. n : s[j] # d
  BY DEF IripEntry, Range
<1>2. f \in IripEntry(l) /\ f.vpn = e.vpn /\ f.successor_delta = [s EXCEPT ![k] = d]
  <2>1. 0 \in 0 .. ConfLimit  BY IripConstants
  <2> QED  BY <2>1 DEF WithSuccessor, IripEntry
<1> DEFINE t == f.successor_delta
<1>3. \A j \in 1 .. n : t[j] = IF j = k THEN d ELSE s[j]  BY <1>1, <1>2
<1>4. \A j, i \in 1 .. n : s[j] = s[i] /\ s[j] # 0 => j = i  BY DEF NoRepeat
<1>5. /\ \A x : x \in Remembers(e) <=> x # 0 /\ \E j \in 1 .. n : s[j] = x
      /\ \A x : x \in Remembers(f) <=> x # 0 /\ \E j \in 1 .. n : t[j] = x
  <2> HIDE DEF f
  <2> QED  BY <1>2, RememberedSlots
<1>6. FreeSlots(e) = {j \in 1 .. n : s[j] = 0}  BY <1>1 DEF FreeSlots
<1>7. k \in 1 .. n  OBVIOUS
<1> HIDE DEF s, t, n
<1>8. NoRepeat(f, l)
  <2>1. \A j, i \in 1 .. n : t[j] = t[i] /\ t[j] # 0 => j = i  BY <1>1, <1>3, <1>4
  <2> HIDE DEF f
  <2> QED  BY <2>1 DEF NoRepeat, t, n
<1> HIDE DEF f
<1>9. \A x \in Remembers(e) \ Remembers(f) : x = s[k]
  <2> SUFFICES ASSUME NEW x \in Remembers(e), x \notin Remembers(f) PROVE x = s[k]  OBVIOUS
  <2>1. PICK j \in 1 .. n : s[j] = x /\ x # 0  BY <1>5
  <2>2. t[j] # x  BY <1>5, <2>1
  <2> QED  BY <1>3, <2>1, <2>2
<1>10. ASSUME k \in FreeSlots(e) PROVE KeptIn(e, l, f)
  <2>1. s[k] = 0  BY <1>6, <1>10
  <2>2. Remembers(e) \ Remembers(f) = {}  BY <1>5, <1>9, <2>1
  <2> QED  BY <2>2 DEF KeptIn
<1>11. ASSUME FreeSlots(e) = {}, l = Len(Slots) PROVE KeptIn(e, l, f)
  <2>1. s[k] # 0  BY <1>6, <1>7, <1>11
  <2>2. s[k] \in Remembers(e)  BY <1>5, <1>7, <2>1
  <2>3. s[k] \notin Remembers(f)
    <3>1. \A j \in 1 .. n : t[j] # s[k]  BY <1>1, <1>3, <1>4, <1>7, <2>1
    <3> QED  BY <1>5, <3>1
  <2>4. Remembers(e) \ Remembers(f) = {s[k]}  BY <1>9, <2>2, <2>3
  <2>5. Cardinality({s[k]}) = 1  BY FS_Singleton
  <2>6. Cardinality(Remembers(e)) = Slots[l]  BY <1>11, FullEntry
  <2> QED  BY <1>11, <2>4, <2>5, <2>6 DEF KeptIn
<1> QED  BY <1>2, <1>8, <1>10, <1>11 DEF f

\* A promotion loses nothing.
LEMMA PromotedKeeps ==
  ASSUME NEW l \in Levels, l < Len(Slots), NEW e \in IripEntry(l), NoRepeat(e, l),
         NEW d \in Int, d \notin Range(e.successor_delta)
  PROVE  LET f == Promoted(e, l, d)
         IN f \in IripEntry(l + 1) /\ f.vpn = e.vpn /\ NoRepeat(f, l + 1) /\ KeptIn(e, l, f)
<1> DEFINE m == Slots[l]
           n == Slots[l + 1]
           s == e.successor_delta
           f == Promoted(e, l, d)
           t == f.successor_delta
<1>1. m \in Nat /\ n \in Nat /\ n > m /\ m >= 1 /\ l + 1 \in Levels  BY IripConstants
<1>2. s \in [1 .. m -> Int] /\ \A j \in 1 .. m : s[j] # d  BY DEF IripEntry, Range
<1> DEFINE all == {e.vpn} \X Int
<1>3. EntryOf(e, l, all)
  <2>1. \A k \in 1 .. m : s[k] \in Int  BY <1>2
  <2> QED  BY <2>1 DEF EntryOf
<1>4. f \in IripEntry(l + 1) /\ f.vpn = e.vpn
  <2>1. <<e.vpn, d>> \in all  OBVIOUS
  <2> HIDE DEF all
  <2>2. EntryOf(f, l + 1, all) /\ f.vpn = e.vpn  BY <1>3, <2>1, PromotedOf
  <2> HIDE DEF f
  <2> QED  BY <2>2 DEF EntryOf
<1>5. t = [Padded(s, n) EXCEPT ![m + 1] = d]  BY DEF Promoted
<1>6. \A j, i \in 1 .. m : s[j] = s[i] /\ s[j] # 0 => j = i  BY DEF NoRepeat
<1>7. /\ \A x : x \in Remembers(e) <=> x # 0 /\ \E j \in 1 .. m : s[j] = x
      /\ \A x : x \in Remembers(f) <=> x # 0 /\ \E j \in 1 .. n : t[j] = x
  <2> HIDE DEF f
  <2> QED  BY <1>1, <1>4, RememberedSlots
<1> HIDE DEF m, n, s, t
<1>8. \A j \in 1 .. n : t[j] = IF j = m + 1 THEN d ELSE IF j \in 1 .. m THEN s[j] ELSE 0
  <2>1. \A j \in 1 .. n : Padded(s, n)[j] = IF j \in 1 .. m THEN s[j] ELSE 0
    BY <1>2 DEF Padded
  <2>2. DOMAIN Padded(s, n) = 1 .. n  BY DEF Padded
  <2> QED  BY <1>5, <2>1, <2>2
<1>9. \A j \in 1 .. m : j \in 1 .. n /\ t[j] = s[j]
  <2>1. \A j \in 1 .. m : j \in 1 .. n /\ j # m + 1  BY <1>1
  <2> QED  BY <1>8, <2>1
<1>10. NoRepeat(f, l + 1)
  <2>1. \A j, i \in 1 .. n : t[j] = t[i] /\ t[j] # 0 => j = i  BY <1>2, <1>6, <1>8
  <2> HIDE DEF f
  <2> QED  BY <2>1 DEF NoRepeat, t, n
<1> HIDE DEF f
<1>11. Remembers(e) \ Remembers(f) = {}
  <2>1. \A x \in Remembers(e) : x \in Remembers(f)  BY <1>7, <1>9
  <2> QED  BY <2>1
<1> QED  BY <1>4, <1>10, <1>11 DEF KeptIn, f

\* The least confident slot is one of the entry's.
LEMMA LeastConfidentSlot ==
  ASSUME NEW l \in Levels, NEW e \in IripEntry(l)
  PROVE  LeastConfident(e) \in 1 .. Slots[l]
<1> DEFINE values == {e.confidence[k] : k \in 1 .. Slots[l]}
           least == {k \in DOMAIN e.confidence : \A j \in DOMAIN e.confidence :
                       e.confidence[k] =< e.confidence[j]}
<1>1. DOMAIN e.confidence = 1 .. Slots[l] /\ e.confidence \in [1 .. Slots[l] -> 0 .. ConfLimit]
  BY DEF IripEntry
<1>2. values \in SUBSET Nat /\ values # {}
  <2>1. 1 \in 1 .. Slots[l]  BY IripConstants
  <2>2. \A k \in 1 .. Slots[l] : e.confidence[k] \in Nat
    <3>1. \A v \in 0 .. ConfLimit : v \in Nat  BY IripConstants
    <3> QED  BY <1>1, <3>1
  <2> QED  BY <2>1, <2>2
<1>3. PICK v \in values : \A y \in values : v =< y  BY <1>2, LeastElement
<1>4. least # {}
  <2>1. PICK k \in 1 .. Slots[l] : e.confidence[k] = v  BY <1>3
  <2>2. \A j \in 1 .. Slots[l] : e.confidence[k] =< e.confidence[j]  BY <1>3, <2>1
  <2> QED  BY <1>1, <2>2
<1>5. least \in SUBSET Nat  BY <1>1
<1>6. Min(least) \in least  BY <1>4, <1>5, LeastElement
<1> QED  BY <1>1, <1>6 DEF LeastConfident

-----------------------------------------------------------------------------
(* The prediction tables. *)

\* A way of a row of a level.
Place(l, r, w) == l \in Levels /\ r \in 0 .. Sets[l] - 1 /\ w \in Entries(l)

IripTyped(T) ==
  /\ DOMAIN T = Levels
  /\ \A l \in Levels : T[l] \in [0 .. Sets[l] - 1 -> [Entries(l) -> IripEntry(l)]]

\* The tables as a whole: successors in S, and one place for a page.
IripTrue(T, S) ==
  /\ IripTyped(T)
  /\ \A l, r, w : Place(l, r, w) => EntryOf(T[l][r][w], l, S)
  /\ \A l, r, w, m, s, x :
       Place(l, r, w) /\ Place(m, s, x) /\ T[l][r][w].vpn = T[m][s][x].vpn
       /\ T[l][r][w].vpn # 0
       => l = m /\ r = s /\ w = x /\ r = IripRow(l, T[l][r][w].vpn)

\* No other place holds this page.
OnlyAt(T, tag, l, r, w) ==
  \A m, s, x : Place(m, s, x) /\ T[m][s][x].vpn = tag => m = l /\ s = r /\ x = w

\* One entry of well-typed tables is replaced.
LEMMA PlaceReplaced ==
  ASSUME NEW T, IripTyped(T), NEW l, NEW r, NEW w, Place(l, r, w), NEW e \in IripEntry(l)
  PROVE  LET T2 == [T EXCEPT ![l][r][w] = e]
         IN /\ IripTyped(T2)
            /\ \A m, s, x : Place(m, s, x) =>
                 T2[m][s][x] = IF m = l /\ s = r /\ x = w THEN e ELSE T[m][s][x]
<1> DEFINE row   == [T[l][r] EXCEPT ![w] = e]
           table == [T[l] EXCEPT ![r] = row]
           T2    == [T EXCEPT ![l][r][w] = e]
<1>1. /\ DOMAIN T = Levels
      /\ \A m \in Levels : T[m] \in [0 .. Sets[m] - 1 -> [Entries(m) -> IripEntry(m)]]
  BY DEF IripTyped
<1>2. l \in Levels /\ r \in 0 .. Sets[l] - 1 /\ w \in Entries(l)  BY DEF Place
<1>3. T[l] \in [0 .. Sets[l] - 1 -> [Entries(l) -> IripEntry(l)]]  BY <1>1, <1>2
<1>4. row \in [Entries(l) -> IripEntry(l)]
      /\ \A x \in Entries(l) : row[x] = IF x = w THEN e ELSE T[l][r][x]
  <2>1. T[l][r] \in [Entries(l) -> IripEntry(l)]  BY <1>2, <1>3
  <2> QED  BY <1>2, <2>1
<1> HIDE DEF row
<1>5. table \in [0 .. Sets[l] - 1 -> [Entries(l) -> IripEntry(l)]]
      /\ \A s \in 0 .. Sets[l] - 1 : table[s] = IF s = r THEN row ELSE T[l][s]
  BY <1>2, <1>3, <1>4
<1> HIDE DEF table
<1>6. T2 = [T EXCEPT ![l] = table]  BY DEF table, row
<1> HIDE DEF T2
<1>7. DOMAIN T2 = Levels /\ \A m \in Levels : T2[m] = IF m = l THEN table ELSE T[m]
  BY <1>1, <1>6
<1>8. IripTyped(T2)  BY <1>1, <1>5, <1>7 DEF IripTyped
<1>9. ASSUME NEW m, NEW s, NEW x, Place(m, s, x)
      PROVE  T2[m][s][x] = IF m = l /\ s = r /\ x = w THEN e ELSE T[m][s][x]
  <2>1. m \in Levels /\ s \in 0 .. Sets[m] - 1 /\ x \in Entries(m)  BY <1>9 DEF Place
  <2>2. CASE m # l
    <3>1. T2[m] = T[m]  BY <1>7, <2>1, <2>2
    <3> QED  BY <2>2, <3>1
  <2>3. CASE m = l /\ s # r
    <3>1. T2[m] = table /\ table[s] = T[l][s]  BY <1>5, <1>7, <2>1, <2>3
    <3> QED  BY <2>3, <3>1
  <2>4. CASE m = l /\ s = r
    <3>1. T2[m] = table /\ table[s] = row  BY <1>5, <1>7, <2>1, <2>4
    <3>2. row[x] = IF x = w THEN e ELSE T[l][r][x]  BY <1>4, <2>1, <2>4
    <3> QED  BY <2>4, <3>1, <3>2
  <2> QED  BY <2>2, <2>3, <2>4
<1> QED  BY <1>8, <1>9 DEF T2

\* One entry is replaced, by a free one or by the only one of its page.
LEMMA EntryReplaced ==
  ASSUME NEW T, NEW S, IripTrue(T, S), NEW l, NEW r, NEW w, Place(l, r, w),
         NEW e, EntryOf(e, l, S),
         e.vpn = 0 \/ (r = IripRow(l, e.vpn) /\ OnlyAt(T, e.vpn, l, r, w))
  PROVE  /\ IripTrue([T EXCEPT ![l][r][w] = e], S)
         /\ \A m, s, x : Place(m, s, x) => [T EXCEPT ![l][r][w] = e][m][s][x] =
              IF m = l /\ s = r /\ x = w THEN e ELSE T[m][s][x]
<1> DEFINE T2 == [T EXCEPT ![l][r][w] = e]
<1>1. IripTyped(T) /\ e \in IripEntry(l)  BY DEF IripTrue, EntryOf
<1>2. IripTyped(T2) /\ \A m, s, x : Place(m, s, x) =>
        T2[m][s][x] = IF m = l /\ s = r /\ x = w THEN e ELSE T[m][s][x]
  BY <1>1, PlaceReplaced
<1> HIDE DEF T2
<1>3. IripTyped(T2)  BY <1>2
<1>4. ASSUME NEW m, NEW s, NEW x, Place(m, s, x)
      PROVE  T2[m][s][x] = IF m = l /\ s = r /\ x = w THEN e ELSE T[m][s][x]
  BY <1>2, <1>4
<1>5. ASSUME NEW m, NEW s, NEW x, Place(m, s, x) PROVE EntryOf(T2[m][s][x], m, S)
  <2>1. CASE m = l /\ s = r /\ x = w
    <3>1. T2[m][s][x] = e  BY <1>4, <1>5, <2>1
    <3> QED  BY <2>1, <3>1
  <2>2. CASE ~(m = l /\ s = r /\ x = w)
    <3>1. T2[m][s][x] = T[m][s][x]  BY <1>4, <1>5, <2>2
    <3> QED  BY <1>5, <3>1 DEF IripTrue
  <2> QED  BY <2>1, <2>2
<1>6. ASSUME NEW m, NEW s, NEW x, NEW n, NEW t, NEW y, Place(m, s, x), Place(n, t, y),
              T2[m][s][x].vpn = T2[n][t][y].vpn, T2[m][s][x].vpn # 0
       PROVE  m = n /\ s = t /\ x = y /\ s = IripRow(m, T2[m][s][x].vpn)
  <2>1. CASE (m = l /\ s = r /\ x = w) /\ (n = l /\ t = r /\ y = w)
    <3>1. T2[m][s][x] = e  BY <1>4, <1>6, <2>1
    <3> QED  BY <1>6, <2>1, <3>1
  <2>2. CASE (m = l /\ s = r /\ x = w) /\ ~(n = l /\ t = r /\ y = w)
    <3>1. T2[m][s][x] = e /\ T2[n][t][y] = T[n][t][y]  BY <1>4, <1>6, <2>2
    <3>2. OnlyAt(T, e.vpn, l, r, w) /\ T[n][t][y].vpn = e.vpn  BY <1>6, <3>1
    <3>3. n = l /\ t = r /\ y = w  BY <1>6, <3>2 DEF OnlyAt
    <3> QED  BY <2>2, <3>3
  <2>3. CASE ~(m = l /\ s = r /\ x = w) /\ (n = l /\ t = r /\ y = w)
    <3>1. T2[m][s][x] = T[m][s][x] /\ T2[n][t][y] = e  BY <1>4, <1>6, <2>3
    <3>2. OnlyAt(T, e.vpn, l, r, w) /\ T[m][s][x].vpn = e.vpn  BY <1>6, <3>1
    <3>3. m = l /\ s = r /\ x = w  BY <1>6, <3>2 DEF OnlyAt
    <3> QED  BY <2>3, <3>3
  <2>4. CASE ~(m = l /\ s = r /\ x = w) /\ ~(n = l /\ t = r /\ y = w)
    <3>1. T2[m][s][x] = T[m][s][x] /\ T2[n][t][y] = T[n][t][y]  BY <1>4, <1>6, <2>4
    <3> QED  BY <1>6, <3>1 DEF IripTrue
  <2> QED  BY <2>1, <2>2, <2>3, <2>4
<1>7. IripTrue(T2, S)  BY <1>3, <1>5, <1>6, Zenon DEF IripTrue
<1> QED  BY <1>4, <1>7 DEF T2

\* Every entry keeps its page and its successors.
LEMMA ConfidenceChanged ==
  ASSUME NEW T, NEW S, IripTrue(T, S), NEW T2, IripTyped(T2),
         \A l, r, w : Place(l, r, w) => SameSuccessors(T2[l][r][w], T[l][r][w], l)
  PROVE  IripTrue(T2, S)
<1>1. ASSUME NEW l, NEW r, NEW w, Place(l, r, w)
      PROVE  EntryOf(T2[l][r][w], l, S) /\ T2[l][r][w].vpn = T[l][r][w].vpn
  <2>1. l \in Levels  BY <1>1 DEF Place
  <2>2. EntryOf(T[l][r][w], l, S)  BY <1>1 DEF IripTrue
  <2>3. SameSuccessors(T2[l][r][w], T[l][r][w], l)  BY <1>1
  <2>4. EntryOf(T2[l][r][w], l, S)  BY <2>1, <2>2, <2>3, SameEntryOf
  <2> QED  BY <2>3, <2>4 DEF SameSuccessors
<1>2. ASSUME NEW l, NEW r, NEW w, NEW m, NEW s, NEW x, Place(l, r, w), Place(m, s, x),
             T2[l][r][w].vpn = T2[m][s][x].vpn, T2[l][r][w].vpn # 0
      PROVE  l = m /\ r = s /\ w = x /\ r = IripRow(l, T2[l][r][w].vpn)
  <2>1. T2[l][r][w].vpn = T[l][r][w].vpn /\ T2[m][s][x].vpn = T[m][s][x].vpn
    BY <1>1, <1>2
  <2> QED  BY <1>2, <2>1 DEF IripTrue
<1>3. \A l, r, w : Place(l, r, w) => EntryOf(T2[l][r][w], l, S)  BY <1>1
<1> QED  BY <1>2, <1>3, Zenon DEF IripTrue

LEMMA RewardedTrue ==
  ASSUME NEW T, NEW S, IripTrue(T, S), NEW page
  PROVE  IripTrue(Rewarded(T, page), S)
<1> DEFINE T2 == Rewarded(T, page)
<1>1. \A l \in Levels : T[l] \in [0 .. Sets[l] - 1 -> [Entries(l) -> IripEntry(l)]]
  BY DEF IripTrue, IripTyped
<1>2. ASSUME NEW l, NEW r, NEW w, Place(l, r, w)
      PROVE  SameSuccessors(T2[l][r][w], T[l][r][w], l)
  <2>1. l \in Levels /\ r \in 0 .. Sets[l] - 1 /\ w \in Entries(l)  BY <1>2 DEF Place
  <2>2. T[l][r][w] \in IripEntry(l) /\ DOMAIN T[l] = 0 .. Sets[l] - 1  BY <1>1, <2>1
  <2>3. CASE l = 1
    <3>1. T2[l] = T[l]  BY <2>1, <2>3 DEF Rewarded
    <3> QED  BY <2>2, <3>1 DEF SameSuccessors
  <2>4. CASE l # 1
    <3>1. T2[l][r][w] = RewardedEntry(T[l][r][w], page)
      BY <2>1, <2>2, <2>4 DEF Rewarded
    <3> QED  BY <2>1, <2>2, <3>1, RewardedSame
  <2> QED  BY <2>3, <2>4
<1>3. IripTyped(T2)
  <2>1. ASSUME NEW l \in Levels
        PROVE  T2[l] \in [0 .. Sets[l] - 1 -> [Entries(l) -> IripEntry(l)]]
    <3>1. CASE l = 1  BY <1>1, <3>1 DEF Rewarded
    <3>2. CASE l # 1
      <4>1. DOMAIN T[l] = 0 .. Sets[l] - 1  BY <1>1
      <4>2. T2[l] = [r \in 0 .. Sets[l] - 1 |-> [w \in Entries(l) |-> RewardedEntry(T[l][r][w], page)]]
        BY <3>2, <4>1 DEF Rewarded
      <4>3. ASSUME NEW r \in 0 .. Sets[l] - 1, NEW w \in Entries(l)
            PROVE  RewardedEntry(T[l][r][w], page) \in IripEntry(l)
        <5>1. T[l][r][w] \in IripEntry(l)  BY <1>1
        <5> QED  BY <5>1, RewardedSame DEF SameSuccessors
      <4> QED  BY <4>2, <4>3
    <3> QED  BY <3>1, <3>2
  <2>2. DOMAIN T2 = Levels  BY DEF Rewarded
  <2> QED  BY <2>1, <2>2 DEF IripTyped
<1> HIDE DEF T2
<1>4. IripTrue(T2, S)  BY <1>2, <1>3, ConfidenceChanged
<1> QED  BY <1>4 DEF T2

LEMMA DecayedTrue ==
  ASSUME NEW T, NEW S, IripTrue(T, S)
  PROVE  IripTrue(Decayed(T), S)
<1> DEFINE T2 == Decayed(T)
<1>1. \A l \in Levels : T[l] \in [0 .. Sets[l] - 1 -> [Entries(l) -> IripEntry(l)]]
  BY DEF IripTrue, IripTyped
<1>2. ASSUME NEW l \in Levels
      PROVE  T2[l] = [r \in 0 .. Sets[l] - 1 |-> [w \in Entries(l) |-> DecayedEntry(T[l][r][w])]]
  <2>1. DOMAIN T[l] = 0 .. Sets[l] - 1  BY <1>1
  <2> QED  BY <2>1 DEF Decayed
<1>3. ASSUME NEW l \in Levels, NEW r \in 0 .. Sets[l] - 1, NEW w \in Entries(l)
      PROVE  SameSuccessors(DecayedEntry(T[l][r][w]), T[l][r][w], l)
  <2>1. T[l][r][w] \in IripEntry(l)  BY <1>1
  <2> QED  BY <2>1, DecayedSame
<1>4. ASSUME NEW l, NEW r, NEW w, Place(l, r, w)
      PROVE  SameSuccessors(T2[l][r][w], T[l][r][w], l)
  <2>1. l \in Levels /\ r \in 0 .. Sets[l] - 1 /\ w \in Entries(l)  BY <1>4 DEF Place
  <2> HIDE DEF T2
  <2>2. T2[l] = [q \in 0 .. Sets[l] - 1 |-> [x \in Entries(l) |-> DecayedEntry(T[l][q][x])]]
    BY <1>2, <2>1
  <2>3. T2[l][r][w] = DecayedEntry(T[l][r][w])  BY <2>1, <2>2
  <2> QED  BY <1>3, <2>1, <2>3
<1>5. IripTyped(T2)
  <2>1. ASSUME NEW l \in Levels
        PROVE  T2[l] \in [0 .. Sets[l] - 1 -> [Entries(l) -> IripEntry(l)]]
    <3>1. \A r \in 0 .. Sets[l] - 1, w \in Entries(l) :
            DecayedEntry(T[l][r][w]) \in IripEntry(l)
      BY <1>3 DEF SameSuccessors
    <3>2. T2[l] = [r \in 0 .. Sets[l] - 1 |-> [w \in Entries(l) |-> DecayedEntry(T[l][r][w])]]
      BY <1>2
    <3> HIDE DEF T2
    <3> QED  BY <3>1, <3>2
  <2>2. DOMAIN T2 = Levels  BY DEF Decayed
  <2> QED  BY <2>1, <2>2 DEF IripTyped
<1> HIDE DEF T2
<1>6. IripTrue(T2, S)  BY <1>4, <1>5, ConfidenceChanged
<1> QED  BY <1>6 DEF T2

LEMMA PlacesType ==
  ASSUME NEW T, NEW l \in Levels, NEW tag, NEW way \in PlacesFor(T, l, tag)
  PROVE  way \in Entries(l)
<1> DEFINE wanted == {w \in Entries(l) : IripRowOf(T, l, tag)[w].vpn = IF l =< 2 THEN 0 ELSE tag}
<1>1. wanted \in SUBSET Nat
  <2>1. \A w \in Entries(l) : w \in Nat  BY IripConstants DEF Entries
  <2> QED  BY <2>1
<1>2. CASE wanted = {}  BY <1>2 DEF PlacesFor
<1>3. CASE wanted # {}
  <2>1. Min(wanted) \in wanted  BY <1>1, <1>3, LeastElement
  <2>2. way = Min(wanted)  BY <1>3 DEF PlacesFor
  <2> QED  BY <2>1, <2>2
<1> QED  BY <1>2, <1>3

\* Where search_markov_table finds a page.
LEMMA KnownPlace ==
  ASSUME NEW T, NEW tag \in 0 .. TagSpan - 1, LevelsWith(T, tag) # {},
         NEW l, l = Level(T, tag), NEW way, way = Min(Holding(T, l, tag))
  PROVE  /\ Place(l, IripRow(l, tag), way)
         /\ T[l][IripRow(l, tag)][way].vpn = tag
         /\ Known(T, tag) = T[l][IripRow(l, tag)][way]
<1>1. LevelsWith(T, tag) \in SUBSET Nat  BY IripConstants DEF LevelsWith
<1>2. l \in LevelsWith(T, tag)  BY <1>1, LeastElement DEF Level
<1>3. l \in Levels /\ Holding(T, l, tag) # {}  BY <1>2 DEF LevelsWith
<1>4. Holding(T, l, tag) \in SUBSET Nat
  <2>1. \A w \in Entries(l) : w \in Nat  BY <1>3, IripConstants DEF Entries
  <2> QED  BY <2>1 DEF Holding
<1>5. way \in Holding(T, l, tag)  BY <1>3, <1>4, LeastElement
<1>6. way \in Entries(l) /\ T[l][IripRow(l, tag)][way].vpn = tag
  BY <1>5 DEF Holding, IripRowOf
<1>7. IripRow(l, tag) \in 0 .. Sets[l] - 1  BY <1>3, IripConstants
<1>8. Known(T, tag) = T[l][IripRow(l, tag)][way]  BY DEF Known, IripRowOf
<1> QED  BY <1>3, <1>6, <1>7, <1>8 DEF Place

LEMMA InsertedTrue ==
  ASSUME NEW T, NEW S, IripTrue(T, S), NEW tag \in 0 .. TagSpan - 1,
         LevelsWith(T, tag) = {}, NEW way \in Entries(1)
  PROVE  IripTrue(Inserted(T, tag, way), S)
<1> DEFINE e == [FreeEntry(1) EXCEPT !.vpn = tag]
           r == IripRow(1, tag)
<1>1. EntryOf(e, 1, S) /\ e.vpn = tag  BY InsertedEntryOf
<1>2. Inserted(T, tag, way) = [T EXCEPT ![1][r][way] = e]  BY DEF Inserted
<1>3. Place(1, r, way)  BY IripConstants DEF Place
<1> HIDE DEF e, r
<1>4. ASSUME tag # 0, NEW m, NEW s, NEW x, Place(m, s, x), T[m][s][x].vpn = tag
      PROVE  FALSE
  <2>1. s = IripRow(m, tag)  BY <1>4 DEF IripTrue
  <2>2. m \in Levels /\ x \in Holding(T, m, tag)
    BY <1>4, <2>1 DEF Holding, IripRowOf, Place
  <2> QED  BY <2>2 DEF LevelsWith
<1>5. e.vpn = 0 \/ (r = IripRow(1, e.vpn) /\ OnlyAt(T, e.vpn, 1, r, way))
  BY <1>1, <1>4 DEF OnlyAt, r
<1>6. IripTrue([T EXCEPT ![1][r][way] = e], S)
  BY <1>1, <1>3, <1>5, EntryReplaced
<1> QED  BY <1>2, <1>6

\* A new successor may be added to a page, wherever that page has to go.
LEMMA TrainedTrue ==
  ASSUME NEW T, NEW S, IripTrue(T, S), NEW tag \in 0 .. TagSpan - 1, NEW d \in Int,
         <<tag, d>> \in S, NEW trained \in Trained(T, tag, d)
  PROVE  IripTrue(trained, S)
<1> DEFINE l   == Level(T, tag)
           way == Min(Holding(T, l, tag))
           e   == Known(T, tag)
           r   == IripRow(l, tag)
<1>1. CASE LevelsWith(T, tag) = {} \/ d \in Range(e.successor_delta)
  <2>1. trained = T  BY <1>1 DEF Trained
  <2> QED  BY <2>1
<1>2. CASE ~(LevelsWith(T, tag) = {} \/ d \in Range(e.successor_delta))
  <2>1. Place(l, r, way) /\ T[l][r][way].vpn = tag /\ e = T[l][r][way]
    BY <1>2, KnownPlace
  <2>2. \/ FreeSlots(e) # {} /\ trained = [T EXCEPT ![l][r][way] = WithSuccessor(e, Min(FreeSlots(e)), d)]
        \/ FreeSlots(e) = {} /\ l < Len(Slots)
           /\ \E target \in PlacesFor(T, l + 1, tag) : trained = Moved(T, l, way, tag, target, d)
        \/ trained = [T EXCEPT ![l][r][way] = WithSuccessor(e, LeastConfident(e), d)]
    BY <1>2 DEF Trained
  <2> HIDE DEF l, way, e, r
  <2>3. l \in Levels /\ EntryOf(e, l, S) /\ e.vpn = tag
    BY <2>1 DEF IripTrue, Place
  <2>4. e \in IripEntry(l)  BY <2>3 DEF EntryOf
  <2>5. DOMAIN e.successor_delta = 1 .. Slots[l] /\ DOMAIN e.confidence = 1 .. Slots[l]
        /\ e.confidence \in [1 .. Slots[l] -> 0 .. ConfLimit]
    BY <2>4 DEF IripEntry
  <2>6. Slots[l] \in Nat /\ Slots[l] >= 1  BY <2>3, IripConstants
  <2>7. tag # 0 => OnlyAt(T, tag, l, r, way)
    BY <2>1 DEF OnlyAt, IripTrue
  <2>8. r = IripRow(l, tag)  BY DEF r
  <2>9. ASSUME NEW k \in 1 .. Slots[l]
        PROVE  IripTrue([T EXCEPT ![l][r][way] = WithSuccessor(e, k, d)], S)
    <3> DEFINE f == WithSuccessor(e, k, d)
    <3>1. EntryOf(f, l, S) /\ f.vpn = tag  BY <2>3, WithSuccessorOf
    <3> HIDE DEF f
    <3>2. f.vpn = 0 \/ (r = IripRow(l, f.vpn) /\ OnlyAt(T, f.vpn, l, r, way))
      BY <2>7, <2>8, <3>1
    <3>3. IripTrue([T EXCEPT ![l][r][way] = f], S)
      BY <2>1, <3>1, <3>2, EntryReplaced
    <3> QED  BY <3>3 DEF f
  <2>10. CASE FreeSlots(e) # {} /\ trained = [T EXCEPT ![l][r][way] = WithSuccessor(e, Min(FreeSlots(e)), d)]
    <3>1. FreeSlots(e) \in SUBSET Nat  BY <2>5 DEF FreeSlots
    <3>2. Min(FreeSlots(e)) \in FreeSlots(e)  BY <2>10, <3>1, LeastElement
    <3>3. Min(FreeSlots(e)) \in 1 .. Slots[l]  BY <2>5, <3>2 DEF FreeSlots
    <3> QED  BY <2>9, <2>10, <3>3
  <2>11. CASE trained = [T EXCEPT ![l][r][way] = WithSuccessor(e, LeastConfident(e), d)]
    <3>1. LeastConfident(e) \in 1 .. Slots[l]  BY <2>3, <2>4, LeastConfidentSlot
    <3> QED  BY <2>9, <2>11, <3>1
  <2>12. CASE l < Len(Slots)
              /\ \E target \in PlacesFor(T, l + 1, tag) : trained = Moved(T, l, way, tag, target, d)
    <3>1. PICK target \in PlacesFor(T, l + 1, tag) : trained = Moved(T, l, way, tag, target, d)
      BY <2>12
    <3> DEFINE T1 == [T EXCEPT ![l][r][way] = FreeEntry(l)]
               r2 == IripRow(l + 1, tag)
               f  == Promoted(e, l, d)
    <3>2. IripTrue(T1, S)
          /\ \A m, s, x : Place(m, s, x) => T1[m][s][x] =
               IF m = l /\ s = r /\ x = way THEN FreeEntry(l) ELSE T[m][s][x]
      <4> HIDE DEF T1
      <4> DEFINE free == FreeEntry(l)
      <4>1. EntryOf(free, l, S) /\ free.vpn = 0  BY <2>3, FreeEntryOf
      <4> HIDE DEF free
      <4>2. /\ IripTrue([T EXCEPT ![l][r][way] = free], S)
            /\ \A m, s, x : Place(m, s, x) => [T EXCEPT ![l][r][way] = free][m][s][x] =
                 IF m = l /\ s = r /\ x = way THEN free ELSE T[m][s][x]
        BY <2>1, <4>1, EntryReplaced
      <4> QED  BY <4>2 DEF T1, free
    <3>3. trained = [T1 EXCEPT ![l + 1][r2][target] = f]
      BY <2>1, <3>1 DEF Moved, r, IripRowOf
    <3>4. EntryOf(f, l + 1, S) /\ f.vpn = tag  BY <2>3, <2>12, PromotedOf
    <3>5. l + 1 \in Levels  BY <2>3, <2>12, IripConstants
    <3>6. Place(l + 1, r2, target)
      BY <3>5, PlacesType, IripConstants DEF Place
    <3> HIDE DEF T1, f
    <3>7. tag # 0 => OnlyAt(T1, tag, l + 1, r2, target)
      <4> SUFFICES ASSUME tag # 0, NEW m, NEW s, NEW x, Place(m, s, x), T1[m][s][x].vpn = tag
                   PROVE  FALSE
        BY DEF OnlyAt
      <4>1. CASE m = l /\ s = r /\ x = way
        <5>1. T1[m][s][x] = FreeEntry(l)  BY <3>2, <4>1
        <5> QED  BY <2>3, <5>1, FreeEntryOf
      <4>2. CASE ~(m = l /\ s = r /\ x = way)
        <5>1. T[m][s][x].vpn = tag  BY <3>2, <4>2
        <5> QED  BY <2>7, <4>2, <5>1 DEF OnlyAt
      <4> QED  BY <4>1, <4>2
    <3>8. f.vpn = 0 \/ (r2 = IripRow(l + 1, f.vpn) /\ OnlyAt(T1, f.vpn, l + 1, r2, target))
      BY <3>4, <3>7
    <3>9. IripTrue([T1 EXCEPT ![l + 1][r2][target] = f], S)
      BY <3>2, <3>4, <3>6, <3>8, EntryReplaced
    <3> QED  BY <3>3, <3>9
  <2> QED  BY <2>2, <2>10, <2>11, <2>12
<1> QED  BY <1>1, <1>2

-----------------------------------------------------------------------------
(* What the tables remember. *)

\* No entry of the tables repeats a distance.
Unrepeated(T) == \A l, r, w : Place(l, r, w) => NoRepeat(T[l][r][w], l)

\* Every page of T2 was in T, whose entry of it remembers no more than T2's.
Inherits(T, T2) ==
  \A m, s, x : Place(m, s, x) /\ T2[m][s][x].vpn # 0 =>
    \E l, r, w : Place(l, r, w) /\ T[l][r][w].vpn = T2[m][s][x].vpn
                 /\ KeptIn(T[l][r][w], l, T2[m][s][x])

LEMMA NothingLost ==
  ASSUME NEW l, NEW e, NEW f, f.successor_delta = e.successor_delta
  PROVE  KeptIn(e, l, f) /\ (NoRepeat(e, l) => NoRepeat(f, l))
BY DEF KeptIn, Remembers, NoRepeat

\* A change of confidence moves no page and changes no successor.
SamePlaces(T, T2) ==
  \A l, r, w : Place(l, r, w) =>
    T2[l][r][w].vpn = T[l][r][w].vpn /\ T2[l][r][w].successor_delta = T[l][r][w].successor_delta

LEMMA StaysUnrepeated ==
  ASSUME NEW T, NEW T2, SamePlaces(T, T2), Unrepeated(T)
  PROVE  Unrepeated(T2)
<1>1. ASSUME NEW l, NEW r, NEW w, Place(l, r, w) PROVE NoRepeat(T2[l][r][w], l)
  <2>1. NoRepeat(T[l][r][w], l)  BY <1>1 DEF Unrepeated
  <2>2. T2[l][r][w].successor_delta = T[l][r][w].successor_delta  BY <1>1 DEF SamePlaces
  <2> QED  BY <2>1, <2>2, NothingLost
<1> QED  BY <1>1 DEF Unrepeated

LEMMA ConfidenceKept ==
  ASSUME NEW T, IripTyped(T), NEW page
  PROVE  SamePlaces(T, Rewarded(T, page)) /\ SamePlaces(T, Decayed(T))
<1>1. \A l \in Levels : T[l] \in [0 .. Sets[l] - 1 -> [Entries(l) -> IripEntry(l)]]
  BY DEF IripTyped
<1>2. ASSUME NEW l, NEW r, NEW w, Place(l, r, w)
      PROVE  /\ Rewarded(T, page)[l][r][w] = IF l = 1 THEN T[l][r][w] ELSE RewardedEntry(T[l][r][w], page)
             /\ Decayed(T)[l][r][w] = DecayedEntry(T[l][r][w])
             /\ l \in Levels /\ T[l][r][w] \in IripEntry(l)
  <2>1. l \in Levels /\ r \in 0 .. Sets[l] - 1 /\ w \in Entries(l)  BY <1>2 DEF Place
  <2>2. DOMAIN T[l] = 0 .. Sets[l] - 1 /\ T[l][r][w] \in IripEntry(l)  BY <1>1, <2>1
  <2>3. Decayed(T)[l][r][w] = DecayedEntry(T[l][r][w])  BY <2>1, <2>2 DEF Decayed
  <2>4. CASE l = 1
    <3>1. Rewarded(T, page)[l] = T[l]  BY <2>1, <2>4 DEF Rewarded
    <3> QED  BY <2>1, <2>2, <2>3, <2>4, <3>1
  <2>5. CASE l # 1
    <3>1. Rewarded(T, page)[l][r][w] = RewardedEntry(T[l][r][w], page)
      BY <2>1, <2>2, <2>5 DEF Rewarded
    <3> QED  BY <2>1, <2>2, <2>3, <2>5, <3>1
  <2> QED  BY <2>4, <2>5
<1>3. ASSUME NEW l, NEW r, NEW w, Place(l, r, w)
      PROVE  /\ Rewarded(T, page)[l][r][w].vpn = T[l][r][w].vpn
             /\ Rewarded(T, page)[l][r][w].successor_delta = T[l][r][w].successor_delta
             /\ Decayed(T)[l][r][w].vpn = T[l][r][w].vpn
             /\ Decayed(T)[l][r][w].successor_delta = T[l][r][w].successor_delta
  <2>1. l \in Levels /\ T[l][r][w] \in IripEntry(l)  BY <1>2, <1>3
  <2>2. /\ SameSuccessors(RewardedEntry(T[l][r][w], page), T[l][r][w], l)
        /\ SameSuccessors(DecayedEntry(T[l][r][w]), T[l][r][w], l)
    BY <2>1, RewardedSame, DecayedSame
  <2> QED  BY <1>2, <1>3, <2>2 DEF SameSuccessors
<1> QED  BY <1>3 DEF SamePlaces

LEMMA InsertedPlaces ==
  ASSUME NEW T, IripTyped(T), Unrepeated(T), NEW tag \in 0 .. TagSpan - 1, NEW way \in Entries(1)
  PROVE  LET T2 == Inserted(T, tag, way)
         IN /\ Unrepeated(T2)
            /\ \A l, r, w : Place(l, r, w) => T2[l][r][w].vpn = tag \/ T2[l][r][w] = T[l][r][w]
<1> DEFINE e  == [FreeEntry(1) EXCEPT !.vpn = tag]
           r0 == IripRow(1, tag)
           T2 == Inserted(T, tag, way)
<1>1. e \in IripEntry(1) /\ e.vpn = tag /\ NoRepeat(e, 1)
  <2>1. EntryOf(e, 1, {}) /\ e.vpn = tag  BY InsertedEntryOf
  <2>2. \A k \in 1 .. Slots[1] : e.successor_delta[k] = 0  BY DEF FreeEntry
  <2> HIDE DEF e
  <2> QED  BY <2>1, <2>2 DEF EntryOf, NoRepeat
<1>2. T2 = [T EXCEPT ![1][r0][way] = e]  BY DEF Inserted
<1>3. Place(1, r0, way)  BY IripConstants DEF Place
<1> HIDE DEF e, r0, T2
<1>4. \A l, r, w : Place(l, r, w) =>
        T2[l][r][w] = IF l = 1 /\ r = r0 /\ w = way THEN e ELSE T[l][r][w]
  BY <1>1, <1>2, <1>3, PlaceReplaced
<1>5. Unrepeated(T2)  BY <1>1, <1>4 DEF Unrepeated
<1> QED  BY <1>1, <1>4, <1>5 DEF T2

LEMMA EntryInherits ==
  ASSUME NEW T, IripTyped(T), Unrepeated(T), NEW l, NEW r, NEW w, Place(l, r, w),
         NEW e \in IripEntry(l), e.vpn = T[l][r][w].vpn, NoRepeat(e, l), KeptIn(T[l][r][w], l, e)
  PROVE  LET T2 == [T EXCEPT ![l][r][w] = e] IN Unrepeated(T2) /\ Inherits(T, T2)
<1> DEFINE T2 == [T EXCEPT ![l][r][w] = e]
<1>0. T2 = [T EXCEPT ![l][r][w] = e]  OBVIOUS
<1> HIDE DEF T2
<1>1. \A m, s, x : Place(m, s, x) =>
        T2[m][s][x] = IF m = l /\ s = r /\ x = w THEN e ELSE T[m][s][x]
  BY <1>0, PlaceReplaced
<1>2. Unrepeated(T2)  BY <1>1 DEF Unrepeated
<1>3. ASSUME NEW m, NEW s, NEW x, Place(m, s, x)
      PROVE  T[m][s][x].vpn = T2[m][s][x].vpn /\ KeptIn(T[m][s][x], m, T2[m][s][x])
  <2>1. CASE m = l /\ s = r /\ x = w  BY <1>1, <1>3, <2>1
  <2>2. CASE ~(m = l /\ s = r /\ x = w)
    <3>1. T2[m][s][x] = T[m][s][x]  BY <1>1, <1>3, <2>2
    <3> QED  BY <3>1, NothingLost
  <2> QED  BY <2>1, <2>2
<1>4. Inherits(T, T2)  BY <1>3 DEF Inherits
<1> QED  BY <1>2, <1>4 DEF T2

\* Training forgets a page or nothing of it, or changes one distance of a full
\* entry that has nowhere to grow.
LEMMA TrainedInherits ==
  ASSUME NEW T, IripTyped(T), Unrepeated(T), NEW tag \in 0 .. TagSpan - 1, NEW d \in Int,
         NEW trained \in Trained(T, tag, d)
  PROVE  Unrepeated(trained) /\ Inherits(T, trained)
<1> DEFINE l   == Level(T, tag)
           way == Min(Holding(T, l, tag))
           e   == Known(T, tag)
           r   == IripRow(l, tag)
<1>1. CASE LevelsWith(T, tag) = {} \/ d \in Range(e.successor_delta)
  <2>1. trained = T  BY <1>1 DEF Trained
  <2>2. \A m, s, x : KeptIn(T[m][s][x], m, T[m][s][x])  BY NothingLost
  <2>3. Inherits(T, T)  BY <2>2 DEF Inherits
  <2> QED  BY <2>1, <2>3
<1>2. CASE ~(LevelsWith(T, tag) = {} \/ d \in Range(e.successor_delta))
  <2>1. Place(l, r, way) /\ T[l][r][way].vpn = tag /\ e = T[l][r][way]
    BY <1>2, KnownPlace
  <2>2. \/ FreeSlots(e) # {} /\ trained = [T EXCEPT ![l][r][way] = WithSuccessor(e, Min(FreeSlots(e)), d)]
        \/ FreeSlots(e) = {} /\ l < Len(Slots)
           /\ \E target \in PlacesFor(T, l + 1, tag) : trained = Moved(T, l, way, tag, target, d)
        \/ FreeSlots(e) = {} /\ ~(l < Len(Slots))
           /\ trained = [T EXCEPT ![l][r][way] = WithSuccessor(e, LeastConfident(e), d)]
    BY <1>2 DEF Trained
  <2>3. d \notin Range(e.successor_delta)  BY <1>2
  <2> HIDE DEF l, way, e, r
  <2>4. l \in Levels /\ r \in 0 .. Sets[l] - 1 /\ way \in Entries(l)  BY <2>1 DEF Place
  <2>5. e \in IripEntry(l) /\ NoRepeat(e, l)
    <3>1. T[l] \in [0 .. Sets[l] - 1 -> [Entries(l) -> IripEntry(l)]]  BY <2>4 DEF IripTyped
    <3> QED  BY <2>1, <2>4, <3>1 DEF Unrepeated
  <2>6. CASE FreeSlots(e) # {} /\ trained = [T EXCEPT ![l][r][way] = WithSuccessor(e, Min(FreeSlots(e)), d)]
    <3> DEFINE k == Min(FreeSlots(e))
               f == WithSuccessor(e, k, d)
    <3>1. FreeSlots(e) \subseteq 1 .. Slots[l]  BY <2>5 DEF FreeSlots, IripEntry
    <3>2. FreeSlots(e) \in SUBSET Nat
      <4>1. \A j \in 1 .. Slots[l] : j \in Nat  OBVIOUS
      <4> QED  BY <3>1, <4>1
    <3>3. k \in FreeSlots(e)  BY <2>6, <3>2, LeastElement
    <3>4. k \in 1 .. Slots[l]  BY <3>1, <3>3
    <3> HIDE DEF k
    <3>5. f \in IripEntry(l) /\ f.vpn = e.vpn /\ NoRepeat(f, l) /\ KeptIn(e, l, f)
      BY <2>3, <2>4, <2>5, <3>3, <3>4, SuccessorAdded
    <3>6. trained = [T EXCEPT ![l][r][way] = f]  BY <2>6 DEF k
    <3> HIDE DEF f
    <3> QED  BY <2>1, <3>5, <3>6, EntryInherits
  <2>7. CASE FreeSlots(e) = {} /\ ~(l < Len(Slots))
             /\ trained = [T EXCEPT ![l][r][way] = WithSuccessor(e, LeastConfident(e), d)]
    <3> DEFINE k == LeastConfident(e)
               f == WithSuccessor(e, k, d)
    <3>1. k \in 1 .. Slots[l]  BY <2>4, <2>5, LeastConfidentSlot
    <3>2. l = Len(Slots)  BY <2>4, <2>7, IripConstants DEF Levels
    <3> HIDE DEF k
    <3>3. f \in IripEntry(l) /\ f.vpn = e.vpn /\ NoRepeat(f, l) /\ KeptIn(e, l, f)
      BY <2>3, <2>4, <2>5, <2>7, <3>1, <3>2, SuccessorAdded
    <3>4. trained = [T EXCEPT ![l][r][way] = f]  BY <2>7 DEF k
    <3> HIDE DEF f
    <3> QED  BY <2>1, <3>3, <3>4, EntryInherits
  <2>8. CASE FreeSlots(e) = {} /\ l < Len(Slots)
             /\ \E target \in PlacesFor(T, l + 1, tag) : trained = Moved(T, l, way, tag, target, d)
    <3>1. PICK target \in PlacesFor(T, l + 1, tag) : trained = Moved(T, l, way, tag, target, d)
      BY <2>8
    <3> DEFINE free == FreeEntry(l)
               T1   == [T EXCEPT ![l][r][way] = free]
               r2   == IripRow(l + 1, tag)
               f    == Promoted(e, l, d)
    <3>2. free \in IripEntry(l) /\ NoRepeat(free, l) /\ free.vpn = 0
      <4>1. EntryOf(free, l, {}) /\ free.vpn = 0  BY <2>4, FreeEntryOf
      <4>2. \A k \in 1 .. Slots[l] : free.successor_delta[k] = 0  BY DEF FreeEntry
      <4> HIDE DEF free
      <4> QED  BY <4>1, <4>2 DEF EntryOf, NoRepeat
    <3>3. f \in IripEntry(l + 1) /\ f.vpn = e.vpn /\ NoRepeat(f, l + 1) /\ KeptIn(e, l, f)
      BY <2>3, <2>4, <2>5, <2>8, PromotedKeeps
    <3>4. trained = [T1 EXCEPT ![l + 1][r2][target] = f]
      BY <2>1, <3>1 DEF Moved, r, IripRowOf
    <3>5. l + 1 \in Levels /\ l + 1 # l  BY <2>4, <2>8, IripConstants
    <3>6. Place(l + 1, r2, target)
      BY <3>5, PlacesType, IripConstants DEF Place
    <3> HIDE DEF free, f, r2
    <3>7. IripTyped(T1) /\ \A m, s, x : Place(m, s, x) =>
            T1[m][s][x] = IF m = l /\ s = r /\ x = way THEN free ELSE T[m][s][x]
      BY <2>1, <3>2, PlaceReplaced
    <3> HIDE DEF T1
    <3>8. \A m, s, x : Place(m, s, x) =>
            trained[m][s][x] = IF m = l + 1 /\ s = r2 /\ x = target THEN f ELSE T1[m][s][x]
      BY <3>3, <3>4, <3>6, <3>7, PlaceReplaced
    <3>9. ASSUME NEW m, NEW s, NEW x, Place(m, s, x)
          PROVE  \/ m = l + 1 /\ trained[m][s][x] = f
                 \/ m = l /\ trained[m][s][x] = free
                 \/ trained[m][s][x] = T[m][s][x]
      BY <3>7, <3>8, <3>9
    <3>10. Unrepeated(trained)  BY <3>2, <3>3, <3>9 DEF Unrepeated
    <3>11. ASSUME NEW m, NEW s, NEW x, Place(m, s, x), trained[m][s][x].vpn # 0
           PROVE  \E q, t, y : Place(q, t, y) /\ T[q][t][y].vpn = trained[m][s][x].vpn
                               /\ KeptIn(T[q][t][y], q, trained[m][s][x])
      <4>1. CASE trained[m][s][x] = f  BY <2>1, <3>3, <4>1
      <4>2. CASE trained[m][s][x] = free  BY <3>2, <3>11, <4>2
      <4>3. CASE trained[m][s][x] = T[m][s][x]
        <5>1. KeptIn(T[m][s][x], m, trained[m][s][x])  BY <4>3, NothingLost
        <5> QED  BY <3>11, <4>3, <5>1
      <4> QED  BY <3>9, <3>11, <4>1, <4>2, <4>3
    <3> QED  BY <3>10, <3>11 DEF Inherits
  <2> QED  BY <2>2, <2>6, <2>7, <2>8
<1> QED  BY <1>1, <1>2

\* Where a page stands in its tables, a search finds it.
LEMMA HeldIsFound ==
  ASSUME NEW T, NEW S, IripTrue(T, S), NEW l, NEW r, NEW w, Place(l, r, w),
         NEW tag, T[l][r][w].vpn = tag, tag # 0
  PROVE  LevelsWith(T, tag) # {}
<1>1. r = IripRow(l, tag)  BY DEF IripTrue
<1>2. l \in Levels /\ w \in Holding(T, l, tag)  BY <1>1 DEF Holding, IripRowOf, Place
<1> QED  BY <1>2 DEF LevelsWith

\* From one call to the next, a page that stays keeps what it knew.
Carries(T, T2) ==
  \A l, r, w, m, s, x :
    Place(l, r, w) /\ Place(m, s, x) /\ T[l][r][w].vpn = T2[m][s][x].vpn /\ T[l][r][w].vpn # 0
    => KeptIn(T[l][r][w], l, T2[m][s][x])

\* B is A, or has the page that A has not.
MayInsert(A, B, tag) ==
  B = A \/ /\ LevelsWith(A, tag) = {}
           /\ \A l, r, w : Place(l, r, w) => B[l][r][w].vpn = tag \/ B[l][r][w] = A[l][r][w]

LEMMA CarriedThrough ==
  ASSUME NEW T, NEW S, IripTrue(T, S), NEW A, SamePlaces(T, A), IripTrue(A, S),
         NEW tag, NEW B, MayInsert(A, B, tag),
         NEW C, Inherits(B, C), NEW D, SamePlaces(C, D)
  PROVE  Carries(T, D)
<1> SUFFICES ASSUME NEW l, NEW r, NEW w, NEW m, NEW s, NEW x, Place(l, r, w), Place(m, s, x),
                    T[l][r][w].vpn = D[m][s][x].vpn, T[l][r][w].vpn # 0
             PROVE  KeptIn(T[l][r][w], l, D[m][s][x])
  BY DEF Carries
<1>1. /\ C[m][s][x].vpn = T[l][r][w].vpn
      /\ D[m][s][x].successor_delta = C[m][s][x].successor_delta
  BY DEF SamePlaces
<1>2. PICK q, t, y : Place(q, t, y) /\ B[q][t][y].vpn = T[l][r][w].vpn
                     /\ KeptIn(B[q][t][y], q, C[m][s][x])
  BY <1>1 DEF Inherits
<1>3. A[l][r][w].vpn = T[l][r][w].vpn /\ A[l][r][w].successor_delta = T[l][r][w].successor_delta
  BY DEF SamePlaces
<1>4. B[q][t][y] = A[q][t][y]
  <2>1. LevelsWith(A, T[l][r][w].vpn) # {}  BY <1>3, HeldIsFound
  <2> QED  BY <1>2, <2>1 DEF MayInsert
<1>5. q = l /\ t = r /\ y = w
  <2>1. A[q][t][y].vpn = A[l][r][w].vpn /\ A[q][t][y].vpn # 0  BY <1>2, <1>3, <1>4
  <2> QED  BY <1>2, <2>1 DEF IripTrue
<1>6. Remembers(B[q][t][y]) = Remembers(T[l][r][w])  BY <1>3, <1>4, <1>5 DEF Remembers
<1>7. Remembers(C[m][s][x]) = Remembers(D[m][s][x])  BY <1>1 DEF Remembers
<1> QED  BY <1>2, <1>5, <1>6, <1>7 DEF KeptIn

-----------------------------------------------------------------------------
(* The prediction tables follow the stream. *)

\* The tags and distances that the stream has shown.
Followed == {<<PartialVpn(misses[i]), Observed(i)>> : i \in 1 .. Len(misses) - 1}

IripInv ==
  /\ misses \in Seq(Pages)
  /\ decay_timer \in 0 .. ResetFreq
  /\ IripTrue(irip, Followed)
  /\ Unrepeated(irip)

LEMMA IripTrueGrows ==
  ASSUME NEW T, NEW S, NEW S2, IripTrue(T, S), S \subseteq S2
  PROVE  IripTrue(T, S2)
<1>1. ASSUME NEW l, NEW r, NEW w, Place(l, r, w) PROVE EntryOf(T[l][r][w], l, S2)
  BY <1>1 DEF IripTrue, EntryOf
<1> QED  BY <1>1, Zenon DEF IripTrue

LEMMA IripStep ==
  ASSUME IripInv, NEW page \in Pages, misses' = Append(misses, page),
         NEW answered, IripOperate(page, answered)
  PROVE  IripInv' /\ Carries(irip, irip')
<1> DEFINE tag      == PartialVpn(page)
           rewarded == IF answered THEN Rewarded(irip, page) ELSE irip
           decay    == decay_timer + 1 > ResetFreq
           n        == Len(misses)
<1>1. misses \in Seq(Pages) /\ decay_timer \in 0 .. ResetFreq /\ IripTrue(irip, Followed)
  BY DEF IripInv
<1>2. misses' \in Seq(Pages) /\ Len(misses') = n + 1 /\ n \in Nat /\ misses'[n + 1] = page
      /\ \A i \in 1 .. n : misses'[i] = misses[i]
  BY <1>1
<1>3. decay_timer' \in 0 .. ResetFreq
  <2>1. decay_timer' = IF decay THEN 0 ELSE decay_timer + 1  BY DEF IripOperate
  <2> QED  BY <1>1, <2>1, IripConstants
<1>4. tag \in 0 .. TagSpan - 1 /\ page \in Int
  <2>1. page \in Int  BY StreamAssumption
  <2> QED  BY <2>1, PartialType
<1>5. IripTrue(irip, Followed')
  <2>1. \A i \in 1 .. n - 1 : i \in 1 .. n /\ i + 1 \in 1 .. n  BY <1>2
  <2>2. \A i \in 1 .. n - 1 : misses'[i] = misses[i] /\ misses'[i + 1] = misses[i + 1]
    BY <1>2, <2>1
  <2>3. \A i \in 1 .. n - 1 : i \in 1 .. Len(misses') - 1  BY <1>2
  <2>4. Followed \subseteq Followed'
    <3> SUFFICES ASSUME NEW z \in Followed PROVE z \in Followed'  OBVIOUS
    <3>1. PICK i \in 1 .. n - 1 : z = <<PartialVpn(misses[i]), Observed(i)>>  BY DEF Followed
    <3>2. z = <<PartialVpn(misses'[i]), Observed(i)'>>  BY <2>2, <3>1 DEF Observed
    <3> QED  BY <2>3, <3>2 DEF Followed
  <2> QED  BY <1>1, <2>4, IripTrueGrows
<1>6. IripTrue(rewarded, Followed')
  <2>1. IripTrue(Rewarded(irip, page), Followed')  BY <1>5, RewardedTrue
  <2> QED  BY <1>5, <2>1
<1> HIDE DEF rewarded
<1>7. PICK way \in PlacesFor(rewarded, 1, tag) :
        LET present == IF LevelsWith(rewarded, tag) # {} THEN rewarded
                       ELSE Inserted(rewarded, tag, way)
        IN \E trained \in IF misses = <<>> THEN {present}
                          ELSE Trained(present, PartialVpn(previous_vpn), Delta(page)) :
             irip' = IF decay THEN Decayed(trained) ELSE trained
  BY DEF IripOperate, rewarded
<1> DEFINE present == IF LevelsWith(rewarded, tag) # {} THEN rewarded
                      ELSE Inserted(rewarded, tag, way)
<1>8. IripTrue(present, Followed')
  <2>1. way \in Entries(1)  BY IripConstants, PlacesType
  <2>2. CASE LevelsWith(rewarded, tag) # {}  BY <1>6, <2>2
  <2>3. CASE LevelsWith(rewarded, tag) = {}
    <3>1. IripTrue(Inserted(rewarded, tag, way), Followed')
      BY <1>4, <1>6, <2>1, <2>3, InsertedTrue
    <3> QED  BY <2>3, <3>1
  <2> QED  BY <2>2, <2>3
<1>9. PICK trained \in IF misses = <<>> THEN {present}
                       ELSE Trained(present, PartialVpn(previous_vpn), Delta(page)) :
        irip' = IF decay THEN Decayed(trained) ELSE trained
  BY <1>7
<1> HIDE DEF present
<1>10. IripTrue(trained, Followed')
  <2>1. CASE misses = <<>>  BY <1>8, <1>9, <2>1
  <2>2. CASE misses # <<>>
    <3> DEFINE p == PartialVpn(previous_vpn)
               d == Delta(page)
    <3>1. n >= 1 /\ n \in 1 .. n /\ misses[n] \in Pages  BY <1>1, <1>2, <2>2
    <3>2. previous_vpn = misses[n]  BY DEF previous_vpn
    <3>3. p \in 0 .. TagSpan - 1 /\ d = page - misses[n] /\ d \in Int
      <4>1. \A q \in Pages : q \in Int  BY StreamAssumption
      <4>2. misses[n] \in Int  BY <3>1, <4>1
      <4>3. p \in 0 .. TagSpan - 1  BY <3>2, <4>2, PartialType
      <4> QED  BY <1>4, <3>2, <4>2, <4>3 DEF Delta
    <3>4. <<p, d>> \in Followed'
      <4>1. PICK i \in 1 .. n : i = n  BY <3>1
      <4>2. i \in 1 .. Len(misses') - 1  BY <1>2, <4>1
      <4>3. misses'[i] = misses[n] /\ misses'[i + 1] = page  BY <1>2, <4>1
      <4>4. Observed(i)' = d  BY <3>3, <4>3 DEF Observed
      <4>5. PartialVpn(misses'[i]) = p  BY <3>2, <4>3
      <4> QED  BY <4>2, <4>4, <4>5 DEF Followed
    <3>5. trained \in Trained(present, p, d)  BY <1>9, <2>2
    <3> HIDE DEF p, d
    <3> QED  BY <1>8, <3>3, <3>4, <3>5, TrainedTrue
  <2> QED  BY <2>1, <2>2
<1>11. IripTrue(Decayed(trained), Followed')  BY <1>10, DecayedTrue
<1>12. IripTrue(irip', Followed')  BY <1>9, <1>10, <1>11
<1>13. SamePlaces(irip, rewarded)
  <2>1. IripTyped(irip)  BY <1>1 DEF IripTrue
  <2>2. SamePlaces(irip, Rewarded(irip, page))  BY <2>1, ConfidenceKept
  <2>3. SamePlaces(irip, irip)  BY DEF SamePlaces
  <2> QED  BY <2>2, <2>3 DEF rewarded
<1>14. Unrepeated(rewarded)  BY <1>13, StaysUnrepeated DEF IripInv
<1> HIDE DEF tag
<1>15. Unrepeated(present) /\ MayInsert(rewarded, present, tag)
  <2>1. way \in Entries(1) /\ IripTyped(rewarded)  BY <1>6, IripConstants, PlacesType DEF IripTrue
  <2>2. CASE LevelsWith(rewarded, tag) # {}  BY <1>14, <2>2 DEF present, MayInsert
  <2>3. CASE LevelsWith(rewarded, tag) = {}
    <3>1. present = Inserted(rewarded, tag, way)  BY <2>3 DEF present
    <3> QED  BY <1>4, <1>14, <2>1, <2>3, <3>1, InsertedPlaces DEF MayInsert
  <2> QED  BY <2>2, <2>3
<1>16. Unrepeated(trained) /\ Inherits(present, trained)
  <2>1. CASE misses = <<>>
    <3>1. trained = present  BY <1>9, <2>1
    <3>2. \A m, s, x : KeptIn(present[m][s][x], m, present[m][s][x])  BY NothingLost
    <3> QED  BY <1>15, <3>1, <3>2 DEF Inherits
  <2>2. CASE misses # <<>>
    <3> DEFINE p == PartialVpn(previous_vpn)
               d == Delta(page)
    <3>1. n \in 1 .. n /\ misses[n] \in Int
      <4>1. n \in 1 .. n /\ misses[n] \in Pages  BY <1>1, <1>2, <2>2
      <4>2. \A q \in Pages : q \in Int  BY StreamAssumption
      <4> QED  BY <4>1, <4>2
    <3>2. p \in 0 .. TagSpan - 1 /\ d \in Int
      <4>1. previous_vpn \in Int  BY <3>1 DEF previous_vpn
      <4>2. p \in 0 .. TagSpan - 1  BY <4>1, PartialType
      <4>3. d \in Int  BY <1>4, <4>1 DEF Delta
      <4> QED  BY <4>2, <4>3
    <3>3. trained \in Trained(present, p, d)  BY <1>9, <2>2
    <3>4. IripTyped(present)  BY <1>8 DEF IripTrue
    <3> HIDE DEF p, d
    <3> QED  BY <1>15, <3>2, <3>3, <3>4, TrainedInherits
  <2> QED  BY <2>1, <2>2
<1>17. SamePlaces(trained, irip')
  <2>1. IripTyped(trained)  BY <1>10 DEF IripTrue
  <2>2. SamePlaces(trained, Decayed(trained))  BY <2>1, ConfidenceKept
  <2>3. SamePlaces(trained, trained)  BY DEF SamePlaces
  <2> QED  BY <1>9, <2>2, <2>3
<1>18. Unrepeated(irip')  BY <1>16, <1>17, StaysUnrepeated
<1>19. Carries(irip, irip')
  <2> DEFINE S == Followed'
  <2>1. IripTrue(irip, S) /\ IripTrue(rewarded, S)  BY <1>5, <1>6
  <2> HIDE DEF S
  <2> QED  BY <1>13, <1>15, <1>16, <1>17, <2>1, CarriedThrough
<1> QED  BY <1>2, <1>3, <1>12, <1>18, <1>19 DEF IripInv

LEMMA IripStart ==
  ASSUME StreamInit, IripInit
  PROVE  IripInv
<1>1. misses \in Seq(Pages)  BY DEF StreamInit
<1>2. decay_timer \in 0 .. ResetFreq  BY IripConstants DEF IripInit
<1>3. irip = [l \in Levels |-> [r \in 0 .. Sets[l] - 1 |-> [w \in Entries(l) |-> FreeEntry(l)]]]
  BY DEF IripInit
<1>4. ASSUME NEW l \in Levels
      PROVE  EntryOf(FreeEntry(l), l, Followed) /\ FreeEntry(l).vpn = 0
  BY FreeEntryOf
<1>5. IripTyped(irip)
  <2>1. ASSUME NEW l \in Levels
        PROVE  irip[l] \in [0 .. Sets[l] - 1 -> [Entries(l) -> IripEntry(l)]]
    <3> DEFINE free == FreeEntry(l)
    <3>1. free \in IripEntry(l)  BY <1>4 DEF EntryOf
    <3> HIDE DEF free
    <3>2. [r \in 0 .. Sets[l] - 1 |-> [w \in Entries(l) |-> free]]
            \in [0 .. Sets[l] - 1 -> [Entries(l) -> IripEntry(l)]]
      BY <3>1
    <3> QED  BY <1>3, <3>2 DEF free
  <2>2. DOMAIN irip = Levels  BY <1>3
  <2> QED  BY <2>1, <2>2 DEF IripTyped
<1>6. ASSUME NEW l, NEW r, NEW w, Place(l, r, w)
      PROVE  EntryOf(irip[l][r][w], l, Followed) /\ irip[l][r][w].vpn = 0
  <2>1. l \in Levels /\ r \in 0 .. Sets[l] - 1 /\ w \in Entries(l)  BY <1>6 DEF Place
  <2>2. irip[l][r][w] = FreeEntry(l)  BY <1>3, <2>1
  <2> QED  BY <1>4, <2>1, <2>2
<1>7. IripTrue(irip, Followed)
  BY <1>5, <1>6 DEF IripTrue
<1>8. Unrepeated(irip)
  <2>1. ASSUME NEW l, NEW r, NEW w, Place(l, r, w) PROVE NoRepeat(irip[l][r][w], l)
    <3>1. l \in Levels /\ r \in 0 .. Sets[l] - 1 /\ w \in Entries(l)  BY <2>1 DEF Place
    <3>2. irip[l][r][w] = FreeEntry(l)  BY <1>3, <3>1
    <3> QED  BY <3>2 DEF NoRepeat, FreeEntry
  <2> QED  BY <2>1 DEF Unrepeated
<1> QED  BY <1>1, <1>2, <1>7, <1>8 DEF IripInv

\* What the invariant says of the tables.
LEMMA IripConsequences ==
  ASSUME IripInv
  PROVE  IripTypeOK /\ EntriesTrue
<1>1. decay_timer \in 0 .. ResetFreq /\ IripTrue(irip, Followed)  BY DEF IripInv
<1>2. IripTyped(irip)  BY <1>1 DEF IripTrue
<1>3. IripTypeOK
  BY <1>1, <1>2 DEF IripTypeOK, IripTyped, IripEntry
<1>4. ASSUME NEW l \in Levels PROVE DOMAIN irip[l] = 0 .. Sets[l] - 1
  BY <1>2 DEF IripTyped
<1>5. OneEntryPerPage
  <2> SUFFICES ASSUME NEW l \in Levels, NEW m \in Levels,
                      NEW r \in DOMAIN irip[l], NEW s \in DOMAIN irip[m],
                      NEW w \in Entries(l), NEW x \in Entries(m),
                      irip[l][r][w].vpn = irip[m][s][x].vpn, irip[l][r][w].vpn # 0
               PROVE  l = m /\ r = s /\ w = x /\ r = IripRow(l, irip[l][r][w].vpn)
    BY DEF OneEntryPerPage
  <2>1. Place(l, r, w) /\ Place(m, s, x)  BY <1>4 DEF Place
  <2> QED  BY <1>1, <2>1 DEF IripTrue
<1>6. SuccessorsObserved
  <2> SUFFICES ASSUME NEW l \in Levels, NEW r \in DOMAIN irip[l], NEW w \in Entries(l),
                      NEW k \in 1 .. Slots[l], irip[l][r][w].vpn # 0,
                      irip[l][r][w].successor_delta[k] # 0
               PROVE  \E i \in 1 .. Len(misses) - 1 :
                        /\ PartialVpn(misses[i]) = irip[l][r][w].vpn
                        /\ Observed(i) = irip[l][r][w].successor_delta[k]
    BY DEF SuccessorsObserved
  <2>1. Place(l, r, w)  BY <1>4 DEF Place
  <2>2. EntryOf(irip[l][r][w], l, Followed)  BY <1>1, <2>1 DEF IripTrue
  <2>3. <<irip[l][r][w].vpn, irip[l][r][w].successor_delta[k]>> \in Followed
    BY <2>2 DEF EntryOf
  <2> QED  BY <2>3 DEF Followed
<1> QED  BY <1>3, <1>5, <1>6 DEF EntriesTrue

-----------------------------------------------------------------------------
(* The prefetcher as a whole. *)

\* The inductive invariant: every entry of either set of tables comes from the
\* miss stream, and the key kept for training is that of the last miss.
MorriganInv == TiripInv /\ IripInv /\ queued \subseteq Pages

LEMMA MorriganStart == Init => MorriganInv
<1> SUFFICES ASSUME Init PROVE MorriganInv  OBVIOUS
<1>1. StreamInit /\ TiripInit /\ IripInit /\ queued = {}  BY DEF Init
<1>2. TiripInv  BY <1>1, TiripStart
<1>3. IripInv  BY <1>1, IripStart
<1> QED  BY <1>1, <1>2, <1>3 DEF MorriganInv

LEMMA MorriganStep == MorriganInv /\ [Next]_vars => MorriganInv'
<1> SUFFICES ASSUME MorriganInv, [Next]_vars PROVE MorriganInv'  OBVIOUS
<1>1. TiripInv /\ IripInv /\ queued \subseteq Pages  BY DEF MorriganInv
<1>2. ASSUME NEW page \in Pages, Operate(page) PROVE MorriganInv'
  <2>1. misses' = Append(misses, page)  BY <1>2 DEF Operate, Miss
  <2>2. TiripInv'
    <3>1. TiripOperate(page)  BY <1>2 DEF Operate
    <3> QED  BY <1>1, <2>1, <3>1, TiripStep
  <2>3. IripInv'
    <3> DEFINE answered == page \in queued
    <3>1. IripOperate(page, answered)  BY <1>2 DEF Operate
    <3> HIDE DEF answered
    <3> QED  BY <1>1, <2>1, <3>1, IripStep
  <2>4. queued' \subseteq Pages
    <3>1. PICK issued : queued' = (queued \ {page}) \cup (issued \cap MappedAfter(page))
      BY <1>2 DEF Operate
    <3>2. misses \in Seq(Pages)  BY <1>1 DEF IripInv
    <3>3. MappedAfter(page) \subseteq Pages  BY <3>2 DEF MappedAfter, Range
    <3> QED  BY <1>1, <3>1, <3>3
  <2> QED  BY <2>2, <2>3, <2>4 DEF MorriganInv
<1>3. CASE UNCHANGED vars
  <2>1. /\ misses' = misses /\ tht' = tht /\ history_reg' = history_reg /\ pend' = pend
        /\ alloc_since_reset' = alloc_since_reset /\ irip' = irip
        /\ decay_timer' = decay_timer /\ queued' = queued
    BY <1>3 DEF vars
  <2>2. TiripInv'
    <3>1. Recent' = Recent  BY <2>1 DEF Recent
    <3>2. Shown' = Shown  BY <2>1 DEF Shown, ContextAt, Observed
    <3>3. \A t \in Tables, i \in Nat : KeyAt(t, i)' = KeyAt(t, i)
      BY <2>1 DEF KeyAt, ContextAt
    <3>4. PredictionShown'  BY <1>1, <2>1, <3>2 DEF TiripInv, PredictionShown
    <3> QED  BY <1>1, <2>1, <3>1, <3>2, <3>3, <3>4 DEF TiripInv
  <2>3. IripInv'
    <3>1. Followed' = Followed  BY <2>1 DEF Followed, Observed
    <3> QED  BY <1>1, <2>1, <3>1 DEF IripInv
  <2> QED  BY <1>1, <2>1, <2>2, <2>3 DEF MorriganInv
<1> QED  BY <1>2, <1>3 DEF Next

LEMMA MorriganInvariant == Spec => []MorriganInv
<1> QED  BY MorriganStart, MorriganStep, PTL DEF Spec

\* The tables, the history and the queue are well typed for any geometry, any
\* hash and any stream, and no confidence passes its limit.
THEOREM TypeCorrect == Spec => []TypeOK
<1>1. MorriganInv => TypeOK
  BY TiripConsequences, IripConsequences DEF MorriganInv, IripInv, TypeOK
<1> QED  BY <1>1, MorriganInvariant, PTL

\* A history table never holds one context twice, whatever is allocated, aged,
\* retrained or evicted between a prediction and its training.
THEOREM ContextsUniqueCorrect == Spec => []ContextsUnique
<1>1. MorriganInv => ContextsUnique  BY TiripConsequences DEF MorriganInv
<1> QED  BY <1>1, MorriganInvariant, PTL

\* Every entry of a history table lies where a lookup in its context looks, and
\* predicts a distance that followed that context: the keys kept from the last
\* lookup, not the history of the moment, train the tables.
THEOREM TrainedByOccurrenceCorrect == Spec => []TrainedByOccurrence
<1>1. MorriganInv => TrainedByOccurrence  BY TiripConsequences DEF MorriganInv
<1> QED  BY <1>1, MorriganInvariant, PTL

\* A page has one entry in S1, S2, S4 and S8 together, through every insertion,
\* promotion and replacement, and all its successors were observed.
THEOREM EntriesTrueCorrect == Spec => []EntriesTrue
<1>1. MorriganInv => EntriesTrue  BY IripConsequences DEF MorriganInv
<1> QED  BY <1>1, MorriganInvariant, PTL

\* An entry forgets nothing while it stays in the tables, wherever rewards,
\* insertions, training, promotions and decay take it, but for the one distance
\* that a full entry of the last level gives up for a new one.
THEOREM SuccessorsKeptCorrect == Spec => SuccessorsKept
<1> DEFINE Kept ==
      \A tag \in Tags : LevelsWith(irip, tag) # {} /\ LevelsWith(irip', tag) # {} =>
        LET lost == Successors(irip, tag) \ Successors(irip', tag)
        IN lost = {} \/ /\ Level(irip, tag) = Len(Slots) /\ Cardinality(lost) = 1
                        /\ Cardinality(Successors(irip, tag)) = Slots[Len(Slots)]
<1>1. ASSUME Carries(irip, irip') PROVE Kept
  <2> SUFFICES ASSUME NEW tag \in Tags, LevelsWith(irip, tag) # {}, LevelsWith(irip', tag) # {}
               PROVE  KeptIn(Known(irip, tag), Level(irip, tag), Known(irip', tag))
    BY DEF KeptIn, Remembers, Successors
  <2>1. tag \in 0 .. TagSpan - 1 /\ tag # 0  BY IripConstants DEF Tags
  <2>2. PICK w : /\ Place(Level(irip, tag), IripRow(Level(irip, tag), tag), w)
                 /\ irip[Level(irip, tag)][IripRow(Level(irip, tag), tag)][w].vpn = tag
                 /\ Known(irip, tag) = irip[Level(irip, tag)][IripRow(Level(irip, tag), tag)][w]
    BY <2>1, KnownPlace
  <2>3. PICK x : /\ Place(Level(irip', tag), IripRow(Level(irip', tag), tag), x)
                 /\ irip'[Level(irip', tag)][IripRow(Level(irip', tag), tag)][x].vpn = tag
                 /\ Known(irip', tag) = irip'[Level(irip', tag)][IripRow(Level(irip', tag), tag)][x]
    BY <2>1, KnownPlace
  <2> QED  BY <1>1, <2>1, <2>2, <2>3 DEF Carries
<1>2. MorriganInv /\ [Next]_vars => [Kept]_irip
  <2> SUFFICES ASSUME MorriganInv, Next PROVE Kept
    BY DEF vars
  <2>1. PICK page \in Pages : Operate(page)  BY DEF Next
  <2>2. IripInv /\ misses' = Append(misses, page)
    BY <2>1 DEF MorriganInv, Operate, Miss
  <2> DEFINE answered == page \in queued
  <2>3. IripOperate(page, answered)  BY <2>1 DEF Operate
  <2> HIDE DEF answered
  <2>4. Carries(irip, irip')  BY <2>2, <2>3, IripStep
  <2> QED  BY <1>1, <2>4
<1> QED  BY <1>2, MorriganInvariant, PTL DEF Spec, SuccessorsKept

\* A history table that tells the stream apart never misleads: what it predicts
\* after a miss is the distance to the next one, whatever is trained, evicted or
\* reset in between.
THEOREM NeverMisledCorrect == Spec => NeverMisled
<1> DEFINE Right ==
      \A t \in Tables : pend.pred.tab = t /\ Determined(t)' =>
        Delta(misses'[Len(misses) + 1]) = pend.pred.delta
<1>1. MorriganInv /\ [Next]_vars => [Right]_misses
  <2> SUFFICES ASSUME MorriganInv, [Next]_vars, misses' # misses PROVE Right
    OBVIOUS
  <2>1. TiripInv /\ misses \in Seq(Pages)  BY DEF MorriganInv, TiripInv
  <2>2. PICK page \in Pages : misses' = Append(misses, page)
    BY DEF Next, Operate, Miss, vars
  <2>3. misses'[Len(misses) + 1] = page  BY <2>1, <2>2
  <2>4. ASSUME NEW t \in Tables, pend.pred.tab = t, Determined(t)'
        PROVE  Delta(page) = pend.pred.delta
    <3>1. Telling(Shown', t)  BY <2>4, DeterminedTells
    <3> QED  BY <2>1, <2>2, <2>4, <3>1, PredictsTheDistance
  <2> QED  BY <2>3, <2>4
<1> HIDE DEF Right
<1>2. Spec => [][Right]_misses  BY <1>1, MorriganInvariant, PTL DEF Spec
<1> QED  BY <1>2 DEF NeverMisled, Right

\* Nor does it unlearn: its entries keep their distance and never lose
\* confidence until another context evicts them.
THEOREM NeverUnlearnedCorrect == Spec => NeverUnlearned
<1> DEFINE Kept ==
      \A t \in Tables : Determined(t)' =>
        \A r \in Rows, w \in Ways :
          tht[t][r][w].valid /\ tht'[t][r][w].tag = tht[t][r][w].tag
          => /\ tht'[t][r][w].valid /\ tht'[t][r][w].delta = tht[t][r][w].delta
             /\ tht'[t][r][w].confidence >= tht[t][r][w].confidence
<1>1. MorriganInv /\ [Next]_vars => [Kept]_<<misses, tht>>
  <2> SUFFICES ASSUME MorriganInv, [Next]_vars, <<misses, tht>>' # <<misses, tht>>
               PROVE  Kept
    OBVIOUS
  <2>1. TiripInv  BY DEF MorriganInv
  <2>2. PICK page \in Pages : misses' = Append(misses, page) /\ TiripOperate(page)
    BY DEF Next, Operate, Miss, vars
  <2>3. ASSUME NEW t \in Tables, Determined(t)' PROVE Evicts(tht', tht, t)
    <3>1. Telling(Shown', t)  BY <2>3, DeterminedTells
    <3> QED  BY <2>1, <2>2, <3>1, MissKeeps
  <2> QED  BY <2>3 DEF Evicts, Keeps
<1> HIDE DEF Kept
<1>2. Spec => [][Kept]_<<misses, tht>>  BY <1>1, MorriganInvariant, PTL DEF Spec
<1> QED  BY <1>2 DEF NeverUnlearned, Kept
===============================================================================
