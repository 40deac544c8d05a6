------------------------------ MODULE O3CoreProofs ------------------------------
(* Proofs about O3Core, for all programs and all sizes of the reorder buffer   *)
(* and the queues.                                                             *)
EXTENDS O3CoreInv, FiniteSetTheorems, SequenceTheorems, WellFoundedInduction, TLAPS

--------------------------------------------------------------------------------
(* Rings *)

LEMMA SizesType ==
  /\ ROB_SIZE \in Nat \ {0} /\ LQ_SIZE \in Nat \ {0} /\ SQ_SIZE \in Nat \ {0}
  /\ STA_SIZE \in Nat \ {0} /\ FRONT_END \in Nat \ {0} /\ WQ_SIZE \in Nat \ {0}
BY SizesAssumption

(* The remainder is the one number below the divisor that is left. *)
LEMMA Remainder ==
  ASSUME NEW n \in Nat \ {0}, NEW q \in Int, NEW r \in 0 .. n - 1, NEW x \in Int, x = n * q + r
  PROVE  x % n = r
<1> DEFINE d == x \div n
           m == x % n
<1>1. d \in Int /\ m \in 0 .. n - 1 /\ x = n * d + m  OBVIOUS
<1> HIDE DEF d, m
<1>2. n * (d - q) = r - m  BY <1>1
<1>3. d - q = 0
  <2>1. CASE d - q >= 1
    <3>1. n * (d - q) >= n  BY <1>1, <2>1
    <3> QED  BY <1>1, <1>2, <3>1
  <2>2. CASE d - q =< -1
    <3>1. n * (d - q) =< -n  BY <1>1, <2>2
    <3> QED  BY <1>1, <1>2, <3>1
  <2> QED  BY <1>1, <2>1, <2>2
<1>4. m = r
  <2>1. n * (d - q) = 0  BY <1>3
  <2> QED  BY <1>1, <1>2, <2>1
<1> QED  BY <1>4 DEF m

LEMMA RemainderType ==
  ASSUME NEW n \in Nat \ {0}, NEW x \in Int
  PROVE  x % n \in 0 .. n - 1
OBVIOUS

(* d places further on a ring of n places. *)
LEMMA Around ==
  ASSUME NEW n \in Nat \ {0}, NEW x \in Nat, NEW d \in 0 .. n
  PROVE  (x + d) % n = IF (x % n) + d < n THEN (x % n) + d ELSE (x % n) + d - n
<1> DEFINE q == x \div n
           h == x % n
<1>1. q \in Int /\ h \in 0 .. n - 1 /\ x = n * q + h  OBVIOUS
<1> HIDE DEF q, h
<1>2. CASE h + d < n
  <2>1. x + d = n * q + (h + d) /\ h + d \in 0 .. n - 1  BY <1>1, <1>2
  <2>2. (x + d) % n = h + d
    <3> DEFINE y == x + d
               r == h + d
    <3>1. y \in Int /\ r \in 0 .. n - 1 /\ y = n * q + r  BY <2>1
    <3> HIDE DEF y, r
    <3>2. y % n = r  BY <1>1, <3>1, Remainder
    <3> QED  BY <3>2 DEF y, r
  <2> QED  BY <1>2, <2>2 DEF h
<1>3. CASE ~(h + d < n)
  <2>1. x + d = n * (q + 1) + (h + d - n) /\ h + d - n \in 0 .. n - 1
    <3>1. n * (q + 1) = n * q + n  BY <1>1
    <3>2. h + d - n \in 0 .. n - 1  BY <1>1, <1>3
    <3> QED  BY <1>1, <3>1, <3>2
  <2>2. (x + d) % n = h + d - n
    <3> DEFINE y == x + d
               r == h + d - n
               k == q + 1
    <3>1. y \in Int /\ r \in 0 .. n - 1 /\ k \in Int /\ y = n * k + r  BY <1>1, <2>1
    <3> HIDE DEF y, r, k
    <3>2. y % n = r  BY <3>1, Remainder
    <3> QED  BY <3>2 DEF y, r
  <2> QED  BY <1>3, <2>2 DEF h
<1> QED  BY <1>2, <1>3

(* Numbers less than n apart have places of their own. *)
LEMMA Apart ==
  ASSUME NEW n \in Nat \ {0}, NEW x \in Nat, NEW d \in 1 .. n - 1
  PROVE  (x + d) % n # x % n
<1>1. x % n \in 0 .. n - 1  BY RemainderType
<1> DEFINE h == x % n
<1>0. d \in 0 .. n  OBVIOUS
<1>2. (x + d) % n = IF h + d < n THEN h + d ELSE h + d - n  BY <1>0, Around, Zenon
<1> HIDE DEF h
<1>3. h \in 0 .. n - 1  BY <1>1 DEF h
<1>4. (x + d) % n # h  BY <1>2, <1>3
<1> QED  BY <1>4 DEF h

LEMMA SamePlace ==
  ASSUME NEW n \in Nat \ {0}, NEW x \in Nat, NEW y \in Nat, x % n = y % n,
         x - y < n, y - x < n
  PROVE  x = y
<1>1. CASE x < y
  <2>1. y = x + (y - x) /\ y - x \in 1 .. n - 1  BY <1>1
  <2> QED  BY <2>1, Apart
<1>2. CASE y < x
  <2>1. x = y + (x - y) /\ x - y \in 1 .. n - 1  BY <1>2
  <2> QED  BY <2>1, Apart
<1> QED  BY <1>1, <1>2

(* The way back: how far a place is from another. *)
LEMMA Distance ==
  ASSUME NEW n \in Nat \ {0}, NEW x \in Nat, NEW d \in 0 .. n - 1
  PROVE  (((x + d) % n) - (x % n) + n) % n = d
<1> DEFINE h == x % n
           i == (x + d) % n
<1>0. d \in 0 .. n /\ h \in 0 .. n - 1  OBVIOUS
<1>1. h \in 0 .. n - 1 /\ i = IF h + d < n THEN h + d ELSE h + d - n  BY <1>0, Around, Zenon
<1> HIDE DEF h, i
<1>2. CASE h + d < n
  <2>1. i - h + n = n * 1 + d  BY <1>1, <1>2
  <2> DEFINE y == i - h + n
  <2>2. y \in Int /\ y = n * 1 + d  BY <1>1, <1>2
  <2> HIDE DEF y
  <2>3. y % n = d  BY <2>2, Remainder
  <2> QED  BY <2>3 DEF y, i, h
<1>3. CASE ~(h + d < n)
  <2> DEFINE y == i - h + n
  <2>2. y \in Int /\ y = n * 0 + d  BY <1>1, <1>3
  <2> HIDE DEF y
  <2>3. y % n = d  BY <2>2, Remainder
  <2> QED  BY <2>3 DEF y, i, h
<1> QED  BY <1>2, <1>3

--------------------------------------------------------------------------------
(* Sets and sequences *)

LEMMA SeqElements ==
  ASSUME NEW S, NEW s \in Seq(S)
  PROVE  Len(s) \in Nat /\ DOMAIN s = 1 .. Len(s) /\ \A k \in DOMAIN s : s[k] \in S
<1>1. Len(s) \in Nat /\ DOMAIN s = 1 .. Len(s) /\ s \in [1 .. Len(s) -> S]
  BY LenProperties, Zenon
<1> QED  BY <1>1

LEMMA FunctionIsSeq ==
  ASSUME NEW S, NEW n \in Nat, NEW f \in [1 .. n -> S]
  PROVE  f \in Seq(S) /\ Len(f) = n /\ DOMAIN f = 1 .. n
<1>1. f \in Seq(S)  BY SeqDef
<1>2. DOMAIN f = 1 .. n /\ DOMAIN f = 1 .. Len(f) /\ Len(f) \in Nat
  BY <1>1, LenProperties
<1> QED  BY <1>1, <1>2

LEMMA IntervalSize ==
  ASSUME NEW n \in Nat
  PROVE  /\ IsFiniteSet(1 .. n) /\ Cardinality(1 .. n) = n
         /\ IsFiniteSet(0 .. n - 1) /\ Cardinality(0 .. n - 1) = n
<1>0. 0 \in Int /\ 1 \in Int /\ n \in Int /\ n - 1 \in Int  OBVIOUS
<1>1. IsFiniteSet(1 .. n) /\ Cardinality(1 .. n) = IF 1 > n THEN 0 ELSE n - 1 + 1
  BY <1>0, FS_Interval, Zenon
<1>2. IsFiniteSet(0 .. n - 1) /\ Cardinality(0 .. n - 1) = IF 0 > n - 1 THEN 0 ELSE n - 1 - 0 + 1
  BY <1>0, FS_Interval, Zenon
<1> QED  BY <1>1, <1>2

(* f reaches every element of T; and each but once. *)
Onto(f, S, T) == \A y \in T : \E x \in S : f[x] = y
OneToOne(f, S, T) ==
  /\ f \in [S -> T] /\ Onto(f, S, T)
  /\ \A x, y \in S : f[x] = f[y] => x = y

LEMMA SameSize ==
  ASSUME NEW S, NEW T, NEW f, OneToOne(f, S, T), IsFiniteSet(S)
  PROVE  IsFiniteSet(T) /\ Cardinality(T) = Cardinality(S)
<1>1. f \in Surjection(S, T) /\ f \in Injection(S, T)
  BY DEF OneToOne, Onto, Surjection, Injection, IsInjective
<1> QED  BY <1>1, FS_Surjection

LEMMA InjectionSize ==
  ASSUME NEW S, NEW T, NEW f \in [S -> T], \A x, y \in S : f[x] = f[y] => x = y, IsFiniteSet(T)
  PROVE  /\ IsFiniteSet(S) /\ Cardinality(S) =< Cardinality(T)
         /\ Cardinality(S) = Cardinality(T) => Onto(f, S, T)
<1>1. f \in Injection(S, T)  BY DEF Injection, IsInjective
<1>2. /\ IsFiniteSet(S) /\ Cardinality(S) =< Cardinality(T)
      /\ Cardinality(S) = Cardinality(T) <=> f \in Surjection(S, T)
  BY <1>1, FS_Injection
<1> QED  BY <1>2 DEF Surjection, Onto

(* Ascending puts each element of a set into one place. *)
LEMMA AscendingFacts ==
  ASSUME NEW S \in SUBSET Nat, IsFiniteSet(S)
  PROVE  /\ Ascending(S) \in Seq(S) /\ Len(Ascending(S)) = Cardinality(S)
         /\ Once(Ascending(S)) /\ Range(Ascending(S)) = S
<1> DEFINE Below(x) == {y \in S : y < x}
           rank(x)  == Cardinality(Below(x))
           n        == Cardinality(S)
           at(k)    == CHOOSE x \in S : rank(x) = k - 1
           r        == [k \in 1 .. n |-> at(k)]
<1>1. n \in Nat  BY FS_CardinalityType
<1>2. ASSUME NEW x \in S
      PROVE  IsFiniteSet(Below(x)) /\ rank(x) \in 0 .. n - 1
  <2>1. Below(x) \subseteq S /\ x \notin Below(x)  OBVIOUS
  <2> HIDE DEF Below
  <2>2. IsFiniteSet(Below(x)) /\ rank(x) =< n /\ rank(x) \in Nat /\ rank(x) # n
    BY <1>1, <2>1, FS_Subset, FS_CardinalityType
  <2> QED  BY <1>1, <2>2
<1>3. ASSUME NEW x \in S, NEW y \in S, x < y PROVE rank(x) # rank(y)
  <2>0. \A z \in S : z \in Nat  OBVIOUS
  <2>2. \A z \in S : z < x => z < y  BY <1>3, <2>0
  <2>3. ~(x < x)  BY <2>0
  <2>1. Below(x) \subseteq Below(y) /\ x \in Below(y) /\ x \notin Below(x)  BY <1>3, <2>2, <2>3
  <2> HIDE DEF Below
  <2> QED  BY <1>2, <2>1, FS_Subset
<1>4. ASSUME NEW x \in S, NEW y \in S, rank(x) = rank(y) PROVE x = y
  <2>1. ~(x < y) /\ ~(y < x)  BY <1>3, <1>4
  <2> QED  BY <2>1
<1>5. \A k \in 1 .. n : at(k) \in S /\ rank(at(k)) = k - 1
  <2> DEFINE f == [x \in S |-> rank(x)]
  <2> HIDE DEF Below
  <2>1. f \in [S -> 0 .. n - 1] /\ \A x, y \in S : f[x] = f[y] => x = y
    <3>1. \A x \in S : rank(x) \in 0 .. n - 1  BY <1>2
    <3>2. \A x, y \in S : rank(x) = rank(y) => x = y  BY <1>4
    <3> HIDE DEF rank
    <3> QED  BY <3>1, <3>2
  <2>2. \A x \in S : f[x] = rank(x)  OBVIOUS
  <2>3. IsFiniteSet(0 .. n - 1) /\ Cardinality(0 .. n - 1) = n  BY <1>1, IntervalSize
  <2> DEFINE U == 0 .. n - 1
  <2>6. f \in [S -> U] /\ IsFiniteSet(U) /\ Cardinality(S) = Cardinality(U)  BY <2>1, <2>3
  <2>8. \A x, y \in S : f[x] = f[y] => x = y  BY <2>1
  <2> HIDE DEF f, U
  <2>9. Onto(f, S, U)  BY <2>6, <2>8, InjectionSize
  <2>7. \A y \in U : \E x \in S : f[x] = y  BY <2>9 DEF Onto
  <2>4. \A k \in 0 .. n - 1 : \E x \in S : f[x] = k  BY <2>7 DEF U
  <2> HIDE DEF rank
  <2>5. \A k \in 1 .. n : \E x \in S : rank(x) = k - 1
    <3>1. \A k \in 1 .. n : k - 1 \in 0 .. n - 1  BY <1>1
    <3> QED  BY <2>2, <2>4, <3>1
  <2> QED  BY <2>5
<1>6. Ascending(S) = r  BY DEF Ascending
<1> HIDE DEF at, rank, Below, n
<1>7. r \in [1 .. n -> S] /\ DOMAIN r = 1 .. n /\ \A k \in 1 .. n : r[k] = at(k)  BY <1>5
<1> HIDE DEF r
<1>8. r \in Seq(S) /\ Len(r) = n  BY <1>1, <1>7, FunctionIsSeq
<1>9. Once(r)
  <2>1. \A k, l \in 1 .. n : r[k] = r[l] => k - 1 = l - 1  BY <1>5, <1>7
  <2>2. \A k, l \in 1 .. n : k - 1 = l - 1 => k = l  BY <1>1
  <2> QED  BY <1>7, <2>1, <2>2 DEF Once
<1>10. Range(r) = S
  <2>1. \A x \in S : rank(x) + 1 \in 1 .. n  BY <1>1, <1>2
  <2>2. \A x \in S : rank(at(rank(x) + 1)) = rank(x)
    <3>1. \A k \in 1 .. n : rank(at(k)) = k - 1  BY <1>5
    <3>2. ASSUME NEW x \in S PROVE rank(at(rank(x) + 1)) = rank(x)
      <4> DEFINE k == rank(x)
      <4>1. k \in Int /\ k + 1 \in 1 .. n  BY <1>2, <2>1
      <4> HIDE DEF k
      <4>2. rank(at(k + 1)) = k + 1 - 1  BY <3>1, <4>1
      <4>3. rank(at(k + 1)) = k  BY <4>1, <4>2
      <4> QED  BY <4>3 DEF k
    <3> QED  BY <3>2
  <2>3. ASSUME NEW x \in S PROVE r[rank(x) + 1] = x
    <3> DEFINE k == rank(x) + 1
    <3>1. k \in 1 .. n /\ rank(at(k)) = rank(x)  BY <2>1, <2>2
    <3> HIDE DEF k
    <3>2. at(k) \in S /\ r[k] = at(k)  BY <1>5, <1>7, <3>1
    <3>3. at(k) = x  BY <1>4, <3>1, <3>2
    <3> QED  BY <3>2, <3>3 DEF k
  <2>4. \A x \in S : x \in Range(r)  BY <1>7, <2>1, <2>3 DEF Range
  <2>5. Range(r) \subseteq S  BY <1>7 DEF Range
  <2> QED  BY <2>4, <2>5
<1> QED  BY <1>6, <1>8, <1>9, <1>10 DEF n

(* What a ring loses and gets. *)
LEMMA Popped ==
  ASSUME NEW S, NEW s \in Seq(S), s # <<>>
  PROVE  /\ Head(s) \in S /\ Head(s) \in Range(s) /\ Tail(s) \in Seq(S)
         /\ Len(Tail(s)) = Len(s) - 1 /\ Range(Tail(s)) \subseteq Range(s)
         /\ Range(s) = {Head(s)} \cup Range(Tail(s))
         /\ Once(s) => Once(Tail(s)) /\ Head(s) \notin Range(Tail(s))
<1>1. Len(s) \in Nat /\ DOMAIN s = 1 .. Len(s) /\ \A k \in DOMAIN s : s[k] \in S
  BY SeqElements
<1>2. Len(s) # 0  BY EmptySeq
<1>3. /\ Head(s) = s[1] /\ Tail(s) \in Seq(S) /\ Len(Tail(s)) = Len(s) - 1
      /\ \A i \in 1 .. Len(Tail(s)) : Tail(s)[i] = s[i + 1]
  BY HeadTailProperties
<1>4. DOMAIN Tail(s) = 1 .. Len(s) - 1  BY <1>3, SeqElements
<1> DEFINE t == Tail(s)
<1> HIDE DEF t
<1>5. DOMAIN t = 1 .. Len(s) - 1 /\ \A i \in DOMAIN t : i + 1 \in DOMAIN s /\ t[i] = s[i + 1]
  BY <1>1, <1>3, <1>4 DEF t
<1>6. 1 \in DOMAIN s  BY <1>1, <1>2
<1>7. \A i \in DOMAIN s : i = 1 \/ (i - 1 \in DOMAIN t /\ t[i - 1] = s[i])
  <2>1. ASSUME NEW i \in DOMAIN s, i # 1 PROVE i - 1 \in DOMAIN t /\ t[i - 1] = s[i]
    <3>1. i - 1 \in DOMAIN t /\ i - 1 + 1 = i  BY <1>1, <1>5, <2>1
    <3> QED  BY <1>5, <3>1
  <2> QED  BY <2>1
<1>8. Range(s) = {s[1]} \cup Range(t)
  <2>1. \A x \in Range(s) : x \in {s[1]} \cup Range(t)  BY <1>7 DEF Range
  <2>2. \A x \in Range(t) : x \in Range(s)  BY <1>5 DEF Range
  <2>3. s[1] \in Range(s)  BY <1>6 DEF Range
  <2> QED  BY <2>1, <2>2, <2>3
<1>9. ASSUME Once(s) PROVE Once(t) /\ s[1] \notin Range(t)
  <2>1. \A i, j \in DOMAIN t : t[i] = t[j] => i = j
    <3>1. ASSUME NEW i \in DOMAIN t, NEW j \in DOMAIN t, t[i] = t[j] PROVE i = j
      <4>1. i + 1 = j + 1  BY <1>5, <1>9, <3>1 DEF Once
      <4> QED  BY <1>1, <1>5, <4>1
    <3> QED  BY <3>1
  <2>2. \A i \in DOMAIN t : t[i] # s[1]
    <3>1. ASSUME NEW i \in DOMAIN t, t[i] = s[1] PROVE FALSE
      <4>1. i + 1 = 1  BY <1>5, <1>6, <1>9, <3>1 DEF Once
      <4> QED  BY <1>1, <1>5, <4>1
    <3> QED  BY <3>1
  <2> QED  BY <2>1, <2>2 DEF Once, Range
<1>10. s[1] \in S /\ s[1] \in Range(s)  BY <1>1, <1>6 DEF Range
<1> QED  BY <1>3, <1>8, <1>9, <1>10 DEF t

LEMMA Pushed ==
  ASSUME NEW S, NEW s \in Seq(S), NEW t \in Seq(S)
  PROVE  /\ s \o t \in Seq(S) /\ Len(s \o t) = Len(s) + Len(t)
         /\ Range(s \o t) = Range(s) \cup Range(t)
         /\ Once(s) /\ Once(t) /\ Range(s) \cap Range(t) = {} => Once(s \o t)
<1> DEFINE r == s \o t
<1>1. Len(s) \in Nat /\ DOMAIN s = 1 .. Len(s) /\ Len(t) \in Nat /\ DOMAIN t = 1 .. Len(t)
  BY SeqElements
<1>2. /\ r \in Seq(S) /\ Len(r) = Len(s) + Len(t)
      /\ \A i \in 1 .. Len(s) + Len(t) : r[i] = IF i =< Len(s) THEN s[i] ELSE t[i - Len(s)]
  BY ConcatProperties
<1>3. DOMAIN r = 1 .. Len(s) + Len(t)  BY <1>2, SeqElements
<1> HIDE DEF r
<1>4. \A i \in DOMAIN s : i \in DOMAIN r /\ r[i] = s[i]  BY <1>1, <1>2, <1>3
<1>5. \A j \in DOMAIN t : j + Len(s) \in DOMAIN r /\ r[j + Len(s)] = t[j]
  <2>1. ASSUME NEW j \in DOMAIN t PROVE j + Len(s) \in DOMAIN r /\ r[j + Len(s)] = t[j]
    <3>1. j + Len(s) \in 1 .. Len(s) + Len(t) /\ ~(j + Len(s) =< Len(s)) /\ j + Len(s) - Len(s) = j
      BY <1>1
    <3> QED  BY <1>2, <1>3, <3>1
  <2> QED  BY <2>1
<1>6. \A i \in DOMAIN r : \/ i \in DOMAIN s /\ r[i] = s[i]
                          \/ i - Len(s) \in DOMAIN t /\ r[i] = t[i - Len(s)]
  <2>1. ASSUME NEW i \in DOMAIN r
        PROVE  \/ i \in DOMAIN s /\ r[i] = s[i]
               \/ i - Len(s) \in DOMAIN t /\ r[i] = t[i - Len(s)]
    <3>1. i \in DOMAIN s \/ (i - Len(s) \in DOMAIN t /\ ~(i =< Len(s)))  BY <1>1, <1>3
    <3>2. i \in DOMAIN s => i =< Len(s)  BY <1>1
    <3> QED  BY <1>2, <1>3, <3>1, <3>2
  <2> QED  BY <2>1
<1>7. Range(r) = Range(s) \cup Range(t)
  <2>1. \A x \in Range(r) : x \in Range(s) \cup Range(t)  BY <1>6 DEF Range
  <2>2. \A x \in Range(s) : x \in Range(r)  BY <1>4 DEF Range
  <2>3. \A x \in Range(t) : x \in Range(r)  BY <1>5 DEF Range
  <2> QED  BY <2>1, <2>2, <2>3
<1>8. ASSUME Once(s), Once(t), Range(s) \cap Range(t) = {} PROVE Once(r)
  <2>1. ASSUME NEW i \in DOMAIN r, NEW j \in DOMAIN r, r[i] = r[j] PROVE i = j
    <3>1. \A k \in DOMAIN s, l \in DOMAIN t : s[k] # t[l]  BY <1>8 DEF Range
    <3>2. CASE i \in DOMAIN s /\ r[i] = s[i] /\ j \in DOMAIN s /\ r[j] = s[j]
      BY <1>8, <2>1, <3>2 DEF Once
    <3>3. CASE /\ i - Len(s) \in DOMAIN t /\ r[i] = t[i - Len(s)]
               /\ j - Len(s) \in DOMAIN t /\ r[j] = t[j - Len(s)]
      <4>1. i - Len(s) = j - Len(s)  BY <1>8, <2>1, <3>3 DEF Once
      <4> QED  BY <1>1, <1>3, <4>1
    <3> QED  BY <1>6, <2>1, <3>1, <3>2, <3>3
  <2> QED  BY <2>1 DEF Once
<1> QED  BY <1>2, <1>7, <1>8 DEF r

(* The first m elements. *)
LEMMA FirstFew ==
  ASSUME NEW S, NEW s \in Seq(S), Once(s), NEW m \in Int, m =< Len(s)
  PROVE  /\ SubSeq(s, 1, m) \in Seq(S) /\ Once(SubSeq(s, 1, m))
         /\ Range(SubSeq(s, 1, m)) \subseteq Range(s)
         /\ Len(SubSeq(s, 1, m)) = IF m >= 0 THEN m ELSE 0
<1> DEFINE r == SubSeq(s, 1, m)
           n == IF m >= 0 THEN m ELSE 0
<1>1. Len(s) \in Nat /\ DOMAIN s = 1 .. Len(s) /\ \A k \in DOMAIN s : s[k] \in S
  BY SeqElements
<1>2. n \in Nat /\ 1 .. m = 1 .. n /\ n =< Len(s)  BY <1>1
<1>3. /\ r \in Seq(S) /\ Len(r) = n
      /\ \A k \in 1 .. n : r[k] = s[k]
  <2>1. 1 \in Int /\ \A k \in 1 .. m : s[k] \in S  BY <1>1
  <2>2. /\ r \in Seq(S)
        /\ Len(r) = IF 1 =< m THEN m - 1 + 1 ELSE 0
        /\ \A k \in 1 .. m - 1 + 1 : r[k] = s[1 + k - 1]
    BY <2>1, SubSeqProperties
  <2>3. \A k \in 1 .. m : k \in 1 .. m - 1 + 1 /\ 1 + k - 1 = k  OBVIOUS
  <2>4. \A k \in 1 .. m : r[k] = s[k]
    <3> HIDE DEF r
    <3> QED  BY <2>2, <2>3
  <2> QED  BY <1>2, <2>2, <2>4
<1> HIDE DEF r, n
<1>4. \A k \in 1 .. n : k \in DOMAIN s  BY <1>1, <1>2
<1>5. DOMAIN r = 1 .. n /\ \A k \in 1 .. n : r[k] = s[k]  BY <1>3, SeqElements
<1>7. Once(r)  BY <1>4, <1>5 DEF Once
<1>8. Range(r) \subseteq Range(s)  BY <1>4, <1>5 DEF Range
<1> QED  BY <1>3, <1>7, <1>8 DEF r, n

(* A ring without repetitions is no longer than the set it is taken from. *)
LEMMA RingSize ==
  ASSUME NEW S, IsFiniteSet(S), NEW s \in Seq(S), Once(s)
  PROVE  Len(s) =< Cardinality(S)
<1>1. Len(s) \in Nat /\ DOMAIN s = 1 .. Len(s) /\ s \in [1 .. Len(s) -> S]
  BY LenProperties, Zenon
<1>2. \A x, y \in 1 .. Len(s) : s[x] = s[y] => x = y  BY <1>1 DEF Once
<1>3. Cardinality(1 .. Len(s)) =< Cardinality(S)  BY <1>1, <1>2, InjectionSize
<1> QED  BY <1>1, <1>3, IntervalSize

--------------------------------------------------------------------------------
(* Programs *)

LEMMA InstructionFacts ==
  ASSUME NEW p \in Programs, NEW n \in 1 .. Len(p)
  PROVE  /\ Len(p) \in Nat
         /\ p[n].src \in Seq(Range(p[n].src)) /\ p[n].dst \in Seq(Range(p[n].dst))
         /\ p[n].ld \in Seq(Range(p[n].ld)) /\ p[n].st \in Seq(Range(p[n].st))
         /\ Len(p[n].ld) \in Nat /\ Len(p[n].st) \in Nat
         /\ Len(p[n].st) =< SQ_SIZE /\ Len(p[n].st) =< WQ_SIZE
         /\ DOMAIN p[n].src \subseteq Nat /\ IsFiniteSet(DOMAIN p[n].src)
<1>1. p \in Seq(Range(p)) /\ IsInstruction(p[n])
  BY ProgramsAssumption DEF IsSequence
<1>2. /\ p[n].src \in Seq(Range(p[n].src)) /\ p[n].dst \in Seq(Range(p[n].dst))
      /\ p[n].ld \in Seq(Range(p[n].ld)) /\ p[n].st \in Seq(Range(p[n].st))
  BY <1>1 DEF IsInstruction, IsSequence
<1>3. Len(p) \in Nat  BY <1>1, LenProperties, Zenon
<1>4. Len(p[n].ld) \in Nat /\ Len(p[n].st) \in Nat  BY <1>2, LenProperties, Zenon
<1>5. Len(p[n].src) \in Nat /\ DOMAIN p[n].src = 1 .. Len(p[n].src)  BY <1>2, LenProperties, Zenon
<1>6. IsFiniteSet(1 .. Len(p[n].src)) /\ 1 .. Len(p[n].src) \subseteq Nat  BY <1>5, IntervalSize
<1>7. IsFiniteSet(DOMAIN p[n].src) /\ DOMAIN p[n].src \subseteq Nat  BY <1>5, <1>6
<1>8. Len(p[n].st) =< SQ_SIZE /\ Len(p[n].st) =< WQ_SIZE  BY ProgramsAssumption
<1> QED  BY <1>2, <1>3, <1>4, <1>7, <1>8

LEMMA ProgramLength == \A p \in Programs : Len(p) \in Nat
<1>1. ASSUME NEW p \in Programs PROVE Len(p) \in Nat
  <2>1. p \in Seq(Range(p))  BY ProgramsAssumption DEF IsSequence
  <2> QED  BY <2>1, LenProperties, Zenon
<1> QED  BY <1>1

--------------------------------------------------------------------------------
(* Instructions in the reorder buffer *)

LEMMA SlotType ==
  ASSUME NEW n \in Nat \ {0}
  PROVE  SlotOf(n) \in Slots
<1>1. n - 1 \in Int /\ ROB_SIZE \in Nat \ {0}  BY SizesType
<1> QED  BY <1>1, RemainderType DEF SlotOf, Slots

LEMMA SlotsApart ==
  ASSUME NEW m \in Nat \ {0}, NEW n \in Nat \ {0}, SlotOf(m) = SlotOf(n),
         m - n < ROB_SIZE, n - m < ROB_SIZE
  PROVE  m = n
<1> DEFINE x == m - 1
           y == n - 1
<1>1. /\ x \in Nat /\ y \in Nat /\ ROB_SIZE \in Nat \ {0}
      /\ x - y < ROB_SIZE /\ y - x < ROB_SIZE
  BY SizesType
<1>2. x % ROB_SIZE = y % ROB_SIZE  BY DEF SlotOf
<1> HIDE DEF x, y
<1>3. x = y  BY <1>1, <1>2, SamePlace
<1> QED  BY <1>3 DEF x, y

LEMMA HeldOnce ==
  ASSUME NEW ent, NEW ret, NEW disp, Holds(ent, ret, disp)
  PROVE  /\ \A i, k \in Slots : ent[i].id # 0 /\ ent[i].id = ent[k].id => i = k
         /\ ret < disp <=> ent[ret % ROB_SIZE].id # 0
         /\ ret < disp => ent[ret % ROB_SIZE].id = ret + 1
         /\ disp < ret + ROB_SIZE => ent[disp % ROB_SIZE].id = 0
         /\ ret % ROB_SIZE \in Slots /\ disp % ROB_SIZE \in Slots
<1>0. ret \in Nat /\ disp \in Nat /\ ret =< disp /\ disp =< ret + ROB_SIZE /\ ROB_SIZE \in Nat \ {0}
  BY SizesType DEF Holds
<1>1. \A i, k \in Slots : ent[i].id # 0 /\ ent[i].id = ent[k].id => i = k
  BY DEF Holds
<1>2. \A x \in Nat : SlotOf(x + 1) = x % ROB_SIZE
  <2>1. \A x \in Nat : x + 1 - 1 = x  OBVIOUS
  <2> QED  BY <2>1 DEF SlotOf
<1>3. \A x \in Nat : SlotOf(x + 1) \in Slots
  <2>1. \A x \in Nat : x + 1 \in Nat \ {0}  OBVIOUS
  <2> QED  BY <2>1, SlotType
<1>4. ASSUME ret < disp PROVE ent[SlotOf(ret + 1)].id = ret + 1
  <2>1. ret + 1 \in ret + 1 .. disp  BY <1>0, <1>4
  <2> QED  BY <2>1 DEF Holds
<1>5. ASSUME NEW x \in {ret, disp}, ent[SlotOf(x + 1)].id # 0, x = ret \/ disp < ret + ROB_SIZE
      PROVE  x = ret /\ ret < disp
  <2> DEFINE n == ent[SlotOf(x + 1)].id
  <2>1. x \in Nat /\ x + 1 \in Nat \ {0}  BY <1>0
  <2>2. n \in ret + 1 .. disp /\ SlotOf(n) = SlotOf(x + 1)  BY <1>3, <1>5, <2>1 DEF Holds
  <2> HIDE DEF n
  <2>3. n \in Nat \ {0} /\ n - (x + 1) < ROB_SIZE /\ x + 1 - n < ROB_SIZE  BY <1>0, <1>5, <2>2
  <2>4. n = x + 1  BY <2>1, <2>2, <2>3, SlotsApart
  <2> QED  BY <1>0, <2>2, <2>4
<1>6. ret < disp <=> ent[ret % ROB_SIZE].id # 0
  <2>1. ent[SlotOf(ret + 1)].id # 0 => ret < disp  BY <1>5
  <2>2. ret < disp => ent[SlotOf(ret + 1)].id # 0  BY <1>0, <1>4
  <2> QED  BY <1>0, <1>2, <2>1, <2>2
<1>7. disp < ret + ROB_SIZE => ent[disp % ROB_SIZE].id = 0
  <2>1. disp < ret + ROB_SIZE /\ ent[SlotOf(disp + 1)].id # 0 => disp = ret /\ ret < disp  BY <1>5
  <2> QED  BY <1>0, <1>2, <2>1
<1> QED  BY <1>0, <1>1, <1>2, <1>3, <1>4, <1>6, <1>7

(* Instruction disp + 1 enters the first empty slot. *)
LEMMA EnterHolds ==
  ASSUME NEW ent, NEW ret, NEW disp, Holds(ent, ret, disp), disp < ret + ROB_SIZE, NEW new,
         new[disp % ROB_SIZE].id = disp + 1,
         \A k \in Slots : k # disp % ROB_SIZE => new[k].id = ent[k].id
  PROVE  Holds(new, ret, disp + 1)
<1> DEFINE t == disp % ROB_SIZE
<1>0. ret \in Nat /\ disp \in Nat /\ ret =< disp /\ ROB_SIZE \in Nat \ {0}
  BY SizesType DEF Holds
<1>1. ent[t].id = 0 /\ t \in Slots  BY HeldOnce
<1>2. SlotOf(disp + 1) = t
  <2> DEFINE y == (disp + 1) - 1
  <2>1. y = disp  BY <1>0
  <2>2. SlotOf(disp + 1) = y % ROB_SIZE  BY DEF SlotOf
  <2> HIDE DEF y
  <2> QED  BY <2>1, <2>2
<1> HIDE DEF t
<1>3. new[t].id = disp + 1 /\ \A k \in Slots : k # t => new[k].id = ent[k].id  BY DEF t
<1>4. ASSUME NEW i \in Slots, new[i].id # 0
      PROVE  new[i].id \in ret + 1 .. disp + 1 /\ SlotOf(new[i].id) = i
  <2>1. CASE i = t  BY <1>0, <1>2, <1>3, <2>1
  <2>2. CASE i # t
    <3>1. ent[i].id \in ret + 1 .. disp /\ SlotOf(ent[i].id) = i /\ new[i].id = ent[i].id
      BY <1>3, <1>4, <2>2 DEF Holds
    <3> QED  BY <1>0, <3>1
  <2> QED  BY <2>1, <2>2
<1>5. ASSUME NEW n \in ret + 1 .. disp + 1 PROVE new[SlotOf(n)].id = n
  <2>1. CASE n = disp + 1  BY <1>2, <1>3, <2>1
  <2>2. CASE n # disp + 1
    <3>1. n \in ret + 1 .. disp /\ n \in Nat \ {0}  BY <1>0, <2>2
    <3>2. ent[SlotOf(n)].id = n /\ SlotOf(n) \in Slots  BY <3>1, SlotType DEF Holds
    <3>3. SlotOf(n) # t  BY <1>1, <3>1, <3>2
    <3> QED  BY <1>3, <3>2, <3>3
  <2> QED  BY <2>1, <2>2
<1> QED  BY <1>0, <1>4, <1>5 DEF Holds

(* Instruction ret + 1 leaves. *)
LEMMA LeaveHolds ==
  ASSUME NEW ent, NEW ret, NEW disp, Holds(ent, ret, disp), ret < disp, NEW new,
         new[ret % ROB_SIZE].id = 0,
         \A k \in Slots : k # ret % ROB_SIZE => new[k].id = ent[k].id
  PROVE  Holds(new, ret + 1, disp)
<1> DEFINE h == ret % ROB_SIZE
<1>0. ret \in Nat /\ disp \in Nat /\ disp =< ret + ROB_SIZE /\ ROB_SIZE \in Nat \ {0}
  BY SizesType DEF Holds
<1>1. ent[h].id = ret + 1 /\ h \in Slots  BY HeldOnce
<1> HIDE DEF h
<1>3. new[h].id = 0 /\ \A k \in Slots : k # h => new[k].id = ent[k].id  BY DEF h
<1>4. ASSUME NEW i \in Slots, new[i].id # 0
      PROVE  new[i].id \in ret + 1 + 1 .. disp /\ SlotOf(new[i].id) = i
  <2>1. i # h  BY <1>3, <1>4
  <2>2. ent[i].id \in ret + 1 .. disp /\ SlotOf(ent[i].id) = i /\ new[i].id = ent[i].id
    BY <1>3, <1>4, <2>1 DEF Holds
  <2>3. ent[i].id # ret + 1
    <3>1. ret + 1 # 0  BY <1>0
    <3> QED  BY <1>1, <2>1, <3>1, HeldOnce
  <2>4. \A n \in ret + 1 .. disp : n # ret + 1 => n \in ret + 1 + 1 .. disp  BY <1>0
  <2> QED  BY <2>2, <2>3, <2>4
<1>5. ASSUME NEW n \in ret + 1 + 1 .. disp PROVE new[SlotOf(n)].id = n
  <2>1. n \in ret + 1 .. disp /\ n \in Nat \ {0} /\ n # ret + 1  BY <1>0
  <2>2. ent[SlotOf(n)].id = n /\ SlotOf(n) \in Slots  BY <2>1, SlotType DEF Holds
  <2>3. SlotOf(n) # h  BY <1>1, <2>1, <2>2
  <2> QED  BY <1>3, <2>2, <2>3
<1>6. ret + 1 \in Nat /\ ret + 1 =< disp /\ disp =< ret + 1 + ROB_SIZE  BY <1>0
<1> QED  BY <1>0, <1>4, <1>5, <1>6 DEF Holds

LEMMA StayHolds ==
  ASSUME NEW ent, NEW ret, NEW disp, Holds(ent, ret, disp), NEW new,
         \A k \in Slots : new[k].id = ent[k].id
  PROVE  Holds(new, ret, disp)
<1>1. \A n \in ret + 1 .. disp : SlotOf(n) \in Slots
  <2>1. \A n \in ret + 1 .. disp : n \in Nat \ {0}  BY DEF Holds
  <2> QED  BY <2>1, SlotType
<1> QED  BY <1>1 DEF Holds

(* Older is by the order of the program. *)
LEMMA AgeIs ==
  ASSUME Holds(ROB.entry, retired, dispatched), ROB.head = retired % ROB_SIZE, NEW i \in Live
  PROVE  Age(i) = ROB.entry[i].id - retired - 1
<1> DEFINE d == ROB.entry[i].id - retired - 1
<1>1. /\ i \in Slots /\ ROB.entry[i].id \in retired + 1 .. dispatched
      /\ SlotOf(ROB.entry[i].id) = i /\ retired \in Nat /\ dispatched \in Nat
      /\ dispatched =< retired + ROB_SIZE /\ ROB_SIZE \in Nat \ {0}
  BY SizesType DEF Holds, Live
<1>2. d \in 0 .. ROB_SIZE - 1 /\ retired + d = ROB.entry[i].id - 1  BY <1>1
<1>3. (retired + d) % ROB_SIZE = i
  <2>1. (ROB.entry[i].id - 1) % ROB_SIZE = i  BY <1>1 DEF SlotOf
  <2> HIDE DEF d
  <2> QED  BY <1>2, <2>1
<1> HIDE DEF d
<1>4. (((retired + d) % ROB_SIZE) - (retired % ROB_SIZE) + ROB_SIZE) % ROB_SIZE = d
  BY <1>1, <1>2, Distance
<1>5. (i - (retired % ROB_SIZE) + ROB_SIZE) % ROB_SIZE = d  BY <1>3, <1>4
<1> QED  BY <1>5 DEF Age, d

LEMMA OlderIs ==
  ASSUME Holds(ROB.entry, retired, dispatched), ROB.head = retired % ROB_SIZE, NEW i \in Live
  PROVE  /\ Older(i) = {p \in Live : ROB.entry[p].id < ROB.entry[i].id}
         /\ \A p, q \in Live : Age(p) =< Age(q) <=> ROB.entry[p].id =< ROB.entry[q].id
<1>1. \A p \in Live : ROB.entry[p].id \in Nat  BY DEF Live, Holds
<1>2. \A p \in Live : Age(p) = ROB.entry[p].id - retired - 1  BY AgeIs
<1>3. retired \in Nat  BY DEF Holds
<1>4. \A p, q \in Live : /\ Age(p) < Age(q) <=> ROB.entry[p].id < ROB.entry[q].id
                         /\ Age(p) =< Age(q) <=> ROB.entry[p].id =< ROB.entry[q].id
  <2>1. ASSUME NEW p \in Live, NEW q \in Live
        PROVE  /\ Age(p) < Age(q) <=> ROB.entry[p].id < ROB.entry[q].id
               /\ Age(p) =< Age(q) <=> ROB.entry[p].id =< ROB.entry[q].id
    <3> DEFINE a == ROB.entry[p].id
               b == ROB.entry[q].id
    <3>1. a \in Nat /\ b \in Nat /\ Age(p) = a - retired - 1 /\ Age(q) = b - retired - 1
      BY <1>1, <1>2
    <3> HIDE DEF a, b
    <3>2. Age(p) < Age(q) <=> a < b  BY <1>3, <3>1
    <3>3. Age(p) =< Age(q) <=> a =< b  BY <1>3, <3>1
    <3> QED  BY <3>2, <3>3 DEF a, b
  <2> QED  BY <2>1
<1> QED  BY <1>4 DEF Older

--------------------------------------------------------------------------------
(* Dependences *)

(* Entries that change but keep their links. *)
SameLinks(ent, new) == \A k \in Slots :
  new[k].id = ent[k].id /\ new[k].regOut = ent[k].regOut /\ new[k].memOut = ent[k].memOut
SameCounts(ent, new) == \A k \in Slots :
  /\ new[k].reg_ready = ent[k].reg_ready
  /\ new[k].num_reg_dependent = ent[k].num_reg_dependent
  /\ new[k].num_lsq_dependent = ent[k].num_lsq_dependent

LEMMA SlotsOfNeeds ==
  ASSUME NEW ent, NEW ret, NEW disp, Holds(ent, ret, disp), NEW i \in Slots, ent[i].id # 0,
         NEW k \in 1 .. ent[i].id - 1
  PROVE  /\ SlotOf(k) \in Slots /\ k \in Nat \ {0}
         /\ k > ret => k \in ret + 1 .. disp /\ ent[SlotOf(k)].id = k
<1>1. ent[i].id \in ret + 1 .. disp /\ ret \in Nat /\ disp \in Nat  BY DEF Holds
<1>2. k \in Nat \ {0} /\ (k > ret => k \in ret + 1 .. disp)  BY <1>1
<1> QED  BY <1>2, SlotType DEF Holds

(* Only what is waiting for nothing starts, and nothing completes. *)
LEMMA BeginKeeps ==
  ASSUME NEW p, NEW ent, NEW ret, NEW disp, Holds(ent, ret, disp), Deps(p, ent, ret), NEW new,
         SameLinks(ent, new), SameCounts(ent, new),
         \A k \in Slots :
           /\ new[k].scheduled = NotYet <=> ent[k].scheduled = NotYet
           /\ new[k].executed = COMPLETED <=> ent[k].executed = COMPLETED
           /\ new[k].executed # NotYet =>
                \/ ent[k].executed # NotYet
                \/ ent[k].scheduled # NotYet /\ RegIn(ent, k) = {} /\ MemIn(ent, k) = {}
  PROVE  Deps(p, new, ret) /\ Waits(new) = Waits(ent)
<1>1. Waits(new) = Waits(ent)  BY DEF Waits, SameLinks
<1>2. Waits(ent) \subseteq Slots  BY DEF Waits
<1>3. \A i : RegIn(new, i) = RegIn(ent, i)  BY <1>1, <1>2 DEF RegIn, SameLinks
<1>4. \A i : MemIn(new, i) = MemIn(ent, i)  BY <1>1, <1>2 DEF MemIn, SameLinks
<1>5. \A q \in Slots : \A i : Later(ent, q, i) => Later(new, q, i)
  BY DEF Later, SameLinks
<1>6. Linked(new)
  <2>1. Linked(ent)  BY DEF Deps
  <2>2. \A q \in Waits(ent) : new[q].regOut = ent[q].regOut /\ new[q].memOut = ent[q].memOut
    BY <1>2 DEF SameLinks
  <2> QED  BY <1>1, <1>2, <1>5, <2>1, <2>2 DEF Linked
<1>7. Counted(new)
  <2>1. Counted(ent)  BY DEF Deps
  <2>2. ASSUME NEW i \in Slots
        PROVE  /\ IsFiniteSet(RegIn(new, i))
               /\ new[i].num_reg_dependent = Cardinality(RegIn(new, i))
               /\ new[i].num_lsq_dependent = Cardinality(MemIn(new, i))
               /\ new[i].reg_ready <=> new[i].scheduled # NotYet /\ RegIn(new, i) = {}
    BY <1>3, <1>4, <2>1 DEF Counted, SameCounts
  <2> QED  BY <2>2 DEF Counted
<1>8. Started(new)
  <2>1. Started(ent)  BY DEF Deps
  <2> QED  BY <1>3, <1>4, <2>1 DEF Started, SameLinks
<1>9. InTurn(new)
  <2>1. InTurn(ent)  BY DEF Deps
  <2> QED  BY <2>1 DEF InTurn, SameLinks
<1>10. Covered(p, new, ret)
  <2>1. Covered(p, ent, ret) /\ Started(ent)  BY DEF Deps
  <2>2. ASSUME NEW i \in Slots, new[i].scheduled # NotYet, NEW k \in 1 .. ent[i].id - 1
        PROVE  /\ SlotOf(k) \in Slots
               /\ Done(ent, ret, k) => Done(new, ret, k)
    <3>1. ent[i].id # 0  BY <2>1, <2>2 DEF Started
    <3>2. SlotOf(k) \in Slots  BY <3>1, SlotsOfNeeds
    <3> QED  BY <3>2 DEF Done
  <2>3. ASSUME NEW i \in Slots, new[i].scheduled # NotYet
        PROVE  /\ \A j \in DOMAIN p[new[i].id].src, k \in Nat :
                    LastWrites(p, new[i].id, j, k) => Done(new, ret, k) \/ <<i, j>> \in new[SlotOf(k)].regOut
               /\ \A k \in Nat :
                    Precedes(p, new[i].id, k) => Done(new, ret, k) \/ i \in new[SlotOf(k)].memOut
    <3>1. ent[i].scheduled # NotYet /\ new[i].id = ent[i].id  BY <2>3 DEF SameLinks
    <3>2. ASSUME NEW j \in DOMAIN p[ent[i].id].src, NEW k \in Nat, LastWrites(p, ent[i].id, j, k)
          PROVE  Done(new, ret, k) \/ <<i, j>> \in new[SlotOf(k)].regOut
      <4>1. k \in 1 .. ent[i].id - 1  BY <3>2 DEF LastWrites, Writes
      <4>2. Done(ent, ret, k) \/ <<i, j>> \in ent[SlotOf(k)].regOut  BY <2>1, <3>1, <3>2 DEF Covered
      <4> QED  BY <2>2, <2>3, <4>1, <4>2 DEF SameLinks
    <3>3. ASSUME NEW k \in Nat, Precedes(p, ent[i].id, k)
          PROVE  Done(new, ret, k) \/ i \in new[SlotOf(k)].memOut
      <4>1. k \in 1 .. ent[i].id - 1  BY <3>3 DEF Precedes
      <4>2. Done(ent, ret, k) \/ i \in ent[SlotOf(k)].memOut  BY <2>1, <3>1, <3>3 DEF Covered
      <4> QED  BY <2>2, <2>3, <4>1, <4>2 DEF SameLinks
    <3> QED  BY <3>1, <3>2, <3>3
  <2> QED  BY <2>3 DEF Covered
<1> QED  BY <1>1, <1>6, <1>7, <1>8, <1>9, <1>10 DEF Deps

(* The dependence fields of an empty entry. *)
Blank(e) ==
  /\ e.scheduled = NotYet /\ e.executed = NotYet /\ e.reg_ready = FALSE
  /\ e.num_reg_dependent = 0 /\ e.num_lsq_dependent = 0 /\ e.regOut = {} /\ e.memOut = {}

SameOn(S, ent, new) == \A k \in S :
  /\ new[k].id = ent[k].id /\ new[k].scheduled = ent[k].scheduled
  /\ new[k].executed = ent[k].executed /\ new[k].reg_ready = ent[k].reg_ready
  /\ new[k].num_reg_dependent = ent[k].num_reg_dependent
  /\ new[k].num_lsq_dependent = ent[k].num_lsq_dependent
  /\ new[k].regOut = ent[k].regOut /\ new[k].memOut = ent[k].memOut

(* One entry becomes blank, which was empty before and is not now, or is empty *)
(* now and had completed; no link leads to it or from it.                      *)
LEMMA BlankKeeps ==
  ASSUME NEW p, NEW ent, NEW t \in Slots, NEW new, Linked(ent), Counted(ent), Started(ent),
         Blank(new[t]), SameOn(Slots \ {t}, ent, new),
         \A q \in Waits(ent) : q # t,
         \A q \in Waits(ent) : \A i : Later(ent, q, i) => i # t
  PROVE  Linked(new) /\ Counted(new) /\ Started(new)
<1>1. \A q \in Waits(new) : q = t \/ q \in Waits(ent)  BY DEF Waits, SameOn
<1>2. \A q \in Waits(ent) : q \in Waits(new) /\ q \in Slots \ {t}  BY DEF Waits, SameOn
<1>3. new[t].regOut = {} /\ new[t].memOut = {}  BY DEF Blank
<1>4. \A q \in Waits(ent) : new[q].regOut = ent[q].regOut /\ new[q].memOut = ent[q].memOut
  BY <1>2 DEF SameOn
<1>5. \A i : RegIn(new, i) = RegIn(ent, i)
  <2>1. \A i : \A x \in RegIn(new, i) : x[1] \in Waits(ent)
    BY <1>1, <1>3 DEF RegIn
  <2>2. \A i : \A x \in RegIn(new, i) : x \in RegIn(ent, i)
    BY <1>4, <2>1 DEF RegIn
  <2>3. \A i : \A x \in RegIn(ent, i) : x \in RegIn(new, i)
    BY <1>2, <1>4 DEF RegIn
  <2>4. ASSUME NEW i PROVE RegIn(new, i) = RegIn(ent, i)
    <3> DEFINE a == RegIn(new, i)
               b == RegIn(ent, i)
    <3>1. \A x \in a : x \in b  BY <2>2
    <3>2. \A x \in b : x \in a  BY <2>3
    <3> HIDE DEF a, b
    <3>3. a = b  BY <3>1, <3>2
    <3> QED  BY <3>3 DEF a, b
  <2> QED  BY <2>4
<1>6. \A i : MemIn(new, i) = MemIn(ent, i)
  BY <1>1, <1>2, <1>3, <1>4 DEF MemIn
<1>7. RegIn(ent, t) = {} /\ MemIn(ent, t) = {}
  <2>1. \A x \in RegIn(ent, t) : Later(ent, x[1], t) /\ x[1] \in Waits(ent)
    BY DEF RegIn, Linked
  <2>2. \A x \in MemIn(ent, t) : Later(ent, x, t) /\ x \in Waits(ent)
    BY DEF MemIn, Linked
  <2> QED  BY <2>1, <2>2
<1>8. Linked(new)
  <2>1. \A q \in Waits(ent) : \A i : Later(ent, q, i) => Later(new, q, i)
    <3>1. ASSUME NEW q \in Waits(ent), NEW i, Later(ent, q, i) PROVE Later(new, q, i)
      <4>1. i \in Slots \ {t}  BY <3>1 DEF Later
      <4> QED  BY <1>2, <3>1, <4>1 DEF Later, SameOn
    <3> QED  BY <3>1
  <2> QED  BY <1>1, <1>3, <1>4, <2>1 DEF Linked
<1>9. Counted(new)
  <2>1. ASSUME NEW i \in Slots
        PROVE  /\ IsFiniteSet(RegIn(new, i))
               /\ new[i].num_reg_dependent = Cardinality(RegIn(new, i))
               /\ new[i].num_lsq_dependent = Cardinality(MemIn(new, i))
               /\ new[i].reg_ready <=> new[i].scheduled # NotYet /\ RegIn(new, i) = {}
    <3>1. CASE i = t
      <4>1. RegIn(new, i) = {} /\ MemIn(new, i) = {}  BY <1>5, <1>6, <1>7, <3>1
      <4> QED  BY <3>1, <4>1, FS_EmptySet DEF Blank
    <3>2. CASE i # t
      BY <1>5, <1>6, <3>2 DEF SameOn, Counted
    <3> QED  BY <3>1, <3>2
  <2> QED  BY <2>1 DEF Counted
<1>10. Started(new)
  <2>1. ASSUME NEW i \in Slots
        PROVE  /\ new[i].scheduled # NotYet => new[i].id # 0
               /\ new[i].executed # NotYet => /\ new[i].scheduled # NotYet
                                              /\ RegIn(new, i) = {} /\ MemIn(new, i) = {}
    <3>1. CASE i = t  BY <3>1 DEF Blank
    <3>2. CASE i # t  BY <1>5, <1>6, <3>2 DEF SameOn, Started
    <3> QED  BY <3>1, <3>2
  <2> QED  BY <2>1 DEF Started
<1> QED  BY <1>8, <1>9, <1>10

(* Dispatch. *)
LEMMA EnterKeeps ==
  ASSUME NEW p, NEW ent, NEW ret, NEW disp, Holds(ent, ret, disp), Deps(p, ent, ret),
         disp < ret + ROB_SIZE, NEW new, NEW t, t = disp % ROB_SIZE,
         Blank(new[t]), new[t].id = disp + 1, SameOn(Slots \ {t}, ent, new)
  PROVE  Deps(p, new, ret)
<1>1. t \in Slots /\ ent[t].id = 0  BY HeldOnce
<1>2. \A q \in Waits(ent) : q # t  BY <1>1 DEF Waits
<1>3. \A q \in Waits(ent) : \A i : Later(ent, q, i) => i # t  BY <1>1 DEF Later
<1>4. Linked(ent) /\ Counted(ent) /\ Started(ent) /\ InTurn(ent) /\ Covered(p, ent, ret)
  BY DEF Deps
<1>5. Linked(new) /\ Counted(new) /\ Started(new)  BY <1>1, <1>2, <1>3, <1>4, BlankKeeps
<1>6. InTurn(new)
  <2>1. ASSUME NEW i \in Slots, NEW k \in Slots, new[k].id # 0, new[k].id < new[i].id,
               new[i].scheduled # NotYet
        PROVE  new[k].scheduled # NotYet
    <3>1. i # t  BY <2>1 DEF Blank
    <3>2. new[i].id = ent[i].id /\ ent[i].scheduled # NotYet  BY <2>1, <3>1 DEF SameOn
    <3>3. ent[i].id # 0  BY <1>4, <3>2 DEF Started
    <3>4. ent[i].id =< disp /\ disp \in Nat /\ ent[i].id \in Nat  BY <3>3 DEF Holds
    <3>5. k # t  BY <2>1, <3>2, <3>4
    <3> QED  BY <1>4, <2>1, <3>2, <3>5 DEF SameOn, InTurn
  <2> QED  BY <2>1 DEF InTurn
<1>7. Covered(p, new, ret)
  <2>1. ASSUME NEW i \in Slots, new[i].scheduled # NotYet, NEW k \in 1 .. ent[i].id - 1
        PROVE  /\ Done(ent, ret, k) => Done(new, ret, k)
               /\ k > ret => SlotOf(k) \in Slots \ {t}
    <3>0. i # t  BY <2>1 DEF Blank
    <3>1. ent[i].id # 0  BY <1>4, <2>1, <3>0 DEF Started, SameOn
    <3>2. SlotOf(k) \in Slots /\ (k > ret => k \in Nat \ {0} /\ ent[SlotOf(k)].id = k)
      BY <3>1, SlotsOfNeeds
    <3>3. k > ret => SlotOf(k) \in Slots \ {t}  BY <1>1, <3>2
    <3>4. ret \in Nat /\ k \in Int  BY DEF Holds
    <3>5. ~(k =< ret) => k > ret  BY <3>4
    <3> QED  BY <3>3, <3>5 DEF Done, SameOn
  <2>2. ASSUME NEW i \in Slots, new[i].scheduled # NotYet
        PROVE  /\ \A j \in DOMAIN p[new[i].id].src, k \in Nat :
                    LastWrites(p, new[i].id, j, k) => Done(new, ret, k) \/ <<i, j>> \in new[SlotOf(k)].regOut
               /\ \A k \in Nat :
                    Precedes(p, new[i].id, k) => Done(new, ret, k) \/ i \in new[SlotOf(k)].memOut
    <3>0. i # t  BY <2>2 DEF Blank
    <3>1. ent[i].scheduled # NotYet /\ new[i].id = ent[i].id  BY <2>2, <3>0 DEF SameOn
    <3>5. \A k \in Nat : k =< ret \/ k > ret  BY DEF Holds
    <3>6. \A k : k =< ret => Done(new, ret, k)  BY DEF Done
    <3>2. ASSUME NEW j \in DOMAIN p[ent[i].id].src, NEW k \in Nat, LastWrites(p, ent[i].id, j, k)
          PROVE  Done(new, ret, k) \/ <<i, j>> \in new[SlotOf(k)].regOut
      <4>1. k \in 1 .. ent[i].id - 1  BY <3>2 DEF LastWrites, Writes
      <4>2. Done(ent, ret, k) \/ <<i, j>> \in ent[SlotOf(k)].regOut
        BY <1>4, <3>1, <3>2 DEF Covered
      <4> QED  BY <2>1, <2>2, <3>5, <3>6, <4>1, <4>2 DEF SameOn
    <3>3. ASSUME NEW k \in Nat, Precedes(p, ent[i].id, k)
          PROVE  Done(new, ret, k) \/ i \in new[SlotOf(k)].memOut
      <4>1. k \in 1 .. ent[i].id - 1  BY <3>3 DEF Precedes
      <4>2. Done(ent, ret, k) \/ i \in ent[SlotOf(k)].memOut
        BY <1>4, <3>1, <3>3 DEF Covered
      <4> QED  BY <2>1, <2>2, <3>5, <3>6, <4>1, <4>2 DEF SameOn
    <3> QED  BY <3>1, <3>2, <3>3
  <2> QED  BY <2>2 DEF Covered
<1> QED  BY <1>5, <1>6, <1>7 DEF Deps

(* Retirement. *)
LEMMA LeaveKeeps ==
  ASSUME NEW p, NEW ent, NEW ret, NEW disp, Holds(ent, ret, disp), Deps(p, ent, ret),
         ret < disp, NEW t, t = ret % ROB_SIZE, ent[t].executed = COMPLETED, NEW new,
         Blank(new[t]), new[t].id = 0, SameOn(Slots \ {t}, ent, new)
  PROVE  Deps(p, new, ret + 1)
<1>1. t \in Slots /\ ent[t].id = ret + 1 /\ ret \in Nat /\ disp \in Nat
  BY HeldOnce DEF Holds
<1>2. \A q \in Waits(ent) : q # t  BY DEF Waits
<1>3. \A q \in Waits(ent) : \A i : Later(ent, q, i) => i # t
  <2>1. ASSUME NEW q \in Waits(ent), Later(ent, q, t) PROVE FALSE
    <3>1. ent[q].id < ret + 1  BY <1>1, <2>1 DEF Later
    <3>2. ent[q].id \in ret + 1 .. disp  BY DEF Holds, Waits
    <3> QED  BY <1>1, <3>1, <3>2
  <2> QED  BY <2>1
<1>4. Linked(ent) /\ Counted(ent) /\ Started(ent) /\ InTurn(ent) /\ Covered(p, ent, ret)
  BY DEF Deps
<1>5. Linked(new) /\ Counted(new) /\ Started(new)  BY <1>1, <1>2, <1>3, <1>4, BlankKeeps
<1>6. InTurn(new)
  <2>1. ASSUME NEW i \in Slots, NEW k \in Slots, new[k].id # 0, new[k].id < new[i].id,
               new[i].scheduled # NotYet
        PROVE  new[k].scheduled # NotYet
    <3>1. i # t /\ k # t  BY <2>1 DEF Blank
    <3> QED  BY <1>4, <2>1, <3>1 DEF SameOn, InTurn
  <2> QED  BY <2>1 DEF InTurn
<1>7. Covered(p, new, ret + 1)
  <2>1. ASSUME NEW i \in Slots, new[i].scheduled # NotYet, NEW k \in 1 .. ent[i].id - 1
        PROVE  /\ Done(ent, ret, k) => Done(new, ret + 1, k)
               /\ k > ret + 1 => SlotOf(k) \in Slots \ {t}
    <3>0. i # t  BY <2>1 DEF Blank
    <3>1. ent[i].id # 0  BY <1>4, <2>1, <3>0 DEF Started, SameOn
    <3>2. SlotOf(k) \in Slots /\ k \in Nat \ {0} /\ (k > ret => ent[SlotOf(k)].id = k)
      BY <3>1, SlotsOfNeeds
    <3>3. k > ret + 1 => SlotOf(k) \in Slots \ {t}
      <4>1. k > ret + 1 => k > ret /\ k # ret + 1  BY <1>1, <3>2
      <4> QED  BY <1>1, <3>2, <4>1
    <3>4. k =< ret => k =< ret + 1  BY <1>1, <3>2
    <3>5. ~(k =< ret + 1) => k > ret + 1  BY <1>1, <3>2
    <3> QED  BY <3>3, <3>4, <3>5 DEF Done, SameOn
  <2>2. ASSUME NEW i \in Slots, new[i].scheduled # NotYet
        PROVE  /\ \A j \in DOMAIN p[new[i].id].src, k \in Nat :
                    LastWrites(p, new[i].id, j, k)
                      => Done(new, ret + 1, k) \/ <<i, j>> \in new[SlotOf(k)].regOut
               /\ \A k \in Nat :
                    Precedes(p, new[i].id, k) => Done(new, ret + 1, k) \/ i \in new[SlotOf(k)].memOut
    <3>0. i # t  BY <2>2 DEF Blank
    <3>1. ent[i].scheduled # NotYet /\ new[i].id = ent[i].id  BY <2>2, <3>0 DEF SameOn
    <3>5. \A k \in Nat : k =< ret + 1 \/ k > ret + 1  BY <1>1
    <3>6. \A k : k =< ret + 1 => Done(new, ret + 1, k)  BY DEF Done
    <3>2. ASSUME NEW j \in DOMAIN p[ent[i].id].src, NEW k \in Nat, LastWrites(p, ent[i].id, j, k)
          PROVE  Done(new, ret + 1, k) \/ <<i, j>> \in new[SlotOf(k)].regOut
      <4>1. k \in 1 .. ent[i].id - 1  BY <3>2 DEF LastWrites, Writes
      <4>2. Done(ent, ret, k) \/ <<i, j>> \in ent[SlotOf(k)].regOut
        BY <1>4, <3>1, <3>2 DEF Covered
      <4> QED  BY <2>1, <2>2, <3>5, <3>6, <4>1, <4>2 DEF SameOn
    <3>3. ASSUME NEW k \in Nat, Precedes(p, ent[i].id, k)
          PROVE  Done(new, ret + 1, k) \/ i \in new[SlotOf(k)].memOut
      <4>1. k \in 1 .. ent[i].id - 1  BY <3>3 DEF Precedes
      <4>2. Done(ent, ret, k) \/ i \in ent[SlotOf(k)].memOut
        BY <1>4, <3>1, <3>3 DEF Covered
      <4> QED  BY <2>1, <2>2, <3>5, <3>6, <4>1, <4>2 DEF SameOn
    <3> QED  BY <3>1, <3>2, <3>3
  <2> QED  BY <2>2 DEF Covered
<1> QED  BY <1>5, <1>6, <1>7 DEF Deps

--------------------------------------------------------------------------------
(* Completion releases what is linked *)

LinksTo(e, k) == {l \in e.regOut : l[1] = k}

(* What complete_execution does to the entries when the one in slot i is done. *)
Releases(ent, new, i) == \A k \in Slots :
  /\ new[k].id = ent[k].id /\ new[k].regOut = ent[k].regOut /\ new[k].memOut = ent[k].memOut
  /\ new[k].executed = IF k = i THEN COMPLETED ELSE ent[k].executed
  /\ new[k].num_lsq_dependent =
       IF k \in ent[i].memOut THEN ent[k].num_lsq_dependent - 1 ELSE ent[k].num_lsq_dependent
  /\ new[k].num_reg_dependent = ent[k].num_reg_dependent - Cardinality(LinksTo(ent[i], k))
  /\ LET freed == Cardinality(LinksTo(ent[i], k))
         ready == freed > 0 /\ ent[k].num_reg_dependent = freed
     IN /\ new[k].reg_ready <=> ent[k].reg_ready \/ ready
        /\ ready => new[k].scheduled # NotYet
        /\ ~ready => new[k].scheduled = ent[k].scheduled

LEMMA ReleasedLinks ==
  ASSUME NEW ent, CoreType(ent), NEW i \in Waits(ent), NEW k \in Slots,
         IsFiniteSet(RegIn(ent, k)),
         NEW new, \A q : q \in Waits(new) <=> q \in Waits(ent) /\ q # i,
         \A q \in Slots : new[q].regOut = ent[q].regOut
  PROVE  /\ RegIn(new, k) \subseteq RegIn(ent, k) /\ IsFiniteSet(RegIn(new, k))
         /\ Cardinality(LinksTo(ent[i], k)) \in Nat
         /\ Cardinality(RegIn(ent, k)) \in Nat
         /\ Cardinality(RegIn(new, k)) = Cardinality(RegIn(ent, k)) - Cardinality(LinksTo(ent[i], k))
         /\ Cardinality(LinksTo(ent[i], k)) = 0 => RegIn(new, k) = RegIn(ent, k)
         /\ Cardinality(LinksTo(ent[i], k)) > 0 => RegIn(ent, k) # {}
<1> DEFINE links == LinksTo(ent[i], k)
           gone  == {x \in RegIn(ent, k) : x[1] = i}
           old   == RegIn(ent, k)
           rest  == RegIn(new, k)
           g     == [x \in gone |-> x[2]]
<1>0. i \in Slots /\ ent[i].regOut \subseteq Slots \X Nat /\ \A q \in Waits(ent) : q \in Slots
  BY DEF Waits, CoreType
<1>1. \A l \in links : <<i, l>> \in gone /\ <<i, l>>[2] = l
  BY <1>0 DEF LinksTo, RegIn
<1>2. \A x \in gone : x[2] \in links /\ x = <<i, x[2]>>
  BY DEF LinksTo, RegIn
<1>3. \A x : x \in rest <=> x \in old /\ x \notin gone
  BY <1>0 DEF RegIn
<1>4. gone \subseteq old  OBVIOUS
<1>5. IsFiniteSet(old)  OBVIOUS
<1> HIDE DEF links, gone, old, rest
<1>6. OneToOne(g, gone, links)
  <2>1. g \in [gone -> links] /\ \A x \in gone : g[x] = x[2]  BY <1>2
  <2> HIDE DEF g
  <2>2. Onto(g, gone, links)  BY <1>1, <2>1 DEF Onto
  <2>3. \A x, y \in gone : g[x] = g[y] => x = y  BY <1>2, <2>1
  <2> QED  BY <2>1, <2>2, <2>3 DEF OneToOne
<1> HIDE DEF g
<1>7. IsFiniteSet(gone)  BY <1>4, <1>5, FS_Subset
<1>8. IsFiniteSet(links) /\ Cardinality(links) = Cardinality(gone)  BY <1>6, <1>7, SameSize
<1>9. rest = old \ gone /\ old \cap gone = gone  BY <1>3, <1>4
<1>10. IsFiniteSet(rest) /\ Cardinality(rest) = Cardinality(old) - Cardinality(links)
  <2>1. /\ IsFiniteSet(old \ gone)
        /\ Cardinality(old \ gone) = Cardinality(old) - Cardinality(old \cap gone)
    BY <1>5, FS_Difference
  <2> QED  BY <1>8, <1>9, <2>1
<1>11. Cardinality(links) \in Nat /\ Cardinality(old) \in Nat  BY <1>5, <1>8, FS_CardinalityType
<1>12. Cardinality(links) = 0 => rest = old  BY <1>7, <1>8, <1>9, FS_EmptySet
<1>13. Cardinality(links) > 0 => old # {}  BY <1>4, <1>7, <1>8, FS_EmptySet
<1> QED  BY <1>9, <1>10, <1>11, <1>12, <1>13 DEF links, old, rest

LEMMA ReleasedCounts ==
  ASSUME NEW ent, CoreType(ent), Linked(ent), Counted(ent), Started(ent),
         NEW i \in Waits(ent), ent[i].executed # NotYet, NEW new, Releases(ent, new, i),
         NEW k \in Slots
  PROVE  /\ IsFiniteSet(RegIn(new, k)) /\ RegIn(new, k) \subseteq RegIn(ent, k)
         /\ MemIn(new, k) \subseteq MemIn(ent, k)
         /\ new[k].num_reg_dependent = Cardinality(RegIn(new, k))
         /\ new[k].num_lsq_dependent = Cardinality(MemIn(new, k))
         /\ new[k].reg_ready <=> new[k].scheduled # NotYet /\ RegIn(new, k) = {}
         /\ new[k].scheduled = NotYet <=> ent[k].scheduled = NotYet
<1> DEFINE freed == Cardinality(LinksTo(ent[i], k))
           old   == RegIn(ent, k)
           rest  == RegIn(new, k)
           ready == freed > 0 /\ ent[k].num_reg_dependent = freed
<1>1. \A q : q \in Waits(new) <=> q \in Waits(ent) /\ q # i
  BY DEF Waits, Releases
<1>2. \A q \in Slots : new[q].regOut = ent[q].regOut  BY DEF Releases
<1>3. IsFiniteSet(old)  BY DEF Counted
<1>4. /\ rest \subseteq old /\ IsFiniteSet(rest) /\ freed \in Nat
      /\ Cardinality(rest) = Cardinality(old) - freed
      /\ freed = 0 => rest = old
      /\ freed > 0 => old # {}
      /\ Cardinality(old) \in Nat
  BY <1>1, <1>2, <1>3, ReleasedLinks
<1>5. ent[k].num_reg_dependent = Cardinality(old)  BY DEF Counted
<1>6. new[k].num_reg_dependent = Cardinality(rest)
  <2>1. new[k].num_reg_dependent = ent[k].num_reg_dependent - freed  BY DEF Releases
  <2> QED  BY <1>4, <1>5, <2>1
<1>7. MemIn(new, k) \subseteq MemIn(ent, k) /\ new[k].num_lsq_dependent = Cardinality(MemIn(new, k))
  <2> DEFINE m == MemIn(ent, k)
             r == MemIn(new, k)
  <2>1. \A q \in Waits(ent) : q \in Slots  BY DEF Waits
  <2>2. \A q : q \in r <=> q \in m /\ q # i  BY <1>1, <2>1 DEF MemIn, Releases
  <2>3. i \in m <=> k \in ent[i].memOut  BY DEF MemIn
  <2>4. IsFiniteSet(m)
    <3>1. m \subseteq Slots  BY <2>1 DEF MemIn
    <3>2. IsFiniteSet(Slots)  BY SizesType, IntervalSize DEF Slots
    <3> HIDE DEF m
    <3> QED  BY <3>1, <3>2, FS_Subset
  <2>5. ent[k].num_lsq_dependent = Cardinality(m)  BY DEF Counted
  <2>6. new[k].num_lsq_dependent = IF i \in m THEN Cardinality(m) - 1 ELSE Cardinality(m)
    BY <2>3, <2>5 DEF Releases
  <2> HIDE DEF m, r
  <2>7. r = m \ {i}  BY <2>2
  <2> QED  BY <2>4, <2>6, <2>7, FS_RemoveElement DEF m, r
<1>8. ready <=> freed > 0 /\ rest = {}
  <2>1. rest = {} <=> Cardinality(rest) = 0  BY <1>4, FS_EmptySet
  <2> HIDE DEF freed, rest, old
  <2> QED  BY <1>4, <1>5, <2>1
<1>9. /\ new[k].reg_ready <=> ent[k].reg_ready \/ ready
      /\ ready => new[k].scheduled # NotYet
      /\ ~ready => new[k].scheduled = ent[k].scheduled
  BY DEF Releases
<1>10. ent[k].reg_ready <=> ent[k].scheduled # NotYet /\ old = {}  BY DEF Counted
<1>11. old # {} => ent[k].scheduled # NotYet
  BY DEF RegIn, Linked, Later
<1> HIDE DEF freed, rest, old, ready
<1>12. ready => old # {} /\ ent[k].scheduled # NotYet  BY <1>4, <1>8, <1>11
<1>13. new[k].reg_ready <=> new[k].scheduled # NotYet /\ rest = {}
  <2>1. CASE ready  BY <1>8, <1>9, <2>1
  <2>2. CASE ~ready
    <3>1. freed = 0 \/ rest # {}  BY <1>4, <1>8, <2>2
    <3> QED  BY <1>4, <1>9, <1>10, <2>2, <3>1
  <2> QED  BY <2>1, <2>2
<1>14. new[k].scheduled = NotYet <=> ent[k].scheduled = NotYet  BY <1>9, <1>12
<1> QED  BY <1>4, <1>6, <1>7, <1>13, <1>14 DEF rest, old

LEMMA ReleaseKeeps ==
  ASSUME NEW p, NEW ent, NEW ret, NEW disp, Holds(ent, ret, disp), CoreType(ent),
         Deps(p, ent, ret), NEW i \in Waits(ent), ent[i].executed # NotYet,
         NEW new, Releases(ent, new, i)
  PROVE  Deps(p, new, ret)
<1>1. Linked(ent) /\ Counted(ent) /\ Started(ent) /\ InTurn(ent) /\ Covered(p, ent, ret)
  BY DEF Deps
<1>2. \A q : q \in Waits(new) <=> q \in Waits(ent) /\ q # i
  BY DEF Waits, Releases
<1>3. \A k \in Slots :
        /\ IsFiniteSet(RegIn(new, k)) /\ RegIn(new, k) \subseteq RegIn(ent, k)
        /\ MemIn(new, k) \subseteq MemIn(ent, k)
        /\ new[k].num_reg_dependent = Cardinality(RegIn(new, k))
        /\ new[k].num_lsq_dependent = Cardinality(MemIn(new, k))
        /\ new[k].reg_ready <=> new[k].scheduled # NotYet /\ RegIn(new, k) = {}
        /\ new[k].scheduled = NotYet <=> ent[k].scheduled = NotYet
  BY <1>1, ReleasedCounts
<1>4. \A k \in Slots : /\ new[k].id = ent[k].id /\ new[k].regOut = ent[k].regOut
                       /\ new[k].memOut = ent[k].memOut
                       /\ new[k].executed = IF k = i THEN COMPLETED ELSE ent[k].executed
  BY DEF Releases
<1>5. \A q \in Waits(ent) : q \in Slots  BY DEF Waits
<1>6. Linked(new)
  <2>1. \A q \in Waits(ent) : \A k : Later(ent, q, k) => Later(new, q, k)
    BY <1>3, <1>4, <1>5 DEF Later
  <2> QED  BY <1>1, <1>2, <1>4, <1>5, <2>1 DEF Linked
<1>7. Counted(new)  BY <1>3 DEF Counted
<1>8. Started(new)
  <2>1. ASSUME NEW k \in Slots
        PROVE  /\ new[k].scheduled # NotYet => new[k].id # 0
               /\ new[k].executed # NotYet => /\ new[k].scheduled # NotYet
                                              /\ RegIn(new, k) = {} /\ MemIn(new, k) = {}
    <3>1. new[k].executed # NotYet => ent[k].executed # NotYet  BY <1>4
    <3> QED  BY <1>1, <1>3, <1>4, <3>1 DEF Started
  <2> QED  BY <2>1 DEF Started
<1>9. InTurn(new)  BY <1>1, <1>3, <1>4 DEF InTurn
<1>10. Covered(p, new, ret)
  <2>1. ASSUME NEW k \in Slots, new[k].scheduled # NotYet, NEW n \in 1 .. ent[k].id - 1
        PROVE  SlotOf(n) \in Slots /\ (Done(ent, ret, n) => Done(new, ret, n))
    <3>1. ent[k].id # 0  BY <1>1, <1>3, <2>1 DEF Started
    <3>2. SlotOf(n) \in Slots  BY <3>1, SlotsOfNeeds
    <3> QED  BY <1>4, <3>2 DEF Done
  <2>2. ASSUME NEW k \in Slots, new[k].scheduled # NotYet
        PROVE  /\ \A j \in DOMAIN p[new[k].id].src, n \in Nat :
                    LastWrites(p, new[k].id, j, n) => Done(new, ret, n) \/ <<k, j>> \in new[SlotOf(n)].regOut
               /\ \A n \in Nat :
                    Precedes(p, new[k].id, n) => Done(new, ret, n) \/ k \in new[SlotOf(n)].memOut
    <3>1. ent[k].scheduled # NotYet /\ new[k].id = ent[k].id  BY <1>3, <1>4, <2>2
    <3>2. ASSUME NEW j \in DOMAIN p[ent[k].id].src, NEW n \in Nat, LastWrites(p, ent[k].id, j, n)
          PROVE  Done(new, ret, n) \/ <<k, j>> \in new[SlotOf(n)].regOut
      <4>1. n \in 1 .. ent[k].id - 1  BY <3>2 DEF LastWrites, Writes
      <4>2. Done(ent, ret, n) \/ <<k, j>> \in ent[SlotOf(n)].regOut
        BY <1>1, <3>1, <3>2 DEF Covered
      <4> QED  BY <1>4, <2>1, <2>2, <4>1, <4>2
    <3>3. ASSUME NEW n \in Nat, Precedes(p, ent[k].id, n)
          PROVE  Done(new, ret, n) \/ k \in new[SlotOf(n)].memOut
      <4>1. n \in 1 .. ent[k].id - 1  BY <3>3 DEF Precedes
      <4>2. Done(ent, ret, n) \/ k \in ent[SlotOf(n)].memOut
        BY <1>1, <3>1, <3>3 DEF Covered
      <4> QED  BY <1>4, <2>1, <2>2, <4>1, <4>2
    <3> QED  BY <3>1, <3>2, <3>3
  <2> QED  BY <2>2 DEF Covered
<1> QED  BY <1>6, <1>7, <1>8, <1>9, <1>10 DEF Deps

--------------------------------------------------------------------------------
(* Scheduling links what is needed *)

LEMMA LeastNat ==
  ASSUME NEW S, \A x \in S : x \in Nat, S # {}
  PROVE  \E x \in S : \A y \in S : x =< y
<1>0. S \subseteq Nat  OBVIOUS
<1>1. \E x \in S : \A y \in S : ~ (<<y, x>> \in OpToRel(<, Nat))
  BY <1>0, NatLessThanWellFounded, WFMin, Zenon
<1>2. ASSUME NEW x \in Nat, NEW y \in Nat, y < x
      PROVE  <<y, x>> \in OpToRel(<, Nat)
  BY <1>2, Zenon DEF OpToRel
<1>3. PICK x \in S : \A y \in S : ~ (<<y, x>> \in OpToRel(<, Nat))  BY <1>1
<1>4. x \in Nat /\ \A y \in S : y \in Nat /\ ~ (y < x)  BY <1>0, <1>2, <1>3
<1> QED  BY <1>4

LEMMA GreatestNat ==
  ASSUME NEW S, NEW n \in Nat, \A x \in S : x \in 0 .. n, S # {}
  PROVE  \E x \in S : \A y \in S : y =< x
<1> DEFINE T == {n - x : x \in S}
<1>1. T # {} /\ \A y \in T : y \in Nat  OBVIOUS
<1>2. PICK t \in T : \A y \in T : t =< y
  <2> HIDE DEF T
  <2> QED  BY <1>1, LeastNat
<1>3. PICK x \in S : t = n - x  OBVIOUS
<1>4. ASSUME NEW y \in S PROVE y =< x
  <2>1. n - y \in T  OBVIOUS
  <2>2. t =< n - y  BY <1>2, <2>1
  <2>3. x \in 0 .. n /\ y \in 0 .. n  OBVIOUS
  <2> QED  BY <1>3, <2>2, <2>3
<1> QED  BY <1>4

WritersOf(p, ent, i, j) ==
  {q \in Waits(ent) : /\ ent[q].id < ent[i].id
                      /\ p[ent[q].id].asid = p[ent[i].id].asid
                      /\ p[ent[i].id].src[j] \in Range(p[ent[q].id].dst)}
ProducersOf(p, ent, i, j) ==
  {q \in WritersOf(p, ent, i, j) : \A r \in WritersOf(p, ent, i, j) : ent[r].id =< ent[q].id}
RegDependentOf(p, ent, i) == {j \in DOMAIN p[ent[i].id].src : WritersOf(p, ent, i, j) # {}}
MemProducersOf(p, ent, i) ==
  {q \in Waits(ent) : /\ ent[q].id < ent[i].id /\ IsMemory(p[ent[i].id])
                      /\ Hazard(p[ent[q].id], p[ent[i].id])}

(* What schedule_instruction does to the entries when those in N are due. *)
Schedules(p, ent, new, N) ==
  /\ \A k \in Slots :
       /\ new[k].id = ent[k].id /\ new[k].executed = ent[k].executed
       /\ \A l : l \in new[k].regOut <=>
                   \/ l \in ent[k].regOut
                   \/ \E i \in N : \E j \in DOMAIN p[ent[i].id].src :
                        l = <<i, j>> /\ k \in ProducersOf(p, ent, i, j)
       /\ \A i : i \in new[k].memOut <=>
                   i \in ent[k].memOut \/ (i \in N /\ k \in MemProducersOf(p, ent, i))
  /\ \A k \in N :
       /\ new[k].scheduled # NotYet
       /\ new[k].reg_ready <=> RegDependentOf(p, ent, k) = {}
       /\ new[k].num_reg_dependent = Cardinality(RegDependentOf(p, ent, k))
       /\ new[k].num_lsq_dependent = Cardinality(MemProducersOf(p, ent, k))
  /\ \A k \in Slots \ N :
       /\ new[k].scheduled = ent[k].scheduled /\ new[k].reg_ready = ent[k].reg_ready
       /\ new[k].num_reg_dependent = ent[k].num_reg_dependent
       /\ new[k].num_lsq_dependent = ent[k].num_lsq_dependent

(* A source that some waiting instruction writes has one producer. *)
LEMMA OneProducer ==
  ASSUME NEW p, NEW ent, NEW ret, NEW disp, Holds(ent, ret, disp), NEW i \in Slots, NEW j
  PROVE  /\ WritersOf(p, ent, i, j) # {} => ProducersOf(p, ent, i, j) # {}
         /\ \A q, r \in ProducersOf(p, ent, i, j) : q = r
         /\ ProducersOf(p, ent, i, j) \subseteq WritersOf(p, ent, i, j)
         /\ WritersOf(p, ent, i, j) \subseteq Waits(ent)
<1> DEFINE W   == WritersOf(p, ent, i, j)
           P   == ProducersOf(p, ent, i, j)
           ids == {ent[q].id : q \in W}
<1>1. W \subseteq Waits(ent) /\ P \subseteq W  BY DEF WritersOf, ProducersOf
<1>2. \A q \in Waits(ent) : q \in Slots /\ ent[q].id # 0  BY DEF Waits
<1>3. \A q \in Waits(ent) : ent[q].id \in Nat /\ ent[q].id \in 0 .. disp
  BY <1>2 DEF Holds
<1>4. disp \in Nat  BY DEF Holds
<1>5. ASSUME W # {} PROVE P # {}
  <2>1. ids # {} /\ \A x \in ids : x \in 0 .. disp  BY <1>1, <1>3, <1>5
  <2>2. PICK x \in ids : \A y \in ids : y =< x
    <3> HIDE DEF ids
    <3> QED  BY <1>4, <2>1, GreatestNat
  <2>3. PICK q \in W : x = ent[q].id  OBVIOUS
  <2>4. \A r \in W : ent[r].id =< ent[q].id  BY <2>2, <2>3
  <2> QED  BY <2>3, <2>4 DEF ProducersOf
<1>6. ASSUME NEW q \in P, NEW r \in P PROVE q = r
  <2>1. q \in W /\ r \in W /\ ent[q].id =< ent[r].id /\ ent[r].id =< ent[q].id
    BY DEF ProducersOf
  <2>2. ent[q].id = ent[r].id  BY <1>1, <1>3, <2>1
  <2> QED  BY <1>1, <1>2, <2>1, <2>2, HeldOnce
<1> QED  BY <1>1, <1>5, <1>6

(* The links to a newly scheduled instruction: one for each dependent source. *)
LEMMA NewLinks ==
  ASSUME NEW p, NEW ent, NEW ret, NEW disp, Holds(ent, ret, disp), Deps(p, ent, ret),
         NEW N \in SUBSET Slots, NEW new, Schedules(p, ent, new, N),
         NEW i \in N, ent[i].scheduled = NotYet,
         DOMAIN p[ent[i].id].src \subseteq Nat, IsFiniteSet(DOMAIN p[ent[i].id].src)
  PROVE  /\ IsFiniteSet(RegIn(new, i))
         /\ Cardinality(RegIn(new, i)) = Cardinality(RegDependentOf(p, ent, i))
         /\ RegIn(new, i) = {} <=> RegDependentOf(p, ent, i) = {}
         /\ MemIn(new, i) = MemProducersOf(p, ent, i)
<1> DEFINE D == RegDependentOf(p, ent, i)
           R == RegIn(new, i)
           g == [x \in R |-> x[2][2]]
<1>0. Waits(new) = Waits(ent) /\ Waits(ent) \subseteq Slots /\ i \in Slots
  BY DEF Waits, Schedules
<1>1. \A q \in Waits(ent) : /\ \A l \in ent[q].regOut : l[1] # i
                            /\ i \notin ent[q].memOut
  BY DEF Deps, Linked, Later
<1>2. \A x \in R : /\ x = <<x[1], <<i, x[2][2]>>>> /\ x[2][2] \in D
                   /\ x[1] \in ProducersOf(p, ent, i, x[2][2])
  <2>1. ASSUME NEW x \in R
        PROVE  /\ x = <<x[1], <<i, x[2][2]>>>> /\ x[2][2] \in D
               /\ x[1] \in ProducersOf(p, ent, i, x[2][2])
    <3>1. /\ x[1] \in Waits(ent) /\ x = <<x[1], x[2]>> /\ x[2] = <<i, x[2][2]>>
          /\ x[2] \in new[x[1]].regOut /\ x[2][1] = i
      BY <1>0 DEF RegIn
    <3>2. x[2] \notin ent[x[1]].regOut  BY <1>1, <3>1
    <3>3a. PICK a \in N : \E j \in DOMAIN p[ent[a].id].src :
             x[2] = <<a, j>> /\ x[1] \in ProducersOf(p, ent, a, j)
      BY <1>0, <3>1, <3>2 DEF Schedules
    <3>3. PICK j \in DOMAIN p[ent[a].id].src :
            x[2] = <<a, j>> /\ x[1] \in ProducersOf(p, ent, a, j)
      BY <3>3a
    <3>4. a = i /\ j = x[2][2]  BY <3>1, <3>3
    <3>5. WritersOf(p, ent, i, j) # {}  BY <3>3, <3>4 DEF ProducersOf
    <3> QED  BY <3>1, <3>3, <3>4, <3>5 DEF RegDependentOf
  <2> QED  BY <2>1
<1>3. ASSUME NEW j \in D PROVE \E x \in R : x[2][2] = j
  <2>1. j \in DOMAIN p[ent[i].id].src /\ WritersOf(p, ent, i, j) # {}  BY DEF RegDependentOf
  <2>2. PICK q \in ProducersOf(p, ent, i, j) : q \in Waits(ent)  BY <1>0, <2>1, OneProducer
  <2>3. <<i, j>> \in new[q].regOut  BY <1>0, <2>1, <2>2 DEF Schedules
  <2>4. <<q, <<i, j>>>> \in R  BY <1>0, <2>1, <2>2, <2>3 DEF RegIn
  <2>5. <<q, <<i, j>>>>[2][2] = j  OBVIOUS
  <2> QED  BY <2>4, <2>5
<1>4. \A x, y \in R : x[2][2] = y[2][2] => x = y
  <2>1. ASSUME NEW x \in R, NEW y \in R, x[2][2] = y[2][2] PROVE x = y
    <3>1. x[1] = y[1]  BY <1>0, <1>2, <2>1, OneProducer
    <3> QED  BY <1>2, <2>1, <3>1
  <2> QED  BY <2>1
<1>5. IsFiniteSet(D)
  <2>1. D \subseteq DOMAIN p[ent[i].id].src  BY DEF RegDependentOf
  <2> HIDE DEF D
  <2> QED  BY <2>1, FS_Subset
<1> HIDE DEF R, D
<1>6. g \in [R -> D] /\ \A x \in R : g[x] = x[2][2]  BY <1>2
<1> HIDE DEF g
<1>7. \A x, y \in R : g[x] = g[y] => x = y  BY <1>4, <1>6
<1>8. Onto(g, R, D)  BY <1>3, <1>6 DEF Onto
<1>9. IsFiniteSet(R)  BY <1>5, <1>6, <1>7, InjectionSize
<1>10. OneToOne(g, R, D)  BY <1>6, <1>7, <1>8 DEF OneToOne
<1>11. Cardinality(D) = Cardinality(R)  BY <1>9, <1>10, SameSize
<1>12. R = {} <=> D = {}  BY <1>2, <1>3
<1>13. MemIn(new, i) = MemProducersOf(p, ent, i)
  <2>1. MemProducersOf(p, ent, i) \subseteq Waits(ent)  BY DEF MemProducersOf
  <2>2. \A q \in Waits(ent) : i \in new[q].memOut <=> q \in MemProducersOf(p, ent, i)
    BY <1>0, <1>1 DEF Schedules
  <2> QED  BY <1>0, <2>1, <2>2 DEF MemIn
<1> QED  BY <1>9, <1>11, <1>12, <1>13 DEF R, D

LEMMA ScheduleKeeps ==
  ASSUME NEW p, NEW ent, NEW ret, NEW disp, Holds(ent, ret, disp), Deps(p, ent, ret),
         NEW N \in SUBSET Slots, NEW new, Schedules(p, ent, new, N),
         \A i \in N : /\ ent[i].id # 0 /\ ent[i].scheduled = NotYet
                      /\ DOMAIN p[ent[i].id].src \subseteq Nat
                      /\ IsFiniteSet(DOMAIN p[ent[i].id].src),
         \A i \in N, k \in Slots :
           ent[k].id # 0 /\ ent[k].id < ent[i].id => k \in N \/ ent[k].scheduled # NotYet
  PROVE  Deps(p, new, ret)
<1>1. Linked(ent) /\ Counted(ent) /\ Started(ent) /\ InTurn(ent) /\ Covered(p, ent, ret)
  BY DEF Deps
<1>2. Waits(new) = Waits(ent) /\ Waits(ent) \subseteq Slots
  BY DEF Waits, Schedules
<1>3. \A k \in Slots :
        /\ new[k].id = ent[k].id /\ new[k].executed = ent[k].executed
        /\ new[k].scheduled # NotYet <=> ent[k].scheduled # NotYet \/ k \in N
        /\ ent[k].regOut \subseteq new[k].regOut /\ ent[k].memOut \subseteq new[k].memOut
  BY DEF Schedules
<1>4. \A i \in N : /\ IsFiniteSet(RegIn(new, i))
                   /\ Cardinality(RegIn(new, i)) = Cardinality(RegDependentOf(p, ent, i))
                   /\ RegIn(new, i) = {} <=> RegDependentOf(p, ent, i) = {}
                   /\ MemIn(new, i) = MemProducersOf(p, ent, i)
  BY NewLinks
<1>5. \A i \in Slots \ N : RegIn(new, i) = RegIn(ent, i) /\ MemIn(new, i) = MemIn(ent, i)
  <2>1. ASSUME NEW i \in Slots \ N PROVE RegIn(new, i) = RegIn(ent, i) /\ MemIn(new, i) = MemIn(ent, i)
    <3>1. \A q \in Slots : \A l : l[1] = i => (l \in new[q].regOut <=> l \in ent[q].regOut)
      <4>1. \A l : l[1] = i => ~ \E a \in N : \E j \in DOMAIN p[ent[a].id].src : l = <<a, j>>
        OBVIOUS
      <4> QED  BY <4>1 DEF Schedules
    <3>2. \A q \in Slots : i \in new[q].memOut <=> i \in ent[q].memOut  BY DEF Schedules
    <3>3. RegIn(new, i) = RegIn(ent, i)
      <4> DEFINE a == RegIn(new, i)
                 b == RegIn(ent, i)
      <4>1. \A x : x \in a <=> x \in b  BY <1>2, <3>1 DEF RegIn
      <4> HIDE DEF a, b
      <4>2. a = b  BY <4>1
      <4> QED  BY <4>2 DEF a, b
    <3>4. MemIn(new, i) = MemIn(ent, i)  BY <1>2, <3>2 DEF MemIn
    <3> QED  BY <3>3, <3>4
  <2> QED  BY <2>1
<1>6. Linked(new)
  <2>1. \A q \in Waits(ent) : \A i : Later(ent, q, i) => Later(new, q, i)
    BY <1>2, <1>3 DEF Later
  <2>2. ASSUME NEW q \in Waits(ent), NEW l \in new[q].regOut PROVE Later(new, q, l[1])
    <3>1. CASE l \in ent[q].regOut  BY <1>1, <2>1, <3>1 DEF Linked
    <3>2. CASE \E i \in N : \E j \in DOMAIN p[ent[i].id].src :
                 l = <<i, j>> /\ q \in ProducersOf(p, ent, i, j)
      <4>0. PICK i \in N : \E j \in DOMAIN p[ent[i].id].src :
              l = <<i, j>> /\ q \in ProducersOf(p, ent, i, j)
        BY <3>2
      <4>1. PICK j \in DOMAIN p[ent[i].id].src :
              l = <<i, j>> /\ q \in ProducersOf(p, ent, i, j)
        BY <4>0
      <4>2. l[1] = i /\ ent[q].id < ent[i].id  BY <4>1 DEF ProducersOf, WritersOf
      <4> QED  BY <1>2, <1>3, <4>2 DEF Later
    <3> QED  BY <1>2, <3>1, <3>2 DEF Schedules
  <2>3. ASSUME NEW q \in Waits(ent), NEW i \in new[q].memOut PROVE Later(new, q, i)
    <3>1. CASE i \in ent[q].memOut  BY <1>1, <2>1, <3>1 DEF Linked
    <3>2. CASE i \in N /\ q \in MemProducersOf(p, ent, i)
      <4>1. ent[q].id < ent[i].id  BY <3>2 DEF MemProducersOf
      <4> QED  BY <1>2, <1>3, <3>2, <4>1 DEF Later
    <3> QED  BY <1>2, <3>1, <3>2 DEF Schedules
  <2> QED  BY <1>2, <2>2, <2>3 DEF Linked
<1>7. Counted(new)
  <2>1. ASSUME NEW i \in Slots
        PROVE  /\ IsFiniteSet(RegIn(new, i))
               /\ new[i].num_reg_dependent = Cardinality(RegIn(new, i))
               /\ new[i].num_lsq_dependent = Cardinality(MemIn(new, i))
               /\ new[i].reg_ready <=> new[i].scheduled # NotYet /\ RegIn(new, i) = {}
    <3>1. CASE i \in N  BY <1>4, <3>1 DEF Schedules
    <3>2. CASE i \notin N  BY <1>1, <1>5, <3>2 DEF Schedules, Counted
    <3> QED  BY <3>1, <3>2
  <2> QED  BY <2>1 DEF Counted
<1>8. Started(new)
  <2>1. ASSUME NEW i \in Slots
        PROVE  /\ new[i].scheduled # NotYet => new[i].id # 0
               /\ new[i].executed # NotYet => /\ new[i].scheduled # NotYet
                                              /\ RegIn(new, i) = {} /\ MemIn(new, i) = {}
    <3>1. new[i].executed # NotYet => i \notin N  BY <1>1, <1>3 DEF Started
    <3> QED  BY <1>1, <1>3, <1>5, <3>1 DEF Started
  <2> QED  BY <2>1 DEF Started
<1>9. InTurn(new)
  <2>1. ASSUME NEW i \in Slots, NEW k \in Slots, ent[k].id # 0, ent[k].id < ent[i].id,
               new[i].scheduled # NotYet
        PROVE  new[k].scheduled # NotYet
    <3>1. CASE i \in N  BY <1>3, <2>1, <3>1
    <3>2. CASE ent[i].scheduled # NotYet  BY <1>1, <1>3, <2>1, <3>2 DEF InTurn
    <3> QED  BY <1>3, <2>1, <3>1, <3>2
  <2> QED  BY <1>3, <2>1 DEF InTurn
<1>10. Covered(p, new, ret)
  <2>0. \A i \in Slots : new[i].scheduled # NotYet => ent[i].id # 0  BY <1>1, <1>3 DEF Started
  <2>1. ASSUME NEW i \in Slots, ent[i].id # 0, NEW k \in 1 .. ent[i].id - 1
        PROVE  /\ SlotOf(k) \in Slots /\ (Done(ent, ret, k) => Done(new, ret, k))
               /\ ~Done(ent, ret, k) => SlotOf(k) \in Waits(ent) /\ ent[SlotOf(k)].id = k
    <3>1. /\ SlotOf(k) \in Slots /\ k \in Nat \ {0}
          /\ k > ret => ent[SlotOf(k)].id = k
      BY <2>1, SlotsOfNeeds
    <3>2. k =< ret \/ k > ret  BY <3>1 DEF Holds
    <3> QED  BY <1>3, <3>1, <3>2 DEF Done, Waits
  <2>2. ASSUME NEW i \in Slots, new[i].scheduled # NotYet,
               NEW j \in DOMAIN p[ent[i].id].src, NEW k \in Nat, LastWrites(p, ent[i].id, j, k)
        PROVE  Done(new, ret, k) \/ <<i, j>> \in new[SlotOf(k)].regOut
    <3> DEFINE q == SlotOf(k)
    <3>1. k \in 1 .. ent[i].id - 1 /\ ent[i].id # 0
      BY <2>0, <2>2 DEF LastWrites, Writes
    <3>2. CASE Done(ent, ret, k)  BY <2>1, <3>1, <3>2
    <3>3. CASE ~Done(ent, ret, k) /\ i \notin N
      <4>1. <<i, j>> \in ent[q].regOut  BY <1>1, <1>3, <2>2, <3>3 DEF Covered
      <4> QED  BY <1>3, <2>1, <3>1, <4>1
    <3>4. CASE ~Done(ent, ret, k) /\ i \in N
      <4>1. q \in Waits(ent) /\ ent[q].id = k /\ q \in Slots  BY <2>1, <3>1, <3>4
      <4> HIDE DEF q
      <4>2. k < ent[i].id /\ ent[i].id \in Nat  BY <3>1 DEF Holds
      <4>3. q \in WritersOf(p, ent, i, j)  BY <2>2, <4>1, <4>2 DEF WritersOf, LastWrites, Writes
      <4>4. ASSUME NEW r \in WritersOf(p, ent, i, j) PROVE ent[r].id =< ent[q].id
        <5>1. r \in Slots /\ ent[r].id # 0 /\ ent[r].id < ent[i].id  BY DEF WritersOf, Waits
        <5>2. ent[r].id \in Nat  BY <5>1 DEF Holds
        <5>3. ent[r].id \in 1 .. ent[i].id - 1  BY <4>2, <5>1, <5>2
        <5>4. Writes(p, ent[i].id, j, ent[r].id)  BY <5>3 DEF WritersOf, Writes
        <5> QED  BY <2>2, <4>1, <5>4 DEF LastWrites
      <4>5. q \in ProducersOf(p, ent, i, j)  BY <4>3, <4>4 DEF ProducersOf
      <4>6. <<i, j>> \in new[q].regOut  BY <3>4, <4>1, <4>5 DEF Schedules
      <4> QED  BY <4>6 DEF q
    <3> QED  BY <3>2, <3>3, <3>4
  <2>3. ASSUME NEW i \in Slots, new[i].scheduled # NotYet, NEW k \in Nat, Precedes(p, ent[i].id, k)
        PROVE  Done(new, ret, k) \/ i \in new[SlotOf(k)].memOut
    <3> DEFINE q == SlotOf(k)
    <3>1. k \in 1 .. ent[i].id - 1 /\ ent[i].id # 0  BY <2>0, <2>3 DEF Precedes
    <3>2. CASE Done(ent, ret, k)  BY <2>1, <3>1, <3>2
    <3>3. CASE ~Done(ent, ret, k) /\ i \notin N
      <4>1. i \in ent[q].memOut  BY <1>1, <1>3, <2>3, <3>3 DEF Covered
      <4> QED  BY <1>3, <2>1, <3>1, <4>1
    <3>4. CASE ~Done(ent, ret, k) /\ i \in N
      <4>1. q \in Waits(ent) /\ ent[q].id = k /\ q \in Slots  BY <2>1, <3>1, <3>4
      <4> HIDE DEF q
      <4>2. k < ent[i].id /\ ent[i].id \in Nat  BY <3>1 DEF Holds
      <4>3. q \in MemProducersOf(p, ent, i)  BY <2>3, <4>1, <4>2 DEF MemProducersOf, Precedes
      <4>4. i \in new[q].memOut  BY <3>4, <4>1, <4>3 DEF Schedules
      <4> QED  BY <4>4 DEF q
    <3> QED  BY <3>2, <3>3, <3>4
  <2> QED  BY <1>3, <2>2, <2>3 DEF Covered
<1> QED  BY <1>6, <1>7, <1>8, <1>9, <1>10 DEF Deps
--------------------------------------------------------------------------------
(* The ready-to-execute rings *)

LEMMA RingsSwap ==
  ASSUME NEW p, NEW ent, NEW r0, NEW r1, RingsHold(p, ent, r0, r1)
  PROVE  RingsHold(p, ent, r1, r0)
BY Zenon DEF RingsHold

LEMMA RingsStay ==
  ASSUME NEW p, NEW ent, NEW r0, NEW r1, RingsHold(p, ent, r0, r1), NEW new,
         \A i \in Slots : Due(p, new, i) <=> Due(p, ent, i)
  PROVE  RingsHold(p, new, r0, r1)
BY Zenon DEF RingsHold

LEMMA RingsPop ==
  ASSUME NEW p, NEW ent, NEW r0, NEW r1, RingsHold(p, ent, r0, r1), r0 # <<>>, NEW new,
         \A i \in Slots : Due(p, new, i) <=> Due(p, ent, i) /\ i # Head(r0)
  PROVE  RingsHold(p, new, Tail(r0), r1)
<1>1. r0 \in Seq(Slots) /\ r1 \in Seq(Slots) /\ Once(r0) /\ Once(r1)
  BY DEF RingsHold
<1>2. /\ Head(r0) \in Slots /\ Tail(r0) \in Seq(Slots) /\ Once(Tail(r0))
      /\ Range(r0) = {Head(r0)} \cup Range(Tail(r0)) /\ Head(r0) \notin Range(Tail(r0))
  BY <1>1, Popped
<1>3. Head(r0) \notin Range(r1)  BY <1>2 DEF RingsHold
<1>4. Range(Tail(r0)) \cap Range(r1) = {}  BY <1>2 DEF RingsHold
<1>5. \A i \in Slots : i \in Range(Tail(r0)) \cup Range(r1) <=> Due(p, new, i)
  BY <1>2, <1>3 DEF RingsHold
<1> QED  BY <1>1, <1>2, <1>4, <1>5 DEF RingsHold

LEMMA RingsPush ==
  ASSUME NEW p, NEW ent, NEW r0, NEW r1, RingsHold(p, ent, r0, r1), NEW new,
         NEW S \in SUBSET Slots, \A i \in S : ~Due(p, ent, i),
         \A i \in Slots : Due(p, new, i) <=> Due(p, ent, i) \/ i \in S
  PROVE  RingsHold(p, new, r0, r1 \o Ascending(S))
<1>1. r0 \in Seq(Slots) /\ r1 \in Seq(Slots) /\ Once(r0) /\ Once(r1)
  BY DEF RingsHold
<1>2. S \in SUBSET Nat /\ IsFiniteSet(S)
  <2>1. IsFiniteSet(Slots)  BY IntervalSize, SizesType DEF Slots
  <2>2. Slots \subseteq Nat  BY SizesType DEF Slots
  <2> QED  BY <2>1, <2>2, FS_Subset
<1>3. Ascending(S) \in Seq(S) /\ Once(Ascending(S)) /\ Range(Ascending(S)) = S
  BY <1>2, AscendingFacts
<1>4. Ascending(S) \in Seq(Slots)
  <2>1. Seq(S) \subseteq Seq(Slots)  OBVIOUS
  <2> QED  BY <1>3, <2>1
<1>5. Range(r1) \cap S = {} /\ Range(r0) \cap S = {}  BY DEF RingsHold
<1>6. /\ r1 \o Ascending(S) \in Seq(Slots)
      /\ Range(r1 \o Ascending(S)) = Range(r1) \cup S
      /\ Once(r1 \o Ascending(S))
  BY <1>1, <1>3, <1>4, <1>5, Pushed
<1>7. Range(r0) \cap Range(r1 \o Ascending(S)) = {}  BY <1>5, <1>6 DEF RingsHold
<1>8. \A i \in Slots : i \in Range(r0) \cup Range(r1 \o Ascending(S)) <=> Due(p, new, i)
  BY <1>6 DEF RingsHold
<1> QED  BY <1>1, <1>6, <1>7, <1>8 DEF RingsHold

--------------------------------------------------------------------------------
(* The invariant *)

LEMMA CountsAreNat ==
  ASSUME NEW ent, Counted(ent)
  PROVE  \A i \in Slots : /\ ent[i].num_reg_dependent \in Nat /\ ent[i].num_lsq_dependent \in Nat
                          /\ ent[i].num_lsq_dependent = 0 => MemIn(ent, i) = {}
<1>1. IsFiniteSet(Slots)  BY IntervalSize, SizesType DEF Slots
<1>2. ASSUME NEW i \in Slots
      PROVE  /\ ent[i].num_reg_dependent \in Nat /\ ent[i].num_lsq_dependent \in Nat
             /\ ent[i].num_lsq_dependent = 0 => MemIn(ent, i) = {}
  <2>1. MemIn(ent, i) \subseteq Slots  BY DEF MemIn, Waits
  <2>2. IsFiniteSet(MemIn(ent, i))  BY <1>1, <2>1, FS_Subset
  <2>3. IsFiniteSet(RegIn(ent, i))  BY DEF Counted
  <2>4. Cardinality(MemIn(ent, i)) \in Nat /\ Cardinality(RegIn(ent, i)) \in Nat
    BY <2>2, <2>3, FS_CardinalityType
  <2>5. Cardinality(MemIn(ent, i)) = 0 => MemIn(ent, i) = {}  BY <2>2, FS_EmptySet
  <2> QED  BY <2>4, <2>5 DEF Counted
<1> QED  BY <1>2

(* Entries whose dependence fields stay: the invariant stays. *)
LEMMA SameOnKeeps ==
  ASSUME NEW p, NEW ent, NEW ret, NEW disp, NEW r0, NEW r1, NEW new,
         Holds(ent, ret, disp), CoreType(ent), Deps(p, ent, ret), MemLinks(p, ent),
         RingsHold(p, ent, r0, r1), SameOn(Slots, ent, new)
  PROVE  /\ Holds(new, ret, disp) /\ CoreType(new) /\ Deps(p, new, ret) /\ MemLinks(p, new)
         /\ RingsHold(p, new, r0, r1)
<1>1. Holds(new, ret, disp)  BY StayHolds DEF SameOn
<1>2. CoreType(new)  BY DEF CoreType, SameOn
<1>3. MemLinks(p, new)  BY DEF MemLinks, SameOn
<1>4. \A i \in Slots : Due(p, new, i) <=> Due(p, ent, i)  BY DEF Due, SameOn
<1>5. RingsHold(p, new, r0, r1)  BY <1>4, RingsStay
<1>6. SameLinks(ent, new) /\ SameCounts(ent, new)  BY DEF SameOn, SameLinks, SameCounts
<1>7. \A k \in Slots :
        /\ new[k].scheduled = NotYet <=> ent[k].scheduled = NotYet
        /\ new[k].executed = COMPLETED <=> ent[k].executed = COMPLETED
        /\ new[k].executed # NotYet => ent[k].executed # NotYet
  BY DEF SameOn
<1>8. Deps(p, new, ret)  BY <1>6, <1>7, BeginKeeps
<1> QED  BY <1>1, <1>2, <1>3, <1>5, <1>8

(* One instruction that waits for nothing starts. *)
LEMMA StartKeeps ==
  ASSUME NEW p, NEW ent, NEW ret, NEW disp, NEW new,
         Holds(ent, ret, disp), CoreType(ent), Deps(p, ent, ret), MemLinks(p, ent),
         NEW t \in Slots, ent[t].reg_ready, ent[t].num_lsq_dependent = 0,
         SameLinks(ent, new), SameCounts(ent, new), SameOn(Slots \ {t}, ent, new),
         new[t].scheduled \in {INFLIGHT, COMPLETED},
         \/ new[t].executed = ent[t].executed
         \/ ent[t].executed = NotYet /\ new[t].executed = INFLIGHT
  PROVE  Holds(new, ret, disp) /\ CoreType(new) /\ Deps(p, new, ret) /\ MemLinks(p, new)
<1>1. Holds(new, ret, disp)  BY StayHolds DEF SameLinks
<1>2. CoreType(new)
  BY DEF CoreType, SameOn, SameLinks, SameCounts, INFLIGHT, COMPLETED, NotYet
<1>3. MemLinks(p, new)  BY DEF MemLinks, SameLinks, SameCounts
<1>4. ent[t].scheduled # NotYet /\ RegIn(ent, t) = {} /\ MemIn(ent, t) = {}
  BY CountsAreNat DEF Deps, Counted
<1>5. \A k \in Slots :
        /\ new[k].scheduled = NotYet <=> ent[k].scheduled = NotYet
        /\ new[k].executed = COMPLETED <=> ent[k].executed = COMPLETED
        /\ new[k].executed # NotYet =>
             \/ ent[k].executed # NotYet
             \/ ent[k].scheduled # NotYet /\ RegIn(ent, k) = {} /\ MemIn(ent, k) = {}
  BY <1>4 DEF SameOn, INFLIGHT, COMPLETED, NotYet
<1>6. Deps(p, new, ret)  BY <1>5, BeginKeeps
<1> QED  BY <1>1, <1>2, <1>3, <1>6
--------------------------------------------------------------------------------
(* The steps that dependences do not see, and the start of an execution *)

LEMMA InitCore == Init => CoreInv
<1> SUFFICES ASSUME Init PROVE CoreInv
  OBVIOUS
<1>1. TraceInv
  <2>1. Len(prog) \in Nat  BY ProgramLength DEF Init
  <2> QED  BY <2>1 DEF Init, TraceInv
<1>2. \A i \in Slots : ROB.entry[i] = EmptyEntry  BY DEF Init
<1>3. 0 % ROB_SIZE = 0  BY SizesType
<1>4. BufferShape  BY <1>3 DEF Init, BufferShape
<1>5. \A i \in Slots : Blank(ROB.entry[i]) /\ ROB.entry[i].id = 0
  BY <1>2 DEF Blank, EmptyEntry
<1>6. Holds(ROB.entry, retired, dispatched)
  BY <1>5, SizesType DEF Init, Holds
<1>7. CoreType(ROB.entry)
  <2>1. {} \in SUBSET (Slots \X Nat) /\ {} \in SUBSET Slots /\ 0 \in Nat  OBVIOUS
  <2>2. FALSE \in BOOLEAN  OBVIOUS
  <2> QED  BY <1>5, <2>1, <2>2, Zenon DEF CoreType, Blank
<1>8. Waits(ROB.entry) = {}  BY <1>5 DEF Waits
<1>9. \A i : RegIn(ROB.entry, i) = {} /\ MemIn(ROB.entry, i) = {}
  BY <1>8 DEF RegIn, MemIn
<1>10. Linked(ROB.entry) /\ Started(ROB.entry) /\ InTurn(ROB.entry)
  BY <1>5, <1>8, <1>9 DEF Linked, Started, InTurn, Blank
<1>11. Counted(ROB.entry)
  <2>1. IsFiniteSet({}) /\ Cardinality({}) = 0  BY FS_EmptySet
  <2> QED  BY <1>5, <1>9, <2>1 DEF Counted, Blank
<1>12. Covered(prog, ROB.entry, retired)  BY <1>5 DEF Covered, Blank
<1>13. MemLinks(prog, ROB.entry)  BY <1>5 DEF MemLinks, Blank
<1>14. RingsHold(prog, ROB.entry, RTE0, RTE1)
  <2>1. Range(RTE0) = {} /\ Range(RTE1) = {} /\ Once(RTE0) /\ Once(RTE1)
    BY DEF Init, Range, Once
  <2>2. RTE0 \in Seq(Slots) /\ RTE1 \in Seq(Slots)  BY DEF Init
  <2>3. \A i \in Slots : ~Due(prog, ROB.entry, i)  BY <1>5 DEF Due
  <2> QED  BY <2>1, <2>2, <2>3 DEF RingsHold
<1> QED
  BY <1>1, <1>4, <1>6, <1>7, <1>10, <1>11, <1>12, <1>13, <1>14 DEF CoreInv, Deps

LEMMA StayCore ==
  ASSUME CoreInv, TraceInv', BufferShape', UNCHANGED <<prog, dispatched, retired, RTE0, RTE1>>,
         SameOn(Slots, ROB.entry, ROB'.entry)
  PROVE  CoreInv'
<1>1. /\ Holds(ROB'.entry, retired, dispatched) /\ CoreType(ROB'.entry)
      /\ Deps(prog, ROB'.entry, retired) /\ MemLinks(prog, ROB'.entry)
      /\ RingsHold(prog, ROB'.entry, RTE0, RTE1)
  BY SameOnKeeps DEF CoreInv
<1> QED  BY <1>1 DEF CoreInv

LEMMA UnchangedCore ==
  ASSUME CoreInv, UNCHANGED <<frontVars, retired, ROB, RTE0, RTE1>>
  PROVE  CoreInv'
<1>1. TraceInv' /\ BufferShape'  BY DEF CoreInv, TraceInv, BufferShape, frontVars
<1>2. SameOn(Slots, ROB.entry, ROB'.entry)  BY DEF SameOn
<1> QED  BY <1>1, <1>2, StayCore DEF frontVars

LEMMA ReadCore == ASSUME CoreInv, ReadFromTrace PROVE CoreInv'
<1>1. TraceInv'
  <2>1. Len(prog) \in Nat  BY ProgramLength DEF CoreInv, TraceInv
  <2>2. dispatched \in Nat  BY DEF CoreInv, Holds
  <2> QED  BY <2>1, <2>2 DEF CoreInv, TraceInv, ReadFromTrace, MayRead
<1>2. BufferShape'  BY DEF CoreInv, BufferShape, ReadFromTrace
<1>3. SameOn(Slots, ROB.entry, ROB'.entry)  BY DEF SameOn, ReadFromTrace
<1> QED  BY <1>1, <1>2, <1>3, StayCore DEF ReadFromTrace, rings

LEMMA FinishedCore ==
  ASSUME CoreInv, NEW ops, Finished(ops), UNCHANGED <<frontVars, retired, RTE0, RTE1>>
  PROVE  CoreInv'
<1>1. TraceInv'  BY DEF CoreInv, TraceInv, frontVars
<1> DEFINE n(i) == Cardinality({e \in ops : e.rob_index = i})
           less(i) == ROB.entry[i].num_mem_ops - n(i)
<1>2. ROB' = [ROB EXCEPT !.entry =
                [i \in Slots |-> [ROB.entry[i] EXCEPT !.num_mem_ops = less(i)]]]
  BY Zenon DEF Finished
<1> HIDE DEF n, less
<1>3. ROB'.entry = [i \in Slots |-> [ROB.entry[i] EXCEPT !.num_mem_ops = less(i)]]
  BY <1>2 DEF CoreInv, BufferShape
<1>4. BufferShape'
  BY <1>2, <1>3 DEF CoreInv, BufferShape, frontVars, EmptyEntry
<1>5. SameOn(Slots, ROB.entry, ROB'.entry)
  BY <1>3 DEF SameOn, CoreInv, BufferShape, EmptyEntry
<1> QED  BY <1>1, <1>4, <1>5, StayCore DEF frontVars

LEMMA DoExecutionCore ==
  ASSUME CoreInv, NEW t \in Slots, DoExecution(t), Due(prog, ROB.entry, t)
  PROVE  /\ TraceInv' /\ BufferShape'
         /\ Holds(ROB.entry, retired, dispatched)' /\ CoreType(ROB.entry)'
         /\ Deps(prog, ROB.entry, retired)' /\ MemLinks(prog, ROB.entry)'
         /\ \A i \in Slots : Due(prog, ROB'.entry, i) <=> Due(prog, ROB.entry, i) /\ i # t
<1>1. TraceInv'  BY DEF CoreInv, TraceInv, DoExecution, frontVars
<1>2. ROB' = [ROB EXCEPT !.entry = [ROB.entry EXCEPT ![t] = [ROB.entry[t] EXCEPT !.executed = INFLIGHT]]]
  BY DEF DoExecution, CoreInv, BufferShape
<1>3. ROB'.entry = [ROB.entry EXCEPT ![t] = [ROB.entry[t] EXCEPT !.executed = INFLIGHT]]
  BY <1>2 DEF CoreInv, BufferShape
<1>4. BufferShape'
  BY <1>2, <1>3 DEF CoreInv, BufferShape, EmptyEntry, DoExecution, frontVars
<1>5. SameOn(Slots \ {t}, ROB.entry, ROB'.entry)
  BY <1>3 DEF SameOn, CoreInv, BufferShape
<1>6. /\ SameLinks(ROB.entry, ROB'.entry) /\ SameCounts(ROB.entry, ROB'.entry)
      /\ ROB'.entry[t].scheduled = ROB.entry[t].scheduled
      /\ ROB'.entry[t].executed = INFLIGHT
  BY <1>3 DEF SameLinks, SameCounts, CoreInv, BufferShape, EmptyEntry
<1>7. /\ ROB.entry[t].reg_ready /\ ROB.entry[t].executed = NotYet
      /\ ROB.entry[t].num_lsq_dependent = 0
  BY DEF Due, CoreInv, MemLinks
<1>8. ROB.entry[t].scheduled \in {INFLIGHT, COMPLETED}
  BY <1>7 DEF CoreInv, Deps, Counted, CoreType
<1>9. /\ Holds(ROB'.entry, retired, dispatched) /\ CoreType(ROB'.entry)
      /\ Deps(prog, ROB'.entry, retired) /\ MemLinks(prog, ROB'.entry)
  BY <1>5, <1>6, <1>7, <1>8, StartKeeps DEF CoreInv
<1>10. \A i \in Slots : Due(prog, ROB'.entry, i) <=> Due(prog, ROB.entry, i) /\ i # t
  BY <1>5, <1>6 DEF SameOn, Due, INFLIGHT, NotYet
<1> QED  BY <1>1, <1>4, <1>9, <1>10 DEF DoExecution, frontVars

LEMMA ExecuteRTE0Core == ASSUME CoreInv, ExecuteRTE0 PROVE CoreInv'
<1>1. RingsHold(prog, ROB.entry, RTE0, RTE1) /\ RTE0 # <<>>  BY DEF CoreInv, ExecuteRTE0
<1>2. Head(RTE0) \in Slots /\ Head(RTE0) \in Range(RTE0)  BY <1>1, Popped DEF RingsHold
<1>3. Due(prog, ROB.entry, Head(RTE0))  BY <1>1, <1>2 DEF RingsHold
<1>4. /\ TraceInv' /\ BufferShape'
      /\ Holds(ROB.entry, retired, dispatched)' /\ CoreType(ROB.entry)'
      /\ Deps(prog, ROB.entry, retired)' /\ MemLinks(prog, ROB.entry)'
      /\ \A i \in Slots :
           Due(prog, ROB'.entry, i) <=> Due(prog, ROB.entry, i) /\ i # Head(RTE0)
  BY <1>2, <1>3, DoExecutionCore DEF ExecuteRTE0
<1>5. RingsHold(prog, ROB'.entry, Tail(RTE0), RTE1)  BY <1>1, <1>4, RingsPop
<1> QED  BY <1>4, <1>5 DEF CoreInv, ExecuteRTE0, DoExecution, frontVars

LEMMA ExecuteRTE1Core == ASSUME CoreInv, ExecuteRTE1 PROVE CoreInv'
<1>1. RingsHold(prog, ROB.entry, RTE1, RTE0) /\ RTE1 # <<>>
  BY RingsSwap DEF CoreInv, ExecuteRTE1
<1>2. Head(RTE1) \in Slots /\ Head(RTE1) \in Range(RTE1)  BY <1>1, Popped DEF RingsHold
<1>3. Due(prog, ROB.entry, Head(RTE1))  BY <1>1, <1>2 DEF RingsHold
<1>4. /\ TraceInv' /\ BufferShape'
      /\ Holds(ROB.entry, retired, dispatched)' /\ CoreType(ROB.entry)'
      /\ Deps(prog, ROB.entry, retired)' /\ MemLinks(prog, ROB.entry)'
      /\ \A i \in Slots :
           Due(prog, ROB'.entry, i) <=> Due(prog, ROB.entry, i) /\ i # Head(RTE1)
  BY <1>2, <1>3, DoExecutionCore DEF ExecuteRTE1
<1>5. RingsHold(prog, ROB'.entry, Tail(RTE1), RTE0)  BY <1>1, <1>4, RingsPop
<1>6. RingsHold(prog, ROB'.entry, RTE0, Tail(RTE1))  BY <1>5, RingsSwap
<1> QED  BY <1>4, <1>6 DEF CoreInv, ExecuteRTE1, DoExecution, frontVars
--------------------------------------------------------------------------------
(* Dispatch and retirement *)

LEMMA NextPlace ==
  ASSUME NEW n \in Nat \ {0}, NEW x \in Nat
  PROVE  ((x % n) + 1) % n = (x + 1) % n
<1> DEFINE y == x % n
<1>1. y \in 0 .. n - 1  BY RemainderType
<1>0. 1 \in 0 .. n  OBVIOUS
<1>2. (x + 1) % n = IF y + 1 < n THEN y + 1 ELSE y + 1 - n  BY <1>0, Around
<1> HIDE DEF y
<1>3. y % n = y
  <2>1. y = n * 0 + y  BY <1>1
  <2> QED  BY <1>1, <2>1, Remainder
<1>4. (y + 1) % n = IF (y % n) + 1 < n THEN (y % n) + 1 ELSE (y % n) + 1 - n
  <2>1. y \in Nat  BY <1>1
  <2> QED  BY <1>0, <2>1, Around
<1>5. (y + 1) % n = (x + 1) % n  BY <1>2, <1>3, <1>4
<1> QED  BY <1>5 DEF y

LEMMA BlankType ==
  ASSUME NEW e, Blank(e)
  PROVE  /\ e.scheduled \in {NotYet, INFLIGHT, COMPLETED}
         /\ e.executed \in {NotYet, INFLIGHT, COMPLETED} /\ e.reg_ready \in BOOLEAN
         /\ e.regOut \in SUBSET (Slots \X Nat) /\ e.memOut \in SUBSET Slots
<1>1. {} \in SUBSET (Slots \X Nat) /\ {} \in SUBSET Slots /\ FALSE \in BOOLEAN  OBVIOUS
<1> QED  BY <1>1, Zenon DEF Blank

LEMMA DispatchCore == ASSUME CoreInv, DecodeAndDispatch PROVE CoreInv'
<1> DEFINE t == dispatched % ROB_SIZE
           e == [EmptyEntry EXCEPT !.id = dispatched + 1,
                                   !.num_mem_ops = NumMemOps(prog[dispatched + 1])]
<1>1. /\ Holds(ROB.entry, retired, dispatched) /\ Deps(prog, ROB.entry, retired)
      /\ retired \in Nat /\ dispatched \in Nat /\ retired =< dispatched
  BY DEF CoreInv, Holds
<1>2. dispatched < retired + ROB_SIZE
  BY <1>1, SizesType DEF DecodeAndDispatch, CoreInv, BufferShape
<1>3. t \in Slots /\ ROB.entry[t].id = 0 /\ ROB.tail = t
  BY <1>1, <1>2, HeldOnce DEF CoreInv, BufferShape
<1>4. Blank(e) /\ e.id = dispatched + 1 /\ DOMAIN e = DOMAIN EmptyEntry
  BY DEF Blank, EmptyEntry
<1>5. ROB' = [ROB EXCEPT !.entry = [ROB.entry EXCEPT ![t] = e],
                         !.occupancy = ROB.occupancy + 1,
                         !.tail = (ROB.tail + 1) % ROB_SIZE]
  BY <1>3 DEF DecodeAndDispatch, CoreInv, BufferShape
<1>6. ((dispatched % ROB_SIZE) + 1) % ROB_SIZE = (dispatched + 1) % ROB_SIZE
  BY <1>1, SizesType, NextPlace
<1>7. ROB.tail = dispatched % ROB_SIZE  BY DEF CoreInv, BufferShape
<1>8. ROB'.tail = (dispatched + 1) % ROB_SIZE  BY <1>5, <1>6, <1>7 DEF CoreInv, BufferShape
<1> HIDE DEF t, e
<1>9. ROB'.entry = [ROB.entry EXCEPT ![t] = e] /\ ROB'.head = ROB.head
  BY <1>5 DEF CoreInv, BufferShape
<1>10. ROB'.occupancy = dispatched + 1 - retired
  BY <1>1, <1>5 DEF CoreInv, BufferShape
<1>11. DOMAIN ROB' = DOMAIN ROB  BY <1>5
<1>12. BufferShape'
  <2>1. DOMAIN ROB'.entry = Slots /\ \A i \in Slots : DOMAIN ROB'.entry[i] = DOMAIN EmptyEntry
    BY <1>3, <1>4, <1>9 DEF CoreInv, BufferShape
  <2>2. ROB'.head = retired % ROB_SIZE /\ DOMAIN ROB' = {"entry", "head", "tail", "occupancy", "next_schedule"}
    BY <1>9, <1>11 DEF CoreInv, BufferShape
  <2>3. retired' = retired /\ dispatched' = dispatched + 1  BY DEF DecodeAndDispatch
  <2> QED  BY <1>1, <1>8, <1>10, <2>1, <2>2, <2>3 DEF BufferShape
<1>13. ROB'.entry[t] = e /\ \A k \in Slots : k # t => ROB'.entry[k] = ROB.entry[k]
  BY <1>3, <1>9 DEF CoreInv, BufferShape
<1>14. /\ Blank(ROB'.entry[t]) /\ ROB'.entry[t].id = dispatched + 1
       /\ SameOn(Slots \ {t}, ROB.entry, ROB'.entry)
  BY <1>4, <1>13 DEF SameOn
<1>15. Deps(prog, ROB'.entry, retired)
  BY <1>1, <1>2, <1>14, EnterKeeps DEF t
<1>16. Holds(ROB'.entry, retired, dispatched + 1)
  BY <1>1, <1>2, <1>13, <1>14, EnterHolds DEF t
<1>17. CoreType(ROB'.entry)
  <2>1. \A i \in Slots : /\ ROB'.entry[i].num_reg_dependent \in Nat
                         /\ ROB'.entry[i].num_lsq_dependent \in Nat
    BY <1>15, CountsAreNat DEF Deps
  <2>2. ASSUME NEW i \in Slots
        PROVE  /\ ROB'.entry[i].id \in Nat
               /\ ROB'.entry[i].scheduled \in {NotYet, INFLIGHT, COMPLETED}
               /\ ROB'.entry[i].executed \in {NotYet, INFLIGHT, COMPLETED}
               /\ ROB'.entry[i].reg_ready \in BOOLEAN
               /\ ROB'.entry[i].regOut \in SUBSET (Slots \X Nat)
               /\ ROB'.entry[i].memOut \in SUBSET Slots
    <3>1. CASE i = t  BY <1>1, <1>14, <3>1, BlankType
    <3>2. CASE i # t  BY <1>13, <3>2 DEF CoreInv, CoreType
    <3> QED  BY <3>1, <3>2
  <2> QED  BY <2>1, <2>2 DEF CoreType
<1>18. MemLinks(prog, ROB'.entry)  BY <1>13, <1>14 DEF MemLinks, Blank, CoreInv
<1>19. \A i \in Slots : Due(prog, ROB'.entry, i) <=> Due(prog, ROB.entry, i)
  BY <1>3, <1>13, <1>14 DEF Due, Blank
<1>20. RingsHold(prog, ROB'.entry, RTE0, RTE1)  BY <1>19, RingsStay DEF CoreInv
<1>21. TraceInv'
  BY <1>1 DEF CoreInv, TraceInv, DecodeAndDispatch
<1> QED
  BY <1>12, <1>15, <1>16, <1>17, <1>18, <1>20, <1>21 DEF CoreInv, DecodeAndDispatch, rings

LEMMA RetireCore ==
  ASSUME CoreInv, RetireRob
  PROVE  /\ CoreInv'
         /\ ROB.head \in Slots /\ ROB.entry[ROB.head].id = retired + 1 /\ retired < dispatched
         /\ ROB'.entry[ROB.head].id = 0
         /\ \A k \in Slots : k # ROB.head => ROB'.entry[k] = ROB.entry[k]
<1> DEFINE t == retired % ROB_SIZE
<1>1. /\ Holds(ROB.entry, retired, dispatched) /\ Deps(prog, ROB.entry, retired)
      /\ retired \in Nat /\ dispatched \in Nat /\ retired =< dispatched
  BY DEF CoreInv, Holds
<1>2. t \in Slots /\ ROB.head = t  BY <1>1, HeldOnce DEF CoreInv, BufferShape
<1>3. ROB.entry[t].id # 0 /\ ROB.entry[t].executed = COMPLETED
  BY <1>2 DEF RetireRob, Live
<1>4. retired < dispatched /\ ROB.entry[t].id = retired + 1  BY <1>1, <1>3, HeldOnce
<1>5. Blank(EmptyEntry) /\ EmptyEntry.id = 0  BY DEF Blank, EmptyEntry
<1>6. ROB' = [ROB EXCEPT !.entry = [ROB.entry EXCEPT ![t] = EmptyEntry],
                         !.head = (ROB.head + 1) % ROB_SIZE,
                         !.occupancy = ROB.occupancy - 1]
  BY <1>2 DEF RetireRob, CoreInv, BufferShape
<1>7. ((retired % ROB_SIZE) + 1) % ROB_SIZE = (retired + 1) % ROB_SIZE
  BY <1>1, SizesType, NextPlace
<1>8. ROB.head = retired % ROB_SIZE  BY DEF CoreInv, BufferShape
<1>9. ROB'.head = (retired + 1) % ROB_SIZE  BY <1>6, <1>7, <1>8 DEF CoreInv, BufferShape
<1> HIDE DEF t
<1>10. ROB'.entry = [ROB.entry EXCEPT ![t] = EmptyEntry] /\ ROB'.tail = ROB.tail
  BY <1>6 DEF CoreInv, BufferShape
<1>11. ROB'.occupancy = dispatched - (retired + 1)
  BY <1>1, <1>6 DEF CoreInv, BufferShape
<1>12. DOMAIN ROB' = DOMAIN ROB  BY <1>6
<1>13. ROB'.entry[t] = EmptyEntry /\ \A k \in Slots : k # t => ROB'.entry[k] = ROB.entry[k]
  BY <1>2, <1>10 DEF CoreInv, BufferShape
<1>14. BufferShape'
  BY <1>9, <1>10, <1>11, <1>12, <1>13 DEF CoreInv, BufferShape, RetireRob, frontVars
<1>15. SameOn(Slots \ {t}, ROB.entry, ROB'.entry)  BY <1>13 DEF SameOn
<1>16. Deps(prog, ROB'.entry, retired + 1)
  BY <1>1, <1>3, <1>4, <1>5, <1>13, <1>15, LeaveKeeps DEF t
<1>17. Holds(ROB'.entry, retired + 1, dispatched)
  BY <1>1, <1>4, <1>5, <1>13, LeaveHolds DEF t
<1>18. CoreType(ROB'.entry)
  <2>1. \A i \in Slots : /\ ROB'.entry[i].num_reg_dependent \in Nat
                         /\ ROB'.entry[i].num_lsq_dependent \in Nat
    BY <1>16, CountsAreNat DEF Deps
  <2>2. ASSUME NEW i \in Slots
        PROVE  /\ ROB'.entry[i].id \in Nat
               /\ ROB'.entry[i].scheduled \in {NotYet, INFLIGHT, COMPLETED}
               /\ ROB'.entry[i].executed \in {NotYet, INFLIGHT, COMPLETED}
               /\ ROB'.entry[i].reg_ready \in BOOLEAN
               /\ ROB'.entry[i].regOut \in SUBSET (Slots \X Nat)
               /\ ROB'.entry[i].memOut \in SUBSET Slots
    <3>1. CASE i = t  BY <1>5, <1>13, <3>1, BlankType
    <3>2. CASE i # t  BY <1>13, <3>2 DEF CoreInv, CoreType
    <3> QED  BY <3>1, <3>2
  <2> QED  BY <2>1, <2>2 DEF CoreType
<1>19. MemLinks(prog, ROB'.entry)  BY <1>5, <1>13 DEF MemLinks, Blank, CoreInv
<1>20. \A i \in Slots : Due(prog, ROB'.entry, i) <=> Due(prog, ROB.entry, i)
  BY <1>3, <1>5, <1>13 DEF Due, Blank, COMPLETED, NotYet
<1>21. RingsHold(prog, ROB'.entry, RTE0, RTE1)  BY <1>20, RingsStay DEF CoreInv
<1>22. TraceInv'  BY DEF CoreInv, TraceInv, RetireRob, frontVars
<1>23. CoreInv'
  BY <1>14, <1>16, <1>17, <1>18, <1>19, <1>21, <1>22 DEF CoreInv, RetireRob, frontVars, rings
<1> QED  BY <1>2, <1>4, <1>5, <1>13, <1>23
--------------------------------------------------------------------------------
(* Memory scheduling and completion *)

LEMMA ScheduleMemoryCore ==
  ASSUME CoreInv, NEW i \in Slots, ScheduleMemory(i)
  PROVE  /\ CoreInv'
         /\ \A k \in Slots : /\ ROB'.entry[k].id = ROB.entry[k].id
                             /\ ROB'.entry[k].executed = COMPLETED <=> ROB.entry[k].executed = COMPLETED
<1>1. /\ i \in Live /\ IsMemory(Instr(i)) /\ ROB.entry[i].reg_ready
      /\ ROB.entry[i].num_lsq_dependent = 0 /\ ROB.entry[i].scheduled = INFLIGHT
  BY DEF ScheduleMemory, CanAdd, MemoryReady
<1> DEFINE NewSq == [k \in 1 .. StoresToAdd(i) |-> (SQ.tail + (k - 1)) % SQ_SIZE]
           e == [ROB.entry[i] EXCEPT !.source_added = @ \cup Range(LoadsToAdd(i)),
                                     !.sq_index = @ \o NewSq]
           all == /\ Cardinality(e.source_added) = Len(Instr(i).ld)
                  /\ Len(e.sq_index) = Len(Instr(i).st)
<1>2. ROB' = [ROB EXCEPT !.entry[i] =
                IF all THEN [e EXCEPT !.scheduled = COMPLETED,
                                      !.executed = IF @ = NotYet THEN INFLIGHT ELSE @]
                ELSE e]
  BY DEF ScheduleMemory
<1>3. /\ DOMAIN e = DOMAIN EmptyEntry
      /\ e.id = ROB.entry[i].id /\ e.scheduled = ROB.entry[i].scheduled
      /\ e.executed = ROB.entry[i].executed /\ e.reg_ready = ROB.entry[i].reg_ready
      /\ e.num_reg_dependent = ROB.entry[i].num_reg_dependent
      /\ e.num_lsq_dependent = ROB.entry[i].num_lsq_dependent
      /\ e.regOut = ROB.entry[i].regOut /\ e.memOut = ROB.entry[i].memOut
  BY DEF CoreInv, BufferShape, EmptyEntry
<1> HIDE DEF e, all
<1> DEFINE n == IF all THEN [e EXCEPT !.scheduled = COMPLETED,
                                      !.executed = IF e.executed = NotYet THEN INFLIGHT ELSE e.executed]
                ELSE e
<1>4. /\ DOMAIN n = DOMAIN EmptyEntry
      /\ n.id = ROB.entry[i].id /\ n.scheduled \in {INFLIGHT, COMPLETED}
      /\ \/ n.executed = ROB.entry[i].executed
         \/ ROB.entry[i].executed = NotYet /\ n.executed = INFLIGHT
      /\ n.reg_ready = ROB.entry[i].reg_ready
      /\ n.num_reg_dependent = ROB.entry[i].num_reg_dependent
      /\ n.num_lsq_dependent = ROB.entry[i].num_lsq_dependent
      /\ n.regOut = ROB.entry[i].regOut /\ n.memOut = ROB.entry[i].memOut
  BY <1>1, <1>3 DEF EmptyEntry
<1>5. ROB' = [ROB EXCEPT !.entry = [ROB.entry EXCEPT ![i] = n]]
  BY <1>2, <1>3 DEF CoreInv, BufferShape, EmptyEntry
<1> HIDE DEF n
<1>6. ROB'.entry = [ROB.entry EXCEPT ![i] = n]  BY <1>5 DEF CoreInv, BufferShape
<1>7. ROB'.entry[i] = n /\ \A k \in Slots : k # i => ROB'.entry[k] = ROB.entry[k]
  BY <1>6 DEF CoreInv, BufferShape
<1>8. BufferShape'
  <2>1. DOMAIN ROB'.entry = Slots /\ \A k \in Slots : DOMAIN ROB'.entry[k] = DOMAIN EmptyEntry
    BY <1>4, <1>6, <1>7 DEF CoreInv, BufferShape
  <2>2. /\ DOMAIN ROB' = DOMAIN ROB /\ ROB'.head = ROB.head /\ ROB'.tail = ROB.tail
        /\ ROB'.occupancy = ROB.occupancy
    BY <1>5 DEF CoreInv, BufferShape
  <2> QED  BY <2>1, <2>2 DEF CoreInv, BufferShape, ScheduleMemory, frontVars
<1>9. /\ SameLinks(ROB.entry, ROB'.entry) /\ SameCounts(ROB.entry, ROB'.entry)
      /\ SameOn(Slots \ {i}, ROB.entry, ROB'.entry)
  BY <1>4, <1>7 DEF SameLinks, SameCounts, SameOn
<1>10. /\ Holds(ROB'.entry, retired, dispatched) /\ CoreType(ROB'.entry)
       /\ Deps(prog, ROB'.entry, retired) /\ MemLinks(prog, ROB'.entry)
  BY <1>1, <1>4, <1>7, <1>9, StartKeeps DEF CoreInv
<1>11. \A k \in Slots : Due(prog, ROB'.entry, k) <=> Due(prog, ROB.entry, k)
  BY <1>1, <1>4, <1>7 DEF Due, Instr
<1>12. RingsHold(prog, ROB'.entry, RTE0, RTE1)  BY <1>11, RingsStay DEF CoreInv
<1>13. TraceInv'  BY DEF CoreInv, TraceInv, ScheduleMemory, frontVars
<1>14. CoreInv'
  BY <1>8, <1>10, <1>12, <1>13 DEF CoreInv, ScheduleMemory, frontVars
<1> QED  BY <1>4, <1>7, <1>14 DEF INFLIGHT, COMPLETED, NotYet

LEMMA CompleteCore ==
  ASSUME CoreInv, NEW i \in Slots, CompleteExecution(i)
  PROVE  CoreInv' /\ Releases(ROB.entry, ROB'.entry, i)
<1> DEFINE e == ROB.entry[i]
           freed(k) == Cardinality({link \in e.regOut : link[1] = k})
           Ready == {k \in Slots : freed(k) > 0 /\ ROB.entry[k].num_reg_dependent = freed(k)}
           Released(k) ==
             [ROB.entry[k] EXCEPT
               !.executed = IF k = i THEN COMPLETED ELSE @,
               !.num_lsq_dependent = IF k \in e.memOut THEN @ - 1 ELSE @,
               !.num_reg_dependent = @ - freed(k),
               !.reg_ready = @ \/ k \in Ready,
               !.scheduled = IF k \in Ready
                             THEN IF IsMemory(Instr(k)) THEN INFLIGHT ELSE COMPLETED
                             ELSE @]
           S == {k \in Ready : ~IsMemory(Instr(k))}
<1>1. /\ i \in Waits(ROB.entry) /\ e.executed = INFLIGHT /\ e.executed # NotYet
  BY DEF CompleteExecution, Live, Waits, INFLIGHT, COMPLETED, NotYet
<1>2. /\ ROB' = [ROB EXCEPT !.entry = [k \in Slots |-> Released(k)]]
      /\ RTE0' = RTE0 \o Ascending(S)
  BY DEF CompleteExecution
<1>3. ASSUME NEW k \in Slots
      PROVE  /\ DOMAIN Released(k) = DOMAIN EmptyEntry
             /\ Released(k).id = ROB.entry[k].id
             /\ Released(k).regOut = ROB.entry[k].regOut /\ Released(k).memOut = ROB.entry[k].memOut
             /\ Released(k).executed = IF k = i THEN COMPLETED ELSE ROB.entry[k].executed
             /\ Released(k).num_lsq_dependent =
                  IF k \in e.memOut THEN ROB.entry[k].num_lsq_dependent - 1
                  ELSE ROB.entry[k].num_lsq_dependent
             /\ Released(k).num_reg_dependent = ROB.entry[k].num_reg_dependent - freed(k)
             /\ Released(k).reg_ready = (ROB.entry[k].reg_ready \/ k \in Ready)
             /\ Released(k).scheduled = IF k \in Ready
                             THEN IF IsMemory(Instr(k)) THEN INFLIGHT ELSE COMPLETED
                             ELSE ROB.entry[k].scheduled
  <2> HIDE DEF freed, Ready, e
  <2> QED  BY DEF CoreInv, BufferShape, EmptyEntry
<1> HIDE DEF Released
<1>4. ROB'.entry = [k \in Slots |-> Released(k)]  BY <1>2 DEF CoreInv, BufferShape
<1>5. \A k \in Slots : ROB'.entry[k] = Released(k)  BY <1>4
<1>6. BufferShape'
  <2>1. DOMAIN ROB'.entry = Slots /\ \A k \in Slots : DOMAIN ROB'.entry[k] = DOMAIN EmptyEntry
    BY <1>3, <1>4, <1>5
  <2>2. /\ DOMAIN ROB' = DOMAIN ROB /\ ROB'.head = ROB.head /\ ROB'.tail = ROB.tail
        /\ ROB'.occupancy = ROB.occupancy
    BY <1>2 DEF CoreInv, BufferShape
  <2> QED  BY <2>1, <2>2 DEF CoreInv, BufferShape, CompleteExecution, frontVars
<1>7. \A k \in Slots : freed(k) = Cardinality(LinksTo(e, k))  BY DEF LinksTo
<1>8. \A k \in Slots : k \in Ready <=> freed(k) > 0 /\ ROB.entry[k].num_reg_dependent = freed(k)
  OBVIOUS
<1>9. S \in SUBSET Slots /\ \A k \in Slots : k \in S <=> k \in Ready /\ ~IsMemory(Instr(k))
  OBVIOUS
<1> HIDE DEF freed, Ready, S
<1>10. Releases(ROB.entry, ROB'.entry, i)
  <2>1. ASSUME NEW k \in Slots
        PROVE  /\ Cardinality(LinksTo(e, k)) = freed(k)
               /\ ROB'.entry[k].reg_ready <=> ROB.entry[k].reg_ready \/ k \in Ready
               /\ k \in Ready => ROB'.entry[k].scheduled # NotYet
               /\ k \notin Ready => ROB'.entry[k].scheduled = ROB.entry[k].scheduled
    BY <1>3, <1>5, <1>7 DEF INFLIGHT, COMPLETED, NotYet
  <2>2. ASSUME NEW k \in Slots
        PROVE  /\ ROB'.entry[k].id = ROB.entry[k].id
               /\ ROB'.entry[k].regOut = ROB.entry[k].regOut
               /\ ROB'.entry[k].memOut = ROB.entry[k].memOut
               /\ ROB'.entry[k].executed = IF k = i THEN COMPLETED ELSE ROB.entry[k].executed
               /\ ROB'.entry[k].num_lsq_dependent =
                    IF k \in e.memOut THEN ROB.entry[k].num_lsq_dependent - 1
                    ELSE ROB.entry[k].num_lsq_dependent
               /\ ROB'.entry[k].num_reg_dependent = ROB.entry[k].num_reg_dependent - freed(k)
    BY <1>3, <1>5
  <2> QED  BY <1>8, <2>1, <2>2 DEF Releases
<1>11. Deps(prog, ROB'.entry, retired)
  BY <1>1, <1>10, ReleaseKeeps DEF CoreInv
<1>12. Holds(ROB'.entry, retired, dispatched)  BY <1>3, <1>5, StayHolds DEF CoreInv
<1>13. CoreType(ROB'.entry)
  <2>1. \A k \in Slots : /\ ROB'.entry[k].num_reg_dependent \in Nat
                         /\ ROB'.entry[k].num_lsq_dependent \in Nat
    BY <1>11, CountsAreNat DEF Deps
  <2>2. ASSUME NEW k \in Slots
        PROVE  /\ ROB'.entry[k].id \in Nat
               /\ ROB'.entry[k].scheduled \in {NotYet, INFLIGHT, COMPLETED}
               /\ ROB'.entry[k].executed \in {NotYet, INFLIGHT, COMPLETED}
               /\ ROB'.entry[k].reg_ready \in BOOLEAN
               /\ ROB'.entry[k].regOut \in SUBSET (Slots \X Nat)
               /\ ROB'.entry[k].memOut \in SUBSET Slots
    <3>1. /\ ROB.entry[k].id \in Nat
          /\ ROB.entry[k].scheduled \in {NotYet, INFLIGHT, COMPLETED}
          /\ ROB.entry[k].executed \in {NotYet, INFLIGHT, COMPLETED}
          /\ ROB.entry[k].regOut \in SUBSET (Slots \X Nat)
          /\ ROB.entry[k].memOut \in SUBSET Slots
      BY DEF CoreInv, CoreType
    <3>2. ROB'.entry[k] = Released(k)  BY <1>5
    <3>3. /\ ROB'.entry[k].id \in Nat
          /\ ROB'.entry[k].regOut \in SUBSET (Slots \X Nat)
          /\ ROB'.entry[k].memOut \in SUBSET Slots
      BY <1>3, <3>1, <3>2, Zenon
    <3>4. ROB'.entry[k].executed \in {NotYet, INFLIGHT, COMPLETED}  BY <1>3, <3>1, <3>2
    <3>5. ROB'.entry[k].scheduled \in {NotYet, INFLIGHT, COMPLETED}  BY <1>3, <3>1, <3>2
    <3>6. ROB'.entry[k].reg_ready \in BOOLEAN
      <4>1. (ROB.entry[k].reg_ready \/ k \in Ready) \in BOOLEAN  OBVIOUS
      <4> QED  BY <1>3, <3>2, <4>1, Zenon
    <3> QED  BY <3>3, <3>4, <3>5, <3>6
  <2> QED  BY <2>1, <2>2 DEF CoreType
<1>14. MemLinks(prog, ROB'.entry)
  <2>1. \A k \in Slots : k \in e.memOut => ROB.entry[k].num_lsq_dependent # 0
    <3>1. \A k \in Slots : k \in e.memOut => MemIn(ROB.entry, k) # {}
      BY <1>1 DEF MemIn
    <3> QED  BY <3>1, CountsAreNat DEF CoreInv, Deps
  <2> QED  BY <1>3, <1>5, <2>1 DEF MemLinks, CoreInv
<1>15. \A k \in Ready : /\ ROB.entry[k].executed = NotYet /\ ~ROB.entry[k].reg_ready
                        /\ ROB.entry[k].id # 0 /\ k \in Slots /\ k # i
  <2>1. ASSUME NEW k \in Ready
        PROVE  /\ ROB.entry[k].executed = NotYet /\ ~ROB.entry[k].reg_ready
               /\ ROB.entry[k].id # 0 /\ k \in Slots /\ k # i
    <3>1. k \in Slots /\ Cardinality(RegIn(ROB.entry, k)) > 0
      BY DEF Ready, CoreInv, Deps, Counted
    <3>2. RegIn(ROB.entry, k) # {}
      <4>1. Cardinality({}) = 0  BY FS_EmptySet
      <4> QED  BY <3>1, <4>1
    <3>3. ROB.entry[k].executed = NotYet /\ ~ROB.entry[k].reg_ready
      BY <3>1, <3>2 DEF CoreInv, Deps, Started, Counted
    <3>4. PICK x \in RegIn(ROB.entry, k) : TRUE  BY <3>2
    <3>5. x[1] \in Waits(ROB.entry) /\ x[2] \in ROB.entry[x[1]].regOut /\ x[2][1] = k
      BY DEF RegIn
    <3>6. ROB.entry[k].id # 0  BY <3>5 DEF CoreInv, Deps, Linked, Later
    <3> QED  BY <1>1, <3>1, <3>3, <3>6
  <2> QED  BY <2>1
<1>16. \A k \in S : ~Due(prog, ROB.entry, k)  BY <1>9, <1>15 DEF Due
<1>17. \A k \in Slots : Due(prog, ROB'.entry, k) <=> Due(prog, ROB.entry, k) \/ k \in S
  <2>1. ASSUME NEW k \in Slots
        PROVE  Due(prog, ROB'.entry, k) <=> Due(prog, ROB.entry, k) \/ k \in S
    <3>1. /\ ROB'.entry[k].id = ROB.entry[k].id
          /\ ROB'.entry[k].reg_ready <=> ROB.entry[k].reg_ready \/ k \in Ready
          /\ k # i => ROB'.entry[k].executed = ROB.entry[k].executed
          /\ ROB'.entry[i].executed # NotYet
      BY <1>3, <1>5 DEF COMPLETED, NotYet
    <3>2. CASE k = i  BY <1>1, <1>9, <1>15, <3>1, <3>2 DEF Due
    <3>3. CASE k # i  BY <1>9, <1>15, <3>1, <3>3 DEF Due, Instr
    <3> QED  BY <3>2, <3>3
  <2> QED  BY <2>1
<1>18. RingsHold(prog, ROB'.entry, RTE0 \o Ascending(S), RTE1)
  <2>1. RingsHold(prog, ROB.entry, RTE1, RTE0)  BY RingsSwap DEF CoreInv
  <2>2. RingsHold(prog, ROB'.entry, RTE1, RTE0 \o Ascending(S))
    BY <1>9, <1>16, <1>17, <2>1, RingsPush
  <2> QED  BY <2>2, RingsSwap
<1>19. TraceInv'  BY DEF CoreInv, TraceInv, CompleteExecution, frontVars
<1> QED
  BY <1>2, <1>6, <1>10, <1>11, <1>12, <1>13, <1>14, <1>18, <1>19
     DEF CoreInv, CompleteExecution, frontVars
--------------------------------------------------------------------------------
(* Scheduling *)

(* What the model finds by age is what the program order gives. *)
LEMMA SameProducers ==
  ASSUME CoreInv, NEW i \in Live
  PROVE  /\ \A j : /\ Writers(i, j) = WritersOf(prog, ROB.entry, i, j)
                   /\ Producers(i, j) = ProducersOf(prog, ROB.entry, i, j)
         /\ RegDependent(i) = RegDependentOf(prog, ROB.entry, i)
         /\ MemProducers(i) = MemProducersOf(prog, ROB.entry, i)
<1>1. /\ Older(i) = {q \in Live : ROB.entry[q].id < ROB.entry[i].id}
      /\ \A q, r \in Live : Age(q) =< Age(r) <=> ROB.entry[q].id =< ROB.entry[r].id
  BY OlderIs DEF CoreInv, BufferShape
<1>2. \A q : q \in Waits(ROB.entry) <=> q \in Live /\ ROB.entry[q].executed # COMPLETED
  BY DEF Waits, Live
<1>3. ASSUME NEW j
      PROVE  /\ Writers(i, j) = WritersOf(prog, ROB.entry, i, j)
             /\ Producers(i, j) = ProducersOf(prog, ROB.entry, i, j)
  <2> DEFINE a == Writers(i, j)
             b == WritersOf(prog, ROB.entry, i, j)
             c == Producers(i, j)
             d == ProducersOf(prog, ROB.entry, i, j)
  <2>1. \A q : q \in a <=> q \in b  BY <1>1, <1>2 DEF Writers, WritersOf, Instr
  <2>2. a \subseteq Live  BY <1>1 DEF Writers
  <2>3. /\ \A q : q \in c <=> q \in a /\ \A r \in a : Age(r) =< Age(q)
        /\ \A q : q \in d <=> q \in b /\ \A r \in b : ROB.entry[r].id =< ROB.entry[q].id
    BY DEF Producers, ProducersOf
  <2> HIDE DEF a, b, c, d
  <2>4. a = b  BY <2>1
  <2>5. \A q : q \in c <=> q \in d  BY <1>1, <2>2, <2>3, <2>4
  <2>6. c = d  BY <2>5
  <2> QED  BY <2>4, <2>6 DEF a, b, c, d
<1>4. RegDependent(i) = RegDependentOf(prog, ROB.entry, i)
  <2> DEFINE a == RegDependent(i)
             b == RegDependentOf(prog, ROB.entry, i)
  <2>1. \A j : j \in a <=> j \in b  BY <1>3 DEF RegDependent, RegDependentOf, Instr
  <2> HIDE DEF a, b
  <2>2. a = b  BY <2>1
  <2> QED  BY <2>2 DEF a, b
<1>5. MemProducers(i) = MemProducersOf(prog, ROB.entry, i)
  <2> DEFINE a == MemProducers(i)
             b == MemProducersOf(prog, ROB.entry, i)
  <2>1. \A q : q \in a <=> q \in b  BY <1>1, <1>2 DEF MemProducers, MemProducersOf, Instr
  <2> HIDE DEF a, b
  <2>2. a = b  BY <2>1
  <2> QED  BY <2>2 DEF a, b
<1> QED  BY <1>3, <1>4, <1>5

(* The scan never wraps: an entry it reaches stands at or after the head, and  *)
(* so do all older ones.                                                       *)
LEMMA ReachesOlder ==
  ASSUME NEW h \in Slots, NEW i \in Slots, NEW k \in Slots, i >= h,
         (k - h + ROB_SIZE) % ROB_SIZE < (i - h + ROB_SIZE) % ROB_SIZE
  PROVE  k >= h
<1>1. (i - h + ROB_SIZE) % ROB_SIZE = i - h
  <2>0. PICK q \in Int : q = 1  OBVIOUS
  <2>1. i - h + ROB_SIZE = ROB_SIZE * q + (i - h)  BY <2>0, SizesType DEF Slots
  <2>2. i - h \in 0 .. ROB_SIZE - 1  BY SizesType DEF Slots
  <2>3. i - h + ROB_SIZE \in Int  BY SizesType DEF Slots
  <2> DEFINE x == i - h + ROB_SIZE
             r == i - h
  <2> HIDE DEF x, r
  <2>4. x = ROB_SIZE * q + r /\ r \in 0 .. ROB_SIZE - 1 /\ x \in Int
    BY <2>1, <2>2, <2>3 DEF x, r
  <2>5. x % ROB_SIZE = r  BY <2>4, SizesType, Remainder
  <2> QED  BY <2>5 DEF x, r
<1>2. CASE k < h
  <2>1. k - h + ROB_SIZE = ROB_SIZE * 0 + (k - h + ROB_SIZE)  BY SizesType DEF Slots
  <2>2. k - h + ROB_SIZE \in 0 .. ROB_SIZE - 1  BY <1>2, SizesType DEF Slots
  <2>3. (k - h + ROB_SIZE) % ROB_SIZE = k - h + ROB_SIZE
    BY <2>1, <2>2, SizesType, Remainder
  <2>4. k - h + ROB_SIZE < i - h  BY <1>1, <2>3
  <2>5. k + ROB_SIZE < i  BY <2>4, SizesType DEF Slots
  <2> QED  BY <2>5, SizesType DEF Slots
<1> QED  BY <1>2, SizesType DEF Slots

LEMMA ScheduleCore ==
  ASSUME CoreInv, NEW n \in Nat, ScheduleInstruction(n)
  PROVE  /\ CoreInv'
         /\ \A k \in Slots : /\ ROB'.entry[k].id = ROB.entry[k].id
                             /\ ROB'.entry[k].executed = ROB.entry[k].executed
<1> DEFINE Reach == {i \in ScheduleScan : Age(i) < n}
           New   == {i \in Reach : ROB.entry[i].scheduled = NotYet}
           Scheduled(i) ==
             [ROB.entry[i] EXCEPT
               !.reg_ready = RegDependent(i) = {},
               !.num_reg_dependent = Cardinality(RegDependent(i)),
               !.num_lsq_dependent = Cardinality(MemProducers(i)),
               !.scheduled = IF IsMemory(Instr(i)) THEN INFLIGHT ELSE COMPLETED]
           WithLinks(q) ==
             [(IF q \in New THEN Scheduled(q) ELSE ROB.entry[q]) EXCEPT
               !.regOut = @ \cup UNION {{i} \X RegLinks(i, q) : i \in New},
               !.memOut = @ \cup {i \in New : q \in MemProducers(i)}]
           S == {i \in New : ~IsMemory(Instr(i)) /\ RegDependent(i) = {}}
           next == (Max(New) + 1) % ROB_SIZE
<1>1. /\ ROB' = [ROB EXCEPT !.entry = [q \in Slots |-> WithLinks(q)], !.next_schedule = next]
      /\ RTE1' = RTE1 \o Ascending(S) /\ Reach \subseteq Live
  BY DEF ScheduleInstruction
<1>2. New \in SUBSET Slots /\ New \subseteq Live
      /\ \A i \in New : ROB.entry[i].id # 0 /\ ROB.entry[i].scheduled = NotYet
  BY <1>1 DEF Live
<1>3. \A i \in New, k \in Slots :
        ROB.entry[k].id # 0 /\ ROB.entry[k].id < ROB.entry[i].id
          => k \in New \/ ROB.entry[k].scheduled # NotYet
  <2>1. ASSUME NEW i \in New, NEW k \in Slots,
               ROB.entry[k].id # 0, ROB.entry[k].id < ROB.entry[i].id
        PROVE  k \in Reach
    <3>1. ROB.head \in Slots  BY HeldOnce DEF CoreInv, BufferShape
    <3>2. i \in Live /\ k \in Live /\ i \in Slots /\ Age(i) < n /\ i >= ROB.head
      <4>1. i \in Slots /\ i \in ScheduleScan /\ Age(i) < n  BY <1>2
      <4>2. ROB.head >= 0 /\ i >= 0  BY <3>1, <4>1, SizesType DEF Slots
      <4> QED  BY <1>2, <2>1, <3>1, <4>1, <4>2, SizesType
               DEF ScheduleScan, next_fetch_1, Live, Slots
    <3>3. Age(k) < Age(i)
      <4>1. k \in Older(i)  BY <2>1, <3>2, OlderIs DEF CoreInv, BufferShape
      <4> QED  BY <4>1 DEF Older
    <3>4. k >= ROB.head  BY <3>1, <3>2, <3>3, ReachesOlder DEF Age
    <3>5. Age(k) < n
      <4>1. Age(k) \in Int /\ Age(i) \in Int
        <5>1. \A x \in Slots : x - ROB.head + ROB_SIZE \in Int
          BY <3>1, SizesType DEF Slots
        <5>2. \A x \in Int : x % ROB_SIZE \in 0 .. ROB_SIZE - 1  BY SizesType, RemainderType
        <5>3. \A x \in Int : x % ROB_SIZE \in Int  BY <5>2, SizesType
        <5> QED  BY <3>2, <5>1, <5>3 DEF Age
      <4> QED  BY <3>2, <3>3, <4>1
    <3>6. k \in ScheduleScan
      BY <3>1, <3>4, SizesType DEF ScheduleScan, next_fetch_1, Slots
    <3> QED  BY <3>5, <3>6
  <2> QED  BY <2>1
<1> HIDE DEF Reach, New
<1>4. ASSUME NEW i \in New
      PROVE  /\ DOMAIN prog[ROB.entry[i].id].src \subseteq Nat
             /\ IsFiniteSet(DOMAIN prog[ROB.entry[i].id].src)
  <2>1. ROB.entry[i].id \in retired + 1 .. dispatched  BY <1>2 DEF CoreInv, Holds
  <2>2. Len(prog) \in Nat  BY ProgramLength DEF CoreInv, TraceInv
  <2>3. retired \in Nat /\ dispatched \in Nat  BY DEF CoreInv, Holds
  <2>4. ROB.entry[i].id \in 1 .. Len(prog)  BY <2>1, <2>2, <2>3 DEF CoreInv, TraceInv
  <2> QED  BY <2>4, InstructionFacts DEF CoreInv, TraceInv
<1>5. \A i \in New : /\ \A j : Producers(i, j) = ProducersOf(prog, ROB.entry, i, j)
                     /\ RegDependent(i) = RegDependentOf(prog, ROB.entry, i)
                     /\ MemProducers(i) = MemProducersOf(prog, ROB.entry, i)
  BY <1>2, SameProducers
<1>6. ASSUME NEW k \in Slots
      PROVE  /\ DOMAIN WithLinks(k) = DOMAIN EmptyEntry
             /\ WithLinks(k).id = ROB.entry[k].id
             /\ WithLinks(k).executed = ROB.entry[k].executed
             /\ WithLinks(k).regOut = ROB.entry[k].regOut \cup UNION {{i} \X RegLinks(i, k) : i \in New}
             /\ WithLinks(k).memOut = ROB.entry[k].memOut \cup {i \in New : k \in MemProducers(i)}
             /\ k \in New =>
                  /\ WithLinks(k).scheduled \in {INFLIGHT, COMPLETED}
                  /\ WithLinks(k).reg_ready = (RegDependent(k) = {})
                  /\ WithLinks(k).num_reg_dependent = Cardinality(RegDependent(k))
                  /\ WithLinks(k).num_lsq_dependent = Cardinality(MemProducers(k))
             /\ k \notin New =>
                  /\ WithLinks(k).scheduled = ROB.entry[k].scheduled
                  /\ WithLinks(k).reg_ready = ROB.entry[k].reg_ready
                  /\ WithLinks(k).num_reg_dependent = ROB.entry[k].num_reg_dependent
                  /\ WithLinks(k).num_lsq_dependent = ROB.entry[k].num_lsq_dependent
  <2> DEFINE u == UNION {{i} \X RegLinks(i, k) : i \in New}
             m == {i \in New : k \in MemProducers(i)}
             s == Scheduled(k)
             t == IF k \in New THEN s ELSE ROB.entry[k]
  <2>1. DOMAIN ROB.entry[k] = DOMAIN EmptyEntry  BY DEF CoreInv, BufferShape
  <2>2. /\ DOMAIN s = DOMAIN EmptyEntry
        /\ s.id = ROB.entry[k].id /\ s.executed = ROB.entry[k].executed
        /\ s.regOut = ROB.entry[k].regOut /\ s.memOut = ROB.entry[k].memOut
        /\ s.scheduled \in {INFLIGHT, COMPLETED}
        /\ s.reg_ready = (RegDependent(k) = {})
        /\ s.num_reg_dependent = Cardinality(RegDependent(k))
        /\ s.num_lsq_dependent = Cardinality(MemProducers(k))
    BY <2>1 DEF EmptyEntry
  <2> HIDE DEF s, u, m
  <2>3. DOMAIN t = DOMAIN EmptyEntry  BY <2>1, <2>2
  <2>4. /\ t.id = ROB.entry[k].id /\ t.executed = ROB.entry[k].executed
        /\ t.regOut = ROB.entry[k].regOut /\ t.memOut = ROB.entry[k].memOut
    BY <2>2
  <2>5. (k \in New => t = s) /\ (k \notin New => t = ROB.entry[k])  OBVIOUS
  <2>6. WithLinks(k) = [t EXCEPT !.regOut = @ \cup u, !.memOut = @ \cup m]
    BY DEF s, u, m
  <2> HIDE DEF t, WithLinks
  <2>7. /\ DOMAIN WithLinks(k) = DOMAIN EmptyEntry
        /\ WithLinks(k).id = t.id /\ WithLinks(k).executed = t.executed
        /\ WithLinks(k).regOut = t.regOut \cup u /\ WithLinks(k).memOut = t.memOut \cup m
        /\ WithLinks(k).scheduled = t.scheduled /\ WithLinks(k).reg_ready = t.reg_ready
        /\ WithLinks(k).num_reg_dependent = t.num_reg_dependent
        /\ WithLinks(k).num_lsq_dependent = t.num_lsq_dependent
    BY <2>3, <2>6 DEF EmptyEntry
  <2>8. /\ k \in New =>
                  /\ WithLinks(k).scheduled \in {INFLIGHT, COMPLETED}
                  /\ WithLinks(k).reg_ready = (RegDependent(k) = {})
                  /\ WithLinks(k).num_reg_dependent = Cardinality(RegDependent(k))
                  /\ WithLinks(k).num_lsq_dependent = Cardinality(MemProducers(k))
        /\ k \notin New =>
                  /\ WithLinks(k).scheduled = ROB.entry[k].scheduled
                  /\ WithLinks(k).reg_ready = ROB.entry[k].reg_ready
                  /\ WithLinks(k).num_reg_dependent = ROB.entry[k].num_reg_dependent
                  /\ WithLinks(k).num_lsq_dependent = ROB.entry[k].num_lsq_dependent
    BY <2>2, <2>5, <2>7
  <2> QED  BY <2>4, <2>7, <2>8 DEF u, m
<1> HIDE DEF WithLinks, S, next
<1>7. ROB'.entry = [q \in Slots |-> WithLinks(q)]  BY <1>1 DEF CoreInv, BufferShape
<1>8. \A k \in Slots : ROB'.entry[k] = WithLinks(k)  BY <1>7
<1>9. BufferShape'
  <2>1. DOMAIN ROB'.entry = Slots /\ \A k \in Slots : DOMAIN ROB'.entry[k] = DOMAIN EmptyEntry
    BY <1>6, <1>7, <1>8
  <2>2. /\ DOMAIN ROB' = DOMAIN ROB /\ ROB'.head = ROB.head /\ ROB'.tail = ROB.tail
        /\ ROB'.occupancy = ROB.occupancy
    BY <1>1 DEF CoreInv, BufferShape
  <2> QED  BY <2>1, <2>2 DEF CoreInv, BufferShape, ScheduleInstruction, frontVars
<1>10. ASSUME NEW k \in Slots
       PROVE  /\ \A l : l \in ROB'.entry[k].regOut <=>
                   \/ l \in ROB.entry[k].regOut
                   \/ \E i \in New : \E j \in DOMAIN prog[ROB.entry[i].id].src :
                        l = <<i, j>> /\ k \in ProducersOf(prog, ROB.entry, i, j)
              /\ \A i : i \in ROB'.entry[k].memOut <=>
                   \/ i \in ROB.entry[k].memOut
                   \/ i \in New /\ k \in MemProducersOf(prog, ROB.entry, i)
  <2>1. \A i \in New : RegLinks(i, k) =
          {j \in DOMAIN prog[ROB.entry[i].id].src : k \in ProducersOf(prog, ROB.entry, i, j)}
    BY <1>5, Zenon DEF RegLinks, Instr
  <2>2. \A l : l \in UNION {{i} \X RegLinks(i, k) : i \in New} <=>
                 \E i \in New : \E j \in RegLinks(i, k) : l = <<i, j>>
    OBVIOUS
  <2>3. \A l : (\E i \in New : \E j \in RegLinks(i, k) : l = <<i, j>>) <=>
               \E i \in New : \E j \in DOMAIN prog[ROB.entry[i].id].src :
                        l = <<i, j>> /\ k \in ProducersOf(prog, ROB.entry, i, j)
    BY <2>1
  <2>4. \A l : l \in ROB'.entry[k].regOut <=>
                   \/ l \in ROB.entry[k].regOut
                   \/ l \in UNION {{i} \X RegLinks(i, k) : i \in New}
    BY <1>6, <1>8
  <2>5. \A i : i \in ROB'.entry[k].memOut <=>
                   \/ i \in ROB.entry[k].memOut
                   \/ i \in New /\ k \in MemProducersOf(prog, ROB.entry, i)
    BY <1>5, <1>6, <1>8
  <2> QED  BY <2>2, <2>3, <2>4, <2>5
<1>11. Schedules(prog, ROB.entry, ROB'.entry, New)
  <2>1. \A k \in Slots : ROB'.entry[k].id = ROB.entry[k].id /\ ROB'.entry[k].executed = ROB.entry[k].executed
    BY <1>6, <1>8
  <2>2. \A k \in New :
       /\ ROB'.entry[k].scheduled # NotYet
       /\ ROB'.entry[k].reg_ready <=> RegDependentOf(prog, ROB.entry, k) = {}
       /\ ROB'.entry[k].num_reg_dependent = Cardinality(RegDependentOf(prog, ROB.entry, k))
       /\ ROB'.entry[k].num_lsq_dependent = Cardinality(MemProducersOf(prog, ROB.entry, k))
    <3>1. ASSUME NEW k \in New
          PROVE  /\ ROB'.entry[k].scheduled # NotYet
                 /\ ROB'.entry[k].reg_ready <=> RegDependentOf(prog, ROB.entry, k) = {}
                 /\ ROB'.entry[k].num_reg_dependent = Cardinality(RegDependentOf(prog, ROB.entry, k))
                 /\ ROB'.entry[k].num_lsq_dependent = Cardinality(MemProducersOf(prog, ROB.entry, k))
      <4>1. k \in Slots  BY <1>2, <3>1
      <4>2. ROB'.entry[k] = WithLinks(k)  BY <1>8, <4>1
      <4>3. /\ WithLinks(k).scheduled \in {INFLIGHT, COMPLETED}
            /\ WithLinks(k).reg_ready = (RegDependent(k) = {})
            /\ WithLinks(k).num_reg_dependent = Cardinality(RegDependent(k))
            /\ WithLinks(k).num_lsq_dependent = Cardinality(MemProducers(k))
        BY <1>6, <3>1, <4>1, Zenon
      <4>4. /\ RegDependent(k) = RegDependentOf(prog, ROB.entry, k)
            /\ MemProducers(k) = MemProducersOf(prog, ROB.entry, k)
        BY <1>5, <3>1
      <4>5. ROB'.entry[k].scheduled # NotYet  BY <4>2, <4>3 DEF INFLIGHT, COMPLETED, NotYet
      <4>6. ROB'.entry[k].reg_ready <=> RegDependentOf(prog, ROB.entry, k) = {}
        BY <4>2, <4>3, <4>4, Zenon
      <4> QED  BY <4>2, <4>3, <4>4, <4>5, <4>6
    <3> QED  BY <3>1
  <2>3. \A k \in Slots \ New :
       /\ ROB'.entry[k].scheduled = ROB.entry[k].scheduled
       /\ ROB'.entry[k].reg_ready = ROB.entry[k].reg_ready
       /\ ROB'.entry[k].num_reg_dependent = ROB.entry[k].num_reg_dependent
       /\ ROB'.entry[k].num_lsq_dependent = ROB.entry[k].num_lsq_dependent
    BY <1>6, <1>8
  <2> QED  BY <1>10, <2>1, <2>2, <2>3 DEF Schedules
<1>12. Deps(prog, ROB'.entry, retired)
  BY <1>2, <1>3, <1>4, <1>11, ScheduleKeeps DEF CoreInv
<1>13. Holds(ROB'.entry, retired, dispatched)  BY <1>6, <1>8, StayHolds DEF CoreInv
<1>14. CoreType(ROB'.entry)
  <2>1. \A k \in Slots : /\ ROB'.entry[k].num_reg_dependent \in Nat
                         /\ ROB'.entry[k].num_lsq_dependent \in Nat
    BY <1>12, CountsAreNat DEF Deps
  <2>2. ASSUME NEW k \in Slots
        PROVE  /\ ROB'.entry[k].id \in Nat
               /\ ROB'.entry[k].scheduled \in {NotYet, INFLIGHT, COMPLETED}
               /\ ROB'.entry[k].executed \in {NotYet, INFLIGHT, COMPLETED}
               /\ ROB'.entry[k].reg_ready \in BOOLEAN
    <3>1. (RegDependent(k) = {}) \in BOOLEAN  OBVIOUS
    <3>2. ROB'.entry[k].reg_ready \in BOOLEAN
      BY <1>6, <1>8, <3>1, Zenon DEF CoreInv, CoreType
    <3>3. CASE k \in New  BY <1>6, <1>8, <3>2, <3>3 DEF CoreInv, CoreType
    <3>4. CASE k \notin New  BY <1>6, <1>8, <3>2, <3>4 DEF CoreInv, CoreType
    <3> QED  BY <3>3, <3>4
  <2>3. ASSUME NEW k \in Slots PROVE ROB'.entry[k].regOut \in SUBSET (Slots \X Nat)
    <3>1. \A l \in ROB.entry[k].regOut : l \in Slots \X Nat  BY DEF CoreInv, CoreType
    <3>2. \A i \in New : \A j \in DOMAIN prog[ROB.entry[i].id].src : <<i, j>> \in Slots \X Nat
      BY <1>2, <1>4
    <3> QED  BY <1>10, <3>1, <3>2
  <2>4. ASSUME NEW k \in Slots PROVE ROB'.entry[k].memOut \in SUBSET Slots
    <3>1. \A l \in ROB.entry[k].memOut : l \in Slots  BY DEF CoreInv, CoreType
    <3> QED  BY <1>2, <1>10, <3>1
  <2> QED  BY <2>1, <2>2, <2>3, <2>4 DEF CoreType
<1>15. MemLinks(prog, ROB'.entry)
  <2>1. ASSUME NEW k \in Slots, ROB'.entry[k].num_lsq_dependent # 0
        PROVE  IsMemory(prog[ROB.entry[k].id])
    <3>1. CASE k \in New
      <4>1. Cardinality(MemProducersOf(prog, ROB.entry, k)) # 0  BY <2>1, <3>1, <1>11 DEF Schedules
      <4>2. MemProducersOf(prog, ROB.entry, k) # {}
        <5>1. Cardinality({}) = 0  BY FS_EmptySet
        <5> QED  BY <4>1, <5>1
      <4> QED  BY <4>2 DEF MemProducersOf
    <3>2. CASE k \notin New  BY <1>6, <1>8, <2>1, <3>2 DEF CoreInv, MemLinks
    <3> QED  BY <3>1, <3>2
  <2> QED  BY <1>11, <2>1 DEF MemLinks, Schedules
<1>16. \A i \in New : ~ROB.entry[i].reg_ready /\ ROB.entry[i].executed = NotYet
  BY <1>2 DEF CoreInv, Deps, Counted, Started
<1>17. S \in SUBSET Slots
       /\ \A k \in Slots : k \in S <=> k \in New /\ ~IsMemory(Instr(k)) /\ RegDependent(k) = {}
  BY <1>2 DEF S
<1>18. \A i \in S : ~Due(prog, ROB.entry, i)  BY <1>16, <1>17 DEF Due
<1>19. \A k \in Slots : Due(prog, ROB'.entry, k) <=> Due(prog, ROB.entry, k) \/ k \in S
  <2>1. ASSUME NEW k \in Slots
        PROVE  Due(prog, ROB'.entry, k) <=> Due(prog, ROB.entry, k) \/ k \in S
    <3>1. ROB'.entry[k].id = ROB.entry[k].id /\ ROB'.entry[k].executed = ROB.entry[k].executed
      BY <1>6, <1>8
    <3>2. CASE k \in New
      <4>1. ROB'.entry[k].reg_ready <=> RegDependent(k) = {}
        BY <1>2, <1>5, <1>11, <3>2, Zenon DEF Schedules
      <4>2. ROB.entry[k].id # 0  BY <1>2, <3>2
      <4>3. ~Due(prog, ROB.entry, k) /\ ROB.entry[k].executed = NotYet  BY <1>16, <3>2 DEF Due
      <4>4. k \in S <=> ~IsMemory(prog[ROB.entry[k].id]) /\ RegDependent(k) = {}
        BY <1>17, <3>2 DEF Instr
      <4> QED  BY <3>1, <4>1, <4>2, <4>3, <4>4 DEF Due
    <3>3. CASE k \notin New
      <4>1. ROB'.entry[k].reg_ready = ROB.entry[k].reg_ready  BY <1>6, <1>8, <3>3
      <4>2. k \notin S  BY <1>17, <3>3
      <4> QED  BY <3>1, <4>1, <4>2 DEF Due
    <3> QED  BY <3>2, <3>3
  <2> QED  BY <2>1
<1>20. RingsHold(prog, ROB'.entry, RTE0, RTE1 \o Ascending(S))
  BY <1>17, <1>18, <1>19, RingsPush DEF CoreInv
<1>21. TraceInv'  BY DEF CoreInv, TraceInv, ScheduleInstruction, frontVars
<1>22. CoreInv'
  BY <1>1, <1>9, <1>12, <1>13, <1>14, <1>15, <1>20, <1>21
     DEF CoreInv, ScheduleInstruction, frontVars
<1> QED  BY <1>6, <1>8, <1>22
--------------------------------------------------------------------------------
(* The invariant holds *)

LEMMA CoreStep == ASSUME CoreInv, [Next]_vars PROVE CoreInv'
<1>1. CASE ReadFromTrace  BY <1>1, ReadCore
<1>2. CASE DecodeAndDispatch  BY <1>2, DispatchCore
<1>3. CASE Schedule
  <2>1. PICK n \in 1 .. SCHEDULER_SIZE : ScheduleInstruction(n)  BY <1>3 DEF Schedule
  <2>2. n \in Nat  BY SizesAssumption
  <2> QED  BY <2>1, <2>2, ScheduleCore
<1>4. CASE ExecuteRTE0  BY <1>4, ExecuteRTE0Core
<1>5. CASE ExecuteRTE1  BY <1>5, ExecuteRTE1Core
<1>6. CASE MemorySchedule  BY <1>6, ScheduleMemoryCore DEF MemorySchedule
<1>7. CASE TranslateStore  BY <1>7, UnchangedCore DEF TranslateStore
<1>8. CASE TranslateLoad  BY <1>8, UnchangedCore DEF TranslateLoad
<1>9. CASE ExecuteStore
  <2>1. \E ops : Finished(ops)  BY <1>9 DEF ExecuteStore
  <2> QED  BY <1>9, <2>1, FinishedCore DEF ExecuteStore
<1>10. CASE ExecuteLoad  BY <1>10, UnchangedCore DEF ExecuteLoad
<1>11. CASE DtlbAnswers  BY <1>11, UnchangedCore DEF DtlbAnswers, CompleteTranslation
<1>12. CASE L1dAnswers
  <2>1. PICK answer : CompleteLoads(answer)  BY <1>12 DEF L1dAnswers
  <2>2. \E ops : Finished(ops)  BY <2>1 DEF CompleteLoads
  <2> QED  BY <2>1, <2>2, FinishedCore DEF CompleteLoads, rings
<1>13. CASE \E i \in Slots : Complete(i)  BY <1>13, CompleteCore DEF Complete
<1>14. CASE RetireRob  BY <1>14, RetireCore
<1>15. CASE L1dTakesWrite  BY <1>15, UnchangedCore DEF L1dTakesWrite, rings
<1>16. CASE AbortInReader \/ TraceEnds \/ UNCHANGED vars
  BY <1>16, UnchangedCore DEF AbortInReader, TraceEnds, vars, coreVars, rings
<1> QED
  BY <1>1, <1>2, <1>3, <1>4, <1>5, <1>6, <1>7, <1>8, <1>9, <1>10, <1>11, <1>12, <1>13,
     <1>14, <1>15, <1>16 DEF Next

LEMMA CoreInvariant == Spec => []CoreInv
BY InitCore, CoreStep, PTL DEF Spec

--------------------------------------------------------------------------------
(* The core implements the data-flow machine *)

LEMMA ExecutedIs ==
  \A n : n \in Executed <=>
           \/ n \in 1 .. retired
           \/ \E i \in Slots : /\ ROB.entry[i].id = n /\ n # 0
                               /\ ROB.entry[i].executed = COMPLETED
BY DEF Executed, Live

LEMMA DoneExecuted ==
  ASSUME CoreInv, NEW k \in 1 .. dispatched, Done(ROB.entry, retired, k)
  PROVE  k \in Executed
<1>1. retired \in Nat /\ dispatched \in Nat  BY DEF CoreInv, Holds
<1>2. CASE k =< retired  BY <1>1, <1>2, ExecutedIs
<1>3. CASE k > retired
  <2>1. k \in retired + 1 .. dispatched /\ k \in Nat \ {0}  BY <1>1, <1>3
  <2>2. SlotOf(k) \in Slots /\ ROB.entry[SlotOf(k)].id = k
    BY <2>1, SlotType DEF CoreInv, Holds
  <2>3. ROB.entry[SlotOf(k)].executed = COMPLETED  BY <1>1, <1>3 DEF Done
  <2> QED  BY <2>1, <2>2, <2>3, ExecutedIs
<1> QED  BY <1>1, <1>2, <1>3

(* What has started needs nothing any more. *)
LEMMA NeedsMet ==
  ASSUME CoreInv, NEW i \in Live, ROB.entry[i].executed # NotYet
  PROVE  Needs(prog, ROB.entry[i].id) \subseteq Executed
<1> DEFINE n == ROB.entry[i].id
           W(j) == {k \in 1 .. n - 1 : prog[k].asid = prog[n].asid
                                       /\ prog[n].src[j] \in Range(prog[k].dst)}
<1>1. /\ i \in Slots /\ n # 0 /\ ROB.entry[i].scheduled # NotYet
      /\ RegIn(ROB.entry, i) = {} /\ MemIn(ROB.entry, i) = {}
  BY DEF Live, CoreInv, Deps, Started
<1>2. n \in 1 .. dispatched /\ n \in Nat /\ dispatched \in Nat /\ retired \in Nat
  BY <1>1 DEF CoreInv, Holds
<1>3. ASSUME NEW k \in 1 .. n - 1, ~Done(ROB.entry, retired, k)
      PROVE  SlotOf(k) \in Waits(ROB.entry) /\ SlotOf(k) \in Slots
  <2>1. k > retired  BY <1>2, <1>3 DEF Done
  <2>2. SlotOf(k) \in Slots /\ ROB.entry[SlotOf(k)].id = k /\ k # 0
    BY <1>1, <2>1, SlotsOfNeeds DEF CoreInv
  <2> QED  BY <1>3, <2>2 DEF Done, Waits
<1>4. ASSUME NEW k \in 1 .. n - 1, IsMemory(prog[n]), Hazard(prog[k], prog[n])
      PROVE  k \in Executed
  <2>1. Precedes(prog, n, k) /\ k \in Nat  BY <1>2, <1>4 DEF Precedes
  <2>2. Done(ROB.entry, retired, k) \/ i \in ROB.entry[SlotOf(k)].memOut
    BY <1>1, <2>1 DEF CoreInv, Deps, Covered
  <2>3. Done(ROB.entry, retired, k)  BY <1>1, <1>3, <2>2 DEF MemIn
  <2>4. k \in 1 .. dispatched  BY <1>2
  <2> QED  BY <2>3, <2>4, DoneExecuted
<1>5. ASSUME NEW j \in DOMAIN prog[n].src, W(j) # {}
      PROVE  Max(W(j)) \in Executed
  <2> DEFINE w == W(j)
             m == Max(w)
  <2>1. \A k \in w : k \in 0 .. n  BY <1>2
  <2>2. \A k : k \in w <=> Writes(prog, n, j, k)  BY DEF Writes
  <2> HIDE DEF w
  <2>3. \E x \in w : \A y \in w : y =< x  BY <1>2, <1>5, <2>1, GreatestNat DEF w
  <2>4. \E x \in w : \A y \in w : x >= y  BY <1>2, <2>1, <2>3
  <2>5. m \in w /\ \A y \in w : m >= y  BY <2>4 DEF Max
  <2> HIDE DEF m
  <2>6. m \in 1 .. n - 1 /\ m \in Nat  BY <1>2, <2>2, <2>5 DEF Writes
  <2>7. LastWrites(prog, n, j, m)
    <3>1. \A y \in w : y =< m  BY <1>2, <2>1, <2>5, <2>6
    <3> QED  BY <2>2, <2>5, <3>1 DEF LastWrites
  <2>8. Done(ROB.entry, retired, m) \/ <<i, j>> \in ROB.entry[SlotOf(m)].regOut
    BY <1>1, <2>6, <2>7 DEF CoreInv, Deps, Covered
  <2>9. Done(ROB.entry, retired, m)
    <3>1. SUFFICES ASSUME ~Done(ROB.entry, retired, m) PROVE FALSE
      OBVIOUS
    <3>2. SlotOf(m) \in Waits(ROB.entry) /\ SlotOf(m) \in Slots  BY <1>3, <2>6, <3>1
    <3>3. <<i, j>> \in ROB.entry[SlotOf(m)].regOut  BY <2>8, <3>1
    <3>4. <<i, j>> \in Slots \X Nat  BY <3>2, <3>3 DEF CoreInv, CoreType
    <3>5. <<SlotOf(m), <<i, j>>>> \in RegIn(ROB.entry, i)  BY <3>2, <3>3, <3>4 DEF RegIn
    <3> QED  BY <1>1, <3>5
  <2>10. m \in 1 .. dispatched  BY <1>2, <2>6
  <2> QED  BY <2>9, <2>10, DoneExecuted DEF m, w
<1>6. ASSUME NEW x \in LastWriters(prog, n) PROVE x \in Executed
  <2>1. PICK j \in DOMAIN prog[n].src : W(j) # {} /\ x = Max(W(j))
    BY DEF LastWriters
  <2> QED  BY <1>5, <2>1
<1>7. \A x \in Needs(prog, n) : x \in Executed  BY <1>4, <1>6 DEF Needs
<1> QED  BY <1>7

LEMMA SameExecuted ==
  ASSUME UNCHANGED <<prog, retired>>,
         \A k \in Slots : /\ ROB'.entry[k].id = ROB.entry[k].id
                          /\ ROB'.entry[k].executed = COMPLETED <=> ROB.entry[k].executed = COMPLETED
  PROVE  UNCHANGED Abstract!vars
<1> DEFINE a == Executed
           b == Executed'
<1>1. \A n : n \in a <=> n \in b  BY DEF Executed, Live
<1> HIDE DEF a, b
<1>2. a = b  BY <1>1
<1> QED  BY <1>2 DEF a, b, Abstract!vars

(* Completion is Execute. *)
LEMMA CompleteRefines ==
  ASSUME CoreInv, NEW i \in Slots, CompleteExecution(i)
  PROVE  Abstract!Next
<1> DEFINE n == ROB.entry[i].id
<1>1. /\ i \in Live /\ n # 0 /\ ROB.entry[i].executed = INFLIGHT
      /\ UNCHANGED <<prog, retired>>
  BY DEF CompleteExecution, Live, frontVars
<1>2. retired \in Nat /\ dispatched \in Nat /\ n \in retired + 1 .. dispatched
  BY <1>1 DEF CoreInv, Holds
<1>3. n \in 1 .. Len(prog)
  <2>1. Len(prog) \in Nat  BY ProgramLength DEF CoreInv, TraceInv
  <2> QED  BY <1>2, <2>1 DEF CoreInv, TraceInv
<1>4. n \notin Executed
  <2>1. n \notin 1 .. retired  BY <1>2
  <2>2. \A k \in Slots : ROB.entry[k].id = n => k = i
    BY <1>1, HeldOnce DEF CoreInv
  <2> QED  BY <1>1, <2>1, <2>2, ExecutedIs DEF INFLIGHT, COMPLETED
<1>5. Needs(prog, n) \subseteq Executed
  BY <1>1, NeedsMet DEF INFLIGHT, NotYet
<1>6. \A k \in Slots : /\ ROB'.entry[k].id = ROB.entry[k].id
                       /\ ROB'.entry[k].executed = IF k = i THEN COMPLETED ELSE ROB.entry[k].executed
  BY CompleteCore DEF Releases
<1>7. Executed' = Executed \cup {n}
  <2> DEFINE a == Executed'
             b == Executed \cup {n}
  <2>1. \A x : x \in Executed' <=>
                 \/ x \in 1 .. retired
                 \/ \E k \in Slots : /\ ROB'.entry[k].id = x /\ x # 0
                                     /\ ROB'.entry[k].executed = COMPLETED
    BY <1>1 DEF Executed, Live
  <2>2. \A x : x \in a <=> x \in b  BY <1>1, <1>6, <2>1, ExecutedIs
  <2> HIDE DEF a, b
  <2>3. a = b  BY <2>2
  <2> QED  BY <2>3 DEF a, b
<1> HIDE DEF n
<1>8. Abstract!Execute(n)
  BY <1>1, <1>4, <1>5, <1>7 DEF Abstract!Execute, Abstract!Ready
<1> QED  BY <1>3, <1>8 DEF Abstract!Next

(* Retirement is Retire. *)
LEMMA RetireRefines == ASSUME CoreInv, RetireRob PROVE Abstract!Next
<1> DEFINE t == ROB.head
<1>1. /\ t \in Slots /\ ROB.entry[t].id = retired + 1 /\ retired < dispatched
      /\ ROB'.entry[t].id = 0 /\ \A k \in Slots : k # t => ROB'.entry[k] = ROB.entry[k]
  BY RetireCore
<1>2. ROB.entry[t].executed = COMPLETED /\ retired' = retired + 1 /\ prog' = prog
  BY DEF RetireRob, frontVars
<1>3. retired \in Nat /\ dispatched \in Nat  BY DEF CoreInv, Holds
<1>4. retired < Len(prog)
  <2>1. Len(prog) \in Nat  BY ProgramLength DEF CoreInv, TraceInv
  <2> QED  BY <1>1, <1>3, <2>1 DEF CoreInv, TraceInv
<1> HIDE DEF t
<1>5. retired + 1 \in Executed  BY <1>1, <1>2, <1>3, ExecutedIs
<1>6. Executed' = Executed
  <2> DEFINE a == Executed'
             b == Executed
  <2>1. \A x : x \in Executed' <=>
                 \/ x \in 1 .. retired + 1
                 \/ \E k \in Slots : /\ ROB'.entry[k].id = x /\ x # 0
                                     /\ ROB'.entry[k].executed = COMPLETED
    BY <1>2 DEF Executed, Live
  <2>2. \A x : x \in 1 .. retired + 1 <=> x \in 1 .. retired \/ x = retired + 1
    BY <1>3
  <2>3. \A x : (\E k \in Slots : /\ ROB'.entry[k].id = x /\ x # 0
                                 /\ ROB'.entry[k].executed = COMPLETED)
               => \E k \in Slots : /\ ROB.entry[k].id = x /\ x # 0
                                   /\ ROB.entry[k].executed = COMPLETED
    BY <1>1
  <2>4. \A x : (\E k \in Slots : /\ ROB.entry[k].id = x /\ x # 0
                                 /\ ROB.entry[k].executed = COMPLETED)
               => \/ x = retired + 1
                  \/ \E k \in Slots : /\ ROB'.entry[k].id = x /\ x # 0
                                      /\ ROB'.entry[k].executed = COMPLETED
    BY <1>1
  <2>5. \A x : x \in a => x \in b  BY <1>5, <2>1, <2>2, <2>3, ExecutedIs
  <2>6. \A x : x \in b => x \in a  BY <2>1, <2>2, <2>4, ExecutedIs
  <2> HIDE DEF a, b
  <2>7. a = b  BY <2>5, <2>6
  <2> QED  BY <2>7 DEF a, b
<1> QED  BY <1>2, <1>4, <1>5, <1>6 DEF Abstract!Next, Abstract!Retire

LEMMA StepRefines == ASSUME CoreInv, [Next]_vars PROVE [Abstract!Next]_(Abstract!vars)
<1> DEFINE Stays == /\ UNCHANGED <<prog, retired>>
                    /\ \A k \in Slots :
                         /\ ROB'.entry[k].id = ROB.entry[k].id
                         /\ ROB'.entry[k].executed = COMPLETED <=> ROB.entry[k].executed = COMPLETED
<1>0. ASSUME Stays PROVE [Abstract!Next]_(Abstract!vars)  BY <1>0, SameExecuted
<1>a. ASSUME UNCHANGED <<prog, retired, ROB>> PROVE Stays  BY <1>a
<1>b. ASSUME NEW ops, Finished(ops), UNCHANGED <<prog, retired>> PROVE Stays
  <2>1. \A k \in Slots : ROB'.entry[k].id = ROB.entry[k].id
                         /\ ROB'.entry[k].executed = ROB.entry[k].executed
    BY <1>b DEF Finished, CoreInv, BufferShape, EmptyEntry
  <2> QED  BY <1>b, <2>1
<1> HIDE DEF Stays
<1>1. CASE ReadFromTrace  BY <1>0, <1>1, <1>a DEF ReadFromTrace
<1>2. CASE DecodeAndDispatch
  <2> DEFINE t == dispatched % ROB_SIZE
             e == [EmptyEntry EXCEPT !.id = dispatched + 1,
                                     !.num_mem_ops = NumMemOps(prog[dispatched + 1])]
  <2>1. /\ Holds(ROB.entry, retired, dispatched) /\ dispatched \in Nat /\ retired \in Nat
    BY DEF CoreInv, Holds
  <2>2. dispatched < retired + ROB_SIZE
    BY <1>2, <2>1, SizesType DEF DecodeAndDispatch, CoreInv, BufferShape
  <2>3. t \in Slots /\ ROB.entry[t].id = 0 /\ ROB.tail = t
    BY <2>1, <2>2, HeldOnce DEF CoreInv, BufferShape
  <2>4. e.executed = NotYet  BY DEF EmptyEntry
  <2>5. ROB.entry[t].executed = NotYet
    BY <2>3 DEF CoreInv, Deps, Started
  <2>6. ROB' = [ROB EXCEPT !.entry = [ROB.entry EXCEPT ![t] = e],
                           !.occupancy = ROB.occupancy + 1,
                           !.tail = (ROB.tail + 1) % ROB_SIZE]
    BY <1>2, <2>3 DEF DecodeAndDispatch, CoreInv, BufferShape
  <2>7. UNCHANGED <<prog, retired>>  BY <1>2 DEF DecodeAndDispatch
  <2>8. e.id = dispatched + 1  BY DEF EmptyEntry
  <2> HIDE DEF t, e
  <2>9. ROB'.entry[t] = e /\ \A k \in Slots : k # t => ROB'.entry[k] = ROB.entry[k]
    BY <2>3, <2>6 DEF CoreInv, BufferShape
  <2> DEFINE a == Executed
             b == Executed'
  <2>10. \A x : x \in a <=> x \in b
    BY <2>3, <2>4, <2>5, <2>7, <2>9 DEF Executed, Live, COMPLETED, NotYet
  <2> HIDE DEF a, b
  <2>11. a = b  BY <2>10
  <2> QED  BY <2>7, <2>11 DEF a, b, Abstract!vars
<1>3. CASE Schedule
  <2>1. PICK n \in 1 .. SCHEDULER_SIZE : ScheduleInstruction(n)  BY <1>3 DEF Schedule
  <2>2. n \in Nat  BY SizesAssumption
  <2>3. Stays  BY <2>1, <2>2, ScheduleCore DEF Stays, ScheduleInstruction, frontVars
  <2> QED  BY <1>0, <2>3
<1>4. CASE \E t : t \in Slots /\ Due(prog, ROB.entry, t) /\ DoExecution(t)
  <2>1. PICK t \in Slots : Due(prog, ROB.entry, t) /\ DoExecution(t)  BY <1>4
  <2>2. ROB' = [ROB EXCEPT !.entry = [ROB.entry EXCEPT ![t] = [ROB.entry[t] EXCEPT !.executed = INFLIGHT]]]
    BY <2>1 DEF DoExecution, CoreInv, BufferShape
  <2>3. ROB'.entry = [ROB.entry EXCEPT ![t] = [ROB.entry[t] EXCEPT !.executed = INFLIGHT]]
    BY <2>2 DEF CoreInv, BufferShape
  <2>4. /\ ROB'.entry[t].id = ROB.entry[t].id /\ ROB'.entry[t].executed = INFLIGHT
        /\ ROB.entry[t].executed = NotYet
        /\ \A k \in Slots : k # t => ROB'.entry[k] = ROB.entry[k]
    BY <2>1, <2>3 DEF CoreInv, BufferShape, EmptyEntry, Due
  <2>5. Stays  BY <2>1, <2>4 DEF Stays, DoExecution, frontVars, INFLIGHT, COMPLETED, NotYet
  <2> QED  BY <1>0, <2>5
<1>5. CASE ExecuteRTE0
  <2>1. RingsHold(prog, ROB.entry, RTE0, RTE1) /\ RTE0 # <<>>
    BY <1>5 DEF CoreInv, ExecuteRTE0
  <2>2. Head(RTE0) \in Slots /\ Head(RTE0) \in Range(RTE0)  BY <2>1, Popped DEF RingsHold
  <2>3. Due(prog, ROB.entry, Head(RTE0))  BY <2>1, <2>2 DEF RingsHold
  <2> QED  BY <1>4, <1>5, <2>2, <2>3 DEF ExecuteRTE0
<1>6. CASE ExecuteRTE1
  <2>1. RingsHold(prog, ROB.entry, RTE1, RTE0) /\ RTE1 # <<>>
    BY <1>6, RingsSwap DEF CoreInv, ExecuteRTE1
  <2>2. Head(RTE1) \in Slots /\ Head(RTE1) \in Range(RTE1)  BY <2>1, Popped DEF RingsHold
  <2>3. Due(prog, ROB.entry, Head(RTE1))  BY <2>1, <2>2 DEF RingsHold
  <2> QED  BY <1>4, <1>6, <2>2, <2>3 DEF ExecuteRTE1
<1>7. CASE MemorySchedule
  <2>1. PICK i \in Slots : ScheduleMemory(i)  BY <1>7 DEF MemorySchedule
  <2>2. Stays  BY <2>1, ScheduleMemoryCore DEF Stays, ScheduleMemory, frontVars
  <2> QED  BY <1>0, <2>2
<1>8. CASE TranslateStore  BY <1>0, <1>8, <1>a DEF TranslateStore, frontVars
<1>9. CASE TranslateLoad  BY <1>0, <1>9, <1>a DEF TranslateLoad, frontVars
<1>10. CASE ExecuteStore
  <2>1. \E ops : Finished(ops)  BY <1>10 DEF ExecuteStore
  <2> QED  BY <1>0, <1>10, <1>b, <2>1 DEF ExecuteStore, frontVars
<1>11. CASE ExecuteLoad  BY <1>0, <1>11, <1>a DEF ExecuteLoad, frontVars
<1>12. CASE DtlbAnswers
  BY <1>0, <1>12, <1>a DEF DtlbAnswers, CompleteTranslation, frontVars
<1>13. CASE L1dAnswers
  <2>1. PICK answer : CompleteLoads(answer)  BY <1>13 DEF L1dAnswers
  <2>2. \E ops : Finished(ops)  BY <2>1 DEF CompleteLoads
  <2> QED  BY <1>0, <1>b, <2>1, <2>2 DEF CompleteLoads, frontVars
<1>14. CASE \E i \in Slots : Complete(i)  BY <1>14, CompleteRefines DEF Complete
<1>15. CASE RetireRob  BY <1>15, RetireRefines
<1>16. CASE L1dTakesWrite  BY <1>0, <1>16, <1>a DEF L1dTakesWrite, frontVars
<1>17. CASE AbortInReader \/ TraceEnds \/ UNCHANGED vars
  BY <1>0, <1>17, <1>a DEF AbortInReader, TraceEnds, vars, coreVars, frontVars
<1> QED
  BY <1>1, <1>2, <1>3, <1>5, <1>6, <1>7, <1>8, <1>9, <1>10, <1>11, <1>12, <1>13,
     <1>14, <1>15, <1>16, <1>17 DEF Next

LEMMA InitRefines == Init => Abstract!Init
<1> SUFFICES ASSUME Init PROVE Abstract!Init
  OBVIOUS
<1>1. \A i \in Slots : ROB.entry[i].id = 0  BY DEF Init, EmptyEntry
<1> DEFINE a == Executed
<1>2. \A n : n \notin a  BY <1>1 DEF Executed, Live, Init
<1> HIDE DEF a
<1>3. a = {}  BY <1>2
<1> QED  BY <1>3 DEF a, Abstract!Init, Init

(* ImplementsDataflow: complete_execution, driven by the dependence lists of   *)
(* reg_dependency and mem_dependency, is a step of the data-flow machine, and  *)
(* retire_rob follows the program, for every trace and every size of the ROB.  *)
THEOREM CoreImplementsDataflow == Spec => ImplementsDataflow
<1>1. Init => Abstract!Init  BY InitRefines
<1>2. CoreInv /\ [Next]_vars => [Abstract!Next]_(Abstract!vars)  BY StepRefines
<1>3. Spec => []CoreInv  BY CoreInvariant
<1> QED  BY <1>1, <1>2, <1>3, PTL DEF Spec, ImplementsDataflow, Abstract!Spec

(* DependencesCounted: the counters num_reg_dependent and num_lsq_dependent    *)
(* are the numbers of links from the instructions that have not completed, and *)
(* the links of registers_instrs_depend_on_me and memory_instrs_depend_on_me   *)
(* lead to younger entries.                                                    *)
THEOREM DependencesCountedCorrect == Spec => []DependencesCounted
<1>1. ASSUME CoreInv PROVE DependencesCounted
  <2> DEFINE Waiting == {q \in Live : ROB.entry[q].executed # COMPLETED}
             Reg(i) == UNION {{<<q, l>> : l \in {m \in ROB.entry[q].regOut : m[1] = i}} : q \in Waiting}
             Mem(i) == {q \in Waiting : i \in ROB.entry[q].memOut}
  <2>1. Waiting = Waits(ROB.entry)  BY DEF Live, Waits
  <2>2. Waits(ROB.entry) \subseteq Slots /\ Linked(ROB.entry) /\ Counted(ROB.entry)
    BY <1>1 DEF Waits, CoreInv, Deps
  <2> HIDE DEF Waiting
  <2>3. ASSUME NEW i PROVE Reg(i) = RegIn(ROB.entry, i)
    <3>1. \A q \in Waiting : ROB.entry[q].regOut \subseteq Slots \X Nat
      BY <1>1, <2>1, <2>2 DEF CoreInv, CoreType
    <3> DEFINE a == Reg(i)
               b == RegIn(ROB.entry, i)
    <3>2. \A x : x \in a <=> \E q \in Waiting : \E l \in ROB.entry[q].regOut : l[1] = i /\ x = <<q, l>>
      OBVIOUS
    <3>3. \A x : x \in b <=> \E q \in Waiting : \E l \in ROB.entry[q].regOut : l[1] = i /\ x = <<q, l>>
      BY <2>1, <3>1 DEF RegIn
    <3> HIDE DEF a, b
    <3>4. a = b  BY <3>2, <3>3
    <3> QED  BY <3>4 DEF a, b
  <2>4. \A i : Mem(i) = MemIn(ROB.entry, i)  BY <2>1 DEF MemIn
  <2> HIDE DEF Reg, Mem
  <2>5. \A i \in Slots :
       /\ ROB.entry[i].num_reg_dependent = Cardinality(Reg(i))
       /\ ROB.entry[i].num_lsq_dependent = Cardinality(Mem(i))
       /\ ROB.entry[i].reg_ready <=> ROB.entry[i].scheduled # NotYet /\ Reg(i) = {}
    BY <2>2, <2>3, <2>4 DEF Counted
  <2>6. ASSUME NEW q \in Waiting,
               NEW i \in ROB.entry[q].memOut \cup {l[1] : l \in ROB.entry[q].regOut}
        PROVE  i \in Live /\ Age(q) < Age(i)
    <3>1. Later(ROB.entry, q, i)  BY <2>1, <2>2 DEF Linked
    <3>2. i \in Live /\ q \in Live  BY <2>1, <3>1 DEF Later, Live, Waits
    <3>3. q \in Older(i)  BY <1>1, <3>1, <3>2, OlderIs DEF CoreInv, BufferShape, Later
    <3> QED  BY <3>2, <3>3 DEF Older
  <2> QED  BY <2>5, <2>6 DEF DependencesCounted, Waiting, Reg, Mem
<1> QED  BY <1>1, CoreInvariant, PTL
--------------------------------------------------------------------------------
(* Stores are numbered in program order *)

LEMMA RingPlus ==
  ASSUME NEW n \in Nat \ {0}, NEW x \in Nat, NEW k \in 0 .. n
  PROVE  ((x % n) + k) % n = (x + k) % n
<1> DEFINE y == x % n
<1>1. y \in 0 .. n - 1  BY RemainderType
<1>2. (x + k) % n = IF y + k < n THEN y + k ELSE y + k - n  BY Around
<1> HIDE DEF y
<1>3. y % n = y
  <2>1. y = n * 0 + y  BY <1>1
  <2> QED  BY <1>1, <2>1, Remainder
<1>4. (y + k) % n = IF (y % n) + k < n THEN (y % n) + k ELSE (y % n) + k - n
  <2>1. y \in Nat  BY <1>1
  <2> QED  BY <2>1, Around
<1>5. (y + k) % n = (x + k) % n  BY <1>2, <1>3, <1>4
<1> QED  BY <1>5 DEF y

StoresUpTo(p, n) == UNION {{m} \X (1 .. Len(p[m].st)) : m \in 1 .. n}

LEMMA StoresFinite ==
  ASSUME NEW p \in Programs, NEW n \in 0 .. Len(p)
  PROVE  /\ IsFiniteSet(StoresUpTo(p, n)) /\ StoresBefore(p, n) = Cardinality(StoresUpTo(p, n))
         /\ StoresBefore(p, n) \in Nat
<1>1. Len(p) \in Nat /\ \A m \in 1 .. n : Len(p[m].st) \in Nat /\ Len(p[m].st) =< SQ_SIZE
  <2>1. Len(p) \in Nat  BY ProgramLength
  <2>2. \A m \in 1 .. n : m \in 1 .. Len(p)  BY <2>1
  <2> QED  BY <2>1, <2>2, InstructionFacts
<1>2. StoresUpTo(p, n) \subseteq (1 .. n) \X (1 .. SQ_SIZE)
  BY <1>1, SizesType DEF StoresUpTo
<1>3. IsFiniteSet((1 .. n) \X (1 .. SQ_SIZE))
  <2>1. n \in Nat  BY <1>1
  <2>2. IsFiniteSet(1 .. n) /\ IsFiniteSet(1 .. SQ_SIZE)  BY <2>1, IntervalSize, SizesType
  <2> QED  BY <2>2, FS_Product
<1>4. IsFiniteSet(StoresUpTo(p, n))  BY <1>2, <1>3, FS_Subset
<1> QED  BY <1>4, FS_CardinalityType DEF StoresBefore, StoresUpTo

LEMMA NoStoresYet == ASSUME NEW p PROVE StoresBefore(p, 0) = 0
<1> DEFINE a == StoresUpTo(p, 0)
<1>1. \A x : x \notin a  BY DEF StoresUpTo
<1> HIDE DEF a
<1>2. a = {}  BY <1>1
<1> QED  BY <1>2, FS_EmptySet DEF a, StoresBefore, StoresUpTo

LEMMA StoresNext ==
  ASSUME NEW p \in Programs, NEW n \in 1 .. Len(p)
  PROVE  StoresBefore(p, n) = StoresBefore(p, n - 1) + Len(p[n].st)
<1> DEFINE a == StoresUpTo(p, n - 1)
           b == {n} \X (1 .. Len(p[n].st))
           c == StoresUpTo(p, n)
           l == Len(p[n].st)
           f == [k \in 1 .. l |-> <<n, k>>]
<1>1. n \in Nat /\ n - 1 \in 0 .. Len(p) /\ n \in 0 .. Len(p) /\ l \in Nat
  BY ProgramLength, InstructionFacts
<1>2. \A x : x \in c <=> x \in a \/ x \in b
  <2>1. \A m : m \in 1 .. n <=> m \in 1 .. n - 1 \/ m = n  BY <1>1
  <2> QED  BY <2>1 DEF StoresUpTo
<1>3. \A x \in a : x[1] \in 1 .. n - 1  BY DEF StoresUpTo
<1>4. \A x \in b : x[1] = n  OBVIOUS
<1>5. IsFiniteSet(a) /\ StoresBefore(p, n - 1) = Cardinality(a) /\ Cardinality(a) \in Nat
  BY <1>1, StoresFinite
<1>6. StoresBefore(p, n) = Cardinality(c)  BY <1>1, StoresFinite
<1>7. /\ f \in [1 .. l -> b] /\ Onto(f, 1 .. l, b)
      /\ \A x, y \in 1 .. l : f[x] = f[y] => x = y
  <2>1. f \in [1 .. l -> b]  OBVIOUS
  <2>2. Onto(f, 1 .. l, b)  BY DEF Onto
  <2>3. \A x, y \in 1 .. l : f[x] = f[y] => x = y  OBVIOUS
  <2> QED  BY <2>1, <2>2, <2>3
<1> HIDE DEF a, b, c, f, l
<1>8. IsFiniteSet(1 .. l) /\ Cardinality(1 .. l) = l  BY <1>1, IntervalSize
<1>9. OneToOne(f, 1 .. l, b)  BY <1>7 DEF OneToOne
<1>10. IsFiniteSet(b) /\ Cardinality(b) = l  BY <1>8, <1>9, SameSize
<1>11. c = a \cup b  BY <1>2
<1>12. a \cap b = {}
  <2>1. \A x : ~(x \in a /\ x \in b)  BY <1>1, <1>3, <1>4
  <2> QED  BY <2>1
<1>13. Cardinality(a \cup b) = Cardinality(a) + Cardinality(b) - Cardinality(a \cap b)
  BY <1>5, <1>10, FS_Union
<1>14. Cardinality(a \cap b) = 0  BY <1>12, FS_EmptySet
<1>15. Cardinality(c) = Cardinality(a) + l  BY <1>1, <1>5, <1>10, <1>11, <1>13, <1>14
<1> QED  BY <1>5, <1>6, <1>15 DEF l

LEMMA StoresGrow ==
  ASSUME NEW p \in Programs, NEW n \in 0 .. Len(p), NEW m \in 0 .. n
  PROVE  StoresBefore(p, m) =< StoresBefore(p, n)
<1>1. m \in 0 .. Len(p) /\ \A k \in 1 .. m : k \in 1 .. n  BY ProgramLength
<1>2. StoresUpTo(p, m) \subseteq StoresUpTo(p, n)  BY <1>1 DEF StoresUpTo
<1>3. IsFiniteSet(StoresUpTo(p, n))  BY StoresFinite
<1>4. Cardinality(StoresUpTo(p, m)) =< Cardinality(StoresUpTo(p, n))  BY <1>2, <1>3, FS_Subset
<1> QED  BY <1>1, <1>4, StoresFinite

LEMMA NthBounds ==
  ASSUME NEW p \in Programs, NEW m, NEW k, IsStore(p, m, k)
  PROVE  /\ StoresBefore(p, m - 1) \in Nat /\ StoresBefore(p, m) \in Nat
         /\ Nth(p, m, k) \in Nat \ {0} /\ k \in Nat \ {0} /\ m \in Nat \ {0}
         /\ StoresBefore(p, m - 1) < Nth(p, m, k) /\ Nth(p, m, k) =< StoresBefore(p, m)
         /\ Len(p[m].st) \in Nat /\ StoresBefore(p, m) = StoresBefore(p, m - 1) + Len(p[m].st)
<1>1. /\ Len(p) \in Nat /\ m \in 1 .. Len(p) /\ k \in 1 .. Len(p[m].st)
      /\ m - 1 \in 0 .. Len(p) /\ m \in 0 .. Len(p) /\ Len(p[m].st) \in Nat
  BY ProgramLength, InstructionFacts DEF IsStore
<1>2. StoresBefore(p, m - 1) \in Nat /\ StoresBefore(p, m) \in Nat  BY <1>1, StoresFinite
<1>3. StoresBefore(p, m) = StoresBefore(p, m - 1) + Len(p[m].st)  BY <1>1, StoresNext
<1> QED  BY <1>1, <1>2, <1>3 DEF Nth

(* A number beyond those of the instructions up to n is of a later one, and    *)
(* one that is not beyond is of one of them.                                   *)
LEMMA NthOrder ==
  ASSUME NEW p \in Programs, NEW m, NEW k, IsStore(p, m, k), NEW n \in 0 .. Len(p)
  PROVE  Nth(p, m, k) =< StoresBefore(p, n) <=> m =< n
<1>1. /\ m \in Nat \ {0} /\ Nth(p, m, k) \in Nat /\ StoresBefore(p, m - 1) < Nth(p, m, k)
      /\ Nth(p, m, k) =< StoresBefore(p, m) /\ StoresBefore(p, m) \in Nat
      /\ StoresBefore(p, m - 1) \in Nat
  BY NthBounds
<1>2. Len(p) \in Nat /\ m \in 0 .. Len(p) /\ m - 1 \in 0 .. Len(p)  BY ProgramLength DEF IsStore
<1>3. StoresBefore(p, n) \in Nat  BY StoresFinite
<1>4. CASE m =< n
  <2>1. m \in 0 .. n  BY <1>2, <1>4
  <2>2. StoresBefore(p, m) =< StoresBefore(p, n)  BY <2>1, StoresGrow
  <2> QED  BY <1>1, <1>3, <1>4, <2>2
<1>5. CASE ~(m =< n)
  <2>1. n \in 0 .. m - 1  BY <1>2, <1>5
  <2>2. StoresBefore(p, n) =< StoresBefore(p, m - 1)  BY <1>2, <2>1, StoresGrow
  <2> QED  BY <1>1, <1>3, <1>5, <2>2
<1> QED  BY <1>4, <1>5

LEMMA NthOnce ==
  ASSUME NEW p \in Programs, NEW m, NEW k, NEW n, NEW l, IsStore(p, m, k), IsStore(p, n, l),
         Nth(p, m, k) = Nth(p, n, l)
  PROVE  m = n /\ k = l
<1>1. m \in 0 .. Len(p) /\ n \in 0 .. Len(p) /\ Len(p) \in Nat
  BY ProgramLength DEF IsStore
<1>2. Nth(p, m, k) =< StoresBefore(p, m) /\ Nth(p, n, l) =< StoresBefore(p, n)
  BY NthBounds
<1>3. m =< n /\ n =< m  BY <1>1, <1>2, NthOrder
<1>4. m = n  BY <1>1, <1>3
<1>5. StoresBefore(p, m - 1) \in Nat /\ k \in Nat /\ l \in Nat  BY NthBounds
<1> QED  BY <1>4, <1>5 DEF Nth

LEMMA WhoseStore ==
  ASSUME NEW p \in Programs, NEW n \in 0 .. Len(p), NEW g \in 1 .. StoresBefore(p, n)
  PROVE  \E m, k : IsStore(p, m, k) /\ m =< n /\ Nth(p, m, k) = g
<1>1. Len(p) \in Nat /\ n \in Nat /\ StoresBefore(p, n) \in Nat /\ g \in Nat
  BY ProgramLength, StoresFinite
<1> DEFINE S == {x \in 0 .. n : g =< StoresBefore(p, x)}
<1>2. n \in S  BY <1>1
<1>3. \A x \in S : x \in Nat  OBVIOUS
<1>4. \A x : x \in S <=> x \in 0 .. n /\ g =< StoresBefore(p, x)  OBVIOUS
<1> HIDE DEF S
<1>5. PICK m \in S : \A y \in S : m =< y  BY <1>2, <1>3, LeastNat
<1>6. m \in 0 .. n /\ g =< StoresBefore(p, m)  BY <1>4
<1>7. m # 0
  <2>1. SUFFICES ASSUME m = 0 PROVE FALSE
    OBVIOUS
  <2>2. StoresBefore(p, 0) = 0  BY NoStoresYet
  <2> QED  BY <1>1, <1>6, <2>1, <2>2
<1>8. m \in 1 .. Len(p) /\ m - 1 \in 0 .. n /\ m - 1 \in 0 .. Len(p)  BY <1>1, <1>6, <1>7
<1>9. StoresBefore(p, m - 1) < g
  <2>1. m - 1 \notin S  BY <1>1, <1>5, <1>8
  <2>2. StoresBefore(p, m - 1) \in Nat  BY <1>8, StoresFinite
  <2> QED  BY <1>1, <1>4, <1>8, <2>1, <2>2
<1>10. /\ StoresBefore(p, m) = StoresBefore(p, m - 1) + Len(p[m].st)
       /\ StoresBefore(p, m - 1) \in Nat /\ Len(p[m].st) \in Nat
  BY <1>8, StoresNext, StoresFinite, InstructionFacts
<1> DEFINE k == g - StoresBefore(p, m - 1)
<1>11. k \in 1 .. Len(p[m].st)  BY <1>1, <1>6, <1>9, <1>10
<1>12. Nth(p, m, k) = g  BY <1>1, <1>10 DEF Nth
<1> HIDE DEF k
<1> QED  BY <1>1, <1>6, <1>8, <1>11, <1>12 DEF IsStore

(* Numbers of one round have places of their own. *)
LEMMA OneRound ==
  ASSUME NEW n \in Nat \ {0}, NEW e \in Nat, NEW g \in e + 1 .. e + n, NEW h \in e + 1 .. e + n,
         (g - 1) % n = (h - 1) % n
  PROVE  g = h
<1>1. g - 1 \in Nat /\ h - 1 \in Nat /\ (g - 1) - (h - 1) < n /\ (h - 1) - (g - 1) < n
  OBVIOUS
<1> DEFINE x == g - 1
           y == h - 1
<1>2. x % n = y % n /\ x \in Nat /\ y \in Nat /\ x - y < n /\ y - x < n  BY <1>1
<1> HIDE DEF x, y
<1>3. x = y  BY <1>2, SamePlace
<1> QED  BY <1>3 DEF x, y

--------------------------------------------------------------------------------
(* The stores that wait to enter the store queue *)

LEMMA PendingRange ==
  ASSUME NEW p \in Programs, NEW e, NEW r, NEW sta, StaHolds(p, e, r, sta), NEW m, NEW k,
         Pending(p, e, r, m, k)
  PROVE  /\ Nth(p, m, k) \in e + 1 .. e + STA_SIZE /\ Nth(p, m, k) =< StoresBefore(p, r)
         /\ StaPlace(Nth(p, m, k)) \in StaSlots /\ m # 0
<1>1. Nth(p, m, k) \in Nat \ {0} /\ m \in Nat \ {0}  BY NthBounds DEF Pending
<1>2. r \in 0 .. Len(p) /\ StoresBefore(p, r) \in Nat /\ e \in Nat
  BY StoresFinite DEF StaHolds
<1>3. Nth(p, m, k) =< StoresBefore(p, r)  BY <1>2, NthOrder DEF Pending
<1>4. Nth(p, m, k) \in e + 1 .. e + STA_SIZE
  BY <1>1, <1>2, <1>3, SizesType DEF Pending, StaHolds
<1>5. Nth(p, m, k) - 1 \in Int  BY <1>1
<1>6. (Nth(p, m, k) - 1) % STA_SIZE \in 0 .. STA_SIZE - 1  BY <1>5, SizesType, RemainderType
<1> QED  BY <1>1, <1>3, <1>4, <1>6 DEF StaPlace, StaSlots

(* While the stores fit, the next store to be read finds its place free. *)
LEMMA StaFree ==
  ASSUME NEW p \in Programs, NEW e, NEW r, NEW sta, StaHolds(p, e, r, sta), r < Len(p),
         StoresBefore(p, r + 1) =< e + STA_SIZE, NEW j \in 0 .. Len(p[r + 1].st) - 1
  PROVE  sta.entry[(sta.tail + j) % STA_SIZE] = 0
<1> DEFINE b == StoresBefore(p, r)
           l == Len(p[r + 1].st)
           h == b + (j + 1)
           s == StaPlace(h)
<1>1. Len(p) \in Nat /\ r \in Nat /\ r + 1 \in 1 .. Len(p) /\ r \in 0 .. Len(p)
  BY ProgramLength DEF StaHolds
<1>2. b \in Nat /\ l \in Nat /\ b + l =< e + STA_SIZE /\ e \in Nat /\ e =< b
  <2>1. (r + 1) - 1 = r  BY <1>1
  <2>2. StoresBefore(p, r + 1) = StoresBefore(p, (r + 1) - 1) + Len(p[r + 1].st)
    BY <1>1, StoresNext
  <2> QED  BY <1>1, <2>1, <2>2, StoresFinite, InstructionFacts DEF StaHolds
<1>3. sta.tail = b % STA_SIZE  BY DEF StaHolds
<1> HIDE DEF b
<1>4. h \in e + 1 .. e + STA_SIZE /\ h > b /\ j \in 0 .. STA_SIZE /\ h - 1 = b + j
  <2>1. j \in Nat /\ j + 1 =< l /\ h >= e + 1 /\ h =< b + l /\ h \in Int  BY <1>2
  <2> QED  BY <1>2, <2>1, SizesType
<1>5. s = (sta.tail + j) % STA_SIZE
  <2>1. ((b % STA_SIZE) + j) % STA_SIZE = (b + j) % STA_SIZE
    BY <1>2, <1>4, SizesType, RingPlus
  <2> QED  BY <1>3, <1>4, <2>1 DEF StaPlace
<1>6. s \in StaSlots
  <2>1. h - 1 \in Int  BY <1>2, <1>4
  <2> QED  BY <2>1, SizesType, RemainderType DEF StaPlace, StaSlots
<1>7. ASSUME sta.entry[s] # 0 PROVE FALSE
  <2> HIDE DEF h
  <2>1. PICK m, k : Pending(p, e, r, m, k) /\ s = StaPlace(Nth(p, m, k))
    BY <1>6, <1>7 DEF StaHolds
  <2> DEFINE g == Nth(p, m, k)
  <2>2. g \in e + 1 .. e + STA_SIZE /\ g =< b  BY <2>1, PendingRange DEF b
  <2>3. StaPlace(g) = StaPlace(h)  BY <2>1
  <2> HIDE DEF g
  <2>4. g = h  BY <1>2, <1>4, <2>2, <2>3, SizesType, OneRound DEF StaPlace
  <2> QED  BY <1>2, <1>4, <2>2, <2>4
<1> QED  BY <1>5, <1>7

LEMMA StaRead ==
  ASSUME NEW p \in Programs, NEW e, NEW r, NEW sta, StaHolds(p, e, r, sta), r < Len(p),
         StoresBefore(p, r + 1) =< e + STA_SIZE, NEW l, l = Len(p[r + 1].st), NEW new,
         DOMAIN new = DOMAIN sta, DOMAIN new.entry = StaSlots, new.head = sta.head,
         new.tail = (sta.tail + l) % STA_SIZE,
         \A s \in StaSlots :
           new.entry[s] = IF \E k \in 0 .. l - 1 : (sta.tail + k) % STA_SIZE = s THEN r + 1
                          ELSE sta.entry[s]
  PROVE  StaHolds(p, e, r + 1, new)
<1> DEFINE b == StoresBefore(p, r)
<1>1. /\ Len(p) \in Nat /\ r \in Nat /\ r + 1 \in 1 .. Len(p) /\ r + 1 \in 0 .. Len(p)
      /\ r \in 0 .. Len(p)
  BY ProgramLength DEF StaHolds
<1>2. b \in Nat /\ l \in Nat /\ StoresBefore(p, r + 1) = b + l /\ e \in Nat /\ e =< b
  <2>1. (r + 1) - 1 = r  BY <1>1
  <2>2. StoresBefore(p, r + 1) = StoresBefore(p, (r + 1) - 1) + Len(p[r + 1].st)
    BY <1>1, StoresNext
  <2> QED  BY <1>1, <2>1, <2>2, StoresFinite, InstructionFacts DEF StaHolds
<1>3. b + l =< e + STA_SIZE /\ l =< STA_SIZE /\ sta.tail = b % STA_SIZE
  BY <1>2, SizesType DEF StaHolds
<1> HIDE DEF b
<1>4. \A k \in 0 .. l : (sta.tail + k) % STA_SIZE = (b + k) % STA_SIZE
  <2>1. \A k \in 0 .. l : k \in 0 .. STA_SIZE  BY <1>2, <1>3, SizesType
  <2>2. \A x \in Nat, k \in 0 .. STA_SIZE :
          ((x % STA_SIZE) + k) % STA_SIZE = (x + k) % STA_SIZE
    BY SizesType, RingPlus
  <2>3. \A k \in 0 .. l : ((b % STA_SIZE) + k) % STA_SIZE = (b + k) % STA_SIZE
    BY <1>2, <2>1, <2>2
  <2> QED  BY <1>3, <2>3
<1>5. new.tail = StoresBefore(p, r + 1) % STA_SIZE
  <2>1. l \in 0 .. l  BY <1>2
  <2> QED  BY <1>2, <1>4, <2>1
<1>6. \A k \in 1 .. l : /\ IsStore(p, r + 1, k) /\ Nth(p, r + 1, k) = b + k
                        /\ StaPlace(Nth(p, r + 1, k)) = (sta.tail + (k - 1)) % STA_SIZE
                        /\ Pending(p, e, r + 1, r + 1, k)
  <2>1. ASSUME NEW k \in 1 .. l
        PROVE  /\ IsStore(p, r + 1, k) /\ Nth(p, r + 1, k) = b + k
               /\ StaPlace(Nth(p, r + 1, k)) = (sta.tail + (k - 1)) % STA_SIZE
               /\ Pending(p, e, r + 1, r + 1, k)
    <3>1. IsStore(p, r + 1, k)  BY <1>1 DEF IsStore
    <3>2. (r + 1) - 1 = r  BY <1>1
    <3>3. Nth(p, r + 1, k) = b + k  BY <3>2 DEF Nth, b
    <3>4. k - 1 \in 0 .. l /\ (b + k) - 1 = b + (k - 1) /\ b + k > e  BY <1>2
    <3>5. StaPlace(Nth(p, r + 1, k)) = (sta.tail + (k - 1)) % STA_SIZE
      BY <1>4, <3>3, <3>4 DEF StaPlace
    <3> QED  BY <1>1, <3>1, <3>3, <3>4, <3>5 DEF Pending
  <2> QED  BY <2>1
<1>7. ASSUME NEW m, NEW k, Pending(p, e, r, m, k)
      PROVE  new.entry[StaPlace(Nth(p, m, k))] = sta.entry[StaPlace(Nth(p, m, k))]
  <2> DEFINE g == Nth(p, m, k)
  <2>1. g \in e + 1 .. e + STA_SIZE /\ g =< b /\ StaPlace(g) \in StaSlots
    BY <1>7, PendingRange DEF b
  <2>2. sta.entry[StaPlace(g)] = m /\ m # 0  BY <1>7, PendingRange DEF StaHolds
  <2>3. ASSUME NEW j \in 0 .. l - 1 PROVE sta.entry[(sta.tail + j) % STA_SIZE] = 0
    BY StaFree
  <2> HIDE DEF g
  <2> QED  BY <2>1, <2>2, <2>3 DEF g
<1>8. \A m, k : Pending(p, e, r + 1, m, k) =>
        Pending(p, e, r, m, k) \/ (m = r + 1 /\ k \in 1 .. l)
  BY <1>1 DEF Pending, IsStore
<1>9. \A m, k : Pending(p, e, r, m, k) => Pending(p, e, r + 1, m, k)
  BY <1>1 DEF Pending, IsStore
<1>10. ASSUME NEW m, NEW k, Pending(p, e, r + 1, m, k)
       PROVE  new.entry[StaPlace(Nth(p, m, k))] = m
  <2>1. CASE Pending(p, e, r, m, k)  BY <1>7, <2>1 DEF StaHolds
  <2>2. CASE m = r + 1 /\ k \in 1 .. l
    <3> DEFINE s == StaPlace(Nth(p, m, k))
    <3>1. s = (sta.tail + (k - 1)) % STA_SIZE /\ k - 1 \in 0 .. l - 1  BY <1>2, <1>6, <2>2
    <3>2. s \in StaSlots
      <4>1. Nth(p, m, k) - 1 \in Int  BY <1>2, <1>6, <2>2
      <4> QED  BY <4>1, SizesType, RemainderType DEF StaPlace, StaSlots
    <3> HIDE DEF s
    <3>3. new.entry[s] = r + 1  BY <3>1, <3>2
    <3> QED  BY <2>2, <3>3 DEF s
  <2> QED  BY <1>8, <1>10, <2>1, <2>2
<1>11. ASSUME NEW s \in StaSlots, new.entry[s] # 0
       PROVE  \E m, k : /\ Pending(p, e, r + 1, m, k) /\ s = StaPlace(Nth(p, m, k))
                        /\ new.entry[s] = m
  <2>1. CASE \E j \in 0 .. l - 1 : (sta.tail + j) % STA_SIZE = s
    <3>1. PICK j \in 0 .. l - 1 : (sta.tail + j) % STA_SIZE = s  BY <2>1
    <3>2. j + 1 \in 1 .. l /\ (j + 1) - 1 = j  BY <1>2
    <3> QED  BY <1>6, <2>1, <3>1, <3>2
  <2>2. CASE ~ \E j \in 0 .. l - 1 : (sta.tail + j) % STA_SIZE = s
    <3>1. new.entry[s] = sta.entry[s]  BY <2>2
    <3>2. \E m, k : Pending(p, e, r, m, k) /\ s = StaPlace(Nth(p, m, k)) /\ sta.entry[s] = m
      BY <1>11, <3>1 DEF StaHolds
    <3> QED  BY <1>9, <3>1, <3>2
  <2> QED  BY <2>1, <2>2
<1>12. e =< b + l  BY <1>2
<1> QED  BY <1>1, <1>2, <1>3, <1>5, <1>10, <1>11, <1>12 DEF StaHolds

(* The next s stores leave STA. *)
LEMMA StaTake ==
  ASSUME NEW p \in Programs, NEW e, NEW r, NEW sta, StaHolds(p, e, r, sta), NEW n \in Nat,
         e + n =< StoresBefore(p, r), NEW new, DOMAIN new = DOMAIN sta,
         DOMAIN new.entry = StaSlots, new.tail = sta.tail,
         new.head = (sta.head + n) % STA_SIZE,
         \A s \in StaSlots :
           new.entry[s] = IF \E k \in 0 .. n - 1 : s = (sta.head + k) % STA_SIZE THEN 0
                          ELSE sta.entry[s]
  PROVE  StaHolds(p, e + n, r, new)
<1>1. /\ r \in 0 .. Len(p) /\ StoresBefore(p, r) \in Nat /\ e \in Nat /\ n =< STA_SIZE
      /\ StoresBefore(p, r) =< e + STA_SIZE /\ sta.head = e % STA_SIZE
  <2>1. r \in 0 .. Len(p) /\ e \in Nat /\ StoresBefore(p, r) =< e + STA_SIZE
    BY DEF StaHolds
  <2>2. StoresBefore(p, r) \in Nat  BY <2>1, StoresFinite
  <2> QED  BY <2>1, <2>2, SizesType DEF StaHolds
<1>2. \A k \in 0 .. n : (sta.head + k) % STA_SIZE = (e + k) % STA_SIZE
  <2>1. \A k \in 0 .. n : k \in 0 .. STA_SIZE  BY <1>1, SizesType
  <2>2. \A x \in Nat, k \in 0 .. STA_SIZE :
          ((x % STA_SIZE) + k) % STA_SIZE = (x + k) % STA_SIZE
    BY SizesType, RingPlus
  <2>3. \A k \in 0 .. n : ((e % STA_SIZE) + k) % STA_SIZE = (e + k) % STA_SIZE
    BY <1>1, <2>1, <2>2
  <2> QED  BY <1>1, <2>3
<1>3. new.head = (e + n) % STA_SIZE
  <2>1. n \in 0 .. n  OBVIOUS
  <2> QED  BY <1>2, <2>1
<1>4. ASSUME NEW m, NEW k, Pending(p, e, r, m, k)
      PROVE  (\E j \in 0 .. n - 1 : StaPlace(Nth(p, m, k)) = (sta.head + j) % STA_SIZE)
               <=> ~(Nth(p, m, k) > e + n)
  <2> DEFINE g == Nth(p, m, k)
  <2>1. g \in e + 1 .. e + STA_SIZE  BY <1>4, PendingRange
  <2> HIDE DEF g
  <2>2. ASSUME NEW j \in 0 .. n - 1, StaPlace(g) = (sta.head + j) % STA_SIZE PROVE g =< e + n
    <3> DEFINE h == e + (j + 1)
    <3>1. h \in e + 1 .. e + STA_SIZE /\ h - 1 = e + j /\ j \in 0 .. n /\ h =< e + n
      BY <1>1, SizesType
    <3>2. (g - 1) % STA_SIZE = (h - 1) % STA_SIZE  BY <1>2, <2>2, <3>1 DEF StaPlace
    <3> HIDE DEF h
    <3>3. g = h  BY <1>1, <2>1, <3>1, <3>2, SizesType, OneRound
    <3> QED  BY <3>1, <3>3
  <2>3. ASSUME g =< e + n PROVE \E j \in 0 .. n - 1 : StaPlace(g) = (sta.head + j) % STA_SIZE
    <3> DEFINE j == (g - 1) - e
    <3>1. j \in 0 .. n - 1 /\ j \in 0 .. n /\ g - 1 = e + j  BY <1>1, <2>1, <2>3
    <3>2. StaPlace(g) = (sta.head + j) % STA_SIZE  BY <1>2, <3>1 DEF StaPlace
    <3> HIDE DEF j
    <3> QED  BY <3>1, <3>2
  <2>4. g \in Nat /\ e + n \in Nat  BY <1>1, <2>1
  <2>5. g > e + n <=> ~(g =< e + n)  BY <2>4
  <2> QED  BY <2>2, <2>3, <2>5 DEF g
<1>5. \A m, k : Pending(p, e + n, r, m, k) <=> Pending(p, e, r, m, k) /\ Nth(p, m, k) > e + n
  <2>1. ASSUME NEW m, NEW k, IsStore(p, m, k) PROVE Nth(p, m, k) \in Nat  BY <2>1, NthBounds
  <2> QED  BY <1>1, <2>1 DEF Pending
<1>6. ASSUME NEW m, NEW k, Pending(p, e + n, r, m, k)
      PROVE  new.entry[StaPlace(Nth(p, m, k))] = m
  <2>1. Pending(p, e, r, m, k) /\ StaPlace(Nth(p, m, k)) \in StaSlots
    BY <1>5, <1>6, PendingRange
  <2>2. ~ \E j \in 0 .. n - 1 : StaPlace(Nth(p, m, k)) = (sta.head + j) % STA_SIZE
    BY <1>4, <1>5, <1>6, <2>1
  <2>3. new.entry[StaPlace(Nth(p, m, k))] = sta.entry[StaPlace(Nth(p, m, k))]
    BY <2>1, <2>2
  <2> QED  BY <2>1, <2>3 DEF StaHolds
<1>7. ASSUME NEW s \in StaSlots, new.entry[s] # 0
      PROVE  \E m, k : /\ Pending(p, e + n, r, m, k) /\ s = StaPlace(Nth(p, m, k))
                       /\ new.entry[s] = m
  <2>1. /\ ~ \E j \in 0 .. n - 1 : s = (sta.head + j) % STA_SIZE
        /\ new.entry[s] = sta.entry[s]
    BY <1>7
  <2>2. \E m, k : Pending(p, e, r, m, k) /\ s = StaPlace(Nth(p, m, k)) /\ sta.entry[s] = m
    BY <1>7, <2>1 DEF StaHolds
  <2> QED  BY <1>4, <1>5, <2>1, <2>2
<1>8. e + n \in Nat /\ StoresBefore(p, r) =< (e + n) + STA_SIZE  BY <1>1, SizesType
<1> QED  BY <1>1, <1>3, <1>6, <1>7, <1>8 DEF StaHolds

(* What stands at the head of STA is the next store. *)
LEMMA StaHead ==
  ASSUME NEW p \in Programs, NEW e, NEW r, NEW sta, StaHolds(p, e, r, sta), NEW n, n # 0,
         sta.entry[sta.head] = n
  PROVE  \E k : Pending(p, e, r, n, k) /\ Nth(p, n, k) = e + 1
<1>1. e \in Nat /\ sta.head = e % STA_SIZE  BY DEF StaHolds
<1>2. sta.head \in StaSlots  BY <1>1, SizesType, RemainderType DEF StaSlots
<1>3. PICK m, k : Pending(p, e, r, m, k) /\ sta.head = StaPlace(Nth(p, m, k)) /\ n = m
  BY <1>2 DEF StaHolds
<1> DEFINE g == Nth(p, m, k)
           h == e + 1
<1>4. g \in e + 1 .. e + STA_SIZE  BY <1>3, PendingRange
<1>5. h \in e + 1 .. e + STA_SIZE /\ h - 1 = e  BY <1>1, SizesType
<1>6. (g - 1) % STA_SIZE = (h - 1) % STA_SIZE  BY <1>1, <1>3, <1>5 DEF StaPlace
<1> HIDE DEF g, h
<1>7. g = h  BY <1>1, <1>4, <1>5, <1>6, SizesType, OneRound
<1> QED  BY <1>3, <1>7 DEF g, h

LEMMA StaCount ==
  ASSUME NEW p \in Programs, NEW e, NEW r, NEW sta, StaHolds(p, e, r, sta)
  PROVE  Cardinality({s \in DOMAIN sta.entry : sta.entry[s] # 0}) = StoresBefore(p, r) - e
<1> DEFINE T == {s \in DOMAIN sta.entry : sta.entry[s] # 0}
           n == StoresBefore(p, r) - e
           f == [x \in 1 .. n |-> StaPlace(e + x)]
<1>1. /\ r \in 0 .. Len(p) /\ e \in Nat /\ StoresBefore(p, r) \in Nat /\ e =< StoresBefore(p, r)
      /\ StoresBefore(p, r) =< e + STA_SIZE /\ DOMAIN sta.entry = StaSlots
  <2>1. r \in 0 .. Len(p)  BY DEF StaHolds
  <2> QED  BY <2>1, StoresFinite DEF StaHolds
<1>2. n \in Nat /\ n =< STA_SIZE  BY <1>1, SizesType
<1>3. \A s : s \in T <=> s \in StaSlots /\ sta.entry[s] # 0  BY <1>1
<1> HIDE DEF T
<1>4. ASSUME NEW x \in 1 .. n PROVE StaPlace(e + x) \in T
  <2>1. e + x \in 1 .. StoresBefore(p, r) /\ e + x > e  BY <1>1
  <2>2. PICK m, k : IsStore(p, m, k) /\ m =< r /\ Nth(p, m, k) = e + x
    BY <1>1, <2>1, WhoseStore
  <2>3. Pending(p, e, r, m, k)  BY <2>1, <2>2 DEF Pending
  <2>4. StaPlace(e + x) \in StaSlots /\ m # 0  BY <2>2, <2>3, PendingRange
  <2>5. sta.entry[StaPlace(e + x)] = m  BY <2>2, <2>3 DEF StaHolds
  <2> QED  BY <1>3, <2>4, <2>5
<1>5. \A x, y \in 1 .. n : StaPlace(e + x) = StaPlace(e + y) => x = y
  <2>1. ASSUME NEW x \in 1 .. n, NEW y \in 1 .. n, StaPlace(e + x) = StaPlace(e + y) PROVE x = y
    <3>1. e + x \in e + 1 .. e + STA_SIZE /\ e + y \in e + 1 .. e + STA_SIZE
      BY <1>1, <1>2, SizesType
    <3>2. e + x = e + y  BY <1>1, <2>1, <3>1, SizesType, OneRound DEF StaPlace
    <3> QED  BY <1>1, <3>2
  <2> QED  BY <2>1
<1>6. ASSUME NEW s \in T PROVE \E x \in 1 .. n : StaPlace(e + x) = s
  <2>1. PICK m, k : Pending(p, e, r, m, k) /\ s = StaPlace(Nth(p, m, k))
    BY <1>3 DEF StaHolds
  <2>2. Nth(p, m, k) \in e + 1 .. e + STA_SIZE /\ Nth(p, m, k) =< StoresBefore(p, r)
    BY <2>1, PendingRange
  <2> DEFINE x == Nth(p, m, k) - e
  <2>3. x \in 1 .. n /\ e + x = Nth(p, m, k)  BY <1>1, <2>2
  <2> HIDE DEF x
  <2> QED  BY <2>1, <2>3
<1> HIDE DEF n
<1>7. f \in [1 .. n -> T] /\ \A x \in 1 .. n : f[x] = StaPlace(e + x)  BY <1>4
<1> HIDE DEF f
<1>8. OneToOne(f, 1 .. n, T)  BY <1>5, <1>6, <1>7 DEF OneToOne, Onto
<1>9. IsFiniteSet(1 .. n) /\ Cardinality(1 .. n) = n  BY <1>2, IntervalSize
<1>10. Cardinality(T) = n  BY <1>8, <1>9, SameSize
<1> QED  BY <1>10 DEF T, n

--------------------------------------------------------------------------------
(* Requests on their way *)

LEMMA SeqRange == ASSUME NEW S, NEW s \in Seq(S) PROVE Range(s) \subseteq S
BY SeqElements DEF Range

LEMMA PlaceEnter ==
  ASSUME NEW S, NEW r0, NEW T, NEW r1, NEW D, NEW Q, InOnePlace(S, r0, T, r1, D, Q),
         NEW r \in Seq(S), Once(r), Range(r) \cap Q = {}
  PROVE  InOnePlace(S, r0 \o r, T, r1, D, Q \cup Range(r))
<1>1. r0 \in Seq(S) /\ Once(r0) /\ Range(r0) \subseteq S /\ Range(r) \subseteq S
  BY SeqRange DEF InOnePlace
<1>2. Range(r0) \subseteq Q  BY <1>1 DEF InOnePlace
<1>3. r0 \o r \in Seq(S) /\ Range(r0 \o r) = Range(r0) \cup Range(r) /\ Once(r0 \o r)
  <2>1. Range(r0) \cap Range(r) = {}  BY <1>2
  <2> QED  BY <1>1, <2>1, Pushed
<1>4. \A s \in Range(r) : s \notin T /\ s \notin Range(r1) /\ s \notin D /\ s \notin Range(r0)
  BY <1>1, <1>2 DEF InOnePlace
<1> QED  BY <1>1, <1>3, <1>4 DEF InOnePlace

LEMMA PlaceTranslate ==
  ASSUME NEW S, NEW r0, NEW T, NEW r1, NEW D, NEW Q, InOnePlace(S, r0, T, r1, D, Q), r0 # <<>>
  PROVE  Head(r0) \in S /\ InOnePlace(S, Tail(r0), T \cup {Head(r0)}, r1, D, Q)
<1>1. r0 \in Seq(S) /\ Once(r0)  BY DEF InOnePlace
<1>2. /\ Head(r0) \in S /\ Tail(r0) \in Seq(S) /\ Once(Tail(r0))
      /\ Range(r0) = {Head(r0)} \cup Range(Tail(r0)) /\ Head(r0) \notin Range(Tail(r0))
  BY <1>1, Popped
<1> QED  BY <1>2 DEF InOnePlace

LEMMA PlaceAnswer ==
  ASSUME NEW S, NEW r0, NEW T, NEW r1, NEW D, NEW Q, InOnePlace(S, r0, T, r1, D, Q),
         NEW r \in Seq(S), Once(r), Range(r) \subseteq T
  PROVE  InOnePlace(S, r0, T \ Range(r), r1 \o r, D, Q)
<1>1. r1 \in Seq(S) /\ Once(r1) /\ Range(r) \subseteq S  BY SeqRange DEF InOnePlace
<1>2. Range(r1) \cap Range(r) = {}  BY <1>1 DEF InOnePlace
<1>3. r1 \o r \in Seq(S) /\ Range(r1 \o r) = Range(r1) \cup Range(r) /\ Once(r1 \o r)
  BY <1>1, <1>2, Pushed
<1> QED  BY <1>1, <1>2, <1>3 DEF InOnePlace

LEMMA PlaceExecute ==
  ASSUME NEW S, NEW r0, NEW T, NEW r1, NEW D, NEW Q, InOnePlace(S, r0, T, r1, D, Q), r1 # <<>>
  PROVE  /\ Head(r1) \in Q /\ Head(r1) \in S
         /\ InOnePlace(S, r0, T, Tail(r1), D \cup {Head(r1)}, Q)
         /\ InOnePlace(S, r0, T, Tail(r1), D, Q \ {Head(r1)})
<1>1. r1 \in Seq(S) /\ Once(r1)  BY DEF InOnePlace
<1>2. /\ Head(r1) \in S /\ Tail(r1) \in Seq(S) /\ Once(Tail(r1))
      /\ Range(r1) = {Head(r1)} \cup Range(Tail(r1)) /\ Head(r1) \notin Range(Tail(r1))
  BY <1>1, Popped
<1> QED  BY <1>2 DEF InOnePlace

LEMMA PlaceDone ==
  ASSUME NEW S, NEW r0, NEW T, NEW r1, NEW D, NEW Q, InOnePlace(S, r0, T, r1, D, Q),
         NEW A \in SUBSET D
  PROVE  A \subseteq Q /\ InOnePlace(S, r0, T, r1, D \ A, Q \ A)
BY DEF InOnePlace

(* As the property counts: each place of a waiting entry, and no other. *)
LEMMA PlacesOf ==
  ASSUME NEW S, NEW r \in Seq(S), Once(r), NEW x
  PROVE  Cardinality(Places(r, x)) = IF x \in Range(r) THEN 1 ELSE 0
<1> DEFINE P == Places(r, x)
<1>1. CASE x \in Range(r)
  <2>1. PICK k \in DOMAIN r : r[k] = x  BY <1>1 DEF Range
  <2>2. \A l : l \in P <=> l = k  BY <2>1 DEF Places, Once
  <2> HIDE DEF P
  <2>3. P = {k}  BY <2>2
  <2>4. Cardinality({k}) = 1  BY FS_Singleton
  <2> QED  BY <1>1, <2>3, <2>4 DEF P
<1>2. CASE x \notin Range(r)
  <2>1. \A l : l \notin P  BY <1>2 DEF Places, Range
  <2> HIDE DEF P
  <2>2. P = {}  BY <2>1
  <2> QED  BY <1>2, <2>2, FS_EmptySet DEF P
<1> QED  BY <1>1, <1>2

LEMMA PlacesCounted ==
  ASSUME NEW S, NEW r0, NEW T, NEW r1, NEW D, NEW Q, InOnePlace(S, r0, T, r1, D, Q), NEW s \in S
  PROVE  Cardinality(Places(r0, s)) + (IF s \in T THEN 1 ELSE 0) + Cardinality(Places(r1, s))
           + (IF s \in D THEN 1 ELSE 0) = IF s \in Q THEN 1 ELSE 0
<1>1. r0 \in Seq(S) /\ r1 \in Seq(S) /\ Once(r0) /\ Once(r1)  BY DEF InOnePlace
<1>2. /\ Cardinality(Places(r0, s)) = IF s \in Range(r0) THEN 1 ELSE 0
      /\ Cardinality(Places(r1, s)) = IF s \in Range(r1) THEN 1 ELSE 0
  BY <1>1, PlacesOf
<1>3. /\ s \in Q <=> s \in Range(r0) \/ s \in T \/ s \in Range(r1) \/ s \in D
      /\ s \in Range(r0) => s \notin T /\ s \notin Range(r1) /\ s \notin D
      /\ s \in T => s \notin Range(r1) /\ s \notin D
      /\ s \in Range(r1) => s \notin D
  BY DEF InOnePlace
<1> QED  BY <1>2, <1>3

--------------------------------------------------------------------------------
(* The store queue *)

LEMMA QueueRange ==
  ASSUME NEW p \in Programs, NEW ret \in 0 .. Len(p), NEW e \in Nat,
         e =< StoresBefore(p, ret) + SQ_SIZE, NEW m, NEW k, InQueue(p, ret, e, m, k)
  PROVE  /\ Nth(p, m, k) \in StoresBefore(p, ret) + 1 .. StoresBefore(p, ret) + SQ_SIZE
         /\ Nth(p, m, k) =< e /\ QueuePlace(Nth(p, m, k)) \in SqSlots /\ m \in Nat \ {0}
<1>1. Nth(p, m, k) \in Nat \ {0} /\ m \in Nat \ {0}  BY NthBounds DEF InQueue
<1>2. StoresBefore(p, ret) \in Nat  BY StoresFinite
<1>3. ~(m =< ret)  BY <1>1 DEF InQueue
<1>4. Nth(p, m, k) > StoresBefore(p, ret)  BY <1>1, <1>2, <1>3, NthOrder DEF InQueue
<1>5. Nth(p, m, k) \in StoresBefore(p, ret) + 1 .. StoresBefore(p, ret) + SQ_SIZE
  BY <1>1, <1>2, <1>4, SizesType DEF InQueue
<1>6. Nth(p, m, k) - 1 \in Int  BY <1>1
<1>7. (Nth(p, m, k) - 1) % SQ_SIZE \in 0 .. SQ_SIZE - 1  BY <1>6, SizesType, RemainderType
<1> QED  BY <1>1, <1>5, <1>7 DEF QueuePlace, SqSlots, InQueue

LEMMA QueueApart ==
  ASSUME NEW p \in Programs, NEW ret \in 0 .. Len(p),
         NEW g \in StoresBefore(p, ret) + 1 .. StoresBefore(p, ret) + SQ_SIZE,
         NEW h \in StoresBefore(p, ret) + 1 .. StoresBefore(p, ret) + SQ_SIZE,
         QueuePlace(g) = QueuePlace(h)
  PROVE  g = h
<1>1. StoresBefore(p, ret) \in Nat  BY StoresFinite
<1> QED  BY <1>1, SizesType, OneRound DEF QueuePlace

(* The next cnt stores, all of instruction n, enter. *)
LEMMA SqPut ==
  ASSUME NEW p \in Programs, NEW ret, NEW e, NEW sq, SqHolds(p, ret, e, sq), NEW n, n > ret,
         NEW f, NEW cnt \in Nat, cnt =< SQ_SIZE - sq.occupancy,
         \A j \in 1 .. cnt : IsStore(p, n, f + j) /\ Nth(p, n, f + j) = e + j, NEW new,
         DOMAIN new = DOMAIN sq, new.entry \in [SqSlots -> QueueSlot],
         new.occupancy = sq.occupancy + cnt, new.head = sq.head,
         new.tail = (sq.tail + cnt) % SQ_SIZE,
         \A j \in 1 .. cnt : IsEntryOf(new.entry[QueuePlace(e + j)], n, f + j),
         \A s \in SqSlots : (\A j \in 1 .. cnt : s # QueuePlace(e + j)) => new.entry[s] = sq.entry[s]
  PROVE  SqHolds(p, ret, e + cnt, new)
<1> DEFINE b == StoresBefore(p, ret)
<1>1. /\ ret \in 0 .. Len(p) /\ b \in Nat /\ e \in Nat /\ b =< e /\ e + cnt =< b + SQ_SIZE
      /\ sq.occupancy = e - b /\ sq.tail = e % SQ_SIZE /\ cnt =< SQ_SIZE /\ e =< b + SQ_SIZE
  <2>1. /\ ret \in 0 .. Len(p) /\ e \in Nat /\ b =< e /\ sq.occupancy = e - b
        /\ sq.tail = e % SQ_SIZE /\ e =< b + SQ_SIZE
    BY DEF SqHolds
  <2>2. b \in Nat  BY <2>1, StoresFinite
  <2> HIDE DEF b
  <2> QED  BY <2>1, <2>2, SizesType
<1>2. new.tail = (e + cnt) % SQ_SIZE
  <2>1. \A x \in Nat, k \in 0 .. SQ_SIZE : ((x % SQ_SIZE) + k) % SQ_SIZE = (x + k) % SQ_SIZE
    BY SizesType, RingPlus
  <2>2. cnt \in 0 .. SQ_SIZE  BY <1>1, SizesType
  <2> QED  BY <1>1, <2>1, <2>2
<1>3. ASSUME NEW m, NEW k
      PROVE  InQueue(p, ret, e + cnt, m, k) <=>
               InQueue(p, ret, e, m, k) \/ \E j \in 1 .. cnt : m = n /\ k = f + j
  <2>1. ASSUME InQueue(p, ret, e + cnt, m, k), ~InQueue(p, ret, e, m, k)
        PROVE  \E j \in 1 .. cnt : m = n /\ k = f + j
    <3> DEFINE j == Nth(p, m, k) - e
    <3>1. Nth(p, m, k) \in Nat /\ IsStore(p, m, k)  BY <2>1, NthBounds DEF InQueue
    <3>2. j \in 1 .. cnt /\ e + j = Nth(p, m, k)  BY <1>1, <2>1, <3>1 DEF InQueue
    <3> HIDE DEF j
    <3>3. m = n /\ k = f + j  BY <3>1, <3>2, NthOnce
    <3> QED  BY <3>2, <3>3
  <2>2. InQueue(p, ret, e, m, k) => InQueue(p, ret, e + cnt, m, k)
    <3>1. IsStore(p, m, k) => Nth(p, m, k) \in Nat  BY NthBounds
    <3> QED  BY <1>1, <3>1 DEF InQueue
  <2>3. ASSUME NEW j \in 1 .. cnt, m = n, k = f + j PROVE InQueue(p, ret, e + cnt, m, k)
    BY <1>1, <2>3 DEF InQueue
  <2> QED  BY <2>1, <2>2, <2>3
<1>4. ASSUME NEW m, NEW k, InQueue(p, ret, e, m, k)
      PROVE  new.entry[QueuePlace(Nth(p, m, k))] = sq.entry[QueuePlace(Nth(p, m, k))]
  <2> DEFINE g == Nth(p, m, k)
  <2>1. g \in b + 1 .. b + SQ_SIZE /\ g =< e /\ QueuePlace(g) \in SqSlots
    BY <1>1, <1>4, QueueRange
  <2>2. ASSUME NEW j \in 1 .. cnt, QueuePlace(g) = QueuePlace(e + j) PROVE FALSE
    <3> DEFINE h == e + j
    <3>1. h \in b + 1 .. b + SQ_SIZE /\ h > e
      <4> HIDE DEF b
      <4>1. b \in Nat /\ e \in Nat /\ b =< e /\ e + cnt =< b + SQ_SIZE  BY <1>1
      <4>2. SQ_SIZE \in Nat  BY SizesType
      <4> QED  BY <4>1, <4>2
    <3>2. QueuePlace(g) = QueuePlace(h)  BY <2>2
    <3> HIDE DEF g, h
    <3>3. g = h  BY <1>1, <2>1, <3>1, <3>2, QueueApart DEF b
    <3> QED  BY <1>1, <2>1, <3>1, <3>3
  <2> HIDE DEF g
  <2>3. new.entry[QueuePlace(g)] = sq.entry[QueuePlace(g)]  BY <2>1, <2>2
  <2> QED  BY <2>3 DEF g
<1>5. ASSUME NEW m, NEW k, InQueue(p, ret, e + cnt, m, k)
      PROVE  IsEntryOf(new.entry[QueuePlace(Nth(p, m, k))], m, k)
  <2>1. CASE InQueue(p, ret, e, m, k)  BY <1>4, <2>1 DEF SqHolds
  <2>2. CASE \E j \in 1 .. cnt : m = n /\ k = f + j
    <3>1. PICK j \in 1 .. cnt : m = n /\ k = f + j  BY <2>2
    <3>2. Nth(p, m, k) = e + j  BY <3>1
    <3> QED  BY <3>1, <3>2
  <2> QED  BY <1>3, <1>5, <2>1, <2>2
<1>6. ASSUME NEW s \in SqSlots, new.entry[s].id # 0
      PROVE  \E m, k : InQueue(p, ret, e + cnt, m, k) /\ s = QueuePlace(Nth(p, m, k))
  <2>1. CASE \E j \in 1 .. cnt : s = QueuePlace(e + j)
    <3>1. PICK j \in 1 .. cnt : s = QueuePlace(e + j)  BY <2>1
    <3>2. InQueue(p, ret, e + cnt, n, f + j) /\ Nth(p, n, f + j) = e + j  BY <1>3
    <3> QED  BY <3>1, <3>2
  <2>2. CASE \A j \in 1 .. cnt : s # QueuePlace(e + j)
    <3>1. sq.entry[s].id # 0  BY <1>6, <2>2
    <3>2. PICK m, k : InQueue(p, ret, e, m, k) /\ s = QueuePlace(Nth(p, m, k))
      BY <3>1 DEF SqHolds
    <3> QED  BY <1>3, <3>2
  <2> QED  BY <2>1, <2>2
<1>7. /\ e + cnt \in Nat /\ StoresBefore(p, ret) =< e + cnt
      /\ new.occupancy = (e + cnt) - StoresBefore(p, ret)
  BY <1>1
<1>8. DOMAIN new = {"entry", "occupancy", "head", "tail"} /\ new.head = StoresBefore(p, ret) % SQ_SIZE
  BY DEF SqHolds
<1> QED  BY <1>1, <1>2, <1>5, <1>6, <1>7, <1>8 DEF SqHolds

(* Instruction ret + 1 gives its entries back. *)
LEMMA SqGive ==
  ASSUME NEW p \in Programs, NEW ret, NEW e, NEW sq, SqHolds(p, ret, e, sq), ret < Len(p),
         NEW n, n = ret + 1, StoresBefore(p, n) =< e, NEW new,
         DOMAIN new = DOMAIN sq, new.entry \in [SqSlots -> QueueSlot],
         new.occupancy = sq.occupancy - Len(p[n].st), new.tail = sq.tail,
         new.head = (sq.head + Len(p[n].st)) % SQ_SIZE,
         \A s \in SqSlots :
           new.entry[s] = IF \E k \in 1 .. Len(p[n].st) : s = QueuePlace(Nth(p, n, k)) THEN FreeSlot
                          ELSE sq.entry[s]
  PROVE  SqHolds(p, n, e, new)
<1> DEFINE b == StoresBefore(p, ret)
           l == Len(p[n].st)
<1>1. /\ ret \in 0 .. Len(p) /\ n \in 1 .. Len(p) /\ n \in 0 .. Len(p) /\ b \in Nat /\ e \in Nat
      /\ b =< e /\ e =< b + SQ_SIZE /\ l \in Nat /\ l =< SQ_SIZE /\ StoresBefore(p, n) = b + l
      /\ sq.occupancy = e - b /\ sq.head = b % SQ_SIZE
  <2>1. /\ ret \in 0 .. Len(p) /\ e \in Nat /\ b =< e /\ e =< b + SQ_SIZE
        /\ sq.occupancy = e - b /\ sq.head = b % SQ_SIZE
    BY DEF SqHolds
  <2>2. n \in 1 .. Len(p) /\ n \in 0 .. Len(p) /\ n - 1 = ret  BY <2>1, ProgramLength
  <2>3. b \in Nat /\ l \in Nat /\ l =< SQ_SIZE /\ StoresBefore(p, n) = b + l
    BY <2>1, <2>2, StoresFinite, StoresNext, InstructionFacts
  <2> QED  BY <2>1, <2>2, <2>3
<1> HIDE DEF b, l
<1>2. new.head = StoresBefore(p, n) % SQ_SIZE
  <2>1. \A x \in Nat, k \in 0 .. SQ_SIZE : ((x % SQ_SIZE) + k) % SQ_SIZE = (x + k) % SQ_SIZE
    BY SizesType, RingPlus
  <2>2. l \in 0 .. SQ_SIZE  BY <1>1, SizesType
  <2>3. new.head = ((b % SQ_SIZE) + l) % SQ_SIZE  BY <1>1 DEF l
  <2> QED  BY <1>1, <2>1, <2>2, <2>3
<1>3. ASSUME NEW m, NEW k
      PROVE  InQueue(p, n, e, m, k) <=> InQueue(p, ret, e, m, k) /\ m # n
  <2>1. IsStore(p, m, k) => m \in Nat  BY NthBounds
  <2> QED  BY <1>1, <2>1 DEF InQueue
<1>4. \A k \in 1 .. l : InQueue(p, ret, e, n, k)
  <2>1. ASSUME NEW k \in 1 .. l PROVE InQueue(p, ret, e, n, k)
    <3>1. IsStore(p, n, k)  BY <1>1 DEF IsStore, l
    <3>2. Nth(p, n, k) =< StoresBefore(p, n) /\ Nth(p, n, k) \in Nat  BY <3>1, NthBounds
    <3> QED  BY <1>1, <3>1, <3>2 DEF InQueue
  <2> QED  BY <2>1
<1>5. ASSUME NEW m, NEW k, InQueue(p, ret, e, m, k), NEW j \in 1 .. l,
             QueuePlace(Nth(p, m, k)) = QueuePlace(Nth(p, n, j))
      PROVE  m = n
  <2>1. InQueue(p, ret, e, n, j)  BY <1>4
  <2>2. Nth(p, m, k) = Nth(p, n, j)
    <3> DEFINE g == Nth(p, m, k)
               h == Nth(p, n, j)
    <3>1. g \in b + 1 .. b + SQ_SIZE /\ h \in b + 1 .. b + SQ_SIZE
      BY <1>1, <1>5, <2>1, QueueRange DEF b
    <3>2. QueuePlace(g) = QueuePlace(h)  BY <1>5
    <3> HIDE DEF g, h
    <3>3. g = h  BY <1>1, <3>1, <3>2, QueueApart DEF b
    <3> QED  BY <3>3 DEF g, h
  <2> QED  BY <1>5, <2>1, <2>2, NthOnce DEF InQueue
<1>6. ASSUME NEW m, NEW k, InQueue(p, n, e, m, k)
      PROVE  IsEntryOf(new.entry[QueuePlace(Nth(p, m, k))], m, k)
  <2>1. InQueue(p, ret, e, m, k) /\ m # n  BY <1>3, <1>6
  <2>2. QueuePlace(Nth(p, m, k)) \in SqSlots  BY <1>1, <2>1, QueueRange DEF b
  <2>3. ~ \E j \in 1 .. l : QueuePlace(Nth(p, m, k)) = QueuePlace(Nth(p, n, j))
    BY <1>5, <2>1
  <2>4. new.entry[QueuePlace(Nth(p, m, k))] = sq.entry[QueuePlace(Nth(p, m, k))]
    BY <2>2, <2>3 DEF l
  <2> QED  BY <2>1, <2>4 DEF SqHolds
<1>7. ASSUME NEW s \in SqSlots, new.entry[s].id # 0
      PROVE  \E m, k : InQueue(p, n, e, m, k) /\ s = QueuePlace(Nth(p, m, k))
  <2>1. /\ ~ \E k \in 1 .. l : s = QueuePlace(Nth(p, n, k))
        /\ new.entry[s] = sq.entry[s]
    BY <1>7 DEF FreeSlot, l
  <2>2. PICK m, k : InQueue(p, ret, e, m, k) /\ s = QueuePlace(Nth(p, m, k))
    BY <1>7, <2>1 DEF SqHolds
  <2>3. m # n  BY <2>1, <2>2 DEF InQueue, IsStore, l
  <2> QED  BY <1>3, <2>2, <2>3
<1>8. /\ StoresBefore(p, n) =< e /\ e =< StoresBefore(p, n) + SQ_SIZE
      /\ new.occupancy = e - StoresBefore(p, n)
  BY <1>1, SizesType DEF l
<1>9. DOMAIN new = {"entry", "occupancy", "head", "tail"} /\ new.tail = e % SQ_SIZE
  BY DEF SqHolds
<1> QED  BY <1>1, <1>2, <1>6, <1>7, <1>8, <1>9 DEF SqHolds

(* Only the fetched flags change. *)
LEMMA SqStay ==
  ASSUME NEW p \in Programs, NEW ret, NEW e, NEW sq, SqHolds(p, ret, e, sq), NEW new,
         DOMAIN new = DOMAIN sq, new.entry \in [SqSlots -> QueueSlot],
         new.occupancy = sq.occupancy, new.head = sq.head, new.tail = sq.tail,
         \A s \in SqSlots : /\ new.entry[s].id = sq.entry[s].id /\ new.entry[s].op = sq.entry[s].op
                            /\ new.entry[s].rob_index = sq.entry[s].rob_index
  PROVE  SqHolds(p, ret, e, new)
<1>1. ASSUME NEW m, NEW k, InQueue(p, ret, e, m, k)
      PROVE  IsEntryOf(new.entry[QueuePlace(Nth(p, m, k))], m, k)
  <2>1. QueuePlace(Nth(p, m, k)) \in SqSlots  BY <1>1, QueueRange DEF SqHolds
  <2> QED  BY <1>1, <2>1 DEF SqHolds, IsEntryOf
<1> QED  BY <1>1 DEF SqHolds

LEMMA IndexNew ==
  ASSUME NEW p \in Programs, NEW n \in 1 .. Len(p), NEW e \in Nat, e =< StoresBefore(p, n - 1)
  PROVE  HasIndex(p, n, <<>>, e)
<1>1. <<>> \in Seq(SqSlots) /\ Len(<<>>) = 0  OBVIOUS
<1>2. Len(p[n].st) \in Nat  BY InstructionFacts
<1>3. ASSUME NEW k \in 1 .. Len(p[n].st) PROVE ~(k =< 0) /\ ~(Nth(p, n, k) =< e)
  <2>1. /\ StoresBefore(p, n - 1) < Nth(p, n, k) /\ Nth(p, n, k) \in Nat
        /\ StoresBefore(p, n - 1) \in Nat /\ k \in Nat \ {0}
    BY NthBounds DEF IsStore
  <2> QED  BY <2>1
<1> QED  BY <1>1, <1>2, <1>3 DEF HasIndex

(* The number after e is of the first store of n that has no place yet. *)
LEMMA IndexNext ==
  ASSUME NEW p \in Programs, NEW n \in 1 .. Len(p), NEW q, NEW e \in Nat, HasIndex(p, n, q, e),
         NEW k \in 1 .. Len(p[n].st), Nth(p, n, k) = e + 1
  PROVE  k = Len(q) + 1 /\ StoresBefore(p, n - 1) + Len(q) = e
<1>1. Len(q) \in Nat /\ Len(p[n].st) \in Nat  BY InstructionFacts, SeqElements DEF HasIndex
<1>2. StoresBefore(p, n - 1) \in Nat /\ StoresBefore(p, n - 1) + k = e + 1
  BY NthBounds DEF IsStore, Nth
<1> DEFINE b == StoresBefore(p, n - 1)
           l == Len(p[n].st)
           c == Len(q)
<1>3. b \in Nat /\ b + k = e + 1 /\ k \in 1 .. l /\ l \in Nat /\ c \in Nat  BY <1>1, <1>2
<1>4. \A x \in 1 .. l : x =< c <=> b + x =< e  BY DEF HasIndex, Nth
<1> HIDE DEF b, l, c
<1>5. ~(k =< c)
  <2>1. k =< c <=> b + k =< e  BY <1>3, <1>4, Zenon
  <2> QED  BY <1>3, <2>1
<1>6. k = 1 \/ k - 1 =< c
  <2>1. k # 1 => k - 1 \in 1 .. l /\ b + (k - 1) =< e  BY <1>3
  <2> QED  BY <1>4, <2>1
<1>7. k = c + 1 /\ b + c = e  BY <1>3, <1>5, <1>6
<1> QED  BY <1>7 DEF b, c

LEMMA IndexGrow ==
  ASSUME NEW p \in Programs, NEW n \in 1 .. Len(p), NEW q, NEW e \in Nat, HasIndex(p, n, q, e),
         StoresBefore(p, n - 1) + Len(q) = e, NEW cnt \in Nat, Len(q) + cnt =< Len(p[n].st),
         NEW r, r = [k \in 1 .. cnt |-> QueuePlace(e + k)]
  PROVE  HasIndex(p, n, q \o r, e + cnt) /\ r \in Seq(SqSlots) /\ Len(q \o r) = Len(q) + cnt
<1>1. /\ q \in Seq(SqSlots) /\ Len(q) \in Nat /\ Len(p[n].st) \in Nat
      /\ StoresBefore(p, n - 1) \in Nat
  <2>1. n - 1 \in 0 .. Len(p)  BY ProgramLength
  <2> QED  BY <2>1, StoresFinite, InstructionFacts, SeqElements DEF HasIndex
<1>2. \A k \in 1 .. cnt : QueuePlace(e + k) \in SqSlots
  <2>1. \A x \in Int : x % SQ_SIZE \in 0 .. SQ_SIZE - 1  BY SizesType, RemainderType
  <2>2. \A k \in 1 .. cnt : (e + k) - 1 \in Int  OBVIOUS
  <2> QED  BY <2>1, <2>2 DEF QueuePlace, SqSlots
<1>3. r \in [1 .. cnt -> SqSlots]  BY <1>2
<1>4. r \in Seq(SqSlots) /\ Len(r) = cnt  BY <1>3, FunctionIsSeq
<1>5. /\ q \o r \in Seq(SqSlots) /\ Len(q \o r) = Len(q) + cnt
      /\ \A k \in 1 .. Len(q) + cnt : (q \o r)[k] = IF k =< Len(q) THEN q[k] ELSE r[k - Len(q)]
  BY <1>1, <1>4, ConcatProperties
<1>6. ASSUME NEW k \in 1 .. Len(q) + cnt PROVE (q \o r)[k] = QueuePlace(Nth(p, n, k))
  <2>1. CASE k =< Len(q)
    <3>1. k \in 1 .. Len(q)  BY <2>1
    <3> QED  BY <1>5, <2>1, <3>1 DEF HasIndex
  <2>2. CASE ~(k =< Len(q))
    <3>1. k - Len(q) \in 1 .. cnt /\ e + (k - Len(q)) = StoresBefore(p, n - 1) + k
      <4> DEFINE b == StoresBefore(p, n - 1)
                 c == Len(q)
      <4>1. b \in Nat /\ c \in Nat /\ b + c = e /\ k \in 1 .. c + cnt /\ ~(k =< c)
        BY <1>1, <2>2
      <4> HIDE DEF b, c
      <4>2. k - c \in 1 .. cnt /\ e + (k - c) = b + k  BY <4>1
      <4> QED  BY <4>2 DEF b, c
    <3>2. r[k - Len(q)] = QueuePlace(e + (k - Len(q)))  BY <3>1
    <3> QED  BY <1>5, <2>2, <3>1, <3>2 DEF Nth
  <2> QED  BY <2>1, <2>2
<1>7. \A k \in 1 .. Len(p[n].st) : k =< Len(q) + cnt <=> Nth(p, n, k) =< e + cnt
  <2> DEFINE b == StoresBefore(p, n - 1)
             c == Len(q)
             l == Len(p[n].st)
  <2>1. b \in Nat /\ c \in Nat /\ b + c = e /\ l \in Nat  BY <1>1
  <2> HIDE DEF b, c, l
  <2>2. \A k \in 1 .. l : k =< c + cnt <=> b + k =< e + cnt  BY <2>1
  <2> QED  BY <2>2 DEF b, c, l, Nth
<1> QED  BY <1>4, <1>5, <1>6, <1>7 DEF HasIndex

(* When the next cnt stores are of other instructions nothing changes. *)
LEMMA IndexOther ==
  ASSUME NEW p \in Programs, NEW m \in 1 .. Len(p), NEW q, NEW e \in Nat, HasIndex(p, m, q, e),
         NEW n, n # m, NEW f, NEW cnt \in Nat,
         \A j \in 1 .. cnt : IsStore(p, n, f + j) /\ Nth(p, n, f + j) = e + j
  PROVE  HasIndex(p, m, q, e + cnt)
<1>1. ASSUME NEW k \in 1 .. Len(p[m].st)
      PROVE  Nth(p, m, k) =< e + cnt <=> Nth(p, m, k) =< e
  <2>1. Nth(p, m, k) \in Nat /\ IsStore(p, m, k)  BY NthBounds DEF IsStore
  <2>2. ASSUME Nth(p, m, k) =< e + cnt, ~(Nth(p, m, k) =< e) PROVE FALSE
    <3> DEFINE j == Nth(p, m, k) - e
    <3>1. j \in 1 .. cnt /\ e + j = Nth(p, m, k)  BY <2>1, <2>2
    <3> HIDE DEF j
    <3> QED  BY <2>1, <3>1, NthOnce
  <2> QED  BY <2>1, <2>2
<1> QED  BY <1>1 DEF HasIndex

LEMMA IndexFull ==
  ASSUME NEW p \in Programs, NEW n \in 1 .. Len(p), NEW q, NEW e \in Nat, HasIndex(p, n, q, e),
         StoresBefore(p, n - 1) =< e, Len(q) = Len(p[n].st)
  PROVE  StoresBefore(p, n) =< e
<1>1. /\ Len(p[n].st) \in Nat /\ n - 1 \in 0 .. Len(p)
      /\ StoresBefore(p, n) = StoresBefore(p, n - 1) + Len(p[n].st)
  BY InstructionFacts, StoresNext, ProgramLength
<1>2. StoresBefore(p, n - 1) \in Nat  BY <1>1, StoresFinite
<1>3. CASE Len(p[n].st) = 0  BY <1>1, <1>2, <1>3
<1>4. CASE Len(p[n].st) # 0
  <2> DEFINE l == Len(p[n].st)
  <2>1. l \in 1 .. l /\ l =< Len(q)  BY <1>1, <1>4
  <2>2. Nth(p, n, l) =< e  BY <2>1 DEF HasIndex
  <2> QED  BY <1>1, <2>2 DEF Nth
<1> QED  BY <1>3, <1>4

--------------------------------------------------------------------------------
(* The load queue *)

LEMMA BusyLq ==
  ASSUME NEW ent, NEW lq, LqHolds(ent, lq)
  PROVE  /\ \A s : s \in Busy(lq) <=> s \in LqSlots /\ lq.entry[s].id # 0
         /\ Busy(lq) \subseteq LqSlots /\ IsFiniteSet(Busy(lq)) /\ IsFiniteSet(LqSlots)
         /\ \A s \in LqSlots : lq.entry[s] \in QueueSlot
         /\ Cardinality(LqSlots) = LQ_SIZE /\ Cardinality(Busy(lq)) \in 0 .. LQ_SIZE
         /\ LqSlots \subseteq Nat /\ LQ_SIZE \in Nat
<1>1. DOMAIN lq.entry = LqSlots  BY DEF LqHolds
<1>2. \A s : s \in Busy(lq) <=> s \in LqSlots /\ lq.entry[s].id # 0  BY <1>1 DEF Busy
<1>3. IsFiniteSet(LqSlots) /\ Cardinality(LqSlots) = LQ_SIZE /\ LqSlots \subseteq Nat
  <2>1. LQ_SIZE \in Nat  BY SizesType
  <2>2. IsFiniteSet(0 .. LQ_SIZE - 1) /\ Cardinality(0 .. LQ_SIZE - 1) = LQ_SIZE
    BY <2>1, IntervalSize
  <2> QED  BY <2>1, <2>2 DEF LqSlots
<1>4. Busy(lq) \subseteq LqSlots  BY <1>2
<1>5. IsFiniteSet(Busy(lq)) /\ Cardinality(Busy(lq)) =< LQ_SIZE /\ Cardinality(Busy(lq)) \in Nat
  BY <1>3, <1>4, FS_Subset, FS_CardinalityType
<1>6. LQ_SIZE \in Nat  BY SizesType
<1> QED  BY <1>2, <1>3, <1>4, <1>5, <1>6 DEF LqHolds

LEMMA LeftFinite ==
  ASSUME NEW p \in Programs, NEW x, x.id \in 1 .. Len(p), NEW i, NEW lq, NEW sq
  PROVE  /\ IsFiniteSet(LoadsLeft(p, x, i, lq)) /\ IsFiniteSet(StoresLeft(p, x, sq))
         /\ Cardinality(LoadsLeft(p, x, i, lq)) \in Nat /\ Cardinality(StoresLeft(p, x, sq)) \in Nat
         /\ Cardinality(LoadsLeft(p, x, i, lq)) = 0 <=> LoadsLeft(p, x, i, lq) = {}
         /\ Cardinality(StoresLeft(p, x, sq)) = 0 <=> StoresLeft(p, x, sq) = {}
<1> DEFINE L == LoadsLeft(p, x, i, lq)
           S == StoresLeft(p, x, sq)
<1>1. Len(p[x.id].ld) \in Nat /\ Len(p[x.id].st) \in Nat  BY InstructionFacts
<1>2. L \subseteq 1 .. Len(p[x.id].ld) /\ S \subseteq 1 .. Len(p[x.id].st)
  BY DEF LoadsLeft, StoresLeft
<1>3. IsFiniteSet(1 .. Len(p[x.id].ld)) /\ IsFiniteSet(1 .. Len(p[x.id].st))
  BY <1>1, IntervalSize
<1> HIDE DEF L, S
<1>4. IsFiniteSet(L) /\ IsFiniteSet(S)  BY <1>2, <1>3, FS_Subset
<1>5. Cardinality(L) \in Nat /\ Cardinality(S) \in Nat
  BY <1>4, FS_CardinalityType
<1>6. (Cardinality(L) = 0 <=> L = {}) /\ (Cardinality(S) = 0 <=> S = {})  BY <1>4, FS_EmptySet
<1> QED  BY <1>4, <1>5, <1>6 DEF L, S

(* What the count says of one instruction. *)
LEMMA OpsFacts ==
  ASSUME NEW p \in Programs, NEW x, x.id \in 1 .. Len(p), NEW i, NEW lq, NEW sq,
         OpsOf(p, x, i, lq, sq), x.sq_index \in Seq(SqSlots), Len(x.sq_index) =< Len(p[x.id].st)
  PROVE  /\ x.num_mem_ops \in Nat
         /\ x.num_mem_ops = 0 => /\ AllAdded(p, x)
                                 /\ \A s \in Busy(lq) : ~(\E k \in x.source_added : LoadOf(lq, s, i, k))
                                 /\ \A k \in 1 .. Len(x.sq_index) : sq.entry[x.sq_index[k]].fetched
         /\ x.executed = NotYet /\ IsMemory(p[x.id]) => x.num_mem_ops > 0
         /\ ~IsMemory(p[x.id]) => x.num_mem_ops = 0
<1> DEFINE L == LoadsLeft(p, x, i, lq)
           S == StoresLeft(p, x, sq)
           ld == Len(p[x.id].ld)
           st == Len(p[x.id].st)
<1>1. /\ Cardinality(L) \in Nat /\ Cardinality(S) \in Nat
      /\ Cardinality(L) = 0 <=> L = {}
      /\ Cardinality(S) = 0 <=> S = {}
  BY LeftFinite
<1>2. x.id # 0 /\ ld \in Nat /\ st \in Nat  BY InstructionFacts, ProgramLength
<1>3. x.num_mem_ops = Cardinality(L) + Cardinality(S)  BY <1>2 DEF OpsOf
<1>4. \A k : k \in L <=> k \in 1 .. ld /\ (k \notin x.source_added \/ \E s \in Busy(lq) : LoadOf(lq, s, i, k))
  BY DEF LoadsLeft
<1>5. \A k : k \in S <=> k \in 1 .. st /\ (k > Len(x.sq_index) \/ ~sq.entry[x.sq_index[k]].fetched)
  BY DEF StoresLeft
<1>6. x.source_added \subseteq 1 .. ld /\ Len(x.sq_index) \in Nat /\ Len(x.sq_index) =< st
  BY <1>2, SeqElements DEF OpsOf
<1>7. AllAdded(p, x) <=> x.source_added = 1 .. ld /\ Len(x.sq_index) = st  BY DEF AllAdded
<1>8. IsMemory(p[x.id]) <=> ld + st > 0  BY DEF IsMemory, NumMemOps
<1>11. x.executed = NotYet /\ IsMemory(p[x.id]) => ~AllAdded(p, x)  BY <1>2 DEF OpsOf
<1> HIDE DEF L, S, ld, st
<1>9. ASSUME x.num_mem_ops = 0
      PROVE  /\ AllAdded(p, x)
             /\ \A s \in Busy(lq) : ~(\E k \in x.source_added : LoadOf(lq, s, i, k))
             /\ \A k \in 1 .. Len(x.sq_index) : sq.entry[x.sq_index[k]].fetched
  <2>1. L = {} /\ S = {}  BY <1>1, <1>3, <1>9
  <2>2. x.source_added = 1 .. ld  BY <1>4, <1>6, <2>1
  <2>3. Len(x.sq_index) = st
    <3>1. CASE st = 0  BY <1>6, <3>1
    <3>2. CASE st # 0
      <4>1. st \in 1 .. st /\ st \notin S  BY <1>2, <2>1, <3>2
      <4>2. ~(st > Len(x.sq_index))  BY <1>5, <4>1
      <4> QED  BY <1>2, <1>6, <4>2
    <3> QED  BY <3>1, <3>2
  <2>4. \A k \in 1 .. Len(x.sq_index) : sq.entry[x.sq_index[k]].fetched
    BY <1>5, <2>1, <2>3
  <2>5. \A s \in Busy(lq) : ~(\E k \in x.source_added : LoadOf(lq, s, i, k))
    BY <1>4, <2>1, <2>2
  <2> QED  BY <1>7, <2>2, <2>3, <2>4, <2>5
<1>10. ASSUME ~IsMemory(p[x.id]) PROVE x.num_mem_ops = 0
  <2>1. ld = 0 /\ st = 0  BY <1>2, <1>8, <1>10
  <2>2. L = {} /\ S = {}  BY <1>4, <1>5, <2>1
  <2> QED  BY <1>1, <1>3, <2>2
<1>12. x.num_mem_ops \in Nat  BY <1>1, <1>3
<1> QED  BY <1>9, <1>10, <1>11, <1>12

(* Nothing of an instruction changes when its queue entries do not. *)
LEMMA OpsStay ==
  ASSUME NEW p, NEW x, NEW i, NEW lq, NEW sq, OpsOf(p, x, i, lq, sq), NEW y, NEW lq1, NEW sq1,
         y.id = x.id, y.num_mem_ops = x.num_mem_ops, y.source_added = x.source_added,
         y.sq_index = x.sq_index, y.executed = x.executed,
         \A k \in x.source_added : (\E s \in Busy(lq1) : LoadOf(lq1, s, i, k)) <=>
                                   (\E s \in Busy(lq) : LoadOf(lq, s, i, k)),
         \A s \in Busy(lq1) : \A k : LoadOf(lq1, s, i, k) => k \in x.source_added,
         \A s \in Busy(lq) : \A k : LoadOf(lq, s, i, k) => k \in x.source_added,
         \A k \in 1 .. Len(p[x.id].st) : k > Len(x.sq_index) \/
           (sq1.entry[x.sq_index[k]].fetched <=> sq.entry[x.sq_index[k]].fetched)
  PROVE  OpsOf(p, y, i, lq1, sq1)
<1> DEFINE a == LoadsLeft(p, x, i, lq)
           b == LoadsLeft(p, y, i, lq1)
           c == StoresLeft(p, x, sq)
           d == StoresLeft(p, y, sq1)
<1>1. \A k : k \in a <=> k \in b
  <2>1. \A k : k \in a <=> k \in 1 .. Len(p[x.id].ld) /\ (k \notin x.source_added \/ \E s \in Busy(lq) : LoadOf(lq, s, i, k))
    BY DEF LoadsLeft
  <2>2. \A k : k \in b <=> k \in 1 .. Len(p[x.id].ld) /\ (k \notin x.source_added \/ \E s \in Busy(lq1) : LoadOf(lq1, s, i, k))
    BY DEF LoadsLeft
  <2> HIDE DEF a, b
  <2> QED  BY <2>1, <2>2
<1>2. \A k : k \in c <=> k \in d
  <2>1. \A k : k \in c <=> k \in 1 .. Len(p[x.id].st) /\ (k > Len(x.sq_index) \/ ~sq.entry[x.sq_index[k]].fetched)
    BY DEF StoresLeft
  <2>2. \A k : k \in d <=> k \in 1 .. Len(p[x.id].st) /\ (k > Len(x.sq_index) \/ ~sq1.entry[x.sq_index[k]].fetched)
    BY DEF StoresLeft
  <2> HIDE DEF c, d
  <2> QED  BY <2>1, <2>2
<1> HIDE DEF a, b, c, d
<1>3. a = b /\ c = d  BY <1>1, <1>2
<1>4. /\ LoadsLeft(p, y, i, lq1) = LoadsLeft(p, x, i, lq)
      /\ StoresLeft(p, y, sq1) = StoresLeft(p, x, sq)
  BY <1>3 DEF a, b, c, d
<1>5. AllAdded(p, y) <=> AllAdded(p, x)  BY DEF AllAdded
<1> HIDE DEF AllAdded
<1> QED  BY <1>4, <1>5 DEF OpsOf

(* Loads of instruction n, in slot i, enter the entries R. *)
EnterLq(ent, lq, i, R, g, ent1, new) ==
  /\ i \in Slots /\ ent[i].id # 0 /\ R \in SUBSET LqSlots /\ R \cap Busy(lq) = {}
  /\ \A s, t \in R : g[s] = g[t] => s = t
  /\ \A s \in R : g[s] \notin ent[i].source_added
  /\ DOMAIN new = DOMAIN lq /\ new.entry \in [LqSlots -> QueueSlot]
  /\ new.occupancy = lq.occupancy + Cardinality(R)
  /\ \A s \in R : new.entry[s].id = ent[i].id /\ LoadOf(new, s, i, g[s])
  /\ \A s \in LqSlots \ R : new.entry[s] = lq.entry[s]
  /\ \A j \in Slots : ent1[j].id = ent[j].id
  /\ \A j \in Slots : j # i => ent1[j].source_added = ent[j].source_added
  /\ \A k : k \in ent1[i].source_added <=> k \in ent[i].source_added \/ \E s \in R : g[s] = k

LEMMA LqPut ==
  ASSUME NEW ent, NEW lq, LqHolds(ent, lq), NEW i, NEW R, NEW g, NEW ent1, NEW new,
         EnterLq(ent, lq, i, R, g, ent1, new)
  PROVE  /\ LqHolds(ent1, new) /\ Busy(new) = Busy(lq) \cup R
         /\ \A j, k : (\E s \in Busy(new) : LoadOf(new, s, j, k)) <=>
              \/ \E s \in Busy(lq) : LoadOf(lq, s, j, k)
              \/ j = i /\ \E s \in R : g[s] = k
<1> USE DEF EnterLq
<1>1. /\ \A s : s \in Busy(lq) <=> s \in LqSlots /\ lq.entry[s].id # 0
      /\ IsFiniteSet(Busy(lq)) /\ IsFiniteSet(LqSlots) /\ Busy(lq) \subseteq LqSlots
      /\ \A s \in LqSlots : lq.entry[s] \in QueueSlot
  BY BusyLq
<1>2. \A s : s \in Busy(new) <=> s \in Busy(lq) \/ s \in R
  <2>1. \A s : s \in Busy(new) <=> s \in LqSlots /\ new.entry[s].id # 0  BY DEF Busy
  <2> QED  BY <1>1, <2>1
<1>3. Busy(new) = Busy(lq) \cup R  BY <1>2
<1>4. \A s \in Busy(lq) : new.entry[s] = lq.entry[s] /\ s \notin R  BY <1>1
<1>5. new.occupancy = Cardinality(Busy(new))
  <2>1. IsFiniteSet(R)  BY <1>1, FS_Subset
  <2>2. Cardinality(Busy(lq) \cup R) = Cardinality(Busy(lq)) + Cardinality(R) - Cardinality(Busy(lq) \cap R)
    BY <1>1, <2>1, FS_Union
  <2>3. Busy(lq) \cap R = {}  OBVIOUS
  <2>4. Cardinality(Busy(lq) \cap R) = 0  BY <2>3, FS_EmptySet
  <2>5. Cardinality(Busy(lq)) \in Nat /\ Cardinality(R) \in Nat  BY <1>1, <2>1, FS_CardinalityType
  <2> QED  BY <1>3, <2>2, <2>4, <2>5 DEF LqHolds
<1>6. \A s \in Busy(lq) : lq.entry[s].rob_index \in Slots  BY <1>1 DEF QueueSlot
<1>7. ASSUME NEW s \in Busy(new)
      PROVE  /\ ent1[new.entry[s].rob_index].id = new.entry[s].id
             /\ new.entry[s].op \in ent1[new.entry[s].rob_index].source_added
  <2>1. CASE s \in R  BY <2>1 DEF LoadOf
  <2>2. CASE s \in Busy(lq)
    <3>1. new.entry[s] = lq.entry[s] /\ lq.entry[s].rob_index \in Slots  BY <1>4, <1>6, <2>2
    <3>2. /\ ent[lq.entry[s].rob_index].id = lq.entry[s].id
          /\ lq.entry[s].op \in ent[lq.entry[s].rob_index].source_added
      BY <2>2 DEF LqHolds
    <3> QED  BY <3>1, <3>2
  <2> QED  BY <1>2, <2>1, <2>2
<1>8. ASSUME NEW s \in Busy(lq), NEW t \in R PROVE ~(lq.entry[s].rob_index = i /\ lq.entry[s].op = g[t])
  <2>1. lq.entry[s].op \in ent[lq.entry[s].rob_index].source_added  BY DEF LqHolds
  <2> QED  BY <2>1
<1>9. ASSUME NEW s \in Busy(new), NEW t \in Busy(new),
             LoadOf(new, t, new.entry[s].rob_index, new.entry[s].op)
      PROVE  s = t
  <2>0. new.entry[t].rob_index = new.entry[s].rob_index /\ new.entry[t].op = new.entry[s].op
    BY <1>9 DEF LoadOf
  <2>1. CASE s \in R /\ t \in R  BY <2>0, <2>1 DEF LoadOf
  <2>2. CASE s \in Busy(lq) /\ t \in Busy(lq)
    <3>1. LoadOf(lq, t, lq.entry[s].rob_index, lq.entry[s].op)  BY <1>4, <2>0, <2>2 DEF LoadOf
    <3> QED  BY <2>2, <3>1 DEF LqHolds
  <2>3. CASE s \in R /\ t \in Busy(lq)
    <3>1. lq.entry[t].rob_index = i /\ lq.entry[t].op = g[s]  BY <1>4, <2>0, <2>3 DEF LoadOf
    <3> QED  BY <1>8, <2>3, <3>1
  <2>4. CASE s \in Busy(lq) /\ t \in R
    <3>1. lq.entry[s].rob_index = i /\ lq.entry[s].op = g[t]  BY <1>4, <2>0, <2>4 DEF LoadOf
    <3> QED  BY <1>8, <2>4, <3>1
  <2> QED  BY <1>2, <2>1, <2>2, <2>3, <2>4
<1>10. ASSUME NEW j, NEW k
       PROVE  (\E s \in Busy(new) : LoadOf(new, s, j, k)) <=>
                \/ \E s \in Busy(lq) : LoadOf(lq, s, j, k)
                \/ j = i /\ \E s \in R : g[s] = k
  <2>1. \A s \in Busy(lq) : LoadOf(new, s, j, k) <=> LoadOf(lq, s, j, k)  BY <1>4 DEF LoadOf
  <2>2. \A s \in R : LoadOf(new, s, j, k) <=> j = i /\ g[s] = k  BY DEF LoadOf
  <2> QED  BY <1>2, <2>1, <2>2
<1>11. DOMAIN new = {"entry", "occupancy"}  BY DEF LqHolds
<1>12. LqHolds(ent1, new)  BY <1>5, <1>7, <1>9, <1>11 DEF LqHolds
<1> QED  BY <1>3, <1>10, <1>12

(* The entries A are answered. *)
LEMMA LqTake ==
  ASSUME NEW ent, NEW lq, LqHolds(ent, lq), NEW A \in SUBSET Busy(lq), NEW new,
         DOMAIN new = DOMAIN lq, new.entry \in [LqSlots -> QueueSlot],
         new.occupancy = lq.occupancy - Cardinality(A),
         \A s \in LqSlots : new.entry[s] = IF s \in A THEN FreeSlot ELSE lq.entry[s],
         NEW ent1, \A j \in Slots : /\ ent1[j].id = ent[j].id
                                    /\ ent1[j].source_added = ent[j].source_added
  PROVE  /\ LqHolds(ent1, new) /\ Busy(new) = Busy(lq) \ A
         /\ \A s \in Busy(new) : new.entry[s] = lq.entry[s]
<1>1. /\ \A s : s \in Busy(lq) <=> s \in LqSlots /\ lq.entry[s].id # 0
      /\ IsFiniteSet(Busy(lq)) /\ Busy(lq) \subseteq LqSlots
      /\ \A s \in LqSlots : lq.entry[s] \in QueueSlot
  BY BusyLq
<1>2. \A s : s \in Busy(new) <=> s \in Busy(lq) /\ s \notin A
  <2>1. \A s : s \in Busy(new) <=> s \in LqSlots /\ new.entry[s].id # 0  BY DEF Busy
  <2>2. FreeSlot.id = 0  BY DEF FreeSlot
  <2> QED  BY <1>1, <2>1, <2>2
<1>3. Busy(new) = Busy(lq) \ A  BY <1>2
<1>4. \A s \in Busy(new) : new.entry[s] = lq.entry[s] /\ s \in Busy(lq)  BY <1>1, <1>2
<1>5. new.occupancy = Cardinality(Busy(new))
  <2>1. Cardinality(Busy(lq) \ A) = Cardinality(Busy(lq)) - Cardinality(Busy(lq) \cap A)
    BY <1>1, FS_Difference
  <2>2. Busy(lq) \cap A = A  OBVIOUS
  <2> QED  BY <1>3, <2>1, <2>2 DEF LqHolds
<1>6. \A s \in Busy(lq) : lq.entry[s].rob_index \in Slots  BY <1>1 DEF QueueSlot
<1>7. ASSUME NEW s \in Busy(new)
      PROVE  /\ ent1[new.entry[s].rob_index].id = new.entry[s].id
             /\ new.entry[s].op \in ent1[new.entry[s].rob_index].source_added
  <2>1. new.entry[s] = lq.entry[s] /\ s \in Busy(lq) /\ lq.entry[s].rob_index \in Slots
    BY <1>4, <1>6
  <2>2. /\ ent[lq.entry[s].rob_index].id = lq.entry[s].id
        /\ lq.entry[s].op \in ent[lq.entry[s].rob_index].source_added
    BY <2>1 DEF LqHolds
  <2> QED  BY <2>1, <2>2
<1>8. \A s, t \in Busy(new) : LoadOf(new, t, new.entry[s].rob_index, new.entry[s].op) => s = t
  BY <1>4 DEF LqHolds, LoadOf
<1>9. DOMAIN new = {"entry", "occupancy"}  BY DEF LqHolds
<1>10. LqHolds(ent1, new)  BY <1>5, <1>7, <1>8, <1>9 DEF LqHolds
<1> QED  BY <1>3, <1>4, <1>10

LEMMA LqStay ==
  ASSUME NEW ent, NEW lq, LqHolds(ent, lq), NEW ent1,
         \A s \in Busy(lq) :
           /\ ent1[lq.entry[s].rob_index].id = ent[lq.entry[s].rob_index].id
           /\ ent1[lq.entry[s].rob_index].source_added = ent[lq.entry[s].rob_index].source_added
  PROVE  LqHolds(ent1, lq)
BY DEF LqHolds

LEMMA EntryOfStore ==
  ASSUME NEW p \in Programs, NEW ent, NEW ret, NEW disp, NEW e, NEW sq, Holds(ent, ret, disp),
         StoresHold(p, ent, ret, disp, e, sq), NEW i \in Slots, ent[i].id # 0,
         NEW k \in 1 .. Len(ent[i].sq_index)
  PROVE  /\ IsStore(p, ent[i].id, k) /\ ent[i].sq_index[k] \in SqSlots
         /\ ent[i].sq_index[k] = QueuePlace(Nth(p, ent[i].id, k))
         /\ IsEntryOf(sq.entry[ent[i].sq_index[k]], ent[i].id, k)
         /\ sq.entry[ent[i].sq_index[k]].rob_index = i
<1> DEFINE n == ent[i].id
           q == ent[i].sq_index
<1>1. HasIndex(p, n, q, e) /\ n \in ret + 1 .. disp /\ SlotOf(n) = i  BY DEF StoresHold, Holds
<1>2. ret \in Nat /\ disp \in 0 .. Len(p) /\ Len(p) \in Nat /\ ret \in 0 .. Len(p) /\ e \in Nat
  BY ProgramLength DEF StoresHold, SqHolds
<1> HIDE DEF n, q
<1>3. n \in 1 .. Len(p) /\ n > ret /\ n # 0  BY <1>1, <1>2
<1>4. Len(p[n].st) \in Nat /\ q \in Seq(SqSlots) /\ Len(q) =< Len(p[n].st) /\ Len(q) \in Nat
  BY <1>1, <1>3, InstructionFacts, SeqElements DEF HasIndex
<1>5. k \in 1 .. Len(p[n].st) /\ k =< Len(q)  BY <1>4 DEF q
<1>6. Nth(p, n, k) =< e  BY <1>1, <1>5 DEF HasIndex
<1>7. IsStore(p, n, k)  BY <1>3, <1>5 DEF IsStore
<1>8. InQueue(p, ret, e, n, k)  BY <1>3, <1>6, <1>7 DEF InQueue
<1>9. IsEntryOf(sq.entry[QueuePlace(Nth(p, n, k))], n, k)  BY <1>8 DEF StoresHold, SqHolds
<1>10. QueuePlace(Nth(p, n, k)) \in SqSlots
  BY <1>2, <1>8, QueueRange DEF StoresHold, SqHolds
<1>11. q[k] = QueuePlace(Nth(p, n, k))  BY <1>1 DEF HasIndex, q
<1> QED  BY <1>1, <1>7, <1>9, <1>10, <1>11 DEF n, q, IsEntryOf

(* And the instruction of an occupied entry is in the buffer and names it. *)
LEMMA StoreOfEntry ==
  ASSUME NEW p \in Programs, NEW ent, NEW ret, NEW disp, NEW e, NEW sq, Holds(ent, ret, disp),
         StoresHold(p, ent, ret, disp, e, sq), NEW s \in SqSlots, sq.entry[s].id # 0,
         NEW i, i = sq.entry[s].rob_index, NEW k, k = sq.entry[s].op
  PROVE  /\ i \in Slots /\ ent[i].id = sq.entry[s].id /\ ent[i].id \in 1 .. Len(p)
         /\ k \in 1 .. Len(ent[i].sq_index) /\ ent[i].sq_index[k] = s
         /\ k \in 1 .. Len(p[ent[i].id].st)
<1>1. /\ ret \in Nat /\ disp \in 0 .. Len(p) /\ Len(p) \in Nat /\ ret \in 0 .. Len(p) /\ e \in Nat
      /\ e =< StoresBefore(p, ret) + SQ_SIZE /\ e =< StoresBefore(p, disp) /\ disp \in Nat
  BY ProgramLength DEF StoresHold, SqHolds
<1>2. PICK m, l : InQueue(p, ret, e, m, l) /\ s = QueuePlace(Nth(p, m, l))
  BY DEF StoresHold, SqHolds
<1>3. IsEntryOf(sq.entry[s], m, l)  BY <1>2 DEF StoresHold, SqHolds
<1>4. IsStore(p, m, l) /\ m > ret /\ Nth(p, m, l) =< e  BY <1>2 DEF InQueue
<1>5. m \in Nat \ {0} /\ Nth(p, m, l) \in Nat /\ l \in Nat \ {0} /\ Len(p[m].st) \in Nat
  BY <1>4, NthBounds
<1>6. m =< disp
  <2>1. StoresBefore(p, disp) \in Nat  BY <1>1, StoresFinite
  <2>2. Nth(p, m, l) =< StoresBefore(p, disp)  BY <1>1, <1>4, <1>5, <2>1
  <2> QED  BY <1>1, <1>4, <2>2, NthOrder
<1>7. m \in ret + 1 .. disp /\ m \in 1 .. Len(p)  BY <1>1, <1>4, <1>5, <1>6
<1>8. ent[SlotOf(m)].id = m /\ SlotOf(m) \in Slots  BY <1>5, <1>7, SlotType DEF Holds
<1>9. i = SlotOf(m) /\ k = l /\ sq.entry[s].id = m  BY <1>3 DEF IsEntryOf
<1>10. HasIndex(p, m, ent[i].sq_index, e)  BY <1>5, <1>8, <1>9 DEF StoresHold
<1>11. l \in 1 .. Len(p[m].st)  BY <1>4 DEF IsStore
<1>12. l =< Len(ent[i].sq_index) /\ Len(ent[i].sq_index) \in Nat
  BY <1>4, <1>10, <1>11, SeqElements DEF HasIndex
<1>13. l \in 1 .. Len(ent[i].sq_index)  BY <1>5, <1>12
<1>14. ent[i].sq_index[l] = s  BY <1>2, <1>10, <1>13 DEF HasIndex
<1> QED  BY <1>7, <1>8, <1>9, <1>11, <1>13, <1>14

--------------------------------------------------------------------------------
(* What the steps do to the memory fields *)

MemSame(x, y) ==
  /\ y.id = x.id /\ y.num_mem_ops = x.num_mem_ops
  /\ y.source_added = x.source_added /\ y.sq_index = x.sq_index

LEMMA ExecutionEntries ==
  ASSUME CoreInv, NEW t \in Slots, DoExecution(t)
  PROVE  \A k \in Slots : /\ MemSame(ROB.entry[k], ROB'.entry[k])
                          /\ ROB'.entry[k].executed = IF k = t THEN INFLIGHT ELSE ROB.entry[k].executed
<1>1. ROB' = [ROB EXCEPT !.entry = [ROB.entry EXCEPT ![t] = [ROB.entry[t] EXCEPT !.executed = INFLIGHT]]]
  BY DEF DoExecution, CoreInv, BufferShape
<1>2. ROB'.entry = [ROB.entry EXCEPT ![t] = [ROB.entry[t] EXCEPT !.executed = INFLIGHT]]
  BY <1>1 DEF CoreInv, BufferShape
<1>3. \A k \in Slots : ROB'.entry[k] = IF k = t THEN [ROB.entry[t] EXCEPT !.executed = INFLIGHT]
                                       ELSE ROB.entry[k]
  BY <1>2 DEF CoreInv, BufferShape
<1>4. DOMAIN ROB.entry[t] = DOMAIN EmptyEntry  BY DEF CoreInv, BufferShape
<1>5. ASSUME NEW k \in Slots
      PROVE  /\ MemSame(ROB.entry[k], ROB'.entry[k])
             /\ ROB'.entry[k].executed = IF k = t THEN INFLIGHT ELSE ROB.entry[k].executed
  <2>1. CASE k = t  BY <1>3, <1>4, <2>1 DEF MemSame, EmptyEntry
  <2>2. CASE k # t  BY <1>3, <2>2 DEF MemSame
  <2> QED  BY <2>1, <2>2
<1> QED  BY <1>5

LEMMA CompletionEntries ==
  ASSUME CoreInv, NEW i \in Slots, CompleteExecution(i)
  PROVE  \A k \in Slots : /\ MemSame(ROB.entry[k], ROB'.entry[k])
                          /\ ROB'.entry[k].executed = IF k = i THEN COMPLETED ELSE ROB.entry[k].executed
<1> DEFINE e == ROB.entry[i]
           freed(k) == Cardinality({link \in e.regOut : link[1] = k})
           Ready == {k \in Slots : freed(k) > 0 /\ ROB.entry[k].num_reg_dependent = freed(k)}
           Released(k) ==
             [ROB.entry[k] EXCEPT
               !.executed = IF k = i THEN COMPLETED ELSE @,
               !.num_lsq_dependent = IF k \in e.memOut THEN @ - 1 ELSE @,
               !.num_reg_dependent = @ - freed(k),
               !.reg_ready = @ \/ k \in Ready,
               !.scheduled = IF k \in Ready
                             THEN IF IsMemory(Instr(k)) THEN INFLIGHT ELSE COMPLETED
                             ELSE @]
<1>1. ROB' = [ROB EXCEPT !.entry = [k \in Slots |-> Released(k)]]
  BY Zenon DEF CompleteExecution
<1>2. ASSUME NEW k \in Slots
      PROVE  /\ MemSame(ROB.entry[k], Released(k))
             /\ Released(k).executed = IF k = i THEN COMPLETED ELSE ROB.entry[k].executed
  <2> HIDE DEF freed, Ready, e
  <2> QED  BY DEF CoreInv, BufferShape, EmptyEntry, MemSame
<1> HIDE DEF Released
<1>3. ROB'.entry = [k \in Slots |-> Released(k)]  BY <1>1 DEF CoreInv, BufferShape
<1> QED  BY <1>2, <1>3

LEMMA ScheduleEntries ==
  ASSUME CoreInv, NEW n, ScheduleInstruction(n)
  PROVE  \A k \in Slots : /\ MemSame(ROB.entry[k], ROB'.entry[k])
                          /\ ROB'.entry[k].executed = ROB.entry[k].executed
<1> DEFINE Reach == {i \in ScheduleScan : Age(i) < n}
           New   == {i \in Reach : ROB.entry[i].scheduled = NotYet}
           Scheduled(i) ==
             [ROB.entry[i] EXCEPT
                !.reg_ready = RegDependent(i) = {},
                !.num_reg_dependent = Cardinality(RegDependent(i)),
                !.num_lsq_dependent = Cardinality(MemProducers(i)),
                !.scheduled = IF IsMemory(Instr(i)) THEN INFLIGHT ELSE COMPLETED]
           WithLinks(q) ==
             [(IF q \in New THEN Scheduled(q) ELSE ROB.entry[q]) EXCEPT
                !.regOut = @ \cup UNION {{i} \X RegLinks(i, q) : i \in New},
                !.memOut = @ \cup {i \in New : q \in MemProducers(i)}]
<1>1. ROB' = [ROB EXCEPT !.entry = [q \in Slots |-> WithLinks(q)],
                         !.next_schedule = (Max(New) + 1) % ROB_SIZE]
  BY DEF ScheduleInstruction
<1>2. ASSUME NEW q \in Slots
      PROVE  MemSame(ROB.entry[q], WithLinks(q)) /\ WithLinks(q).executed = ROB.entry[q].executed
  <2>1. /\ MemSame(ROB.entry[q], Scheduled(q)) /\ Scheduled(q).executed = ROB.entry[q].executed
        /\ DOMAIN Scheduled(q) = DOMAIN EmptyEntry
    BY DEF CoreInv, BufferShape, EmptyEntry, MemSame
  <2> HIDE DEF Scheduled, New
  <2> DEFINE y == IF q \in New THEN Scheduled(q) ELSE ROB.entry[q]
  <2>2. MemSame(ROB.entry[q], y) /\ y.executed = ROB.entry[q].executed /\ DOMAIN y = DOMAIN EmptyEntry
    BY <2>1 DEF CoreInv, BufferShape, MemSame
  <2>3. WithLinks(q) = [y EXCEPT !.regOut = y.regOut \cup UNION {{i} \X RegLinks(i, q) : i \in New},
                                 !.memOut = y.memOut \cup {i \in New : q \in MemProducers(i)}]
    BY <2>2 DEF EmptyEntry
  <2> HIDE DEF y, WithLinks
  <2> QED  BY <2>2, <2>3 DEF EmptyEntry, MemSame
<1> HIDE DEF WithLinks
<1>3. ROB'.entry = [q \in Slots |-> WithLinks(q)]  BY <1>1 DEF CoreInv, BufferShape
<1> QED  BY <1>2, <1>3

LEMMA FinishedEntries ==
  ASSUME CoreInv, NEW ops, Finished(ops)
  PROVE  \A k \in Slots :
           /\ ROB'.entry[k].id = ROB.entry[k].id
           /\ ROB'.entry[k].num_mem_ops =
                ROB.entry[k].num_mem_ops - Cardinality({x \in ops : x.rob_index = k})
           /\ ROB'.entry[k].source_added = ROB.entry[k].source_added
           /\ ROB'.entry[k].sq_index = ROB.entry[k].sq_index
           /\ ROB'.entry[k].executed = ROB.entry[k].executed
<1> DEFINE n(i) == Cardinality({e \in ops : e.rob_index = i})
           less(i) == ROB.entry[i].num_mem_ops - n(i)
<1>1. ROB' = [ROB EXCEPT !.entry =
                [i \in Slots |-> [ROB.entry[i] EXCEPT !.num_mem_ops = less(i)]]]
  BY Zenon DEF Finished
<1> HIDE DEF less
<1>2. ROB'.entry = [i \in Slots |-> [ROB.entry[i] EXCEPT !.num_mem_ops = less(i)]]
  BY <1>1 DEF CoreInv, BufferShape
<1>3. \A k \in Slots :
           /\ ROB'.entry[k].id = ROB.entry[k].id
           /\ ROB'.entry[k].num_mem_ops = less(k)
           /\ ROB'.entry[k].source_added = ROB.entry[k].source_added
           /\ ROB'.entry[k].sq_index = ROB.entry[k].sq_index
           /\ ROB'.entry[k].executed = ROB.entry[k].executed
  BY <1>2 DEF CoreInv, BufferShape, EmptyEntry
<1> QED  BY <1>3 DEF less

--------------------------------------------------------------------------------
(* Counters *)

LEMMA SlotsCount ==
  ASSUME NEW S \in SUBSET Slots
  PROVE  IsFiniteSet(S) /\ Cardinality(S) \in Nat /\ Cardinality(S) =< ROB_SIZE
<1>1. IsFiniteSet(Slots) /\ Cardinality(Slots) = ROB_SIZE  BY IntervalSize, SizesType DEF Slots
<1> QED  BY <1>1, FS_Subset, FS_CardinalityType

LEMMA OneMore ==
  ASSUME NEW S \in SUBSET Slots, NEW T, NEW x, x \notin S, \A y : y \in T <=> y \in S \/ y = x
  PROVE  Cardinality(T) = Cardinality(S) + 1 /\ Cardinality(S) = Cardinality(T) - 1
<1>1. T = S \cup {x}  OBVIOUS
<1>2. IsFiniteSet(S) /\ Cardinality(S) \in Nat  BY SlotsCount
<1>3. Cardinality(S \cup {x}) = IF x \in S THEN Cardinality(S) ELSE Cardinality(S) + 1
  BY <1>2, FS_AddElement
<1> QED  BY <1>1, <1>2, <1>3

(* One instruction starts, completes or retires. *)
LEMMA CountersStay ==
  ASSUME NEW p, NEW ent, NEW new, NEW r, NEW m, NEW c, CountersHold(p, ent, r, m, c),
         \A i \in Slots : /\ new[i].id = ent[i].id /\ new[i].executed = ent[i].executed
                          /\ new[i].num_mem_ops = ent[i].num_mem_ops
  PROVE  CountersHold(p, new, r, m, c)
<1>1. /\ \A i : i \in RegRun(p, new) <=> i \in RegRun(p, ent)
      /\ \A i : i \in MemRun(p, new) <=> i \in MemRun(p, ent)
      /\ \A i : i \in DoneIn(new) <=> i \in DoneIn(ent)
  BY DEF RegRun, MemRun, DoneIn
<1>2. RegRun(p, new) = RegRun(p, ent) /\ MemRun(p, new) = MemRun(p, ent) /\ DoneIn(new) = DoneIn(ent)
  <2> DEFINE a == RegRun(p, new)
             b == RegRun(p, ent)
             d == MemRun(p, new)
             e == MemRun(p, ent)
             f == DoneIn(new)
             g == DoneIn(ent)
  <2> HIDE DEF a, b, d, e, f, g
  <2>1. a = b /\ d = e /\ f = g  BY <1>1 DEF a, b, d, e, f, g
  <2> QED  BY <2>1 DEF a, b, d, e, f, g
<1> QED  BY <1>2 DEF CountersHold

LEMMA SameSet == ASSUME NEW S, NEW T, \A x : x \in S <=> x \in T PROVE S = T
OBVIOUS

LEMMA CountersStart ==
  ASSUME NEW p, NEW ent, NEW new, NEW r, NEW m, NEW c, CountersHold(p, ent, r, m, c),
         NEW t \in Slots, ent[t].id # 0, ~IsMemory(p[ent[t].id]), ent[t].executed = NotYet,
         \A i \in Slots : /\ new[i].id = ent[i].id /\ new[i].num_mem_ops = ent[i].num_mem_ops
                          /\ new[i].executed = IF i = t THEN INFLIGHT ELSE ent[i].executed
  PROVE  CountersHold(p, new, r + 1, m, c)
<1>1. /\ \A i : i \in RegRun(p, new) <=> i \in RegRun(p, ent) \/ i = t
      /\ \A i : i \in MemRun(p, new) <=> i \in MemRun(p, ent)
      /\ \A i : i \in DoneIn(new) <=> i \in DoneIn(ent)
      /\ t \notin RegRun(p, ent)
  BY DEF RegRun, MemRun, DoneIn, INFLIGHT, COMPLETED, NotYet
<1>2. RegRun(p, ent) \in SUBSET Slots  BY DEF RegRun
<1>3. Cardinality(RegRun(p, new)) = Cardinality(RegRun(p, ent)) + 1  BY <1>1, <1>2, OneMore
<1>4. MemRun(p, new) = MemRun(p, ent) /\ DoneIn(new) = DoneIn(ent)  BY <1>1, SameSet
<1> QED  BY <1>3, <1>4 DEF CountersHold

LEMMA CountersComplete ==
  ASSUME NEW p, NEW ent, NEW new, NEW r, NEW m, NEW c, CountersHold(p, ent, r, m, c),
         NEW t \in Slots, ent[t].id # 0, ent[t].executed = INFLIGHT,
         IsMemory(p[ent[t].id]) => ent[t].num_mem_ops = 0,
         \A i \in Slots : /\ new[i].id = ent[i].id /\ new[i].num_mem_ops = ent[i].num_mem_ops
                          /\ new[i].executed = IF i = t THEN COMPLETED ELSE ent[i].executed
  PROVE  IF IsMemory(p[ent[t].id]) THEN CountersHold(p, new, r, m - 1, c + 1)
         ELSE CountersHold(p, new, r - 1, m, c + 1)
<1>1. /\ \A i : i \in DoneIn(new) <=> i \in DoneIn(ent) \/ i = t
      /\ t \notin DoneIn(ent) /\ t \notin RegRun(p, new) /\ t \notin MemRun(p, new)
  BY DEF DoneIn, RegRun, MemRun, INFLIGHT, COMPLETED
<1>2. DoneIn(ent) \in SUBSET Slots /\ RegRun(p, new) \in SUBSET Slots /\ MemRun(p, new) \in SUBSET Slots
  BY DEF RegRun, MemRun, DoneIn
<1>3. Cardinality(DoneIn(new)) = Cardinality(DoneIn(ent)) + 1  BY <1>1, <1>2, OneMore
<1>4. CASE IsMemory(p[ent[t].id])
  <2>1. /\ \A i : i \in MemRun(p, ent) <=> i \in MemRun(p, new) \/ i = t
        /\ \A i : i \in RegRun(p, ent) <=> i \in RegRun(p, new)
    BY <1>4 DEF RegRun, MemRun, INFLIGHT, COMPLETED
  <2>2. Cardinality(MemRun(p, new)) = Cardinality(MemRun(p, ent)) - 1  BY <1>1, <1>2, <2>1, OneMore
  <2>3. RegRun(p, ent) = RegRun(p, new)  BY <2>1, SameSet
  <2> QED  BY <1>3, <1>4, <2>2, <2>3 DEF CountersHold
<1>5. CASE ~IsMemory(p[ent[t].id])
  <2>1. /\ \A i : i \in RegRun(p, ent) <=> i \in RegRun(p, new) \/ i = t
        /\ \A i : i \in MemRun(p, ent) <=> i \in MemRun(p, new)
    BY <1>5 DEF RegRun, MemRun, INFLIGHT, COMPLETED
  <2>2. Cardinality(RegRun(p, new)) = Cardinality(RegRun(p, ent)) - 1  BY <1>1, <1>2, <2>1, OneMore
  <2>3. MemRun(p, ent) = MemRun(p, new)  BY <2>1, SameSet
  <2> QED  BY <1>3, <1>5, <2>2, <2>3 DEF CountersHold
<1> QED  BY <1>4, <1>5

LEMMA CountersRetire ==
  ASSUME NEW p, NEW ent, NEW new, NEW r, NEW m, NEW c, CountersHold(p, ent, r, m, c),
         NEW t \in Slots, ent[t].id # 0, ent[t].executed = COMPLETED, new[t].id = 0,
         \A i \in Slots : i # t => new[i] = ent[i]
  PROVE  CountersHold(p, new, r, m, c - 1)
<1>1. /\ \A i : i \in DoneIn(ent) <=> i \in DoneIn(new) \/ i = t
      /\ \A i : i \in RegRun(p, new) <=> i \in RegRun(p, ent)
      /\ \A i : i \in MemRun(p, new) <=> i \in MemRun(p, ent)
      /\ t \notin DoneIn(new) /\ DoneIn(new) \in SUBSET Slots
  BY DEF DoneIn, RegRun, MemRun, INFLIGHT, COMPLETED
<1>2. Cardinality(DoneIn(new)) = Cardinality(DoneIn(ent)) - 1  BY <1>1, OneMore
<1>3. RegRun(p, new) = RegRun(p, ent) /\ MemRun(p, new) = MemRun(p, ent)  BY <1>1, SameSet
<1> QED  BY <1>2, <1>3 DEF CountersHold

LEMMA CountersEnter ==
  ASSUME NEW p, NEW ent, NEW new, NEW r, NEW m, NEW c, CountersHold(p, ent, r, m, c),
         NEW t \in Slots, ent[t].id = 0, new[t].executed = NotYet,
         \A i \in Slots : i # t => new[i] = ent[i]
  PROVE  CountersHold(p, new, r, m, c)
<1>1. /\ \A i : i \in DoneIn(new) <=> i \in DoneIn(ent)
      /\ \A i : i \in RegRun(p, new) <=> i \in RegRun(p, ent)
      /\ \A i : i \in MemRun(p, new) <=> i \in MemRun(p, ent)
  BY DEF DoneIn, RegRun, MemRun, INFLIGHT, COMPLETED, NotYet
<1>2. RegRun(p, new) = RegRun(p, ent) /\ MemRun(p, new) = MemRun(p, ent) /\ DoneIn(new) = DoneIn(ent)
  BY <1>1, SameSet
<1> QED  BY <1>2 DEF CountersHold

--------------------------------------------------------------------------------
(* The invariant of the memory side *)

LEMMA AskedIs ==
  ASSUME NEW T, DtlbType(T), NEW type
  PROVE  /\ \A s : s \in Asked(T, type) <=> <<type, s>> \in T
         /\ \A u \in T : u = <<u[1], u[2]>>
<1>1. \A u \in T : u = <<u[1], u[2]>>  BY DEF DtlbType
<1>2. \A s : s \in Asked(T, type) <=> \E u \in T : u[1] = type /\ u[2] = s  BY DEF Asked
<1>3. \A s : <<type, s>>[1] = type /\ <<type, s>>[2] = s  OBVIOUS
<1> QED  BY <1>1, <1>2, <1>3, Zenon

(* An answer with the requests merged into it moves them on. *)
LEMMA AnswerPlaces ==
  ASSUME NEW S \in SUBSET Nat, IsFiniteSet(S), NEW T, DtlbType(T), NEW type, NEW r0, NEW r1, NEW D,
         NEW Q, InOnePlace(S, r0, Asked(T, type), r1, D, Q), NEW A \in SUBSET T, NEW u \in A,
         NEW first, first = (IF u[1] = type THEN <<u[2]>> ELSE <<>>), NEW M,
         M = {t[2] : t \in {v \in A \ {u} : v[1] = type}}
  PROVE  InOnePlace(S, r0, Asked(T \ A, type), r1 \o first \o Ascending(M), D, Q)
<1>1. DtlbType(T \ A)  BY DEF DtlbType
<1>2. /\ \A s : s \in Asked(T, type) <=> <<type, s>> \in T
      /\ \A s : s \in Asked(T \ A, type) <=> <<type, s>> \in T /\ <<type, s>> \notin A
      /\ \A v \in T : v = <<v[1], v[2]>>
  BY <1>1, AskedIs
<1>3. \A s : s \in M <=> \E v \in A : v # u /\ v[1] = type /\ v[2] = s  BY Zenon
<1>4. \A s : s \in M <=> <<type, s>> \in A /\ <<type, s>> # u
  <2>1. \A s : <<type, s>>[1] = type /\ <<type, s>>[2] = s  OBVIOUS
  <2> QED  BY <1>2, <1>3, <2>1, Zenon
<1>5. Asked(T, type) \subseteq S  BY DEF InOnePlace
<1>6. first \in Seq(S) /\ Once(first) /\ \A s : s \in Range(first) <=> u[1] = type /\ s = u[2]
  <2>1. CASE u[1] = type
    <3>1. u[2] \in S  BY <1>2, <1>5, <2>1
    <3> DEFINE x == u[2]
               y == <<x>>
    <3> HIDE DEF x
    <3>2. y \in Seq(S) /\ DOMAIN y = {1} /\ y[1] = x  BY <3>1 DEF x
    <3> HIDE DEF y
    <3>3. first = y  BY <2>1 DEF x, y
    <3> QED  BY <2>1, <3>2, <3>3 DEF Once, Range, x
  <2>2. CASE u[1] # type
    <3>1. first = <<>>  BY <2>2
    <3>2. <<>> \in Seq(S) /\ DOMAIN <<>> = {}  OBVIOUS
    <3> QED  BY <2>2, <3>1, <3>2 DEF Once, Range
  <2> QED  BY <2>1, <2>2
<1>7. Range(first) \subseteq Asked(T, type)  BY <1>2, <1>6
<1>8. InOnePlace(S, r0, Asked(T, type) \ Range(first), r1 \o first, D, Q)
  BY <1>6, <1>7, PlaceAnswer
<1>9. M \in SUBSET Nat /\ IsFiniteSet(M) /\ M \subseteq S
  <2>1. M \subseteq S  BY <1>2, <1>4, <1>5
  <2> QED  BY <2>1, FS_Subset
<1>10. Ascending(M) \in Seq(M) /\ Once(Ascending(M)) /\ Range(Ascending(M)) = M
  BY <1>9, AscendingFacts
<1>11. Ascending(M) \in Seq(S)
  <2>1. Seq(M) \subseteq Seq(S)  BY <1>9
  <2> QED  BY <1>10, <2>1
<1>12. \A s : s \in Range(first) <=> <<type, s>> = u  BY <1>2, <1>6
<1>13. M \subseteq Asked(T, type) \ Range(first)  BY <1>2, <1>4, <1>12
<1>14. InOnePlace(S, r0, (Asked(T, type) \ Range(first)) \ M, r1 \o first \o Ascending(M), D, Q)
  BY <1>8, <1>10, <1>11, <1>13, PlaceAnswer
<1>15. (Asked(T, type) \ Range(first)) \ M = Asked(T \ A, type)
  <2>1. ASSUME NEW s PROVE s \in (Asked(T, type) \ Range(first)) \ M <=> s \in Asked(T \ A, type)
    <3>1. s \in (Asked(T, type) \ Range(first)) \ M <=>
            /\ <<type, s>> \in T /\ <<type, s>> # u
            /\ ~(<<type, s>> \in A /\ <<type, s>> # u)
      BY <1>2, <1>4, <1>12
    <3>2. s \in Asked(T \ A, type) <=> <<type, s>> \in T /\ <<type, s>> \notin A  BY <1>2
    <3> QED  BY <3>1, <3>2
  <2> QED  BY <2>1, SameSet
<1> QED  BY <1>14, <1>15

LEMMA WqTail ==
  ASSUME NEW ret, NEW w, WqHolds(ret, w), w # <<>>
  PROVE  WqHolds(ret, Tail(w))
<1>1. w \in Seq(QueueSlot)  BY DEF WqHolds
<1>2. /\ Tail(w) \in Seq(QueueSlot) /\ Len(Tail(w)) = Len(w) - 1
      /\ \A k \in 1 .. Len(Tail(w)) : Tail(w)[k] = w[k + 1]
  BY <1>1, HeadTailProperties
<1>3. Len(w) \in Nat  BY <1>1, SeqElements
<1> DEFINE t == Tail(w)
           l == Len(w)
           m == Len(t)
<1>4. /\ t \in Seq(QueueSlot) /\ l \in Nat /\ m = l - 1 /\ \A k \in 1 .. m : t[k] = w[k + 1]
  BY <1>2, <1>3
<1> HIDE DEF t, l, m
<1>5. \A k \in 1 .. m : k + 1 \in 1 .. l  BY <1>4
<1>6. \A k \in 1 .. m - 1 : k \in 1 .. m /\ k + 1 \in 1 .. m /\ k + 1 \in 1 .. l - 1  BY <1>4
<1>7. \A k \in 1 .. m : t[k].fetched /\ t[k].id =< ret  BY <1>4, <1>5 DEF WqHolds, l
<1>8. \A k \in 1 .. m - 1 : InOrder(t[k], t[k + 1])
  <2>1. ASSUME NEW k \in 1 .. m - 1 PROVE InOrder(t[k], t[k + 1])
    <3>1. t[k] = w[k + 1] /\ t[k + 1] = w[(k + 1) + 1] /\ k + 1 \in 1 .. l - 1  BY <1>4, <1>6
    <3>2. InOrder(w[k + 1], w[(k + 1) + 1])  BY <3>1 DEF WqHolds, l
    <3> QED  BY <3>1, <3>2
  <2> QED  BY <2>1
<1>9. WqHolds(ret, t)  BY <1>4, <1>7, <1>8 DEF WqHolds, m
<1> QED  BY <1>9 DEF t

(* Instruction n retires and its stores, fetched, go to the L1D. *)
LEMMA WqAppend ==
  ASSUME NEW ret \in Nat, NEW w, WqHolds(ret, w), NEW n, n = ret + 1, NEW l \in Nat, NEW v,
         v \in [1 .. l -> QueueSlot],
         \A k \in 1 .. l : v[k].id = n /\ v[k].op = k /\ v[k].fetched
  PROVE  WqHolds(n, w \o v)
<1>1. w \in Seq(QueueSlot) /\ v \in Seq(QueueSlot) /\ Len(v) = l  BY FunctionIsSeq DEF WqHolds
<1>2. Len(w) \in Nat /\ \A k \in 1 .. Len(w) : w[k] \in QueueSlot  BY <1>1, SeqElements
<1> DEFINE r == w \o v
           c == Len(w)
<1>3. /\ r \in Seq(QueueSlot) /\ Len(r) = c + l
      /\ \A k \in 1 .. c + l : r[k] = IF k =< c THEN w[k] ELSE v[k - c]
  BY <1>1, ConcatProperties
<1> HIDE DEF r
<1>4. \A k \in 1 .. c : w[k].fetched /\ w[k].id =< ret /\ w[k].id \in Nat
  BY <1>2 DEF WqHolds, QueueSlot
<1>5. \A k \in 1 .. c - 1 : InOrder(w[k], w[k + 1])  BY DEF WqHolds
<1>6. c \in Nat  BY <1>2
<1> HIDE DEF c
<1>7. ASSUME NEW k \in 1 .. c + l PROVE r[k].fetched /\ r[k].id =< n
  <2>1. CASE k =< c
    <3>1. k \in 1 .. c /\ r[k] = w[k]  BY <1>3, <1>6, <2>1
    <3> QED  BY <1>4, <3>1
  <2>2. CASE ~(k =< c)
    <3>1. k - c \in 1 .. l /\ r[k] = v[k - c]  BY <1>3, <1>6, <2>2
    <3> QED  BY <3>1
  <2> QED  BY <2>1, <2>2
<1>8. ASSUME NEW k \in 1 .. c + l - 1 PROVE InOrder(r[k], r[k + 1])
  <2>0. k \in 1 .. c + l /\ k + 1 \in 1 .. c + l  BY <1>6
  <2>1. CASE k + 1 =< c
    <3>1. k \in 1 .. c - 1 /\ k =< c /\ r[k] = w[k] /\ r[k + 1] = w[k + 1]
      BY <1>3, <1>6, <2>0, <2>1
    <3> QED  BY <1>5, <3>1
  <2>2. CASE k = c
    <3>1. r[k] = w[c] /\ ~(k + 1 =< c) /\ c \in 1 .. c /\ (k + 1) - c = 1 /\ 1 \in 1 .. l
      BY <1>3, <1>6, <2>0, <2>2
    <3>2. r[k + 1] = v[1]  BY <1>3, <2>0, <3>1
    <3>3. w[c].id =< ret /\ w[c].id \in Nat /\ v[1].id = n  BY <1>4, <3>1
    <3> QED  BY <3>1, <3>2, <3>3 DEF InOrder
  <2>3. CASE ~(k + 1 =< c) /\ k # c
    <3> DEFINE j == k - c
    <3>1. ~(k =< c) /\ j \in 1 .. l /\ j + 1 \in 1 .. l /\ (k + 1) - c = j + 1
      BY <1>6, <2>0, <2>3
    <3>2. r[k] = v[j] /\ r[k + 1] = v[j + 1]  BY <1>3, <2>0, <2>3, <3>1
    <3> HIDE DEF j
    <3>3. v[j].id = n /\ v[j + 1].id = n /\ v[j].op = j /\ v[j + 1].op = j + 1 /\ j < j + 1
      BY <3>1
    <3> QED  BY <3>2, <3>3 DEF InOrder
  <2> QED  BY <2>1, <2>2, <2>3
<1>9. WqHolds(n, r)
  <2>1. r \in Seq(QueueSlot) /\ 1 .. Len(r) = 1 .. c + l /\ 1 .. Len(r) - 1 = 1 .. c + l - 1
    <3>1. Len(r) - 1 = c + l - 1  BY <1>3, <1>6
    <3> QED  BY <1>3, <3>1
  <2> QED  BY <1>7, <1>8, <2>1 DEF WqHolds
<1> QED  BY <1>9 DEF r

LEMMA FreeSlotType == FreeSlot \in QueueSlot /\ FreeSlot.id = 0
<1>1. 0 \in Slots  BY SizesType DEF Slots
<1> QED  BY <1>1 DEF FreeSlot, QueueSlot

LEMMA InitMem == Init => MemInv
<1> SUFFICES ASSUME Init PROVE MemInv
  OBVIOUS
<1>1. /\ prog \in Programs /\ read = 0 /\ dispatched = 0 /\ retired = 0
      /\ \A i \in Slots : ROB.entry[i] = EmptyEntry
  BY DEF Init
<1>2. StoresBefore(prog, 0) = 0 /\ 0 \in 0 .. Len(prog)  BY <1>1, NoStoresYet, ProgramLength
<1>3. Entered = 0  BY <1>1, <1>2 DEF Entered, Init
<1>4. 0 % STA_SIZE = 0 /\ 0 % SQ_SIZE = 0  BY SizesType
<1>5. \A m, k : IsStore(prog, m, k) => ~(m =< 0) /\ ~(Nth(prog, m, k) =< 0)
  <2>1. ASSUME NEW m, NEW k, IsStore(prog, m, k) PROVE ~(m =< 0) /\ ~(Nth(prog, m, k) =< 0)
    <3>1. m \in Nat \ {0} /\ Nth(prog, m, k) \in Nat \ {0}  BY <1>1, <2>1, NthBounds
    <3> QED  BY <3>1
  <2> QED  BY <2>1
<1>6. StaHolds(prog, 0, 0, STA)
  <2>1. /\ DOMAIN STA = {"entry", "head", "tail"} /\ DOMAIN STA.entry = StaSlots
        /\ STA.head = 0 /\ STA.tail = 0 /\ \A s \in StaSlots : STA.entry[s] = 0
    BY DEF Init, StaSlots
  <2>2. 0 =< 0 + STA_SIZE /\ 0 \in Nat /\ 0 =< 0  BY SizesType
  <2>3. \A m, k : ~Pending(prog, 0, 0, m, k)  BY <1>5 DEF Pending
  <2> QED  BY <1>2, <1>4, <2>1, <2>2, <2>3 DEF StaHolds
<1>7. SqHolds(prog, 0, 0, SQ)
  <2>1. /\ DOMAIN SQ = {"entry", "occupancy", "head", "tail"}
        /\ SQ.occupancy = 0 /\ SQ.head = 0 /\ SQ.tail = 0
        /\ SQ.entry = [s \in SqSlots |-> FreeSlot]
    BY DEF Init, SqSlots
  <2>2. SQ.entry \in [SqSlots -> QueueSlot] /\ \A s \in SqSlots : SQ.entry[s].id = 0
    BY <2>1, FreeSlotType
  <2>3. 0 =< 0 + SQ_SIZE /\ 0 \in Nat /\ 0 =< 0 /\ 0 - 0 = 0  BY SizesType
  <2>4. \A m, k : ~InQueue(prog, 0, 0, m, k)  BY <1>5 DEF InQueue
  <2> QED  BY <1>2, <1>4, <2>1, <2>2, <2>3, <2>4 DEF SqHolds
<1>8. StoreInv
  <2>1. \A i \in Slots : ROB.entry[i].id = 0  BY <1>1 DEF EmptyEntry
  <2>2. 0 =< StoresBefore(prog, 0)  BY <1>2
  <2>3. StoresHold(prog, ROB.entry, 0, 0, 0, SQ)  BY <1>2, <1>7, <2>1, <2>2 DEF StoresHold
  <2> QED  BY <1>1, <1>3, <1>6, <2>3 DEF StoreInv
<1>9. LoadInv /\ Busy(LQ) = {}
  <2>1. /\ DOMAIN LQ = {"entry", "occupancy"} /\ LQ.occupancy = 0
        /\ LQ.entry = [s \in LqSlots |-> FreeSlot]
    BY DEF Init, LqSlots
  <2>2. LQ.entry \in [LqSlots -> QueueSlot] /\ \A s \in LqSlots : LQ.entry[s].id = 0
    BY <2>1, FreeSlotType
  <2>3. \A s : s \notin Busy(LQ)  BY <2>1, <2>2 DEF Busy
  <2>4. Busy(LQ) = {}  BY <2>3
  <2>5. Cardinality({}) = 0  BY FS_EmptySet
  <2> QED  BY <2>1, <2>2, <2>4, <2>5 DEF LoadInv, LqHolds
<1>10. OpsInv  BY <1>1 DEF OpsInv, OpsHold, OpsOf, EmptyEntry
<1>11. PlaceInv
  <2>1. DtlbType(dtlb) /\ \A type : Asked(dtlb, type) = {}  BY DEF Init, DtlbType, Asked
  <2>2. Unfetched(SQ) = {}
    <3>1. \A s \in DOMAIN SQ.entry : SQ.entry[s].id = 0  BY FreeSlotType DEF Init
    <3> QED  BY <3>1 DEF Unfetched, Busy
  <2>3. ASSUME NEW S PROVE InOnePlace(S, <<>>, {}, <<>>, {}, {})
    <3>1. <<>> \in Seq(S) /\ DOMAIN <<>> = {}  OBVIOUS
    <3>2. Range(<<>>) = {} /\ Once(<<>>)  BY <3>1 DEF Range, Once
    <3> QED  BY <3>1, <3>2 DEF InOnePlace
  <2>4. RTL0 = <<>> /\ RTL1 = <<>> /\ RTS0 = <<>> /\ RTS1 = <<>> /\ l1d = {}  BY DEF Init
  <2> QED  BY <1>9, <2>1, <2>2, <2>3, <2>4 DEF PlaceInv
<1>12. CountInv
  <2>1. \A i \in Slots : ROB.entry[i].id = 0  BY <1>1 DEF EmptyEntry
  <2>2. RegRun(prog, ROB.entry) = {} /\ MemRun(prog, ROB.entry) = {} /\ DoneIn(ROB.entry) = {}
    BY <2>1 DEF RegRun, MemRun, DoneIn
  <2>3. /\ inflight_reg_executions = 0 /\ inflight_mem_executions = 0
        /\ completed_executions = 0
    BY DEF Init
  <2>4. Cardinality({}) = 0  BY FS_EmptySet
  <2> QED  BY <2>2, <2>3, <2>4 DEF CountInv, CountersHold
<1>13. WqInv
  <2>1. wq = <<>> /\ wq \in Seq(QueueSlot) /\ Len(wq) = 0  BY DEF Init
  <2> QED  BY <2>1 DEF WqInv, WqHolds
<1> QED  BY <1>8, <1>9, <1>10, <1>11, <1>12, <1>13 DEF MemInv

--------------------------------------------------------------------------------
(* What stays when a step leaves the memory fields alone *)

LEMMA StoreStay ==
  ASSUME StoreInv, UNCHANGED <<prog, read, dispatched, retired, STA, SQ>>,
         \A k \in Slots : /\ ROB'.entry[k].id = ROB.entry[k].id
                          /\ ROB'.entry[k].sq_index = ROB.entry[k].sq_index
  PROVE  StoreInv'
<1>1. Entered' = Entered  BY DEF Entered
<1>2. StaHolds(prog, Entered, read, STA)'  BY <1>1 DEF StoreInv
<1>3. StoresHold(prog, ROB'.entry, retired, dispatched, Entered, SQ)  BY DEF StoreInv, StoresHold
<1> QED  BY <1>1, <1>2, <1>3 DEF StoreInv

LEMMA LoadStay ==
  ASSUME LoadInv, UNCHANGED LQ,
         \A k \in Slots : /\ ROB'.entry[k].id = ROB.entry[k].id
                          /\ ROB'.entry[k].source_added = ROB.entry[k].source_added
  PROVE  LoadInv'
<1>1. LqHolds(ROB.entry, LQ)  BY DEF LoadInv
<1>2. \A s \in Busy(LQ) : LQ.entry[s].rob_index \in Slots  BY <1>1, BusyLq DEF QueueSlot
<1>3. LqHolds(ROB'.entry, LQ)  BY <1>1, <1>2, LqStay
<1> QED  BY <1>3 DEF LoadInv

(* The entry of a load names one that its instruction has added. *)
LEMMA LoadAdded ==
  ASSUME NEW ent, NEW lq, LqHolds(ent, lq), NEW s \in Busy(lq), NEW i, NEW k, LoadOf(lq, s, i, k)
  PROVE  k \in ent[i].source_added /\ i \in Slots /\ ent[i].id = lq.entry[s].id /\ ent[i].id # 0
<1>1. /\ ent[lq.entry[s].rob_index].id = lq.entry[s].id
      /\ lq.entry[s].op \in ent[lq.entry[s].rob_index].source_added
  BY DEF LqHolds
<1>2. lq.entry[s].rob_index \in Slots /\ lq.entry[s].id # 0  BY BusyLq DEF QueueSlot
<1> QED  BY <1>1, <1>2 DEF LoadOf

LEMMA OpsSame ==
  ASSUME LoadInv, OpsInv, UNCHANGED <<prog, LQ, SQ>>, NEW i \in Slots,
         MemSame(ROB.entry[i], ROB'.entry[i]), ROB'.entry[i].executed = ROB.entry[i].executed
  PROVE  OpsOf(prog, ROB'.entry[i], i, LQ, SQ)
<1>1. OpsOf(prog, ROB.entry[i], i, LQ, SQ)  BY DEF OpsInv, OpsHold
<1>2. \A s \in Busy(LQ) : \A k : LoadOf(LQ, s, i, k) => k \in ROB.entry[i].source_added
  BY LoadAdded DEF LoadInv
<1> DEFINE x == ROB.entry[i]
           y == ROB'.entry[i]
<1>3. /\ y.id = x.id /\ y.num_mem_ops = x.num_mem_ops /\ y.source_added = x.source_added
      /\ y.sq_index = x.sq_index /\ y.executed = x.executed
  BY DEF MemSame
<1>4. OpsOf(prog, x, i, LQ, SQ) /\ \A s \in Busy(LQ) : \A k : LoadOf(LQ, s, i, k) => k \in x.source_added
  BY <1>1, <1>2
<1> HIDE DEF x, y
<1>5. OpsOf(prog, y, i, LQ, SQ)  BY <1>3, <1>4, OpsStay
<1> QED  BY <1>5 DEF y

LEMMA OpsSameAll ==
  ASSUME LoadInv, OpsInv, UNCHANGED <<prog, LQ, SQ>>,
         \A k \in Slots : /\ MemSame(ROB.entry[k], ROB'.entry[k])
                          /\ ROB'.entry[k].executed = ROB.entry[k].executed
  PROVE  OpsInv'
<1>1. \A i \in Slots : OpsOf(prog, ROB'.entry[i], i, LQ, SQ)  BY OpsSame
<1> QED  BY <1>1 DEF OpsInv, OpsHold

LEMMA PlaceStay ==
  ASSUME PlaceInv, UNCHANGED <<dtlb, l1d, RTL0, RTL1, RTS0, RTS1, LQ, SQ>>
  PROVE  PlaceInv'
BY DEF PlaceInv

LEMMA CountStay ==
  ASSUME CountInv, UNCHANGED <<prog, counters>>,
         \A k \in Slots : /\ MemSame(ROB.entry[k], ROB'.entry[k])
                          /\ ROB'.entry[k].executed = ROB.entry[k].executed
  PROVE  CountInv'
<1>1. \A k \in Slots : /\ ROB'.entry[k].id = ROB.entry[k].id
                       /\ ROB'.entry[k].executed = ROB.entry[k].executed
                       /\ ROB'.entry[k].num_mem_ops = ROB.entry[k].num_mem_ops
  BY DEF MemSame
<1>2. CountersHold(prog, ROB'.entry, inflight_reg_executions, inflight_mem_executions, completed_executions)
  BY <1>1, CountersStay DEF CountInv
<1> QED  BY <1>2 DEF CountInv, counters

LEMMA WqStay == ASSUME WqInv, UNCHANGED <<retired, wq>> PROVE WqInv'
BY DEF WqInv

LEMMA MostStay ==
  ASSUME MemInv, UNCHANGED <<frontVars, retired, ROB, LQ, SQ, STA, counters>>
  PROVE  StoreInv' /\ LoadInv' /\ OpsInv' /\ CountInv'
<1>1. \A k \in Slots : /\ MemSame(ROB.entry[k], ROB'.entry[k])
                       /\ ROB'.entry[k].executed = ROB.entry[k].executed
  BY DEF MemSame
<1>2. UNCHANGED <<prog, read, dispatched>>  BY DEF frontVars
<1>3. \A k \in Slots : /\ ROB'.entry[k].id = ROB.entry[k].id
                       /\ ROB'.entry[k].sq_index = ROB.entry[k].sq_index
                       /\ ROB'.entry[k].source_added = ROB.entry[k].source_added
  BY <1>1 DEF MemSame
<1>4. StoreInv'  BY <1>2, <1>3, StoreStay DEF MemInv
<1>5. LoadInv'  BY <1>3, LoadStay DEF MemInv
<1>6. OpsInv'  BY <1>1, <1>2, OpsSameAll DEF MemInv
<1>7. CountInv'  BY <1>1, <1>2, CountStay DEF MemInv
<1> QED  BY <1>4, <1>5, <1>6, <1>7

LEMMA UnchangedMem == ASSUME MemInv, UNCHANGED coreVars PROVE MemInv'
<1>1. StoreInv' /\ LoadInv' /\ OpsInv' /\ CountInv'  BY MostStay DEF coreVars
<1>2. PlaceInv'  BY PlaceStay DEF MemInv, coreVars, rings
<1>3. WqInv'  BY WqStay DEF MemInv, coreVars
<1> QED  BY <1>1, <1>2, <1>3 DEF MemInv

--------------------------------------------------------------------------------
(* The steps of the ready rings *)

LEMMA TranslateStoreMem == ASSUME MemInv, TranslateStore PROVE MemInv'
<1>1. StoreInv' /\ LoadInv' /\ OpsInv' /\ CountInv'  BY MostStay DEF TranslateStore
<1>2. WqInv'  BY WqStay DEF TranslateStore, MemInv
<1>3. PlaceInv  BY DEF MemInv
<1> DEFINE h == Head(RTS0)
           T == dtlb \cup {<<"RFO", h>>}
<1>4. h \in SqSlots /\ InOnePlace(SqSlots, Tail(RTS0), Asked(dtlb, "RFO") \cup {h}, RTS1, {}, Unfetched(SQ))
  BY <1>3, PlaceTranslate DEF TranslateStore, PlaceInv
<1>5. DtlbType(dtlb)  BY <1>3 DEF PlaceInv
<1>6. DtlbType(T)  BY <1>4, <1>5 DEF DtlbType
<1>7. Asked(T, "RFO") = Asked(dtlb, "RFO") \cup {h} /\ Asked(T, "LOAD") = Asked(dtlb, "LOAD")
  <2>1. /\ \A s : s \in Asked(T, "RFO") <=> <<"RFO", s>> \in T
        /\ \A s : s \in Asked(T, "LOAD") <=> <<"LOAD", s>> \in T
        /\ \A s : s \in Asked(dtlb, "RFO") <=> <<"RFO", s>> \in dtlb
        /\ \A s : s \in Asked(dtlb, "LOAD") <=> <<"LOAD", s>> \in dtlb
    BY <1>5, <1>6, AskedIs
  <2> QED  BY <2>1
<1>8. /\ dtlb' = T /\ RTS0' = Tail(RTS0)
      /\ UNCHANGED <<RTL0, RTL1, RTS1, LQ, SQ, l1d>>
  BY DEF TranslateStore
<1> HIDE DEF T, h
<1>9. /\ InOnePlace(LqSlots, RTL0, Asked(T, "LOAD"), RTL1, l1d, Busy(LQ))
      /\ InOnePlace(SqSlots, Tail(RTS0), Asked(T, "RFO"), RTS1, {}, Unfetched(SQ))
  BY <1>3, <1>4, <1>7 DEF PlaceInv
<1>10. PlaceInv'  BY <1>6, <1>8, <1>9 DEF PlaceInv
<1> QED  BY <1>1, <1>2, <1>10 DEF MemInv

LEMMA TranslateLoadMem == ASSUME MemInv, TranslateLoad PROVE MemInv'
<1>1. StoreInv' /\ LoadInv' /\ OpsInv' /\ CountInv'  BY MostStay DEF TranslateLoad
<1>2. WqInv'  BY WqStay DEF TranslateLoad, MemInv
<1>3. PlaceInv  BY DEF MemInv
<1> DEFINE h == Head(RTL0)
           T == dtlb \cup {<<"LOAD", h>>}
<1>4. h \in LqSlots /\ InOnePlace(LqSlots, Tail(RTL0), Asked(dtlb, "LOAD") \cup {h}, RTL1, l1d, Busy(LQ))
  BY <1>3, PlaceTranslate DEF TranslateLoad, PlaceInv
<1>5. DtlbType(dtlb)  BY <1>3 DEF PlaceInv
<1>6. DtlbType(T)  BY <1>4, <1>5 DEF DtlbType
<1>7. Asked(T, "LOAD") = Asked(dtlb, "LOAD") \cup {h} /\ Asked(T, "RFO") = Asked(dtlb, "RFO")
  <2>1. /\ \A s : s \in Asked(T, "RFO") <=> <<"RFO", s>> \in T
        /\ \A s : s \in Asked(T, "LOAD") <=> <<"LOAD", s>> \in T
        /\ \A s : s \in Asked(dtlb, "RFO") <=> <<"RFO", s>> \in dtlb
        /\ \A s : s \in Asked(dtlb, "LOAD") <=> <<"LOAD", s>> \in dtlb
    BY <1>5, <1>6, AskedIs
  <2> QED  BY <2>1
<1>8. /\ dtlb' = T /\ RTL0' = Tail(RTL0)
      /\ UNCHANGED <<RTS0, RTL1, RTS1, LQ, SQ, l1d>>
  BY DEF TranslateLoad
<1> HIDE DEF T, h
<1>9. /\ InOnePlace(LqSlots, Tail(RTL0), Asked(T, "LOAD"), RTL1, l1d, Busy(LQ))
      /\ InOnePlace(SqSlots, RTS0, Asked(T, "RFO"), RTS1, {}, Unfetched(SQ))
  BY <1>3, <1>4, <1>7 DEF PlaceInv
<1>10. PlaceInv'  BY <1>6, <1>8, <1>9 DEF PlaceInv
<1> QED  BY <1>1, <1>2, <1>10 DEF MemInv

LEMMA ExecuteLoadMem == ASSUME MemInv, ExecuteLoad PROVE MemInv'
<1>1. StoreInv' /\ LoadInv' /\ OpsInv' /\ CountInv'  BY MostStay DEF ExecuteLoad
<1>2. WqInv'  BY WqStay DEF ExecuteLoad, MemInv
<1>3. PlaceInv  BY DEF MemInv
<1>4. InOnePlace(LqSlots, RTL0, Asked(dtlb, "LOAD"), Tail(RTL1), l1d \cup {Head(RTL1)}, Busy(LQ))
  BY <1>3, PlaceExecute DEF ExecuteLoad, PlaceInv
<1>5. PlaceInv'  BY <1>3, <1>4 DEF PlaceInv, ExecuteLoad
<1> QED  BY <1>1, <1>2, <1>5 DEF MemInv

LEMMA DtlbAnswersMem == ASSUME MemInv, DtlbAnswers PROVE MemInv'
<1>1. PICK A \in SUBSET dtlb : CompleteTranslation(A)  BY DEF DtlbAnswers
<1>2. StoreInv' /\ LoadInv' /\ OpsInv' /\ CountInv'  BY <1>1, MostStay DEF CompleteTranslation
<1>3. WqInv'  BY <1>1, WqStay DEF CompleteTranslation, MemInv
<1>4. PlaceInv  BY DEF MemInv
<1> DEFINE merged(u, type) == {t[2] : t \in {v \in A \ {u} : v[1] = type}}
           first(u, type)  == IF u[1] = type THEN <<u[2]>> ELSE <<>>
<1>5. PICK u \in A : /\ RTS1' = RTS1 \o first(u, "RFO") \o Ascending(merged(u, "RFO"))
                     /\ RTL1' = RTL1 \o first(u, "LOAD") \o Ascending(merged(u, "LOAD"))
  BY <1>1 DEF CompleteTranslation
<1>6. /\ LqSlots \in SUBSET Nat /\ IsFiniteSet(LqSlots)
      /\ SqSlots \in SUBSET Nat /\ IsFiniteSet(SqSlots)
  <2>1. LQ_SIZE \in Nat /\ SQ_SIZE \in Nat  BY SizesType
  <2>2. IsFiniteSet(0 .. LQ_SIZE - 1) /\ IsFiniteSet(0 .. SQ_SIZE - 1)
    BY <2>1, IntervalSize, Zenon
  <2>3. LqSlots \subseteq Nat /\ SqSlots \subseteq Nat  BY <2>1 DEF LqSlots, SqSlots
  <2> QED  BY <2>2, <2>3 DEF LqSlots, SqSlots
<1> DEFINE F1 == first(u, "LOAD")
           M1 == merged(u, "LOAD")
           F2 == first(u, "RFO")
           M2 == merged(u, "RFO")
<1>7. /\ F1 = (IF u[1] = "LOAD" THEN <<u[2]>> ELSE <<>>)
      /\ M1 = {t[2] : t \in {v \in A \ {u} : v[1] = "LOAD"}}
      /\ F2 = (IF u[1] = "RFO" THEN <<u[2]>> ELSE <<>>)
      /\ M2 = {t[2] : t \in {v \in A \ {u} : v[1] = "RFO"}}
  OBVIOUS
<1>8. RTS1' = RTS1 \o F2 \o Ascending(M2) /\ RTL1' = RTL1 \o F1 \o Ascending(M1)  BY <1>5
<1> HIDE DEF F1, M1, F2, M2
<1>9. DtlbType(dtlb)  BY <1>4 DEF PlaceInv
<1>10. InOnePlace(LqSlots, RTL0, Asked(dtlb \ A, "LOAD"), RTL1 \o F1 \o Ascending(M1), l1d, Busy(LQ))
  BY <1>4, <1>6, <1>7, <1>9, AnswerPlaces DEF PlaceInv
<1>11. InOnePlace(SqSlots, RTS0, Asked(dtlb \ A, "RFO"), RTS1 \o F2 \o Ascending(M2), {}, Unfetched(SQ))
  BY <1>4, <1>6, <1>7, <1>9, AnswerPlaces DEF PlaceInv
<1>12. DtlbType(dtlb \ A)  BY <1>9 DEF DtlbType
<1>13. dtlb' = dtlb \ A /\ UNCHANGED <<RTL0, RTS0, LQ, SQ, l1d>>  BY <1>1 DEF CompleteTranslation
<1>14. PlaceInv'  BY <1>8, <1>10, <1>11, <1>12, <1>13 DEF PlaceInv
<1> QED  BY <1>2, <1>3, <1>14 DEF MemInv

LEMMA L1dTakesWriteMem == ASSUME MemInv, L1dTakesWrite PROVE MemInv'
<1>1. StoreInv' /\ LoadInv' /\ OpsInv' /\ CountInv'  BY MostStay DEF L1dTakesWrite
<1>2. PlaceInv'  BY PlaceStay DEF L1dTakesWrite, MemInv, rings
<1>3. WqInv'  BY WqTail DEF L1dTakesWrite, WqInv, MemInv
<1> QED  BY <1>1, <1>2, <1>3 DEF MemInv

--------------------------------------------------------------------------------
(* The steps that schedule, start and complete *)

LEMMA EntryFacts ==
  ASSUME CoreInv, StoreInv, NEW i \in Slots, ROB.entry[i].id # 0
  PROVE  /\ prog \in Programs /\ Len(prog) \in Nat /\ retired \in Nat /\ dispatched \in Nat
         /\ ROB.entry[i].id \in 1 .. Len(prog) /\ ROB.entry[i].id \in retired + 1 .. dispatched
         /\ SlotOf(ROB.entry[i].id) = i
         /\ HasIndex(prog, ROB.entry[i].id, ROB.entry[i].sq_index, Entered)
         /\ ROB.entry[i].sq_index \in Seq(SqSlots)
         /\ Len(ROB.entry[i].sq_index) \in Nat
         /\ Len(ROB.entry[i].sq_index) =< Len(prog[ROB.entry[i].id].st)
         /\ Len(prog[ROB.entry[i].id].ld) \in Nat /\ Len(prog[ROB.entry[i].id].st) \in Nat
<1>1. /\ prog \in Programs /\ read \in Nat /\ dispatched =< read /\ read =< Len(prog)
      /\ Holds(ROB.entry, retired, dispatched)
  BY DEF CoreInv, TraceInv
<1>2. /\ retired \in Nat /\ dispatched \in Nat /\ ROB.entry[i].id \in retired + 1 .. dispatched
      /\ SlotOf(ROB.entry[i].id) = i
  BY <1>1 DEF Holds
<1>3. Len(prog) \in Nat  BY <1>1, ProgramLength
<1>4. ROB.entry[i].id \in 1 .. Len(prog)  BY <1>1, <1>2, <1>3
<1>5. HasIndex(prog, ROB.entry[i].id, ROB.entry[i].sq_index, Entered)
  BY DEF StoreInv, StoresHold
<1>6. ROB.entry[i].sq_index \in Seq(SqSlots) /\ Len(ROB.entry[i].sq_index) =< Len(prog[ROB.entry[i].id].st)
  BY <1>5 DEF HasIndex
<1>7. Len(ROB.entry[i].sq_index) \in Nat  BY <1>6, SeqElements
<1>8. Len(prog[ROB.entry[i].id].ld) \in Nat /\ Len(prog[ROB.entry[i].id].st) \in Nat
  BY <1>1, <1>4, InstructionFacts
<1> QED  BY <1>1, <1>2, <1>3, <1>4, <1>5, <1>6, <1>7, <1>8

LEMMA OpsMove ==
  ASSUME OpsInv, UNCHANGED <<prog, LQ, SQ>>, NEW i \in Slots,
         MemSame(ROB.entry[i], ROB'.entry[i]), ROB'.entry[i].executed # NotYet,
         ROB.entry[i].id # 0, AllAdded(prog, ROB.entry[i]),
         ROB'.entry[i].executed = COMPLETED => ROB.entry[i].num_mem_ops = 0
  PROVE  OpsOf(prog, ROB'.entry[i], i, LQ, SQ)
<1> DEFINE x == ROB.entry[i]
           y == ROB'.entry[i]
<1>1. OpsOf(prog, x, i, LQ, SQ)  BY DEF OpsInv, OpsHold
<1>2. /\ y.id = x.id /\ y.num_mem_ops = x.num_mem_ops /\ y.source_added = x.source_added
      /\ y.sq_index = x.sq_index
  BY DEF MemSame
<1>3. /\ y.executed # NotYet /\ x.id # 0 /\ AllAdded(prog, x)
      /\ y.executed = COMPLETED => x.num_mem_ops = 0
  OBVIOUS
<1> HIDE DEF x, y
<1>4. LoadsLeft(prog, y, i, LQ) = LoadsLeft(prog, x, i, LQ)  BY <1>2 DEF LoadsLeft
<1>5. StoresLeft(prog, y, SQ) = StoresLeft(prog, x, SQ)  BY <1>2 DEF StoresLeft
<1>6. AllAdded(prog, y)  BY <1>2, <1>3 DEF AllAdded
<1> HIDE DEF AllAdded
<1>7. OpsOf(prog, y, i, LQ, SQ)  BY <1>1, <1>2, <1>3, <1>4, <1>5, <1>6 DEF OpsOf
<1> QED  BY <1>7 DEF y

LEMMA DoExecutionMem ==
  ASSUME CoreInv, MemInv, NEW t \in Slots, DoExecution(t), Due(prog, ROB.entry, t)
  PROVE  MemInv'
<1>1. \A k \in Slots : /\ MemSame(ROB.entry[k], ROB'.entry[k])
                       /\ ROB'.entry[k].executed = IF k = t THEN INFLIGHT ELSE ROB.entry[k].executed
  BY ExecutionEntries
<1>2. \A k \in Slots : /\ ROB'.entry[k].id = ROB.entry[k].id
                       /\ ROB'.entry[k].sq_index = ROB.entry[k].sq_index
                       /\ ROB'.entry[k].source_added = ROB.entry[k].source_added
                       /\ ROB'.entry[k].num_mem_ops = ROB.entry[k].num_mem_ops
  BY <1>1 DEF MemSame
<1>3. UNCHANGED <<prog, read, dispatched, retired, STA, SQ, LQ, dtlb, l1d, RTL0, RTL1, RTS0, RTS1, wq>>
  BY DEF DoExecution, frontVars
<1>4. StoreInv'  BY <1>2, <1>3, StoreStay DEF MemInv
<1>5. LoadInv'  BY <1>2, <1>3, LoadStay DEF MemInv
<1>6. PlaceInv'  BY <1>3, PlaceStay DEF MemInv
<1>7. WqInv'  BY <1>3, WqStay DEF MemInv
<1>8. /\ ROB.entry[t].id # 0 /\ ~IsMemory(prog[ROB.entry[t].id]) /\ ROB.entry[t].executed = NotYet
  BY DEF Due
<1>9. CountInv'
  <2>1. CountersHold(prog, ROB.entry, inflight_reg_executions, inflight_mem_executions, completed_executions)
    BY DEF MemInv, CountInv
  <2>2. CountersHold(prog, ROB'.entry, inflight_reg_executions + 1, inflight_mem_executions, completed_executions)
    BY <1>1, <1>2, <1>8, <2>1, CountersStart
  <2> QED  BY <1>3, <2>2 DEF CountInv, DoExecution
<1>10. AllAdded(prog, ROB.entry[t])
  <2> DEFINE x == ROB.entry[t]
             ld == Len(prog[x.id].ld)
             st == Len(prog[x.id].st)
  <2>1. /\ Len(x.sq_index) \in Nat /\ Len(x.sq_index) =< st /\ ld \in Nat /\ st \in Nat
    BY <1>8, EntryFacts DEF MemInv
  <2>2. x.source_added \subseteq 1 .. ld  BY <1>8 DEF MemInv, OpsInv, OpsHold, OpsOf
  <2>3. ~(ld + st > 0)  BY <1>8 DEF IsMemory, NumMemOps
  <2>4. AllAdded(prog, x) <=> x.source_added = 1 .. ld /\ Len(x.sq_index) = st  BY DEF AllAdded
  <2> HIDE DEF x, ld, st
  <2>5. ld = 0 /\ st = 0  BY <2>1, <2>3
  <2>6. AllAdded(prog, x)  BY <2>1, <2>2, <2>4, <2>5
  <2> QED  BY <2>6 DEF x
<1>11. OpsInv'
  <2>1. ASSUME NEW i \in Slots PROVE OpsOf(prog, ROB'.entry[i], i, LQ, SQ)
    <3>1. CASE i = t
      <4>1. ROB'.entry[i].executed # NotYet /\ ROB'.entry[i].executed # COMPLETED
        BY <1>1, <3>1 DEF INFLIGHT, COMPLETED, NotYet
      <4> QED  BY <1>1, <1>3, <1>8, <1>10, <3>1, <4>1, OpsMove DEF MemInv
    <3>2. CASE i # t  BY <1>1, <1>3, <3>2, OpsSame DEF MemInv
    <3> QED  BY <3>1, <3>2
  <2> QED  BY <1>3, <2>1 DEF OpsInv, OpsHold
<1> QED  BY <1>4, <1>5, <1>6, <1>7, <1>9, <1>11 DEF MemInv

LEMMA ExecuteRTEMem == ASSUME CoreInv, MemInv, ExecuteRTE0 \/ ExecuteRTE1 PROVE MemInv'
<1>0. RingsHold(prog, ROB.entry, RTE0, RTE1)  BY DEF CoreInv
<1>1. CASE ExecuteRTE0
  <2>1. Head(RTE0) \in Slots /\ Head(RTE0) \in Range(RTE0)  BY <1>0, <1>1, Popped DEF ExecuteRTE0, RingsHold
  <2>2. Due(prog, ROB.entry, Head(RTE0))  BY <1>0, <2>1 DEF RingsHold
  <2> QED  BY <1>1, <2>1, <2>2, DoExecutionMem DEF ExecuteRTE0
<1>2. CASE ExecuteRTE1
  <2>1. Head(RTE1) \in Slots /\ Head(RTE1) \in Range(RTE1)  BY <1>0, <1>2, Popped DEF ExecuteRTE1, RingsHold
  <2>2. Due(prog, ROB.entry, Head(RTE1))  BY <1>0, <2>1 DEF RingsHold
  <2> QED  BY <1>2, <2>1, <2>2, DoExecutionMem DEF ExecuteRTE1
<1> QED  BY <1>1, <1>2

LEMMA ScheduleMem == ASSUME CoreInv, MemInv, NEW n, ScheduleInstruction(n) PROVE MemInv'
<1>1. \A k \in Slots : /\ MemSame(ROB.entry[k], ROB'.entry[k])
                       /\ ROB'.entry[k].executed = ROB.entry[k].executed
  BY ScheduleEntries
<1>2. \A k \in Slots : /\ ROB'.entry[k].id = ROB.entry[k].id
                       /\ ROB'.entry[k].sq_index = ROB.entry[k].sq_index
                       /\ ROB'.entry[k].source_added = ROB.entry[k].source_added
  BY <1>1 DEF MemSame
<1>3. /\ UNCHANGED <<prog, read, dispatched, retired, STA, SQ, LQ, dtlb, l1d, RTL0, RTL1, RTS0, RTS1, wq>>
      /\ UNCHANGED counters
  BY DEF ScheduleInstruction, frontVars
<1>4. StoreInv'  BY <1>2, <1>3, StoreStay DEF MemInv
<1>5. LoadInv'  BY <1>2, <1>3, LoadStay DEF MemInv
<1>6. OpsInv'  BY <1>1, <1>3, OpsSameAll DEF MemInv
<1>7. PlaceInv'  BY <1>3, PlaceStay DEF MemInv
<1>8. CountInv'  BY <1>1, <1>3, CountStay DEF MemInv
<1>9. WqInv'  BY <1>3, WqStay DEF MemInv
<1> QED  BY <1>4, <1>5, <1>6, <1>7, <1>8, <1>9 DEF MemInv

LEMMA CompleteMem == ASSUME CoreInv, MemInv, NEW t \in Slots, CompleteExecution(t) PROVE MemInv'
<1>1. \A k \in Slots : /\ MemSame(ROB.entry[k], ROB'.entry[k])
                       /\ ROB'.entry[k].executed = IF k = t THEN COMPLETED ELSE ROB.entry[k].executed
  BY CompletionEntries
<1>2. \A k \in Slots : /\ ROB'.entry[k].id = ROB.entry[k].id
                       /\ ROB'.entry[k].sq_index = ROB.entry[k].sq_index
                       /\ ROB'.entry[k].source_added = ROB.entry[k].source_added
                       /\ ROB'.entry[k].num_mem_ops = ROB.entry[k].num_mem_ops
  BY <1>1 DEF MemSame
<1>3. UNCHANGED <<prog, read, dispatched, retired, STA, SQ, LQ, dtlb, l1d, RTL0, RTL1, RTS0, RTS1, wq>>
  BY Zenon DEF CompleteExecution, frontVars
<1>4. StoreInv'  BY <1>2, <1>3, StoreStay DEF MemInv
<1>5. LoadInv'  BY <1>2, <1>3, LoadStay DEF MemInv
<1>6. PlaceInv'  BY <1>3, PlaceStay DEF MemInv
<1>7. WqInv'  BY <1>3, WqStay DEF MemInv
<1>8. /\ ROB.entry[t].id # 0 /\ ROB.entry[t].executed = INFLIGHT
      /\ IsMemory(prog[ROB.entry[t].id]) => ROB.entry[t].num_mem_ops = 0
  <2>1. /\ t \in Live /\ ROB.entry[t].executed = INFLIGHT
        /\ IsMemory(Instr(t)) => ROB.entry[t].num_mem_ops = 0
    BY Zenon DEF CompleteExecution
  <2> QED  BY <2>1 DEF Live, Instr
<1>9. OpsOf(prog, ROB.entry[t], t, LQ, SQ)  BY DEF MemInv, OpsInv, OpsHold
<1>10. AllAdded(prog, ROB.entry[t])
  BY <1>8, <1>9 DEF OpsOf, INFLIGHT, NotYet
<1>11. ROB.entry[t].num_mem_ops = 0
  <2>1. CASE IsMemory(prog[ROB.entry[t].id])  BY <1>8, <2>1
  <2>2. CASE ~IsMemory(prog[ROB.entry[t].id])
    <3> DEFINE x == ROB.entry[t]
    <3>1. /\ prog \in Programs /\ x.id \in 1 .. Len(prog) /\ x.sq_index \in Seq(SqSlots)
          /\ Len(x.sq_index) =< Len(prog[x.id].st) /\ OpsOf(prog, x, t, LQ, SQ)
          /\ ~IsMemory(prog[x.id])
      BY <1>8, <1>9, <2>2, EntryFacts DEF MemInv
    <3> HIDE DEF x
    <3>2. x.num_mem_ops = 0  BY <3>1, OpsFacts
    <3> QED  BY <3>2 DEF x
  <2> QED  BY <2>1, <2>2
<1>12. OpsInv'
  <2>1. ASSUME NEW i \in Slots PROVE OpsOf(prog, ROB'.entry[i], i, LQ, SQ)
    <3>1. CASE i = t
      <4>1. ROB'.entry[i].executed # NotYet  BY <1>1, <3>1 DEF COMPLETED, NotYet
      <4> QED  BY <1>1, <1>3, <1>8, <1>10, <1>11, <3>1, <4>1, OpsMove DEF MemInv
    <3>2. CASE i # t  BY <1>1, <1>3, <3>2, OpsSame DEF MemInv
    <3> QED  BY <3>1, <3>2
  <2> QED  BY <1>3, <2>1 DEF OpsInv, OpsHold
<1>13. CountInv'
  <2>1. CountersHold(prog, ROB.entry, inflight_reg_executions, inflight_mem_executions, completed_executions)
    BY DEF MemInv, CountInv
  <2>2. IF IsMemory(prog[ROB.entry[t].id])
        THEN CountersHold(prog, ROB'.entry, inflight_reg_executions, inflight_mem_executions - 1,
                          completed_executions + 1)
        ELSE CountersHold(prog, ROB'.entry, inflight_reg_executions - 1, inflight_mem_executions,
                          completed_executions + 1)
    <3> DEFINE E == ROB.entry
               F == ROB'.entry
               r == inflight_reg_executions
               m == inflight_mem_executions
               c == completed_executions
    <3>1. /\ CountersHold(prog, E, r, m, c) /\ E[t].id # 0 /\ E[t].executed = INFLIGHT
          /\ IsMemory(prog[E[t].id]) => E[t].num_mem_ops = 0
          /\ \A i \in Slots : /\ F[i].id = E[i].id /\ F[i].num_mem_ops = E[i].num_mem_ops
                              /\ F[i].executed = IF i = t THEN COMPLETED ELSE E[i].executed
      BY <1>1, <1>2, <1>8, <2>1
    <3> HIDE DEF E, F, r, m, c
    <3>2. IF IsMemory(prog[E[t].id]) THEN CountersHold(prog, F, r, m - 1, c + 1)
          ELSE CountersHold(prog, F, r - 1, m, c + 1)
      BY <3>1, CountersComplete
    <3> QED  BY <3>2 DEF E, F, r, m, c
  <2>3. /\ IF IsMemory(prog[ROB.entry[t].id])
           THEN /\ inflight_mem_executions' = inflight_mem_executions - 1
                /\ inflight_reg_executions' = inflight_reg_executions
           ELSE /\ inflight_reg_executions' = inflight_reg_executions - 1
                /\ inflight_mem_executions' = inflight_mem_executions
        /\ completed_executions' = completed_executions + 1
    BY Zenon DEF CompleteExecution, Instr
  <2> QED  BY <1>3, <2>2, <2>3 DEF CountInv
<1> QED  BY <1>4, <1>5, <1>6, <1>7, <1>12, <1>13 DEF MemInv

--------------------------------------------------------------------------------
(* Dispatch *)

LEMMA DispatchEntries ==
  ASSUME CoreInv, DecodeAndDispatch
  PROVE  /\ ROB.tail \in Slots /\ ROB.entry[ROB.tail].id = 0
         /\ \A k \in Slots : k # ROB.tail => ROB'.entry[k] = ROB.entry[k]
         /\ ROB'.entry[ROB.tail].id = dispatched + 1
         /\ ROB'.entry[ROB.tail].num_mem_ops = NumMemOps(prog[dispatched + 1])
         /\ ROB'.entry[ROB.tail].executed = NotYet
         /\ ROB'.entry[ROB.tail].source_added = {} /\ ROB'.entry[ROB.tail].sq_index = <<>>
<1> DEFINE t == ROB.tail
           e == [EmptyEntry EXCEPT !.id = dispatched + 1,
                                   !.num_mem_ops = NumMemOps(prog[dispatched + 1])]
<1>1. /\ Holds(ROB.entry, retired, dispatched) /\ retired \in Nat /\ dispatched \in Nat
  BY DEF CoreInv, Holds
<1>2. dispatched < retired + ROB_SIZE
  BY <1>1, SizesType DEF DecodeAndDispatch, CoreInv, BufferShape
<1>3. t = dispatched % ROB_SIZE  BY DEF CoreInv, BufferShape
<1>4. t \in Slots /\ ROB.entry[t].id = 0  BY <1>1, <1>2, <1>3, HeldOnce
<1>5. /\ e.id = dispatched + 1 /\ e.num_mem_ops = NumMemOps(prog[dispatched + 1])
      /\ e.executed = NotYet /\ e.source_added = {} /\ e.sq_index = <<>>
  BY DEF EmptyEntry
<1>6. ROB' = [ROB EXCEPT !.entry = [ROB.entry EXCEPT ![t] = e],
                         !.occupancy = ROB.occupancy + 1,
                         !.tail = (ROB.tail + 1) % ROB_SIZE]
  BY <1>4 DEF DecodeAndDispatch, CoreInv, BufferShape
<1> HIDE DEF t, e
<1>7. ROB'.entry = [ROB.entry EXCEPT ![t] = e]
  BY <1>6 DEF CoreInv, BufferShape
<1>8. ROB'.entry[t] = e /\ \A k \in Slots : k # t => ROB'.entry[k] = ROB.entry[k]
  BY <1>4, <1>7 DEF CoreInv, BufferShape
<1> QED  BY <1>4, <1>5, <1>8 DEF t

(* A new instruction has all its memory operations before it. *)
LEMMA OpsNew ==
  ASSUME NEW p \in Programs, NEW x, x.id \in 1 .. Len(p), NEW i, NEW lq, NEW sq,
         x.num_mem_ops = NumMemOps(p[x.id]), x.executed = NotYet,
         x.source_added = {}, x.sq_index = <<>>
  PROVE  OpsOf(p, x, i, lq, sq)
<1> DEFINE L == LoadsLeft(p, x, i, lq)
           S == StoresLeft(p, x, sq)
           ld == Len(p[x.id].ld)
           st == Len(p[x.id].st)
<1>1. x.id # 0 /\ ld \in Nat /\ st \in Nat  BY InstructionFacts, ProgramLength
<1>2. L = 1 .. ld
  <2>1. \A k : k \in L <=> k \in 1 .. ld  BY DEF LoadsLeft
  <2> HIDE DEF L, ld
  <2> QED  BY <2>1
<1>3. S = 1 .. st
  <2>1. \A k : k \in S <=> k \in 1 .. st /\ (k > Len(x.sq_index) \/ ~sq.entry[x.sq_index[k]].fetched)
    BY DEF StoresLeft
  <2>2. Len(x.sq_index) = 0  OBVIOUS
  <2> HIDE DEF S, st
  <2>3. \A k \in 1 .. st : k > Len(x.sq_index)  BY <1>1, <2>2
  <2> QED  BY <2>1, <2>3
<1>4. x.num_mem_ops = ld + st  BY DEF NumMemOps
<1>5. IsMemory(p[x.id]) <=> ld + st > 0  BY DEF IsMemory, NumMemOps
<1>6. AllAdded(p, x) <=> 1 .. ld = {} /\ st = 0
  <2>1. Len(x.sq_index) = 0  OBVIOUS
  <2> QED  BY <2>1 DEF AllAdded
<1> HIDE DEF L, S, ld, st
<1>7. Cardinality(1 .. ld) = ld  BY <1>1, IntervalSize, Zenon
<1>8. Cardinality(1 .. st) = st  BY <1>1, IntervalSize, Zenon
<1>9. x.num_mem_ops = Cardinality(L) + Cardinality(S)  BY <1>2, <1>3, <1>4, <1>7, <1>8
<1>10. IsMemory(p[x.id]) => ~AllAdded(p, x)
  <2>1. 1 .. ld = {} => ld = 0
    <3>1. ld # 0 => 1 \in 1 .. ld  BY <1>1
    <3> QED  BY <3>1
  <2> QED  BY <1>1, <1>5, <1>6, <2>1
<1>11. x.executed # COMPLETED  BY DEF NotYet, COMPLETED
<1>12. x.source_added \subseteq 1 .. ld  OBVIOUS
<1> QED  BY <1>1, <1>9, <1>10, <1>11, <1>12 DEF OpsOf, L, S, ld

LEMMA DispatchMem == ASSUME CoreInv, MemInv, DecodeAndDispatch PROVE MemInv'
<1> DEFINE t == ROB.tail
           n == dispatched + 1
           E == ROB.entry
           F == ROB'.entry
<1>1. /\ t \in Slots /\ E[t].id = 0 /\ \A k \in Slots : k # t => F[k] = E[k]
      /\ F[t].id = n /\ F[t].num_mem_ops = NumMemOps(prog[n])
      /\ F[t].executed = NotYet
      /\ F[t].source_added = {} /\ F[t].sq_index = <<>>
  BY DispatchEntries
<1>2. /\ UNCHANGED <<prog, read, retired, STA, SQ, LQ, dtlb, l1d, RTL0, RTL1, RTS0, RTS1, wq>>
      /\ UNCHANGED counters /\ dispatched < read /\ dispatched' = n
  BY DEF DecodeAndDispatch, rings
<1>3. /\ prog \in Programs /\ read \in Nat /\ read =< Len(prog) /\ Len(prog) \in Nat /\ dispatched \in Nat
  BY ProgramLength DEF CoreInv, TraceInv, Holds
<1>4. n \in 1 .. Len(prog) /\ n - 1 = dispatched  BY <1>2, <1>3
<1>5. StoreInv /\ LoadInv /\ OpsInv /\ PlaceInv /\ CountInv /\ WqInv  BY DEF MemInv
<1>6. StoreInv'
  <2>1. Entered' = Entered  BY <1>2 DEF Entered
  <2>2. StaHolds(prog, Entered, read, STA)'  BY <1>2, <1>5, <2>1 DEF StoreInv
  <2>3. /\ SqHolds(prog, retired, Entered, SQ) /\ Entered \in Nat /\ Entered =< StoresBefore(prog, dispatched)
        /\ \A i \in Slots : E[i].id # 0 => HasIndex(prog, E[i].id, E[i].sq_index, Entered)
    BY <1>5 DEF StoreInv, StoresHold, SqHolds
  <2>4. Entered =< StoresBefore(prog, n)
    <3>1. StoresBefore(prog, dispatched) =< StoresBefore(prog, n)  BY <1>3, <1>4, StoresGrow
    <3>2. StoresBefore(prog, dispatched) \in Nat /\ StoresBefore(prog, n) \in Nat
      BY <1>3, <1>4, StoresFinite
    <3> QED  BY <2>3, <3>1, <3>2
  <2>5. HasIndex(prog, n, <<>>, Entered)
    BY <1>3, <1>4, <2>3, IndexNew
  <2>6. ASSUME NEW i \in Slots, F[i].id # 0 PROVE HasIndex(prog, F[i].id, F[i].sq_index, Entered)
    <3>1. CASE i = t  BY <1>1, <2>5, <3>1
    <3>2. CASE i # t  BY <1>1, <2>3, <2>6, <3>2
    <3> QED  BY <3>1, <3>2
  <2>7. n \in 0 .. Len(prog)  BY <1>4
  <2>8. StoresHold(prog, F, retired, n, Entered, SQ)  BY <2>3, <2>4, <2>6, <2>7 DEF StoresHold
  <2> QED  BY <1>2, <2>1, <2>2, <2>8 DEF StoreInv
<1>7. LoadInv'
  <2>1. LqHolds(E, LQ)  BY <1>5 DEF LoadInv
  <2>2. ASSUME NEW s \in Busy(LQ)
        PROVE  F[LQ.entry[s].rob_index] = E[LQ.entry[s].rob_index]
    <3>1. LQ.entry[s].rob_index \in Slots /\ LQ.entry[s].id # 0  BY <2>1, BusyLq DEF QueueSlot
    <3>2. E[LQ.entry[s].rob_index].id = LQ.entry[s].id  BY <2>1 DEF LqHolds
    <3> QED  BY <1>1, <3>1, <3>2
  <2>3. LqHolds(F, LQ)  BY <2>1, <2>2, LqStay
  <2> QED  BY <1>2, <2>3 DEF LoadInv
<1>8. OpsInv'
  <2>1. ASSUME NEW i \in Slots PROVE OpsOf(prog, F[i], i, LQ, SQ)
    <3>1. CASE i = t
      <4> DEFINE x == F[t]
      <4>1. /\ x.id = n /\ x.num_mem_ops = NumMemOps(prog[x.id]) /\ x.executed = NotYet
            /\ x.source_added = {} /\ x.sq_index = <<>>
        BY <1>1
      <4> HIDE DEF x, n
      <4>2. OpsOf(prog, x, t, LQ, SQ)  BY <1>3, <1>4, <4>1, OpsNew
      <4> QED  BY <3>1, <4>2 DEF x
    <3>2. CASE i # t
      <4>1. F[i] = E[i]  BY <1>1, <3>2
      <4>2. MemSame(ROB.entry[i], ROB'.entry[i]) /\ ROB'.entry[i].executed = ROB.entry[i].executed
        BY <4>1 DEF MemSame
      <4> QED  BY <1>2, <1>5, <4>2, OpsSame
    <3> QED  BY <3>1, <3>2
  <2> QED  BY <1>2, <2>1 DEF OpsInv, OpsHold
<1>9. PlaceInv'  BY <1>2, <1>5, PlaceStay
<1>10. CountInv'
  <2>1. CountersHold(prog, E, inflight_reg_executions, inflight_mem_executions, completed_executions)
    BY <1>5 DEF CountInv
  <2>2. CountersHold(prog, F, inflight_reg_executions, inflight_mem_executions, completed_executions)
    BY <1>1, <2>1, CountersEnter
  <2> QED  BY <1>2, <2>2 DEF CountInv, counters
<1>11. WqInv'  BY <1>2, <1>5, WqStay
<1> QED  BY <1>6, <1>7, <1>8, <1>9, <1>10, <1>11 DEF MemInv

--------------------------------------------------------------------------------
(* Reading *)

(* With at most w stores in an instruction, STA needs w places for each the    *)
(* core can hold.  The traces with two stores have them, STA_SIZE being        *)
(* ROB_SIZE * 4 and the front end being shorter than the reorder buffer.       *)
THEOREM FewStoresFit ==
  ASSUME NEW w \in Nat, \A p \in Programs : \A k \in 1 .. Len(p) : Len(p[k].st) =< w,
         (ROB_SIZE + FRONT_END) * w =< STA_SIZE
  PROVE  StoreRoom
<1> SUFFICES ASSUME NEW p \in Programs, NEW m \in 0 .. Len(p), NEW n \in 0 .. Len(p),
                    m =< n, n - m =< ROB_SIZE + FRONT_END
             PROVE  StoresBefore(p, n) - StoresBefore(p, m) =< STA_SIZE
  BY DEF StoreRoom, StoresFit
<1> DEFINE A == StoresUpTo(p, m)
           B == StoresUpTo(p, n)
           N == m + 1 .. n
           C == N \X (1 .. w)
           d == n - m
<1>1. Len(p) \in Nat /\ m \in Nat /\ n \in Nat /\ d \in Nat  BY ProgramLength
<1>2. /\ IsFiniteSet(A) /\ IsFiniteSet(B) /\ StoresBefore(p, m) = Cardinality(A)
      /\ StoresBefore(p, n) = Cardinality(B) /\ Cardinality(A) \in Nat /\ Cardinality(B) \in Nat
  BY StoresFinite, FS_CardinalityType
<1>3. B \subseteq A \cup C
  <2>1. SUFFICES ASSUME NEW x \in B PROVE x \in A \/ x \in C
    OBVIOUS
  <2>2. PICK k \in 1 .. n : x \in {k} \X (1 .. Len(p[k].st))  BY DEF StoresUpTo
  <2>3. k \in 1 .. m \/ k \in N  BY <1>1
  <2>4. CASE k \in 1 .. m  BY <2>2, <2>4 DEF StoresUpTo
  <2>5. CASE k \in N
    <3>1. k \in 1 .. Len(p)  BY <1>1
    <3>2. Len(p[k].st) \in Nat /\ Len(p[k].st) =< w  BY <3>1, InstructionFacts
    <3>3. x \in N \X (1 .. w)  BY <2>2, <2>5, <3>2
    <3> QED  BY <3>3
  <2> QED  BY <2>3, <2>4, <2>5
<1>4. IsFiniteSet(N) /\ Cardinality(N) = d
  <2> DEFINE a == m + 1
  <2>1. a \in Int /\ n \in Int /\ ~(a > n + 1) /\ n - a + 1 = d  BY <1>1
  <2> HIDE DEF a
  <2>2. IsFiniteSet(a .. n) /\ Cardinality(a .. n) = IF a > n THEN 0 ELSE n - a + 1
    BY <2>1, FS_Interval
  <2>3. Cardinality(a .. n) = n - a + 1  BY <2>1, <2>2
  <2> QED  BY <2>1, <2>2, <2>3 DEF a
<1>5. IsFiniteSet(1 .. w) /\ Cardinality(1 .. w) = w  BY IntervalSize
<1> HIDE DEF A, B, N, d
<1>6. IsFiniteSet(C) /\ Cardinality(C) = d * w
  BY <1>4, <1>5, FS_Product
<1> HIDE DEF C
<1>7. /\ IsFiniteSet(A \cup C) /\ Cardinality(B) =< Cardinality(A \cup C)
  BY <1>2, <1>3, <1>6, FS_Union, FS_Subset
<1>8. /\ Cardinality(A \cup C) = Cardinality(A) + Cardinality(C) - Cardinality(A \cap C)
      /\ Cardinality(A \cap C) \in Nat
  <2>1. IsFiniteSet(A \cap C)  BY <1>2, FS_Subset
  <2> QED  BY <1>2, <1>6, <2>1, FS_Union, FS_CardinalityType
<1>9. d * w =< STA_SIZE
  <2>1. d =< ROB_SIZE + FRONT_END  BY DEF d
  <2>2. ROB_SIZE + FRONT_END \in Nat /\ STA_SIZE \in Nat  BY SizesType
  <2> DEFINE r == ROB_SIZE + FRONT_END
             e == r - d
  <2>3. e \in Nat /\ r = d + e /\ r * w =< STA_SIZE  BY <1>1, <2>1, <2>2
  <2> HIDE DEF r, e
  <2>4. r * w = d * w + e * w /\ e * w \in Nat /\ d * w \in Nat
    BY <1>1, <2>3
  <2> DEFINE x == d * w
             y == e * w
  <2>5. x + y =< STA_SIZE /\ x \in Nat /\ y \in Nat  BY <2>3, <2>4
  <2> HIDE DEF x, y
  <2>6. x =< STA_SIZE  BY <2>2, <2>5
  <2> QED  BY <2>6 DEF x
<1>10. Cardinality(B) - Cardinality(A) =< STA_SIZE
  <2> DEFINE a == Cardinality(A)
             b == Cardinality(B)
             u == Cardinality(A \cup C)
             v == Cardinality(A \cap C)
             x == d * w
  <2>1. /\ a \in Nat /\ b \in Nat /\ v \in Nat /\ x \in Nat /\ b =< u /\ u = a + x - v
        /\ x =< STA_SIZE /\ STA_SIZE \in Nat
    BY <1>1, <1>2, <1>6, <1>7, <1>8, <1>9, SizesType
  <2> HIDE DEF a, b, u, v, x
  <2>2. b - a =< STA_SIZE  BY <2>1
  <2> QED  BY <2>2 DEF a, b
<1> QED  BY <1>2, <1>10

(* What is read next fits. *)
LEMMA NextFits ==
  ASSUME StoreRoom, CoreInv, MemInv, MayRead
  PROVE  StoresBefore(prog, read + 1) =< Entered + STA_SIZE
<1>1. read < Len(prog) /\ read - dispatched < FRONT_END  BY DEF MayRead, FrontEndHasRoom
<1>2. /\ prog \in Programs /\ read \in Nat /\ dispatched =< read /\ Len(prog) \in Nat
      /\ dispatched \in Nat /\ retired \in Nat /\ dispatched =< retired + ROB_SIZE
      /\ retired =< dispatched
  BY ProgramLength DEF CoreInv, TraceInv, Holds
<1>3. StoresBefore(prog, retired) =< Entered /\ Entered \in Nat
  BY DEF MemInv, StoreInv, StoresHold, SqHolds
<1>4. retired \in 0 .. Len(prog) /\ read + 1 \in 0 .. Len(prog)  BY <1>1, <1>2
<1>5. retired =< read + 1 /\ read + 1 - retired =< ROB_SIZE + FRONT_END
  BY <1>1, <1>2, SizesType
<1>6. StoresBefore(prog, read + 1) - StoresBefore(prog, retired) =< STA_SIZE
  BY <1>2, <1>4, <1>5 DEF StoreRoom, StoresFit
<1>7. StoresBefore(prog, read + 1) \in Nat /\ StoresBefore(prog, retired) \in Nat
  BY <1>2, <1>4, StoresFinite
<1> HIDE DEF Entered
<1> QED  BY <1>3, <1>6, <1>7, SizesType

LEMMA ReadMem == ASSUME StoreRoom, CoreInv, MemInv, ReadFromTrace PROVE MemInv'
<1>1. /\ UNCHANGED <<prog, dispatched, retired, ROB, LQ, SQ, dtlb, l1d, RTL0, RTL1, RTS0, RTS1, wq>>
      /\ UNCHANGED counters /\ read' = read + 1 /\ read < Len(prog) /\ read - dispatched < FRONT_END
  BY DEF ReadFromTrace, MayRead, rings, FrontEndHasRoom
<1>2. /\ prog \in Programs /\ read \in Nat /\ dispatched =< read /\ Len(prog) \in Nat
      /\ dispatched \in Nat /\ retired \in Nat /\ dispatched =< retired + ROB_SIZE
      /\ retired =< dispatched
  BY ProgramLength DEF CoreInv, TraceInv, Holds
<1>3. StoreInv /\ LoadInv /\ OpsInv /\ PlaceInv /\ CountInv /\ WqInv  BY DEF MemInv
<1>4. /\ StaHolds(prog, Entered, read, STA) /\ SqHolds(prog, retired, Entered, SQ)
      /\ StoresHold(prog, ROB.entry, retired, dispatched, Entered, SQ)
      /\ StoresBefore(prog, retired) =< Entered /\ Entered \in Nat
  BY <1>3 DEF StoreInv, StoresHold, SqHolds
<1>5. StoresBefore(prog, read + 1) =< Entered + STA_SIZE  BY NextFits DEF ReadFromTrace
<1> DEFINE l == Len(prog[read + 1].st)
<1>6. DOMAIN STA = {"entry", "head", "tail"} /\ DOMAIN STA.entry = StaSlots
  BY <1>4 DEF StaHolds
<1>7. STA' = [STA EXCEPT
       !.entry = [s \in DOMAIN STA.entry |->
                    IF \E k \in 0 .. l - 1 : (STA.tail + k) % STA_SIZE = s THEN read + 1 ELSE STA.entry[s]],
       !.tail = (STA.tail + l) % STA_SIZE]
  BY DEF ReadFromTrace, NewStores, NewPlace
<1> HIDE DEF l
<1>8. /\ DOMAIN STA' = DOMAIN STA /\ DOMAIN STA'.entry = StaSlots /\ STA'.head = STA.head
      /\ STA'.tail = (STA.tail + l) % STA_SIZE
      /\ \A s \in StaSlots :
           STA'.entry[s] = IF \E k \in 0 .. l - 1 : (STA.tail + k) % STA_SIZE = s THEN read + 1
                           ELSE STA.entry[s]
  BY <1>6, <1>7
<1>9. StaHolds(prog, Entered, read + 1, STA')
  <2> DEFINE e == Entered
  <2>1. StaHolds(prog, e, read, STA) /\ StoresBefore(prog, read + 1) =< e + STA_SIZE
    BY <1>4, <1>5
  <2> HIDE DEF e
  <2>2. StaHolds(prog, e, read + 1, STA')  BY <1>1, <1>2, <1>8, <2>1, StaRead DEF l
  <2> QED  BY <2>2 DEF e
<1>10. StoreInv'
  <2>1. Entered' = Entered  BY <1>1 DEF Entered
  <2> QED  BY <1>1, <1>4, <1>9, <2>1 DEF StoreInv
<1>11. \A k \in Slots : /\ MemSame(ROB.entry[k], ROB'.entry[k])
                        /\ ROB'.entry[k].executed = ROB.entry[k].executed
                        /\ ROB'.entry[k].id = ROB.entry[k].id
                        /\ ROB'.entry[k].source_added = ROB.entry[k].source_added
  BY <1>1 DEF MemSame
<1>12. LoadInv'  BY <1>1, <1>3, <1>11, LoadStay
<1>13. OpsInv'  BY <1>1, <1>3, <1>11, OpsSameAll
<1>14. PlaceInv'  BY <1>1, <1>3, PlaceStay
<1>15. CountInv'  BY <1>1, <1>3, <1>11, CountStay
<1>16. WqInv'  BY <1>1, <1>3, WqStay
<1> QED  BY <1>10, <1>12, <1>13, <1>14, <1>15, <1>16 DEF MemInv

--------------------------------------------------------------------------------
(* Memory operations finish *)

(* The instructions in D do their last memory operation. *)
LEMMA CountersFinish ==
  ASSUME NEW p, NEW ent, NEW new, NEW r, NEW m, NEW c, CountersHold(p, ent, r, m, c),
         NEW D \in SUBSET Slots,
         \A i \in Slots : new[i].id = ent[i].id /\ new[i].executed = ent[i].executed,
         \A i \in D : /\ ent[i].id # 0 /\ IsMemory(p[ent[i].id]) /\ ent[i].executed = INFLIGHT
                      /\ ent[i].num_mem_ops # 0 /\ new[i].num_mem_ops = 0,
         \A i \in Slots \ D : new[i].num_mem_ops = 0 <=> ent[i].num_mem_ops = 0
  PROVE  CountersHold(p, new, r, m + Cardinality(D), c)
<1>1. /\ \A i : i \in RegRun(p, new) <=> i \in RegRun(p, ent)
      /\ \A i : i \in DoneIn(new) <=> i \in DoneIn(ent)
  BY DEF RegRun, DoneIn
<1>2. RegRun(p, new) = RegRun(p, ent) /\ DoneIn(new) = DoneIn(ent)  BY <1>1, SameSet
<1>3. \A i : i \in MemRun(p, new) <=> i \in MemRun(p, ent) \/ i \in D
  <2>1. \A i \in D : i \in MemRun(p, new)  BY DEF MemRun
  <2>2. \A i \in Slots \ D : i \in MemRun(p, new) <=> i \in MemRun(p, ent)  BY DEF MemRun
  <2>3. MemRun(p, new) \subseteq Slots /\ MemRun(p, ent) \subseteq Slots  BY DEF MemRun
  <2> QED  BY <2>1, <2>2, <2>3
<1>4. MemRun(p, ent) \cap D = {} /\ MemRun(p, ent) \in SUBSET Slots  BY DEF MemRun
<1>5. MemRun(p, new) = MemRun(p, ent) \cup D  BY <1>3
<1>6. Cardinality(MemRun(p, new)) = Cardinality(MemRun(p, ent)) + Cardinality(D)
  <2> DEFINE M == MemRun(p, ent)
  <2>1. IsFiniteSet(M) /\ IsFiniteSet(D) /\ Cardinality(M) \in Nat /\ Cardinality(D) \in Nat
    BY <1>4, SlotsCount
  <2>2. M \cap D = {}  BY <1>4
  <2> HIDE DEF M
  <2>3. Cardinality(M \cup D) = Cardinality(M) + Cardinality(D) - Cardinality(M \cap D)
    BY <2>1, FS_Union
  <2>4. Cardinality(M \cap D) = 0  BY <2>2, FS_EmptySet
  <2>5. Cardinality(M \cup D) = Cardinality(M) + Cardinality(D)  BY <2>1, <2>3, <2>4
  <2> QED  BY <1>5, <2>5 DEF M
<1> QED  BY <1>2, <1>6 DEF CountersHold

(* An instruction has cnt operations less to do. *)
LEMMA OpsLess ==
  ASSUME NEW p \in Programs, NEW x, x.id \in 1 .. Len(p), NEW i, NEW lq, NEW sq,
         OpsOf(p, x, i, lq, sq), NEW y, NEW lq1, NEW sq1, NEW cnt \in Nat,
         y.id = x.id, y.source_added = x.source_added, y.sq_index = x.sq_index,
         y.executed = x.executed, y.num_mem_ops = x.num_mem_ops - cnt,
         Cardinality(LoadsLeft(p, x, i, lq)) + Cardinality(StoresLeft(p, x, sq)) =
           Cardinality(LoadsLeft(p, x, i, lq1)) + Cardinality(StoresLeft(p, x, sq1)) + cnt
  PROVE  OpsOf(p, y, i, lq1, sq1)
<1> DEFINE a == Cardinality(LoadsLeft(p, x, i, lq1))
           b == Cardinality(StoresLeft(p, x, sq1))
           c == Cardinality(LoadsLeft(p, x, i, lq)) + Cardinality(StoresLeft(p, x, sq))
<1>1. a \in Nat /\ b \in Nat  BY LeftFinite
<1>2. x.id # 0  BY ProgramLength
<1>3. /\ x.source_added \subseteq 1 .. Len(p[x.id].ld) /\ x.num_mem_ops = c
      /\ x.executed = NotYet /\ IsMemory(p[x.id]) => ~AllAdded(p, x)
      /\ x.executed # NotYet => AllAdded(p, x)
      /\ x.executed = COMPLETED => x.num_mem_ops = 0
  BY <1>2 DEF OpsOf
<1>4. LoadsLeft(p, y, i, lq1) = LoadsLeft(p, x, i, lq1)  BY DEF LoadsLeft
<1>5. StoresLeft(p, y, sq1) = StoresLeft(p, x, sq1)  BY DEF StoresLeft
<1>6. AllAdded(p, y) <=> AllAdded(p, x)  BY DEF AllAdded
<1>7. c = a + b + cnt  OBVIOUS
<1> HIDE DEF a, b, c, AllAdded
<1>8. y.num_mem_ops = a + b  BY <1>1, <1>3, <1>7
<1>9. x.executed = COMPLETED => y.num_mem_ops = 0  BY <1>1, <1>3, <1>7, <1>8
<1> QED  BY <1>2, <1>3, <1>4, <1>5, <1>6, <1>8, <1>9 DEF OpsOf, a, b

(* Finished counts the instructions that have now done all. *)
LEMMA FinishedCounters ==
  ASSUME CoreInv, StoreInv, OpsInv, CountInv, NEW ops, Finished(ops), UNCHANGED prog, OpsInv', StoreInv',
         CoreInv',
         \A k \in Slots : /\ Cardinality({x \in ops : x.rob_index = k}) \in Nat
                          /\ Cardinality({x \in ops : x.rob_index = k}) > 0 => ROB.entry[k].id # 0
  PROVE  CountInv'
<1> DEFINE E == ROB.entry
           F == ROB'.entry
           n(k) == Cardinality({x \in ops : x.rob_index = k})
           D == {k \in Slots : n(k) > 0 /\ E[k].num_mem_ops = n(k)}
           r == inflight_reg_executions
           m == inflight_mem_executions
           c == completed_executions
<1>1. \A k \in Slots : /\ F[k].id = E[k].id /\ F[k].num_mem_ops = E[k].num_mem_ops - n(k)
                       /\ F[k].executed = E[k].executed
  BY FinishedEntries
<1>2. \A k \in Slots : n(k) \in Nat /\ (n(k) > 0 => E[k].id # 0)  OBVIOUS
<1>3. m' = m + Cardinality(D) /\ r' = r /\ c' = c  BY Zenon DEF Finished
<1>4. CountersHold(prog, E, r, m, c)  BY DEF CountInv
<1>5. \A k \in Slots : E[k].id # 0 => /\ E[k].num_mem_ops \in Nat
                                      /\ ~IsMemory(prog[E[k].id]) => E[k].num_mem_ops = 0
  <2> TAKE k \in Slots
  <2> HAVE E[k].id # 0
  <2> DEFINE x == E[k]
  <2>1. /\ prog \in Programs /\ x.id \in 1 .. Len(prog) /\ x.sq_index \in Seq(SqSlots)
        /\ Len(x.sq_index) =< Len(prog[x.id].st) /\ OpsOf(prog, x, k, LQ, SQ)
    BY EntryFacts DEF OpsInv, OpsHold
  <2> HIDE DEF x
  <2>2. x.num_mem_ops \in Nat /\ (~IsMemory(prog[x.id]) => x.num_mem_ops = 0)  BY <2>1, OpsFacts
  <2> QED  BY <2>2 DEF x
<1>6. \A k \in Slots : F[k].id # 0 =>
        /\ F[k].num_mem_ops \in Nat
        /\ F[k].executed = NotYet /\ IsMemory(prog[F[k].id]) => F[k].num_mem_ops > 0
  <2> TAKE k \in Slots
  <2> HAVE F[k].id # 0
  <2> DEFINE x == F[k]
  <2>0. \A i \in Slots : F[i].id # 0 =>
          /\ F[i].id \in 1 .. Len(prog) /\ F[i].sq_index \in Seq(SqSlots)
          /\ Len(F[i].sq_index) =< Len(prog[F[i].id].st)
    <3> TAKE i \in Slots
    <3> HAVE F[i].id # 0
    <3>1. F[i].id = E[i].id  BY <1>1
    <3>2. E[i].id \in 1 .. Len(prog)  BY <3>1, EntryFacts
    <3>3. HasIndex(prog, F[i].id, F[i].sq_index, Entered')  BY DEF StoreInv, StoresHold
    <3> QED  BY <3>1, <3>2, <3>3 DEF HasIndex
  <2>1. /\ prog \in Programs /\ x.id \in 1 .. Len(prog) /\ x.sq_index \in Seq(SqSlots)
        /\ Len(x.sq_index) =< Len(prog[x.id].st) /\ OpsOf(prog, x, k, LQ', SQ')
    BY <2>0 DEF OpsInv, OpsHold, CoreInv, TraceInv
  <2> DEFINE lq == LQ'
             sq == SQ'
  <2> HIDE DEF x, lq, sq
  <2>2. OpsOf(prog, x, k, lq, sq)  BY <2>1 DEF lq, sq
  <2>3. /\ x.num_mem_ops \in Nat
        /\ x.executed = NotYet /\ IsMemory(prog[x.id]) => x.num_mem_ops > 0
    BY <2>1, <2>2, OpsFacts
  <2> QED  BY <2>3 DEF x
<1>7. \A k \in Slots : /\ E[k].executed \in {NotYet, INFLIGHT, COMPLETED}
                       /\ E[k].id # 0 /\ E[k].executed = COMPLETED => E[k].num_mem_ops = 0
  BY DEF CoreInv, CoreType, OpsInv, OpsHold, OpsOf
<1> HIDE DEF E, F, n
<1>8. ASSUME NEW k \in D
      PROVE  /\ E[k].id # 0 /\ IsMemory(prog[E[k].id]) /\ E[k].executed = INFLIGHT
             /\ E[k].num_mem_ops # 0 /\ F[k].num_mem_ops = 0
  <2>1. k \in Slots /\ n(k) > 0 /\ E[k].num_mem_ops = n(k) /\ n(k) \in Nat  BY <1>2
  <2>2. E[k].id # 0 /\ E[k].num_mem_ops # 0  BY <1>2, <2>1
  <2>3. F[k].num_mem_ops = 0  BY <1>1, <2>1
  <2>4. IsMemory(prog[E[k].id])  BY <1>5, <2>1, <2>2
  <2>5. E[k].executed # COMPLETED  BY <1>7, <2>1, <2>2
  <2>6. E[k].executed # NotYet  BY <1>1, <1>6, <2>1, <2>2, <2>3, <2>4
  <2> QED  BY <1>7, <2>1, <2>2, <2>3, <2>4, <2>5, <2>6
<1>9. ASSUME NEW k \in Slots \ D PROVE F[k].num_mem_ops = 0 <=> E[k].num_mem_ops = 0
  <2>1. CASE n(k) = 0
    <3>1. CASE E[k].id = 0
      <4>1. E[k].num_mem_ops = 0  BY <3>1 DEF OpsInv, OpsHold, OpsOf, E
      <4> QED  BY <1>1, <2>1, <4>1
    <3>2. CASE E[k].id # 0  BY <1>1, <1>5, <2>1, <3>2
    <3> QED  BY <3>1, <3>2
  <2>2. CASE n(k) # 0
    <3>1. n(k) \in Nat /\ n(k) > 0 /\ E[k].id # 0  BY <1>2, <2>2
    <3>2. E[k].num_mem_ops # n(k)  BY <3>1
    <3>3. E[k].num_mem_ops \in Nat /\ F[k].num_mem_ops = E[k].num_mem_ops - n(k)
      BY <1>1, <1>5, <3>1
    <3>4. F[k].num_mem_ops \in Nat  BY <1>1, <1>6, <3>1
    <3> QED  BY <3>1, <3>2, <3>3, <3>4
  <2> QED  BY <2>1, <2>2
<1>10. D \in SUBSET Slots  OBVIOUS
<1>11. \A k \in Slots : F[k].id = E[k].id /\ F[k].executed = E[k].executed  BY <1>1
<1> HIDE DEF D, r, m, c
<1>12. CountersHold(prog, F, r, m + Cardinality(D), c)
  BY <1>4, <1>8, <1>9, <1>10, <1>11, CountersFinish
<1> QED  BY <1>3, <1>12 DEF CountInv, F, r, m, c

(* The one entry of a set of one. *)
LEMMA OneOf ==
  ASSUME NEW x, NEW k
  PROVE  Cardinality({y \in {x} : y.rob_index = k}) = IF x.rob_index = k THEN 1 ELSE 0
<1>1. CASE x.rob_index = k
  <2>1. {y \in {x} : y.rob_index = k} = {x}  BY <1>1
  <2>2. Cardinality({x}) = 1  BY FS_Singleton
  <2> QED  BY <1>1, <2>1, <2>2
<1>2. CASE x.rob_index # k
  <2>1. {y \in {x} : y.rob_index = k} = {}  BY <1>2
  <2> QED  BY <1>2, <2>1, FS_EmptySet
<1> QED  BY <1>1, <1>2

(* One store more is fetched. *)
LEMMA StoreFetched ==
  ASSUME NEW p \in Programs, NEW x, x.id \in 1 .. Len(p), NEW sq, NEW sq1, NEW s, NEW k,
         x.sq_index \in Seq(SqSlots), Len(x.sq_index) =< Len(p[x.id].st),
         \A t \in SqSlots : sq1.entry[t].fetched <=> sq.entry[t].fetched \/ t = s,
         ~sq.entry[s].fetched,
         \A l \in 1 .. Len(x.sq_index) : x.sq_index[l] = s <=> l = k,
         k \in 1 .. Len(x.sq_index)
  PROVE  Cardinality(StoresLeft(p, x, sq)) = Cardinality(StoresLeft(p, x, sq1)) + 1
<1> DEFINE a == StoresLeft(p, x, sq)
           b == StoresLeft(p, x, sq1)
           st == Len(p[x.id].st)
           q == x.sq_index
<1>1. st \in Nat /\ Len(q) \in Nat /\ Len(q) =< st /\ \A l \in 1 .. Len(q) : q[l] \in SqSlots
  BY InstructionFacts, SeqElements
<1>2. \A l : l \in a <=> l \in 1 .. st /\ (l > Len(q) \/ ~sq.entry[q[l]].fetched)  BY DEF StoresLeft
<1>3. \A l : l \in b <=> l \in 1 .. st /\ (l > Len(q) \/ ~sq1.entry[q[l]].fetched)  BY DEF StoresLeft
<1>4. IsFiniteSet(a) /\ IsFiniteSet(b) /\ Cardinality(a) \in Nat /\ Cardinality(b) \in Nat
  BY LeftFinite
<1>5. /\ \A l \in 1 .. Len(q) : q[l] = s <=> l = k
      /\ k \in 1 .. Len(q)
  OBVIOUS
<1> HIDE DEF a, b, st, q
<1>6. k \in a /\ k \notin b
  <2>1. k \in 1 .. st /\ ~(k > Len(q)) /\ q[k] = s /\ q[k] \in SqSlots  BY <1>1, <1>5
  <2> QED  BY <1>2, <1>3, <2>1
<1>7. \A l : l \in b <=> l \in a /\ l # k
  <2> TAKE l
  <2>1. CASE l \in 1 .. Len(q)
    <3>1. q[l] \in SqSlots /\ (q[l] = s <=> l = k)  BY <1>1, <1>5, <2>1
    <3>2. sq1.entry[q[l]].fetched <=> sq.entry[q[l]].fetched \/ l = k  BY <3>1
    <3>3. l \in 1 .. st /\ ~(l > Len(q))  BY <1>1, <2>1
    <3> QED  BY <1>2, <1>3, <1>6, <3>2, <3>3
  <2>2. CASE l \notin 1 .. Len(q)
    <3>1. l \in 1 .. st => l > Len(q)  BY <1>1, <2>2
    <3>2. l # k  BY <1>5, <2>2
    <3> QED  BY <1>2, <1>3, <3>1, <3>2
  <2> QED  BY <2>1, <2>2
<1>8. b = a \ {k}  BY <1>7
<1>9. Cardinality(a \ {k}) = Cardinality(a) - 1  BY <1>4, <1>6, FS_RemoveElement
<1>10. Cardinality(a) = Cardinality(b) + 1  BY <1>4, <1>8, <1>9
<1> QED  BY <1>10 DEF a, b

LEMMA ExecuteStoreMem == ASSUME CoreInv, CoreInv', MemInv, ExecuteStore PROVE MemInv'
<1> DEFINE s == Head(RTS1)
           d == SQ.entry[s]
           i == d.rob_index
           k == d.op
           E == ROB.entry
           F == ROB'.entry
<1>1. StoreInv /\ LoadInv /\ OpsInv /\ PlaceInv /\ CountInv /\ WqInv  BY DEF MemInv
<1>2. /\ Finished({d}) /\ RTS1 # <<>> /\ RTS1' = Tail(RTS1)
      /\ SQ' = [SQ EXCEPT !.entry[s].fetched = TRUE]
      /\ UNCHANGED <<prog, read, dispatched, retired, RTL0, RTL1, RTS0, LQ, STA, dtlb, l1d, wq>>
  BY DEF ExecuteStore, frontVars
<1>3. /\ s \in Unfetched(SQ) /\ s \in SqSlots
      /\ InOnePlace(SqSlots, RTS0, Asked(dtlb, "RFO"), Tail(RTS1), {}, Unfetched(SQ) \ {s})
  BY <1>1, <1>2, PlaceExecute DEF PlaceInv
<1>4. d.id # 0 /\ ~d.fetched  BY <1>3 DEF Unfetched, Busy
<1>5. /\ prog \in Programs /\ Holds(ROB.entry, retired, dispatched)
      /\ StoresHold(prog, E, retired, dispatched, Entered, SQ)
  BY <1>1 DEF CoreInv, TraceInv, StoreInv
<1>6. /\ i \in Slots /\ E[i].id = d.id /\ E[i].id \in 1 .. Len(prog)
      /\ k \in 1 .. Len(E[i].sq_index) /\ E[i].sq_index[k] = s
  <2> DEFINE e == Entered
  <2> HIDE DEF e
  <2>1. StoresHold(prog, E, retired, dispatched, e, SQ)  BY <1>5 DEF e
  <2> QED  BY <1>3, <1>4, <1>5, <2>1, StoreOfEntry
<1>7. /\ DOMAIN SQ = {"entry", "occupancy", "head", "tail"} /\ SQ.entry \in [SqSlots -> QueueSlot]
      /\ SqHolds(prog, retired, Entered, SQ)
  BY <1>5 DEF StoresHold, SqHolds
<1>8. d \in QueueSlot  BY <1>3, <1>7
<1> DEFINE f == [d EXCEPT !.fetched = TRUE]
<1>9. /\ f \in QueueSlot /\ f.id = d.id /\ f.op = d.op /\ f.rob_index = d.rob_index /\ f.fetched = TRUE
  BY <1>8 DEF QueueSlot
<1>10. SQ' = [SQ EXCEPT !.entry = [SQ.entry EXCEPT ![s] = f]]  BY <1>2
<1> HIDE DEF f, s
<1>11. /\ DOMAIN SQ' = DOMAIN SQ /\ SQ'.occupancy = SQ.occupancy /\ SQ'.head = SQ.head
       /\ SQ'.tail = SQ.tail /\ SQ'.entry = [SQ.entry EXCEPT ![s] = f]
  BY <1>7, <1>10
<1>12. /\ SQ'.entry \in [SqSlots -> QueueSlot] /\ SQ'.entry[s] = f
       /\ \A t \in SqSlots : t # s => SQ'.entry[t] = SQ.entry[t]
  BY <1>3, <1>7, <1>9, <1>11
<1>13. \A t \in SqSlots : /\ SQ'.entry[t].id = SQ.entry[t].id /\ SQ'.entry[t].op = SQ.entry[t].op
                          /\ SQ'.entry[t].rob_index = SQ.entry[t].rob_index
                          /\ SQ'.entry[t].fetched <=> SQ.entry[t].fetched \/ t = s
  <2> TAKE t \in SqSlots
  <2>1. CASE t = s  BY <1>9, <1>12, <2>1
  <2>2. CASE t # s  BY <1>12, <2>2
  <2> QED  BY <2>1, <2>2
<1>14. \A j \in Slots :
         /\ F[j].id = E[j].id /\ F[j].source_added = E[j].source_added
         /\ F[j].sq_index = E[j].sq_index /\ F[j].executed = E[j].executed
         /\ F[j].num_mem_ops = E[j].num_mem_ops - Cardinality({x \in {d} : x.rob_index = j})
  BY <1>2, FinishedEntries
<1>15. StoreInv'
  <2>1. Entered' = Entered  BY <1>2, <1>11 DEF Entered
  <2>2. StaHolds(prog, Entered, read, STA)'  BY <1>1, <1>2, <2>1 DEF StoreInv
  <2>3. SqHolds(prog, retired, Entered, SQ')
    <3> DEFINE e == Entered
               new == SQ'
    <3>1. /\ SqHolds(prog, retired, e, SQ) /\ DOMAIN new = DOMAIN SQ
          /\ new.entry \in [SqSlots -> QueueSlot]
          /\ new.occupancy = SQ.occupancy /\ new.head = SQ.head /\ new.tail = SQ.tail
          /\ \A t \in SqSlots : /\ new.entry[t].id = SQ.entry[t].id /\ new.entry[t].op = SQ.entry[t].op
                                /\ new.entry[t].rob_index = SQ.entry[t].rob_index
      BY <1>7, <1>11, <1>12, <1>13
    <3> HIDE DEF e, new
    <3>2. SqHolds(prog, retired, e, new)  BY <1>5, <3>1, SqStay
    <3> QED  BY <3>2 DEF e, new
  <2>4. StoresHold(prog, F, retired, dispatched, Entered, SQ')
    BY <1>5, <1>14, <2>3 DEF StoresHold
  <2> QED  BY <1>2, <2>1, <2>2, <2>4 DEF StoreInv
<1>16. LoadInv'  BY <1>1, <1>2, <1>14, LoadStay
<1>17. OpsInv'
  <2>1. ASSUME NEW j \in Slots PROVE OpsOf(prog, F[j], j, LQ, SQ')
    <3> DEFINE x == E[j]
               y == F[j]
               cnt == IF j = i THEN 1 ELSE 0
               new == SQ'
    <3>0. OpsOf(prog, x, j, LQ, SQ)  BY <1>1 DEF OpsInv, OpsHold
    <3>1. /\ y.id = x.id /\ y.source_added = x.source_added
          /\ y.sq_index = x.sq_index /\ y.executed = x.executed
          /\ y.num_mem_ops = x.num_mem_ops - cnt
      <4>1. Cardinality({z \in {d} : z.rob_index = j}) = cnt  BY OneOf
      <4> QED  BY <1>14, <4>1
    <3>2. CASE x.id = 0
      <4>1. j # i  BY <1>4, <1>6, <3>2
      <4>2. x.num_mem_ops = 0 /\ x.source_added = {} /\ x.sq_index = <<>>  BY <3>0, <3>2 DEF OpsOf
      <4>3. cnt = 0  BY <4>1
      <4> HIDE DEF x, y, cnt
      <4>4. /\ y.id = 0 /\ y.num_mem_ops = 0 /\ y.source_added = {} /\ y.sq_index = <<>>
        BY <3>1, <3>2, <4>2, <4>3
      <4>5. OpsOf(prog, y, j, LQ, new)  BY <4>4 DEF OpsOf
      <4> QED  BY <4>5 DEF y
    <3>3. CASE x.id # 0
      <4>1. /\ x.id \in 1 .. Len(prog) /\ x.sq_index \in Seq(SqSlots)
            /\ Len(x.sq_index) \in Nat /\ Len(x.sq_index) =< Len(prog[x.id].st)
        BY <1>1, <3>3, EntryFacts
      <4>2. ASSUME NEW l \in 1 .. Len(x.sq_index), x.sq_index[l] = s PROVE j = i /\ l = k
        <5> DEFINE e == Entered
        <5>0. StoresHold(prog, E, retired, dispatched, e, SQ)  BY <1>5
        <5> HIDE DEF e
        <5>1. IsEntryOf(SQ.entry[E[j].sq_index[l]], E[j].id, l) /\ SQ.entry[E[j].sq_index[l]].rob_index = j
          BY <1>5, <3>3, <5>0, EntryOfStore
        <5> QED  BY <4>2, <5>1 DEF IsEntryOf
      <4>3. CASE j = i
        <5>1. /\ k \in 1 .. Len(x.sq_index)
              /\ \A l \in 1 .. Len(x.sq_index) : x.sq_index[l] = s <=> l = k
          BY <1>6, <4>2, <4>3
        <5>2. /\ \A t \in SqSlots : new.entry[t].fetched <=> SQ.entry[t].fetched \/ t = s
              /\ ~SQ.entry[s].fetched
          BY <1>4, <1>13
        <5> HIDE DEF x, y, k, i, new
        <5>3. Cardinality(StoresLeft(prog, x, SQ)) = Cardinality(StoresLeft(prog, x, new)) + 1
          <6>1. prog \in Programs /\ x.id \in 1 .. Len(prog)  BY <1>5, <4>1
          <6>2. x.sq_index \in Seq(SqSlots) /\ Len(x.sq_index) =< Len(prog[x.id].st)  BY <4>1
          <6> QED  BY <5>1, <5>2, <6>1, <6>2, StoreFetched, ZenonT(30)
        <5>4. /\ Cardinality(LoadsLeft(prog, x, j, LQ)) \in Nat
              /\ Cardinality(StoresLeft(prog, x, new)) \in Nat
          BY <1>5, <4>1, LeftFinite
        <5>5. cnt = 1  BY <4>3
        <5> HIDE DEF cnt
        <5>6. /\ cnt \in Nat
              /\ Cardinality(LoadsLeft(prog, x, j, LQ)) + Cardinality(StoresLeft(prog, x, SQ)) =
                   Cardinality(LoadsLeft(prog, x, j, LQ)) + Cardinality(StoresLeft(prog, x, new)) + cnt
          BY <5>3, <5>4, <5>5
        <5>7. OpsOf(prog, y, j, LQ, new)  BY <1>5, <3>0, <3>1, <4>1, <5>6, OpsLess
        <5> QED  BY <5>7 DEF y, new
      <4>4. CASE j # i
        <5>1. \A l \in 1 .. Len(x.sq_index) : x.sq_index[l] \in SqSlots /\ x.sq_index[l] # s
          BY <4>1, <4>2, <4>4, SeqElements
        <5>2. \A t \in SqSlots : t # s => (new.entry[t].fetched <=> SQ.entry[t].fetched)  BY <1>13
        <5>3. Len(prog[x.id].st) \in Nat  BY <1>5, <4>1, InstructionFacts
        <5>4. \A l \in 1 .. Len(prog[x.id].st) : l > Len(x.sq_index) \/
                (new.entry[x.sq_index[l]].fetched <=> SQ.entry[x.sq_index[l]].fetched)
          <6> TAKE l \in 1 .. Len(prog[x.id].st)
          <6>1. CASE l \in 1 .. Len(x.sq_index)  BY <5>1, <5>2, <6>1
          <6>2. CASE l \notin 1 .. Len(x.sq_index)  BY <4>1, <5>3, <6>2
          <6> QED  BY <6>1, <6>2
        <5>5. y.num_mem_ops = x.num_mem_ops
          <6>1. cnt = 0  BY <4>4
          <6>2. x.num_mem_ops \in Nat
            <7> HIDE DEF x
            <7> QED  BY <1>5, <3>0, <4>1, OpsFacts
          <6> QED  BY <3>1, <6>1, <6>2
        <5>6. \A t \in Busy(LQ) : \A l : LoadOf(LQ, t, j, l) => l \in x.source_added
          BY <1>1, LoadAdded DEF LoadInv
        <5> HIDE DEF x, y, new, cnt
        <5>7. OpsOf(prog, y, j, LQ, new)  BY <3>0, <3>1, <5>4, <5>5, <5>6, OpsStay
        <5> QED  BY <5>7 DEF y, new
      <4> QED  BY <4>3, <4>4
    <3> QED  BY <3>2, <3>3
  <2> QED  BY <1>2, <2>1 DEF OpsInv, OpsHold
<1>18. PlaceInv'
  <2>1. Unfetched(SQ') = Unfetched(SQ) \ {s}
    <3> DEFINE a == Unfetched(SQ')
               b == Unfetched(SQ)
    <3>1. \A t : t \in a <=> t \in SqSlots /\ SQ'.entry[t].id # 0 /\ ~SQ'.entry[t].fetched
      BY <1>12 DEF Unfetched, Busy
    <3>2. \A t : t \in b <=> t \in SqSlots /\ SQ.entry[t].id # 0 /\ ~SQ.entry[t].fetched
      BY <1>7 DEF Unfetched, Busy
    <3> HIDE DEF a, b
    <3>3. \A t : t \in a <=> t \in b /\ t # s  BY <1>13, <3>1, <3>2
    <3>4. a = b \ {s}  BY <3>3
    <3> QED  BY <3>4 DEF a, b
  <2> QED  BY <1>1, <1>2, <1>3, <2>1 DEF PlaceInv, s
<1>19. CountInv'
  <2>1. \A j \in Slots : /\ Cardinality({x \in {d} : x.rob_index = j}) \in Nat
                         /\ Cardinality({x \in {d} : x.rob_index = j}) > 0 => E[j].id # 0
    <3> TAKE j \in Slots
    <3>1. Cardinality({x \in {d} : x.rob_index = j}) = IF d.rob_index = j THEN 1 ELSE 0  BY OneOf
    <3> QED  BY <1>4, <1>6, <3>1
  <2> QED  BY <1>1, <1>2, <1>15, <1>17, <2>1, FinishedCounters
<1>20. WqInv'  BY <1>1, <1>2, WqStay
<1> QED  BY <1>15, <1>16, <1>17, <1>18, <1>19, <1>20 DEF MemInv

(* The entries of an answer that are of the instruction in slot j: as many as  *)
(* its loads they are of.                                                      *)
EntriesAt(lq, A, j) == {x \in {lq.entry[s] : s \in A} : x.rob_index = j}
LoadsAt(lq, A, j)   == {lq.entry[s].op : s \in {t \in A : lq.entry[t].rob_index = j}}

LEMMA AnsweredAt ==
  ASSUME NEW ent, NEW lq, LqHolds(ent, lq), NEW A \in SUBSET Busy(lq), NEW j
  PROVE  /\ IsFiniteSet(LoadsAt(lq, A, j)) /\ Cardinality(EntriesAt(lq, A, j)) \in Nat
         /\ Cardinality(LoadsAt(lq, A, j)) = Cardinality(EntriesAt(lq, A, j))
         /\ Cardinality(EntriesAt(lq, A, j)) > 0 => j \in Slots /\ ent[j].id # 0
<1> DEFINE S == {t \in A : lq.entry[t].rob_index = j}
           T == EntriesAt(lq, A, j)
           G == LoadsAt(lq, A, j)
           f == [s \in S |-> lq.entry[s]]
           g == [s \in S |-> lq.entry[s].op]
<1>1. IsFiniteSet(S)
  <2>1. IsFiniteSet(Busy(lq)) /\ S \subseteq Busy(lq)  BY BusyLq
  <2> HIDE DEF S
  <2> QED  BY <2>1, FS_Subset
<1>2. \A s, t \in S : lq.entry[s].op = lq.entry[t].op => s = t
  <2> TAKE s, t \in S
  <2> HAVE lq.entry[s].op = lq.entry[t].op
  <2>1. LoadOf(lq, t, lq.entry[s].rob_index, lq.entry[s].op)  BY DEF LoadOf
  <2> QED  BY <2>1 DEF LqHolds
<1>3. OneToOne(f, S, T)
  <2>1. \A x : x \in T <=> \E s \in S : lq.entry[s] = x  BY DEF EntriesAt
  <2>2. \A s \in S : f[s] = lq.entry[s]  OBVIOUS
  <2>3. f \in [S -> T]
    <3>1. \A s \in S : lq.entry[s] \in T  BY <2>1
    <3> HIDE DEF S, T
    <3> QED  BY <3>1
  <2> HIDE DEF S, T, f
  <2>4. Onto(f, S, T)  BY <2>1, <2>2 DEF Onto
  <2>5. \A x, y \in S : f[x] = f[y] => x = y  BY <1>2, <2>2
  <2> QED  BY <2>3, <2>4, <2>5 DEF OneToOne
<1>4. OneToOne(g, S, G)
  <2>1. \A x : x \in G <=> \E s \in S : lq.entry[s].op = x  BY DEF LoadsAt
  <2>2. \A s \in S : g[s] = lq.entry[s].op  OBVIOUS
  <2>3. g \in [S -> G]
    <3>1. \A s \in S : lq.entry[s].op \in G  BY <2>1
    <3> HIDE DEF S, G
    <3> QED  BY <3>1
  <2> HIDE DEF S, G, g
  <2>4. Onto(g, S, G)  BY <2>1, <2>2 DEF Onto
  <2>5. \A x, y \in S : g[x] = g[y] => x = y  BY <1>2, <2>2
  <2> QED  BY <2>3, <2>4, <2>5 DEF OneToOne
<1>5. Cardinality(T) > 0 => j \in Slots /\ ent[j].id # 0
  <2>1. CASE S = {}
    <3>1. T = {}  BY <2>1 DEF EntriesAt
    <3>2. Cardinality(T) = 0  BY <3>1, FS_EmptySet
    <3> QED  BY <3>2
  <2>2. CASE S # {}
    <3>1. PICK s \in S : TRUE  BY <2>2
    <3>2. s \in Busy(lq) /\ LoadOf(lq, s, j, lq.entry[s].op)  BY <3>1 DEF LoadOf
    <3> QED  BY <3>2, LoadAdded
  <2> QED  BY <2>1, <2>2
<1> HIDE DEF S, T, G, f, g
<1>6. IsFiniteSet(T) /\ Cardinality(T) = Cardinality(S)  BY <1>1, <1>3, SameSize
<1>7. IsFiniteSet(G) /\ Cardinality(G) = Cardinality(S)  BY <1>1, <1>4, SameSize
<1>8. Cardinality(S) \in Nat  BY <1>1, FS_CardinalityType
<1> QED  BY <1>5, <1>6, <1>7, <1>8 DEF T, G

LEMMA LoadsAnswered ==
  ASSUME NEW p \in Programs, NEW ent, NEW lq, LqHolds(ent, lq), NEW j \in Slots, NEW x, x = ent[j],
         x.id \in 1 .. Len(p), x.source_added \subseteq 1 .. Len(p[x.id].ld),
         NEW A \in SUBSET Busy(lq), NEW lq1, Busy(lq1) = Busy(lq) \ A,
         \A s \in Busy(lq1) : lq1.entry[s] = lq.entry[s]
  PROVE  Cardinality(LoadsLeft(p, x, j, lq)) =
           Cardinality(LoadsLeft(p, x, j, lq1)) + Cardinality(EntriesAt(lq, A, j))
<1> DEFINE a == LoadsLeft(p, x, j, lq)
           b == LoadsLeft(p, x, j, lq1)
           G == LoadsAt(lq, A, j)
           ld == Len(p[x.id].ld)
<1>1. \A k : k \in a <=> k \in 1 .. ld /\ (k \notin x.source_added \/ \E s \in Busy(lq) : LoadOf(lq, s, j, k))
  BY DEF LoadsLeft
<1>2. \A k : k \in b <=> k \in 1 .. ld /\ (k \notin x.source_added \/ \E s \in Busy(lq1) : LoadOf(lq1, s, j, k))
  BY DEF LoadsLeft
<1>3. \A k : k \in G <=> \E s \in A : LoadOf(lq, s, j, k)  BY DEF LoadsAt, LoadOf
<1>4. \A s \in Busy(lq) : \A k : LoadOf(lq, s, j, k) => k \in x.source_added  BY LoadAdded
<1>5. \A s, t \in Busy(lq) : \A k : LoadOf(lq, s, j, k) /\ LoadOf(lq, t, j, k) => s = t
  BY DEF LqHolds, LoadOf
<1>6. \A s \in Busy(lq1) : \A k : LoadOf(lq1, s, j, k) <=> LoadOf(lq, s, j, k)  BY DEF LoadOf
<1>7. IsFiniteSet(a) /\ Cardinality(a) \in Nat /\ Cardinality(b) \in Nat  BY LeftFinite
<1>8. IsFiniteSet(G) /\ Cardinality(G) = Cardinality(EntriesAt(lq, A, j)) /\ Cardinality(G) \in Nat
  BY AnsweredAt
<1>9. x.source_added \subseteq 1 .. ld  OBVIOUS
<1> HIDE DEF a, b, G, ld
<1>10. \A k : k \in b <=> k \in a /\ k \notin G
  <2> TAKE k
  <2>1. CASE k \in G
    <3>1. PICK s \in A : LoadOf(lq, s, j, k)  BY <1>3, <2>1
    <3>2. k \in x.source_added  BY <1>4, <3>1
    <3>3. ~\E t \in Busy(lq1) : LoadOf(lq1, t, j, k)  BY <1>5, <1>6, <3>1
    <3> QED  BY <1>2, <2>1, <3>2, <3>3
  <2>2. CASE k \notin G
    <3>1. (\E s \in Busy(lq1) : LoadOf(lq1, s, j, k)) <=> (\E s \in Busy(lq) : LoadOf(lq, s, j, k))
      BY <1>3, <1>6, <2>2
    <3> QED  BY <1>1, <1>2, <2>2, <3>1
  <2> QED  BY <2>1, <2>2
<1>11. G \subseteq a  BY <1>1, <1>3, <1>4, <1>9
<1>12. b = a \ G /\ a \cap G = G  BY <1>10, <1>11
<1>13. Cardinality(a \ G) = Cardinality(a) - Cardinality(a \cap G)  BY <1>7, FS_Difference
<1>14. Cardinality(b) = Cardinality(a) - Cardinality(G)  BY <1>12, <1>13
<1>15. Cardinality(G) \in Nat  BY <1>8
<1>16. Cardinality(a) = Cardinality(b) + Cardinality(G)  BY <1>7, <1>14, <1>15
<1> QED  BY <1>8, <1>16 DEF a, b

LEMMA L1dAnswersMem == ASSUME CoreInv, CoreInv', MemInv, L1dAnswers PROVE MemInv'
<1>1. PICK A \in SUBSET l1d : CompleteLoads(A)  BY DEF L1dAnswers
<1> DEFINE E == ROB.entry
           F == ROB'.entry
           ops == {LQ.entry[s] : s \in A}
           n(j) == Cardinality(EntriesAt(LQ, A, j))
<1>2. StoreInv /\ LoadInv /\ OpsInv /\ PlaceInv /\ CountInv /\ WqInv  BY DEF MemInv
<1>3. /\ Finished(ops) /\ l1d' = l1d \ A
      /\ LQ' = [LQ EXCEPT !.entry = [s \in DOMAIN LQ.entry |-> IF s \in A THEN FreeSlot ELSE LQ.entry[s]],
                          !.occupancy = LQ.occupancy - Cardinality(A)]
      /\ UNCHANGED <<prog, read, dispatched, retired, RTL0, RTL1, RTS0, RTS1, SQ, STA, dtlb, wq>>
  BY <1>1 DEF CompleteLoads, frontVars, rings
<1>4. /\ A \in SUBSET Busy(LQ)
      /\ InOnePlace(LqSlots, RTL0, Asked(dtlb, "LOAD"), RTL1, l1d \ A, Busy(LQ) \ A)
  <2>1. InOnePlace(LqSlots, RTL0, Asked(dtlb, "LOAD"), RTL1, l1d, Busy(LQ))  BY <1>2 DEF PlaceInv
  <2> QED  BY <2>1, PlaceDone
<1>5. prog \in Programs  BY DEF CoreInv, TraceInv
<1>6. /\ LqHolds(E, LQ) /\ DOMAIN LQ = {"entry", "occupancy"} /\ LQ.entry \in [LqSlots -> QueueSlot]
  BY <1>2 DEF LoadInv, LqHolds
<1>7. \A j \in Slots :
         /\ F[j].id = E[j].id /\ F[j].source_added = E[j].source_added
         /\ F[j].sq_index = E[j].sq_index /\ F[j].executed = E[j].executed
         /\ F[j].num_mem_ops = E[j].num_mem_ops - n(j)
  BY <1>3, FinishedEntries DEF EntriesAt
<1>8. /\ DOMAIN LQ' = DOMAIN LQ /\ LQ'.entry \in [LqSlots -> QueueSlot]
      /\ LQ'.occupancy = LQ.occupancy - Cardinality(A)
      /\ \A s \in LqSlots : LQ'.entry[s] = IF s \in A THEN FreeSlot ELSE LQ.entry[s]
  BY <1>3, <1>6, FreeSlotType
<1>9. /\ LqHolds(F, LQ') /\ Busy(LQ') = Busy(LQ) \ A
      /\ \A s \in Busy(LQ') : LQ'.entry[s] = LQ.entry[s]
  <2> DEFINE new == LQ'
  <2>1. \A j \in Slots : F[j].id = E[j].id /\ F[j].source_added = E[j].source_added  BY <1>7
  <2>2. /\ DOMAIN new = DOMAIN LQ /\ new.entry \in [LqSlots -> QueueSlot]
        /\ new.occupancy = LQ.occupancy - Cardinality(A)
        /\ \A s \in LqSlots : new.entry[s] = IF s \in A THEN FreeSlot ELSE LQ.entry[s]
    BY <1>8
  <2> HIDE DEF new, E, F
  <2>3. /\ LqHolds(F, new) /\ Busy(new) = Busy(LQ) \ A
        /\ \A s \in Busy(new) : new.entry[s] = LQ.entry[s]
    BY <1>4, <1>6, <2>1, <2>2, LqTake
  <2> QED  BY <2>3 DEF new, E, F
<1>10. \A j \in Slots : n(j) \in Nat /\ (n(j) > 0 => E[j].id # 0)
  BY <1>4, <1>6, AnsweredAt
<1>11. StoreInv'  BY <1>2, <1>3, <1>7, StoreStay
<1>12. LoadInv'  BY <1>9 DEF LoadInv
<1>13. OpsInv'
  <2>1. ASSUME NEW j \in Slots PROVE OpsOf(prog, F[j], j, LQ', SQ)
    <3> DEFINE x == E[j]
               y == F[j]
               cnt == n(j)
               new == LQ'
    <3>0. OpsOf(prog, x, j, LQ, SQ)  BY <1>2 DEF OpsInv, OpsHold
    <3>1. /\ y.id = x.id /\ y.source_added = x.source_added
          /\ y.sq_index = x.sq_index /\ y.executed = x.executed
          /\ y.num_mem_ops = x.num_mem_ops - cnt /\ cnt \in Nat
          /\ cnt > 0 => x.id # 0
      BY <1>7, <1>10
    <3>2. CASE x.id = 0
      <4>1. x.num_mem_ops = 0 /\ x.source_added = {} /\ x.sq_index = <<>>  BY <3>0, <3>2 DEF OpsOf
      <4> HIDE DEF x, y, cnt, new
      <4>2. cnt = 0  BY <3>1, <3>2
      <4>3. /\ y.id = 0 /\ y.num_mem_ops = 0 /\ y.source_added = {} /\ y.sq_index = <<>>
        BY <3>1, <3>2, <4>1, <4>2
      <4>4. OpsOf(prog, y, j, new, SQ)  BY <4>3 DEF OpsOf
      <4> QED  BY <4>4 DEF y, new
    <3>3. CASE x.id # 0
      <4>1. x.id \in 1 .. Len(prog)  BY <1>2, <3>3, EntryFacts
      <4>2. x.source_added \subseteq 1 .. Len(prog[x.id].ld)  BY <3>0, <3>3 DEF OpsOf
      <4>3. Busy(new) = Busy(LQ) \ A /\ \A s \in Busy(new) : new.entry[s] = LQ.entry[s]  BY <1>9
      <4>4. x = E[j]  OBVIOUS
      <4> HIDE DEF x, y, new, E, F
      <4>5. Cardinality(LoadsLeft(prog, x, j, LQ)) = Cardinality(LoadsLeft(prog, x, j, new)) + cnt
        BY <1>4, <1>5, <1>6, <4>1, <4>2, <4>3, <4>4, LoadsAnswered
      <4>6. /\ Cardinality(LoadsLeft(prog, x, j, new)) \in Nat
            /\ Cardinality(StoresLeft(prog, x, SQ)) \in Nat
        BY <1>5, <4>1, LeftFinite
      <4> HIDE DEF cnt
      <4>7. Cardinality(LoadsLeft(prog, x, j, LQ)) + Cardinality(StoresLeft(prog, x, SQ)) =
              Cardinality(LoadsLeft(prog, x, j, new)) + Cardinality(StoresLeft(prog, x, SQ)) + cnt
        BY <3>1, <4>5, <4>6
      <4>8. OpsOf(prog, y, j, new, SQ)  BY <1>5, <3>0, <3>1, <4>1, <4>7, OpsLess
      <4> QED  BY <4>8 DEF y, new, F
    <3> QED  BY <3>2, <3>3
  <2>2. UNCHANGED <<prog, SQ>>  BY <1>3
  <2>3. OpsHold(prog, F, LQ', SQ)  BY <2>1 DEF OpsHold
  <2> QED  BY <2>2, <2>3 DEF OpsInv
<1>14. PlaceInv'
  <2>1. l1d' = l1d \ A /\ UNCHANGED <<RTL0, RTL1, RTS0, RTS1, SQ, dtlb>>  BY <1>3
  <2>2. Busy(LQ') = Busy(LQ) \ A  BY <1>9
  <2>3. InOnePlace(LqSlots, RTL0, Asked(dtlb, "LOAD"), RTL1, l1d', Busy(LQ'))  BY <1>4, <2>1, <2>2
  <2>4. InOnePlace(SqSlots, RTS0, Asked(dtlb, "RFO"), RTS1, {}, Unfetched(SQ)) /\ DtlbType(dtlb)
    BY <1>2 DEF PlaceInv
  <2> QED  BY <2>1, <2>3, <2>4 DEF PlaceInv
<1>15. CountInv'
  <2>1. \A j \in Slots : /\ Cardinality({x \in ops : x.rob_index = j}) \in Nat
                         /\ Cardinality({x \in ops : x.rob_index = j}) > 0 => E[j].id # 0
    BY <1>10 DEF EntriesAt
  <2> HIDE DEF ops
  <2> QED  BY <1>2, <1>3, <1>11, <1>13, <2>1, FinishedCounters
<1>16. WqInv'  BY <1>2, <1>3, WqStay
<1> QED  BY <1>11, <1>12, <1>13, <1>14, <1>15, <1>16 DEF MemInv

--------------------------------------------------------------------------------
(* Retirement *)

LEMMA RetireEntries ==
  ASSUME CoreInv, RetireRob
  PROVE  /\ ROB'.entry[ROB.head].id = 0 /\ ROB'.entry[ROB.head].num_mem_ops = 0
         /\ ROB'.entry[ROB.head].source_added = {} /\ ROB'.entry[ROB.head].sq_index = <<>>
<1> DEFINE t == ROB.head
<1>1. t \in Slots  BY RetireCore
<1>2. ROB' = [ROB EXCEPT !.entry = [ROB.entry EXCEPT ![t] = EmptyEntry],
                         !.head = (ROB.head + 1) % ROB_SIZE,
                         !.occupancy = ROB.occupancy - 1]
  BY <1>1 DEF RetireRob, CoreInv, BufferShape
<1> HIDE DEF t
<1>3. ROB'.entry = [ROB.entry EXCEPT ![t] = EmptyEntry]  BY <1>2 DEF CoreInv, BufferShape
<1>4. ROB'.entry[t] = EmptyEntry  BY <1>1, <1>3 DEF CoreInv, BufferShape
<1>5. /\ EmptyEntry.id = 0 /\ EmptyEntry.num_mem_ops = 0
      /\ EmptyEntry.source_added = {} /\ EmptyEntry.sq_index = <<>>
  BY DEF EmptyEntry
<1> QED  BY <1>4, <1>5 DEF t

(* What the head has done when it leaves. *)
LEMMA RetireFacts ==
  ASSUME CoreInv, MemInv, RetireRob, NEW x, x = ROB.entry[ROB.head], NEW n, n = retired + 1
  PROVE  /\ ROB.head \in Slots /\ x.id = n /\ n \in 1 .. Len(prog) /\ n =< dispatched
         /\ prog \in Programs /\ retired \in Nat /\ retired < Len(prog) /\ n - 1 = retired
         /\ HasIndex(prog, n, x.sq_index, Entered)
         /\ Len(x.sq_index) = Len(prog[n].st) /\ x.sq_index \in Seq(SqSlots)
         /\ Len(prog[n].st) \in Nat
         /\ StoresBefore(prog, n) =< Entered
         /\ \A s \in Busy(LQ) : LQ.entry[s].rob_index # ROB.head
         /\ \A k \in 1 .. Len(x.sq_index) :
              /\ x.sq_index[k] = QueuePlace(Nth(prog, n, k)) /\ x.sq_index[k] \in SqSlots
              /\ SQ.entry[x.sq_index[k]].id = n /\ SQ.entry[x.sq_index[k]].op = k
              /\ SQ.entry[x.sq_index[k]].rob_index = ROB.head
              /\ SQ.entry[x.sq_index[k]].fetched
<1> DEFINE t == ROB.head
           e == Entered
<1>1. t \in Slots /\ x.id = n /\ retired < dispatched  BY RetireCore
<1>2. x.executed = COMPLETED  BY DEF RetireRob
<1>3. StoreInv /\ LoadInv /\ OpsInv  BY DEF MemInv
<1>4. x.id # 0  BY <1>1 DEF CoreInv, Holds
<1>5. /\ prog \in Programs /\ Len(prog) \in Nat /\ retired \in Nat /\ dispatched \in Nat
      /\ x.id \in 1 .. Len(prog) /\ HasIndex(prog, x.id, x.sq_index, e)
      /\ x.sq_index \in Seq(SqSlots) /\ Len(x.sq_index) =< Len(prog[x.id].st)
      /\ Len(prog[x.id].st) \in Nat
  BY <1>1, <1>3, <1>4, EntryFacts
<1>6. /\ StoresHold(prog, ROB.entry, retired, dispatched, e, SQ) /\ e \in Nat
      /\ StoresBefore(prog, retired) =< e /\ Holds(ROB.entry, retired, dispatched)
  BY <1>3 DEF StoreInv, StoresHold, SqHolds, CoreInv
<1>7. OpsOf(prog, x, t, LQ, SQ)  BY <1>1, <1>3 DEF OpsInv, OpsHold
<1>8. x.num_mem_ops = 0 /\ AllAdded(prog, x)  BY <1>2, <1>4, <1>7 DEF OpsOf, COMPLETED, NotYet
<1>9. Len(x.sq_index) = Len(prog[n].st)  BY <1>1, <1>8 DEF AllAdded
<1> HIDE DEF e, t
<1>10. /\ \A s \in Busy(LQ) : ~(\E k \in x.source_added : LoadOf(LQ, s, t, k))
       /\ \A k \in 1 .. Len(x.sq_index) : SQ.entry[x.sq_index[k]].fetched
  BY <1>5, <1>7, <1>8, OpsFacts
<1>11. \A s \in Busy(LQ) : LQ.entry[s].rob_index # t
  <2> TAKE s \in Busy(LQ)
  <2> SUFFICES ASSUME LQ.entry[s].rob_index = t PROVE FALSE  OBVIOUS
  <2>1. LoadOf(LQ, s, t, LQ.entry[s].op)  BY DEF LoadOf
  <2>2. LQ.entry[s].op \in ROB.entry[t].source_added  BY <1>3, <2>1, LoadAdded DEF LoadInv
  <2> QED  BY <1>10, <2>1, <2>2 DEF t
<1>12. \A k \in 1 .. Len(x.sq_index) :
         /\ x.sq_index[k] = QueuePlace(Nth(prog, n, k)) /\ x.sq_index[k] \in SqSlots
         /\ IsEntryOf(SQ.entry[x.sq_index[k]], n, k)
         /\ SQ.entry[x.sq_index[k]].rob_index = t
  <2> TAKE k \in 1 .. Len(x.sq_index)
  <2> DEFINE E == ROB.entry
  <2>1. x = E[t] /\ E[t].id # 0 /\ k \in 1 .. Len(E[t].sq_index) /\ E[t].id = n
    BY <1>1, <1>4 DEF t
  <2>2. t \in Slots /\ prog \in Programs /\ Holds(E, retired, dispatched)
        /\ StoresHold(prog, E, retired, dispatched, e, SQ)
    BY <1>1, <1>5, <1>6 DEF t
  <2> HIDE DEF E
  <2>3. /\ E[t].sq_index[k] \in SqSlots /\ E[t].sq_index[k] = QueuePlace(Nth(prog, E[t].id, k))
        /\ IsEntryOf(SQ.entry[E[t].sq_index[k]], E[t].id, k)
        /\ SQ.entry[E[t].sq_index[k]].rob_index = t
    BY <2>1, <2>2, EntryOfStore
  <2> QED  BY <2>1, <2>3
<1>13. \A k \in 1 .. Len(x.sq_index) :
         SQ.entry[x.sq_index[k]].id = n /\ SQ.entry[x.sq_index[k]].op = k
  BY <1>12 DEF IsEntryOf
<1>14. n - 1 = retired /\ n =< dispatched /\ retired < Len(prog) /\ n \in 1 .. Len(prog)  BY <1>1, <1>5
<1>15. StoresBefore(prog, n - 1) =< e  BY <1>6, <1>14
<1>16. HasIndex(prog, n, x.sq_index, e)  BY <1>1, <1>5
<1>17. StoresBefore(prog, n) =< e
  <2> HIDE DEF HasIndex
  <2> QED  BY <1>5, <1>6, <1>9, <1>14, <1>15, <1>16, IndexFull
<1>18. /\ t \in Slots /\ x.id = n /\ prog \in Programs /\ retired \in Nat
       /\ x.sq_index \in Seq(SqSlots) /\ Len(prog[n].st) \in Nat
  BY <1>1, <1>5
<1>19. \A k \in 1 .. Len(x.sq_index) :
         /\ x.sq_index[k] = QueuePlace(Nth(prog, n, k)) /\ x.sq_index[k] \in SqSlots
         /\ SQ.entry[x.sq_index[k]].id = n /\ SQ.entry[x.sq_index[k]].op = k
         /\ SQ.entry[x.sq_index[k]].rob_index = t
         /\ SQ.entry[x.sq_index[k]].fetched
  BY <1>10, <1>12, <1>13, Zenon
<1> QED  BY <1>9, <1>11, <1>14, <1>16, <1>17, <1>18, <1>19, Zenon DEF t, e

LEMMA RetireMem == ASSUME CoreInv, MemInv, RetireRob PROVE MemInv'
<1> DEFINE t == ROB.head
           E == ROB.entry
           F == ROB'.entry
           x == E[t]
           n == retired + 1
           q == x.sq_index
           l == Len(prog[n].st)
           e == Entered
           new == SQ'
<1>1. StoreInv /\ LoadInv /\ OpsInv /\ PlaceInv /\ CountInv /\ WqInv  BY DEF MemInv
<1>2. /\ t \in Slots /\ x.id = n /\ n \in 1 .. Len(prog) /\ n =< dispatched
      /\ prog \in Programs /\ retired \in Nat /\ retired < Len(prog) /\ n - 1 = retired
      /\ Len(q) = l /\ q \in Seq(SqSlots) /\ l \in Nat /\ StoresBefore(prog, n) =< e
      /\ \A s \in Busy(LQ) : LQ.entry[s].rob_index # t
  BY RetireFacts
<1>3. \A k \in 1 .. Len(q) :
        /\ q[k] = QueuePlace(Nth(prog, n, k)) /\ q[k] \in SqSlots
        /\ SQ.entry[q[k]].id = n /\ SQ.entry[q[k]].op = k
        /\ SQ.entry[q[k]].rob_index = t /\ SQ.entry[q[k]].fetched
  BY RetireFacts
<1>4. /\ F[t].id = 0 /\ F[t].num_mem_ops = 0 /\ F[t].source_added = {} /\ F[t].sq_index = <<>>
      /\ \A k \in Slots : k # t => F[k] = E[k]
  BY RetireEntries, RetireCore
<1>5. /\ wq' = wq \o [k \in 1 .. l |-> SQ.entry[q[k]]]
      /\ SQ' = [SQ EXCEPT
                  !.entry = [s \in DOMAIN SQ.entry |-> IF s \in Range(q) THEN FreeSlot ELSE SQ.entry[s]],
                  !.occupancy = SQ.occupancy - Len(q),
                  !.head = (SQ.head + Len(q)) % SQ_SIZE]
  BY <1>2 DEF RetireRob, Instr
<1>6. /\ UNCHANGED <<prog, read, dispatched, LQ, STA, dtlb, l1d, RTL0, RTL1, RTS0, RTS1>>
      /\ retired' = n /\ completed_executions' = completed_executions - 1
      /\ UNCHANGED <<inflight_reg_executions, inflight_mem_executions>>
      /\ x.executed = COMPLETED
  BY DEF RetireRob, frontVars, rings
<1>7. /\ StoresHold(prog, E, retired, dispatched, e, SQ) /\ SqHolds(prog, retired, e, SQ)
      /\ e \in Nat /\ StaHolds(prog, e, read, STA) /\ dispatched \in 0 .. Len(prog)
      /\ e =< StoresBefore(prog, dispatched) /\ Holds(E, retired, dispatched)
      /\ \A i \in Slots : E[i].id # 0 => HasIndex(prog, E[i].id, E[i].sq_index, e)
  BY <1>1 DEF StoreInv, StoresHold, SqHolds, CoreInv
<1>8. /\ DOMAIN SQ = {"entry", "occupancy", "head", "tail"} /\ SQ.entry \in [SqSlots -> QueueSlot]
  BY <1>7 DEF SqHolds
<1> HIDE DEF q, l, e, n
<1>9. /\ DOMAIN new = DOMAIN SQ /\ new.entry \in [SqSlots -> QueueSlot]
      /\ new.occupancy = SQ.occupancy - l /\ new.tail = SQ.tail
      /\ new.head = (SQ.head + l) % SQ_SIZE
      /\ \A s \in SqSlots : new.entry[s] = IF s \in Range(q) THEN FreeSlot ELSE SQ.entry[s]
  BY <1>2, <1>5, <1>8, FreeSlotType
<1>10. \A s : s \in Range(q) <=> \E k \in 1 .. l : s = QueuePlace(Nth(prog, n, k))
  <2>1. DOMAIN q = 1 .. l  BY <1>2, SeqElements
  <2> QED  BY <1>2, <1>3, <2>1 DEF Range
<1>11. \A s \in Range(q) : \E k \in 1 .. Len(q) : s = q[k]
  BY <1>2, SeqElements DEF Range
<1> HIDE DEF new, x, E, F, t
<1>12. SqHolds(prog, n, e, new)
  <2>1. \A s \in SqSlots :
          new.entry[s] = IF \E k \in 1 .. l : s = QueuePlace(Nth(prog, n, k)) THEN FreeSlot
                         ELSE SQ.entry[s]
    BY <1>9, <1>10
  <2>2. SqHolds(prog, retired, e, SQ) /\ retired < Len(prog) /\ n = retired + 1
        /\ prog \in Programs /\ StoresBefore(prog, n) =< e
    BY <1>2, <1>7 DEF n
  <2>3. \A m : m = n => (l = Len(prog[m].st))  BY DEF l
  <2> QED  BY <1>9, <2>1, <2>2, SqGive DEF l
<1>13. Entered' = e
  <2>1. StoresBefore(prog, n) = StoresBefore(prog, n - 1) + l  BY <1>2, StoresNext DEF l
  <2>2. StoresBefore(prog, n - 1) \in Nat /\ StoresBefore(prog, n) \in Nat
    BY <1>2, ProgramLength, StoresFinite
  <2>3. e = StoresBefore(prog, n - 1) + SQ.occupancy  BY <1>2 DEF e, Entered
  <2>4. SQ.occupancy \in Int
    <3>1. SQ.occupancy = e - StoresBefore(prog, retired)  BY <1>7 DEF SqHolds
    <3>2. StoresBefore(prog, retired) \in Nat  BY <1>2, <2>2
    <3> QED  BY <1>7, <3>1, <3>2
  <2>5. Entered' = StoresBefore(prog, n) + (SQ.occupancy - l)
    BY <1>6, <1>9 DEF Entered, new
  <2> DEFINE b == StoresBefore(prog, n - 1)
  <2>6. StoresBefore(prog, n) = b + l /\ b \in Nat /\ e = b + SQ.occupancy  BY <2>1, <2>2, <2>3
  <2> HIDE DEF b
  <2> QED  BY <1>2, <2>4, <2>5, <2>6
<1>14. StoreInv'
  <2>1. \A i \in Slots : F[i].id # 0 => HasIndex(prog, F[i].id, F[i].sq_index, e)
    <3> TAKE i \in Slots
    <3>1. CASE i = t  BY <1>4, <3>1
    <3>2. CASE i # t  BY <1>4, <1>7, <3>2
    <3> QED  BY <3>1, <3>2
  <2>2. StoresHold(prog, F, n, dispatched, e, new)  BY <1>7, <1>12, <2>1 DEF StoresHold
  <2>3. StaHolds(prog, e, read, STA)  BY <1>7
  <2> QED  BY <1>6, <1>13, <2>2, <2>3 DEF StoreInv, F, new
<1>15. LoadInv'
  <2>1. LqHolds(E, LQ)  BY <1>1 DEF LoadInv, E
  <2>2. \A s \in Busy(LQ) : F[LQ.entry[s].rob_index] = E[LQ.entry[s].rob_index]
    <3> TAKE s \in Busy(LQ)
    <3>1. LQ.entry[s].rob_index \in Slots  BY <2>1, BusyLq DEF QueueSlot
    <3> QED  BY <1>2, <1>4, <3>1
  <2>3. LqHolds(F, LQ)  BY <2>1, <2>2, LqStay
  <2> QED  BY <1>6, <2>3 DEF LoadInv, F
<1>16. OpsInv'
  <2>1. ASSUME NEW j \in Slots PROVE OpsOf(prog, F[j], j, LQ, new)
    <3>1. CASE j = t  BY <1>4, <3>1 DEF OpsOf
    <3>2. CASE j # t
      <4> DEFINE y == F[j]
                 z == E[j]
      <4>1. y = z  BY <1>4, <3>2
      <4>2. OpsOf(prog, z, j, LQ, SQ)  BY <1>1 DEF OpsInv, OpsHold, E
      <4>3. CASE z.id = 0
        <5>1. z.num_mem_ops = 0 /\ z.source_added = {} /\ z.sq_index = <<>>  BY <4>2, <4>3 DEF OpsOf
        <5> QED  BY <4>1, <4>3, <5>1 DEF OpsOf
      <4>4. CASE z.id # 0
        <5>1. /\ z.id \in 1 .. Len(prog) /\ z.sq_index \in Seq(SqSlots)
              /\ Len(z.sq_index) \in Nat /\ Len(prog[z.id].st) \in Nat
          BY <1>1, <4>4, EntryFacts DEF E
        <5>2. ASSUME NEW k \in 1 .. Len(z.sq_index)
              PROVE  new.entry[z.sq_index[k]] = SQ.entry[z.sq_index[k]]
          <6>1. z.sq_index[k] \in SqSlots /\ SQ.entry[z.sq_index[k]].rob_index = j
            BY <1>2, <1>7, <4>4, EntryOfStore
          <6>2. z.sq_index[k] \notin Range(q)
            <7> SUFFICES ASSUME z.sq_index[k] \in Range(q) PROVE FALSE  OBVIOUS
            <7>1. PICK m \in 1 .. Len(q) : z.sq_index[k] = q[m]  BY <1>11
            <7> QED  BY <1>3, <3>2, <6>1, <7>1
          <6> QED  BY <1>9, <6>1, <6>2
        <5>3. \A k \in 1 .. Len(prog[z.id].st) : k > Len(z.sq_index) \/
                (new.entry[z.sq_index[k]].fetched <=> SQ.entry[z.sq_index[k]].fetched)
          <6> TAKE k \in 1 .. Len(prog[z.id].st)
          <6>1. CASE k \in 1 .. Len(z.sq_index)  BY <5>2, <6>1
          <6>2. CASE k \notin 1 .. Len(z.sq_index)  BY <5>1, <6>2
          <6> QED  BY <6>1, <6>2
        <5>4. \A s \in Busy(LQ) : \A k : LoadOf(LQ, s, j, k) => k \in z.source_added
          BY <1>1, LoadAdded DEF LoadInv, E
        <5> HIDE DEF y, z
        <5>5. OpsOf(prog, y, j, LQ, new)  BY <4>1, <4>2, <5>3, <5>4, OpsStay
        <5> QED  BY <5>5 DEF y
      <4> QED  BY <4>3, <4>4
    <3> QED  BY <3>1, <3>2
  <2>2. OpsHold(prog, F, LQ, new)  BY <2>1 DEF OpsHold
  <2> QED  BY <1>6, <2>2 DEF OpsInv, F, new
<1>17. PlaceInv'
  <2>1. Unfetched(new) = Unfetched(SQ)
    <3> DEFINE a == Unfetched(new)
               b == Unfetched(SQ)
    <3>1. \A s : s \in a <=> s \in SqSlots /\ new.entry[s].id # 0 /\ ~new.entry[s].fetched
      BY <1>9 DEF Unfetched, Busy
    <3>2. \A s : s \in b <=> s \in SqSlots /\ SQ.entry[s].id # 0 /\ ~SQ.entry[s].fetched
      BY <1>8 DEF Unfetched, Busy
    <3> HIDE DEF a, b
    <3>3. \A s : s \in a <=> s \in b
      <4> TAKE s
      <4>1. CASE s \in Range(q) /\ s \in SqSlots
        <5>1. new.entry[s].id = 0  BY <1>9, <4>1, FreeSlotType
        <5>2. SQ.entry[s].fetched  BY <1>3, <1>11, <4>1
        <5> QED  BY <3>1, <3>2, <5>1, <5>2
      <4>2. CASE s \notin Range(q) /\ s \in SqSlots
        <5>1. new.entry[s] = SQ.entry[s]  BY <1>9, <4>2
        <5> QED  BY <3>1, <3>2, <5>1
      <4>3. CASE s \notin SqSlots  BY <3>1, <3>2, <4>3
      <4> QED  BY <4>1, <4>2, <4>3
    <3>4. a = b  BY <3>3
    <3> QED  BY <3>4 DEF a, b
  <2> QED  BY <1>1, <1>6, <2>1 DEF PlaceInv, new
<1>18. CountInv'
  <2> DEFINE r == inflight_reg_executions
             m == inflight_mem_executions
             c == completed_executions
  <2>1. CountersHold(prog, E, r, m, c)  BY <1>1 DEF CountInv, E
  <2>2. E[t].id # 0 /\ E[t].executed = COMPLETED  BY <1>2, <1>6 DEF x, n
  <2> HIDE DEF r, m, c
  <2>3. CountersHold(prog, F, r, m, c - 1)  BY <1>2, <1>4, <2>1, <2>2, CountersRetire
  <2> QED  BY <1>6, <2>3 DEF CountInv, F, r, m, c
<1>19. WqInv'
  <2> DEFINE v == [k \in 1 .. l |-> SQ.entry[q[k]]]
  <2>1. v \in [1 .. l -> QueueSlot]
    <3>1. \A k \in 1 .. l : SQ.entry[q[k]] \in QueueSlot  BY <1>2, <1>3, <1>8
    <3> QED  BY <3>1
  <2>2. \A k \in 1 .. l : v[k].id = n /\ v[k].op = k /\ v[k].fetched
    <3> TAKE k \in 1 .. l
    <3>1. v[k] = SQ.entry[q[k]]  OBVIOUS
    <3>2. SQ.entry[q[k]].id = n /\ SQ.entry[q[k]].op = k /\ SQ.entry[q[k]].fetched  BY <1>2, <1>3
    <3> HIDE DEF v
    <3> QED  BY <3>1, <3>2
  <2>3. WqHolds(retired, wq) /\ n = retired + 1  BY <1>1 DEF WqInv, n
  <2>4. wq' = wq \o v  BY <1>5
  <2> HIDE DEF v
  <2>5. WqHolds(n, wq \o v)  BY <1>2, <2>1, <2>2, <2>3, WqAppend
  <2> QED  BY <1>6, <2>4, <2>5 DEF WqInv
<1> QED  BY <1>14, <1>15, <1>16, <1>17, <1>18, <1>19 DEF MemInv

--------------------------------------------------------------------------------
(* Memory scheduling *)

LEMMA LeastOfTwo ==
  ASSUME NEW a \in Int, NEW b \in Int
  PROVE  Min({a, b}) \in {a, b} /\ Min({a, b}) =< a /\ Min({a, b}) =< b
<1>1. \E x \in {a, b} : \A y \in {a, b} : x =< y  OBVIOUS
<1>2. Min({a, b}) = CHOOSE x \in {a, b} : \A y \in {a, b} : x =< y  BY DEF Min
<1>3. Min({a, b}) \in {a, b} /\ \A y \in {a, b} : Min({a, b}) =< y  BY <1>1, <1>2
<1> QED  BY <1>3

LEMMA LeastOfThree ==
  ASSUME NEW a \in Int, NEW b \in Int, NEW c \in Int
  PROVE  /\ Min({a, b, c}) \in {a, b, c}
         /\ Min({a, b, c}) =< a /\ Min({a, b, c}) =< b /\ Min({a, b, c}) =< c
<1>1. \E x \in {a, b, c} : \A y \in {a, b, c} : x =< y  OBVIOUS
<1>2. Min({a, b, c}) = CHOOSE x \in {a, b, c} : \A y \in {a, b, c} : x =< y  BY DEF Min
<1>3. Min({a, b, c}) \in {a, b, c} /\ \A y \in {a, b, c} : Min({a, b, c}) =< y  BY <1>1, <1>2
<1> QED  BY <1>3

(* The loads that enter are missing ones, and each gets a free entry. *)
LEMMA LoadsEnter ==
  ASSUME CoreInv, StoreInv, LoadInv, NEW i \in Slots, ROB.entry[i].id # 0, NEW loads,
         loads = LoadsToAdd(i), NEW slots, slots = SubSeq(Ascending(FreeLQ), 1, Len(loads))
  PROVE  /\ loads \in Seq(1 .. Len(Instr(i).ld)) /\ Once(loads) /\ Len(loads) \in Nat
         /\ Range(loads) \cap ROB.entry[i].source_added = {}
         /\ slots \in Seq(LqSlots) /\ Once(slots) /\ Len(slots) = Len(loads)
         /\ Range(slots) \cap Busy(LQ) = {}
<1> DEFINE missing == (1 .. Len(Instr(i).ld)) \ ROB.entry[i].source_added
           room == LQ_SIZE - LQ.occupancy
           m == Min({room, Cardinality(missing)})
<1>1. Len(Instr(i).ld) \in Nat  BY EntryFacts DEF Instr
<1>2. /\ missing \in SUBSET Nat /\ IsFiniteSet(missing) /\ Cardinality(missing) \in Nat
  <2>1. IsFiniteSet(1 .. Len(Instr(i).ld))  BY <1>1, IntervalSize
  <2>2. missing \subseteq 1 .. Len(Instr(i).ld)  OBVIOUS
  <2>3. IsFiniteSet(missing)  BY <2>1, <2>2, FS_Subset
  <2> QED  BY <1>1, <2>2, <2>3, FS_CardinalityType
<1>3. /\ \A s : s \in Busy(LQ) <=> s \in LqSlots /\ LQ.entry[s].id # 0
      /\ Busy(LQ) \subseteq LqSlots /\ IsFiniteSet(Busy(LQ)) /\ IsFiniteSet(LqSlots)
      /\ Cardinality(LqSlots) = LQ_SIZE /\ Cardinality(Busy(LQ)) \in 0 .. LQ_SIZE
      /\ LqSlots \subseteq Nat /\ LQ_SIZE \in Nat /\ LQ.occupancy = Cardinality(Busy(LQ))
      /\ DOMAIN LQ.entry = LqSlots
  BY BusyLq DEF LoadInv, LqHolds
<1>4. \A s : s \in FreeLQ <=> s \in LqSlots \ Busy(LQ)  BY <1>3 DEF FreeLQ
<1>5. FreeLQ = LqSlots \ Busy(LQ)  BY <1>4, SameSet
<1>6. IsFiniteSet(FreeLQ) /\ Cardinality(FreeLQ) = room /\ room \in Nat
  <2> DEFINE free == FreeLQ
             busy == Busy(LQ)
  <2>1. IsFiniteSet(LqSlots \ busy) /\ Cardinality(LqSlots \ busy)
           = Cardinality(LqSlots) - Cardinality(LqSlots \cap busy)
    BY <1>3, FS_Difference
  <2>2. LqSlots \cap busy = busy  BY <1>3
  <2>3. IsFiniteSet(free) /\ Cardinality(free) = LQ_SIZE - Cardinality(busy)  BY <1>3, <1>5, <2>1, <2>2
  <2> HIDE DEF free, busy
  <2>4. LQ_SIZE - Cardinality(busy) \in Nat  BY <1>3 DEF busy
  <2> QED  BY <1>3, <2>3, <2>4 DEF free, busy
<1>7. m \in Nat /\ m =< room /\ m =< Cardinality(missing)
  <2> DEFINE c == Cardinality(missing)
  <2>1. c \in Int /\ room \in Int /\ c \in Nat /\ room \in Nat  BY <1>2, <1>6
  <2> HIDE DEF missing, room, c
  <2>2. Min({room, c}) \in {room, c} /\ Min({room, c}) =< room /\ Min({room, c}) =< c
    BY <2>1, LeastOfTwo
  <2>3. Min({room, c}) \in Nat  BY <2>1, <2>2
  <2> QED  BY <2>2, <2>3 DEF m, c
<1>8. /\ Ascending(missing) \in Seq(missing) /\ Len(Ascending(missing)) = Cardinality(missing)
      /\ Once(Ascending(missing)) /\ Range(Ascending(missing)) = missing
  BY <1>2, AscendingFacts
<1>9. loads = SubSeq(Ascending(missing), 1, m)  BY DEF LoadsToAdd
<1>10. loads \in Seq(missing) /\ Once(loads) /\ Len(loads) = m
  <2> HIDE DEF missing, m
  <2>1. m \in Int /\ m >= 0 /\ m =< Len(Ascending(missing))  BY <1>7, <1>8
  <2> QED  BY <1>8, <1>9, <2>1, FirstFew
<1>11. Range(loads) \subseteq missing  BY <1>10, SeqRange
<1>12. /\ Ascending(FreeLQ) \in Seq(FreeLQ) /\ Len(Ascending(FreeLQ)) = room
       /\ Once(Ascending(FreeLQ))
  <2>1. FreeLQ \in SUBSET Nat  BY <1>3, <1>5
  <2> QED  BY <1>6, <2>1, AscendingFacts
<1>13. slots \in Seq(FreeLQ) /\ Once(slots) /\ Len(slots) = m
  <2> HIDE DEF missing, m, room
  <2>1. m \in Int /\ m >= 0 /\ m =< Len(Ascending(FreeLQ))  BY <1>7, <1>12
  <2>2. slots = SubSeq(Ascending(FreeLQ), 1, m)  BY <1>10
  <2> QED  BY <1>12, <2>1, <2>2, FirstFew
<1>14. Range(slots) \subseteq FreeLQ  BY <1>13, SeqRange
<1>15. loads \in Seq(1 .. Len(Instr(i).ld)) /\ slots \in Seq(LqSlots)
  <2>1. \A S, T : T \subseteq S => Seq(T) \subseteq Seq(S)  OBVIOUS
  <2>2. missing \subseteq 1 .. Len(Instr(i).ld) /\ FreeLQ \subseteq LqSlots  BY <1>5
  <2> QED  BY <1>10, <1>13, <2>1, <2>2
<1> QED  BY <1>5, <1>7, <1>10, <1>11, <1>13, <1>14, <1>15

(* The stores that enter are the next ones in program order. *)
LEMMA StoresEnter ==
  ASSUME CoreInv, StoreInv, NEW i \in Live
  PROVE  LET n == ROB.entry[i].id
             f == Len(ROB.entry[i].sq_index)
             cnt == StoresToAdd(i)
         IN
         /\ cnt \in Nat /\ f \in Nat /\ f + cnt =< Len(prog[n].st) /\ cnt =< SQ_SIZE - SQ.occupancy
         /\ n > retired /\ n \in 1 .. Len(prog) /\ Entered \in Nat
         /\ cnt > 0 => StoresBefore(prog, n - 1) + f = Entered
         /\ \A j \in 1 .. cnt : IsStore(prog, n, f + j) /\ Nth(prog, n, f + j) = Entered + j
         /\ Entered + cnt =< StoresBefore(prog, dispatched)
         /\ Entered + cnt =< StoresBefore(prog, read)
<1> DEFINE n == ROB.entry[i].id
           f == Len(ROB.entry[i].sq_index)
           cnt == StoresToAdd(i)
           e == Entered
           st == Len(prog[n].st)
           room == SQ_SIZE - SQ.occupancy
           head == Cardinality(AtStaHead(i))
           b == StoresBefore(prog, n - 1)
           r == StoresBefore(prog, read)
           d == StoresBefore(prog, dispatched)
<1>1. /\ prog \in Programs /\ Len(prog) \in Nat /\ retired \in Nat /\ dispatched \in Nat
      /\ n \in 1 .. Len(prog) /\ n \in retired + 1 .. dispatched
      /\ HasIndex(prog, n, ROB.entry[i].sq_index, e) /\ f \in Nat /\ f =< st /\ st \in Nat
  BY EntryFacts DEF Live
<1> HIDE DEF n, f, cnt
<1>2. /\ dispatched \in 0 .. Len(prog) /\ read \in 0 .. Len(prog) /\ dispatched =< read
      /\ n - 1 \in 0 .. Len(prog) /\ n \in 0 .. dispatched /\ dispatched \in 0 .. read
  <2> DEFINE l == Len(prog)
  <2>1. /\ read \in Nat /\ dispatched =< read /\ read =< l /\ l \in Nat
        /\ retired \in Nat /\ dispatched \in Nat /\ n \in 1 .. l /\ n \in retired + 1 .. dispatched
    BY <1>1 DEF CoreInv, TraceInv
  <2> HIDE DEF l
  <2>2. /\ dispatched \in 0 .. l /\ read \in 0 .. l /\ n - 1 \in 0 .. l
        /\ n \in 0 .. dispatched /\ dispatched \in 0 .. read
    BY <2>1
  <2> QED  BY <2>1, <2>2 DEF l
<1>3. b \in Nat /\ r \in Nat /\ d \in Nat  BY <1>1, <1>2, StoresFinite
<1>4. /\ e \in Nat /\ e =< d /\ e =< r /\ room \in Nat /\ StaHolds(prog, e, read, STA)
  <2>1. /\ e \in Nat /\ e =< d /\ e =< r /\ StaHolds(prog, e, read, STA)
        /\ e =< StoresBefore(prog, retired) + SQ_SIZE /\ StoresBefore(prog, retired) =< e
        /\ SQ.occupancy = e - StoresBefore(prog, retired)
    BY DEF StoreInv, StoresHold, SqHolds, StaHolds
  <2>2. StoresBefore(prog, retired) \in Nat
    <3>1. retired \in 0 .. Len(prog)  BY <1>1
    <3> QED  BY <1>1, <3>1, StoresFinite
  <2>3. room \in Nat
    <3> DEFINE a == StoresBefore(prog, retired)
               o == SQ.occupancy
    <3>1. /\ a \in Nat /\ e \in Nat /\ e =< a + SQ_SIZE /\ a =< e /\ o = e - a
          /\ SQ_SIZE \in Nat
      BY <2>1, <2>2, SizesType
    <3> HIDE DEF a, o, e
    <3>2. SQ_SIZE - o \in Nat  BY <3>1
    <3> QED  BY <3>2 DEF o
  <2> QED  BY <2>1, <2>3
<1>5. IsFiniteSet(AtStaHead(i)) /\ head \in Nat /\ (head = 0 <=> AtStaHead(i) = {})
  <2>1. STA_SIZE \in Nat  BY SizesType
  <2>2. IsFiniteSet(0 .. STA_SIZE - 1)  BY <2>1, IntervalSize
  <2>3. AtStaHead(i) \subseteq 0 .. STA_SIZE - 1  BY DEF AtStaHead
  <2>4. IsFiniteSet(AtStaHead(i))  BY <2>2, <2>3, FS_Subset
  <2> QED  BY <2>4, FS_CardinalityType, FS_EmptySet
<1>6. cnt \in Nat /\ cnt =< st - f /\ cnt =< room /\ cnt =< head
  <2>1. cnt = Min({st - f, room, head})  BY DEF StoresToAdd, Instr, n, f, cnt
  <2>2. st - f \in Nat  BY <1>1
  <2> DEFINE left == st - f
  <2>4. left \in Nat /\ room \in Nat /\ head \in Nat  BY <1>4, <1>5, <2>2
  <2> HIDE DEF st, room, head, left
  <2>5. left \in Int /\ room \in Int /\ head \in Int  BY <2>4
  <2>3. Min({left, room, head}) \in {left, room, head} /\ Min({left, room, head}) =< left
        /\ Min({left, room, head}) =< room /\ Min({left, room, head}) =< head
    BY <2>5, LeastOfThree
  <2>6. cnt = Min({left, room, head})  BY <2>1 DEF left
  <2>7. cnt \in Nat /\ cnt =< left /\ cnt =< room /\ cnt =< head  BY <2>3, <2>4, <2>6
  <2> QED  BY <2>7 DEF left
<1>7. f + cnt =< st
  <2> HIDE DEF st
  <2> QED  BY <1>1, <1>6
<1>8. ASSUME cnt > 0 PROVE b + f = e
  <2>1. PICK k \in AtStaHead(i) : TRUE
    <3>1. head # 0
      <4> HIDE DEF head
      <4> QED  BY <1>5, <1>6, <1>8
    <3> QED  BY <1>5, <3>1
  <2>2. STA.entry[(STA.head + 0) % STA_SIZE] = n
    <3>1. k \in 0 .. STA_SIZE - 1 /\ \A l \in 0 .. k : STA.entry[(STA.head + l) % STA_SIZE] = n
      BY <2>1 DEF AtStaHead, n
    <3>2. 0 \in 0 .. k  BY <3>1
    <3> QED  BY <3>1, <3>2
  <2>3. (STA.head + 0) % STA_SIZE = STA.head
    <3>1. \A x \in Nat : x % STA_SIZE \in 0 .. STA_SIZE - 1  BY SizesType, RemainderType
    <3>2. \A x \in 0 .. STA_SIZE - 1 : x % STA_SIZE = x
      <4>1. STA_SIZE \in Nat \ {0}  BY SizesType
      <4>2. ASSUME NEW x \in 0 .. STA_SIZE - 1 PROVE x % STA_SIZE = x
        <5>1. x \in Int /\ x = STA_SIZE * 0 + x  BY <4>1
        <5> QED  BY <4>1, <5>1, Remainder
      <4> QED  BY <4>2
    <3>3. STA.head \in 0 .. STA_SIZE - 1  BY <1>4, <3>1 DEF StaHolds
    <3>4. STA.head + 0 = STA.head  BY <3>3
    <3> QED  BY <3>2, <3>3, <3>4
  <2>4. STA.entry[STA.head] = n /\ n # 0  BY <1>1, <2>2, <2>3
  <2>5. PICK l : Pending(prog, e, read, n, l) /\ Nth(prog, n, l) = e + 1
    <3> HIDE DEF e
    <3> QED  BY <1>1, <1>4, <2>4, StaHead
  <2>6. l \in 1 .. st  BY <2>5 DEF Pending, IsStore
  <2> QED  BY <1>1, <1>4, <2>5, <2>6, IndexNext DEF f
<1>9. \A j \in 1 .. cnt : IsStore(prog, n, f + j) /\ Nth(prog, n, f + j) = e + j
  <2>1. ASSUME NEW j \in 1 .. cnt PROVE IsStore(prog, n, f + j) /\ Nth(prog, n, f + j) = e + j
    <3>1. b + f = e /\ f + j \in 1 .. st
      <4> HIDE DEF b, e, st
      <4>1. cnt \in Nat  BY <1>6
      <4>2. cnt > 0  BY <4>1
      <4>3. f + j \in 1 .. st  BY <1>1, <1>7, <4>1
      <4> QED  BY <1>8, <4>2, <4>3
    <3>2. b + (f + j) = e + j
      <4> HIDE DEF b, e, st
      <4>1. b \in Nat /\ f \in Nat /\ e \in Nat /\ b + f = e /\ j \in Nat
        BY <1>1, <1>3, <1>4, <1>6, <3>1
      <4> QED  BY <4>1
    <3> QED  BY <1>1, <3>1, <3>2 DEF IsStore, Nth
  <2> QED  BY <2>1
<1>10. e + cnt =< d /\ e + cnt =< r
  <2>1. StoresBefore(prog, n) = b + st /\ StoresBefore(prog, n) =< d /\ d =< r
    BY <1>1, <1>2, StoresNext, StoresGrow
  <2> HIDE DEF b, e, st, d, r
  <2>2. CASE cnt > 0
    <3>1. /\ b \in Nat /\ f \in Nat /\ e \in Nat /\ st \in Nat /\ cnt \in Nat
          /\ d \in Nat /\ r \in Nat /\ b + f = e /\ f + cnt =< st /\ b + st =< d /\ d =< r
      BY <1>1, <1>3, <1>4, <1>6, <1>7, <1>8, <2>1, <2>2
    <3> QED  BY <3>1
  <2>3. CASE cnt = 0  BY <1>4, <2>3
  <2> QED  BY <1>6, <2>2, <2>3
<1>11. n > retired  BY <1>1
<1> QED  BY <1>1, <1>4, <1>6, <1>7, <1>8, <1>9, <1>10, <1>11 DEF n, f, cnt

(* What it does to the entries of the reorder buffer. *)
NewPlaces(i) == [k \in 1 .. StoresToAdd(i) |-> (SQ.tail + (k - 1)) % SQ_SIZE]

LEMMA MemoryEntries ==
  ASSUME CoreInv, NEW i \in Slots, ScheduleMemory(i)
  PROVE  /\ i \in Live /\ IsMemory(Instr(i)) /\ CanAdd(i)
         /\ \A k \in Slots : k # i => ROB'.entry[k] = ROB.entry[k]
         /\ ROB'.entry[i].id = ROB.entry[i].id
         /\ ROB'.entry[i].num_mem_ops = ROB.entry[i].num_mem_ops
         /\ ROB'.entry[i].source_added = ROB.entry[i].source_added \cup Range(LoadsToAdd(i))
         /\ ROB'.entry[i].sq_index = ROB.entry[i].sq_index \o NewPlaces(i)
         /\ ROB'.entry[i].executed =
              IF /\ Cardinality(ROB'.entry[i].source_added) = Len(Instr(i).ld)
                 /\ Len(ROB'.entry[i].sq_index) = Len(Instr(i).st)
              THEN IF ROB.entry[i].executed = NotYet THEN INFLIGHT ELSE ROB.entry[i].executed
              ELSE ROB.entry[i].executed
<1>1. i \in Live /\ IsMemory(Instr(i)) /\ CanAdd(i)  BY DEF ScheduleMemory, CanAdd, MemoryReady
<1> DEFINE e == [ROB.entry[i] EXCEPT !.source_added = @ \cup Range(LoadsToAdd(i)),
                                     !.sq_index = @ \o NewPlaces(i)]
           all == /\ Cardinality(e.source_added) = Len(Instr(i).ld)
                  /\ Len(e.sq_index) = Len(Instr(i).st)
<1>2. ROB' = [ROB EXCEPT !.entry[i] =
                IF all THEN [e EXCEPT !.scheduled = COMPLETED,
                                      !.executed = IF @ = NotYet THEN INFLIGHT ELSE @]
                ELSE e]
  BY DEF ScheduleMemory, NewPlaces
<1>3. /\ DOMAIN e = DOMAIN EmptyEntry
      /\ e.id = ROB.entry[i].id /\ e.executed = ROB.entry[i].executed
      /\ e.num_mem_ops = ROB.entry[i].num_mem_ops
      /\ e.source_added = ROB.entry[i].source_added \cup Range(LoadsToAdd(i))
      /\ e.sq_index = ROB.entry[i].sq_index \o NewPlaces(i)
  BY DEF CoreInv, BufferShape, EmptyEntry
<1>4. all <=> /\ Cardinality(e.source_added) = Len(Instr(i).ld)
              /\ Len(e.sq_index) = Len(Instr(i).st)
  OBVIOUS
<1> HIDE DEF e, all
<1> DEFINE n == IF all THEN [e EXCEPT !.scheduled = COMPLETED,
                                      !.executed = IF e.executed = NotYet THEN INFLIGHT ELSE e.executed]
                ELSE e
<1>5. /\ n.id = e.id /\ n.num_mem_ops = e.num_mem_ops
      /\ n.source_added = e.source_added /\ n.sq_index = e.sq_index
      /\ n.executed = IF all THEN IF e.executed = NotYet THEN INFLIGHT ELSE e.executed ELSE e.executed
  BY <1>3 DEF EmptyEntry
<1>6. ROB' = [ROB EXCEPT !.entry = [ROB.entry EXCEPT ![i] = n]]
  BY <1>2, <1>3 DEF CoreInv, BufferShape, EmptyEntry
<1> HIDE DEF n
<1>7. ROB'.entry = [ROB.entry EXCEPT ![i] = n]  BY <1>6 DEF CoreInv, BufferShape
<1>8. ROB'.entry[i] = n /\ \A k \in Slots : k # i => ROB'.entry[k] = ROB.entry[k]
  BY <1>7 DEF CoreInv, BufferShape
<1> QED  BY <1>1, <1>3, <1>4, <1>5, <1>8

(* An instruction starts whose memory operations are before it. *)
LEMMA CountersBegin ==
  ASSUME NEW p, NEW ent, NEW new, NEW r, NEW m, NEW c, CountersHold(p, ent, r, m, c),
         NEW t \in Slots, IsMemory(p[ent[t].id]), ent[t].num_mem_ops # 0,
         \/ new[t].executed = ent[t].executed
         \/ ent[t].executed = NotYet /\ new[t].executed = INFLIGHT,
         \A i \in Slots : new[i].id = ent[i].id /\ new[i].num_mem_ops = ent[i].num_mem_ops,
         \A i \in Slots : i # t => new[i].executed = ent[i].executed
  PROVE  CountersHold(p, new, r, m, c)
<1>1. /\ \A i : i \in RegRun(p, new) <=> i \in RegRun(p, ent)
      /\ \A i : i \in MemRun(p, new) <=> i \in MemRun(p, ent)
      /\ \A i : i \in DoneIn(new) <=> i \in DoneIn(ent)
  BY DEF RegRun, MemRun, DoneIn, INFLIGHT, COMPLETED, NotYet
<1>2. RegRun(p, new) = RegRun(p, ent) /\ MemRun(p, new) = MemRun(p, ent) /\ DoneIn(new) = DoneIn(ent)
  <2> DEFINE a == RegRun(p, new)
             b == RegRun(p, ent)
             d == MemRun(p, new)
             e == MemRun(p, ent)
             f == DoneIn(new)
             g == DoneIn(ent)
  <2>1. /\ \A i : i \in a <=> i \in b
        /\ \A i : i \in d <=> i \in e
        /\ \A i : i \in f <=> i \in g
    BY <1>1
  <2> HIDE DEF a, b, d, e, f, g
  <2>2. a = b /\ d = e /\ f = g  BY <2>1
  <2> QED  BY <2>2 DEF a, b, d, e, f, g
<1> QED  BY <1>2 DEF CountersHold

LEMMA RangeSize ==
  ASSUME NEW S, NEW s \in Seq(S), Once(s)
  PROVE  IsFiniteSet(Range(s)) /\ Cardinality(Range(s)) = Len(s)
<1>1. Len(s) \in Nat /\ DOMAIN s = 1 .. Len(s) /\ \A k \in DOMAIN s : s[k] \in S  BY SeqElements
<1> DEFINE f == [k \in 1 .. Len(s) |-> s[k]]
<1>2. OneToOne(f, 1 .. Len(s), Range(s))  BY <1>1 DEF OneToOne, Onto, Once, Range
<1> QED  BY <1>1, <1>2, SameSize, IntervalSize

(* The load of the entry in place s of slots. *)
LEMMA LoadsEntered ==
  ASSUME CoreInv, StoreInv, LoadInv, NEW i \in Slots, ScheduleMemory(i),
         NEW loads, loads = LoadsToAdd(i), NEW slots, slots = SubSeq(Ascending(FreeLQ), 1, Len(loads))
  PROVE  /\ LoadInv' /\ Busy(LQ') = Busy(LQ) \cup Range(slots)
         /\ \A j, k : (\E s \in Busy(LQ') : LoadOf(LQ', s, j, k)) <=>
              \/ \E s \in Busy(LQ) : LoadOf(LQ, s, j, k)
              \/ j = i /\ k \in Range(loads)
<1> DEFINE at(s) == CHOOSE k \in DOMAIN slots : slots[k] = s
           R == Range(slots)
           g == [s \in R |-> loads[at(s)]]
           n == ROB.entry[i].id
           New(k) == [id |-> n, rob_index |-> i, op |-> k, fetched |-> FALSE]
           E == ROB.entry
           F == ROB'.entry
           new == LQ'
<1>1. /\ i \in Live /\ n # 0 /\ n \in Nat
      /\ \A k \in Slots : k # i => F[k] = E[k]
      /\ F[i].id = E[i].id /\ F[i].source_added = E[i].source_added \cup Range(loads)
  BY MemoryEntries DEF Live, CoreInv, CoreType
<1>2. /\ loads \in Seq(1 .. Len(Instr(i).ld)) /\ Once(loads) /\ Len(loads) \in Nat
      /\ Range(loads) \cap E[i].source_added = {}
      /\ slots \in Seq(LqSlots) /\ Once(slots) /\ Len(slots) = Len(loads)
      /\ R \cap Busy(LQ) = {}
  BY <1>1, LoadsEnter
<1>3. /\ DOMAIN slots = 1 .. Len(loads) /\ DOMAIN loads = 1 .. Len(loads) /\ R \subseteq LqSlots
      /\ \A k \in DOMAIN loads : loads[k] \in Nat
  <2>1. DOMAIN slots = 1 .. Len(slots) /\ R \subseteq LqSlots  BY <1>2, SeqElements, SeqRange
  <2>2. DOMAIN loads = 1 .. Len(loads) /\ \A k \in DOMAIN loads : loads[k] \in 1 .. Len(Instr(i).ld)
    BY <1>2, SeqElements
  <2>3. 1 .. Len(Instr(i).ld) \subseteq Nat  OBVIOUS
  <2> QED  BY <1>2, <2>1, <2>2, <2>3
<1>4. \A s \in R : at(s) \in DOMAIN slots /\ slots[at(s)] = s  BY DEF Range
<1> HIDE DEF at
<1>5. \A s, t \in R : g[s] = g[t] => s = t  BY <1>2, <1>3, <1>4 DEF Once
<1>6. \A k : k \in Range(loads) <=> \E s \in R : g[s] = k
  <2>1. ASSUME NEW m \in DOMAIN loads PROVE \E s \in R : g[s] = loads[m]
    <3>1. slots[m] \in R  BY <1>3 DEF Range
    <3>2. at(slots[m]) = m  BY <1>2, <1>3, <1>4, <3>1 DEF Once
    <3> QED  BY <3>1, <3>2
  <2>2. \A s \in R : g[s] \in Range(loads)  BY <1>3, <1>4 DEF Range
  <2>3. \A k : k \in Range(loads) => \E m \in DOMAIN loads : k = loads[m]  BY DEF Range
  <2> HIDE DEF g, R
  <2> QED  BY <2>1, <2>2, <2>3
<1>7. \A s \in R : g[s] \notin E[i].source_added /\ g[s] \in Nat
  <2>1. \A s \in R : g[s] \in Range(loads)  BY <1>6
  <2>2. \A s \in R : g[s] \in Nat  BY <1>3, <1>4
  <2> QED  BY <1>2, <2>1, <2>2
<1>8. DOMAIN LQ = {"entry", "occupancy"} /\ LQ.entry \in [LqSlots -> QueueSlot] /\ LqHolds(E, LQ)
  BY DEF LoadInv, LqHolds
<1>9. LQ' = [LQ EXCEPT
        !.entry = [s \in DOMAIN LQ.entry |-> IF s \in R THEN New(loads[at(s)]) ELSE LQ.entry[s]],
        !.occupancy = LQ.occupancy + Len(loads)]
  BY <1>8 DEF ScheduleMemory, at
<1> HIDE DEF n
<1>10. \A k \in Nat : New(k) \in QueueSlot  BY <1>1 DEF QueueSlot
<1>11. /\ DOMAIN new = DOMAIN LQ
       /\ new.entry = [s \in LqSlots |-> IF s \in R THEN New(loads[at(s)]) ELSE LQ.entry[s]]
       /\ new.occupancy = LQ.occupancy + Len(loads)
  BY <1>8, <1>9
<1> HIDE DEF new
<1>12. /\ \A s \in R : new.entry[s] = New(g[s])
       /\ \A s \in LqSlots \ R : new.entry[s] = LQ.entry[s]
  BY <1>3, <1>11
<1>13. \A s \in R : new.entry[s].id = n /\ LoadOf(new, s, i, g[s])
  <2>1. \A k : New(k).id = n /\ New(k).rob_index = i /\ New(k).op = k  OBVIOUS
  <2> HIDE DEF New, R, g
  <2> QED  BY <1>12, <2>1 DEF LoadOf
<1>14. new.entry \in [LqSlots -> QueueSlot]
  <2>1. \A s \in R : New(g[s]) \in QueueSlot  BY <1>7, <1>10
  <2>2. \A s \in LqSlots : new.entry[s] \in QueueSlot
    <3> HIDE DEF New, R, g
    <3> QED  BY <1>8, <1>12, <2>1
  <2> QED  BY <1>11, <2>2
<1>15. Cardinality(R) = Len(loads)  BY <1>2, RangeSize
<1>16. new.occupancy = LQ.occupancy + Cardinality(R)  BY <1>11, <1>15
<1>17. /\ \A j \in Slots : F[j].id = E[j].id
       /\ \A j \in Slots : j # i => F[j].source_added = E[j].source_added
       /\ \A k : k \in F[i].source_added <=> k \in E[i].source_added \/ \E s \in R : g[s] = k
  BY <1>1, <1>6
<1>18. n = E[i].id  BY DEF n
<1>19. R \in SUBSET LqSlots  BY <1>3
<1>20. n # 0 /\ R \cap Busy(LQ) = {} /\ \A s \in R : g[s] \notin E[i].source_added
  BY <1>1, <1>2, <1>7
<1> HIDE DEF E, F, g, R, New
<1>21. /\ LqHolds(F, new) /\ Busy(new) = Busy(LQ) \cup R
       /\ \A j, k : (\E s \in Busy(new) : LoadOf(new, s, j, k)) <=>
            \/ \E s \in Busy(LQ) : LoadOf(LQ, s, j, k)
            \/ j = i /\ \E s \in R : g[s] = k
  <2>1. LqHolds(E, LQ) /\ i \in Slots /\ n = E[i].id /\ n # 0  BY <1>8, <1>18, <1>20
  <2>2. /\ R \in SUBSET LqSlots /\ R \cap Busy(LQ) = {}
        /\ \A s, t \in R : g[s] = g[t] => s = t
        /\ \A s \in R : g[s] \notin E[i].source_added
    BY <1>5, <1>19, <1>20
  <2>3. /\ DOMAIN new = DOMAIN LQ /\ new.entry \in [LqSlots -> QueueSlot]
        /\ new.occupancy = LQ.occupancy + Cardinality(R)
        /\ \A s \in R : new.entry[s].id = n /\ LoadOf(new, s, i, g[s])
        /\ \A s \in LqSlots \ R : new.entry[s] = LQ.entry[s]
    BY <1>11, <1>12, <1>13, <1>14, <1>16
  <2>4. EnterLq(E, LQ, i, R, g, F, new)  BY ONLY <1>17, <2>1, <2>2, <2>3 DEF EnterLq
  <2> QED  BY ONLY <2>1, <2>4, LqPut
<1>22. LoadInv'  BY <1>21 DEF LoadInv, F, new
<1>23. \A j, k : (\E s \in Busy(new) : LoadOf(new, s, j, k)) <=>
            \/ \E s \in Busy(LQ) : LoadOf(LQ, s, j, k)
            \/ j = i /\ k \in Range(loads)
  BY <1>6, <1>21
<1> QED  BY <1>21, <1>22, <1>23 DEF new, R

LEMMA StoresEntered ==
  ASSUME CoreInv, StoreInv, NEW i \in Slots, ScheduleMemory(i)
  PROVE  LET r == NewPlaces(i)
             cnt == StoresToAdd(i)
             q == ROB.entry[i].sq_index
         IN
         /\ StoreInv'
         /\ r \in Seq(SqSlots) /\ Once(r) /\ Len(r) = cnt /\ cnt \in Nat
         /\ Range(r) \cap Busy(SQ) = {} /\ Busy(SQ') = Busy(SQ) \cup Range(r)
         /\ \A s \in Range(r) : ~SQ'.entry[s].fetched
         /\ \A s \in SqSlots \ Range(r) : SQ'.entry[s] = SQ.entry[s]
         /\ Len(q \o r) = Len(q) + cnt
         /\ \A k \in 1 .. Len(q) : (q \o r)[k] = q[k] /\ q[k] \in Busy(SQ)
         /\ \A k \in 1 .. Len(q \o r) : k > Len(q) => (q \o r)[k] \in Range(r)
<1> DEFINE n == ROB.entry[i].id
           q == ROB.entry[i].sq_index
           f == Len(q)
           cnt == StoresToAdd(i)
           e == Entered
           b == StoresBefore(prog, retired)
           r == NewPlaces(i)
           E == ROB.entry
           F == ROB'.entry
           new == SQ'
           sta == STA'
<1>1. /\ i \in Live /\ n # 0 /\ n \in Nat
      /\ \A k \in Slots : k # i => F[k] = E[k]
      /\ F[i].id = n /\ F[i].sq_index = q \o r
  BY MemoryEntries DEF Live, CoreInv, CoreType
<1>2. /\ cnt \in Nat /\ f \in Nat /\ f + cnt =< Len(prog[n].st) /\ cnt =< SQ_SIZE - SQ.occupancy
      /\ n > retired /\ n \in 1 .. Len(prog) /\ e \in Nat
      /\ cnt > 0 => StoresBefore(prog, n - 1) + f = e
      /\ \A j \in 1 .. cnt : IsStore(prog, n, f + j) /\ Nth(prog, n, f + j) = e + j
      /\ e + cnt =< StoresBefore(prog, dispatched)
      /\ e + cnt =< StoresBefore(prog, read)
  BY <1>1, StoresEnter
<1>3. /\ prog \in Programs /\ SqHolds(prog, retired, e, SQ) /\ StaHolds(prog, e, read, STA)
      /\ Holds(E, retired, dispatched) /\ retired \in 0 .. Len(prog) /\ dispatched \in 0 .. Len(prog)
      /\ \A k \in Slots : E[k].id # 0 => HasIndex(prog, E[k].id, E[k].sq_index, e)
  BY DEF StoreInv, StoresHold, SqHolds, CoreInv, TraceInv
<1>4. /\ b \in Nat /\ b =< e /\ e =< b + SQ_SIZE /\ SQ.occupancy = e - b /\ SQ.tail = e % SQ_SIZE
      /\ DOMAIN SQ = {"entry", "occupancy", "head", "tail"} /\ SQ.entry \in [SqSlots -> QueueSlot]
  <2>1. b \in Nat  BY <1>3, StoresFinite
  <2> QED  BY <1>3, <2>1 DEF SqHolds
<1> HIDE DEF n, f, cnt, e, b, q, r, E, F, new, sta
<1>5. cnt =< SQ_SIZE /\ e + cnt =< b + SQ_SIZE /\ SQ_SIZE \in Nat \ {0}
  <2> DEFINE o == SQ.occupancy
  <2>1. /\ b \in Nat /\ e \in Nat /\ cnt \in Nat /\ b =< e /\ o = e - b /\ cnt =< SQ_SIZE - o
        /\ SQ_SIZE \in Nat \ {0}
    BY <1>2, <1>4, SizesType
  <2> HIDE DEF o
  <2> QED  BY <2>1
<1>6. \A k \in 1 .. cnt : (SQ.tail + (k - 1)) % SQ_SIZE = QueuePlace(e + k)
  <2>1. \A x \in Nat, k \in 0 .. SQ_SIZE : ((x % SQ_SIZE) + k) % SQ_SIZE = (x + k) % SQ_SIZE
    BY SizesType, RingPlus
  <2>2. ASSUME NEW k \in 1 .. cnt PROVE (SQ.tail + (k - 1)) % SQ_SIZE = QueuePlace(e + k)
    <3> DEFINE d == k - 1
    <3>1. d \in 0 .. SQ_SIZE /\ e + d = (e + k) - 1  BY <1>2, <1>5
    <3> HIDE DEF d
    <3>2. ((e % SQ_SIZE) + d) % SQ_SIZE = (e + d) % SQ_SIZE  BY <1>2, <2>1, <3>1
    <3>3. (SQ.tail + d) % SQ_SIZE = ((e + k) - 1) % SQ_SIZE  BY <1>4, <3>1, <3>2
    <3> QED  BY <3>3 DEF QueuePlace, d
  <2> QED  BY <2>2
<1>7. r = [k \in 1 .. cnt |-> QueuePlace(e + k)]  BY <1>6 DEF r, cnt, NewPlaces
<1>8. \A k \in 1 .. cnt : e + k \in b + 1 .. b + SQ_SIZE /\ e + k > e
  BY <1>2, <1>4, <1>5
<1>9. \A k \in 1 .. cnt : QueuePlace(e + k) \in SqSlots
  <2>1. \A x \in Int : x % SQ_SIZE \in 0 .. SQ_SIZE - 1  BY SizesType, RemainderType
  <2>2. \A k \in 1 .. cnt : (e + k) - 1 \in Int  BY <1>2
  <2> QED  BY <2>1, <2>2 DEF QueuePlace, SqSlots
<1>10. r \in Seq(SqSlots) /\ Len(r) = cnt /\ DOMAIN r = 1 .. cnt
  <2>1. r \in [1 .. cnt -> SqSlots]  BY <1>7, <1>9
  <2> QED  BY <1>2, <2>1, FunctionIsSeq
<1>11. \A s : s \in Range(r) <=> \E k \in 1 .. cnt : s = QueuePlace(e + k)
  BY <1>7, <1>10 DEF Range
<1>12. \A k, l \in 1 .. cnt : QueuePlace(e + k) = QueuePlace(e + l) => k = l
  <2>1. ASSUME NEW k \in 1 .. cnt, NEW l \in 1 .. cnt, QueuePlace(e + k) = QueuePlace(e + l)
        PROVE  k = l
    <3> DEFINE g == e + k
               h == e + l
    <3>1. g \in b + 1 .. b + SQ_SIZE /\ h \in b + 1 .. b + SQ_SIZE /\ QueuePlace(g) = QueuePlace(h)
      BY <1>8, <2>1
    <3> HIDE DEF g, h
    <3>2. g = h  BY <1>3, <3>1, QueueApart DEF b
    <3> QED  BY <1>2, <3>2 DEF g, h
  <2> QED  BY <2>1
<1>13. Once(r)  BY <1>7, <1>10, <1>12 DEF Once
<1>14. ASSUME NEW j \in 1 .. cnt, SQ.entry[QueuePlace(e + j)].id # 0 PROVE FALSE
  <2>1. QueuePlace(e + j) \in SqSlots  BY <1>9
  <2>2. PICK m, k : InQueue(prog, retired, e, m, k) /\ QueuePlace(e + j) = QueuePlace(Nth(prog, m, k))
    BY <1>3, <1>14, <2>1 DEF SqHolds
  <2> DEFINE g == e + j
             h == Nth(prog, m, k)
  <2>3. h \in b + 1 .. b + SQ_SIZE /\ h =< e  BY <1>2, <1>3, <1>4, <2>2, QueueRange DEF b
  <2>4. g \in b + 1 .. b + SQ_SIZE /\ g > e /\ QueuePlace(g) = QueuePlace(h)  BY <1>8, <2>2
  <2> HIDE DEF g, h
  <2>5. g = h  BY <1>3, <2>3, <2>4, QueueApart DEF b
  <2> QED  BY <1>2, <1>4, <2>3, <2>4, <2>5
<1>15. Range(r) \cap Busy(SQ) = {}  BY <1>11, <1>14 DEF Busy
<1> DEFINE at(s) == CHOOSE k \in DOMAIN r : r[k] = s
           New(k) == [id |-> n, rob_index |-> i, op |-> k, fetched |-> FALSE]
<1>16. SQ' = [SQ EXCEPT
         !.entry = [s \in SqSlots |-> IF s \in Range(r) THEN New(f + at(s)) ELSE SQ.entry[s]],
         !.occupancy = SQ.occupancy + cnt,
         !.tail = (SQ.tail + cnt) % SQ_SIZE]
  BY <1>4 DEF ScheduleMemory, r, NewPlaces, cnt, n, f, q
<1>17. \A j \in 1 .. cnt : at(QueuePlace(e + j)) = j
  <2>1. ASSUME NEW j \in 1 .. cnt PROVE at(QueuePlace(e + j)) = j
    <3>1. j \in DOMAIN r /\ r[j] = QueuePlace(e + j)  BY <1>7, <1>10
    <3> QED  BY <1>13, <3>1 DEF Once
  <2> QED  BY <2>1
<1> HIDE DEF at
<1>18. /\ DOMAIN new = DOMAIN SQ /\ new.occupancy = SQ.occupancy + cnt /\ new.head = SQ.head
       /\ new.tail = (SQ.tail + cnt) % SQ_SIZE /\ DOMAIN new.entry = SqSlots
       /\ new.entry = [s \in SqSlots |-> IF s \in Range(r) THEN New(f + at(s)) ELSE SQ.entry[s]]
  BY <1>4, <1>16 DEF new
<1>19. /\ \A j \in 1 .. cnt : new.entry[QueuePlace(e + j)] = New(f + j)
       /\ \A s \in SqSlots : s \notin Range(r) => new.entry[s] = SQ.entry[s]
  <2> HIDE DEF New
  <2>1. \A j \in 1 .. cnt : QueuePlace(e + j) \in Range(r) /\ QueuePlace(e + j) \in SqSlots
    BY <1>9, <1>11
  <2> QED  BY <1>17, <1>18, <2>1
<1>20. SlotOf(n) = i  BY <1>1, <1>3 DEF Holds, n, E
<1>21. \A k \in Nat : New(k) \in QueueSlot /\ IsEntryOf(New(k), n, k) /\ New(k).id # 0 /\ ~New(k).fetched
  BY <1>1, <1>20 DEF QueueSlot, IsEntryOf
<1>22. \A j \in 1 .. cnt : f + j \in Nat  BY <1>2
<1> HIDE DEF New
<1>23. /\ \A j \in 1 .. cnt : IsEntryOf(new.entry[QueuePlace(e + j)], n, f + j)
       /\ \A s \in SqSlots : (\A j \in 1 .. cnt : s # QueuePlace(e + j)) => new.entry[s] = SQ.entry[s]
       /\ \A s \in Range(r) : new.entry[s].id # 0 /\ ~new.entry[s].fetched
  BY <1>11, <1>19, <1>21, <1>22
<1>24. new.entry \in [SqSlots -> QueueSlot]
  <2>1. \A s \in SqSlots : new.entry[s] \in QueueSlot  BY <1>4, <1>11, <1>19, <1>21, <1>22
  <2> QED  BY <1>18, <2>1
<1>25. SqHolds(prog, retired, e + cnt, new)
  <2>1. /\ n > retired /\ cnt \in Nat /\ cnt =< SQ_SIZE - SQ.occupancy
        /\ \A j \in 1 .. cnt : IsStore(prog, n, f + j) /\ Nth(prog, n, f + j) = e + j
    BY <1>2
  <2>2. /\ DOMAIN new = DOMAIN SQ /\ new.occupancy = SQ.occupancy + cnt /\ new.head = SQ.head
        /\ new.tail = (SQ.tail + cnt) % SQ_SIZE
    BY <1>18
  <2>3. /\ \A j \in 1 .. cnt : IsEntryOf(new.entry[QueuePlace(e + j)], n, f + j)
        /\ \A s \in SqSlots : (\A j \in 1 .. cnt : s # QueuePlace(e + j)) => new.entry[s] = SQ.entry[s]
    BY <1>23
  <2>4. prog \in Programs /\ SqHolds(prog, retired, e, SQ)  BY <1>3
  <2> QED  BY ONLY <1>24, <2>1, <2>2, <2>3, <2>4, SqPut
<1>26. StaHolds(prog, e + cnt, read, sta)
  <2>1. /\ DOMAIN STA = {"entry", "head", "tail"} /\ DOMAIN STA.entry = StaSlots  BY <1>3 DEF StaHolds
  <2>2. STA' = [STA EXCEPT
          !.entry = [s \in StaSlots |-> IF \E k \in 0 .. cnt - 1 : s = (STA.head + k) % STA_SIZE
                                        THEN 0 ELSE STA.entry[s]],
          !.head = (STA.head + cnt) % STA_SIZE]
    BY <2>1 DEF ScheduleMemory, cnt
  <2>3. /\ DOMAIN sta = DOMAIN STA /\ DOMAIN sta.entry = StaSlots /\ sta.tail = STA.tail
        /\ sta.head = (STA.head + cnt) % STA_SIZE
        /\ \A s \in StaSlots :
             sta.entry[s] = IF \E k \in 0 .. cnt - 1 : s = (STA.head + k) % STA_SIZE THEN 0
                            ELSE STA.entry[s]
    BY <2>1, <2>2 DEF sta
  <2> QED  BY <1>2, <1>3, <2>3, StaTake
<1>27. /\ HasIndex(prog, n, q \o r, e + cnt) /\ q \in Seq(SqSlots) /\ f = Len(q)
       /\ HasIndex(prog, n, q, e)
  <2>1. HasIndex(prog, n, q, e) /\ f = Len(q)  BY <1>1, <1>3 DEF E, n, q, f
  <2>2. q \in Seq(SqSlots)  BY <2>1 DEF HasIndex
  <2>3. CASE cnt > 0
    <3>1. /\ n \in 1 .. Len(prog) /\ e \in Nat /\ cnt \in Nat /\ prog \in Programs
          /\ StoresBefore(prog, n - 1) + Len(q) = e /\ Len(q) + cnt =< Len(prog[n].st)
      BY <1>2, <1>3, <2>1, <2>3
    <3>2. HasIndex(prog, n, q \o r, e + cnt)
      BY ONLY <1>7, <2>1, <3>1, IndexGrow
    <3> QED  BY <2>1, <2>2, <3>2
  <2>4. CASE cnt = 0
    <3>1. r = <<>>
      <4>1. Len(r) = 0  BY <1>10, <2>4
      <4> QED  BY <1>10, <4>1, EmptySeq
    <3>2. q \o r = q  BY <2>2, <3>1, ConcatEmptySeq
    <3>3. e + cnt = e  BY <1>2, <2>4
    <3> QED  BY <2>1, <2>2, <3>2, <3>3
  <2> QED  BY <1>2, <2>1, <2>2, <2>3, <2>4
<1>28. /\ Len(q \o r) = Len(q) + cnt
       /\ \A k \in 1 .. Len(q) + cnt : (q \o r)[k] = IF k =< Len(q) THEN q[k] ELSE r[k - Len(q)]
  BY <1>10, <1>27, ConcatProperties
<1>29. \A k \in 1 .. Len(q) : (q \o r)[k] = q[k] /\ q[k] \in Busy(SQ)
  <2>1. ASSUME NEW k \in 1 .. Len(q) PROVE (q \o r)[k] = q[k] /\ q[k] \in Busy(SQ)
    <3>1. k \in 1 .. f /\ k \in 1 .. Len(q) + cnt /\ k =< Len(q)
      <4>1. f = Len(q)  BY <1>27
      <4> QED  BY <1>2, <4>1
    <3>2. (q \o r)[k] = q[k]  BY <1>28, <3>1
    <3>3. E[i].id # 0 /\ k \in 1 .. Len(E[i].sq_index) /\ q = E[i].sq_index
      BY <1>1 DEF E, n, q
    <3>4. StoresHold(prog, E, retired, dispatched, e, SQ)  BY DEF StoreInv, E, e
    <3>5. /\ E[i].sq_index[k] \in SqSlots
          /\ IsEntryOf(SQ.entry[E[i].sq_index[k]], E[i].id, k)
      BY <1>3, <3>3, <3>4, EntryOfStore
    <3>6. SQ.entry[q[k]].id # 0 /\ q[k] \in SqSlots  BY <3>3, <3>5 DEF IsEntryOf
    <3>7. DOMAIN SQ.entry = SqSlots  BY <1>4
    <3> QED  BY <3>2, <3>6, <3>7 DEF Busy
  <2> QED  BY <2>1
<1>30. \A k \in 1 .. Len(q \o r) : k > Len(q) => (q \o r)[k] \in Range(r)
  <2>1. ASSUME NEW k \in 1 .. Len(q \o r), k > Len(q) PROVE (q \o r)[k] \in Range(r)
    <3>1. k \in 1 .. f + cnt /\ k - f \in 1 .. cnt /\ ~(k =< f)
      <4>1. f = Len(q) /\ Len(q \o r) = f + cnt  BY <1>27, <1>28
      <4> QED  BY <1>2, <2>1, <4>1
    <3>2. (q \o r)[k] = r[k - f]  BY <1>27, <1>28, <3>1
    <3>3. k - f \in DOMAIN r  BY <1>10, <3>1
    <3> QED  BY <3>2, <3>3 DEF Range
  <2> QED  BY <2>1
<1>31. ASSUME NEW k \in Slots, F[k].id # 0 PROVE HasIndex(prog, F[k].id, F[k].sq_index, e + cnt)
  <2>1. CASE k = i  BY <1>1, <1>27, <2>1
  <2>2. CASE k # i
    <3>1. F[k] = E[k] /\ E[k].id # 0  BY <1>1, <1>31, <2>2
    <3>2. HasIndex(prog, E[k].id, E[k].sq_index, e)  BY <1>3, <3>1
    <3>3. E[k].id # n  BY <1>1, <1>3, <2>2, <3>1, HeldOnce DEF n, E
    <3>4. E[k].id \in 1 .. Len(prog)
      <4>1. i \in Slots /\ CoreInv /\ StoreInv  OBVIOUS
      <4> QED  BY <3>1, EntryFacts DEF E
    <3>5. HasIndex(prog, E[k].id, E[k].sq_index, e + cnt)
      <4>1. /\ e \in Nat /\ cnt \in Nat /\ prog \in Programs /\ n # E[k].id
            /\ \A j \in 1 .. cnt : IsStore(prog, n, f + j) /\ Nth(prog, n, f + j) = e + j
        BY <1>2, <1>3, <3>3
      <4> QED  BY ONLY <3>2, <3>4, <4>1, IndexOther
    <3> QED  BY <3>1, <3>5
  <2> QED  BY <2>1, <2>2
<1>32. StoreInv'
  <2>1. UNCHANGED <<prog, read, dispatched, retired>>  BY DEF ScheduleMemory, frontVars
  <2>2. Entered' = e + cnt
    <3>1. Entered' = b + new.occupancy  BY <2>1 DEF Entered, b, new
    <3>2. e = b + SQ.occupancy /\ SQ.occupancy \in Int  BY <1>2, <1>4 DEF e, b, Entered
    <3> DEFINE o == SQ.occupancy
    <3>3. new.occupancy = o + cnt /\ e = b + o /\ o \in Int  BY <1>18, <3>2
    <3> HIDE DEF o
    <3>4. b + (o + cnt) = (b + o) + cnt  BY <1>2, <1>4, <3>3
    <3> QED  BY <3>1, <3>3, <3>4
  <2>3. StoresHold(prog, F, retired, dispatched, e + cnt, new)
    BY <1>2, <1>3, <1>25, <1>31 DEF StoresHold
  <2> QED  BY <1>26, <2>1, <2>2, <2>3 DEF StoreInv, F, new, sta
<1>33. Busy(new) = Busy(SQ) \cup Range(r)
  <2>1. \A s : s \in Busy(new) <=> s \in SqSlots /\ new.entry[s].id # 0  BY <1>18 DEF Busy
  <2>2. \A s : s \in Busy(SQ) <=> s \in SqSlots /\ SQ.entry[s].id # 0  BY <1>4 DEF Busy
  <2>3. Range(r) \subseteq SqSlots  BY <1>9, <1>11
  <2>4. \A s : s \in Busy(new) <=> s \in Busy(SQ) \cup Range(r)  BY <1>19, <1>23, <2>1, <2>2, <2>3
  <2> QED  BY <2>4, SameSet
<1>34. /\ \A s \in Range(r) : ~new.entry[s].fetched
       /\ \A s \in SqSlots \ Range(r) : new.entry[s] = SQ.entry[s]
  BY <1>19, <1>23
<1> QED  BY <1>2, <1>10, <1>13, <1>15, <1>28, <1>29, <1>30, <1>32, <1>33, <1>34 DEF r, cnt, q, new

(* What enters the queues stays to be done, so num_mem_ops still counts it. *)
LEMMA OpsEnter ==
  ASSUME NEW p \in Programs, NEW x, x.id \in 1 .. Len(p), NEW i, NEW lq, NEW sq, NEW y, NEW lq1,
         NEW sq1, OpsOf(p, x, i, lq, sq), y.id = x.id, y.num_mem_ops = x.num_mem_ops,
         NEW A \in SUBSET (1 .. Len(p[x.id].ld)), A \cap x.source_added = {},
         y.source_added = x.source_added \cup A,
         \A k : (\E s \in Busy(lq1) : LoadOf(lq1, s, i, k)) <=>
                  (\E s \in Busy(lq) : LoadOf(lq, s, i, k)) \/ k \in A,
         \A k \in 1 .. Len(p[x.id].st) :
           (k > Len(y.sq_index) \/ ~sq1.entry[y.sq_index[k]].fetched) <=>
             (k > Len(x.sq_index) \/ ~sq.entry[x.sq_index[k]].fetched),
         y.executed = NotYet => ~AllAdded(p, y),
         y.executed # NotYet => AllAdded(p, y) /\ y.executed = INFLIGHT
  PROVE  OpsOf(p, y, i, lq1, sq1)
<1> DEFINE a == LoadsLeft(p, x, i, lq)
           b == LoadsLeft(p, y, i, lq1)
           c == StoresLeft(p, x, sq)
           d == StoresLeft(p, y, sq1)
<1>1. x.id # 0 /\ y.id # 0
  <2>1. 0 \notin 1 .. Len(p)  OBVIOUS
  <2> QED  BY <2>1
<1>2. /\ x.source_added \subseteq 1 .. Len(p[x.id].ld)
      /\ x.num_mem_ops = Cardinality(a) + Cardinality(c)
  BY <1>1 DEF OpsOf
<1>3. \A k : k \in a <=> k \in b  BY DEF LoadsLeft
<1>4. \A k : k \in c <=> k \in d  BY DEF StoresLeft
<1>5. a = b /\ c = d
  <2> HIDE DEF a, b, c, d
  <2> QED  BY <1>3, <1>4
<1>6. y.num_mem_ops = Cardinality(b) + Cardinality(d)
  <2> HIDE DEF a, b, c, d
  <2> QED  BY <1>2, <1>5
<1>7. y.source_added \subseteq 1 .. Len(p[y.id].ld)  BY <1>2
<1>8. INFLIGHT # COMPLETED /\ INFLIGHT # NotYet  BY DEF INFLIGHT, COMPLETED, NotYet
<1>9. /\ y.executed = NotYet /\ IsMemory(p[y.id]) => ~AllAdded(p, y)
      /\ y.executed # NotYet => AllAdded(p, y)
      /\ y.executed # COMPLETED
  <2>1. NotYet # COMPLETED  BY DEF COMPLETED, NotYet
  <2> QED  BY <1>8, <2>1
<1> QED  BY Zenon, <1>1, <1>6, <1>7, <1>9 DEF OpsOf

(* All memory operations are in the queues when the counts say so; one that    *)
(* can enter is missing before.                                                *)
LEMMA AllAddedIs ==
  ASSUME NEW p \in Programs, NEW y, y.id \in 1 .. Len(p),
         y.source_added \subseteq 1 .. Len(p[y.id].ld)
  PROVE  AllAdded(p, y) <=> /\ Cardinality(y.source_added) = Len(p[y.id].ld)
                            /\ Len(y.sq_index) = Len(p[y.id].st)
<1> DEFINE S == 1 .. Len(p[y.id].ld)
           T == y.source_added
<1>1. Len(p[y.id].ld) \in Nat  BY InstructionFacts
<1>2. IsFiniteSet(S) /\ Cardinality(S) = Len(p[y.id].ld)  BY <1>1, IntervalSize
<1>3. T \in SUBSET S /\ (Cardinality(S) = Cardinality(T) => S = T)
  <2>1. T \in SUBSET S  OBVIOUS
  <2> HIDE DEF S, T
  <2> QED  BY <1>2, <2>1, FS_Subset
<1>4. T = S <=> Cardinality(T) = Len(p[y.id].ld)
  <2> HIDE DEF S, T
  <2> QED  BY <1>2, <1>3
<1> QED  BY <1>4 DEF AllAdded

LEMMA OneIsMissing ==
  ASSUME CoreInv, StoreInv, LoadInv, OpsInv, NEW i \in Slots, ScheduleMemory(i)
  PROVE  /\ ~AllAdded(prog, ROB.entry[i]) /\ ROB.entry[i].executed = NotYet
         /\ ROB.entry[i].num_mem_ops # 0 /\ ROB.entry[i].num_mem_ops \in Nat
<1> DEFINE x == ROB.entry[i]
           loads == LoadsToAdd(i)
<1>1. i \in Live /\ x.id # 0 /\ CanAdd(i) /\ IsMemory(prog[x.id])  BY MemoryEntries DEF Live, Instr
<1>2. prog \in Programs /\ x.id \in 1 .. Len(prog) /\ x.sq_index \in Seq(SqSlots)
      /\ Len(x.sq_index) =< Len(prog[x.id].st) /\ Len(x.sq_index) \in Nat /\ Len(prog[x.id].st) \in Nat
  BY <1>1, EntryFacts
<1>3. ASSUME AllAdded(prog, x) PROVE FALSE
  <2>1. CASE loads # <<>>
    <3>1. /\ loads \in Seq(1 .. Len(Instr(i).ld)) /\ Len(loads) \in Nat
          /\ Range(loads) \cap x.source_added = {}
      BY <1>1, LoadsEnter
    <3>2. Head(loads) \in Range(loads) /\ Head(loads) \in 1 .. Len(Instr(i).ld)  BY <2>1, <3>1, Popped
    <3>3. x.source_added = 1 .. Len(Instr(i).ld)  BY <1>3 DEF AllAdded, Instr
    <3> QED  BY <3>1, <3>2, <3>3
  <2>2. CASE StoresToAdd(i) > 0
    <3> DEFINE f == Len(x.sq_index)
               st == Len(prog[x.id].st)
               cnt == StoresToAdd(i)
    <3>1. cnt \in Nat /\ f \in Nat /\ f + cnt =< st /\ cnt > 0  BY <1>1, <2>2, StoresEnter
    <3>2. f = st /\ st \in Nat  BY <1>2, <1>3 DEF AllAdded
    <3> HIDE DEF f, st, cnt
    <3> QED  BY <3>1, <3>2
  <2> QED  BY <1>1, <2>1, <2>2 DEF CanAdd
<1>4. OpsOf(prog, x, i, LQ, SQ)  BY DEF OpsInv, OpsHold
<1>5. x.executed = NotYet  BY <1>1, <1>3, <1>4 DEF OpsOf
<1>6. x.num_mem_ops \in Nat /\ x.num_mem_ops > 0
  <2> HIDE DEF x
  <2> QED  BY <1>1, <1>2, <1>4, <1>5, OpsFacts
<1> HIDE DEF x
<1>7. x.num_mem_ops # 0  BY <1>6
<1> QED  BY <1>3, <1>5, <1>6, <1>7 DEF x

LEMMA ScheduleMemoryMem ==
  ASSUME CoreInv, MemInv, NEW i \in Slots, ScheduleMemory(i)
  PROVE  MemInv'
<1> DEFINE E == ROB.entry
           F == ROB'.entry
           x == E[i]
           y == F[i]
           q == x.sq_index
           r == NewPlaces(i)
           cnt == StoresToAdd(i)
           loads == LoadsToAdd(i)
           slots == SubSeq(Ascending(FreeLQ), 1, Len(loads))
           lq1 == LQ'
           sq1 == SQ'
<1>0. CoreInv /\ StoreInv /\ LoadInv /\ OpsInv /\ PlaceInv /\ CountInv /\ WqInv  BY DEF MemInv
<1>1. /\ i \in Live /\ IsMemory(prog[x.id]) /\ x.id # 0
      /\ \A k \in Slots : k # i => F[k] = E[k]
      /\ y.id = x.id /\ y.num_mem_ops = x.num_mem_ops
      /\ y.source_added = x.source_added \cup Range(loads) /\ y.sq_index = q \o r
      /\ y.executed = IF /\ Cardinality(y.source_added) = Len(prog[x.id].ld)
                         /\ Len(y.sq_index) = Len(prog[x.id].st)
                      THEN IF x.executed = NotYet THEN INFLIGHT ELSE x.executed
                      ELSE x.executed
  BY MemoryEntries DEF Live, Instr
<1>2. /\ loads \in Seq(1 .. Len(prog[x.id].ld)) /\ Range(loads) \cap x.source_added = {}
      /\ slots \in Seq(LqSlots) /\ Once(slots) /\ Range(slots) \cap Busy(LQ) = {}
  BY <1>0, <1>1, LoadsEnter DEF Instr
<1>3. /\ LoadInv' /\ Busy(lq1) = Busy(LQ) \cup Range(slots)
      /\ \A j, k : (\E s \in Busy(lq1) : LoadOf(lq1, s, j, k)) <=>
           \/ \E s \in Busy(LQ) : LoadOf(LQ, s, j, k)
           \/ j = i /\ k \in Range(loads)
  BY <1>0, LoadsEntered
<1>4. /\ StoreInv'
      /\ r \in Seq(SqSlots) /\ Once(r) /\ Len(r) = cnt /\ cnt \in Nat
      /\ Range(r) \cap Busy(SQ) = {} /\ Busy(sq1) = Busy(SQ) \cup Range(r)
      /\ \A s \in Range(r) : ~sq1.entry[s].fetched
      /\ \A s \in SqSlots \ Range(r) : sq1.entry[s] = SQ.entry[s]
      /\ Len(q \o r) = Len(q) + cnt
      /\ \A k \in 1 .. Len(q) : (q \o r)[k] = q[k] /\ q[k] \in Busy(SQ)
      /\ \A k \in 1 .. Len(q \o r) : k > Len(q) => (q \o r)[k] \in Range(r)
  BY <1>0, StoresEntered
<1>5. /\ ~AllAdded(prog, x) /\ x.executed = NotYet /\ x.num_mem_ops # 0 /\ x.num_mem_ops \in Nat
  BY <1>0, OneIsMissing
<1>6. /\ prog \in Programs /\ x.id \in 1 .. Len(prog) /\ q \in Seq(SqSlots) /\ Len(q) \in Nat
      /\ x.source_added \subseteq 1 .. Len(prog[x.id].ld) /\ OpsOf(prog, x, i, LQ, SQ)
      /\ Holds(E, retired, dispatched)
  <2>1. prog \in Programs /\ x.id \in 1 .. Len(prog) /\ q \in Seq(SqSlots) /\ Len(q) \in Nat
    BY <1>0, <1>1, EntryFacts
  <2>2. OpsOf(prog, x, i, LQ, SQ)  BY <1>0 DEF OpsInv, OpsHold
  <2>3. x.source_added \subseteq 1 .. Len(prog[x.id].ld)  BY <1>1, <2>2 DEF OpsOf
  <2>4. Holds(E, retired, dispatched)  BY DEF CoreInv
  <2> QED  BY <2>1, <2>2, <2>3, <2>4
<1>7. DOMAIN SQ.entry = SqSlots /\ StoresHold(prog, E, retired, dispatched, Entered, SQ)
  BY <1>0 DEF StoreInv, StoresHold, SqHolds
<1>8. Range(loads) \subseteq 1 .. Len(prog[x.id].ld)  BY <1>2, SeqRange
<1>9. /\ y.executed = NotYet => ~AllAdded(prog, y)
      /\ y.executed # NotYet => AllAdded(prog, y) /\ y.executed = INFLIGHT
  <2>1. y.source_added \subseteq 1 .. Len(prog[y.id].ld) /\ y.id \in 1 .. Len(prog)
    BY <1>1, <1>6, <1>8
  <2> HIDE DEF y, x
  <2>2. AllAdded(prog, y) <=> /\ Cardinality(y.source_added) = Len(prog[y.id].ld)
                              /\ Len(y.sq_index) = Len(prog[y.id].st)
    BY <1>6, <2>1, AllAddedIs
  <2>3. NotYet # INFLIGHT  BY DEF NotYet, INFLIGHT
  <2> QED  BY <1>1, <1>5, <2>2, <2>3
<1>10. \A k \in 1 .. Len(prog[x.id].st) :
         (k > Len(y.sq_index) \/ ~sq1.entry[y.sq_index[k]].fetched) <=>
           (k > Len(q) \/ ~SQ.entry[q[k]].fetched)
  <2>1. ASSUME NEW k \in 1 .. Len(prog[x.id].st)
        PROVE  (k > Len(q \o r) \/ ~sq1.entry[(q \o r)[k]].fetched) <=>
                 (k > Len(q) \/ ~SQ.entry[q[k]].fetched)
    <3> DEFINE c == Len(q)
               d == Len(q \o r)
    <3>1. c \in Nat /\ d = c + cnt /\ cnt \in Nat /\ k \in Nat \ {0}  BY <1>4, <1>6
    <3> HIDE DEF c, d
    <3>2. CASE k =< c
      <4>1. k \in 1 .. c /\ ~(k > c) /\ ~(k > d)  BY <3>1, <3>2
      <4>2. (q \o r)[k] = q[k] /\ q[k] \in Busy(SQ)  BY <1>4, <4>1 DEF c
      <4>3. q[k] \in SqSlots \ Range(r)  BY <1>4, <1>7, <4>2 DEF Busy
      <4>4. sq1.entry[(q \o r)[k]] = SQ.entry[q[k]]  BY <1>4, <4>2, <4>3
      <4> QED  BY Zenon, <4>1, <4>4 DEF c, d
    <3>3. CASE ~(k =< c) /\ k =< d
      <4>1. k \in 1 .. d /\ k > c  BY <3>1, <3>3
      <4>2. (q \o r)[k] \in Range(r)  BY <1>4, <4>1 DEF c, d
      <4>3. ~sq1.entry[(q \o r)[k]].fetched  BY <1>4, <4>2
      <4> QED  BY Zenon, <4>1, <4>3 DEF c, d
    <3>4. CASE ~(k =< d)
      <4>1. k > d /\ k > c  BY <3>1, <3>4
      <4> QED  BY Zenon, <4>1 DEF c, d
    <3> QED  BY <3>2, <3>3, <3>4
  <2>2. y.sq_index = q \o r  BY <1>1
  <2> HIDE DEF x, y, q, r, sq1
  <2> QED  BY Zenon, <2>1, <2>2
<1>11. OpsOf(prog, y, i, lq1, sq1)
  <2>1. \A k : (\E s \in Busy(lq1) : LoadOf(lq1, s, i, k)) <=>
                 (\E s \in Busy(LQ) : LoadOf(LQ, s, i, k)) \/ k \in Range(loads)
    BY <1>3
  <2> DEFINE A == Range(loads)
  <2>2. /\ A \in SUBSET (1 .. Len(prog[x.id].ld)) /\ A \cap x.source_added = {}
        /\ y.source_added = x.source_added \cup A
        /\ y.id = x.id /\ y.num_mem_ops = x.num_mem_ops
    BY <1>1, <1>2, <1>8
  <2>3. \A k \in 1 .. Len(prog[x.id].st) :
         (k > Len(y.sq_index) \/ ~sq1.entry[y.sq_index[k]].fetched) <=>
           (k > Len(x.sq_index) \/ ~SQ.entry[x.sq_index[k]].fetched)
    BY <1>10
  <2> HIDE DEF x, y, lq1, sq1, loads
  <2> QED  BY ONLY <1>6, <1>9, <2>1, <2>2, <2>3, OpsEnter DEF A
<1>12. ASSUME NEW j \in Slots, j # i PROVE OpsOf(prog, F[j], j, lq1, sq1)
  <2> DEFINE z == E[j]
  <2>1. OpsOf(prog, z, j, LQ, SQ) /\ F[j] = z  BY <1>0, <1>1, <1>12 DEF OpsInv, OpsHold
  <2>2. CASE z.id = 0  BY <2>1, <2>2 DEF OpsOf
  <2>3. CASE z.id # 0
    <3>1. \A k : (\E s \in Busy(lq1) : LoadOf(lq1, s, j, k)) <=> (\E s \in Busy(LQ) : LoadOf(LQ, s, j, k))
      BY <1>3, <1>12
    <3>2. \A s \in Busy(LQ) : \A k : LoadOf(LQ, s, j, k) => k \in z.source_added
      BY <1>0, LoadAdded DEF LoadInv
    <3>3. \A s \in Busy(lq1) : \A k : LoadOf(lq1, s, j, k) => k \in z.source_added
      BY <3>1, <3>2
    <3>4. ASSUME NEW k \in 1 .. Len(prog[z.id].st)
          PROVE  k > Len(z.sq_index) \/
                   (sq1.entry[z.sq_index[k]].fetched <=> SQ.entry[z.sq_index[k]].fetched)
      <4>1. Len(z.sq_index) \in Nat  BY <1>0, <2>3, EntryFacts
      <4>2. CASE ~(k > Len(z.sq_index))
        <5>1. k \in 1 .. Len(z.sq_index)
          <6> DEFINE c == Len(z.sq_index)
          <6>1. c \in Nat /\ ~(k > c) /\ k \in Nat \ {0}  BY <4>1, <4>2
          <6> HIDE DEF c
          <6> QED  BY <6>1 DEF c
        <5>2. /\ z.sq_index[k] \in SqSlots
              /\ IsEntryOf(SQ.entry[z.sq_index[k]], z.id, k)
          BY <1>6, <1>7, <2>3, <5>1, EntryOfStore
        <5>3. z.sq_index[k] \in Busy(SQ)  BY <1>7, <2>3, <5>2 DEF IsEntryOf, Busy
        <5>4. sq1.entry[z.sq_index[k]] = SQ.entry[z.sq_index[k]]  BY <1>4, <5>2, <5>3
        <5> QED  BY Zenon, <5>4
      <4> QED  BY <4>2
    <3> HIDE DEF z, lq1, sq1
    <3>5. OpsOf(prog, z, j, lq1, sq1)
      BY ONLY <2>1, <3>1, <3>2, <3>3, <3>4, OpsStay
    <3> QED  BY <2>1, <3>5
  <2> QED  BY <2>2, <2>3
<1>13. UNCHANGED <<prog, read, dispatched, retired, RTL1, RTS1, dtlb, l1d, wq, counters>>
  BY DEF ScheduleMemory, frontVars
<1>14. OpsInv'
  <2>1. \A j \in Slots : OpsOf(prog, F[j], j, lq1, sq1)  BY <1>11, <1>12
  <2> QED  BY <1>13, <2>1 DEF OpsInv, OpsHold
<1>15. CountInv'
  <2> DEFINE a == inflight_reg_executions
             m == inflight_mem_executions
             c == completed_executions
  <2>1. /\ \A j \in Slots : F[j].id = E[j].id /\ F[j].num_mem_ops = E[j].num_mem_ops
        /\ \A j \in Slots : j # i => F[j].executed = E[j].executed
        /\ \/ F[i].executed = E[i].executed
           \/ E[i].executed = NotYet /\ F[i].executed = INFLIGHT
        /\ IsMemory(prog[E[i].id]) /\ E[i].num_mem_ops # 0
    BY <1>1, <1>5, <1>9
  <2>2. CountersHold(prog, E, a, m, c)  BY <1>0 DEF CountInv
  <2> HIDE DEF E, F, a, m, c
  <2>3. CountersHold(prog, F, a, m, c)  BY ONLY <2>1, <2>2, CountersBegin
  <2> QED  BY <1>13, <2>3 DEF CountInv, F, a, m, c, counters
<1>16. PlaceInv'
  <2>1. RTL0' = RTL0 \o slots /\ RTS0' = RTS0 \o r  BY DEF ScheduleMemory, NewPlaces
  <2>2. InOnePlace(LqSlots, RTL0 \o slots, Asked(dtlb, "LOAD"), RTL1, l1d, Busy(lq1))
    <3> HIDE DEF slots, lq1
    <3>1. Range(slots) \cap Busy(LQ) = {}  BY <1>2
    <3> QED  BY <1>0, <1>2, <1>3, <3>1, PlaceEnter DEF PlaceInv
  <2>3. Unfetched(sq1) = Unfetched(SQ) \cup Range(r)
    <3>1. \A s \in Busy(SQ) : s \in SqSlots \ Range(r)  BY <1>4, <1>7 DEF Busy
    <3>2. \A s \in Busy(SQ) : sq1.entry[s] = SQ.entry[s]  BY <1>4, <3>1
    <3> HIDE DEF r, sq1
    <3>3. \A s : s \in Unfetched(sq1) <=> s \in Unfetched(SQ) \cup Range(r)
      BY Zenon, <1>4, <3>2 DEF Unfetched
    <3> QED  BY <3>3, SameSet
  <2>4. InOnePlace(SqSlots, RTS0 \o r, Asked(dtlb, "RFO"), RTS1, {}, Unfetched(sq1))
    <3> HIDE DEF r, sq1
    <3>1. Range(r) \cap Unfetched(SQ) = {}  BY <1>4 DEF Unfetched
    <3> QED  BY <1>0, <1>4, <2>3, <3>1, PlaceEnter DEF PlaceInv
  <2>5. DtlbType(dtlb)  BY <1>0 DEF PlaceInv
  <2> QED  BY <1>13, <2>1, <2>2, <2>4, <2>5 DEF PlaceInv
<1>17. WqInv'  BY <1>0, <1>13, WqStay
<1> QED  BY <1>3, <1>4, <1>14, <1>15, <1>16, <1>17 DEF MemInv

(* The invariant of the memory side holds *)
LEMMA MemStep == ASSUME StoreRoom, CoreInv, CoreInv', MemInv, [Next]_vars PROVE MemInv'
<1>1. CASE ReadFromTrace  BY <1>1, ReadMem
<1>2. CASE DecodeAndDispatch  BY <1>2, DispatchMem
<1>3. CASE Schedule  BY <1>3, ScheduleMem DEF Schedule
<1>4. CASE ExecuteRTE0 \/ ExecuteRTE1  BY <1>4, ExecuteRTEMem
<1>5. CASE MemorySchedule  BY <1>5, ScheduleMemoryMem DEF MemorySchedule
<1>6. CASE TranslateStore  BY <1>6, TranslateStoreMem
<1>7. CASE TranslateLoad  BY <1>7, TranslateLoadMem
<1>8. CASE ExecuteStore  BY <1>8, ExecuteStoreMem
<1>9. CASE ExecuteLoad  BY <1>9, ExecuteLoadMem
<1>10. CASE DtlbAnswers  BY <1>10, DtlbAnswersMem
<1>11. CASE L1dAnswers  BY <1>11, L1dAnswersMem
<1>12. CASE \E i \in Slots : Complete(i)  BY <1>12, CompleteMem DEF Complete
<1>13. CASE RetireRob  BY <1>13, RetireMem
<1>14. CASE L1dTakesWrite  BY <1>14, L1dTakesWriteMem
<1>15. CASE AbortInReader \/ TraceEnds \/ UNCHANGED vars
  BY <1>15, UnchangedMem DEF AbortInReader, TraceEnds, vars
<1> QED
  BY <1>1, <1>2, <1>3, <1>4, <1>5, <1>6, <1>7, <1>8, <1>9, <1>10, <1>11, <1>12, <1>13,
     <1>14, <1>15 DEF Next

LEMMA MemInvariant == ASSUME StoreRoom PROVE Spec => [](CoreInv /\ MemInv)
<1>1. Init => CoreInv /\ MemInv  BY InitCore, InitMem
<1>2. ASSUME CoreInv /\ MemInv, [Next]_vars PROVE (CoreInv /\ MemInv)'
  BY <1>2, CoreStep, MemStep
<1> QED  BY <1>1, <1>2, PTL DEF Spec

--------------------------------------------------------------------------------
(* What the invariant says *)

LEMMA CountersExact == ASSUME CoreInv, MemInv PROVE InflightCounted
<1> DEFINE In(m, S) == {i \in Live : IsMemory(Instr(i)) = m /\ ROB.entry[i].executed \in S}
           a == In(FALSE, {INFLIGHT})
           b == {i \in In(TRUE, {INFLIGHT}) : ROB.entry[i].num_mem_ops = 0}
           c == {i \in Live : ROB.entry[i].executed = COMPLETED}
           A == RegRun(prog, ROB.entry)
           B == MemRun(prog, ROB.entry)
           C == DoneIn(ROB.entry)
<1>1. \A i : IsMemory(Instr(i)) \in BOOLEAN  BY DEF IsMemory
<1>2. /\ \A i : i \in a <=> i \in A
      /\ \A i : i \in b <=> i \in B
      /\ \A i : i \in c <=> i \in C
  <2>1. \A i : i \in a <=> i \in A  BY <1>1 DEF RegRun, Live, Instr
  <2>2. \A i : i \in b <=> i \in B  BY <1>1 DEF MemRun, Live, Instr
  <2>3. \A i : i \in c <=> i \in C  BY DEF DoneIn, Live
  <2> QED  BY <2>1, <2>2, <2>3
<1>3. a = A /\ b = B /\ c = C
  <2> HIDE DEF a, b, c, A, B, C
  <2> QED  BY <1>2
<1>4. /\ inflight_reg_executions = Cardinality(A) /\ inflight_mem_executions = Cardinality(B)
      /\ completed_executions = Cardinality(C)
  BY DEF MemInv, CountInv, CountersHold
<1>5. ASSUME NEW i \in In(TRUE, {NotYet}) PROVE ROB.entry[i].num_mem_ops > 0
  <2> DEFINE x == ROB.entry[i]
  <2>1. /\ i \in Slots /\ x.id # 0 /\ IsMemory(prog[x.id]) /\ x.executed = NotYet
    BY <1>1 DEF Live, Instr
  <2>2. CoreInv /\ StoreInv /\ OpsOf(prog, x, i, LQ, SQ)  BY <2>1 DEF MemInv, OpsInv, OpsHold
  <2>3. /\ prog \in Programs /\ x.id \in 1 .. Len(prog) /\ x.sq_index \in Seq(SqSlots)
        /\ Len(x.sq_index) =< Len(prog[x.id].st)
    BY <2>1, <2>2, EntryFacts
  <2> HIDE DEF x
  <2>4. x.num_mem_ops > 0  BY <2>1, <2>2, <2>3, OpsFacts
  <2> QED  BY <2>4 DEF x
<1>6. /\ inflight_reg_executions = Cardinality(a) /\ inflight_mem_executions = Cardinality(b)
      /\ completed_executions = Cardinality(c)
  <2> HIDE DEF a, b, c, A, B, C
  <2> QED  BY <1>3, <1>4
<1> QED  BY <1>5, <1>6 DEF InflightCounted

(* InflightCounted: the counters that update_rob tests before it looks for     *)
(* finished instructions count exactly these, and a memory instruction that    *)
(* has not started has memory operations before it.                            *)
THEOREM InflightCountedCorrect == ASSUME StoreRoom PROVE Spec => []InflightCounted
<1>1. Spec => [](CoreInv /\ MemInv)  BY MemInvariant
<1>2. CoreInv /\ MemInv => InflightCounted  BY CountersExact
<1> QED  BY <1>1, <1>2, PTL

LEMMA QueuesExact == ASSUME CoreInv, MemInv PROVE QueueEntriesTracked
<1> DEFINE One(b) == IF b THEN 1 ELSE 0
           Owner(e) == e.id # 0 => ROB.entry[e.rob_index].id = e.id
<1>0. CoreInv /\ StoreInv /\ LoadInv /\ PlaceInv  BY DEF MemInv
<1>1. ASSUME NEW i \in Slots
      PROVE  Cardinality(Places(RTE0, i)) + Cardinality(Places(RTE1, i)) =
               One(/\ i \in Live /\ ~IsMemory(Instr(i)) /\ ROB.entry[i].reg_ready
                   /\ ROB.entry[i].executed = NotYet)
  <2>1. /\ RTE0 \in Seq(Slots) /\ RTE1 \in Seq(Slots) /\ Once(RTE0) /\ Once(RTE1)
        /\ ~(i \in Range(RTE0) /\ i \in Range(RTE1))
        /\ i \in Range(RTE0) \/ i \in Range(RTE1) <=> Due(prog, ROB.entry, i)
    BY Zenon DEF CoreInv, RingsHold
  <2>2. /\ Cardinality(Places(RTE0, i)) = IF i \in Range(RTE0) THEN 1 ELSE 0
        /\ Cardinality(Places(RTE1, i)) = IF i \in Range(RTE1) THEN 1 ELSE 0
    BY <2>1, PlacesOf
  <2>3. Due(prog, ROB.entry, i) <=> /\ i \in Live /\ ~IsMemory(Instr(i)) /\ ROB.entry[i].reg_ready
                                    /\ ROB.entry[i].executed = NotYet
    BY Zenon DEF Due, Live, Instr
  <2> DEFINE d == Due(prog, ROB.entry, i)
             w == /\ i \in Live /\ ~IsMemory(Instr(i)) /\ ROB.entry[i].reg_ready
                  /\ ROB.entry[i].executed = NotYet
             a == Cardinality(Places(RTE0, i))
             b == Cardinality(Places(RTE1, i))
  <2>4. /\ a = (IF i \in Range(RTE0) THEN 1 ELSE 0) /\ b = (IF i \in Range(RTE1) THEN 1 ELSE 0)
        /\ ~(i \in Range(RTE0) /\ i \in Range(RTE1))
        /\ i \in Range(RTE0) \/ i \in Range(RTE1) <=> d
        /\ d <=> w
    BY <2>1, <2>2, <2>3
  <2> HIDE DEF d, w, a, b
  <2>5. a + b = IF w THEN 1 ELSE 0  BY <2>4
  <2> QED  BY <2>5 DEF a, b, w
<1>2. ASSUME NEW s \in LqSlots
      PROVE  /\ Cardinality(Places(RTL0, s)) + One(<<"LOAD", s>> \in dtlb)
                  + Cardinality(Places(RTL1, s)) + One(s \in l1d) = One(LQ.entry[s].id # 0)
             /\ Owner(LQ.entry[s])
  <2> DEFINE T == Asked(dtlb, "LOAD")
  <2>1. Cardinality(Places(RTL0, s)) + (IF s \in T THEN 1 ELSE 0) + Cardinality(Places(RTL1, s))
           + (IF s \in l1d THEN 1 ELSE 0) = IF s \in Busy(LQ) THEN 1 ELSE 0
    BY <1>0, PlacesCounted DEF PlaceInv
  <2>2. s \in T <=> <<"LOAD", s>> \in dtlb  BY <1>0, AskedIs DEF PlaceInv
  <2>3. s \in Busy(LQ) <=> LQ.entry[s].id # 0  BY <1>0 DEF LoadInv, LqHolds, Busy
  <2>4. Owner(LQ.entry[s])  BY <1>0, <2>3 DEF LoadInv, LqHolds
  <2> HIDE DEF T
  <2> QED  BY <2>1, <2>2, <2>3, <2>4
<1>3. ASSUME NEW s \in SqSlots
      PROVE  /\ Cardinality(Places(RTS0, s)) + One(<<"RFO", s>> \in dtlb)
                  + Cardinality(Places(RTS1, s)) = One(SQ.entry[s].id # 0 /\ ~SQ.entry[s].fetched)
             /\ Owner(SQ.entry[s])
  <2> DEFINE T == Asked(dtlb, "RFO")
             a == Cardinality(Places(RTS0, s))
             b == Cardinality(Places(RTS1, s))
             w == SQ.entry[s].id # 0 /\ ~SQ.entry[s].fetched
  <2>1. a + (IF s \in T THEN 1 ELSE 0) + b + (IF s \in {} THEN 1 ELSE 0)
          = IF s \in Unfetched(SQ) THEN 1 ELSE 0
    BY <1>0, PlacesCounted DEF PlaceInv
  <2>2. s \in T <=> <<"RFO", s>> \in dtlb  BY <1>0, AskedIs DEF PlaceInv
  <2>3. prog \in Programs /\ StoresHold(prog, ROB.entry, retired, dispatched, Entered, SQ)
        /\ Holds(ROB.entry, retired, dispatched) /\ DOMAIN SQ.entry = SqSlots
    BY <1>0 DEF StoreInv, StoresHold, SqHolds, CoreInv, TraceInv
  <2>4. s \in Unfetched(SQ) <=> w  BY <2>3, Zenon DEF Unfetched, Busy
  <2>5. Owner(SQ.entry[s])
    <3>1. ASSUME SQ.entry[s].id # 0 PROVE ROB.entry[SQ.entry[s].rob_index].id = SQ.entry[s].id
      BY <2>3, <3>1, StoreOfEntry
    <3> QED  BY <3>1
  <2>6. a \in Int /\ b \in Int
    <3>1. /\ RTS0 \in Seq(SqSlots) /\ RTS1 \in Seq(SqSlots) /\ Once(RTS0) /\ Once(RTS1)
      BY <1>0 DEF PlaceInv, InOnePlace
    <3>2. /\ a = (IF s \in Range(RTS0) THEN 1 ELSE 0)
          /\ b = (IF s \in Range(RTS1) THEN 1 ELSE 0)
      BY <3>1, PlacesOf
    <3> HIDE DEF a, b
    <3> QED  BY <3>2
  <2> HIDE DEF T, a, b, w
  <2>7. a + (IF <<"RFO", s>> \in dtlb THEN 1 ELSE 0) + b = IF w THEN 1 ELSE 0
    <3>1. s \notin {}  OBVIOUS
    <3> QED  BY <2>1, <2>2, <2>4, <2>6, <3>1
  <2> QED  BY <2>5, <2>7 DEF a, b, w
<1>4. DOMAIN LQ.entry = LqSlots /\ DOMAIN SQ.entry = SqSlots
  BY <1>0 DEF StoreInv, StoresHold, SqHolds, LoadInv, LqHolds
<1> QED  BY <1>1, <1>2, <1>3, <1>4 DEF QueueEntriesTracked

(* QueueEntriesTracked: what is ready, and each queue entry that waits, is in  *)
(* exactly one place on its way, so that it starts and finishes once; and a    *)
(* queue entry belongs to the instruction that is in its ROB slot now.         *)
THEOREM QueueEntriesTrackedCorrect == ASSUME StoreRoom PROVE Spec => []QueueEntriesTracked
<1>1. Spec => [](CoreInv /\ MemInv)  BY MemInvariant
<1>2. CoreInv /\ MemInv => QueueEntriesTracked  BY QueuesExact
<1> QED  BY <1>1, <1>2, PTL

(* BookkeepingExact: what check_rob, the ready rings and the counters of       *)
(* ooo_cpu.cc record of the instructions in the buffer is what waits.          *)
THEOREM BookkeepingExactCorrect == ASSUME StoreRoom PROVE Spec => []BookkeepingExact
<1>1. DependencesCounted /\ QueueEntriesTracked /\ InflightCounted => BookkeepingExact
  BY DEF BookkeepingExact
<1> QED
  BY <1>1, DependencesCountedCorrect, QueueEntriesTrackedCorrect, InflightCountedCorrect, PTL
(* The places that the numbers of the stores give. *)
LEMMA StoresPlaced ==
  ASSUME CoreInv, MemInv, NEW m \in retired + 1 .. read, NEW k \in 1 .. Len(prog[m].st)
  PROVE  LET b == StoresBefore(prog, retired)
             j == Nth(prog, m, k) - b
         IN  IF j =< SQ.occupancy
             THEN IsEntryOf(SQ.entry[(SQ.head + j - 1) % SQ_SIZE], m, k)
             ELSE STA.entry[(STA.head + j - SQ.occupancy - 1) % STA_SIZE] = m
<1> DEFINE b == StoresBefore(prog, retired)
           e == Entered
           o == SQ.occupancy
           g == Nth(prog, m, k)
<1>1. /\ prog \in Programs /\ StaHolds(prog, e, read, STA) /\ SqHolds(prog, retired, e, SQ)
      /\ read =< Len(prog) /\ read \in Nat /\ Len(prog) \in Nat
  BY ProgramLength DEF MemInv, StoreInv, StoresHold, CoreInv, TraceInv
<1>2. retired \in 0 .. Len(prog) /\ e \in Nat /\ o = e - b /\ e =< b + SQ_SIZE /\ b =< e
  BY <1>1 DEF SqHolds
<1>3. IsStore(prog, m, k) /\ m > retired /\ m =< read /\ m \in Nat
  <2>1. m \in 1 .. Len(prog) /\ m \in Nat /\ m > retired /\ m =< read  BY <1>1, <1>2
  <2> QED  BY <2>1 DEF IsStore
<1>4. b \in Nat /\ g \in Nat \ {0}  BY <1>1, <1>2, <1>3, StoresFinite, NthBounds
<1>5. g > b
  <2>1. g =< b <=> m =< retired  BY <1>1, <1>2, <1>3, NthOrder
  <2> QED  BY <1>2, <1>3, <1>4, <2>1
<1>6. SQ.head = b % SQ_SIZE /\ STA.head = e % STA_SIZE  BY <1>1 DEF SqHolds, StaHolds
<1>7. \A x \in Nat : \A d \in 0 .. SQ_SIZE : ((x % SQ_SIZE) + d) % SQ_SIZE = (x + d) % SQ_SIZE
  BY SizesType, RingPlus
<1>8. \A x \in Nat : \A d \in 0 .. STA_SIZE : ((x % STA_SIZE) + d) % STA_SIZE = (x + d) % STA_SIZE
  BY SizesType, RingPlus
<1>9. b % SQ_SIZE \in Nat /\ e % STA_SIZE \in Nat
  <2>1. \A x \in Nat : x % SQ_SIZE \in Nat /\ x % STA_SIZE \in Nat  BY SizesType
  <2> HIDE DEF b, e
  <2> QED  BY <1>2, <1>4, <2>1
<1>10. CASE g =< e
  <2>1. InQueue(prog, retired, e, m, k)  BY <1>3, <1>10 DEF InQueue
  <2>2. IsEntryOf(SQ.entry[QueuePlace(g)], m, k)  BY <1>1, <2>1 DEF SqHolds
  <2> DEFINE h == b % SQ_SIZE
             d == g - b - 1
  <2>3. d \in 0 .. SQ_SIZE /\ b + d = g - 1
    <3> HIDE DEF e, g, b
    <3> QED  BY <1>2, <1>4, <1>5, <1>10, SizesType DEF d
  <2>4. (h + d) % SQ_SIZE = (b + d) % SQ_SIZE  BY <1>4, <1>7, <2>3
  <2>5. h + (g - b) - 1 = h + d
    <3> HIDE DEF h, e, g, b
    <3>1. h \in Nat  BY <1>9 DEF h
    <3> QED  BY <1>4, <3>1 DEF d
  <2>6. (SQ.head + (g - b) - 1) % SQ_SIZE = QueuePlace(g)
    BY <1>6, <2>3, <2>4, <2>5 DEF QueuePlace
  <2>7. g - b =< o
    <3> HIDE DEF e, g, b, o
    <3> QED  BY <1>2, <1>4, <1>10
  <2> QED  BY <2>2, <2>6, <2>7
<1>11. CASE ~(g =< e)
  <2>1. Pending(prog, e, read, m, k)  BY <1>2, <1>3, <1>4, <1>11 DEF Pending
  <2>2. STA.entry[StaPlace(g)] = m  BY <1>1, <2>1 DEF StaHolds
  <2>3. g \in e + 1 .. e + STA_SIZE  BY <1>1, <2>1, PendingRange
  <2> DEFINE h == e % STA_SIZE
             d == g - e - 1
  <2>4. d \in 0 .. STA_SIZE /\ e + d = g - 1
    <3> HIDE DEF e, g
    <3> QED  BY <1>2, <1>4, <2>3, SizesType DEF d
  <2>5. (h + d) % STA_SIZE = (e + d) % STA_SIZE  BY <1>2, <1>8, <2>4
  <2>6. h + (g - b) - o - 1 = h + d
    <3> HIDE DEF h, e, g, b, o
    <3>1. h \in Nat  BY <1>9 DEF h
    <3> QED  BY <1>2, <1>4, <3>1 DEF d
  <2>7. (STA.head + (g - b) - o - 1) % STA_SIZE = StaPlace(g)
    BY <1>6, <2>4, <2>5, <2>6 DEF StaPlace
  <2>8. ~(g - b =< o)
    <3> HIDE DEF e, g, b, o
    <3> QED  BY <1>2, <1>4, <1>11
  <2> QED  BY <2>2, <2>7, <2>8
<1> QED  BY <1>10, <1>11

LEMMA StoresOrdered == ASSUME CoreInv, MemInv PROVE StoresInProgramOrder
<1> DEFINE b == StoresBefore(prog, retired)
           a == StoresBefore(prog, read)
           e == Entered
           t == Cardinality({s \in DOMAIN STA.entry : STA.entry[s] # 0})
           number(m, k) == StoresBefore(prog, m - 1) - b + k
<1>1. /\ prog \in Programs /\ StaHolds(prog, e, read, STA) /\ SqHolds(prog, retired, e, SQ)
      /\ read \in 0 .. Len(prog) /\ retired \in 0 .. Len(prog) /\ Len(prog) \in Nat
  <2>1. prog \in Programs  BY DEF CoreInv, TraceInv
  <2>2. StaHolds(prog, e, read, STA) /\ SqHolds(prog, retired, e, SQ)
    BY DEF MemInv, StoreInv, StoresHold
  <2>3. read \in 0 .. Len(prog) /\ retired \in 0 .. Len(prog)
    BY <2>2 DEF SqHolds, StaHolds
  <2> QED  BY <2>1, <2>2, <2>3, ProgramLength
<1>2. SQ.occupancy + t = a - b
  <2>1. t = a - e  BY <1>1, StaCount
  <2>2. a \in Nat /\ b \in Nat  BY <1>1, StoresFinite
  <2>3. e \in Nat /\ SQ.occupancy = e - b  BY <1>1 DEF SqHolds
  <2> HIDE DEF a, b, e, t
  <2> QED  BY <2>1, <2>2, <2>3
<1>3. ASSUME NEW m \in retired + 1 .. read, NEW k \in 1 .. Len(prog[m].st)
      PROVE  IF number(m, k) =< SQ.occupancy
             THEN LET x == SQ.entry[(SQ.head + number(m, k) - 1) % SQ_SIZE] IN x.id = m /\ x.op = k
             ELSE STA.entry[(STA.head + number(m, k) - SQ.occupancy - 1) % STA_SIZE] = m
  <2> DEFINE j == Nth(prog, m, k) - b
  <2>1. IF j =< SQ.occupancy
        THEN IsEntryOf(SQ.entry[(SQ.head + j - 1) % SQ_SIZE], m, k)
        ELSE STA.entry[(STA.head + j - SQ.occupancy - 1) % STA_SIZE] = m
    BY StoresPlaced
  <2>2. number(m, k) = j
    <3>1. m \in 1 .. Len(prog)  BY <1>1
    <3>2. IsStore(prog, m, k)  BY <3>1 DEF IsStore
    <3>3. StoresBefore(prog, m - 1) \in Nat /\ k \in Nat  BY <1>1, <3>2, NthBounds
    <3>4. b \in Nat  BY <1>1, StoresFinite
    <3> DEFINE c == StoresBefore(prog, m - 1)
    <3>5. j = (c + k) - b  BY DEF Nth
    <3>6. c \in Nat  BY <3>3
    <3> HIDE DEF b, c, j
    <3>7. c - b + k = j  BY <3>3, <3>4, <3>5, <3>6
    <3> QED  BY <3>7 DEF c
  <2> HIDE DEF j, number
  <2> QED  BY <2>1, <2>2 DEF IsEntryOf
<1>4. /\ DOMAIN wq = 1 .. Len(wq)
      /\ \A k \in 1 .. Len(wq) : wq[k].fetched /\ wq[k].id =< retired
      /\ \A k \in 1 .. Len(wq) - 1 : InOrder(wq[k], wq[k + 1])
  <2>1. wq \in Seq(QueueSlot)  BY DEF MemInv, WqInv, WqHolds
  <2>2. DOMAIN wq = 1 .. Len(wq)  BY <2>1
  <2> QED  BY <2>2, Zenon DEF MemInv, WqInv, WqHolds
<1>5. \A k \in DOMAIN wq : wq[k].fetched /\ wq[k].id =< retired  BY <1>4, Zenon
<1>6. \A k \in 1 .. Len(wq) - 1 :
        wq[k].id < wq[k + 1].id \/ (wq[k].id = wq[k + 1].id /\ wq[k].op < wq[k + 1].op)
  BY <1>4, Zenon DEF InOrder
<1> QED  BY <1>2, <1>3, <1>5, <1>6, Zenon DEF StoresInProgramOrder

(* StoresInProgramOrder: the store queue and STA hold the stores of the        *)
(* instructions read and not retired, in program order, whatever the order in  *)
(* which these execute; and what leaves for the L1D is fetched and retired.    *)
THEOREM StoresInProgramOrderCorrect == ASSUME StoreRoom PROVE Spec => []StoresInProgramOrder
<1>1. Spec => [](CoreInv /\ MemInv)  BY MemInvariant
<1>2. CoreInv /\ MemInv => StoresInProgramOrder  BY StoresOrdered
<1> QED  BY <1>1, <1>2, PTL

(* SanityCheckHolds: the assertion of the reader, ooo_cpu.cc:69-71 and 226-229,*)
(* holds for programs whose stores fit: each store finds its place in STA free.*)
LEMMA ReaderAsserts == ASSUME StoreRoom, CoreInv, MemInv, MayRead PROVE ~StaAssertionFails
<1> DEFINE e == Entered
<1>1. StaHolds(prog, e, read, STA)  BY DEF MemInv, StoreInv
<1>2. StoresBefore(prog, read + 1) =< e + STA_SIZE  BY NextFits
<1>3. prog \in Programs /\ read < Len(prog)  BY DEF CoreInv, TraceInv, MayRead
<1> HIDE DEF e
<1>4. \A k \in 0 .. Len(prog[read + 1].st) - 1 : STA.entry[(STA.tail + k) % STA_SIZE] = 0
  BY <1>1, <1>2, <1>3, StaFree
<1> QED  BY <1>4 DEF StaAssertionFails, NewStores, NewPlace

LEMMA OnlyTheReaderAborts == ASSUME Next, ~AbortInReader PROVE UNCHANGED aborted
BY DEF Next, Running, ReadFromTrace, DecodeAndDispatch, Schedule, ScheduleInstruction,
   ExecuteRTE0, ExecuteRTE1, DoExecution, MemorySchedule, ScheduleMemory, TranslateStore,
   TranslateLoad, ExecuteStore, ExecuteLoad, DtlbAnswers, CompleteTranslation, L1dAnswers,
   CompleteLoads, Complete, CompleteExecution, RetireRob, L1dTakesWrite, TraceEnds, vars

(* SanityCheckHolds: no program whose stores fit ends in that assertion.       *)
THEOREM SanityCheckHoldsCorrect == ASSUME StoreRoom PROVE Spec => []SanityCheckHolds
<1>1. Spec => [](CoreInv /\ MemInv)  BY MemInvariant
<1>2. Init => SanityCheckHolds  BY DEF Init, SanityCheckHolds
<1>3. ASSUME CoreInv, MemInv, SanityCheckHolds, [Next]_vars PROVE SanityCheckHolds'
  <2>1. CASE AbortInReader  BY <1>3, <2>1, ReaderAsserts DEF AbortInReader
  <2>2. CASE UNCHANGED vars  BY <1>3, <2>2 DEF vars, SanityCheckHolds
  <2>3. CASE Next /\ ~AbortInReader
    <3>1. UNCHANGED aborted  BY <2>3, OnlyTheReaderAborts
    <3> QED  BY <1>3, <3>1 DEF SanityCheckHolds
  <2> QED  BY <1>3, <2>1, <2>2, <2>3
<1> QED  BY <1>1, <1>2, <1>3, PTL DEF Spec

--------------------------------------------------------------------------------
(* Types *)

LEMMA AbortedType == Spec => [](aborted \in BOOLEAN)
<1>1. Init => aborted \in BOOLEAN  BY DEF Init
<1>2. ASSUME aborted \in BOOLEAN, [Next]_vars PROVE (aborted \in BOOLEAN)'
  <2>1. CASE AbortInReader  BY <2>1 DEF AbortInReader
  <2>2. CASE UNCHANGED vars  BY <1>2, <2>2 DEF vars
  <2>3. CASE Next /\ ~AbortInReader  BY <1>2, <2>3, OnlyTheReaderAborts
  <2> QED  BY <1>2, <2>1, <2>2, <2>3
<1> QED  BY <1>1, <1>2, PTL DEF Spec

LEMMA RecordType ==
  ASSUME NEW e, IsRecord(e), e.id \in Nat, e.scheduled \in {NotYet, INFLIGHT, COMPLETED},
         e.executed \in {NotYet, INFLIGHT, COMPLETED}, e.reg_ready \in BOOLEAN,
         e.num_reg_dependent \in Nat, e.num_lsq_dependent \in Nat, e.num_mem_ops \in Nat,
         e.regOut \in SUBSET (Slots \X Nat), e.memOut \in SUBSET Slots,
         e.source_added \in SUBSET Nat, e.sq_index \in Seq(0 .. SQ_SIZE - 1)
  PROVE  e \in EntryType
BY DEF IsRecord, EmptyEntry, EntryType

LEMMA RecordsStay == ASSUME Records, UNCHANGED ROB PROVE Records'
BY DEF Records

LEMMA InitRecords == Init => Records
<1> SUFFICES ASSUME Init PROVE Records
  OBVIOUS
<1>1. ROB.entry = [i \in Slots |-> EmptyEntry] /\ ROB.next_schedule = 0  BY DEF Init
<1>2. IsRecord(EmptyEntry)  BY DEF IsRecord, EmptyEntry
<1>3. 0 \in Slots  BY SizesType DEF Slots
<1> HIDE DEF EmptyEntry
<1> QED  BY <1>1, <1>2, <1>3 DEF Records

(* One entry is written. *)
LEMMA RecordsOne ==
  ASSUME Records, NEW i \in Slots, NEW e, ROB'.entry = [ROB.entry EXCEPT ![i] = e], IsRecord(e),
         ROB'.next_schedule = ROB.next_schedule
  PROVE  Records'
<1>1. \A k \in Slots : ROB'.entry[k] = IF k = i THEN e ELSE ROB.entry[k]  BY DEF Records
<1>2. ROB'.entry = [k \in Slots |-> ROB'.entry[k]]  BY DEF Records
<1> QED  BY <1>1, <1>2 DEF Records

LEMMA FinishedRecords == ASSUME CoreInv, Records, NEW ops, Finished(ops) PROVE Records'
<1> DEFINE n(i) == Cardinality({e \in ops : e.rob_index = i})
           less(i) == ROB.entry[i].num_mem_ops - n(i)
           W(i) == [ROB.entry[i] EXCEPT !.num_mem_ops = less(i)]
<1>1. ROB' = [ROB EXCEPT !.entry = [i \in Slots |-> W(i)]]
  BY Zenon DEF Finished
<1> HIDE DEF less
<1>2. ASSUME NEW i \in Slots PROVE IsRecord(W(i))
  BY DEF IsRecord, CoreInv, BufferShape, EmptyEntry
<1> HIDE DEF W
<1>3. ROB'.entry = [i \in Slots |-> W(i)] /\ ROB'.next_schedule = ROB.next_schedule
  BY <1>1 DEF CoreInv, BufferShape
<1>4. ROB'.next_schedule \in Slots  BY <1>3 DEF Records
<1>5. \A i \in Slots : ROB'.entry[i] = W(i)  BY <1>3
<1>6. ROB'.entry = [i \in Slots |-> ROB'.entry[i]]  BY <1>3
<1> QED  BY <1>2, <1>4, <1>5, <1>6 DEF Records

LEMMA ExecutionRecords == ASSUME CoreInv, Records, NEW t \in Slots, DoExecution(t) PROVE Records'
<1> DEFINE e == [ROB.entry[t] EXCEPT !.executed = INFLIGHT]
<1>1. ROB' = [ROB EXCEPT !.entry = [ROB.entry EXCEPT ![t] = e]]
  BY DEF DoExecution, CoreInv, BufferShape
<1>2. IsRecord(e)  BY DEF IsRecord, CoreInv, BufferShape, EmptyEntry
<1> HIDE DEF e
<1>3. ROB'.entry = [ROB.entry EXCEPT ![t] = e] /\ ROB'.next_schedule = ROB.next_schedule
  BY <1>1 DEF CoreInv, BufferShape
<1> QED  BY <1>2, <1>3, RecordsOne

LEMMA DispatchRecords == ASSUME CoreInv, Records, DecodeAndDispatch PROVE Records'
<1> DEFINE e == [EmptyEntry EXCEPT !.id = dispatched + 1,
                                   !.num_mem_ops = NumMemOps(prog[dispatched + 1])]
           t == ROB.tail
<1>1. IsRecord(e)  BY DEF IsRecord, EmptyEntry
<1>2. ROB' = [ROB EXCEPT !.entry = [ROB.entry EXCEPT ![t] = e],
                         !.occupancy = ROB.occupancy + 1, !.tail = (ROB.tail + 1) % ROB_SIZE]
  BY DEF DecodeAndDispatch, CoreInv, BufferShape
<1> HIDE DEF e
<1>3. ROB'.entry = [ROB.entry EXCEPT ![t] = e] /\ ROB'.next_schedule = ROB.next_schedule
  BY <1>2 DEF CoreInv, BufferShape
<1>4. t \in Slots
  <2>1. Holds(ROB.entry, retired, dispatched) /\ ROB.tail = dispatched % ROB_SIZE
    BY DEF CoreInv, BufferShape
  <2> QED  BY <2>1, HeldOnce
<1> HIDE DEF t
<1> QED  BY <1>1, <1>3, <1>4, RecordsOne

LEMMA RetireRecords == ASSUME CoreInv, Records, RetireRob PROVE Records'
<1> DEFINE t == ROB.head
<1>1. IsRecord(EmptyEntry)  BY DEF IsRecord, EmptyEntry
<1>2. ROB' = [ROB EXCEPT !.entry = [ROB.entry EXCEPT ![t] = EmptyEntry],
                         !.head = (ROB.head + 1) % ROB_SIZE, !.occupancy = ROB.occupancy - 1]
  BY DEF RetireRob, CoreInv, BufferShape
<1> HIDE DEF EmptyEntry
<1>3. /\ ROB'.entry = [ROB.entry EXCEPT ![t] = EmptyEntry]
      /\ ROB'.next_schedule = ROB.next_schedule
  BY <1>2 DEF CoreInv, BufferShape
<1>4. t \in Slots  BY RetireCore
<1> HIDE DEF t
<1> QED  BY <1>1, <1>3, <1>4, RecordsOne

LEMMA CompletionRecords ==
  ASSUME CoreInv, Records, NEW i \in Slots, CompleteExecution(i) PROVE Records'
<1> DEFINE e == ROB.entry[i]
           freed(k) == Cardinality({link \in e.regOut : link[1] = k})
           Ready == {k \in Slots : freed(k) > 0 /\ ROB.entry[k].num_reg_dependent = freed(k)}
           Released(k) ==
             [ROB.entry[k] EXCEPT
               !.executed = IF k = i THEN COMPLETED ELSE @,
               !.num_lsq_dependent = IF k \in e.memOut THEN @ - 1 ELSE @,
               !.num_reg_dependent = @ - freed(k),
               !.reg_ready = @ \/ k \in Ready,
               !.scheduled = IF k \in Ready
                             THEN IF IsMemory(Instr(k)) THEN INFLIGHT ELSE COMPLETED
                             ELSE @]
<1>1. ROB' = [ROB EXCEPT !.entry = [k \in Slots |-> Released(k)]]
  BY Zenon DEF CompleteExecution
<1>2. ASSUME NEW k \in Slots PROVE IsRecord(Released(k))
  <2> HIDE DEF freed, Ready, e
  <2> QED  BY DEF IsRecord, CoreInv, BufferShape, EmptyEntry
<1> HIDE DEF Released
<1>3. /\ ROB'.entry = [k \in Slots |-> Released(k)]
      /\ ROB'.next_schedule = ROB.next_schedule
  BY <1>1 DEF CoreInv, BufferShape
<1>4. \A k \in Slots : ROB'.entry[k] = Released(k)  BY <1>3
<1>5. ROB'.entry = [k \in Slots |-> ROB'.entry[k]]  BY <1>3
<1> QED  BY <1>2, <1>3, <1>4, <1>5 DEF Records

LEMMA ScheduleRecords == ASSUME CoreInv, Records, NEW n, ScheduleInstruction(n) PROVE Records'
<1> DEFINE Reach == {i \in ScheduleScan : Age(i) < n}
           New   == {i \in Reach : ROB.entry[i].scheduled = NotYet}
           Scheduled(i) ==
             [ROB.entry[i] EXCEPT
                !.reg_ready = RegDependent(i) = {},
                !.num_reg_dependent = Cardinality(RegDependent(i)),
                !.num_lsq_dependent = Cardinality(MemProducers(i)),
                !.scheduled = IF IsMemory(Instr(i)) THEN INFLIGHT ELSE COMPLETED]
           WithLinks(q) ==
             [(IF q \in New THEN Scheduled(q) ELSE ROB.entry[q]) EXCEPT
                !.regOut = @ \cup UNION {{i} \X RegLinks(i, q) : i \in New},
                !.memOut = @ \cup {i \in New : q \in MemProducers(i)}]
           next == (Max(New) + 1) % ROB_SIZE
<1>1. /\ ROB' = [ROB EXCEPT !.entry = [q \in Slots |-> WithLinks(q)], !.next_schedule = next]
      /\ Reach \subseteq Live /\ New # {}
  BY DEF ScheduleInstruction
<1>2. ASSUME NEW q \in Slots PROVE IsRecord(WithLinks(q))
  <2>1. DOMAIN Scheduled(q) = DOMAIN EmptyEntry
    BY DEF CoreInv, BufferShape, EmptyEntry
  <2> HIDE DEF Scheduled, New
  <2> DEFINE y == IF q \in New THEN Scheduled(q) ELSE ROB.entry[q]
  <2>2. DOMAIN y = DOMAIN EmptyEntry  BY <2>1 DEF CoreInv, BufferShape
  <2>3. WithLinks(q) = [y EXCEPT !.regOut = y.regOut \cup UNION {{i} \X RegLinks(i, q) : i \in New},
                                 !.memOut = y.memOut \cup {i \in New : q \in MemProducers(i)}]
    BY <2>2 DEF EmptyEntry
  <2> HIDE DEF y, WithLinks
  <2> QED  BY <2>2, <2>3 DEF EmptyEntry, IsRecord
<1>3. next \in Slots
  <2>1. New \subseteq Slots /\ New # {}  BY <1>1 DEF Live
  <2> HIDE DEF New
  <2>2. Slots \subseteq Nat /\ ROB_SIZE \in Nat \ {0}
        /\ \A x \in New : x \in 0 .. ROB_SIZE
    BY <2>1, SizesType DEF Slots
  <2>3. \E x \in New : \A y \in New : y =< x  BY <2>1, <2>2, GreatestNat
  <2>4. Max(New) \in New  BY <2>3 DEF Max
  <2>5. Max(New) + 1 \in Int  BY <2>2, <2>4
  <2>6. (Max(New) + 1) % ROB_SIZE \in 0 .. ROB_SIZE - 1  BY <2>2, <2>5, RemainderType
  <2> QED  BY <2>6 DEF Slots
<1> HIDE DEF WithLinks, next
<1>4. ROB'.entry = [q \in Slots |-> WithLinks(q)] /\ ROB'.next_schedule = next
  BY <1>1 DEF CoreInv, BufferShape
<1>5. \A k \in Slots : ROB'.entry[k] = WithLinks(k)  BY <1>4
<1>6. ROB'.entry = [k \in Slots |-> ROB'.entry[k]]  BY <1>4
<1> QED  BY <1>2, <1>3, <1>4, <1>5, <1>6 DEF Records

LEMMA ScheduleMemoryRecords ==
  ASSUME CoreInv, Records, NEW i \in Slots, ScheduleMemory(i) PROVE Records'
<1> DEFINE NewSq == [k \in 1 .. StoresToAdd(i) |-> (SQ.tail + (k - 1)) % SQ_SIZE]
           e == [ROB.entry[i] EXCEPT !.source_added = @ \cup Range(LoadsToAdd(i)),
                                     !.sq_index = @ \o NewSq]
           all == /\ Cardinality(e.source_added) = Len(Instr(i).ld)
                  /\ Len(e.sq_index) = Len(Instr(i).st)
<1>1. ROB' = [ROB EXCEPT !.entry[i] =
                IF all THEN [e EXCEPT !.scheduled = COMPLETED,
                                      !.executed = IF @ = NotYet THEN INFLIGHT ELSE @]
                ELSE e]
  BY DEF ScheduleMemory
<1>2. DOMAIN e = DOMAIN EmptyEntry /\ IsRecord(e)
  BY DEF CoreInv, BufferShape, EmptyEntry, IsRecord
<1> HIDE DEF e, all
<1> DEFINE n == IF all THEN [e EXCEPT !.scheduled = COMPLETED,
                                      !.executed = IF e.executed = NotYet THEN INFLIGHT ELSE e.executed]
                ELSE e
<1>3. IsRecord(n)  BY <1>2 DEF EmptyEntry, IsRecord
<1>4. ROB' = [ROB EXCEPT !.entry = [ROB.entry EXCEPT ![i] = n]]
  BY <1>1, <1>2 DEF CoreInv, BufferShape, EmptyEntry
<1> HIDE DEF n
<1>5. /\ ROB'.entry = [ROB.entry EXCEPT ![i] = n]
      /\ ROB'.next_schedule = ROB.next_schedule
  BY <1>4 DEF CoreInv, BufferShape
<1> QED  BY <1>3, <1>5, RecordsOne

LEMMA RecordsStep == ASSUME CoreInv, Records, [Next]_vars PROVE Records'
<1>1. CASE ReadFromTrace  BY <1>1, RecordsStay DEF ReadFromTrace
<1>2. CASE DecodeAndDispatch  BY <1>2, DispatchRecords
<1>3. CASE Schedule  BY <1>3, ScheduleRecords DEF Schedule
<1>4. CASE ExecuteRTE0
  <2>1. RingsHold(prog, ROB.entry, RTE0, RTE1) /\ RTE0 # <<>>  BY <1>4 DEF CoreInv, ExecuteRTE0
  <2>2. Head(RTE0) \in Slots  BY <2>1, Popped DEF RingsHold
  <2> QED  BY <1>4, <2>2, ExecutionRecords DEF ExecuteRTE0
<1>5. CASE ExecuteRTE1
  <2>1. RingsHold(prog, ROB.entry, RTE1, RTE0) /\ RTE1 # <<>>
    BY <1>5, RingsSwap DEF CoreInv, ExecuteRTE1
  <2>2. Head(RTE1) \in Slots  BY <2>1, Popped DEF RingsHold
  <2> QED  BY <1>5, <2>2, ExecutionRecords DEF ExecuteRTE1
<1>6. CASE MemorySchedule  BY <1>6, ScheduleMemoryRecords DEF MemorySchedule
<1>7. CASE TranslateStore \/ TranslateLoad \/ ExecuteLoad
  BY <1>7, RecordsStay DEF TranslateStore, TranslateLoad, ExecuteLoad
<1>8. CASE ExecuteStore
  <2>1. \E ops : Finished(ops)  BY <1>8 DEF ExecuteStore
  <2> QED  BY <2>1, FinishedRecords
<1>9. CASE DtlbAnswers  BY <1>9, RecordsStay DEF DtlbAnswers, CompleteTranslation
<1>10. CASE L1dAnswers
  <2>1. \E ops : Finished(ops)  BY <1>10 DEF L1dAnswers, CompleteLoads
  <2> QED  BY <2>1, FinishedRecords
<1>11. CASE \E i \in Slots : Complete(i)  BY <1>11, CompletionRecords DEF Complete
<1>12. CASE RetireRob  BY <1>12, RetireRecords
<1>13. CASE L1dTakesWrite \/ AbortInReader \/ TraceEnds \/ UNCHANGED vars
  BY <1>13, RecordsStay DEF L1dTakesWrite, AbortInReader, TraceEnds, vars, coreVars
<1> QED
  BY <1>1, <1>2, <1>3, <1>4, <1>5, <1>6, <1>7, <1>8, <1>9, <1>10, <1>11, <1>12, <1>13 DEF Next
LEMMA EntriesTyped == ASSUME CoreInv, MemInv, Records PROVE ROB.entry \in [Slots -> EntryType]
<1>1. ASSUME NEW i \in Slots PROVE ROB.entry[i] \in EntryType
  <2> DEFINE e == ROB.entry[i]
  <2>1. /\ IsRecord(e) /\ e.id \in Nat /\ e.scheduled \in {NotYet, INFLIGHT, COMPLETED}
        /\ e.executed \in {NotYet, INFLIGHT, COMPLETED} /\ e.reg_ready \in BOOLEAN
        /\ e.num_reg_dependent \in Nat /\ e.num_lsq_dependent \in Nat
        /\ e.regOut \in SUBSET (Slots \X Nat) /\ e.memOut \in SUBSET Slots
    BY Zenon DEF CoreInv, CoreType, Records
  <2>2. StoreInv /\ OpsOf(prog, e, i, LQ, SQ)  BY DEF MemInv, OpsInv, OpsHold
  <2>3. CASE e.id = 0
    <3>1. e.num_mem_ops = 0 /\ e.source_added = {} /\ e.sq_index = <<>>
      BY <2>2, <2>3 DEF OpsOf
    <3>2. /\ e.num_mem_ops \in Nat /\ e.source_added \in SUBSET Nat
          /\ e.sq_index \in Seq(0 .. SQ_SIZE - 1)
      BY <3>1
    <3> HIDE DEF e
    <3> QED  BY <2>1, <3>2, RecordType DEF e
  <2>4. CASE e.id # 0
    <3>1. /\ prog \in Programs /\ e.id \in 1 .. Len(prog) /\ e.sq_index \in Seq(SqSlots)
          /\ Len(e.sq_index) =< Len(prog[e.id].st) /\ Len(prog[e.id].ld) \in Nat
      BY <2>2, <2>4, EntryFacts
    <3> HIDE DEF e
    <3>2. e.num_mem_ops \in Nat  BY <2>2, <3>1, OpsFacts
    <3>3. e.source_added \in SUBSET Nat
      <4>1. e.source_added \subseteq 1 .. Len(prog[e.id].ld)  BY <2>2, <2>4 DEF OpsOf
      <4>2. 1 .. Len(prog[e.id].ld) \subseteq Nat  BY <3>1
      <4> QED  BY <4>1, <4>2
    <3> QED  BY <2>1, <3>1, <3>2, <3>3, RecordType DEF SqSlots, e
  <2> QED  BY <2>3, <2>4
<1> QED  BY <1>1 DEF Records

LEMMA OccupancyIsLive == ASSUME CoreInv PROVE ROB.occupancy = Cardinality(Live)
<1> DEFINE S == retired + 1 .. dispatched
           f == [n \in S |-> SlotOf(n)]
<1>1. /\ Holds(ROB.entry, retired, dispatched) /\ retired \in Nat /\ dispatched \in Nat
      /\ retired =< dispatched /\ ROB.occupancy = dispatched - retired
  BY DEF CoreInv, BufferShape, Holds
<1>2. IsFiniteSet(S) /\ Cardinality(S) = dispatched - retired
  <2> DEFINE a == retired + 1
  <2>1. a \in Int /\ dispatched \in Int /\ ~(a > dispatched + 1) /\ dispatched - a + 1 = dispatched - retired
    BY <1>1
  <2> HIDE DEF a
  <2>2. IsFiniteSet(a .. dispatched)
        /\ Cardinality(a .. dispatched) = IF a > dispatched THEN 0 ELSE dispatched - a + 1
    BY <2>1, FS_Interval
  <2>3. Cardinality(a .. dispatched) = dispatched - a + 1  BY <2>1, <2>2
  <2> QED  BY <2>1, <2>2, <2>3 DEF a
<1>3. ASSUME NEW n \in S PROVE SlotOf(n) \in Live /\ ROB.entry[SlotOf(n)].id = n
  <2>1. n \in Nat \ {0}  BY <1>1
  <2>2. SlotOf(n) \in Slots  BY <2>1, SlotType
  <2>3. ROB.entry[SlotOf(n)].id = n  BY <1>1 DEF Holds
  <2> QED  BY <2>1, <2>2, <2>3 DEF Live
<1>4. ASSUME NEW i \in Live PROVE ROB.entry[i].id \in S /\ SlotOf(ROB.entry[i].id) = i
  BY <1>1 DEF Holds, Live
<1> HIDE DEF S
<1>5. f \in [S -> Live] /\ \A n \in S : f[n] = SlotOf(n)  BY <1>3
<1> HIDE DEF f
<1>6. OneToOne(f, S, Live)
  <2>1. Onto(f, S, Live)  BY <1>4, <1>5 DEF Onto
  <2>2. \A m, n \in S : f[m] = f[n] => m = n  BY <1>3, <1>5
  <2> QED  BY <1>5, <2>1, <2>2 DEF OneToOne
<1>7. Cardinality(Live) = Cardinality(S)  BY <1>2, <1>6, SameSize
<1> QED  BY <1>1, <1>2, <1>7

LEMMA QueueOccupancies ==
  ASSUME CoreInv, MemInv
  PROVE  /\ LQ.entry \in [0 .. LQ_SIZE - 1 -> QueueSlot]
         /\ LQ.occupancy = LQ_SIZE - Cardinality(FreeLQ)
         /\ SQ.entry \in [0 .. SQ_SIZE - 1 -> QueueSlot] /\ SQ.occupancy \in 0 .. SQ_SIZE
<1>1. LqHolds(ROB.entry, LQ) /\ SqHolds(prog, retired, Entered, SQ) /\ prog \in Programs
  BY DEF MemInv, LoadInv, StoreInv, StoresHold, CoreInv, TraceInv
<1>2. LQ.entry \in [LqSlots -> QueueSlot] /\ SQ.entry \in [SqSlots -> QueueSlot]
  BY <1>1 DEF LqHolds, SqHolds
<1>3. SQ.occupancy \in 0 .. SQ_SIZE
  <2> DEFINE b == StoresBefore(prog, retired)
             e == Entered
  <2>1. /\ retired \in 0 .. Len(prog) /\ e \in Nat /\ b =< e /\ e =< b + SQ_SIZE
        /\ SQ.occupancy = e - b
    BY <1>1 DEF SqHolds
  <2>2. b \in Nat  BY <1>1, <2>1, StoresFinite
  <2> HIDE DEF b, e
  <2> QED  BY <2>1, <2>2, SizesType
<1>4. LQ.occupancy = LQ_SIZE - Cardinality(FreeLQ)
  <2> DEFINE B == Busy(LQ)
             F == FreeLQ
  <2>1. /\ \A s : s \in B <=> s \in LqSlots /\ LQ.entry[s].id # 0
        /\ IsFiniteSet(B) /\ IsFiniteSet(LqSlots) /\ Cardinality(LqSlots) = LQ_SIZE
        /\ Cardinality(B) \in 0 .. LQ_SIZE /\ LQ_SIZE \in Nat
    BY <1>1, BusyLq
  <2>2. DOMAIN LQ.entry = LqSlots  BY <1>2
  <2>3. \A s : s \in F <=> s \in LqSlots /\ LQ.entry[s].id = 0  BY <2>2 DEF FreeLQ
  <2>4. LQ.occupancy = Cardinality(B)  BY <1>1 DEF LqHolds
  <2> HIDE DEF B, F
  <2>5. F \subseteq LqSlots /\ B \cup F = LqSlots /\ B \cap F = {}  BY <2>1, <2>3
  <2>6. IsFiniteSet(F) /\ Cardinality(F) \in Nat  BY <2>1, <2>5, FS_Subset, FS_CardinalityType
  <2>7. Cardinality(B \cup F) = Cardinality(B) + Cardinality(F) - Cardinality(B \cap F)
    BY <2>1, <2>6, FS_Union
  <2>8. Cardinality(B \cap F) = 0  BY <2>5, FS_EmptySet
  <2>9. LQ_SIZE = Cardinality(B) + Cardinality(F)
    <3> DEFINE b == Cardinality(B)
               f == Cardinality(F)
               u == Cardinality(B \cup F)
               v == Cardinality(B \cap F)
    <3>1. u = LQ_SIZE  BY <2>1, <2>5
    <3>2. u = b + f - v /\ v = 0 /\ b \in Nat /\ f \in Nat  BY <2>1, <2>6, <2>7, <2>8
    <3> HIDE DEF b, f, u, v
    <3>3. LQ_SIZE = b + f  BY <2>1, <3>1, <3>2
    <3> QED  BY <3>3 DEF b, f
  <2>10. Cardinality(B) = LQ_SIZE - Cardinality(F)  BY <2>1, <2>6, <2>9
  <2> QED  BY <2>4, <2>10 DEF F
<1> QED  BY <1>2, <1>3, <1>4 DEF LqSlots, SqSlots

LEMMA RingLengths ==
  ASSUME CoreInv, MemInv
  PROVE  /\ RTE0 \in Seq(Slots) /\ Len(RTE0) =< ROB_SIZE
         /\ RTE1 \in Seq(Slots) /\ Len(RTE1) =< ROB_SIZE
         /\ Len(RTL0) =< LQ_SIZE /\ Len(RTL1) =< LQ_SIZE
         /\ Len(RTS0) =< SQ_SIZE /\ Len(RTS1) =< SQ_SIZE
<1>1. /\ RTE0 \in Seq(Slots) /\ RTE1 \in Seq(Slots) /\ Once(RTE0) /\ Once(RTE1)
  BY Zenon DEF CoreInv, RingsHold
<1>2. /\ RTL0 \in Seq(LqSlots) /\ RTL1 \in Seq(LqSlots) /\ Once(RTL0) /\ Once(RTL1)
      /\ RTS0 \in Seq(SqSlots) /\ RTS1 \in Seq(SqSlots) /\ Once(RTS0) /\ Once(RTS1)
  BY Zenon DEF MemInv, PlaceInv, InOnePlace
<1>3. \A n \in Nat \ {0} : IsFiniteSet(0 .. n - 1) /\ Cardinality(0 .. n - 1) = n
  BY IntervalSize
<1>4. /\ IsFiniteSet(Slots) /\ Cardinality(Slots) = ROB_SIZE
      /\ IsFiniteSet(LqSlots) /\ Cardinality(LqSlots) = LQ_SIZE
      /\ IsFiniteSet(SqSlots) /\ Cardinality(SqSlots) = SQ_SIZE
  BY <1>3, SizesType DEF Slots, LqSlots, SqSlots
<1>5. Len(RTE0) =< Cardinality(Slots) /\ Len(RTE1) =< Cardinality(Slots)
  BY <1>1, <1>4, RingSize
<1>6. Len(RTL0) =< Cardinality(LqSlots) /\ Len(RTL1) =< Cardinality(LqSlots)
  BY <1>2, <1>4, RingSize
<1>7. Len(RTS0) =< Cardinality(SqSlots) /\ Len(RTS1) =< Cardinality(SqSlots)
  BY <1>2, <1>4, RingSize
<1> QED  BY <1>1, <1>4, <1>5, <1>6, <1>7

LEMMA InvariantTyped == ASSUME CoreInv, MemInv, Records, aborted \in BOOLEAN PROVE TypeOK
<1>1. /\ prog \in Programs /\ retired =< dispatched /\ dispatched =< read /\ read =< Len(prog)
  BY DEF CoreInv, TraceInv, Holds
<1>2. ROB.entry \in [Slots -> EntryType]  BY EntriesTyped
<1>3. ROB.head \in Slots /\ ROB.tail \in Slots /\ ROB.next_schedule \in Slots
  <2>1. /\ Holds(ROB.entry, retired, dispatched)
        /\ ROB.head = retired % ROB_SIZE /\ ROB.tail = dispatched % ROB_SIZE
    BY DEF CoreInv, BufferShape
  <2> QED  BY <2>1, HeldOnce DEF Records
<1>4. ASSUME NEW n \in {inflight_reg_executions, inflight_mem_executions, completed_executions}
      PROVE  n \in 0 .. ROB_SIZE
  <2> DEFINE A == RegRun(prog, ROB.entry)
             B == MemRun(prog, ROB.entry)
             C == DoneIn(ROB.entry)
  <2>1. n \in {Cardinality(A), Cardinality(B), Cardinality(C)}
    BY DEF MemInv, CountInv, CountersHold
  <2>2. A \in SUBSET Slots /\ B \in SUBSET Slots /\ C \in SUBSET Slots
    BY DEF RegRun, MemRun, DoneIn
  <2> HIDE DEF A, B, C
  <2>3. \A S \in SUBSET Slots : Cardinality(S) \in Nat /\ Cardinality(S) =< ROB_SIZE
    BY SlotsCount
  <2>4. n \in Nat /\ n =< ROB_SIZE  BY <2>1, <2>2, <2>3
  <2> QED  BY <2>4, SizesType
<1> QED  BY <1>1, <1>2, <1>3, <1>4, OccupancyIsLive, QueueOccupancies, RingLengths DEF TypeOK

(* TypeOK: every field keeps its type, and the assertions of ooo_cpu.cc on the *)
(* ends and sizes of its buffers, queues and rings and on its counters hold.   *)
THEOREM TypeCorrect == ASSUME StoreRoom PROVE Spec => []TypeOK
<1>1. Spec => [](CoreInv /\ MemInv)  BY MemInvariant
<1>2. Init => Records  BY InitRecords
<1>3. ASSUME CoreInv, Records, [Next]_vars PROVE Records'  BY <1>3, RecordsStep
<1>4. Spec => []CoreInv  BY CoreInvariant
<1>5. Spec => []Records  BY <1>2, <1>3, <1>4, PTL DEF Spec
<1>6. CoreInv /\ MemInv /\ Records /\ aborted \in BOOLEAN => TypeOK  BY InvariantTyped
<1> QED  BY <1>1, <1>5, <1>6, AbortedType, PTL
===============================================================================
