-------------------------- MODULE DramControllerProofs --------------------------
(***************************************************************************)
(* Theorems about DramController and their proofs: banks, queues and        *)
(* counters agree, every waiting read is in the queue once, transfers keep   *)
(* their distance on the data bus, and no cycle with a request in a queue    *)
(* passes without bringing a completion nearer.                              *)
(***************************************************************************)
EXTENDS DramController, TLAPS, FiniteSetTheorems

-----------------------------------------------------------------------------
(* Least elements. *)

\* Lowest returns the least element of a non-empty set of naturals.
LEMMA LowestElement ==
  ASSUME NEW S \in SUBSET Nat, S # {}
  PROVE  Lowest(S) \in S /\ \A j \in S : Lowest(S) <= j
<1>1. \E x \in S : \A y \in S : ~ (<<y, x>> \in OpToRel(<, Nat))
  BY NatLessThanWellFounded, WFMin, Zenon
<1>2. ASSUME NEW x \in Nat, NEW y \in Nat, y < x
      PROVE  <<y, x>> \in OpToRel(<, Nat)
  BY <1>2, Zenon DEF OpToRel
<1>3. PICK x \in S : \A y \in S : ~ (<<y, x>> \in OpToRel(<, Nat))  BY <1>1
<1>4. \A y \in S : ~(y < x)  BY <1>2, <1>3
<1>5. \A y \in S : x <= y  BY <1>4
<1> QED  BY <1>5 DEF Lowest

\* The indices of a queue: a finite set of its length.
LEMMA SlotsFinite ==
  ASSUME NEW n \in Nat
  PROVE  IsFiniteSet(0 .. n) /\ Cardinality(0 .. n) = n + 1
<1>1. 0 \in Int /\ n \in Int  OBVIOUS
<1>2. /\ IsFiniteSet(0 .. n)
      /\ Cardinality(0 .. n) = IF 0 > n THEN 0 ELSE n - 0 + 1
  BY <1>1, FS_Interval, Zenon
<1> QED  BY <1>2

\* A non-empty bounded set of indices has one with the least event.
LEMMA LeastEvent ==
  ASSUME NEW n \in Nat, NEW S \in SUBSET (0 .. n), S # {},
         NEW ev \in [S -> Int]
  PROVE  \E i \in S : \A j \in S : ev[i] <= ev[j]
<1> DEFINE Upto(m) == {i \in S : i <= m}
           HasLeast(m) == \E i \in Upto(m) : \A j \in Upto(m) : ev[i] <= ev[j]
           Bad == {m \in Nat : Upto(m) # {} /\ ~HasLeast(m)}
<1> HIDE DEF HasLeast
<1>0. /\ \A i \in S : i \in Nat /\ ev[i] \in Int
      /\ Bad \in SUBSET Nat
      /\ \A m : Upto(m) \subseteq S
      /\ \A m \in Nat : m \in Bad <=> Upto(m) # {} /\ ~HasLeast(m)
  OBVIOUS
<1>1. Bad = {}
  <2> SUFFICES ASSUME Bad # {} PROVE FALSE  OBVIOUS
  <2> DEFINE m == Lowest(Bad)
  <2>2. m \in Bad /\ \A k \in Bad : m <= k  BY <1>0, LowestElement
  <2> HIDE DEF m, Bad
  <2>3. m \in Nat /\ Upto(m) # {} /\ ~HasLeast(m)  BY <1>0, <2>2
  <2>4. m # 0 => m - 1 \in Nat /\ m - 1 \notin Bad  BY <2>2, <2>3
  <2>5. CASE m \notin S
    <3>0. PICK k \in S : k <= m  BY <2>3
    <3>1. m # 0  BY <1>0, <2>3, <2>5, <3>0
    <3>2. ASSUME NEW i \in S PROVE i <= m <=> i <= m - 1  BY <1>0, <2>3, <2>5
    <3>3. Upto(m - 1) = Upto(m)  BY <3>2
    <3>4. HasLeast(m - 1) <=> HasLeast(m)  BY <3>3 DEF HasLeast
    <3> QED  BY <1>0, <2>3, <2>4, <3>1, <3>3, <3>4
  <2>6. CASE m \in S /\ Upto(m) = {m}
    <3>1. ev[m] <= ev[m]  BY <1>0, <2>6
    <3>2. HasLeast(m)  BY <2>6, <3>1 DEF HasLeast
    <3> QED  BY <2>3, <3>2
  <2>7. CASE m \in S /\ Upto(m) # {m}
    <3>1. m \in Upto(m)  BY <2>3, <2>7
    <3>2. PICK k \in Upto(m) : k # m  BY <2>7, <3>1
    <3>3. m # 0 /\ k \in Upto(m - 1)  BY <1>0, <2>3, <3>2
    <3>4. HasLeast(m - 1)  BY <1>0, <2>4, <3>3
    <3>5. PICK i \in Upto(m - 1) : \A j \in Upto(m - 1) : ev[i] <= ev[j]
      BY <3>4 DEF HasLeast
    <3>6. ASSUME NEW j \in Upto(m) PROVE j \in S /\ (j = m \/ j \in Upto(m - 1))
      BY <1>0, <2>3
    <3>7. i \in Upto(m) /\ ev[i] \in Int /\ ev[m] \in Int  BY <1>0, <2>3, <2>7, <3>5
    <3>8. CASE ev[i] <= ev[m]
      <4>1. \A j \in Upto(m) : ev[i] <= ev[j]  BY <3>5, <3>6, <3>8
      <4> QED  BY <2>3, <3>7, <4>1 DEF HasLeast
    <3>9. CASE ev[m] <= ev[i]
      <4>1. ASSUME NEW j \in Upto(m) PROVE ev[m] <= ev[j]
        <5>1. j \in S /\ (j = m \/ ev[i] <= ev[j])  BY <3>5, <3>6
        <5> QED  BY <1>0, <3>7, <3>9, <5>1
      <4> QED  BY <2>3, <3>1, <4>1 DEF HasLeast
    <3> QED  BY <3>7, <3>8, <3>9
  <2> QED  BY <2>5, <2>6, <2>7
<1>2. Upto(n) = S
  <2>1. ASSUME NEW i \in S PROVE i <= n  OBVIOUS
  <2> QED  BY <2>1
<1>3. HasLeast(n)  BY <1>0, <1>1, <1>2
<1> QED  BY <1>2, <1>3 DEF HasLeast

-----------------------------------------------------------------------------
(* The state of the controller. *)

RqSlots == 0 .. (RqSize - 1)
WqSlots == 0 .. (WqSize - 1)
Rows    == {RowOf[a] : a \in Addrs} \cup {NoRow}
Entry   == [addr : Addrs \cup {NoAddr}, ptw : BOOLEAN, sched : BOOLEAN, event : Int]
BankState == [working : BOOLEAN, index : Int, avail : Nat, row : Rows,
              kind : {"none", "read", "write"}]
State   == [rq : [RqSlots -> Entry], wq : [WqSlots -> Entry], bank : [Banks -> BankState],
            dbus : Int, write : BOOLEAN, reads : Int, writes : Int]

\* A queue of the controller.
IsQueue(q) == \E n \in Nat : q \in [0 .. n -> Entry]

\* Banks that work serve one scheduled request each, and every scheduled request
\* of the queue has its bank.
Bound(q, bank, kind) ==
  /\ \A i \in Scheduled(q) : /\ bank[BankOf[q[i].addr]].working
                             /\ bank[BankOf[q[i].addr]].index = i
                             /\ bank[BankOf[q[i].addr]].kind = kind
  /\ \A b \in Banks : bank[b].working => /\ bank[b].index \in Scheduled(q)
                                         /\ BankOf[q[bank[b].index].addr] = b

\* What is not scheduled has waited since some past cycle.
Waited(q) == \A i \in Unscheduled(q) : q[i].event <= 0

LEMMA QueueFacts ==
  ASSUME NEW q, IsQueue(q)
  PROVE  /\ Used(q) \in SUBSET Nat /\ Scheduled(q) \subseteq Used(q)
         /\ Unscheduled(q) \subseteq Used(q) /\ Used(q) \subseteq DOMAIN q
         /\ IsFiniteSet(Used(q)) /\ IsFiniteSet(Scheduled(q)) /\ IsFiniteSet(DOMAIN q)
         /\ \A i \in DOMAIN q : q[i] \in Entry
         /\ \A i \in Used(q) : q[i].addr \in Addrs /\ BankOf[q[i].addr] \in Banks
         /\ DOMAIN q \in SUBSET Nat
<1>1. PICK n \in Nat : q \in [0 .. n -> Entry]  BY DEF IsQueue
<1>2. IsFiniteSet(0 .. n)  BY SlotsFinite
<1>3. Used(q) \subseteq 0 .. n /\ Scheduled(q) \subseteq 0 .. n
  BY <1>1 DEF Used, Scheduled
<1>4. IsFiniteSet(Used(q)) /\ IsFiniteSet(Scheduled(q))  BY <1>2, <1>3, FS_Subset
<1>5. \A i \in Used(q) : q[i].addr \in Addrs  BY <1>1 DEF Used, Entry
<1> QED  BY <1>1, <1>2, <1>3, <1>4, <1>5, DramAssumption DEF Used, Scheduled, Unscheduled

\* The request that Oldest picks is one of those it is given.
LEMMA OldestElement ==
  ASSUME NEW q, IsQueue(q), NEW S \in SUBSET DOMAIN q, S # {}
  PROVE  Oldest(q, S) \in S
<1>1. PICK n \in Nat : q \in [0 .. n -> Entry]  BY DEF IsQueue
<1> DEFINE ev == [i \in S |-> q[i].event]
<1>2. ev \in [S -> Int]  BY <1>1 DEF Entry
<1>3. \E i \in S : \A j \in S : ev[i] <= ev[j]  BY <1>1, <1>2, LeastEvent
<1> DEFINE L == {i \in S : \A j \in S : q[i].event <= q[j].event}
<1>4. L # {} /\ L \in SUBSET Nat
  <2>1. PICK i \in S : \A j \in S : ev[i] <= ev[j]  BY <1>3
  <2>2. \A j \in S : ev[j] = q[j].event  OBVIOUS
  <2>3. i \in L  BY <2>1, <2>2
  <2>4. S \in SUBSET Nat  BY <1>1
  <2> QED  BY <2>3, <2>4
<1>5. Lowest(L) \in L  BY <1>4, LowestElement
<1>6. Oldest(q, S) = Lowest(L)  BY DEF Oldest
<1> QED  BY <1>5, <1>6

-----------------------------------------------------------------------------
(* What each part of operate() does to one queue and to the banks. *)

\* The requests of a queue, whatever their progress.
SameRequests(q, r) ==
  /\ DOMAIN r = DOMAIN q
  /\ \A i \in DOMAIN q : r[i].addr = q[i].addr /\ r[i].ptw = q[i].ptw

\* Bank states but for the time they are busy and the row they keep open.
SameWork(bank, other) ==
  \A b \in Banks : /\ other[b].working = bank[b].working
                   /\ other[b].index = bank[b].index
                   /\ other[b].kind = bank[b].kind

\* Queues with the same requests have the same entries in use.
LEMMA SameUsed ==
  ASSUME NEW q, NEW r, SameRequests(q, r)
  PROVE  Used(r) = Used(q) /\ Occupancy(r) = Occupancy(q)
BY DEF SameRequests, Used, Occupancy

\* A request whose progress changes stays the same request.
LEMMA EntryUpdate ==
  ASSUME NEW e \in Entry, NEW s \in BOOLEAN, NEW v \in Int
  PROVE  LET f == [e EXCEPT !.sched = s, !.event = v]
         IN f \in Entry /\ f.addr = e.addr /\ f.ptw = e.ptw /\ f.sched = s /\ f.event = v
BY DEF Entry

\* A bank that is released keeps nothing but its row.
LEMMA FreedBank ==
  ASSUME NEW row \in Rows
  PROVE  /\ [IdleBank EXCEPT !.row = row] \in BankState
         /\ [IdleBank EXCEPT !.row = row].working = FALSE
         /\ [IdleBank EXCEPT !.row = row].avail = 0
<1>1. IdleBank \in BankState  BY DEF IdleBank, BankState, Rows
<1> QED  BY <1>1 DEF BankState, IdleBank

\* reset_remain_requests releases every scheduled request and its bank.
ResetEntries(q) == [i \in DOMAIN q |-> IF i \in Scheduled(q) THEN Release(q[i]) ELSE q[i]]
ResetBanks(q, bank) ==
  [b \in Banks |->
     IF {i \in Scheduled(q) : BankOf[q[i].addr] = b} = {} THEN bank[b]
     ELSE [IdleBank EXCEPT
             !.row = IF bank[b].avail - CasCycles <= 0
                     THEN RowOf[q[Lowest({i \in Scheduled(q) : BankOf[q[i].addr] = b})].addr]
                     ELSE NoRow]]

LEMMA ResetQueue ==
  ASSUME NEW n \in Nat, NEW q \in [0 .. n -> Entry], Waited(q)
  PROVE  /\ ResetEntries(q) \in [0 .. n -> Entry] /\ Waited(ResetEntries(q))
         /\ SameRequests(q, ResetEntries(q)) /\ Scheduled(ResetEntries(q)) = {}
<1> DEFINE r == ResetEntries(q)
<1>1. ASSUME NEW i \in 0 .. n
      PROVE  /\ r[i] = IF i \in Scheduled(q) THEN Release(q[i]) ELSE q[i]
             /\ r[i] \in Entry /\ r[i].addr = q[i].addr /\ r[i].ptw = q[i].ptw
             /\ i \in Used(q) => ~r[i].sched /\ r[i].event <= 0
  <2>1. r[i] = IF i \in Scheduled(q) THEN Release(q[i]) ELSE q[i]  BY DEF ResetEntries
  <2>2. CASE i \in Scheduled(q)
    <3> DEFINE e == [q[i] EXCEPT !.sched = FALSE, !.event = 0]
    <3>1. r[i] = e  BY <2>1, <2>2 DEF Release
    <3>2. q[i] \in Entry /\ 0 \in Int  OBVIOUS
    <3>3. e \in Entry /\ e.addr = q[i].addr /\ e.ptw = q[i].ptw /\ ~e.sched /\ e.event = 0
      BY <3>2, EntryUpdate
    <3> HIDE DEF e
    <3>4. r[i] \in Entry /\ r[i].addr = q[i].addr /\ r[i].ptw = q[i].ptw  BY <3>1, <3>3
    <3>5. ~r[i].sched /\ r[i].event <= 0  BY <3>1, <3>3
    <3> QED  BY <2>1, <3>4, <3>5
  <2>3. CASE i \notin Scheduled(q)
    BY <2>1, <2>3 DEF Entry, Waited, Scheduled, Unscheduled, Used
  <2> QED  BY <2>1, <2>2, <2>3
<1>2. DOMAIN r = 0 .. n  BY DEF ResetEntries
<1>3. r \in [0 .. n -> Entry]  BY <1>1, <1>2 DEF ResetEntries
<1>4. SameRequests(q, r)  BY <1>1, <1>2 DEF SameRequests
<1>5. Used(r) = Used(q) /\ Used(q) \subseteq 0 .. n  BY <1>4, SameUsed DEF Used
<1> QED  BY <1>1, <1>3, <1>4, <1>5 DEF Waited, Scheduled, Unscheduled

LEMMA ResetBank ==
  ASSUME NEW n \in Nat, NEW q \in [0 .. n -> Entry],
         NEW bank \in [Banks -> BankState], NEW kind, Bound(q, bank, kind)
  PROVE  /\ ResetBanks(q, bank) \in [Banks -> BankState]
         /\ \A b \in Banks : /\ ~ResetBanks(q, bank)[b].working
                             /\ ResetBanks(q, bank)[b].avail \in {0, bank[b].avail}
<1> DEFINE r == ResetBanks(q, bank)
           of(b) == {i \in Scheduled(q) : BankOf[q[i].addr] = b}
<1>1. ASSUME NEW b \in Banks
      PROVE  r[b] \in BankState /\ ~r[b].working /\ r[b].avail \in {0, bank[b].avail}
  <2>1. CASE of(b) = {}
    <3>1. r[b] = bank[b]  BY <2>1 DEF ResetBanks
    <3>2. ~bank[b].working  BY <2>1 DEF Bound
    <3> QED  BY <3>1, <3>2 DEF BankState
  <2>2. CASE of(b) # {}
    <3>1. PICK row : /\ r[b] = [IdleBank EXCEPT !.row = row]
                     /\ row \in {RowOf[q[Lowest(of(b))].addr], NoRow}
      BY <2>2 DEF ResetBanks
    <3>2. of(b) \in SUBSET Nat  BY DEF Scheduled, Used
    <3>3. Lowest(of(b)) \in of(b)  BY <2>2, <3>2, LowestElement
    <3>4. of(b) \subseteq Used(q)  BY DEF Scheduled
    <3>5. q[Lowest(of(b))].addr \in Addrs  BY <3>3, <3>4 DEF Used, Entry
    <3>6. row \in Rows  BY <3>1, <3>5 DEF Rows
    <3> QED  BY <3>1, <3>6, FreedBank
  <2> QED  BY <2>1, <2>2
<1>2. r \in [Banks -> BankState]  BY <1>1 DEF ResetBanks
<1> QED  BY <1>1, <1>2

\* schedule gives one idle bank one waiting request.
ScheduleEntry(q, i, latency) == [q EXCEPT ![i].sched = TRUE, ![i].event = latency]
ScheduleBank(q, bank, i, latency, kind) ==
  [bank EXCEPT ![BankOf[q[i].addr]] =
     [working |-> TRUE, index |-> i, avail |-> latency, row |-> RowOf[q[i].addr], kind |-> kind]]

LEMMA ScheduleQueue ==
  ASSUME NEW n \in Nat, NEW q \in [0 .. n -> Entry], NEW bank \in [Banks -> BankState],
         NEW kind \in {"read", "write"}, NEW latency \in Nat,
         Waited(q), Bound(q, bank, kind),
         NEW i \in Unscheduled(q), ~bank[BankOf[q[i].addr]].working
  PROVE  /\ ScheduleEntry(q, i, latency) \in [0 .. n -> Entry]
         /\ SameRequests(q, ScheduleEntry(q, i, latency))
         /\ Waited(ScheduleEntry(q, i, latency))
         /\ Cardinality(Scheduled(ScheduleEntry(q, i, latency))) = Cardinality(Scheduled(q)) + 1
         /\ ScheduleBank(q, bank, i, latency, kind) \in [Banks -> BankState]
         /\ Bound(ScheduleEntry(q, i, latency), ScheduleBank(q, bank, i, latency, kind), kind)
         /\ \A b \in Banks : ScheduleBank(q, bank, i, latency, kind)[b].avail
                               \in {latency, bank[b].avail}
<1> DEFINE r == ScheduleEntry(q, i, latency)
           w == ScheduleBank(q, bank, i, latency, kind)
           bi == BankOf[q[i].addr]
<1>1. /\ i \in 0 .. n /\ i \in Used(q) /\ q[i].addr \in Addrs /\ bi \in Banks
      /\ i \notin Scheduled(q)
  BY DramAssumption DEF Unscheduled, Scheduled, Used, Entry
<1>2. /\ r \in [0 .. n -> Entry]
      /\ \A j \in 0 .. n : j # i => r[j] = q[j]
      /\ r[i] = [q[i] EXCEPT !.sched = TRUE, !.event = latency]
      /\ r[i].addr = q[i].addr /\ r[i].ptw = q[i].ptw /\ r[i].sched
  <2>1. r = [q EXCEPT ![i] = [q[i] EXCEPT !.sched = TRUE, !.event = latency]]
    BY <1>1 DEF ScheduleEntry
  <2>2. q[i] \in Entry /\ latency \in Int  BY <1>1
  <2> DEFINE e == [q[i] EXCEPT !.sched = TRUE, !.event = latency]
  <2>3. e \in Entry /\ e.addr = q[i].addr /\ e.ptw = q[i].ptw /\ e.sched
    BY <2>2, EntryUpdate
  <2> QED  BY <1>1, <2>1, <2>3
<1>3. SameRequests(q, r)  BY <1>2 DEF SameRequests
<1>4. Used(r) = Used(q) /\ Used(q) \subseteq 0 .. n  BY <1>3, SameUsed DEF Used
<1>5. /\ Scheduled(r) = Scheduled(q) \cup {i} /\ Unscheduled(r) = Unscheduled(q) \ {i}
  BY <1>1, <1>2, <1>4 DEF Scheduled, Unscheduled
<1>6. Waited(r)  BY <1>2, <1>4, <1>5 DEF Waited, Unscheduled
<1>7. Cardinality(Scheduled(r)) = Cardinality(Scheduled(q)) + 1
  <2>0. IsFiniteSet(0 .. n)  BY SlotsFinite
  <2>1. IsFiniteSet(Scheduled(q))  BY <1>4, <2>0, FS_Subset DEF Scheduled
  <2> QED  BY <1>1, <1>5, <2>1, FS_AddElement
<1>8. /\ w \in [Banks -> BankState]
      /\ \A b \in Banks : b # bi => w[b] = bank[b]
      /\ w[bi].working /\ w[bi].index = i /\ w[bi].kind = kind /\ w[bi].avail = latency
  BY <1>1 DEF ScheduleBank, BankState, Rows
<1>9. Bound(r, w, kind)
  <2>1. ASSUME NEW j \in Scheduled(r)
        PROVE  /\ w[BankOf[r[j].addr]].working /\ w[BankOf[r[j].addr]].index = j
               /\ w[BankOf[r[j].addr]].kind = kind
    <3>1. CASE j = i  BY <1>2, <1>8, <3>1
    <3>2. CASE j # i
      <4>1. j \in Scheduled(q) /\ r[j].addr = q[j].addr  BY <1>2, <1>4, <1>5, <3>2 DEF Scheduled
      <4>2. BankOf[q[j].addr] # bi /\ BankOf[q[j].addr] \in Banks
        BY <4>1, DramAssumption DEF Bound, Scheduled, Used, Entry
      <4> QED  BY <1>8, <4>1, <4>2 DEF Bound
    <3> QED  BY <3>1, <3>2
  <2>2. ASSUME NEW b \in Banks, w[b].working
        PROVE  w[b].index \in Scheduled(r) /\ BankOf[r[w[b].index].addr] = b
    <3>1. CASE b = bi  BY <1>2, <1>5, <1>8, <3>1
    <3>2. CASE b # bi
      <4>1. w[b] = bank[b] /\ bank[b].index \in Scheduled(q) /\ BankOf[q[bank[b].index].addr] = b
        BY <1>8, <2>2, <3>2 DEF Bound
      <4>2. r[bank[b].index].addr = q[bank[b].index].addr
        BY <1>2, <1>4, <4>1 DEF Scheduled
      <4> QED  BY <1>5, <4>1, <4>2
    <3> QED  BY <3>1, <3>2
  <2> QED  BY <2>1, <2>2 DEF Bound
<1> QED  BY <1>2, <1>3, <1>6, <1>7, <1>8, <1>9

\* process removes a request that is complete and frees its bank.
LEMMA CompleteQueue ==
  ASSUME NEW n \in Nat, NEW q \in [0 .. n -> Entry], NEW bank \in [Banks -> BankState],
         NEW kind, Waited(q), Bound(q, bank, kind), NEW i \in Scheduled(q),
         NEW row \in Rows
  PROVE  LET r == [q EXCEPT ![i] = Empty]
             w == [bank EXCEPT ![BankOf[q[i].addr]] = [IdleBank EXCEPT !.row = row]]
         IN /\ r \in [0 .. n -> Entry] /\ Waited(r) /\ Used(r) = Used(q) \ {i}
            /\ Cardinality(Scheduled(r)) = Cardinality(Scheduled(q)) - 1
            /\ w \in [Banks -> BankState] /\ Bound(r, w, kind)
            /\ \A b \in Banks : w[b].avail \in {0, bank[b].avail}
<1> DEFINE bi == BankOf[q[i].addr]
           r == [q EXCEPT ![i] = Empty]
           w == [bank EXCEPT ![bi] = [IdleBank EXCEPT !.row = row]]
<1>1. i \in 0 .. n /\ i \in Used(q) /\ q[i].addr \in Addrs /\ bi \in Banks /\ Used(q) \subseteq 0 .. n
  BY DramAssumption DEF Scheduled, Used, Entry
<1>2. /\ r \in [0 .. n -> Entry] /\ \A j \in 0 .. n : j # i => r[j] = q[j]
      /\ r[i].addr = NoAddr
  BY <1>1 DEF Empty, Entry
<1>3. Used(r) = Used(q) \ {i}  BY <1>1, <1>2 DEF Used
<1>4. Scheduled(r) = Scheduled(q) \ {i} /\ Unscheduled(r) = Unscheduled(q)
  BY <1>1, <1>2, <1>3 DEF Scheduled, Unscheduled
<1>5. Waited(r)  BY <1>1, <1>2, <1>3, <1>4 DEF Waited, Unscheduled
<1>6. Cardinality(Scheduled(r)) = Cardinality(Scheduled(q)) - 1
  <2>0. IsFiniteSet(0 .. n)  BY SlotsFinite
  <2>1. IsFiniteSet(Scheduled(q))  BY <1>1, <2>0, FS_Subset DEF Scheduled
  <2> QED  BY <1>4, <2>1, FS_RemoveElement
<1>7. /\ [IdleBank EXCEPT !.row = row] \in BankState
      /\ [IdleBank EXCEPT !.row = row].working = FALSE
      /\ [IdleBank EXCEPT !.row = row].avail = 0
  BY FreedBank
<1>8. /\ w \in [Banks -> BankState] /\ ~w[bi].working /\ w[bi].avail = 0
      /\ \A b \in Banks : b # bi => w[b] = bank[b]
  BY <1>1, <1>7
<1>9. Bound(r, w, kind)
  <2>1. ASSUME NEW j \in Scheduled(r)
        PROVE  /\ w[BankOf[r[j].addr]].working /\ w[BankOf[r[j].addr]].index = j
               /\ w[BankOf[r[j].addr]].kind = kind
    <3>1. j \in Scheduled(q) /\ j # i /\ r[j].addr = q[j].addr
      BY <1>1, <1>2, <1>4 DEF Scheduled
    <3>2. BankOf[q[j].addr] # bi /\ BankOf[q[j].addr] \in Banks
      BY <3>1, DramAssumption DEF Bound, Scheduled, Used, Entry
    <3> QED  BY <1>8, <3>1, <3>2 DEF Bound
  <2>2. ASSUME NEW b \in Banks, w[b].working
        PROVE  w[b].index \in Scheduled(r) /\ BankOf[r[w[b].index].addr] = b
    <3>1. b # bi /\ w[b] = bank[b]  BY <1>8, <2>2
    <3>2. bank[b].index \in Scheduled(q) /\ BankOf[q[bank[b].index].addr] = b
      BY <2>2, <3>1 DEF Bound
    <3>3. bank[b].index # i  BY <3>1, <3>2
    <3>4. r[bank[b].index] = q[bank[b].index]  BY <1>1, <1>2, <3>2, <3>3 DEF Scheduled
    <3> QED  BY <1>4, <3>1, <3>2, <3>3, <3>4
  <2> QED  BY <2>1, <2>2 DEF Bound
<1> QED  BY <1>2, <1>3, <1>5, <1>6, <1>8, <1>9

\* Busy times and open rows do not matter to the binding.
LEMMA SameBound ==
  ASSUME NEW n \in Nat, NEW q \in [0 .. n -> Entry], NEW r \in [0 .. n -> Entry],
         NEW bank, NEW other, NEW kind,
         SameRequests(q, r), \A i \in 0 .. n : r[i].sched = q[i].sched,
         SameWork(bank, other), Bound(q, bank, kind)
  PROVE  Bound(r, other, kind) /\ Scheduled(r) = Scheduled(q)
<1>1. Used(r) = Used(q) /\ Used(q) \subseteq 0 .. n  BY SameUsed DEF Used
<1>2. Scheduled(r) = Scheduled(q)  BY <1>1 DEF Scheduled
<1>3. \A i \in Scheduled(q) : /\ r[i].addr = q[i].addr /\ BankOf[q[i].addr] \in Banks
  BY <1>1, DramAssumption DEF Scheduled, SameRequests, Used, Entry
<1> QED  BY <1>2, <1>3 DEF Bound, SameWork

\* A past event is renumbered by how many different ones are not before it.
LEMMA RecencyType ==
  ASSUME NEW n \in Nat, NEW q \in [0 .. n -> Entry], NEW i \in 0 .. n
  PROVE  Recency(q, i) \in Nat
<1>1. {k \in Past(q) : q[k].event >= q[i].event} \subseteq 0 .. n  BY DEF Past, Used
<1> DEFINE T == {k \in Past(q) : q[k].event >= q[i].event}
           E == {q[j].event : j \in T}
<1>0. IsFiniteSet(0 .. n)  BY SlotsFinite
<1>2. IsFiniteSet(T)  BY <1>0, <1>1, FS_Subset
<1>3. IsFiniteSet(E)
  <2> DEFINE f == [j \in T |-> q[j].event]
  <2>1. f \in Surjection(T, E)  BY DEF Surjection
  <2> QED  BY <1>2, <2>1, FS_Surjection
<1> QED  BY <1>3, FS_CardinalityType DEF Recency

\* The passage of a cycle changes nothing but times.
LEMMA RenumberQueue ==
  ASSUME NEW n \in Nat, NEW q \in [0 .. n -> Entry], Waited(q)
  PROVE  /\ Renumber(q) \in [0 .. n -> Entry] /\ Waited(Renumber(q))
         /\ SameRequests(q, Renumber(q))
         /\ \A i \in 0 .. n : Renumber(q)[i].sched = q[i].sched
<1>1. \A i \in 0 .. n : Recency(q, i) \in Nat  BY RecencyType
<1> DEFINE r == Renumber(q)
<1>2. ASSUME NEW i \in 0 .. n
      PROVE  /\ r[i] \in Entry /\ r[i].addr = q[i].addr /\ r[i].ptw = q[i].ptw
             /\ r[i].sched = q[i].sched
             /\ i \in Past(q) => r[i].event <= 0
  <2>1. CASE i \in Past(q)
    <3>1. r[i] = [q[i] EXCEPT !.event = 0 - Recency(q, i)]  BY <2>1 DEF Renumber
    <3> QED  BY <1>1, <3>1 DEF Entry
  <2>2. CASE i \notin Past(q)
    <3>1. r[i] = q[i] \/ r[i] = [q[i] EXCEPT !.event = @ - 1]  BY <2>2 DEF Renumber
    <3> QED  BY <2>2, <3>1 DEF Entry
  <2> QED  BY <2>1, <2>2
<1>3. r \in [0 .. n -> Entry] /\ DOMAIN r = 0 .. n  BY <1>2 DEF Renumber
<1>4. SameRequests(q, r)  BY <1>2, <1>3 DEF SameRequests
<1>5. Unscheduled(r) = Unscheduled(q)
  BY <1>2, <1>3, <1>4, SameUsed DEF Unscheduled, Used
<1>6. Unscheduled(q) \subseteq Past(q) /\ Past(q) \subseteq 0 .. n
  BY DEF Waited, Past, Unscheduled, Used
<1> QED  BY <1>2, <1>3, <1>4, <1>5, <1>6 DEF Waited

-----------------------------------------------------------------------------
(* The inductive invariant. *)

Kind(write) == IF write THEN "write" ELSE "read"

\* The served queue owns the banks, the other one has nothing scheduled, and the
\* counters count what is scheduled.
Binding(d) ==
  /\ Bound(d[Queue(d.write)], d.bank, Kind(d.write))
  /\ Scheduled(d[Queue(~d.write)]) = {}
  /\ d.reads = Cardinality(Scheduled(d.rq)) /\ d.writes = Cardinality(Scheduled(d.wq))

Consistent(d) == d \in State /\ Waited(d.rq) /\ Waited(d.wq) /\ Binding(d)

\* How far the data bus may be reserved.  Each change of mode adds a turn-around,
\* and at most four follow a transfer before the next one: out of write mode when
\* the writes are drained, into it for a write while no read waits, out of it for
\* a read below the low watermark, and into it at the high one.
BusBounded(d) ==
  /\ d.dbus <= ReturnTime + 4 * TurnAround
  /\ ~d.write => d.dbus <= ReturnTime + 3 * TurnAround
  /\ d.write /\ Occupancy(d.wq) < LowWm => d.dbus <= ReturnTime + 2 * TurnAround
  /\ ~d.write /\ Occupancy(d.rq) = 0 => d.dbus <= ReturnTime + TurnAround
  /\ d.write /\ Occupancy(d.wq) = 0 => d.dbus <= ReturnTime

BanksBounded(d) == \A b \in Banks : d.bank[b].avail \in Latency

\* The bus remembers the last transfer until the distance it asks for has passed.
BusRemembers(d, l) ==
  /\ l.write \in BOOLEAN /\ l.age \in Nat
  /\ l.age < ReturnTime + TurnAround =>
       /\ d.dbus >= ReturnTime - 1 - l.age
       /\ l.write # d.write => d.dbus >= ReturnTime + TurnAround - 1 - l.age

\* The requests of the queues and the misses that wait for them.
Distinct(q) == \A i, j \in Used(q) : q[i].addr = q[j].addr => i = j
Awaited(d, w) ==
  /\ w = {d.rq[i].addr : i \in {j \in Used(d.rq) : ~d.rq[j].ptw}}
  /\ Distinct(d.rq) /\ Distinct(d.wq)
  /\ \A i \in Used(d.rq) : d.rq[i].ptw <=> d.rq[i].addr \in PtwAddrs

DramInv ==
  /\ Consistent(dram) /\ BusBounded(dram) /\ BanksBounded(dram) /\ BusRemembers(dram, last)
  /\ waiting \subseteq DataAddrs /\ clock \in {0, 1}


\* The sides of the controller in each mode.
LEMMA Sides ==
  ASSUME NEW d \in State
  PROVE  /\ RqSize - 1 \in Nat /\ WqSize - 1 \in Nat
         /\ d.rq \in [0 .. (RqSize - 1) -> Entry] /\ d.wq \in [0 .. (WqSize - 1) -> Entry]
         /\ d.bank \in [Banks -> BankState] /\ d.write \in BOOLEAN
         /\ d.dbus \in Int /\ d.reads \in Int /\ d.writes \in Int
         /\ d.write => /\ Queue(d.write) = "wq" /\ Queue(~d.write) = "rq"
                       /\ Kind(d.write) = "write"
         /\ ~d.write => /\ Queue(d.write) = "rq" /\ Queue(~d.write) = "wq"
                        /\ Kind(d.write) = "read"
BY DramAssumption DEF State, RqSlots, WqSlots, Queue, Kind

\* The controller in another mode.
LEMMA Turned ==
  ASSUME NEW d \in State, NEW v \in Int
  PROVE  LET e == [d EXCEPT !.write = ~@, !.dbus = v]
         IN /\ e \in State /\ e.rq = d.rq /\ e.wq = d.wq /\ e.bank = d.bank
            /\ e.reads = d.reads /\ e.writes = d.writes /\ e.write = ~d.write /\ e.dbus = v
BY DEF State

\* A change of mode leaves every request where it is, with nothing scheduled.
LEMMA SwitchStep ==
  ASSUME NEW d, Consistent(d)
  PROVE  LET e == SwitchMode(d)
         IN /\ Consistent(e) /\ SameRequests(d.rq, e.rq) /\ SameRequests(d.wq, e.wq)
            /\ \A b \in Banks : e.bank[b].avail \in {0, d.bank[b].avail}
            /\ IF EnterWrite(d) \/ LeaveWrite(d)
               THEN e.write = ~d.write /\ e.dbus = d.dbus + TurnAround
               ELSE e.write = d.write /\ e.dbus = d.dbus
<1> DEFINE e == SwitchMode(d)
<1>1. d \in State /\ Waited(d.rq) /\ Waited(d.wq) /\ Binding(d)  BY DEF Consistent
<1>0. /\ d \in State /\ RqSize - 1 \in Nat /\ WqSize - 1 \in Nat
      /\ d.rq \in [0 .. (RqSize - 1) -> Entry] /\ d.wq \in [0 .. (WqSize - 1) -> Entry]
      /\ d.bank \in [Banks -> BankState] /\ d.dbus \in Int /\ d.reads \in Int /\ d.writes \in Int
      /\ d.write => /\ Queue(d.write) = "wq" /\ Queue(~d.write) = "rq"
                    /\ Kind(d.write) = "write"
      /\ ~d.write => /\ Queue(d.write) = "rq" /\ Queue(~d.write) = "wq"
                     /\ Kind(d.write) = "read"
  BY <1>1, Sides
<1>2. CASE ~(EnterWrite(d) \/ LeaveWrite(d))
  <2>1. e = d  BY <1>2 DEF SwitchMode
  <2>2. SameRequests(d.rq, e.rq) /\ SameRequests(d.wq, e.wq)  BY <2>1 DEF SameRequests
  <2> QED  BY <1>2, <2>1, <2>2
<1>3. CASE (EnterWrite(d) \/ LeaveWrite(d)) /\ ~d.write
  <2> DEFINE n(kind) == Cardinality({i \in Scheduled(d.rq) : d.bank[BankOf[d.rq[i].addr]].kind = kind})
             rd == d.reads - n("read")
             wr == d.writes - n("write")
             v == d.dbus + TurnAround
             x == ResetEntries(d.rq)
             bank == ResetBanks(d.rq, d.bank)
             f == [d EXCEPT !.rq = x, !.bank = bank,
                            !.reads = rd, !.writes = wr]
  <2>1. Queue(d.write) = "rq" /\ Queue(~d.write) = "wq" /\ Kind(d.write) = "read"
    BY <1>0, <1>3
  <2>2. e = [f EXCEPT !.write = ~@, !.dbus = v]
    <3>1. Reset(d, "rq") = f  BY DEF Reset, ResetEntries, ResetBanks
    <3>2. f.dbus = d.dbus  BY <1>0 DEF State
    <3> QED  BY <1>3, <2>1, <3>1, <3>2 DEF SwitchMode
  <2>3. /\ Bound(d.rq, d.bank, "read") /\ Scheduled(d.wq) = {}
        /\ d.reads = Cardinality(Scheduled(d.rq)) /\ d.writes = Cardinality(Scheduled(d.wq))
    BY <1>1, <2>1 DEF Binding
  <2>4. /\ x \in [0 .. (RqSize - 1) -> Entry] /\ Waited(x) /\ SameRequests(d.rq, x)
        /\ Scheduled(x) = {}
    BY <1>0, <1>1, ResetQueue
  <2>5. /\ bank \in [Banks -> BankState]
        /\ \A b \in Banks : ~bank[b].working /\ bank[b].avail \in {0, d.bank[b].avail}
    BY <1>0, <2>3, ResetBank
  <2>6. n("read") = d.reads /\ n("write") = 0
    <3>1. \A i \in Scheduled(d.rq) : d.bank[BankOf[d.rq[i].addr]].kind = "read"
      BY <2>3 DEF Bound
    <3>2. {i \in Scheduled(d.rq) : d.bank[BankOf[d.rq[i].addr]].kind = "read"} = Scheduled(d.rq)
      BY <3>1
    <3>3. {i \in Scheduled(d.rq) : d.bank[BankOf[d.rq[i].addr]].kind = "write"} = {}
      BY <3>1
    <3> QED  BY <2>3, <3>2, <3>3, FS_EmptySet
  <2> HIDE DEF n, x, bank
  <2>7. /\ rd = 0 /\ wr = 0 /\ rd \in Int /\ wr \in Int /\ v \in Int
    BY <1>0, <2>3, <2>6, FS_EmptySet, DramAssumption
  <2> HIDE DEF rd, wr
  <2>8. /\ f \in State /\ f.rq = x /\ f.wq = d.wq /\ f.bank = bank
        /\ f.reads = 0 /\ f.writes = 0 /\ f.write = d.write
    <3>1. d \in State /\ x \in [RqSlots -> Entry] /\ bank \in [Banks -> BankState]
          /\ rd \in Int /\ wr \in Int
      BY <1>0, <2>4, <2>5, <2>7 DEF RqSlots, WqSlots
    <3>2. /\ f \in State /\ f.rq = x /\ f.wq = d.wq /\ f.bank = bank
          /\ f.reads = rd /\ f.writes = wr /\ f.write = d.write
      BY <3>1 DEF State
    <3> QED  BY <2>7, <3>2
  <2> HIDE DEF f
  <2>9. /\ e \in State /\ e.rq = x /\ e.wq = d.wq /\ e.bank = bank
        /\ e.reads = 0 /\ e.writes = 0 /\ e.write = ~d.write /\ e.dbus = d.dbus + TurnAround
    <3> HIDE DEF v
    <3>1. /\ e \in State /\ e.rq = f.rq /\ e.wq = f.wq /\ e.bank = f.bank
          /\ e.reads = f.reads /\ e.writes = f.writes /\ e.write = ~f.write /\ e.dbus = v
      <4> DEFINE t == [f EXCEPT !.write = ~@, !.dbus = v]
      <4>1. f \in State /\ v \in Int  BY <2>7, <2>8 DEF v
      <4>2. /\ t \in State /\ t.rq = f.rq /\ t.wq = f.wq /\ t.bank = f.bank
            /\ t.reads = f.reads /\ t.writes = f.writes /\ t.write = ~f.write /\ t.dbus = v
        BY <4>1, Turned
      <4> QED  BY <2>2, <4>2
    <3> QED  BY <2>8, <3>1 DEF v
  <2> HIDE DEF e
  <2>10. Binding(e)
    <3>1. Bound(e.wq, e.bank, "write")  BY <2>3, <2>5, <2>9 DEF Bound
    <3>2. Queue(e.write) = "wq" /\ Queue(~e.write) = "rq" /\ Kind(e.write) = "write"
      BY <1>3, <2>9, Sides
    <3>3. e.reads = Cardinality(Scheduled(e.rq)) /\ e.writes = Cardinality(Scheduled(e.wq))
      BY <2>3, <2>4, <2>9, FS_EmptySet
    <3> QED  BY <2>4, <2>9, <3>1, <3>2, <3>3 DEF Binding
  <2>11. SameRequests(d.wq, e.wq)  BY <2>9 DEF SameRequests
  <2>12. Consistent(e)  BY <1>1, <2>4, <2>9, <2>10 DEF Consistent
  <2> QED  BY <1>3, <2>4, <2>5, <2>9, <2>11, <2>12 DEF e
<1>4. CASE (EnterWrite(d) \/ LeaveWrite(d)) /\ d.write
  <2> DEFINE n(kind) == Cardinality({i \in Scheduled(d.wq) : d.bank[BankOf[d.wq[i].addr]].kind = kind})
             rd == d.reads - n("read")
             wr == d.writes - n("write")
             v == d.dbus + TurnAround
             x == ResetEntries(d.wq)
             bank == ResetBanks(d.wq, d.bank)
             f == [d EXCEPT !.wq = x, !.bank = bank,
                            !.reads = rd, !.writes = wr]
  <2>1. Queue(d.write) = "wq" /\ Queue(~d.write) = "rq" /\ Kind(d.write) = "write"
    BY <1>0, <1>4
  <2>2. e = [f EXCEPT !.write = ~@, !.dbus = v]
    <3>1. Reset(d, "wq") = f  BY DEF Reset, ResetEntries, ResetBanks
    <3>2. f.dbus = d.dbus  BY <1>0 DEF State
    <3> QED  BY <1>4, <2>1, <3>1, <3>2 DEF SwitchMode
  <2>3. /\ Bound(d.wq, d.bank, "write") /\ Scheduled(d.rq) = {}
        /\ d.reads = Cardinality(Scheduled(d.rq)) /\ d.writes = Cardinality(Scheduled(d.wq))
    BY <1>1, <2>1 DEF Binding
  <2>4. /\ x \in [0 .. (WqSize - 1) -> Entry] /\ Waited(x) /\ SameRequests(d.wq, x)
        /\ Scheduled(x) = {}
    BY <1>0, <1>1, ResetQueue
  <2>5. /\ bank \in [Banks -> BankState]
        /\ \A b \in Banks : ~bank[b].working /\ bank[b].avail \in {0, d.bank[b].avail}
    BY <1>0, <2>3, ResetBank
  <2>6. n("write") = d.writes /\ n("read") = 0
    <3>1. \A i \in Scheduled(d.wq) : d.bank[BankOf[d.wq[i].addr]].kind = "write"
      BY <2>3 DEF Bound
    <3>2. {i \in Scheduled(d.wq) : d.bank[BankOf[d.wq[i].addr]].kind = "write"} = Scheduled(d.wq)
      BY <3>1
    <3>3. {i \in Scheduled(d.wq) : d.bank[BankOf[d.wq[i].addr]].kind = "read"} = {}
      BY <3>1
    <3> QED  BY <2>3, <3>2, <3>3, FS_EmptySet
  <2> HIDE DEF n, x, bank
  <2>7. /\ rd = 0 /\ wr = 0 /\ rd \in Int /\ wr \in Int /\ v \in Int
    BY <1>0, <2>3, <2>6, FS_EmptySet, DramAssumption
  <2> HIDE DEF rd, wr
  <2>8. /\ f \in State /\ f.wq = x /\ f.rq = d.rq /\ f.bank = bank
        /\ f.reads = 0 /\ f.writes = 0 /\ f.write = d.write
    <3>1. d \in State /\ x \in [WqSlots -> Entry] /\ bank \in [Banks -> BankState]
          /\ rd \in Int /\ wr \in Int
      BY <1>0, <2>4, <2>5, <2>7 DEF RqSlots, WqSlots
    <3>2. /\ f \in State /\ f.wq = x /\ f.rq = d.rq /\ f.bank = bank
          /\ f.reads = rd /\ f.writes = wr /\ f.write = d.write
      BY <3>1 DEF State
    <3> QED  BY <2>7, <3>2
  <2> HIDE DEF f
  <2>9. /\ e \in State /\ e.wq = x /\ e.rq = d.rq /\ e.bank = bank
        /\ e.reads = 0 /\ e.writes = 0 /\ e.write = ~d.write /\ e.dbus = d.dbus + TurnAround
    <3> HIDE DEF v
    <3>1. /\ e \in State /\ e.rq = f.rq /\ e.wq = f.wq /\ e.bank = f.bank
          /\ e.reads = f.reads /\ e.writes = f.writes /\ e.write = ~f.write /\ e.dbus = v
      <4> DEFINE t == [f EXCEPT !.write = ~@, !.dbus = v]
      <4>1. f \in State /\ v \in Int  BY <2>7, <2>8 DEF v
      <4>2. /\ t \in State /\ t.rq = f.rq /\ t.wq = f.wq /\ t.bank = f.bank
            /\ t.reads = f.reads /\ t.writes = f.writes /\ t.write = ~f.write /\ t.dbus = v
        BY <4>1, Turned
      <4> QED  BY <2>2, <4>2
    <3> QED  BY <2>8, <3>1 DEF v
  <2> HIDE DEF e
  <2>10. Binding(e)
    <3>1. Bound(e.rq, e.bank, "read")  BY <2>3, <2>5, <2>9 DEF Bound
    <3>2. Queue(e.write) = "rq" /\ Queue(~e.write) = "wq" /\ Kind(e.write) = "read"
      BY <1>4, <2>9, Sides
    <3>3. e.reads = Cardinality(Scheduled(e.rq)) /\ e.writes = Cardinality(Scheduled(e.wq))
      BY <2>3, <2>4, <2>9, FS_EmptySet
    <3> QED  BY <2>4, <2>9, <3>1, <3>2, <3>3 DEF Binding
  <2>11. SameRequests(d.rq, e.rq)  BY <2>9 DEF SameRequests
  <2>12. Consistent(e)  BY <1>1, <2>4, <2>9, <2>10 DEF Consistent
  <2> QED  BY <1>4, <2>4, <2>5, <2>9, <2>11, <2>12 DEF e
<1> QED  BY <1>1, <1>2, <1>3, <1>4, Sides

\* A scheduled request gets an idle bank for an access of its row.
LEMMA ScheduleStep ==
  ASSUME NEW d, Consistent(d)
  PROVE  LET e == Schedule(d)
         IN /\ Consistent(e) /\ SameRequests(d.rq, e.rq) /\ SameRequests(d.wq, e.wq)
            /\ e.write = d.write /\ e.dbus = d.dbus
            /\ \A b \in Banks : \/ e.bank[b].avail = d.bank[b].avail
                                \/ e.bank[b].avail \in 0 .. (RowMissCycles + CasCycles)
<1> DEFINE e == Schedule(d)
<1>1. d \in State /\ Waited(d.rq) /\ Waited(d.wq) /\ Binding(d)  BY DEF Consistent
<1>0. /\ d \in State /\ RqSize - 1 \in Nat /\ WqSize - 1 \in Nat
      /\ d.rq \in [0 .. (RqSize - 1) -> Entry] /\ d.wq \in [0 .. (WqSize - 1) -> Entry]
      /\ d.bank \in [Banks -> BankState] /\ d.dbus \in Int /\ d.reads \in Int /\ d.writes \in Int
      /\ d.write => /\ Queue(d.write) = "wq" /\ Queue(~d.write) = "rq"
                    /\ Kind(d.write) = "write"
      /\ ~d.write => /\ Queue(d.write) = "rq" /\ Queue(~d.write) = "wq"
                     /\ Kind(d.write) = "read"
  BY <1>1, Sides
<1>2. CASE Schedulable(d, d[Queue(d.write)]) = {}
  <2>1. e = d  BY <1>2 DEF Schedule
  <2>2. SameRequests(d.rq, e.rq) /\ SameRequests(d.wq, e.wq)  BY <2>1 DEF SameRequests
  <2> QED  BY <2>1, <2>2
<1>3. CASE ~d.write /\ Schedulable(d, d.rq) # {}
  <2>1. Queue(d.write) = "rq" /\ Queue(~d.write) = "wq" /\ Kind(d.write) = "read"
    BY <1>0, <1>3
  <2> DEFINE hit == RowHits(d, d.rq) # {}
             i == Oldest(d.rq, IF hit THEN RowHits(d, d.rq) ELSE Schedulable(d, d.rq))
             latency == IF hit THEN CasCycles ELSE RowMissCycles + CasCycles
             x == ScheduleEntry(d.rq, i, latency)
             bank == ScheduleBank(d.rq, d.bank, i, latency, "read")
             count == d.reads + 1
  <2>2. e = [d EXCEPT !.rq = x, !.bank = bank, !.reads = count]
    <3>1. e = [d EXCEPT !.rq[i].sched = TRUE, !.rq[i].event = latency,
                        !.bank[BankOf[d.rq[i].addr]] =
                           [working |-> TRUE, index |-> i, avail |-> latency,
                            row |-> RowOf[d.rq[i].addr], kind |-> "read"],
                        !.reads = IF d.write THEN @ ELSE @ + 1,
                        !.writes = IF d.write THEN @ + 1 ELSE @]
      BY <1>3, <2>1 DEF Schedule
    <3> QED  BY <1>0, <1>3, <3>1 DEF State, ScheduleEntry, ScheduleBank
  <2>3. /\ Bound(d.rq, d.bank, "read") /\ Scheduled(d.wq) = {}
        /\ d.reads = Cardinality(Scheduled(d.rq)) /\ d.writes = Cardinality(Scheduled(d.wq))
    BY <1>1, <2>1 DEF Binding
  <2>4. i \in Schedulable(d, d.rq)
    <3>1. IsQueue(d.rq) /\ Schedulable(d, d.rq) \subseteq DOMAIN d.rq
      BY <1>0 DEF IsQueue, Schedulable, Unscheduled, Used
    <3>2. RowHits(d, d.rq) \subseteq Schedulable(d, d.rq)  BY DEF RowHits
    <3> QED  BY <1>3, <3>1, <3>2, OldestElement
  <2>5. latency \in Nat /\ latency \in 0 .. (RowMissCycles + CasCycles)  BY DramAssumption
  <2> HIDE DEF i, latency
  <2>6. i \in Unscheduled(d.rq) /\ ~d.bank[BankOf[d.rq[i].addr]].working
    BY <2>4 DEF Schedulable
  <2>7. /\ x \in [0 .. (RqSize - 1) -> Entry] /\ SameRequests(d.rq, x) /\ Waited(x)
        /\ Cardinality(Scheduled(x)) = Cardinality(Scheduled(d.rq)) + 1
        /\ bank \in [Banks -> BankState] /\ Bound(x, bank, "read")
        /\ \A b \in Banks : bank[b].avail \in {latency, d.bank[b].avail}
    <3>1. /\ RqSize - 1 \in Nat /\ d.rq \in [0 .. (RqSize - 1) -> Entry]
          /\ d.bank \in [Banks -> BankState] /\ latency \in Nat /\ Waited(d.rq)
          /\ Bound(d.rq, d.bank, "read") /\ "read" \in {"read", "write"}
      BY <1>0, <1>1, <2>3, <2>5
    <3> QED  BY <2>6, <3>1, ScheduleQueue
  <2>8. count \in Int  BY <1>0
  <2> HIDE DEF x, bank, count
  <2>9. /\ e \in State /\ e.rq = x /\ e.wq = d.wq /\ e.bank = bank /\ e.reads = count
        /\ e.writes = d.writes /\ e.write = d.write /\ e.dbus = d.dbus
    <3>1. x \in [RqSlots -> Entry]  BY <2>7 DEF RqSlots, WqSlots
    <3> QED  BY <1>0, <2>2, <2>7, <2>8, <3>1 DEF State
  <2> HIDE DEF e
  <2>10. Binding(e)
    <3>1. Queue(e.write) = "rq" /\ Queue(~e.write) = "wq" /\ Kind(e.write) = "read"
      BY <2>1, <2>9
    <3>2. e.reads = Cardinality(Scheduled(e.rq)) /\ e.writes = Cardinality(Scheduled(e.wq))
      BY <2>3, <2>7, <2>9 DEF count
    <3> QED  BY <2>3, <2>7, <2>9, <3>1, <3>2 DEF Binding
  <2>11. SameRequests(d.wq, e.wq)  BY <2>9 DEF SameRequests
  <2>12. Consistent(e)  BY <1>1, <2>7, <2>9, <2>10 DEF Consistent
  <2> QED  BY <2>5, <2>7, <2>9, <2>11, <2>12 DEF e
<1>4. CASE d.write /\ Schedulable(d, d.wq) # {}
  <2>1. Queue(d.write) = "wq" /\ Queue(~d.write) = "rq" /\ Kind(d.write) = "write"
    BY <1>0, <1>4
  <2> DEFINE hit == RowHits(d, d.wq) # {}
             i == Oldest(d.wq, IF hit THEN RowHits(d, d.wq) ELSE Schedulable(d, d.wq))
             latency == IF hit THEN CasCycles ELSE RowMissCycles + CasCycles
             x == ScheduleEntry(d.wq, i, latency)
             bank == ScheduleBank(d.wq, d.bank, i, latency, "write")
             count == d.writes + 1
  <2>2. e = [d EXCEPT !.wq = x, !.bank = bank, !.writes = count]
    <3>1. e = [d EXCEPT !.wq[i].sched = TRUE, !.wq[i].event = latency,
                        !.bank[BankOf[d.wq[i].addr]] =
                           [working |-> TRUE, index |-> i, avail |-> latency,
                            row |-> RowOf[d.wq[i].addr], kind |-> "write"],
                        !.reads = IF d.write THEN @ ELSE @ + 1,
                        !.writes = IF d.write THEN @ + 1 ELSE @]
      BY <1>4, <2>1 DEF Schedule
    <3> QED  BY <1>0, <1>4, <3>1 DEF State, ScheduleEntry, ScheduleBank
  <2>3. /\ Bound(d.wq, d.bank, "write") /\ Scheduled(d.rq) = {}
        /\ d.reads = Cardinality(Scheduled(d.rq)) /\ d.writes = Cardinality(Scheduled(d.wq))
    BY <1>1, <2>1 DEF Binding
  <2>4. i \in Schedulable(d, d.wq)
    <3>1. IsQueue(d.wq) /\ Schedulable(d, d.wq) \subseteq DOMAIN d.wq
      BY <1>0 DEF IsQueue, Schedulable, Unscheduled, Used
    <3>2. RowHits(d, d.wq) \subseteq Schedulable(d, d.wq)  BY DEF RowHits
    <3> QED  BY <1>4, <3>1, <3>2, OldestElement
  <2>5. latency \in Nat /\ latency \in 0 .. (RowMissCycles + CasCycles)  BY DramAssumption
  <2> HIDE DEF i, latency
  <2>6. i \in Unscheduled(d.wq) /\ ~d.bank[BankOf[d.wq[i].addr]].working
    BY <2>4 DEF Schedulable
  <2>7. /\ x \in [0 .. (WqSize - 1) -> Entry] /\ SameRequests(d.wq, x) /\ Waited(x)
        /\ Cardinality(Scheduled(x)) = Cardinality(Scheduled(d.wq)) + 1
        /\ bank \in [Banks -> BankState] /\ Bound(x, bank, "write")
        /\ \A b \in Banks : bank[b].avail \in {latency, d.bank[b].avail}
    <3>1. /\ WqSize - 1 \in Nat /\ d.wq \in [0 .. (WqSize - 1) -> Entry]
          /\ d.bank \in [Banks -> BankState] /\ latency \in Nat /\ Waited(d.wq)
          /\ Bound(d.wq, d.bank, "write") /\ "write" \in {"read", "write"}
      BY <1>0, <1>1, <2>3, <2>5
    <3> QED  BY <2>6, <3>1, ScheduleQueue
  <2>8. count \in Int  BY <1>0
  <2> HIDE DEF x, bank, count
  <2>9. /\ e \in State /\ e.wq = x /\ e.rq = d.rq /\ e.bank = bank /\ e.writes = count
        /\ e.reads = d.reads /\ e.write = d.write /\ e.dbus = d.dbus
    <3>1. x \in [WqSlots -> Entry]  BY <2>7 DEF RqSlots, WqSlots
    <3> QED  BY <1>0, <2>2, <2>7, <2>8, <3>1 DEF State
  <2> HIDE DEF e
  <2>10. Binding(e)
    <3>1. Queue(e.write) = "wq" /\ Queue(~e.write) = "rq" /\ Kind(e.write) = "write"
      BY <2>1, <2>9
    <3>2. e.reads = Cardinality(Scheduled(e.rq)) /\ e.writes = Cardinality(Scheduled(e.wq))
      BY <2>3, <2>7, <2>9 DEF count
    <3> QED  BY <2>3, <2>7, <2>9, <3>1, <3>2 DEF Binding
  <2>11. SameRequests(d.rq, e.rq)  BY <2>9 DEF SameRequests
  <2>12. Consistent(e)  BY <1>1, <2>7, <2>9, <2>10 DEF Consistent
  <2> QED  BY <2>5, <2>7, <2>9, <2>11, <2>12 DEF e
<1> QED  BY <1>0, <1>1, <1>2, <1>3, <1>4, Sides

\* What happens to the requests when the data bus carries one of them.
Transfer(d, e) ==
  LET q == d[Queue(d.write)]
      i == NextProcess(q)
  IN /\ i \in Scheduled(q)
     /\ e[Queue(d.write)] = [q EXCEPT ![i] = Empty]
     /\ e[Queue(~d.write)] = d[Queue(~d.write)]

\* A request whose access is over leaves with its transfer, or its bank waits for
\* the data bus.
LEMMA ProcessStep ==
  ASSUME NEW d, Consistent(d)
  PROVE  LET e == Process(d)
         IN /\ Consistent(e) /\ e.write = d.write
            /\ IF Completes(d) THEN Transfer(d, e) /\ e.dbus = ReturnTime
               ELSE SameRequests(d.rq, e.rq) /\ SameRequests(d.wq, e.wq) /\ e.dbus = d.dbus
            /\ \A b \in Banks : \/ e.bank[b].avail \in {0, d.bank[b].avail}
                                \/ d.dbus > 0 /\ e.bank[b].avail = d.dbus
<1> DEFINE e == Process(d)
<1>1. d \in State /\ Waited(d.rq) /\ Waited(d.wq) /\ Binding(d)  BY DEF Consistent
<1>0. /\ d \in State /\ RqSize - 1 \in Nat /\ WqSize - 1 \in Nat
      /\ d.rq \in [0 .. (RqSize - 1) -> Entry] /\ d.wq \in [0 .. (WqSize - 1) -> Entry]
      /\ d.bank \in [Banks -> BankState] /\ d.dbus \in Int /\ d.reads \in Int /\ d.writes \in Int
      /\ d.write => /\ Queue(d.write) = "wq" /\ Queue(~d.write) = "rq"
                    /\ Kind(d.write) = "write"
      /\ ~d.write => /\ Queue(d.write) = "rq" /\ Queue(~d.write) = "wq"
                     /\ Kind(d.write) = "read"
  BY <1>1, Sides
<1>2. CASE ~Due(d)
  <2>1. e = d /\ ~Completes(d)  BY <1>2 DEF Process, Completes
  <2>2. SameRequests(d.rq, e.rq) /\ SameRequests(d.wq, e.wq)  BY <2>1 DEF SameRequests
  <2> QED  BY <2>1, <2>2
<1>3. CASE Due(d) /\ ~BusFree(d)
  <2> DEFINE b == BankOf[d[Queue(d.write)][NextProcess(d[Queue(d.write)])].addr]
             bank == [d.bank EXCEPT ![b].avail = d.dbus]
  <2>1. e = [d EXCEPT !.bank[b].avail = d.dbus] /\ ~Completes(d)
    BY <1>3 DEF Process, Completes
  <2>2. d.dbus \in Nat /\ d.dbus > 0  BY <1>0, <1>3 DEF BusFree
  <2> HIDE DEF b
  <2>3. /\ bank \in [Banks -> BankState] /\ SameWork(d.bank, bank)
        /\ \A c \in Banks : bank[c].avail \in {d.dbus, d.bank[c].avail}
    BY <1>0, <2>2 DEF BankState, SameWork
  <2>4. e = [d EXCEPT !.bank = bank]  BY <1>0, <2>1 DEF State
  <2> HIDE DEF bank
  <2>5. /\ e \in State /\ e.rq = d.rq /\ e.wq = d.wq /\ e.bank = bank /\ e.write = d.write
        /\ e.dbus = d.dbus /\ e.reads = d.reads /\ e.writes = d.writes
    BY <1>0, <2>3, <2>4 DEF State
  <2> HIDE DEF e
  <2>6. SameRequests(d.rq, e.rq) /\ SameRequests(d.wq, e.wq)  BY <2>5 DEF SameRequests
  <2>7. Binding(e)
    <3>1. ASSUME NEW q, NEW kind, Bound(q, d.bank, kind), Used(q) \subseteq DOMAIN q,
                 \A i \in Scheduled(q) : BankOf[q[i].addr] \in Banks
          PROVE  Bound(q, bank, kind)
      BY <2>3, <3>1 DEF Bound, SameWork
    <3>2. \A i \in Scheduled(d.rq) : BankOf[d.rq[i].addr] \in Banks
      BY <1>0, DramAssumption DEF Scheduled, Used, Entry
    <3>3. \A i \in Scheduled(d.wq) : BankOf[d.wq[i].addr] \in Banks
      BY <1>0, DramAssumption DEF Scheduled, Used, Entry
    <3>4. Used(d.rq) \subseteq DOMAIN d.rq /\ Used(d.wq) \subseteq DOMAIN d.wq  BY DEF Used
    <3>5. CASE d.write
      <4>1. Bound(d.wq, bank, Kind(d.write))  BY <1>0, <1>1, <3>1, <3>3, <3>4, <3>5 DEF Binding
      <4> QED  BY <1>0, <1>1, <2>5, <3>5, <4>1 DEF Binding
    <3>6. CASE ~d.write
      <4>1. Bound(d.rq, bank, Kind(d.write))  BY <1>0, <1>1, <3>1, <3>2, <3>4, <3>6 DEF Binding
      <4> QED  BY <1>0, <1>1, <2>5, <3>6, <4>1 DEF Binding
    <3> QED  BY <3>5, <3>6
  <2>8. Consistent(e)  BY <1>1, <2>5, <2>7 DEF Consistent
  <2> QED  BY <2>1, <2>2, <2>3, <2>5, <2>6, <2>8 DEF e
<1>4. CASE ~d.write /\ Completes(d)
  <2>1. Queue(d.write) = "rq" /\ Queue(~d.write) = "wq" /\ Kind(d.write) = "read"
    BY <1>0, <1>4
  <2> DEFINE i == NextProcess(d.rq)
             b == BankOf[d.rq[i].addr]
             row == d.bank[b].row
             x == [d.rq EXCEPT ![i] = Empty]
             bank == [d.bank EXCEPT ![b] = [IdleBank EXCEPT !.row = row]]
             count == d.reads - 1
  <2>2. e = [d EXCEPT !.dbus = ReturnTime, !.bank = bank, !.rq = x, !.reads = count]
    <3>1. e = [d EXCEPT !.dbus = ReturnTime,
                        !.bank[b] = [IdleBank EXCEPT !.row = d.bank[b].row],
                        !.rq[i] = Empty,
                        !.reads = IF d.write THEN @ ELSE @ - 1,
                        !.writes = IF d.write THEN @ - 1 ELSE @]
      BY <1>4, <2>1 DEF Process, Completes
    <3> QED  BY <1>0, <1>4, <3>1 DEF State
  <2>3. /\ Bound(d.rq, d.bank, "read") /\ Scheduled(d.wq) = {}
        /\ d.reads = Cardinality(Scheduled(d.rq)) /\ d.writes = Cardinality(Scheduled(d.wq))
    BY <1>1, <2>1 DEF Binding
  <2>4. i \in Scheduled(d.rq)
    <3>1. Scheduled(d.rq) # {}  BY <1>4, <2>1 DEF Completes, Due
    <3>2. IsQueue(d.rq) /\ Scheduled(d.rq) \subseteq DOMAIN d.rq
      BY <1>0 DEF IsQueue, Scheduled, Used
    <3> QED  BY <3>1, <3>2, OldestElement DEF NextProcess
  <2> HIDE DEF i
  <2>5. b \in Banks /\ row \in Rows
    <3>1. b \in Banks
      BY <1>0, <2>4, DramAssumption DEF Scheduled, Used, Entry
    <3> QED  BY <1>0, <3>1 DEF BankState
  <2> HIDE DEF row
  <2>6. /\ x \in [0 .. (RqSize - 1) -> Entry] /\ Waited(x)
        /\ Cardinality(Scheduled(x)) = Cardinality(Scheduled(d.rq)) - 1
        /\ bank \in [Banks -> BankState] /\ Bound(x, bank, "read")
        /\ \A c \in Banks : bank[c].avail \in {0, d.bank[c].avail}
    <3>1. /\ RqSize - 1 \in Nat /\ d.rq \in [0 .. (RqSize - 1) -> Entry]
          /\ d.bank \in [Banks -> BankState] /\ Waited(d.rq) /\ Bound(d.rq, d.bank, "read")
      BY <1>0, <1>1, <2>3
    <3> QED  BY <2>4, <2>5, <3>1, CompleteQueue
  <2>7. count \in Int /\ ReturnTime \in Int  BY <1>0, DramAssumption
  <2> HIDE DEF bank, count, b
  <2>8. /\ e \in State /\ e.rq = x /\ e.wq = d.wq /\ e.bank = bank /\ e.reads = count
        /\ e.writes = d.writes /\ e.write = d.write /\ e.dbus = ReturnTime
    <3> HIDE DEF x
    <3>1. x \in [RqSlots -> Entry]  BY <2>6 DEF RqSlots, WqSlots
    <3> QED  BY <1>0, <2>2, <2>6, <2>7, <3>1 DEF State
  <2> HIDE DEF e
  <2>9. Binding(e)
    <3> HIDE DEF x
    <3>1. Queue(e.write) = "rq" /\ Queue(~e.write) = "wq" /\ Kind(e.write) = "read"
      BY <2>1, <2>8
    <3>2. e.reads = Cardinality(Scheduled(e.rq)) /\ e.writes = Cardinality(Scheduled(e.wq))
      BY <2>3, <2>6, <2>8 DEF count
    <3> QED  BY <2>3, <2>6, <2>8, <3>1, <3>2 DEF Binding
  <2>10. Consistent(e)
    <3> HIDE DEF x
    <3> QED  BY <1>1, <2>6, <2>8, <2>9 DEF Consistent
  <2>11. Transfer(d, e)  BY <2>1, <2>4, <2>8 DEF i, Transfer
  <2> HIDE DEF x
  <2> QED  BY <1>4, <2>6, <2>8, <2>10, <2>11 DEF e
<1>5. CASE d.write /\ Completes(d)
  <2>1. Queue(d.write) = "wq" /\ Queue(~d.write) = "rq" /\ Kind(d.write) = "write"
    BY <1>0, <1>5
  <2> DEFINE i == NextProcess(d.wq)
             b == BankOf[d.wq[i].addr]
             row == d.bank[b].row
             x == [d.wq EXCEPT ![i] = Empty]
             bank == [d.bank EXCEPT ![b] = [IdleBank EXCEPT !.row = row]]
             count == d.writes - 1
  <2>2. e = [d EXCEPT !.dbus = ReturnTime, !.bank = bank, !.wq = x, !.writes = count]
    <3>1. e = [d EXCEPT !.dbus = ReturnTime,
                        !.bank[b] = [IdleBank EXCEPT !.row = d.bank[b].row],
                        !.wq[i] = Empty,
                        !.reads = IF d.write THEN @ ELSE @ - 1,
                        !.writes = IF d.write THEN @ - 1 ELSE @]
      BY <1>5, <2>1 DEF Process, Completes
    <3> QED  BY <1>0, <1>5, <3>1 DEF State
  <2>3. /\ Bound(d.wq, d.bank, "write") /\ Scheduled(d.rq) = {}
        /\ d.reads = Cardinality(Scheduled(d.rq)) /\ d.writes = Cardinality(Scheduled(d.wq))
    BY <1>1, <2>1 DEF Binding
  <2>4. i \in Scheduled(d.wq)
    <3>1. Scheduled(d.wq) # {}  BY <1>5, <2>1 DEF Completes, Due
    <3>2. IsQueue(d.wq) /\ Scheduled(d.wq) \subseteq DOMAIN d.wq
      BY <1>0 DEF IsQueue, Scheduled, Used
    <3> QED  BY <3>1, <3>2, OldestElement DEF NextProcess
  <2> HIDE DEF i
  <2>5. b \in Banks /\ row \in Rows
    <3>1. b \in Banks
      BY <1>0, <2>4, DramAssumption DEF Scheduled, Used, Entry
    <3> QED  BY <1>0, <3>1 DEF BankState
  <2> HIDE DEF row
  <2>6. /\ x \in [0 .. (WqSize - 1) -> Entry] /\ Waited(x)
        /\ Cardinality(Scheduled(x)) = Cardinality(Scheduled(d.wq)) - 1
        /\ bank \in [Banks -> BankState] /\ Bound(x, bank, "write")
        /\ \A c \in Banks : bank[c].avail \in {0, d.bank[c].avail}
    <3>1. /\ WqSize - 1 \in Nat /\ d.wq \in [0 .. (WqSize - 1) -> Entry]
          /\ d.bank \in [Banks -> BankState] /\ Waited(d.wq) /\ Bound(d.wq, d.bank, "write")
      BY <1>0, <1>1, <2>3
    <3> QED  BY <2>4, <2>5, <3>1, CompleteQueue
  <2>7. count \in Int /\ ReturnTime \in Int  BY <1>0, DramAssumption
  <2> HIDE DEF bank, count, b
  <2>8. /\ e \in State /\ e.wq = x /\ e.rq = d.rq /\ e.bank = bank /\ e.writes = count
        /\ e.reads = d.reads /\ e.write = d.write /\ e.dbus = ReturnTime
    <3> HIDE DEF x
    <3>1. x \in [WqSlots -> Entry]  BY <2>6 DEF RqSlots, WqSlots
    <3> QED  BY <1>0, <2>2, <2>6, <2>7, <3>1 DEF State
  <2> HIDE DEF e
  <2>9. Binding(e)
    <3> HIDE DEF x
    <3>1. Queue(e.write) = "wq" /\ Queue(~e.write) = "rq" /\ Kind(e.write) = "write"
      BY <2>1, <2>8
    <3>2. e.reads = Cardinality(Scheduled(e.rq)) /\ e.writes = Cardinality(Scheduled(e.wq))
      BY <2>3, <2>6, <2>8 DEF count
    <3> QED  BY <2>3, <2>6, <2>8, <3>1, <3>2 DEF Binding
  <2>10. Consistent(e)
    <3> HIDE DEF x
    <3> QED  BY <1>1, <2>6, <2>8, <2>9 DEF Consistent
  <2>11. Transfer(d, e)  BY <2>1, <2>4, <2>8 DEF i, Transfer
  <2> HIDE DEF x
  <2> QED  BY <1>5, <2>6, <2>8, <2>10, <2>11 DEF e
<1> QED  BY <1>0, <1>2, <1>3, <1>4, <1>5, Sides DEF Completes

\* A cycle passes.
LEMMA NextCycleStep ==
  ASSUME NEW d, Consistent(d)
  PROVE  LET e == NextCycle(d)
         IN /\ Consistent(e) /\ SameRequests(d.rq, e.rq) /\ SameRequests(d.wq, e.wq)
            /\ e.write = d.write /\ e.dbus = Later(d.dbus, 0 - TurnAround)
            /\ \A b \in Banks : e.bank[b].avail \in Nat /\ e.bank[b].avail <= d.bank[b].avail
<1> DEFINE e == NextCycle(d)
           rq == Renumber(d.rq)
           wq == Renumber(d.wq)
           bus == Later(d.dbus, 0 - TurnAround)
           bank == [b \in Banks |-> [d.bank[b] EXCEPT !.avail = Later(d.bank[b].avail, 0)]]
<1>1. d \in State /\ Waited(d.rq) /\ Waited(d.wq) /\ Binding(d)  BY DEF Consistent
<1>0. /\ d \in State /\ RqSize - 1 \in Nat /\ WqSize - 1 \in Nat
      /\ d.rq \in [0 .. (RqSize - 1) -> Entry] /\ d.wq \in [0 .. (WqSize - 1) -> Entry]
      /\ d.bank \in [Banks -> BankState] /\ d.dbus \in Int /\ d.reads \in Int /\ d.writes \in Int
      /\ d.write => /\ Queue(d.write) = "wq" /\ Queue(~d.write) = "rq"
                    /\ Kind(d.write) = "write"
      /\ ~d.write => /\ Queue(d.write) = "rq" /\ Queue(~d.write) = "wq"
                     /\ Kind(d.write) = "read"
  BY <1>1, Sides
<1>2. e = [d EXCEPT !.rq = rq, !.wq = wq, !.dbus = bus, !.bank = bank]  BY DEF NextCycle
<1>3. /\ rq \in [RqSlots -> Entry] /\ Waited(rq) /\ SameRequests(d.rq, rq)
      /\ \A i \in RqSlots : rq[i].sched = d.rq[i].sched
  BY <1>0, <1>1, RenumberQueue DEF RqSlots
<1>4. /\ wq \in [WqSlots -> Entry] /\ Waited(wq) /\ SameRequests(d.wq, wq)
      /\ \A i \in WqSlots : wq[i].sched = d.wq[i].sched
  BY <1>0, <1>1, RenumberQueue DEF WqSlots
<1>5. bus \in Int  BY <1>0, DramAssumption DEF Later
<1>6. ASSUME NEW b \in Banks
      PROVE  /\ bank[b] \in BankState /\ bank[b].working = d.bank[b].working
             /\ bank[b].index = d.bank[b].index /\ bank[b].kind = d.bank[b].kind
             /\ bank[b].avail \in Nat /\ bank[b].avail <= d.bank[b].avail
  <2>1. d.bank[b] \in BankState  BY <1>0
  <2>2. Later(d.bank[b].avail, 0) \in Nat /\ Later(d.bank[b].avail, 0) <= d.bank[b].avail
    BY <2>1 DEF BankState, Later
  <2> QED  BY <2>1, <2>2 DEF BankState
<1>7. bank \in [Banks -> BankState] /\ SameWork(d.bank, bank)  BY <1>6 DEF SameWork
<1>8. ASSUME NEW kind, Bound(d.rq, d.bank, kind) PROVE Bound(rq, bank, kind)
  BY <1>0, <1>3, <1>7, <1>8, SameBound DEF RqSlots
<1>9. ASSUME NEW kind, Bound(d.wq, d.bank, kind) PROVE Bound(wq, bank, kind)
  BY <1>0, <1>4, <1>7, <1>9, SameBound DEF WqSlots
<1>10. Scheduled(rq) = Scheduled(d.rq)
  <2>1. Used(rq) = Used(d.rq) /\ Used(d.rq) \subseteq RqSlots
    BY <1>0, <1>3, SameUsed DEF Used, RqSlots
  <2> QED  BY <1>3, <2>1 DEF Scheduled
<1>11. Scheduled(wq) = Scheduled(d.wq)
  <2>1. Used(wq) = Used(d.wq) /\ Used(d.wq) \subseteq WqSlots
    BY <1>0, <1>4, SameUsed DEF Used, WqSlots
  <2> QED  BY <1>4, <2>1 DEF Scheduled
<1> HIDE DEF rq, wq, bus, bank
<1>12. /\ e \in State /\ e.rq = rq /\ e.wq = wq /\ e.dbus = bus /\ e.bank = bank
       /\ e.write = d.write /\ e.reads = d.reads /\ e.writes = d.writes
  BY <1>0, <1>2, <1>3, <1>4, <1>5, <1>7 DEF State
<1> HIDE DEF e
<1>13. Binding(e)
  <2>1. CASE d.write
    BY <1>0, <1>1, <1>9, <1>10, <1>11, <1>12, <2>1 DEF Binding
  <2>2. CASE ~d.write
    BY <1>0, <1>1, <1>8, <1>10, <1>11, <1>12, <2>2 DEF Binding
  <2> QED  BY <2>1, <2>2
<1>14. Consistent(e)  BY <1>3, <1>4, <1>12, <1>13 DEF Consistent
<1> QED  BY <1>3, <1>4, <1>6, <1>12, <1>14 DEF e, bus

\* A request enters a queue that is not full.
EnqueueEntry(q, a, ptw, event) ==
  [q EXCEPT ![FreeSlot(q)] = [addr |-> a, ptw |-> ptw, sched |-> FALSE, event |-> event]]

LEMMA EnqueueQueue ==
  ASSUME NEW n \in Nat, NEW q \in [0 .. n -> Entry], Waited(q), Occupancy(q) < n + 1,
         NEW a \in Addrs, NEW ptw \in BOOLEAN, NEW event \in Int, event <= 0
  PROVE  LET i == FreeSlot(q)
             r == EnqueueEntry(q, a, ptw, event)
         IN /\ i \in 0 .. n /\ i \notin Used(q)
            /\ r \in [0 .. n -> Entry] /\ Waited(r)
            /\ Used(r) = Used(q) \cup {i} /\ Scheduled(r) = Scheduled(q)
            /\ r[i].addr = a /\ r[i].ptw = ptw
            /\ \A j \in 0 .. n : j # i => r[j] = q[j]
<1> DEFINE i == FreeSlot(q)
           f == [addr |-> a, ptw |-> ptw, sched |-> FALSE, event |-> event]
           r == EnqueueEntry(q, a, ptw, event)
<1>1. i \in 0 .. n /\ i \notin Used(q)
  <2>1. Used(q) \subseteq 0 .. n  BY DEF Used
  <2>2. IsFiniteSet(0 .. n) /\ Cardinality(0 .. n) = n + 1  BY SlotsFinite
  <2>3. Used(q) # 0 .. n
    BY <2>2 DEF Occupancy
  <2>4. DOMAIN q = 0 .. n /\ \A j \in 0 .. n : j \in Nat  OBVIOUS
  <2>5. (DOMAIN q) \ Used(q) # {} /\ (DOMAIN q) \ Used(q) \in SUBSET Nat
    BY <2>1, <2>3, <2>4
  <2> QED  BY <2>4, <2>5, LowestElement DEF FreeSlot
<1>2. f \in Entry /\ f.addr = a /\ f.ptw = ptw /\ ~f.sched /\ f.event = event /\ a # NoAddr
  BY DramAssumption DEF Entry
<1>8. r = [q EXCEPT ![i] = f]  BY DEF EnqueueEntry
<1> HIDE DEF i, f, r
<1>3. r \in [0 .. n -> Entry] /\ r[i] = f /\ \A j \in 0 .. n : j # i => r[j] = q[j]
  BY <1>1, <1>2, <1>8
<1>4. Used(r) = Used(q) \cup {i}  BY <1>1, <1>2, <1>3 DEF Used
<1>5. Used(q) \subseteq 0 .. n  BY DEF Used
<1>6. Scheduled(r) = Scheduled(q) /\ Unscheduled(r) = Unscheduled(q) \cup {i}
  BY <1>1, <1>2, <1>3, <1>4, <1>5 DEF Scheduled, Unscheduled
<1>7. Waited(r)
  <2>1. ASSUME NEW j \in Unscheduled(r) PROVE r[j].event <= 0
    <3>1. CASE j = i  BY <1>2, <1>3, <3>1
    <3>2. CASE j # i
      BY <1>3, <1>5, <1>6, <2>1, <3>2 DEF Waited, Unscheduled
    <3> QED  BY <3>1, <3>2
  <2> QED  BY <2>1 DEF Waited
<1> QED  BY <1>1, <1>2, <1>3, <1>4, <1>6, <1>7 DEF i, r, f

\* A client adds a request to the read queue, or to the write queue.
AddRq(d, a, ptw, event) ==
  [d EXCEPT !.rq[FreeSlot(d.rq)] = [addr |-> a, ptw |-> ptw, sched |-> FALSE, event |-> event]]
AddWq(d, a, ptw, event) ==
  [d EXCEPT !.wq[FreeSlot(d.wq)] = [addr |-> a, ptw |-> ptw, sched |-> FALSE, event |-> event]]

LEMMA Enqueue_rq ==
  ASSUME NEW d, Consistent(d), Occupancy(d.rq) < RqSize,
         NEW a \in Addrs, NEW ptw \in BOOLEAN, NEW event \in Int, event <= 0
  PROVE  LET e == AddRq(d, a, ptw, event)
             i == FreeSlot(d.rq)
         IN /\ Consistent(e) /\ e.bank = d.bank /\ e.dbus = d.dbus /\ e.write = d.write
            /\ e.wq = d.wq /\ i \in RqSlots /\ i \notin Used(d.rq)
            /\ Used(e.rq) = Used(d.rq) \cup {i}
            /\ e.rq[i].addr = a /\ e.rq[i].ptw = ptw
            /\ \A j \in RqSlots : j # i => e.rq[j] = d.rq[j]
<1> DEFINE i == FreeSlot(d.rq)
           f == [addr |-> a, ptw |-> ptw, sched |-> FALSE, event |-> event]
           x == EnqueueEntry(d.rq, a, ptw, event)
           e == AddRq(d, a, ptw, event)
<1>1. d \in State /\ Waited(d.rq) /\ Waited(d.wq) /\ Binding(d)  BY DEF Consistent
<1>0. /\ d \in State /\ RqSize - 1 \in Nat /\ WqSize - 1 \in Nat
      /\ d.rq \in [0 .. (RqSize - 1) -> Entry] /\ d.wq \in [0 .. (WqSize - 1) -> Entry]
      /\ d.bank \in [Banks -> BankState] /\ d.dbus \in Int /\ d.reads \in Int /\ d.writes \in Int
      /\ d.write => /\ Queue(d.write) = "wq" /\ Queue(~d.write) = "rq"
                    /\ Kind(d.write) = "write"
      /\ ~d.write => /\ Queue(d.write) = "rq" /\ Queue(~d.write) = "wq"
                     /\ Kind(d.write) = "read"
  BY <1>1, Sides
<1>2. /\ i \in RqSlots /\ i \notin Used(d.rq) /\ x \in [RqSlots -> Entry] /\ Waited(x)
      /\ Used(x) = Used(d.rq) \cup {i} /\ Scheduled(x) = Scheduled(d.rq)
      /\ x[i].addr = a /\ x[i].ptw = ptw
      /\ \A j \in RqSlots : j # i => x[j] = d.rq[j]
  <2> DEFINE n == RqSize - 1
  <2>1. /\ n \in Nat /\ d.rq \in [0 .. n -> Entry] /\ Waited(d.rq)
        /\ Occupancy(d.rq) < n + 1
    BY <1>0, <1>1, DramAssumption
  <2> HIDE DEF n
  <2>2. /\ i \in 0 .. n /\ i \notin Used(d.rq) /\ x \in [0 .. n -> Entry] /\ Waited(x)
        /\ Used(x) = Used(d.rq) \cup {i} /\ Scheduled(x) = Scheduled(d.rq)
        /\ x[i].addr = a /\ x[i].ptw = ptw
        /\ \A j \in 0 .. n : j # i => x[j] = d.rq[j]
    BY <2>1, EnqueueQueue
  <2> HIDE DEF i, x
  <2> QED  BY <2>2 DEF n, RqSlots
<1>3. e = [d EXCEPT !.rq = x]  BY <1>0 DEF State, EnqueueEntry, AddRq
<1> HIDE DEF i, f, x
<1>4. /\ e \in State /\ e.rq = x /\ e.wq = d.wq /\ e.bank = d.bank /\ e.dbus = d.dbus
      /\ e.write = d.write /\ e.reads = d.reads /\ e.writes = d.writes
  BY <1>0, <1>2, <1>3 DEF State
<1> HIDE DEF e
<1>5. ASSUME NEW kind, Bound(d.rq, d.bank, kind) PROVE Bound(x, d.bank, kind)
  <2>1. \A j \in Scheduled(x) : j \in RqSlots /\ j # i /\ x[j] = d.rq[j]
    BY <1>0, <1>2 DEF Scheduled, Used, RqSlots
  <2> QED  BY <1>2, <1>5, <2>1 DEF Bound
<1>6. Binding(e)
  <2>1. CASE d.write
    BY <1>0, <1>1, <1>2, <1>4, <1>5, <2>1 DEF Binding
  <2>2. CASE ~d.write
    BY <1>0, <1>1, <1>2, <1>4, <1>5, <2>2 DEF Binding
  <2> QED  BY <2>1, <2>2
<1>7. Consistent(e)  BY <1>1, <1>2, <1>4, <1>6 DEF Consistent
<1> QED  BY <1>2, <1>4, <1>7 DEF e, i, f

LEMMA Enqueue_wq ==
  ASSUME NEW d, Consistent(d), Occupancy(d.wq) < WqSize,
         NEW a \in Addrs, NEW ptw \in BOOLEAN, NEW event \in Int, event <= 0
  PROVE  LET e == AddWq(d, a, ptw, event)
             i == FreeSlot(d.wq)
         IN /\ Consistent(e) /\ e.bank = d.bank /\ e.dbus = d.dbus /\ e.write = d.write
            /\ e.rq = d.rq /\ i \in WqSlots /\ i \notin Used(d.wq)
            /\ Used(e.wq) = Used(d.wq) \cup {i}
            /\ e.wq[i].addr = a /\ e.wq[i].ptw = ptw
            /\ \A j \in WqSlots : j # i => e.wq[j] = d.wq[j]
<1> DEFINE i == FreeSlot(d.wq)
           f == [addr |-> a, ptw |-> ptw, sched |-> FALSE, event |-> event]
           x == EnqueueEntry(d.wq, a, ptw, event)
           e == AddWq(d, a, ptw, event)
<1>1. d \in State /\ Waited(d.rq) /\ Waited(d.wq) /\ Binding(d)  BY DEF Consistent
<1>0. /\ d \in State /\ RqSize - 1 \in Nat /\ WqSize - 1 \in Nat
      /\ d.rq \in [0 .. (RqSize - 1) -> Entry] /\ d.wq \in [0 .. (WqSize - 1) -> Entry]
      /\ d.bank \in [Banks -> BankState] /\ d.dbus \in Int /\ d.reads \in Int /\ d.writes \in Int
      /\ d.write => /\ Queue(d.write) = "wq" /\ Queue(~d.write) = "rq"
                    /\ Kind(d.write) = "write"
      /\ ~d.write => /\ Queue(d.write) = "rq" /\ Queue(~d.write) = "wq"
                     /\ Kind(d.write) = "read"
  BY <1>1, Sides
<1>2. /\ i \in WqSlots /\ i \notin Used(d.wq) /\ x \in [WqSlots -> Entry] /\ Waited(x)
      /\ Used(x) = Used(d.wq) \cup {i} /\ Scheduled(x) = Scheduled(d.wq)
      /\ x[i].addr = a /\ x[i].ptw = ptw
      /\ \A j \in WqSlots : j # i => x[j] = d.wq[j]
  <2> DEFINE n == WqSize - 1
  <2>1. /\ n \in Nat /\ d.wq \in [0 .. n -> Entry] /\ Waited(d.wq)
        /\ Occupancy(d.wq) < n + 1
    BY <1>0, <1>1, DramAssumption
  <2> HIDE DEF n
  <2>2. /\ i \in 0 .. n /\ i \notin Used(d.wq) /\ x \in [0 .. n -> Entry] /\ Waited(x)
        /\ Used(x) = Used(d.wq) \cup {i} /\ Scheduled(x) = Scheduled(d.wq)
        /\ x[i].addr = a /\ x[i].ptw = ptw
        /\ \A j \in 0 .. n : j # i => x[j] = d.wq[j]
    BY <2>1, EnqueueQueue
  <2> HIDE DEF i, x
  <2> QED  BY <2>2 DEF n, WqSlots
<1>3. e = [d EXCEPT !.wq = x]  BY <1>0 DEF State, EnqueueEntry, AddWq
<1> HIDE DEF i, f, x
<1>4. /\ e \in State /\ e.wq = x /\ e.rq = d.rq /\ e.bank = d.bank /\ e.dbus = d.dbus
      /\ e.write = d.write /\ e.reads = d.reads /\ e.writes = d.writes
  BY <1>0, <1>2, <1>3 DEF State
<1> HIDE DEF e
<1>5. ASSUME NEW kind, Bound(d.wq, d.bank, kind) PROVE Bound(x, d.bank, kind)
  <2>1. \A j \in Scheduled(x) : j \in WqSlots /\ j # i /\ x[j] = d.wq[j]
    BY <1>0, <1>2 DEF Scheduled, Used, WqSlots
  <2> QED  BY <1>2, <1>5, <2>1 DEF Bound
<1>6. Binding(e)
  <2>1. CASE d.write
    BY <1>0, <1>1, <1>2, <1>4, <1>5, <2>1 DEF Binding
  <2>2. CASE ~d.write
    BY <1>0, <1>1, <1>2, <1>4, <1>5, <2>2 DEF Binding
  <2> QED  BY <2>1, <2>2
<1>7. Consistent(e)  BY <1>1, <1>2, <1>4, <1>6 DEF Consistent
<1> QED  BY <1>2, <1>4, <1>7 DEF e, i, f

-----------------------------------------------------------------------------
(* The data bus. *)

\* The constants of the bus as numbers.
LEMMA BusConstants ==
  /\ ReturnTime \in Nat /\ TurnAround \in Nat /\ RowMissCycles \in Nat /\ CasCycles \in Nat
  /\ HighWm \in Nat /\ LowWm \in Nat /\ LowWm <= HighWm /\ HighWm > 0 /\ ReturnTime > 0
BY DramAssumption

LEMMA OccupancyType ==
  ASSUME NEW d, Consistent(d)
  PROVE  Occupancy(d.rq) \in Nat /\ Occupancy(d.wq) \in Nat
<1>1. /\ RqSize - 1 \in Nat /\ WqSize - 1 \in Nat
      /\ d.rq \in [0 .. (RqSize - 1) -> Entry] /\ d.wq \in [0 .. (WqSize - 1) -> Entry]
  BY Sides DEF Consistent
<1>2. IsQueue(d.rq) /\ IsQueue(d.wq)  BY <1>1 DEF IsQueue
<1>3. IsFiniteSet(Used(d.rq)) /\ IsFiniteSet(Used(d.wq))  BY <1>2, QueueFacts
<1> QED  BY <1>3, FS_CardinalityType DEF Occupancy

\* A bus that is not reserved further keeps its bounds while the requests stay.
LEMMA BusKeeps ==
  ASSUME NEW d, NEW e, BusBounded(d), d.dbus \in Int, e.dbus \in Int, d.write \in BOOLEAN,
         e.write = d.write, e.dbus <= d.dbus,
         SameRequests(d.rq, e.rq), SameRequests(d.wq, e.wq)
  PROVE  BusBounded(e)
<1>1. Occupancy(e.rq) = Occupancy(d.rq) /\ Occupancy(e.wq) = Occupancy(d.wq)  BY SameUsed
<1> QED  BY <1>1, BusConstants DEF BusBounded

\* A change of mode reserves the bus for one turn-around more.
LEMMA BusSwitch ==
  ASSUME NEW d, Consistent(d), BusBounded(d)
  PROVE  BusBounded(SwitchMode(d))
<1> DEFINE e == SwitchMode(d)
<1>1. /\ Consistent(e) /\ SameRequests(d.rq, e.rq) /\ SameRequests(d.wq, e.wq)
      /\ IF EnterWrite(d) \/ LeaveWrite(d)
         THEN e.write = ~d.write /\ e.dbus = d.dbus + TurnAround
         ELSE e.write = d.write /\ e.dbus = d.dbus
  BY SwitchStep
<1> HIDE DEF e
<1>2. d.dbus \in Int /\ e.dbus \in Int /\ d.write \in BOOLEAN
  BY <1>1, Sides DEF Consistent
<1>3. Occupancy(d.rq) \in Nat /\ Occupancy(d.wq) \in Nat  BY OccupancyType
<1>4. Occupancy(e.rq) = Occupancy(d.rq) /\ Occupancy(e.wq) = Occupancy(d.wq)  BY <1>1, SameUsed
<1>5. BusBounded(e)
  <2>1. CASE EnterWrite(d)
    <3>1. ~d.write /\ e.write /\ e.dbus = d.dbus + TurnAround  BY <1>1, <2>1 DEF EnterWrite
    <3>2. /\ d.dbus <= ReturnTime + 3 * TurnAround
          /\ Occupancy(d.rq) = 0 => d.dbus <= ReturnTime + TurnAround
      BY <3>1 DEF BusBounded
    <3>3. Occupancy(d.wq) >= HighWm \/ (Occupancy(d.rq) = 0 /\ Occupancy(d.wq) > 0)
      BY <2>1 DEF EnterWrite
    <3>4. e.dbus <= ReturnTime + 4 * TurnAround  BY <1>2, <3>1, <3>2, BusConstants
    <3>5. Occupancy(e.wq) # 0  BY <1>3, <1>4, <3>3, BusConstants
    <3>6. Occupancy(e.wq) < LowWm => e.dbus <= ReturnTime + 2 * TurnAround
      BY <1>2, <1>3, <1>4, <3>1, <3>2, <3>3, BusConstants
    <3> QED  BY <3>1, <3>4, <3>5, <3>6 DEF BusBounded
  <2>2. CASE LeaveWrite(d)
    <3>1. d.write /\ ~e.write /\ e.dbus = d.dbus + TurnAround  BY <1>1, <2>2 DEF LeaveWrite
    <3>2. /\ Occupancy(d.wq) < LowWm => d.dbus <= ReturnTime + 2 * TurnAround
          /\ Occupancy(d.wq) = 0 => d.dbus <= ReturnTime
      BY <3>1 DEF BusBounded
    <3>3. Occupancy(d.wq) = 0 \/ (Occupancy(d.rq) > 0 /\ Occupancy(d.wq) < LowWm)
      BY <2>2 DEF LeaveWrite
    <3>4. e.dbus <= ReturnTime + 3 * TurnAround /\ e.dbus <= ReturnTime + 4 * TurnAround
      BY <1>2, <1>3, <3>1, <3>2, <3>3, BusConstants
    <3>5. Occupancy(e.rq) = 0 => e.dbus <= ReturnTime + TurnAround
      BY <1>2, <1>3, <1>4, <3>1, <3>2, <3>3, BusConstants
    <3> QED  BY <3>1, <3>4, <3>5 DEF BusBounded
  <2>3. CASE ~EnterWrite(d) /\ ~LeaveWrite(d)
    BY <1>1, <1>2, <2>3, BusKeeps
  <2> QED  BY <2>1, <2>2, <2>3
<1> QED  BY <1>5 DEF e

\* operate() keeps controller, bus and banks within bounds, and a transfer starts
\* only when the bus has forgotten the last one.
LEMMA OperateStep ==
  ASSUME NEW d, Consistent(d), BusBounded(d), BanksBounded(d), NEW l, BusRemembers(d, l)
  PROVE  LET c == Schedule(SwitchMode(d))
             e == NextCycle(Process(c))
             m == IF Completes(c) THEN [write |-> c.write, age |-> 0]
                  ELSE [l EXCEPT !.age = IF @ > ReturnTime + TurnAround THEN @ ELSE @ + 1]
         IN /\ Consistent(e) /\ BusBounded(e) /\ BanksBounded(e) /\ BusRemembers(e, m)
            /\ SameRequests(d.rq, c.rq) /\ SameRequests(d.wq, c.wq)
            /\ m.age = 0 => /\ l.age + 1 >= ReturnTime
                            /\ m.write # l.write => l.age + 1 >= ReturnTime + TurnAround
<1> DEFINE b == SwitchMode(d)
           c == Schedule(b)
           p == Process(c)
           e == NextCycle(p)
           m == IF Completes(c) THEN [write |-> c.write, age |-> 0]
                ELSE [l EXCEPT !.age = IF @ > ReturnTime + TurnAround THEN @ ELSE @ + 1]
<1>1. /\ Consistent(b) /\ SameRequests(d.rq, b.rq) /\ SameRequests(d.wq, b.wq)
      /\ \A k \in Banks : b.bank[k].avail \in {0, d.bank[k].avail}
      /\ IF EnterWrite(d) \/ LeaveWrite(d)
         THEN b.write = ~d.write /\ b.dbus = d.dbus + TurnAround
         ELSE b.write = d.write /\ b.dbus = d.dbus
  BY SwitchStep
<1>2. BusBounded(b)  BY BusSwitch
<1> HIDE DEF b
<1>3. /\ Consistent(c) /\ SameRequests(b.rq, c.rq) /\ SameRequests(b.wq, c.wq)
      /\ c.write = b.write /\ c.dbus = b.dbus
      /\ \A k \in Banks : \/ c.bank[k].avail = b.bank[k].avail
                          \/ c.bank[k].avail \in 0 .. (RowMissCycles + CasCycles)
  BY <1>1, ScheduleStep
<1> HIDE DEF c
<1>4. /\ Consistent(p) /\ p.write = c.write
      /\ IF Completes(c) THEN Transfer(c, p) /\ p.dbus = ReturnTime
         ELSE SameRequests(c.rq, p.rq) /\ SameRequests(c.wq, p.wq) /\ p.dbus = c.dbus
      /\ \A k \in Banks : \/ p.bank[k].avail \in {0, c.bank[k].avail}
                          \/ c.dbus > 0 /\ p.bank[k].avail = c.dbus
  BY <1>3, ProcessStep
<1> HIDE DEF p
<1>5. /\ Consistent(e) /\ SameRequests(p.rq, e.rq) /\ SameRequests(p.wq, e.wq)
      /\ e.write = p.write /\ e.dbus = Later(p.dbus, 0 - TurnAround)
      /\ \A k \in Banks : e.bank[k].avail \in Nat /\ e.bank[k].avail <= p.bank[k].avail
  BY <1>4, NextCycleStep
<1> HIDE DEF e
<1>6. /\ d \in State /\ b \in State /\ c \in State /\ p \in State /\ e \in State
  BY <1>1, <1>3, <1>4, <1>5 DEF Consistent
<1>7. /\ d.dbus \in Int /\ b.dbus \in Int /\ c.dbus \in Int /\ p.dbus \in Int /\ e.dbus \in Int
      /\ d.write \in BOOLEAN /\ b.write \in BOOLEAN /\ c.write \in BOOLEAN
  BY <1>6 DEF State
<1>8. BusBounded(c)  BY <1>2, <1>3, <1>7, BusKeeps
<1>9. BusBounded(p)
  <2>1. CASE Completes(c)  BY <1>4, <2>1, BusConstants DEF BusBounded
  <2>2. CASE ~Completes(c)  BY <1>4, <1>7, <1>8, <2>2, BusKeeps
  <2> QED  BY <2>1, <2>2
<1>10. e.dbus \in {0 - TurnAround, p.dbus - 1} /\ e.dbus >= p.dbus - 1
  BY <1>5, <1>7, BusConstants DEF Later
<1>11. BusBounded(e)
  <2>1. CASE e.dbus <= p.dbus
    <3>1. p.write \in BOOLEAN  BY <1>4, <1>7
    <3> QED  BY <1>5, <1>7, <1>9, <2>1, <3>1, BusKeeps
  <2>2. CASE e.dbus = 0 - TurnAround  BY <2>2, BusConstants DEF BusBounded
  <2> QED  BY <1>7, <1>10, <2>1, <2>2
<1>12. BanksBounded(e)
  <2>1. c.dbus <= ReturnTime + 4 * TurnAround  BY <1>7, <1>8, BusConstants DEF BusBounded
  <2> SUFFICES ASSUME NEW k \in Banks PROVE e.bank[k].avail \in Latency  BY DEF BanksBounded
  <2>2. b.bank[k].avail \in Latency
    BY <1>1, BusConstants DEF BanksBounded, Latency
  <2>3. c.bank[k].avail \in Latency
    BY <1>3, <2>2, BusConstants DEF Latency
  <2>4. p.bank[k].avail \in Latency
    BY <1>4, <1>7, <2>1, <2>3, BusConstants DEF Latency
  <2> QED  BY <1>5, <2>4, BusConstants DEF Latency
<1>13. SameRequests(d.rq, c.rq) /\ SameRequests(d.wq, c.wq)
  BY <1>1, <1>3 DEF SameRequests
<1>14. /\ l.write \in BOOLEAN /\ l.age \in Nat
       /\ l.age < ReturnTime + TurnAround =>
            /\ d.dbus >= ReturnTime - 1 - l.age
            /\ l.write # d.write => d.dbus >= ReturnTime + TurnAround - 1 - l.age
  BY DEF BusRemembers
<1>15. l.age < ReturnTime + TurnAround =>
         /\ c.dbus >= ReturnTime - 1 - l.age
         /\ l.write # c.write => c.dbus >= ReturnTime + TurnAround - 1 - l.age
  <2>1. CASE EnterWrite(d) \/ LeaveWrite(d)
    <3>1. c.write = ~d.write /\ c.dbus = d.dbus + TurnAround  BY <1>1, <1>3, <2>1
    <3> QED  BY <1>7, <1>14, <3>1, BusConstants
  <2>2. CASE ~(EnterWrite(d) \/ LeaveWrite(d))
    <3>1. c.write = d.write /\ c.dbus = d.dbus  BY <1>1, <1>3, <2>2
    <3> QED  BY <1>14, <3>1
  <2> QED  BY <2>1, <2>2
<1>16. CASE Completes(c)
  <2>1. m.write = c.write /\ m.age = 0  BY <1>16
  <2>2. p.dbus = ReturnTime /\ e.write = c.write  BY <1>4, <1>5, <1>16
  <2>3. c.dbus <= 0  BY <1>16 DEF Completes, BusFree
  <2>4. BusRemembers(e, m)
    BY <1>7, <1>10, <2>1, <2>2, BusConstants DEF BusRemembers
  <2>5. /\ l.age + 1 >= ReturnTime
        /\ m.write # l.write => l.age + 1 >= ReturnTime + TurnAround
    BY <1>7, <1>14, <1>15, <2>1, <2>3, BusConstants
  <2> QED  BY <1>5, <1>11, <1>12, <1>13, <2>4, <2>5 DEF e, p, c, b
<1>17. CASE ~Completes(c)
  <2>1. m.write = l.write /\ m.age = IF l.age > ReturnTime + TurnAround THEN l.age ELSE l.age + 1
    BY <1>17
  <2>2. p.dbus = c.dbus /\ e.write = c.write  BY <1>4, <1>5, <1>17
  <2>3. m.age \in Nat /\ m.age # 0  BY <1>14, <2>1, BusConstants
  <2>4. BusRemembers(e, m)
    BY <1>7, <1>10, <1>14, <1>15, <2>1, <2>2, <2>3, BusConstants DEF BusRemembers
  <2> QED  BY <1>5, <1>11, <1>12, <1>13, <2>3, <2>4 DEF e, p, c, b
<1> QED  BY <1>16, <1>17

\* A request that arrives changes neither the bus nor the banks.
LEMMA Arrive_rq ==
  ASSUME NEW d, Consistent(d), BusBounded(d), BanksBounded(d), NEW l, BusRemembers(d, l),
         Occupancy(d.rq) < RqSize,
         NEW a \in Addrs, NEW ptw \in BOOLEAN, NEW event \in Int, event <= 0
  PROVE  LET e == AddRq(d, a, ptw, event)
         IN Consistent(e) /\ BusBounded(e) /\ BanksBounded(e) /\ BusRemembers(e, l)
<1> DEFINE e == AddRq(d, a, ptw, event)
           i == FreeSlot(d.rq)
<1>1. /\ Consistent(e) /\ e.bank = d.bank /\ e.dbus = d.dbus /\ e.write = d.write
      /\ e.wq = d.wq /\ i \notin Used(d.rq)
      /\ Used(e.rq) = Used(d.rq) \cup {i}
  BY Enqueue_rq
<1> HIDE DEF e, i
<1>2. Occupancy(e.wq) = Occupancy(d.wq)  BY <1>1
<1>3. Occupancy(e.rq) = Occupancy(d.rq) + 1 /\ Occupancy(d.rq) \in Nat
  <2>1. d.rq \in [0 .. (RqSize - 1) -> Entry] /\ RqSize - 1 \in Nat  BY Sides DEF Consistent
  <2>2. IsQueue(d.rq)  BY <2>1 DEF IsQueue
  <2>3. IsFiniteSet(Used(d.rq))  BY <2>2, QueueFacts
  <2> QED  BY <1>1, <2>3, FS_AddElement, FS_CardinalityType DEF Occupancy
<1>4. BusBounded(e)  BY <1>1, <1>2, <1>3, BusConstants DEF BusBounded
<1>5. BanksBounded(e) /\ BusRemembers(e, l)  BY <1>1 DEF BanksBounded, BusRemembers
<1> QED  BY <1>1, <1>4, <1>5 DEF e

LEMMA Arrive_wq ==
  ASSUME NEW d, Consistent(d), BusBounded(d), BanksBounded(d), NEW l, BusRemembers(d, l),
         Occupancy(d.wq) < WqSize,
         NEW a \in Addrs, NEW ptw \in BOOLEAN, NEW event \in Int, event <= 0
  PROVE  LET e == AddWq(d, a, ptw, event)
         IN Consistent(e) /\ BusBounded(e) /\ BanksBounded(e) /\ BusRemembers(e, l)
<1> DEFINE e == AddWq(d, a, ptw, event)
           i == FreeSlot(d.wq)
<1>1. /\ Consistent(e) /\ e.bank = d.bank /\ e.dbus = d.dbus /\ e.write = d.write
      /\ e.rq = d.rq /\ i \notin Used(d.wq)
      /\ Used(e.wq) = Used(d.wq) \cup {i}
  BY Enqueue_wq
<1> HIDE DEF e, i
<1>2. Occupancy(e.rq) = Occupancy(d.rq)  BY <1>1
<1>3. Occupancy(e.wq) = Occupancy(d.wq) + 1 /\ Occupancy(d.wq) \in Nat
  <2>1. d.wq \in [0 .. (WqSize - 1) -> Entry] /\ WqSize - 1 \in Nat  BY Sides DEF Consistent
  <2>2. IsQueue(d.wq)  BY <2>1 DEF IsQueue
  <2>3. IsFiniteSet(Used(d.wq))  BY <2>2, QueueFacts
  <2> QED  BY <1>1, <2>3, FS_AddElement, FS_CardinalityType DEF Occupancy
<1>4. BusBounded(e)  BY <1>1, <1>2, <1>3, BusConstants DEF BusBounded
<1>5. BanksBounded(e) /\ BusRemembers(e, l)  BY <1>1 DEF BanksBounded, BusRemembers
<1> QED  BY <1>1, <1>4, <1>5 DEF e

-----------------------------------------------------------------------------
(* The invariant of the controller. *)

LEMMA InitInv == Init => DramInv
<1> SUFFICES ASSUME Init PROVE DramInv  OBVIOUS
<1>1. /\ dram.rq = [i \in RqSlots |-> Empty] /\ dram.wq = [i \in WqSlots |-> Empty]
      /\ dram.bank = [b \in Banks |-> IdleBank] /\ dram.dbus = 0 /\ dram.write = FALSE
      /\ dram.reads = 0 /\ dram.writes = 0
      /\ waiting = {} /\ clock = 0
      /\ last.write = FALSE /\ last.age = ReturnTime + TurnAround
  BY DEF Init, RqSlots, WqSlots
<1>2. Empty \in Entry /\ Empty.addr = NoAddr  BY DEF Empty, Entry
<1>3. IdleBank \in BankState /\ IdleBank.working = FALSE /\ IdleBank.avail = 0
  BY DEF IdleBank, BankState, Rows
<1>4. dram \in State
  <2>1. /\ [i \in RqSlots |-> Empty] \in [RqSlots -> Entry]
        /\ [i \in WqSlots |-> Empty] \in [WqSlots -> Entry]
        /\ [b \in Banks |-> IdleBank] \in [Banks -> BankState]
    BY <1>2, <1>3
  <2>2. dram = [rq |-> [i \in RqSlots |-> Empty], wq |-> [i \in WqSlots |-> Empty],
                bank |-> [b \in Banks |-> IdleBank],
                dbus |-> 0, write |-> FALSE, reads |-> 0, writes |-> 0]
    BY DEF Init, RqSlots, WqSlots
  <2> QED  BY <2>1, <2>2 DEF State
<1>5. Used(dram.rq) = {} /\ Used(dram.wq) = {}  BY <1>1, <1>2 DEF Used
<1>6. /\ Scheduled(dram.rq) = {} /\ Scheduled(dram.wq) = {}
      /\ Unscheduled(dram.rq) = {} /\ Unscheduled(dram.wq) = {}
      /\ Occupancy(dram.rq) = 0 /\ Occupancy(dram.wq) = 0
  BY <1>5, FS_EmptySet DEF Scheduled, Unscheduled, Occupancy
<1>7. \A b \in Banks : ~dram.bank[b].working /\ dram.bank[b].avail = 0  BY <1>1, <1>3
<1>8. Binding(dram)
  <2>1. Queue(dram.write) = "rq" /\ Queue(~dram.write) = "wq"  BY <1>1 DEF Queue
  <2> QED  BY <1>1, <1>6, <1>7, <2>1, FS_EmptySet DEF Binding, Bound
<1>9. Consistent(dram)  BY <1>4, <1>6, <1>8 DEF Consistent, Waited
<1>10. BusBounded(dram) /\ BusRemembers(dram, last)
  <2>1. ReturnTime + 4 * TurnAround >= 0 /\ ReturnTime + 3 * TurnAround >= 0
        /\ ReturnTime + TurnAround >= 0 /\ ReturnTime + TurnAround \in Nat
    BY BusConstants
  <2>2. BusBounded(dram)  BY <1>1, <2>1 DEF BusBounded
  <2>3. BusRemembers(dram, last)
    <3>1. last.write \in BOOLEAN /\ last.age \in Nat  BY <1>1, <2>1
    <3>2. ~(last.age < ReturnTime + TurnAround)  BY <1>1, <2>1
    <3> QED  BY <3>1, <3>2 DEF BusRemembers
  <2> QED  BY <2>2, <2>3
<1>11. BanksBounded(dram)  BY <1>7, BusConstants DEF BanksBounded, Latency
<1> QED  BY <1>1, <1>9, <1>10, <1>11 DEF DramInv

LEMMA ReadKeeps ==
  ASSUME DramInv, NEW a \in DataAddrs, NEW age \in {1, 2}, LlcRead(a, age)
  PROVE  DramInv'
<1>1. waiting' \subseteq DataAddrs /\ clock' \in {0, 1} /\ last' = last
  BY DEF DramInv, LlcRead
<1>2. CASE dram' = dram
  <2>1. DramInv  OBVIOUS
  <2> QED  BY <1>1, <1>2 DEF DramInv
<1>3. CASE Enqueue("rq", a, FALSE, 0 - age)
  <2>1. a \in Addrs /\ FALSE \in BOOLEAN /\ 0 - age \in Int /\ 0 - age <= 0  BY DEF Addrs
  <2>2. Occupancy(dram.rq) < RqSize  BY DEF LlcRead
  <2>3. dram' = AddRq(dram, a, FALSE, 0 - age)  BY <1>3 DEF Enqueue, AddRq
  <2>4. Consistent(dram') /\ BusBounded(dram') /\ BanksBounded(dram') /\ BusRemembers(dram', last)
    BY <2>1, <2>2, <2>3, Arrive_rq DEF DramInv
  <2> QED  BY <1>1, <2>4 DEF DramInv
<1> QED  BY <1>2, <1>3 DEF LlcRead

LEMMA PtwReadKeeps ==
  ASSUME DramInv, NEW a \in PtwAddrs, PtwRead(a)
  PROVE  DramInv'
<1>1. waiting' = waiting /\ clock' = clock /\ last' = last  BY DEF PtwRead
<1>2. CASE dram' = dram
  BY <1>1, <1>2 DEF DramInv
<1>3. CASE Enqueue("rq", a, TRUE, 0) /\ Occupancy(dram.rq) < RqSize
  <2>1. a \in Addrs /\ TRUE \in BOOLEAN /\ 0 \in Int /\ 0 <= 0  BY DEF Addrs
  <2>3. dram' = AddRq(dram, a, TRUE, 0)  BY <1>3 DEF Enqueue, AddRq
  <2>4. Consistent(dram') /\ BusBounded(dram') /\ BanksBounded(dram') /\ BusRemembers(dram', last)
    BY <1>3, <2>1, <2>3, Arrive_rq DEF DramInv
  <2> QED  BY <1>1, <2>4 DEF DramInv
<1> QED  BY <1>2, <1>3 DEF PtwRead

LEMMA WriteKeeps ==
  ASSUME DramInv, NEW a \in DataAddrs, LlcWrite(a)
  PROVE  DramInv'
<1>1. waiting' = waiting /\ clock' = clock /\ last' = last  BY DEF LlcWrite
<1>2. CASE dram' = dram
  BY <1>1, <1>2 DEF DramInv
<1>3. CASE Enqueue("wq", a, FALSE, -1)
  <2>1. a \in Addrs /\ FALSE \in BOOLEAN /\ -1 \in Int /\ -1 <= 0  BY DEF Addrs
  <2>2. Occupancy(dram.wq) < WqSize  BY DEF LlcWrite
  <2>3. dram' = AddWq(dram, a, FALSE, -1)  BY <1>3 DEF Enqueue, AddWq
  <2>4. Consistent(dram') /\ BusBounded(dram') /\ BanksBounded(dram') /\ BusRemembers(dram', last)
    BY <2>1, <2>2, <2>3, Arrive_wq DEF DramInv
  <2> QED  BY <1>1, <2>4 DEF DramInv
<1> QED  BY <1>2, <1>3 DEF LlcWrite

LEMMA OperateKeeps ==
  ASSUME DramInv, Operate
  PROVE  DramInv'
<1> DEFINE c == Schedule(SwitchMode(dram))
<1>1. /\ dram' = NextCycle(Process(c))
      /\ last' = IF Completes(c) THEN [write |-> c.write, age |-> 0]
                 ELSE [last EXCEPT !.age = IF @ > ReturnTime + TurnAround THEN @ ELSE @ + 1]
      /\ waiting' \subseteq waiting /\ clock' = 1 - clock
  BY DEF Operate, Cycle
<1>2. Consistent(dram') /\ BusBounded(dram') /\ BanksBounded(dram') /\ BusRemembers(dram', last')
  BY <1>1, OperateStep DEF DramInv
<1> QED  BY <1>1, <1>2 DEF DramInv

LEMMA NextInv == DramInv /\ [Next]_vars => DramInv'
<1> SUFFICES ASSUME DramInv, [Next]_vars PROVE DramInv'  OBVIOUS
<1>1. ASSUME NEW a \in DataAddrs, NEW age \in {1, 2}, LlcRead(a, age) PROVE DramInv'
  BY <1>1, ReadKeeps
<1>2. ASSUME NEW a \in PtwAddrs, PtwRead(a) PROVE DramInv'
  BY <1>2, PtwReadKeeps
<1>3. ASSUME NEW a \in DataAddrs, LlcWrite(a) PROVE DramInv'
  BY <1>3, WriteKeeps
<1>4. CASE FinishWarmup
  BY <1>4 DEF FinishWarmup, DramInv
<1>5. CASE Operate
  BY <1>5, OperateKeeps
<1>6. CASE UNCHANGED vars
  BY <1>6 DEF vars, DramInv
<1> QED  BY <1>1, <1>2, <1>3, <1>4, <1>5, <1>6 DEF Next

\* DramInv holds in every state that the controller and its clients reach.
THEOREM Inductive == Spec => []DramInv
BY InitInv, NextInv, PTL DEF Spec

-----------------------------------------------------------------------------
(* The properties of the controller. *)

LEMMA InvType == DramInv => TypeOK
<1> SUFFICES ASSUME DramInv PROVE TypeOK  OBVIOUS
<1>1. /\ dram \in State /\ Waited(dram.rq) /\ Waited(dram.wq) /\ Binding(dram)
      /\ BanksBounded(dram) /\ waiting \subseteq DataAddrs /\ clock \in {0, 1}
  BY DEF DramInv, Consistent
<1>2. /\ RqSize - 1 \in Nat /\ WqSize - 1 \in Nat
      /\ dram.rq \in [0 .. (RqSize - 1) -> Entry] /\ dram.wq \in [0 .. (WqSize - 1) -> Entry]
  BY <1>1, Sides
<1>3. ASSUME NEW n \in Nat, NEW q \in [0 .. n -> Entry], Waited(q)
      PROVE  /\ \A i \in DOMAIN q : LET e == q[i] IN
                  /\ e.addr \in Addrs \cup {NoAddr} /\ e.ptw \in BOOLEAN
                  /\ e.sched \in BOOLEAN /\ e.event \in Int
                  /\ e.addr # NoAddr /\ ~e.sched => e.event <= 0
             /\ Cardinality(Scheduled(q)) \in 0 .. (n + 1)
  <2>1. \A i \in DOMAIN q : q[i] \in Entry  OBVIOUS
  <2>2. \A i \in DOMAIN q : q[i].addr # NoAddr /\ ~q[i].sched => q[i].event <= 0
    BY <1>3 DEF Waited, Unscheduled, Used
  <2>3. IsFiniteSet(0 .. n) /\ Cardinality(0 .. n) = n + 1  BY SlotsFinite
  <2>4. Scheduled(q) \subseteq 0 .. n  BY DEF Scheduled, Used
  <2>5. Cardinality(Scheduled(q)) \in Nat /\ Cardinality(Scheduled(q)) <= n + 1
    BY <2>3, <2>4, FS_Subset, FS_CardinalityType
  <2> QED  BY <2>1, <2>2, <2>5 DEF Entry
<1>4. dram.reads \in 0 .. RqSize /\ dram.writes \in 0 .. WqSize
  <2>1. /\ Cardinality(Scheduled(dram.rq)) \in 0 .. ((RqSize - 1) + 1)
        /\ Cardinality(Scheduled(dram.wq)) \in 0 .. ((WqSize - 1) + 1)
    BY <1>1, <1>2, <1>3
  <2> QED  BY <1>1, <2>1, DramAssumption DEF Binding
<1>5. ASSUME NEW name \in {"rq", "wq"}
      PROVE  \A i \in DOMAIN dram[name] : LET e == dram[name][i] IN
               /\ e.addr \in Addrs \cup {NoAddr} /\ e.ptw \in BOOLEAN
               /\ e.sched \in BOOLEAN /\ e.event \in Int
               /\ e.addr # NoAddr /\ ~e.sched => e.event <= 0
  <2>1. CASE name = "rq"  BY <1>1, <1>2, <1>3, <2>1
  <2>2. CASE name = "wq"  BY <1>1, <1>2, <1>3, <2>2
  <2> QED  BY <2>1, <2>2
<1> QED  BY <1>1, <1>4, <1>5 DEF TypeOK, BanksBounded

\* Entries, bank times and counters keep their types: no bank is busy longer than an
\* access, a transfer and four turn-arounds, and no counter of scheduled requests
\* leaves its queue's size.
THEOREM TypeCorrect == Spec => []TypeOK
BY Inductive, InvType, PTL

\* A working bank serves the request that its request_index names, every scheduled
\* request owns its bank, and scheduled_reads and scheduled_writes count them: what
\* process() and reset_remain_requests() assert.
THEOREM BankBindingCorrect == Spec => []BankBinding
<1>1. ASSUME DramInv PROVE BankBinding
  <2>1. dram \in State /\ Binding(dram)  BY <1>1 DEF DramInv, Consistent
  <2>2. dram.write \in BOOLEAN  BY <2>1, Sides
  <2> QED  BY <2>1, <2>2 DEF BankBinding, Binding, Bound, Kind
<1> QED  BY <1>1, Inductive, PTL

\* A step that is no operate() starts no transfer, and one that is starts it only
\* when the last transfer, and the turn-around, are over.
LEMMA StepRespects ==
  DramInv /\ [Next]_vars =>
    [TransferStarts =>
       /\ last.age + 1 >= ReturnTime
       /\ last'.write # last.write => last.age + 1 >= ReturnTime + TurnAround]_vars
<1> SUFFICES ASSUME DramInv, [Next]_vars, clock' # clock, last'.age = 0
             PROVE  /\ last.age + 1 >= ReturnTime
                    /\ last'.write # last.write => last.age + 1 >= ReturnTime + TurnAround
  BY DEF TransferStarts
<1>1. Operate
  BY DEF Next, vars, LlcRead, PtwRead, LlcWrite, FinishWarmup
<1> DEFINE c == Schedule(SwitchMode(dram))
<1>2. last' = IF Completes(c) THEN [write |-> c.write, age |-> 0]
              ELSE [last EXCEPT !.age = IF @ > ReturnTime + TurnAround THEN @ ELSE @ + 1]
  BY <1>1 DEF Operate
<1>3. /\ Consistent(dram) /\ BusBounded(dram) /\ BanksBounded(dram) /\ BusRemembers(dram, last)
  BY DEF DramInv
<1> DEFINE m == IF Completes(c) THEN [write |-> c.write, age |-> 0]
                ELSE [last EXCEPT !.age = IF @ > ReturnTime + TurnAround THEN @ ELSE @ + 1]
<1>4. m.age = 0 => /\ last.age + 1 >= ReturnTime
                   /\ m.write # last.write => last.age + 1 >= ReturnTime + TurnAround
  BY <1>3, OperateStep
<1>5. last' = m  BY <1>2
<1> QED  BY <1>4, <1>5

\* Transfers never overlap on the data bus, and one of the other direction waits for
\* the turn-around, through every change of mode.
THEOREM BusRespectedCorrect == Spec => BusRespected
BY Inductive, StepRespects, PTL DEF Spec, BusRespected

-----------------------------------------------------------------------------
(* The reads that the LLC waits for.  A page-table line must not be a data line *)
(* too: DramController_ptwmerge shows what is lost otherwise.                   *)

LEMMA AwaitedSame ==
  ASSUME NEW d, NEW e, NEW w, SameRequests(d.rq, e.rq), SameRequests(d.wq, e.wq), Awaited(d, w)
  PROVE  Awaited(e, w)
<1>1. Used(e.rq) = Used(d.rq) /\ Used(e.wq) = Used(d.wq)  BY SameUsed
<1>2. \A i \in Used(d.rq) : e.rq[i].addr = d.rq[i].addr /\ e.rq[i].ptw = d.rq[i].ptw
  BY DEF SameRequests, Used
<1>3. \A i \in Used(d.wq) : e.wq[i].addr = d.wq[i].addr
  BY DEF SameRequests, Used
<1>4. Distinct(e.rq) /\ Distinct(e.wq)  BY <1>1, <1>2, <1>3 DEF Awaited, Distinct
<1>5. {i \in Used(e.rq) : ~e.rq[i].ptw} = {i \in Used(d.rq) : ~d.rq[i].ptw}  BY <1>1, <1>2
<1>6. {e.rq[i].addr : i \in {j \in Used(e.rq) : ~e.rq[j].ptw}}
        = {d.rq[i].addr : i \in {j \in Used(d.rq) : ~d.rq[j].ptw}}
  BY <1>2, <1>5
<1> QED  BY <1>1, <1>2, <1>4, <1>6 DEF Awaited

\* The request that a transfer completes is the only one of its block, so exactly its
\* miss is answered.
LEMMA AwaitedTransfer ==
  ASSUME NEW c, Consistent(c), NEW p, Transfer(c, p), NEW w, Awaited(c, w)
  PROVE  LET x == c[Queue(c.write)][NextProcess(c[Queue(c.write)])]
         IN Awaited(p, IF ~c.write /\ ~x.ptw THEN w \ {x.addr} ELSE w)
<1>1. c \in State  BY DEF Consistent
<1>2. /\ c.rq \in [0 .. (RqSize - 1) -> Entry] /\ c.wq \in [0 .. (WqSize - 1) -> Entry]
      /\ c.write \in BOOLEAN
      /\ c.write => Queue(c.write) = "wq" /\ Queue(~c.write) = "rq"
      /\ ~c.write => Queue(c.write) = "rq" /\ Queue(~c.write) = "wq"
  BY <1>1, Sides
<1>3. Empty.addr = NoAddr  BY DEF Empty
<1>4. ASSUME NEW q, NEW i \in Used(q)
      PROVE  /\ Used([q EXCEPT ![i] = Empty]) = Used(q) \ {i}
             /\ \A j \in Used(q) \ {i} : [q EXCEPT ![i] = Empty][j] = q[j]
  BY <1>3 DEF Used
<1>5. CASE c.write
  <2> DEFINE i == NextProcess(c.wq)
  <2>1. i \in Used(c.wq) /\ p.wq = [c.wq EXCEPT ![i] = Empty] /\ p.rq = c.rq
    BY <1>2, <1>5 DEF Transfer, Scheduled
  <2> HIDE DEF i
  <2>2. Distinct(p.wq)  BY <1>4, <2>1 DEF Awaited, Distinct
  <2>3. Awaited(p, w)  BY <2>1, <2>2 DEF Awaited
  <2> QED  BY <1>5, <2>3
<1>6. CASE ~c.write
  <2> DEFINE i == NextProcess(c.rq)
             x == c.rq[i]
             Data(q) == {j \in Used(q) : ~q[j].ptw}
  <2>1. i \in Used(c.rq) /\ p.rq = [c.rq EXCEPT ![i] = Empty] /\ p.wq = c.wq
    BY <1>2, <1>6 DEF Transfer, Scheduled
  <2>2. c[Queue(c.write)][NextProcess(c[Queue(c.write)])] = x  BY <1>2, <1>6
  <2> HIDE DEF i
  <2>3. /\ Used(p.rq) = Used(c.rq) \ {i}
        /\ \A j \in Used(c.rq) \ {i} : p.rq[j] = c.rq[j]
    BY <1>4, <2>1
  <2>4. Distinct(p.rq) /\ Distinct(p.wq)  BY <2>1, <2>3 DEF Awaited, Distinct
  <2>5. Data(p.rq) = Data(c.rq) \ {i}  BY <2>3
  <2>6. \A j \in Data(c.rq) \ {i} : p.rq[j].addr = c.rq[j].addr /\ c.rq[j].addr # x.addr
    BY <2>1, <2>3 DEF Awaited, Distinct
  <2>7. {p.rq[j].addr : j \in Data(p.rq)} = {c.rq[j].addr : j \in Data(c.rq) \ {i}}
    BY <2>5, <2>6
  <2>8. w = {c.rq[j].addr : j \in Data(c.rq)}  BY DEF Awaited
  <2>9. CASE x.ptw
    <3>1. i \notin Data(c.rq)  BY <2>9
    <3>2. w = {p.rq[j].addr : j \in Data(p.rq)}  BY <2>7, <2>8, <3>1
    <3>3. Awaited(p, w)  BY <2>3, <2>4, <3>2 DEF Awaited
    <3> QED  BY <2>2, <2>9, <3>3
  <2>10. CASE ~x.ptw
    <3>1. i \in Data(c.rq)  BY <2>1, <2>10
    <3>2. w \ {x.addr} = {c.rq[j].addr : j \in Data(c.rq) \ {i}}
      BY <2>6, <2>8, <3>1
    <3>3. Awaited(p, w \ {x.addr})  BY <2>3, <2>4, <2>7, <3>2 DEF Awaited
    <3> QED  BY <1>6, <2>2, <2>10, <3>3
  <2> QED  BY <2>9, <2>10
<1> QED  BY <1>2, <1>5, <1>6

LEMMA AwaitedOperate ==
  ASSUME DramInv, Awaited(dram, waiting), Operate
  PROVE  Awaited(dram', waiting')
<1> DEFINE b == SwitchMode(dram)
           c == Schedule(b)
           p == Process(c)
           x == c[Queue(c.write)][NextProcess(c[Queue(c.write)])]
<1>1. /\ dram' = NextCycle(p)
      /\ waiting' = IF Completes(c) /\ ~c.write /\ ~x.ptw THEN waiting \ {x.addr} ELSE waiting
  BY DEF Operate
<1>2. Consistent(b) /\ SameRequests(dram.rq, b.rq) /\ SameRequests(dram.wq, b.wq)
  BY SwitchStep DEF DramInv
<1> HIDE DEF b
<1>3. Consistent(c) /\ SameRequests(b.rq, c.rq) /\ SameRequests(b.wq, c.wq)
  BY <1>2, ScheduleStep
<1> HIDE DEF c
<1>4. /\ Consistent(p)
      /\ IF Completes(c) THEN Transfer(c, p)
         ELSE SameRequests(c.rq, p.rq) /\ SameRequests(c.wq, p.wq)
  BY <1>3, ProcessStep
<1> HIDE DEF p
<1>5. SameRequests(p.rq, dram'.rq) /\ SameRequests(p.wq, dram'.wq)
  BY <1>1, <1>4, NextCycleStep
<1>6. Awaited(c, waiting)
  <2>1. Awaited(b, waiting)  BY <1>2, AwaitedSame
  <2> QED  BY <1>3, <2>1, AwaitedSame
<1>7. Awaited(p, waiting')
  <2>1. CASE Completes(c)
    <3>1. Awaited(p, IF ~c.write /\ ~x.ptw THEN waiting \ {x.addr} ELSE waiting)
      BY <1>3, <1>4, <1>6, <2>1, AwaitedTransfer
    <3> QED  BY <1>1, <2>1, <3>1
  <2>2. CASE ~Completes(c)
    <3>1. Awaited(p, waiting)  BY <1>4, <1>6, <2>2, AwaitedSame
    <3> QED  BY <1>1, <2>2, <3>1
  <2> QED  BY <2>1, <2>2
<1> QED  BY <1>5, <1>7, AwaitedSame

\* A new request of an address that its queue does not know.
LEMMA DistinctGrows ==
  ASSUME NEW q, NEW r, NEW i, i \notin Used(q), Used(r) = Used(q) \cup {i},
         \A j \in Used(q) : r[j] = q[j], Find(q, r[i].addr) = {}, Distinct(q)
  PROVE  Distinct(r)
<1>1. \A j \in Used(q) : q[j].addr # r[i].addr  BY DEF Find, Used
<1> QED  BY <1>1 DEF Distinct

LEMMA AwaitedRead ==
  ASSUME DataAddrs \cap PtwAddrs = {}, DramInv, Awaited(dram, waiting),
         NEW a \in DataAddrs, NEW age \in {1, 2}, LlcRead(a, age)
  PROVE  Awaited(dram', waiting')
<1> DEFINE Data(q) == {j \in Used(q) : ~q[j].ptw}
<1>1. a \notin waiting  BY DEF LlcRead
<1>2. CASE UNCHANGED <<dram, waiting>>  BY <1>2
<1>3. CASE /\ warm /\ Find(dram.wq, a) = {} /\ Find(dram.rq, a) # {}
           /\ waiting' = waiting \cup {a} /\ UNCHANGED dram
  <2>1. a # NoAddr  BY DramAssumption DEF Addrs
  <2>2. PICK i \in Used(dram.rq) : dram.rq[i].addr = a  BY <1>3, <2>1 DEF Find, Used
  <2>3. ~dram.rq[i].ptw  BY <2>2 DEF Awaited
  <2>4. a \in waiting  BY <2>2, <2>3 DEF Awaited
  <2> QED  BY <1>1, <2>4
<1>4. CASE /\ warm /\ Find(dram.wq, a) = {} /\ Find(dram.rq, a) = {}
           /\ waiting' = waiting \cup {a} /\ Enqueue("rq", a, FALSE, 0 - age)
  <2> DEFINE i == FreeSlot(dram.rq)
             ptw == FALSE
             e == AddRq(dram, a, ptw, 0 - age)
  <2>1. a \in Addrs /\ ptw \in BOOLEAN /\ 0 - age \in Int /\ 0 - age <= 0  BY DEF Addrs
  <2>2. Occupancy(dram.rq) < RqSize  BY DEF LlcRead
  <2>3. dram' = e  BY <1>4 DEF Enqueue, AddRq, AddWq
  <2> HIDE DEF ptw
  <2>4. Consistent(dram)  BY DEF DramInv
  <2>5. /\ e.wq = dram.wq /\ i \in RqSlots /\ i \notin Used(dram.rq)
        /\ Used(e.rq) = Used(dram.rq) \cup {i} /\ e.rq[i].addr = a /\ e.rq[i].ptw = ptw
        /\ \A j \in RqSlots : j # i => e.rq[j] = dram.rq[j]
    BY <2>1, <2>2, <2>4, Enqueue_rq
  <2> HIDE DEF e, i
  <2>6. \A j \in Used(dram.rq) : e.rq[j] = dram.rq[j]
    <3>1. dram.rq \in [RqSlots -> Entry]  BY <2>4 DEF Consistent, State
    <3> QED  BY <2>5, <3>1 DEF Used
  <2>7. Distinct(e.rq) /\ Distinct(e.wq)
    BY <1>4, <2>5, <2>6, DistinctGrows DEF Awaited
  <2>8. Data(e.rq) = Data(dram.rq) \cup {i}  BY <2>5, <2>6 DEF ptw
  <2>9. {e.rq[j].addr : j \in Data(e.rq)} = {dram.rq[j].addr : j \in Data(dram.rq)} \cup {a}
    BY <2>5, <2>6, <2>8
  <2>10. \A j \in Used(e.rq) : e.rq[j].ptw <=> e.rq[j].addr \in PtwAddrs
    BY <2>5, <2>6 DEF Awaited, ptw
  <2>11. Awaited(e, waiting \cup {a})  BY <2>7, <2>9, <2>10 DEF Awaited
  <2> QED  BY <1>4, <2>3, <2>11
<1> QED  BY <1>2, <1>3, <1>4 DEF LlcRead

LEMMA AwaitedPtwRead ==
  ASSUME DramInv, Awaited(dram, waiting), NEW a \in PtwAddrs, PtwRead(a)
  PROVE  Awaited(dram', waiting')
<1> DEFINE Data(q) == {j \in Used(q) : ~q[j].ptw}
<1>1. waiting' = waiting  BY DEF PtwRead
<1>2. CASE UNCHANGED dram  BY <1>1, <1>2
<1>3. CASE /\ Occupancy(dram.rq) < RqSize /\ Find(dram.rq, a) = {} /\ Enqueue("rq", a, TRUE, 0)
  <2> DEFINE i == FreeSlot(dram.rq)
             ptw == TRUE
             e == AddRq(dram, a, ptw, 0)
  <2>1. a \in Addrs /\ ptw \in BOOLEAN /\ 0 \in Int /\ 0 <= 0  BY DEF Addrs
  <2>3. dram' = e  BY <1>3 DEF Enqueue, AddRq, AddWq
  <2> HIDE DEF ptw
  <2>4. Consistent(dram)  BY DEF DramInv
  <2>5. /\ e.wq = dram.wq /\ i \in RqSlots /\ i \notin Used(dram.rq)
        /\ Used(e.rq) = Used(dram.rq) \cup {i} /\ e.rq[i].addr = a /\ e.rq[i].ptw = ptw
        /\ \A j \in RqSlots : j # i => e.rq[j] = dram.rq[j]
    BY <1>3, <2>1, <2>4, Enqueue_rq
  <2> HIDE DEF e, i
  <2>6. \A j \in Used(dram.rq) : e.rq[j] = dram.rq[j]
    <3>1. dram.rq \in [RqSlots -> Entry]  BY <2>4 DEF Consistent, State
    <3> QED  BY <2>5, <3>1 DEF Used
  <2>7. Distinct(e.rq) /\ Distinct(e.wq)
    BY <1>3, <2>5, <2>6, DistinctGrows DEF Awaited
  <2>8. Data(e.rq) = Data(dram.rq)  BY <2>5, <2>6 DEF ptw
  <2>9. {e.rq[j].addr : j \in Data(e.rq)} = {dram.rq[j].addr : j \in Data(dram.rq)}
    BY <2>5, <2>6, <2>8
  <2>10. \A j \in Used(e.rq) : e.rq[j].ptw <=> e.rq[j].addr \in PtwAddrs
    BY <2>5, <2>6 DEF Awaited, ptw
  <2>11. Awaited(e, waiting)  BY <2>7, <2>9, <2>10 DEF Awaited
  <2> QED  BY <1>1, <2>3, <2>11
<1> QED  BY <1>2, <1>3 DEF PtwRead

LEMMA AwaitedWrite ==
  ASSUME DramInv, Awaited(dram, waiting), NEW a \in DataAddrs, LlcWrite(a)
  PROVE  Awaited(dram', waiting')
<1>1. waiting' = waiting  BY DEF LlcWrite
<1>2. CASE UNCHANGED dram  BY <1>1, <1>2
<1>3. CASE Find(dram.wq, a) = {} /\ Enqueue("wq", a, FALSE, -1)
  <2> DEFINE i == FreeSlot(dram.wq)
             ptw == FALSE
             e == AddWq(dram, a, ptw, -1)
  <2>1. a \in Addrs /\ ptw \in BOOLEAN /\ -1 \in Int /\ -1 <= 0  BY DEF Addrs
  <2>2. Occupancy(dram.wq) < WqSize  BY DEF LlcWrite
  <2>3. dram' = e  BY <1>3 DEF Enqueue, AddRq, AddWq
  <2> HIDE DEF ptw
  <2>4. Consistent(dram)  BY DEF DramInv
  <2>5. /\ e.rq = dram.rq /\ i \in WqSlots /\ i \notin Used(dram.wq)
        /\ Used(e.wq) = Used(dram.wq) \cup {i} /\ e.wq[i].addr = a
        /\ \A j \in WqSlots : j # i => e.wq[j] = dram.wq[j]
    BY <2>1, <2>2, <2>4, Enqueue_wq
  <2> HIDE DEF e, i
  <2>6. \A j \in Used(dram.wq) : e.wq[j] = dram.wq[j]
    <3>1. dram.wq \in [WqSlots -> Entry]  BY <2>4 DEF Consistent, State
    <3> QED  BY <2>5, <3>1 DEF Used
  <2>7. Distinct(e.wq)  BY <1>3, <2>5, <2>6, DistinctGrows DEF Awaited
  <2>8. Awaited(e, waiting)  BY <2>5, <2>7 DEF Awaited
  <2> QED  BY <1>1, <2>3, <2>8
<1> QED  BY <1>2, <1>3 DEF LlcWrite

\* The invariant of the waiting reads, when no page-table line is a data line.
LEMMA AwaitedAlways ==
  ASSUME DataAddrs \cap PtwAddrs = {}
  PROVE  Spec => [](DramInv /\ Awaited(dram, waiting))
<1> DEFINE Inv == DramInv /\ Awaited(dram, waiting)
<1>1. Init => Inv
  <2> SUFFICES ASSUME Init PROVE Awaited(dram, waiting)  BY InitInv
  <2>1. Used(dram.rq) = {} /\ Used(dram.wq) = {} /\ waiting = {}
    BY DEF Init, Used, Empty
  <2> QED  BY <2>1 DEF Awaited, Distinct
<1>2. Inv /\ [Next]_vars => Inv'
  <2> SUFFICES ASSUME Inv, [Next]_vars PROVE Awaited(dram', waiting')  BY NextInv
  <2>1. ASSUME NEW a \in DataAddrs, NEW age \in {1, 2}, LlcRead(a, age)
        PROVE Awaited(dram', waiting')
    BY <2>1, AwaitedRead
  <2>2. ASSUME NEW a \in PtwAddrs, PtwRead(a) PROVE Awaited(dram', waiting')
    BY <2>2, AwaitedPtwRead
  <2>3. ASSUME NEW a \in DataAddrs, LlcWrite(a) PROVE Awaited(dram', waiting')
    BY <2>3, AwaitedWrite
  <2>4. CASE FinishWarmup  BY <2>4 DEF FinishWarmup
  <2>5. CASE Operate  BY <2>5, AwaitedOperate
  <2>6. CASE UNCHANGED vars  BY <2>6 DEF vars
  <2> QED  BY <2>1, <2>2, <2>3, <2>4, <2>5, <2>6 DEF Next
<1> QED  BY <1>1, <1>2, PTL DEF Spec

\* When no page-table line is a data line, every miss of the LLC has exactly one
\* request in the read queue that will return to it, and every such request has its
\* miss; no queue holds a block twice.
THEOREM ReadsAwaitedCorrect ==
  ASSUME DataAddrs \cap PtwAddrs = {}
  PROVE  Spec => []ReadsAwaited
<1>1. DramInv /\ Awaited(dram, waiting) => ReadsAwaited
  BY DEF Awaited, Distinct, ReadsAwaited
<1> QED  BY <1>1, AwaitedAlways, PTL

-----------------------------------------------------------------------------
(* The controller does not idle. *)

\* Nothing under way takes longer than a row miss.
Soon(q) == \A i \in Scheduled(q) : q[i].event <= RowMissCycles + CasCycles
BothSoon(d) == Soon(d.rq) /\ Soon(d.wq)

\* A change of mode leaves nothing under way in either queue.
LEMMA SwitchSoon ==
  ASSUME NEW d, Consistent(d), BothSoon(d)
  PROVE  BothSoon(SwitchMode(d))
<1> DEFINE e == SwitchMode(d)
<1>1. d \in State /\ Binding(d)  BY DEF Consistent
<1>2. CASE ~(EnterWrite(d) \/ LeaveWrite(d))  BY <1>2 DEF SwitchMode
<1>3. CASE EnterWrite(d) \/ LeaveWrite(d)
  <2>1. Consistent(e) /\ e.write = ~d.write  BY <1>3, SwitchStep
  <2>2. d.write \in BOOLEAN  BY <1>1, Sides
  <2>3. CASE ~d.write
    <3>1. e.wq = d.wq  BY <1>1, <1>3, <2>3 DEF SwitchMode, Reset, State, Queue
    <3> HIDE DEF e
    <3>2. Scheduled(d.wq) = {}  BY <1>1, <2>3 DEF Binding, Queue
    <3>3. Scheduled(e.rq) = {}  BY <2>1, <2>3 DEF Consistent, Binding, Queue
    <3>4. BothSoon(e)  BY <3>1, <3>2, <3>3 DEF BothSoon, Soon
    <3> QED  BY <3>4 DEF e
  <2>4. CASE d.write
    <3>1. e.rq = d.rq  BY <1>1, <1>3, <2>4 DEF SwitchMode, Reset, State, Queue
    <3> HIDE DEF e
    <3>2. Scheduled(d.rq) = {}  BY <1>1, <2>4 DEF Binding, Queue
    <3>3. Scheduled(e.wq) = {}  BY <2>1, <2>4 DEF Consistent, Binding, Queue
    <3>4. BothSoon(e)  BY <3>1, <3>2, <3>3 DEF BothSoon, Soon
    <3> QED  BY <3>4 DEF e
  <2> QED  BY <2>2, <2>3, <2>4
<1> QED  BY <1>2, <1>3

\* One request more is under way.
LEMMA SoonStarted ==
  ASSUME NEW n \in Nat, NEW q \in [0 .. n -> Entry], Soon(q), NEW i \in Used(q),
         NEW latency \in 0 .. (RowMissCycles + CasCycles)
  PROVE  Soon(ScheduleEntry(q, i, latency))
<1> DEFINE r == ScheduleEntry(q, i, latency)
<1>0. i \in 0 .. n /\ latency \in Int /\ latency <= RowMissCycles + CasCycles
  BY BusConstants DEF Used
<1>1. /\ r = [q EXCEPT ![i] = [q[i] EXCEPT !.sched = TRUE, !.event = latency]]
  BY <1>0 DEF ScheduleEntry
<1>2. /\ DOMAIN r = 0 .. n /\ \A j \in 0 .. n : j # i => r[j] = q[j]
      /\ r[i].event = latency
  BY <1>0, <1>1 DEF Entry
<1> HIDE DEF r
<1>3. ASSUME NEW j \in Scheduled(r) PROVE r[j].event <= RowMissCycles + CasCycles
  <2>1. CASE j = i  BY <1>0, <1>2, <2>1
  <2>2. CASE j # i
    <3>1. j \in Scheduled(q) /\ r[j] = q[j]  BY <1>2, <1>3, <2>2 DEF Scheduled, Used
    <3> QED  BY <3>1 DEF Soon
  <2> QED  BY <2>1, <2>2
<1> QED  BY <1>3 DEF Soon, r

\* What schedule does to the queues and to the counters.
LEMMA ScheduleCounts ==
  ASSUME NEW d, Consistent(d), BothSoon(d)
  PROVE  LET e == Schedule(d)
         IN /\ BothSoon(e)
            /\ IF Schedulable(d, d[Queue(d.write)]) = {} THEN e = d
               ELSE IF d.write THEN e.writes = d.writes + 1 ELSE e.reads = d.reads + 1
<1> DEFINE e == Schedule(d)
           q == d[Queue(d.write)]
           hit == RowHits(d, q) # {}
           i == Oldest(q, IF hit THEN RowHits(d, q) ELSE Schedulable(d, q))
           latency == IF hit THEN CasCycles ELSE RowMissCycles + CasCycles
           x == ScheduleEntry(q, i, latency)
<1>1. d \in State  BY DEF Consistent
<1>0. /\ RqSize - 1 \in Nat /\ WqSize - 1 \in Nat
      /\ d.rq \in [0 .. (RqSize - 1) -> Entry] /\ d.wq \in [0 .. (WqSize - 1) -> Entry]
      /\ d.write \in BOOLEAN /\ d.reads \in Int /\ d.writes \in Int
      /\ d.write => Queue(d.write) = "wq"
      /\ ~d.write => Queue(d.write) = "rq"
  BY <1>1, Sides
<1>2. CASE Schedulable(d, q) = {}  BY <1>2 DEF Schedule
<1>3. CASE Schedulable(d, q) # {}
  <2>1. /\ e.rq = IF d.write THEN d.rq ELSE x
        /\ e.wq = IF d.write THEN x ELSE d.wq
        /\ e.reads = IF d.write THEN d.reads ELSE d.reads + 1
        /\ e.writes = IF d.write THEN d.writes + 1 ELSE d.writes
    <3>1. e = [d EXCEPT ![Queue(d.write)][i].sched = TRUE,
                        ![Queue(d.write)][i].event = latency,
                        !.bank[BankOf[q[i].addr]] =
                           [working |-> TRUE, index |-> i, avail |-> latency,
                            row |-> RowOf[q[i].addr],
                            kind |-> IF d.write THEN "write" ELSE "read"],
                        !.reads = IF d.write THEN @ ELSE @ + 1,
                        !.writes = IF d.write THEN @ + 1 ELSE @]
      BY <1>3 DEF Schedule
    <3> HIDE DEF e, i, latency
    <3>2. CASE d.write
      <4>1. Queue(d.write) = "wq" /\ q = d.wq  BY <1>0, <3>2
      <4> QED  BY <1>1, <3>1, <3>2, <4>1 DEF State, ScheduleEntry
    <3>3. CASE ~d.write
      <4>1. Queue(d.write) = "rq" /\ q = d.rq  BY <1>0, <3>3
      <4> QED  BY <1>1, <3>1, <3>3, <4>1 DEF State, ScheduleEntry
    <3> QED  BY <1>0, <3>2, <3>3
  <2>2. i \in Used(q)
    <3>1. IsQueue(q)  BY <1>0 DEF IsQueue
    <3>2. Schedulable(d, q) \subseteq Used(q) /\ RowHits(d, q) \subseteq Schedulable(d, q)
      BY DEF Schedulable, RowHits, Unscheduled
    <3>3. Used(q) \subseteq DOMAIN q  BY DEF Used
    <3> DEFINE S == IF hit THEN RowHits(d, q) ELSE Schedulable(d, q)
    <3>4. S \in SUBSET DOMAIN q /\ S # {}  BY <1>3, <3>2, <3>3
    <3> HIDE DEF S
    <3>5. Oldest(q, S) \in S  BY <3>1, <3>4, OldestElement
    <3> QED  BY <3>2, <3>5 DEF S
  <2>3. latency \in 0 .. (RowMissCycles + CasCycles)  BY BusConstants
  <2> HIDE DEF e, i, latency
  <2>4. BothSoon(e)
    <3>1. CASE d.write
      <4>1. q = d.wq  BY <1>0, <3>1
      <4>2. Soon(x)  BY <1>0, <2>2, <2>3, <4>1, SoonStarted DEF BothSoon
      <4> QED  BY <2>1, <3>1, <4>2 DEF BothSoon
    <3>2. CASE ~d.write
      <4>1. q = d.rq  BY <1>0, <3>2
      <4>2. Soon(x)  BY <1>0, <2>2, <2>3, <4>1, SoonStarted DEF BothSoon
      <4> QED  BY <2>1, <3>2, <4>2 DEF BothSoon
    <3> QED  BY <3>1, <3>2
  <2> QED  BY <1>3, <2>1, <2>4 DEF e
<1> QED  BY <1>2, <1>3

\* Without a transfer, process touches no request and no counter.
LEMMA ProcessCounts ==
  ASSUME NEW d, Consistent(d), BothSoon(d)
  PROVE  LET e == Process(d)
         IN /\ BothSoon(e)
            /\ ~Completes(d) => /\ e.rq = d.rq /\ e.wq = d.wq
                                /\ e.reads = d.reads /\ e.writes = d.writes
<1> DEFINE e == Process(d)
<1>1. d \in State  BY DEF Consistent
<1>2. CASE ~Completes(d)
  <2>1. e.rq = d.rq /\ e.wq = d.wq /\ e.reads = d.reads /\ e.writes = d.writes
    BY <1>1, <1>2 DEF Process, Completes, State
  <2> HIDE DEF e
  <2>2. BothSoon(e)  BY <2>1 DEF BothSoon
  <2> QED  BY <2>1, <2>2 DEF e
<1>3. CASE Completes(d)
  <2>1. Transfer(d, e)  BY <1>3, ProcessStep
  <2> HIDE DEF e
  <2>2. ASSUME NEW q, NEW i, Soon(q) PROVE Soon([q EXCEPT ![i] = Empty])
    <3> DEFINE r == [q EXCEPT ![i] = Empty]
    <3>1. \A j \in Used(r) : j \in Used(q) /\ j # i /\ r[j] = q[j]  BY DEF Used, Empty
    <3> QED  BY <2>2, <3>1 DEF Soon, Scheduled
  <2>3. Soon(d[Queue(d.write)]) /\ Soon(d[Queue(~d.write)])
    BY DEF BothSoon, Queue
  <2>4. Soon(e[Queue(d.write)]) /\ Soon(e[Queue(~d.write)])
    BY <2>1, <2>2, <2>3 DEF Transfer
  <2>5. BothSoon(e)  BY <1>1, <2>4, Sides DEF BothSoon
  <2> QED  BY <1>3, <2>5 DEF e
<1> QED  BY <1>2, <1>3

\* A cycle brings what is under way one cycle nearer.
LEMMA Nearer ==
  ASSUME NEW n \in Nat, NEW q \in [0 .. n -> Entry], Waited(q)
  PROVE  /\ Scheduled(Renumber(q)) = Scheduled(q) /\ Used(Renumber(q)) = Used(q)
         /\ \A i \in Scheduled(q) : \/ Renumber(q)[i].event <= 0
                                    \/ Renumber(q)[i].event = q[i].event - 1
<1> DEFINE r == Renumber(q)
<1>1. r \in [0 .. n -> Entry] /\ SameRequests(q, r) /\ \A i \in 0 .. n : r[i].sched = q[i].sched
  BY RenumberQueue
<1>2. Used(r) = Used(q) /\ Used(q) \subseteq 0 .. n  BY <1>1, SameUsed DEF Used
<1>3. Scheduled(r) = Scheduled(q)  BY <1>1, <1>2 DEF Scheduled
<1>4. ASSUME NEW i \in Scheduled(q) PROVE r[i].event <= 0 \/ r[i].event = q[i].event - 1
  <2>1. i \in Used(q) /\ i \in 0 .. n /\ q[i] \in Entry  BY <1>2 DEF Scheduled
  <2>2. CASE i \in Past(q)
    <3>1. r[i].event = 0 - Recency(q, i)
      BY <2>1, <2>2 DEF Renumber, Entry
    <3>2. Recency(q, i) \in Nat  BY <2>1, RecencyType
    <3> QED  BY <3>1, <3>2
  <2>3. CASE i \notin Past(q)
    <3>1. r[i] = [q[i] EXCEPT !.event = @ - 1]  BY <2>1, <2>3 DEF Renumber
    <3> QED  BY <2>1, <3>1 DEF Entry
  <2> QED  BY <2>2, <2>3
<1> QED  BY <1>2, <1>3, <1>4

LEMMA NextCycleCounts ==
  ASSUME NEW d, Consistent(d), BothSoon(d)
  PROVE  LET e == NextCycle(d)
         IN /\ BothSoon(e) /\ e.reads = d.reads /\ e.writes = d.writes
            /\ e.rq = Renumber(d.rq) /\ e.wq = Renumber(d.wq)
            /\ \A b \in Banks : e.bank[b].avail = Later(d.bank[b].avail, 0)
<1> DEFINE e == NextCycle(d)
<1>1. d \in State /\ Waited(d.rq) /\ Waited(d.wq)  BY DEF Consistent
<1>2. /\ RqSize - 1 \in Nat /\ WqSize - 1 \in Nat /\ d.bank \in [Banks -> BankState]
      /\ d.rq \in [0 .. (RqSize - 1) -> Entry] /\ d.wq \in [0 .. (WqSize - 1) -> Entry]
  BY <1>1, Sides
<1>3. /\ e.reads = d.reads /\ e.writes = d.writes
      /\ e.rq = Renumber(d.rq) /\ e.wq = Renumber(d.wq)
      /\ e.bank = [b \in Banks |-> [d.bank[b] EXCEPT !.avail = Later(d.bank[b].avail, 0)]]
  BY <1>1 DEF NextCycle, State
<1> HIDE DEF e
<1>4. \A b \in Banks : e.bank[b].avail = Later(d.bank[b].avail, 0)
  BY <1>2, <1>3 DEF BankState
<1>5. ASSUME NEW n \in Nat, NEW q \in [0 .. n -> Entry], Waited(q), Soon(q)
      PROVE  Soon(Renumber(q))
  <2>1. \A i \in Scheduled(q) : q[i].event \in Int  BY DEF Scheduled, Used, Entry
  <2>2. ASSUME NEW i \in Scheduled(q) PROVE Renumber(q)[i].event <= RowMissCycles + CasCycles
    <3>1. Renumber(q)[i].event <= 0 \/ Renumber(q)[i].event = q[i].event - 1
      BY <1>5, Nearer
    <3>2. Renumber(q)[i].event \in Int
      <4>1. Renumber(q) \in [0 .. n -> Entry]  BY <1>5, RenumberQueue
      <4> QED  BY <4>1 DEF Entry, Scheduled, Used
    <3>3. q[i].event \in Int /\ q[i].event <= RowMissCycles + CasCycles
      BY <1>5, <2>1 DEF Soon
    <3> QED  BY <3>1, <3>2, <3>3, BusConstants
  <2>3. Scheduled(Renumber(q)) = Scheduled(q)  BY <1>5, Nearer
  <2> QED  BY <2>2, <2>3 DEF Soon
<1>6. BothSoon(e)  BY <1>1, <1>2, <1>3, <1>5 DEF BothSoon
<1> QED  BY <1>3, <1>4, <1>6 DEF e

\* The counters say how much is left to schedule.
LEMMA UnstartedCount ==
  ASSUME NEW d, Consistent(d)
  PROVE  Unstarted(d) = IF d.write THEN Occupancy(d.wq) - d.writes
                                   ELSE Occupancy(d.rq) - d.reads
<1>1. d \in State /\ Binding(d)  BY DEF Consistent
<1>2. /\ RqSize - 1 \in Nat /\ WqSize - 1 \in Nat /\ d.write \in BOOLEAN
      /\ d.rq \in [0 .. (RqSize - 1) -> Entry] /\ d.wq \in [0 .. (WqSize - 1) -> Entry]
  BY <1>1, Sides
<1>3. ASSUME NEW q, IsQueue(q)
      PROVE  Cardinality(Unscheduled(q)) = Occupancy(q) - Cardinality(Scheduled(q))
  <2>1. IsFiniteSet(Used(q)) /\ IsFiniteSet(Scheduled(q))  BY <1>3, QueueFacts
  <2>2. Unscheduled(q) = Used(q) \ Scheduled(q) /\ Used(q) \cap Scheduled(q) = Scheduled(q)
    BY DEF Unscheduled, Scheduled
  <2>3. Cardinality(Used(q) \ Scheduled(q))
          = Cardinality(Used(q)) - Cardinality(Used(q) \cap Scheduled(q))
    BY <2>1, FS_Difference
  <2> QED  BY <2>2, <2>3 DEF Occupancy
<1>4. IsQueue(d.rq) /\ IsQueue(d.wq)  BY <1>2 DEF IsQueue
<1>5. d.reads = Cardinality(Scheduled(d.rq)) /\ d.writes = Cardinality(Scheduled(d.wq))
  BY <1>1 DEF Binding
<1>6. Served(d) = IF d.write THEN d.wq ELSE d.rq  BY <1>2 DEF Served, Queue
<1> QED  BY <1>2, <1>3, <1>4, <1>5, <1>6 DEF Unstarted

\* The watermarks leave a gap: after a change of mode no other is due.
LEMMA TurnsOnce ==
  ASSUME NEW d, Consistent(d)
  PROVE  ~TurnDue(SwitchMode(d))
<1> DEFINE e == SwitchMode(d)
<1>1. /\ Consistent(e) /\ SameRequests(d.rq, e.rq) /\ SameRequests(d.wq, e.wq)
      /\ (EnterWrite(d) \/ LeaveWrite(d)) => e.write = ~d.write
      /\ ~(EnterWrite(d) \/ LeaveWrite(d)) => e = d
  BY SwitchStep DEF SwitchMode
<1> HIDE DEF e
<1>2. Occupancy(e.rq) = Occupancy(d.rq) /\ Occupancy(e.wq) = Occupancy(d.wq)
  BY <1>1, SameUsed
<1>3. Occupancy(d.rq) \in Nat /\ Occupancy(d.wq) \in Nat  BY OccupancyType
<1>4. CASE EnterWrite(d)
  <2>1. ~d.write /\ e.write  BY <1>1, <1>4 DEF EnterWrite
  <2>2. ~LeaveWrite(e)  BY <1>2, <1>3, <1>4, BusConstants DEF EnterWrite, LeaveWrite
  <2> QED  BY <2>1, <2>2 DEF TurnDue, EnterWrite, e
<1>5. CASE LeaveWrite(d)
  <2>1. d.write /\ ~e.write  BY <1>1, <1>5 DEF LeaveWrite
  <2>2. ~EnterWrite(e)  BY <1>2, <1>3, <1>5, BusConstants DEF EnterWrite, LeaveWrite
  <2> QED  BY <2>1, <2>2 DEF TurnDue, LeaveWrite, e
<1>6. CASE ~EnterWrite(d) /\ ~LeaveWrite(d)
  <2>1. e = d  BY <1>1, <1>6
  <2> QED  BY <1>6, <2>1 DEF TurnDue, e
<1> QED  BY <1>4, <1>5, <1>6

\* Whether a change of mode is due depends on the mode and the numbers of requests.
LEMMA SameTurn ==
  ASSUME NEW d, NEW e, e.write = d.write,
         Occupancy(e.rq) = Occupancy(d.rq), Occupancy(e.wq) = Occupancy(d.wq)
  PROVE  TurnDue(e) <=> TurnDue(d)
BY DEF TurnDue, EnterWrite, LeaveWrite

\* A controller that holds a request and has no change of mode to make serves a queue
\* that is not empty; when it can schedule none of it, some is under way.
LEMMA SomeUnderWay ==
  ASSUME NEW d, Consistent(d), Held(d) > 0, ~TurnDue(d), Schedulable(d, Served(d)) = {}
  PROVE  Scheduled(Served(d)) # {}
<1>1. d \in State /\ Binding(d)  BY DEF Consistent
<1>2. d.write \in BOOLEAN  BY <1>1, Sides
<1>3. Occupancy(d.rq) \in Nat /\ Occupancy(d.wq) \in Nat  BY OccupancyType
<1>4. Occupancy(Served(d)) # 0
  <2>1. CASE d.write  BY <2>1 DEF TurnDue, LeaveWrite, Served, Queue
  <2>2. CASE ~d.write  BY <1>3, <2>2 DEF TurnDue, EnterWrite, Served, Queue, Held
  <2> QED  BY <1>2, <2>1, <2>2
<1>5. PICK i : i \in Used(Served(d))
  <2>1. Used(Served(d)) # {}  BY <1>4, FS_EmptySet DEF Occupancy
  <2> QED  BY <2>1
<1>6. SUFFICES ASSUME Scheduled(Served(d)) = {} PROVE FALSE  OBVIOUS
<1>7. i \in Unscheduled(Served(d))  BY <1>5, <1>6 DEF Scheduled, Unscheduled
<1>8. d.bank[BankOf[Served(d)[i].addr]].working  BY <1>7 DEF Schedulable
<1>9. BankOf[Served(d)[i].addr] \in Banks
  <2>1. IsQueue(Served(d))
    BY <1>1, <1>2, Sides DEF IsQueue, Served
  <2> QED  BY <1>5, <2>1, QueueFacts
<1> QED  BY <1>1, <1>6, <1>8, <1>9 DEF Binding, Bound, Served

\* All that is under way is over within Latency; Delay is the first such cycle.
LEMMA DelayIs ==
  ASSUME NEW d, Consistent(d), BusBounded(d), BanksBounded(d), BothSoon(d)
  PROVE  /\ Delay(d) \in Latency /\ OverIn(d, Delay(d))
         /\ \A n \in Latency : OverIn(d, n) => Delay(d) <= n
<1> DEFINE top == RowMissCycles + CasCycles + ReturnTime + 4 * TurnAround
           S == {n \in Latency : OverIn(d, n)}
<1>1. d \in State /\ d.dbus \in Int /\ d.write \in BOOLEAN
  BY Sides DEF Consistent
<1>2. top \in Nat /\ top \in Latency /\ RowMissCycles + CasCycles <= top
      /\ ReturnTime + 4 * TurnAround <= top
      /\ Latency \subseteq Nat /\ \A n \in Latency : n <= top
  BY BusConstants DEF Latency
<1> HIDE DEF top
<1>3. d.dbus <= top  BY <1>1, <1>2, BusConstants DEF BusBounded
<1>4. \A b \in Banks : d.bank[b].avail <= top  BY <1>2 DEF BanksBounded
<1>5. ASSUME NEW i \in Scheduled(Served(d)) PROVE Served(d)[i].event <= top
  <2>1. Served(d)[i].event <= RowMissCycles + CasCycles
    BY <1>1 DEF BothSoon, Soon, Served, Queue
  <2>2. Served(d)[i].event \in Int
    <3>1. IsQueue(Served(d))  BY <1>1, Sides DEF IsQueue, Served
    <3>2. i \in DOMAIN Served(d)  BY DEF Scheduled, Used
    <3> QED  BY <3>1, <3>2, QueueFacts DEF Entry
  <2> QED  BY <1>2, <2>1, <2>2, BusConstants
<1>6. top \in S  BY <1>2, <1>3, <1>4, <1>5 DEF OverIn
<1>7. S \in SUBSET Nat /\ S # {}  BY <1>2, <1>6
<1> HIDE DEF S
<1>8. Lowest(S) \in S /\ \A j \in S : Lowest(S) <= j  BY <1>7, LowestElement
<1>9. Delay(d) = Lowest(S)  BY DEF Delay, S
<1> QED  BY <1>8, <1>9 DEF S

\* The three measures are numbers.
LEMMA Measured ==
  ASSUME NEW d, Consistent(d), BusBounded(d), BanksBounded(d), BothSoon(d)
  PROVE  Held(d) \in Nat /\ Unstarted(d) \in Nat /\ Delay(d) \in Nat
<1>1. Held(d) \in Nat
  <2>1. Occupancy(d.rq) \in Nat /\ Occupancy(d.wq) \in Nat  BY OccupancyType
  <2> QED  BY <2>1 DEF Held
<1>2. Delay(d) \in Nat  BY DelayIs, BusConstants DEF Latency
<1>3. Unstarted(d) \in Nat
  <2>1. IsQueue(Served(d))  BY Sides DEF Consistent, IsQueue, Served
  <2>2. IsFiniteSet(Unscheduled(Served(d)))  BY <2>1, QueueFacts, FS_Subset
  <2> QED  BY <2>2, FS_CardinalityType DEF Unstarted
<1> QED  BY <1>1, <1>2, <1>3

\* When everything is over, a request completes.
LEMMA OverCompletes ==
  ASSUME NEW d, Consistent(d), Scheduled(Served(d)) # {}, OverIn(d, 0)
  PROVE  Completes(d)
<1>1. d \in State  BY DEF Consistent
<1>2. IsQueue(Served(d))  BY <1>1, Sides DEF IsQueue, Served
<1>3. Scheduled(Served(d)) \in SUBSET DOMAIN Served(d)  BY DEF Scheduled, Used
<1>4. NextProcess(Served(d)) \in Scheduled(Served(d))
  BY <1>2, <1>3, OldestElement DEF NextProcess
<1>5. BankOf[Served(d)[NextProcess(Served(d))].addr] \in Banks
  BY <1>2, <1>4, QueueFacts
<1> QED  BY <1>4, <1>5 DEF OverIn, Completes, Due, BusFree, Served

\* A cycle without a transfer brings the end of everything under way one cycle nearer:
\* a bank that waits for the bus waits no longer than the bus.
LEMMA OverSooner ==
  ASSUME NEW d, Consistent(d), BothSoon(d), ~Completes(d), NEW n \in Nat, OverIn(d, n), n # 0
  PROVE  OverIn(NextCycle(Process(d)), n - 1)
<1> DEFINE p == Process(d)
           e == NextCycle(p)
<1>1. /\ Consistent(p) /\ p.write = d.write /\ p.dbus = d.dbus
      /\ \A b \in Banks : \/ p.bank[b].avail \in {0, d.bank[b].avail}
                          \/ d.dbus > 0 /\ p.bank[b].avail = d.dbus
  BY ProcessStep
<1>2. BothSoon(p) /\ p.rq = d.rq /\ p.wq = d.wq  BY ProcessCounts
<1> HIDE DEF p
<1>3. /\ Consistent(e) /\ e.write = p.write /\ e.dbus = Later(p.dbus, 0 - TurnAround)
  BY <1>1, NextCycleStep
<1>4. /\ e.rq = Renumber(p.rq) /\ e.wq = Renumber(p.wq)
      /\ \A b \in Banks : e.bank[b].avail = Later(p.bank[b].avail, 0)
  BY <1>1, <1>2, NextCycleCounts
<1> HIDE DEF e
<1>5. d \in State /\ p \in State /\ e \in State  BY <1>1, <1>3 DEF Consistent
<1>6. /\ d.dbus \in Int /\ d.write \in BOOLEAN /\ p.bank \in [Banks -> BankState]
      /\ d.bank \in [Banks -> BankState]
      /\ RqSize - 1 \in Nat /\ WqSize - 1 \in Nat
      /\ d.rq \in [0 .. (RqSize - 1) -> Entry] /\ d.wq \in [0 .. (WqSize - 1) -> Entry]
  BY <1>5, Sides
<1>7. e.dbus <= n - 1
  BY <1>1, <1>3, <1>6, BusConstants DEF Later, OverIn
<1>8. ASSUME NEW b \in Banks PROVE e.bank[b].avail <= n - 1
  <2>1. p.bank[b].avail \in Nat /\ d.bank[b].avail \in Nat  BY <1>6 DEF BankState
  <2>2. p.bank[b].avail <= n  BY <1>1, <2>1 DEF OverIn
  <2>3. e.bank[b].avail = Later(p.bank[b].avail, 0)  BY <1>4
  <2> QED  BY <2>1, <2>2, <2>3 DEF Later
<1>9. /\ Served(e) = Renumber(Served(d)) /\ Waited(Served(d))
      /\ \E m \in Nat : Served(d) \in [0 .. m -> Entry]
  <2>1. CASE d.write
    BY <1>1, <1>2, <1>3, <1>4, <1>6, <2>1 DEF Served, Queue, Consistent
  <2>2. CASE ~d.write
    BY <1>1, <1>2, <1>3, <1>4, <1>6, <2>2 DEF Served, Queue, Consistent
  <2> QED  BY <1>6, <2>1, <2>2
<1>10. ASSUME NEW i \in Scheduled(Served(e)) PROVE Served(e)[i].event <= n - 1
  <2>1. PICK m \in Nat : Served(d) \in [0 .. m -> Entry]  BY <1>9
  <2> DEFINE q == Served(d)
  <2>2. q \in [0 .. m -> Entry] /\ Waited(q) /\ Served(e) = Renumber(q)  BY <1>9, <2>1
  <2> HIDE DEF q
  <2>3. i \in Scheduled(q) /\ (Renumber(q)[i].event <= 0 \/ Renumber(q)[i].event = q[i].event - 1)
    BY <2>2, Nearer
  <2>4. Renumber(q) \in [0 .. m -> Entry] /\ i \in 0 .. m
    BY <2>2, <2>3, RenumberQueue DEF Scheduled, Used
  <2>5. Renumber(q)[i].event \in Int /\ q[i].event \in Int  BY <2>2, <2>4 DEF Entry
  <2>6. q[i].event <= n  BY <2>3 DEF OverIn, q
  <2> QED  BY <2>2, <2>3, <2>5, <2>6
<1>11. OverIn(e, n - 1)  BY <1>7, <1>8, <1>10 DEF OverIn
<1> QED  BY <1>11 DEF e, p

\* A transfer takes one request away.
LEMMA TransferHeld ==
  ASSUME NEW c, Consistent(c), NEW p, Transfer(c, p)
  PROVE  Held(p) = Held(c) - 1 /\ Held(c) \in Nat
<1>1. c \in State  BY DEF Consistent
<1>2. /\ c.rq \in [0 .. (RqSize - 1) -> Entry] /\ c.wq \in [0 .. (WqSize - 1) -> Entry]
      /\ RqSize - 1 \in Nat /\ WqSize - 1 \in Nat /\ c.write \in BOOLEAN
      /\ c.write => Queue(c.write) = "wq" /\ Queue(~c.write) = "rq"
      /\ ~c.write => Queue(c.write) = "rq" /\ Queue(~c.write) = "wq"
  BY <1>1, Sides
<1>3. IsQueue(c.rq) /\ IsQueue(c.wq)  BY <1>2 DEF IsQueue
<1>4. ASSUME NEW q, IsQueue(q), NEW i \in Used(q)
      PROVE  Occupancy([q EXCEPT ![i] = Empty]) = Occupancy(q) - 1
  <2>1. Used([q EXCEPT ![i] = Empty]) = Used(q) \ {i}  BY DEF Used, Empty
  <2>2. IsFiniteSet(Used(q))  BY <1>4, QueueFacts
  <2> QED  BY <2>1, <2>2, FS_RemoveElement DEF Occupancy
<1>5. Occupancy(c.rq) \in Nat /\ Occupancy(c.wq) \in Nat  BY OccupancyType
<1>6. CASE c.write
  <2> DEFINE i == NextProcess(c.wq)
  <2>2. i \in Used(c.wq) /\ p.wq = [c.wq EXCEPT ![i] = Empty] /\ p.rq = c.rq
    BY <1>2, <1>6 DEF Transfer, Scheduled
  <2> HIDE DEF i
  <2>1. Occupancy(p.wq) = Occupancy(c.wq) - 1 /\ p.rq = c.rq
    BY <1>3, <1>4, <2>2
  <2> QED  BY <1>5, <2>1 DEF Held
<1>7. CASE ~c.write
  <2> DEFINE i == NextProcess(c.rq)
  <2>2. i \in Used(c.rq) /\ p.rq = [c.rq EXCEPT ![i] = Empty] /\ p.wq = c.wq
    BY <1>2, <1>7 DEF Transfer, Scheduled
  <2> HIDE DEF i
  <2>1. Occupancy(p.rq) = Occupancy(c.rq) - 1 /\ p.wq = c.wq
    BY <1>3, <1>4, <2>2
  <2> QED  BY <1>5, <2>1 DEF Held
<1> QED  BY <1>2, <1>6, <1>7

\* One call of operate() with a request in a queue.
LEMMA OperateAdvances ==
  ASSUME NEW d, Consistent(d), BusBounded(d), BanksBounded(d), BothSoon(d),
         NEW l, BusRemembers(d, l)
  PROVE  LET e == NextCycle(Process(Schedule(SwitchMode(d))))
         IN BothSoon(e) /\ (Held(d) > 0 => Advances(d, e))
<1> DEFINE s == SwitchMode(d)
           c == Schedule(s)
           p == Process(c)
           e == NextCycle(p)
<1>0. Consistent(e) /\ BusBounded(e) /\ BanksBounded(e)  BY OperateStep
<1>1. /\ Consistent(s) /\ SameRequests(d.rq, s.rq) /\ SameRequests(d.wq, s.wq)
      /\ BothSoon(s) /\ ~TurnDue(s)
      /\ ~TurnDue(d) => s = d
  BY SwitchStep, SwitchSoon, TurnsOnce DEF SwitchMode, TurnDue
<1> HIDE DEF s
<1>2. /\ Consistent(c) /\ SameRequests(s.rq, c.rq) /\ SameRequests(s.wq, c.wq)
      /\ c.write = s.write
  BY <1>1, ScheduleStep
<1>3. /\ BothSoon(c)
      /\ IF Schedulable(s, Served(s)) = {} THEN c = s
         ELSE IF s.write THEN c.writes = s.writes + 1 ELSE c.reads = s.reads + 1
  BY <1>1, ScheduleCounts DEF Served
<1> HIDE DEF c
<1>4. /\ Consistent(p) /\ p.write = c.write /\ (Completes(c) => Transfer(c, p))
  BY <1>2, ProcessStep
<1>5. /\ BothSoon(p)
      /\ ~Completes(c) => /\ p.rq = c.rq /\ p.wq = c.wq
                          /\ p.reads = c.reads /\ p.writes = c.writes
  BY <1>2, <1>3, ProcessCounts
<1> HIDE DEF p
<1>6. /\ SameRequests(p.rq, e.rq) /\ SameRequests(p.wq, e.wq) /\ e.write = p.write
  BY <1>4, NextCycleStep
<1>7. BothSoon(e) /\ e.reads = p.reads /\ e.writes = p.writes
  BY <1>4, <1>5, NextCycleCounts
<1> HIDE DEF e
<1> SUFFICES ASSUME Held(d) > 0 PROVE Advances(d, e)
  BY <1>7 DEF s, c, p, e
<1>8. /\ Occupancy(s.rq) = Occupancy(d.rq) /\ Occupancy(s.wq) = Occupancy(d.wq)
      /\ Occupancy(c.rq) = Occupancy(d.rq) /\ Occupancy(c.wq) = Occupancy(d.wq)
      /\ Occupancy(e.rq) = Occupancy(p.rq) /\ Occupancy(e.wq) = Occupancy(p.wq)
  BY <1>1, <1>2, <1>6, SameUsed
<1>9. Held(c) = Held(d) /\ Held(e) = Held(p)  BY <1>8 DEF Held
<1>10. CASE Completes(c)
  <2>1. Held(p) = Held(c) - 1 /\ Held(c) \in Nat  BY <1>2, <1>4, <1>10, TransferHeld
  <2>2. Held(e) < Held(d)  BY <1>9, <2>1
  <2> QED  BY <2>2 DEF Advances
<1>11. CASE ~Completes(c)
  <2>1. /\ p.rq = c.rq /\ p.wq = c.wq /\ e.reads = c.reads /\ e.writes = c.writes
        /\ e.write = s.write
    BY <1>2, <1>4, <1>5, <1>6, <1>7, <1>11
  <2>2. Occupancy(e.rq) = Occupancy(d.rq) /\ Occupancy(e.wq) = Occupancy(d.wq)
    BY <1>8, <2>1
  <2>3. Held(e) = Held(d)  BY <2>2 DEF Held
  <2>4. ~TurnDue(e)
    <3>1. Occupancy(e.rq) = Occupancy(s.rq) /\ Occupancy(e.wq) = Occupancy(s.wq)
      BY <1>8, <2>2
    <3> QED  BY <1>1, <2>1, <3>1, SameTurn
  <2>5. CASE TurnDue(d)  BY <2>3, <2>4, <2>5 DEF Advances
  <2>6. CASE ~TurnDue(d)
    <3>1. s = d  BY <1>1, <2>6
    <3>2. /\ d.reads \in Int /\ d.writes \in Int /\ d.write \in BOOLEAN
      BY Sides DEF Consistent
    <3>3. Occupancy(d.rq) \in Nat /\ Occupancy(d.wq) \in Nat  BY OccupancyType
    <3>4. /\ Unstarted(d) = IF d.write THEN Occupancy(d.wq) - d.writes
                                       ELSE Occupancy(d.rq) - d.reads
          /\ Unstarted(e) = IF d.write THEN Occupancy(d.wq) - e.writes
                                       ELSE Occupancy(d.rq) - e.reads
      BY <1>0, <2>1, <2>2, <3>1, UnstartedCount
    <3>5. CASE Schedulable(d, Served(d)) # {}
      <4>1. Unstarted(e) < Unstarted(d)
        BY <1>3, <2>1, <3>1, <3>2, <3>3, <3>4, <3>5
      <4> QED  BY <2>3, <2>4, <4>1 DEF Advances
    <3>6. CASE Schedulable(d, Served(d)) = {}
      <4> DEFINE n == Delay(d)
      <4>1. c = d  BY <1>3, <3>1, <3>6
      <4>2. Unstarted(e) = Unstarted(d)  BY <2>1, <3>4, <4>1
      <4>3. n \in Latency /\ OverIn(d, n)  BY DelayIs
      <4>4. n # 0
        BY <1>11, <2>6, <3>6, <4>1, <4>3, SomeUnderWay, OverCompletes
      <4> HIDE DEF n
      <4>5. n \in Nat /\ n - 1 \in Latency  BY <4>3, <4>4, BusConstants DEF Latency
      <4>6. OverIn(e, n - 1)
        <5>1. ~Completes(d) /\ e = NextCycle(Process(d))  BY <1>11, <4>1 DEF e, p
        <5>2. OverIn(NextCycle(Process(d)), n - 1)  BY <4>3, <4>4, <4>5, <5>1, OverSooner
        <5> QED  BY <5>1, <5>2
      <4>7. Delay(e) \in Latency /\ Delay(e) <= n - 1  BY <1>0, <1>7, <4>5, <4>6, DelayIs
      <4>8. Delay(e) < Delay(d)  BY <4>5, <4>7, BusConstants DEF n, Latency
      <4> QED  BY <2>3, <2>4, <4>2, <4>8 DEF Advances
    <3> QED  BY <3>5, <3>6
  <2> QED  BY <2>5, <2>6
<1> QED  BY <1>10, <1>11

\* A request that arrives is not under way.
LEMMA SoonGrows ==
  ASSUME NEW q, NEW i, NEW f, Soon(q), f.sched = FALSE
  PROVE  Soon([q EXCEPT ![i] = f])
<1> DEFINE r == [q EXCEPT ![i] = f]
<1>1. \A j \in Scheduled(r) : j \in Scheduled(q) /\ r[j] = q[j]
  BY DEF Scheduled, Used
<1> QED  BY <1>1 DEF Soon

LEMMA EnqueueSoon ==
  ASSUME dram \in State, BothSoon(dram), NEW name \in {"rq", "wq"}, NEW a, NEW ptw, NEW event,
         Enqueue(name, a, ptw, event)
  PROVE  BothSoon(dram')
<1> DEFINE f == [addr |-> a, ptw |-> ptw, sched |-> FALSE, event |-> event]
           Added(q) == [q EXCEPT ![FreeSlot(q)] = f]
<1>1. ASSUME NEW q, Soon(q) PROVE Soon(Added(q))
  <2> DEFINE i == FreeSlot(q)
  <2>1. f.sched = FALSE  OBVIOUS
  <2> HIDE DEF f, i
  <2>2. Soon([q EXCEPT ![i] = f])  BY <1>1, <2>1, SoonGrows
  <2> QED  BY <2>2 DEF i
<1>2. CASE name = "rq"
  <2>1. dram'.rq = Added(dram.rq) /\ dram'.wq = dram.wq  BY <1>2 DEF Enqueue, State
  <2> HIDE DEF Added
  <2> QED  BY <1>1, <2>1 DEF BothSoon
<1>3. CASE name = "wq"
  <2>1. dram'.wq = Added(dram.wq) /\ dram'.rq = dram.rq  BY <1>3 DEF Enqueue, State
  <2> HIDE DEF Added
  <2> QED  BY <1>1, <2>1 DEF BothSoon
<1> QED  BY <1>2, <1>3

LEMMA StepSoon ==
  ASSUME DramInv, BothSoon(dram), [Next]_vars
  PROVE  BothSoon(dram')
<1>1. dram \in State  BY DEF DramInv, Consistent
<1>2. CASE UNCHANGED dram  BY <1>2
<1>3. ASSUME NEW a \in DataAddrs, NEW age \in {1, 2}, LlcRead(a, age) PROVE BothSoon(dram')
  BY <1>1, <1>2, <1>3, EnqueueSoon DEF LlcRead
<1>4. ASSUME NEW a \in PtwAddrs, PtwRead(a) PROVE BothSoon(dram')
  BY <1>1, <1>2, <1>4, EnqueueSoon DEF PtwRead
<1>5. ASSUME NEW a \in DataAddrs, LlcWrite(a) PROVE BothSoon(dram')
  BY <1>1, <1>2, <1>5, EnqueueSoon DEF LlcWrite
<1>6. CASE Operate
  <2>1. dram' = NextCycle(Process(Schedule(SwitchMode(dram))))  BY <1>6 DEF Operate
  <2> QED  BY <2>1, OperateAdvances DEF DramInv
<1>7. CASE FinishWarmup \/ UNCHANGED vars  BY <1>2, <1>7 DEF FinishWarmup, vars
<1> QED  BY <1>3, <1>4, <1>5, <1>6, <1>7 DEF Next

\* No starvation, for every number of banks, all queue sizes, watermarks and timings: a
\* cycle that completes nothing is the one change of mode, schedules a request, or brings
\* what is under way nearer; each of these ends.
THEOREM EveryCycleAdvancesCorrect == Spec => EveryCycleAdvances
<1>1. Init => BothSoon(dram)
  BY DEF Init, BothSoon, Soon, Scheduled, Used, Empty
<1>2. DramInv /\ BothSoon(dram) /\ [Next]_vars => BothSoon(dram)'
  BY StepSoon
<1>3. DramInv /\ DramInv' /\ BothSoon(dram) /\ BothSoon(dram)' /\ [Next]_vars
        => [clock' # clock /\ Held(dram) > 0 =>
              /\ {Held(dram'), Unstarted(dram'), Delay(dram')} \subseteq Nat
              /\ Advances(dram, dram')]_vars
  <2> SUFFICES ASSUME DramInv, DramInv', BothSoon(dram), BothSoon(dram)', [Next]_vars,
                      clock' # clock, Held(dram) > 0
               PROVE  /\ {Held(dram'), Unstarted(dram'), Delay(dram')} \subseteq Nat
                      /\ Advances(dram, dram')
    OBVIOUS
  <2>1. Operate  BY DEF Next, vars, LlcRead, PtwRead, LlcWrite, FinishWarmup
  <2>2. dram' = NextCycle(Process(Schedule(SwitchMode(dram))))  BY <2>1 DEF Operate
  <2>3. Advances(dram, dram')  BY <2>2, OperateAdvances DEF DramInv
  <2>4. /\ Consistent(dram') /\ BusBounded(dram') /\ BanksBounded(dram') /\ BothSoon(dram')
    BY DEF DramInv
  <2>5. Held(dram') \in Nat /\ Unstarted(dram') \in Nat /\ Delay(dram') \in Nat
    BY <2>4, Measured
  <2> QED  BY <2>3, <2>5
<1> QED  BY <1>1, <1>2, <1>3, Inductive, PTL DEF Spec, EveryCycleAdvances
=============================================================================
