--------------------------- MODULE CacheHierarchy ---------------------------
(***************************************************************************)
(* The miss protocol of the CACHE class of src/cache.cc: the L1I and L1D    *)
(* caches of a core over their shared L2C, one set each.                    *)
(*                                                                          *)
(* A cache keeps a read, a write and a prefetch queue, an MSHR and blocks.  *)
(* Its handlers take the head of a queue; a miss allocates an MSHR entry    *)
(* and calls add_rq/add_pq of the lower level, a fill calls return_data of  *)
(* the upper caches that the fill_l1i/fill_l1d flags of the entry name.     *)
(* Latencies are left open, so the handlers interleave freely.  The core    *)
(* and the prefetchers issue requests; the LLC answers in any order.        *)
(***************************************************************************)
EXTENDS Integers, FiniteSets, Sequences

CONSTANTS
  CodeLines, DataLines, \* lines the core fetches from, lines it loads and stores
  NoLine,               \* no line: an invalid block
  Ways,                 \* [Caches -> number of ways]
  MshrSize,             \* [Caches -> MSHR_SIZE]
  RqSize, WqSize, PqSize, \* [Caches -> RQ_SIZE, WQ_SIZE, PQ_SIZE]
  Prefetches,           \* <<cache, line, fill level>> the prefetchers may ask for
  MaxRequests           \* bound on the requests of one behaviour

L1 == {"L1I", "L1D"}
Caches == L1 \cup {"L2C"}
Lines == CodeLines \cup DataLines
FillLevel(c) == IF c = "L2C" THEN 2 ELSE 1      \* FILL_L2, FILL_L1; FILL_LLC = 4

ASSUME HierarchyAssumption ==
  /\ NoLine \notin Lines
  /\ \A c \in Caches : /\ Ways[c] \in Nat \ {0} /\ MshrSize[c] \in Nat \ {0}
                       /\ RqSize[c] \in Nat \ {0} /\ WqSize[c] \in Nat \ {0}
                       /\ PqSize[c] \in Nat \ {0}
  /\ Prefetches \subseteq Caches \X Lines \X {1, 2, 4}
  /\ \A p \in Prefetches : p[1] = "L2C" => p[3] # 1   \* no .l2c_pref uses FILL_L1
  /\ MshrSize["L1I"] + MshrSize["L1D"] <= RqSize["L2C"]   \* 8 + 16 <= 32
  /\ MaxRequests \in Nat

VARIABLES
  rq, wq, pq, \* [Caches -> sequence of packets]
  mshr,       \* [Caches -> [Lines -> Entry]]
  block,      \* [Caches -> [ways -> line and dirty bit]]
  llc,        \* lines the L2C waits for
  pending,    \* [L1 -> lines the core waits for]
  issued      \* requests so far, for the bound

vars == <<rq, wq, pq, mshr, block, llc, pending, issued>>

\* PACKET: fill is the set of L1 caches whose fill_l1i/fill_l1d flag is set.
Packet(a, type, level, fill) == [line |-> a, type |-> type, level |-> level, fill |-> fill]
NoEntry == [line |-> NoLine, type |-> "none", level |-> 0, fill |-> {}, returned |-> FALSE]

Occupied(c) == {a \in Lines : mshr[c][a] # NoEntry}
PresentNever(c, a) == FALSE                              \* variant: lookups miss
Present(c, a) == \E w \in DOMAIN block[c] : block[c][w].line = a
Queued(q, a) == \E i \in DOMAIN q : q[i].line = a        \* PACKET_QUEUE::check_queue

\* return_data at upper cache u: the MSHR entry of the line is completed.
ReturnData(m, u, a) ==
  IF m[u][a] = NoEntry THEN m ELSE [m EXCEPT ![u][a] = [@ EXCEPT !.returned = TRUE]]

\* The "check fill level" step at cache c, for a packet or an MSHR entry p.
Answer(m, c, p) ==
  IF p.level < FillLevel(c)
  THEN [u \in Caches |-> IF u \in p.fill THEN ReturnData(m, u, p.line)[u] ELSE m[u]]
  ELSE m

Merge(q, p) == [i \in DOMAIN q |-> IF q[i].line = p.line
                                   THEN [q[i] EXCEPT !.fill = @ \cup p.fill] ELSE q[i]]
MinLevel(x, y) == IF x < y THEN x ELSE y

Completes(c, a) == IF c \in L1 THEN [pending EXCEPT ![c] = @ \ {a}] ELSE pending

-----------------------------------------------------------------------------
(* add_mshr, and the calls on the lower level. *)

AddMshr(m, c, p) ==
  [m EXCEPT ![c][p.line] = [line |-> p.line, type |-> p.type, level |-> p.level,
                            fill |-> p.fill, returned |-> FALSE]]

\* Variant: a write-queue hit answers and is queued as well.
LowerReadTwice(c, p, q, m) ==
  IF c = "L2C"
  THEN llc' = llc \cup {p.line} /\ rq' = q /\ mshr' = m
  ELSE /\ UNCHANGED llc
       /\ mshr' = IF Queued(wq["L2C"], p.line) THEN Answer(m, "L2C", p) ELSE m
       /\ rq' = [q EXCEPT !["L2C"] = Append(@, p)]

\* add_rq of the L2C: a write-queue hit answers at once, a duplicate merges, a
\* full queue returns -2, which the caller ignores.  `q` is rq after the caller
\* removed its packet, `m` is mshr after it added its entry.
LowerRead(c, p, q, m) ==
  IF c = "L2C"
  THEN /\ llc' = llc \cup {p.line} /\ rq' = q /\ mshr' = m
  ELSE /\ UNCHANGED llc
       /\ IF Queued(wq["L2C"], p.line)
          THEN rq' = q /\ mshr' = Answer(m, "L2C", p)
          ELSE /\ mshr' = m
               /\ rq' = IF Queued(q["L2C"], p.line)
                        THEN [q EXCEPT !["L2C"] = Merge(@, p)]
                        ELSE IF Len(q["L2C"]) = RqSize["L2C"] THEN q
                        ELSE [q EXCEPT !["L2C"] = Append(@, p)]

\* add_pq of cache c; `q` and `m` as above.  The L1D write queue compares full
\* addresses: dropping a prefetch there changes nothing.
MergePq(s, p) == [i \in DOMAIN s |->
                    IF s[i].line = p.line
                    THEN [s[i] EXCEPT !.fill = @ \cup p.fill, !.level = MinLevel(@, p.level)]
                    ELSE s[i]]

AddPq(c, p, q, m) ==
  IF c # "L1D" /\ Queued(wq[c], p.line) THEN pq' = q /\ mshr' = Answer(m, c, p)
  ELSE /\ mshr' = m
       /\ pq' = IF Queued(q[c], p.line) THEN [q EXCEPT ![c] = MergePq(@, p)]
                ELSE IF Len(q[c]) = PqSize[c] THEN q
                ELSE [q EXCEPT ![c] = Append(@, p)]

LowerPrefetch(c, p, q, m) ==
  IF c = "L2C"
  THEN /\ llc' = IF p.level <= 2 THEN llc \cup {p.line} ELSE llc
       /\ pq' = q /\ mshr' = m
  ELSE UNCHANGED llc /\ AddPq("L2C", p, q, m)

\* An outstanding miss that is asked for again: level and flags are added.
RaiseMshr(e, p) == [e EXCEPT !.level = MinLevel(@, p.level), !.fill = @ \cup p.fill]

\* A demand or RFO merges with an outstanding miss: its level and flags are
\* added, and a prefetch entry is then overwritten by the new packet.
MergeMshr(e, p) ==
  IF e.type = "PREFETCH"
  THEN [line |-> p.line, type |-> p.type, level |-> p.level, fill |-> p.fill,
        returned |-> e.returned]
  ELSE RaiseMshr(e, p)

-----------------------------------------------------------------------------
(* Victims. *)

Invalid(c) == {w \in DOMAIN block[c] : block[c][w].line = NoLine}
Victims(c) == IF Invalid(c) # {} THEN Invalid(c) ELSE DOMAIN block[c]

\* Variants: the room in the lower write queue is not checked, or a full queue
\* loses the line.
EvictUnchecked(c, w, q) ==
  LET v == block[c][w] IN
  IF ~v.dirty \/ c = "L2C" THEN wq' = q
  ELSE wq' = [q EXCEPT !["L2C"] = Append(@, Packet(v.line, "WRITEBACK", 2, {}))]

EvictLossy(c, w, q) ==
  LET v == block[c][w] IN
  IF ~v.dirty \/ c = "L2C" \/ Len(q["L2C"]) = WqSize["L2C"] THEN wq' = q
  ELSE wq' = [q EXCEPT !["L2C"] = Append(@, Packet(v.line, "WRITEBACK", 2, {}))]

\* A dirty victim goes to the write queue of the lower level, which must have
\* room; the LLC takes it when it can. `q` is wq after the caller's removal.
Evict(c, w, q) ==
  LET v == block[c][w] IN
  IF ~v.dirty \/ c = "L2C" THEN wq' = q
  ELSE /\ Len(q["L2C"]) < WqSize["L2C"]
       /\ wq' = IF Queued(q["L2C"], v.line) THEN q
                ELSE [q EXCEPT !["L2C"] = Append(@, Packet(v.line, "WRITEBACK", 2, {}))]

Install(c, w, a, dirty) == block' = [block EXCEPT ![c][w] = [line |-> a, dirty |-> dirty]]

-----------------------------------------------------------------------------
(* The handlers of CACHE::operate. *)

\* What a fill completes. The L1D answers the loads in the entry, so not one whose
\* packet is still in the read queue; the L1I every fetch of the line.
Filled(c, a) == IF c = "L1D" /\ Queued(rq[c], a) THEN pending ELSE Completes(c, a)

HandleFill(c) ==
  \E a \in Occupied(c) : \E w \in Victims(c) :
    LET e == mshr[c][a] IN
    /\ e.returned
    /\ Evict(c, w, wq)
    /\ Install(c, w, a, c = "L1D" /\ e.type = "RFO")
    /\ mshr' = [Answer(mshr, c, e) EXCEPT ![c][a] = NoEntry]
    /\ pending' = Filled(c, a)
    /\ UNCHANGED <<rq, pq, llc, issued>>

\* handle_writeback of the L1D: the stores (RFO) of the core.
HandleStore ==
  /\ wq["L1D"] # <<>>
  /\ LET p == Head(wq["L1D"])
         rest == [wq EXCEPT !["L1D"] = Tail(@)]
     IN /\ wq' = rest
        /\ \/ /\ Present("L1D", p.line)
              /\ block' = [block EXCEPT !["L1D"] =
                             [w \in DOMAIN @ |-> IF block["L1D"][w].line = p.line
                                                 THEN [block["L1D"][w] EXCEPT !.dirty = TRUE]
                                                 ELSE block["L1D"][w]]]
              /\ UNCHANGED <<rq, mshr, llc>>
           \/ /\ ~Present("L1D", p.line) /\ p.line \notin Occupied("L1D")
              /\ Cardinality(Occupied("L1D")) < MshrSize["L1D"]
              /\ LowerRead("L1D", p, rq, AddMshr(mshr, "L1D", p))
              /\ UNCHANGED block
           \/ /\ ~Present("L1D", p.line) /\ p.line \in Occupied("L1D")
              /\ mshr' = [mshr EXCEPT !["L1D"][p.line] = MergeMshr(@, p)]
              /\ UNCHANGED <<rq, block, llc>>
        /\ UNCHANGED <<pq, pending, issued>>

\* handle_writeback of the L2C: a write-back that misses is allocated at once.
HandleWriteback ==
  /\ wq["L2C"] # <<>>
  /\ LET a == Head(wq["L2C"]).line
         rest == [wq EXCEPT !["L2C"] = Tail(@)]
         hit == {w \in DOMAIN block["L2C"] : block["L2C"][w].line = a}
     IN \E w \in (IF hit # {} THEN {CHOOSE x \in hit : \A y \in hit : x <= y}
                  ELSE Victims("L2C")) :
          /\ IF hit # {} THEN wq' = rest ELSE Evict("L2C", w, rest)
          /\ Install("L2C", w, a, TRUE)
  /\ UNCHANGED <<rq, pq, mshr, llc, pending, issued>>

HandleRead(c) ==
  /\ rq[c] # <<>>
  /\ LET p == Head(rq[c])
         rest == [rq EXCEPT ![c] = Tail(@)]
     IN \/ /\ Present(c, p.line)
           /\ rq' = rest /\ mshr' = Answer(mshr, c, p)
           /\ pending' = Completes(c, p.line)
           /\ UNCHANGED llc
        \/ /\ ~Present(c, p.line) /\ p.line \notin Occupied(c)
           /\ Cardinality(Occupied(c)) < MshrSize[c]
           /\ LowerRead(c, p, rest, AddMshr(mshr, c, p))
           /\ UNCHANGED pending
        \/ /\ ~Present(c, p.line) /\ p.line \in Occupied(c)
           /\ rq' = rest
           /\ mshr' = [mshr EXCEPT ![c][p.line] = MergeMshr(@, p)]
           /\ UNCHANGED <<llc, pending>>
  /\ UNCHANGED <<wq, pq, block, issued>>

\* The lower prefetch queue has room. Variant: not checked.
LowerAlwaysRoom(c) == TRUE
LowerHasRoom(c) == c \in L1 => Len(pq["L2C"]) < PqSize["L2C"]

\* A prefetch that is to fill lower caches only leaves no entry here.
PrefetchMshr(m, c, p) == IF p.level <= FillLevel(c) THEN AddMshr(m, c, p) ELSE m

\* handle_prefetch: a merge keeps the entry's type.
HandlePrefetch(c) ==
  /\ pq[c] # <<>>
  /\ LET p == Head(pq[c])
         rest == [pq EXCEPT ![c] = Tail(@)]
     IN \/ /\ Present(c, p.line)
           /\ pq' = rest /\ mshr' = Answer(mshr, c, p)
           /\ UNCHANGED llc
        \/ /\ ~Present(c, p.line) /\ p.line \notin Occupied(c)
           /\ Cardinality(Occupied(c)) < MshrSize[c]
           /\ LowerHasRoom(c)
           /\ LowerPrefetch(c, p, rest, PrefetchMshr(mshr, c, p))
        \/ /\ ~Present(c, p.line) /\ p.line \in Occupied(c)
           /\ pq' = rest
           /\ mshr' = [mshr EXCEPT ![c][p.line] = RaiseMshr(@, p)]
           /\ UNCHANGED llc
  /\ UNCHANGED <<rq, wq, block, pending, issued>>

-----------------------------------------------------------------------------
(* The environment: core, prefetchers and LLC. *)

Issue == issued < MaxRequests /\ issued' = issued + 1

\* fetch_instruction and execute_load: add_rq of an L1.  A load may find its very
\* bytes in the L1D write queue (which compares full addresses) and completes.
Demand(c, a) ==
  /\ Issue /\ a \notin pending[c] /\ Len(rq[c]) < RqSize[c]
  /\ \/ c = "L1D" /\ Queued(wq[c], a) /\ UNCHANGED <<rq, pending>>
     \/ /\ rq' = [rq EXCEPT ![c] = Append(@, Packet(a, "LOAD", 1, {c}))]
        /\ pending' = [pending EXCEPT ![c] = @ \cup {a}]
  /\ UNCHANGED <<wq, pq, mshr, block, llc>>

\* retire_rob: a store enters the L1D write queue.
Store(a) ==
  /\ Issue /\ Len(wq["L1D"]) < WqSize["L1D"]
  /\ wq' = [wq EXCEPT !["L1D"] = Append(@, Packet(a, "RFO", 1, {"L1D"}))]
  /\ UNCHANGED <<rq, pq, mshr, block, llc, pending>>

\* prefetch_line and prefetch_code_line.
PrefetchLine(c, a, level) ==
  /\ Issue /\ Len(pq[c]) < PqSize[c]
  /\ AddPq(c, Packet(a, "PREFETCH", level, IF level = 1 THEN {c} ELSE {}), pq, mshr)
  /\ UNCHANGED <<rq, wq, block, llc, pending>>

\* The LLC calls return_data of the L2C.
LlcReturn(a) ==
  /\ a \in llc
  /\ llc' = llc \ {a}
  /\ mshr' = ReturnData(mshr, "L2C", a)
  /\ UNCHANGED <<rq, wq, pq, block, pending, issued>>

Init ==
  /\ rq = [c \in Caches |-> <<>>] /\ wq = rq /\ pq = rq
  /\ mshr = [c \in Caches |-> [a \in Lines |-> NoEntry]]
  /\ block = [c \in Caches |-> [w \in 1..Ways[c] |-> [line |-> NoLine, dirty |-> FALSE]]]
  /\ llc = {}
  /\ pending = [c \in L1 |-> {}]
  /\ issued = 0

Core == \/ \E a \in CodeLines : Demand("L1I", a)
        \/ \E a \in DataLines : Demand("L1D", a)
        \/ \E a \in DataLines : Store(a)

Next ==
  \/ Core
  \/ \E p \in Prefetches : PrefetchLine(p[1], p[2], p[3])
  \/ \E c \in Caches : HandleFill(c) \/ HandleRead(c) \/ HandlePrefetch(c)
  \/ HandleStore
  \/ HandleWriteback
  \/ \E a \in Lines : LlcReturn(a)

Spec == Init /\ [][Next]_vars

\* operate() of every cache runs in every cycle, and the LLC answers.
FairSpec ==
  /\ Spec
  /\ \A c \in Caches : /\ WF_vars(HandleFill(c)) /\ WF_vars(HandleRead(c))
                       /\ WF_vars(HandlePrefetch(c))
  /\ WF_vars(HandleStore) /\ WF_vars(HandleWriteback)
  /\ \A a \in Lines : WF_vars(LlcReturn(a))

-----------------------------------------------------------------------------
(* Properties. *)

Entries(c) == {mshr[c][a] : a \in Occupied(c)}

TypeOK ==
  /\ \A c \in Caches :
       /\ Len(rq[c]) <= RqSize[c] /\ Len(wq[c]) <= WqSize[c] /\ Len(pq[c]) <= PqSize[c]
       /\ Cardinality(Occupied(c)) <= MshrSize[c]
       /\ \A a \in Occupied(c) : mshr[c][a].line = a /\ mshr[c][a].level \in {1, 2, 4}
       /\ \A w \in DOMAIN block[c] : block[c][w].line = NoLine => ~block[c][w].dirty
  /\ llc \subseteq Lines
  /\ \A c \in L1 : pending[c] \subseteq Lines

\* The requests below L1 cache u that will call its return_data for line a.
Requests(u, a) ==
  Cardinality({i \in DOMAIN rq["L2C"] : rq["L2C"][i].line = a /\ u \in rq["L2C"][i].fill})
  + Cardinality({i \in DOMAIN pq["L2C"] : pq["L2C"][i].line = a /\ u \in pq["L2C"][i].fill})
  + (IF u \in mshr["L2C"][a].fill THEN 1 ELSE 0)

Awaits(u, a) == mshr[u][a] # NoEntry /\ ~mshr[u][a].returned

\* return_data asserts that it finds an MSHR entry: no request of the L2C names an
\* upper cache that does not wait for the line, and none is answered twice.
ReturnFindsEntry ==
  \A u \in L1, a \in Lines : Requests(u, a) <= (IF Awaits(u, a) THEN 1 ELSE 0)

\* No miss is forgotten: every entry an L1 waits on has its request below, with
\* its fill flag and a level that returns, and the L2C waits exactly for what the
\* LLC owes it.  In particular the L2C read queue, whose "full" answer the callers
\* ignore, never drops a request.
MissNotLost ==
  /\ \A u \in L1, a \in Lines : Awaits(u, a) => Requests(u, a) = 1
  /\ \A a \in Occupied("L2C") : mshr["L2C"][a].fill # {} => mshr["L2C"][a].level = 1
  /\ llc = {a \in Lines : Awaits("L2C", a)}

\* Both: every miss of an L1 is answered, and is answered once.
EachMissAnsweredOnce == ReturnFindsEntry /\ MissNotLost

\* An L1 holds a line once, and never while it also waits for it.
OneCopyPerL1 ==
  \A u \in L1, w \in DOMAIN block["L1D"] \cup DOMAIN block["L1I"] :
    (w \in DOMAIN block[u] /\ block[u][w].line # NoLine) =>
      /\ mshr[u][block[u][w].line] = NoEntry
      /\ \A x \in DOMAIN block[u] : block[u][x].line = block[u][w].line => x = w

\* A modified line is handed down: it stays dirty in the L1D, in the L2C write
\* queue or in the L2C until the L2C evicts it to the LLC.
Dirty(c, a) == \E w \in DOMAIN block[c] : block[c][w] = [line |-> a, dirty |-> TRUE]
Modified(a) == Dirty("L1D", a) \/ Queued(wq["L2C"], a) \/ Dirty("L2C", a)

ModifiedHandedDown ==
  [][\A a \in Lines :
       Modified(a) /\ ~Modified(a)' =>
         \E w \in DOMAIN block["L2C"] : /\ block["L2C"][w] = [line |-> a, dirty |-> TRUE]
                                        /\ block'["L2C"][w] # block["L2C"][w]]_vars

\* What the handlers still have to do, a step of a handler counting once: the step
\* of a packet may leave an MSHR entry, which a fill takes away, and a packet below;
\* the fill of an L1 may leave a write-back.
Work ==
  6 * (Len(rq["L1I"]) + Len(rq["L1D"]) + Len(pq["L1I"]) + Len(pq["L1D"]) + Len(wq["L1D"]))
  + 3 * (Len(rq["L2C"]) + Len(pq["L2C"]))
  + 2 * (Cardinality(Occupied("L1I")) + Cardinality(Occupied("L1D")))
  + Cardinality(Occupied("L2C")) + Cardinality(llc) + Len(wq["L2C"])

\* Every step that is not a new request uses work up: misses, merges, fills,
\* write-backs and answers never call each other in a circle.
WorkShrinks == [][issued' = issued => Work' \in Nat /\ Work' < Work]_vars

\* What the handlers wait for: room for a dirty victim below, a free MSHR entry, room
\* for a prefetch below.
FillReady(c) ==
  \E a \in Occupied(c), w \in Victims(c) :
    /\ mshr[c][a].returned
    /\ block[c][w].dirty /\ c # "L2C" => Len(wq["L2C"]) < WqSize["L2C"]
Known(c, a) == Present(c, a) \/ a \in Occupied(c)
MshrRoom(c) == Cardinality(Occupied(c)) < MshrSize[c]
ReadReady(c) == rq[c] # <<>> /\ (Known(c, Head(rq[c]).line) \/ MshrRoom(c))
PrefetchReady(c) ==
  pq[c] # <<>> /\ (Known(c, Head(pq[c]).line) \/ (MshrRoom(c) /\ LowerHasRoom(c)))
StoreReady == wq["L1D"] # <<>> /\ (Known("L1D", Head(wq["L1D"]).line) \/ MshrRoom("L1D"))

SomeHandlerReady ==
  \/ \E c \in Caches : FillReady(c) \/ ReadReady(c) \/ PrefetchReady(c)
  \/ StoreReady \/ wq["L2C"] # <<>> \/ llc # {}

\* The caches never all wait for each other: while a load or fetch of the core is
\* unanswered, or anything else is under way, a handler can go on.
NeverStuck == (Work > 0 \/ \E u \in L1 : pending[u] # {}) => SomeHandlerReady

\* Every load and fetch of the core completes: the DEADLOCK_CYCLE check of the
\* main loop, which asserts when the head of the ROB does not, never fires.
DemandsComplete == \A u \in L1, a \in Lines : a \in pending[u] ~> a \notin pending[u]
=============================================================================
