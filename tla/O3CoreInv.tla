------------------------------- MODULE O3CoreInv -------------------------------
(* The inductive invariant of O3Core.  CoreInv says what the reorder buffer,   *)
(* its links and the ready rings are, MemInv what the queues, the store-address*)
(* array and the requests are, each as predicates of the parts of the state    *)
(* they are about, so that a step is proved part by part (O3CoreProofs).       *)
EXTENDS O3Core

--------------------------------------------------------------------------------
(* The reorder buffer: an instruction is where its number says *)

SlotOf(n) == (n - 1) % ROB_SIZE

(* The instructions ret + 1 .. disp are in the buffer, each in the slot its    *)
(* number gives, and the other slots are empty.                                *)
Holds(ent, ret, disp) ==
  /\ ret \in Nat /\ disp \in Nat /\ ret =< disp /\ disp =< ret + ROB_SIZE
  /\ \A i \in Slots : ent[i].id # 0 => ent[i].id \in ret + 1 .. disp /\ SlotOf(ent[i].id) = i
  /\ \A n \in ret + 1 .. disp : ent[SlotOf(n)].id = n

(* What the reorder buffer is; and its entries, whatever the memory fields say.*)
BufferShape ==
  /\ DOMAIN ROB = {"entry", "head", "tail", "occupancy", "next_schedule"}
  /\ DOMAIN ROB.entry = Slots
  /\ \A i \in Slots : DOMAIN ROB.entry[i] = DOMAIN EmptyEntry
  /\ ROB.head = retired % ROB_SIZE /\ ROB.tail = dispatched % ROB_SIZE
  /\ ROB.occupancy = dispatched - retired

TraceInv == prog \in Programs /\ read \in Nat /\ dispatched =< read /\ read =< Len(prog)

--------------------------------------------------------------------------------
(* Dependences *)

(* What has not completed; the links to an instruction from what has not. *)
Waits(ent)    == {i \in Slots : ent[i].id # 0 /\ ent[i].executed # COMPLETED}
RegIn(ent, i) == {x \in Waits(ent) \X (Slots \X Nat) : x[2] \in ent[x[1]].regOut /\ x[2][1] = i}
MemIn(ent, i) == {q \in Waits(ent) : i \in ent[q].memOut}

(* The fields of an entry that dependences are kept in. *)
CoreType(ent) == \A i \in Slots :
  /\ ent[i].id \in Nat /\ ent[i].scheduled \in {NotYet, INFLIGHT, COMPLETED}
  /\ ent[i].executed \in {NotYet, INFLIGHT, COMPLETED} /\ ent[i].reg_ready \in BOOLEAN
  /\ ent[i].num_reg_dependent \in Nat /\ ent[i].num_lsq_dependent \in Nat
  /\ ent[i].regOut \in SUBSET (Slots \X Nat) /\ ent[i].memOut \in SUBSET Slots

(* Links lead to younger instructions that are scheduled. *)
Later(ent, q, i) ==
  i \in Slots /\ ent[i].id # 0 /\ ent[q].id < ent[i].id /\ ent[i].scheduled # NotYet
Linked(ent) == \A q \in Waits(ent) :
  /\ \A l \in ent[q].regOut : Later(ent, q, l[1])
  /\ \A i \in ent[q].memOut : Later(ent, q, i)

(* The counters count the links. *)
Counted(ent) == \A i \in Slots :
  /\ IsFiniteSet(RegIn(ent, i))
  /\ ent[i].num_reg_dependent = Cardinality(RegIn(ent, i))
  /\ ent[i].num_lsq_dependent = Cardinality(MemIn(ent, i))
  /\ ent[i].reg_ready <=> ent[i].scheduled # NotYet /\ RegIn(ent, i) = {}

(* What starts is in the buffer, is scheduled and waits for nothing. *)
Started(ent) == \A i \in Slots :
  /\ ent[i].scheduled # NotYet => ent[i].id # 0
  /\ ent[i].executed # NotYet => /\ ent[i].scheduled # NotYet
                                 /\ RegIn(ent, i) = {} /\ MemIn(ent, i) = {}

(* Scheduling follows the program. *)
InTurn(ent) == \A i, k \in Slots :
  ent[k].id # 0 /\ ent[k].id < ent[i].id /\ ent[i].scheduled # NotYet => ent[k].scheduled # NotYet

(* What a scheduled instruction needs has completed or links to it. *)
Writes(p, n, j, k) == k \in 1 .. n - 1 /\ p[k].asid = p[n].asid /\ p[n].src[j] \in Range(p[k].dst)
LastWrites(p, n, j, k) == Writes(p, n, j, k) /\ \A m : Writes(p, n, j, m) => m =< k
Precedes(p, n, k) == k \in 1 .. n - 1 /\ IsMemory(p[n]) /\ Hazard(p[k], p[n])
Done(ent, ret, k) == k =< ret \/ ent[SlotOf(k)].executed = COMPLETED
Covered(p, ent, ret) == \A i \in Slots : ent[i].scheduled # NotYet =>
  /\ \A j \in DOMAIN p[ent[i].id].src, k \in Nat :
       LastWrites(p, ent[i].id, j, k) => Done(ent, ret, k) \/ <<i, j>> \in ent[SlotOf(k)].regOut
  /\ \A k \in Nat :
       Precedes(p, ent[i].id, k) => Done(ent, ret, k) \/ i \in ent[SlotOf(k)].memOut

Deps(p, ent, ret) ==
  Linked(ent) /\ Counted(ent) /\ Started(ent) /\ InTurn(ent) /\ Covered(p, ent, ret)

(* Only memory instructions wait for memory links. *)
MemLinks(p, ent) == \A i \in Slots :
  ent[i].num_lsq_dependent # 0 => IsMemory(p[ent[i].id])

--------------------------------------------------------------------------------
(* Ready to execute *)

(* No element is twice in the sequence. *)
Once(s) == \A k, l \in DOMAIN s : s[k] = s[l] => k = l

(* An instruction without memory operands whose sources are there. *)
Due(p, ent, i) ==
  /\ ent[i].id # 0 /\ ~IsMemory(p[ent[i].id])
  /\ ent[i].reg_ready /\ ent[i].executed = NotYet

(* Each of them is in one place of one ring, and nothing else is. *)
RingsHold(p, ent, r0, r1) ==
  /\ r0 \in Seq(Slots) /\ r1 \in Seq(Slots) /\ Once(r0) /\ Once(r1)
  /\ Range(r0) \cap Range(r1) = {}
  /\ \A i \in Slots : i \in Range(r0) \cup Range(r1) <=> Due(p, ent, i)

CoreInv ==
  /\ TraceInv /\ BufferShape
  /\ Holds(ROB.entry, retired, dispatched) /\ CoreType(ROB.entry)
  /\ Deps(prog, ROB.entry, retired) /\ MemLinks(prog, ROB.entry)
  /\ RingsHold(prog, ROB.entry, RTE0, RTE1)

--------------------------------------------------------------------------------
(* Stores: STA and the store queue *)

(* The number of the k-th store of instruction m. *)
Nth(p, m, k) == StoresBefore(p, m - 1) + k
IsStore(p, m, k) == m \in 1 .. Len(p) /\ k \in 1 .. Len(p[m].st)

StaSlots == 0 .. STA_SIZE - 1
StaPlace(g) == (g - 1) % STA_SIZE

(* Stores e + 1 and up of the instructions 1 .. r are in STA, in order. *)
Pending(p, e, r, m, k) == IsStore(p, m, k) /\ m =< r /\ Nth(p, m, k) > e
StaHolds(p, e, r, sta) ==
  /\ e \in Nat /\ r \in 0 .. Len(p) /\ e =< StoresBefore(p, r)
  /\ StoresBefore(p, r) =< e + STA_SIZE
  /\ DOMAIN sta = {"entry", "head", "tail"} /\ DOMAIN sta.entry = StaSlots
  /\ sta.head = e % STA_SIZE /\ sta.tail = StoresBefore(p, r) % STA_SIZE
  /\ \A m, k : Pending(p, e, r, m, k) => sta.entry[StaPlace(Nth(p, m, k))] = m
  /\ \A s \in StaSlots : sta.entry[s] # 0 =>
       \E m, k : Pending(p, e, r, m, k) /\ s = StaPlace(Nth(p, m, k)) /\ sta.entry[s] = m

SqSlots == 0 .. SQ_SIZE - 1
QueuePlace(g) == (g - 1) % SQ_SIZE

(* The stores up to number e of the instructions after ret, each in the place  *)
(* that its number gives.                                                      *)
InQueue(p, ret, e, m, k) == IsStore(p, m, k) /\ m > ret /\ Nth(p, m, k) =< e
IsEntryOf(x, m, k) == x.id = m /\ x.op = k /\ x.rob_index = SlotOf(m)
SqHolds(p, ret, e, sq) ==
  /\ ret \in 0 .. Len(p) /\ e \in Nat /\ StoresBefore(p, ret) =< e
  /\ e =< StoresBefore(p, ret) + SQ_SIZE
  /\ DOMAIN sq = {"entry", "occupancy", "head", "tail"} /\ sq.entry \in [SqSlots -> QueueSlot]
  /\ sq.occupancy = e - StoresBefore(p, ret)
  /\ sq.head = StoresBefore(p, ret) % SQ_SIZE /\ sq.tail = e % SQ_SIZE
  /\ \A m, k : InQueue(p, ret, e, m, k) => IsEntryOf(sq.entry[QueuePlace(Nth(p, m, k))], m, k)
  /\ \A s \in SqSlots : sq.entry[s].id # 0 =>
       \E m, k : InQueue(p, ret, e, m, k) /\ s = QueuePlace(Nth(p, m, k))

(* sq_index of instruction n names the places of those of its stores that are  *)
(* numbered up to e.                                                           *)
HasIndex(p, n, q, e) ==
  /\ q \in Seq(SqSlots) /\ Len(q) =< Len(p[n].st)
  /\ \A k \in 1 .. Len(p[n].st) : k =< Len(q) <=> Nth(p, n, k) =< e
  /\ \A k \in 1 .. Len(q) : q[k] = QueuePlace(Nth(p, n, k))

(* Stores in the queue, waiting or fetched, and their instructions agree. *)
StoresHold(p, ent, ret, disp, e, sq) ==
  /\ SqHolds(p, ret, e, sq) /\ disp \in 0 .. Len(p) /\ e =< StoresBefore(p, disp)
  /\ \A i \in Slots : ent[i].id # 0 => HasIndex(p, ent[i].id, ent[i].sq_index, e)

--------------------------------------------------------------------------------
(* Loads, and what an instruction still has to do *)

LqSlots == 0 .. LQ_SIZE - 1
Busy(q) == {s \in DOMAIN q.entry : q.entry[s].id # 0}

(* Each occupied entry is of a load that the instruction in its slot of the    *)
(* reorder buffer has added, and no two are of the same load.                  *)
LoadOf(lq, s, i, k) == lq.entry[s].rob_index = i /\ lq.entry[s].op = k
LqHolds(ent, lq) ==
  /\ DOMAIN lq = {"entry", "occupancy"} /\ lq.entry \in [LqSlots -> QueueSlot]
  /\ lq.occupancy = Cardinality(Busy(lq))
  /\ \A s \in Busy(lq) : /\ ent[lq.entry[s].rob_index].id = lq.entry[s].id
                         /\ lq.entry[s].op \in ent[lq.entry[s].rob_index].source_added
  /\ \A s, t \in Busy(lq) : LoadOf(lq, t, lq.entry[s].rob_index, lq.entry[s].op) => s = t

(* The loads and stores of instruction x, in slot i, that are not done: those  *)
(* that have no queue entry yet and those that wait in one.                    *)
LoadsLeft(p, x, i, lq) ==
  {k \in 1 .. Len(p[x.id].ld) : k \notin x.source_added \/ \E s \in Busy(lq) : LoadOf(lq, s, i, k)}
StoresLeft(p, x, sq) ==
  {k \in 1 .. Len(p[x.id].st) : k > Len(x.sq_index) \/ ~sq.entry[x.sq_index[k]].fetched}

(* num_mem_ops counts them; executed says how far they are. *)
AllAdded(p, x) == x.source_added = 1 .. Len(p[x.id].ld) /\ Len(x.sq_index) = Len(p[x.id].st)
OpsOf(p, x, i, lq, sq) ==
  /\ x.id = 0 => x.num_mem_ops = 0 /\ x.source_added = {} /\ x.sq_index = <<>>
  /\ x.id # 0 =>
       /\ x.source_added \subseteq 1 .. Len(p[x.id].ld)
       /\ x.num_mem_ops = Cardinality(LoadsLeft(p, x, i, lq)) + Cardinality(StoresLeft(p, x, sq))
       /\ x.executed = NotYet /\ IsMemory(p[x.id]) => ~AllAdded(p, x)
       /\ x.executed # NotYet => AllAdded(p, x)
       /\ x.executed = COMPLETED => x.num_mem_ops = 0
OpsHold(p, ent, lq, sq) == \A i \in Slots : OpsOf(p, ent[i], i, lq, sq)

--------------------------------------------------------------------------------
(* Where a queue entry waits; the counters; the write queue *)

(* Q are the queue entries that wait: each is in one place of the ring r0,     *)
(* among the translations T, in one place of the ring r1, or among the data    *)
(* requests D, and nothing else is there.                                      *)
InOnePlace(S, r0, T, r1, D, Q) ==
  /\ r0 \in Seq(S) /\ r1 \in Seq(S) /\ Once(r0) /\ Once(r1)
  /\ T \subseteq S /\ D \subseteq S /\ Q \subseteq S
  /\ \A s \in S :
       /\ s \in Q <=> s \in Range(r0) \/ s \in T \/ s \in Range(r1) \/ s \in D
       /\ s \in Range(r0) => s \notin T /\ s \notin Range(r1) /\ s \notin D
       /\ s \in T => s \notin Range(r1) /\ s \notin D
       /\ s \in Range(r1) => s \notin D

(* The requests of one kind at the DTLB. *)
DtlbType(T) == T \subseteq ({"LOAD"} \X LqSlots) \cup ({"RFO"} \X SqSlots)
Asked(T, type) == {u[2] : u \in {t \in T : t[1] = type}}

RegRun(p, ent)  == {i \in Slots : /\ ent[i].id # 0 /\ ~IsMemory(p[ent[i].id])
                                  /\ ent[i].executed = INFLIGHT}
MemRun(p, ent)  == {i \in Slots : /\ ent[i].id # 0 /\ IsMemory(p[ent[i].id])
                                  /\ ent[i].executed = INFLIGHT /\ ent[i].num_mem_ops = 0}
DoneIn(ent)     == {i \in Slots : ent[i].id # 0 /\ ent[i].executed = COMPLETED}

CountersHold(p, ent, r, m, c) ==
  r = Cardinality(RegRun(p, ent)) /\ m = Cardinality(MemRun(p, ent)) /\ c = Cardinality(DoneIn(ent))

(* The write queue of the L1D holds fetched stores of retired instructions, in *)
(* program order.                                                              *)
InOrder(x, y) == x.id < y.id \/ (x.id = y.id /\ x.op < y.op)
WqHolds(ret, w) ==
  /\ w \in Seq(QueueSlot)
  /\ \A k \in 1 .. Len(w) : w[k].fetched /\ w[k].id =< ret
  /\ \A k \in 1 .. Len(w) - 1 : InOrder(w[k], w[k + 1])

--------------------------------------------------------------------------------
(* The memory side *)

(* The number of the last store that has entered the store queue. *)
Entered == StoresBefore(prog, retired) + SQ.occupancy
Unfetched(sq) == {s \in Busy(sq) : ~sq.entry[s].fetched}

StoreInv ==
  /\ StaHolds(prog, Entered, read, STA)
  /\ StoresHold(prog, ROB.entry, retired, dispatched, Entered, SQ)
LoadInv == LqHolds(ROB.entry, LQ)
OpsInv == OpsHold(prog, ROB.entry, LQ, SQ)
PlaceInv ==
  /\ DtlbType(dtlb)
  /\ InOnePlace(LqSlots, RTL0, Asked(dtlb, "LOAD"), RTL1, l1d, Busy(LQ))
  /\ InOnePlace(SqSlots, RTS0, Asked(dtlb, "RFO"), RTS1, {}, Unfetched(SQ))
CountInv == CountersHold(prog, ROB.entry, inflight_reg_executions, inflight_mem_executions,
                         completed_executions)
WqInv == WqHolds(retired, wq)
MemInv == StoreInv /\ LoadInv /\ OpsInv /\ PlaceInv /\ CountInv /\ WqInv

(* The stores of every program fit into STA.  Not every program has room: the  *)
(* assumption under which the memory side is proved.                           *)
StoreRoom == \A p \in Programs : StoresFit(p)

--------------------------------------------------------------------------------
(* Types *)

(* The entries are records, whatever their fields hold. *)
IsRecord(e) == e = [f \in DOMAIN EmptyEntry |-> e[f]]
Records ==
  /\ ROB.entry = [i \in Slots |-> ROB.entry[i]]
  /\ \A i \in Slots : IsRecord(ROB.entry[i])
  /\ ROB.next_schedule \in Slots
================================================================================
