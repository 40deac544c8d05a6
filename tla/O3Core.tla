-------------------------------- MODULE O3Core --------------------------------
(* One out-of-order core (O3_CPU, src/ooo_cpu.cc): the reorder buffer with its *)
(* register and memory dependence lists, the ready-to-execute rings, the load  *)
(* and store queues with their ready rings, the store-address array STA, and   *)
(* in-order retirement into the L1D write queue.                               *)
(*                                                                             *)
(* Each action is one turn of a handler's loop.  How many turns a loop takes   *)
(* in a cycle is a matter of widths and of event_cycle, so any of the code's   *)
(* counts is a sequence of these actions.  The DTLB and the L1D are the sets   *)
(* of requests they hold; they answer in any order (module CacheHierarchy).    *)
EXTENDS Integers, FiniteSets, Sequences, SequencesExt

CONSTANTS
  Programs,        \* the traces considered: sequences of instructions
  ROB_SIZE, LQ_SIZE, SQ_SIZE,
  STA_SIZE,        \* ROB_SIZE times the destinations of an instruction
  SCHEDULER_SIZE,  \* ROB entries a scheduling pass looks at
  FRONT_END,       \* instructions IFETCH_BUFFER and DECODE_BUFFER hold
  WQ_SIZE          \* the L1D write queue

(* An instruction: its source registers, the registers it writes, the          *)
(* addresses it loads and stores, and its hardware thread (asid[0]).           *)
IsSequence(s) == s \in Seq(Range(s))
IsInstruction(x) ==
  /\ DOMAIN x = {"src", "dst", "ld", "st", "asid"}
  /\ IsSequence(x.src) /\ IsSequence(x.dst) /\ IsSequence(x.ld) /\ IsSequence(x.st)

ASSUME SizesAssumption ==
  /\ {ROB_SIZE, LQ_SIZE, SQ_SIZE, STA_SIZE, SCHEDULER_SIZE, FRONT_END, WQ_SIZE}
       \subseteq Nat \ {0}
ASSUME ProgramsAssumption ==
  \A p \in Programs : IsSequence(p) /\ \A k \in 1..Len(p) :
    /\ IsInstruction(p[k])
    /\ \A size \in {SQ_SIZE, WQ_SIZE, STA_SIZE} : Len(p[k].st) =< size

VARIABLES
  prog,                     \* the trace this core executes
  read, dispatched,         \* instructions read from it, and put in the ROB
  retired,                  \* num_retired
  ROB,                      \* [entry, head, tail, occupancy, next_schedule]
  RTE0, RTE1,               \* ready-to-execute rings of ROB indices
  LQ, SQ,                   \* load queue, store queue
  RTL0, RTL1, RTS0, RTS1,   \* their ready rings: to translate, to execute
  STA,                      \* ids of the stores that have no SQ entry yet
  dtlb, l1d, wq,            \* requests at the DTLB and the L1D; L1D.WQ
  inflight_reg_executions, inflight_mem_executions, completed_executions,
  aborted                   \* an assertion has ended the process

frontVars == <<prog, read, dispatched>>
rings     == <<RTE0, RTE1, RTL0, RTL1, RTS0, RTS1>>
counters  == <<inflight_reg_executions, inflight_mem_executions,
               completed_executions>>
coreVars  == <<frontVars, retired, ROB, rings, LQ, SQ, STA, dtlb, l1d, wq, counters>>
vars == <<coreVars, aborted>>

--------------------------------------------------------------------------------
(* Entries *)

Slots == 0 .. ROB_SIZE - 1
INFLIGHT  == "inflight"
COMPLETED == "completed"
NotYet    == "0"

(* id is the position in the trace, 0 in an empty entry.  regOut holds          *)
(* <<consumer, source>> pairs, memOut consumers.                               *)
EmptyEntry ==
  [id |-> 0, scheduled |-> NotYet, executed |-> NotYet, reg_ready |-> FALSE,
   num_reg_dependent |-> 0, num_lsq_dependent |-> 0, num_mem_ops |-> 0,
   regOut |-> {}, memOut |-> {}, source_added |-> {}, sq_index |-> <<>>]

FreeSlot == [id |-> 0, rob_index |-> 0, op |-> 0, fetched |-> FALSE]

NumMemOps(ins) == Len(ins.ld) + Len(ins.st)
IsMemory(ins)  == NumMemOps(ins) > 0

Instr(i) == prog[ROB.entry[i].id]
Live     == {i \in Slots : ROB.entry[i].id # 0}
Age(i)   == (i - ROB.head + ROB_SIZE) % ROB_SIZE
Older(i) == {p \in Live : Age(p) < Age(i)}

(* The numbers of a set, smallest first.                                       *)
Ascending(S) ==
  [k \in 1 .. Cardinality(S) |-> CHOOSE x \in S : Cardinality({y \in S : y < x}) = k - 1]

--------------------------------------------------------------------------------
(* Dependences: as functions of two instructions, used by the reorder buffer   *)
(* over its entries and by the abstract specification over the whole program.  *)

Meets(s, t) == Range(s) \cap Range(t) # {}

(* lsq_dependency: register RAW and WAR, memory RAW and WAR; never WAW. *)
Hazard(older, current) ==
  /\ older.asid = current.asid
  /\ \/ Meets(older.dst, current.src)
     \/ Meets(older.src, current.dst)
     \/ Meets(older.st, current.ld)
     \/ Meets(older.ld, current.st)

(* reg_RAW_dependency: the youngest unfinished older writer of source j.       *)
Writers(i, j) ==
  {p \in Older(i) : /\ ROB.entry[p].executed # COMPLETED
                    /\ Instr(p).asid = Instr(i).asid
                    /\ Instr(i).src[j] \in Range(Instr(p).dst)}
Producers(i, j) ==
  {p \in Writers(i, j) : \A q \in Writers(i, j) : Age(q) =< Age(p)}

RegLinks(i, p) == {j \in DOMAIN Instr(i).src : p \in Producers(i, j)}
RegDependent(i) == {j \in DOMAIN Instr(i).src : Writers(i, j) # {}}

MemProducersNotStarted(i) ==      \* variant: an executing producer is overlooked
  {p \in Older(i) : /\ IsMemory(Instr(i))
                    /\ ROB.entry[p].executed = NotYet
                    /\ Hazard(Instr(p), Instr(i))}

MemProducersCompletedToo(i) ==    \* variant: completed producers are counted
  {p \in Older(i) : IsMemory(Instr(i)) /\ Hazard(Instr(p), Instr(i))}

MemProducers(i) ==
  {p \in Older(i) : /\ IsMemory(Instr(i))
                    /\ ROB.entry[p].executed # COMPLETED
                    /\ Hazard(Instr(p), Instr(i))}

--------------------------------------------------------------------------------
(* Trace to reorder buffer *)

(* No step is taken after a failed assertion. *)
Running == ~aborted /\ UNCHANGED aborted

FrontEndHasRoom == read - dispatched < FRONT_END

(* The new stores take the next places of the STA ring.  A place that is taken *)
(* is an error, except the one at the head: in a full ring head equals tail.   *)
NewStores == Len(prog[read + 1].st)
NewPlace(k) == (STA.tail + k) % STA_SIZE
MayRead == read < Len(prog) /\ FrontEndHasRoom
StaAssertionFails ==
  \E k \in 0 .. NewStores - 1 : NewPlace(k) # STA.head /\ STA.entry[NewPlace(k)] # 0

ReadFromTrace ==
  /\ Running
  /\ MayRead
  /\ ~StaAssertionFails
  /\ read' = read + 1
  /\ STA' = [STA EXCEPT
       !.entry = [s \in DOMAIN @ |->
                    IF \E k \in 0 .. NewStores - 1 : NewPlace(k) = s THEN read + 1 ELSE @[s]],
       !.tail = NewPlace(NewStores)]
  /\ UNCHANGED <<prog, dispatched, retired, ROB, rings, LQ, SQ, dtlb, l1d, wq, counters>>

(* assert(0): the process ends, whatever was written before it. *)
AbortInReader ==
  /\ ~aborted
  /\ MayRead
  /\ StaAssertionFails
  /\ aborted' = TRUE
  /\ UNCHANGED coreVars

DispatchWithoutRoom ==            \* variant: the occupancy is not looked at
  /\ Running
  /\ dispatched < read
  /\ dispatched' = dispatched + 1
  /\ ROB' = [ROB EXCEPT
       !.entry[ROB.tail] = [EmptyEntry EXCEPT
                              !.id = dispatched + 1,
                              !.num_mem_ops = NumMemOps(prog[dispatched + 1])],
       !.occupancy = @ + 1,
       !.tail = (@ + 1) % ROB_SIZE]
  /\ UNCHANGED <<prog, read, retired, rings, LQ, SQ, STA, dtlb, l1d, wq, counters>>

DecodeAndDispatch ==
  /\ Running
  /\ dispatched < read
  /\ ROB.occupancy < ROB_SIZE
  /\ dispatched' = dispatched + 1
  /\ ROB' = [ROB EXCEPT
       !.entry[ROB.tail] = [EmptyEntry EXCEPT
                              !.id = dispatched + 1,
                              !.num_mem_ops = NumMemOps(prog[dispatched + 1])],
       !.occupancy = @ + 1,
       !.tail = (@ + 1) % ROB_SIZE]
  /\ UNCHANGED <<prog, read, retired, rings, LQ, SQ, STA, dtlb, l1d, wq, counters>>

--------------------------------------------------------------------------------
(* Scheduling: dependences are recorded in program order *)

(* The loop bound is ROB.next_fetch[1], which no code ever sets: it stays 0,   *)
(* so the scan runs from head to the end of the array and never wraps.         *)
next_fetch_1 == 0
ScheduleScan == {i \in Slots : IF ROB.head < next_fetch_1
                               THEN i \in ROB.head .. next_fetch_1 - 1
                               ELSE i >= ROB.head \/ i < next_fetch_1}

(* A pass stops at the first entry that is empty or not due, here after n.     *)
(* The entries it schedules all see the same older entries.                    *)
ScheduleInstruction(n) ==
  LET Reach == {i \in ScheduleScan : Age(i) < n}
      New   == {i \in Reach : ROB.entry[i].scheduled = NotYet}
      Scheduled(i) ==
        [ROB.entry[i] EXCEPT
           !.reg_ready = RegDependent(i) = {},
           !.num_reg_dependent = Cardinality(RegDependent(i)),
           !.num_lsq_dependent = Cardinality(MemProducers(i)),
           !.scheduled = IF IsMemory(Instr(i)) THEN INFLIGHT ELSE COMPLETED]
      WithLinks(p) ==
        [(IF p \in New THEN Scheduled(p) ELSE ROB.entry[p]) EXCEPT
           !.regOut = @ \cup UNION {{i} \X RegLinks(i, p) : i \in New},
           !.memOut = @ \cup {i \in New : p \in MemProducers(i)}]
  IN
  /\ Running
  /\ ROB.entry[ROB.next_schedule].scheduled = NotYet
  /\ Cardinality(Reach) = n
  /\ Reach \subseteq Live /\ New # {}
  /\ ROB' = [ROB EXCEPT
       !.entry = [p \in Slots |-> WithLinks(p)],
       !.next_schedule = (Max(New) + 1) % ROB_SIZE]
  /\ RTE1' = RTE1 \o Ascending({i \in New : /\ ~IsMemory(Instr(i))
                                            /\ RegDependent(i) = {}})
  /\ UNCHANGED <<frontVars, retired, RTE0, RTL0, RTL1, RTS0, RTS1, LQ, SQ, STA,
                 dtlb, l1d, wq, counters>>

(* do_execution: the head of a ready ring starts. *)
DoExecution(i) ==
  /\ Running
  /\ ROB' = [ROB EXCEPT !.entry[i].executed = INFLIGHT]
  /\ inflight_reg_executions' = inflight_reg_executions + 1
  /\ UNCHANGED <<frontVars, retired, RTL0, RTL1, RTS0, RTS1, LQ, SQ, STA, dtlb,
                 l1d, wq, inflight_mem_executions, completed_executions>>

ExecuteRTE0 ==
  /\ RTE0 # <<>>
  /\ DoExecution(Head(RTE0))
  /\ RTE0' = Tail(RTE0)
  /\ UNCHANGED RTE1

ExecuteRTE1 ==
  /\ RTE1 # <<>>
  /\ DoExecution(Head(RTE1))
  /\ RTE1' = Tail(RTE1)
  /\ UNCHANGED RTE0

--------------------------------------------------------------------------------
(* Memory scheduling: entries in the load and store queues *)

FreeLQ == {s \in DOMAIN LQ.entry : LQ.entry[s].id = 0}

LoadsToAddAllOrNone(i) ==         \* variant: all loads at once or none
  LET missing == (1 .. Len(Instr(i).ld)) \ ROB.entry[i].source_added
  IN IF Cardinality(missing) =< LQ_SIZE - LQ.occupancy THEN Ascending(missing) ELSE <<>>

LoadsToAdd(i) ==
  LET missing == (1 .. Len(Instr(i).ld)) \ ROB.entry[i].source_added
      room == LQ_SIZE - LQ.occupancy
  IN SubSeq(Ascending(missing), 1, Min({room, Cardinality(missing)}))

(* A store enters the queue only when it is the oldest in STA. *)
AtStaHead(i) ==
  {k \in 0 .. STA_SIZE - 1 :
     \A l \in 0 .. k : STA.entry[(STA.head + l) % STA_SIZE] = ROB.entry[i].id}
StoresToAddAnyOrder(i) ==         \* variant: STA is not looked at
  Min({Len(Instr(i).st) - Len(ROB.entry[i].sq_index), SQ_SIZE - SQ.occupancy})

StoresToAdd(i) ==
  Min({Len(Instr(i).st) - Len(ROB.entry[i].sq_index),
       SQ_SIZE - SQ.occupancy, Cardinality(AtStaHead(i))})

(* The scan runs from head to next_schedule. *)
MemoryReady(i) ==
  /\ i \in Live
  /\ ROB.next_schedule = ROB.head \/ Age(i) < Age(ROB.next_schedule)
  /\ IsMemory(Instr(i))
  /\ ROB.entry[i].reg_ready
  /\ ROB.entry[i].num_lsq_dependent = 0
  /\ ROB.entry[i].scheduled = INFLIGHT

CanAdd(i) == MemoryReady(i) /\ (LoadsToAdd(i) # <<>> \/ StoresToAdd(i) > 0)

(* check_and_add_lsq takes every queue entry it can; a pass serves the older   *)
(* instruction first, so a younger one comes when no older one can add more.   *)
ScheduleMemory(i) ==
  LET loads  == LoadsToAdd(i)
      slots  == SubSeq(Ascending(FreeLQ), 1, Len(loads))
      stores == StoresToAdd(i)
      SqPlace(k) == (SQ.tail + k) % SQ_SIZE
      NewSq == [k \in 1 .. stores |-> SqPlace(k - 1)]
      first == Len(ROB.entry[i].sq_index)
      entry == [ROB.entry[i] EXCEPT
                  !.source_added = @ \cup Range(loads),
                  !.sq_index = @ \o NewSq]
      all   == /\ Cardinality(entry.source_added) = Len(Instr(i).ld)
               /\ Len(entry.sq_index) = Len(Instr(i).st)
      New(k) == [id |-> ROB.entry[i].id, rob_index |-> i, op |-> k, fetched |-> FALSE]
  IN
  /\ Running
  /\ CanAdd(i)
  /\ \A p \in Older(i) : ~CanAdd(p)
  /\ ROB' = [ROB EXCEPT !.entry[i] =
       IF all
       THEN [entry EXCEPT !.scheduled = COMPLETED,
                          !.executed = IF @ = NotYet THEN INFLIGHT ELSE @]
       ELSE entry]
  /\ LQ' = [LQ EXCEPT
       !.entry = [s \in DOMAIN @ |-> IF s \in Range(slots)
                                     THEN New(loads[CHOOSE k \in DOMAIN slots : slots[k] = s])
                                     ELSE @[s]],
       !.occupancy = @ + Len(loads)]
  /\ SQ' = [SQ EXCEPT
       !.entry = [s \in DOMAIN @ |-> IF s \in Range(NewSq)
                                     THEN New(first + CHOOSE k \in DOMAIN NewSq : NewSq[k] = s)
                                     ELSE @[s]],
       !.occupancy = @ + stores,
       !.tail = SqPlace(stores)]
  /\ STA' = [STA EXCEPT
       !.entry = [s \in DOMAIN @ |-> IF \E k \in 0 .. stores - 1 : s = (STA.head + k) % STA_SIZE
                                     THEN 0 ELSE @[s]],
       !.head = (@ + stores) % STA_SIZE]
  /\ RTL0' = RTL0 \o slots
  /\ RTS0' = RTS0 \o NewSq
  /\ UNCHANGED <<frontVars, retired, RTE0, RTE1, RTL1, RTS1, dtlb, l1d, wq, counters>>

--------------------------------------------------------------------------------
(* operate_lsq: the heads of the ready rings go to the DTLB, then to the L1D.  *)
(* A full read queue (add_rq returns -2) leaves the ring as it is.             *)

TranslateStore ==
  /\ Running
  /\ RTS0 # <<>>
  /\ dtlb' = dtlb \cup {<<"RFO", Head(RTS0)>>}
  /\ RTS0' = Tail(RTS0)
  /\ UNCHANGED <<frontVars, retired, ROB, RTE0, RTE1, RTL0, RTL1, RTS1, LQ, SQ,
                 STA, l1d, wq, counters>>

TranslateLoad ==
  /\ Running
  /\ RTL0 # <<>>
  /\ dtlb' = dtlb \cup {<<"LOAD", Head(RTL0)>>}
  /\ RTL0' = Tail(RTL0)
  /\ UNCHANGED <<frontVars, retired, ROB, RTE0, RTE1, RTL1, RTS0, RTS1, LQ, SQ,
                 STA, l1d, wq, counters>>

(* One memory operation less for each queue entry of ops; an instruction that  *)
(* has none left is counted in inflight_mem_executions.                        *)
Finished(ops) ==
  LET n(i) == Cardinality({e \in ops : e.rob_index = i})
      done == {i \in Slots : n(i) > 0 /\ ROB.entry[i].num_mem_ops = n(i)}
      Less(i) == [ROB.entry[i] EXCEPT !.num_mem_ops = @ - n(i)]
  IN
  /\ ROB' = [ROB EXCEPT !.entry = [i \in Slots |-> Less(i)]]
  /\ inflight_mem_executions' = inflight_mem_executions + Cardinality(done)
  /\ UNCHANGED <<inflight_reg_executions, completed_executions>>

ExecuteStore ==
  LET s == Head(RTS1) IN
  /\ Running
  /\ RTS1 # <<>>
  /\ Finished({SQ.entry[s]})
  /\ SQ' = [SQ EXCEPT !.entry[s].fetched = TRUE]
  /\ RTS1' = Tail(RTS1)
  /\ UNCHANGED <<frontVars, retired, RTE0, RTE1, RTL0, RTL1, RTS0, LQ, STA, dtlb,
                 l1d, wq>>

ExecuteLoad ==
  /\ Running
  /\ RTL1 # <<>>
  /\ l1d' = l1d \cup {Head(RTL1)}
  /\ RTL1' = Tail(RTL1)
  /\ UNCHANGED <<frontVars, retired, ROB, RTE0, RTE1, RTL0, RTS0, RTS1, LQ, SQ,
                 STA, dtlb, wq, counters>>

--------------------------------------------------------------------------------
(* complete_data_fetch: an answer of the DTLB or the L1D, with the requests    *)
(* that were merged into it.                                                   *)

CompleteTranslation(answer) ==
  /\ Running
  /\ answer # {} /\ answer \subseteq dtlb
  /\ dtlb' = dtlb \ answer
  /\ \E provider \in answer :
       LET merged(type) == Ascending({t[2] : t \in {u \in answer \ {provider} : u[1] = type}})
           first(type)  == IF provider[1] = type THEN <<provider[2]>> ELSE <<>>
       IN /\ RTS1' = RTS1 \o first("RFO") \o merged("RFO")
          /\ RTL1' = RTL1 \o first("LOAD") \o merged("LOAD")
  /\ UNCHANGED <<frontVars, retired, ROB, RTE0, RTE1, RTL0, RTS0, LQ, SQ, STA, l1d,
                 wq, counters>>

CompleteLoads(answer) ==
  /\ Running
  /\ answer # {} /\ answer \subseteq l1d
  /\ l1d' = l1d \ answer
  /\ Finished({LQ.entry[s] : s \in answer})
  /\ LQ' = [LQ EXCEPT
       !.entry = [s \in DOMAIN @ |-> IF s \in answer THEN FreeSlot ELSE @[s]],
       !.occupancy = @ - Cardinality(answer)]
  /\ UNCHANGED <<frontVars, retired, rings, SQ, STA, dtlb, wq>>

--------------------------------------------------------------------------------
(* complete_execution: an instruction is done and releases its dependants *)

(* update_rob looks for finished instructions only while a counter says that   *)
(* there is one.                                                               *)
CompleteExecution(i) ==
  LET e == ROB.entry[i]
      freed(k)  == Cardinality({link \in e.regOut : link[1] = k})
      Ready == {k \in Slots : freed(k) > 0 /\ ROB.entry[k].num_reg_dependent = freed(k)}
      Released(k) ==
        [ROB.entry[k] EXCEPT
           !.executed = IF k = i THEN COMPLETED ELSE @,
           !.num_lsq_dependent = IF k \in e.memOut THEN @ - 1 ELSE @,
           !.num_reg_dependent = @ - freed(k),
           !.reg_ready = @ \/ k \in Ready,
           !.scheduled = IF k \in Ready
                         THEN IF IsMemory(Instr(k)) THEN INFLIGHT ELSE COMPLETED
                         ELSE @]
  IN
  /\ Running
  /\ inflight_reg_executions > 0 \/ inflight_mem_executions > 0
  /\ i \in Live
  /\ e.executed = INFLIGHT
  /\ IsMemory(Instr(i)) => e.num_mem_ops = 0
  /\ ROB' = [ROB EXCEPT !.entry = [k \in Slots |-> Released(k)]]
  /\ RTE0' = RTE0 \o Ascending({k \in Ready : ~IsMemory(Instr(k))})
  /\ IF IsMemory(Instr(i))
     THEN /\ inflight_mem_executions' = inflight_mem_executions - 1
          /\ UNCHANGED inflight_reg_executions
     ELSE /\ inflight_reg_executions' = inflight_reg_executions - 1
          /\ UNCHANGED inflight_mem_executions
  /\ completed_executions' = completed_executions + 1
  /\ UNCHANGED <<frontVars, retired, RTE1, RTL0, RTL1, RTS0, RTS1, LQ, SQ, STA,
                 dtlb, l1d, wq>>

--------------------------------------------------------------------------------
(* Retirement *)

(* The head leaves when it has completed; its stores need room in the L1D      *)
(* write queue and give their SQ entries back.                                 *)
RetireRob ==
  LET e == ROB.entry[ROB.head]
      stores == Len(Instr(ROB.head).st)
  IN
  /\ Running
  /\ ROB.head \in Live
  /\ e.executed = COMPLETED
  /\ Len(wq) + stores =< WQ_SIZE
  /\ wq' = wq \o [k \in 1 .. stores |-> SQ.entry[e.sq_index[k]]]
  /\ SQ' = [SQ EXCEPT
       !.entry = [s \in DOMAIN @ |-> IF s \in Range(e.sq_index) THEN FreeSlot ELSE @[s]],
       !.occupancy = @ - Len(e.sq_index),
       !.head = (@ + Len(e.sq_index)) % SQ_SIZE]
  /\ ROB' = [ROB EXCEPT !.entry[ROB.head] = EmptyEntry,
                        !.head = (@ + 1) % ROB_SIZE,
                        !.occupancy = @ - 1]
  /\ completed_executions' = completed_executions - 1
  /\ retired' = retired + 1
  /\ UNCHANGED <<frontVars, rings, LQ, STA, dtlb, l1d, inflight_reg_executions,
                 inflight_mem_executions>>

(* The L1D takes the oldest write. *)
L1dTakesWrite ==
  /\ Running
  /\ wq # <<>>
  /\ wq' = Tail(wq)
  /\ UNCHANGED <<frontVars, retired, ROB, rings, LQ, SQ, STA, dtlb, l1d, counters>>

(* The program repeats its trace for ever; the model stops after one reading.  *)
TraceEnds ==
  /\ retired = Len(prog) /\ wq = <<>>
  /\ UNCHANGED vars

--------------------------------------------------------------------------------
Init ==
  /\ prog \in Programs
  /\ read = 0 /\ dispatched = 0 /\ retired = 0
  /\ ROB = [entry |-> [i \in Slots |-> EmptyEntry], head |-> 0, tail |-> 0,
            occupancy |-> 0, next_schedule |-> 0]
  /\ LQ = [entry |-> [s \in 0 .. LQ_SIZE - 1 |-> FreeSlot], occupancy |-> 0]
  /\ SQ = [entry |-> [s \in 0 .. SQ_SIZE - 1 |-> FreeSlot], occupancy |-> 0,
           head |-> 0, tail |-> 0]
  /\ STA = [entry |-> [s \in 0 .. STA_SIZE - 1 |-> 0], head |-> 0, tail |-> 0]
  /\ RTE0 = <<>> /\ RTE1 = <<>>
  /\ RTL0 = <<>> /\ RTL1 = <<>> /\ RTS0 = <<>> /\ RTS1 = <<>>
  /\ dtlb = {} /\ l1d = {} /\ wq = <<>>
  /\ inflight_reg_executions = 0 /\ inflight_mem_executions = 0
  /\ completed_executions = 0
  /\ aborted = FALSE

Schedule  == \E n \in 1 .. SCHEDULER_SIZE : ScheduleInstruction(n)
MemorySchedule == \E i \in Slots : ScheduleMemory(i)
Complete(i) == CompleteExecution(i)
DtlbAnswers == \E answer \in SUBSET dtlb : CompleteTranslation(answer)
L1dAnswers == \E answer \in SUBSET l1d : CompleteLoads(answer)

Next ==
  \/ ReadFromTrace \/ AbortInReader \/ DecodeAndDispatch
  \/ Schedule \/ ExecuteRTE0 \/ ExecuteRTE1
  \/ MemorySchedule
  \/ TranslateStore \/ TranslateLoad \/ ExecuteStore \/ ExecuteLoad
  \/ DtlbAnswers \/ L1dAnswers
  \/ \E i \in Slots : Complete(i)
  \/ RetireRob \/ L1dTakesWrite
  \/ TraceEnds

Spec == Init /\ [][Next]_vars

(* The simulation loop calls every handler in every cycle (main.cc:2114-2168), *)
(* event cycles pass, and a full cache queue drains (CacheHierarchy).          *)
Fairness ==
  /\ WF_vars(ReadFromTrace) /\ WF_vars(AbortInReader) /\ WF_vars(DecodeAndDispatch)
  /\ WF_vars(Schedule) /\ WF_vars(ExecuteRTE0) /\ WF_vars(ExecuteRTE1)
  /\ WF_vars(MemorySchedule)
  /\ WF_vars(TranslateStore) /\ WF_vars(TranslateLoad)
  /\ WF_vars(ExecuteStore) /\ WF_vars(ExecuteLoad)
  /\ WF_vars(DtlbAnswers) /\ WF_vars(L1dAnswers)
  /\ \A i \in Slots : WF_vars(Complete(i))
  /\ WF_vars(RetireRob) /\ WF_vars(L1dTakesWrite)

FairSpec == Spec /\ Fairness

--------------------------------------------------------------------------------
(* Properties *)

EntryType ==
  [id : Nat, scheduled : {NotYet, INFLIGHT, COMPLETED},
   executed : {NotYet, INFLIGHT, COMPLETED}, reg_ready : BOOLEAN,
   num_reg_dependent : Nat, num_lsq_dependent : Nat, num_mem_ops : Nat,
   regOut : SUBSET (Slots \X Nat), memOut : SUBSET Slots, source_added : SUBSET Nat,
   sq_index : Seq(0 .. SQ_SIZE - 1)]
QueueSlot == [id : Nat, rob_index : Slots, op : Nat, fetched : BOOLEAN]

(* Every field keeps its type; no counter goes below zero, no queue or ring    *)
(* holds more than its array: the assertions of ooo_cpu.cc at 421, 1054, 1208, *)
(* 1432, 1711, 1821 and 2033 hold.                                             *)
TypeOK ==
  /\ aborted \in BOOLEAN
  /\ prog \in Programs /\ retired =< dispatched /\ dispatched =< read /\ read =< Len(prog)
  /\ ROB.entry \in [Slots -> EntryType]
  /\ ROB.head \in Slots /\ ROB.tail \in Slots /\ ROB.next_schedule \in Slots
  /\ ROB.occupancy = Cardinality(Live)
  /\ LQ.entry \in [0 .. LQ_SIZE - 1 -> QueueSlot] /\ LQ.occupancy = LQ_SIZE - Cardinality(FreeLQ)
  /\ SQ.entry \in [0 .. SQ_SIZE - 1 -> QueueSlot] /\ SQ.occupancy \in 0 .. SQ_SIZE
  /\ \A ring \in {RTE0, RTE1} : ring \in Seq(Slots) /\ Len(ring) =< ROB_SIZE
  /\ \A ring \in {RTL0, RTL1} : Len(ring) =< LQ_SIZE
  /\ \A ring \in {RTS0, RTS1} : Len(ring) =< SQ_SIZE
  /\ \A n \in {inflight_reg_executions, inflight_mem_executions, completed_executions} :
       n \in 0 .. ROB_SIZE

(* The instructions executed so far: those that retired and the completed      *)
(* entries of the reorder buffer.                                              *)
Executed == 1 .. retired \cup
            {ROB.entry[i].id : i \in {k \in Live : ROB.entry[k].executed = COMPLETED}}

(* What instruction i of a program must wait for: the last writer of each      *)
(* source register and, for a memory instruction, every older hazard.          *)
LastWriters(p, i) ==
  LET W(j) == {k \in 1 .. i - 1 : p[k].asid = p[i].asid /\ p[i].src[j] \in Range(p[k].dst)}
  IN {Max(W(j)) : j \in {l \in DOMAIN p[i].src : W(l) # {}}}
Needs(p, i) ==
  LastWriters(p, i) \cup {k \in 1 .. i - 1 : IsMemory(p[i]) /\ Hazard(p[k], p[i])}

(* The core implements the data-flow machine: an instruction completes only    *)
(* after all it needs, and retirement follows the program.                     *)
Abstract == INSTANCE Dataflow WITH executed <- Executed
ImplementsDataflow == Abstract!Spec

(* The dependence counters agree with the lists of the producers that have not *)
(* completed, and those lists name only younger live entries.                  *)
DependencesCounted ==
  LET Waiting == {p \in Live : ROB.entry[p].executed # COMPLETED}
      RegIn(i) == UNION {{<<p, l>> : l \in {m \in ROB.entry[p].regOut : m[1] = i}} : p \in Waiting}
      MemIn(i) == {p \in Waiting : i \in ROB.entry[p].memOut}
  IN
  /\ \A i \in Slots :
       /\ ROB.entry[i].num_reg_dependent = Cardinality(RegIn(i))
       /\ ROB.entry[i].num_lsq_dependent = Cardinality(MemIn(i))
       /\ ROB.entry[i].reg_ready <=> ROB.entry[i].scheduled # NotYet /\ RegIn(i) = {}
  /\ \A p \in Waiting : \A i \in ROB.entry[p].memOut \cup {l[1] : l \in ROB.entry[p].regOut} :
       i \in Live /\ Age(p) < Age(i)

(* What is ready is in exactly one place on its way, so that it starts and     *)
(* finishes exactly once: an instruction without memory operands in a ready    *)
(* ring; an occupied queue entry to translate, at the DTLB, to execute or at   *)
(* the L1D; a free one in none.  A queue entry belongs to the instruction that *)
(* is in its ROB slot now (check_rob, ooo_cpu.cc:1990).                        *)
Places(ring, x) == {k \in DOMAIN ring : ring[k] = x}
QueueEntriesTracked ==
  LET One(b) == IF b THEN 1 ELSE 0
      Owner(e) == e.id # 0 => ROB.entry[e.rob_index].id = e.id
  IN
  /\ \A i \in Slots :
       Cardinality(Places(RTE0, i)) + Cardinality(Places(RTE1, i)) =
         One(/\ i \in Live /\ ~IsMemory(Instr(i)) /\ ROB.entry[i].reg_ready
             /\ ROB.entry[i].executed = NotYet)
  /\ \A s \in DOMAIN LQ.entry :
       /\ Cardinality(Places(RTL0, s)) + One(<<"LOAD", s>> \in dtlb)
            + Cardinality(Places(RTL1, s)) + One(s \in l1d) = One(LQ.entry[s].id # 0)
       /\ Owner(LQ.entry[s])
  /\ \A s \in DOMAIN SQ.entry :
       /\ Cardinality(Places(RTS0, s)) + One(<<"RFO", s>> \in dtlb)
            + Cardinality(Places(RTS1, s)) = One(SQ.entry[s].id # 0 /\ ~SQ.entry[s].fetched)
       /\ Owner(SQ.entry[s])

(* update_rob looks for finished instructions only while a counter is not      *)
(* zero: the counters are exactly the numbers of instructions that wait for it.*)
InflightCounted ==
  LET In(m, S) == {i \in Live : IsMemory(Instr(i)) = m /\ ROB.entry[i].executed \in S} IN
  /\ inflight_reg_executions = Cardinality(In(FALSE, {INFLIGHT}))
  /\ inflight_mem_executions =
       Cardinality({i \in In(TRUE, {INFLIGHT}) : ROB.entry[i].num_mem_ops = 0})
  /\ completed_executions = Cardinality({i \in Live : ROB.entry[i].executed = COMPLETED})
  /\ \A i \in In(TRUE, {NotYet}) : ROB.entry[i].num_mem_ops > 0

(* All three: what the core counts and queues is what waits.  A completion must*)
(* undo every trace of an instruction before its slots are reused.             *)
BookkeepingExact == DependencesCounted /\ QueueEntriesTracked /\ InflightCounted

(* How many stores instructions 1 .. n of a program have.                      *)
StoresBefore(p, n) == Cardinality(UNION {{m} \X (1 .. Len(p[m].st)) : m \in 1 .. n})

(* The stores of the instructions read and not retired are, in program order,  *)
(* those in the store queue followed by those in STA: the k-th store of        *)
(* instruction m is where the number of stores before it says.  What has left  *)
(* for the L1D was fetched, belongs to retired instructions and is in order.   *)
StoresInProgramOrder ==
  LET number(m, k) == StoresBefore(prog, m - 1) - StoresBefore(prog, retired) + k
      inSta == Cardinality({s \in DOMAIN STA.entry : STA.entry[s] # 0})
  IN
  /\ SQ.occupancy + inSta = StoresBefore(prog, read) - StoresBefore(prog, retired)
  /\ \A m \in retired + 1 .. read : \A k \in 1 .. Len(prog[m].st) :
       IF number(m, k) =< SQ.occupancy
       THEN LET e == SQ.entry[(SQ.head + number(m, k) - 1) % SQ_SIZE] IN e.id = m /\ e.op = k
       ELSE STA.entry[(STA.head + number(m, k) - SQ.occupancy - 1) % STA_SIZE] = m
  /\ \A k \in 1 .. Len(wq) - 1 :
       wq[k].id < wq[k + 1].id \/ (wq[k].id = wq[k + 1].id /\ wq[k].op < wq[k + 1].op)
  /\ \A k \in DOMAIN wq : wq[k].fetched /\ wq[k].id =< retired

(* The stores of the instructions the core can hold fit into STA: of those in  *)
(* the reorder buffer and of those still in the front end, which STA_SIZE does *)
(* not count.                                                                  *)
StoresFit(p) ==
  \A m, n \in 0 .. Len(p) :
    m =< n /\ n - m =< ROB_SIZE + FRONT_END => StoresBefore(p, n) - StoresBefore(p, m) =< STA_SIZE

(* Every instruction of the trace retires if its stores fit: no order of       *)
(* answers, no full queue and no store waiting for its turn in STA blocks the  *)
(* core for ever.                                                              *)
AllRetire == StoresFit(prog) => <>(retired = Len(prog))

(* The assertion of ooo_cpu.cc:69-71 and 226-229: a store read from the trace  *)
(* finds a free place in STA.                                                  *)
SanityCheckHolds == ~aborted
===============================================================================
