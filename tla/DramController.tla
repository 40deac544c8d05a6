--------------------------- MODULE DramController ---------------------------
(***************************************************************************)
(* One channel of the DRAM controller of src/dram_controller.cc, with the   *)
(* LLC and the page-table walker as its clients.                            *)
(*                                                                          *)
(* The controller keeps a read and a write queue, serves one of them at a   *)
(* time (write_mode), schedules one request per cycle to an idle bank,      *)
(* row-buffer hits first, and completes one request per cycle when its bank *)
(* and the data bus are ready.  Cycle counters are kept relative to the     *)
(* cycle that operate() runs next: 0 is that cycle, a positive value lies   *)
(* after it.  Only the order of values in the past is ever used, so they    *)
(* are renumbered -1, -2, ... at every cycle and the state space is finite. *)
(***************************************************************************)
EXTENDS Integers, FiniteSets

CONSTANTS
  DataAddrs,   \* block addresses the LLC reads and writes
  PtwAddrs,    \* block addresses of page-table lines the walker reads
  NoAddr,      \* address 0: an empty queue entry
  Banks,       \* the banks of the channel (rank and bank index)
  BankOf,      \* dram_get_rank/dram_get_bank of an address
  RowOf,       \* dram_get_row of an address
  NoRow,       \* open_row == UINT32_MAX
  RqSize, WqSize,      \* DRAM_RQ_SIZE, DRAM_WQ_SIZE
  HighWm, LowWm,       \* DRAM_WRITE_HIGH_WM, DRAM_WRITE_LOW_WM
  RowMissCycles,       \* tRP + tRCD
  CasCycles,           \* tCAS
  ReturnTime,          \* DRAM_DBUS_RETURN_TIME
  TurnAround,          \* DRAM_DBUS_TURN_AROUND_TIME
  MaxArrivals          \* bound on the requests of one behaviour

Addrs == DataAddrs \cup PtwAddrs

ASSUME DramAssumption ==
  /\ NoAddr \notin Addrs
  /\ \A a \in Addrs : BankOf[a] \in Banks
  /\ NoRow \notin {RowOf[a] : a \in Addrs}
  /\ RqSize \in Nat \ {0} /\ WqSize \in Nat \ {0}
  /\ LowWm \in Nat /\ HighWm \in Nat \ {0} /\ LowWm <= HighWm
  /\ RowMissCycles \in Nat /\ CasCycles \in Nat \ {0}
  /\ ReturnTime \in Nat \ {0} /\ TurnAround \in Nat
  /\ MaxArrivals \in Nat

VARIABLES
  dram,     \* the controller: queues, banks, bus, mode, counters
  waiting,  \* addresses for which an LLC MSHR waits for return_data
  warm,     \* all_warmup_complete: before it, requests bypass the controller
  clock,    \* parity of current_core_cycle
  arrivals, \* requests so far, for the bound
  last      \* history: direction of the last transfer and the cycles since

vars == <<dram, waiting, warm, clock, arrivals, last>>

Empty == [addr |-> NoAddr, ptw |-> FALSE, sched |-> FALSE, event |-> 0]
IdleBank == [working |-> FALSE, index |-> -1, avail |-> 0, row |-> NoRow,
             kind |-> "none"]

Queue(write) == IF write THEN "wq" ELSE "rq"
Used(q) == {i \in DOMAIN q : q[i].addr # NoAddr}
Occupancy(q) == Cardinality(Used(q))
Scheduled(q) == {i \in Used(q) : q[i].sched}
Unscheduled(q) == {i \in Used(q) : ~q[i].sched}
Find(q, a) == {i \in DOMAIN q : q[i].addr = a}      \* check_dram_queue

Lowest(S) == CHOOSE i \in S : \A j \in S : i <= j
Oldest(q, S) == Lowest({i \in S : \A j \in S : q[i].event <= q[j].event})

-----------------------------------------------------------------------------
(* The passage of a cycle. *)

\* Past event cycles keep their order and nothing else.
Past(q) == {i \in Used(q) : q[i].event <= 0}
Recency(q, i) == Cardinality({q[j].event : j \in {k \in Past(q) : q[k].event >= q[i].event}})

Renumber(q) ==
  [i \in DOMAIN q |->
     IF i \in Past(q) THEN [q[i] EXCEPT !.event = 0 - Recency(q, i)]
     ELSE IF i \in Used(q) THEN [q[i] EXCEPT !.event = @ - 1]
     ELSE q[i]]

Later(t, floor) == IF t - 1 < floor THEN floor ELSE t - 1

NextCycle(d) ==
  [d EXCEPT !.rq = Renumber(d.rq), !.wq = Renumber(d.wq),
            !.dbus = Later(d.dbus, 0 - TurnAround),
            !.bank = [b \in Banks |->
                        [d.bank[b] EXCEPT !.avail = Later(d.bank[b].avail, 0)]]]

-----------------------------------------------------------------------------
(* The steps of operate(). *)

\* Variant: the event cycle of the completed access stays.
ReleaseKeepsEvent(e) == [e EXCEPT !.sched = FALSE]
Release(e) == [e EXCEPT !.sched = FALSE, !.event = 0]

\* reset_remain_requests: every scheduled request of the queue goes back to
\* unscheduled, its bank is released, and the row it opened stays open only if
\* the activation had time to finish.
Reset(d, name) ==
  LET q == d[name]
      of(b) == {i \in Scheduled(q) : BankOf[q[i].addr] = b}
      n(kind) == Cardinality({i \in Scheduled(q) : d.bank[BankOf[q[i].addr]].kind = kind})
  IN [d EXCEPT
        ![name] = [i \in DOMAIN q |-> IF i \in Scheduled(q)
                                      THEN Release(q[i])
                                      ELSE q[i]],
        !.bank = [b \in Banks |->
                    IF of(b) = {} THEN d.bank[b]
                    ELSE [IdleBank EXCEPT !.row = IF d.bank[b].avail - CasCycles <= 0
                                                  THEN RowOf[q[Lowest(of(b))].addr]
                                                  ELSE NoRow]],
        !.reads = @ - n("read"),
        !.writes = @ - n("write")]

\* Variant: the condition that the source keeps in a comment.
EnterWriteAtHighWm(d) == ~d.write /\ Occupancy(d.wq) >= HighWm

EnterWrite(d) == /\ ~d.write
                 /\ \/ Occupancy(d.wq) >= HighWm
                    \/ Occupancy(d.rq) = 0 /\ Occupancy(d.wq) > 0
LeaveWrite(d) == /\ d.write
                 /\ \/ Occupancy(d.wq) = 0
                    \/ Occupancy(d.rq) > 0 /\ Occupancy(d.wq) < LowWm

\* Variant: no turn-around time.
SwitchModeAtOnce(d) ==
  IF EnterWrite(d) \/ LeaveWrite(d)
  THEN [Reset(d, Queue(d.write)) EXCEPT !.write = ~@]
  ELSE d

SwitchMode(d) ==
  IF EnterWrite(d) \/ LeaveWrite(d)
  THEN [Reset(d, Queue(d.write)) EXCEPT !.write = ~@, !.dbus = @ + TurnAround]
  ELSE d

\* schedule: the oldest row-buffer hit, else the oldest request, of an idle bank.
\* Variant: the busy bank is not skipped.
SchedulableAnyBank(d, q) == Unscheduled(q)

Schedulable(d, q) == {i \in Unscheduled(q) : ~d.bank[BankOf[q[i].addr]].working}
RowHits(d, q) == {i \in Schedulable(d, q) : d.bank[BankOf[q[i].addr]].row = RowOf[q[i].addr]}

Schedule(d) ==
  LET name == Queue(d.write)
      q == d[name]
      hit == RowHits(d, q) # {}
      i == Oldest(q, IF hit THEN RowHits(d, q) ELSE Schedulable(d, q))
      latency == IF hit THEN CasCycles ELSE RowMissCycles + CasCycles
  IN IF Schedulable(d, q) = {} THEN d
     ELSE [d EXCEPT
             ![name][i].sched = TRUE,
             ![name][i].event = latency,
             !.bank[BankOf[q[i].addr]] =
                [working |-> TRUE, index |-> i, avail |-> latency,
                 row |-> RowOf[q[i].addr], kind |-> IF d.write THEN "write" ELSE "read"],
             !.reads = IF d.write THEN @ ELSE @ + 1,
             !.writes = IF d.write THEN @ + 1 ELSE @]

\* process: the scheduled request with the earliest event cycle, once its bank
\* is ready; a busy data bus postpones the bank to the end of the transfer.
NextProcess(q) == Oldest(q, Scheduled(q))
Due(d) == LET q == d[Queue(d.write)]
          IN /\ Scheduled(q) # {} /\ q[NextProcess(q)].event <= 0
             /\ d.bank[BankOf[q[NextProcess(q)].addr]].avail <= 0
BusFree(d) == d.dbus <= 0
Completes(d) == Due(d) /\ BusFree(d)

Process(d) ==
  LET name == Queue(d.write)
      i == NextProcess(d[name])
      b == BankOf[d[name][i].addr]
  IN IF ~Due(d) THEN d
     ELSE IF ~BusFree(d) THEN [d EXCEPT !.bank[b].avail = d.dbus]
     ELSE [d EXCEPT
             !.dbus = ReturnTime,
             !.bank[b] = [IdleBank EXCEPT !.row = d.bank[b].row],
             ![name][i] = Empty,
             !.reads = IF d.write THEN @ ELSE @ - 1,
             !.writes = IF d.write THEN @ - 1 ELSE @]

-----------------------------------------------------------------------------
Init ==
  /\ dram = [rq |-> [i \in 0..(RqSize - 1) |-> Empty],
             wq |-> [i \in 0..(WqSize - 1) |-> Empty],
             bank |-> [b \in Banks |-> IdleBank],
             dbus |-> 0, write |-> FALSE, reads |-> 0, writes |-> 0]
  /\ waiting = {}
  /\ warm = FALSE
  /\ clock = 0
  /\ arrivals = 0
  /\ last = [write |-> FALSE, age |-> ReturnTime + TurnAround]

Arrive == arrivals < MaxArrivals /\ arrivals' = arrivals + 1

FirstSlot(q) == 0                         \* variant: an entry in use is taken
FreeSlot(q) == Lowest(DOMAIN q \ Used(q))

\* add_rq(packet) for an address the controller does not know yet.
Enqueue(name, a, ptw, event) ==
  dram' = [dram EXCEPT ![name][FreeSlot(dram[name])] =
             [addr |-> a, ptw |-> ptw, sched |-> FALSE, event |-> event]]

\* An LLC read miss: add_mshr, then add_rq.  Before the end of the warm-up, and
\* when the write queue holds the block, the data return at once.  The LLC runs
\* after operate(), with a request that waited there age cycles.
LlcRead(a, age) ==
  /\ Arrive /\ a \notin waiting
  /\ Occupancy(dram.rq) < RqSize        \* checked by handle_read of the LLC
  /\ \/ /\ ~warm \/ Find(dram.wq, a) # {}
        /\ UNCHANGED <<dram, waiting>>
     \/ /\ warm /\ Find(dram.wq, a) = {} /\ Find(dram.rq, a) # {}
        /\ waiting' = waiting \cup {a}
        /\ UNCHANGED dram
     \/ /\ warm /\ Find(dram.wq, a) = {} /\ Find(dram.rq, a) = {}
        /\ waiting' = waiting \cup {a}
        /\ Enqueue("rq", a, FALSE, 0 - age)
  /\ UNCHANGED <<warm, clock, last>>

\* issue_ptw_dram_read: the walk has its translation already, only the traffic
\* is modelled by the program; a full queue drops the request.
PtwRead(a) ==
  /\ Arrive
  /\ IF warm /\ Occupancy(dram.rq) < RqSize
        /\ Find(dram.wq, a) = {} /\ Find(dram.rq, a) = {}
     THEN Enqueue("rq", a, TRUE, 0)
     ELSE UNCHANGED dram
  /\ UNCHANGED <<waiting, warm, clock, last>>

\* An LLC writeback: add_wq drops it before the end of the warm-up and merges it
\* with a queued one.
LlcWrite(a) ==
  /\ Arrive
  /\ Occupancy(dram.wq) < WqSize        \* checked by handle_fill of the LLC
  /\ IF warm /\ Find(dram.wq, a) = {}
     THEN Enqueue("wq", a, FALSE, -1)
     ELSE UNCHANGED dram
  /\ UNCHANGED <<waiting, warm, clock, last>>

FinishWarmup ==
  /\ ~warm /\ warm' = TRUE
  /\ UNCHANGED <<dram, waiting, clock, arrivals, last>>

Cycle == clock' = 1 - clock

\* MEMORY_CONTROLLER::operate, once per cycle of the main loop.
Operate ==
  LET d == Schedule(SwitchMode(dram))
      q == d[Queue(d.write)]
      e == q[NextProcess(q)]
  IN /\ dram' = NextCycle(Process(d))
     /\ waiting' = IF Completes(d) /\ ~d.write /\ ~e.ptw THEN waiting \ {e.addr}
                   ELSE waiting
     /\ last' = IF Completes(d) THEN [write |-> d.write, age |-> 0]
                ELSE [last EXCEPT !.age = IF @ > ReturnTime + TurnAround THEN @ ELSE @ + 1]
     /\ Cycle
     /\ UNCHANGED <<warm, arrivals>>

Next ==
  \/ \E a \in DataAddrs, age \in {1, 2} : LlcRead(a, age)
  \/ \E a \in PtwAddrs : PtwRead(a)
  \/ \E a \in DataAddrs : LlcWrite(a)
  \/ FinishWarmup
  \/ Operate

Spec == Init /\ [][Next]_vars

\* The main loop calls operate in every cycle (the only action that advances the
\* clock), and the warm-up ends.
FairSpec == Spec /\ WF_clock(Cycle) /\ WF_warm(FinishWarmup)

-----------------------------------------------------------------------------
(* Properties. *)

\* How long a bank may be busy: an access, and a wait for the data bus, which a
\* transfer and at most four changes of its direction reserve.
Latency == 0..(RowMissCycles + CasCycles + ReturnTime + 4 * TurnAround)

TypeOK ==
  /\ \A name \in {"rq", "wq"} :
       \A i \in DOMAIN dram[name] :
         LET e == dram[name][i] IN
         /\ e.addr \in Addrs \cup {NoAddr} /\ e.ptw \in BOOLEAN
         /\ e.sched \in BOOLEAN /\ e.event \in Int
         /\ e.addr # NoAddr /\ ~e.sched => e.event <= 0
  /\ \A b \in Banks : dram.bank[b].avail \in Latency
  /\ dram.reads \in 0..RqSize /\ dram.writes \in 0..WqSize
  /\ waiting \subseteq DataAddrs /\ clock \in {0, 1}

\* Each working bank serves exactly the request its request_index names, and
\* every scheduled request owns its bank: the assertion of process() and the
\* scheduled_reads/scheduled_writes assertions of reset_remain_requests().  The
\* queue that is not being served has nothing scheduled.
BankBinding ==
  LET q == dram[Queue(dram.write)]
      other == dram[Queue(~dram.write)]
      kind == IF dram.write THEN "write" ELSE "read"
  IN /\ \A i \in Scheduled(q) : /\ dram.bank[BankOf[q[i].addr]].index = i
                                /\ dram.bank[BankOf[q[i].addr]].kind = kind
     /\ \A b \in Banks : dram.bank[b].working =>
          /\ dram.bank[b].index \in Scheduled(q)
          /\ BankOf[q[dram.bank[b].index].addr] = b
     /\ Scheduled(other) = {}
     /\ dram.reads = Cardinality(Scheduled(dram.rq))
     /\ dram.writes = Cardinality(Scheduled(dram.wq))

\* Every LLC MSHR that waits for DRAM has exactly one request in the read queue
\* that will call return_data for it, and every such request has an MSHR to return
\* to (CACHE::return_data asserts that it finds one); merging and forwarding never
\* queue a block twice.
ReadsAwaited ==
  /\ waiting = {dram.rq[i].addr : i \in {j \in Used(dram.rq) : ~dram.rq[j].ptw}}
  /\ \A name \in {"rq", "wq"} : \A i, j \in Used(dram[name]) :
       dram[name][i].addr = dram[name][j].addr => i = j

\* A step that starts a transfer on the data bus.
TransferStarts == clock' # clock /\ last'.age = 0

\* Transfers never overlap on the data bus, and one of the other direction keeps
\* its distance; dram_controller.h: "the data bus must wait this amount of time when
\* switching between reads and writes, and vice versa".
BusRespected ==
  [][TransferStarts =>
       /\ last.age + 1 >= ReturnTime
       /\ last'.write # last.write => last.age + 1 >= ReturnTime + TurnAround]_vars

\* Once the clients fall silent, every read the LLC waits for is answered and
\* every write drained: switching modes, which unschedules what was under way,
\* never starves either queue.
Drains == <>[](waiting = {} /\ Used(dram.rq) = {} /\ Used(dram.wq) = {})

\* The comment of process(): a page-table walker's read "has no cache MSHR waiting
\* for a data callback", so completing it without return_data loses nothing.
PtwReadsUnawaited ==
  \A i \in Used(dram.rq) : dram.rq[i].ptw => dram.rq[i].addr \notin waiting

\* How far the controller is from its next completed request: whether it is about to
\* turn round, the requests it can still schedule before that one, and the cycles
\* until everything under way is over.
Held(d) == Occupancy(d.rq) + Occupancy(d.wq)
Served(d) == d[Queue(d.write)]
TurnDue(d) == EnterWrite(d) \/ LeaveWrite(d)
Unstarted(d) == Cardinality(Unscheduled(Served(d)))
OverIn(d, n) == /\ d.dbus <= n
                /\ \A b \in Banks : d.bank[b].avail <= n
                /\ \A i \in Scheduled(Served(d)) : Served(d)[i].event <= n
Delay(d) == Lowest({n \in Latency : OverIn(d, n)})

Advances(d, e) ==
  \/ Held(e) < Held(d)
  \/ /\ Held(e) = Held(d) /\ ~TurnDue(e)
     /\ \/ TurnDue(d)
        \/ Unstarted(e) < Unstarted(d)
        \/ Unstarted(e) = Unstarted(d) /\ Delay(e) < Delay(d)

\* Every cycle with a request in a queue completes one or brings it nearer; the
\* controller turns round at most once in between, although that sends everything
\* under way back to the start.
EveryCycleAdvances ==
  [][clock' # clock /\ Held(dram) > 0 =>
       /\ {Held(dram'), Unstarted(dram'), Delay(dram')} \subseteq Nat
       /\ Advances(dram, dram')]_vars
=============================================================================
