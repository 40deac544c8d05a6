------------------------------- MODULE FrontEnd -------------------------------
(* The front end of a core (src/ooo_cpu.cc): instructions are read from the    *)
(* trace into IFETCH_BUFFER, translated by the ITLB, fetched through the L1I,  *)
(* moved to DECODE_BUFFER and dispatched to the reorder buffer.  A mispredicted*)
(* branch stops the reading until it has executed.                             *)
(*                                                                             *)
(* Each action is one turn of a handler's loop; event cycles and widths decide *)
(* how many turns a cycle has.  The ITLB and the L1I hold at most one request  *)
(* per page or line and put their answers into their PROCESSED queues; the     *)
(* back end completes instructions in any order and retires them in order.     *)
EXTENDS Integers, FiniteSets, Sequences

CONSTANTS
  Programs,           \* sequences of [page, line, branch]
  IFETCH_SIZE, DECODE_SIZE, ROB_SIZE

ASSUME SizesAssumption == {IFETCH_SIZE, DECODE_SIZE, ROB_SIZE} \subseteq Nat \ {0}
ASSUME ProgramsAssumption ==
  \A p \in Programs :
    /\ p \in Seq({p[k] : k \in DOMAIN p})
    /\ \A k, l \in 1 .. Len(p) : p[k].line = p[l].line => p[k].page = p[l].page

VARIABLES
  prog,
  read,              \* instructions read from the trace
  IFETCH_BUFFER,     \* in order of reading
  DECODE_BUFFER,
  ROB,               \* ids of dispatched instructions that have not retired
  completed,         \* those of them that have executed
  itlb, itlbDone,    \* pages at the ITLB, ips in its PROCESSED queue
  l1i, l1iDone,      \* lines at the L1I, ips in its PROCESSED queue
  fetch_stall, fetch_resume,   \* fetch_resume: fetch_resume_cycle # 0
  mispredicted,      \* instructions with branch_mispredicted
  warmup_complete

vars == <<prog, read, IFETCH_BUFFER, DECODE_BUFFER, ROB, completed, itlb, itlbDone,
          l1i, l1iDone, fetch_stall, fetch_resume, mispredicted, warmup_complete>>

cacheVars == <<itlb, itlbDone, l1i, l1iDone>>
stallVars == <<fetch_stall, fetch_resume, mispredicted>>
backVars  == <<ROB, completed>>

NotYet    == "0"
INFLIGHT  == "inflight"
COMPLETED == "completed"

Page(id) == prog[id].page
Line(id) == prog[id].line
Entries  == DOMAIN IFETCH_BUFFER

(* The entries that satisfy P(id), changed by F. *)
Mark(P(_), F(_)) ==
  IFETCH_BUFFER' = [k \in Entries |-> IF P(IFETCH_BUFFER[k].id)
                                      THEN F(IFETCH_BUFFER[k]) ELSE IFETCH_BUFFER[k]]

--------------------------------------------------------------------------------
(* read_from_trace: the instruction joins IFETCH_BUFFER; a misprediction after *)
(* the warm-up stalls the fetch.                                               *)
StallsFetch(wrong) == IF wrong /\ warmup_complete THEN {read + 1} ELSE {}

MayRead == Len(IFETCH_BUFFER) < IFETCH_SIZE /\ ~fetch_stall

ReadFromTrace ==
  /\ read < Len(prog)
  /\ MayRead
  /\ read' = read + 1
  /\ IFETCH_BUFFER' = Append(IFETCH_BUFFER, [id |-> read + 1, translated |-> NotYet,
                                             fetched |-> NotYet, instruction_pa |-> FALSE])
  /\ \E wrong \in IF prog[read + 1].branch THEN BOOLEAN ELSE {FALSE} :
       /\ fetch_stall' = (StallsFetch(wrong) # {})
       /\ mispredicted' = mispredicted \cup StallsFetch(wrong)
  /\ UNCHANGED <<prog, DECODE_BUFFER, backVars, cacheVars, fetch_resume, warmup_complete>>

(* fetch_instruction: the stall ends when the resume cycle has come. *)
ResumeFetch ==
  /\ fetch_stall /\ fetch_resume
  /\ fetch_stall' = FALSE /\ fetch_resume' = FALSE
  /\ UNCHANGED <<prog, read, IFETCH_BUFFER, DECODE_BUFFER, backVars, cacheVars,
                 mispredicted, warmup_complete>>

(* An entry asks the ITLB for its page; the other entries of the page that     *)
(* have not asked count as asked.                                              *)
RequestTranslation(k) ==
  LET e == IFETCH_BUFFER[k] IN
  /\ e.translated = NotYet
  /\ itlb' = itlb \cup {Page(e.id)}
  /\ IFETCH_BUFFER' = [j \in Entries |->
       IF /\ Page(IFETCH_BUFFER[j].id) = Page(e.id)
          /\ IFETCH_BUFFER[j].translated = NotYet
       THEN [IFETCH_BUFFER[j] EXCEPT !.translated = INFLIGHT, !.fetched = NotYet]
       ELSE IFETCH_BUFFER[j]]
  /\ UNCHANGED <<prog, read, DECODE_BUFFER, backVars, itlbDone, l1i, l1iDone, stallVars,
                 warmup_complete>>

(* A translated entry asks the L1I for its line, for all entries of the line.  *)
(* Variant: a refusal of add_rq is not looked at.                              *)
RequestLineRefused(k) ==
  LET e == IFETCH_BUFFER[k] IN
  /\ e.translated = COMPLETED /\ e.fetched = NotYet
  /\ l1i' \in {l1i, l1i \cup {Line(e.id)}}
  /\ Mark(LAMBDA id : Line(id) = Line(e.id),
          LAMBDA x : [x EXCEPT !.translated = COMPLETED, !.fetched = INFLIGHT])
  /\ UNCHANGED <<prog, read, DECODE_BUFFER, backVars, itlb, itlbDone, l1iDone, stallVars,
                 warmup_complete>>

RequestLine(k) ==
  LET e == IFETCH_BUFFER[k] IN
  /\ e.translated = COMPLETED /\ e.fetched = NotYet
  /\ l1i' = l1i \cup {Line(e.id)}
  /\ Mark(LAMBDA id : Line(id) = Line(e.id),
          LAMBDA x : [x EXCEPT !.translated = COMPLETED, !.fetched = INFLIGHT])
  /\ UNCHANGED <<prog, read, DECODE_BUFFER, backVars, itlb, itlbDone, l1iDone, stallVars,
                 warmup_complete>>

\* Variant: the buffer's size is not looked at.
DecodeAlwaysHasRoom == TRUE
DecodeHasRoom == Len(DECODE_BUFFER) < DECODE_SIZE

(* The oldest entry goes on to the decoder once it is translated and fetched.  *)
(* Variant: any fetched entry goes on.                                         *)
SendAnyToDecode ==
  /\ DecodeHasRoom
  /\ \E k \in Entries :
       /\ IFETCH_BUFFER[k].fetched = COMPLETED
       /\ DECODE_BUFFER' = Append(DECODE_BUFFER, [id |-> IFETCH_BUFFER[k].id, event_cycle |-> 0])
       /\ IFETCH_BUFFER' = SubSeq(IFETCH_BUFFER, 1, k - 1) \o
                           SubSeq(IFETCH_BUFFER, k + 1, Len(IFETCH_BUFFER))
  /\ UNCHANGED <<prog, read, backVars, cacheVars, stallVars, warmup_complete>>

SendToDecode ==
  LET e == Head(IFETCH_BUFFER) IN
  /\ IFETCH_BUFFER # <<>>
  /\ e.translated = COMPLETED /\ e.fetched = COMPLETED
  /\ DecodeHasRoom
  /\ DECODE_BUFFER' = Append(DECODE_BUFFER, [id |-> e.id, event_cycle |-> 0])
  /\ IFETCH_BUFFER' = Tail(IFETCH_BUFFER)
  /\ UNCHANGED <<prog, read, backVars, cacheVars, stallVars, warmup_complete>>

--------------------------------------------------------------------------------
(* The caches answer; the PROCESSED queues give one answer at a time. *)

ItlbAnswers(page) ==
  /\ page \in itlb
  /\ itlb' = itlb \ {page}
  /\ itlbDone' = Append(itlbDone, page)
  /\ UNCHANGED <<prog, read, IFETCH_BUFFER, DECODE_BUFFER, backVars, l1i, l1iDone,
                 stallVars, warmup_complete>>

L1iAnswers(line) ==
  /\ line \in l1i
  /\ l1i' = l1i \ {line}
  /\ l1iDone' = Append(l1iDone, line)
  /\ UNCHANGED <<prog, read, IFETCH_BUFFER, DECODE_BUFFER, backVars, itlb, itlbDone,
                 stallVars, warmup_complete>>

(* complete_instr_fetch, ITLB: all entries of the page get their address, and  *)
(* have their lines to fetch - again, if they were on their way or there.      *)
CompleteTranslation ==
  /\ itlbDone # <<>>
  /\ itlbDone' = Tail(itlbDone)
  /\ Mark(LAMBDA id : Page(id) = Head(itlbDone),
          LAMBDA x : [x EXCEPT !.translated = COMPLETED, !.fetched = NotYet,
                               !.instruction_pa = TRUE])
  /\ UNCHANGED <<prog, read, DECODE_BUFFER, backVars, itlb, l1i, l1iDone, stallVars,
                 warmup_complete>>

(* complete_instr_fetch, L1I: all entries of the line are there, also those    *)
(* that came after the request.                                                *)
CompleteFetch ==
  /\ l1iDone # <<>>
  /\ l1iDone' = Tail(l1iDone)
  /\ Mark(LAMBDA id : Line(id) = Head(l1iDone),
          LAMBDA x : [x EXCEPT !.translated = COMPLETED, !.fetched = COMPLETED])
  /\ UNCHANGED <<prog, read, DECODE_BUFFER, backVars, itlb, itlbDone, l1i, stallVars,
                 warmup_complete>>

--------------------------------------------------------------------------------
(* decode_and_dispatch: the n oldest decoded instructions move to the reorder  *)
(* buffer, then the others start to pay the decode latency.  The second scan   *)
(* ends where it meets the tail, which in a full buffer is the head: then only *)
(* the first entry starts.                                                     *)
Decoded(e) == e.event_cycle # 0 \/ ~warmup_complete

Paying(buffer) ==
  LET last == IF Len(buffer) = DECODE_SIZE THEN 1 ELSE Len(buffer)
  IN [k \in DOMAIN buffer |-> IF k =< last THEN [buffer[k] EXCEPT !.event_cycle = 1]
                              ELSE buffer[k]]

DecodeAndDispatch(n) ==
  LET rest == SubSeq(DECODE_BUFFER, n + 1, Len(DECODE_BUFFER)) IN
  /\ DECODE_BUFFER # <<>>
  /\ n =< Len(DECODE_BUFFER)
  /\ \A k \in 1 .. n : Decoded(DECODE_BUFFER[k])
  /\ Len(ROB) + n =< ROB_SIZE
  /\ ROB' = ROB \o [k \in 1 .. n |-> DECODE_BUFFER[k].id]
  /\ DECODE_BUFFER' = Paying(rest)
  /\ DECODE_BUFFER' # DECODE_BUFFER
  /\ UNCHANGED <<prog, read, IFETCH_BUFFER, completed, cacheVars, stallVars, warmup_complete>>

(* complete_execution: a mispredicted branch sets the cycle of the resumption. *)
(* Variant: any instruction that completes sets or clears it.                  *)
CompleteExecutionClears(id) ==
  /\ id \in {ROB[k] : k \in DOMAIN ROB} \ completed
  /\ completed' = completed \cup {id}
  /\ fetch_resume' = (id \in mispredicted)
  /\ UNCHANGED <<prog, read, IFETCH_BUFFER, DECODE_BUFFER, ROB, cacheVars, fetch_stall,
                 mispredicted, warmup_complete>>

CompleteExecution(id) ==
  /\ id \in {ROB[k] : k \in DOMAIN ROB} \ completed
  /\ completed' = completed \cup {id}
  /\ fetch_resume' = (fetch_resume \/ id \in mispredicted)
  /\ UNCHANGED <<prog, read, IFETCH_BUFFER, DECODE_BUFFER, ROB, cacheVars, fetch_stall,
                 mispredicted, warmup_complete>>

(* retire_rob *)
RetireRob ==
  /\ ROB # <<>> /\ Head(ROB) \in completed
  /\ ROB' = Tail(ROB)
  /\ completed' = completed \ {Head(ROB)}
  /\ mispredicted' = mispredicted \ {Head(ROB)}
  /\ UNCHANGED <<prog, read, IFETCH_BUFFER, DECODE_BUFFER, cacheVars, fetch_stall,
                 fetch_resume, warmup_complete>>

(* The main loop ends the warm-up when enough instructions have retired. *)
FinishWarmup ==
  /\ ~warmup_complete
  /\ warmup_complete' = TRUE
  /\ UNCHANGED <<prog, read, IFETCH_BUFFER, DECODE_BUFFER, backVars, cacheVars, stallVars>>

(* The model stops after one reading of the trace. *)
TraceEnds ==
  /\ read = Len(prog) /\ IFETCH_BUFFER = <<>> /\ DECODE_BUFFER = <<>> /\ ROB = <<>>
  /\ UNCHANGED vars

--------------------------------------------------------------------------------
Init ==
  /\ prog \in Programs
  /\ read = 0 /\ IFETCH_BUFFER = <<>> /\ DECODE_BUFFER = <<>> /\ ROB = <<>>
  /\ completed = {}
  /\ itlb = {} /\ itlbDone = <<>> /\ l1i = {} /\ l1iDone = <<>>
  /\ fetch_stall = FALSE /\ fetch_resume = FALSE /\ mispredicted = {}
  /\ warmup_complete \in BOOLEAN

Pages == UNION {{p[k].page : k \in DOMAIN p} : p \in Programs}
Lines == UNION {{p[k].line : k \in DOMAIN p} : p \in Programs}
Ids   == UNION {DOMAIN p : p \in Programs}

Translate == \E k \in Entries : RequestTranslation(k)
Fetch     == \E k \in Entries : RequestLine(k)
Dispatch  == \E n \in 0 .. DECODE_SIZE : DecodeAndDispatch(n)

Next ==
  \/ ReadFromTrace \/ ResumeFetch
  \/ Translate \/ Fetch \/ SendToDecode
  \/ \E page \in Pages : ItlbAnswers(page)
  \/ \E line \in Lines : L1iAnswers(line)
  \/ CompleteTranslation \/ CompleteFetch
  \/ Dispatch
  \/ \E id \in Ids : CompleteExecution(id)
  \/ RetireRob \/ FinishWarmup
  \/ TraceEnds

Spec == Init /\ [][Next]_vars

(* The main loop calls every handler in every cycle while the core is not      *)
(* stalled; the caches answer (CacheHierarchy) and executions end (O3Core).    *)
(* An instruction is dispatched as soon as it has paid its latency.            *)
Fairness ==
  /\ WF_vars(ReadFromTrace) /\ WF_vars(ResumeFetch)
  /\ WF_vars(Translate) /\ WF_vars(Fetch) /\ WF_vars(SendToDecode)
  /\ \A page \in Pages : WF_vars(ItlbAnswers(page))
  /\ \A line \in Lines : WF_vars(L1iAnswers(line))
  /\ WF_vars(CompleteTranslation) /\ WF_vars(CompleteFetch)
  /\ WF_vars(Dispatch)
  /\ \A id \in Ids : WF_vars(CompleteExecution(id))
  /\ WF_vars(RetireRob)

FairSpec == Spec /\ Fairness

--------------------------------------------------------------------------------
(* Properties *)

State == {NotYet, INFLIGHT, COMPLETED}
InRob == {ROB[k] : k \in DOMAIN ROB}
InDone(queue, x) == \E k \in DOMAIN queue : queue[k] = x

(* The buffers hold what their arrays can, entries are well formed. *)
TypeOK ==
  /\ prog \in Programs /\ read \in 0 .. Len(prog)
  /\ Len(IFETCH_BUFFER) =< IFETCH_SIZE
  /\ \A k \in Entries :
       IFETCH_BUFFER[k] \in [id : Ids, translated : State, fetched : State,
                             instruction_pa : BOOLEAN]
  /\ Len(DECODE_BUFFER) =< DECODE_SIZE
  /\ \A k \in DOMAIN DECODE_BUFFER : DECODE_BUFFER[k] \in [id : Ids, event_cycle : {0, 1}]
  /\ Len(ROB) =< ROB_SIZE
  /\ completed \subseteq InRob /\ mispredicted \subseteq Ids
  /\ itlb \subseteq Pages /\ l1i \subseteq Lines
  /\ itlbDone \in Seq(Pages) /\ l1iDone \in Seq(Lines)
  /\ {fetch_stall, fetch_resume, warmup_complete} \subseteq BOOLEAN

(* The reorder buffer, the decoder and the fetch buffer hold consecutive       *)
(* instructions, the youngest being the last one read: none is lost, repeated  *)
(* or overtaken on its way.                                                    *)
InProgramOrder ==
  LET ids(s) == [k \in DOMAIN s |-> s[k].id]
      all == ROB \o ids(DECODE_BUFFER) \o ids(IFETCH_BUFFER)
  IN \A k \in DOMAIN all : all[k] = read - Len(all) + k

(* An entry that waits for an answer has one coming: a request that marks      *)
(* several entries, an answer that serves several and one that arrives twice   *)
(* never leave an entry waiting for nothing.                                   *)
WaitsForSomething ==
  \A k \in Entries :
    LET e == IFETCH_BUFFER[k] IN
    /\ e.translated = INFLIGHT => Page(e.id) \in itlb \/ InDone(itlbDone, Page(e.id))
    /\ e.fetched = INFLIGHT => Line(e.id) \in l1i \/ InDone(l1iDone, Line(e.id))

(* The L1I is asked only with an address the ITLB has provided: an entry marked*)
(* translated because a neighbour's line was requested or came never is itself *)
(* the one that asks without an instruction_pa.                                *)
RequestsAreTranslated ==
  \A k \in Entries :
    LET e == IFETCH_BUFFER[k] IN
    e.translated = COMPLETED /\ e.fetched = NotYet => e.instruction_pa

(* The fetch is stalled by exactly one branch, the youngest instruction read,  *)
(* until that branch has executed; nothing follows it, and nothing else is     *)
(* waited for (fetch_resume_cycle is a single variable).                       *)
StallHasBranch ==
  LET unresolved == mispredicted \ completed IN
  /\ fetch_stall /\ ~fetch_resume <=> unresolved # {}
  /\ unresolved \subseteq {read}
  /\ fetch_resume => fetch_stall

(* All three: fetch never waits for what does not come.                        *)
NothingWaitsInVain == WaitsForSomething /\ RequestsAreTranslated /\ StallHasBranch

(* What an instruction has still to go through: it is read and may stall the   *)
(* fetch, asks for its page, may ask for its line again after every answer of  *)
(* the ITLB, and is sent, decoded, dispatched, executed and retired.           *)
ToTranslate == Cardinality({k \in Entries : IFETCH_BUFFER[k].translated = NotYet})
ToFetch == Cardinality({k \in Entries : NotYet \in {IFETCH_BUFFER[k].translated,
                                                   IFETCH_BUFFER[k].fetched}})
ToDecode == Cardinality({k \in DOMAIN DECODE_BUFFER : DECODE_BUFFER[k].event_cycle = 0})
One(b) == IF b THEN 1 ELSE 0

(* The answers the ITLB has still to give; each can make every entry ask for  *)
(* its line again.                                                             *)
Owed == (Len(prog) - read) + ToTranslate + Cardinality(itlb) + Len(itlbDone)

Steps ==
  12 * (Len(prog) - read)
  + 5 * Len(IFETCH_BUFFER) + 2 * ToTranslate + 3 * ToFetch
  + Cardinality(itlb) + 2 * Cardinality(l1i) + Len(l1iDone)
  + 3 * Len(DECODE_BUFFER) + ToDecode
  + (2 * Len(ROB) - Cardinality(completed))
  + One(fetch_stall) + One(~warmup_complete)

Work == (3 * IFETCH_SIZE + 1) * Owed + Steps

(* Every step uses work up: asking again for what is on its way, the answers   *)
(* that come twice and the stalls never feed each other for ever.              *)
WorkShrinks == [][Work' \in Nat /\ Work' < Work]_vars

(* All instructions have been through.                                         *)
Finished == read = Len(prog) /\ IFETCH_BUFFER = <<>> /\ DECODE_BUFFER = <<>> /\ ROB = <<>>

(* The guards of the handlers and of what answers them, the end of the warm-up *)
(* left out.                                                                   *)
SomeHandlerReady ==
  \/ read < Len(prog) /\ MayRead
  \/ fetch_stall /\ fetch_resume
  \/ \E k \in Entries : IFETCH_BUFFER[k].translated = NotYet
  \/ \E k \in Entries : IFETCH_BUFFER[k].translated = COMPLETED /\ IFETCH_BUFFER[k].fetched = NotYet
  \/ /\ IFETCH_BUFFER # <<>> /\ DecodeHasRoom
     /\ Head(IFETCH_BUFFER).translated = COMPLETED /\ Head(IFETCH_BUFFER).fetched = COMPLETED
  \/ itlb # {} \/ l1i # {} \/ itlbDone # <<>> \/ l1iDone # <<>>
  \/ Paying(DECODE_BUFFER) # DECODE_BUFFER
  \/ DECODE_BUFFER # <<>> /\ Decoded(Head(DECODE_BUFFER)) /\ Len(ROB) < ROB_SIZE
  \/ InRob \ completed # {}
  \/ ROB # <<>> /\ Head(ROB) \in completed

(* Until then a handler can go on: the buffers, the stall and the caches never *)
(* all wait for each other.                                                    *)
NeverStuck == Finished \/ SomeHandlerReady

(* Every instruction of the trace is read, decoded, dispatched and retired.    *)
AllRetire == <>Finished
===============================================================================
