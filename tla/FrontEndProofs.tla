---------------------------- MODULE FrontEndProofs ----------------------------
(* Proofs about FrontEnd, for every trace and every size of the buffers: the   *)
(* typing of the state, the order of the instructions in the pipeline, the     *)
(* three promises by which nothing waits in vain, and that until the trace is  *)
(* through a handler can go on and every step uses work up.                    *)
EXTENDS FrontEnd, SequenceTheorems, FiniteSetTheorems, TLAPS

--------------------------------------------------------------------------------
(* The inductive invariant *)

Entry   == [id : Nat, translated : State, fetched : State, instruction_pa : BOOLEAN]
Decode  == [id : Nat, event_cycle : {0, 1}]
Held    == Len(ROB) + Len(DECODE_BUFFER) + Len(IFETCH_BUFFER)

(* The buffers are sequences within their capacities. *)
Typed ==
  /\ prog \in Programs /\ read \in 0 .. Len(prog)
  /\ IFETCH_BUFFER \in Seq(Entry) /\ Len(IFETCH_BUFFER) =< IFETCH_SIZE
  /\ DECODE_BUFFER \in Seq(Decode) /\ Len(DECODE_BUFFER) =< DECODE_SIZE
  /\ ROB \in Seq(Nat) /\ Len(ROB) =< ROB_SIZE
  /\ itlb \subseteq Pages /\ itlbDone \in Seq(Pages)
  /\ l1i \subseteq Lines /\ l1iDone \in Seq(Lines)
  /\ fetch_stall \in BOOLEAN /\ fetch_resume \in BOOLEAN /\ warmup_complete \in BOOLEAN

(* Where an instruction is says which one it is: the last one read is at the   *)
(* end of the fetch buffer, and the others count backwards from it.            *)
Ordered ==
  /\ Held =< read
  /\ \A k \in DOMAIN ROB : ROB[k] = read - Held + k
  /\ \A k \in DOMAIN DECODE_BUFFER :
       DECODE_BUFFER[k].id = read - Len(IFETCH_BUFFER) - Len(DECODE_BUFFER) + k
  /\ \A k \in Entries : IFETCH_BUFFER[k].id = read - Len(IFETCH_BUFFER) + k

(* Only what is in the reorder buffer has executed, only what was read stalls. *)
Marked == completed \subseteq InRob /\ mispredicted \subseteq 1 .. read

FrontEndInv == Typed /\ Ordered /\ Marked /\ NothingWaitsInVain

--------------------------------------------------------------------------------
(* A function on 1 .. n is a sequence of length n. *)
LEMMA FunctionIsSeq ==
  ASSUME NEW S, NEW n \in Nat, NEW f \in [1 .. n -> S]
  PROVE  f \in Seq(S) /\ Len(f) = n /\ DOMAIN f = 1 .. n
<1>1. f \in Seq(S)  BY SeqDef
<1>2. DOMAIN f = 1 .. n /\ DOMAIN f = 1 .. Len(f) /\ Len(f) \in Nat
  BY <1>1, LenProperties
<1> QED  BY <1>1, <1>2

(* What every sequence has. *)
LEMMA SeqElements ==
  ASSUME NEW S, NEW s \in Seq(S)
  PROVE  Len(s) \in Nat /\ DOMAIN s = 1 .. Len(s) /\ \A k \in DOMAIN s : s[k] \in S
<1>1. Len(s) \in Nat /\ DOMAIN s = 1 .. Len(s) /\ s \in [1 .. Len(s) -> S]
  BY LenProperties, Zenon
<1> QED  BY <1>1

(* The elements of two sequences in their concatenation. *)
LEMMA ConcatOf ==
  ASSUME NEW S, NEW s \in Seq(S), NEW t \in Seq(S), NEW r, r = s \o t
  PROVE  /\ r \in Seq(S) /\ Len(r) = Len(s) + Len(t)
         /\ DOMAIN r = 1 .. Len(r) /\ Len(s) \in Nat /\ Len(t) \in Nat
         /\ \A k \in 1 .. Len(s) : r[k] = s[k]
         /\ \A k \in 1 .. Len(t) : r[Len(s) + k] = t[k]
<1>1. Len(s) \in Nat /\ Len(t) \in Nat  BY LenProperties
<1>2. /\ r \in Seq(S) /\ Len(r) = Len(s) + Len(t)
      /\ \A i \in 1 .. Len(s) + Len(t) :
           r[i] = IF i <= Len(s) THEN s[i] ELSE t[i - Len(s)]
  BY ConcatProperties
<1>3. DOMAIN r = 1 .. Len(r)  BY <1>2, LenProperties
<1>4. ASSUME NEW k \in 1 .. Len(s) PROVE r[k] = s[k]
  BY <1>1, <1>2
<1>5. ASSUME NEW k \in 1 .. Len(t) PROVE r[Len(s) + k] = t[k]
  <2>1. Len(s) + k \in 1 .. Len(s) + Len(t) /\ ~(Len(s) + k <= Len(s))  BY <1>1
  <2>2. (Len(s) + k) - Len(s) = k  BY <1>1
  <2>3. r[Len(s) + k] = t[(Len(s) + k) - Len(s)]  BY <1>2, <2>1
  <2> QED  BY <2>2, <2>3
<1> QED  BY <1>1, <1>2, <1>3, <1>4, <1>5

(* The programs are sequences, and their instructions have pages and lines.    *)
LEMMA ProgramType ==
  ASSUME NEW p \in Programs
  PROVE  /\ Len(p) \in Nat /\ DOMAIN p = 1 .. Len(p)
         /\ 1 .. Len(p) \subseteq Ids
         /\ \A k \in 1 .. Len(p) : p[k].page \in Pages /\ p[k].line \in Lines
<1> DEFINE S == {p[k] : k \in DOMAIN p}
<1>1. p \in Seq(S)  BY ProgramsAssumption
<1> HIDE DEF S
<1>2. Len(p) \in Nat /\ DOMAIN p = 1 .. Len(p)  BY <1>1
<1>3. DOMAIN p \subseteq Ids  BY DEF Ids
<1>4. \A k \in DOMAIN p : p[k].page \in Pages /\ p[k].line \in Lines  BY DEF Pages, Lines
<1> QED  BY <1>2, <1>3, <1>4

\* The size of every buffer is a number.
LEMMA SizesType == IFETCH_SIZE \in Nat \ {0} /\ DECODE_SIZE \in Nat \ {0} /\ ROB_SIZE \in Nat \ {0}
BY SizesAssumption

\* The invariant yields the properties of the runs.
LEMMA InvTypeOK ==
  ASSUME FrontEndInv
  PROVE  TypeOK
<1>1. \A k \in 1 .. read : k \in Ids
  <2>1. prog \in Programs /\ read \in 0 .. Len(prog)  BY DEF FrontEndInv, Typed
  <2>2. Len(prog) \in Nat /\ 1 .. Len(prog) \subseteq Ids  BY <2>1, ProgramType
  <2> QED  BY <2>1, <2>2
<1>2. \A k \in Entries : IFETCH_BUFFER[k] \in Entry /\ IFETCH_BUFFER[k].id \in 1 .. read
  BY DEF FrontEndInv, Typed, Ordered, Entries, Held
<1>3. \A k \in DOMAIN DECODE_BUFFER :
         DECODE_BUFFER[k] \in Decode /\ DECODE_BUFFER[k].id \in 1 .. read
  BY DEF FrontEndInv, Typed, Ordered, Held
<1>4. \A k \in Entries : IFETCH_BUFFER[k] \in [id : Ids, translated : State, fetched : State,
                                               instruction_pa : BOOLEAN]
  BY <1>1, <1>2 DEF Entry
<1>5. \A k \in DOMAIN DECODE_BUFFER : DECODE_BUFFER[k] \in [id : Ids, event_cycle : {0, 1}]
  BY <1>1, <1>3 DEF Decode
<1>6. mispredicted \subseteq Ids  BY <1>1 DEF FrontEndInv, Marked
<1> QED  BY <1>4, <1>5, <1>6 DEF TypeOK, FrontEndInv, Typed, Marked

LEMMA InvInProgramOrder ==
  ASSUME FrontEndInv
  PROVE  InProgramOrder
<1> DEFINE ids(s) == [k \in DOMAIN s |-> s[k].id]
           d == ids(DECODE_BUFFER)
           f == ids(IFETCH_BUFFER)
           rd == ROB \o d
           all == rd \o f
<1>1. d \in Seq(Nat) /\ Len(d) = Len(DECODE_BUFFER)
      /\ \A k \in 1 .. Len(d) : d[k] = DECODE_BUFFER[k].id
  <2>1. DECODE_BUFFER \in Seq(Decode)  BY DEF FrontEndInv, Typed
  <2>0. /\ Len(DECODE_BUFFER) \in Nat /\ DOMAIN DECODE_BUFFER = 1 .. Len(DECODE_BUFFER)
        /\ \A k \in DOMAIN DECODE_BUFFER : DECODE_BUFFER[k] \in Decode
    BY <2>1, SeqElements, Zenon
  <2>2. /\ Len(DECODE_BUFFER) \in Nat /\ DOMAIN DECODE_BUFFER = 1 .. Len(DECODE_BUFFER)
        /\ \A k \in DOMAIN DECODE_BUFFER : DECODE_BUFFER[k].id \in Nat
    BY <2>0 DEF Decode
  <2>3. d \in [1 .. Len(DECODE_BUFFER) -> Nat]  BY <2>2
  <2> QED  BY <2>2, <2>3, FunctionIsSeq
<1>2. f \in Seq(Nat) /\ Len(f) = Len(IFETCH_BUFFER)
      /\ \A k \in 1 .. Len(f) : f[k] = IFETCH_BUFFER[k].id
  <2>1. IFETCH_BUFFER \in Seq(Entry)  BY DEF FrontEndInv, Typed
  <2>0. /\ Len(IFETCH_BUFFER) \in Nat /\ DOMAIN IFETCH_BUFFER = 1 .. Len(IFETCH_BUFFER)
        /\ \A k \in DOMAIN IFETCH_BUFFER : IFETCH_BUFFER[k] \in Entry
    BY <2>1, SeqElements, Zenon
  <2>2. /\ Len(IFETCH_BUFFER) \in Nat /\ DOMAIN IFETCH_BUFFER = 1 .. Len(IFETCH_BUFFER)
        /\ \A k \in DOMAIN IFETCH_BUFFER : IFETCH_BUFFER[k].id \in Nat
    BY <2>0 DEF Entry
  <2>3. f \in [1 .. Len(IFETCH_BUFFER) -> Nat]  BY <2>2
  <2> QED  BY <2>2, <2>3, FunctionIsSeq
<1>3. ROB \in Seq(Nat) /\ IFETCH_BUFFER \in Seq(Entry) /\ DECODE_BUFFER \in Seq(Decode) /\ read \in Nat
  BY ProgramType DEF FrontEndInv, Typed
<1> HIDE DEF d, f, ids
<1>4. /\ rd \in Seq(Nat) /\ Len(rd) = Len(ROB) + Len(d) /\ Len(ROB) \in Nat /\ Len(d) \in Nat
      /\ DOMAIN ROB = 1 .. Len(ROB)
      /\ \A k \in 1 .. Len(ROB) : rd[k] = ROB[k]
      /\ \A k \in 1 .. Len(d) : rd[Len(ROB) + k] = d[k]
  <2>1. rd = ROB \o d /\ d \in Seq(Nat) /\ ROB \in Seq(Nat)  BY <1>1, <1>3
  <2> HIDE DEF rd
  <2>2. DOMAIN ROB = 1 .. Len(ROB)  BY <2>1, SeqElements, Zenon
  <2> QED  BY <2>1, <2>2, ConcatOf
<1> HIDE DEF rd
<1>5. /\ Len(all) = Len(rd) + Len(f) /\ Len(rd) \in Nat /\ Len(f) \in Nat
      /\ DOMAIN all = 1 .. Len(all)
      /\ \A k \in 1 .. Len(rd) : all[k] = rd[k]
      /\ \A k \in 1 .. Len(f) : all[Len(rd) + k] = f[k]
  <2>1. all = rd \o f /\ f \in Seq(Nat) /\ rd \in Seq(Nat)  BY <1>2, <1>4
  <2> HIDE DEF all
  <2> QED  BY <2>1, ConcatOf
<1> HIDE DEF all
<1>6. Len(all) = Held  BY <1>1, <1>2, <1>4, <1>5 DEF Held
<1>7. \A k \in DOMAIN all : all[k] = read - Len(all) + k
  <2> SUFFICES ASSUME NEW k \in 1 .. Len(all) PROVE all[k] = read - Len(all) + k
    BY <1>5
  <2>1. CASE k \in 1 .. Len(ROB)
    <3>1. all[k] = ROB[k]  BY <2>1, <1>4, <1>5
    <3> QED  BY <2>1, <3>1, <1>4, <1>6 DEF FrontEndInv, Ordered
  <2>2. ASSUME NEW j \in 1 .. Len(d), k = Len(ROB) + j PROVE all[k] = read - Len(all) + k
    <3>1. all[k] = d[j]  BY <2>2, <1>4, <1>5
    <3>2. DECODE_BUFFER[j].id = read - Len(f) - Len(d) + j
      BY <1>1, <1>2, <1>3, LenProperties DEF FrontEndInv, Ordered
    <3> QED  BY <2>2, <3>1, <3>2, <1>1, <1>3, <1>4, <1>5
  <2>3. ASSUME NEW j \in 1 .. Len(f), k = Len(rd) + j PROVE all[k] = read - Len(all) + k
    <3>1. all[k] = f[j]  BY <2>3, <1>5
    <3>2. IFETCH_BUFFER[j].id = read - Len(f) + j
      BY <1>2, <1>3, LenProperties DEF FrontEndInv, Ordered, Entries
    <3> QED  BY <2>3, <3>1, <3>2, <1>2, <1>3, <1>4, <1>5
  <2>4. k \in 1 .. Len(ROB) \/ (\E j \in 1 .. Len(d) : k = Len(ROB) + j)
                            \/ (\E j \in 1 .. Len(f) : k = Len(rd) + j)
    <3>1. CASE k \in 1 .. Len(ROB)  BY <3>1
    <3>2. CASE k > Len(ROB) /\ k =< Len(rd)
      <4>1. k - Len(ROB) \in 1 .. Len(d) /\ k = Len(ROB) + (k - Len(ROB))  BY <3>2, <1>4
      <4> QED  BY <4>1
    <3>3. CASE k > Len(rd)
      <4>1. k - Len(rd) \in 1 .. Len(f) /\ k = Len(rd) + (k - Len(rd))  BY <3>3, <1>5
      <4> QED  BY <4>1
    <3> QED  BY <3>1, <3>2, <3>3, <1>4, <1>5
  <2> QED  BY <2>1, <2>2, <2>3, <2>4
<1> QED  BY <1>7 DEF InProgramOrder, all, rd, d, f, ids

--------------------------------------------------------------------------------
(* What the invariant says of the buffers, in the form the steps use. *)
LEMMA Facts ==
  ASSUME FrontEndInv
  PROVE  /\ read \in Nat /\ Len(IFETCH_BUFFER) \in Nat /\ Len(DECODE_BUFFER) \in Nat /\ Len(ROB) \in Nat
         /\ Entries = 1 .. Len(IFETCH_BUFFER) /\ DOMAIN DECODE_BUFFER = 1 .. Len(DECODE_BUFFER)
         /\ DOMAIN ROB = 1 .. Len(ROB)
         /\ \A k \in Entries : IFETCH_BUFFER[k] \in Entry /\ IFETCH_BUFFER[k].id \in 1 .. read
         /\ \A k \in DOMAIN DECODE_BUFFER : DECODE_BUFFER[k] \in Decode
         /\ \A k \in DOMAIN ROB : ROB[k] \in 1 .. read
         /\ \A id \in 1 .. read : Page(id) \in Pages /\ Line(id) \in Lines
<1>1. /\ IFETCH_BUFFER \in Seq(Entry) /\ DECODE_BUFFER \in Seq(Decode) /\ ROB \in Seq(Nat)
      /\ prog \in Programs /\ read \in 0 .. Len(prog)
  BY DEF FrontEndInv, Typed
<1>2. Len(prog) \in Nat /\ \A k \in 1 .. Len(prog) : prog[k].page \in Pages /\ prog[k].line \in Lines
  BY <1>1, ProgramType
<1>3. read \in Nat /\ \A id \in 1 .. read : Page(id) \in Pages /\ Line(id) \in Lines
  BY <1>1, <1>2 DEF Page, Line
<1>4. /\ Len(IFETCH_BUFFER) \in Nat /\ DOMAIN IFETCH_BUFFER = 1 .. Len(IFETCH_BUFFER)
      /\ \A k \in DOMAIN IFETCH_BUFFER : IFETCH_BUFFER[k] \in Entry
  BY <1>1, SeqElements, Zenon
<1>5. /\ Len(DECODE_BUFFER) \in Nat /\ DOMAIN DECODE_BUFFER = 1 .. Len(DECODE_BUFFER)
      /\ \A k \in DOMAIN DECODE_BUFFER : DECODE_BUFFER[k] \in Decode
  BY <1>1, SeqElements, Zenon
<1>6. Len(ROB) \in Nat /\ DOMAIN ROB = 1 .. Len(ROB)
  BY <1>1, SeqElements, Zenon
<1>7. \A k \in Entries : IFETCH_BUFFER[k].id \in 1 .. read
  BY <1>3, <1>4, <1>5, <1>6 DEF FrontEndInv, Ordered, Held, Entries
<1>8. \A k \in DOMAIN ROB : ROB[k] \in 1 .. read
  BY <1>3, <1>4, <1>5, <1>6 DEF FrontEndInv, Ordered, Held
<1> QED  BY <1>3, <1>4, <1>5, <1>6, <1>7, <1>8 DEF Entries

(* An entry keeps its place and its instruction when its marks change. *)
LEMMA Relabelled ==
  ASSUME FrontEndInv, IFETCH_BUFFER' \in [Entries -> Entry],
         \A k \in Entries : IFETCH_BUFFER'[k].id = IFETCH_BUFFER[k].id,
         prog' = prog, read' = read, DECODE_BUFFER' = DECODE_BUFFER, ROB' = ROB
  PROVE  /\ IFETCH_BUFFER' \in Seq(Entry) /\ Len(IFETCH_BUFFER') = Len(IFETCH_BUFFER)
         /\ Entries' = Entries /\ Ordered'
<1>1. Len(IFETCH_BUFFER) \in Nat /\ Entries = 1 .. Len(IFETCH_BUFFER)  BY Facts
<1>2. /\ IFETCH_BUFFER' \in Seq(Entry) /\ Len(IFETCH_BUFFER') = Len(IFETCH_BUFFER)
      /\ DOMAIN IFETCH_BUFFER' = 1 .. Len(IFETCH_BUFFER)
  BY <1>1, FunctionIsSeq
<1>3. Entries' = Entries  BY <1>1, <1>2 DEF Entries
<1>4. Ordered'  BY <1>2, <1>3 DEF FrontEndInv, Ordered, Held
<1> QED  BY <1>2, <1>3, <1>4

(* An entry with other marks. *)
Marking(e, t, f) == [e EXCEPT !.translated = t, !.fetched = f]

(* It is the same instruction. *)
MarkedAs(m, e, t, f) ==
  /\ m \in Entry /\ m.id = e.id /\ m.translated = t /\ m.fetched = f
  /\ m.instruction_pa = e.instruction_pa

\* Marking an entry changes nothing but the two marks.
LEMMA Marks ==
  ASSUME NEW e \in Entry, NEW t \in State, NEW f \in State
  PROVE  MarkedAs(Marking(e, t, f), e, t, f)
BY DEF Entry, Marking, MarkedAs

\* The three marks are different.
LEMMA States ==
  /\ NotYet \in State /\ INFLIGHT \in State /\ COMPLETED \in State
  /\ NotYet # INFLIGHT /\ NotYet # COMPLETED /\ INFLIGHT # COMPLETED
BY DEF State, NotYet, INFLIGHT, COMPLETED

--------------------------------------------------------------------------------
(* Every action preserves the invariant. *)

LEMMA ReadFromTraceInv ==
  ASSUME FrontEndInv, ReadFromTrace
  PROVE  FrontEndInv'
<1> DEFINE new == [id |-> read + 1, translated |-> NotYet, fetched |-> NotYet,
                   instruction_pa |-> FALSE]
<1>0. /\ read < Len(prog) /\ Len(IFETCH_BUFFER) < IFETCH_SIZE /\ ~fetch_stall
      /\ read' = read + 1 /\ IFETCH_BUFFER' = Append(IFETCH_BUFFER, new)
      /\ UNCHANGED <<prog, DECODE_BUFFER, ROB, completed, itlb, itlbDone, l1i, l1iDone,
                     fetch_resume, warmup_complete>>
  BY DEF ReadFromTrace, MayRead, backVars, cacheVars
<1>1. new \in Entry /\ new.id = read + 1 /\ new.translated = NotYet /\ new.fetched = NotYet
  BY Facts, States DEF Entry
<1> HIDE DEF new
<1>2. PICK wrong : /\ fetch_stall' = (StallsFetch(wrong) # {})
                   /\ mispredicted' = mispredicted \cup StallsFetch(wrong)
  BY DEF ReadFromTrace
<1>3. IFETCH_BUFFER \in Seq(Entry)  BY DEF FrontEndInv, Typed
<1>4. /\ IFETCH_BUFFER' \in Seq(Entry) /\ Len(IFETCH_BUFFER') = Len(IFETCH_BUFFER) + 1
      /\ \A i \in 1 .. Len(IFETCH_BUFFER) : IFETCH_BUFFER'[i] = IFETCH_BUFFER[i]
      /\ IFETCH_BUFFER'[Len(IFETCH_BUFFER) + 1] = new
  BY <1>0, <1>1, <1>3, AppendProperties
<1>5. Entries' = 1 .. Len(IFETCH_BUFFER) + 1 /\ Entries = 1 .. Len(IFETCH_BUFFER)
  BY <1>3, <1>4, SeqElements DEF Entries
<1>6. Typed'
  <2>1. prog \in Programs /\ Len(prog) \in Nat  BY ProgramType DEF FrontEndInv, Typed
  <2>2. read' \in 0 .. Len(prog)  BY <1>0, <2>1, Facts
  <2>3. Len(IFETCH_BUFFER') =< IFETCH_SIZE  BY <1>0, <1>4, Facts, SizesType
  <2>4. fetch_stall' \in BOOLEAN  BY <1>2
  <2> QED  BY <1>0, <1>4, <2>1, <2>2, <2>3, <2>4 DEF FrontEndInv, Typed
<1>7. Ordered'
  <2>1. Held' =< read' /\ read' - Held' = read - Held
    BY <1>0, <1>4, Facts DEF FrontEndInv, Ordered, Held
  <2>2. read' - Len(IFETCH_BUFFER') = read - Len(IFETCH_BUFFER)  BY <1>0, <1>4, Facts
  <2>3. \A k \in Entries' : IFETCH_BUFFER'[k].id = read' - Len(IFETCH_BUFFER') + k
    <3> SUFFICES ASSUME NEW k \in Entries'
                 PROVE  IFETCH_BUFFER'[k].id = read - Len(IFETCH_BUFFER) + k
      BY <2>2
    <3>1. CASE k \in Entries  BY <3>1, <1>4, <1>5 DEF FrontEndInv, Ordered
    <3>2. CASE k = Len(IFETCH_BUFFER) + 1  BY <3>2, <1>1, <1>4, Facts
    <3> QED  BY <3>1, <3>2, <1>5, Facts
  <2> QED  BY <1>0, <2>1, <2>2, <2>3 DEF FrontEndInv, Ordered
<1>8. Marked'
  <2>1. StallsFetch(wrong) \subseteq {read + 1}  BY DEF StallsFetch
  <2>2. mispredicted \subseteq 1 .. read  BY DEF FrontEndInv, Marked
  <2>0. read \in Nat /\ read' = read + 1  BY <1>0, Facts
  <2>4. 1 .. read \subseteq 1 .. read' /\ read + 1 \in 1 .. read'  BY <2>0
  <2>3. mispredicted' \subseteq 1 .. read'
    BY <1>2, <2>1, <2>2, <2>4
  <2> QED  BY <1>0, <2>3 DEF FrontEndInv, Marked, InRob
<1>9. WaitsForSomething' /\ RequestsAreTranslated'
  <2>1. ASSUME NEW k \in Entries'
        PROVE  IFETCH_BUFFER'[k] = new \/ (k \in Entries /\ IFETCH_BUFFER'[k] = IFETCH_BUFFER[k])
    <3>1. k \in Entries \/ k = Len(IFETCH_BUFFER) + 1  BY <1>5, Facts
    <3> QED  BY <3>1, <1>4, <1>5
  <2> SUFFICES ASSUME NEW k \in Entries'
               PROVE  LET e == IFETCH_BUFFER'[k] IN
                      /\ e.translated = INFLIGHT => Page(e.id) \in itlb \/ InDone(itlbDone, Page(e.id))
                      /\ e.fetched = INFLIGHT => Line(e.id) \in l1i \/ InDone(l1iDone, Line(e.id))
                      /\ e.translated = COMPLETED /\ e.fetched = NotYet => e.instruction_pa
    BY <1>0 DEF WaitsForSomething, RequestsAreTranslated, Page, Line, InDone
  <2>2. CASE IFETCH_BUFFER'[k] = new  BY <2>2, <1>1, States
  <2>3. CASE k \in Entries /\ IFETCH_BUFFER'[k] = IFETCH_BUFFER[k]
    BY <2>3 DEF FrontEndInv, NothingWaitsInVain, WaitsForSomething, RequestsAreTranslated
  <2> QED  BY <2>1, <2>2, <2>3
<1>10. StallHasBranch'
  <2>1. completed \subseteq 1 .. read /\ read + 1 \notin 1 .. read
    BY Facts DEF FrontEndInv, Marked, InRob
  <2>2. StallsFetch(wrong) = {} \/ StallsFetch(wrong) = {read + 1}  BY DEF StallsFetch
  <2>3. mispredicted \ completed = {} /\ ~fetch_resume
    BY <1>0 DEF FrontEndInv, NothingWaitsInVain, StallHasBranch
  <2>4. mispredicted' \ completed' = StallsFetch(wrong)
    BY <1>0, <1>2, <2>1, <2>2, <2>3
  <2> QED  BY <1>0, <1>2, <2>2, <2>3, <2>4 DEF StallHasBranch
<1> QED  BY <1>6, <1>7, <1>8, <1>9, <1>10 DEF FrontEndInv, NothingWaitsInVain

LEMMA ResumeFetchInv ==
  ASSUME FrontEndInv, ResumeFetch
  PROVE  FrontEndInv'
<1>1. Typed' /\ Ordered' /\ Marked'
  BY DEF ResumeFetch, FrontEndInv, Typed, Ordered, Marked, Held, InRob, Entries, backVars, cacheVars
<1>2. WaitsForSomething' /\ RequestsAreTranslated'
  BY DEF ResumeFetch, FrontEndInv, NothingWaitsInVain, WaitsForSomething, RequestsAreTranslated,
         Entries, Page, Line, InDone, cacheVars
<1>3. StallHasBranch'
  BY DEF ResumeFetch, FrontEndInv, NothingWaitsInVain, StallHasBranch, backVars
<1> QED  BY <1>1, <1>2, <1>3 DEF FrontEndInv, NothingWaitsInVain

LEMMA RequestTranslationInv ==
  ASSUME FrontEndInv, NEW k \in Entries, RequestTranslation(k)
  PROVE  FrontEndInv'
<1> DEFINE page == Page(IFETCH_BUFFER[k].id)
           Asks(j) == Page(IFETCH_BUFFER[j].id) = page /\ IFETCH_BUFFER[j].translated = NotYet
           Asked(j) == Marking(IFETCH_BUFFER[j], INFLIGHT, NotYet)
<1>0. /\ itlb' = itlb \cup {page}
      /\ IFETCH_BUFFER' = [j \in Entries |-> IF Asks(j) THEN Asked(j) ELSE IFETCH_BUFFER[j]]
      /\ UNCHANGED <<prog, read, DECODE_BUFFER, ROB, completed, itlbDone, l1i, l1iDone,
                     fetch_stall, fetch_resume, mispredicted, warmup_complete>>
  BY DEF RequestTranslation, Marking, backVars, stallVars
<1>1. page \in Pages  BY Facts
<1>2. ASSUME NEW j \in Entries
      PROVE  /\ Asked(j) \in Entry /\ Asked(j).id = IFETCH_BUFFER[j].id
             /\ Asked(j).translated = INFLIGHT /\ Asked(j).fetched = NotYet
  <2>1. IFETCH_BUFFER[j] \in Entry  BY Facts
  <2>2. NotYet \in State /\ INFLIGHT \in State /\ COMPLETED \in State  BY States
  <2>3. MarkedAs(Asked(j), IFETCH_BUFFER[j], INFLIGHT, NotYet)  BY <2>1, <2>2, Marks
  <2> QED  BY <2>3 DEF MarkedAs
<1> HIDE DEF Asked
<1>3. IFETCH_BUFFER' \in [Entries -> Entry]
  BY <1>0, <1>2, Facts
<1>4. \A j \in Entries : IFETCH_BUFFER'[j].id = IFETCH_BUFFER[j].id
  BY <1>0, <1>2
<1>5. /\ IFETCH_BUFFER' \in Seq(Entry) /\ Len(IFETCH_BUFFER') = Len(IFETCH_BUFFER)
      /\ Entries' = Entries /\ Ordered'
  BY <1>0, <1>3, <1>4, Relabelled
<1>6. Typed' /\ Marked'
  BY <1>0, <1>1, <1>5 DEF FrontEndInv, Typed, Marked, InRob
<1>7. WaitsForSomething' /\ RequestsAreTranslated'
  <2> SUFFICES ASSUME NEW j \in Entries
               PROVE  LET e == IFETCH_BUFFER'[j] IN
                      /\ e.translated = INFLIGHT => Page(e.id) \in itlb' \/ InDone(itlbDone, Page(e.id))
                      /\ e.fetched = INFLIGHT => Line(e.id) \in l1i \/ InDone(l1iDone, Line(e.id))
                      /\ e.translated = COMPLETED /\ e.fetched = NotYet => e.instruction_pa
    BY <1>0, <1>5 DEF WaitsForSomething, RequestsAreTranslated, Page, Line, InDone
  <2>1. CASE Asks(j)
    BY <2>1, <1>0, <1>2, States
  <2>2. CASE ~Asks(j)
    BY <2>2, <1>0
    DEF FrontEndInv, NothingWaitsInVain, WaitsForSomething, RequestsAreTranslated
  <2> QED  BY <2>1, <2>2
<1>8. StallHasBranch'
  BY <1>0 DEF FrontEndInv, NothingWaitsInVain, StallHasBranch
<1> QED  BY <1>5, <1>6, <1>7, <1>8 DEF FrontEndInv, NothingWaitsInVain

LEMMA RequestLineInv ==
  ASSUME FrontEndInv, NEW k \in Entries, RequestLine(k)
  PROVE  FrontEndInv'
<1> DEFINE line == Line(IFETCH_BUFFER[k].id)
           Asks(j) == Line(IFETCH_BUFFER[j].id) = line
           Asked(j) == Marking(IFETCH_BUFFER[j], COMPLETED, INFLIGHT)
<1>0. /\ l1i' = l1i \cup {line}
      /\ IFETCH_BUFFER' = [j \in Entries |-> IF Asks(j) THEN Asked(j) ELSE IFETCH_BUFFER[j]]
      /\ UNCHANGED <<prog, read, DECODE_BUFFER, ROB, completed, itlb, itlbDone, l1iDone,
                     fetch_stall, fetch_resume, mispredicted, warmup_complete>>
  BY DEF RequestLine, Mark, Marking, backVars, stallVars
<1>1. line \in Lines  BY Facts
<1>2. ASSUME NEW j \in Entries
      PROVE  /\ Asked(j) \in Entry /\ Asked(j).id = IFETCH_BUFFER[j].id
             /\ Asked(j).translated = COMPLETED /\ Asked(j).fetched = INFLIGHT
  <2>1. IFETCH_BUFFER[j] \in Entry  BY Facts
  <2>2. NotYet \in State /\ INFLIGHT \in State /\ COMPLETED \in State  BY States
  <2>3. MarkedAs(Asked(j), IFETCH_BUFFER[j], COMPLETED, INFLIGHT)  BY <2>1, <2>2, Marks
  <2> QED  BY <2>3 DEF MarkedAs
<1> HIDE DEF Asked
<1>3. IFETCH_BUFFER' \in [Entries -> Entry]
  BY <1>0, <1>2, Facts
<1>4. \A j \in Entries : IFETCH_BUFFER'[j].id = IFETCH_BUFFER[j].id
  BY <1>0, <1>2
<1>5. /\ IFETCH_BUFFER' \in Seq(Entry) /\ Len(IFETCH_BUFFER') = Len(IFETCH_BUFFER)
      /\ Entries' = Entries /\ Ordered'
  BY <1>0, <1>3, <1>4, Relabelled
<1>6. Typed' /\ Marked'
  BY <1>0, <1>1, <1>5 DEF FrontEndInv, Typed, Marked, InRob
<1>7. WaitsForSomething' /\ RequestsAreTranslated'
  <2> SUFFICES ASSUME NEW j \in Entries
               PROVE  LET e == IFETCH_BUFFER'[j] IN
                      /\ e.translated = INFLIGHT => Page(e.id) \in itlb \/ InDone(itlbDone, Page(e.id))
                      /\ e.fetched = INFLIGHT => Line(e.id) \in l1i' \/ InDone(l1iDone, Line(e.id))
                      /\ e.translated = COMPLETED /\ e.fetched = NotYet => e.instruction_pa
    BY <1>0, <1>5 DEF WaitsForSomething, RequestsAreTranslated, Page, Line, InDone
  <2>1. CASE Asks(j)
    BY <2>1, <1>0, <1>2, States
  <2>2. CASE ~Asks(j)
    BY <2>2, <1>0
    DEF FrontEndInv, NothingWaitsInVain, WaitsForSomething, RequestsAreTranslated
  <2> QED  BY <2>1, <2>2
<1>8. StallHasBranch'
  BY <1>0 DEF FrontEndInv, NothingWaitsInVain, StallHasBranch
<1> QED  BY <1>5, <1>6, <1>7, <1>8 DEF FrontEndInv, NothingWaitsInVain

(* The queue of answers without its head: the other answers are still there.   *)
LEMMA OtherAnswers ==
  ASSUME NEW S, NEW q \in Seq(S), q # <<>>
  PROVE  /\ Tail(q) \in Seq(S)
         /\ \A x : InDone(q, x) => x = Head(q) \/ InDone(Tail(q), x)
<1>1. /\ Len(q) \in Nat \ {0} /\ DOMAIN q = 1 .. Len(q) /\ Head(q) = q[1]
      /\ Tail(q) \in Seq(S) /\ Len(Tail(q)) = Len(q) - 1
      /\ \A i \in 1 .. Len(Tail(q)) : Tail(q)[i] = q[i + 1]
  BY EmptySeq, HeadTailProperties, SeqElements
<1>2. DOMAIN Tail(q) = 1 .. Len(q) - 1  BY <1>1, SeqElements
<1>3. ASSUME NEW x, NEW i \in DOMAIN q, q[i] = x, x # Head(q)
      PROVE  InDone(Tail(q), x)
  <2>1. i - 1 \in 1 .. Len(q) - 1 /\ (i - 1) + 1 = i  BY <1>1, <1>3
  <2>2. Tail(q)[i - 1] = x  BY <1>1, <1>3, <2>1
  <2> QED  BY <1>2, <2>1, <2>2 DEF InDone
<1> QED  BY <1>1, <1>3 DEF InDone

LEMMA CompleteTranslationInv ==
  ASSUME FrontEndInv, CompleteTranslation
  PROVE  FrontEndInv'
<1> DEFINE page == Head(itlbDone)
           Answered(j) == Page(IFETCH_BUFFER[j].id) = page
           Done(j) == [IFETCH_BUFFER[j] EXCEPT !.translated = COMPLETED, !.fetched = NotYet,
                                               !.instruction_pa = TRUE]
<1>0. /\ itlbDone # <<>> /\ itlbDone' = Tail(itlbDone)
      /\ IFETCH_BUFFER' = [j \in Entries |-> IF Answered(j) THEN Done(j) ELSE IFETCH_BUFFER[j]]
      /\ UNCHANGED <<prog, read, DECODE_BUFFER, ROB, completed, itlb, l1i, l1iDone,
                     fetch_stall, fetch_resume, mispredicted, warmup_complete>>
  BY DEF CompleteTranslation, Mark, backVars, stallVars
<1>2. ASSUME NEW j \in Entries
      PROVE  /\ Done(j) \in Entry /\ Done(j).id = IFETCH_BUFFER[j].id
             /\ Done(j).translated = COMPLETED /\ Done(j).fetched = NotYet
             /\ Done(j).instruction_pa
  <2>1. IFETCH_BUFFER[j] \in Entry  BY Facts
  <2> QED  BY <2>1, States DEF Entry
<1> HIDE DEF Done
<1>3. IFETCH_BUFFER' \in [Entries -> Entry]
  BY <1>0, <1>2, Facts
<1>4. \A j \in Entries : IFETCH_BUFFER'[j].id = IFETCH_BUFFER[j].id
  BY <1>0, <1>2
<1>5. /\ IFETCH_BUFFER' \in Seq(Entry) /\ Len(IFETCH_BUFFER') = Len(IFETCH_BUFFER)
      /\ Entries' = Entries /\ Ordered'
  BY <1>0, <1>3, <1>4, Relabelled
<1>1. /\ itlbDone' \in Seq(Pages)
      /\ \A x : InDone(itlbDone, x) => x = page \/ InDone(itlbDone', x)
  BY <1>0, OtherAnswers DEF FrontEndInv, Typed
<1>6. Typed' /\ Marked'
  BY <1>0, <1>1, <1>5 DEF FrontEndInv, Typed, Marked, InRob
<1>7. WaitsForSomething' /\ RequestsAreTranslated'
  <2> SUFFICES ASSUME NEW j \in Entries
               PROVE  LET e == IFETCH_BUFFER'[j] IN
                      /\ e.translated = INFLIGHT => Page(e.id) \in itlb \/ InDone(itlbDone', Page(e.id))
                      /\ e.fetched = INFLIGHT => Line(e.id) \in l1i \/ InDone(l1iDone, Line(e.id))
                      /\ e.translated = COMPLETED /\ e.fetched = NotYet => e.instruction_pa
    BY <1>0, <1>5 DEF WaitsForSomething, RequestsAreTranslated, Page, Line, InDone
  <2>1. CASE Answered(j)
    BY <2>1, <1>0, <1>2, States
  <2>2. CASE ~Answered(j)
    <3>1. IFETCH_BUFFER'[j] = IFETCH_BUFFER[j]  BY <2>2, <1>0
    <3>2. InDone(itlbDone, Page(IFETCH_BUFFER[j].id)) => InDone(itlbDone', Page(IFETCH_BUFFER[j].id))
      BY <2>2, <1>1
    <3> QED  BY <3>1, <3>2
             DEF FrontEndInv, NothingWaitsInVain, WaitsForSomething, RequestsAreTranslated
  <2> QED  BY <2>1, <2>2
<1>8. StallHasBranch'
  BY <1>0 DEF FrontEndInv, NothingWaitsInVain, StallHasBranch
<1> QED  BY <1>5, <1>6, <1>7, <1>8 DEF FrontEndInv, NothingWaitsInVain

LEMMA CompleteFetchInv ==
  ASSUME FrontEndInv, CompleteFetch
  PROVE  FrontEndInv'
<1> DEFINE line == Head(l1iDone)
           Answered(j) == Line(IFETCH_BUFFER[j].id) = line
           Done(j) == Marking(IFETCH_BUFFER[j], COMPLETED, COMPLETED)
<1>0. /\ l1iDone # <<>> /\ l1iDone' = Tail(l1iDone)
      /\ IFETCH_BUFFER' = [j \in Entries |-> IF Answered(j) THEN Done(j) ELSE IFETCH_BUFFER[j]]
      /\ UNCHANGED <<prog, read, DECODE_BUFFER, ROB, completed, itlb, itlbDone, l1i,
                     fetch_stall, fetch_resume, mispredicted, warmup_complete>>
  BY DEF CompleteFetch, Mark, Marking, backVars, stallVars
<1>2. ASSUME NEW j \in Entries
      PROVE  /\ Done(j) \in Entry /\ Done(j).id = IFETCH_BUFFER[j].id
             /\ Done(j).translated = COMPLETED /\ Done(j).fetched = COMPLETED
  <2>1. IFETCH_BUFFER[j] \in Entry  BY Facts
  <2>2. NotYet \in State /\ INFLIGHT \in State /\ COMPLETED \in State  BY States
  <2>3. MarkedAs(Done(j), IFETCH_BUFFER[j], COMPLETED, COMPLETED)  BY <2>1, <2>2, Marks
  <2> QED  BY <2>3 DEF MarkedAs
<1> HIDE DEF Done
<1>3. IFETCH_BUFFER' \in [Entries -> Entry]
  BY <1>0, <1>2, Facts
<1>4. \A j \in Entries : IFETCH_BUFFER'[j].id = IFETCH_BUFFER[j].id
  BY <1>0, <1>2
<1>5. /\ IFETCH_BUFFER' \in Seq(Entry) /\ Len(IFETCH_BUFFER') = Len(IFETCH_BUFFER)
      /\ Entries' = Entries /\ Ordered'
  BY <1>0, <1>3, <1>4, Relabelled
<1>1. /\ l1iDone' \in Seq(Lines)
      /\ \A x : InDone(l1iDone, x) => x = line \/ InDone(l1iDone', x)
  BY <1>0, OtherAnswers DEF FrontEndInv, Typed
<1>6. Typed' /\ Marked'
  BY <1>0, <1>1, <1>5 DEF FrontEndInv, Typed, Marked, InRob
<1>7. WaitsForSomething' /\ RequestsAreTranslated'
  <2> SUFFICES ASSUME NEW j \in Entries
               PROVE  LET e == IFETCH_BUFFER'[j] IN
                      /\ e.translated = INFLIGHT => Page(e.id) \in itlb \/ InDone(itlbDone, Page(e.id))
                      /\ e.fetched = INFLIGHT => Line(e.id) \in l1i \/ InDone(l1iDone', Line(e.id))
                      /\ e.translated = COMPLETED /\ e.fetched = NotYet => e.instruction_pa
    BY <1>0, <1>5 DEF WaitsForSomething, RequestsAreTranslated, Page, Line, InDone
  <2>1. CASE Answered(j)
    BY <2>1, <1>0, <1>2, States
  <2>2. CASE ~Answered(j)
    <3>1. IFETCH_BUFFER'[j] = IFETCH_BUFFER[j]  BY <2>2, <1>0
    <3>2. InDone(l1iDone, Line(IFETCH_BUFFER[j].id)) => InDone(l1iDone', Line(IFETCH_BUFFER[j].id))
      BY <2>2, <1>1
    <3> QED  BY <3>1, <3>2
             DEF FrontEndInv, NothingWaitsInVain, WaitsForSomething, RequestsAreTranslated
  <2> QED  BY <2>1, <2>2
<1>8. StallHasBranch'
  BY <1>0 DEF FrontEndInv, NothingWaitsInVain, StallHasBranch
<1> QED  BY <1>5, <1>6, <1>7, <1>8 DEF FrontEndInv, NothingWaitsInVain

LEMMA SendToDecodeInv ==
  ASSUME FrontEndInv, SendToDecode
  PROVE  FrontEndInv'
<1> DEFINE new == [id |-> Head(IFETCH_BUFFER).id, event_cycle |-> 0]
<1>0. /\ IFETCH_BUFFER # <<>> /\ Len(DECODE_BUFFER) < DECODE_SIZE
      /\ DECODE_BUFFER' = Append(DECODE_BUFFER, new)
      /\ IFETCH_BUFFER' = Tail(IFETCH_BUFFER)
      /\ UNCHANGED <<prog, read, ROB, completed, itlb, itlbDone, l1i, l1iDone,
                     fetch_stall, fetch_resume, mispredicted, warmup_complete>>
  BY DEF SendToDecode, DecodeHasRoom, backVars, cacheVars, stallVars
<1>1. IFETCH_BUFFER \in Seq(Entry) /\ DECODE_BUFFER \in Seq(Decode)
  BY DEF FrontEndInv, Typed
<1>2. /\ Len(IFETCH_BUFFER) \in Nat \ {0} /\ Head(IFETCH_BUFFER) = IFETCH_BUFFER[1]
      /\ IFETCH_BUFFER' \in Seq(Entry) /\ Len(IFETCH_BUFFER') = Len(IFETCH_BUFFER) - 1
      /\ \A i \in 1 .. Len(IFETCH_BUFFER') : IFETCH_BUFFER'[i] = IFETCH_BUFFER[i + 1]
  BY <1>0, <1>1, EmptySeq, HeadTailProperties
<1>3. new \in Decode /\ new.id = IFETCH_BUFFER[1].id
  <2>1. 1 \in Entries  BY <1>2, Facts
  <2>2. IFETCH_BUFFER[1] \in Entry  BY <2>1, Facts
  <2> QED  BY <1>2, <2>2 DEF Entry, Decode
<1> HIDE DEF new
<1>4. /\ DECODE_BUFFER' \in Seq(Decode) /\ Len(DECODE_BUFFER') = Len(DECODE_BUFFER) + 1
      /\ \A i \in 1 .. Len(DECODE_BUFFER) : DECODE_BUFFER'[i] = DECODE_BUFFER[i]
      /\ DECODE_BUFFER'[Len(DECODE_BUFFER) + 1] = new
  BY <1>0, <1>1, <1>3, AppendProperties
<1>5. /\ Entries' = 1 .. Len(IFETCH_BUFFER) - 1
      /\ DOMAIN DECODE_BUFFER' = 1 .. Len(DECODE_BUFFER) + 1
  BY <1>2, <1>4, SeqElements DEF Entries
<1>6. Typed' /\ Marked'
  <2>1. Len(IFETCH_BUFFER') =< IFETCH_SIZE /\ Len(DECODE_BUFFER') =< DECODE_SIZE
    BY <1>0, <1>2, <1>4, Facts, SizesType DEF FrontEndInv, Typed
  <2> QED  BY <1>0, <1>2, <1>4, <2>1 DEF FrontEndInv, Typed, Marked, InRob
<1>7. Ordered'
  <2>1. Held' = Held  BY <1>0, <1>2, <1>4, Facts DEF Held
  <2>2. Len(IFETCH_BUFFER') + Len(DECODE_BUFFER') = Len(IFETCH_BUFFER) + Len(DECODE_BUFFER)
    BY <1>2, <1>4, Facts
  <2>3. ASSUME NEW k \in Entries'
        PROVE  IFETCH_BUFFER'[k].id = read - Len(IFETCH_BUFFER') + k
    <3>1. k \in 1 .. Len(IFETCH_BUFFER') /\ k + 1 \in Entries  BY <1>2, <1>5, Facts
    <3>2. IFETCH_BUFFER'[k].id = read - Len(IFETCH_BUFFER) + (k + 1)
      BY <1>2, <3>1 DEF FrontEndInv, Ordered
    <3> QED  BY <1>2, <3>1, <3>2, Facts
  <2>4. ASSUME NEW k \in DOMAIN DECODE_BUFFER'
        PROVE  DECODE_BUFFER'[k].id = read - Len(IFETCH_BUFFER') - Len(DECODE_BUFFER') + k
    <3>1. CASE k \in 1 .. Len(DECODE_BUFFER)
      <4>1. DECODE_BUFFER[k].id = read - Len(IFETCH_BUFFER) - Len(DECODE_BUFFER) + k
        BY <3>1, Facts DEF FrontEndInv, Ordered
      <4> QED  BY <3>1, <4>1, <1>2, <1>4, Facts
    <3>2. CASE k = Len(DECODE_BUFFER) + 1
      <4>1. 1 \in Entries  BY <1>2, Facts
      <4>2. IFETCH_BUFFER[1].id = read - Len(IFETCH_BUFFER) + 1
        BY <4>1 DEF FrontEndInv, Ordered
      <4> QED  BY <3>2, <4>2, <1>2, <1>3, <1>4, Facts
    <3> QED  BY <3>1, <3>2, <1>5, Facts
  <2> QED  BY <1>0, <2>1, <2>3, <2>4 DEF FrontEndInv, Ordered
<1>8. WaitsForSomething' /\ RequestsAreTranslated'
  <2> SUFFICES ASSUME NEW k \in Entries'
               PROVE  LET e == IFETCH_BUFFER'[k] IN
                      /\ e.translated = INFLIGHT => Page(e.id) \in itlb \/ InDone(itlbDone, Page(e.id))
                      /\ e.fetched = INFLIGHT => Line(e.id) \in l1i \/ InDone(l1iDone, Line(e.id))
                      /\ e.translated = COMPLETED /\ e.fetched = NotYet => e.instruction_pa
    BY <1>0 DEF WaitsForSomething, RequestsAreTranslated, Page, Line, InDone
  <2>1. k \in 1 .. Len(IFETCH_BUFFER') /\ k + 1 \in Entries  BY <1>2, <1>5, Facts
  <2>2. IFETCH_BUFFER'[k] = IFETCH_BUFFER[k + 1]  BY <1>2, <2>1
  <2> QED  BY <2>1, <2>2
           DEF FrontEndInv, NothingWaitsInVain, WaitsForSomething, RequestsAreTranslated
<1>9. StallHasBranch'
  BY <1>0 DEF FrontEndInv, NothingWaitsInVain, StallHasBranch
<1> QED  BY <1>6, <1>7, <1>8, <1>9 DEF FrontEndInv, NothingWaitsInVain

(* An answer moves a page or line from the cache to its PROCESSED queue. *)
LEMMA MovedToDone ==
  ASSUME NEW S, NEW q \in Seq(S), NEW x \in S
  PROVE  /\ Append(q, x) \in Seq(S) /\ InDone(Append(q, x), x)
         /\ \A y : InDone(q, y) => InDone(Append(q, x), y)
<1> DEFINE r == Append(q, x)
<1>1. /\ r \in Seq(S) /\ Len(r) = Len(q) + 1 /\ Len(q) \in Nat /\ DOMAIN q = 1 .. Len(q)
      /\ \A i \in 1 .. Len(q) : r[i] = q[i]
      /\ r[Len(q) + 1] = x
  BY AppendProperties, SeqElements
<1> HIDE DEF r
<1>2. DOMAIN r = 1 .. Len(q) + 1  BY <1>1, SeqElements
<1>3. InDone(r, x)
  <2>1. Len(q) + 1 \in DOMAIN r  BY <1>1, <1>2
  <2> QED  BY <1>1, <2>1 DEF InDone
<1>4. ASSUME NEW y, InDone(q, y) PROVE InDone(r, y)
  <2>1. PICK i \in DOMAIN q : q[i] = y  BY <1>4 DEF InDone
  <2>2. i \in DOMAIN r /\ r[i] = y  BY <1>1, <1>2, <2>1
  <2> QED  BY <2>2 DEF InDone
<1> QED  BY <1>1, <1>3, <1>4 DEF r

LEMMA ItlbAnswersInv ==
  ASSUME FrontEndInv, NEW page \in Pages, ItlbAnswers(page)
  PROVE  FrontEndInv'
<1>0. /\ itlb' = itlb \ {page} /\ itlbDone' = Append(itlbDone, page)
      /\ UNCHANGED <<prog, read, IFETCH_BUFFER, DECODE_BUFFER, ROB, completed, l1i, l1iDone,
                     fetch_stall, fetch_resume, mispredicted, warmup_complete>>
  BY DEF ItlbAnswers, backVars, stallVars
<1>1. /\ itlbDone' \in Seq(Pages) /\ InDone(itlbDone', page)
      /\ \A y : InDone(itlbDone, y) => InDone(itlbDone', y)
  BY <1>0, MovedToDone DEF FrontEndInv, Typed
<1>2. Typed' /\ Ordered' /\ Marked'
  BY <1>0, <1>1 DEF FrontEndInv, Typed, Ordered, Marked, Held, InRob, Entries
<1>3. WaitsForSomething' /\ RequestsAreTranslated'
  <2> SUFFICES ASSUME NEW k \in Entries
               PROVE  LET e == IFETCH_BUFFER[k] IN
                      /\ e.translated = INFLIGHT => Page(e.id) \in itlb' \/ InDone(itlbDone', Page(e.id))
                      /\ e.fetched = INFLIGHT => Line(e.id) \in l1i \/ InDone(l1iDone, Line(e.id))
                      /\ e.translated = COMPLETED /\ e.fetched = NotYet => e.instruction_pa
    BY <1>0 DEF WaitsForSomething, RequestsAreTranslated, Page, Line, InDone, Entries
  <2> QED  BY <1>0, <1>1 DEF FrontEndInv, NothingWaitsInVain, WaitsForSomething, RequestsAreTranslated
<1>4. StallHasBranch'
  BY <1>0 DEF FrontEndInv, NothingWaitsInVain, StallHasBranch
<1> QED  BY <1>2, <1>3, <1>4 DEF FrontEndInv, NothingWaitsInVain

LEMMA L1iAnswersInv ==
  ASSUME FrontEndInv, NEW line \in Lines, L1iAnswers(line)
  PROVE  FrontEndInv'
<1>0. /\ l1i' = l1i \ {line} /\ l1iDone' = Append(l1iDone, line)
      /\ UNCHANGED <<prog, read, IFETCH_BUFFER, DECODE_BUFFER, ROB, completed, itlb, itlbDone,
                     fetch_stall, fetch_resume, mispredicted, warmup_complete>>
  BY DEF L1iAnswers, backVars, stallVars
<1>1. /\ l1iDone' \in Seq(Lines) /\ InDone(l1iDone', line)
      /\ \A y : InDone(l1iDone, y) => InDone(l1iDone', y)
  BY <1>0, MovedToDone DEF FrontEndInv, Typed
<1>2. Typed' /\ Ordered' /\ Marked'
  BY <1>0, <1>1 DEF FrontEndInv, Typed, Ordered, Marked, Held, InRob, Entries
<1>3. WaitsForSomething' /\ RequestsAreTranslated'
  <2> SUFFICES ASSUME NEW k \in Entries
               PROVE  LET e == IFETCH_BUFFER[k] IN
                      /\ e.translated = INFLIGHT => Page(e.id) \in itlb \/ InDone(itlbDone, Page(e.id))
                      /\ e.fetched = INFLIGHT => Line(e.id) \in l1i' \/ InDone(l1iDone', Line(e.id))
                      /\ e.translated = COMPLETED /\ e.fetched = NotYet => e.instruction_pa
    BY <1>0 DEF WaitsForSomething, RequestsAreTranslated, Page, Line, InDone, Entries
  <2> QED  BY <1>0, <1>1 DEF FrontEndInv, NothingWaitsInVain, WaitsForSomething, RequestsAreTranslated
<1>4. StallHasBranch'
  BY <1>0 DEF FrontEndInv, NothingWaitsInVain, StallHasBranch
<1> QED  BY <1>2, <1>3, <1>4 DEF FrontEndInv, NothingWaitsInVain

(* What leaves the decoder's buffer alone but its latencies. *)
LEMMA PayingKeeps ==
  ASSUME NEW s \in Seq(Decode)
  PROVE  /\ Paying(s) \in Seq(Decode) /\ Len(Paying(s)) = Len(s)
         /\ \A k \in 1 .. Len(s) : Paying(s)[k].id = s[k].id
<1> DEFINE last == IF Len(s) = DECODE_SIZE THEN 1 ELSE Len(s)
<1>1. /\ Len(s) \in Nat /\ DOMAIN s = 1 .. Len(s)
      /\ \A k \in DOMAIN s : s[k] \in Decode
  BY SeqElements, Zenon
<1>2. Paying(s) = [k \in DOMAIN s |-> IF k =< last THEN [s[k] EXCEPT !.event_cycle = 1] ELSE s[k]]
  BY DEF Paying
<1> HIDE DEF last
<1>3. ASSUME NEW k \in DOMAIN s
      PROVE  Paying(s)[k] \in Decode /\ Paying(s)[k].id = s[k].id
  <2>1. [s[k] EXCEPT !.event_cycle = 1] \in Decode /\ [s[k] EXCEPT !.event_cycle = 1].id = s[k].id
    BY <1>1 DEF Decode
  <2> QED  BY <1>1, <1>2, <2>1
<1>4. Paying(s) \in [1 .. Len(s) -> Decode]  BY <1>1, <1>2, <1>3
<1> QED  BY <1>1, <1>3, <1>4, FunctionIsSeq

LEMMA DecodeAndDispatchInv ==
  ASSUME FrontEndInv, NEW n \in 0 .. DECODE_SIZE, DecodeAndDispatch(n)
  PROVE  FrontEndInv'
<1> DEFINE rest  == SubSeq(DECODE_BUFFER, n + 1, Len(DECODE_BUFFER))
           moved == [k \in 1 .. n |-> DECODE_BUFFER[k].id]
<1>0. /\ n =< Len(DECODE_BUFFER) /\ Len(ROB) + n =< ROB_SIZE
      /\ ROB' = ROB \o moved /\ DECODE_BUFFER' = Paying(rest)
      /\ UNCHANGED <<prog, read, IFETCH_BUFFER, completed, itlb, itlbDone, l1i, l1iDone,
                     fetch_stall, fetch_resume, mispredicted, warmup_complete>>
  BY DEF DecodeAndDispatch, cacheVars, stallVars
<1>1. n \in Nat /\ Len(DECODE_BUFFER) \in Nat /\ Len(ROB) \in Nat /\ read \in Nat
  BY SizesType, Facts
<1>2. \A k \in 1 .. n : DECODE_BUFFER[k] \in Decode
  <2>1. 1 .. n \subseteq 1 .. Len(DECODE_BUFFER)  BY <1>0, <1>1
  <2> QED  BY <2>1, Facts
<1>3. moved \in [1 .. n -> Nat]  BY <1>2 DEF Decode
<1>4. moved \in Seq(Nat) /\ Len(moved) = n /\ \A k \in 1 .. n : moved[k] = DECODE_BUFFER[k].id
  BY <1>1, <1>3, FunctionIsSeq
<1> HIDE DEF moved
<1>5. ROB \in Seq(Nat) /\ DOMAIN ROB = 1 .. Len(ROB)  BY Facts DEF FrontEndInv, Typed
<1>6. /\ ROB' \in Seq(Nat) /\ Len(ROB') = Len(ROB) + n /\ DOMAIN ROB' = 1 .. Len(ROB')
      /\ \A k \in 1 .. Len(ROB) : ROB'[k] = ROB[k]
      /\ \A k \in 1 .. n : ROB'[Len(ROB) + k] = DECODE_BUFFER[k].id
  <2>0. ROB' = ROB \o moved /\ ROB \in Seq(Nat) /\ moved \in Seq(Nat)  BY <1>0, <1>4, <1>5
  <2>1. /\ ROB' \in Seq(Nat) /\ Len(ROB') = Len(ROB) + Len(moved) /\ DOMAIN ROB' = 1 .. Len(ROB')
        /\ \A k \in 1 .. Len(ROB) : ROB'[k] = ROB[k]
        /\ \A k \in 1 .. Len(moved) : ROB'[Len(ROB) + k] = moved[k]
    BY <2>0, ConcatOf
  <2> QED  BY <1>4, <2>1
<1>7. /\ rest \in Seq(Decode) /\ Len(rest) = Len(DECODE_BUFFER) - n
      /\ \A k \in 1 .. Len(rest) : rest[k] = DECODE_BUFFER[n + k]
  <2>1. \A i \in n + 1 .. Len(DECODE_BUFFER) : DECODE_BUFFER[i] \in Decode  BY <1>1, Facts
  <2>2. n + 1 \in Int /\ Len(DECODE_BUFFER) \in Int  BY <1>1
  <2>3. /\ rest \in Seq(Decode)
        /\ Len(rest) = IF n + 1 <= Len(DECODE_BUFFER) THEN Len(DECODE_BUFFER) - (n + 1) + 1 ELSE 0
        /\ \A i \in 1 .. Len(DECODE_BUFFER) - (n + 1) + 1 : rest[i] = DECODE_BUFFER[(n + 1) + i - 1]
    BY <2>1, <2>2, SubSeqProperties
  <2> HIDE DEF rest
  <2>4. Len(rest) = Len(DECODE_BUFFER) - n  BY <1>0, <1>1, <2>3
  <2>5. ASSUME NEW k \in 1 .. Len(rest) PROVE rest[k] = DECODE_BUFFER[n + k]
    <3>1. k \in 1 .. Len(DECODE_BUFFER) - (n + 1) + 1 /\ (n + 1) + k - 1 = n + k
      BY <1>1, <2>4
    <3> QED  BY <2>3, <3>1
  <2> QED  BY <2>3, <2>4, <2>5
<1> HIDE DEF rest
<1>8. /\ DECODE_BUFFER' \in Seq(Decode) /\ Len(DECODE_BUFFER') = Len(DECODE_BUFFER) - n
      /\ \A k \in 1 .. Len(DECODE_BUFFER') : DECODE_BUFFER'[k].id = DECODE_BUFFER[n + k].id
  <2>1. /\ DECODE_BUFFER' \in Seq(Decode) /\ Len(DECODE_BUFFER') = Len(rest)
        /\ \A k \in 1 .. Len(rest) : DECODE_BUFFER'[k].id = rest[k].id
    BY <1>0, <1>7, PayingKeeps
  <2> QED  BY <1>7, <2>1
<1>9. DOMAIN DECODE_BUFFER' = 1 .. Len(DECODE_BUFFER')  BY <1>8, SeqElements
<1>10. Typed'
  <2>1. Len(DECODE_BUFFER') =< DECODE_SIZE
    BY <1>1, <1>8, SizesType DEF FrontEndInv, Typed
  <2>2. Len(ROB') =< ROB_SIZE  BY <1>0, <1>6
  <2> QED  BY <1>0, <1>6, <1>8, <2>1, <2>2 DEF FrontEndInv, Typed
<1>11. Ordered'
  <2>0. Len(IFETCH_BUFFER) \in Nat  BY Facts
  <2>1. Held' = Held  BY <1>0, <1>1, <1>6, <1>8, <2>0 DEF Held
  <2>2. ASSUME NEW k \in DOMAIN ROB' PROVE ROB'[k] = read - Held + k
    <3>1. CASE k \in 1 .. Len(ROB)
      BY <3>1, <1>5, <1>6 DEF FrontEndInv, Ordered
    <3>2. ASSUME NEW j \in 1 .. n, k = Len(ROB) + j PROVE ROB'[k] = read - Held + k
      <4>1. j \in DOMAIN DECODE_BUFFER  BY <1>0, <1>1, Facts
      <4>2. DECODE_BUFFER[j].id = read - Len(IFETCH_BUFFER) - Len(DECODE_BUFFER) + j
        BY <4>1 DEF FrontEndInv, Ordered
      <4> QED  BY <3>2, <4>2, <1>1, <1>6, <2>0 DEF Held
    <3>3. k \in 1 .. Len(ROB) \/ k - Len(ROB) \in 1 .. n  BY <1>1, <1>6
    <3>4. CASE k - Len(ROB) \in 1 .. n
      <4>1. k = Len(ROB) + (k - Len(ROB))  BY <1>1, <1>6
      <4> QED  BY <3>2, <3>4, <4>1
    <3> QED  BY <3>1, <3>3, <3>4
  <2>3. ASSUME NEW k \in DOMAIN DECODE_BUFFER'
        PROVE  DECODE_BUFFER'[k].id = read - Len(IFETCH_BUFFER) - Len(DECODE_BUFFER') + k
    <3>1. k \in 1 .. Len(DECODE_BUFFER') /\ n + k \in DOMAIN DECODE_BUFFER
      BY <1>0, <1>1, <1>8, <1>9, Facts
    <3>2. DECODE_BUFFER[n + k].id = read - Len(IFETCH_BUFFER) - Len(DECODE_BUFFER) + (n + k)
      BY <3>1 DEF FrontEndInv, Ordered
    <3>3. DECODE_BUFFER'[k].id = DECODE_BUFFER[n + k].id  BY <1>8, <3>1
    <3>4. k \in Nat  BY <1>1, <1>8, <3>1
    <3> QED  BY <3>2, <3>3, <3>4, <1>1, <1>8, <2>0
  <2> QED  BY <1>0, <2>1, <2>2, <2>3 DEF FrontEndInv, Ordered, Entries
<1>12. Marked'
  <2>1. InRob \subseteq InRob'
    <3> SUFFICES ASSUME NEW k \in DOMAIN ROB PROVE ROB[k] \in InRob'  BY DEF InRob
    <3>1. k \in DOMAIN ROB' /\ ROB'[k] = ROB[k]  BY <1>1, <1>5, <1>6
    <3> QED  BY <3>1 DEF InRob
  <2> QED  BY <1>0, <2>1 DEF FrontEndInv, Marked
<1>13. WaitsForSomething' /\ RequestsAreTranslated'
  BY <1>0 DEF FrontEndInv, NothingWaitsInVain, WaitsForSomething, RequestsAreTranslated,
              Entries, Page, Line, InDone
<1>14. StallHasBranch'
  BY <1>0 DEF FrontEndInv, NothingWaitsInVain, StallHasBranch
<1> QED  BY <1>10, <1>11, <1>12, <1>13, <1>14 DEF FrontEndInv, NothingWaitsInVain

LEMMA CompleteExecutionInv ==
  ASSUME FrontEndInv, NEW id \in Ids, CompleteExecution(id)
  PROVE  FrontEndInv'
<1>0. /\ id \in InRob \ completed /\ completed' = completed \cup {id}
      /\ fetch_resume' = (fetch_resume \/ id \in mispredicted)
      /\ UNCHANGED <<prog, read, IFETCH_BUFFER, DECODE_BUFFER, ROB, itlb, itlbDone, l1i, l1iDone,
                     fetch_stall, mispredicted, warmup_complete>>
  BY DEF CompleteExecution, cacheVars, InRob
<1>1. fetch_resume' \in BOOLEAN  BY <1>0
<1>2. Typed' /\ Ordered' /\ Marked'
  BY <1>0, <1>1 DEF FrontEndInv, Typed, Ordered, Marked, Held, InRob, Entries
<1>3. WaitsForSomething' /\ RequestsAreTranslated'
  BY <1>0 DEF FrontEndInv, NothingWaitsInVain, WaitsForSomething, RequestsAreTranslated,
              Entries, Page, Line, InDone
<1>4. StallHasBranch'
  <2> DEFINE unresolved == mispredicted \ completed
  <2>1. /\ fetch_stall /\ ~fetch_resume <=> unresolved # {}
        /\ unresolved \subseteq {read}
        /\ fetch_resume => fetch_stall
    BY DEF FrontEndInv, NothingWaitsInVain, StallHasBranch
  <2>2. CASE id \in mispredicted
    <3>1. id \in unresolved  BY <1>0, <2>2
    <3>2. unresolved = {id} /\ fetch_stall /\ ~fetch_resume  BY <2>1, <3>1
    <3>3. mispredicted' \ completed' = {}  BY <1>0, <3>2
    <3>4. fetch_resume' /\ fetch_stall'  BY <1>0, <2>2, <3>2
    <3> QED  BY <3>3, <3>4 DEF StallHasBranch
  <2>3. CASE id \notin mispredicted
    <3>1. mispredicted' \ completed' = unresolved  BY <1>0, <2>3
    <3>2. fetch_resume' <=> fetch_resume  BY <1>0, <2>3
    <3>3. fetch_stall' <=> fetch_stall  BY <1>0
    <3>4. read' = read  BY <1>0
    <3> HIDE DEF unresolved
    <3> QED  BY <2>1, <3>1, <3>2, <3>3, <3>4 DEF StallHasBranch
  <2> QED  BY <2>2, <2>3
<1> QED  BY <1>2, <1>3, <1>4 DEF FrontEndInv, NothingWaitsInVain

LEMMA RetireRobInv ==
  ASSUME FrontEndInv, RetireRob
  PROVE  FrontEndInv'
<1> DEFINE h == Head(ROB)
<1>0. /\ ROB # <<>> /\ h \in completed /\ ROB' = Tail(ROB)
      /\ completed' = completed \ {h} /\ mispredicted' = mispredicted \ {h}
      /\ UNCHANGED <<prog, read, IFETCH_BUFFER, DECODE_BUFFER, itlb, itlbDone, l1i, l1iDone,
                     fetch_stall, fetch_resume, warmup_complete>>
  BY DEF RetireRob, cacheVars
<1>1. ROB \in Seq(Nat)  BY DEF FrontEndInv, Typed
<1>2. /\ Len(ROB) \in Nat \ {0} /\ h = ROB[1] /\ DOMAIN ROB = 1 .. Len(ROB)
      /\ ROB' \in Seq(Nat) /\ Len(ROB') = Len(ROB) - 1
      /\ \A i \in 1 .. Len(ROB') : ROB'[i] = ROB[i + 1]
  BY <1>0, <1>1, EmptySeq, HeadTailProperties, SeqElements
<1> HIDE DEF h
<1>3. DOMAIN ROB' = 1 .. Len(ROB')  BY <1>2, SeqElements
<1>4. Typed'
  <2>1. Len(ROB') =< ROB_SIZE  BY <1>2, SizesType DEF FrontEndInv, Typed
  <2> QED  BY <1>0, <1>2, <2>1 DEF FrontEndInv, Typed
<1>5. Ordered'
  <2>1. Held' = Held - 1 /\ Held \in Nat  BY <1>0, <1>2, Facts DEF Held
  <2>2. read \in Nat  BY Facts
  <2>3. ASSUME NEW k \in DOMAIN ROB' PROVE ROB'[k] = read - Held' + k
    <3>1. k \in 1 .. Len(ROB') /\ k + 1 \in DOMAIN ROB  BY <1>2, <1>3
    <3>2. ROB[k + 1] = read - Held + (k + 1)  BY <3>1 DEF FrontEndInv, Ordered
    <3> QED  BY <1>2, <2>1, <2>2, <3>1, <3>2
  <2>4. Held' =< read  BY <2>1, <2>2 DEF FrontEndInv, Ordered
  <2> QED  BY <1>0, <2>3, <2>4 DEF FrontEndInv, Ordered, Entries
<1>6. Marked'
  <2>1. ASSUME NEW x \in completed, x # h PROVE x \in InRob'
    <3>1. PICK k \in DOMAIN ROB : x = ROB[k]  BY <2>1 DEF FrontEndInv, Marked, InRob
    <3>2. k # 1  BY <1>2, <2>1, <3>1
    <3>3. k - 1 \in 1 .. Len(ROB') /\ (k - 1) + 1 = k  BY <1>2, <3>1, <3>2
    <3>4. ROB'[k - 1] = x  BY <1>2, <3>1, <3>3
    <3> QED  BY <1>3, <3>3, <3>4 DEF InRob
  <2> QED  BY <1>0, <2>1 DEF FrontEndInv, Marked
<1>7. WaitsForSomething' /\ RequestsAreTranslated'
  BY <1>0 DEF FrontEndInv, NothingWaitsInVain, WaitsForSomething, RequestsAreTranslated,
              Entries, Page, Line, InDone
<1>8. StallHasBranch'
  <2>1. mispredicted' \ completed' = mispredicted \ completed  BY <1>0
  <2> QED  BY <1>0, <2>1 DEF FrontEndInv, NothingWaitsInVain, StallHasBranch
<1> QED  BY <1>4, <1>5, <1>6, <1>7, <1>8 DEF FrontEndInv, NothingWaitsInVain

\* The end of the warm-up and stuttering change none of what the invariant reads.
LEMMA QuietInv ==
  ASSUME FrontEndInv, FinishWarmup \/ UNCHANGED vars
  PROVE  FrontEndInv'
<1>0. /\ warmup_complete' \in BOOLEAN
      /\ UNCHANGED <<prog, read, IFETCH_BUFFER, DECODE_BUFFER, ROB, completed, itlb, itlbDone,
                     l1i, l1iDone, fetch_stall, fetch_resume, mispredicted>>
  BY DEF FrontEndInv, Typed, FinishWarmup, vars, cacheVars, stallVars, backVars
<1>1. Typed' /\ Ordered' /\ Marked'
  BY <1>0 DEF FrontEndInv, Typed, Ordered, Marked, Held, InRob, Entries
<1>2. WaitsForSomething' /\ RequestsAreTranslated'
  BY <1>0 DEF FrontEndInv, NothingWaitsInVain, WaitsForSomething, RequestsAreTranslated,
              Entries, Page, Line, InDone
<1>3. StallHasBranch'
  BY <1>0 DEF FrontEndInv, NothingWaitsInVain, StallHasBranch
<1> QED  BY <1>1, <1>2, <1>3 DEF FrontEndInv, NothingWaitsInVain

--------------------------------------------------------------------------------
(* The theorems *)

LEMMA InitInv ==
  ASSUME Init
  PROVE  FrontEndInv
<1>1. /\ prog \in Programs /\ read = 0 /\ IFETCH_BUFFER = <<>> /\ DECODE_BUFFER = <<>>
      /\ ROB = <<>> /\ completed = {} /\ itlb = {} /\ itlbDone = <<>> /\ l1i = {}
      /\ l1iDone = <<>> /\ ~fetch_stall /\ ~fetch_resume /\ mispredicted = {}
      /\ fetch_stall \in BOOLEAN /\ fetch_resume \in BOOLEAN /\ warmup_complete \in BOOLEAN
  BY DEF Init
<1>2. Len(prog) \in Nat  BY <1>1, ProgramType
<1>3. Len(<<>>) = 0 /\ DOMAIN <<>> = {} /\ \A S : <<>> \in Seq(S)
  OBVIOUS
<1>4. Typed  BY <1>1, <1>2, <1>3, SizesType DEF Typed
<1>5. Ordered /\ Marked  BY <1>1, <1>3 DEF Ordered, Marked, Held, Entries, InRob
<1>6. NothingWaitsInVain
  BY <1>1, <1>3 DEF NothingWaitsInVain, WaitsForSomething, RequestsAreTranslated,
                    StallHasBranch, Entries
<1> QED  BY <1>4, <1>5, <1>6 DEF FrontEndInv

LEMMA NextInv ==
  ASSUME FrontEndInv, [Next]_vars
  PROVE  FrontEndInv'
<1>1. CASE ReadFromTrace  BY <1>1, ReadFromTraceInv
<1>2. CASE ResumeFetch  BY <1>2, ResumeFetchInv
<1>3. CASE Translate  BY <1>3, RequestTranslationInv DEF Translate
<1>4. CASE Fetch  BY <1>4, RequestLineInv DEF Fetch
<1>5. CASE SendToDecode  BY <1>5, SendToDecodeInv
<1>6. ASSUME NEW page \in Pages, ItlbAnswers(page) PROVE FrontEndInv'
  BY <1>6, ItlbAnswersInv
<1>7. ASSUME NEW line \in Lines, L1iAnswers(line) PROVE FrontEndInv'
  BY <1>7, L1iAnswersInv
<1>8. CASE CompleteTranslation  BY <1>8, CompleteTranslationInv
<1>9. CASE CompleteFetch  BY <1>9, CompleteFetchInv
<1>10. CASE Dispatch  BY <1>10, DecodeAndDispatchInv DEF Dispatch
<1>11. ASSUME NEW id \in Ids, CompleteExecution(id) PROVE FrontEndInv'
  BY <1>11, CompleteExecutionInv
<1>12. CASE RetireRob  BY <1>12, RetireRobInv
<1>13. CASE FinishWarmup \/ UNCHANGED vars  BY <1>13, QuietInv
<1>14. CASE TraceEnds
  <2>1. UNCHANGED vars  BY <1>14 DEF TraceEnds
  <2> QED  BY <2>1, QuietInv
<1> QED
  BY <1>1, <1>2, <1>3, <1>4, <1>5, <1>6, <1>7, <1>8, <1>9, <1>10, <1>11, <1>12, <1>13, <1>14
  DEF Next

(* For every trace and every size of the buffers, the invariant is kept.       *)
THEOREM Inductive == Spec => []FrontEndInv
<1>1. Init => FrontEndInv  BY InitInv
<1>2. FrontEndInv /\ [Next]_vars => FrontEndInv'  BY NextInv
<1> QED  BY <1>1, <1>2, PTL DEF Spec

(* No buffer of the front end holds more than its array, and every entry is    *)
(* well formed.                                                                *)
THEOREM TypeCorrect == Spec => []TypeOK
<1>1. FrontEndInv => TypeOK  BY InvTypeOK
<1> QED  BY <1>1, Inductive, PTL

(* read_from_trace, fetch_instruction, decode_and_dispatch and retire_rob hand *)
(* the instructions on in program order, none lost, repeated or overtaken.     *)
THEOREM InProgramOrderCorrect == Spec => []InProgramOrder
<1>1. FrontEndInv => InProgramOrder  BY InvInProgramOrder
<1> QED  BY <1>1, Inductive, PTL

(* An entry that waits has an answer coming, the L1I is asked only with an     *)
(* address, and a stalled fetch has exactly one unresolved branch: whatever    *)
(* the order of the caches' answers.                                           *)
THEOREM NothingWaitsInVainCorrect == Spec => []NothingWaitsInVain
<1>1. FrontEndInv => NothingWaitsInVain  BY DEF FrontEndInv
<1> QED  BY <1>1, Inductive, PTL

--------------------------------------------------------------------------------
(* How long the buffers are after a step *)

\* A buffer whose entries were marked is as long as it was.
LEMMA SameLength ==
  ASSUME FrontEndInv, FrontEndInv', DOMAIN IFETCH_BUFFER' = Entries
  PROVE  Len(IFETCH_BUFFER') = Len(IFETCH_BUFFER)
<1> DEFINE m == Len(IFETCH_BUFFER)
           n == Len(IFETCH_BUFFER')
<1>1. Entries = 1 .. m /\ m \in Nat  BY Facts
<1>2. IFETCH_BUFFER' \in Seq(Entry)  BY DEF FrontEndInv, Typed
<1>3. DOMAIN IFETCH_BUFFER' = 1 .. n /\ n \in Nat
  BY <1>2, SeqElements
<1>4. m \in Nat /\ n \in Nat /\ 1 .. m = 1 .. n  BY <1>1, <1>3
<1> HIDE DEF m, n
<1>5. m = n
  <2>1. m > 0 => m \in 1 .. n  BY <1>4
  <2>2. n > 0 => n \in 1 .. m  BY <1>4
  <2> QED  BY <1>4, <2>1, <2>2
<1> QED  BY <1>5 DEF m, n

\* The handlers that only mark entries.
LEMMA MarkingLengths ==
  ASSUME FrontEndInv, FrontEndInv', Translate \/ Fetch \/ CompleteTranslation \/ CompleteFetch
  PROVE  Len(IFETCH_BUFFER') = Len(IFETCH_BUFFER) /\ UNCHANGED <<prog, read, DECODE_BUFFER, backVars>>
<1>1. DOMAIN IFETCH_BUFFER' = Entries /\ UNCHANGED <<prog, read, DECODE_BUFFER, backVars>>
  <2>1. CASE Translate  BY <2>1 DEF Translate, RequestTranslation
  <2>2. CASE Fetch  BY <2>2 DEF Fetch, RequestLine, Mark
  <2>3. CASE CompleteTranslation  BY <2>3 DEF CompleteTranslation, Mark
  <2>4. CASE CompleteFetch  BY <2>4 DEF CompleteFetch, Mark
  <2> QED  BY <2>1, <2>2, <2>3, <2>4
<1> QED  BY <1>1, SameLength

\* What is read joins the fetch buffer.
LEMMA ReadLengths ==
  ASSUME FrontEndInv, ReadFromTrace
  PROVE  Len(IFETCH_BUFFER') = Len(IFETCH_BUFFER) + 1
<1> DEFINE new == [id |-> read + 1, translated |-> NotYet, fetched |-> NotYet,
                   instruction_pa |-> FALSE]
<1>1. new \in Entry  BY Facts, States DEF Entry
<1>2. IFETCH_BUFFER' = Append(IFETCH_BUFFER, new) /\ IFETCH_BUFFER \in Seq(Entry)
  BY DEF ReadFromTrace, FrontEndInv, Typed
<1> HIDE DEF new
<1> QED  BY <1>1, <1>2, AppendProperties

\* What is sent moves from the fetch buffer to the decoder.
LEMMA SendLengths ==
  ASSUME FrontEndInv, SendToDecode
  PROVE  /\ Len(IFETCH_BUFFER') = Len(IFETCH_BUFFER) - 1 /\ Len(IFETCH_BUFFER) > 0
         /\ \A i \in 1 .. Len(IFETCH_BUFFER') : IFETCH_BUFFER'[i] = IFETCH_BUFFER[i + 1]
         /\ Len(DECODE_BUFFER') = Len(DECODE_BUFFER) + 1
         /\ \A i \in 1 .. Len(DECODE_BUFFER) : DECODE_BUFFER'[i] = DECODE_BUFFER[i]
<1> DEFINE new == [id |-> Head(IFETCH_BUFFER).id, event_cycle |-> 0]
<1>0. /\ IFETCH_BUFFER # <<>>
      /\ DECODE_BUFFER' = Append(DECODE_BUFFER, new)
      /\ IFETCH_BUFFER' = Tail(IFETCH_BUFFER)
  BY DEF SendToDecode
<1>1. IFETCH_BUFFER \in Seq(Entry) /\ DECODE_BUFFER \in Seq(Decode)
  BY DEF FrontEndInv, Typed
<1>2. /\ Len(IFETCH_BUFFER) \in Nat \ {0} /\ Head(IFETCH_BUFFER) = IFETCH_BUFFER[1]
      /\ Len(IFETCH_BUFFER') = Len(IFETCH_BUFFER) - 1
      /\ \A i \in 1 .. Len(IFETCH_BUFFER') : IFETCH_BUFFER'[i] = IFETCH_BUFFER[i + 1]
  BY <1>0, <1>1, EmptySeq, HeadTailProperties
<1>3. new \in Decode
  <2>1. 1 \in Entries  BY <1>2, Facts
  <2>2. IFETCH_BUFFER[1] \in Entry  BY <2>1, Facts
  <2> QED  BY <1>2, <2>2 DEF Entry, Decode
<1> HIDE DEF new
<1>4. /\ Len(DECODE_BUFFER') = Len(DECODE_BUFFER) + 1
      /\ \A i \in 1 .. Len(DECODE_BUFFER) : DECODE_BUFFER'[i] = DECODE_BUFFER[i]
  BY <1>0, <1>1, <1>3, AppendProperties
<1> QED  BY <1>2, <1>4

\* What is dispatched moves from the decoder to the reorder buffer.
LEMMA DispatchLengths ==
  ASSUME FrontEndInv, FrontEndInv', NEW n \in 0 .. DECODE_SIZE, DecodeAndDispatch(n)
  PROVE  /\ n \in Nat /\ n =< Len(DECODE_BUFFER)
         /\ Len(ROB') = Len(ROB) + n /\ Len(DECODE_BUFFER') = Len(DECODE_BUFFER) - n
         /\ \A k \in 1 .. Len(DECODE_BUFFER') :
              DECODE_BUFFER'[k].event_cycle = 0 => DECODE_BUFFER[n + k].event_cycle = 0
<1> DEFINE rest  == SubSeq(DECODE_BUFFER, n + 1, Len(DECODE_BUFFER))
           moved == [k \in 1 .. n |-> DECODE_BUFFER[k].id]
<1>0. /\ n =< Len(DECODE_BUFFER)
      /\ ROB' = ROB \o moved /\ DECODE_BUFFER' = Paying(rest)
  BY DEF DecodeAndDispatch
<1>1. n \in Nat /\ Len(DECODE_BUFFER) \in Nat /\ Len(ROB) \in Nat
  BY SizesType, Facts
<1>2. \A k \in 1 .. n : DECODE_BUFFER[k] \in Decode
  <2>1. 1 .. n \subseteq 1 .. Len(DECODE_BUFFER)  BY <1>0, <1>1
  <2> QED  BY <2>1, Facts
<1>3. moved \in [1 .. n -> Nat]  BY <1>2 DEF Decode
<1>4. moved \in Seq(Nat) /\ Len(moved) = n
  BY <1>1, <1>3, FunctionIsSeq
<1> HIDE DEF moved
<1>5. Len(ROB') = Len(ROB) + n
  <2>1. ROB' = ROB \o moved /\ ROB \in Seq(Nat) /\ moved \in Seq(Nat)
    BY <1>0, <1>4 DEF FrontEndInv, Typed
  <2> QED  BY <1>4, <2>1, ConcatProperties
<1>6. /\ rest \in Seq(Decode) /\ Len(rest) = Len(DECODE_BUFFER) - n
      /\ \A k \in 1 .. Len(rest) : rest[k] = DECODE_BUFFER[n + k]
  <2>1. \A i \in n + 1 .. Len(DECODE_BUFFER) : DECODE_BUFFER[i] \in Decode  BY <1>1, Facts
  <2>2. n + 1 \in Int /\ Len(DECODE_BUFFER) \in Int  BY <1>1
  <2>3. /\ rest \in Seq(Decode)
        /\ Len(rest) = IF n + 1 <= Len(DECODE_BUFFER) THEN Len(DECODE_BUFFER) - (n + 1) + 1 ELSE 0
        /\ \A i \in 1 .. Len(DECODE_BUFFER) - (n + 1) + 1 : rest[i] = DECODE_BUFFER[(n + 1) + i - 1]
    BY <2>1, <2>2, SubSeqProperties
  <2> HIDE DEF rest
  <2>4. Len(rest) = Len(DECODE_BUFFER) - n  BY <1>0, <1>1, <2>3
  <2>5. ASSUME NEW k \in 1 .. Len(rest) PROVE rest[k] = DECODE_BUFFER[n + k]
    <3>1. k \in 1 .. Len(DECODE_BUFFER) - (n + 1) + 1 /\ (n + 1) + k - 1 = n + k
      BY <1>1, <2>4
    <3> QED  BY <2>3, <3>1
  <2> QED  BY <2>3, <2>4, <2>5
<1> HIDE DEF rest
<1>7. Len(DECODE_BUFFER') = Len(rest)  BY <1>0, <1>6, PayingKeeps
<1>8. ASSUME NEW k \in 1 .. Len(rest), DECODE_BUFFER'[k].event_cycle = 0
      PROVE  DECODE_BUFFER[n + k].event_cycle = 0
  <2>1. DOMAIN rest = 1 .. Len(rest) /\ rest[k] \in Decode  BY <1>6, SeqElements
  <2> DEFINE paid == [rest[k] EXCEPT !.event_cycle = 1]
  <2>2. paid.event_cycle = 1  BY <2>1 DEF Decode
  <2>3. Paying(rest)[k] = paid \/ Paying(rest)[k] = rest[k]
    BY <2>1 DEF Paying
  <2> HIDE DEF paid
  <2>4. DECODE_BUFFER'[k] = paid \/ DECODE_BUFFER'[k] = rest[k]  BY <1>0, <2>3, Zenon
  <2>5. DECODE_BUFFER'[k] = rest[k]  BY <1>8, <2>2, <2>4
  <2> QED  BY <1>6, <1>8, <2>5
<1> QED  BY <1>0, <1>1, <1>5, <1>6, <1>7, <1>8

\* What retires leaves the reorder buffer.
LEMMA RetireLengths ==
  ASSUME FrontEndInv, RetireRob
  PROVE  Len(ROB') = Len(ROB) - 1 /\ Len(ROB) > 0 /\ Head(ROB) = ROB[1]
<1>1. ROB # <<>> /\ ROB' = Tail(ROB) /\ ROB \in Seq(Nat)  BY DEF RetireRob, FrontEndInv, Typed
<1> QED  BY <1>1, EmptySeq, HeadTailProperties

--------------------------------------------------------------------------------
(* Until the trace is through, a handler can go on *)

(* A branch that stalls the fetch has not retired: it is still held. *)
Unretired == \A id \in mispredicted : id > read - Held

\* Only retirement takes an instruction out, and it forgets its misprediction.
LEMMA UnretiredKept ==
  ASSUME FrontEndInv, FrontEndInv', Unretired, [Next]_vars
  PROVE  Unretired'
<1>0. /\ read \in Nat /\ Len(IFETCH_BUFFER) \in Nat /\ Len(DECODE_BUFFER) \in Nat
      /\ Len(ROB) \in Nat /\ mispredicted \subseteq 1 .. read
  BY Facts DEF FrontEndInv, Marked
<1>1. ASSUME read' - Held' = read - Held, mispredicted' \subseteq mispredicted
      PROVE  Unretired'
  <2>1. \A id \in mispredicted' : id > read' - Held'  BY <1>1 DEF Unretired
  <2> QED  BY <2>1 DEF Unretired
<1>2. ASSUME Len(IFETCH_BUFFER') = Len(IFETCH_BUFFER),
             read' = read, DECODE_BUFFER' = DECODE_BUFFER, ROB' = ROB, mispredicted' = mispredicted
      PROVE  Unretired'
  BY <1>1, <1>2 DEF Held
<1>3. CASE ReadFromTrace
  <2>1. PICK wrong : mispredicted' = mispredicted \cup StallsFetch(wrong)
    BY <1>3 DEF ReadFromTrace
  <2>2. StallsFetch(wrong) \subseteq {read + 1}  BY DEF StallsFetch
  <2>3. read' = read + 1 /\ Held' = Held + 1 /\ Held \in Nat
    BY <1>0, <1>3, ReadLengths DEF ReadFromTrace, Held, backVars
  <2>4. read' - Held' = read - Held /\ read + 1 > read' - Held'  BY <1>0, <2>3
  <2>5. \A id \in mispredicted' : id > read' - Held'
    BY <2>1, <2>2, <2>4 DEF Unretired
  <2> QED  BY <2>5 DEF Unretired
<1>4. CASE ResumeFetch  BY <1>2, <1>4 DEF ResumeFetch, backVars
<1>5. CASE Translate \/ Fetch \/ CompleteTranslation \/ CompleteFetch
  <2>1. Len(IFETCH_BUFFER') = Len(IFETCH_BUFFER) /\ UNCHANGED <<prog, read, DECODE_BUFFER, backVars>>
    BY <1>5, MarkingLengths
  <2>2. mispredicted' = mispredicted
    BY <1>5 DEF Translate, RequestTranslation, Fetch, RequestLine, CompleteTranslation,
                CompleteFetch, stallVars
  <2> QED  BY <1>2, <2>1, <2>2 DEF backVars
<1>6. CASE SendToDecode
  <2>1. Held' = Held  BY <1>0, <1>6, SendLengths DEF SendToDecode, Held, backVars
  <2> QED  BY <1>1, <1>6, <2>1 DEF SendToDecode, stallVars
<1>7. ASSUME NEW n \in 0 .. DECODE_SIZE, DecodeAndDispatch(n) PROVE Unretired'
  <2>2. /\ n \in Nat /\ Len(ROB') = Len(ROB) + n /\ Len(DECODE_BUFFER') = Len(DECODE_BUFFER) - n
    BY <1>7, DispatchLengths
  <2>3. IFETCH_BUFFER' = IFETCH_BUFFER  BY <1>7 DEF DecodeAndDispatch
  <2>1. Held' = Held  BY ONLY <1>0, <2>2, <2>3 DEF Held
  <2> QED  BY <1>1, <1>7, <2>1 DEF DecodeAndDispatch, stallVars
<1>8. CASE RetireRob
  <2>1. Held' = Held - 1 /\ Held \in Nat  BY <1>0, <1>8, RetireLengths DEF RetireRob, Held
  <2>2. ROB[1] = read - Held + 1
    <3>1. 1 \in DOMAIN ROB  BY <1>0, <1>8, RetireLengths, Facts
    <3> QED  BY <3>1 DEF FrontEndInv, Ordered
  <2>3. mispredicted' = mispredicted \ {read - Held + 1} /\ read' = read
    BY <1>8, <2>2, RetireLengths DEF RetireRob
  <2>4. ASSUME NEW id \in mispredicted' PROVE id > read' - Held'
    <3>1. id \in Nat /\ id > read - Held /\ id # read - Held + 1
      BY <1>0, <2>3, <2>4 DEF Unretired
    <3> QED  BY <1>0, <2>1, <2>3, <3>1
  <2> QED  BY <2>4 DEF Unretired
<1>9. CASE \/ \E page \in Pages : ItlbAnswers(page)
           \/ \E line \in Lines : L1iAnswers(line)
           \/ \E id \in Ids : CompleteExecution(id)
           \/ FinishWarmup \/ TraceEnds \/ UNCHANGED vars
  BY <1>2, <1>9 DEF ItlbAnswers, L1iAnswers, CompleteExecution, FinishWarmup, TraceEnds, vars,
                    backVars, stallVars
<1> QED  BY <1>3, <1>4, <1>5, <1>6, <1>7, <1>8, <1>9 DEF Next, Dispatch

\* The decoder's first entry pays its latency in every scan.
LEMMA FirstPays ==
  ASSUME NEW s \in Seq(Decode), s # <<>>, Paying(s) = s
  PROVE  Decoded(Head(s))
<1>1. Len(s) \in Nat /\ Len(s) > 0 /\ Head(s) = s[1] /\ DOMAIN s = 1 .. Len(s)
  BY EmptySeq, HeadTailProperties, SeqElements
<1>2. 1 \in DOMAIN s /\ s[1] \in Decode  BY <1>1, SeqElements
<1>3. Paying(s)[1] = [s[1] EXCEPT !.event_cycle = 1]  BY <1>1, <1>2, SizesType DEF Paying
<1>4. s[1].event_cycle = 1
  <2>1. [s[1] EXCEPT !.event_cycle = 1].event_cycle = 1  BY <1>2 DEF Decode
  <2>2. s[1] = [s[1] EXCEPT !.event_cycle = 1]  BY <1>3
  <2> HIDE <1>3
  <2> QED  BY <2>1, <2>2
<1> QED  BY <1>1, <1>4 DEF Decoded

\* Nothing ready in the back end means that it has nothing.
LEMMA BackEndEmpty ==
  ASSUME FrontEndInv, ~SomeHandlerReady
  PROVE  ROB = <<>> /\ DECODE_BUFFER = <<>>
<1>1. ROB = <<>>
  <2> SUFFICES ASSUME ROB # <<>> PROVE FALSE  OBVIOUS
  <2>1. ROB \in Seq(Nat)  BY DEF FrontEndInv, Typed
  <2>2. Len(ROB) > 0 /\ Head(ROB) = ROB[1]  BY <2>1, EmptySeq, HeadTailProperties
  <2>3. Head(ROB) \in InRob  BY <2>2, Facts DEF InRob
  <2> QED  BY <2>3 DEF SomeHandlerReady
<1>2. DECODE_BUFFER = <<>>
  <2> SUFFICES ASSUME DECODE_BUFFER # <<>> PROVE FALSE  OBVIOUS
  <2>1. DECODE_BUFFER \in Seq(Decode)  BY DEF FrontEndInv, Typed
  <2>2. Decoded(Head(DECODE_BUFFER))  BY <2>1, FirstPays DEF SomeHandlerReady
  <2>3. Len(ROB) < ROB_SIZE  BY <1>1, SizesType
  <2> QED  BY <2>2, <2>3 DEF SomeHandlerReady
<1> QED  BY <1>1, <1>2

\* What the fetch buffer holds with nothing in the caches goes on to the decoder.
LEMMA FetchEmpty ==
  ASSUME FrontEndInv, ~SomeHandlerReady
  PROVE  IFETCH_BUFFER = <<>>
<1> SUFFICES ASSUME IFETCH_BUFFER # <<>> PROVE FALSE  OBVIOUS
<1> DEFINE e == Head(IFETCH_BUFFER)
<1>1. IFETCH_BUFFER \in Seq(Entry)  BY DEF FrontEndInv, Typed
<1>2. Len(IFETCH_BUFFER) > 0 /\ e = IFETCH_BUFFER[1]  BY <1>1, EmptySeq, HeadTailProperties
<1>3. 1 \in Entries  BY <1>2, Facts
<1>4. e \in Entry  BY <1>2, <1>3, Facts
<1>5. itlb = {} /\ l1i = {} /\ itlbDone = <<>> /\ l1iDone = <<>>  BY DEF SomeHandlerReady
<1>6. \A x : ~InDone(itlbDone, x) /\ ~InDone(l1iDone, x)  BY <1>5 DEF InDone
<1>7. e.translated # INFLIGHT /\ e.fetched # INFLIGHT
  BY <1>2, <1>3, <1>5, <1>6 DEF FrontEndInv, NothingWaitsInVain, WaitsForSomething
<1>8. e.translated # NotYet  BY <1>2, <1>3 DEF SomeHandlerReady
<1>9. ~(e.translated = COMPLETED /\ e.fetched = NotYet)  BY <1>2, <1>3 DEF SomeHandlerReady
<1>10. e.translated = COMPLETED /\ e.fetched = COMPLETED
  BY <1>4, <1>7, <1>8, <1>9 DEF Entry, State
<1>11. DecodeHasRoom  BY BackEndEmpty, SizesType DEF DecodeHasRoom
<1> QED  BY <1>10, <1>11 DEF SomeHandlerReady

\* With nothing held the stall is over: its branch would have to be held.
LEMMA InvNeverStuck ==
  ASSUME FrontEndInv, Unretired
  PROVE  NeverStuck
<1> SUFFICES ASSUME ~SomeHandlerReady PROVE Finished  BY DEF NeverStuck
<1>1. ROB = <<>> /\ DECODE_BUFFER = <<>> /\ IFETCH_BUFFER = <<>>  BY BackEndEmpty, FetchEmpty
<1>2. Held = 0  BY <1>1 DEF Held
<1>3. read \in Nat /\ mispredicted \subseteq 1 .. read  BY Facts DEF FrontEndInv, Marked
<1>4. mispredicted = {}
  <2>1. ASSUME NEW id \in mispredicted PROVE FALSE
    <3>1. id \in 1 .. read /\ id > read - 0  BY <1>2, <1>3 DEF Unretired
    <3> QED  BY <1>3, <3>1
  <2> QED  BY <2>1
<1>5. ~(fetch_stall /\ ~fetch_resume)
  BY <1>4 DEF FrontEndInv, NothingWaitsInVain, StallHasBranch
<1>6. ~fetch_stall  BY <1>5 DEF SomeHandlerReady
<1>7. MayRead  BY <1>1, <1>6, SizesType DEF MayRead
<1>8. ~(read < Len(prog))  BY <1>7 DEF SomeHandlerReady
<1>9. read = Len(prog)
  <2>1. prog \in Programs /\ read \in 0 .. Len(prog)  BY DEF FrontEndInv, Typed
  <2>2. Len(prog) \in Nat  BY <2>1, ProgramType
  <2> QED  BY <1>8, <2>1, <2>2
<1> QED  BY <1>1, <1>9 DEF Finished

(* No deadlock, for every trace and every size of the buffers: until the last  *)
(* instruction has retired, some handler of the core finds its guard true or a *)
(* cache owes an answer.  Stall, translation, fetch, decoder and reorder buffer*)
(* never all wait for each other.                                              *)
THEOREM NeverStuckCorrect == Spec => []NeverStuck
<1>1. Init => Unretired  BY DEF Init, Unretired
<1>2. FrontEndInv /\ FrontEndInv' /\ Unretired /\ [Next]_vars => Unretired'  BY UnretiredKept
<1>3. FrontEndInv /\ Unretired => NeverStuck  BY InvNeverStuck
<1> QED  BY <1>1, <1>2, <1>3, Inductive, PTL DEF Spec

--------------------------------------------------------------------------------
(* Every step uses work up *)

(* The entries that ask for a page, that ask for a line, that pay nothing yet. *)
Untranslated == {k \in Entries : IFETCH_BUFFER[k].translated = NotYet}
Unfetched == {k \in Entries : NotYet \in {IFETCH_BUFFER[k].translated, IFETCH_BUFFER[k].fetched}}
Unpaid == {k \in DOMAIN DECODE_BUFFER : DECODE_BUFFER[k].event_cycle = 0}

(* The caches are asked for finitely many pages and lines. *)
Finite == IsFiniteSet(itlb) /\ IsFiniteSet(l1i)

(* What is counted can be counted. *)
Countable ==
  /\ IsFiniteSet(Untranslated) /\ IsFiniteSet(Unfetched) /\ IsFiniteSet(Unpaid)
  /\ Finite /\ IsFiniteSet(completed)

(* The counts, and what they cannot exceed. *)
Counts ==
  /\ read \in Nat /\ Len(prog) \in Nat /\ read =< Len(prog) /\ IFETCH_SIZE \in Nat
  /\ Len(IFETCH_BUFFER) \in Nat /\ Len(IFETCH_BUFFER) =< IFETCH_SIZE
  /\ Len(DECODE_BUFFER) \in Nat /\ Len(ROB) \in Nat
  /\ Len(itlbDone) \in Nat /\ Len(l1iDone) \in Nat
  /\ ToTranslate \in Nat /\ ToFetch \in Nat /\ ToFetch =< Len(IFETCH_BUFFER) /\ ToDecode \in Nat
  /\ Cardinality(itlb) \in Nat /\ Cardinality(l1i) \in Nat
  /\ Cardinality(completed) \in Nat /\ Cardinality(completed) =< Len(ROB)
  /\ One(fetch_stall) \in Nat /\ One(~warmup_complete) \in Nat

\* The caches gain one request at a time.
LEMMA FiniteKept ==
  ASSUME Finite, [Next]_vars
  PROVE  Finite'
<1>1. CASE Translate
  <2>1. PICK k \in Entries : itlb' = itlb \cup {Page(IFETCH_BUFFER[k].id)} /\ l1i' = l1i
    BY <1>1 DEF Translate, RequestTranslation
  <2> QED  BY <2>1, FS_AddElement DEF Finite
<1>2. CASE Fetch
  <2>1. PICK k \in Entries : l1i' = l1i \cup {Line(IFETCH_BUFFER[k].id)} /\ itlb' = itlb
    BY <1>2 DEF Fetch, RequestLine
  <2> QED  BY <2>1, FS_AddElement DEF Finite
<1>3. ASSUME NEW page \in Pages, ItlbAnswers(page) PROVE Finite'
  <2>1. itlb' = itlb \ {page} /\ l1i' = l1i  BY <1>3 DEF ItlbAnswers
  <2> QED  BY <2>1, FS_RemoveElement DEF Finite
<1>4. ASSUME NEW line \in Lines, L1iAnswers(line) PROVE Finite'
  <2>1. l1i' = l1i \ {line} /\ itlb' = itlb  BY <1>4 DEF L1iAnswers
  <2> QED  BY <2>1, FS_RemoveElement DEF Finite
<1>5. ASSUME UNCHANGED <<itlb, l1i>> PROVE Finite'  BY <1>5 DEF Finite
<1>6. ASSUME NEW n \in 0 .. DECODE_SIZE, DecodeAndDispatch(n) PROVE Finite'
  BY <1>5, <1>6 DEF DecodeAndDispatch, cacheVars
<1>7. CASE \/ ReadFromTrace \/ ResumeFetch \/ SendToDecode \/ CompleteTranslation \/ CompleteFetch
           \/ \E id \in Ids : CompleteExecution(id)
           \/ RetireRob \/ FinishWarmup \/ TraceEnds \/ UNCHANGED vars
  BY <1>5, <1>7 DEF ReadFromTrace, ResumeFetch, SendToDecode, CompleteTranslation, CompleteFetch,
                    CompleteExecution, RetireRob, FinishWarmup, TraceEnds, vars, cacheVars
<1> QED  BY <1>1, <1>2, <1>3, <1>4, <1>6, <1>7 DEF Next, Dispatch

\* The elements of a sequence are no more than its positions.
LEMMA FewElements ==
  ASSUME NEW S, NEW s \in Seq(S), NEW T, T \subseteq {s[k] : k \in DOMAIN s}
  PROVE  IsFiniteSet(T) /\ Cardinality(T) \in Nat /\ Cardinality(T) =< Len(s)
<1> DEFINE R == {s[k] : k \in 1 .. Len(s)}
<1>1. Len(s) \in Nat /\ DOMAIN s = 1 .. Len(s)  BY SeqElements
<1>2. IsFiniteSet(1 .. Len(s)) /\ Cardinality(1 .. Len(s)) = Len(s)  BY <1>1, FS_Interval
<1>3. IsFiniteSet(R) /\ Cardinality(R) =< Len(s)
  <2>1. s \in Surjection(1 .. Len(s), R)
    <3>1. s \in [1 .. Len(s) -> R]  BY <1>1, SeqElements
    <3> QED  BY <3>1 DEF Surjection
  <2> HIDE DEF R
  <2> QED  BY <1>2, <2>1, FS_Surjection
<1>4. T \in SUBSET R  BY <1>1
<1> HIDE DEF R
<1>5. IsFiniteSet(T) /\ Cardinality(T) =< Cardinality(R)  BY <1>3, <1>4, FS_Subset
<1>6. Cardinality(T) \in Nat /\ Cardinality(R) \in Nat  BY <1>3, <1>5, FS_CardinalityType
<1> QED  BY <1>1, <1>3, <1>5, <1>6

\* Positions of a sequence are no more than its length.
LEMMA FewPositions ==
  ASSUME NEW n \in Nat, NEW T \in SUBSET (1 .. n)
  PROVE  IsFiniteSet(T) /\ Cardinality(T) \in Nat /\ Cardinality(T) =< n
<1>1. IsFiniteSet(1 .. n) /\ Cardinality(1 .. n) = n  BY FS_Interval
<1>2. IsFiniteSet(T) /\ Cardinality(T) =< Cardinality(1 .. n)  BY <1>1, FS_Subset
<1> QED  BY <1>1, <1>2, FS_CardinalityType

\* The invariant bounds the counts.
LEMMA Counted ==
  ASSUME FrontEndInv, Finite
  PROVE  Counts /\ Countable
<1>1. /\ prog \in Programs /\ read \in 0 .. Len(prog) /\ Len(IFETCH_BUFFER) =< IFETCH_SIZE
      /\ itlbDone \in Seq(Pages) /\ l1iDone \in Seq(Lines) /\ ROB \in Seq(Nat)
      /\ completed \subseteq InRob
  BY DEF FrontEndInv, Typed, Marked
<1>2. Len(prog) \in Nat /\ IFETCH_SIZE \in Nat  BY <1>1, ProgramType, SizesType
<1>3. Len(itlbDone) \in Nat /\ Len(l1iDone) \in Nat  BY <1>1, SeqElements
<1>4. /\ Len(IFETCH_BUFFER) \in Nat /\ Len(DECODE_BUFFER) \in Nat /\ Len(ROB) \in Nat
      /\ Entries = 1 .. Len(IFETCH_BUFFER) /\ DOMAIN DECODE_BUFFER = 1 .. Len(DECODE_BUFFER)
  BY Facts
<1>5. IsFiniteSet(Untranslated) /\ ToTranslate \in Nat
  <2>1. Untranslated \in SUBSET (1 .. Len(IFETCH_BUFFER))  BY <1>4 DEF Untranslated
  <2> QED  BY <1>4, <2>1, FewPositions DEF ToTranslate, Untranslated
<1>6. IsFiniteSet(Unfetched) /\ ToFetch \in Nat /\ ToFetch =< Len(IFETCH_BUFFER)
  <2>1. Unfetched \in SUBSET (1 .. Len(IFETCH_BUFFER))  BY <1>4 DEF Unfetched
  <2> QED  BY <1>4, <2>1, FewPositions DEF ToFetch, Unfetched
<1>7. IsFiniteSet(Unpaid) /\ ToDecode \in Nat
  <2>1. Unpaid \in SUBSET (1 .. Len(DECODE_BUFFER))  BY <1>4 DEF Unpaid
  <2> QED  BY <1>4, <2>1, FewPositions DEF ToDecode, Unpaid
<1>8. IsFiniteSet(completed) /\ Cardinality(completed) \in Nat /\ Cardinality(completed) =< Len(ROB)
  BY <1>1, FewElements DEF InRob
<1>9. Cardinality(itlb) \in Nat /\ Cardinality(l1i) \in Nat
  BY FS_CardinalityType DEF Finite
<1>10. One(fetch_stall) \in Nat /\ One(~warmup_complete) \in Nat  BY DEF One
<1> QED  BY <1>1, <1>2, <1>3, <1>4, <1>5, <1>6, <1>7, <1>8, <1>9, <1>10 DEF Counts, Countable

(* A step uses up work: it brings an answer of the ITLB nearer, which may let  *)
(* every entry of the buffer ask for its line again, or does something for     *)
(* which nothing else has to be done again.                                    *)
Less ==
  \/ Owed' =< Owed /\ Steps' < Steps
  \/ Owed' < Owed /\ Steps' =< Steps + 3 * IFETCH_SIZE

(* By how much a step changes each count at most, from reading to executing,   *)
(* and the two flags.                                                          *)
Change(p, i, t, f, c, q, l, m, b, d, r, x, s, w) ==
  /\ Len(prog') - read' =< Len(prog) - read + p
  /\ Len(IFETCH_BUFFER') =< Len(IFETCH_BUFFER) + i
  /\ ToTranslate' =< ToTranslate + t
  /\ ToFetch' =< ToFetch + f
  /\ Cardinality(itlb') =< Cardinality(itlb) + c
  /\ Len(itlbDone') =< Len(itlbDone) + q
  /\ Cardinality(l1i') =< Cardinality(l1i) + l
  /\ Len(l1iDone') =< Len(l1iDone) + m
  /\ Len(DECODE_BUFFER') =< Len(DECODE_BUFFER) + b
  /\ ToDecode' =< ToDecode + d
  /\ Len(ROB') =< Len(ROB) + r
  /\ Cardinality(completed') >= Cardinality(completed) + x
  /\ One(fetch_stall)' =< One(fetch_stall) + s
  /\ One(~warmup_complete)' =< One(~warmup_complete) + w

(* What the changes add up to. *)
Sum(p, i, t, f, c, q, l, m, b, d, r, x, s, w) ==
  /\ Owed \in Int /\ Owed' \in Int /\ Steps \in Int /\ Steps' \in Int
  /\ Owed' =< Owed + (p + t + c + q)
  /\ Steps' =< Steps + (12 * p + 5 * i + 2 * t + 3 * f + c + 2 * l + m + 3 * b + d
                        + 2 * r - x + s + w)

Integral(p, i, t, f, c, q, l, m, b, d, r, x, s, w) ==
  /\ p \in Int /\ i \in Int /\ t \in Int /\ f \in Int /\ c \in Int /\ q \in Int /\ l \in Int
  /\ m \in Int /\ b \in Int /\ d \in Int /\ r \in Int /\ x \in Int /\ s \in Int /\ w \in Int

\* The changes add up.
LEMMA ChangesAddUp ==
  ASSUME Counts, Counts',
         NEW p, NEW i, NEW t, NEW f, NEW c, NEW q, NEW l, NEW m, NEW b, NEW d, NEW r, NEW x,
         NEW s, NEW w,
         Integral(p, i, t, f, c, q, l, m, b, d, r, x, s, w),
         Change(p, i, t, f, c, q, l, m, b, d, r, x, s, w)
  PROVE  Sum(p, i, t, f, c, q, l, m, b, d, r, x, s, w)
<1> DEFINE P0 == Len(prog) - read
           P1 == Len(prog') - read'
           I0 == Len(IFETCH_BUFFER)
           I1 == Len(IFETCH_BUFFER')
           T0 == ToTranslate
           T1 == ToTranslate'
           F0 == ToFetch
           F1 == ToFetch'
           C0 == Cardinality(itlb)
           C1 == Cardinality(itlb')
           Q0 == Len(itlbDone)
           Q1 == Len(itlbDone')
           L0 == Cardinality(l1i)
           L1 == Cardinality(l1i')
           M0 == Len(l1iDone)
           M1 == Len(l1iDone')
           B0 == Len(DECODE_BUFFER)
           B1 == Len(DECODE_BUFFER')
           D0 == ToDecode
           D1 == ToDecode'
           R0 == Len(ROB)
           R1 == Len(ROB')
           X0 == Cardinality(completed)
           X1 == Cardinality(completed')
           S0 == One(fetch_stall)
           S1 == One(fetch_stall)'
           W0 == One(~warmup_complete)
           W1 == One(~warmup_complete)'
<1>1. /\ P0 \in Int /\ I0 \in Int /\ T0 \in Int /\ F0 \in Int /\ C0 \in Int /\ Q0 \in Int
      /\ L0 \in Int /\ M0 \in Int /\ B0 \in Int /\ D0 \in Int /\ R0 \in Int /\ X0 \in Int
      /\ S0 \in Int /\ W0 \in Int
  BY DEF Counts
<1>2. /\ P1 \in Int /\ I1 \in Int /\ T1 \in Int /\ F1 \in Int /\ C1 \in Int /\ Q1 \in Int
      /\ L1 \in Int /\ M1 \in Int /\ B1 \in Int /\ D1 \in Int /\ R1 \in Int /\ X1 \in Int
      /\ S1 \in Int /\ W1 \in Int
  <2>1. S1 \in Int /\ W1 \in Int  BY DEF One
  <2>2. Len(prog') \in Int /\ read' \in Int  BY DEF Counts
  <2>3. P1 \in Int  BY <2>2
  <2>4. I1 \in Int  BY DEF Counts
  <2>5. T1 \in Int /\ F1 \in Int  BY DEF Counts
  <2>6. C1 \in Int  BY DEF Counts
  <2>7. Q1 \in Int /\ M1 \in Int  BY DEF Counts
  <2>8. B1 \in Int /\ R1 \in Int  BY DEF Counts
  <2>9. X1 \in Int /\ L1 \in Int  BY DEF Counts
  <2>10. D1 \in Int  BY DEF Counts
  <2> QED  BY <2>1, <2>3, <2>4, <2>5, <2>6, <2>7, <2>8, <2>9, <2>10
<1>3. /\ P1 =< P0 + p /\ I1 =< I0 + i /\ T1 =< T0 + t /\ F1 =< F0 + f /\ C1 =< C0 + c
      /\ Q1 =< Q0 + q /\ L1 =< L0 + l /\ M1 =< M0 + m /\ B1 =< B0 + b /\ D1 =< D0 + d
      /\ R1 =< R0 + r /\ X1 >= X0 + x /\ S1 =< S0 + s /\ W1 =< W0 + w
  BY DEF Change
<1>4. /\ Owed = P0 + T0 + C0 + Q0
      /\ Steps = 12 * P0 + 5 * I0 + 2 * T0 + 3 * F0 + C0 + 2 * L0 + M0 + 3 * B0 + D0 + (2 * R0 - X0)
                 + S0 + W0
  BY DEF Owed, Steps
<1>5. /\ Owed' = P1 + T1 + C1 + Q1
      /\ Steps' = 12 * P1 + 5 * I1 + 2 * T1 + 3 * F1 + C1 + 2 * L1 + M1 + 3 * B1 + D1 + (2 * R1 - X1)
                 + S1 + W1
  BY DEF Owed, Steps
<1> HIDE DEF P0, P1, I0, I1, T0, T1, F0, F1, C0, C1, Q0, Q1, L0, L1, M0, M1, B0, B1, D0, D1, R0, R1, X0, X1, S0, S1, W0, W1
<1>6. /\ p \in Int /\ i \in Int /\ t \in Int /\ f \in Int /\ c \in Int /\ q \in Int
      /\ l \in Int /\ m \in Int /\ b \in Int /\ d \in Int /\ r \in Int /\ x \in Int
      /\ s \in Int /\ w \in Int
  BY DEF Integral
<1>7. Owed \in Int /\ Owed' \in Int  BY ONLY <1>1, <1>2, <1>4, <1>5
<1>8. Steps \in Int /\ Steps' \in Int  BY ONLY <1>1, <1>2, <1>4, <1>5
<1>9. Owed' =< Owed + (p + t + c + q)  BY ONLY <1>1, <1>2, <1>3, <1>4, <1>5, <1>6
<1>10. Steps' =< Steps + (12 * p + 5 * i + 2 * t + 3 * f + c + 2 * l + m + 3 * b + d
                          + 2 * r - x + s + w)
  BY ONLY <1>1, <1>2, <1>3, <1>4, <1>5, <1>6
<1> QED  BY <1>7, <1>8, <1>9, <1>10 DEF Sum

\* A change that saves work.
Saves(p, i, t, f, c, q, l, m, b, d, r, x, s, w) ==
  LET owed  == p + t + c + q
      steps == 12 * p + 5 * i + 2 * t + 3 * f + c + 2 * l + m + 3 * b + d + 2 * r - x + s + w
  IN  /\ Integral(p, i, t, f, c, q, l, m, b, d, r, x, s, w)
      /\ \/ owed =< 0 /\ steps < 0
         \/ owed < 0 /\ steps =< 3 * IFETCH_SIZE

\* It does.
LEMMA SavingIsLess ==
  ASSUME Counts, Counts',
         NEW p, NEW i, NEW t, NEW f, NEW c, NEW q, NEW l, NEW m, NEW b, NEW d, NEW r, NEW x,
         NEW s, NEW w,
         Change(p, i, t, f, c, q, l, m, b, d, r, x, s, w),
         Saves(p, i, t, f, c, q, l, m, b, d, r, x, s, w)
  PROVE  Less
<1> DEFINE owed  == p + t + c + q
           steps == 12 * p + 5 * i + 2 * t + 3 * f + c + 2 * l + m + 3 * b + d + 2 * r - x + s + w
           a     == 3 * IFETCH_SIZE
<1>0. Integral(p, i, t, f, c, q, l, m, b, d, r, x, s, w)  BY DEF Saves
<1>1. Sum(p, i, t, f, c, q, l, m, b, d, r, x, s, w)  BY <1>0, ChangesAddUp
<1>2. /\ Owed \in Int /\ Owed' \in Int /\ Steps \in Int /\ Steps' \in Int
      /\ Owed' =< Owed + owed /\ Steps' =< Steps + steps
  BY <1>1 DEF Sum
<1>3. owed \in Int /\ steps \in Int  BY <1>0 DEF Integral
<1>4. a \in Int  BY SizesType
<1>5. \/ owed =< 0 /\ steps < 0
      \/ owed < 0 /\ steps =< a
  BY DEF Saves
<1> HIDE DEF owed, steps, a
<1>6. \/ Owed' =< Owed /\ Steps' < Steps
      \/ Owed' < Owed /\ Steps' =< Steps + a
  BY ONLY <1>2, <1>3, <1>4, <1>5
<1> QED  BY <1>6 DEF Less, a

\* Positions that correspond to others are no more than they.
LEMMA Shifted ==
  ASSUME NEW S \in SUBSET Nat, NEW T, IsFiniteSet(T), NEW n \in Nat, \A k \in S : n + k \in T
  PROVE  Cardinality(S) =< Cardinality(T)
<1> DEFINE f == [k \in S |-> n + k]
<1>1. f \in [S -> T]  OBVIOUS
<1>2. \A a, b \in S : f[a] = f[b] => a = b  OBVIOUS
<1>3. f \in Injection(S, T)  BY <1>1, <1>2 DEF Injection, IsInjective
<1> HIDE DEF f
<1> QED  BY <1>3, FS_Injection

\* One more at most.
LEMMA OneMore ==
  ASSUME NEW S, NEW T, NEW x, IsFiniteSet(S), T \subseteq S \cup {x}
  PROVE  Cardinality(T) =< Cardinality(S) + 1
<1>1. /\ IsFiniteSet(S \cup {x}) /\ Cardinality(S) \in Nat
      /\ Cardinality(S \cup {x}) = Cardinality(S) \/ Cardinality(S \cup {x}) = Cardinality(S) + 1
  BY FS_AddElement, FS_CardinalityType
<1>2. T \in SUBSET (S \cup {x})  OBVIOUS
<1>3. Cardinality(T) =< Cardinality(S \cup {x}) /\ IsFiniteSet(T)  BY <1>1, <1>2, FS_Subset
<1>4. Cardinality(T) \in Nat  BY <1>3, FS_CardinalityType
<1> QED  BY <1>1, <1>3, <1>4

\* One less at least.
LEMMA OneLess ==
  ASSUME NEW S, NEW T, NEW k \in S, IsFiniteSet(S), T \subseteq S, k \notin T
  PROVE  Cardinality(T) =< Cardinality(S) - 1
<1>1. IsFiniteSet(S \ {k}) /\ Cardinality(S \ {k}) = Cardinality(S) - 1  BY FS_RemoveElement
<1>2. T \in SUBSET (S \ {k})  OBVIOUS
<1> QED  BY <1>1, <1>2, FS_Subset

\* No more.
LEMMA NoMore ==
  ASSUME NEW S, NEW T, IsFiniteSet(S), T \subseteq S
  PROVE  Cardinality(T) =< Cardinality(S)
<1>1. T \in SUBSET S  OBVIOUS
<1> QED  BY <1>1, FS_Subset

\* The counts are the sizes of the sets.
LEMMA CountsAre ==
  /\ ToTranslate = Cardinality(Untranslated) /\ ToTranslate' = Cardinality(Untranslated')
  /\ ToFetch = Cardinality(Unfetched) /\ ToFetch' = Cardinality(Unfetched')
  /\ ToDecode = Cardinality(Unpaid) /\ ToDecode' = Cardinality(Unpaid')
BY DEF ToTranslate, Untranslated, ToFetch, Unfetched, ToDecode, Unpaid

\* Reading: what is read asks once for its page and once for its line.
LEMMA ReadFromTraceChange ==
  ASSUME FrontEndInv, FrontEndInv', Counts, Countable, ReadFromTrace
  PROVE  Change(-1, 1, 1, 1, 0, 0, 0, 0, 0, 0, 0, 0, 1, 0)
<1> DEFINE n == Len(IFETCH_BUFFER) + 1
<1>1. /\ Len(IFETCH_BUFFER') = Len(IFETCH_BUFFER) + 1 /\ read' = read + 1 /\ prog' = prog
      /\ DECODE_BUFFER' = DECODE_BUFFER /\ ROB' = ROB /\ completed' = completed
      /\ itlb' = itlb /\ itlbDone' = itlbDone /\ l1i' = l1i /\ l1iDone' = l1iDone
  BY ReadLengths DEF ReadFromTrace, backVars, cacheVars
<1>2. Entries' = 1 .. n /\ Entries = 1 .. Len(IFETCH_BUFFER) /\ n \in Nat
  <2>1. IFETCH_BUFFER' \in Seq(Entry)  BY DEF FrontEndInv, Typed
  <2>2. DOMAIN IFETCH_BUFFER' = 1 .. Len(IFETCH_BUFFER')  BY <2>1, SeqElements
  <2> QED  BY <1>1, <2>2, Facts DEF Entries
<1>3. \A k \in 1 .. Len(IFETCH_BUFFER) : IFETCH_BUFFER'[k] = IFETCH_BUFFER[k]
  <2> DEFINE new == [id |-> read + 1, translated |-> NotYet, fetched |-> NotYet,
                     instruction_pa |-> FALSE]
  <2>1. new \in Entry  BY Facts, States DEF Entry
  <2>2. IFETCH_BUFFER' = Append(IFETCH_BUFFER, new) /\ IFETCH_BUFFER \in Seq(Entry)
    BY DEF ReadFromTrace, FrontEndInv, Typed
  <2> HIDE DEF new
  <2> QED  BY <2>1, <2>2, AppendProperties
<1>4. ASSUME NEW k \in Entries', k \notin Entries PROVE k = n
  BY <1>2, <1>4, Facts
<1>5. Untranslated' \subseteq Untranslated \cup {n} /\ Unfetched' \subseteq Unfetched \cup {n}
  BY <1>2, <1>3, <1>4 DEF Untranslated, Unfetched
<1>6. ToTranslate' =< ToTranslate + 1 /\ ToFetch' =< ToFetch + 1
  <2> HIDE DEF n
  <2>1. Cardinality(Untranslated') =< Cardinality(Untranslated) + 1  BY <1>5, OneMore DEF Countable
  <2>2. Cardinality(Unfetched') =< Cardinality(Unfetched) + 1  BY <1>5, OneMore DEF Countable
  <2> QED  BY <2>1, <2>2, CountsAre
<1>7. ToDecode' = ToDecode  BY <1>1 DEF ToDecode
<1>8. One(fetch_stall)' =< One(fetch_stall) + 1  BY DEF One
<1>9. One(~warmup_complete)' =< One(~warmup_complete) + 0  BY DEF One, ReadFromTrace
<1> QED  BY ONLY <1>1, <1>6, <1>7, <1>8, <1>9, Counts DEF Counts, Change

LEMMA ResumeFetchChange ==
  ASSUME Counts, ResumeFetch
  PROVE  Change(0, 0, 0, 0, 0, 0, 0, 0, 0, 0, 0, 0, -1, 0)
<1>1. /\ IFETCH_BUFFER' = IFETCH_BUFFER /\ read' = read /\ prog' = prog
      /\ DECODE_BUFFER' = DECODE_BUFFER /\ ROB' = ROB /\ completed' = completed
      /\ itlb' = itlb /\ itlbDone' = itlbDone /\ l1i' = l1i /\ l1iDone' = l1iDone
  BY DEF ResumeFetch, backVars, cacheVars
<1>2. ToDecode' = ToDecode /\ ToTranslate' = ToTranslate /\ ToFetch' = ToFetch
  BY <1>1 DEF ToDecode, ToTranslate, ToFetch, Entries
<1>3. One(fetch_stall)' =< One(fetch_stall) + (-1)  BY DEF One, ResumeFetch
<1>4. One(~warmup_complete)' =< One(~warmup_complete) + 0  BY DEF One, ResumeFetch
<1> QED  BY ONLY <1>1, <1>2, <1>3, <1>4, Counts DEF Counts, Change

\* An entry of the buffer takes marks.
LEMMA MarksOf ==
  ASSUME FrontEndInv, NEW j \in Entries, NEW t \in State, NEW f \in State
  PROVE  /\ Marking(IFETCH_BUFFER[j], t, f).translated = t
         /\ Marking(IFETCH_BUFFER[j], t, f).fetched = f
<1>1. IFETCH_BUFFER[j] \in Entry  BY Facts
<1> QED  BY <1>1, Marks DEF MarkedAs

\* Asking for a page: one translation less to ask for, one request more.
LEMMA RequestTranslationChange ==
  ASSUME FrontEndInv, FrontEndInv', Counts, Countable, NEW k \in Entries, RequestTranslation(k)
  PROVE  Change(0, 0, -1, 0, 1, 0, 0, 0, 0, 0, 0, 0, 0, 0)
<1> DEFINE page == Page(IFETCH_BUFFER[k].id)
           Asks(j) == Page(IFETCH_BUFFER[j].id) = page /\ IFETCH_BUFFER[j].translated = NotYet
           Asked(j) == Marking(IFETCH_BUFFER[j], INFLIGHT, NotYet)
<1>0. /\ itlb' = itlb \cup {page} /\ IFETCH_BUFFER[k].translated = NotYet
      /\ IFETCH_BUFFER' = [j \in Entries |-> IF Asks(j) THEN Asked(j) ELSE IFETCH_BUFFER[j]]
  BY DEF RequestTranslation, Marking
<1>1. /\ read' = read /\ prog' = prog
      /\ DECODE_BUFFER' = DECODE_BUFFER /\ ROB' = ROB /\ completed' = completed
      /\ itlbDone' = itlbDone /\ l1i' = l1i /\ l1iDone' = l1iDone
  BY DEF RequestTranslation, backVars
<1>2. DOMAIN IFETCH_BUFFER' = Entries /\ Entries' = Entries  BY <1>0 DEF Entries
<1>3. Len(IFETCH_BUFFER') = Len(IFETCH_BUFFER)  BY <1>2, SameLength
<1>4. ASSUME NEW j \in Entries
      PROVE  Asked(j).translated = INFLIGHT /\ Asked(j).fetched = NotYet
  BY MarksOf, States
<1> HIDE DEF Asked
<1>5. Untranslated' \subseteq Untranslated /\ k \in Untranslated /\ k \notin Untranslated'
  BY <1>0, <1>2, <1>4, States DEF Untranslated
<1>6. Unfetched' \subseteq Unfetched
  BY <1>0, <1>2, <1>4, States DEF Unfetched
<1>7. ToTranslate' =< ToTranslate - 1 /\ ToFetch' =< ToFetch
  <2>1. Cardinality(Untranslated') =< Cardinality(Untranslated) - 1  BY <1>5, OneLess DEF Countable
  <2>2. Cardinality(Unfetched') =< Cardinality(Unfetched)  BY <1>6, NoMore DEF Countable
  <2> QED  BY <2>1, <2>2, CountsAre
<1> HIDE DEF page
<1>8. Cardinality(itlb') =< Cardinality(itlb) + 1
  <2>1. itlb' \subseteq itlb \cup {page}  BY <1>0
  <2> QED  BY <2>1, OneMore DEF Countable, Finite
<1>9. ToDecode' = ToDecode  BY <1>1 DEF ToDecode
<1>12. fetch_stall' = fetch_stall /\ warmup_complete' = warmup_complete
  BY DEF RequestTranslation, stallVars
<1>10. One(fetch_stall)' =< One(fetch_stall) + 0  BY <1>12 DEF One
<1>11. One(~warmup_complete)' =< One(~warmup_complete) + 0  BY <1>12 DEF One
<1> QED  BY ONLY <1>1, <1>3, <1>7, <1>8, <1>9, <1>10, <1>11, Counts DEF Counts, Change

\* Asking for a line: one entry less that asks for one, one request more.
LEMMA RequestLineChange ==
  ASSUME FrontEndInv, FrontEndInv', Counts, Countable, NEW k \in Entries, RequestLine(k)
  PROVE  Change(0, 0, 0, -1, 0, 0, 1, 0, 0, 0, 0, 0, 0, 0)
<1> DEFINE line == Line(IFETCH_BUFFER[k].id)
           Asks(j) == Line(IFETCH_BUFFER[j].id) = line
           Asked(j) == Marking(IFETCH_BUFFER[j], COMPLETED, INFLIGHT)
<1>0. /\ l1i' = l1i \cup {line} /\ IFETCH_BUFFER[k].fetched = NotYet
      /\ IFETCH_BUFFER' = [j \in Entries |-> IF Asks(j) THEN Asked(j) ELSE IFETCH_BUFFER[j]]
  BY DEF RequestLine, Mark, Marking
<1>1. /\ read' = read /\ prog' = prog
      /\ DECODE_BUFFER' = DECODE_BUFFER /\ ROB' = ROB /\ completed' = completed
      /\ itlbDone' = itlbDone /\ itlb' = itlb /\ l1iDone' = l1iDone
  BY DEF RequestLine, backVars
<1>2. DOMAIN IFETCH_BUFFER' = Entries /\ Entries' = Entries  BY <1>0 DEF Entries
<1>3. Len(IFETCH_BUFFER') = Len(IFETCH_BUFFER)  BY <1>2, SameLength
<1>4. ASSUME NEW j \in Entries
      PROVE  Asked(j).translated = COMPLETED /\ Asked(j).fetched = INFLIGHT
  BY MarksOf, States
<1> HIDE DEF Asked
<1>5. Untranslated' \subseteq Untranslated
  BY <1>0, <1>2, <1>4, States DEF Untranslated
<1>6. Unfetched' \subseteq Unfetched /\ k \in Unfetched /\ k \notin Unfetched'
  BY <1>0, <1>2, <1>4, States DEF Unfetched
<1>7. ToTranslate' =< ToTranslate /\ ToFetch' =< ToFetch - 1
  <2>1. Cardinality(Unfetched') =< Cardinality(Unfetched) - 1  BY <1>6, OneLess DEF Countable
  <2>2. Cardinality(Untranslated') =< Cardinality(Untranslated)  BY <1>5, NoMore DEF Countable
  <2> QED  BY <2>1, <2>2, CountsAre
<1> HIDE DEF line
<1>8. Cardinality(l1i') =< Cardinality(l1i) + 1
  <2>1. l1i' \subseteq l1i \cup {line}  BY <1>0
  <2> QED  BY <2>1, OneMore DEF Countable, Finite
<1>9. ToDecode' = ToDecode  BY <1>1 DEF ToDecode
<1>10. One(fetch_stall)' =< One(fetch_stall) + 0  BY DEF One, RequestLine, stallVars
<1>11. One(~warmup_complete)' =< One(~warmup_complete) + 0  BY DEF One, RequestLine
<1> QED  BY ONLY <1>1, <1>3, <1>7, <1>8, <1>9, <1>10, <1>11, Counts DEF Counts, Change

\* The queue of answers without its head.
LEMMA OneAnswerLess ==
  ASSUME NEW S, NEW q \in Seq(S), q # <<>>
  PROVE  Len(Tail(q)) = Len(q) - 1
BY EmptySeq, HeadTailProperties

\* A translation that comes: every entry may have its line to ask for again.
LEMMA CompleteTranslationChange ==
  ASSUME FrontEndInv, FrontEndInv', Counts, Counts', Countable, CompleteTranslation
  PROVE  Change(0, 0, 0, IFETCH_SIZE, 0, -1, 0, 0, 0, 0, 0, 0, 0, 0)
<1> DEFINE Answered(j) == Page(IFETCH_BUFFER[j].id) = Head(itlbDone)
           Done(j) == [IFETCH_BUFFER[j] EXCEPT !.translated = COMPLETED, !.fetched = NotYet,
                                               !.instruction_pa = TRUE]
<1>0. /\ itlbDone # <<>> /\ itlbDone' = Tail(itlbDone)
      /\ IFETCH_BUFFER' = [j \in Entries |-> IF Answered(j) THEN Done(j) ELSE IFETCH_BUFFER[j]]
  BY DEF CompleteTranslation, Mark
<1>1. /\ read' = read /\ prog' = prog
      /\ DECODE_BUFFER' = DECODE_BUFFER /\ ROB' = ROB /\ completed' = completed
      /\ itlb' = itlb /\ l1i' = l1i /\ l1iDone' = l1iDone
  BY DEF CompleteTranslation, backVars
<1>2. DOMAIN IFETCH_BUFFER' = Entries /\ Entries' = Entries  BY <1>0 DEF Entries
<1>3. Len(IFETCH_BUFFER') = Len(IFETCH_BUFFER)  BY <1>2, SameLength
<1>4. ASSUME NEW j \in Entries PROVE Done(j).translated = COMPLETED
  <2>1. IFETCH_BUFFER[j] \in Entry  BY Facts
  <2> QED  BY <2>1 DEF Entry
<1> HIDE DEF Done
<1>5. Untranslated' \subseteq Untranslated
  BY <1>0, <1>2, <1>4, States DEF Untranslated
<1>6. ToTranslate' =< ToTranslate
  <2>1. Cardinality(Untranslated') =< Cardinality(Untranslated)  BY <1>5, NoMore DEF Countable
  <2> QED  BY <2>1, CountsAre
<1>7. ToFetch' =< ToFetch + IFETCH_SIZE
  <2>1. ToFetch' \in Nat /\ ToFetch' =< Len(IFETCH_BUFFER') /\ Len(IFETCH_BUFFER') =< IFETCH_SIZE
    BY DEF Counts
  <2>2. ToFetch \in Nat /\ Len(IFETCH_BUFFER) \in Nat /\ IFETCH_SIZE \in Nat  BY DEF Counts
  <2> QED  BY <1>3, <2>1, <2>2
<1>8. Len(itlbDone') =< Len(itlbDone) + (-1)
  <2>1. itlbDone \in Seq(Pages)  BY DEF FrontEndInv, Typed
  <2>2. Len(itlbDone') = Len(itlbDone) - 1  BY <1>0, <2>1, OneAnswerLess
  <2>3. Len(itlbDone) \in Nat  BY <2>1, SeqElements
  <2> QED  BY <2>2, <2>3
<1>9. ToDecode' = ToDecode  BY <1>1 DEF ToDecode
<1>10. One(fetch_stall)' =< One(fetch_stall) + 0  BY DEF One, CompleteTranslation, stallVars
<1>11. One(~warmup_complete)' =< One(~warmup_complete) + 0  BY DEF One, CompleteTranslation
<1> QED  BY ONLY <1>1, <1>3, <1>6, <1>7, <1>8, <1>9, <1>10, <1>11, Counts DEF Counts, Change

\* A line that comes: one answer less.
LEMMA CompleteFetchChange ==
  ASSUME FrontEndInv, FrontEndInv', Counts, Countable, CompleteFetch
  PROVE  Change(0, 0, 0, 0, 0, 0, 0, -1, 0, 0, 0, 0, 0, 0)
<1> DEFINE Answered(j) == Line(IFETCH_BUFFER[j].id) = Head(l1iDone)
           Done(j) == Marking(IFETCH_BUFFER[j], COMPLETED, COMPLETED)
<1>0. /\ l1iDone # <<>> /\ l1iDone' = Tail(l1iDone)
      /\ IFETCH_BUFFER' = [j \in Entries |-> IF Answered(j) THEN Done(j) ELSE IFETCH_BUFFER[j]]
  BY DEF CompleteFetch, Mark, Marking
<1>1. /\ read' = read /\ prog' = prog
      /\ DECODE_BUFFER' = DECODE_BUFFER /\ ROB' = ROB /\ completed' = completed
      /\ itlb' = itlb /\ l1i' = l1i /\ itlbDone' = itlbDone
  BY DEF CompleteFetch, backVars
<1>2. DOMAIN IFETCH_BUFFER' = Entries /\ Entries' = Entries  BY <1>0 DEF Entries
<1>3. Len(IFETCH_BUFFER') = Len(IFETCH_BUFFER)  BY <1>2, SameLength
<1>4. ASSUME NEW j \in Entries
      PROVE  Done(j).translated = COMPLETED /\ Done(j).fetched = COMPLETED
  BY MarksOf, States
<1> HIDE DEF Done
<1>5. Untranslated' \subseteq Untranslated /\ Unfetched' \subseteq Unfetched
  BY <1>0, <1>2, <1>4, States DEF Untranslated, Unfetched
<1>6. ToTranslate' =< ToTranslate /\ ToFetch' =< ToFetch
  <2>1. Cardinality(Untranslated') =< Cardinality(Untranslated)  BY <1>5, NoMore DEF Countable
  <2>2. Cardinality(Unfetched') =< Cardinality(Unfetched)  BY <1>5, NoMore DEF Countable
  <2> QED  BY <2>1, <2>2, CountsAre
<1>8. Len(l1iDone') =< Len(l1iDone) + (-1)
  <2>1. l1iDone \in Seq(Lines)  BY DEF FrontEndInv, Typed
  <2>2. Len(l1iDone') = Len(l1iDone) - 1  BY <1>0, <2>1, OneAnswerLess
  <2>3. Len(l1iDone) \in Nat  BY <2>1, SeqElements
  <2> QED  BY <2>2, <2>3
<1>9. ToDecode' = ToDecode  BY <1>1 DEF ToDecode
<1>10. One(fetch_stall)' =< One(fetch_stall) + 0  BY DEF One, CompleteFetch, stallVars
<1>11. One(~warmup_complete)' =< One(~warmup_complete) + 0  BY DEF One, CompleteFetch
<1> QED  BY ONLY <1>1, <1>3, <1>6, <1>8, <1>9, <1>10, <1>11, Counts DEF Counts, Change

\* What is sent asks for nothing any more, and has its latency to pay.
LEMMA SendToDecodeChange ==
  ASSUME FrontEndInv, FrontEndInv', Counts, Countable, SendToDecode
  PROVE  Change(0, -1, 0, 0, 0, 0, 0, 0, 1, 1, 0, 0, 0, 0)
<1> DEFINE n == Len(DECODE_BUFFER) + 1
           m == Len(IFETCH_BUFFER) - 1
<1>1. /\ read' = read /\ prog' = prog /\ ROB' = ROB /\ completed' = completed
      /\ itlb' = itlb /\ itlbDone' = itlbDone /\ l1i' = l1i /\ l1iDone' = l1iDone
  BY DEF SendToDecode, backVars, cacheVars
<1>2. /\ Len(IFETCH_BUFFER') = m /\ Len(DECODE_BUFFER') = n
      /\ \A i \in 1 .. m : IFETCH_BUFFER'[i] = IFETCH_BUFFER[i + 1]
      /\ \A i \in 1 .. Len(DECODE_BUFFER) : DECODE_BUFFER'[i] = DECODE_BUFFER[i]
  BY SendLengths
<1>3. /\ Entries' = 1 .. m /\ DOMAIN DECODE_BUFFER' = 1 .. n
      /\ Entries = 1 .. Len(IFETCH_BUFFER) /\ DOMAIN DECODE_BUFFER = 1 .. Len(DECODE_BUFFER)
      /\ Len(IFETCH_BUFFER) \in Nat /\ Len(DECODE_BUFFER) \in Nat
  <2>1. IFETCH_BUFFER' \in Seq(Entry) /\ DECODE_BUFFER' \in Seq(Decode)  BY DEF FrontEndInv, Typed
  <2>2. DOMAIN IFETCH_BUFFER' = 1 .. m /\ DOMAIN DECODE_BUFFER' = 1 .. n
    BY <1>2, <2>1, SeqElements
  <2> QED  BY <2>2, Facts DEF Entries
<1>4. \A k \in 1 .. m : 1 + k \in Entries /\ IFETCH_BUFFER'[k] = IFETCH_BUFFER[1 + k]
  <2> SUFFICES ASSUME NEW k \in 1 .. m
               PROVE  1 + k \in Entries /\ IFETCH_BUFFER'[k] = IFETCH_BUFFER[1 + k]
    OBVIOUS
  <2>1. 1 + k = k + 1 /\ 1 + k \in Entries  BY <1>3
  <2> QED  BY <1>2, <2>1
<1>5. ToTranslate' =< ToTranslate
  <2>1. Untranslated' \in SUBSET Nat /\ \A k \in Untranslated' : 1 + k \in Untranslated
    BY <1>3, <1>4 DEF Untranslated
  <2>2. Cardinality(Untranslated') =< Cardinality(Untranslated)  BY <2>1, Shifted DEF Countable
  <2> QED  BY <2>2, CountsAre
<1>6. ToFetch' =< ToFetch
  <2>1. Unfetched' \in SUBSET Nat /\ \A k \in Unfetched' : 1 + k \in Unfetched
    BY <1>3, <1>4 DEF Unfetched
  <2>2. Cardinality(Unfetched') =< Cardinality(Unfetched)  BY <2>1, Shifted DEF Countable
  <2> QED  BY <2>2, CountsAre
<1>7. ToDecode' =< ToDecode + 1
  <2>1. \A k \in 1 .. n : k = n \/ k \in 1 .. Len(DECODE_BUFFER)  BY <1>3
  <2>2. Unpaid' \subseteq Unpaid \cup {n}  BY <1>2, <1>3, <2>1 DEF Unpaid
  <2> HIDE DEF n
  <2>3. Cardinality(Unpaid') =< Cardinality(Unpaid) + 1  BY <2>2, OneMore DEF Countable
  <2> QED  BY <2>3, CountsAre
<1>8. Len(IFETCH_BUFFER') =< Len(IFETCH_BUFFER) + (-1) /\ Len(DECODE_BUFFER') =< Len(DECODE_BUFFER) + 1
  BY <1>2, <1>3
<1>9. fetch_stall' = fetch_stall /\ warmup_complete' = warmup_complete
  BY DEF SendToDecode, stallVars
<1>10. One(fetch_stall)' =< One(fetch_stall) + 0  BY <1>9 DEF One
<1>11. One(~warmup_complete)' =< One(~warmup_complete) + 0  BY <1>9 DEF One
<1> QED  BY ONLY <1>1, <1>5, <1>6, <1>7, <1>8, <1>10, <1>11, Counts DEF Counts, Change

\* The ITLB and the L1I answer one request.
LEMMA CacheAnswersChange ==
  ASSUME FrontEndInv, Counts, Countable
  PROVE  /\ \A page \in Pages : ItlbAnswers(page) =>
              Change(0, 0, 0, 0, -1, 1, 0, 0, 0, 0, 0, 0, 0, 0)
         /\ \A line \in Lines : L1iAnswers(line) =>
              Change(0, 0, 0, 0, 0, 0, -1, 1, 0, 0, 0, 0, 0, 0)
<1>1. ASSUME NEW page \in Pages, ItlbAnswers(page)
      PROVE  Change(0, 0, 0, 0, -1, 1, 0, 0, 0, 0, 0, 0, 0, 0)
  <2>1. /\ read' = read /\ prog' = prog /\ IFETCH_BUFFER' = IFETCH_BUFFER
        /\ DECODE_BUFFER' = DECODE_BUFFER /\ ROB' = ROB /\ completed' = completed
        /\ l1i' = l1i /\ l1iDone' = l1iDone
    BY <1>1 DEF ItlbAnswers, backVars
  <2>2. page \in itlb /\ itlb' = itlb \ {page} /\ itlbDone' = Append(itlbDone, page)
    BY <1>1 DEF ItlbAnswers
  <2>3. Cardinality(itlb') =< Cardinality(itlb) + (-1)
    <3>1. Cardinality(itlb') =< Cardinality(itlb) - 1  BY <2>2, OneLess DEF Countable, Finite
    <3>2. IsFiniteSet(itlb') /\ Cardinality(itlb') \in Nat /\ Cardinality(itlb) \in Nat
      BY <2>2, FS_RemoveElement, FS_CardinalityType DEF Countable, Finite
    <3> QED  BY <3>1, <3>2
  <2>4. Len(itlbDone') =< Len(itlbDone) + 1
    <3>1. itlbDone \in Seq(Pages)  BY DEF FrontEndInv, Typed
    <3>2. Len(itlbDone') = Len(itlbDone) + 1 /\ Len(itlbDone) \in Nat
      BY <2>2, <3>1, AppendProperties, SeqElements
    <3> QED  BY <3>2
  <2>5. ToDecode' = ToDecode /\ ToTranslate' = ToTranslate /\ ToFetch' = ToFetch
    BY <2>1 DEF ToDecode, ToTranslate, ToFetch, Entries
  <2>6. fetch_stall' = fetch_stall /\ warmup_complete' = warmup_complete
    BY <1>1 DEF ItlbAnswers, stallVars
  <2>7. One(fetch_stall)' =< One(fetch_stall) + 0  BY <2>6 DEF One
  <2>8. One(~warmup_complete)' =< One(~warmup_complete) + 0  BY <2>6 DEF One
  <2> QED  BY ONLY <2>1, <2>3, <2>4, <2>5, <2>7, <2>8, Counts DEF Counts, Change
<1>2. ASSUME NEW line \in Lines, L1iAnswers(line)
      PROVE  Change(0, 0, 0, 0, 0, 0, -1, 1, 0, 0, 0, 0, 0, 0)
  <2>1. /\ read' = read /\ prog' = prog /\ IFETCH_BUFFER' = IFETCH_BUFFER
        /\ DECODE_BUFFER' = DECODE_BUFFER /\ ROB' = ROB /\ completed' = completed
        /\ itlb' = itlb /\ itlbDone' = itlbDone
    BY <1>2 DEF L1iAnswers, backVars
  <2>2. line \in l1i /\ l1i' = l1i \ {line} /\ l1iDone' = Append(l1iDone, line)
    BY <1>2 DEF L1iAnswers
  <2>3. Cardinality(l1i') =< Cardinality(l1i) + (-1)
    <3>1. Cardinality(l1i') =< Cardinality(l1i) - 1  BY <2>2, OneLess DEF Countable, Finite
    <3>2. IsFiniteSet(l1i') /\ Cardinality(l1i') \in Nat /\ Cardinality(l1i) \in Nat
      BY <2>2, FS_RemoveElement, FS_CardinalityType DEF Countable, Finite
    <3> QED  BY <3>1, <3>2
  <2>4. Len(l1iDone') =< Len(l1iDone) + 1
    <3>1. l1iDone \in Seq(Lines)  BY DEF FrontEndInv, Typed
    <3>2. Len(l1iDone') = Len(l1iDone) + 1 /\ Len(l1iDone) \in Nat
      BY <2>2, <3>1, AppendProperties, SeqElements
    <3> QED  BY <3>2
  <2>5. ToDecode' = ToDecode /\ ToTranslate' = ToTranslate /\ ToFetch' = ToFetch
    BY <2>1 DEF ToDecode, ToTranslate, ToFetch, Entries
  <2>6. fetch_stall' = fetch_stall /\ warmup_complete' = warmup_complete
    BY <1>2 DEF L1iAnswers, stallVars
  <2>7. One(fetch_stall)' =< One(fetch_stall) + 0  BY <2>6 DEF One
  <2>8. One(~warmup_complete)' =< One(~warmup_complete) + 0  BY <2>6 DEF One
  <2> QED  BY ONLY <2>1, <2>3, <2>4, <2>5, <2>7, <2>8, Counts DEF Counts, Change
<1> QED  BY <1>1, <1>2

\* An entry that a scan changes starts to pay.
LEMMA PayingPays ==
  ASSUME NEW s \in Seq(Decode), NEW k \in DOMAIN s, Paying(s)[k] # s[k]
  PROVE  s[k].event_cycle = 0 /\ Paying(s)[k].event_cycle = 1
<1> DEFINE paid == [s[k] EXCEPT !.event_cycle = 1]
<1>1. s[k] \in Decode  BY SeqElements
<1>2. Paying(s)[k] = paid  BY DEF Paying
<1>3. paid.event_cycle = 1 /\ (s[k].event_cycle = 1 => paid = s[k])  BY <1>1 DEF Decode
<1>4. s[k].event_cycle = 0 \/ s[k].event_cycle = 1  BY <1>1 DEF Decode
<1> HIDE DEF paid
<1> QED  BY <1>2, <1>3, <1>4

\* What is dispatched passes on; a scan that dispatches nothing makes an entry pay.
LEMMA DispatchChange ==
  ASSUME FrontEndInv, FrontEndInv', Counts, Countable, NEW n \in 0 .. DECODE_SIZE, DecodeAndDispatch(n)
  PROVE  /\ n \in Nat
         /\ n > 0 => Change(0, 0, 0, 0, 0, 0, 0, 0, -n, 0, n, 0, 0, 0)
         /\ n = 0 => Change(0, 0, 0, 0, 0, 0, 0, 0, 0, -1, 0, 0, 0, 0)
<1>1. /\ read' = read /\ prog' = prog /\ IFETCH_BUFFER' = IFETCH_BUFFER /\ completed' = completed
      /\ itlb' = itlb /\ itlbDone' = itlbDone /\ l1i' = l1i /\ l1iDone' = l1iDone
  BY DEF DecodeAndDispatch, cacheVars
<1>2. /\ n \in Nat /\ n =< Len(DECODE_BUFFER)
      /\ Len(ROB') = Len(ROB) + n /\ Len(DECODE_BUFFER') = Len(DECODE_BUFFER) - n
  BY DispatchLengths
<1>3. \A k \in 1 .. Len(DECODE_BUFFER') :
        DECODE_BUFFER'[k].event_cycle = 0 => DECODE_BUFFER[n + k].event_cycle = 0
  BY DispatchLengths
<1>4. /\ DOMAIN DECODE_BUFFER' = 1 .. Len(DECODE_BUFFER')
      /\ DOMAIN DECODE_BUFFER = 1 .. Len(DECODE_BUFFER) /\ Len(DECODE_BUFFER) \in Nat
      /\ DECODE_BUFFER \in Seq(Decode) /\ DECODE_BUFFER' \in Seq(Decode) /\ Len(ROB) \in Nat
  <2>1. DECODE_BUFFER' \in Seq(Decode) /\ DECODE_BUFFER \in Seq(Decode)  BY DEF FrontEndInv, Typed
  <2> QED  BY <2>1, SeqElements, Facts
<1>5. Unpaid' \in SUBSET Nat /\ \A k \in Unpaid' : n + k \in Unpaid
  <2> SUFFICES ASSUME NEW k \in Unpaid' PROVE k \in Nat /\ n + k \in Unpaid  OBVIOUS
  <2>1. k \in 1 .. Len(DECODE_BUFFER') /\ DECODE_BUFFER'[k].event_cycle = 0
    BY <1>4 DEF Unpaid
  <2>2. k \in Nat /\ n + k \in DOMAIN DECODE_BUFFER  BY <1>2, <1>4, <2>1
  <2> QED  BY <1>3, <2>1, <2>2 DEF Unpaid
<1>6. ToDecode' =< ToDecode
  <2>1. Cardinality(Unpaid') =< Cardinality(Unpaid)  BY <1>2, <1>5, Shifted DEF Countable
  <2> QED  BY <2>1, CountsAre
<1>7. ToTranslate' = ToTranslate /\ ToFetch' = ToFetch
  BY <1>1 DEF ToTranslate, ToFetch, Entries
<1>8. fetch_stall' = fetch_stall /\ warmup_complete' = warmup_complete
  BY DEF DecodeAndDispatch, stallVars
<1>9. One(fetch_stall)' =< One(fetch_stall) + 0  BY <1>8 DEF One
<1>10. One(~warmup_complete)' =< One(~warmup_complete) + 0  BY <1>8 DEF One
<1>11. Change(0, 0, 0, 0, 0, 0, 0, 0, -n, 0, n, 0, 0, 0)
  <2>1. Len(ROB') =< Len(ROB) + n /\ Len(DECODE_BUFFER') =< Len(DECODE_BUFFER) + (-n)
    BY <1>2, <1>4
  <2> QED  BY ONLY <1>1, <1>6, <1>7, <1>9, <1>10, <2>1, Counts DEF Counts, Change
<1>12. CASE n = 0
  <2>1. Len(DECODE_BUFFER') = Len(DECODE_BUFFER) /\ Len(ROB') = Len(ROB)  BY <1>2, <1>4, <1>12
  <2>2. DECODE_BUFFER' # DECODE_BUFFER  BY DEF DecodeAndDispatch
  <2>3. PICK k \in DOMAIN DECODE_BUFFER : DECODE_BUFFER'[k] # DECODE_BUFFER[k]
    BY <1>4, <2>1, <2>2, SeqEqual
  <2>4. k \in Unpaid /\ k \notin Unpaid'
    <3>1. DECODE_BUFFER' = Paying(DECODE_BUFFER)
      <4>1. SubSeq(DECODE_BUFFER, 1, Len(DECODE_BUFFER)) = DECODE_BUFFER
        BY <1>4, SubSeqFull
      <4>2. n + 1 = 1  BY <1>12
      <4> QED  BY <4>1, <4>2 DEF DecodeAndDispatch
    <3>2. DECODE_BUFFER[k].event_cycle = 0 /\ DECODE_BUFFER'[k].event_cycle = 1
      BY <1>4, <2>3, <3>1, PayingPays
    <3> QED  BY <3>2 DEF Unpaid
  <2>5. Unpaid' \subseteq Unpaid
    <3>1. ASSUME NEW j \in Unpaid' PROVE j \in Unpaid
      <4>1. 0 + j \in Unpaid /\ j \in Nat  BY <1>5, <1>12
      <4> QED  BY <4>1
    <3> QED  BY <3>1
  <2>6. ToDecode' =< ToDecode + (-1)
    <3>1. Cardinality(Unpaid') =< Cardinality(Unpaid) - 1  BY <2>4, <2>5, OneLess DEF Countable
    <3> QED  BY <3>1, CountsAre DEF Counts
  <2>7. Change(0, 0, 0, 0, 0, 0, 0, 0, 0, -1, 0, 0, 0, 0)
    BY ONLY <1>1, <1>7, <1>9, <1>10, <2>1, <2>6, Counts DEF Counts, Change
  <2> QED  BY <1>2, <1>12, <2>7
<1>13. CASE n # 0  BY <1>2, <1>11, <1>13
<1> QED  BY <1>12, <1>13

\* An instruction executes.
LEMMA CompleteExecutionChange ==
  ASSUME FrontEndInv, Counts, Countable, NEW id \in Ids, CompleteExecution(id)
  PROVE  Change(0, 0, 0, 0, 0, 0, 0, 0, 0, 0, 0, 1, 0, 0)
<1>1. /\ read' = read /\ prog' = prog /\ IFETCH_BUFFER' = IFETCH_BUFFER
      /\ DECODE_BUFFER' = DECODE_BUFFER /\ ROB' = ROB
      /\ itlb' = itlb /\ itlbDone' = itlbDone /\ l1i' = l1i /\ l1iDone' = l1iDone
  BY DEF CompleteExecution, cacheVars
<1>2. id \notin completed /\ completed' = completed \cup {id}  BY DEF CompleteExecution
<1>3. Cardinality(completed') >= Cardinality(completed) + 1
  <2>1. Cardinality(completed') = Cardinality(completed) + 1 /\ Cardinality(completed) \in Nat
    BY <1>2, FS_AddElement, FS_CardinalityType DEF Countable
  <2> QED  BY <2>1
<1>4. ToDecode' = ToDecode /\ ToTranslate' = ToTranslate /\ ToFetch' = ToFetch
  BY <1>1 DEF ToDecode, ToTranslate, ToFetch, Entries
<1>5. fetch_stall' = fetch_stall /\ warmup_complete' = warmup_complete  BY DEF CompleteExecution
<1>6. One(fetch_stall)' =< One(fetch_stall) + 0  BY <1>5 DEF One
<1>7. One(~warmup_complete)' =< One(~warmup_complete) + 0  BY <1>5 DEF One
<1> QED  BY ONLY <1>1, <1>3, <1>4, <1>6, <1>7, Counts DEF Counts, Change

\* An instruction retires.
LEMMA RetireRobChange ==
  ASSUME FrontEndInv, Counts, Countable, RetireRob
  PROVE  Change(0, 0, 0, 0, 0, 0, 0, 0, 0, 0, -1, -1, 0, 0)
<1>1. /\ read' = read /\ prog' = prog /\ IFETCH_BUFFER' = IFETCH_BUFFER
      /\ DECODE_BUFFER' = DECODE_BUFFER
      /\ itlb' = itlb /\ itlbDone' = itlbDone /\ l1i' = l1i /\ l1iDone' = l1iDone
  BY DEF RetireRob, cacheVars
<1>2. Head(ROB) \in completed /\ completed' = completed \ {Head(ROB)}  BY DEF RetireRob
<1>3. Cardinality(completed') >= Cardinality(completed) + (-1)
  <2>1. Cardinality(completed') = Cardinality(completed) - 1 /\ Cardinality(completed) \in Nat
    BY <1>2, FS_RemoveElement, FS_CardinalityType DEF Countable
  <2> QED  BY <2>1
<1>8. Len(ROB') =< Len(ROB) + (-1)  BY RetireLengths, Facts
<1>4. ToDecode' = ToDecode /\ ToTranslate' = ToTranslate /\ ToFetch' = ToFetch
  BY <1>1 DEF ToDecode, ToTranslate, ToFetch, Entries
<1>5. fetch_stall' = fetch_stall /\ warmup_complete' = warmup_complete  BY DEF RetireRob
<1>6. One(fetch_stall)' =< One(fetch_stall) + 0  BY <1>5 DEF One
<1>7. One(~warmup_complete)' =< One(~warmup_complete) + 0  BY <1>5 DEF One
<1> QED  BY ONLY <1>1, <1>3, <1>4, <1>6, <1>7, <1>8, Counts DEF Counts, Change

\* The warm-up ends once.
LEMMA FinishWarmupChange ==
  ASSUME Counts, FinishWarmup
  PROVE  Change(0, 0, 0, 0, 0, 0, 0, 0, 0, 0, 0, 0, 0, -1)
<1>1. /\ read' = read /\ prog' = prog /\ IFETCH_BUFFER' = IFETCH_BUFFER
      /\ DECODE_BUFFER' = DECODE_BUFFER /\ ROB' = ROB /\ completed' = completed
      /\ itlb' = itlb /\ itlbDone' = itlbDone /\ l1i' = l1i /\ l1iDone' = l1iDone
  BY DEF FinishWarmup, cacheVars, backVars
<1>2. ToDecode' = ToDecode /\ ToTranslate' = ToTranslate /\ ToFetch' = ToFetch
  BY <1>1 DEF ToDecode, ToTranslate, ToFetch, Entries
<1>3. fetch_stall' = fetch_stall /\ ~warmup_complete /\ warmup_complete' = TRUE
  BY DEF FinishWarmup, stallVars
<1>4. One(fetch_stall)' =< One(fetch_stall) + 0  BY <1>3 DEF One
<1>5. One(~warmup_complete)' =< One(~warmup_complete) + (-1)
  <2>1. One(~warmup_complete) = 1 /\ One(~warmup_complete)' = 0  BY <1>3 DEF One
  <2> QED  BY <2>1
<1> QED  BY ONLY <1>1, <1>2, <1>4, <1>5, Counts DEF Counts, Change

\* Every step but the last, which changes nothing, uses work up.
LEMMA StepLess ==
  ASSUME FrontEndInv, FrontEndInv', Counts, Counts', Countable, Next
  PROVE  UNCHANGED vars \/ Less
<1>0. IFETCH_SIZE \in Nat  BY SizesType
<1>1. CASE ReadFromTrace
  <2>1. Change(-1, 1, 1, 1, 0, 0, 0, 0, 0, 0, 0, 0, 1, 0)  BY <1>1, ReadFromTraceChange
  <2>2. Saves(-1, 1, 1, 1, 0, 0, 0, 0, 0, 0, 0, 0, 1, 0)  BY DEF Saves, Integral
  <2> QED  BY <2>1, <2>2, SavingIsLess
<1>2. CASE ResumeFetch
  <2>1. Change(0, 0, 0, 0, 0, 0, 0, 0, 0, 0, 0, 0, -1, 0)  BY <1>2, ResumeFetchChange
  <2>2. Saves(0, 0, 0, 0, 0, 0, 0, 0, 0, 0, 0, 0, -1, 0)  BY DEF Saves, Integral
  <2> QED  BY <2>1, <2>2, SavingIsLess
<1>3. CASE Translate
  <2>1. Change(0, 0, -1, 0, 1, 0, 0, 0, 0, 0, 0, 0, 0, 0)
    BY <1>3, RequestTranslationChange DEF Translate
  <2>2. Saves(0, 0, -1, 0, 1, 0, 0, 0, 0, 0, 0, 0, 0, 0)  BY DEF Saves, Integral
  <2> QED  BY <2>1, <2>2, SavingIsLess
<1>4. CASE Fetch
  <2>1. Change(0, 0, 0, -1, 0, 0, 1, 0, 0, 0, 0, 0, 0, 0)  BY <1>4, RequestLineChange DEF Fetch
  <2>2. Saves(0, 0, 0, -1, 0, 0, 1, 0, 0, 0, 0, 0, 0, 0)  BY DEF Saves, Integral
  <2> QED  BY <2>1, <2>2, SavingIsLess
<1>5. CASE SendToDecode
  <2>1. Change(0, -1, 0, 0, 0, 0, 0, 0, 1, 1, 0, 0, 0, 0)  BY <1>5, SendToDecodeChange
  <2>2. Saves(0, -1, 0, 0, 0, 0, 0, 0, 1, 1, 0, 0, 0, 0)  BY DEF Saves, Integral
  <2> QED  BY <2>1, <2>2, SavingIsLess
<1>6. CASE \E page \in Pages : ItlbAnswers(page)
  <2>1. Change(0, 0, 0, 0, -1, 1, 0, 0, 0, 0, 0, 0, 0, 0)  BY <1>6, CacheAnswersChange
  <2>2. Saves(0, 0, 0, 0, -1, 1, 0, 0, 0, 0, 0, 0, 0, 0)  BY DEF Saves, Integral
  <2> QED  BY <2>1, <2>2, SavingIsLess
<1>7. CASE \E line \in Lines : L1iAnswers(line)
  <2>1. Change(0, 0, 0, 0, 0, 0, -1, 1, 0, 0, 0, 0, 0, 0)  BY <1>7, CacheAnswersChange
  <2>2. Saves(0, 0, 0, 0, 0, 0, -1, 1, 0, 0, 0, 0, 0, 0)  BY DEF Saves, Integral
  <2> QED  BY <2>1, <2>2, SavingIsLess
<1>8. CASE CompleteTranslation
  <2>1. Change(0, 0, 0, IFETCH_SIZE, 0, -1, 0, 0, 0, 0, 0, 0, 0, 0)
    BY <1>8, CompleteTranslationChange
  <2>2. Saves(0, 0, 0, IFETCH_SIZE, 0, -1, 0, 0, 0, 0, 0, 0, 0, 0)  BY <1>0 DEF Saves, Integral
  <2> QED  BY <1>0, <2>1, <2>2, SavingIsLess
<1>9. CASE CompleteFetch
  <2>1. Change(0, 0, 0, 0, 0, 0, 0, -1, 0, 0, 0, 0, 0, 0)  BY <1>9, CompleteFetchChange
  <2>2. Saves(0, 0, 0, 0, 0, 0, 0, -1, 0, 0, 0, 0, 0, 0)  BY DEF Saves, Integral
  <2> QED  BY <2>1, <2>2, SavingIsLess
<1>10. CASE Dispatch
  <2>1. PICK n \in 0 .. DECODE_SIZE : DecodeAndDispatch(n)  BY <1>10 DEF Dispatch
  <2>2. /\ n \in Nat
        /\ n > 0 => Change(0, 0, 0, 0, 0, 0, 0, 0, -n, 0, n, 0, 0, 0)
        /\ n = 0 => Change(0, 0, 0, 0, 0, 0, 0, 0, 0, -1, 0, 0, 0, 0)
    BY <2>1, DispatchChange
  <2>3. CASE n > 0
    <3>1. Change(0, 0, 0, 0, 0, 0, 0, 0, -n, 0, n, 0, 0, 0)  BY <2>2, <2>3
    <3>2. Saves(0, 0, 0, 0, 0, 0, 0, 0, -n, 0, n, 0, 0, 0)  BY <2>2, <2>3 DEF Saves, Integral
    <3> QED  BY <2>2, <2>3, <3>1, <3>2, SavingIsLess
  <2>4. CASE n = 0
    <3>1. Change(0, 0, 0, 0, 0, 0, 0, 0, 0, -1, 0, 0, 0, 0)  BY <2>2, <2>4
    <3>2. Saves(0, 0, 0, 0, 0, 0, 0, 0, 0, -1, 0, 0, 0, 0)  BY DEF Saves, Integral
    <3> QED  BY <3>1, <3>2, SavingIsLess
  <2> QED  BY <2>2, <2>3, <2>4
<1>11. CASE \E id \in Ids : CompleteExecution(id)
  <2>1. Change(0, 0, 0, 0, 0, 0, 0, 0, 0, 0, 0, 1, 0, 0)  BY <1>11, CompleteExecutionChange
  <2>2. Saves(0, 0, 0, 0, 0, 0, 0, 0, 0, 0, 0, 1, 0, 0)  BY DEF Saves, Integral
  <2> QED  BY <2>1, <2>2, SavingIsLess
<1>12. CASE RetireRob
  <2>1. Change(0, 0, 0, 0, 0, 0, 0, 0, 0, 0, -1, -1, 0, 0)  BY <1>12, RetireRobChange
  <2>2. Saves(0, 0, 0, 0, 0, 0, 0, 0, 0, 0, -1, -1, 0, 0)  BY DEF Saves, Integral
  <2> QED  BY <2>1, <2>2, SavingIsLess
<1>13. CASE FinishWarmup
  <2>1. Change(0, 0, 0, 0, 0, 0, 0, 0, 0, 0, 0, 0, 0, -1)  BY <1>13, FinishWarmupChange
  <2>2. Saves(0, 0, 0, 0, 0, 0, 0, 0, 0, 0, 0, 0, 0, -1)  BY DEF Saves, Integral
  <2> QED  BY <2>1, <2>2, SavingIsLess
<1>14. CASE TraceEnds  BY <1>14 DEF TraceEnds
<1> QED
  BY <1>1, <1>2, <1>3, <1>4, <1>5, <1>6, <1>7, <1>8, <1>9, <1>10, <1>11, <1>12, <1>13, <1>14
  DEF Next

\* An answer of the ITLB outweighs what it can set going.
LEMMA Weighing ==
  ASSUME NEW a \in Nat, NEW o \in Nat, NEW p \in Nat, NEW s \in Nat, NEW t \in Nat,
         \/ p =< o /\ t < s
         \/ p < o /\ t =< s + a
  PROVE  (a + 1) * p + t \in Nat /\ (a + 1) * p + t < (a + 1) * o + s
<1>1. PICK d \in Nat : o = p + d /\ (d = 0 => t < s) /\ (d # 0 => t < s + a + 1)
  <2>1. o - p \in Nat /\ o = p + (o - p)  OBVIOUS
  <2> QED  BY <2>1
<1>2. (a + 1) * o = (a + 1) * p + (a + 1) * d  BY <1>1
<1>3. (a + 1) * p \in Nat /\ (a + 1) * d \in Nat  OBVIOUS
<1>4. d = 0 \/ (a + 1) * d >= a + 1
  <2>1. CASE d = 0  BY <2>1
  <2>2. CASE d # 0
    <3>1. d - 1 \in Nat /\ (a + 1) * (d - 1) \in Nat  BY <2>2
    <3>2. (a + 1) * d = (a + 1) * (d - 1) + (a + 1)  BY <2>2
    <3> QED  BY <3>1, <3>2
  <2> QED  BY <2>1, <2>2
<1> QED  BY <1>1, <1>2, <1>3, <1>4

\* The amounts are numbers.
LEMMA Amounts ==
  ASSUME Counts
  PROVE  Owed \in Nat /\ Steps \in Nat
<1>1. Len(prog) - read \in Nat  BY DEF Counts
<1>2. ToTranslate \in Nat /\ Cardinality(itlb) \in Nat /\ Len(itlbDone) \in Nat  BY DEF Counts
<1>3. /\ Len(IFETCH_BUFFER) \in Nat /\ ToFetch \in Nat /\ Cardinality(l1i) \in Nat
      /\ Len(l1iDone) \in Nat /\ Len(DECODE_BUFFER) \in Nat /\ ToDecode \in Nat
  BY DEF Counts
<1>4. 2 * Len(ROB) - Cardinality(completed) \in Nat  BY DEF Counts
<1>5. One(fetch_stall) \in Nat /\ One(~warmup_complete) \in Nat  BY DEF One
<1> DEFINE P == Len(prog) - read
           I == Len(IFETCH_BUFFER)
           C == Cardinality(itlb)
           L == Cardinality(l1i)
           M == Len(l1iDone)
           B == Len(DECODE_BUFFER)
           R == 2 * Len(ROB) - Cardinality(completed)
           S == One(fetch_stall)
           W == One(~warmup_complete)
<1>6. Owed \in Nat  BY <1>1, <1>2 DEF Owed
<1>7. /\ P \in Nat /\ I \in Nat /\ ToTranslate \in Nat /\ ToFetch \in Nat /\ C \in Nat /\ L \in Nat
      /\ M \in Nat /\ B \in Nat /\ ToDecode \in Nat /\ R \in Nat /\ S \in Nat /\ W \in Nat
  BY <1>1, <1>2, <1>3, <1>4, <1>5
<1>8. Steps = 12 * P + 5 * I + 2 * ToTranslate + 3 * ToFetch + C + 2 * L + M + 3 * B + ToDecode
              + R + S + W
  BY DEF Steps
<1> HIDE DEF P, I, C, L, M, B, R, S, W
<1>9. Steps \in Nat  BY ONLY <1>7, <1>8
<1> QED  BY <1>6, <1>9

(* No livelock, for every trace and every size of the buffers: every step of a *)
(* handler or a cache uses work up, so there are finitely many.  Requests that *)
(* mark several entries, answers that come twice and translations that make    *)
(* entries fetch again never keep each other going.                            *)
THEOREM WorkShrinksCorrect == Spec => WorkShrinks
<1> DEFINE Amount == Owed \in Nat /\ Steps \in Nat
           I == FrontEndInv /\ Counts /\ Countable /\ Amount
<1>1. Init => Finite  BY FS_EmptySet DEF Init, Finite
<1>2. Finite /\ [Next]_vars => Finite'  BY FiniteKept
<1>3. FrontEndInv /\ Finite => I  BY Counted, Amounts
<1>4. I /\ I' /\ [Next]_vars => [Work' \in Nat /\ Work' < Work]_vars
  <2> SUFFICES ASSUME I, I', Next, ~UNCHANGED vars PROVE Work' \in Nat /\ Work' < Work
    OBVIOUS
  <2>1. Less  BY StepLess
  <2> DEFINE a == 3 * IFETCH_SIZE
  <2>2. a \in Nat  BY SizesType
  <2>3. Work = (a + 1) * Owed + Steps /\ Work' = (a + 1) * Owed' + Steps'  BY DEF Work
  <2>4. \/ Owed' =< Owed /\ Steps' < Steps
        \/ Owed' < Owed /\ Steps' =< Steps + a
    BY <2>1 DEF Less
  <2>5. Owed \in Nat /\ Steps \in Nat /\ Owed' \in Nat /\ Steps' \in Nat  OBVIOUS
  <2> HIDE DEF a
  <2> QED  BY ONLY <2>2, <2>3, <2>4, <2>5, Weighing
<1> HIDE DEF I
<1> QED  BY <1>1, <1>2, <1>3, <1>4, Inductive, PTL DEF Spec, WorkShrinks
===============================================================================
