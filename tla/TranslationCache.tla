-------------------------- MODULE TranslationCache --------------------------
(***************************************************************************)
(* What a second-level TLB promises its clients, whatever its organisation. *)
(*                                                                          *)
(* `answer[v]` is the translation the TLB would return for the virtual page *)
(* v if it were asked now, or NoFrame when it would miss.  The promise is   *)
(* that an answer is the current content of the page table: a mapping may   *)
(* be forgotten at any time, but the mapping of a page that is swapped out  *)
(* leaves the TLB in the very step that takes the frame away, and the step  *)
(* that completes a walk makes the walked page answerable.                  *)
(***************************************************************************)
EXTENDS Integers

CONSTANTS
  Pages,     \* virtual page numbers
  Frames,    \* physical page numbers
  NoFrame    \* "not mapped" / "miss"

VARIABLES
  pageTable, \* the simulator's page_table
  answer     \* the translation a lookup would return

absVars == <<pageTable, answer>>

AbsInit ==
  /\ pageTable = [v \in Pages |-> NoFrame]
  /\ answer = [v \in Pages |-> NoFrame]

\* An answer may only be kept, forgotten, or loaded from the page table.
FromPageTable == \A v \in Pages : answer'[v] \in {answer[v], NoFrame, pageTable[v]}

\* A walk for v finds it mapped, or gives it a frame that nobody uses, or takes
\* the frame of a victim, whose translation is forgotten in the same step.
Map(v, f) ==
  /\ pageTable[v] = NoFrame
  /\ \A u \in Pages : pageTable[u] # f
  /\ pageTable' = [pageTable EXCEPT ![v] = f]
  /\ UNCHANGED answer

Swap(v, victim) ==
  /\ pageTable[v] = NoFrame
  /\ pageTable[victim] # NoFrame
  /\ pageTable' = [pageTable EXCEPT ![v] = pageTable[victim], ![victim] = NoFrame]
  /\ answer' = [answer EXCEPT ![victim] = NoFrame]

\* The completion of a walk for v.
Complete(v) ==
  /\ FromPageTable
  /\ answer'[v] = pageTable[v]
  /\ UNCHANGED pageTable

AbsNext ==
  \/ \E v \in Pages, f \in Frames : Map(v, f)
  \/ \E v, victim \in Pages : Swap(v, victim)
  \/ \E v \in Pages : Complete(v)

AbsSpec == AbsInit /\ [][AbsNext]_absVars
=============================================================================
