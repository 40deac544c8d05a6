------------------------------- MODULE Dataflow -------------------------------
(* What an out-of-order core promises a program: an instruction takes effect   *)
(* only after every instruction it needs something from, and instructions      *)
(* leave the machine in program order, each exactly once.  How a core finds    *)
(* the needs (reorder buffer, dependence lists, queues) is not said here.      *)
EXTENDS Integers, Sequences

CONSTANT Needs(_, _)    \* Needs(prog, i): the earlier instructions i waits for

VARIABLES
  prog,        \* the program, a sequence of instructions
  executed,    \* the instructions that have taken effect
  retired      \* how many instructions have left, in program order

vars == <<prog, executed, retired>>

Init ==
  /\ executed = {}
  /\ retired = 0

Ready(i) == i \notin executed /\ Needs(prog, i) \subseteq executed

Execute(i) ==
  /\ Ready(i)
  /\ executed' = executed \cup {i}
  /\ UNCHANGED <<prog, retired>>

Retire ==
  /\ retired < Len(prog)
  /\ retired + 1 \in executed
  /\ retired' = retired + 1
  /\ UNCHANGED <<prog, executed>>

Next == Retire \/ \E i \in 1..Len(prog) : Execute(i)

Spec == Init /\ [][Next]_vars
===============================================================================
