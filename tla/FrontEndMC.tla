------------------------------ MODULE FrontEndMC ------------------------------
(* Instances of FrontEnd for TLC. *)
EXTENDS FrontEnd

Ins(line, branch) == [page |-> IF line =< 2 THEN 1 ELSE 2, line |-> line, branch |-> branch]

\* Two lines of one page and a line of another, revisited; one or two branches.
MCPrograms == {
  <<Ins(1, FALSE), Ins(2, TRUE), Ins(1, FALSE), Ins(3, FALSE)>>,
  <<Ins(1, TRUE), Ins(3, TRUE), Ins(1, FALSE), Ins(1, FALSE)>>,
  <<Ins(2, FALSE), Ins(1, FALSE), Ins(2, FALSE), Ins(2, FALSE)>> }
===============================================================================
