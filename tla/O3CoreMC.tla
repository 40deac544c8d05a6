------------------------------- MODULE O3CoreMC -------------------------------
(* Instances of O3Core for TLC: registers 1 and 2, addresses "x", "y" and   *)
(* "z", two hardware threads.                                                  *)
EXTENDS O3Core

Op(src, dst, ld, st) == [src |-> src, dst |-> dst, ld |-> ld, st |-> st, asid |-> 0]
Other(ins) == [ins EXCEPT !.asid = 1]

Inc   == Op(<<1>>, <<1>>, <<>>, <<>>)                 \* r1 := r1 + 1
Add   == Op(<<1, 2>>, <<1>>, <<>>, <<>>)              \* r1 := r1 + r2
Load  == Op(<<2>>, <<1>>, <<"x">>, <<>>)              \* r1 := mem[x]
Load2 == Op(<<>>, <<2>>, <<"x", "y">>, <<>>)          \* r2 := mem[x] + mem[y]
Load3 == Op(<<1>>, <<2>>, <<"x", "y", "z">>, <<>>)      \* three loads
Store == Op(<<1>>, <<>>, <<>>, <<"x">>)               \* mem[x] := r1
Store2 == Op(<<>>, <<>>, <<>>, <<"y", "z">>)          \* two stores
Swap  == Op(<<1>>, <<1>>, <<"y">>, <<"y">>)           \* exchange r1, mem[y]

\* Dependences of every kind, more instructions than reorder-buffer entries, more
\* loads and stores in flight than queue entries, two threads.
MCLong == {
  <<Load3, Add, Load, Store, Inc, Load2>>,
  <<Store, Load, Load2, Swap, Inc, Add>>,
  <<Store2, Inc, Swap, Add, Inc, Store2>>,
  <<Load, Store, Store2, Load2, Inc, Store>>,
  <<Inc, Other(Inc), Store, Other(Load), Add, Other(Store)>>,
  <<Other(Load2), Load, Inc, Add, Store2, Load2>> }

\* Every program of four instructions, one more than the reorder buffer holds.
MCEvery == [1 .. 4 -> {Add, Load, Store, Swap}]

\* Three instructions that wait for a load, with six stores for the four places of STA.
StoreBoth == Op(<<1>>, <<>>, <<>>, <<"y", "z">>)
MCStores == { <<Load, StoreBoth, StoreBoth, StoreBoth>> }

MCPrograms == MCEvery \cup MCLong \cup MCStores
===============================================================================
