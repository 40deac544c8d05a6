------------------------------ MODULE PrefetchQueue ------------------------------
(* The STLB prefetch queue, PACKET_QUEUE PQ of the STLB (src/block.cc,         *)
(* CACHE::prefetch_page and add_pq of src/cache.cc): cells with holes.         *)
EXTENDS Integers, FiniteSets, FiniteSetsExt

CONSTANTS
  PqSize,    \* STLB_PQ_SIZE
  Never      \* event_cycle of an empty packet, later than every cycle

ASSUME QueueAssumption == PqSize \in Nat \ {0} /\ Never \in Nat

Cells     == 0 .. PqSize - 1
NoCell    == -1
EmptyCell == [page |-> 0, frame |-> 0, since |-> Never, raced |-> FALSE]
EmptyQueue == [entry |-> [c \in Cells |-> EmptyCell], head |-> 0, tail |-> 0, occupancy |-> 0]

Holders(q, page) == {c \in Cells : q.entry[c].page = page}

(* check_queue_vpn: the first cell that holds the page.                        *)
CheckVpn(q, page) ==
  IF (q.head = q.tail /\ q.occupancy = 0) \/ Holders(q, page) = {} THEN NoCell
  ELSE Min(Holders(q, page))

NewestCell(q) ==     \* variant: the last event
  LET held == Cells \ Holders(q, 0)
  IN IF held = {} THEN 0
     ELSE Min({c \in held : \A x \in held : q.entry[x].since =< q.entry[c].since})

(* The cell remove_queue_lru evicts: the earliest event, the first on a tie.   *)
OldestCell(q) == Min({c \in Cells : \A x \in Cells : q.entry[c].since =< q.entry[x].since})

RemoveLru(q) ==
  IF q.entry[OldestCell(q)].since = Never THEN q
  ELSE [q EXCEPT !.entry[OldestCell(q)] = EmptyCell, !.occupancy = @ - 1]

(* update_tail: to the first hole; without one it stays.                       *)
UpdateTail(q) == IF Holders(q, 0) = {} THEN q ELSE [q EXCEPT !.tail = Min(Holders(q, 0))]

Wrapped(i) == IF i >= PqSize THEN 0 ELSE i

(* add_pq of a page that is not queued; a full queue refuses it.               *)
AddPq(q, e) ==
  LET at == UpdateTail(q)
  IN IF q.occupancy = PqSize THEN q
     ELSE [at EXCEPT !.entry[at.tail] = e, !.occupancy = @ + 1, !.tail = Wrapped(@ + 1)]

(* What prefetch_page does to the queue.                                       *)
Prefetched(q, e) ==
  IF CheckVpn(q, e.page) # NoCell THEN q
  ELSE AddPq(IF q.occupancy = PqSize THEN RemoveLru(q) ELSE q, e)

(* remove_queue_prefetch of a cell: a demand miss takes its translation.       *)
Taken(q, c) ==
  [q EXCEPT !.entry[c] = EmptyCell, !.occupancy = @ - 1,
            !.head = Wrapped((IF q.head = q.tail THEN c ELSE @) + 1),
            !.tail = IF q.head = q.tail THEN c ELSE @]

Waiting(q) == {q.entry[c] : c \in Cells \ Holders(q, 0)}
===============================================================================
