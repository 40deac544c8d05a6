---------------------------------- MODULE Tirip ----------------------------------
(* T-IRIP v2, the tagged history tables that                                   *)
(* prefetcher/morriganPT_tage2.stlb_pref puts before Morrigan's own tables.    *)
(* Table t is looked up under a key made of the missed page and the HLen[t]    *)
(* misses before it; it is trained one miss later, when the successor is       *)
(* known, under the key that was kept since then (pend).                       *)
EXTENDS MissStream, FiniteSets, FiniteSetsExt

CONSTANTS
  HLen,              \* TAGE_HLEN: the history length of each table
  MaxHist,           \* TAGE_MAX_HIST
  Rows, Ways,        \* geometry of a table
  Row(_, _, _),      \* tage_index and tage_tag: hashes of a partial page number
  Tag(_, _, _),      \* and the folded history, per table
  ConfMax,           \* TAGE_CONF_MAX; TAGE_CONF_THRESHOLD is 1
  UReset             \* TAGE_U_RESET

Tables == 1 .. Len(HLen)

ASSUME TiripAssumption ==
  /\ HLen \in Seq(Nat) /\ MaxHist \in Nat
  /\ \A t \in Tables : HLen[t] =< MaxHist
  /\ Rows # {} /\ Ways # {} /\ Ways \subseteq Nat
  /\ \A t \in Tables, p \in 0 .. TagSpan - 1 :
       \A c \in [1 .. HLen[t] -> 0 .. TagSpan - 1] :
         Row(t, p, c) \in Rows /\ Tag(t, p, c) \in Nat
  /\ {ConfMax, UReset} \subseteq Nat \ {0}

VARIABLES
  tht,               \* tht_h2, tht_h4, tht_h8
  history_reg,       \* partial page numbers of the last misses, newest first
  pend,              \* keys and prediction of the last miss (pend_*)
  alloc_since_reset  \* tage_alloc_since_reset

tiripVars == <<tht, history_reg, pend, alloc_since_reset>>

NoEntry == [valid |-> FALSE, tag |-> 0, delta |-> 0, confidence |-> 0,
            timestamp |-> 0, u |-> 0]
NoKey   == [ok |-> FALSE]
NoPrediction == [tab |-> 0, way |-> 0, delta |-> 0]

--------------------------------------------------------------------------------
(* Keys *)

(* fold_history sees the first HLen[t] entries of the register.                *)
Context(t) == SubSeq(history_reg, 1, HLen[t])

(* tage_compute_keys: a table is eligible once the history is long enough.     *)
Keys(page) ==
  [t \in Tables |->
     IF Len(history_reg) < HLen[t] THEN NoKey
     ELSE [ok |-> TRUE, row |-> Row(t, PartialVpn(page), Context(t)),
           tag |-> Tag(t, PartialVpn(page), Context(t))]]

TrainingKeysRecomputed == Keys(previous_vpn)   \* variant: the page is in its own history

(* The keys replayed at training: those of the lookup (pend_idx, pend_tag).    *)
TrainingKeys == pend.keys

--------------------------------------------------------------------------------
(* Lookup *)

(* tage_search *)
Match(row, tag) == {w \in Ways : row[w].valid /\ row[w].tag = tag}

Entry(T, keys, t) == T[t][keys[t].row][Min(Match(T[t][keys[t].row], keys[t].tag))]

Provides(T, keys, t) ==
  /\ keys[t].ok
  /\ Match(T[t][keys[t].row], keys[t].tag) # {}
  /\ Entry(T, keys, t).confidence >= 1
  /\ Entry(T, keys, t).delta # 0

(* tage_lookup: the longest history that knows the page wins.                  *)
Lookup(T, keys) ==
  LET providers == {t \in Tables : Provides(T, keys, t)}
      t         == Max(providers)
  IN IF providers = {} THEN NoPrediction
     ELSE [tab |-> t, way |-> Min(Match(T[t][keys[t].row], keys[t].tag)),
           delta |-> Entry(T, keys, t).delta]

Stamped(e)           == [e EXCEPT !.timestamp = Now]
WithConfidence(e, c) == [e EXCEPT !.confidence = c]
WithUse(e, u)        == [e EXCEPT !.u = u]

Touched(T, keys, pred) ==
  IF pred.tab = 0 THEN T
  ELSE [T EXCEPT ![pred.tab][keys[pred.tab].row][pred.way] = Stamped(@)]

--------------------------------------------------------------------------------
(* Training *)

NewEntry(tag, delta) == [valid |-> TRUE, tag |-> tag, delta |-> delta,
                         confidence |-> 1, timestamp |-> Now, u |-> 0]

Strengthened(e) ==
  Stamped(WithConfidence(e, IF e.confidence < ConfMax THEN e.confidence + 1
                            ELSE e.confidence))

(* At confidence 1 the entry, which is valid, starts again with this distance. *)
Weakened(e, delta) ==
  IF e.confidence > 1 THEN Stamped(WithConfidence(e, e.confidence - 1))
  ELSE WithUse(NewEntry(e.tag, delta), e.u)

Retrained(e, delta) == IF e.delta = delta THEN Strengthened(e) ELSE Weakened(e, delta)

(* The entry that predicted is still there.                                    *)
Resident(T, keys, pred) ==
  /\ pred.tab # 0
  /\ keys[pred.tab].ok
  /\ T[pred.tab][keys[pred.tab].row][pred.way].valid
  /\ T[pred.tab][keys[pred.tab].row][pred.way].tag = keys[pred.tab].tag

Predicted(T, keys, pred, delta) == Resident(T, keys, pred) /\ pred.delta = delta

Credited(e, pred, delta) ==
  IF pred.delta = delta THEN WithUse(Strengthened(e), 1)
  ELSE WithUse(Weakened(e, delta), 0)

Judged(T, keys, pred, delta) ==
  IF ~Resident(T, keys, pred) THEN T
  ELSE [T EXCEPT ![pred.tab][keys[pred.tab].row][pred.way] = Credited(@, pred, delta)]

(* tage_lru_victim: the first invalid way, else the oldest useless one; none   *)
(* when every way is useful.                                                   *)
Victims(row) ==
  LET invalid == {w \in Ways : ~row[w].valid}
      useless == {w \in Ways : row[w].u = 0}
  IN IF invalid # {} THEN {Min(invalid)}
     ELSE {w \in useless : \A x \in useless :
             \/ row[w].timestamp < row[x].timestamp
             \/ row[w].timestamp = row[x].timestamp /\ w =< x}

(* tage_age_set *)
Aged(row) ==
  LET useful == {w \in Ways : row[w].u > 0}
  IN IF useful = {} THEN row ELSE [row EXCEPT ![Min(useful)] = WithUse(@, @.u - 1)]

InstallTwice(row, tag, delta) ==   \* variant: a known context gets a new entry
  [row EXCEPT ![Min(IF Victims(row) # {} THEN Victims(row) ELSE Match(row, tag))] =
     NewEntry(tag, delta)]

(* A context that is already there is retrained, else it replaces the victim.  *)
Claimed(row, tag, delta) ==
  IF Match(row, tag) # {} THEN [row EXCEPT ![Min(Match(row, tag))] = Retrained(@, delta)]
  ELSE [row EXCEPT ![Min(Victims(row))] = NewEntry(tag, delta)]

StartAtProvider(pred) == pred.tab   \* variant: only its own table learns

(* The table after the provider's, which has a longer history; table 1 without *)
(* a provider.                                                                 *)
StartTab(pred) == pred.tab + 1

(* The tables tage_update tries, and those of them that can take the context:  *)
(* it ends at the first of these.                                              *)
Tried(keys, start) == {t \in Tables : t >= start /\ keys[t].ok}
Takers(T, keys, start) ==
  {t \in Tried(keys, start) :
     \/ Match(T[t][keys[t].row], keys[t].tag) # {}
     \/ Victims(T[t][keys[t].row]) # {}}

Allocated(T, keys, start, delta) ==
  LET takers == Takers(T, keys, start)
  IN [t \in Tables |->
        IF t \notin Tried(keys, start) \/ \E x \in takers : x < t THEN T[t]
        ELSE [T[t] EXCEPT ![keys[t].row] =
                IF t \in takers THEN Claimed(@, keys[t].tag, delta) ELSE Aged(@)]]

AllUseless(T) ==
  [t \in Tables |-> [r \in Rows |-> [w \in Ways |-> WithUse(T[t][r][w], 0)]]]

(* tage_update: a right prediction is credited and ends it; otherwise one      *)
(* table gets the context, and every UReset such claims all are useless again  *)
(* (tage_maybe_reset_u).                                                       *)
Update(T, keys, pred, delta) ==
  LET judged == Judged(T, keys, pred, delta)
      start  == StartTab(pred)
      claims == Takers(judged, keys, start) # {}
      due    == claims /\ alloc_since_reset + 1 >= UReset
      after  == Allocated(judged, keys, start, delta)
  IN IF delta = 0 THEN tht' = T /\ UNCHANGED alloc_since_reset
     ELSE IF Predicted(T, keys, pred, delta)
     THEN tht' = judged /\ UNCHANGED alloc_since_reset
     ELSE /\ tht' = IF due THEN AllUseless(after) ELSE after
          /\ alloc_since_reset' = IF due THEN 0
                                  ELSE alloc_since_reset + (IF claims THEN 1 ELSE 0)

--------------------------------------------------------------------------------
TiripInit ==
  /\ tht = [t \in Tables |-> [r \in Rows |-> [w \in Ways |-> NoEntry]]]
  /\ history_reg = <<>>
  /\ pend = [keys |-> [t \in Tables |-> NoKey], pred |-> NoPrediction]
  /\ alloc_since_reset = 0

Pushed(page) == SubSeq(<<PartialVpn(page)>> \o history_reg, 1,
                       Min({Len(history_reg) + 1, MaxHist}))

(* The part of stlb_prefetcher_operate that is about the history tables.       *)
TiripOperate(page) ==
  LET keys == Keys(page)
      pred == Lookup(tht, keys)
      T    == Touched(tht, keys, pred)
  IN /\ IF misses = <<>> THEN tht' = T /\ UNCHANGED alloc_since_reset
        ELSE Update(T, TrainingKeys, pend.pred, Delta(page))
     /\ pend' = [keys |-> keys, pred |-> pred]
     /\ history_reg' = Pushed(page)

(* The page the tables ask to prefetch.                                        *)
TiripPredicts(page) ==
  LET pred == Lookup(tht, Keys(page))
  IN IF pred.tab = 0 THEN {} ELSE {page + pred.delta}

--------------------------------------------------------------------------------
TiripTypeOK ==
  /\ tht \in [Tables -> [Rows -> [Ways ->
       [valid : BOOLEAN, tag : Nat, delta : Int, confidence : 0 .. ConfMax,
        timestamp : Nat, u : {0, 1}]]]]
  /\ history_reg \in Seq(0 .. TagSpan - 1) /\ Len(history_reg) =< MaxHist
  /\ \A t \in Tables : pend.keys[t] \in {NoKey} \cup [ok : {TRUE}, row : Rows, tag : Nat]
  /\ pend.pred \in [tab : 0 .. Len(HLen), way : Ways \cup {0}, delta : Int]
  /\ alloc_since_reset \in 0 .. UReset - 1

(* What tage_search finds in a row is the only entry for its context, and it   *)
(* can predict: allocation retrains a context that is there rather than        *)
(* duplicating it.                                                             *)
ContextsUnique ==
  \A t \in Tables, r \in Rows : \A w \in Ways : tht[t][r][w].valid =>
    /\ tht[t][r][w].delta # 0 /\ tht[t][r][w].confidence >= 1
    /\ \A x \in Ways \ {w} : tht[t][r][x].valid => tht[t][r][x].tag # tht[t][r][w].tag

(* The key of the i-th miss in table t, and the misses before it.              *)
ContextAt(t, i) == [j \in 1 .. HLen[t] |-> PartialVpn(misses[i - j])]
LearnedAt(t, r, e, i) ==
  /\ r = Row(t, PartialVpn(misses[i]), ContextAt(t, i))
  /\ e.tag = Tag(t, PartialVpn(misses[i]), ContextAt(t, i))
  /\ e.delta = Observed(i)

(* An entry is where a lookup in its context looks, and says what once came    *)
(* after that context: training uses the key of the lookup (FIX #1), and a     *)
(* table is left alone until it has a full context (FIX #2).                   *)
TrainedByOccurrence ==
  \A t \in Tables, r \in Rows : \A w \in Ways : tht[t][r][w].valid =>
    \E i \in HLen[t] + 1 .. Len(misses) - 1 : LearnedAt(t, r, tht[t][r][w], i)

(* Table t tells the misses so far apart: what followed one context once has   *)
(* followed it always.                                                         *)
Determined(t) ==
  \A i, j \in HLen[t] + 1 .. Len(misses) - 1 :
    /\ Row(t, PartialVpn(misses[i]), ContextAt(t, i)) = Row(t, PartialVpn(misses[j]), ContextAt(t, j))
    /\ Tag(t, PartialVpn(misses[i]), ContextAt(t, i)) = Tag(t, PartialVpn(misses[j]), ContextAt(t, j))
    => Observed(i) = Observed(j)

(* A prediction from a table that tells the stream apart is right, also when   *)
(* it was made before the previous miss had been learned: the half of Learns   *)
(* that holds at every miss, of any stream.                                    *)
NeverMisled ==
  [][\A t \in Tables : pend.pred.tab = t /\ Determined(t)' =>
       Delta(misses'[Len(misses) + 1]) = pend.pred.delta]_misses

(* Such a table forgets only by eviction: an entry that keeps its way for its  *)
(* context keeps its distance and all its confidence, through the credit of a  *)
(* prediction, retraining, ageing and reset.                                   *)
NeverUnlearned ==
  [][\A t \in Tables : Determined(t)' =>
       \A r \in Rows, w \in Ways :
         tht[t][r][w].valid /\ tht'[t][r][w].tag = tht[t][r][w].tag
         => /\ tht'[t][r][w].valid /\ tht'[t][r][w].delta = tht[t][r][w].delta
            /\ tht'[t][r][w].confidence >= tht[t][r][w].confidence]_<<misses, tht>>
===============================================================================
