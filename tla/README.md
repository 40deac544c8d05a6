# A TLA+ model of the artMorrigan ChampSim

The repository is ChampSim-SC, a cycle-driven simulator of an out-of-order core,
its caches and TLBs and a DRAM controller, extended with page-walk caches, the
Morrigan STLB prefetchers and a sectored ("block") STLB.  Paths below are
relative to `src/ChampSim-SC/`.  This directory holds TLA+ modules translated
from that code, TLC configurations that check them on small instances and TLAPS
proofs about them.

## 1. Inventory

The simulator is single-threaded, but behaves like a set of concurrent
components: in every cycle the main loop (`src/main.cc:2114-2240`) runs each
stage of the core, then the caches from the top down, then DRAM and LLC, and
every component reads queues that others filled in earlier cycles.  All
coupling is by direct calls: downwards `add_rq`, `add_wq`, `add_pq`, upwards
`return_data`, sideways `va_to_pa` and `invalidate_entry`.

| Component | Source | State | Operations | Hard part |
|---|---|---|---|---|
| Block STLB | `src/cache.cc:1565-2029`, `inc/cache.h` | `stlb_block[set][way]`: tag, slots with offset and frame, valid/accessed/prefilled masks, lru; eviction histograms | lookup, fill, invalidate, evict, reset, flush | overlapping walks, swaps, in-place replacement; statistics over resets |
| Page table | `src/main.cc:678-1441` | `page_table`, `inverse_table`, `allocated_pages` | map, allocate, swap out, walk through the caches, stall | a swap must reach every structure that caches the mapping |
| Cache miss protocol | `src/cache.cc:265-1435, 2041-2941` | RQ, WQ, PQ, MSHR, PROCESSED, blocks | handle_fill, handle_writeback, handle_read, handle_prefetch, add_*, return_data | merging of requests of several upper caches into one entry; full queues |
| DRAM controller | `src/dram_controller.cc` | RQ, WQ, bank_request, dbus_cycle_available, write_mode, scheduled_reads/writes | operate: switch mode, schedule, process | mode switches cancel accesses under way; three ways to answer a read |
| Page-walk caches | `src/cache.cc:143-254`, `src/main.cc:845-869` | PML4, PDP, PD arrays with time stamps | search, lru | tag 0 of cold entries, uninitialised tags of prefetch walks |
| First-level TLBs and STLB | `src/cache.cc`, `inc/cache.h` | ITLB, DTLB and STLB blocks, RQ, MSHR | handle_read, handle_fill, add_rq, return_data, invalidate_entry | one STLB for instructions and data; translations in flight when a frame is swapped |
| STLB prefetch queue, FCTB | `src/block.cc`, `src/cache.cc:17-117, 2421-2777` | 64 cells with holes; four-entry table of walks in progress | prefetch_page, check_queue_vpn, remove_queue_lru, search_fctb | head and tail against occupancy; pages of one line |
| Out-of-order core | `src/ooo_cpu.cc` | ROB, LQ, SQ, RTS, IFETCH/DECODE buffers | fetch, dispatch, schedule, execute, LSQ forwarding, retire | producer/consumer links, merged completions |
| Code prefetch | `src/ooo_cpu.cc:803-984` | L1I PQ | prefetch_code_line | its cross-page branch, which installs translations by hand, is never reached |
| Morrigan prefetcher | `prefetcher/morriganPT_tage2.stlb_pref` | history tables H2, H4, H8 with their miss history; successor tables S1 to S8; confidence | predict, train, allocate, promote, decay | training one miss after the lookup; entries that move between tables |
| LLC replacement | `replacement/*.llc_repl` | per-line counters, samplers | victim, update | saturation |
| Main loop | `src/main.cc` | cycle, warm-up and ROI flags | finish_warmup, reset_cache_stats, deadlock check | resets in mid-flight |
| Line prefetchers, branch predictors, trace reader, scripts | `prefetcher/*`, `branch/*`, tracer, `*.py` | | | heuristics or I/O, not modelled |

What makes each correct: the STLB answers only with current mappings; every
miss that somebody waits for is answered exactly once and eventually; a
modified line is not lost on its way down; bank, queue and counter of the DRAM
controller agree and transfers respect the bus; page table and inverse table
stay inverse to each other; the ROB retires in order and never hangs; tables
stay inside their counters.  `PROJECT.json` lists the hazards with their lines.

## 2. Plan

| Stage | Modules | Content |
|---|---|---|
| 1 (done) | `TranslationCache`, `StlbBlock`, `StlbBlockProofs` | the block STLB and its refinement of an abstract translation cache, proved |
| | `DramController`, `CacheHierarchy` | the DRAM controller; the miss protocol |
| | `Dataflow`, `O3Core`, `FrontEnd` | the ROB and LSQ and the dataflow order they implement; fetch and decode |
| | `PageWalk` | the four-level walk, the page-walk caches and the footprints |
| 2 (done) | `MissStream`, `Tirip`, `Irip`, `Morrigan`, `MorriganProofs` | the Morrigan prefetcher in its T-IRIP version 2; its safety proved, `SuccessorsKept`, `NeverMisled` and `NeverUnlearned` in stages 3 and 4 |
| | `PrefetchBuffer`, `PrefetchQueue`, `InstrTlb` | address translation end to end: the TLBs, the prefetch queue and the buffer it implements, the free-distance table, swaps |
| 3 (done) | `DramControllerProofs`, `FrontEndProofs`, `CacheHierarchyProofs`, `PageWalkProofs`, `InstrTlbProofs` | every safety property of the DRAM controller, the front end, the miss protocol, the page walk and address translation, with the refinement of `PrefetchBuffer`, proved |
| | `O3CoreInv`, `O3CoreProofs` | the core implements `Dataflow`; its counters, queues, store order and types, and when the assertion of its reader holds: the invariants and their proofs |
| open | `CoreMemory`, `LlcReplacement` | the core composed with `CacheHierarchy`, which decides whether PROCESSED can fill; replacement counters |

The project is kept to a dozen runs and forty checked properties, so what is added
takes the place of what is weaker: safety and liveness of a module share a run.

Every module to be proved about avoids RECURSIVE operators, names the
assumptions on its constants and keeps its invariants as conjunctions of parts.

## 3. Modules

### `TranslationCache` - what a TLB promises

Two variables, `pageTable` and `answer` (the translation a lookup would
return).  An answer may be forgotten at any time but may only come from the
page table; a swap takes away the victim's answer in the step that takes its
frame; the step that completes a walk makes its page answerable.

### `StlbBlock` - the sectored STLB

| TLA+ | code |
|---|---|
| `block[set][way]`, `lru[set][way]` | `stlb_block[set][way]` and its `lru` field |
| `Lookup`, `Hits`, `ReadHit` | `stlb_block_lookup` from `check_hit`, hit side of `handle_read` |
| `ReadMiss`, `VaToPa` | miss side of `handle_read`: new MSHR, then a prefetch-queue hit (instruction misses only) or `va_to_pa`: found, allocated, or swapped with `invalidate_entry` |
| `Fill` = `FillResident` or `FillBlock` | `handle_fill` -> `fill_cache` -> `stlb_block_fill`, CASE A and CASE B / detail |
| `NewEntry`, `Claims`, `Priority` | the slot-filling loops, as the order in which translations claim slots |
| `InvalidateBlock`, `CountEviction` | `stlb_block_invalidate`, `evict_stlb_block` |
| `ResetCacheStats`, `FlushStatCounters` | `reset_cache_stats`, `flush_stat_counters` |

The two modes are the constant `Sparsity`.  `get_set` masks with
`2^lg2(NUM_SET) - 1`, which for the powers of two that `inc/cache.h` configures
is the remainder `% NumSet` of the model.  `rand()` in the choice of an in-place
victim and `draw_rand` in the choice of a frame are nondeterministic choices.
The footprint of an L2C or LLC line is any member of `Footprints`: which one,
and whether the line is there, depends on the whole history of the caches.
Walk latency is abstracted: the fill happens any number of steps after the
miss.  The swap takes the lowest mapped page, because `recent_page` is never
filled (`src/main.cc:716-724`).

### `DramController` - one channel

`dram` is the controller's whole state; `Operate` is one call of
`MEMORY_CONTROLLER::operate`: `SwitchMode`, `Schedule`, `Process`, then
`NextCycle`.  Cycle numbers are relative to the current cycle; past ones are
renumbered in order, since only their order is compared, which makes the state
space finite without bounding time.  No time is further off than `Latency`, a row miss,
a transfer and four turn-arounds: before an access is transferred, the mode can change
four times.  `next_schedule_index` and
`next_process_index` are recomputed by the code after every change of their
queue and are the operators `Oldest` and `NextProcess`.  The clients are the
LLC (`LlcRead`, `LlcWrite`, after the room checks its handlers make) and the
page walker (`PtwRead`, `issue_ptw_dram_read`).  Before `FinishWarmup` reads are
answered at once and writes dropped.  `last` is a history variable for the bus
properties.

### `CacheHierarchy` - the miss protocol

L1I, L1D and L2C with queues, MSHRs and one set each.  Each action is one pass
of a handler for one packet or one MSHR entry: `HandleFill`, `HandleRead`,
`HandlePrefetch`, `HandleStore` (the L1D's `handle_writeback` of an RFO) and
`HandleWriteback` (the L2C's).  A handler that must wait (no MSHR, no room
below) is disabled.  The calls it makes on other caches (`add_rq`, `add_pq`,
`return_data`) are part of its step.  Latencies are left open, so a fill may
happen any time after `return_data` and packets wait any time in a queue: this
covers every latency configuration.  Replacement picks any way among the invalid
ones, else any way, which covers every policy.  `fill` is the pair of
`fill_l1i` / `fill_l1d` flags.  A fill of the L1D completes the loads merged into its
entry, one of the L1I every fetch of the line (`Filled`).  The environment issues demands, stores and
prefetches, and the LLC answers outstanding lines in any order.  A prefetch that starts
in the L2C never names the L1s as its fill level (no `.l2c_pref` does), and the read
queue of the L2C holds as many requests as the MSHRs of both L1 (`inc/cache.h`: 32 for 8
and 16); both are in `HierarchyAssumption`.

### `Dataflow` - what an out-of-order core promises

An instruction takes effect once, and only after every instruction it needs
something from; instructions leave in program order.  `O3Core` instantiates it
with `Needs`: the last older writer of each source register in the same thread,
and every older instruction that conflicts in memory.  These are read off the
program, not off the links the core keeps.

### `O3Core` - ROB, scheduler, load and store queues

| TLA+ | code |
|---|---|
| `ReadFromTrace`, `AbortInReader`, `DecodeAndDispatch` | `read_from_trace` (its STA part) and its failing assertion, `decode_and_dispatch`, `add_to_rob` |
| `ScheduleInstruction`, `Producers`, `MemProducers` | `schedule_instruction`, `do_scheduling`, `reg_dependency`, `reg_RAW_dependency`, `lsq_dependency` |
| `ExecuteRTE0/1` | `execute_instruction` and the rings RTE0, RTE1 |
| `ScheduleMemory`, `LoadsToAdd`, `StoresToAdd` | `schedule_memory_instruction`, `check_and_add_lsq`, `add_load_queue`, `add_store_queue` with the STA head test |
| `TranslateLoad/Store`, `ExecuteLoad/Store` | `operate_lsq` and the rings RTL, RTS |
| `CompleteTranslation`, `CompleteLoads`, `CompleteExecution` | `complete_data_fetch`, `handle_merged_translation`, `handle_merged_load`, `update_rob`, `complete_execution`, `reg_RAW_release` |
| `RetireRob`, `L1dTakesWrite` | `retire_rob` and the L1D write queue it fills |

Latency is abstracted: what executes may complete in any later step, and DTLB
and L1D answer any subset of what they hold (what they do inside is
`CacheHierarchy`).  Four things a reader may stumble over are in the code:
`ROB.next_fetch[1]` is never set, so the scan of the scheduler stops at the end
of the ROB (`ScheduleScan`) and the code for wrapped dependences is dead;
the producer search skips writers that have completed; write after write
through memory is not a dependence; and the first instruction of a trace is
executed twice (`src/ooo_cpu.cc:165-175`, left out).  The assertions of the core are
compiled in (`SANITY_CHECK`).  Those on the ends, sizes and counters of its queues are
in `TypeOK`; the one a trace can fail, in the writer of STA, is modelled by what
it does: `AbortInReader` sets `aborted`, after which no action is taken
(`Running`).  It lets one store pass when the ring is full, because head and tail are
then equal, and fails at the next (`StaAssertionFails`).

### `FrontEnd` - fetch and decode

IFETCH and DECODE buffers, the ITLB request of a page and the L1I request of a
line (`RequestTranslation`, `RequestLine`: `fetch_instruction`), their answers
(`CompleteTranslation`, `CompleteFetch`: `complete_instr_fetch`),
`SendToDecode`, `DecodeAndDispatch`, and the branch logic of `read_from_trace`,
`fetch_instruction` and `complete_execution`: `fetch_stall` and
`fetch_resume_cycle`.  Whether a branch is predicted is a free choice, which
covers every predictor, and completion happens at any time, which covers
`O3Core`.  The two buffers are sequences of bounded length; the indexes of the rings
that hold them in the code are not modelled.

### `PageWalk` - page table, page-walk caches, footprints

`Walk` is one call of `va_to_pa`: the page-walk caches are searched and updated
(`UsePwc`), the page is found or mapped, then each level that no page-walk cache
hits and always the leaf is looked up through L1D, L2C and LLC (`LookUp`); the
first hit is marked, and the caches that missed get the line unless the walk is
the code prefetcher's (`magic`).  `Swap` is the call that takes a frame away.
`PrefetchWalk` is `mmu_cache_prefetch_search`, whose three tags are read
uninitialised and are any members of `Garbage`.  `mem` has the blocks with their
`ptw_level` and footprint, and the histogram of `record_footprint_on_eviction`;
`seen`, `begun` and `lastUse` are history.  The caches have one set each and any
replacement; `DataFill` is the data traffic.  A magic walk stalls the core like
any other: `magic != 2` is always true of a bool (`src/main.cc:873`).

### `Morrigan` - the STLB prefetcher

`stlb_prefetcher_operate` is called once per instruction miss of the STLB, so
the misses drive everything: `MissStream` is the stream of pages, `Tirip` the
part of the function about the tagged history tables, `Irip` the part about the
successor tables, and `Morrigan` one whole call (`Operate`) with the prefetch
queue that answers later misses.  The prefetchers are those of
`prefetcher/morriganPT_tage2.stlb_pref`, the version that corrects the first
(`morriganPT_tage`); its tables S1 to S8 are the code of `morriganPT`.

| TLA+ | code |
|---|---|
| `tht`, `history_reg`, `pend`, `alloc_since_reset` | `tht_h2`, `tht_h4`, `tht_h8`; `history_reg`; the `pend_*` variables; `tage_alloc_since_reset` |
| `Keys`, `Lookup`, `TiripPredicts` | `tage_compute_keys`, `tage_lookup`, the T-IRIP prefetch |
| `Update` with `Judged`, `Takers`, `Allocated`, `AllUseless` | `tage_update`: credit or blame the provider, one allocation in a longer table, aging, `tage_maybe_reset_u` |
| `irip`, `decay_timer` | `irip_s1` .. `irip_s8`, `decay_timer` |
| `Rewarded`, `IripPredicts`, `Inserted`, `Trained`, `Moved`, `Decayed` | confidence of a prefetch hit, successor and SDP prefetches, insertion into S1, learning and promotion, `reset_frequency` |

The hash functions and the geometry are constants.  The build sets RP_MP to 1
(`build_all.sh`), where the victim is a random way weighted by `freq`: any way
may be the victim, and `freq` is left out.  Pages live for ever in `Morrigan`;
what a swap does to the prefetch queue is in `InstrTlb`.  T-IRIP predicts from
the tables before training, as the code does; `misses` is history except for its
length and last element, which are `s_timer` and `previous_vpn`.

### `PrefetchBuffer` - what the prefetch queue promises

A bounded set of translations, at most one per page: each answers at most one
miss, and only the oldest are forgotten, and only when it is full.

### `PrefetchQueue`, `InstrTlb` - address translation end to end

`PrefetchQueue` has the operators of the STLB's `PACKET_QUEUE PQ`: cells with
holes, `CheckVpn` with its early return on an empty queue, `RemoveLru`,
`UpdateTail` to the first hole, `AddPq`, `Taken`.  `InstrTlb` has the ITLB, the
DTLB and the STLB (in the mode ANALYSIS, the ordinary block array) over one page
table.

| TLA+ | code |
|---|---|
| `TlbHit`, `TlbMiss`, `TlbFill` | `handle_read` and `handle_fill` of ITLB and DTLB, `STLB.add_rq` with its merging (`Queued`) |
| `StlbHit`, `StlbMerge`, `StlbMiss`, `StlbFill` | the three branches of the STLB's `handle_read` (hit, miss in flight, new miss) and its `handle_fill` with `return_data` |
| `StlbMiss` | prefetch-queue hit, else `fctb` for instructions, else `va_to_pa`, and the `prefetch_page` calls of the prefetcher |
| `FctbHits`, `Walked`, `Refreshed` | `search_fctb`, an entry of a walk, `refresh_fctb` |
| `DemandPlace`, `PrefetchPlace` | the place of a page in its line, from the byte address of a miss and from the page number of a prefetch |
| `Swapped`, `Invalidated` | the swap in `va_to_pa` and its `invalidate_entry` calls |

The prefetcher may ask for any pages (`Calls`), free or not, which covers
Morrigan and the other STLB prefetchers.  `raced` is history: it marks a copy of a
translation that was in flight or queued when its page lost the frame, and
nothing reads it but `TlbsAgree`.

### `StlbBlockMC`, `DramControllerMC`, `CacheHierarchyMC`, `O3CoreMC`, `FrontEndMC`, `PageWalkMC`, `MorriganMC`, `InstrTlbMC`

Instances for TLC: model values, small sets, programs and sizes.

Operators commented as variants (`TouchAgesAll`, `ReleaseKeepsEvent`, ...) are
not used by the specifications.  Each is a definition with a plausible mistake
in it, which `PROJECT.json` pairs with the property that detects it.

## 4. Runs

| Run | Result | Shows |
|---|---|---|
| `StlbBlock_detail` | passes | detail mode: types, LRU permutation, one place per translation, prefill and histogram accounting, LRU replacement, refinement of `TranslationCache` |
| `StlbBlock_sparsity` | passes | sparsity mode: coherence of every reachable slot |
| `DramController_check` | passes | bank binding, exactly one owed answer per waiting read, exclusive bus with its turn-around; both queues drain |
| `DramController_ptwmerge` | violated | an LLC read merged into a walker's read is never answered |
| `CacheHierarchy_check` | passes | every miss is answered exactly once, one copy per L1, dirty data handed down; every demand completes, if code and data share no line |
| `CacheHierarchy_sharedline` | violated | with a shared line, a promoted prefetch loses a fill flag and a demand hangs |
| `O3Core_check` | passes | dependences, ready rings and counters agree with what is in flight; stores leave in order; `Dataflow` is implemented, so nothing starts early; every instruction of a program whose stores fit into STA retires |
| `O3Core_sta` | violated | the ring of store addresses overflows and the assertion of the reader (`SanityCheckHolds`) ends the simulation |
| `FrontEnd_check` | passes | program order; no instruction waits without a translated request under way and no stall without its branch; every instruction gets through |
| `PageWalk_check` | passes | the page-walk caches are LRU; footprints are neither lost nor doubled and the first cache sees every walk, wherever walks start |
| `Morrigan_check` | passes | history entries are unique and true, a repeating stream is learned; successor entries are unique and true and forget nothing while they stay |
| `InstrTlb_check` | passes | copies of translations are current unless in flight at a swap; every miss is in one place until it is answered; no two walks for one line; the prefetch queue implements `PrefetchBuffer` |

The violated runs check what a comment, an assertion or a document of the
repository says; `PROJECT.json` quotes it under `findings`.

More places where the code does something else than a document or a
comment says came up while modelling.  The models do what the code does; no run
is devoted to them:

* `stlb_block_invalidate` clears the accessed bit before `evict_stlb_block`
  looks at it (`src/cache.cc:1963`), so a block that a swap empties is not in the
  histogram, which the repository's README says is updated when a block is "fully
  invalidated".
* The leaf level of `va_to_pa` fills the L1D under `!magic` alone
  (`src/main.cc:1328`), so a walk that starts in the L2C allocates there although
  the README has it bypass "L1D lookup and allocation".
* A walk that hits the L2C leaves nothing in the LLC, whose footprint of a line
  is therefore not the "accumulated footprint history" of `src/cache.cc:1758`
  when the L2C has lost it.
* Step 3 of the sparsity fill (`src/cache.cc:1847`) puts translations of other
  sub-blocks into an entry tagged `vpn / STLB_PTES_PER_BLOCK`; a lookup compares
  that tag, so it never finds them.  `design.md:70` has "`block_vpn`: `vpn / 8`".
* A store whose miss merges into the MSHR entry of a load keeps the type LOAD
  (`src/cache.cc:609`), and the line is filled clean, although "RFO marks cache
  line dirty" (`src/cache.cc:417`).
* `tage_update` promises to "allocate at most ONE new entry, and only when we got
  it wrong"; when the entry that predicted was evicted in between, it also
  allocates after a right prediction (`prefetcher/morriganPT_tage2.stlb_pref:633`).
* A confidence counter of the tables S2 to S8 reaches 2^CNF_BITS, one more than
  CNF_BITS bits hold (line 806 of the same file), and a page that misses twice in
  a row takes a slot of a full S8 entry for the distance 0, which counts as free.
* A prefetch queued less than LATENCY cycles before its hit has an `event_cycle`
  in the future (`src/cache.cc:1029`): the unsigned difference is huge, and the
  miss is not charged the stall that is left.
* The prefetch queue and the misses in flight survive a swap: `TlbsAgree` says
  that this is the only way for a TLB to be wrong, and TLC finds it at once when
  the exception is taken out.
* `prefetch_code_line` masks the result of `va_to_pa_prefetch` before it compares
  it with 0 (`src/ooo_cpu.cc:821`): the prefetch of a page without a frame goes to
  physical page 0 unless its offset is 0.

### Bounds and why they are enough

* `StlbBlock`: one set, two ways, two slots, four pages in three blocks of one
  page-table line, three frames, two MSHRs.  Three blocks compete for two ways
  (replacement), four pages for three frames (swap), two pages of a block miss
  at once (overlap), a page of another sub-block is available for step 3.  Sets
  do not interact except through the page table.  `MaxStat` bounds the counters,
  four fills after the reset.  The theorems have none of these bounds.
* `DramController`: two banks, a row conflict in one of them, queues of 2 and 3,
  watermarks 3 and 2, so that the write queue passes both, and five arrivals.
  Times are of the order of the real ones relative to each other (a row miss
  longer than a hit, turn-around and transfer longer than a cycle).
* `CacheHierarchy`: one way per L1 (every fill evicts), two in the L2C, the L2C
  read queue as large as the MSHRs of both L1 together as in `inc/cache.h`
  (32 >= 8 + 16); all other queues have one or two entries, so they fill up.
  Four requests in all; `CacheHierarchy_sharedline` uses three in caches of one way.
* `O3Core`: every program of four instructions over an addition, a load, a store
  and an exchange with memory, and six longer ones with two loads or stores per
  instruction and two threads.  The ROB has three entries, so slots are reused,
  and the queues hold less than a program asks for.  In all but one of these programs
  no five consecutive instructions (ROB plus buffers) store more than the four places of
  STA; the other, three instructions of two stores each behind a load, ends in
  `AbortInReader` or not, as the answers come, and `AllRetire` asks nothing of it.
* `O3Core_sta` runs that program alone.  The reorder buffer has two entries and STA
  four places, the size the code computes: ROB_SIZE times the stores of each.
* `FrontEnd`: three programs of four instructions over three lines in two pages
  with up to two branches, buffers of two and three entries, a warm-up that ends at any time.
* `Morrigan`: every stream of six misses over four pages, followed by its
  repetition up to 24 misses; 18 is when every table has seen each of its
  contexts.  Two pages share a tag and one has the tag of a free way.  Tables of
  three rows and three ways overflow for some streams and not for others, history
  lengths 1, 2, 3; successor tables of one row with two, one and one entries, so
  promotions replace; decay every 8th miss, usefulness reset every third
  allocation, confidence limits of 2.
* `InstrTlb`: three pages of two lines, one of them data too, and two frames, so
  that the third page swaps; first-level TLBs of one block and one MSHR, an STLB
  of two and two, a prefetch queue of two cells and two `fctb` entries, one
  prefetch per miss, three cycles, walks of one cycle (a walk is met under way and
  after its end, queued prefetches differ in age).
* `PageWalk`: three pages of which two share a leaf line, two frames (the third
  page swaps), tables and lines of two entries, one way in L1D and L2C, two in
  the LLC, three walks, any number of data fills, both values of
  `ptw_start_level`.

`CHECK_DEADLOCK FALSE` is set where the system may stop: at the end of the
simulation in `StlbBlock` and `InstrTlb`, of the requests in `CacheHierarchy`,
of the walks in `PageWalk`, of the stream in `Morrigan`.  A core that hangs goes on counting cycles, so in `O3Core` and
`FrontEnd` a hang is a violation of `AllRetire` instead.  The DRAM controller
must not stop, and is checked for deadlock.

### Fairness

* `DramController`: the main loop calls `operate` in every cycle, so the clock
  advances (`WF_clock(Cycle)`), and the warm-up ends after a fixed number of
  instructions.  Nothing is assumed of the clients.
* `CacheHierarchy`: `operate` of each cache calls all of its handlers in every
  cycle, so each handler that can act does (`WF` of each), and the LLC, whose
  own progress is not modelled, answers each line.  No fairness of the core.
* `O3Core`, `FrontEnd`: `main` calls every stage of the core in every cycle, so
  each stage that can act does, and the caches and TLBs answer what they are
  asked (which `CacheHierarchy_check` shows of the caches).

* `Morrigan` and `InstrTlb` have safety properties only.

## 5. Proofs

### The block STLB

`StlbBlockProofs` proves, for every geometry (`NumSet`, `NumWay`, 1, 2, 4 or 8
slots), both modes and every set of pages and frames:

| Theorem | Statement |
|---|---|
| `TypeCorrect` | `Spec => []TypeOK` |
| `LruCorrect` | `Spec => []LruPermutation` |
| `OnePlaceCorrect` | `Spec => []OnePlace` |
| `OnlyLruReplacedCorrect` | `Spec => OnlyLruReplaced` |
| `SlotsCoherentCorrect` | `Spec => []SlotsCoherent` |
| `CoherentCorrect` | `Spec => []Coherent` |
| `StatisticsCorrect` | `Spec => []StatisticsConsistent` |
| `Refinement` | `Spec => RefinesTranslationCache` |

The only assumption is `StlbAssumption` (sizes are positive, a block has 1, 2, 4
or 8 slots, `NoFrame` is no frame).

The argument: `TypeOK` is inductive by itself.  `LruPermutation` is inductive
because every update of `lru` is `Touch` of one way of one set, and `Touch`
permutes.  With it, the victim of a full set has the largest position, so all
others are strictly smaller, which is `OnlyLruReplaced`.  `Coherent` is not
inductive: it speaks of the first matching slot, and an invalidation or a fill
can uncover the next one.  `SlotsCoherent` is the strengthening: every slot a
lookup could select holds the page's current frame.  The page table changes in
two ways, an allocation, whose page has no slot since it was unmapped, and a
swap, which clears the victim's slots in the same step (`PageTableStep`,
`SwapAnswers`); slots change otherwise only in fills, which read the page
table (`FillCases`, `NewEntryFacts`, `InstallFacts`), and these facts rest on
`BlockAndOffset`: tag and offset determine the page, so one page's slots are
never mistaken for another's.  The refinement uses it twice more: a fill makes
its own page answerable because the requested offset is among the first `Ptes`
candidates (`RequestedClaims`), and no other answer changes except to a miss or
to the current mapping.

`StatisticsConsistent` compares a counter with the sum of a matrix, which is a sum of
sums.  The lemma everything rests on is `CellsSpread`: when the members of a finite
set are each counted in one cell, the sum grows by their number.  An eviction is the
case of one member; the flush at the end, which counts all live entries at once, that
of many.  `TotalSpread`, its one-dimensional form, is proved by taking the first
partial sum that is wrong.  The bits of prefilled translations are counted as a finite
set (`BitsOf`) of which an access takes away the one it counts as hit.

### Morrigan

`MorriganProofs` proves, for every geometry, every pair of hash functions, every
history length and every miss stream:

| Theorem | Statement |
|---|---|
| `TypeCorrect` | `Spec => []TypeOK` |
| `ContextsUniqueCorrect` | `Spec => []ContextsUnique` |
| `TrainedByOccurrenceCorrect` | `Spec => []TrainedByOccurrence` |
| `EntriesTrueCorrect` | `Spec => []EntriesTrue` |
| `SuccessorsKeptCorrect` | `Spec => SuccessorsKept`, an action property |
| `NeverMisledCorrect` | `Spec => NeverMisled`: a prediction of a table that tells the stream apart is right |
| `NeverUnlearnedCorrect` | `Spec => NeverUnlearned`: such a table loses entries only by eviction |

The assumptions are `StreamAssumption`, `TiripAssumption` and `IripAssumption`
(sizes are positive, the hash functions return rows and tags, each table has more
successor slots than the one before).

The inductive invariant is `MorriganInv`, the conjunction of `TiripInv`,
`IripInv` and the type of the queue.  `TrainedByOccurrence` is not inductive: an entry is written
one miss after its key was computed, from `pend` and not from the stream.
`TiripInv` says what `pend` and `history_reg` are at every miss, namely the key
and the register a reader of the stream would compute for its last page, and that each row is
`RowTrue`: valid entries can predict, have different tags, and their tag and
distance occur in the stream.  What occurs grows with the stream
(`RowTrue` is monotone in it), every write of `Update` is an `EntryTrue` for the
row it goes to, and `Min`, `Max` of the library are pinned down by
`LeastElement` and `GreatestElement`.  `EntriesTrue` needs that an entry stays
in its row and only in one table: an insertion follows a failed search of all tables,
and a promotion frees the place it leaves in the same step (`TrainedTrue`).
Without the type of the entries, `Padded` and `Min` of a slot set say nothing,
so `IripInv` has it too.

`SuccessorsKept` compares what a search finds before and after a whole call of
the prefetcher, which may reward, insert, train, promote and decay.  The proof goes
through the call in its order: rewards and decay keep every page and distance in
place (`SamePlaces`), an insertion happens only for a page that is in no table
(`MayInsert`), and every page after training was there before it, with no fewer
distances (`Inherits`), or with one fewer if its entry was a full one of the last
level.  `CarriedThrough` composes the four, with the one place a page has.  That
exactly one distance is given up, and that the entry knew as many as it has slots,
needs one more conjunct of `IripInv`: no entry has a distance twice
(`Unrepeated`), since one is learned only if the entry has it not.

`NeverMisled` and `NeverUnlearned` are the safety half of `Learns`, for every stream and at
every miss.  A table is `Determined` when the misses so far with one row and one tag in it
were all followed by the same distance; it is so by chance of the hashes as much
as by the stream, and other tables need not be.  That the last prediction comes from an
entry is not enough for the first: the training of the miss before may retrain or evict
that entry before the prediction is judged.  So `TiripInv` remembers what the
prediction was worth when it was made (`PredictionShown`: its key had been followed by
its distance), what has been shown stays shown, and the next distance is shown under
the same key (`DistanceTaught`); in a determined table the two are one.  The second
follows a call in its order: the stamp of the lookup, the credit of a provider that is
right by the first, and the reset of usefulness spare every entry (`Spared`); allocation
retrains a matching entry, which already has the distance (`KnowsTheDistance`), ages, or
takes a way for a context that is not there (`Evicts`); `KeptThroughout` composes them.

### The DRAM controller

`DramControllerProofs` proves, for every number of banks and rows, all queue
sizes, watermarks and timings:

| Theorem | Statement |
|---|---|
| `TypeCorrect` | `Spec => []TypeOK` |
| `BankBindingCorrect` | `Spec => []BankBinding` |
| `BusRespectedCorrect` | `Spec => BusRespected` |
| `ReadsAwaitedCorrect` | `DataAddrs \cap PtwAddrs = {}` implies `Spec => []ReadsAwaited` |
| `EveryCycleAdvancesCorrect` | `Spec => EveryCycleAdvances` |

`DramAssumption` says what the constants are: addresses have banks and rows, sizes and
times are numbers, the low watermark does not exceed the high one.  `ReadsAwaitedCorrect`
assumes besides that no line of a page table is a line of data: with such a line,
`DramController_ptwmerge` violates `PtwReadsUnawaited`, a read that is never answered.

The inductive invariant is `DramInv`.  `Binding` relates banks, queue and counters;
a switch of modes keeps it because `reset_remain_requests` cancels every scheduled request
of the queue it leaves, so that both queues have nothing scheduled in between, and the
counters follow because every other step changes the scheduled requests by one.  `Waited`
says that the event of a request that is not scheduled is not in the future.  `BusBounded` counts the turn-arounds that can be added
to the bus before the next transfer, by mode and occupancy: at most four.
`BusRemembers` relates the last transfer to the cycle in which the bus is free,
through every change of mode; the distance of two transfers follows from it, and with
it that they never overlap.

`EveryCycleAdvances` is the safety half of `Drains`: in a cycle with a request in a queue
the number of requests falls; or it stays, no change of mode is due afterwards, and one was due
before, or fewer requests are left to schedule, or as many and `Delay`, the cycles until
bus, banks and scheduled accesses are all ready, falls.  All three are natural numbers,
so without new requests every queue drains.  A change of mode cancels what was
under way and is the only step that raises the others; that none is due after it is the gap
between the watermarks (`TurnsOnce`).  When nothing can be scheduled something is under way
(`SomeUnderWay`), and a bank that waits for the bus waits no longer than the bus
(`OverSooner`).  The invariant adds to `DramInv` that no scheduled event is further away than a row miss
(`BothSoon`).

### The front end

`FrontEndProofs` proves, for every set of programs and every size of the buffers:

| Theorem | Statement |
|---|---|
| `TypeCorrect` | `Spec => []TypeOK` |
| `InProgramOrderCorrect` | `Spec => []InProgramOrder` |
| `NothingWaitsInVainCorrect` | `Spec => []NothingWaitsInVain` |
| `NeverStuckCorrect` | `Spec => []NeverStuck` |
| `WorkShrinksCorrect` | `Spec => WorkShrinks` |

Assumed: sizes are positive, programs are sequences, a line is in one page.  The invariant
is `FrontEndInv`.  That the order of the instructions is kept follows from where they
are: `Ordered` says that the place of an instruction determines it, counted back
from the last one read.  `NothingWaitsInVain` needs nothing but the order and
`Marked`: an entry that starts to wait issues its request in the same step, an answer
serves all entries of its line or page, and the branch for which fetch stalls is read, has not
completed, and is the only one because fetch stops behind it.

The last two theorems are the safety half of `AllRetire`.  `NeverStuck`: until the last
instruction has retired, the guard of some handler, or of an answer of a cache, is true.  It follows
the oldest entry through the stages: what it waits for is coming
(`NothingWaitsInVain`), and when nothing is in the buffers a fetch that stalls can resume, for
its branch has completed; this needs `Unretired`, that no retired instruction stalls the
fetch.  `WorkShrinks`: the natural number `Work` falls in every step, so behaviours end.  The
weights in it answer the two steps that make more work: an instruction asks again
for its line after every answer of the ITLB (`Owed` counts the answers to come, each worth
three requests of a full buffer), and a page is asked for by one entry and answered for all.
`Change` states once how a step moves the counts of which `Work` is the weighted sum, and every step
is one use of it.

### The cache protocol

`CacheHierarchyProofs` proves, for every set of lines, all sizes of caches, queues and
MSHRs and all prefetchers:

| Theorem | Statement |
|---|---|
| `TypeCorrect` | `Spec => []TypeOK` |
| `OneCopyPerL1Correct` | `Spec => []OneCopyPerL1` |
| `ModifiedHandedDownCorrect` | `Spec => ModifiedHandedDown` |
| `EachMissAnsweredOnceCorrect` | `Separate` implies `Spec => []EachMissAnsweredOnce` |
| `WorkShrinksCorrect` | `Spec => WorkShrinks` |
| `NeverStuckCorrect` | `Separate` implies `Spec => []NeverStuck` |

All but the two with `Separate` need `HierarchyAssumption` alone.  They rest on `CacheInv`: the types,
with what each queue can hold (a packet with a fill flag has fill level 1, a packet of an L1
names that L1), and `Single`, that an L1 which holds a line has it in one way and does
not miss on it, while a returned entry is the only one that brings it in.

`EachMissAnsweredOnce` has the hypothesis `Separate`: the lines the core fetches are not among
those it loads and stores, and the L1 prefetchers ask for lines of their side.
Traces keep text and data in different pages and a prefetch stays in the page of
the demand that triggers it (`src/cache.cc:2560`, `prefetcher/next_line.l1i_pref:18`), but
nothing in the code enforces it, and `CacheHierarchy_sharedline` shows the demand that
hangs without it.  The inductive invariant is `Served`: an L1 waits for a line if and only
if exactly one of three places names it - the read queue, the prefetch queue or the MSHR of the
L2C - no line is twice in a queue of the L2C, and all flags on a line are of its side.
`EachMissAnsweredOnce` alone is not inductive: it does not say that the flags of an entry
belong to the L1 of its line, and a read that merges into a prefetch's entry
replaces them.  The lemma `ReadQueueRoom` is why no request of an L1 is lost although the
callers of `add_rq` ignore its answer: the requests in the read queue of the L2C belong
to different MSHR entries of the L1 caches, and there are no more of those than places.

The last two theorems are the safety half of `DemandsComplete`.  `WorkShrinks`: between two requests
of the core and its prefetchers every step lowers `Work`, so the caches come to rest;
no chain of merges, fills and write-backs feeds itself.  Its invariant adds to `CacheInv` that
the sets counted are finite.  `NeverStuck`: they rest only when nothing is
under way.  Full queues cannot wait for each other in a circle, because the argument runs from the
bottom up: the write queue and the fills of the L2C wait for nothing, so the MSHRs of
the L2C empty, then its read and prefetch queues, and then an entry of an L1 that has not
returned has, by `Served`, a place below that is not empty; `Wanted` says that a load or fetch
the core waits for is in the read queue or an entry of its L1.  That is where `Separate` comes in: with the
lines of `CacheHierarchy_sharedline`, TLC finds `NeverStuck` violated, the hanging demand.

### The page walk

`PageWalkProofs` proves, for every geometry, number of frames, length of a run and value
of the uninitialised tags:

| Theorem | Statement |
|---|---|
| `TypeCorrect` | `Spec => []TypeOK` |
| `PwcIsLruCorrect` | `Spec => []PwcIsLru` |
| `FootprintsExactCorrect` | `Spec => []FootprintsExact` |

Assumed: `PageWalkAssumption` (sizes are positive, pages and uninitialised values are
numbers, there is a frame).

`PwcIsLru` says what a search finds.  `PwcInv` is what a search needs to keep it so: used entries come
before unused ones in a group, because `lru` takes the first least stamp and unused ones have
stamp 0; a stamp is the time its tag was last used; no two entries of a group share a stamp or,
once used, a tag; and a tag that is gone was used before every tag that is there.
Tag 0 is why unused entries are part of the invariant: a cold entry answers to it,
and becomes a used one by being hit.

`FootprintsExact` relates three things, blocks, histograms and the history of the
walks.  `MemInv` holds them together at each lookup of a walk and not only after it
(`Settled`, `Sound`, `Accumulated`): a footprint is only on lines of the leaf level, the
owners of the counted footprints number as many as the histogram's total, a searched
cache has at most one copy of a line, and the first cache searched has for each line
the entries walked for since it came in, except that the walk under way may be ahead by
its own entry.  The four levels are four uses of the same lemma.  The total is
a sum over the histogram; that adding one to a cell adds one to it is proved by
taking the least partial sum that is wrong (`TotalIs`, `TotalOneMore`).

### Address translation

`InstrTlbProofs` proves, for every set of pages and frames, all sizes of the TLBs, their
MSHRs, the prefetch queue and the free-distance table, and any requests of the prefetcher:

| Theorem | Statement |
|---|---|
| `TypeCorrect` | `Spec => []TypeOK` |
| `TlbsAgreeCorrect` | `Spec => []TlbsAgree` |
| `MissesOnTheirWayCorrect` | `Spec => []MissesOnTheirWay` |
| `OneWalkPerLineCorrect` | `Spec => []OneWalkPerLine` |
| `QueueImplementsBuffer` | `Spec => ImplementsPrefetchBuffer` |

Assumed: `TlbAssumption` and `QueueAssumption` (sizes are positive, pages are numbers
beyond the first line, there is a frame and a stall, `Never` lies behind the horizon).

The inductive invariant is `IInv`.  Its parts say, of the page table, that no frame
belongs to two pages; of each TLB (`SideOK`, `StlbOK`), that it has one block or one miss of a page
and never both, and that each copy is the page table's or was raced by a swap
(`CopyOK`); of the queue (`QueueOK`), that the occupancy counts the full cells and no
two hold a page; of the free-distance table (`FctbOK`), that an entry knows the place of its
page in the line and no line has two entries.
`MissesOnTheirWay` needs `OnWay`: the read queue and the MSHRs of the STLB ask for
disjoint sets of misses, and together for those that are pending.

One step changes nearly everything: a miss of the STLB takes from the queue or walks, swaps a
page out of every structure, and lets the prefetcher ask any number of times.
The proof summarises it once, as `Served`, which both the invariant and the refinement use.
Its parts are `Swaps` for the page table and `AfterCallsFacts` for the calls of the
prefetcher, by the least call after which something is wrong; what is
carried along is `Grown`: since the miss was served the queue has lost only its
oldest entries, and those only when full.  `SameLineIsHit` is the arithmetic behind the
distances: `search_fctb` finds every page of an entry's line; `PlacesAgree` says that the
two formulas for the place in the line give the same.  `QueueImplementsBuffer`
maps a miss of the STLB to the step of `PrefetchBuffer` that serves the entry taken, or none, and
every other step to one that serves none.

### The out-of-order core

`O3CoreProofs` proves, for every set of programs and all sizes of the reorder buffer and
the queues:

| Theorem | Statement |
|---|---|
| `CoreImplementsDataflow` | `Spec => ImplementsDataflow` |
| `DependencesCountedCorrect` | `Spec => []DependencesCounted` |
| `InflightCountedCorrect`, `QueueEntriesTrackedCorrect`, `BookkeepingExactCorrect` | `StoreRoom` implies `Spec => []BookkeepingExact`, and each of its parts |
| `StoresInProgramOrderCorrect` | `StoreRoom` implies `Spec => []StoresInProgramOrder` |
| `TypeCorrect` | `StoreRoom` implies `Spec => []TypeOK` |
| `SanityCheckHoldsCorrect` | `StoreRoom` implies `Spec => []SanityCheckHolds` |
| `FewStoresFit` | at most `w` stores in an instruction and `(ROB_SIZE + FRONT_END) * w =< STA_SIZE` imply `StoreRoom` |

Assumed: `SizesAssumption` and `ProgramsAssumption` (sizes are positive, programs are
sequences of instructions, the stores of one fit into the store queue, the write queue and
STA).  The theorems
about the memory side have one hypothesis more, `StoreRoom`: the stores of the
instructions the core can hold, those in the reorder buffer and those still in the front
end, fit into STA (`StoresFit`).  The code does not ensure it, because nothing stops the
reader of the trace when STA is full: that is the finding of `O3Core_sta`, whose program
violates `StoreRoom` and ends in the reader's assertion.  All programs of `O3Core_check`
but that one satisfy it, and so does, by `FewStoresFit`, every ordinary
trace: a record has two stores (`NUM_INSTR_DESTINATIONS`), `STA_SIZE` is
`ROB_SIZE * 4` and the front end, 12 instructions, is shorter than the reorder buffer.
Only cloudsuite traces, with four stores in a record, can break it.

Completion maps to `Execute` of `Dataflow`, retirement to `Retire`, every other step to a
stutter.  The step that needs an argument is completion: the core compares lists and
counters over reorder-buffer slots, the data-flow machine asks for the last writers and the hazards in
the whole program.  The inductive invariant `CoreInv` closes the gap:

* `Holds`: instructions `retired + 1` to `dispatched` sit in the slots their numbers
  give, modulo `ROB_SIZE`; so `Age` is program order (`AgeIs`) although slots are reused.
* `Covered`: whatever a scheduled instruction needs has completed or holds a link to it.
  This is what would break if a producer were overlooked, and what makes `NeedsMet` hold.
* `Linked`, `Counted`, `Started`: links lead to younger scheduled entries, the counters count the links
  from what has not completed, and what has started has none.
* `InTurn`: scheduling follows the program.  The scan never wraps, but no entry it
  reaches has an older one behind the wrap (`ReachesOlder`).
* `RingsHold`: what is ready to execute is in one place of one ready ring.

Each kind of step is one lemma over arbitrary entries: `EnterKeeps`, `LeaveKeeps`,
`ScheduleKeeps` (its cardinality argument is `NewLinks`), `ReleaseKeeps`
(`ReleasedLinks`), and `StartKeeps`.

The second invariant, `MemInv`, is about the memory side and is inductive together with
`CoreInv`.  Stores are numbered in program order (`Nth`); `Entered` is the number of the
last one that has entered the store queue.  Its parts:

* `StoreInv`: store number `g` sits in place `(g - 1) % SQ_SIZE` of the store queue up to
  `Entered`, and in place `(g - 1) % STA_SIZE` of STA beyond it; `sq_index` of an
  instruction names the places of those of its stores that have entered (`HasIndex`).
  Retirement and reuse of places follow from arithmetic on the numbers (`OneRound`,
  `RingPlus`); `StoreRoom` is needed in one place, `NextFits`, where the next stores are
  counted: the places of STA they take are free (`StaFree`).  `ReadMem` writes them there,
  and `ReaderAsserts` concludes that the assertion on those places holds.
* `LoadInv`: an occupied entry of the load queue is of a load that the instruction in its
  slot of the reorder buffer has added, and no two entries are of one load.
* `OpsInv`: `num_mem_ops` counts the loads and stores that have no queue entry yet or
  wait in one; what has started has added all of them.
* `PlaceInv`: an entry that waits is in exactly one of the ring to translate, the DTLB's
  requests, the ring to execute and the L1D's requests.
* `CountInv`: the inflight and completed counters are cardinalities of sets of entries.
* `WqInv`: what waits for the L1D was fetched, has retired and is in program order.

`QueuesExact`, `CountersExact` and `StoresOrdered` read the run's properties off the
invariant.  `TypeCorrect` adds that entries are records and `next_schedule` is a slot
(`Records`); the types of the fields and the bounds of queues and rings follow from the
two invariants.

### Only model-checked

`Learns` of Morrigan, that a repeating stream comes to be predicted, which would need an
induction over the whole past (that a prediction in a determined table is right and that
what is learned is only evicted is proved), and all liveness (`Drains`, `DemandsComplete`,
`AllRetire`); both are out of the prover's reach.  Of `Drains`, `DemandsComplete` and the front
end's `AllRetire` the safety half is proved, that every step is progress and that a step remains
until the goal is reached (`EveryCycleAdvances`, `WorkShrinks`, `NeverStuck`); that fairness
then takes those steps is what TLC checks.

## 6. Not modelled

* `analysis` mode of the block STLB, its re-reference counters and the ordinary
  block array of the TLBs that runs beside it.
* `prefetch_code_line`: its cross-page branches (`src/ooo_cpu.cc:828-894, 914-980`),
  the part that changes the TLBs, are dead code, because the only caller, `prefetcher/next_line.l1i_pref`, passes `cross_pb = 0`; the rest
  queues an L1I prefetch, which `CacheHierarchy` issues at any time.
* The first version of T-IRIP and the other STLB prefetchers (SP, ASP, DP,
  Markov): baselines of the experiments, whose requests `InstrTlb` covers.
* Frequencies of the Morrigan tables, which only weigh a random choice.
* The stall a walk charges and the 2 MB page layout of `va_to_pa`; widths and
  latencies of the core.
* The LLC as a cache and the policies: the LLC is an environment that answers.
* More than one core (`NUM_CPUS` is 1), more than one DRAM channel.
* Trace input, statistics printing, scripts; third-party line prefetchers and
  branch predictors, which only choose addresses and timing.
