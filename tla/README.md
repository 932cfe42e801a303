# Verification of the L2 order book

TLA+ models of the order-book engine, TLC runs on small instances of them, and
TLAPS proofs that hold for every instance.  Paths below are relative to the
directory that holds `src/`, the repository.

## 1. The system

| Component | Source | State | Operations | Interacts with |
|---|---|---|---|---|
| `PriceLevel` | `src/include/book/price_level.hpp` | total quantity (64 bit), order count (32 bit), doubly-linked FIFO of orders | add, remove, reduce | called by `OrderBook` |
| `OrderPool`, `Order` | `src/include/book/order.hpp` | slab of orders, free list threaded through their `next` | alloc, free, rebuild | called by `OrderBook` |
| `OrderBook` | `src/src/book/order_book.cpp`, `.../order_book.hpp` | two windows of `kLevels` price levels, their reference prices, cached best indices, map from reference to order, session flag | one handler per ITCH message; `best_bid_offer` | owned by the book thread |
| `SPSCQueue` | `src/include/transport/spsc_queue.hpp` | ring of slots, atomic `head_`, `tail_` | `try_push`, `try_pop`, `empty`, `size_approx` | shared by the two threads |
| `ITCHFileReader` | `src/src/transport/pcap_replay.cpp` | file in memory, position | constructor, `next_message`, `reset`, `eof`, `bytes_remaining` | parser thread |
| ITCH parser | `src/src/itch/parser.cpp` | none | `parse_message`, `parse_and_push` | reader to queue |
| Replay program | `src/src/main.cpp` | `parse_done`, two counters | parser thread, book thread, join, report | all of the above |
| Message layouts | `src/include/itch/messages.hpp` | none | fields and byte order | read by every handler |
| `Analytics`, `BBO` | `src/include/book/analytics.hpp`, `.../bbo.hpp` | none; a reference to the book | mid, spread, imbalance, vwap, visible quantity | reads the book, meant for a thread of its own |
| `LobsterValidator` | `src/src/book/lobster_validator.cpp` | timestamps and depth rows read from two CSVs | load, validate | replays a file through a book of its own and reads its levels |
| `Histogram`, timers | `src/include/bench/rdtsc.hpp` | buckets, total | record, percentile, reset (never called) | latency harness |
| Benchmarks | `src/bench/bench_book.cpp`, `src/bench/latency_harness.cpp` | a book, cursors, ascending references | set-ups and iterations | drive a book; record latencies |

What is hard here:

* **Recentring.**  An order outside its side's window makes the side clear all
  its levels and rebuild them from a hash map.  Cached indices (`level_idx` in
  each order, the best index of each side), links and counters must all follow.
* **Caches.**  The best index is maintained incrementally in four places.
* **Feeds that break the rules** (duplicate references, over-fills, price 0), with
  assertions compiled in or out, and integer wrap-around at two widths.
* **The lock-free queue**: plain slot accesses ordered only by acquire loads and
  release stores of two indices, each thread seeing the other's index late.
* **The exit of the book thread**: a failed pop, a load of the flag and a test of
  the queue are three separate looks at memory the parser thread is changing.
* **Termination**: each thread spins waiting for the other.
* **Links by hand**: the queues of the levels and the free list share the fields
  of the same nodes, and a recentre rewires them with the old ones still in place.
* **Index arithmetic in `int`**: prices are unsigned; `bid_idx` and `ask_idx` cast both
  to `int` and subtract, which overflows for prices on both sides of 2^31.
* **An analytics thread** makes several plain loads while handlers run.
* **Two clocks**: the validator lines up CSV rows with messages by timestamp only,
  and CSV lines that cannot be read are skipped in one file and not in the other.
* **Long benchmark loops**: cursors wrap, ascending references meet.

`PROJECT.json` lists these as `hazards`, each at its line, with the properties
that would catch it.

## 2. The modules

| Module | Models |
|---|---|
| `PriceLevel` | a level; operators only.  The linked list is the sequence of its nodes.  Counters wrap at `W32` and `W64`, small stand-ins for 2^32 and 2^64 |
| `OrderBook` | the book: one action per message handler, whole |
| `ITCHBook` | what a book promises: a map of live orders changed as the messages say |
| `SPSCQueue` | the ring, one memory access per step |
| `BoundedFIFO` | what the queue promises |
| `ITCHFileReader` | framing and parsing of a byte buffer; operators, and a reference definition of a file's frames |
| `Pipeline` | the replay program: `SPSCQueue` and `ITCHFileReader` composed with the two threads and main |
| `OrderQueues` | what the intrusive lists promise: a queue per level, a stack of free slots |
| `OrderLists` | the nodes: `next`, `prev`, `head`, `tail`, `free_head_` |
| `BookFeed` | the messages as records, and their dispatch to `OrderBook`'s actions |
| `LobsterValidator` | recording of a market (`ITCHBook`), loading of the CSVs, replay and comparison over `BookFeed` |
| `Analytics` | the figures over `OrderBook`'s state, and `best_bid_offer` run load by load beside its handlers |
| `Histogram` | buckets and percentiles, with a reference definition by rank |
| `Workloads` | the book benchmarks of `bench_book.cpp` over `BookFeed` |
| `LatencyHarness` | `latency_harness.cpp`: `Workloads` and `Histogram` composed |
| `MC...` | small constants for TLC, one module for each specification that is run |
| `PriceLevelProofs`, `OrderBookProofs`, `OrderBookFeedProofs` | theorems and proofs about a level, about the book under any feed, and about the book under a conforming one |
| `PipelineProofs` | theorems and proofs about the queue and about the program that uses it |
| `OrderListsProofs`, `AnalyticsProofs`, `LobsterValidatorProofs`, `LatencyHarnessProofs` | theorems and proofs about these components |

### OrderBook

Bids and asks are the same code with the signs exchanged, so the state of a side
is one record (`ref`, `best`, `levels`) and operators take the side.  `order_map_`
is a function with `nullptr` for absent references; `pool_` holds the contents of
every slot and `free_list` the set of free ones.  Which free slot `alloc` returns
is left open, so the model has more behaviours than the code's last-in first-out
list.  A handler that calls several helpers threads a record of the state through
them (`Here`, `Becomes`), in the code's order: for an add, allocate, insert
(recentring over the *old* map), then enter the map.  `recentre` gives a set of
results, because the code iterates over an unordered map: every order of the
queue of each level is possible.

A failed assertion, and the out-of-bounds or null access that follows when
assertions are compiled out, end the process: `fault` records why and no handler
runs after it.  `NDEBUG` chooses the build.  `Conforming` chooses the feed: a
conforming feed uses a fresh reference for a new order, positive prices and
quantities, and never takes more shares than an order has; any other feed may
send anything.  `bid_idx` and `ask_idx` cast
both prices to `int` (`Int32`, two's complement at `W32`) and subtract the ints.
`PriceAssumption` takes prices below 2^31: an ITCH price is at most 2,000,000,000
($200,000 with four decimals), and above 2^31 the subtraction can overflow, which
C++ leaves undefined, so the model says nothing about it.  (The validator subtracts
the prices as unsigned and casts the difference, and only for a price that is not
better than the reference: below 2^31 that is the same index.)  `2 * kLevels <= W32`
stands for the window of 8192 levels being far smaller than 2^31.  The side byte is 'B' or 'S'.

### OrderLists and OrderQueues

`OrderBook` takes queues of slots and a set of free ones for granted.  `OrderLists`
keeps only the nodes: which level an order enters, and whether its side
recentres, is left open, so that every sequence of list operations of the book
is there, with the map's forgetting of a duplicate reference.  `OrderQueues` has
the queues as sequences and the free list as a stack; the refinement mapping
walks the links.  The loop of a recentre and a walk are recursive functions.

### SPSCQueue

`head_` and `tail_` count the stores made to each atomic, whose value is the count
modulo `Capacity`.  A thread reads its own atomic exactly; `tail_seen` and
`head_seen` are the stores the other thread's load returns, and move forwards on
their own (`TailVisible`, `HeadVisible`).  This covers every value the C++ memory
model lets an acquire load return for a variable with one writer.  Two plain
accesses to a slot race unless one happens before the other, that is unless the
later thread has *seen* the store that followed the earlier access; `NoDataRace`
says exactly this, so the content of a slot is only used when it is defined.

`size_approx` is the difference of the two loads, masked; each thread may call it,
with its own index exact and the other as it sees it.

### Pipeline

The reader works on real bytes: a two-byte big-endian length, then the message,
whose first byte is its type.  `SizeOf` gives the struct size of each type.  The
fields of a message are represented by the offset they were copied from, so
messages of different frames differ.  `LoadDone` is the acquire load of
`parse_done`: reading TRUE makes every earlier push visible.  `applied` records
what the book's handlers have been given; `OrderBook` says what they then do.

### LobsterValidator

The model first *records*: a market that follows `ITCHBook` goes through events,
each a message of the ITCH file and, if it concerns orders, a line of each CSV.
`Bad` is a line `sscanf` cannot read.  Then `load` reads the CSVs, with the code's
asymmetry (a bad timestamp leaves nothing, a bad depth row leaves a gap), and
`validate` takes one turn of its loop per step: a whole handler of `OrderBook`,
then the comparison of every snapshot that is due.  What the exchange and LOBSTER
do is an assumption of the model, and marked external in the map.

### Analytics

The formulas are operators over `OrderBook`'s variables; doubles are replaced by
exact numerators and denominators (0 over 1 where the code returns 0.0 because
there is nothing to divide by), and the loops over levels by `SumUpto`.  The reading thread makes the loads of
`best_bid_offer` one at a time.  Where the source names the best index again the
build may load it again, and an index of -1 then reads whatever is before the
array: both are nondeterministic choices.  `held` is the set of best bids and
offers the book has had since the call began.

### Histogram, Workloads and LatencyHarness

A percentile argument is a fraction and its product with the total exact, where
`rdtsc.hpp:96` truncates a product of doubles.  For 0.50, 0.99 and 0.999, which are all
that the program asks for, the two agree for every total below 2^40: 0.50 is a
double, and the doubles nearest to 0.99 and 0.999 are below them by less than what
rounding the product to 53 bits makes good whenever the exact product is an
integer.  For other arguments they need not (0.7 * 90 truncates to 62), so nothing is
claimed about those.
`Workloads` gives each benchmark as the messages of its set-up and of its i-th
iteration, with the source's arithmetic of references and cursors; the numbers of
the programs are parameters.  These programs are deterministic, so the pool's
choice of a slot is pinned to what the free list does (`LowestSlotFirst`).
`LatencyHarness` goes through `main`'s seven benchmarks, each with a new book and
a new histogram; latencies are any of `Nanoseconds`, one beyond the last bucket
included (the difference of two clock readings that went back wraps).

## 3. The runs

| Run | Instance | What it shows |
|---|---|---|
| `book` | 4 references, 3 slots, prices 1, 3 and 4, window of 3, conforming | Structure and accounting survive recentres that leave orders out: `TypeOK`, `BestIsFirst`, `MemorySafe`, `LevelAccounting`, `NoLeak`, `IndexMatchesPrice`; the reported best bid and offer are right while no order of the side is left out (`BBOIsBest`); the process stops only for a full pool or an order left out (`StopsAreExplained`); queue order between recentres (`TimePriority`); no growth while closed (`ClosedNeverGrows`); the live orders are those of `ITCHBook` (`ImplementsITCH`) |
| `book_raw_release` | 2 references, 2 slots, prices 0..2, any feed, `NDEBUG`, lots of 2 and 4 shares, `W32` = 8 and `W64` = 16 | No dangling pointer (`MemorySafe`), exact best index (`BestIsFirst`), and quantities right modulo 2^32 after any over-fill (`LevelAccounting`) |
| `queue` | capacity 4, 2 items, 7 pushes | `NoDataRace`, `WindowOK`, `ImplementsFIFO`, `SizeIsBracketed` over nearly two rounds of the ring |
| `pipeline` | capacity 2, every file of up to 3 pieces out of 8 | `BufferSafe`, `NothingLeftBehind`, `EndToEnd`, `Terminates` |
| `lists` | 3 nodes, 2 levels a side | `WellLinked`, `ImplementsQueues` |
| `lobster` | 4 messages, 2 references, one share each, 3 prices, window of 2, one unreadable line, all message types | A snapshot is compared in the turn of the first message that reaches its time, neither earlier nor later (`ComparedOnTime`); a book that follows the market scores 0 when timestamps differ, the file's prices fit in the window and the quantities at a price in 32 bits (`PerfectBookScoresZero`); an order a recentre leaves out is counted by the next snapshot (`LeftOutIsReported`) |
| `analytics` | 3 references, 2 prices, window of 2, one handler during a call | The figures are those of the live orders (`QuoteFiguresAreOfTheMarket`, `DepthFiguresAreOfTheMarket`); an undisturbed call is exact (`QuietReadIsExact`) |
| `benchmarks` | both programs: 5 orders a side at 5 prices, window of 10, pool of 3, 40 iterations of a loop and 4 of a harness row, references 20 apart, 4 buckets | No benchmark measures a miss (`EveryMessageActs`, `MeasuresHits`), leaks (`SteadyState`), stops or needs more of the pool than one slot beyond its set-up's, at any moment of an iteration (`PoolSuffices`), or recentres (`WindowLockedIn`); the percentiles printed are the ranks of the row's own latencies (`PercentileIsRank`, `PrintedInOrder`) |
| `claim_*` | see section 5 | statements of comments and documents that the code does not satisfy |

Bounds.  Three orders suffice for head, middle and tail of a queue, for two at a
level with a third that recentres, and, with a fourth reference, for a full pool.
With a window of three, prices 1 and 3 leave an empty level between them for the
best index to pass over, and 4 does not fit with 1, so that upward and downward
recentres drop an order.  In `book_raw_release` `W32` and
`W64` are small enough that over-fills wrap at both widths; quantities are even, so
that the widths leave room for the prices and orders still have few share counts.  A
capacity of 4 separates the four relations of the two indices and a capacity of
2 (one item) makes the parser spin.  The pieces of a file are a message of each
type, an unknown type, a frame too short for its type, an empty frame, a frame
cut short and a lone byte, in every order.  `MaxPush` and `MaxPieces` name the
bounds of the queue and pipeline runs.  Three nodes are a head, a middle and a
tail, or a queue and a free list (four nodes on one level were checked too).
`MaxEvents` is the opening and three events, each with its
snapshot: orders come, are replaced and go, and a third timestamp follows two
equal ones; `MaxBad` spoils one line.  `MaxDuring` is one handler per call, already
enough to mix two states.  `MaxCount` of 4 latencies is enough for ties and for
ranks at both ends.  `MaxIter`
and `kGap` are chosen together: the mixed workload's adds reach its replace
target within the run, as they do after some 166,670 iterations of the program;
the other cursors go round ten times.  `HarnessSizes` names the relations of the
programs' numbers that the properties need; TLC evaluates it on this instance.

Deadlock is checked in `lists`, which never stops, and in `benchmarks`, where the
harness may only stop in `Returned` and a loop after its last iteration: every
benchmark gets to its row (a stopped book, which sends no further message, would
show as `fault` in `PoolSuffices` too).  It is not checked elsewhere: the book waits for
messages, a stopped process does nothing, and a replay or a validation ends.
`Terminates` is what replaces it for the replay program.

Fairness (`Pipeline`): weak fairness of each thread, which are scheduled on cores
of their own and never block, and of the visibility of stores, which C++ asks to
happen in a finite time.  No strong fairness is needed.

Every property of a passing run has a mutant: a definition changed as a plausible
bug would (best index not updated on insert, order not freed, index kept across a
recentre, relaxed load of the flag, ...), with which TLC finds the property
violated.  They are the definitions marked "Mutant" in the modules.

## 4. The proofs

All theorems hold for every value of the constants that satisfies the named
assumptions: `WidthAssumption` (the 64-bit type is a multiple of the 32-bit one),
`BookAssumption`, `PriceAssumption` (prices are below 2^31), `WidthsFit` (the pool is smaller than 2^32 and its orders' shares
fit in 64 bits), `NullAssumption` and `ListsAssumption` (a null pointer is no object;
there is at least one slot and one level), `CapacityAssumption` (capacity at least 1),
`ReaderAssumption` and `FilesAssumption` (files are bytes), `AnalyticsAssumption`,
`HistogramAssumption` and `WorkloadAssumption` (the parameters are natural numbers),
`TimesAssumption` (times are natural numbers), `LobsterAssumption` (the exchange's feed
is conforming) and `HarnessSizes` (the harness's orders, prices, shares and references
fit the book: 10 prices 900 apart and a window of 8192, 712 orders and a pool of
2^20, and at most (kBig - 1) * kN partial cancels, of which the program makes a
million and could make half a billion).

* **OrderBook, any feed** (`OrderBookProofs`): `TypeCorrect`, `MemorySafety`,
  `BestIndexCorrect` and `LevelsAddUp`, conforming or not, in both builds.  None is
  inductive: unlinking is only safe if the order is linked where its cached index
  says; the best index is only right if `order_count = 0` means an empty queue;
  and that needs queues without repetition and shorter than 2^32, hence free slots
  that are never linked.  `IndInv` is their conjunction, stated on the state
  record (`StateOK`), so that `insert_at`, `advance_best`, `remove_order`, `recentre`,
  `make_order`, ... each have a lemma, and a handler's proof follows its calls.
  `Accounts` adds that a level's quantity is congruent to the shares in its queue,
  as a count of pairs (order, unit), so that no induction over a sum is needed: an
  append or an unlink adds or takes the pairs of one order.  `PriceLevelProofs` has
  the lemmas about a level, and that a nonempty set of naturals has a least
  element, from which the proofs about recursive functions take their induction.
* **OrderBook, conforming feed** (`OrderBookFeedProofs`): the invariant `Fed` says
  that free slots and mapped orders make up the pool, that only mapped orders are
  linked, and that the cached index of an order is the one of its price (`Tidy`,
  `Priced`; `FeedInvariance`).  From it `NothingLeaks`, `IndexIsPrice`, `OnlyTwoStops`
  and `BBOIsTheMarkets`.  `IndexIsPrice` needs `PriceAssumption`: the index is
  then the distance of the price from the reference, and 'in the window' means what
  it says.  Three properties of steps:
  `ClosedBookOnlyShrinks` (any feed), `TurnsAreKept` (conforming) and
  `BookImplementsITCH`, the refinement of `ITCHBook`, for a conforming feed or a
  build with assertions (an over-fill with assertions compiled out does wrap a
  quantity, which `ITCHBook` never does).
* **OrderLists** (`OrderListsProofs`): `ListsAreSound` (`WellLinked`) and
  `ListsImplementQueues`, the refinement of `OrderQueues`.  `WellLinked` is not
  inductive: it says what walks meet, and not that every node met carries the
  level it is in, without which unlinking may touch another list.  The invariant
  `ListsInv` says that there are queues Q and a stack F the memory stands for
  (`Lists`: next, prev, head and tail are those of Q, free_head_ and next those of
  F, no node is in two of them) and that mapped orders are where their index says
  (`Homes`).  `alloc`, `free`, `add_order`, `remove_order`, `relink` each have a lemma
  that says how they change Q and F; a recentre is an induction over its visits
  (`Placed`: the orders visited are in place, the others in no list); and a walk
  along links that chain a queue is that queue (`WalkIs`).
* **SPSCQueue** (`PipelineProofs`): `RaceFreedom`, `WindowHolds`, `SizeBrackets` (the
  masked difference of the indices is exact under the window, lemma `SizeExact`,
  so a late view only errs to one side) and `QueueIsFIFO`, the
  refinement of `BoundedFIFO`, for every capacity and unboundedly many items.  The
  invariant `QueueInv` is the chain head_seen <= head_ <= tail_seen <= tail_ <
  head_seen + Capacity, what a push or pop in progress has seen, and that a copied
  item is in its slot.  The arithmetic rests on `SlotNear`: counts less than
  Capacity apart share a slot only if equal.
* **Pipeline** (`PipelineProofs`): `PipelineUsesQueue` (the program drives the queue by
  its protocol, and so inherits the theorems above), `BufferSafety` (frames lie in the
  buffer and structs in their frames), `ExitIsSafe` and `CountsAgree`, for every file.  `PipelineInv` adds to `QueueInv` that the flag
  is raised with no push in progress, and that past `LoadDone` every push is in view.
  `ReplayIsFaithful` (`EndToEnd`) follows every message through the program:
  `ReplayInv` says that the reader's position is the end of the frames read so far
  on the longest chain of frames of the file, that the k-th slot in use holds the
  message of the k-th frame, and that `applied` is what has a handler of those booked.
* **Analytics** (`AnalyticsProofs`): `QuietCallsAreExact`, from the invariant `QuietInv`
  on the side being read, the sides before it and those after it; `QuotesTheMarket`
  and `DepthOfTheMarket`, from `Fed` and `Accounts`: with the prices inside the window
  the levels a loop visits partition the live orders within as many ticks.
* **Histogram** (`LatencyHarnessProofs`): `PercentilesAreRanks` and `RowsAreOrdered`, in
  every state of the harness.  `HistInv` says that each bucket counts the recorded
  latencies that fall in it; a running sum of buckets is then the number of
  latencies up to one, and the first bucket where it passes the rank holds it.
* **Books driven by messages** (the last section of `OrderBookFeedProofs`): shared by
  the next two.  A book that *agrees* with a map of orders (`Agrees`: the order seen
  through `order_map_` under each reference, and the session flag) and is sent a
  message that takes that map to another (`Evolves`) stops or agrees with the other
  (`DispatchApplies`, `AppliedAgrees`); and when all prices lie within one window's
  width, no recentre leaves an order out (`AppliedKept`).
* **LobsterValidator** (`LobsterValidatorProofs`), for every session, of any length and
  with any lines unreadable.  `SnapshotsComparedOnTime`, from the invariant `InTime`:
  the snapshots compared so far are those whose time the messages so far have
  reached.  So a snapshot compared in a turn is reached by its message and by none
  before (`TimesAreNumbers`, `WithinRows`: times and row numbers as plain numbers).  `ReplayFollowsMarket`: there is a history of the market, one moment per
  message of the file (`Tracks`), and after n messages the book agrees with its n-th
  moment unless an assertion has stopped it, and leaves no order out if the prices
  fit (`Followed`).
  `PerfectBook` (`PerfectBookScoresZero`), under the conditions the property
  states: readable times and messages, distinct times, quantities and prices that
  fit.  The k-th snapshot is then due in the turn of the k-th event that concerns
  orders (`Nth`, `Picked`: the rank of an event among those), and `compare` scans the
  levels of a side in the order of the prices of its row: that the scan counts 0
  is shown by a least row that would differ (`CompareAllZero`).
  `LeftOutOrdersReported` is the converse, for prices that need not fit: with rows as deep as the market, a
  snapshot that counts nothing shows that every live order is in a level.
* **Benchmarks of the harness** (`LatencyHarnessProofs`): `HarnessFitsPool`
  (`PoolSuffices`), `LatenciesAreOfHits` (`MeasuresHits`), `HarnessMessagesAct`, `HarnessIsSteady` and
  `HarnessLocksWindow`, for `HarnessSpec` with any sizes within `HarnessSizes` and any
  number of iterations.  None is inductive: whether a delete hits depends on all
  the iterations before it.  The invariant `HarnessInv` therefore says what the book
  holds exactly.  Its book is `Good` (`IndInv`, `Fed`, `Accounts`, no order left out, every
  side centred on one of its prices or not yet), and the program is in one of four
  phases: `InSetup`, n messages of the set-up's script sent and their orders live;
  `AtRest`, the live orders are `Steady(bench, iter)`, order by order, down to the
  shares that iter cancels, in turn, have left each order of the pool (`Taken`);
  `Midway`, the same but for the order the timed operation added or took; and
  `Finished`.  Each phase's step is one lemma, over one lemma per kind of message
  (`DriveAdd`, `DriveDelete`, `DriveCancel`, `DriveReplace`).  The set-ups are
  sequences flattened from pairs; `WarmBook` and `SetupIs` compute them once.  The
  window is locked because an order of the warm-up rests at the best price: it is
  linked, so the reference price is no worse, and no price of the side is better.

Recursive functions (running sums, a chain of frames, a recentre's loop, a walk) are
reasoned about by a least counterexample, since no induction rule with an
operator parameter can be used.

Only model-checked: liveness (`Terminates`), which the prover does not reach, and the
loops of `bench_book` (`EveryMessageActs`, `SteadyState`, `PoolSuffices` and `WindowLockedIn` under
`WorkloadSpec`): six of them send the harness's messages, but the mixed workload
interleaves three cursors, one of which overtakes another, and `Replace_NewLevel`
moves between levels; their steady states are not those of the harness.

## 5. Where the code and its documents disagree

| Run | Statement | What the code does |
|---|---|---|
| `claim_level_idx` | the assertions at `order_book.cpp:53` and `:69`; `:91-93` says that a recentre that leaves a bid out of range "can't happen" | a bid below the floor recentres too, and leaves out every better bid; a legal message about an order that was left out fails the assertions, or indexes the array at -1 in a release build |
| `claim_fifo` | `price_level.hpp:16-17`: head = oldest | a recentre re-inserts in hash-map order |
| `claim_snapshot` | `lobster_validator.hpp:38`: a row is the depth "after each event" | of two events at one time, the second's row is compared before the book has applied it |
| `claim_analytics` | `analytics.hpp:11-12`: figures of "the live book state" from the analytics thread | a handler between two loads gives a best bid and offer the book never had |

Others, met while modelling; the passing properties are stated so that they hold
with them:

* orders left out are not reported, however good (`PLAN.md:886-887` asks for the best
  of all): the condition of `BBOIsBest`;
* price 0 doubles as "not initialised", so that the reference can move under a
  level (`order_book.hpp:25`): a conforming feed has no price 0;
* after a close a replace still brings a new order in (`order_book.hpp:43`):
  `ClosedNeverGrows` counts orders;
* event 'R' (resume, `order_book.hpp:45`) falls to the default branch; the comment at
  `main.cpp:55` says that `dispatch` ignores system events, which it handles;
* a book level that a snapshot lacks is not counted ("0 = perfect",
  `lobster_validator.hpp:51`); a frame that does not parse counts as time 0
  (`lobster_validator.cpp:173`), so that its row waits for the next message
  (`AllParsed`); a second `load` appends to the first;
* `vwap` takes N indices from the reference price, not "the top N levels"
  (`analytics.hpp:43`): `DepthFiguresAreOfTheMarket` says which orders that is;
* `percentile(1.0)` is the last bucket, whatever was recorded (`rdtsc.hpp:93`), and
  `percentile(0.7)` of 90 latencies the one at rank 62, not 63: `PercentileIsRank` is
  about the three arguments that are used;
* the mixed workload's ascending references of adds reach its "current live replace
  target" (`bench_book.cpp:233`) after some 166,670 iterations; it is overwritten and
  deleted, and every later replace is a miss: `CaughtUp` in `SteadyState`;
* replacing between two levels never moves the best price (`bench_book.cpp:162`), as
  `WindowLockedIn` shows, and with an even pool the mixed workload's cancels only
  reach every other order (`bench_book.cpp:248`);
* an order is not zeroed on free (`order.hpp:12-13`): its `next` links the free list.

## 6. Not modelled, and the plan

Not modelled: `Histogram::reset` and the reader's `reset`, `eof` and `bytes_remaining`,
which nothing in the repository calls; prices of 2^31 and above; packed offsets and byte swaps of the message structs (data layout
without state), the number formats of the CSVs and the list of mismatch details,
printing, thread pinning, the time-stamp counter and its calibration (hardware),
and the benchmarks `BM_Parse_*` and `BM_SPSC_RoundTrip`, which call a pure function
or one queue from one thread.  Rounding of doubles is left out of the figures.
The assertions-on build is run with a conforming feed only; any feed with
assertions off (the theorems cover both builds and any feed).
That the latency harness ends is shown as freedom from deadlock with a counter
that only grows, not as a temporal property.

Next, in this order:

1. `SteadyState` and `WindowLockedIn` for the loops of `bench_book`, with `Steady`
   extended to the mixed workload, before and after its adds catch up.
2. `Pipeline` composed with `OrderBook`: the final book is that of the file
   (`ReplayIsFaithful` says which messages it is given, `AppliedAgrees` what each does).
