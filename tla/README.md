# Verification of the Rev-5 arbitrage bot

The repository is an arbitrage bot for the two markets of one exchange, in C++:
a lock-free tick pipeline (`src/hot_path/`), the threads around it
(`src/cold_path/`) and three programs, `live.cpp`, `paper_trader.cpp` and
`backtester.cpp`. This directory holds TLA+ modules of it, the TLC
configurations that check them on small instances and proofs that TLAPS checks
for every instance. Paths below are relative to the repository's `src/`.

## 1. The system

Each program feeds ticks (order books) to one engine. `process_tick()` stores
the tick, looks for a profit between the two venues, commits the profit to a
ledger, patches two order bodies and calls an order handler. The programs differ
in the feed and in the handler.

    live.cpp          WebSocket thread --ring--> engine loop --> LiveOrderHandler
                                                     |             | REST (two legs)
                                          timeout check            v
                                                     v          exchange
                      order-updates thread ---> OrderTracker <-----'
    paper_trader.cpp  RestPoller thread  --ring--> engine loop --> PaperTradeHandler
    backtester.cpp    memory-mapped file ------> hot loop -----> BacktestOrderHandler

| component | state | operations | what makes it correct | hard because |
|---|---|---|---|---|
| `hot_path/ring_buffer.hpp` SPSC ring | slots, `write_pos`, `read_pos` | `push`, `pop` | each tick once, in order, never read half written | two threads, stale loads, counters that wrap |
| `hot_path/market_state.hpp` | one slot per venue and pair | `update`, `map_to_index`, `reset` | the newest book of each slot | clamped indices |
| `hot_path/signal_eval.hpp` | none | `evaluate_signal` | a signal means a profit on two live quotes | unsigned ages, float bits compared as integers |
| `hot_path/virtual_ledger.hpp` | `quote_balance`, `coin_balance` | `try_arb`, `apply_arb`, seeds | no order beyond budget, coin or depth; balance equals what was earned | minimum over bit patterns, insolvency |
| `hot_path/engine.hpp` | - | `process_tick` | gates in order, commit before submit | the order of commit and failure |
| `hot_path/order_builder.hpp` | two bodies per index | `init_template`, `patch_order` | the body sent is that of the order, and reads as its numbers | shared buffers, fixed widths, digits cut off |
| `cold_path/sim_handler.hpp` | records, attempts | `submit`, `ledger_delta` | ledger and records agree | four partial corrections of one delta |
| `PaperTradeHandler` | records | `submit` | as above | bounded buffer |
| `cold_path/order_tracker.hpp` | `orders_`, `oid_to_local_`, `arb_pairs_` | `track_arb`, `update`, `update_by_exchange_oid`, `check_timeouts`, `handle_leg_failure` | tracker and ledger tell what the exchange did | two threads, no lock; late, lost and unknown reports |
| `cold_path/order_sender.cpp` | per-venue handle, `last_order_id_` | `send_order` | the id returned belongs to the order | blocking call, failure with unknown outcome |
| `LiveOrderHandler` | - | `submit` | both legs sent, then registered | reports overtake the registration |
| WebSocket thread (`live.cpp`) | `c2c1_ready`, `c2c2_ready` | callback, subscribe, push loop | every book of a connection reaches the ring | reconnection, repeated acks, full ring, shutdown |
| order-updates thread (`live.cpp`) | namespace | callback | reports reach the tracker | runs beside the engine |
| engine loop, shutdown (`live.cpp`) | `g_running` | loop, timeout check, drain, joins | ends; nothing waits for ever | producer outlives the consumer |
| `cold_path/rest_poller.cpp` | requests of a cycle, counters, `running_` | `poll_loop`, `start`, `stop` | each request counted once, newest book last | many requests at once, stop at any moment |
| `paper_trader.cpp` main | `g_stop` | push callback, loop, drain, stop | ends; OK polls arrive | as the live shutdown |
| `cold_path/metrics.cpp` | - | `compute_metrics` | one-pass sums equal their definitions | running mean, peak |
| `LatencyStats` (three copies) | extremes, sum, histogram | `record`, percentiles | what is printed is that of the samples, which are not kept | bucket bounds, ranks |
| `cold_path/file_source.cpp` | fd, mapping | `open`, `count`, `close` | no leak on a failed step | partial failure |
| `backtester.cpp` main | trade buffer, templates, ledger | set-up, hot loop, end | every record replayed or a failure reported, everything given back | each step of the set-up may fail |
| `cold_path/config_loader.cpp` | `Config` | `load_config` | the symbols fit their array, each keeps its pair | narrowing to 16 bits, clamped ids |

How they interact. The ring is the only object shared by feed and engine in all
programs; `g_running` / `g_stop` is the only other one. In live mode the tracker
is shared by the engine thread (register, timeouts) and the order-updates thread
(reports), and the ledger is touched by the engine thread alone, in
`process_tick()` and in `handle_leg_failure()`. Callbacks run on the thread of
the library that owns the connection.

`PROJECT.json` lists every component with its status and, under `hazards`, what in
this code is hard to test, each at its line, with the properties that cover it.

## 2. The modules

| module | models | composed of |
|---|---|---|
| `FifoChannel` | abstract specification: a bounded FIFO channel, `Send` and `Receive` | |
| `SpscRing` | `ring_buffer.hpp`, one action per shared access | refines `FifoChannel` |
| `SpscRing_proofs` | the theorems about it | extends `SpscRing` |
| `LiveOrders` | tracker, live handler, sender, order-updates thread, timeout check, the ledger in live mode | |
| `LiveOrders_proofs` | the theorems about it | extends `LiveOrders` |
| `WsFeed` | WebSocket session, push loop, engine loop and shutdown of `live.cpp` | instance of `FifoChannel` |
| `RestFeed` | REST poller, push callback, engine loop and shutdown of `paper_trader.cpp` | instance of `FifoChannel` |
| `WsFeed_proofs`, `RestFeed_proofs` | the theorems about them | extend `WsFeed`, `RestFeed`, and `SequenceLemmas` |
| `MarketState` | the newest books and the index of a venue and pair | |
| `HotPath` | signal, gates, ledger arithmetic, as operators | extends `MarketState` |
| `Backtest` | `process_tick()` with the backtest or paper handler on one thread | extends `HotPath` |
| `Backtest_proofs` | the theorems about it | extends `Backtest` |
| `OrderBodies` | `order_builder.hpp`: templates, `fast_ftoa`, the fixed-width fields | extends `MarketState` |
| `FileSource` | `file_source.cpp`: `open()` call by call, `close()` | |
| `Replay` | `backtester.cpp` from its arguments to its exit code, with the symbols of `config_loader.cpp` | extends `FileSource`, `OrderBodies` |
| `Replay_proofs` | the theorems about it | extends `Replay`, `SequenceLemmas` |
| `RunningSums` | what a loop that adds up a sequence has after each turn | |
| `Metrics` | `compute_metrics()` | extends `RunningSums` |
| `LatencyStats` | the latency accumulator and its percentiles | extends `RunningSums` |
| `Summary_proofs` | the theorems about them | extends `Metrics`, `LatencyStats`, `SequenceLemmas` |
| `SequenceLemmas` | lemmas several proofs share: ends of sequences, least and largest numbers, induction over an interval, functions given by a recurrence | |

The `MC*` modules instantiate them for TLC. An operator named `X_SomeBug`, with
a comment that begins with "Bug:", is a faulty variant of the definition `X` that
follows it. No specification uses it; `PROJECT.json` lists for each property a
variant under which the property fails, so that each property is known to say
something about the code.

### SpscRing
`push()` is three actions: the load of `read_pos` with the full test
(`PushFull`, `PushClaim`), the plain store into the slot (`PushStore`) and the
releasing store of `write_pos` (`PushPublish`); `pop()` likewise. An acquire load
may return any value the other thread has stored since the value this thread saw
before (`Visible`): stale values are allowed, going back is not. The positions
are kept modulo `N * K`, which stands for 2^64; the code's mask requires `N` to be
a power of two, the model only needs `N` to divide the modulus.
`NoDataRace` is the absence of overlapping plain accesses to a slot. `ImplementsFifo`
maps a push to `Send` at its publication and a pop to `Receive` at its copy.

### LiveOrders
The engine thread's program counter `epc` walks through submit (`send`, `wait`,
`oid`, `order`) and through the timeout check (`scan`, `mark`, `sell_leg`); the
order-updates thread has the update it is applying in `ou`. Each access to a
shared map is an action, because nothing in the code orders them: the lookup in
`oid_to_local_` and the write into `orders_` are two actions of the order-updates
thread, the test of `PENDING` and the mark two of the engine's, the reads of the two
legs' states two more. The two reads in `TimedOut` are one step because the engine
thread alone writes TIMEOUT. Undefined behaviour of `std::unordered_map` under a
concurrent insertion is not modelled: a map access is atomic here.

A send has three outcomes: the answer with the order id, a failure of an order
that never reached the exchange, and a failure of one that did (or will:
`SendFailed` leaves it `flying`). It may also never return (no
`CURLOPT_TIMEOUT` is set): `SendAccepted` and `SendFailed` have no fairness. The
exchange accepts, executes, partly executes and cancels; each change is reported
in order or, with `Lossy`, never. Up to `MaxRepeats` reports are delivered again, behind
those sent meanwhile: `ou_thread` subscribes on every "connected" ack (`live.cpp:454-461`), so a
connection acked twice may be subscribed twice. The amounts are not computed: a fired arb books
`Delta`, its reversal `-Delta`, the emergency sale `-Penalty`; `corrected` records which arbs
`handle_leg_failure()` touched, which the balance alone would not tell. `filled_qty` is
stored and never read, so it is left out.

`phase` is where the engine is in the life of the process. `LeaveLoop` takes it from
"run" to "drain" at a moment it is idle (the loop tests the flag once a turn); in the
drain ticks are still handed to the live handler, so `Fire` is enabled, while
`CheckTimeouts` is not, because the check stands in the loop; `DrainDone` ends it.
The order-updates thread may be stopped at any moment after that, which is why a report
need not be applied then (`OrderUpdates` is fair only while the loop runs).

### WsFeed and RestFeed
The ring is an instance of `FifoChannel`, whose refinement by the real ring is
proved; a push may also find the ring full, and a pop find it empty, through an
old value of the other position (`LooksFull`, `DrainDone`: both allow more than
the ring does). `processed` and `accepted` are history variables: the engine's work is
the subject of the other modules.

In `WsFeed` the connection, the server's view of the two namespaces and the undelivered
messages are external; the callback handles one message at a time and is busy while it
pushes. A pop enters `process_tick()` (`busy`) and `TickReturns` leaves it; it has no fairness, because
in live mode an order may be sent in between and a send has no timeout. `OnBadSymbol` is a symbol
that is not a string: its `get<std::string>()` (`live.cpp:345-348`) stands before the try block, so the exception leaves
the callback and the process ends (`epc = "aborted"`). `MaxOdd` bounds everything odd together: repeated
acks, messages the callback drops or fails on, namespaces the server disconnects.

In `RestFeed` a cycle starts a request for any of the slots whose easy handle can be made and added
(`BeginCycle`: a handle that is still attached is refused by libcurl, and one that cannot be made is no
request). Requests complete in any order with a book, a body the parser refuses or an error, or are given up
when the poller is stopped; the harvest pushes the books one by one. The push (`Push`) and the count of the poll
(`Counted`, which also takes the handle off the multi handle) are two actions, and the engine may process the book
between them. A book is known by its slot and cycle. There is no clock: time stamps decide nothing here.

### HotPath and Backtest
A tick is handled completely before the next, so an action is one tick:
`DropTick` (validation), `QuietTick` (some gate closed), `FireTick` (commit,
patch, submit). Prices are integers in a unit small enough for the rates to
divide exactly in the instances; quantities are whole. Float rounding is not
modelled. What the code does with the representation is: `Bits` gives a negative
float a larger pattern than any positive one, and `Sub64` wraps. The simulation's
random draws (fill, leg failure) are choices. `coin_balance` is written by the
seeds only and is a constant.

`handler` is which of the two it is; the program that runs decides it once, so it is chosen
in `Init` and never changes.

### OrderBodies, FileSource and Replay
A character of a body is a digit or `Dot`, a field a sequence of `Width` of them, a
number a count of units of 10^-`Places`. `fast_ftoa` writes as many of the integer digits,
the point and the decimals as fit, `Written` pads with zeros over whatever the field held, and `Value`
is what the exchange will read. `Pow10` is 10^k, as a function that a proof can unfold.
`TmpLen` is the room `fast_ftoa` has for integer digits (12, shrunk in the run because 10^12 exceeds TLC's
integers), and `Writable` says that those of a number find room there and in the field: with 12 and
14 characters that is true of every `uint32_t`, which has at most ten. A number of 2^32 or more, which the
code's cast to `uint32_t` does not define, is not a price or a quantity of the model. `FileSource` has an action for each system call or
test of `open()`, with success and failure; the kernel's side (`descriptors`,
`mapping`) is kept apart from the members, so a leak is a difference between the two.
`Replay` composes them to one run of the backtester: arguments, configuration, file,
buffer, set-up, one action per tick, and the end. What `process_tick()` decides is a choice
in it, within what validation and the seeds allow (only a pair that was seeded can sell):
how it decides is `Backtest`'s subject. A symbol is its position in the
configuration, so a body tells which of several symbols wrote it.

### LatencyStats
One action, `record`; `Percentile` is the report's walk over the histogram. The sum is kept modulo
`UINT64_MAX + 1`; `LatencyAssumption` says that what a program measures does not add up to 2^64 ns, which is 584 years.
The history variable `samples` counts what was measured, from which the properties compute the same anew: `Count`
and `SumOf` are cardinalities, of the samples and of the nanoseconds they are made of, so the definition
against which the accumulator is held is not itself a loop.

### Metrics
The records grow by one trade per step, as the handler appends them; once the summary begins, one
action is one turn of the loop of `compute_metrics()` at its index `i`, and the invariants speak of the first
`i` records after every turn. `RunningSum` is a recursive function and no fold, so that it can be
reasoned about. Integers stand for amounts of money; that every pnl is a multiple of every count that
occurs only fixes the unit (amounts are finitely many rationals) and makes the running mean exact.

## 3. The runs

| run | configuration | shows |
|---|---|---|
| `ring` | 4 slots, counters wrapping after 8, two items | `TypeOK`, `NoDataRace`, `WindowInv`, `ImplementsFifo`, `Drains` |
| `pair` | one arb, reports late or delivered again, failing sends, both orders may expire, stopped at any moment | `OverdueResolves`, `HedgeIsRaised` |
| `legs` | one arb, partial fills, cancellations, lost reports and one delivered again, both orders may expire | `NoPhantomFill`, `AlarmTruthful` |
| `two` | two arbs over both venues, two orders may expire | `TypeOK`, `TrackerConsistent`, `CorrectedAfterTimeout`, `FillIsFinal` |
| `once` | one arb, nothing reported, a second timeout check | violated: `ReversedOnce` |
| `ledger` | one arb, cancellations, late reports | violated: `LedgerAccurate` |
| `race` | one arb, executions reported, one report on its way | violated: `OnlyPendingTimesOut` |
| `hot` | one pair; paper handler: three books, times forwards and backwards; backtest handler: four depths (also empty and negative) and every draw | `TypeOK`, `NoStaleTrade`, `CommitsProfit`, `LastLookRedundant`, `Reconciles`, `BodiesMatch`, `QtyWithinLimits` |
| `ws` | ring of one slot, three books, one reconnection, one odd event (a repeated ack, a dropped message, a symbol that throws, a kick), sends that may never return | `TypeOK`, `NothingLost`, `StaysInOrder`, `SubscribedOnce`, `ShutdownCompletes`, `Resubscribes` |
| `polls` | two slots, any of which may fail to start, three cycles, ring of two slots | `TypeOK`, `EachRequestCounted`, `OkPollsArrive`, `NewestLast`, `ShutdownCompletes` |
| `replay` | two pairs, configurations of up to six symbols with 16 bits shrunk to a modulus of 4, four file sizes, every failure | `TypeOK`, `CleanExit`, `CapacityRespected`, `OrderNamesItsPair`, `BodyReadsBack` |
| `summary` | every session of up to five trades, every bag of up to 21 latencies | `DrawdownIsLargestFall`, `WelfordIsExact`, `PercentilesAreRanks`, `StatsMatchSamples` |

Why the bounds are enough.
- `ring`: four slots and a wrap at eight let each position pass its wrap with the
  ring full, empty and in between; the proofs cover every other size.
- `pair`, `legs`: everything that concerns one arb involves its two orders, the report
  being applied and the report behind it; one report delivered again comes behind every later one of its
  order. The two divide what may befall the orders: the liveness of `pair` has executions only, `legs`
  the partial fills, cancellations and losses that a wrong belief needs. `MaxChecks = 0` means that a timeout check only begins when something it
  reads has changed since the last one: a check without news repeats the last
  one. Where the repetition is the point (`once`) it is 1.
- `two`: two arbs are the least in which records, local ids and the per-venue order ids can be
  confused, and the buy venues of the two are chosen independently.
- `ws`: two books meet a ring of one slot, so the second finds it full, and the third
  comes after that; one reconnection is what the flags must survive.
- `polls`: three cycles let a response be taken for the next cycle's, and a handle that stays attached
  be missed in the one after; two slots complete in either order, and two cycles fill the ring.
- `hot`: the times 1, 2, 4 with a staleness limit of 2 lie on both sides
  of the limit in both directions; the three books lie below, between and above
  the two profit floors; the second order starts from a moved ledger and, with the paper
  handler, a third finds the buffer full.
- `replay`: ids 0 to 4 hold two that exist, one out of range and one that wraps to 0; three symbols let
  one pair be claimed twice with room for another, four and more wrap the count; a field of six
  characters fills up between two and four integer digits and is written at most twice, a long
  number before a short one and the other way round.
- `summary`: gains and losses large enough to set new peaks, to fall below the start
  and below zero; samples on and beside every bucket bound; with 21 of them the 95th
  percentile is neither the largest nor a round rank, and 21 of the largest add up to `UINT64_MAX` exactly. The two summaries share no state, so each is
  explored with the other empty.

Deadlock checking is off where the bounds or the end of the process stop the
model, and on for the others.

### Fairness
- `SpscRing`: a push or pop that was begun is finished, since there is neither loop nor
  lock in it; the engine pops in a loop; an atomic store becomes visible to the
  other thread in finite time.
- `LiveOrders`: the engine's loop reaches its check every 65536 turns whatever
  happens between, hence strong fairness of `CheckTimeouts`; the steps of a check,
  of a registration are weakly fair, and so is the order-updates thread as long as the
  loop runs; the drain ends; time passes. Nothing is assumed of the signal.
  Nothing is assumed of the REST call, the exchange or the connection. `OverdueResolves` and
  `HedgeIsRaised` therefore have a premise, that the engine keeps coming back to its loop
  (`EngineKeepsTurning`): a call that never returns stops the check too, and so does the end of the
  loop; the model has both behaviours.
- `WsFeed`: the threads run, the library reconnects and the server answers a
  CONNECT. `Push` is strongly fair because the loop that repeats it reads newer
  and newer values of the other position. Nothing is assumed of books, signals or
  kicks, nor that `process_tick()` returns: `order_sender.cpp:106` sets no timeout. `ShutdownCompletes` and
  `Resubscribes` have the premise `SendsReturn` instead; without it a send that hangs, also one in the drain, keeps the
  process from ending, and the callback waiting for room.
- `RestFeed`: both threads run, and a request ends (`CURLOPT_TIMEOUT_MS` is set
  there); the paper handler sends nothing, so `process_tick()` returns. The signal has no fairness:
  `ShutdownCompletes` speaks of what follows it. The bound on
  the cycles stands for the pause of `poll_ms` between cycles, in which the main
  thread catches up.

## 4. What is proved

`SpscRing_proofs` proves, for every capacity `N >= 2`, every wrap-around `N * K` with
`K >= 2` and every set of items (`RingAssumption`):

- `TypeCorrect`: `Spec => []TypeOK`.
- `WindowCorrect`: `Spec => []WindowInv`. `NoDataRace` is not inductive: it says
  nothing about how far apart the positions are, and the two stale views decide.
  `WindowInv` is the strengthening: around the circle of size_t values the positions
  stand in the order `seenRead`, `read_pos`, `seenWrite`, `write_pos` within a window of
  `N`, with a slot free inside a push and one filled inside a pop. A step moves one
  of the four, and the lemmas `DistInc` and `DistIncSecond` say what that does
  to the distances.
- `RaceFree`: `Spec => []NoDataRace`. Within such a window two different positions
  less than `N` apart use different slots (`NearSlotsDiffer`, from `DistinctSlots`).
- `RingIsFifo`: `Spec => ImplementsFifo`, the refinement. It needs one
  more invariant, `StoredInv` (a push that is about to publish has
  its item in its slot), and one lemma per kind of step: a store outside the
  window does not change the abstract queue, a publication appends to it, a
  copy takes its head, a release leaves it alone.

These proofs justify that `WsFeed` and `RestFeed` use the channel in place of the
ring.

`LiveOrders_proofs` proves, for any number of arbs, any bounds on reports, expiries and
checks, with or without lost reports and for all amounts (`LiveAssumption`), what
the runs `legs` and `two` check for one and two arbs:

- `TypeCorrect`: `Spec => []TypeOK`, and `TrackerNamesItsOrders`: `Spec =>
  []TrackerConsistent`. Neither is inductive alone: that an index is in range, and
  that an id read from `last_order_id` is that of the order being registered, depends on how
  far submit() has come. The invariant `Inv` adds it in four parts: `Progress` ties
  `epc`, `leg` and `fired` to the lengths of `orders` and `arb_pairs`; `CheckInv` keeps
  what a timeout check points at within what is registered; `IdsInv` says that between
  a send and its registration the id of a venue is that of its leg or none (so a
  failed send cannot lend an older order's id), and otherwise that of an order registered
  before; `MapInv` says that `oid_to_local` knows no order ahead of the one being registered,
  which is why `emplace` never meets a key that is already there.
- `FillsAreReal`: `Spec => []NoPhantomFill`, and `AlarmsAreReal`: `Spec =>
  []AlarmTruthful`, from `Inv` and the invariant `Truth`: every report on its way, the
  update being applied and the buy leg's state held by `handle_leg_failure()` are
  still true of the exchange, and a later order is unknown to it (`LaterUnsent`: the
  send of an order falsifies nothing). The core is `MeansFacts`: a step of the exchange
  never falsifies what a tracker state stands for.
- `CorrectionsAreJustified`: `Spec => []CorrectedAfterTimeout`, from `Inv` and
  `OnlyMarked`: only `MarkTimeout` writes TIMEOUT, a record is reported only with such a
  leg, and only a reported record is corrected. It speaks of `corrected`, so a full reversal that leaves a net
  booking of 0 counts like any other.
- `FillsStay`: `MaxRepeats = 0` implies `Spec => FillIsFinal`, from `Inv`, `Truth` and `LastReport`: "executed" is the last
  report of an order, so none is behind it on its way, and none is left once it was taken or
  written. When a report may be delivered again the statement is false: `update()` (`order_tracker.hpp:63-70`) looks at
  nothing, and an older report behind the fill moves the order back. The other theorems hold with repetitions.

There is one lemma per action and invariant there; `Frames` and `TruthFrames` dispose of the parts an
action does not touch.

`Backtest_proofs` proves all that the run `hot` checks, for every set of ticks, every rate,
balance, depth and number of pairs and for both handlers:

- `TypeCorrect`: `Spec => []TypeOK`.
- `QuotesAreLive`: `Spec => []NoStaleTrade`, from `SignalSound` (what a valid signal names) and
  `AgeIsReal`: a wrapped unsigned age within the limit is a real age. It rests on
  `BacktestAssumption`, that no clock is within `max_stale_ns` of the end of a uint64.
- `ProfitsAreReal`: `Spec => []CommitsProfit`, from `SignalSound` and `BitsPositive`: a pattern below
  the sign bit and above that of a floor is a number above the floor.
- `LimitsHold`: `Spec => QtyWithinLimits`, from `QuantityWithinLimits`. The minimum over patterns is the
  minimum of the numbers only when none is negative: the insolvency guard sees to the budget, the
  imbalance gate (`BalancedDepths`) to the depths, and the inventory is assumed not to be negative
  (`Coin \in Nat`; it is only written by the seeds).
- `BodiesAreTheOrders`: `Spec => []BodiesMatch`, and `LastLookNeverRejects`: `Spec => []LastLookRedundant`,
  for any books and not only those of the run.
- `LedgerMatchesRecords`: `Spec => []Reconciles`. `FilledEffect` says that the three to five corrections of a
  fill amount to one; `SubmitBalances` that each outcome moves ledger and records by the same.
  `earned` is a history variable that adds up the records, so that the sum needs no induction.

The inductive invariant is the conjunction of `BooksInv` (types), `BalanceInv` and `OrderInv` (the last
order is sound on the books as they are now); `FireStep` is its one step that does something.

`WsFeed_proofs` proves the safety properties of the run on `WsFeed` for every capacity of the ring, any number
of books, connections, repeated acks and kicks (`FeedAssumption`):

- `TypeCorrect`: `Spec => []TypeOK`; `NoBookIsLost`: `Spec => []NothingLost`; `BooksStayInOrder`: `Spec =>
  []StaysInOrder`. `Line` is what was processed, what is in the ring and what is being pushed, one
  after the other: a push and a pop do not change it (`PutIn`, `HandedOver`), a book that is taken is appended,
  a book that is given up was its last (`DropOrder`). `OrderInv` adds what is still in the inbox: it comes
  after everything in line, in the order the server numbered it.
- `OneSubscription`: `Spec => []SubscribedOnce`. The argument is in `SessionInv`: the greeting of a connection is alone
  in the inbox, and until it was taken the server holds nothing; an ack on its way is of a
  namespace the server acknowledged; hence at the first ack the flag is down and nothing is subscribed yet.

`RestFeed_proofs` proves the safety properties of the run `polls` for any slots, ring and number of cycles
(`RestAssumption`):

- `TypeCorrect`: `Spec => []TypeOK`; `RequestsAreCounted`: `Spec => []EachRequestCounted`. `CountInv` says that counted,
  in hand, to be read and running requests add up to those started
  (`asked`); each action moves one request on (`SameCount`) or adds those of a cycle (`MoreCount`). `AttachedInv` says whose easy handles
  are on the multi handle: those of the requests that are running, to be read or in hand, and of no other.
- `CountedBooksArrive`: `Spec => []OkPollsArrive`, with the book that is pushed and not yet counted on one side and those given up
  at the shutdown on the other.
- `BooksGrowNewer`: `Spec => []NewestLast`. `OrderInv` adds that no book in line is newer than the
  cycle, and that a slot whose book of this cycle is in line is no longer open (`Open`: running, or
  to be read), so a book that is taken is the newest of its slot (`TakeOrder`).

`Replay_proofs` proves for any file, configuration, number of pairs and orders (`ReplayAssumption`,
`FileAssumption`, `MarketAssumption`, `BodyAssumption`):

- `TypeCorrect`: `Spec => []TypeOK`; `CleanOnEveryPath`: `Spec => []CleanExit`. `FileInv` says what the kernel holds at
  each point of `open()`: the descriptor while `fd_` names it, the pages while `mapped_`; `close()` gives back
  both (`Closed`). `ExitInv`: success only after the last record, failure before the first.
- `SymbolsFit`: `Spec => []CapacityRespected`.
- `BodiesNameThePair`: `Spec => []OrderNamesItsPair`. `TemplateInv`: once set up, the templates of a pair that some symbol
  claims name the last such symbol (it exists: `Largest`), and patching keeps that (`Patched`); an order needs
  coin, and coin is seeded only for a configured pair.

- `FieldsReadBack`: `Spec => []BodyReadsBack`, for any width, number of decimals and field, under the assumption that
  the integer digits of a price or quantity fit (`Writable`). It is inductive with the types of the templates; the
  work is in `FieldReads`, about the operators alone. `PowerNext`, `PowerAdds` and `PowerGrows` are the powers of ten;
  `DigitsRead`: the digits of n, read one by one, give n; `DecimalIs` and `FractionRead`: the decimals that fit,
  and the zeros behind them, give the fraction cut off behind them; `FieldIs` says what stands at each
  position of a field, `PartsAre` what the exchange cuts out of it. What a field held before occurs in none of them.
  What is lost is stated exactly: the places behind the last decimal asked for when the integer digits leave room for all
  of them (at most five with the code's 14 and 8), and those behind the last that finds room otherwise.

`Summary_proofs` proves what the run `summary` checks for any number of trades and samples, any gains and losses and any
bounds of the buckets (`MetricsAssumption`, `LatencyAssumption`):

- `DrawdownFound`: `[]DrawdownIsLargestFall` and `WelfordCorrect`: `[]WelfordIsExact`, both of `Spec`. The invariant
  `MetricsInv` adds to them the types, `SumInv` (balance and total are running sums of the records)
  and `PeakInv` (the peak is the largest equity so far and was reached). A turn extends both parts of the property
  (`TurnKeepsPeak`): a moment that was a peak up to now has the value of the running peak, and fractions are
  compared by products (`Ordered`), so it does not matter that the balance may fall below zero. For Welford's update,
  `DeviationsSum` says how the sum of squared deviations changes when the mean it is taken from changes, and
  `SquaresNext` that one more record adds exactly `delta * (pnl - mean)`.
- `StatsAreExact`: `LatencySpec => []StatsMatchSamples`. `LatencyInv` adds the types and `ExtremeInv` (the extremes of no sample
  are the ends of the type). `CountNext` and `SumNext` say what one more sample does to the two cardinalities,
  `BucketIs` that exactly one bucket is its own.
- `PercentilesCorrect`: `LatencySpec => []PercentilesAreRanks`. `CumIs`: the histogram up to a bucket counts the samples below its
  bound; hence the sample of a rank (`RankedIs`, from `LargestSample`) lies neither above nor below the bucket
  at which the share is first reached (`PercentileIs`, `PercentileMatches`).

The provers cannot instantiate an induction principle that takes a predicate. These proofs do with
sets: `Least` (a set of naturals that is not empty has a least member) gives `Induction` (a set that holds 0 and, with
a number, the next one up to n holds 0 .. n), and `RecurrenceExists` that a function defined step by step exists,
without which nothing is known of a recursive definition.

With that, every invariant and every action property that a run checks is a theorem. Only model-checked are the liveness
properties (`Drains`, `OverdueResolves`, `HedgeIsRaised`, `Resubscribes` and the two `ShutdownCompletes`): TLAPS's
backends do not reason about `ENABLED`, and so not about fairness. The three violations of section 5 are counterexamples.

## 5. Where code and documentation part

Each of these is a finding in `PROJECT.json`. TLC refutes the first three in a run of their own; the
others are what a passing property says of the code where a comment says otherwise.

1. **`once`** - a record is never removed from `arb_pairs_`; a pair that timed
   out is corrected again by every later check (`order_tracker.hpp:98-106,150`).
2. **`ledger`** - "keeps VirtualLedger accurate in live mode" (`live.cpp:419-420`):
   reports change the tracker only. A pair that was cancelled keeps its profit; a
   pair that was reversed and then reported executed does not get it back.
3. **`race`** - "mark TIMEOUT when older than timeout_ms" of "all PENDING orders" (`order_tracker.hpp:83`): a fill written
   between the test (line 91) and the mark (line 93) is overwritten, and its pair corrected or alarmed
   although it was executed. `FillIsFinal` excepts exactly this moment.
4. `LastLookRedundant` - the last look "guards against market movement between signal eval and order send"
   (`engine.hpp:85-86`), but reads the values the signal was computed from, in the same call: it never rejects.
5. `DrawdownIsLargestFall` - "as % of initial balance" (`metrics.hpp:16`), but `metrics.cpp:43` divides by the peak.
6. `BodyReadsBack` - 14 characters are "sufficient for prices up to 999999.99999999" (`order_builder.hpp:86`), which has 15:
   six integer digits leave seven decimals. The property says what is lost, and that nothing is with five.

Seen while modelling and not given a run or a finding of their own:

- the comment at `live.cpp:358-359` has the try block catch what unexpected JSON throws, but the symbol is read before it
  (`live.cpp:345-348`): a symbol that is not a string ends the process (`WsFeed`: `OnBadSymbol`);
- a report delivered again behind a later one moves a FILLED order back to PARTIAL or PENDING, because `update()` writes what it is
  given; `FillIsFinal` is about reports delivered once;
- the check stands in the loop (`live.cpp:534-537`), so orders open when it ends, and all that
  the drain sends (`live.cpp:542`), are registered and never looked at again;
- the latency "REST receipt -> engine pop" (`paper_trader.cpp:241`) and the staleness gate use a time taken at the harvest
  (`rest_poller.cpp:188`), after the slowest request of the cycle;
- a poll is counted OK also when its book was given up at the shutdown (`OkPollsArrive` counts those);
- the branch of `handle_leg_failure()` commented "Both legs failed" (`order_tracker.hpp:148`) is a catch-all: a
  leg that is still open or partly filled is reversed without an alarm;
- the drain of `live.cpp:541` ends before the producer has stopped, so a tick
  pushed later stays in the ring (`WsFeed`: `DrainDone`, then `Push`);
- `metrics.hpp:23` calls `leg_failure_count` the trades whose sell leg
  failed, `metrics.cpp:39` counts every loss;
- the server disconnecting one namespace is not noticed (`live.cpp:327-328`): the
  venue stays silent until the connection is lost; `SubscribedOnce` and `Resubscribes` except it;
- `--fee-rate` changes the records and not the ledger, so `Reconciles` assumes both agree;
- a quantity below 10^-8 is written as 0;
- a pair id out of range is clamped to 0 and its templates overwrite those of pair 0; of two symbols
  with one pair id the bodies name the last, the trade log (`pair_name`) the first
  (`OrderNamesItsPair` says both);
- 65536 symbols pass the size test as none, because the count is narrowed first (`CapacityRespected` excepts it);
- `fee_rate`, `min_profit_usd` and `max_position_pct` of the configuration are loaded and never read
  by the hot path, which uses its compiled constants;
- `paper_trader` leaves `max_exchange_ts_skew_ms` at its default and truncates the record file
  before the configuration has been read; the tick count in its latency profile leaves out the drained ticks;
- `OrderSender::cleanup()` runs twice at the end of `live` (`live.cpp:615` and the destructor), and so does
  `curl_global_cleanup()`.

## 6. What is not modelled

- Rounding of floats and NaN: prices and balances are integers. What is done with their bits, with
  unsigned differences and with the digits is modelled. A price that `from_chars` reads as NaN passes the
  comparisons of `live.cpp:396-397`, and its bit pattern is above every floor; no property covers it.
- Time in the feeds: when a tick is stamped, and how long it waits, changes nothing in `WsFeed` and `RestFeed`.
  What the engine does with stamps, in whatever order, is `Backtest`'s.
- The text extraction of JSON bodies, request signing and headers: pure functions of a text, without
  state, whose outcomes (a book, a refusal, an id, none) are choices in the feeds and in `LiveOrders`.
- Logs, CSV files, printed reports, the clock and SIMD helpers, the configuration keys other than
  the symbols (defaults and copies), the Python tools, which run off line.
- The file of recorded ticks that `paper_trader` writes: a write-only stream that no program
  reads while it is written.
- Hazards without a property, each for the reason its note in `PROJECT.json` gives: the unlocked
  `std::unordered_map` (undefined behaviour of the container itself), a send that never returns (the
  premise of every liveness property of `live.cpp`), the ticks pushed after the drain's last pop, the orders the drain sends, a namespace
  the server disconnects, the stamp at the harvest, and NaN. Of others a property covers a part; the note says which.

## 7. Plan

Done: the ring, the live order life cycle with the end of the process, both feeds with their
shutdowns, the hot path with both simulated handlers, the backtester's run with its order bodies and tick
file, metrics and latency statistics, all with the proofs of the safety properties their runs check.

Left: the file `paper_trader` records its ticks in, with the order of its header, its writes and its
deadline counter; a refinement from `Backtest` and `LiveOrders` to one abstract ledger, which would say in one
place what both handlers promise of it.
