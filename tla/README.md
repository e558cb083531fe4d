# ITCH-Lab in TLA+

ITCH-Lab replays a day of Nasdaq ITCH messages into order books (C++), converts the result into
research data, trains models, and simulates a market maker against the replayed messages (Python).
This directory holds its formal specification: TLA+ modules translated from the source, TLC
configurations that check them on small instances, and proofs that TLAPS checks for every instance.
Paths are relative to the repository; `cpp/` is `cpp/src/` and `research/` is
`python/src/itchlab_research/` unless spelled out.

| Module | Code | Runs | Proved in |
| --- | --- | --- | --- |
| `Replay` | `cpp/replay/*.cpp`, part of `cpp/validation/validator.cpp` | `replay`, `replay_valid` | `ReplayProofs` |
| `OrderBook`, `PriceTimeBook` | `cpp/book/order_book.cpp` | `order_book_and_research` | `BookProofs` |
| `ReplayPublication` | `cpp/output/manifest.cpp`, `run_replay` of `cpp/apps/itchlab/cli.cpp` | `replay_publication` and two more | `ReplayPublicationProofs` |
| `OrderLifecycle` | `research/simulation/order.py`, `scheduler.py`, `state_machine.py` | `order_lifecycle` | `SimulationProofs` |
| `VisibleQueue` (extends `OrderLifecycle`) | `queue_model.py`, `market_events.py` | `visible_queue` | `SimulationProofs` |
| `SimulationRun` (extends `OrderLifecycle`) | `runner.py`, `risk_limits.py`, `liquidation.py`, quote refresh of `avellaneda_stoikov.py` | `simulation_run` | `SimulationProofs` |
| `Ledger` | `accounting.py`, `liquidation.py` | `ledger` | `LedgerProofs` |
| `ResearchStage`, `RunCatalogue` | the commands of `conversion/service.py`, `datasets/service.py`, `models/service.py`, `simulation/service.py`, with `reporting/service.py` and `interchange/readers.py` where they read a parent | `research_stage` | `ResearchProofs` |
| `ConversionParts` | part rollover of `conversion/service.py`, part reading of `datasets/service.py` | `order_book_and_research`, `part_order` | `ResearchProofs` |
| `DatasetRows` | `datasets/features.py`, `labels.py`, `splits.py`, `service.py` | `order_book_and_research` | `DatasetProofs` |
| `ModelSelection` | `models/service.py`, `logistic.py`, `gradient_boosting.py`; `simulate`, `strategies/signal_adjusted.py`, `calibration.py` | `order_book_and_research` | `ResearchProofs` |
| `PredictionJoin` | `strategies/prediction_join.py` | `order_book_and_research` | `ResearchProofs` |
| `StrategyQuotes` | `strategies/avellaneda_stoikov.py` | `order_book_and_research` | `ResearchProofs` |

To check a module: `tlc -config MCReplay.cfg MCReplay.tla`; to check proofs: `tlapm ReplayProofs.tla`.
`PROJECT.json` maps every definition to the lines it stands for and lists the runs, the mutants that
show each property can fail, the hazards and the theorems. `DataLemmas` holds what the proofs share:
facts about finite sets, sums, numbers, sequences and recursion over them.

## 1. Inventory

### Parts of the system

* **Input and decoding** (`cpp/input`, `cpp/itch`). Byte sources, framing, fixed layouts. State: an
  offset. Hard: nothing but broken input, which arrives at the coordinator as an error. Not modelled.
* **Replay coordinator** (`cpp/replay`). One loop over the messages. State: directory (locate to
  symbol), session (phase of the day, trading state per instrument), one book per selected
  instrument, error policy with a budget of skipped messages, counters, two sinks. Hard: messages
  of every kind in any order; a message before its directory record; skipping; changes while an
  instrument is halted. Correct when it misses nothing, and when events and snapshots say what its
  books hold.
* **Order book** (`cpp/book`). State: live orders, price levels with a FIFO and an aggregate.
  Operations: add, execute, cancel, delete, replace. Hard: three structures changed by one message;
  early returns in the middle; limits of the aggregate; equal prices of a replacement. Correct when
  it implements price-time queues.
* **Writers and publication** (`cpp/output`, `run_replay`). State: the file system - lock directory
  of an identity, staging directory, final directory. Several commands may run at once. Hard: kills
  and failures between any two calls, equal replay ids, an RAII lock release. Correct when only
  whole directories get a final name and nobody shares a staging directory.
* **Validator** (`cpp/validation`). Reads a published replay and rebuilds its books. The
  reconstruction is in `Replay`; parsing and hashing are not modelled.
* **The four research commands** (`conversion`, `datasets`, `models`, `simulation/service.py`).
  `convert`, `build-dataset`, `train` and `simulate` each read completed runs and publish one more,
  with a lock per identity, a staging directory with a marker, a recheck of the parent and one
  rename. State: the file system. Hard: two commands at once, kills and failures between any two
  calls, a parent that somebody rewrites between its hash and its use. Correct when a run root is a
  catalogue of whole runs, each made from what its manifest names.
* **Conversion, inside.** Chunks of up to 1 048 576 records are grouped by symbol and appended to
  Parquet parts, of which at most 32 are open; a part evicted is followed by another. Correct when
  the parts of a partition are its rows in message order, and are read so.
* **Datasets, inside.** Per day and symbol, one pass makes feature rows from rolling event and clock
  windows, another makes labels that look a horizon ahead, and a join pairs, filters and counts
  them. Hard: broken trades after the fact, windows that start, rows that end at different times.
  Correct when a feature uses nothing later and a dataset holds exactly the rows of the rules.
* **Models and selection, inside.** Grids with tolerances and tie rules, families, signal weights and
  intensities are chosen on training and validation rows. Correct when nothing is chosen once a test
  row is in memory, and what is chosen is as good as the rules say.
* **Order lifecycle** (`order.py`, `scheduler.py`, `state_machine.py`). State: orders, one slot per
  symbol and side, pending actions with a latency. Operations: market message (before and after),
  submit, request cancel, fill, invalidate, expire. Hard: an action that falls due for an order that
  has ended; a cancel before the activation; ties with market messages.
* **Visible queue** (`queue_model.py`). State: historical orders, for each simulated order the
  shares displayed ahead of it. Operations: the eight market messages. Hard: incremental bookkeeping
  over reused references, anomalies, one fill for one execution, crossed quotes.
* **Day runner and risk gate** (`runner.py`, `risk_limits.py`, `liquidation.py`). Drives all of the
  above per event and settles at session end. Hard: the gate decides on a position and pending
  orders that change afterwards.
* **Ledger** (`accounting.py`). Signed 64-bit cash, fees, spread capture, mark-to-market, slippage.
  Operations: mark, queue fill, plan and commit of a settlement. Hard: overflow in the middle of a
  call, a plan that became stale.
* **Strategy** (`research/strategies`). State: the cursor of a prediction stream with a buffer of
  rows put back, and per symbol the newest quote and the midpoint changes of a trailing window.
  Operations: observe a quote, decide. Hard: errors in the middle of a call, rows read ahead, edges
  of the window, locked books and prices off the tick grid.
* **Reports, metrics, command lines, configuration, canonical JSON, hashes, diagnostics,
  benchmark.** Parsing, formatting, pure functions. Not modelled.

### How they interact

The two languages share files only: a replay directory is published once and read later. Within a
replay and within a research command everything is one thread; concurrency is between commands that
share an output root. Within a
simulation everything is one thread as well: the runner calls, for every event, the queue (which
calls the state machine), then the ledger, then marks, then the strategy and the gate (which call
the state machine again). What is hard there is the order of the calls and what happens between a
decision and its effect after a latency.

## 2. The modules

Every module opens with what it abstracts. The common conventions: a call that the code answers with
an error before it changes anything is a disabled action; an error that ends the run is a step that
records it; amounts, prices and quantities are small integers, and where a width matters its limit
is a constant (`MaxMoney`, `MaxTotal`).

**Replay.** A step is one message, of any kind, for any locate, at any time of the day. `Stop` is
the return of an error. `Undecodable`, `SystemEvent`, `StockDirectory`, `Filtered`, `Misnamed`,
`PassedOver`, `TradingAction`, `BookUpdate`, `BookRejection` and `TradePrint` are the branches of
`ReplayCoordinator::run` in their order; `EndOfFile` is its end with the reconciliation of the
counters. A book is its map of live orders (that the queues behind it are right is the subject of
`OrderBook`). The event of a message is built from the mutation as the code does (`Event`), and
`MessageOf` and `Agrees` are what the deep validation makes of it, so `rebuilt` holds the books a
validator has after the events written so far.

**OrderBook** has the order map and the levels as separate state and every message as the code
treats it, with the aggregate limit and the message index checked where the code checks them.
**PriceTimeBook** is the promise: a queue per side and price. `OrderBook` implements it by
`Promise == INSTANCE PriceTimeBook WITH queues <- ...`.

**ReplayPublication.** One step per file-system call of `prepare_replay_run`, `run_replay` and
`publish_replay_run`, for several processes with one identity. Any process may be killed between
any two calls, calls may fail, the clock may give two processes one id, the directory iterator may
return entries that come and go, and the user may remove stale locks and partial directories or
alter a final one. `before` and `altered` are history for the properties.

**OrderLifecycle.** `BeforeMarketEvent` and `AfterMarketTimestamp` apply the actions that are due in
the order of their effective time and sequence; the other actions are the public calls of the state
machine. Latencies are chosen once, as the configuration does.

**VisibleQueue** adds the visible book and one tracker per exposed order. A market message is one
step that runs the state machine, the visible change, at most one fill, and the invalidations.

**SimulationRun** is the sequential loop: `at` says which call of the event comes next. What the
queue decides is left open (any passive activations, fills and invalidations that its interface can
return), so the exposure bound does not depend on the queue model. Every error ends the day, with
its reason in `failure`. Four of these are decided by the state: `price` and `inventory`, which
guard the policy, `timestamp` of the order clock, and `symbol` of a row outside the scope. The
others come from what a row or an amount holds, which is not state here, so the call may raise
wherever the code can: `RowRefused` (`process_market_event`: a row malformed or out of order, the
anomaly budget of `queue_model.py:613`, the broken fill of `queue_model.py:431`), `QuoteRefused`
(`runner.py:345`, `runner.py:353`, `update_mark`, `observe_quote`), `SumOverflows` (a fill, the
equity row, the queue ahead of an activation, the terminal plan) and `StrategyFails` (`decide`).

**Ledger** has the calls of `AccountingLedger` in any order. A call that raises ends the scenario,
with whatever it had changed.

**ResearchStage** is one module for the four commands, since they share the protocol; `kind` says
which, and decides how a command reads its parent (`ReadableReplay`, `ReadableConversion`,
`ReadableDataset`, or before the lock in `simulate`) and how it rechecks it (`ReplaysUnchanged`,
`ConversionsUnchanged`, `DatasetUnchanged`, nothing in `simulate`). One step per file-system call;
any command may be killed between two, calls fail where the code handles it, somebody rewrites the
files of the parent with the old or another content, damages completed runs and cleans up behind
commands that were killed or failed. Removing the lock may itself fail (`_remove_lock`,
`conversion/service.py:886`): in `_publish` the command then fails beside its partial run; in
`_prepare_run`, on the way out of an error or of a reuse, it ends `stuck`, with its lock and no run.
A content stands for its hash. **RunCatalogue** is what a root promises: a run appears in one step,
whole, under an id of its own, never changes, and, where the parent is rechecked, was computed from
the content its manifest claims.

**ConversionParts**: `ReadChunk` groups a chunk by symbol, `WriteBatch` appends one batch with the
eviction and the new part it may need, `Validate` is the inspection at the end, `InputBatches` the
reading of the next stage.

**DatasetRows**: `PullFeature` and `PullLabel` are the two generators, each with the rows it reads
ahead, `JoinRow` pairs and filters, `EndDay` ends a partition or the build. `SharesOf` gives the
shares of an execution: any naturals in the proofs, and in the run the powers of two, so that a wrong
sum over a window cannot equal the right one.

**ModelSelection** is one study: `train` from its first load to its experiment, then `simulate` from
its selection days to its test scenarios. `inMemory` says which partitions are in memory.

**PredictionJoin**: `Select` is one call with everything it takes from the stream, keeps and puts
back, for any order of decision keys and any rows at fault.

**StrategyQuotes**: `ObserveQuote` prunes the window and appends a change, `DecideQuotes` estimates
and rounds; both may refuse without a change. The ticks that the formula desires are any pair.

The modules of the research commands and the simulation share no variable, because the programs
share only files: `DatasetRows` starts from what `ConversionParts` writes in message order, and
`ModelSelection` from what `DatasetRows` calls complete.

## 3. Runs

| Run | Question | Instance | Distinct states |
| --- | --- | --- | --- |
| `replay` | Does a replay miss nothing, and do events and snapshots say what the books hold? | 2 locates, 2 symbols, 1 requested, 2 references, 2 prices, 2 shares, 3 times around the session, system events S, Q and M, depth 1, budget 1, 6 messages | 558 742 |
| `replay_valid` | Is what a completed replay wrote valid? (refuted) | the same with 2 messages | |
| `order_book_and_research` | Is each of the six sequential components right? (see below) | 3 references, 2 prices, aggregate limit 3; streams of up to 5 rows over 3 symbols and one of 33; 3 days, the first in 4 376 forms; the 4 and 8 candidates of the default grids, 3 weights, 5 losses; up to 3 predictions; 3 quotes of 4 kinds | 372 236 |
| `part_order` | Is a partition read in message order? (refuted) | a stream of 33 rows over 3 symbols, 2 open files | 135 |
| `research_stage` | Do the commands of one stage keep a catalogue of honest runs? | 2 commands, 2 ids, 2 contents, 2 rewrites, each of 4 stages | 1 721 079 |
| `replay_publication` | Are only whole replays published, by one writer each? | 3 processes, 2 ids | 875 648 |
| `replay_publication_partial`, `_owner` | Two promises of the contract document (refuted) | the same | |
| `order_lifecycle` | Slots, schedule, ties and state diagram | 2 orders, 2 slots, latencies to 2, times to 3 | 237 432 |
| `visible_queue` | Is the incremental queue the exact one, and is each fill earned? | 1 simulated order, 2 references, 2 prices, 2 shares, 4 messages, 1 anomaly | 241 086 |
| `simulation_run` | Is the exposure bounded, does no policy error occur, does a day that nothing else stops end flat? | 1 symbol and one outside the scope, 3 orders of 2, limit 3, 4 events, latency to 1 | 1 636 366 |
| `ledger` | Do positions and the decomposition agree, and is a plan current? | 2 symbols, 3 orders of 2, limit 2, 64-bit limit lowered to 700, 5 revisions | 464 654 |

### Why the bounds are enough

* `replay`: the longest story is directory record, trading, add, halt, delete, resumption: six
  messages. Two references make a replacement, two prices a change of the best one, two shares a
  partial execution; the three times lie before, in and at the end of the session. One budgeted
  error makes both a skip and an exhausted budget. `MaxMessages` bounds the file.
* `order_book_and_research`: the six are called by one thread each and share nothing, so `component`
  picks one at the start and the product of their states is never built. Book: the limit of 3 is one
  less than two full orders, so a level is refused in every message that can raise its aggregate;
  five indexes let an index go back or repeat; three orders make a first, a middle and a last of a
  queue. Parts: two open files and three symbols evict in every order within five rows; the long
  stream opens eleven parts. Rows: five messages let an execution wait, enter windows of one and two
  transitions, leave one of them and be broken at any point; two later days end the build whole; two
  inputs are out of order. Selection: losses up to four tolerances apart are enough for three ties in
  a row. Join: two rows before a decision and one after, one of them at fault. Quotes: three make two
  changes, of which the first leaves the window; one of the kinds is locked, one off the grid, one
  crossed.
* `research_stage`: one command that publishes and one that waits, scans or collides with it; two
  rewrites can put another content in place of the first and the first back.
* `replay_publication`: one process that publishes, one that takes the lock meanwhile, and one that
  looks on. Two ids let two of them collide while another does not.
* `order_lifecycle`: two orders compete for a slot or fill both; latencies 0 to 2 over times 0 to 3
  put an action before, at and after a message and past midnight.
* `visible_queue`: one reference ahead, one behind, reuse of either; four messages are join, change
  ahead, execution, repeat. Orders only meet through the market, so one simulated order is enough.
* `simulation_run`: with a limit of 3 and orders of 2, one side alone fits and a second fill does
  not. Three orders give a bid, an ask and a successor in a slot that was freed.
* `ledger`: 700 is reached by products of the largest prices and quantities of the instance and not
  by the smaller ones, so a call overflows in each of its sums.

Deadlock is not checked where the program stops by itself (a day ends, a file ends, every command
has ended).

Only orders, references, locates, processes and ids are symmetric, and only in runs without
liveness. `DaySettles`, the one liveness property, assumes weak fairness of the next step of the
loop (`SimSpec`). The code justifies it: the loop is a `for` over a finite list in one thread that
waits for nobody; every step is the next call in it, and `MaxEvents` bounds the list. Nothing else
is assumed to be fair; commands of the
replay and of the research stages may stop anywhere.

## 4. Properties and theorems

TLC checks all of them; those marked T are proved for every value of the constants.

* **Replay.** `ReplayInv` (T): budget, one locate per symbol, counters that add up, so the final
  reconciliation never fails. `EventsRebuildBooks` (T): the written events rebuild the books.
  `SnapshotsAreCurrent` (T): while snapshots are allowed the last one shows the present top levels,
  after a halt too. `SessionRules` (T): trading states follow the phases. `NothingMissed` (T): no
  message of a selected instrument was filtered out.
* **Book.** `BookInv`: a level holds exactly its live orders, in priority, and their total.
  `BestIsBest`: the first level shown is the best live price. `KeepsPriceTimePriority`: the book
  implements `PriceTimeBook` (all T).
* **Publication.** `PublicationInv` (T), `PublishedIsWhole` (T), `SingleWriter` (T),
  `StaleOnlyByCrash` (T), `NoNeedlessReplay` (T): a replay that was not forced runs only where no
  intact completed one was.
* **Lifecycle.** `LifecycleInv`, `SlotExclusive`, `LiveOrdersScheduled`, `NothingOverdue`,
  `FillsRespectLatency`, `LifecycleEdges` (all T).
* **Queue.** `AheadExact`: the incremental queue is the displayed orders that were there before.
  `NoExposedCross`: no order stays exposed at a price the other side reaches. `FillsAreEarned`: a fill
  has nothing ahead, an execution behind it and a match number of its own (all T).
* **Day.** `SimInv`, `ExposureBounded` (both T). `PolicyNeverFails` (T): no fill comes without a
  mark, no decision or final position without a quote, no inventory leaves its limit; a day may
  still stop for a row, symbol, quote, sum or strategy error, or for an action past midnight.
  `DaySettles`: a day that none of these stops ends flat. And `SimulationImplementsLifecycle`: every
  step of the day is a step of `OrderLifecycle` or a stutter, so all theorems about the lifecycle
  hold inside the day.
* **Ledger.** `LedgerInv`: a position is the signed sum of the accounted fills, within the limit.
  `Reconciles`: profit is the sum of its components, also after a call that raised.
  `ClosesCurrentPositions`: a settlement closes the positions of its own moment, so a plan that
  something overtook is refused (all T).
* **Research stage.** `StageInv` (T), `SingleWriter` (T): two live commands never write one staging
  directory. `LockMarksPartial` (T): a lock left behind means a kill, a partial run to inspect, or an
  error of `_prepare_run` that said the lock could not be removed.
  `NoNeedlessRun` (T): a run its listing showed is reused, unless forced or damaged. `Implements`
  (T): the root implements `RunCatalogue`.
* **Conversion.** `PartsKeepStream` (T): the parts of a partition hold its rows, each once and in order,
  whatever was evicted.
* **Datasets.** `FeaturesAreCausal` (T): a feature row has exactly what is in its windows up to its own
  message. `DatasetIsWhole` (T): a complete dataset holds exactly the rows that the filters leave, with
  the labels of their own future in their own day, and of the checks modelled only those for disorder
  and for a partition or class without a row can fail a build. (The code also refuses rows outside
  the session and on price checks, section 6.)
* **Selection.** `FrozenBeforeTest` (T): when test rows are in memory the choices are made and good.
* **Strategy.** `UsesNewestPrediction` (T): no row is lost or reordered by any sequence of decisions and
  errors, and a decision gets the newest row not after it. `DecisionsAreCausal` (T): the pruned window
  gives the estimate of the whole past, and proposals take nothing from the newest quote.

### How the proofs go

The constants are assumed to be what the module's named `ASSUME` says (a distinct absent value,
natural bounds, slots that are symbol and side); nothing else. One assumption is about values:
`GridsAssumption` of `ModelSelection` has the form of the grids, because the schema of the experiment
configuration fixes every value in them and the bound of `FrozenBeforeTest` depends on their order.

Sums, filters and flattened sequences are recursive, and the library's induction theorems take an
operator, which the installed provers cannot instantiate. `DataLemmas` therefore inducts by smallest
counterexample: a nonempty set of subsets of a finite set has a minimal element (`Smallest`, from the
well-foundedness of strict inclusion), and a nonempty set of naturals a least one (`Least`). From
these follow that a recursive function exists and is unique (`RecursionExists`, `RecursionAgrees`,
`SumDefined`), and then what each step of a recursion does (`SumInsert`, `SumReindexed`, `FlatAppend`).

* `ReplayProofs`: the five properties are proved together as `Inv`, which adds two facts. A filtered
  message leaves its locate known or marked as unresolved, without which a later directory record
  could select it. A snapshot exists only when the event file has reached the session: since the
  writer refuses a time that goes back, no change before the session can follow it unseen.
* `ReplayPublicationProofs`: a writer finds only its own files because nobody else writes its
  directory, and nobody does because `create_directory` fails on one that exists and each live
  writer's does. The two are proved together with the file list a process has before each call.
  `NoNeedlessReplay` rests on a second invariant, `ScanInv`: of the
  completed replays there were when a process took the lock, each is still to be returned by its
  iterator or has been altered; completed directories are never removed.
* `SimulationProofs`, lifecycle: `LifecycleInv` ties the state of an order to its remainder, its
  slot and its time. A slot is released only by the order that holds it, so two live orders never
  share one; a batch of due actions is handled order by order, and what one action does to its order
  is an edge of the diagram (`CommitOneEdge`, `BatchEdge`).
* `SimulationProofs`, visible queue: a message is one step with three stages: due actions, its own
  change of the book, the end of crossed orders. `Exact` relates orders, queues and book of any
  stage, so each change has one lemma. Two facts strengthen it: a slot has one exposed order, so an
  execution that fills one queue shrinks no other; and no queue joined later than the next message,
  so whatever that message displays is behind every queue, also under a reused reference.
* `BookProofs`: a message changes the maps of orders and levels by three steps: an order joins a level
  behind the others, leaves one, or shrinks in place. `BookOK` is the invariant written for any two
  maps, so a replacement is two of the steps. The aggregate of a level is the sum over its members,
  which each step changes by one term. Priorities grow with every message, so the order of a FIFO is
  the order of its priorities and the queue after a step is what the promise says.
* `LedgerProofs`: a plan carries the revision it was made at, no revision returns, and a plan of the
  present revision closes the present positions (`PlanInv`). A fill adds one term to one sum of
  `LedgerInv`. For `Reconciles` the value of every row is recomputed: one mark or one fill changes the
  row of its symbol, and the products of old and new mark cancel against the components it books.
* `SimulationProofs`, day: the gate looks at an order once, while fills of others come later. The
  exposure of one order survives them because the two cannot be on one side (slots are exclusive),
  and a fill on the other side moves the position away from the limit that concerns it, up to its
  own. This needs the bound on the position itself, which is why `SimInv` has both.
* `ResearchProofs`, stage: every rewrite moves the file identity. `HonestUse` says that what a command
  has read is what it claims, or its loaded identity differs from the present one, and then the
  recheck will see it; identities never come back. `StagingOwned` and `LockOwned` are the ownership
  facts that make a rename publish the command's own, whole directory under a free id; the scan
  needs, beside them, that an entry its listing showed stays what it was until somebody damages it.
* `ResearchProofs`, parts: a chunk starts right after the rows read before it, so a batch is the rows
  of its symbol between two positions of the stream, and appending it to the last part or to a new
  one extends the flattened parts by just these (`FlatExtended`).
* `ResearchProofs`, join: the rows taken from the stream, kept and put back are always the stream
  cut at the cursor, the buffer first; what a call passes over is behind its decision key, and keys
  of accepted decisions only grow, so the row kept is the newest.
* `ResearchProofs`, quotes: a change outside the window of a quote is outside that of every later
  one, since times of accepted quotes and decisions do not go back; so pruning removes no term of
  a later sum, and the sum over the changes kept is that over all past changes inside the window.
* `ResearchProofs`, selection: how far the choice of a search stands above the least loss is bounded
  by a potential, `Gap`, that depends on the candidate chosen and on how many were tried. A choice by
  a tie adds one tolerance, a candidate passed over may have come one below, a choice by a lower
  loss takes one away. Over the eight boosting candidates in their order no path of ties passes
  three (`BoostingKeys`, `LaterCandidate`); among the logistic ones later is never simpler.

* `DatasetProofs`, features: the flow is incremental, the property speaks of the whole day. `FlowIs`
  says of each field of `_FeatureState` what it is as a function of the events read so far and the
  messages of the rows so far. A bucket holds the executions between two rows. A match holds its
  executions that are still in a window and is forgotten with the last of them. The total of a
  window is the shares of its executions that are active, and an execution is active only if nothing
  broke its match since; the converse holds unless a break came before it, after which only a
  forgotten match counts again, hence the two sets of the property, `sure` and `open`. A clock queue
  is the recent times, and dropping old ones from its head loses none because times rise. An event
  keeps this (`FlowConsumes`), a row keeps this (`FlowTakesRow`), and catching up with a snapshot
  reads exactly the events of no later message, or fails (`CaughtUpReads`).
* `DatasetProofs`, rows: the label queue holds the rows from the oldest unlabelled one to the last
  one read, so the k-th label is that of the k-th row and sees rows of the same day only. Both
  generators are thus at one row, and the comparison of their keys never fails. What a partition
  counts and keeps is then a function of the number of rows joined (`BuildInv`), and at the end of the
  day that number is all of them. The invariant was checked by TLC on the instance of the run before
  it was proved.

Three assumptions of `DatasetRows` describe its input. A qualifying snapshot has an event with its
message, time and kind in the day, because the replay writes the event of a message before its
snapshot (`replay_coordinator.cpp:530`, `:565`); on a day without one the code fails, correctly, for a
reason that `DatasetIsWhole` does not list. The horizons are finitely many. And the value that stands
for an absent row is no row.

### Only model-checked

* `DaySettles`: liveness; TLAPS proves neither liveness under fairness nor `ENABLED`.
* The four properties that the code does not have (section 5).

## 5. What the models say against the documents

1. `replay_valid`: a trade or cross of zero shares passes the decoder and the coordinator
   (`replay_coordinator.cpp:639`) and is written with a valid quantity of 0; the validator
   (`validator.cpp:1188`) and the Python reader (`readers.py:456`) reject the file, although "artefacts
   are hashed, validated and atomically published" (`docs/03-system-architecture.md:263`).
2. `part_order`: `_input_batches` sorts the parts of a partition by path as text
   (`datasets/service.py:741`), part-10 before part-2, while conversion numbers them as it writes
   (`conversion/service.py:719-722`) and both validations go by number. With more than 32
   interleaved symbols every chunk may open a new part, and from the eleventh on build-dataset fails
   on rows out of order, although "rows are physically sorted by symbol_id then message_index"
   (`docs/04-data-model.md:183`).
3. `replay_publication_partial`: publication removes lock and marker before its last rename, so an
   interrupted one leaves a partial directory that blocks nothing (`manifest.cpp:744`);
   `docs/05-api-contracts.md:207` says such a directory makes a replay fail.
4. `replay_publication_owner`: the RAII release removes the lock path a second time after publication
   (`cli.cpp:1194`), when it may belong to another command; `docs/05-api-contracts.md:989` says one
   process owns the run directory while its lock exists.

Smaller observations that no run is spent on.

* The states that a system event changes within the session write no snapshot, only trading actions
  do (`docs/05-api-contracts.md:129`). A source that goes to market hours without a start of system
  hours leaves the instruments it already knows in the pre-opening, and halts those announced later
  (`session_state.cpp:80`). Nothing but the validator looks at the order of the times of system
  events.
* `update_mark` checks the sum of the new values in the order of a dictionary, stores them
  (`accounting.py:272-274`) and then adds them in the order of the symbol ids for its answer; a running
  sum can leave 64 bits in the second order only, with the mark already changed
  (`docs/08-testing-strategy.md:186` speaks of atomic state).
* "Select minimum validation multiclass log loss" with ties of 1e-6
  (`docs/01-product-requirements.md:124`) is decided against the last choice
  (`gradient_boosting.py:111-118`), so the loss chosen may lie three tolerances above the minimum;
  `FrozenBeforeTest` states that bound.
* Between the removal of the lock and the rename of a research run another command may find neither
  and do the same work again (`conversion/service.py:1217-1230`). `NoNeedlessRun` therefore speaks of
  what the listing showed.
* `simulate` hashes a Parquet file by its path and opens the path again
  (`simulation/service.py:483-545`), and rechecks nothing; its root is the one whose runs
  `RunCatalogue` does not call audited. It also rejects every second part of a partition
  (`simulation/service.py:516`).

## 6. Not modelled

Out of scope: byte layouts, JSON documents and schemas, hashing, zlib, floating-point arithmetic of
features, fits, calibrations and quotes, metrics and reports over rows that are final, rendering,
command lines. Input readers, decoder, diagnostics and the progress reporter keep no state that
another part reads.

Within the modelled parts: allocation failures of the book, which are undone by hand
(`order_book.cpp:159`; the replay stops at them); the price heaps of the queue model, whose dead
entries are dropped lazily (`queue_model.py:493`; the best price is read off the visible orders); the
header protocol of the two binary writers; metrics and checkpoint records of the runner; a study
without an experiment, which selects nothing; column types and Parquet row groups of conversion;
depth features of the datasets, and their refusal of a row outside the session
(`features.py:579`, `labels.py:197`), of another partition or with bad prices, each of which fails the
build; the reason why a call of the simulated day refuses a row,
a quote or a sum (only that it may); a stale market key in a fill or an invalidation
(`state_machine.py:569`: checked by equality with the open group, and the queue passes the key of the
event it was called with); the comparison of published documents with recomputed ones when a
run is reused, which is one nondeterministic answer (`ManifestMatches`).

What would come next: the writers composed with `Replay` through its events; the heaps of
`VisibleQueue`; depth features of the datasets.
