# A verified model of market_simulator

`market_simulator` is an offline simulator of a trading exchange. Strategy code
places and cancels orders, recorded market data moves the order books, and
`process_tick` fires stops and matches orders. This directory holds TLA+ modules
that model the exchange, the replay of recorded data, the sandbox that drives
both, the connector to a trading framework and the metrics; the TLC runs that
check them on small instances; and proofs, checked by TLAPS, for every value of
the constants. Paths in this
file are relative to `src/market_simulator/`.

## 1. The system

| component | state | operations | correct when |
|---|---|---|---|
| `SimulatedExchange` (`simulator/exchange.py`) | books, current timestamp, trade counter, and the components below | `buy`, `sell`, `cancel`, `process_tick`, `_fire_conditional_order`, `_process_fill` | collateral, orders and events agree at every moment strategy code can look |
| `BalanceManager` (`simulator/balance_manager.py`) | total and locked amount of each currency | lock, release, apply a fill, set initial balances | what is locked is what open orders reserve; totals move only with fills and fees |
| `OrderTracker` (`simulator/order_tracker.py`), `InFlightOrder` (`core/types.py`) | orders by identifier, a counter | create, open, cancel, fail, fill, list, clean up | identifiers are fresh, no order is filled beyond its amount, done orders stay done |
| `MatchingEngine` (`simulator/matching_engine.py`) | none; three strategies | `check_and_match` | a match respects the limit, the remaining amount and, for the depth engine, the quantity shown |
| `TriggerEngine` (`simulator/trigger_engine.py`) | a trailing reference per trailing stop | `evaluate`, `clear_trailing_reference` | the reference follows the market one way, and exists only for open trailing stops |
| `SimulatedOrderBook` (`simulator/order_book.py`) | quantity per price on two sides, last price, two sorted caches | snapshot, diffs, trade, queries | no empty or negative level; caches agree with the levels |
| `FeeModel` (`simulator/fee_model.py`) | two rates | `calculate_fee` | the maker rate is for maker orders only |
| `EventBusAdapter` (`hb_compat/event_bus_adapter.py`) | subscriptions | add, remove, `trigger_event` | listeners hear the events of an order in a legal order |
| `ReplayDataSource` (`replay/replay_source.py`) | an event list, sorted on demand | add, iterate, `apply_replay_event` | every event is applied once, in order of time |
| `SandboxEngine` (`hb_compat/sandbox_engine.py`), `SimulatedClock` (`core/clock.py`) | replay cursors, the clock | `run`: replay, tick callback, `process_tick` | no event is lost or repeated; the strategy never sees the future |
| `SimulatedConnector` (`hb_compat/simulated_connector.py`) | its own identifiers, copied balances, a framework's order tracker | place, cancel, status, fill and trigger handlers | its view follows the exchange's |
| metrics (`metrics/performance.py` and its plain copy) | none | five functions of a series | the one-pass computation agrees with the single ones and with their definitions |
| data loading (`replay/data_loader.py`, `replay/data_types.py`) | none | rows of a file to records | no row is lost or used twice |
| connector protocols (`protocols/`) | none | type declarations | - |

**How the parts interact.** Everything runs in one thread. The exchange calls
its components directly and they never call back, with one exception: the event
bus. `trigger_event` runs the listeners before it returns, and a listener may
call `buy`, `sell` or `cancel`. Every call of `trigger_event` in
`exchange.py` is therefore a point where other operations of the same object run
in the middle of this one, to any depth. The driver (`SandboxEngine.run`)
repeats: apply market data, call the strategy, call `process_tick`. The connector
is one more listener, registered before any other, and one more caller.

**What is hard.** Lists copied before listeners run and used after; an order
object kept across `OrderCreated` and matched then; collateral released before
`OrderTriggered` and needed again after it; balances moved in three places
(place, withdraw, fill) by three separate computations of the same amount;
partial fills at averages; stops that must fire in the end; a replay cursor that
is a time and not a place, over a list that user code may add to and that is
sorted again under the iterator; sorted caches of a book that every change must
drop; two names for one order. `PROJECT.json`
lists them as hazards, each at its line with the properties that would catch it.

## 2. The modules

| module | models | state and actions |
|---|---|---|
| `Sums` | - | sums over an index interval, least and greatest element, a set put in order |
| `Orders` | `core/types.py`, the classifications of the tracker and of `_place_order` | pure: `Quantize`, `NewOrder`, `UpdateWithFill`, `Collateral` |
| `BalanceManager` | `simulator/balance_manager.py` | pure: `CanLock`, `LockCollateral`, `ReleaseCollateral`, `ApplyFill` |
| `OrderBook` | `simulator/order_book.py` | pure: best prices, the depth list, `ApplyTrade` |
| `MatchingEngine` | `simulator/matching_engine.py` | pure: `CheckAndMatch` of the engine named by the constant `Engine` |
| `TriggerEngine` | `simulator/trigger_engine.py` | pure: `Fires`, `Evaluated` |
| `Exchange` | `simulator/exchange.py` and the composition of the modules above | the state machine |
| `OrderLifecycle` | what listeners may hear about one order | abstract specification |
| `Replay` | `replay/replay_source.py`, `replay/data_loader.py` | pure: the sort key, `Sortings` (stable), `LoadSnapshots` |
| `EventDelivery` | - | abstract specification: each exchange hears its own events in order, none twice |
| `CachedBook` | `simulator/order_book.py` as an object | pure: snapshot, diffs, trade, the two kept lists and the queries over them |
| `Sandbox` | `hb_compat/sandbox_engine.py` over several exchanges, with the sources, cursors, clock and books | state machine |
| `Metrics` | `metrics/performance.py` | pure: the five functions, as recursive functions over a series |
| `Simulation` | `SandboxEngine.run` around one whole exchange, and `_build_result` | state machine, extends `Exchange` |
| `Connector` | `hb_compat/simulated_connector.py` around the exchange, with the framework's tracker as external code | state machine, extends `Exchange` |
| `ExchangeMC`, `SandboxMC`, `SimulationMC`, `ConnectorMC` | - | the instances TLC checks |
| `SumsProofs`, `OperatorProofs`, `ExchangeProofs`, `RecordProofs`, `ConnectorProofs`, `DeliveryProofs`, `SandboxProofs`, `SimulationProofs` | - | proofs |

`Exchange` keeps the tracker's orders (`orders`, `counter`), the balances, the
book, the trailing references (`refs`), and three variables for the control of
the program:

- `stack` holds the calls that wait inside `trigger_event`, innermost last. A
  frame names the event, the order and, in `_process_fill`, the amount and level
  the rest of the call still needs.
- `phase` says which loop of `process_tick` is running, `todo` which orders of
  the copied list it has not reached.

Each handler is cut exactly at its calls of `trigger_event`; everything between
two cuts is one step, since nothing else can run there.

| code | actions |
|---|---|
| `buy`, `sell`, `_place_order` | `Place`, then `AfterNotice` (failed lock), `AfterCreatedMatch` (market orders) or `AfterCreatedRest` |
| `cancel` | `Cancel`, then `AfterNotice` |
| `process_tick` | `ProcessTick`, `EvaluateOrder`, `FireConditionalOrder`, `StartMatching`, `LeaveOrder`, `MatchOrder`, `EndTick` |
| `_fire_conditional_order` | `FireConditionalOrder`, then `AfterTriggered` |
| `_process_fill` | the operator `ProcessFill` in `MatchOrder` and `AfterCreatedMatch`, then `AfterFilledComplete`, then `ConsumeLiquidity` |
| `apply_replay_event` | `MarketData` |

Two history variables record what no code variable does: `lastEvent`, the last
event dispatched about each order, and `childOf`, the market order a fired order
became. Neither guards an action.

What is abstracted: prices are levels `1 .. MaxPrice` and amounts are integers
(lots), an order carries the cost of its fills instead of their average price,
and a match carries its cost instead of its price together with the one price
level the fill price equals, if any, which is all that `apply_trade` asks. The
strategy is any code: whenever it may run, any request may be placed or any open
order cancelled.

**The sandbox.** `Sandbox` and `Simulation` cut the same loop in two ways.
`Sandbox` has what is before an order: `events` and `sorted` of each source,
`attached`, the configured `range`, the `clock`, and `_apply_events_up_to` event
by event (`SortSource`, `SkipEvent`, `ApplyEvent`, `EndSource`). Matching is only
what fills take off a book. User code runs between runs, in `on_tick` and in
listeners (`UserRuns`); there it may add events, attach sources, query books and
change them. `Simulation` has what is after: each tick leaves some book, lets the
strategy place and cancel, and runs every step of `process_tick` of `Exchange`;
`Finish` builds the result from what the order tracker holds.

| code | actions |
|---|---|
| `add_trades`, `add_order_book_snapshots`, `add_candles` | `AddTrade`, `AddSnapshot`, `AddCandle` |
| `add_replay_data` with `time_range` | `Attach` |
| `run`, `initialize` | `Run`, `EndReplay`, `BeginTick`, `ProcessTicks`, `EndTick`, `FinishRun`; `Simulation`: `ReplayData`, `Strategy`, `Tick`, `CallGoesOn`, `NextTick`, `Finish` |
| `_apply_events_up_to`, `events()`, `apply_replay_event` | `SortSource`, `SkipEvent`, `ApplyEvent`, `EndSource` |
| book queries, fills, diffs | `Query`, `Fill`, `ChangeBook` |
| `_place_order`, `_place_cancel`, `_request_order_status` | `Submit`, `SubmitUnmapped`, `PlaceCancel`, `RequestOrderStatus` |
| `_on_sim_fill`, `_on_sim_triggered` | the operator `Hears`, in every step that dispatches |

**The connector.** Every order has two names: the framework gives it one before
`_place_order`, the exchange another when it creates it, which the connector
drops. The handlers look the order up by the exchange's name all the same.
`NamesAgree` says whether the two are always the same, which is so exactly when
the caller numbers its orders as the tracker will. The framework's tracker is
external code: it keeps the state and the executed amount it is told.

`nameOf` in `Connector` and `heard`, `base` and `late` in `Sandbox` are history
variables as well.

`StaleCancels` is a constant that says whether listeners cancel orders a loop or
suspended call still holds (`Held`). With `TRUE` the code fills cancelled orders
(section 4), and most of what follows is false; with `FALSE` the properties say
what holds for strategies that leave those orders alone. The theorems about
types and amounts hold for both.

Operators commented "Wrong variant, never used" are plausible bugs. Each shows
that some property would notice it: with the variant in the place of the
definition after it, TLC finds the property violated.

## 3. The runs that pass

The first three run `ExchangeMC`.

**exchange_limit** - `LimitOrderEngine`, seven kinds of requests, two markets, up
to four orders (1.8 million states). It checks

- `BaseAccounted`, `QuoteAccounted`: the locked amounts are the sums of what the
  orders reserve. The second excludes accounts that have made a market purchase,
  which reserve nothing (section 4).
- `NoNakedSale`: locked base is never negative, never more than is owned.
- `LedgerMatchesFills`: totals are initial balances moved by recorded fills and fees.
- `HeldOrdersAreOpen`: an order that will be matched without another look is
  open then, and only one loop or call holds it.
- `OnlyFeesOverdraw`: quote may be overdrawn, since no fee is reserved (section 4), but
  by the fees charged and by nothing else, as long as no market purchase was made.
- `OnlyLaterSalesStarve`: while a fired sell stop waits on its listeners, what its
  replacement needs is available but for what sales placed after the stop have taken. A
  listener that sells the released funds makes the replacement fail; nothing else can.
- `CompletionIsAnnounced`, `FiredIsReplacedOnce`, `RefsOnlyForOpenOrders`,
  `TrailFollowsOneWay`, `SellStopCanRelock`: as their comments state.
- `ListenersHearLifecycle`: the exchange implements `OrderLifecycle` under the
  mapping `life <- lastEvent`.

**exchange_depth** - `OrderBookDepthEngine`, three orders, books of up to two
levels a side (226 thousand states): the accounting properties and the lifecycle
where orders fill in parts, at averages, and are cancelled half filled; and

- `LimitsAreKept`: over all its fills no order with a limit paid more than it, or got
  less.
- `WalkIsBest`: what the depth walk takes could not be had at a better cost from any
  other levels within the limit. One book has two bid levels, and one of the sales is limited
  between them.

**exchange_live** - `ImmediateFillEngine`, stops of both sides and a limit
variant, four orders (91 thousand states), under `FairSpec`: `StopsFire` (a stop
whose condition stays true is fired or withdrawn) and `TickReturns`. `TickMakesHeadway`
says without fairness why a tick returns: until control is back with the driver every
step leaves less `Work`, a number that counts what unused identifiers, open orders, the
two loops and suspended calls can still cause.

**sandbox** - `SandboxMC`, two exchanges, four events of three kinds at three times,
two runs (485 thousand states), under `FairSpec`. It checks

- `DeliversInOrder`: the engine implements `EventDelivery` under `horizon <- timestamp`.
- `NothingMissed`: what a run has applied when it has replayed up to a moment is
  exactly what was due. Its definition says what the cursor costs: an event added
  at or before it is never applied, and a second `run()` applies what lies after the
  start again, against what the code says of the cursor (section 4).
- `AnswersAreCurrent`: a kept list of a book answers depth queries as the levels would.
- `TicksAreCounted`: the time and number of ticks, also of a range of which only the
  start was configured, which is empty.
- `RunEnds`: a run ends whatever user code adds meanwhile.
- `RunMakesHeadway`: every step of `run()` lowers `Left` (time, stage, sources to read,
  sources to sort, events to read) in the order of dictionaries, and no step of user code
  changes it.
- `FilesLoad`: every file of up to three rows loads whole. The loader reads no variable;
  it is checked in the first states.

**simulation** - `SimulationMC`, two ticks around `OrderBookDepthEngine` with three
orders (127 thousand states), under `FairSimSpec`. `ReportMatchesLedger` and
`ReportCountsAnnouncements` say how far the reported numbers are those of the account and
of the listeners, and what they leave out; `StampsLagATick`: what `on_tick` does
carries the time of the tick before; `RunReturns`; `MetricsHold`: on all
series of two to five values from -2 to 2 the one-pass metrics, the single
functions and their definitions agree.

**connector** - `ConnectorMC`, with `NamesAgree`. `TrackerHearsFills`,
`TrackerHearsEnds`: the framework's tracker knows what is filled and what has
ended, whether by fills, cancellations or status requests; an order type without a
translation costs a number and nothing else. `ReplacementsAreNameless`,
`TrackerAndReplacementsMakeLedger`: what the framework does not know is exactly
what the replacements of fired stops, and other users of the exchange, have filled.

**Bounds.** `MaxOrders` bounds the identifiers; `Place` leaves enough of them for
every stop that may still fire, so the bound never stops a replacement. Four
orders let two stops fire and be replaced, or one stop, its replacement and two
orders placed by listeners compete for the same collateral. `MaxDepth = 2` lets
strategy code run inside an event of the driver's call, and the calls it makes
dispatch events of their own; the bound cuts only what a listener may start, never what
the program has to finish. `MaxPrice = 3` gives a spread and one level to move
to. Amounts are multiples of 2 with an increment of 2, and 1 and 3 among the
requests are rounded; the fee is half of the cost, which stays exact. The funds
(4 or 6 lots of base, 6 or 12 of quote) cover two or three orders, so that
placing fails in some states.

In `sandbox`, three times and an interval of 2 give events before the start, between ticks
and after the last tick; a candle brings a snapshot of its own time, which is
sorted before it; `MaxRuns = 2` lets a run follow another; `Traded` names the
exchange whose books user code touches, since the books of two exchanges do not
interact. Files of three rows have two rows of one time and one of another,
in every order. In `simulation` the range 1 .. 4 with an interval of 2 has two
ticks, so that an order may be placed in one and filled in the next, and a last
tick before the end. Series of five values have two falls and a rise between them.

**Fairness.** `WF_vars(Resume \/ Loop)`: a synchronous call that has started goes
on, because a listener returns and Python runs on. It is one condition on the
disjunction and not one on each action, since the code has one thread.
`WF_vars(ProcessTick)`: the driver's loop keeps calling `process_tick`. Nothing is
assumed of market data or of the strategy, which may do nothing.
`WF_vars(EngineStep)` in `Sandbox` and `WF(SimStep)` in `Simulation` are the same for
`run()`: `on_tick` and the listeners return and the loop goes on. User code is in
neither; it may act as often as it likes between two steps of the loop.

**Deadlock** is checked in every run but `simulation`, where the system really
stops: a run that has returned does nothing more. Elsewhere an idle exchange can
always be ticked, and user code can always query a book.

## 4. Where the code differs from what it says

Each of these runs checks one property that quotes a comment or docstring, and
TLC finds the behaviour that violates it.

| run | what happens |
|---|---|
| exchange_stale_cancel | Two sales rest and the market reaches both. The listener of the first fill cancels the second; the loop, which goes on with its copied list, fills it all the same (`exchange.py:394`). |
| exchange_buy_stop | A fired buy stop is replaced by a market order at price 0, which locks nothing, although the comment says it is locked at the ask (`exchange.py:582`). |
| exchange_depth_lock | A purchase filled at an average below its limit leaves the difference locked for ever (`balance_manager.py:107`). |
| exchange_depth_book | A fill at an average price takes nothing off the book (`order_book.py:133`). |
| connector_fills | The connector drops the name the exchange gives an order and looks orders up by it; when the framework names orders itself, fills never reach its tracker (`simulated_connector.py:324`, `:501`). |
| sandbox_rerun | `initialize()` moves the cursors back to the start of the range, so a second `run()` applies the events after it again, though the cursors are there "to avoid re-applying events" (`sandbox_engine.py:131`, `:257`). |

Four more disagreements need no run.

- The docstring of `_match_limit_maker` has an order that would cross rejected and
  another wait for the market "to come down to our level"
  (`simulator/matching_engine.py:122-139`). The second test can never succeed after the
  first, and returning no match rejects nothing: a maker order that is reached is
  neither filled nor rejected. `MakersNeverFill` proves it for every book.
- `core/clock.py:9` says the clock is "Used to drive the simulation loop", and so do the
  header of `hb_compat/sandbox_engine.py:6` and the design (`advance(tick_interval)` in
  each tick, `docs/proposals/01-market-simulator-core.md:498` of the repository). `run()`
  keeps its own time (`hb_compat/sandbox_engine.py:213-229`) and neither reads nor
  advances the clock, so it shows the start of a range for the whole run. In `Sandbox`
  only `Attach` changes `clock`, and no guard reads it.
- The design locks `5000 + fee_reserve` for a purchase
  (`docs/proposals/01-market-simulator-core.md:329`); `_place_order` locks the value alone
  (`simulator/exchange.py:447-456`), so a fee may take quote below what is locked, or
  below zero. `OnlyFeesOverdraw` says how far.
- The docstring of `_on_sim_triggered` (`hb_compat/simulated_connector.py:553`) takes it
  that the market order is already placed, but `OrderTriggered` is dispatched before it
  is (`simulator/exchange.py:563-590`). In the model the frame that waits on
  `OrderTriggered` is the call that has yet to place it.

## 5. What is proved

The proofs assume only the named assumptions of the modules: increments,
rates and bounds are natural numbers, requests and books are well formed, the
initial balances are not negative and not locked (`ExchangeAssumption`), events
have times, kinds and owners, recorded snapshots are books and diffs and trades
carry numbers, rows of files have times and one of the two sides
(`EventAssumption`, `SandboxAssumption`), the interval of
ticks is above zero (`SandboxAssumption`, `SimulationAssumption`), and the series the
metrics are compared on are not empty (`SimulationAssumption`). Nothing
is assumed about how many orders, levels, events or nested calls there are, or which
engine is used.

| theorem | statement |
|---|---|
| `TypeCorrect` | `Spec => []TypeOK` |
| `FillsWithinAmount` | `Spec => []NoOverfill`: no order is filled beyond its amount |
| `HeldOrdersStayOpen` | `Spec => []HeldOrdersAreOpen`, whose definition presumes `~StaleCancels` |
| `BaseIsAccounted` | `~StaleCancels => (Spec => []BaseAccounted)` |
| `SalesAreCovered` | `~StaleCancels => (Spec => []NoNakedSale)` |
| `QuoteIsAccounted` | `~StaleCancels => (Spec => []QuoteAccounted)` |
| `LedgerHolds` | `Spec => []LedgerMatchesFills` |
| `CompletionAnnounced` | `Spec => []CompletionIsAnnounced` |
| `FiredReplacedOnce` | `Spec => []FiredIsReplacedOnce` |
| `RefsOnlyForOpen` | `~StaleCancels => (Spec => []RefsOnlyForOpenOrders)` |
| `TrailsFollow` | `Spec => TrailFollowsOneWay` |
| `SellStopsRelock` | `~StaleCancels => (Spec => SellStopCanRelock)` |
| `FillsOnlyOpen` | `~StaleCancels => (Spec => FillsOnlyOpenOrders)`, which section 4 shows false without the premise |
| `FeesAloneOverdraw` | `~StaleCancels => (Spec => []OnlyFeesOverdraw)` |
| `LaterSalesAloneStarve` | `~StaleCancels => (Spec => []OnlyLaterSalesStarve)` |
| `LimitsHold` | `Spec => []LimitsAreKept` |
| `WalkIsBestExecution` | `Spec => []WalkIsBest` |
| `FillsAtLimitLeaveNoLock` | `Engine # "Depth" /\ ~StaleCancels => (Spec => [](NoMarketBuy => NothingOpenNothingLocked))`: the case in which section 4's lock for ever cannot happen |
| `MakersNeverFill` | `Engine = "Limit" => (Spec => []NoMakerFilled)`: section 4's maker order at every book |
| `TicksMakeHeadway` | `Spec => TickMakesHeadway` |
| `LifecycleIsHeard` | `~StaleCancels => (Spec => ListenersHearLifecycle)`, the refinement of `OrderLifecycle` |
| `HeardOnceInOrder` | `EventDelivery!Spec => []HeardInOrder`: what the abstract specification is good for |
| `SandboxDelivers` | `Spec => DeliversInOrder`, the refinement of `EventDelivery` |
| `TicksCounted` | `Spec => []TicksAreCounted` |
| `NothingIsMissed` | `Spec => []NothingMissed` |
| `AnswersStayCurrent` | `Spec => []AnswersAreCurrent` |
| `RunsMakeHeadway` | `Spec => RunMakesHeadway` |
| `FilesLoadWhole` | `Spec => []FilesLoad`, for any `Files` |
| `ConnectorIsExchange` | `ConnectorSpec => Spec`, whether the names agree or not, and so `[](LedgerMatchesFills /\ LimitsAreKept /\ WalkIsBest)` |
| `TrackerKnowsFills` | `NamesAgree => (ConnectorSpec => []TrackerHearsFills)` |
| `TrackerKnowsEnds` | `NamesAgree /\ ~StaleCancels => (ConnectorSpec => []TrackerHearsEnds)` |
| `ReplacementsStayNameless` | `NamesAgree => (ConnectorSpec => []ReplacementsAreNameless)` |
| `TrackerMakesLedger` | `NamesAgree => (ConnectorSpec => []TrackerAndReplacementsMakeLedger)` |
| `RunsKeepBase` | `~StaleCancels => (SimSpec => [](BaseAccounted /\ NoNakedSale))` |
| `StampsLag` | `SimSpec => []StampsLagATick` |
| `ReportCounts` | `SimSpec => []ReportCountsAnnouncements` |
| `ReportIsLedger` | `SimSpec => []ReportMatchesLedger` |
| `DrawdownIsWorstFall` | on every series `MaxDrawdown` is the greatest fall to a later value |
| `MetricsAlwaysAgree` | `MetricsAgree` on all series of whole numbers of every length above 0 |
| `MetricsAlwaysHold` | `SimSpec => []MetricsHold`, for any `SeriesLengths` and `SeriesValues` |

*Types.* `TypeInv` is `TypeOK` with `NoOverfill` and `FreshIds` (identifiers
above the counter are unused). `TypeOK` alone is not inductive: that a fill
amount is a natural number needs a remaining amount that is not negative, which is
`NoOverfill`; `NoOverfill` in turn needs that a match is never larger than what
remains (`MatchWithinRemaining`, for all three engines), and `FreshIds` that a
new order overwrites none.

*Base currency.* `BaseInv` adds to `TypeInv` that suspended calls name generated
orders (`IdsKnown`), `HeldOrdersAreOpen`, and `BaseSide`: an entry exists for base
while a sale is open, `BaseAccounted` and `NoNakedSale`. The three need one
another. A fill takes its amount off the lock without asking, so the sum is
kept only if the order it fills is open, which is `HeldOrdersAreOpen`; that in
turn holds because withdrawing an order that is held needs `StaleCancels`, and the
two loops hold disjoint kinds of orders. `release_collateral` clamps at zero, so
the sum is kept only if the lock is at least the order's own reserve, which
follows from the sum itself (`TotalAtLeast`). `NoNakedSale` then needs only the
test in `lock_collateral` and that a fill takes the same amount off both sides.

*Ledger.* `LedgerInv` is `TypeInv` with the two halves of the property. A fill
changes four sums over the orders and two totals; `SumsMove` moves the sums with
the one order that changes.

*Suspended calls.* The control of the program is in its stack, so nothing about events
is inductive without a statement about every call that waits. `CallInv` gives
it: `FrameOK` says of each frame what its event implies about its order (a call
that waits on `OrderTriggered` is the outermost, and its order has no replacement
yet), `OneFillCall` that no order is twice on its way from creation to fill,
`LoopIsPlain` that the matching loop holds no stop, and `RecordOK` ties the status
of each order to the last event about it and, if that is not the final one, to
a frame that will announce it. `OneParent` is injectivity of `childOf`, which needs
that replacements are fresh. `CompletionIsAnnounced` and `FiredIsReplacedOnce`
follow from `CallInv`; `ListenersHearLifecycle` needs `HeldOrdersAreOpen` as well,
since a cancelled order that is filled from a stale list would be heard of again.
`RefInv` adds that the trigger loop holds open stops only (`LoopIsOpen`), so that
evaluating one cannot bring back a reference that `clear_trailing_reference` removed.

*What a step does to an order.* `StepsMoveOrders` says it once for all of them: a step
leaves an order alone, places it, withdraws it or fills more of it, each with what it
announces (`OrderMoves`). From it follow `StopsUnfilled` (a conditional order has
filled nothing) and most of the connector's and the report's invariants.
`SellStopsRelock` needs `StopsUnfilled`, since what is released is the unfilled part
and what is locked again the whole amount, and from `BaseInv` that the lock covers the
stop beside the other sales. `TrailsFollow` needs only types: `Evaluated` moves a
reference one way, and no other step sets one.

*Quote currency.* A purchase is filled below its limit or at an average, and a fill
takes its own value off the lock, not the limit's. The sum is kept because the
reserve of an order is defined as the limit value of its amount less what its
fills have cost, and once it is done as that of its filled part, which is the difference
section 4 shows to stay locked. What is not obvious is that the clamp at zero of
`release_collateral` never bites: that needs `Affordable` (no purchase has cost
more than its filled part at the limit), and that needs `MatchWithinLimit`, that the
depth walk never pays more than the limit for what it takes, whatever levels it
crosses. `QuoteInv` is `CallInv`, `BaseInv` and `QuoteSide`, with `NoMarketBuy` as
the condition, which only ever turns false.

*What is left of the funds.* `FundsInv` is `QuoteInv` and `StopsUnfilled` with two sums. `QuoteFunds`
says, until a market purchase is made, that the lock is no more than the total with
the fees put back. Placing passes the test in `lock_collateral`; withdrawing only lowers
the lock; a purchase that is filled takes its own value off both sides, and a sale adds
to the total. As in `QuoteInv`, the clamp at zero must not bite.
`SaleFunds` says of every sell stop that has fired that what is available and what the
sales after it claim make up its amount. A claim is what an open sale has reserved, or what a sale has
sold, so it never falls but when an order is withdrawn, and what is withdrawn becomes available.
It starts to hold where the stop fires (`FiringRelocks`, which `SellStopsRelock` rests
on too), and each step changes one order (`FundsMove`): placing a later sale moves its amount from
available to claimed, a fill moves it within the claim, and a fill of an older sale lowers
total and lock alike. It is stated of a fired stop for ever, not only until its
replacement is placed, since the replacement is one of the later sales itself.

*Prices.* `PriceInv` is `TypeInv` and, order by order, `FilledFairly`: the limit is kept,
with `LimitOrderEngine` no maker order has a fill, and with an engine that fills at one
price a limit order has paid exactly that. The three are inductive as they stand, since a match says
enough of its own cost (`MatchWithinLimit`) and costs add up. `FillsAtLimitLeaveNoLock`
joins it to `QuoteInv` and `StopsUnfilled`: what an order that is done still has
reserved is what its fills saved on the limit, and that is 0. That the walk is best
execution is a fact about one book (`WalkIsBestWay`): what it takes of the levels up to
any price is the least of what is wanted and what they hold, so no other way has
taken more by then (`EarlierWeighsLess`), and a sum in which the amounts come no later in
the order of prices costs no more. `FillsOnlyOpen` is read off `StepsMoveOrders`
and `HeldOrdersAreOpen`.

*Headway.* Liveness is out of the prover's reach, but the measure it rests on is not.
`Work` weighs an identifier not yet used with 8, an open order with 2, a member of a
loop's list with 5, the loop that has yet to copy its list with 5 per order, and a
suspended call with what it may still do. Each weight is what makes some step pay: placing
uses an identifier for an open order and a suspended call; a fill from a stale list
opens an order that was cancelled, which its own place in the list pays for. No premise about listeners is needed. A run has no
such bound, as user code may add events at any time; `Left` is lowered in the order of
dictionaries instead, which has no infinite descent. That events added during a run leave
it alone needs that none is added while a source is read.

*Files.* `FilesLoadWhole` gives the rows of a snapshot's entries as a function: the rows
at one time and side are put in order of place by counting (`Ranked`), so each has one
entry and each entry one row.

*Replay.* `SourcesSound` says that each source has distinct events of its own and is in
order when it is marked sorted; `PlaceSound` that the place in a source is past
the first event only while it is sorted; and `HeardPassed` that every event heard
lies at or before the cursor, or before the place the run has reached. The last is what a cursor
that is only a time has to make up for: an event that is now added and sorted
in front of the place must not be one already heard, and that is so because user
code never runs while a source is read. `TickInv` and `StampInv` are arithmetic.

*Nothing missed.* `NothingMissed` speaks of moments when a replay is over and is not
inductive in the middle of one. `ReplayInv` says at every moment which events have been
applied (`HeardAll`): those that are not late and that the run has been past
(`Covered`), by a read that ended behind them or by the one that is going on. It needs
to know what each cursor stands for (`CursorSound`: what it was before the run until
`initialize` has read the source, then a time between the start and the moment reached;
late events lie at or before it), and that what lies before the place of a read is not
from the future (`PlaceReached`). Sorting a source moves no event past the place, since
it happens only at the first event, which is `PlaceSound` of `DeliveryInv`.

*Kept lists.* `BooksCurrent`: a kept list is none or what sorting the levels would
give. Every change of the levels drops both lists; a query fills one. That the answers
agree is then a fact about sorting: a walk over the levels in the order of the list adds
up the same terms as a sum over all prices (`SumAlongWalk`), and what the walk takes of a
level is what the better levels have left of the amount (`AheadIsBetter`, `LeftIsRest`).
The property compares the costs of the amounts 1 to 4; `CostIsCurrent` proves it of
every amount.

*Connector.* Every step of the connector is one of the exchange or leaves it alone
(`ConnectorIsExchange`), so what is proved of the exchange carries over. `HearInv` is `CallInv`, `StopsUnfilled` and `TrackerSide`: an order goes by
its own number or by none (`NamesSound`), replacements have none, and the framework holds
a fired stop as cancelled with nothing executed (`FiredIsCancelled`, which is true because
of `StopsUnfilled`). With `NamesAgree` every fill is reported under the name the tracker
knows and leaves the executed amount equal to what is filled; without it the property is
false (section 4). `TrackerMakesLedger` adds `LedgerInv`. `EndsInv` adds `BaseInv`,
because an order that is filled from a stale list after it was cancelled would be filled
in the tracker after it had ended; so `TrackerKnowsEnds` presumes `~StaleCancels` as well.

*Runs.* That a run's exchange behaves as `Exchange` says is how `Simulation` is written, each of
its steps being one of the exchange's or none, so it is only a lemma (`RunIsExchange`) that
carries what is proved of the exchange over to a run; `RunsKeepBase` states it for the
base currency.

*Report.* `ReportInv` is `CallInv`, `LedgerInv`, `StampInv`, that a cancellation is on
record exactly when it, or a firing, is the last listeners heard of the order
(`CancelsAnnounced`), that no call is suspended when `run()` returns (`AtRest`), and that
the report is built from what the exchange holds then. The flows are added in order of
time; `Ranked` puts a set in order by counting, and `TotalEnumerated` says that a sum
along it is the sum over the set, so the order does not matter.

*Metrics.* Each function is a recursion over the series, so `MetricsAlwaysAgree` compares
them step by step: the prefix functions of the one pass and of the single function have
the same first value and the same step (`SameSteps`, `GrownTotal`). Two things are not
merely the same code twice. The largest relative fall is found by comparing ratios, which
the vectorized form does in another order; that it finds the same one needs the order
of ratios to be transitive (`AtMostTransitive`), which is nonlinear arithmetic. And of equal
returns the difference of sums that stands for the variance is exactly 0, so the test
before the division catches it.

`SumsProofs` proves what a sum does when one of its terms changes (`TotalUpdate`)
and the prefix sums of a walk over levels, by an induction over the terms that is
carried out on sets; `OperatorProofs` the types and bounds of every operator of
the pure modules. The metrics use the same induction over the series.

TLC checked each strengthened invariant on small instances before it was proved.

**Only model-checked:** liveness under fairness (`StopsFire`, `TickReturns`, `RunEnds`,
`RunReturns`), which is out of the prover's reach, as is `ENABLED`, and so the absence of
deadlock. Of `TickReturns` and `RunEnds` the part about steps is proved (*Headway*); what
remains is that fairness lets a step be taken. Every other property of the passing
runs is a theorem.

## 6. What is not modelled

- Several pairs that share a currency, and orders for a pair without a book or a
  dash in its name.
- Trade identifiers, the wording of events, logging.
- `process_tick` called from a listener; more than one listener of an event, and so
  the order in which two listeners hear nested events.
- `set_initial_balances` in the middle of a run, `cleanup_done_orders`,
  `NullTriggerEngine`; nothing in the package calls the first two during a run.
- The cap of 100 levels of a depth walk.
- Rounding: of `Decimal` division in the average fill price, of floating point in the
  metrics (equal returns have no variance in the model; in the code rounding can leave some).
- Parsing of numbers and times, Parquet input, the trade and candle loaders beyond
  what a record is. No adder of a source makes an `ORDER_BOOK_DIFF`, so the model has
  that kind of event in `ApplyReplayEvent` and none in its instances.
- Replacing the source of an exchange by another object; merging the trades of several
  exchanges into one result; an interval of 0, with which `run()` never ends.
- The connector's copies of balances and trading rules, its stub data sources and the
  framework's own threads. Copied balances are a function of the exchange's at
  one moment: any property of them would restate the assignment.
- `protocols/` and `hb_compat/common.py`, which have no behaviour of their own.

## 7. What could follow

1. **Event bus** with several listeners: registration during dispatch, the order
   in which nested events are heard.
2. **Several pairs** sharing a currency, with `set_initial_balances` and
   `cleanup_done_orders` as actions.
