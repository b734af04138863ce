----------------------------- MODULE Simulation -----------------------------
(***************************************************************************)
(* SandboxEngine.run (hb_compat/sandbox_engine.py) around the exchange of  *)
(* Exchange.tla, for one connector: each tick replays market data, lets    *)
(* on_tick place and cancel, and processes the tick; the end reports what  *)
(* the order tracker holds. Which events a replay applies is Sandbox.tla's *)
(* subject: here it leaves some book.                                      *)
(***************************************************************************)
EXTENDS Exchange, Metrics

CONSTANTS
  StartTime, EndTime, Interval,   \* the range and the step of the run
  SeriesLengths, SeriesValues     \* of the series the metrics are compared on

ASSUME SimulationAssumption ==
  /\ StartTime \in Nat /\ EndTime \in Nat /\ Interval \in Nat \ {0}
  /\ SeriesLengths \subseteq Nat \ {0} /\ SeriesValues \subseteq Int

VARIABLES
  driver,      \* where run() is
  timestamp,   \* its local timestamp
  ticks,       \* its local ticks
  now,         \* _current_timestamp of the exchange
  updated,     \* last_update_timestamp of each order
  report       \* the SimulationResult

driverVars == <<driver, timestamp, ticks, now, updated, report>>

NoReport ==
  [placed |-> 0, filled |-> 0, cancelled |-> 0, pnl |-> 0, wins |-> 0, drop |-> 0,
   part |-> None, sharpe |-> None, factor |-> None]

SimInit ==
  /\ Init
  /\ driver = "loop"
  /\ timestamp = StartTime
  /\ ticks = 0
  /\ now = 0
  /\ updated = [id \in OrderIds |-> 0]
  /\ report = NoReport

-----------------------------------------------------------------------------
\* Whatever changes an order stamps it with the time of the exchange.
Stamp == updated' = [id \in OrderIds |-> IF orders'[id] = orders[id] THEN updated[id] ELSE now]

ReplayData ==
  /\ driver = "loop"
  /\ timestamp <= EndTime
  /\ driver' = "callback"
  /\ MarketData \/ UNCHANGED vars
  /\ UNCHANGED <<timestamp, ticks, now, updated, report>>

\* Strategy code runs in on_tick, and in the listeners of what it calls there;
\* during process_tick it runs in listeners alone.
Strategy ==
  /\ driver = "callback" \/ (driver = "tick" /\ stack # << >>)
  /\ (\E r \in Requests : Place(r)) \/ (\E id \in OrderIds : Cancel(id))
  /\ Stamp
  /\ UNCHANGED <<driver, timestamp, ticks, now, report>>

\* Wrong variant, never used: the exchange is not told the time.
TickWithoutTime ==
  /\ driver = "callback"
  /\ ProcessTick
  /\ driver' = "tick"
  /\ UNCHANGED <<timestamp, ticks, now, updated, report>>

\* on_tick returns and process_tick is called with the time of the tick.
Tick ==
  /\ driver = "callback"
  /\ ProcessTick
  /\ driver' = "tick"
  /\ now' = timestamp
  /\ UNCHANGED <<timestamp, ticks, updated, report>>

CallGoesOn ==
  /\ Resume \/ Loop
  /\ Stamp
  /\ UNCHANGED <<driver, timestamp, ticks, now, report>>

NextTick ==
  /\ driver = "tick" /\ Idle
  /\ driver' = "loop"
  /\ ticks' = ticks + 1
  /\ timestamp' = timestamp + Interval
  /\ UNCHANGED <<vars, now, updated, report>>

-----------------------------------------------------------------------------
\* Wrong variant, never used: an order counts as filled once a part of it is.
WithFills == {id \in OrderIds : orders[id].filled > 0}

Filled == {id \in OrderIds : orders[id].status = "FILLED"}

\* filled_orders.sort is stable and looks at the time alone; the tracker
\* yields its orders as they were placed.
FilledBefore(a, b) == updated[a] < updated[b] \/ (updated[a] = updated[b] /\ a < b)

Chronological == Ranked(Filled, FilledBefore)

\* Wrong variant, never used: fees are left out.
CostFlow(o) == IF o.side = "SELL" THEN o.cost ELSE -o.cost

\* The quote currency a filled order brought in.
Flow(o) == IF o.side = "SELL" THEN o.cost - o.fee ELSE -o.cost - o.fee

\* The running sums of the flows, which the metrics are computed from.
Cumulative ==
  LET order == Chronological
      flows == [i \in DOMAIN order |-> Flow(orders[order[i]])]
  IN  [i \in DOMAIN order |-> Total(flows, i)]

\* _build_result.
BuildResult(sums) ==
  LET n       == Len(sums)
      metrics == AllMetrics(sums, IF n >= 2 THEN n ELSE 0)
  IN  [placed |-> counter, filled |-> n,
       cancelled |-> Cardinality({id \in OrderIds : orders[id].status = "CANCELLED"}),
       pnl |-> IF n = 0 THEN 0 ELSE sums[n],
       wins |-> Cardinality({id \in Filled : Flow(orders[id]) > 0}),
       drop |-> metrics.drop, part |-> metrics.part,
       sharpe |-> metrics.sharpe, factor |-> metrics.factor]

Finish ==
  /\ driver = "loop"
  /\ timestamp > EndTime
  /\ driver' = "done"
  /\ \E sums \in {Cumulative} : report' = BuildResult(sums)
  /\ UNCHANGED <<vars, timestamp, ticks, now, updated>>

SimStep == ReplayData \/ Tick \/ CallGoesOn \/ NextTick \/ Finish

SimNext == Strategy \/ SimStep

SimSpec == SimInit /\ [][SimNext]_<<vars, driverVars>>

\* A run that was called goes on, and on_tick and the listeners return.
FairSimSpec == SimSpec /\ WF_<<vars, driverVars>>(SimStep)

-----------------------------------------------------------------------------
(* Properties *)

\* What the fills of orders that did not fill whole brought in.
UnreportedFlow ==
  Total([id \in OrderIds |-> IF orders[id].status = "FILLED" THEN 0 ELSE Flow(orders[id])], MaxOrders)

\* The reported P&L is what the quote balance has moved by, less the fills of
\* orders still open or cancelled in part, which the report leaves out
\* (sandbox_engine.py:276-285 against exchange.py:622-630).
ReportMatchesLedger ==
  driver = "done" =>
    report.pnl + UnreportedFlow = balances["quote"].total - InitialBalances["quote"].total

\* The report counts what listeners have heard: as filled the orders announced
\* complete, as cancelled those cancelled and the stops that fired, each of
\* which is placed again as another order (sandbox_engine.py:274-287).
ReportCountsAnnouncements ==
  driver = "done" =>
    /\ report.filled = Cardinality({id \in OrderIds : lastEvent[id] = "completed"})
    /\ report.cancelled = Cardinality({id \in OrderIds : lastEvent[id] \in {"cancelled", "triggered"}})
    /\ report.placed >= report.filled + report.cancelled

\* The metrics of the report agree with the single functions and with the
\* vectorized one on every series, so it does not matter which a caller takes
\* (sandbox_engine.py:307-311 against performance.py:22-241); told once, of the
\* first state.
MetricsHold ==
  (ticks = 0 /\ driver = "loop") =>
    \A n \in SeriesLengths : MetricsAgree([1 .. n -> SeriesValues], n)

\* The exchange tells on_tick the time of the tick before, 0 at first, so what
\* is placed, cancelled or filled there is stamped older than the data it saw;
\* no order is ever stamped later than the exchange's time (sandbox_engine.py:222-226).
StampsLagATick ==
  /\ driver = "callback" => now = IF ticks = 0 THEN 0 ELSE timestamp - Interval
  /\ \A id \in OrderIds :
       /\ updated[id] <= now
       /\ driver = "callback" => updated[id] < timestamp \/ timestamp = 0

\* A run returns, whatever strategies and listeners do.
RunReturns == driver = "loop" ~> driver = "done"
=============================================================================
