-------------------------- MODULE SimulationProofs --------------------------
(***************************************************************************)
(* A run of the sandbox engine is a behaviour of the exchange, so what is  *)
(* proved of the exchange holds of every run, for any range and interval;  *)
(* what a strategy does in on_tick is stamped with the time of the tick    *)
(* before; what a run reports is what its account and its listeners saw;   *)
(* and the metrics agree with each other on every series of whole numbers. *)
(***************************************************************************)
EXTENDS Simulation, RecordProofs

simVars == <<vars, driverVars>>

\* Every step of a run is a step of the exchange or leaves it alone.
LEMMA RunStepsExchange ==
  ASSUME [SimNext]_simVars
  PROVE  [Next]_vars
<1>1. CASE Strategy
  BY <1>1 DEF Strategy, Next
<1>2. CASE ReplayData
  BY <1>2 DEF ReplayData, Next
<1>3. CASE Tick
  BY <1>3 DEF Tick, Next
<1>4. CASE CallGoesOn
  BY <1>4 DEF CallGoesOn, Next
<1>5. CASE NextTick
  BY <1>5 DEF NextTick
<1>6. CASE Finish
  BY <1>6 DEF Finish
<1>7. CASE UNCHANGED simVars
  BY <1>7 DEF simVars
<1> QED BY <1>1, <1>2, <1>3, <1>4, <1>5, <1>6, <1>7 DEF SimNext, SimStep

\* The loop of run() calls the exchange only as a driver may: it replays data
\* and calls process_tick between calls, and listeners run inside events
\* (sandbox_engine.py:216-229).
LEMMA RunIsExchange == SimSpec => Spec
<1>1. SimInit => Init
  BY DEF SimInit
<1>2. [SimNext]_<<vars, driverVars>> => [Next]_vars
  BY RunStepsExchange DEF simVars
<1> QED BY <1>1, <1>2, PTL DEF SimSpec, Spec

\* In every run whose listeners cancel no held order, the locked base is what
\* the open sales reserve, and the account never sells what it does not own.
THEOREM RunsKeepBase == ~StaleCancels => (SimSpec => [](BaseAccounted /\ NoNakedSale))
<1>1. ASSUME ~StaleCancels PROVE SimSpec => [](BaseAccounted /\ NoNakedSale)
  <2>1. Spec => []BaseAccounted
    BY <1>1, BaseIsAccounted
  <2>2. Spec => []NoNakedSale
    BY <1>1, SalesAreCovered
  <2>3. SimSpec => Spec
    BY RunIsExchange
  <2> QED BY <2>1, <2>2, <2>3, PTL
<1> QED BY <1>1

-----------------------------------------------------------------------------
(* What the exchange takes the time to be. *)

\* Between two calls of process_tick the exchange has the time of the last.
LastTickTime == IF ticks = 0 THEN 0 ELSE timestamp - Interval

StampInv ==
  /\ timestamp \in Nat /\ ticks \in Nat /\ now \in Nat
  /\ updated \in [OrderIds -> Nat]
  /\ driver \in {"loop", "callback"} => now = LastTickTime
  /\ driver = "tick" => now = timestamp
  /\ ticks > 0 => timestamp >= Interval
  /\ \A id \in OrderIds : updated[id] <= now

\* A change stamps an order with the time the exchange has.
LEMMA StampKeeps ==
  ASSUME StampInv, Stamp, UNCHANGED <<driver, timestamp, ticks, now>>
  PROVE  StampInv'
<1>1. \A id \in OrderIds : updated'[id] \in {updated[id], now}
  BY DEF Stamp
<1>2. updated' \in [OrderIds -> Nat]
  BY <1>1 DEF Stamp, StampInv
<1>3. \A id \in OrderIds : updated'[id] <= now
  <2> SUFFICES ASSUME NEW id \in OrderIds PROVE updated'[id] <= now
    OBVIOUS
  <2>1. updated[id] <= now /\ now <= now
    BY DEF StampInv
  <2> QED BY <1>1, <2>1
<1> QED BY <1>2, <1>3 DEF StampInv, LastTickTime

\* Every action keeps the stamps within the time of the exchange.
LEMMA StampStep ==
  ASSUME StampInv, [SimNext]_simVars
  PROVE  StampInv'
<1>a. /\ timestamp \in Nat /\ ticks \in Nat /\ now \in Nat /\ Interval \in Nat \ {0}
      /\ updated \in [OrderIds -> Nat] /\ \A id \in OrderIds : updated[id] <= now
  BY SimulationAssumption DEF StampInv
<1>1. CASE Strategy
  BY <1>1, StampKeeps DEF Strategy
<1>2. CASE ReplayData
  BY <1>2 DEF ReplayData, StampInv, LastTickTime
<1>3. CASE Tick
  <2>1. driver' = "tick" /\ now' = timestamp /\ UNCHANGED <<timestamp, ticks, updated>>
    BY <1>3 DEF Tick
  <2>2. now = LastTickTime
    BY <1>3 DEF Tick, StampInv
  <2>3. now <= timestamp
    <3>1. CASE ticks = 0
      BY <1>a, <2>2, <3>1 DEF LastTickTime
    <3>2. CASE ticks # 0
      BY <1>a, <2>2, <3>2 DEF LastTickTime
    <3> QED BY <3>1, <3>2
  <2>4. \A id \in OrderIds : updated'[id] <= now'
    <3> SUFFICES ASSUME NEW id \in OrderIds PROVE updated[id] <= timestamp
      BY <2>1
    <3>1. updated[id] \in Nat /\ updated[id] <= now
      BY <1>a
    <3> QED BY <1>a, <2>3, <3>1
  <2> QED BY <1>a, <2>1, <2>4 DEF StampInv
<1>4. CASE CallGoesOn
  BY <1>4, StampKeeps DEF CallGoesOn
<1>5. CASE NextTick
  <2>1. /\ driver = "tick" /\ driver' = "loop" /\ ticks' = ticks + 1
        /\ timestamp' = timestamp + Interval /\ UNCHANGED <<now, updated>>
    BY <1>5 DEF NextTick
  <2>2. now = timestamp
    BY <2>1 DEF StampInv
  <2>3. now' = LastTickTime' /\ timestamp' \in Nat /\ ticks' \in Nat /\ timestamp' >= Interval
    BY <1>a, <2>1, <2>2 DEF LastTickTime
  <2> QED BY <1>a, <2>1, <2>3 DEF StampInv
<1>6. CASE Finish
  BY <1>6 DEF Finish, StampInv
<1>7. CASE UNCHANGED simVars
  BY <1>7 DEF simVars, driverVars, StampInv, LastTickTime
<1> QED BY <1>1, <1>2, <1>3, <1>4, <1>5, <1>6, <1>7 DEF SimNext, SimStep

\* For every range and interval: process_tick is what tells the exchange the
\* time, so on_tick still finds that of the tick before, and no order is ever
\* stamped later than that (sandbox_engine.py:222, exchange.py:380).
THEOREM StampsLag == SimSpec => []StampsLagATick
<1>1. SimInit => StampInv
  BY SimulationAssumption DEF SimInit, StampInv, LastTickTime
<1>2. StampInv /\ [SimNext]_<<vars, driverVars>> => StampInv'
  BY StampStep DEF simVars
<1>3. StampInv => StampsLagATick
  <2> SUFFICES ASSUME StampInv PROVE StampsLagATick
    OBVIOUS
  <2>1. driver = "callback" => now = LastTickTime
    BY DEF StampInv
  <2>2. /\ timestamp \in Nat /\ ticks \in Nat /\ now \in Nat /\ Interval \in Nat \ {0}
        /\ ticks > 0 => timestamp >= Interval
    BY SimulationAssumption DEF StampInv
  <2>3. ASSUME NEW id \in OrderIds
        PROVE  updated[id] <= now /\ (driver = "callback" => updated[id] < timestamp \/ timestamp = 0)
    <3>1. updated[id] \in Nat /\ updated[id] <= now
      BY DEF StampInv
    <3>2. driver = "callback" => now < timestamp \/ timestamp = 0 \/ now = 0
      BY <2>1, <2>2 DEF LastTickTime
    <3> QED BY <2>2, <3>1, <3>2
  <2> QED BY <2>1, <2>3 DEF StampsLagATick, LastTickTime
<1> QED BY <1>1, <1>2, <1>3, PTL DEF SimSpec

-----------------------------------------------------------------------------
(* What the report adds up. *)

\* An order is cancelled on record exactly when the last its listeners heard
\* of it is that it was cancelled or fired.
CancelsAnnounced ==
  \A id \in OrderIds :
    orders[id].status = "CANCELLED" <=> lastEvent[id] \in {"cancelled", "triggered"}

\* Whatever a step announces of an order it does to it.
OnRecord(id) ==
  \/ orders'[id] = orders[id] /\ lastEvent'[id] = lastEvent[id]
  \/ PlacedNow(id) \/ WithdrawnNow(id) \/ lastEvent'[id] \in {"filled", "completed"}

\* No step announces anything else.
LEMMA StepsAnnounce ==
  ASSUME TypeInv, [Next]_vars
  PROVE  \A id \in OrderIds : OnRecord(id)
<1>a. /\ orders \in [OrderIds -> Order] /\ counter \in 0 .. MaxOrders
      /\ stack \in Seq(Frame) /\ lastEvent \in [OrderIds -> EventPoints \cup {"none"}]
  BY DEF TypeInv, TypeOK
<1>b. stack # << >> => Below \in Seq(Frame) /\ Top.id \in OrderIds
  BY <1>a, StackShape DEF Frame, Top
<1>1. ASSUME NEW r, NEW under, PlaceOrder(r, under) PROVE \A id \in OrderIds : OnRecord(id)
  <2>1. PICK o, e :
          /\ o.filled = 0 /\ o.status \in {"OPEN", "FAILED"} /\ e \in {"created", "failed"}
          /\ orders' = [orders EXCEPT ![counter + 1] = o]
          /\ lastEvent' = [lastEvent EXCEPT ![counter + 1] = e]
    <3> DEFINE o == NewOrder(Quantized(r), "OPEN")
               f == [o EXCEPT !.status = "FAILED"]
    <3>1. \/ /\ orders' = [orders EXCEPT ![counter + 1] = o]
             /\ lastEvent' = [lastEvent EXCEPT ![counter + 1] = "created"]
          \/ /\ orders' = [orders EXCEPT ![counter + 1] = f]
             /\ lastEvent' = [lastEvent EXCEPT ![counter + 1] = "failed"]
      BY <1>1 DEF PlaceOrder, Dispatch
    <3>2. o.filled = 0 /\ o.status = "OPEN" /\ f.filled = 0 /\ f.status = "FAILED"
      BY DEF NewOrder
    <3> HIDE DEF o, f
    <3> QED BY <3>1, <3>2
  <2>2. counter' = counter + 1
    BY <1>1 DEF PlaceOrder
  <2>3. ASSUME NEW id \in OrderIds, id = counter + 1 PROVE PlacedNow(id)
    BY <1>a, <2>1, <2>2, <2>3 DEF PlacedNow
  <2>4. ASSUME NEW id \in OrderIds, id # counter + 1
        PROVE  orders'[id] = orders[id] /\ lastEvent'[id] = lastEvent[id]
    BY <1>a, <2>1, <2>4
  <2> QED BY <2>3, <2>4 DEF OnRecord
<1>2. ASSUME NEW x \in OrderIds, IsOpen(orders[x]), Withdraw(x),
             NEW e \in {"cancelled", "triggered"}, NEW under, NEW level, NEW amount,
             Dispatch(e, x, under, level, amount)
      PROVE  \A id \in OrderIds : OnRecord(id)
  <2>1. orders' = [orders EXCEPT ![x].status = "CANCELLED"] /\ lastEvent' = [lastEvent EXCEPT ![x] = e]
    BY <1>2 DEF Withdraw, Dispatch
  <2>2. WithdrawnNow(x)
    BY <1>a, <1>2, <2>1 DEF WithdrawnNow
  <2>3. \A id \in OrderIds : id # x => orders'[id] = orders[id] /\ lastEvent'[id] = lastEvent[id]
    BY <1>a, <2>1
  <2> QED BY <2>2, <2>3 DEF OnRecord
<1>3. ASSUME NEW x \in OrderIds, NEW m, NEW under, ProcessFill(x, m, under)
      PROVE  \A id \in OrderIds : OnRecord(id)
  <2>1. PICK o : orders' = [orders EXCEPT ![x] = o] /\ lastEvent' = [lastEvent EXCEPT ![x] = "filled"]
    BY <1>3 DEF ProcessFill, Dispatch
  <2> QED BY <1>a, <2>1 DEF OnRecord
<1>4. ASSUME NEW r \in Requests, Place(r) PROVE \A id \in OrderIds : OnRecord(id)
  BY <1>1, <1>4 DEF Place
<1>5. ASSUME NEW x \in OrderIds, Cancel(x) PROVE \A id \in OrderIds : OnRecord(id)
  BY <1>2, <1>5 DEF Cancel
<1>6. CASE FireConditionalOrder
  <2>1. Upcoming \in OrderIds
    BY <1>6, UpcomingType DEF FireConditionalOrder, LoopIn
  <2> QED BY <1>2, <1>6, <2>1 DEF FireConditionalOrder
<1>7. CASE MatchOrder
  <2>1. Upcoming \in OrderIds
    BY <1>7, UpcomingType DEF MatchOrder, LoopIn
  <2> QED BY <1>3, <1>7, <2>1 DEF MatchOrder
<1>8. CASE AfterCreatedMatch
  <2>1. stack # << >>
    BY <1>8 DEF AfterCreatedMatch, Resumes
  <2> QED BY <1>b, <1>3, <1>8, <2>1 DEF AfterCreatedMatch
<1>9. CASE AfterTriggered
  BY <1>1, <1>9 DEF AfterTriggered
<1>10. CASE AfterFilledComplete
  <2>1. orders' = orders /\ lastEvent' = [lastEvent EXCEPT ![Top.id] = "completed"]
    BY <1>10 DEF AfterFilledComplete, Dispatch
  <2> QED BY <1>a, <2>1 DEF OnRecord
<1>11. CASE \/ MarketData \/ ProcessTick \/ EvaluateOrder \/ StartMatching \/ LeaveOrder \/ EndTick
            \/ AfterNotice \/ AfterCreatedRest \/ ConsumeLiquidity \/ UNCHANGED vars
  <2>1. orders' = orders /\ lastEvent' = lastEvent
    BY <1>11 DEF MarketData, ProcessTick, EvaluateOrder, StartMatching, LeaveOrder, EndTick,
                 AfterNotice, AfterCreatedRest, ConsumeLiquidity, vars
  <2> QED BY <2>1 DEF OnRecord
<1> QED BY <1>4, <1>5, <1>6, <1>7, <1>8, <1>9, <1>10, <1>11 DEF Next, Loop, Resume

\* Every step of the exchange keeps cancellations and their events together.
LEMMA CancelsStep == CallInv /\ CancelsAnnounced /\ [Next]_vars => CancelsAnnounced'
<1> SUFFICES ASSUME CallInv, CancelsAnnounced, [Next]_vars, NEW id \in OrderIds
             PROVE  orders'[id].status = "CANCELLED" <=> lastEvent'[id] \in {"cancelled", "triggered"}
  BY DEF CancelsAnnounced
<1>a. TypeInv /\ CallInv' /\ orders[id] \in Order
  BY CallStep DEF CallInv, TypeInv, TypeOK
<1>1. CASE orders'[id] = orders[id] /\ lastEvent'[id] = lastEvent[id]
  BY <1>1 DEF CancelsAnnounced
<1>2. CASE PlacedNow(id)
  BY <1>2 DEF PlacedNow
<1>3. CASE WithdrawnNow(id)
  BY <1>3, <1>a DEF WithdrawnNow, Order
<1>4. CASE lastEvent'[id] \in {"filled", "completed"}
  <2>1. orders'[id].status \in {"FILLED", "PARTIALLY_FILLED"}
    BY <1>4, <1>a DEF CallInv, RecordOK
  <2> QED BY <1>4, <2>1
<1> QED BY <1>1, <1>2, <1>3, <1>4, <1>a, StepsAnnounce DEF OnRecord

\* Where run() is tells whether a call of the exchange is running.
AtRest ==
  /\ driver \in {"loop", "callback", "tick", "done"}
  /\ driver \in {"loop", "done"} => Idle
  /\ driver = "callback" => phase = "idle"

\* Between ticks nothing is suspended, and nothing happens after the report.
LEMMA RestStep ==
  ASSUME AtRest, [SimNext]_simVars
  PROVE  AtRest' /\ (driver = "done" => UNCHANGED simVars)
<1>1. CASE Strategy
  BY <1>1 DEF Strategy, Place, Cancel, AtRest, Idle
<1>2. CASE ReplayData
  BY <1>2 DEF ReplayData, MarketData, vars, AtRest, Idle
<1>3. CASE Tick
  BY <1>3 DEF Tick, AtRest, Idle
<1>4. CASE CallGoesOn
  <2>1. driver' = driver
    BY <1>4 DEF CallGoesOn
  <2>2. CASE Resume
    <3>1. stack # << >> /\ phase' = phase
      BY <2>2 DEF Resume, AfterNotice, AfterCreatedMatch, AfterCreatedRest, AfterTriggered,
                  AfterFilledComplete, ConsumeLiquidity, Resumes
    <3> QED BY <2>1, <3>1 DEF AtRest, Idle
  <2>3. CASE Loop
    <3>1. phase # "idle"
      BY <2>3 DEF Loop, EvaluateOrder, FireConditionalOrder, StartMatching, LeaveOrder,
                  MatchOrder, EndTick, LoopIn
    <3> QED BY <2>1, <3>1 DEF AtRest, Idle
  <2> QED BY <1>4, <2>2, <2>3 DEF CallGoesOn
<1>5. CASE NextTick
  BY <1>5 DEF NextTick, AtRest, Idle, vars
<1>6. CASE Finish
  BY <1>6 DEF Finish, AtRest, Idle, vars
<1>7. CASE UNCHANGED simVars
  BY <1>7 DEF simVars, vars, driverVars, AtRest, Idle
<1> QED BY <1>1, <1>2, <1>3, <1>4, <1>5, <1>6, <1>7 DEF SimNext, SimStep

\* What a run keeps for its report.
ReportInv ==
  /\ CallInv /\ LedgerInv /\ CancelsAnnounced /\ StampInv /\ AtRest
  /\ driver = "done" => report = BuildResult(Cumulative)

\* A run begins with it.
LEMMA ReportInit == SimInit => ReportInv
<1> SUFFICES ASSUME SimInit PROVE ReportInv
  OBVIOUS
<1>1. CallInv /\ LedgerInv
  BY CallInit, LedgerInit DEF SimInit
<1>2. CancelsAnnounced
  BY DEF SimInit, Init, CancelsAnnounced, NoOrder
<1>3. StampInv
  BY SimulationAssumption DEF SimInit, StampInv, LastTickTime
<1>4. AtRest /\ driver # "done"
  BY DEF SimInit, Init, AtRest, Idle
<1> QED BY <1>1, <1>2, <1>3, <1>4 DEF ReportInv

\* The report is made of the orders and their stamps.
LEMMA SameReport ==
  ASSUME UNCHANGED <<orders, counter, updated>>
  PROVE  BuildResult(Cumulative)' = BuildResult(Cumulative)
<1>1. Filled' = Filled
  BY DEF Filled
<1>2. Chronological' = Chronological
  BY <1>1 DEF Chronological, Ranked, FilledBefore
<1>3. Cumulative' = Cumulative
  BY <1>2 DEF Cumulative, Flow
<1> QED BY <1>1, <1>3 DEF BuildResult, Flow

\* Every step keeps it.
LEMMA ReportStep == ReportInv /\ [SimNext]_simVars => ReportInv'
<1> SUFFICES ASSUME ReportInv, [SimNext]_simVars PROVE ReportInv'
  OBVIOUS
<1>a. [Next]_vars
  BY RunStepsExchange
<1>1. CallInv' /\ LedgerInv' /\ CancelsAnnounced'
  BY <1>a, CallStep, LedgerStep, CancelsStep DEF ReportInv
<1>2. StampInv' /\ AtRest' /\ (driver = "done" => UNCHANGED simVars)
  BY StampStep, RestStep DEF ReportInv
<1>3. ASSUME driver' = "done" PROVE report' = BuildResult(Cumulative)'
  <2>1. CASE Finish
    <3>1. UNCHANGED <<orders, counter, updated>> /\ report' = BuildResult(Cumulative)
      BY <2>1 DEF Finish, vars
    <3> QED BY <3>1, SameReport
  <2>2. CASE driver = "done"
    <3>1. UNCHANGED <<orders, counter, updated, report>> /\ report = BuildResult(Cumulative)
      BY <1>2, <2>2 DEF simVars, vars, driverVars, ReportInv
    <3> QED BY <3>1, SameReport
  <2>3. Finish \/ driver = "done"
    BY <1>3 DEF SimNext, SimStep, Strategy, ReplayData, Tick, CallGoesOn, NextTick, simVars, driverVars
  <2> QED BY <2>1, <2>2, <2>3
<1> QED BY <1>1, <1>2, <1>3 DEF ReportInv

\* The order in which fills are added up, as a set of pairs.
FillOrder == {p \in OrderIds \X OrderIds : FilledBefore(p[1], p[2])}

\* The sorted list goes through the filled orders, each once.
LEMMA ChronologicalEnumerates ==
  ASSUME ReportInv
  PROVE  IsFiniteSet(Filled) /\ Enumerates(Chronological, Filled, FillOrder)
<1> DEFINE n == Cardinality(Filled)
<1>1. /\ MaxOrders \in Nat /\ OrderIds = 1 .. MaxOrders /\ Filled \subseteq OrderIds
      /\ \A id \in OrderIds : updated[id] \in Nat /\ id \in Nat
  BY ExchangeAssumption DEF OrderIds, Filled, ReportInv, StampInv
<1>2. IsFiniteSet(Filled)
  <2>1. IsFiniteSet(OrderIds)
    BY <1>1, FS_Interval
  <2> QED BY <1>1, <2>1, FS_Subset
<1>3. Orders(FillOrder, Filled)
  <2>1. \A x, y \in Filled : <<x, y>> \in FillOrder <=> FilledBefore(x, y)
    BY <1>1 DEF FillOrder
  <2>2. \A x \in Filled : ~FilledBefore(x, x)
    BY <1>1 DEF FilledBefore
  <2>3. \A x, y \in Filled : x = y \/ FilledBefore(x, y) \/ FilledBefore(y, x)
    BY <1>1 DEF FilledBefore
  <2>4. \A x, y, z \in Filled : FilledBefore(x, y) /\ FilledBefore(y, z) => FilledBefore(x, z)
    BY <1>1 DEF FilledBefore
  <2> QED BY <2>1, <2>2, <2>3, <2>4 DEF Orders
<1>4. \A x \in Filled : Cardinality({y \in Filled : FilledBefore(y, x)}) = PlaceOf(FillOrder, Filled, x)
  <2> SUFFICES ASSUME NEW x \in Filled
               PROVE  {y \in Filled : FilledBefore(y, x)} = {y \in Filled : <<y, x>> \in FillOrder}
    BY Zenon DEF PlaceOf
  <2> QED BY <1>1 DEF FillOrder
<1>5. \A i \in 1 .. n : Chronological[i] \in Filled /\ PlaceOf(FillOrder, Filled, Chronological[i]) = i - 1
  <2> SUFFICES ASSUME NEW i \in 1 .. n
               PROVE  /\ Chronological[i] \in Filled
                      /\ PlaceOf(FillOrder, Filled, Chronological[i]) = i - 1
    OBVIOUS
  <2>1. \E x \in Filled : PlaceOf(FillOrder, Filled, x) = i - 1
    BY <1>2, <1>3, RanksAreTaken
  <2>2. \E x \in Filled : Cardinality({y \in Filled : FilledBefore(y, x)}) = i - 1
    BY <1>4, <2>1
  <2>3. Chronological[i] = CHOOSE x \in Filled : Cardinality({y \in Filled : FilledBefore(y, x)}) = i - 1
    BY DEF Chronological, Ranked
  <2>4. /\ Chronological[i] \in Filled
        /\ Cardinality({y \in Filled : FilledBefore(y, Chronological[i])}) = i - 1
    BY <2>2, <2>3
  <2> QED BY <1>4, <2>4
<1>6. Chronological \in [1 .. n -> Filled]
  BY <1>5 DEF Chronological, Ranked
<1> QED BY <1>2, <1>3, <1>5, <1>6, RanksEnumerate

FlowOf == [id \in OrderIds |-> Flow(orders[id])]

\* The last running sum is the sum of the flows of the filled orders.
LEMMA SumsAddUp ==
  ASSUME ReportInv
  PROVE  LET n == Cardinality(Filled)
         IN  /\ n \in Nat /\ Len(Cumulative) = n
             /\ (IF n = 0 THEN 0 ELSE Cumulative[n]) = SumOver(FlowOf, Filled, MaxOrders)
<1> DEFINE n == Cardinality(Filled)
           e == Chronological
           g == [i \in DOMAIN e |-> Flow(orders[e[i]])]
<1>1. /\ MaxOrders \in Nat /\ OrderIds = 1 .. MaxOrders /\ Filled \subseteq OrderIds
      /\ orders \in [OrderIds -> Order]
  BY ExchangeAssumption DEF OrderIds, Filled, ReportInv, CallInv, TypeInv, TypeOK
<1>2. /\ n \in Nat /\ e \in [1 .. n -> Filled]
      /\ \A i, j \in 1 .. n : i < j => <<e[i], e[j]>> \in FillOrder
      /\ \A x \in Filled : \E i \in 1 .. n : e[i] = x
  BY ChronologicalEnumerates, FS_CardinalityType DEF Enumerates
<1>3. \A id \in OrderIds : FlowOf[id] \in Int /\ FlowOf[id] = Flow(orders[id])
  <2> TAKE id \in OrderIds
  <2>1. orders[id] \in Order
    BY <1>1
  <2>2. PICK cost \in Int, fee \in Int : cost = orders[id].cost /\ fee = orders[id].fee
    BY <2>1 DEF Order
  <2>3. Flow(orders[id]) \in Int
    BY <2>2 DEF Flow
  <2> QED BY <2>3 DEF FlowOf
<1>4. \A i, j \in 1 .. n : e[i] = e[j] => i = j
  <2> SUFFICES ASSUME NEW i \in 1 .. n, NEW j \in 1 .. n, e[i] = e[j], i < j PROVE FALSE
    BY <1>2
  <2>1. <<e[i], e[i]>> \in FillOrder /\ e[i] \in OrderIds
    BY <1>1, <1>2
  <2>2. updated[e[i]] \in Nat /\ e[i] \in Nat
    BY <1>1, <2>1 DEF ReportInv, StampInv
  <2> QED BY <2>1, <2>2 DEF FillOrder, FilledBefore
<1>5. /\ DOMAIN e = 1 .. n /\ \A i \in 1 .. n : g[i] = FlowOf[e[i]]
      /\ Cumulative = [i \in 1 .. n |-> Total(g, i)]
  <2>1. DOMAIN e = 1 .. n
    BY <1>2
  <2>2. Cumulative = [i \in 1 .. n |-> Total(g, i)]
    BY <2>1 DEF Cumulative
  <2>3. \A i \in 1 .. n : g[i] = FlowOf[e[i]]
    BY <1>1, <1>2, <1>3, <2>1
  <2> QED BY <2>1, <2>2, <2>3
<1> HIDE DEF e, g, n
<1>6. Lists(g, FlowOf, e, n, MaxOrders)
  <2>1. e \in [1 .. n -> 1 .. MaxOrders]
    BY <1>1, <1>2
  <2> QED BY <1>1, <1>2, <1>3, <1>4, <1>5, <2>1 DEF Lists
<1>7. \A k \in 0 .. n : Total(g, k) = SumOver(FlowOf, {e[i] : i \in 1 .. k}, MaxOrders)
  BY <1>6, TotalEnumerated
<1>8. {e[i] : i \in 1 .. n} = Filled
  BY <1>2
<1>9. Total(g, n) = SumOver(FlowOf, Filled, MaxOrders)
  <2>1. n \in 0 .. n
    BY <1>2
  <2> QED BY <1>7, <1>8, <2>1
<1>10. n = 0 => Total(g, n) = 0
  <2>1. \A i \in 1 .. 0 : g[i] = 0
    OBVIOUS
  <2>2. Total(g, 0) = 0
    BY <2>1, TotalZero
  <2> QED BY <2>2
<1>11. n # 0 => Cumulative[n] = Total(g, n)
  BY <1>2, <1>5
<1>12. Len(Cumulative) = n
  BY <1>2, <1>5
<1> QED BY <1>2, <1>9, <1>10, <1>11, <1>12 DEF n

\* Once the run has returned, nothing waits, so the records are what was heard.
LEMMA ReportIsHeard ==
  ASSUME ReportInv, driver = "done"
  PROVE  /\ Filled = {id \in OrderIds : lastEvent[id] = "completed"}
         /\ {id \in OrderIds : orders[id].status = "CANCELLED"}
              = {id \in OrderIds : lastEvent[id] \in {"cancelled", "triggered"}}
         /\ \A id \in OrderIds : lastEvent[id] # "none" => id \in 1 .. counter
<1>1. stack = << >>
  BY DEF ReportInv, AtRest, Idle
<1>2. \A id \in OrderIds : (orders[id].status = "FILLED") <=> (lastEvent[id] = "completed")
  BY <1>1 DEF ReportInv, CallInv, RecordOK, Waits
<1>3. ASSUME NEW id \in OrderIds, lastEvent[id] # "none" PROVE id \in 1 .. counter
  <2>1. ~(id > counter) /\ counter \in 0 .. MaxOrders /\ MaxOrders \in Nat /\ id \in 1 .. MaxOrders
    BY <1>3, ExchangeAssumption DEF ReportInv, CallInv, RecordOK, TypeInv, TypeOK, OrderIds
  <2> QED BY <2>1
<1> QED BY <1>2, <1>3 DEF Filled, ReportInv, CancelsAnnounced

\* What a run reports as filled and cancelled is what its listeners have heard
\* of the orders, and no order is counted twice (sandbox_engine.py:274-287).
THEOREM ReportCounts == SimSpec => []ReportCountsAnnouncements
<1>1. ReportInv => ReportCountsAnnouncements
  <2> SUFFICES ASSUME ReportInv, driver = "done"
               PROVE  /\ report.filled = Cardinality({id \in OrderIds : lastEvent[id] = "completed"})
                      /\ report.cancelled
                           = Cardinality({id \in OrderIds : lastEvent[id] \in {"cancelled", "triggered"}})
                      /\ report.placed >= report.filled + report.cancelled
    BY DEF ReportCountsAnnouncements
  <2> DEFINE C == {id \in OrderIds : orders[id].status = "CANCELLED"}
  <2>1. /\ report.placed = counter /\ report.filled = Cardinality(Filled)
        /\ report.cancelled = Cardinality(C)
    <3>1. report = BuildResult(Cumulative)
      BY DEF ReportInv
    <3>2. report.placed = counter /\ report.filled = Len(Cumulative) /\ report.cancelled = Cardinality(C)
      BY <3>1 DEF BuildResult
    <3> QED BY <3>2, SumsAddUp
  <2>2. counter \in Nat /\ Filled \cup C \subseteq 1 .. counter /\ Filled \cap C = {}
    <3>1. counter \in 0 .. MaxOrders /\ MaxOrders \in Nat
      BY ExchangeAssumption DEF ReportInv, CallInv, TypeInv, TypeOK
    <3>2. Filled \cup C \subseteq 1 .. counter
      BY ReportIsHeard
    <3>3. Filled \cap C = {}
      BY DEF Filled
    <3> QED BY <3>1, <3>2, <3>3
  <2>3. C = {id \in OrderIds : lastEvent[id] \in {"cancelled", "triggered"}}
    BY ReportIsHeard
  <2> HIDE DEF C
  <2>4. IsFiniteSet(1 .. counter) /\ Cardinality(1 .. counter) = counter
    <3>1. /\ IsFiniteSet(1 .. counter)
          /\ Cardinality(1 .. counter) = IF 1 > counter THEN 0 ELSE counter - 1 + 1
      BY <2>2, FS_Interval
    <3> QED BY <2>2, <3>1
  <2>5. /\ IsFiniteSet(Filled \cup C) /\ Cardinality(Filled \cup C) <= counter
        /\ IsFiniteSet(Filled) /\ IsFiniteSet(C)
    BY <2>2, <2>4, FS_Subset
  <2>6. Cardinality(Filled) + Cardinality(C) <= counter
    <3>1. /\ Cardinality(Filled) \in Nat /\ Cardinality(C) \in Nat
          /\ Cardinality(Filled \cap C) = 0
      BY <2>2, <2>5, FS_CardinalityType, FS_EmptySet
    <3>2. Cardinality(Filled \cup C) = Cardinality(Filled) + Cardinality(C) - Cardinality(Filled \cap C)
      BY <2>5, FS_Union
    <3> QED BY <2>2, <2>5, <3>1, <3>2
  <2>7. Cardinality(Filled) \in Nat /\ Cardinality(C) \in Nat
    BY <2>5, FS_CardinalityType
  <2>8. report.filled = Cardinality({id \in OrderIds : lastEvent[id] = "completed"})
    BY <2>1, ReportIsHeard
  <2>9. report.placed >= report.filled + report.cancelled
    BY <2>1, <2>2, <2>6, <2>7
  <2> QED BY <2>1, <2>3, <2>8, <2>9
<1>2. ReportInv /\ [SimNext]_<<vars, driverVars>> => ReportInv'
  BY ReportStep DEF simVars
<1> QED BY <1>1, <1>2, ReportInit, PTL DEF SimSpec

\* The flows of all orders are what the quote balance has moved by.
LEMMA FlowsMakeLedger ==
  ASSUME ReportInv
  PROVE  /\ \A i \in 1 .. MaxOrders : FlowOf[i] \in Int
         /\ balances["quote"].total - InitialBalances["quote"].total = Total(FlowOf, MaxOrders)
<1> DEFINE cb == CostOf("BUY")
           cs == CostOf("SELL")
           fb == FeeOf("BUY")
           fs == FeeOf("SELL")
           in == [i \in OrderIds |-> cs[i] - fs[i]]
           out == [i \in OrderIds |-> cb[i] + fb[i]]
<1>1. MaxOrders \in Nat /\ OrderIds = 1 .. MaxOrders /\ orders \in [OrderIds -> Order]
  BY ExchangeAssumption DEF OrderIds, ReportInv, CallInv, TypeInv, TypeOK
<1>2. ASSUME NEW i \in OrderIds
      PROVE  /\ cb[i] \in Int /\ cs[i] \in Int /\ fb[i] \in Int /\ fs[i] \in Int
             /\ FlowOf[i] \in Int /\ FlowOf[i] = (cs[i] - fs[i]) - (cb[i] + fb[i])
  <2>1. /\ orders[i] \in Order /\ orders[i].cost \in Int /\ orders[i].fee \in Int
        /\ orders[i].side \in {"BUY", "SELL"}
    BY <1>1 DEF Order, Sides
  <2>2. /\ cb[i] = OfSide(orders[i], "BUY", orders[i].cost)
        /\ cs[i] = OfSide(orders[i], "SELL", orders[i].cost)
        /\ fb[i] = OfSide(orders[i], "BUY", orders[i].fee)
        /\ fs[i] = OfSide(orders[i], "SELL", orders[i].fee)
        /\ FlowOf[i] = Flow(orders[i])
    BY DEF CostOf, FeeOf, FlowOf
  <2> HIDE DEF cb, cs, fb, fs
  <2>3. PICK c, f : c = orders[i].cost /\ f = orders[i].fee
    OBVIOUS
  <2>4. CASE orders[i].side = "BUY"
    <3>1. cb[i] = c /\ cs[i] = 0 /\ fb[i] = f /\ fs[i] = 0 /\ FlowOf[i] = -c - f
      BY <2>2, <2>3, <2>4 DEF OfSide, Flow
    <3> QED BY <2>1, <2>3, <3>1
  <2>5. CASE orders[i].side = "SELL"
    <3>1. cb[i] = 0 /\ cs[i] = c /\ fb[i] = 0 /\ fs[i] = f /\ FlowOf[i] = c - f
      BY <2>2, <2>3, <2>5 DEF OfSide, Flow
    <3> QED BY <2>1, <2>3, <3>1
  <2> QED BY <2>1, <2>4, <2>5
<1>3. QuoteMatches
  BY DEF ReportInv, LedgerInv
<1>4. InitialBalances["quote"].total \in Int
  BY ExchangeAssumption DEF TokenBalance, Currencies
<1>5. \A i \in 1 .. MaxOrders :
        /\ in[i] \in Int /\ out[i] \in Int /\ in[i] = cs[i] - fs[i] /\ cb[i] = out[i] - fb[i]
        /\ FlowOf[i] = in[i] - out[i]
  <2> SUFFICES ASSUME NEW i \in OrderIds
               PROVE  /\ in[i] \in Int /\ out[i] \in Int /\ in[i] = cs[i] - fs[i]
                      /\ cb[i] = out[i] - fb[i] /\ FlowOf[i] = in[i] - out[i]
    BY <1>1
  <2>1. in[i] = cs[i] - fs[i] /\ out[i] = cb[i] + fb[i]
    OBVIOUS
  <2> HIDE DEF cb, cs, fb, fs, in, out
  <2>2. PICK a, b, c, d : a = cs[i] /\ b = fs[i] /\ c = cb[i] /\ d = fb[i]
    OBVIOUS
  <2> QED BY <1>2, <2>1, <2>2
<1>6. /\ Total(cb, MaxOrders) \in Int /\ Total(cs, MaxOrders) \in Int
      /\ Total(fb, MaxOrders) \in Int /\ Total(fs, MaxOrders) \in Int
  <2>1. \A i \in 1 .. MaxOrders : cb[i] \in Int /\ cs[i] \in Int /\ fb[i] \in Int /\ fs[i] \in Int
    BY <1>1, <1>2
  <2> HIDE DEF cb, cs, fb, fs
  <2> QED BY <1>1, <2>1, TotalType
<1>7. balances["quote"].total = InitialBalances["quote"].total
        - Total(cb, MaxOrders) + Total(cs, MaxOrders) - Total(fb, MaxOrders) - Total(fs, MaxOrders)
  BY <1>3 DEF QuoteMatches
<1>8. /\ Total(in, MaxOrders) = Total(cs, MaxOrders) - Total(fs, MaxOrders)
      /\ Total(cb, MaxOrders) = Total(out, MaxOrders) - Total(fb, MaxOrders)
      /\ Total(FlowOf, MaxOrders) = Total(in, MaxOrders) - Total(out, MaxOrders)
      /\ Total(out, MaxOrders) \in Int /\ Total(in, MaxOrders) \in Int
  <2>1. \A i \in 1 .. MaxOrders : cb[i] \in Int /\ cs[i] \in Int /\ fb[i] \in Int /\ fs[i] \in Int
    BY <1>1, <1>2
  <2> HIDE DEF cb, cs, fb, fs, in, out
  <2>2. Total(in, MaxOrders) = Total(cs, MaxOrders) - Total(fs, MaxOrders)
    BY <1>1, <1>5, <2>1, TotalDifference
  <2>3. Total(cb, MaxOrders) = Total(out, MaxOrders) - Total(fb, MaxOrders)
    BY <1>1, <1>5, <2>1, TotalDifference
  <2>4. Total(FlowOf, MaxOrders) = Total(in, MaxOrders) - Total(out, MaxOrders)
    BY <1>1, <1>5, TotalDifference
  <2>5. Total(out, MaxOrders) \in Int /\ Total(in, MaxOrders) \in Int
    BY <1>1, <1>5, TotalType
  <2> QED BY <2>2, <2>3, <2>4, <2>5
<1> HIDE DEF cb, cs, fb, fs, in, out
<1>9. balances["quote"].total - InitialBalances["quote"].total = Total(FlowOf, MaxOrders)
  BY <1>4, <1>6, <1>7, <1>8
<1> QED BY <1>1, <1>2, <1>9

\* The profit or loss a run reports, with what the fills of unfinished orders
\* brought in, is what its quote balance has moved by, in whatever order the
\* fills are added up (sandbox_engine.py:276-312, exchange.py:622-630).
THEOREM ReportIsLedger == SimSpec => []ReportMatchesLedger
<1>1. ReportInv => ReportMatchesLedger
  <2> SUFFICES ASSUME ReportInv, driver = "done"
               PROVE  report.pnl + UnreportedFlow
                        = balances["quote"].total - InitialBalances["quote"].total
    BY DEF ReportMatchesLedger
  <2> DEFINE rest == [id \in OrderIds |-> IF orders[id].status = "FILLED" THEN 0 ELSE Flow(orders[id])]
             part == [id \in 1 .. MaxOrders |-> IF id \in Filled THEN FlowOf[id] ELSE 0]
  <2>1. report.pnl = Total(part, MaxOrders)
    <3>1. report = BuildResult(Cumulative)
      BY DEF ReportInv
    <3>2. report.pnl = IF Len(Cumulative) = 0 THEN 0 ELSE Cumulative[Len(Cumulative)]
      BY <3>1 DEF BuildResult
    <3>3. report.pnl = SumOver(FlowOf, Filled, MaxOrders)
      BY <3>2, SumsAddUp
    <3> QED BY <3>3 DEF SumOver
  <2>2. MaxOrders \in Nat /\ OrderIds = 1 .. MaxOrders
    BY ExchangeAssumption DEF OrderIds
  <2>3. \A i \in 1 .. MaxOrders : FlowOf[i] \in Int /\ rest[i] \in Int /\ part[i] = FlowOf[i] - rest[i]
    <3> SUFFICES ASSUME NEW i \in OrderIds
                 PROVE  FlowOf[i] \in Int /\ rest[i] \in Int /\ part[i] = FlowOf[i] - rest[i]
      BY <2>2
    <3>1. FlowOf[i] \in Int /\ FlowOf[i] = Flow(orders[i])
      BY <2>2, FlowsMakeLedger DEF FlowOf
    <3> QED BY <2>2, <3>1 DEF Filled
  <2>4. UnreportedFlow = Total(rest, MaxOrders)
    BY DEF UnreportedFlow
  <2> HIDE DEF rest, part
  <2>5. Total(part, MaxOrders) = Total(FlowOf, MaxOrders) - Total(rest, MaxOrders)
    BY <2>2, <2>3, TotalDifference
  <2>6. Total(FlowOf, MaxOrders) \in Int /\ Total(rest, MaxOrders) \in Int
    BY <2>2, <2>3, TotalType
  <2>7. report.pnl + UnreportedFlow = Total(FlowOf, MaxOrders)
    BY <2>1, <2>4, <2>5, <2>6
  <2> QED BY <2>7, FlowsMakeLedger
<1>2. ReportInv /\ [SimNext]_<<vars, driverVars>> => ReportInv'
  BY ReportStep DEF simVars
<1> QED BY <1>1, <1>2, ReportInit, PTL DEF SimSpec

-----------------------------------------------------------------------------
(* Drawdowns. *)

Series(s, n) == n \in Nat \ {0} /\ \A i \in 1 .. n : s[i] \in Int

IsPeaks(p, s, n) ==
  /\ p \in [1 .. n -> Int]
  /\ \A i \in 1 .. n : p[i] = IF i = 1 THEN s[1] ELSE Higher(p[i - 1], s[i])

IsDrops(d, s, n) ==
  /\ d \in [1 .. n -> Int]
  /\ \A i \in 1 .. n : d[i] = IF i = 1 THEN 0 ELSE Higher(d[i - 1], Peaks(s, n)[i] - s[i])

\* Peaks is the function its recursion says.
LEMMA PeaksAreDefined ==
  ASSUME NEW n, NEW s, Series(s, n)
  PROVE  IsPeaks(Peaks(s, n), s, n)
<1> DEFINE F == [i \in 1 .. n |-> [v \in Int |-> Higher(v, s[i])]]
           P(f) == f = [i \in 1 .. n |-> IF i = 1 THEN s[1] ELSE Higher(f[i - 1], s[i])]
           peak == CHOOSE f : P(f)
<1>1. n \in Nat /\ s[1] \in Int /\ \A i \in 1 .. n : s[i] \in Int
  BY DEF Series
<1>2. \A i \in 1 .. n : F[i] \in [Int -> Int]
  BY <1>1 DEF Higher
<1>3. PICK f : IsScan(f, n, Int, s[1], F)
  <2> HIDE DEF F
  <2> QED BY <1>1, <1>2, ScanExists
<1>4. \A i \in 1 .. n : f[i] = IF i = 1 THEN s[1] ELSE Higher(f[i - 1], s[i])
  <2> SUFFICES ASSUME NEW i \in 1 .. n PROVE f[i] = IF i = 1 THEN s[1] ELSE Higher(f[i - 1], s[i])
    OBVIOUS
  <2>1. f[i] = IF i = 1 THEN s[1] ELSE F[i][f[i - 1]]
    <3> HIDE DEF F
    <3> QED BY <1>3 DEF IsScan
  <2>2. i # 1 => F[i][f[i - 1]] = Higher(f[i - 1], s[i])
    <3>1. i # 1 => i - 1 \in 1 .. n
      BY <1>1
    <3>2. i # 1 => f[i - 1] \in Int
      BY <1>3, <3>1 DEF IsScan
    <3> QED BY <3>2
  <2> QED BY <2>1, <2>2
<1>5. P(f)
  <2>1. f \in [1 .. n -> Int]
    BY <1>3 DEF IsScan
  <2> QED BY <1>4, <2>1
<1>6. P(peak)
  <2> HIDE DEF P
  <2> QED BY <1>5
<1>7. Peaks(s, n) = peak
  BY DEF Peaks
<1> HIDE DEF peak
<1>8. \A i \in 1 .. n : peak[i] = IF i = 1 THEN s[1] ELSE Higher(peak[i - 1], s[i])
  BY <1>6
<1>9. \A i \in 1 .. n : peak[i] \in Int
  <2> DEFINE T == {m \in 0 .. n : m = 0 \/ peak[m] \in Int}
  <2>1. 0 \in T
    BY <1>1
  <2>2. ASSUME NEW m \in 0 .. n - 1, m \in T PROVE m + 1 \in T
    <3>1. m + 1 \in 1 .. n /\ m + 1 \in 0 .. n
      BY <1>1
    <3>2. CASE m = 0
      BY <1>1, <1>8, <3>1, <3>2
    <3>3. CASE m # 0
      <4>1. peak[m + 1] = Higher(peak[m], s[m + 1]) /\ peak[m] \in Int /\ s[m + 1] \in Int
        BY <1>1, <1>8, <2>2, <3>1, <3>3
      <4> QED BY <3>1, <4>1 DEF Higher
    <3> QED BY <3>2, <3>3
  <2>3. 0 .. n \subseteq T
    <3> HIDE DEF T
    <3> QED BY <1>1, <2>1, <2>2, RangeInduction
  <2> QED BY <1>1, <2>3
<1>10. peak \in [1 .. n -> Int]
  BY <1>6, <1>9
<1> QED BY <1>7, <1>8, <1>10 DEF IsPeaks

\* A peak is the highest value so far.
LEMMA PeakIsHighest ==
  ASSUME NEW n, NEW s, Series(s, n), NEW p, IsPeaks(p, s, n)
  PROVE  \A i \in 1 .. n : /\ \E j \in 1 .. i : p[i] = s[j]
                           /\ \A j \in 1 .. i : s[j] <= p[i]
<1> DEFINE Highest(m) == (\E j \in 1 .. m : p[m] = s[j]) /\ (\A j \in 1 .. m : s[j] <= p[m])
           T == {m \in 0 .. n : m = 0 \/ Highest(m)}
<1>1. n \in Nat /\ \A i \in 1 .. n : s[i] \in Int /\ p[i] \in Int
  BY DEF Series, IsPeaks
<1>2. 0 \in T
  BY <1>1
<1>3. ASSUME NEW m \in 0 .. n - 1, m \in T PROVE m + 1 \in T
  <2>1. m + 1 \in 1 .. n /\ m + 1 \in 0 .. n /\ m \in Nat
    BY <1>1
  <2>2. CASE m = 0
    <3>1. p[1] = s[1] /\ 1 .. 1 = {1} /\ s[1] <= p[1]
      BY <1>1, <2>1, <2>2 DEF IsPeaks
    <3>2. Highest(1)
      BY <3>1
    <3> QED BY <2>1, <2>2, <3>2
  <2>3. CASE m # 0
    <3>1. m \in 1 .. n /\ Highest(m)
      BY <1>3, <2>1, <2>3
    <3>2. p[m + 1] = Higher(p[m], s[m + 1]) /\ p[m] \in Int /\ s[m + 1] \in Int /\ p[m + 1] \in Int
      BY <1>1, <2>1, <2>3, <3>1 DEF IsPeaks
    <3>3. p[m] <= p[m + 1] /\ s[m + 1] <= p[m + 1] /\ p[m + 1] \in {p[m], s[m + 1]}
      BY <3>2 DEF Higher
    <3>4. \E j \in 1 .. m + 1 : p[m + 1] = s[j]
      BY <2>1, <3>1, <3>3
    <3>5. ASSUME NEW j \in 1 .. m + 1 PROVE s[j] <= p[m + 1]
      <4>1. CASE j \in 1 .. m
        <5>1. s[j] <= p[m] /\ s[j] \in Int
          BY <1>1, <3>1, <4>1
        <5> QED BY <3>2, <3>3, <5>1
      <4>2. CASE j = m + 1
        BY <3>3, <4>2
      <4> QED BY <2>1, <4>1, <4>2
    <3>6. Highest(m + 1)
      BY <3>4, <3>5
    <3> QED BY <2>1, <3>6
  <2> QED BY <2>2, <2>3
<1>4. 0 .. n \subseteq T
  <2> HIDE DEF T
  <2> QED BY <1>1, <1>2, <1>3, RangeInduction
<1> QED BY <1>1, <1>4

\* The last of the drops is the largest fall from a value to a later one.
LEMMA LastDropIsWorst ==
  ASSUME NEW n, NEW s, Series(s, n), NEW d, IsDrops(d, s, n)
  PROVE  /\ d[n] = WorstFall(s, n)
         /\ \A i, j \in 1 .. n : i <= j => s[i] - s[j] <= d[n]
         /\ \E i, j \in 1 .. n : i <= j /\ d[n] = s[i] - s[j]
<1> DEFINE p == Peaks(s, n)
           Falls(m) == {s[q[1]] - s[q[2]] : q \in {r \in (1 .. m) \X (1 .. m) : r[1] <= r[2]}}
           Worst(m) == /\ \E i, j \in 1 .. m : i <= j /\ d[m] = s[i] - s[j]
                       /\ \A i, j \in 1 .. m : i <= j => s[i] - s[j] <= d[m]
           T == {m \in 0 .. n : m = 0 \/ Worst(m)}
<1>1. IsPeaks(p, s, n)
  BY PeaksAreDefined
<1>2. \A i \in 1 .. n : /\ \E j \in 1 .. i : p[i] = s[j]
                         /\ \A k \in 1 .. i : s[k] <= p[i]
  BY <1>1, PeakIsHighest
<1> HIDE DEF p
<1>3. n \in Nat \ {0} /\ \A i \in 1 .. n : s[i] \in Int /\ p[i] \in Int /\ d[i] \in Int
  BY <1>1 DEF Series, IsPeaks, IsDrops
<1>4. \A i \in 1 .. n : d[i] = IF i = 1 THEN 0 ELSE Higher(d[i - 1], p[i] - s[i])
  BY DEF IsDrops, p
<1>5. 0 \in T
  BY <1>3
<1>6. ASSUME NEW m \in 0 .. n - 1, m \in T PROVE m + 1 \in T
  <2>1. m + 1 \in 1 .. n /\ m + 1 \in 0 .. n /\ m \in Nat
    BY <1>3
  <2>2. CASE m = 0
    <3>1. d[1] = s[1] - s[1] /\ 1 .. 1 = {1} /\ 1 <= 1
      BY <1>3, <1>4, <2>1, <2>2
    <3>2. \A i, j \in 1 .. 1 : i <= j => s[i] - s[j] <= d[1]
      BY <1>3, <2>1, <3>1
    <3>3. Worst(1)
      BY <3>1, <3>2
    <3> QED BY <2>1, <2>2, <3>3
  <2>3. CASE m # 0
    <3>1. m \in 1 .. n /\ Worst(m)
      BY <1>6, <2>1, <2>3
    <3>2. /\ d[m + 1] = Higher(d[m], p[m + 1] - s[m + 1])
          /\ d[m] \in Int /\ d[m + 1] \in Int /\ p[m + 1] \in Int /\ s[m + 1] \in Int
      BY <1>3, <1>4, <2>1, <2>3, <3>1
    <3>3. /\ d[m] <= d[m + 1] /\ p[m + 1] - s[m + 1] <= d[m + 1]
          /\ d[m + 1] \in {d[m], p[m + 1] - s[m + 1]}
      BY <3>2 DEF Higher
    <3>4. \E i, j \in 1 .. m + 1 : i <= j /\ d[m + 1] = s[i] - s[j]
      <4>1. CASE d[m + 1] = d[m]
        <5>1. PICK i \in 1 .. m, j \in 1 .. m : i <= j /\ d[m] = s[i] - s[j]
          BY <3>1
        <5>2. i \in 1 .. m + 1 /\ j \in 1 .. m + 1
          BY <2>1
        <5> QED BY <4>1, <5>1, <5>2
      <4>2. CASE d[m + 1] = p[m + 1] - s[m + 1]
        <5>1. PICK i \in 1 .. m + 1 : p[m + 1] = s[i]
          BY <1>2, <2>1
        <5>2. m + 1 \in 1 .. m + 1 /\ i <= m + 1
          BY <2>1
        <5> QED BY <4>2, <5>1, <5>2
      <4> QED BY <3>3, <4>1, <4>2
    <3>5. ASSUME NEW i \in 1 .. m + 1, NEW j \in 1 .. m + 1, i <= j PROVE s[i] - s[j] <= d[m + 1]
      <4>1. s[i] \in Int /\ s[j] \in Int
        BY <1>3, <2>1
      <4>2. CASE j \in 1 .. m
        <5>1. i \in 1 .. m
          BY <2>1, <3>5, <4>2
        <5>2. s[i] - s[j] <= d[m]
          BY <3>1, <3>5, <4>2, <5>1
        <5> QED BY <3>2, <3>3, <4>1, <5>2
      <4>3. CASE j = m + 1
        <5>1. s[i] <= p[m + 1]
          BY <1>2, <2>1
        <5> QED BY <3>2, <3>3, <4>1, <4>3, <5>1
      <4> QED BY <2>1, <4>2, <4>3
    <3>6. Worst(m + 1)
      BY <3>4, <3>5
    <3> QED BY <2>1, <3>6
  <2> QED BY <2>2, <2>3
<1>7. 0 .. n \subseteq T
  <2> HIDE DEF T
  <2> QED BY <1>3, <1>5, <1>6, RangeInduction
<1>8. Worst(n)
  BY <1>3, <1>7
<1>9. d[n] \in Falls(n) /\ \A y \in Falls(n) : y \in Int /\ y <= d[n]
  <2>1. PICK i \in 1 .. n, j \in 1 .. n : i <= j /\ d[n] = s[i] - s[j]
    BY <1>8
  <2>2. d[n] \in Falls(n)
    <3>1. <<i, j>> \in {r \in (1 .. n) \X (1 .. n) : r[1] <= r[2]}
      BY <2>1
    <3>2. d[n] = s[<<i, j>>[1]] - s[<<i, j>>[2]]
      BY <2>1
    <3> QED BY <3>1, <3>2
  <2>3. ASSUME NEW y \in Falls(n) PROVE y \in Int /\ y <= d[n]
    <3>1. PICK q \in (1 .. n) \X (1 .. n) : q[1] <= q[2] /\ y = s[q[1]] - s[q[2]]
      OBVIOUS
    <3>2. q[1] \in 1 .. n /\ q[2] \in 1 .. n
      OBVIOUS
    <3> QED BY <1>3, <1>8, <3>1, <3>2
  <2> QED BY <2>2, <2>3
<1>10. d[n] \in Int
  BY <1>3
<1>11. Greatest(Falls(n)) = d[n]
  <2> HIDE DEF Falls, Worst, T
  <2>1. \E x \in Falls(n) : \A y \in Falls(n) : x >= y
    BY <1>9, <1>10
  <2>2. /\ Greatest(Falls(n)) \in Falls(n)
        /\ \A y \in Falls(n) : Greatest(Falls(n)) >= y
    BY <2>1 DEF Greatest
  <2> QED BY <1>9, <1>10, <2>2
<1> QED BY <1>8, <1>11 DEF WorstFall

\* The loop of calculate_max_drawdown is the function its recursion says.
LEMMA DropsAreDefined ==
  ASSUME NEW n, NEW s, Series(s, n)
  PROVE  \E d : IsDrops(d, s, n) /\ MaxDrawdown(s, n) = d[n]
<1> DEFINE p == Peaks(s, n)
           F == [i \in 1 .. n |-> [v \in Int |-> Higher(v, p[i] - s[i])]]
           P(f) == f = [i \in 1 .. n |-> IF i = 1 THEN 0 ELSE Higher(f[i - 1], p[i] - s[i])]
           drop == CHOOSE f : P(f)
<1>1. n \in Nat \ {0} /\ \A i \in 1 .. n : s[i] \in Int /\ p[i] \in Int
  BY PeaksAreDefined DEF Series, IsPeaks
<1>2. MaxDrawdown(s, n) = drop[n]
  BY <1>1 DEF MaxDrawdown
<1>3. \A f : (f \in [1 .. n -> Int] /\ P(f)) => IsDrops(f, s, n)
  BY DEF IsDrops
<1> HIDE DEF p
<1>4. \A i \in 1 .. n : F[i] \in [Int -> Int]
  BY <1>1 DEF Higher
<1>5. PICK f : IsScan(f, n, Int, 0, F)
  <2>1. n \in Nat /\ 0 \in Int
    BY <1>1
  <2> HIDE DEF F
  <2> QED BY <1>4, <2>1, ScanExists
<1>6. f \in [1 .. n -> Int]
  <2> HIDE DEF F
  <2> QED BY <1>5 DEF IsScan
<1>7. \A i \in 1 .. n : f[i] = IF i = 1 THEN 0 ELSE Higher(f[i - 1], p[i] - s[i])
  <2> SUFFICES ASSUME NEW i \in 1 .. n
               PROVE  f[i] = IF i = 1 THEN 0 ELSE Higher(f[i - 1], p[i] - s[i])
    OBVIOUS
  <2>1. f[i] = IF i = 1 THEN 0 ELSE F[i][f[i - 1]]
    <3> HIDE DEF F
    <3> QED BY <1>5 DEF IsScan
  <2>2. i # 1 => F[i][f[i - 1]] = Higher(f[i - 1], p[i] - s[i])
    <3>1. i # 1 => i - 1 \in 1 .. n
      BY <1>1
    <3>2. i # 1 => f[i - 1] \in Int
      BY <1>6, <3>1
    <3> QED BY <3>2
  <2> QED BY <2>1, <2>2
<1>8. P(f)
  BY <1>6, <1>7
<1>9. P(drop)
  <2> HIDE DEF P
  <2> QED BY <1>8
<1> HIDE DEF drop
<1>10. \A i \in 1 .. n : drop[i] = IF i = 1 THEN 0 ELSE Higher(drop[i - 1], p[i] - s[i])
  BY <1>9
<1>11. \A i \in 1 .. n : drop[i] \in Int
  <2> DEFINE T == {m \in 0 .. n : m = 0 \/ drop[m] \in Int}
  <2>1. 0 \in T
    BY <1>1
  <2>2. ASSUME NEW m \in 0 .. n - 1, m \in T PROVE m + 1 \in T
    <3>1. m + 1 \in 1 .. n /\ m + 1 \in 0 .. n
      BY <1>1
    <3>2. CASE m = 0
      BY <1>1, <1>10, <3>1, <3>2
    <3>3. CASE m # 0
      <4>1. /\ drop[m + 1] = Higher(drop[m], p[m + 1] - s[m + 1])
            /\ drop[m] \in Int /\ p[m + 1] \in Int /\ s[m + 1] \in Int
        BY <1>1, <1>10, <2>2, <3>1, <3>3
      <4> QED BY <3>1, <4>1 DEF Higher
    <3> QED BY <3>2, <3>3
  <2>3. 0 .. n \subseteq T
    <3> HIDE DEF T
    <3> QED BY <1>1, <2>1, <2>2, RangeInduction
  <2> QED BY <1>1, <2>3
<1>12. drop \in [1 .. n -> Int]
  BY <1>9, <1>11
<1>13. IsDrops(drop, s, n)
  BY <1>3, <1>9, <1>12
<1> QED BY <1>2, <1>13

\* For every series of whole numbers: what the loop of calculate_max_drawdown
\* keeps is the largest fall from a value to one that is not earlier
\* (performance.py:46-56), which MetricsAgree compares with the other two ways.
THEOREM DrawdownIsWorstFall ==
  ASSUME NEW n, NEW s, Series(s, n)
  PROVE  MaxDrawdown(s, n) = WorstFall(s, n)
<1>1. PICK d : IsDrops(d, s, n) /\ MaxDrawdown(s, n) = d[n]
  BY DropsAreDefined
<1> QED BY <1>1, LastDropIsWorst
-----------------------------------------------------------------------------
(* The other metrics. *)

\* What calculate_all_metrics keeps.
Accumulator ==
  [peak : Int, drop : Int, part : Int \X Int, sum : Int, squares : Int,
   profit : Int, loss : Int, count : Int, prev : Int]

IsSeen(a, s, n) ==
  /\ a \in [1 .. n -> Accumulator]
  /\ \A i \in 1 .. n : a[i] = IF i = 1 THEN Start(s[1]) ELSE Accumulate(a[i - 1], s[i])

IsParts(q, s, n) ==
  /\ q \in [1 .. n -> Int \X Int]
  /\ \A i \in 1 .. n :
       q[i] = IF i = 1 THEN None
              ELSE IF Peaks(s, n)[i] > 0
              THEN Larger(q[i - 1], <<Peaks(s, n)[i] - s[i], Peaks(s, n)[i]>>)
              ELSE q[i - 1]

\* Every step of the loop keeps numbers.
LEMMA AccumulatorType ==
  ASSUME NEW v \in Int
  PROVE  Start(v) \in Accumulator /\ \A a \in Accumulator : Accumulate(a, v) \in Accumulator
<1>1. Start(v) \in Accumulator
  BY DEF Start, Accumulator, None
<1>2. ASSUME NEW a \in Accumulator PROVE Accumulate(a, v) \in Accumulator
  <2>1. PICK ret \in Int, square \in Int : ret = v - a.prev /\ square = ret * ret
    <3>1. v - a.prev \in Int
      BY DEF Accumulator
    <3>2. \A x \in Int : x * x \in Int
      OBVIOUS
    <3> QED BY <3>1, <3>2
  <2>2. PICK peak \in Int : peak = Higher(a.peak, v)
    BY DEF Accumulator, Higher
  <2>3. /\ a.drop \in Int /\ a.part \in Int \X Int /\ a.sum \in Int /\ a.squares \in Int
        /\ a.profit \in Int /\ a.loss \in Int /\ a.count \in Int
    BY DEF Accumulator
  <2>4. \A x, y \in Int : Higher(x, y) \in Int /\ -x \in Int
    BY DEF Higher
  <2>5. (IF peak > 0 THEN Larger(a.part, <<peak - v, peak>>) ELSE a.part) \in Int \X Int
    BY <2>3 DEF Larger
  <2>6. /\ Higher(a.drop, peak - v) \in Int
        /\ a.profit + Higher(0, ret) \in Int /\ a.loss + Higher(0, -ret) \in Int
        /\ a.sum + ret \in Int /\ a.squares + square \in Int /\ a.count + 1 \in Int
    <3>0. Higher(0, ret) \in Int /\ Higher(0, -ret) \in Int /\ Higher(a.drop, peak - v) \in Int
      <4>1. -ret \in Int /\ peak - v \in Int /\ 0 \in Int
        OBVIOUS
      <4>2. \A x, y \in Int : Higher(x, y) \in Int
        BY <2>4
      <4> QED BY <2>3, <4>1, <4>2
    <3>1. PICK g \in Int, h \in Int : g = Higher(0, ret) /\ h = Higher(0, -ret)
      BY <3>0
    <3>2. a.profit + g \in Int /\ a.loss + h \in Int
      BY <2>3
    <3>3. a.sum + ret \in Int /\ a.squares + square \in Int /\ a.count + 1 \in Int
      BY <2>3
    <3> QED BY <3>0, <3>1, <3>2, <3>3
  <2>7. Accumulate(a, v) =
          [peak |-> peak, drop |-> Higher(a.drop, peak - v),
           part |-> IF peak > 0 THEN Larger(a.part, <<peak - v, peak>>) ELSE a.part,
           sum |-> a.sum + ret, squares |-> a.squares + square,
           profit |-> a.profit + Higher(0, ret), loss |-> a.loss + Higher(0, -ret),
           count |-> a.count + 1, prev |-> v]
    BY <2>1, <2>2 DEF Accumulate
  <2> QED BY <2>5, <2>6, <2>7 DEF Accumulator
<1> QED BY <1>1, <1>2

\* The loop of calculate_all_metrics is the function its recursion says.
LEMMA SeenIsDefined ==
  ASSUME NEW n, NEW s, Series(s, n)
  PROVE  \E a : /\ IsSeen(a, s, n)
                /\ AllMetrics(s, n) =
                     [drop |-> a[n].drop, part |-> a[n].part,
                      sharpe |-> Sharpe(a[n].sum, a[n].squares, a[n].count),
                      factor |-> Factor(a[n].profit, a[n].loss)]
<1> DEFINE F == [i \in 1 .. n |-> [v \in Accumulator |-> Accumulate(v, s[i])]]
           P(f) == f = [i \in 1 .. n |-> IF i = 1 THEN Start(s[1]) ELSE Accumulate(f[i - 1], s[i])]
           seen == CHOOSE f : P(f)
<1>1. n \in Nat \ {0} /\ \A i \in 1 .. n : s[i] \in Int
  BY DEF Series
<1>2. AllMetrics(s, n) =
        [drop |-> seen[n].drop, part |-> seen[n].part,
         sharpe |-> Sharpe(seen[n].sum, seen[n].squares, seen[n].count),
         factor |-> Factor(seen[n].profit, seen[n].loss)]
  BY <1>1, SMTT(30) DEF AllMetrics
<1>3. \A i \in 1 .. n : F[i] \in [Accumulator -> Accumulator]
  BY <1>1, AccumulatorType
<1>4. PICK f : IsScan(f, n, Accumulator, Start(s[1]), F)
  <2>1. n \in Nat /\ Start(s[1]) \in Accumulator
    BY <1>1, AccumulatorType
  <2> HIDE DEF F
  <2> QED BY <1>3, <2>1, ScanExists
<1>5. f \in [1 .. n -> Accumulator]
  <2> HIDE DEF F
  <2> QED BY <1>4 DEF IsScan
<1>6. \A i \in 1 .. n : f[i] = IF i = 1 THEN Start(s[1]) ELSE Accumulate(f[i - 1], s[i])
  <2> SUFFICES ASSUME NEW i \in 1 .. n
               PROVE  f[i] = IF i = 1 THEN Start(s[1]) ELSE Accumulate(f[i - 1], s[i])
    OBVIOUS
  <2>1. f[i] = IF i = 1 THEN Start(s[1]) ELSE F[i][f[i - 1]]
    <3> HIDE DEF F
    <3> QED BY <1>4 DEF IsScan
  <2>2. i # 1 => F[i][f[i - 1]] = Accumulate(f[i - 1], s[i])
    <3>1. i # 1 => i - 1 \in 1 .. n
      BY <1>1
    <3>2. i # 1 => f[i - 1] \in Accumulator
      BY <1>5, <3>1
    <3> QED BY <3>2
  <2> QED BY <2>1, <2>2
<1>7. P(f)
  BY <1>5, <1>6
<1>8. P(seen)
  <2> HIDE DEF P
  <2> QED BY <1>7
<1> HIDE DEF seen
<1>9. \A i \in 1 .. n : seen[i] = IF i = 1 THEN Start(s[1]) ELSE Accumulate(seen[i - 1], s[i])
  BY <1>8
<1>10. \A i \in 1 .. n : seen[i] \in Accumulator
  <2> DEFINE T == {m \in 0 .. n : m = 0 \/ seen[m] \in Accumulator}
  <2>1. 0 \in T
    BY <1>1
  <2>2. ASSUME NEW m \in 0 .. n - 1, m \in T PROVE m + 1 \in T
    <3>1. m + 1 \in 1 .. n /\ m + 1 \in 0 .. n /\ s[m + 1] \in Int
      BY <1>1
    <3>2. CASE m = 0
      BY <1>1, <1>9, <3>1, <3>2, AccumulatorType
    <3>3. CASE m # 0
      <4>1. seen[m + 1] = Accumulate(seen[m], s[m + 1]) /\ seen[m] \in Accumulator
        BY <1>1, <1>9, <2>2, <3>1, <3>3
      <4> QED BY <3>1, <4>1, AccumulatorType
    <3> QED BY <3>2, <3>3
  <2>3. 0 .. n \subseteq T
    <3> HIDE DEF T
    <3> QED BY <1>1, <2>1, <2>2, RangeInduction
  <2> QED BY <1>1, <2>3
<1>11. seen \in [1 .. n -> Accumulator]
  BY <1>8, <1>10
<1>12. IsSeen(seen, s, n)
  BY <1>9, <1>11 DEF IsSeen
<1> QED BY <1>2, <1>12

\* The second loop of calculate_max_drawdown is the function its recursion says.
LEMMA PartsAreDefined ==
  ASSUME NEW n, NEW s, Series(s, n)
  PROVE  \E q : IsParts(q, s, n) /\ MaxDrawdownPct(s, n) = q[n]
<1> DEFINE p == Peaks(s, n)
           Next1(v, i) == IF p[i] > 0 THEN Larger(v, <<p[i] - s[i], p[i]>>) ELSE v
           F == [i \in 1 .. n |-> [v \in Int \X Int |-> Next1(v, i)]]
           P(f) == f = [i \in 1 .. n |->
                          IF i = 1 THEN None
                          ELSE IF p[i] > 0 THEN Larger(f[i - 1], <<p[i] - s[i], p[i]>>)
                          ELSE f[i - 1]]
           part == CHOOSE f : P(f)
<1>1. n \in Nat \ {0} /\ \A i \in 1 .. n : s[i] \in Int /\ p[i] \in Int
  BY PeaksAreDefined DEF Series, IsPeaks
<1>2. MaxDrawdownPct(s, n) = part[n]
  BY <1>1 DEF MaxDrawdownPct
<1>3. \A f : (f \in [1 .. n -> Int \X Int]
              /\ \A i \in 1 .. n : f[i] = IF i = 1 THEN None ELSE Next1(f[i - 1], i))
             => IsParts(f, s, n)
  BY DEF IsParts
<1> HIDE DEF p
<1>4. \A i \in 1 .. n : \A v \in Int \X Int : Next1(v, i) \in Int \X Int
  BY <1>1 DEF Larger
<1>5. \A i \in 1 .. n : F[i] \in [Int \X Int -> Int \X Int]
  <2> HIDE DEF Next1
  <2> QED BY <1>4
<1>6. PICK f : IsScan(f, n, Int \X Int, None, F)
  <2>1. n \in Nat /\ None \in Int \X Int
    BY <1>1 DEF None
  <2> HIDE DEF F
  <2> QED BY <1>5, <2>1, ScanExists
<1>7. f \in [1 .. n -> Int \X Int]
  <2> HIDE DEF F
  <2> QED BY <1>6 DEF IsScan
<1>8. \A i \in 1 .. n : f[i] = IF i = 1 THEN None ELSE Next1(f[i - 1], i)
  <2> SUFFICES ASSUME NEW i \in 1 .. n
               PROVE  f[i] = IF i = 1 THEN None ELSE Next1(f[i - 1], i)
    OBVIOUS
  <2>1. f[i] = IF i = 1 THEN None ELSE F[i][f[i - 1]]
    <3> HIDE DEF F
    <3> QED BY <1>6 DEF IsScan
  <2>2. i # 1 => F[i][f[i - 1]] = Next1(f[i - 1], i)
    <3>1. i # 1 => i - 1 \in 1 .. n
      BY <1>1
    <3>2. i # 1 => f[i - 1] \in Int \X Int
      BY <1>7, <3>1
    <3> HIDE DEF Next1
    <3> QED BY <3>2
  <2> HIDE DEF F, Next1
  <2> QED BY <2>1, <2>2
<1>9. P(f)
  BY <1>7, <1>8
<1>10. P(part)
  <2> HIDE DEF P
  <2> QED BY <1>9
<1> HIDE DEF part
<1>11. \A i \in 1 .. n : part[i] = IF i = 1 THEN None ELSE Next1(part[i - 1], i)
  BY <1>10
<1>12. \A i \in 1 .. n : part[i] \in Int \X Int
  <2> DEFINE T == {m \in 0 .. n : m = 0 \/ part[m] \in Int \X Int}
  <2> HIDE DEF Next1
  <2>1. 0 \in T
    BY <1>1
  <2>2. ASSUME NEW m \in 0 .. n - 1, m \in T PROVE m + 1 \in T
    <3>1. m + 1 \in 1 .. n /\ m + 1 \in 0 .. n
      BY <1>1
    <3>2. CASE m = 0
      <4>1. part[m + 1] = None
        BY <1>11, <3>1, <3>2
      <4> QED BY <3>1, <4>1 DEF None
    <3>3. CASE m # 0
      <4>1. part[m + 1] = Next1(part[m], m + 1) /\ part[m] \in Int \X Int
        BY <1>1, <1>11, <2>2, <3>1, <3>3
      <4> QED BY <1>4, <3>1, <4>1
    <3> QED BY <3>2, <3>3
  <2>3. 0 .. n \subseteq T
    <3> HIDE DEF T
    <3> QED BY <1>1, <2>1, <2>2, RangeInduction
  <2> QED BY <1>1, <2>3
<1>13. part \in [1 .. n -> Int \X Int]
  BY <1>10, <1>12
<1>14. IsParts(part, s, n)
  BY <1>3, <1>11, <1>13
<1> QED BY <1>2, <1>14

StepAlike(f, g, n) ==
  f[1] = g[1] /\ \A i \in 1 .. n : (i # 1 /\ f[i - 1] = g[i - 1]) => f[i] = g[i]

\* Two recursions that start alike and step alike agree everywhere.
LEMMA SameSteps ==
  ASSUME NEW n \in Nat, NEW f, NEW g, StepAlike(f, g, n)
  PROVE  \A i \in 1 .. n : f[i] = g[i]
<1>0. f[1] = g[1] /\ \A i \in 1 .. n : (i # 1 /\ f[i - 1] = g[i - 1]) => f[i] = g[i]
  BY DEF StepAlike
<1> DEFINE T == {m \in 0 .. n : m = 0 \/ f[m] = g[m]}
<1>1. 0 \in T
  OBVIOUS
<1>2. ASSUME NEW m \in 0 .. n - 1, m \in T PROVE m + 1 \in T
  <2>1. m + 1 \in 1 .. n /\ m + 1 \in 0 .. n /\ (m + 1) - 1 = m
    OBVIOUS
  <2>2. CASE m = 0
    BY <1>0, <2>1, <2>2
  <2>3. CASE m # 0
    <3>1. f[m] = g[m] /\ m + 1 # 1
      BY <1>2, <2>3
    <3>2. f[m + 1] = g[m + 1]
      BY <1>0, <2>1, <3>1
    <3> QED BY <2>1, <3>2
  <2> QED BY <2>2, <2>3
<1>3. 0 .. n \subseteq T
  <2> HIDE DEF T
  <2> QED BY <1>1, <1>2, RangeInduction
<1> QED BY <1>3

\* One step of the loop, field by field.
LEMMA AccumulateParts ==
  ASSUME NEW b, NEW v
  PROVE  /\ Accumulate(b, v).peak = Higher(b.peak, v)
         /\ Accumulate(b, v).drop = Higher(b.drop, Accumulate(b, v).peak - v)
         /\ Accumulate(b, v).part =
              IF Accumulate(b, v).peak > 0
              THEN Larger(b.part, <<Accumulate(b, v).peak - v, Accumulate(b, v).peak>>)
              ELSE b.part
         /\ Accumulate(b, v).sum = b.sum + (v - b.prev)
         /\ Accumulate(b, v).squares = b.squares + (v - b.prev) * (v - b.prev)
         /\ Accumulate(b, v).profit = b.profit + Higher(0, v - b.prev)
         /\ Accumulate(b, v).loss = b.loss + Higher(0, -(v - b.prev))
         /\ Accumulate(b, v).prev = v
         /\ Accumulate(b, v).count = b.count + 1
BY DEF Accumulate

\* What the loop keeps of the values themselves: the peak, the largest drop, the
\* largest part, the last value and how many returns it has seen.
LEMMA SeenValues ==
  ASSUME NEW n, NEW s, Series(s, n), NEW a, IsSeen(a, s, n),
         NEW d, IsDrops(d, s, n), NEW q, IsParts(q, s, n)
  PROVE  \A i \in 1 .. n : /\ a[i].peak = Peaks(s, n)[i] /\ a[i].drop = d[i] /\ a[i].part = q[i]
                           /\ a[i].prev = s[i] /\ a[i].count = i - 1
<1> DEFINE p == Peaks(s, n)
<1>1. n \in Nat \ {0} /\ 1 \in 1 .. n /\ \A i \in 1 .. n : s[i] \in Int
  BY DEF Series
<1>2. IsPeaks(p, s, n)
  BY PeaksAreDefined
<1>3. \A i \in 1 .. n : d[i] = IF i = 1 THEN 0 ELSE Higher(d[i - 1], p[i] - s[i])
  BY DEF IsDrops
<1>4. \A i \in 1 .. n :
        q[i] = IF i = 1 THEN None
               ELSE IF p[i] > 0 THEN Larger(q[i - 1], <<p[i] - s[i], p[i]>>) ELSE q[i - 1]
  BY DEF IsParts
<1> HIDE DEF p
<1>5. \A i \in 1 .. n : p[i] = IF i = 1 THEN s[1] ELSE Higher(p[i - 1], s[i])
  BY <1>2 DEF IsPeaks
<1>6. a[1] = Start(s[1])
  BY <1>1 DEF IsSeen
<1>7. \A i \in 1 .. n : i # 1 => a[i] = Accumulate(a[i - 1], s[i])
  BY DEF IsSeen
<1>8. \A i \in 1 .. n : i # 1 =>
        /\ a[i].peak = Higher(a[i - 1].peak, s[i])
        /\ a[i].drop = Higher(a[i - 1].drop, a[i].peak - s[i])
        /\ a[i].part = IF a[i].peak > 0 THEN Larger(a[i - 1].part, <<a[i].peak - s[i], a[i].peak>>)
                       ELSE a[i - 1].part
        /\ a[i].prev = s[i]
        /\ a[i].count = a[i - 1].count + 1
  BY <1>7, AccumulateParts
<1>9. /\ a[1].peak = s[1] /\ a[1].drop = 0 /\ a[1].part = None
      /\ a[1].prev = s[1] /\ a[1].count = 0
  BY <1>6 DEF Start
<1>10. \A i \in 1 .. n : a[i].peak = p[i]
  <2> DEFINE f == [i \in 1 .. n |-> a[i].peak]
  <2>1. StepAlike(f, p, n)
    <3>1. f[1] = p[1]
      BY <1>1, <1>5, <1>9
    <3>2. ASSUME NEW i \in 1 .. n, i # 1, f[i - 1] = p[i - 1] PROVE f[i] = p[i]
      <4>1. i - 1 \in 1 .. n
        BY <1>1, <3>2
      <4>2. f[i] = Higher(f[i - 1], s[i])
        BY <1>8, <3>2, <4>1
      <4> HIDE DEF f
      <4> QED BY <1>5, <3>2, <4>2
    <3> HIDE DEF f
    <3> QED BY <3>1, <3>2 DEF StepAlike
  <2>2. \A i \in 1 .. n : f[i] = p[i]
    <3> HIDE DEF f
    <3> QED BY <1>1, <2>1, SameSteps
  <2> QED BY <2>2
<1>11. \A i \in 1 .. n : a[i].drop = d[i]
  <2> DEFINE f == [i \in 1 .. n |-> a[i].drop]
  <2>1. StepAlike(f, d, n)
    <3>1. f[1] = d[1]
      BY <1>1, <1>3, <1>9
    <3>2. ASSUME NEW i \in 1 .. n, i # 1, f[i - 1] = d[i - 1] PROVE f[i] = d[i]
      <4>1. i - 1 \in 1 .. n
        BY <1>1, <3>2
      <4>2. f[i] = Higher(f[i - 1], p[i] - s[i])
        BY <1>8, <1>10, <3>2, <4>1
      <4> HIDE DEF f
      <4> QED BY <1>3, <3>2, <4>2
    <3> HIDE DEF f
    <3> QED BY <3>1, <3>2 DEF StepAlike
  <2>2. \A i \in 1 .. n : f[i] = d[i]
    <3> HIDE DEF f
    <3> QED BY <1>1, <2>1, SameSteps
  <2> QED BY <2>2
<1>12. \A i \in 1 .. n : a[i].part = q[i]
  <2> DEFINE f == [i \in 1 .. n |-> a[i].part]
  <2>1. StepAlike(f, q, n)
    <3>1. f[1] = q[1]
      BY <1>1, <1>4, <1>9
    <3>2. ASSUME NEW i \in 1 .. n, i # 1, f[i - 1] = q[i - 1] PROVE f[i] = q[i]
      <4>1. i - 1 \in 1 .. n
        BY <1>1, <3>2
      <4>2. f[i] = IF p[i] > 0 THEN Larger(f[i - 1], <<p[i] - s[i], p[i]>>) ELSE f[i - 1]
        BY <1>8, <1>10, <3>2, <4>1
      <4> HIDE DEF f
      <4> QED BY <1>4, <3>2, <4>2
    <3> HIDE DEF f
    <3> QED BY <3>1, <3>2 DEF StepAlike
  <2>2. \A i \in 1 .. n : f[i] = q[i]
    <3> HIDE DEF f
    <3> QED BY <1>1, <2>1, SameSteps
  <2> QED BY <2>2
<1>13. \A i \in 1 .. n : a[i].count = i - 1
  <2> DEFINE f == [i \in 1 .. n |-> a[i].count]
             g == [i \in 1 .. n |-> i - 1]
  <2>1. StepAlike(f, g, n)
    <3>1. f[1] = g[1]
      BY <1>1, <1>9
    <3>2. ASSUME NEW i \in 1 .. n, i # 1, f[i - 1] = g[i - 1] PROVE f[i] = g[i]
      <4>1. i - 1 \in 1 .. n
        BY <1>1, <3>2
      <4>2. f[i] = f[i - 1] + 1 /\ g[i - 1] = i - 2 /\ g[i] = i - 1
        <5>1. a[i].count = a[i - 1].count + 1
          BY <1>8, <3>2
        <5>2. g[i - 1] = (i - 1) - 1 /\ g[i] = i - 1 /\ (i - 1) - 1 = i - 2
          BY <1>1, <4>1
        <5>3. f[i] = f[i - 1] + 1
          BY <4>1, <5>1
        <5> QED BY <5>2, <5>3
      <4> HIDE DEF f, g
      <4> QED BY <1>1, <3>2, <4>2
    <3> HIDE DEF f, g
    <3> QED BY <3>1, <3>2 DEF StepAlike
  <2>2. \A i \in 1 .. n : f[i] = g[i]
    <3> HIDE DEF f, g
    <3> QED BY <1>1, <2>1, SameSteps
  <2> QED BY <2>2
<1>14. \A i \in 1 .. n : a[i].prev = s[i]
  BY <1>8, <1>9
<1> QED BY <1>10, <1>11, <1>12, <1>13, <1>14 DEF p

\* The returns of a series, which the single functions are given.
Returns(s, n) == [i \in 1 .. n - 1 |-> s[i + 1] - s[i]]

Squares(r, n) == [i \in 1 .. n |-> r[i] * r[i]]

Ups(r, n) == [i \in 1 .. n |-> Higher(0, r[i])]

Downs(r, n) == [i \in 1 .. n |-> Higher(0, -r[i])]

\* A total that grows by a function's values is the function's sum.
LEMMA GrownTotal ==
  ASSUME NEW n \in Nat \ {0}, NEW f, NEW g, \A i \in 1 .. n - 1 : f[i] \in Int,
         g[1] = 0, \A i \in 1 .. n : i # 1 => g[i] = g[i - 1] + f[i - 1]
  PROVE  g[n] = Total(f, n - 1)
<1>1. PICK t : HasPrefixes(t, f, n - 1)
  <2>1. n - 1 \in Nat
    OBVIOUS
  <2> QED BY <2>1, TotalPrefixes
<1> DEFINE h == [i \in 1 .. n |-> t[i - 1]]
<1>2. h[1] = 0 /\ h[n] = Total(f, n - 1)
  BY <1>1 DEF HasPrefixes
<1>3. ASSUME NEW i \in 1 .. n, i # 1 PROVE h[i] = h[i - 1] + f[i - 1]
  <2>1. i - 1 \in 1 .. n - 1 /\ i - 1 \in 1 .. n
    BY <1>3
  <2>2. t[i - 1] = t[(i - 1) - 1] + f[i - 1]
    BY <1>1, <2>1 DEF HasPrefixes
  <2> QED BY <2>1, <2>2
<1> HIDE DEF h
<1>4. StepAlike(g, h, n)
  BY <1>2, <1>3 DEF StepAlike
<1>5. \A i \in 1 .. n : g[i] = h[i]
  BY <1>4, SameSteps
<1> QED BY <1>2, <1>5

\* What the loop keeps of the returns: their sum, the sum of their squares, and
\* the gains and losses.
LEMMA SeenReturns ==
  ASSUME NEW n, NEW s, Series(s, n), NEW a, IsSeen(a, s, n)
  PROVE  /\ a[n].sum = Total(Returns(s, n), n - 1)
         /\ a[n].squares = Total(Squares(Returns(s, n), n - 1), n - 1)
         /\ a[n].profit = Gains(Returns(s, n), n - 1)
         /\ a[n].loss = Losses(Returns(s, n), n - 1)
<1> DEFINE r == Returns(s, n)
<1>1. n \in Nat \ {0} /\ 1 \in 1 .. n /\ \A i \in 1 .. n : s[i] \in Int
  BY DEF Series
<1>2. ASSUME NEW i \in 1 .. n - 1 PROVE r[i] \in Int /\ r[i] = s[i + 1] - s[i]
  <2>1. i \in 1 .. n /\ i + 1 \in 1 .. n
    BY <1>1
  <2> QED BY <1>1, <2>1 DEF Returns
<1> HIDE DEF r
<1>3. a[1] = Start(s[1])
  BY <1>1 DEF IsSeen
<1>4. \A i \in 1 .. n : a[i].prev = s[i]
  <2>1. \A i \in 1 .. n : i # 1 => a[i] = Accumulate(a[i - 1], s[i])
    BY DEF IsSeen
  <2>2. a[1].prev = s[1]
    BY <1>3 DEF Start
  <2>3. \A b, v : Accumulate(b, v).prev = v
    BY AccumulateParts, ZenonT(30)
  <2> QED BY <2>1, <2>2, <2>3
<1>5. ASSUME NEW i \in 1 .. n, i # 1
      PROVE  /\ a[i].sum = a[i - 1].sum + r[i - 1]
             /\ a[i].squares = a[i - 1].squares + r[i - 1] * r[i - 1]
             /\ a[i].profit = a[i - 1].profit + Higher(0, r[i - 1])
             /\ a[i].loss = a[i - 1].loss + Higher(0, -r[i - 1])
  <2>1. i - 1 \in 1 .. n /\ i - 1 \in 1 .. n - 1 /\ (i - 1) + 1 = i
    BY <1>1, <1>5
  <2>2. r[i - 1] = s[i] - a[i - 1].prev
    BY <1>2, <1>4, <2>1
  <2>3. a[i] = Accumulate(a[i - 1], s[i])
    BY <1>5 DEF IsSeen
  <2>4. \A b, v : /\ Accumulate(b, v).sum = b.sum + (v - b.prev)
                  /\ Accumulate(b, v).squares = b.squares + (v - b.prev) * (v - b.prev)
    BY AccumulateParts
  <2>5. \A b, v : /\ Accumulate(b, v).profit = b.profit + Higher(0, v - b.prev)
                  /\ Accumulate(b, v).loss = b.loss + Higher(0, -(v - b.prev))
    BY AccumulateParts
  <2>6. /\ a[i].sum = a[i - 1].sum + (s[i] - a[i - 1].prev)
        /\ a[i].squares = a[i - 1].squares + (s[i] - a[i - 1].prev) * (s[i] - a[i - 1].prev)
        /\ a[i].profit = a[i - 1].profit + Higher(0, s[i] - a[i - 1].prev)
        /\ a[i].loss = a[i - 1].loss + Higher(0, -(s[i] - a[i - 1].prev))
    BY <2>3, <2>4, <2>5, Zenon
  <2> QED BY <2>2, <2>6, Zenon
<1>6. a[1].sum = 0 /\ a[1].squares = 0 /\ a[1].profit = 0 /\ a[1].loss = 0
  BY <1>3 DEF Start
<1>7. ASSUME NEW i \in 1 .. n - 1
      PROVE  /\ Squares(r, n - 1)[i] = r[i] * r[i] /\ Squares(r, n - 1)[i] \in Int
             /\ Ups(r, n - 1)[i] = Higher(0, r[i]) /\ Ups(r, n - 1)[i] \in Int
             /\ Downs(r, n - 1)[i] = Higher(0, -r[i]) /\ Downs(r, n - 1)[i] \in Int
  <2>1. PICK v \in Int : v = r[i]
    BY <1>2
  <2>2. v * v \in Int /\ Higher(0, v) \in Int /\ Higher(0, -v) \in Int
    BY DEF Higher
  <2> QED BY <2>1, <2>2 DEF Squares, Ups, Downs
<1>8. ASSUME NEW i \in 1 .. n, i # 1 PROVE i - 1 \in 1 .. n - 1 /\ i - 1 \in 1 .. n
  BY <1>1, <1>8
<1>9. a[n].sum = Total(r, n - 1)
  <2> DEFINE g == [i \in 1 .. n |-> a[i].sum]
  <2>1. \A i \in 1 .. n : g[i] = a[i].sum
    OBVIOUS
  <2> HIDE DEF g
  <2>2. g[1] = 0 /\ g[n] = a[n].sum
    BY <1>1, <1>6, <2>1
  <2>3. ASSUME NEW i \in 1 .. n, i # 1 PROVE g[i] = g[i - 1] + r[i - 1]
    BY <1>5, <1>8, <2>1, <2>3
  <2>4. g[n] = Total(r, n - 1)
    BY <1>1, <1>2, <2>2, <2>3, GrownTotal
  <2> QED BY <2>2, <2>4
<1>10. a[n].squares = Total(Squares(r, n - 1), n - 1)
  <2> DEFINE g == [i \in 1 .. n |-> a[i].squares]
             f == Squares(r, n - 1)
  <2>1. \A i \in 1 .. n : g[i] = a[i].squares
    OBVIOUS
  <2> HIDE DEF g
  <2>2. g[1] = 0 /\ g[n] = a[n].squares
    BY <1>1, <1>6, <2>1
  <2>3. ASSUME NEW i \in 1 .. n, i # 1 PROVE g[i] = g[i - 1] + f[i - 1]
    BY <1>5, <1>7, <1>8, <2>1, <2>3
  <2>4. \A i \in 1 .. n - 1 : f[i] \in Int
    BY <1>7
  <2> HIDE DEF f
  <2>5. g[n] = Total(f, n - 1)
    BY <1>1, <2>2, <2>3, <2>4, GrownTotal
  <2> QED BY <2>2, <2>5 DEF f
<1>11. a[n].profit = Total(Ups(r, n - 1), n - 1)
  <2> DEFINE g == [i \in 1 .. n |-> a[i].profit]
             f == Ups(r, n - 1)
  <2>1. \A i \in 1 .. n : g[i] = a[i].profit
    OBVIOUS
  <2> HIDE DEF g
  <2>2. g[1] = 0 /\ g[n] = a[n].profit
    BY <1>1, <1>6, <2>1
  <2>3. ASSUME NEW i \in 1 .. n, i # 1 PROVE g[i] = g[i - 1] + f[i - 1]
    BY <1>5, <1>7, <1>8, <2>1, <2>3
  <2>4. \A i \in 1 .. n - 1 : f[i] \in Int
    BY <1>7
  <2> HIDE DEF f
  <2>5. g[n] = Total(f, n - 1)
    BY <1>1, <2>2, <2>3, <2>4, GrownTotal
  <2> QED BY <2>2, <2>5 DEF f
<1>12. a[n].loss = Total(Downs(r, n - 1), n - 1)
  <2> DEFINE g == [i \in 1 .. n |-> a[i].loss]
             f == Downs(r, n - 1)
  <2>1. \A i \in 1 .. n : g[i] = a[i].loss
    OBVIOUS
  <2> HIDE DEF g
  <2>2. g[1] = 0 /\ g[n] = a[n].loss
    BY <1>1, <1>6, <2>1
  <2>3. ASSUME NEW i \in 1 .. n, i # 1 PROVE g[i] = g[i - 1] + f[i - 1]
    BY <1>5, <1>7, <1>8, <2>1, <2>3
  <2>4. \A i \in 1 .. n - 1 : f[i] \in Int
    BY <1>7
  <2> HIDE DEF f
  <2>5. g[n] = Total(f, n - 1)
    BY <1>1, <2>2, <2>3, <2>4, GrownTotal
  <2> QED BY <2>2, <2>5 DEF f
<1> QED BY <1>9, <1>10, <1>11, <1>12 DEF r, Gains, Losses, Ups, Downs

-----------------------------------------------------------------------------
(* Parts of a peak. *)

IsRatio(a) == a \in Int \X (Nat \ {0})

AtMost(a, b) == a[1] * b[2] <= b[1] * a[2]

\* Multiplying with a number that is not negative keeps an order, and with a
\* positive one it keeps a strict order.
LEMMA ProductsKeepOrder ==
  ASSUME NEW a \in Int, NEW b \in Int, NEW k \in Nat
  PROVE  (a <= b => a * k <= b * k) /\ ((k > 0 /\ a < b) => a * k < b * k)
<1>1. PICK c \in Int : c = b - a
  OBVIOUS
<1>2. b * k = a * k + c * k
  <2>1. (a + c) * k = a * k + c * k
    OBVIOUS
  <2>2. b = a + c
    BY <1>1
  <2> QED BY <2>1, <2>2
<1>3. (c >= 0 => c * k >= 0) /\ ((c > 0 /\ k > 0) => c * k > 0)
  OBVIOUS
<1>4. a * k \in Int /\ c * k \in Int
  OBVIOUS
<1> QED BY <1>1, <1>2, <1>3, <1>4

\* The order of fractions is transitive.
LEMMA FractionsAreOrdered ==
  ASSUME NEW x \in Int, NEW y \in Int, NEW z \in Int,
         NEW u \in Nat \ {0}, NEW v \in Nat \ {0}, NEW w \in Nat \ {0},
         x * v <= y * u, y * w <= z * v
  PROVE  x * w <= z * u
<1>1. /\ x * v \in Int /\ y * u \in Int /\ y * w \in Int /\ z * v \in Int
      /\ x * w \in Int /\ z * u \in Int
  OBVIOUS
<1>2. (x * v) * w <= (y * u) * w
  BY <1>1, ProductsKeepOrder
<1>3. (y * w) * u <= (z * v) * u
  BY <1>1, ProductsKeepOrder
<1>4. (x * v) * w = (x * w) * v /\ (y * u) * w = (y * w) * u /\ (z * v) * u = (z * u) * v
  OBVIOUS
<1>5. (x * w) * v <= (z * u) * v
  <2>1. (x * w) * v \in Int /\ (y * w) * u \in Int /\ (z * u) * v \in Int
    OBVIOUS
  <2> QED BY <1>2, <1>3, <1>4, <2>1
<1>6. ~(z * u < x * w)
  <2>1. z * u < x * w => (z * u) * v < (x * w) * v
    BY <1>1, ProductsKeepOrder
  <2>2. (x * w) * v \in Int /\ (z * u) * v \in Int
    OBVIOUS
  <2> QED BY <1>5, <2>1, <2>2
<1> QED BY <1>1, <1>6

\* So is the order of ratios.
LEMMA AtMostTransitive ==
  ASSUME NEW a, NEW b, NEW c, IsRatio(a), IsRatio(b), IsRatio(c), AtMost(a, b), AtMost(b, c)
  PROVE  AtMost(a, c)
<1>1. /\ a[1] \in Int /\ b[1] \in Int /\ c[1] \in Int
      /\ a[2] \in Nat \ {0} /\ b[2] \in Nat \ {0} /\ c[2] \in Nat \ {0}
  BY DEF IsRatio
<1> QED BY <1>1, FractionsAreOrdered DEF AtMost

\* Larger takes the larger of two ratios, and the first of two equal ones.
LEMMA LargerPicks ==
  ASSUME NEW a, NEW b, IsRatio(a), IsRatio(b)
  PROVE  /\ Larger(a, b) \in {a, b} /\ AtMost(a, Larger(a, b)) /\ AtMost(b, Larger(a, b))
         /\ (Larger(a, b) = a) <=> AtMost(b, a)
<1>1. a[1] \in Int /\ b[1] \in Int /\ a[2] \in Nat \ {0} /\ b[2] \in Nat \ {0}
  BY DEF IsRatio
<1>2. PICK x \in Int, y \in Int : x = a[1] * b[2] /\ y = b[1] * a[2]
  BY <1>1
<1>3. AtMost(a, a) /\ AtMost(b, b)
  <2>1. a[1] * a[2] \in Int /\ b[1] * b[2] \in Int
    BY <1>1
  <2> QED BY <2>1 DEF AtMost
<1>4. (AtMost(a, b) <=> x <= y) /\ (AtMost(b, a) <=> y <= x)
  BY <1>2 DEF AtMost
<1>5. Larger(a, b) = IF y > x THEN b ELSE a
  BY <1>2 DEF Larger
<1>6. CASE y > x
  <2>1. Larger(a, b) = b /\ AtMost(a, b) /\ ~AtMost(b, a)
    BY <1>4, <1>5, <1>6
  <2>2. b # a
    BY <1>3, <2>1
  <2> QED BY <1>3, <2>1, <2>2
<1>7. CASE ~(y > x)
  <2>1. Larger(a, b) = a /\ AtMost(b, a)
    BY <1>4, <1>5, <1>7
  <2> QED BY <1>3, <2>1
<1> QED BY <1>6, <1>7

\* The part of its peak by which the series is down at one value.
Part(s, n, i) == IF Peaks(s, n)[i] > 0 THEN <<Peaks(s, n)[i] - s[i], Peaks(s, n)[i]>> ELSE None

\* Every such part is a ratio that is not negative; the first is zero.
LEMMA PartsAreRatios ==
  ASSUME NEW n, NEW s, Series(s, n)
  PROVE  /\ \A i \in 1 .. n : IsRatio(Part(s, n, i)) /\ AtMost(None, Part(s, n, i))
         /\ AtMost(Part(s, n, 1), None) /\ IsRatio(None)
<1> DEFINE p == Peaks(s, n)
<1>1. n \in Nat \ {0} /\ 1 \in 1 .. n /\ \A i \in 1 .. n : s[i] \in Int /\ p[i] \in Int
  BY PeaksAreDefined DEF Series, IsPeaks
<1>2. \A i \in 1 .. n : i \in 1 .. i /\ s[i] <= p[i]
  <2>1. \A i \in 1 .. n : \A j \in 1 .. i : s[j] <= p[i]
    BY PeaksAreDefined, PeakIsHighest
  <2>2. \A i \in 1 .. n : i \in 1 .. i
    BY <1>1
  <2> QED BY <2>1, <2>2
<1>3. p[1] = s[1]
  BY <1>1, PeaksAreDefined DEF IsPeaks
<1>4. IsRatio(None) /\ None[1] = 0 /\ None[2] = 1 /\ AtMost(None, None)
  BY DEF IsRatio, None, AtMost
<1>5. ASSUME NEW i \in 1 .. n
      PROVE  /\ IsRatio(Part(s, n, i)) /\ AtMost(None, Part(s, n, i))
             /\ i = 1 => AtMost(Part(s, n, i), None)
  <2>1. CASE p[i] > 0
    <3>1. PICK x \in Nat, y \in Nat \ {0} : x = p[i] - s[i] /\ y = p[i]
      BY <1>1, <1>2, <2>1
    <3>2. Part(s, n, i) = <<x, y>>
      BY <2>1, <3>1 DEF Part
    <3>3. i = 1 => x = 0
      BY <1>1, <1>3, <3>1
    <3>4. <<x, y>>[1] = x /\ <<x, y>>[2] = y /\ 0 * y = 0 /\ x * 1 = x
      OBVIOUS
    <3>5. IsRatio(<<x, y>>)
      BY DEF IsRatio
    <3>6. AtMost(None, <<x, y>>)
      BY <1>4, <3>4 DEF AtMost
    <3>7. i = 1 => AtMost(<<x, y>>, None)
      BY <1>4, <3>3, <3>4 DEF AtMost
    <3> QED BY <3>2, <3>5, <3>6, <3>7
  <2>2. CASE ~(p[i] > 0)
    <3>1. Part(s, n, i) = None
      BY <2>2 DEF Part
    <3> QED BY <1>4, <3>1
  <2> QED BY <2>1, <2>2
<1> QED BY <1>1, <1>4, <1>5

\* What the second loop keeps is the largest part so far: no part exceeds it,
\* and it is one of them.
LEMMA LastPartIsLargest ==
  ASSUME NEW n, NEW s, Series(s, n), NEW q, IsParts(q, s, n)
  PROVE  /\ IsRatio(q[n]) /\ \A i \in 1 .. n : AtMost(Part(s, n, i), q[n])
         /\ \E i \in 1 .. n : AtMost(q[n], Part(s, n, i))
<1> DEFINE part(i) == Part(s, n, i)
           Largest(m) == /\ IsRatio(q[m]) /\ \A i \in 1 .. m : AtMost(part(i), q[m])
                         /\ \E i \in 1 .. m : AtMost(q[m], part(i))
           T == {m \in 0 .. n : m = 0 \/ Largest(m)}
<1>1. n \in Nat \ {0} /\ 1 \in 1 .. n
  BY DEF Series
<1>2. /\ \A i \in 1 .. n : IsRatio(part(i)) /\ AtMost(None, part(i))
      /\ AtMost(part(1), None) /\ IsRatio(None)
  BY PartsAreRatios
<1>3. q[1] = None
  BY <1>1 DEF IsParts
<1>4. ASSUME NEW i \in 1 .. n, i # 1, IsRatio(q[i - 1]), AtMost(None, q[i - 1])
      PROVE  /\ q[i] \in {q[i - 1], part(i)} /\ AtMost(q[i - 1], q[i]) /\ AtMost(part(i), q[i])
             /\ IsRatio(q[i])
  <2>1. q[i] = IF Peaks(s, n)[i] > 0 THEN Larger(q[i - 1], part(i)) ELSE q[i - 1]
    BY <1>4 DEF IsParts, Part
  <2>2. Peaks(s, n)[i] > 0 \/ part(i) = None
    BY DEF Part
  <2> HIDE DEF part
  <2>3. AtMost(q[i - 1], q[i - 1])
    <3>1. Larger(q[i - 1], q[i - 1]) = q[i - 1]
      BY DEF Larger
    <3> QED BY <1>4, <3>1, LargerPicks
  <2>4. CASE Peaks(s, n)[i] > 0
    <3>1. q[i] = Larger(q[i - 1], part(i))
      BY <2>1, <2>4
    <3> QED BY <1>2, <1>4, <3>1, LargerPicks
  <2>5. CASE ~(Peaks(s, n)[i] > 0)
    BY <1>4, <2>1, <2>2, <2>3, <2>5
  <2> QED BY <2>4, <2>5
<1> HIDE DEF part
<1>5. 0 \in T
  BY <1>1
<1>6. ASSUME NEW m \in 0 .. n - 1, m \in T PROVE m + 1 \in T
  <2>1. m + 1 \in 1 .. n /\ m + 1 \in 0 .. n /\ m \in Nat /\ (m + 1) - 1 = m
    BY <1>1
  <2>2. CASE m = 0
    <3>1. 1 .. 1 = {1}
      OBVIOUS
    <3>2. Largest(1)
      BY <1>1, <1>2, <1>3, <3>1
    <3> QED BY <2>1, <2>2, <3>2
  <2>3. CASE m # 0
    <3>1. m \in 1 .. n /\ 1 \in 1 .. m /\ m + 1 # 1
      BY <1>1, <2>1, <2>3
    <3>2. Largest(m)
      BY <1>6, <2>3
    <3>3. AtMost(None, q[m])
      <4>1. IsRatio(part(1)) /\ AtMost(None, part(1)) /\ AtMost(part(1), q[m]) /\ IsRatio(q[m])
        BY <1>1, <1>2, <3>1, <3>2
      <4> QED BY <1>2, <4>1, AtMostTransitive
    <3>4. /\ q[m + 1] \in {q[m], part(m + 1)} /\ AtMost(q[m], q[m + 1])
          /\ AtMost(part(m + 1), q[m + 1]) /\ IsRatio(q[m + 1]) /\ IsRatio(q[m])
      BY <1>4, <2>1, <3>1, <3>2, <3>3
    <3>5. ASSUME NEW i \in 1 .. m + 1 PROVE AtMost(part(i), q[m + 1])
      <4>1. CASE i = m + 1
        BY <3>4, <4>1
      <4>2. CASE i \in 1 .. m
        <5>1. AtMost(part(i), q[m]) /\ IsRatio(part(i))
          <6>1. i \in 1 .. n
            BY <1>1, <2>1, <4>2
          <6> QED BY <1>2, <3>2, <4>2, <6>1
        <5> QED BY <3>4, <5>1, AtMostTransitive
      <4> QED BY <2>1, <4>1, <4>2
    <3>6. \E i \in 1 .. m + 1 : AtMost(q[m + 1], part(i))
      <4>1. CASE q[m + 1] = q[m]
        <5>1. PICK i \in 1 .. m : AtMost(q[m], part(i))
          BY <3>2
        <5>2. i \in 1 .. m + 1
          BY <2>1
        <5> QED BY <4>1, <5>1, <5>2
      <4>2. CASE q[m + 1] = part(m + 1)
        <5>1. m + 1 \in 1 .. m + 1
          BY <2>1
        <5> QED BY <3>4, <4>2, <5>1
      <4> QED BY <3>4, <4>1, <4>2
    <3>7. Largest(m + 1)
      BY <3>4, <3>5, <3>6
    <3> HIDE DEF Largest
    <3> QED BY <2>1, <3>7
  <2> QED BY <2>2, <2>3
<1>7. 0 .. n \subseteq T
  <2> HIDE DEF T
  <2> QED BY <1>1, <1>5, <1>6, RangeInduction
<1> QED BY <1>1, <1>7 DEF part

\* Of the falls from the peaks, which calculate_max_drawdown_vectorized computes
\* all at once, the greatest is the last of the drops.
LEMMA VectorizedDrop ==
  ASSUME NEW n, NEW s, Series(s, n), NEW d, IsDrops(d, s, n)
  PROVE  Greatest({Peaks(s, n)[i] - s[i] : i \in 1 .. n}) = d[n]
<1> DEFINE p == Peaks(s, n)
           falls == {p[i] - s[i] : i \in 1 .. n}
<1>1. n \in Nat \ {0} /\ \A i \in 1 .. n : s[i] \in Int /\ p[i] \in Int /\ d[i] \in Int
  BY PeaksAreDefined DEF Series, IsPeaks, IsDrops
<1>2. \A i \in 1 .. n : /\ \E j \in 1 .. i : p[i] = s[j]
                         /\ \A k \in 1 .. i : s[k] <= p[i]
  BY PeaksAreDefined, PeakIsHighest
<1>3. /\ \A i, j \in 1 .. n : i <= j => s[i] - s[j] <= d[n]
      /\ \E i, j \in 1 .. n : i <= j /\ d[n] = s[i] - s[j]
  BY LastDropIsWorst
<1> HIDE DEF p
<1>4. d[n] \in Int
  BY <1>1
<1>5. ASSUME NEW i \in 1 .. n PROVE p[i] - s[i] \in Int /\ p[i] - s[i] <= d[n]
  <2>1. PICK j \in 1 .. i : p[i] = s[j]
    BY <1>2
  <2>2. j \in 1 .. n /\ j <= i
    BY <1>1, <2>1
  <2> QED BY <1>1, <1>3, <2>1, <2>2
<1>6. PICK i \in 1 .. n, j \in 1 .. n : i <= j /\ d[n] = s[i] - s[j]
  BY <1>3
<1>7. s[i] <= p[j]
  <2>1. i \in 1 .. j
    BY <1>6
  <2> QED BY <1>2, <2>1
<1>8. d[n] = p[j] - s[j]
  <2>1. p[j] - s[j] <= d[n] /\ p[j] - s[j] \in Int
    BY <1>5
  <2> QED BY <1>1, <1>6, <1>7, <2>1
<1>9. d[n] \in falls /\ \A y \in falls : y \in Int /\ y <= d[n]
  BY <1>5, <1>8
<1>10. Greatest(falls) = d[n]
  <2> HIDE DEF falls
  <2>1. \A y \in falls : d[n] >= y
    BY <1>4, <1>9
  <2>2. Greatest(falls) \in falls /\ \A y \in falls : Greatest(falls) >= y
    BY <1>9, <2>1 DEF Greatest
  <2> QED BY <1>4, <1>9, <2>2
<1> QED BY <1>10 DEF p

PartsOf(s, n) == {Part(s, n, i) : i \in 1 .. n}

\* The largest of all parts, which the vectorized function takes, is the ratio
\* the loop ends with, written in another way perhaps.
LEMMA VectorizedPart ==
  ASSUME NEW n, NEW s, Series(s, n), NEW q, IsParts(q, s, n)
  PROVE  SameRatio(q[n], CHOOSE a \in PartsOf(s, n) : \A b \in PartsOf(s, n) : Larger(a, b) = a)
<1> DEFINE parts == PartsOf(s, n)
           c == CHOOSE a \in parts : \A b \in parts : Larger(a, b) = a
<1>1. /\ IsRatio(q[n]) /\ \A i \in 1 .. n : AtMost(Part(s, n, i), q[n])
      /\ \E i \in 1 .. n : AtMost(q[n], Part(s, n, i))
  BY LastPartIsLargest
<1>2. \A i \in 1 .. n : IsRatio(Part(s, n, i))
  BY PartsAreRatios
<1>3. /\ \A b \in parts : IsRatio(b) /\ AtMost(b, q[n])
      /\ \E e \in parts : AtMost(q[n], e)
  BY <1>1, <1>2 DEF PartsOf
<1> HIDE DEF parts
<1>4. PICK e \in parts : AtMost(q[n], e)
  BY <1>3
<1>5. \A b \in parts : Larger(e, b) = e
  <2> SUFFICES ASSUME NEW b \in parts PROVE Larger(e, b) = e
    OBVIOUS
  <2>1. AtMost(b, e)
    BY <1>1, <1>3, <1>4, AtMostTransitive
  <2> QED BY <1>3, <2>1, LargerPicks
<1>6. c \in parts /\ \A b \in parts : Larger(c, b) = c
  <2>1. \E a \in parts : \A b \in parts : Larger(a, b) = a
    BY <1>5
  <2> QED BY <2>1
<1> HIDE DEF c
<1>7. AtMost(e, c)
  <2>1. Larger(c, e) = c
    BY <1>6
  <2> QED BY <1>3, <1>6, <2>1, LargerPicks
<1>8. AtMost(q[n], c) /\ AtMost(c, q[n]) /\ IsRatio(c)
  <2>1. IsRatio(c) /\ IsRatio(e) /\ AtMost(c, q[n])
    BY <1>3, <1>6
  <2> QED BY <1>1, <1>4, <1>7, <2>1, AtMostTransitive
<1>9. SameRatio(q[n], c)
  <2>1. /\ q[n][1] \in Int /\ q[n][2] \in Int /\ c[1] \in Int /\ c[2] \in Int
    BY <1>1, <1>8 DEF IsRatio
  <2>2. PICK x \in Int, y \in Int : x = q[n][1] * c[2] /\ y = c[1] * q[n][2]
    BY <2>1
  <2>3. x <= y /\ y <= x
    BY <1>8, <2>2 DEF AtMost
  <2> QED BY <2>2, <2>3 DEF SameRatio
<1> QED BY <1>9 DEF c, parts

\* The sum of equal numbers.
LEMMA TotalOfEqual ==
  ASSUME NEW n \in Nat, NEW f, NEW c \in Int, \A i \in 1 .. n : f[i] = c
  PROVE  Total(f, n) = n * c
<1>1. PICK t : HasPrefixes(t, f, n)
  BY TotalPrefixes
<1> DEFINE T == {m \in 0 .. n : t[m] = m * c}
<1>2. 0 \in T
  <2>1. 0 * c = 0 /\ 0 \in 0 .. n
    OBVIOUS
  <2> QED BY <1>1, <2>1 DEF HasPrefixes
<1>3. ASSUME NEW m \in 0 .. n - 1, m \in T PROVE m + 1 \in T
  <2>1. m + 1 \in 1 .. n /\ m + 1 \in 0 .. n /\ (m + 1) - 1 = m
    OBVIOUS
  <2>2. t[m + 1] = t[m] + c
    BY <1>1, <2>1 DEF HasPrefixes
  <2>3. (m + 1) * c = m * c + c
    OBVIOUS
  <2> QED BY <1>3, <2>1, <2>2, <2>3
<1>4. 0 .. n \subseteq T
  <2> HIDE DEF T
  <2> QED BY <1>2, <1>3, RangeInduction
<1>5. n \in 0 .. n
  OBVIOUS
<1>6. Total(f, n) = t[n]
  BY <1>1, <1>5 DEF HasPrefixes
<1> QED BY <1>4, <1>5, <1>6

\* Equal returns have no spread, and a Sharpe ratio of 0.
LEMMA EqualReturnsHaveNoSharpe ==
  ASSUME NEW k \in Nat, NEW r, \A i \in 1 .. k : r[i] \in Int,
         \A i, j \in 1 .. k : r[i] = r[j]
  PROVE  SharpeRatio(r, k) = None
<1>1. CASE k < 2
  BY <1>1 DEF SharpeRatio, Sharpe
<1>2. CASE k >= 2
  <2>1. PICK c \in Int : c = r[1]
    BY <1>2
  <2>2. \A i \in 1 .. k : r[i] = c
    BY <1>2, <2>1
  <2>3. PICK e \in Int : e = c * c
    OBVIOUS
  <2>4. Total(r, k) = k * c
    BY <2>2, TotalOfEqual
  <2> DEFINE f == [i \in 1 .. k |-> r[i] * r[i]]
  <2>5. \A i \in 1 .. k : f[i] = e
    BY <2>2, <2>3
  <2> HIDE DEF f
  <2>6. Total(f, k) = k * e
    BY <2>5, TotalOfEqual
  <2>7. k * (k * e) - (k * c) * (k * c) = 0
    <3>1. (k * c) * (k * c) = k * (k * (c * c))
      OBVIOUS
    <3>2. k * (k * e) \in Int
      OBVIOUS
    <3> QED BY <2>3, <3>1, <3>2
  <2>8. k * Total(f, k) - Total(r, k) * Total(r, k) = 0
    BY <2>4, <2>6, <2>7
  <2>9. Sharpe(Total(r, k), Total(f, k), k) = None
    BY <2>8 DEF Sharpe
  <2> QED BY <2>9 DEF SharpeRatio, f
<1> QED BY <1>1, <1>2

\* For every number of values and all series of whole numbers with as many: what
\* calculate_all_metrics keeps in one pass is what the single functions return
\* and what the vectorized one computes (performance.py:22-241); the drawdown is
\* the worst fall there is, and equal returns never divide by their spread.
THEOREM MetricsAlwaysAgree ==
  ASSUME NEW n \in Nat \ {0}
  PROVE  MetricsAgree([1 .. n -> Int], n)
<1> SUFFICES ASSUME NEW s \in [1 .. n -> Int]
             PROVE  LET all    == AllMetrics(s, n)
                        vector == MaxDrawdownVectorized(s, n)
                        r      == [i \in 1 .. n - 1 |-> s[i + 1] - s[i]]
                    IN  /\ all.drop = WorstFall(s, n)
                        /\ all.drop = MaxDrawdown(s, n) /\ all.drop = vector.drop
                        /\ SameRatio(all.part, MaxDrawdownPct(s, n))
                        /\ SameRatio(all.part, vector.part)
                        /\ all.sharpe = SharpeRatio(r, n - 1)
                        /\ all.factor = ProfitFactor(r, n - 1)
                        /\ \/ all.sharpe[2] = 1 /\ all.sharpe[1] = 0
                           \/ \E i, j \in 1 .. n - 1 : r[i] # r[j]
  BY DEF MetricsAgree
<1> DEFINE all    == AllMetrics(s, n)
           vector == MaxDrawdownVectorized(s, n)
           r      == Returns(s, n)
<1>1. Series(s, n)
  BY DEF Series
<1>2. PICK a : /\ IsSeen(a, s, n)
               /\ all = [drop |-> a[n].drop, part |-> a[n].part,
                         sharpe |-> Sharpe(a[n].sum, a[n].squares, a[n].count),
                         factor |-> Factor(a[n].profit, a[n].loss)]
  BY <1>1, SeenIsDefined
<1>3. PICK d : IsDrops(d, s, n) /\ MaxDrawdown(s, n) = d[n]
  BY <1>1, DropsAreDefined
<1>4. PICK q : IsParts(q, s, n) /\ MaxDrawdownPct(s, n) = q[n]
  BY <1>1, PartsAreDefined
<1>5. n \in 1 .. n /\ n - 1 \in Nat
  OBVIOUS
<1>6. all.drop = d[n] /\ all.part = q[n] /\ a[n].count = n - 1
  <2>1. a[n].drop = d[n] /\ a[n].part = q[n] /\ a[n].count = n - 1
    BY <1>1, <1>2, <1>3, <1>4, <1>5, SeenValues
  <2> QED BY <1>2, <2>1
<1>7. all.drop = WorstFall(s, n) /\ all.drop = MaxDrawdown(s, n)
  BY <1>1, <1>3, <1>6, LastDropIsWorst
<1> DEFINE parts == PartsOf(s, n)
<1>8. /\ vector.drop = Greatest({Peaks(s, n)[i] - s[i] : i \in 1 .. n})
      /\ vector.part = CHOOSE b \in parts : \A c \in parts : Larger(b, c) = b
  <2>1. n # 0
    OBVIOUS
  <2> QED BY <2>1 DEF MaxDrawdownVectorized, Part, PartsOf
<1>9. all.drop = vector.drop
  BY <1>1, <1>3, <1>6, <1>8, VectorizedDrop
<1>10. SameRatio(all.part, vector.part)
  <2>1. SameRatio(q[n], CHOOSE b \in parts : \A c \in parts : Larger(b, c) = b)
    BY <1>1, <1>4, VectorizedPart
  <2> QED BY <1>6, <1>8, <2>1
<1>11. SameRatio(all.part, MaxDrawdownPct(s, n))
  BY <1>4, <1>6 DEF SameRatio
<1>12. /\ all.sharpe = SharpeRatio(r, n - 1)
       /\ all.factor = ProfitFactor(r, n - 1)
  <2>1. /\ a[n].sum = Total(r, n - 1)
        /\ a[n].squares = Total(Squares(r, n - 1), n - 1)
        /\ a[n].profit = Gains(r, n - 1) /\ a[n].loss = Losses(r, n - 1)
    BY <1>1, <1>2, SeenReturns
  <2> QED BY <1>2, <1>6, <2>1 DEF SharpeRatio, ProfitFactor, Squares
<1>13. (all.sharpe[2] = 1 /\ all.sharpe[1] = 0) \/ \E i, j \in 1 .. n - 1 : r[i] # r[j]
  <2>1. \A i \in 1 .. n - 1 : r[i] \in Int
    <3> SUFFICES ASSUME NEW i \in 1 .. n - 1 PROVE r[i] \in Int
      OBVIOUS
    <3>1. i \in 1 .. n /\ i + 1 \in 1 .. n
      OBVIOUS
    <3> QED BY <3>1 DEF Returns
  <2> HIDE DEF r
  <2>2. CASE \A i, j \in 1 .. n - 1 : r[i] = r[j]
    <3>1. SharpeRatio(r, n - 1) = None
      BY <1>5, <2>1, <2>2, EqualReturnsHaveNoSharpe
    <3> QED BY <1>12, <3>1 DEF None
  <2> QED BY <2>2
<1> HIDE DEF all, vector
<1> QED BY <1>7, <1>9, <1>10, <1>11, <1>12, <1>13 DEF all, vector, Returns

\* The metrics of a run agree whatever lengths and values one compares them on.
THEOREM MetricsAlwaysHold == SimSpec => []MetricsHold
<1>1. MetricsHold
  <2> SUFFICES ASSUME NEW n \in SeriesLengths
               PROVE  MetricsAgree([1 .. n -> SeriesValues], n)
    BY DEF MetricsHold
  <2>1. n \in Nat \ {0} /\ SeriesValues \subseteq Int
    BY SimulationAssumption
  <2>2. [1 .. n -> SeriesValues] \subseteq [1 .. n -> Int]
    BY <2>1
  <2>3. MetricsAgree([1 .. n -> Int], n)
    BY <2>1, MetricsAlwaysAgree
  <2> QED BY <2>2, <2>3 DEF MetricsAgree
<1> QED BY <1>1, PTL

=============================================================================
