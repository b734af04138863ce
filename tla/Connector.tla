------------------------------ MODULE Connector ------------------------------
(***************************************************************************)
(* hb_compat/simulated_connector.py: a connector of the trading framework  *)
(* around the exchange of Exchange.tla. The framework's order tracker is   *)
(* external: here it keeps what the connector tells it of each order.      *)
(*                                                                         *)
(* Every order has two names. The framework names it before it hands it to *)
(* the connector; the exchange names it when it creates it. The connector  *)
(* throws the second name away and looks orders up by it all the same. A   *)
(* name is a number: 1 .. MaxOrders are those of the exchange.             *)
(***************************************************************************)
EXTENDS Exchange

CONSTANT NamesAgree    \* does the framework name orders as the exchange will?

ASSUME ConnectorAssumption == NamesAgree \in BOOLEAN

VARIABLES
  tracker,     \* external: the state and the executed amount of each name
  submitted,   \* _exchange_order_id_counter
  nameOf       \* history: the framework's name of each order, 0 if it has none

connectorVars == <<tracker, submitted, nameOf>>

Names == 1 .. 2 * MaxOrders

Untracked == [state |-> "untracked", executed |-> 0]

Tracked(name) == tracker[name].state # "untracked"

Ended(name) == tracker[name].state \in {"FILLED", "CANCELED", "FAILED"}

\* Orders as names: one the exchange never used is ABSENT.
OrderNamed(name) == IF name \in OrderIds THEN orders[name] ELSE NoOrder

ConnectorInit ==
  /\ Init
  /\ tracker = [name \in Names |-> Untracked]
  /\ submitted = 0
  /\ nameOf = [id \in OrderIds |-> 0]

-----------------------------------------------------------------------------
(* Handlers of the events the exchange dispatches in a step. They were     *)
(* registered before any other listener, and look only for their own name. *)

FilledNow(name) ==
  /\ name \in OrderIds
  /\ orders'[name] # orders[name]
  /\ orders'[name].status \in {"PARTIALLY_FILLED", "FILLED"}

TriggeredNow(name) ==
  name \in OrderIds /\ lastEvent'[name] = "triggered" /\ lastEvent[name] # "triggered"

\* Wrong variant, never used: only the fill that ends an order is passed on.
OnLastFill(name, entry) ==
  IF orders'[name].status = "FILLED"
  THEN [state |-> "FILLED", executed |-> entry.executed + orders'[name].filled - orders[name].filled]
  ELSE entry

\* _on_sim_fill: the fill, and the end of the order if this was the last.
OnSimFill(name, entry) ==
  [state |-> IF orders'[name].status = "FILLED" THEN "FILLED" ELSE entry.state,
   executed |-> entry.executed + orders'[name].filled - orders[name].filled]

\* Wrong variant, never used: the stop is taken to be filled.
OnSimTriggeredFilled(name, entry) == [entry EXCEPT !.state = "FILLED"]

\* _on_sim_triggered.
OnSimTriggered(name, entry) == [entry EXCEPT !.state = "CANCELED"]

Hears(before) ==
  tracker' = [name \in Names |->
    IF before[name].state = "untracked" THEN before[name]
    ELSE IF FilledNow(name) THEN OnSimFill(name, before[name])
    ELSE IF TriggeredNow(name) THEN OnSimTriggered(name, before[name])
    ELSE before[name]]

-----------------------------------------------------------------------------
\* _HB_TO_SIM_ORDER_TYPE has no limit variants of the stops.
Mapped(type) == type \notin {"STOP_LOSS_LIMIT", "TAKE_PROFIT_LIMIT"}

NextName == IF NamesAgree THEN counter + 1 ELSE MaxOrders + submitted + 1

\* The framework tracks an order and calls _place_order.
Submit(r) ==
  /\ Idle
  /\ Mapped(r.type)
  /\ submitted < MaxOrders
  /\ submitted' = submitted + 1
  /\ Place(r)
  /\ nameOf' = [nameOf EXCEPT ![counter + 1] = NextName]
  /\ Hears([tracker EXCEPT ![NextName].state = "tracked"])

\* An order type the map does not name raises when the number is already taken.
SubmitUnmapped(r) ==
  /\ Idle
  /\ ~Mapped(r.type)
  /\ submitted < MaxOrders
  /\ submitted' = submitted + 1
  /\ UNCHANGED <<vars, tracker, nameOf>>

\* Wrong variant, never used: every cancellation is answered as if it were made.
PlaceCancelOfAny(name) ==
  /\ Idle
  /\ Tracked(name)
  /\ \/ IsOpen(OrderNamed(name)) /\ Cancel(name)
     \/ ~IsOpen(OrderNamed(name)) /\ UNCHANGED vars
  /\ tracker' = [tracker EXCEPT ![name].state = "CANCELED"]
  /\ UNCHANGED <<submitted, nameOf>>

\* _place_cancel of an order the framework believes open: what the exchange
\* answers is not looked at, and True means cancelled.
PlaceCancel(name) ==
  /\ Idle
  /\ Tracked(name) /\ ~Ended(name)
  /\ \/ IsOpen(OrderNamed(name)) /\ Cancel(name)
     \/ ~IsOpen(OrderNamed(name)) /\ UNCHANGED vars
  /\ tracker' = [tracker EXCEPT ![name].state = "CANCELED"]
  /\ UNCHANGED <<submitted, nameOf>>

\* state_map, and FAILED for an order the exchange does not know.
StateOf(o) ==
  CASE o.status = "ABSENT"    -> "FAILED"
    [] o.status = "CANCELLED" -> "CANCELED"
    [] OTHER                  -> o.status

\* _request_order_status of an order the framework believes open.
RequestOrderStatus(name) ==
  /\ Idle
  /\ Tracked(name) /\ ~Ended(name)
  /\ tracker' = [tracker EXCEPT ![name].state = StateOf(OrderNamed(name))]
  /\ UNCHANGED <<vars, submitted, nameOf>>

\* Everything else the exchange does, on calls of the driver and of users of
\* sim_exchange, and by itself.
ExchangeStep ==
  /\ Next
  /\ Hears(tracker)
  /\ UNCHANGED <<submitted, nameOf>>

ConnectorNext ==
  \/ \E r \in Requests : Submit(r) \/ SubmitUnmapped(r)
  \/ \E name \in Names : PlaceCancel(name) \/ RequestOrderStatus(name)
  \/ ExchangeStep

ConnectorSpec == ConnectorInit /\ [][ConnectorNext]_<<vars, connectorVars>>

-----------------------------------------------------------------------------
(* Properties *)

\* The framework knows at every moment what is filled of each order it handed
\* over: "Feeds TradeUpdate to ClientOrderTracker which fires the correct
\* MarketEvent events on this connector." (simulated_connector.py:501).
TrackerHearsFills ==
  \A id \in OrderIds :
    nameOf[id] # 0 => tracker[nameOf[id]].executed = orders[id].filled

\* An order the exchange has filled is known to be, and none is taken to be
\* filled, cancelled or failed that the exchange may still fill: at most it
\* was refused, or ended without the connector being told.
TrackerHearsEnds ==
  \A id \in OrderIds :
    nameOf[id] # 0 =>
      /\ (tracker[nameOf[id]].state = "FILLED") <=> (orders[id].status = "FILLED")
      /\ Ended(nameOf[id]) => ~IsOpen(orders[id])

\* The side an amount of base moves to.
Signed(o, amount) == IF o.side = "BUY" THEN amount ELSE -amount

\* What the base balance has moved by is what the framework knows to be
\* executed and what was filled of orders it has no name for; those are the
\* orders of other users of the exchange and the market orders stops became.
TrackerAndReplacementsMakeLedger ==
  balances["base"].total - InitialBalances["base"].total =
    Total([id \in OrderIds |->
             Signed(orders[id],
                    IF nameOf[id] = 0 THEN orders[id].filled ELSE tracker[nameOf[id]].executed)],
          MaxOrders)

\* No framework name ever comes to stand for the market order a stop became:
\* after a stop has fired the framework holds a cancelled order only.
ReplacementsAreNameless ==
  \A id \in OrderIds :
    childOf[id] # 0 =>
      /\ nameOf[childOf[id]] = 0
      /\ nameOf[id] # 0 => tracker[nameOf[id]] = [state |-> "CANCELED", executed |-> 0]
=============================================================================
