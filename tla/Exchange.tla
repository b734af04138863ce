------------------------------ MODULE Exchange ------------------------------
(***************************************************************************)
(* simulator/exchange.py with the tracker, balances, engines and book it   *)
(* coordinates, for one trading pair.                                      *)
(*                                                                         *)
(* The program is single-threaded, but the event bus calls its listeners   *)
(* before trigger_event returns, and a listener may call buy, sell or      *)
(* cancel. "stack" holds the calls that wait for listeners, innermost      *)
(* last; while it is not empty a listener may call in, or the innermost    *)
(* call resumes. "phase" and "todo" are process_tick: the loop it is in    *)
(* and the orders of the list that loop copied and has not reached.        *)
(***************************************************************************)
EXTENDS Integers, Sequences, FiniteSets, BalanceManager, MatchingEngine, TriggerEngine

CONSTANTS
  Requests,        \* the orders a strategy may place
  Books,           \* the books market data may leave
  InitialBalances, \* the balances of the exchange's configuration
  TakerRate,       \* FlatFeeModel's rates, as fractions of FeeScale;
  MakerRate,       \* ZeroFeeModel is 0 for both
  FeeScale,
  StaleCancels,    \* do listeners cancel orders that a suspended loop or call still holds?
  MaxOrders,       \* bound: identifiers the tracker generates
  MaxDepth         \* bound: calls nested in listeners

ASSUME ExchangeAssumption ==
  /\ Requests \subseteq Request
  /\ Books \subseteq Book
  /\ InitialBalances \in [Currencies -> TokenBalance]
  /\ \A c \in Currencies : InitialBalances[c].locked = 0 /\ InitialBalances[c].total >= 0
  /\ TakerRate \in Nat /\ MakerRate \in Nat /\ FeeScale \in Nat \ {0}
  /\ StaleCancels \in BOOLEAN
  /\ MaxOrders \in Nat \ {0} /\ MaxDepth \in Nat \ {0}

VARIABLES
  book,       \* _order_books[pair]
  balances,   \* _balance_manager
  orders,     \* _order_tracker._orders
  counter,    \* _order_tracker._order_counter
  refs,       \* _trigger_engine._trailing_references
  stack,      \* calls suspended in trigger_event
  phase,      \* where process_tick is
  todo,       \* what is left of the list its loop runs over
  lastEvent,  \* history: the last event dispatched about each order
  childOf     \* history: the market order a fired order was replaced by, 0 if none

vars == <<book, balances, orders, counter, refs, stack, phase, todo, lastEvent, childOf>>

OrderIds == 1 .. MaxOrders

EventPoints == {"created", "failed", "cancelled", "triggered", "filled", "completed"}

Frame == [at : EventPoints, id : OrderIds, level : Int, amount : Int]

TypeOK ==
  /\ book \in Book
  /\ balances \in [Currencies -> TokenBalance]
  /\ orders \in [OrderIds -> Order]
  /\ counter \in 0 .. MaxOrders
  /\ refs \in [OrderIds -> Nat \cup {NoPrice}]
  /\ stack \in Seq(Frame)
  /\ phase \in {"idle", "conditional", "matching"}
  /\ todo \subseteq 1 .. counter
  /\ lastEvent \in [OrderIds -> EventPoints \cup {"none"}]
  /\ childOf \in [OrderIds -> 0 .. MaxOrders]

Init ==
  /\ book = EmptyBook
  /\ balances = InitialBalances
  /\ orders = [id \in OrderIds |-> NoOrder]
  /\ counter = 0
  /\ refs = [id \in OrderIds |-> NoPrice]
  /\ stack = << >>
  /\ phase = "idle"
  /\ todo = {}
  /\ lastEvent = [id \in OrderIds |-> "none"]
  /\ childOf = [id \in OrderIds |-> 0]

-----------------------------------------------------------------------------
Top == stack[Len(stack)]

Below == SubSeq(stack, 1, Len(stack) - 1)

CallFrame(event, id, level, amount) ==
  [at |-> event, id |-> id, level |-> level, amount |-> amount]

\* trigger_event about order id: the call waits above the calls of "under".
Dispatch(event, id, under, level, amount) ==
  /\ stack' = Append(under, CallFrame(event, id, level, amount))
  /\ lastEvent' = [lastEvent EXCEPT ![id] = event]

Idle == stack = << >> /\ phase = "idle"

\* Strategy code runs between the driver's calls and inside every event.
StrategyRuns == Idle \/ Len(stack) \in 1 .. MaxDepth - 1

\* Wrong variant, never used: the limit variants are missing from the list.
OpenMarketStops ==
  {id \in OrderIds :
     IsOpen(orders[id]) /\ orders[id].type \in {"STOP_LOSS", "TAKE_PROFIT", "TRAILING_STOP"}}

OpenConditional == {id \in OrderIds : IsOpen(orders[id]) /\ IsConditional(orders[id])}

\* Wrong variant, never used: cancelled orders are left in the list.
OpenOrCancelledPlain ==
  {id \in OrderIds :
     /\ IsOpen(orders[id]) \/ orders[id].status = "CANCELLED"
     /\ ~IsConditional(orders[id])}

OpenPlain == {id \in OrderIds : IsOpen(orders[id]) /\ ~IsConditional(orders[id])}

\* Identifiers left when every stop that can still fire has its own.
Spare ==
  MaxOrders - counter - Cardinality(OpenConditional)
    - Cardinality({i \in DOMAIN stack : stack[i].at = "triggered"})

\* Orders whose object a suspended call will use without asking again
\* whether it is open.
WaitsToMatch(i) == stack[i].at = "created" /\ orders[stack[i].id].type = "MARKET"

Held == todo \cup {stack[i].id : i \in {j \in DOMAIN stack : WaitsToMatch(j)}}

CalculateFee(o, cost) ==
  (cost * (IF o.type = "LIMIT_MAKER" THEN MakerRate ELSE TakerRate)) \div FeeScale

-----------------------------------------------------------------------------
\* Wrong variant, never used: an order that cannot be funded stays open.
PlaceUnfundedOrder(r, under) ==
  LET o        == NewOrder(Quantized(r), "OPEN")
      currency == CollateralCurrency(o)
      enough   == CanLock(balances, currency, Collateral(o))
  IN  /\ counter < MaxOrders
      /\ counter' = counter + 1
      /\ orders' = [orders EXCEPT ![counter + 1] = o]
      /\ balances' = IF enough THEN LockCollateral(balances, currency, Collateral(o)) ELSE balances
      /\ Dispatch(IF enough THEN "created" ELSE "failed", counter + 1, under, NoPrice, 0)

\* _place_order, up to the event it ends in: OrderFailure, or OrderCreated.
PlaceOrder(r, under) ==
  LET o        == NewOrder(Quantized(r), "OPEN")
      id       == counter + 1
      currency == CollateralCurrency(o)
      enough   == CanLock(balances, currency, Collateral(o))
  IN  /\ counter < MaxOrders
      /\ counter' = id
      /\ \/ /\ enough
            /\ balances' = LockCollateral(balances, currency, Collateral(o))
            /\ orders' = [orders EXCEPT ![id] = o]
            /\ Dispatch("created", id, under, NoPrice, 0)
         \/ /\ ~enough
            /\ orders' = [orders EXCEPT ![id] = [o EXCEPT !.status = "FAILED"]]
            /\ Dispatch("failed", id, under, NoPrice, 0)
            /\ UNCHANGED balances

\* _process_fill, up to the OrderFilled event.
ProcessFill(id, m, under) ==
  LET o   == orders[id]
      fee == CalculateFee(o, m.cost)
  IN  /\ balances' = ApplyFill(balances, o.side, m.amount, m.cost, fee)
      /\ orders' = [orders EXCEPT ![id] = UpdateWithFill(o, m.amount, m.cost, fee)]
      /\ Dispatch("filled", id, under, m.level, m.amount)

\* The status change and the release that cancel() and _fire_conditional_order share.
Withdraw(id) ==
  LET o == orders[id]
  IN  /\ orders' = [orders EXCEPT ![id].status = "CANCELLED"]
      /\ balances' = ReleaseCollateral(balances, CollateralCurrency(o), Collateral(o))

-----------------------------------------------------------------------------
\* buy() and sell(), called by the driver or by a listener.
Place(r) ==
  /\ StrategyRuns
  /\ Spare >= IF IsConditional(r) THEN 2 ELSE 1
  /\ PlaceOrder(r, stack)
  /\ UNCHANGED <<book, refs, phase, todo, childOf>>

\* Wrong variant, never used: the trigger engine is not told.
CancelKeepingReference(id) ==
  /\ StrategyRuns
  /\ IsOpen(orders[id])
  /\ id \in Held => StaleCancels
  /\ Withdraw(id)
  /\ Dispatch("cancelled", id, stack, NoPrice, 0)
  /\ UNCHANGED <<book, counter, refs, phase, todo, childOf>>

\* cancel() of an open order; of any other it changes nothing.
Cancel(id) ==
  /\ StrategyRuns
  /\ IsOpen(orders[id])
  /\ id \in Held => StaleCancels
  /\ Withdraw(id)
  /\ refs' = IF IsConditional(orders[id]) THEN [refs EXCEPT ![id] = NoPrice] ELSE refs
  /\ Dispatch("cancelled", id, stack, NoPrice, 0)
  /\ UNCHANGED <<book, counter, phase, todo, childOf>>

\* Replayed market data: apply_snapshot, apply_diffs and apply_trade can
\* leave any book.
MarketData ==
  /\ Idle
  /\ book' \in Books
  /\ UNCHANGED <<balances, orders, counter, refs, stack, phase, todo, lastEvent, childOf>>

-----------------------------------------------------------------------------
\* process_tick is called: the first loop runs over a copy of the open
\* conditional orders.
ProcessTick ==
  /\ Idle
  /\ phase' = "conditional"
  /\ todo' = OpenConditional
  /\ UNCHANGED <<book, balances, orders, counter, refs, stack, lastEvent, childOf>>

LoopIn(loop) == stack = << >> /\ phase = loop /\ todo # {}

\* The next order of the copied list: identifiers grow in the order of placing.
Upcoming == Least(todo)

\* Wrong variant, never used: the loop does not leave an order that did not fire.
EvaluateAgain ==
  LET id == Upcoming
  IN  /\ LoopIn("conditional")
      /\ Fires(orders[id], book, refs[id]) => ~IsOpen(orders[id])
      /\ refs' = [refs EXCEPT ![id] = Evaluated(orders[id], book, @)]
      /\ UNCHANGED <<book, balances, orders, counter, stack, phase, todo, lastEvent, childOf>>

\* The next order of the list does not fire, or fires no longer open.
EvaluateOrder ==
  LET id == Upcoming
  IN  /\ LoopIn("conditional")
      /\ Fires(orders[id], book, refs[id]) => ~IsOpen(orders[id])
      /\ refs' = [refs EXCEPT ![id] = Evaluated(orders[id], book, @)]
      /\ todo' = todo \ {id}
      /\ UNCHANGED <<book, balances, orders, counter, stack, phase, lastEvent, childOf>>

\* Wrong variant, never used: the stop's collateral is not released.
FireWithoutRelease ==
  LET id == Upcoming
  IN  /\ LoopIn("conditional")
      /\ Fires(orders[id], book, refs[id])
      /\ IsOpen(orders[id])
      /\ orders' = [orders EXCEPT ![id].status = "CANCELLED"]
      /\ refs' = [refs EXCEPT ![id] = NoPrice]
      /\ todo' = todo \ {id}
      /\ Dispatch("triggered", id, stack, NoPrice, 0)
      /\ UNCHANGED <<book, balances, counter, phase, childOf>>

\* _fire_conditional_order, up to the OrderTriggered event.
FireConditionalOrder ==
  LET id == Upcoming
  IN  /\ LoopIn("conditional")
      /\ Fires(orders[id], book, refs[id])
      /\ IsOpen(orders[id])
      /\ Withdraw(id)
      /\ refs' = [refs EXCEPT ![id] = NoPrice]
      /\ todo' = todo \ {id}
      /\ Dispatch("triggered", id, stack, NoPrice, 0)
      /\ UNCHANGED <<book, counter, phase, childOf>>

\* The second loop copies the open orders only after the first has ended.
StartMatching ==
  /\ stack = << >> /\ phase = "conditional" /\ todo = {}
  /\ phase' = "matching"
  /\ todo' = OpenPlain
  /\ UNCHANGED <<book, balances, orders, counter, refs, stack, lastEvent, childOf>>

LeaveOrder ==
  LET id == Upcoming
  IN  /\ LoopIn("matching")
      /\ CheckAndMatch(orders[id], book) = NoMatch
      /\ todo' = todo \ {id}
      /\ UNCHANGED <<book, balances, orders, counter, refs, stack, phase, lastEvent, childOf>>

MatchOrder ==
  LET id == Upcoming
  IN  /\ LoopIn("matching")
      /\ \E m \in CheckAndMatch(orders[id], book) : ProcessFill(id, m, stack)
      /\ todo' = todo \ {id}
      /\ UNCHANGED <<book, counter, refs, phase, childOf>>

EndTick ==
  /\ stack = << >> /\ phase = "matching" /\ todo = {}
  /\ phase' = "idle"
  /\ UNCHANGED <<book, balances, orders, counter, refs, stack, todo, lastEvent, childOf>>

-----------------------------------------------------------------------------
Resumes(event) == stack # << >> /\ Top.at = event

\* After OrderFailure and OrderCancelled nothing is left to do.
AfterNotice ==
  /\ Resumes("failed") \/ Resumes("cancelled")
  /\ stack' = Below
  /\ UNCHANGED <<book, balances, orders, counter, refs, phase, todo, lastEvent, childOf>>

\* After OrderCreated a market order is matched at once, any other rests.
AfterCreatedMatch ==
  /\ Resumes("created")
  /\ orders[Top.id].type = "MARKET"
  /\ \E m \in CheckAndMatch(orders[Top.id], book) : ProcessFill(Top.id, m, Below)
  /\ UNCHANGED <<book, counter, refs, phase, todo, childOf>>

AfterCreatedRest ==
  /\ Resumes("created")
  /\ orders[Top.id].type = "MARKET" => CheckAndMatch(orders[Top.id], book) = NoMatch
  /\ stack' = Below
  /\ UNCHANGED <<book, balances, orders, counter, refs, phase, todo, lastEvent, childOf>>

\* Wrong variant, never used: the replacement takes the other side.
ClosingRequest(o) ==
  [type |-> "MARKET", side |-> IF o.side = "BUY" THEN "SELL" ELSE "BUY", amount |-> o.amount,
   price |-> 0, trigger |-> NoPrice, trail |-> NoPrice]

\* What a fired order becomes: a market order of its side and amount, at price 0.
MarketRequest(o) ==
  [type |-> "MARKET", side |-> o.side, amount |-> o.amount, price |-> 0,
   trigger |-> NoPrice, trail |-> NoPrice]

AfterTriggered ==
  /\ Resumes("triggered")
  /\ PlaceOrder(MarketRequest(orders[Top.id]), Below)
  /\ childOf' = [childOf EXCEPT ![Top.id] = counter + 1]
  /\ UNCHANGED <<book, refs, phase, todo>>

\* Wrong variant, never used: every fill announces completion.
AfterAnyFillComplete ==
  /\ Resumes("filled")
  /\ Dispatch("completed", Top.id, Below, Top.level, Top.amount)
  /\ UNCHANGED <<book, balances, orders, counter, refs, phase, todo, childOf>>

\* After OrderFilled the order may be complete.
AfterFilledComplete ==
  /\ Resumes("filled")
  /\ orders[Top.id].status = "FILLED"
  /\ Dispatch("completed", Top.id, Below, Top.level, Top.amount)
  /\ UNCHANGED <<book, balances, orders, counter, refs, phase, todo, childOf>>

\* The last step of _process_fill takes the fill off the book.
ConsumeLiquidity ==
  /\ \/ Resumes("filled") /\ orders[Top.id].status # "FILLED"
     \/ Resumes("completed")
  /\ book' = ApplyTrade(book, Top.level, Top.amount, orders[Top.id].side)
  /\ stack' = Below
  /\ UNCHANGED <<balances, orders, counter, refs, phase, todo, lastEvent, childOf>>

-----------------------------------------------------------------------------
\* The steps the program takes by itself once a call is running.
Resume ==
  \/ AfterNotice
  \/ AfterCreatedMatch
  \/ AfterCreatedRest
  \/ AfterTriggered
  \/ AfterFilledComplete
  \/ ConsumeLiquidity

Loop ==
  \/ EvaluateOrder
  \/ FireConditionalOrder
  \/ StartMatching
  \/ LeaveOrder
  \/ MatchOrder
  \/ EndTick

Next ==
  \/ \E r \in Requests : Place(r)
  \/ \E id \in OrderIds : Cancel(id)
  \/ MarketData
  \/ ProcessTick
  \/ Loop
  \/ Resume

Spec == Init /\ [][Next]_vars

\* A call that is running goes on, and the driver keeps ticking.
Fairness == WF_vars(Resume \/ Loop) /\ WF_vars(ProcessTick)

FairSpec == Spec /\ Fairness

-----------------------------------------------------------------------------
(* Properties *)

\* What an order has locked of the base currency: the unfilled part of an open sale.
SaleReserve(o) == IF IsOpen(o) /\ o.side = "SELL" THEN Remaining(o) ELSE 0

BaseReserved == [id \in OrderIds |-> SaleReserve(orders[id])]

\* The locked base is exactly what the open sales have reserved: no lock
\* outlives its order and no order loses its lock, through placing, cancelling,
\* firing and filling in any nesting (balance_manager.py:26-32).
BaseAccounted == balances["base"].locked = Total(BaseReserved, MaxOrders)

\* As long as listeners leave held orders alone, an order that will be matched
\* without another look is still open then, and only one loop or call holds it.
HeldOrdersAreOpen ==
  ~StaleCancels =>
    /\ phase = "matching" => \A id \in todo : IsOpen(orders[id])
    /\ \A i \in DOMAIN stack :
         WaitsToMatch(i) =>
           /\ IsOpen(orders[stack[i].id])
           /\ phase = "matching" => stack[i].id \notin todo
           /\ \A j \in DOMAIN stack : WaitsToMatch(j) /\ stack[j].id = stack[i].id => j = i

\* The account never sells base it does not own: what is locked for sales is
\* part of the total, so lock_collateral's promise survives until the fill.
NoNakedSale ==
  0 <= balances["base"].locked /\ balances["base"].locked <= balances["base"].total

\* The quote a purchase holds locked: its amount, or what was filled of it once
\* it is done, at the price it was reserved at, less what its fills have cost.
PurchaseReserve(o) ==
  IF o.side = "SELL" THEN 0
  ELSE (IF IsOpen(o) THEN o.amount ELSE o.filled) * CollateralPrice(o) - o.cost

QuoteReserved == [id \in OrderIds |-> PurchaseReserve(orders[id])]

NoMarketBuy == \A id \in OrderIds : ~(orders[id].side = "BUY" /\ orders[id].type = "MARKET")

\* As long as no market purchase was made, the locked quote is what the open
\* purchases reserve plus what was reserved and not paid by those that filled.
QuoteAccounted == NoMarketBuy => balances["quote"].locked = Total(QuoteReserved, MaxOrders)

Bought(field(_)) ==
  Total([id \in OrderIds |-> IF orders[id].side = "BUY" THEN field(orders[id]) ELSE 0], MaxOrders)

Sold(field(_)) ==
  Total([id \in OrderIds |-> IF orders[id].side = "SELL" THEN field(orders[id]) ELSE 0], MaxOrders)

\* The totals the balance manager keeps are the initial balances moved by the
\* fills and fees the order tracker has recorded, whatever became of the orders.
LedgerMatchesFills ==
  LET filled(o) == o.filled
      cost(o)   == o.cost
      fee(o)    == o.fee
  IN  /\ balances["base"].total =
           InitialBalances["base"].total + Bought(filled) - Sold(filled)
      /\ balances["quote"].total =
           InitialBalances["quote"].total - Bought(cost) + Sold(cost) - Bought(fee) - Sold(fee)

\* No fee is reserved, but fees are all that can overdraw the quote account: as
\* long as no market purchase was made, what is locked for purchases is never more
\* than the account would hold had no fee been charged (balance_manager.py:61-71,
\* :96-126).
OnlyFeesOverdraw ==
  NoMarketBuy =>
    LET fee(o) == o.fee
    IN  balances["quote"].locked <= balances["quote"].total + Bought(fee) + Sold(fee)

\* Over all the parts it was filled in, at whatever books, no order with a limit
\* has paid more than it for what it bought or got less for what it sold: the
\* walk over the levels ends where price_ok fails (matching_engine.py:206-231).
LimitsAreKept ==
  \A id \in OrderIds : LET o == orders[id] IN
    o.type \in {"LIMIT", "LIMIT_MAKER"} =>
      IF o.side = "BUY" THEN o.cost <= o.price * o.filled ELSE o.cost >= o.price * o.filled

\* The ways to take an amount from the levels an order accepts.
Ways(o, amount) ==
  {take \in [Prices -> 0 .. Remaining(o)] :
     /\ \A p \in Prices : take[p] <= Offered(o, book)[p]
     /\ Total(take, MaxPrice) = amount}

CostOfTaking(take) == Total([p \in Prices |-> p * take[p]], MaxPrice)

\* The depth walk is best execution: no other way to take what it takes from
\* levels within the limit would cost a purchase less or bring a sale more
\* (matching_engine.py:169-241, order_book.py:150-163).
WalkIsBest ==
  \A id \in OrderIds : LET o == orders[id] IN
    Engine = "Depth" /\ IsOpen(o) /\ o.type \in {"MARKET", "LIMIT"} =>
      \A m \in CheckAndMatch(o, book) : \A take \in Ways(o, m.amount) :
        IF o.side = "BUY" THEN m.cost <= CostOfTaking(take) ELSE m.cost >= CostOfTaking(take)

Lifecycle == INSTANCE OrderLifecycle WITH Ids <- OrderIds, life <- lastEvent

\* Listeners hear about every order what OrderLifecycle promises.
ListenersHearLifecycle == Lifecycle!Spec

\* An order is FILLED exactly when its completion was announced or the call
\* that will announce it is waiting on the listeners of its last fill.
CompletionIsAnnounced ==
  \A id \in OrderIds :
    (orders[id].status = "FILLED") <=>
      \/ lastEvent[id] = "completed"
      \/ /\ lastEvent[id] = "filled"
         /\ Remaining(orders[id]) = 0
         /\ \E i \in DOMAIN stack : stack[i].at = "filled" /\ stack[i].id = id

\* A fired order is replaced once, by a market order of the same side and
\* amount, or the call that will place it is waiting on OrderTriggered; and no
\* market order replaces two.
FiredIsReplacedOnce ==
  /\ \A id \in OrderIds :
       lastEvent[id] = "triggered" =>
         IF \E i \in DOMAIN stack : stack[i].at = "triggered" /\ stack[i].id = id
         THEN childOf[id] = 0
         ELSE /\ childOf[id] \in 1 .. counter
              /\ LET child == orders[childOf[id]]
                 IN  /\ child.type = "MARKET"
                     /\ child.side = orders[id].side
                     /\ child.amount = orders[id].amount
  /\ \A a, b \in OrderIds : childOf[a] # 0 /\ childOf[a] = childOf[b] => a = b

\* The trigger engine remembers a price only for trailing stops that are open.
RefsOnlyForOpenOrders ==
  \A id \in OrderIds :
    refs[id] # NoPrice => IsOpen(orders[id]) /\ orders[id].type = "TRAILING_STOP"

\* Over the ticks a trailing stop lives, its reference follows the market one
\* way: up for a sale, down for a purchase.
TrailFollowsOneWay ==
  [][\A id \in OrderIds :
       refs[id] # NoPrice /\ refs'[id] # NoPrice =>
         IF orders[id].side = "BUY" THEN refs'[id] <= refs[id] ELSE refs'[id] >= refs[id]]_vars

\* When a sell stop fires, the collateral just released is enough for the
\* market order that replaces it, whatever other orders hold at that moment.
SellStopCanRelock ==
  [][\A id \in OrderIds :
       (lastEvent'[id] = "triggered" /\ lastEvent[id] # "triggered"
          /\ orders[id].side = "SELL")
       => CanLock(balances', "base", orders[id].amount)]_vars

\* What a sale has taken of the base currency and not given back.
SaleClaim(o) == IF o.side = "SELL" THEN (IF IsOpen(o) THEN o.amount ELSE o.filled) ELSE 0

ClaimedAfter(id) ==
  Total([j \in OrderIds |-> IF j > id THEN SaleClaim(orders[j]) ELSE 0], MaxOrders)

\* While a fired sell stop waits on the listeners of OrderTriggered, its amount is
\* available but for what sales placed after the stop have taken. So its replacement,
\* which has to lock it again, fails for no other reason: not for an order that was
\* older, nor for a purchase, a cancellation or a fill (exchange.py:558-595).
OnlyLaterSalesStarve ==
  \A i \in DOMAIN stack : LET id == stack[i].id IN
    stack[i].at = "triggered" /\ orders[id].side = "SELL" =>
      Available(balances["base"]) + ClaimedAfter(id) >= orders[id].amount

\* Only open orders are filled: process_tick says it will "Match remaining open
\* non-conditional orders" (exchange.py:377).
FillsOnlyOpenOrders ==
  [][\A id \in OrderIds : orders'[id].filled > orders[id].filled => IsOpen(orders[id])]_vars

\* The market order a buy stop becomes has its value at the ask reserved when
\* it is announced: "collateral locked at ask" (exchange.py:582).
FiredBuyLockedAtAsk ==
  \A id \in OrderIds :
    (childOf[id] # 0 /\ orders[id].side = "BUY" /\ BestAsk(book) # NoPrice
       /\ Resumes("created") /\ Top.id = childOf[id])
    => balances["quote"].locked >= orders[childOf[id]].amount * BestAsk(book)

\* A fill releases the lock of what it fills (balance_manager.py:31), so when
\* no order is open nothing is locked.
NothingOpenNothingLocked ==
  (\A id \in OrderIds : ~IsOpen(orders[id])) => \A c \in Currencies : balances[c].locked = 0

Shown(side) == Total(Opposite(book, side), MaxPrice)

\* The last step of a fill takes the filled amount off the opposite side of the
\* book: "Apply trade to order book (consume liquidity)" (exchange.py:678).
FillConsumesLiquidity ==
  [][(Resumes("completed") /\ stack' = Below) =>
       \A side \in {orders[Top.id].side}, amount \in {Top.amount} :
         Shown(side) - Shown(side)' = amount]_vars

ReadyToFire(id) ==
  IsOpen(orders[id]) /\ IsConditional(orders[id]) /\ Fires(orders[id], book, refs[id])

\* A stop whose condition stays true fires in the end, whatever listeners do.
StopsFire == \A id \in OrderIds : ReadyToFire(id) ~> ~ReadyToFire(id)

\* The steps a suspended call may still lead to.
FrameWork ==
  [failed |-> 1, cancelled |-> 1, completed |-> 1, filled |-> 2, created |-> 5, triggered |-> 6]

StackWork == Total([i \in DOMAIN stack |-> FrameWork[stack[i].at]], Len(stack))

OpenOrders == Total([id \in OrderIds |-> IF IsOpen(orders[id]) THEN 1 ELSE 0], MaxOrders)

\* The steps of the loops, of which the second may run over every order.
LoopWork == [idle |-> 0, matching |-> 1, conditional |-> 2 + 5 * MaxOrders][phase] + 5 * Cardinality(todo)

Work == 8 * (MaxOrders - counter) + 2 * OpenOrders + LoopWork + StackWork

\* Until control is back with the driver every step leaves less to do, whether
\* the program takes it or a listener that places or cancels: no nesting of
\* calls, no stop that fires and no cancelled order that a fill opens again
\* (types.py:162) lets the loops of process_tick go on for ever, as long as the
\* listeners place a bounded number of orders (exchange.py:375-400).
TickMakesHeadway == [][~Idle => Work \in Nat /\ Work' < Work]_vars

\* process_tick always returns.
TickReturns == phase # "idle" ~> phase = "idle"
=============================================================================
