--------------------------- MODULE ExchangeProofs ---------------------------
(***************************************************************************)
(* Type correctness of Exchange for every engine, every fee and whatever   *)
(* listeners do, the safety of the base currency when listeners cancel no  *)
(* order that a suspended call still holds, and a number of steps that     *)
(* every step of a tick lowers.                                            *)
(***************************************************************************)
EXTENDS OperatorProofs, SequenceTheorems

\* No order is filled beyond its amount.
NoOverfill == \A id \in OrderIds : orders[id].filled <= orders[id].amount

\* An identifier that was not generated has no order.
FreshIds == \A id \in OrderIds : id > counter => orders[id] = NoOrder

TypeInv == TypeOK /\ NoOverfill /\ FreshIds

-----------------------------------------------------------------------------
\* A suspended call has a top frame, and the calls below it are frames too.
LEMMA StackShape ==
  ASSUME stack \in Seq(Frame), stack # << >>
  PROVE  /\ Top \in Frame
         /\ Below \in Seq(Frame)
         /\ Len(stack) \in Nat \ {0}
         /\ Len(Below) = Len(stack) - 1
         /\ \A i \in 1 .. Len(Below) : i \in 1 .. Len(stack) /\ Below[i] = stack[i]
<1>1. Len(stack) \in Nat \ {0}
  BY EmptySeq
<1>2. Len(stack) \in 1 .. Len(stack)
  BY <1>1
<1>3. Top \in Frame
  BY <1>2, ElementOfSeq DEF Top
<1>4. /\ Below \in Seq(Frame) /\ Len(Below) = Len(stack) - 1
      /\ \A i \in 1 .. Len(Below) : Below[i] = stack[i]
  <2> DEFINE n == Len(stack) - 1
  <2>1. 1 \in Int /\ n \in Int /\ n >= 0 /\ n < Len(stack)
    BY <1>1
  <2>2. \A i \in 1 .. n : stack[i] \in Frame
    BY <1>1, ElementOfSeq
  <2>3. Below = SubSeq(stack, 1, n)
    BY DEF Below
  <2> HIDE DEF n
  <2>4. /\ SubSeq(stack, 1, n) \in Seq(Frame)
        /\ Len(SubSeq(stack, 1, n)) = IF 1 <= n THEN n - 1 + 1 ELSE 0
        /\ \A i \in 1 .. n - 1 + 1 : SubSeq(stack, 1, n)[i] = stack[1 + i - 1]
    BY <2>1, <2>2, SubSeqProperties
  <2>5. Len(SubSeq(stack, 1, n)) = n
    BY <2>1, <2>4
  <2>6. \A i \in 1 .. n : SubSeq(stack, 1, n)[i] = stack[i]
    <3> SUFFICES ASSUME NEW i \in 1 .. n PROVE SubSeq(stack, 1, n)[i] = stack[i]
      OBVIOUS
    <3>1. i \in 1 .. n - 1 + 1 /\ 1 + i - 1 = i
      BY <2>1
    <3> QED BY <2>4, <3>1
  <2> QED BY <2>3, <2>4, <2>5, <2>6 DEF n
<1> QED BY <1>1, <1>3, <1>4

\* Dispatching an event puts one frame on the calls that wait.
LEMMA DispatchType ==
  ASSUME NEW under \in Seq(Frame), NEW event \in EventPoints, NEW id \in OrderIds,
         NEW level \in Int, NEW amount \in Int,
         lastEvent \in [OrderIds -> EventPoints \cup {"none"}],
         Dispatch(event, id, under, level, amount)
  PROVE  /\ stack' \in Seq(Frame)
         /\ lastEvent' \in [OrderIds -> EventPoints \cup {"none"}]
         /\ Len(stack') = Len(under) + 1
         /\ stack'[Len(under) + 1] = CallFrame(event, id, level, amount)
         /\ \A i \in 1 .. Len(under) : stack'[i] = under[i]
<1>1. CallFrame(event, id, level, amount) \in Frame
  BY DEF CallFrame, Frame
<1>2. stack' = Append(under, CallFrame(event, id, level, amount))
  BY DEF Dispatch
<1> HIDE DEF CallFrame, Frame
<1>3. /\ stack' \in Seq(Frame) /\ Len(stack') = Len(under) + 1
      /\ stack'[Len(under) + 1] = CallFrame(event, id, level, amount)
      /\ \A i \in 1 .. Len(under) : stack'[i] = under[i]
  BY <1>1, <1>2
<1> QED BY <1>3 DEF Dispatch

\* The order a call of _place_order creates.
Placed(r) == NewOrder(Quantized(r), "OPEN")

\* _place_order keeps the types, whether the lock succeeds or fails.
LEMMA PlaceOrderType ==
  ASSUME TypeInv, NEW r \in Request, NEW under \in Seq(Frame), PlaceOrder(r, under)
  PROVE  /\ counter' = counter + 1 /\ counter' \in OrderIds
         /\ balances' \in [Currencies -> TokenBalance]
         /\ orders' \in [OrderIds -> Order]
         /\ stack' \in Seq(Frame)
         /\ lastEvent' \in [OrderIds -> EventPoints \cup {"none"}]
         /\ NoOverfill' /\ FreshIds'
         /\ \E k \in {Placed(r), NewOrder(Quantized(r), "FAILED")} :
              orders' = [orders EXCEPT ![counter + 1] = k]
         /\ Len(stack') = Len(under) + 1
         /\ stack'[Len(under) + 1].id = counter + 1
         /\ stack'[Len(under) + 1].at = "created" => IsOpen(orders'[counter + 1])
         /\ \A i \in 1 .. Len(under) : stack'[i] = under[i]
<1> DEFINE o == Placed(r)
           f == NewOrder(Quantized(r), "FAILED")
           id == counter + 1
<1>1. /\ o \in Order /\ o.filled = 0
      /\ f \in Order /\ f.filled = 0
      /\ [o EXCEPT !.status = "FAILED"] = f
  <2>1. "OPEN" \in Statuses /\ "FAILED" \in Statuses
    BY DEF Statuses
  <2>2. [o EXCEPT !.status = "FAILED"] = f
    BY DEF Placed, NewOrder
  <2> QED BY <2>1, <2>2, NewOrderType DEF Placed
<1>2. id \in OrderIds /\ counter' = id /\ id \in 1 .. MaxOrders
  BY ExchangeAssumption DEF PlaceOrder, TypeInv, TypeOK, OrderIds
<1>3. /\ Collateral(o) \in Int /\ CollateralCurrency(o) \in Currencies
  BY <1>1, CollateralType
<1>4. PICK k \in {o, f} : /\ orders' = [orders EXCEPT ![id] = k]
                          /\ k = o => balances' = LockCollateral(balances, CollateralCurrency(o), Collateral(o))
                                      \/ balances' = balances
                          /\ k # o => balances' = balances
                          /\ \/ Dispatch("created", id, under, NoPrice, 0)
                             \/ Dispatch("failed", id, under, NoPrice, 0)
  <2> HIDE DEF o, f
  <2> QED BY <1>1 DEF PlaceOrder, o, Placed
<1>5. k \in Order /\ k.filled = 0 /\ k.amount \in Nat
  <2>1. k \in Order /\ k.filled = 0
    BY <1>1, <1>4
  <2> QED BY <2>1 DEF Order
<1>6. balances' \in [Currencies -> TokenBalance]
  <2>1. balances \in [Currencies -> TokenBalance]
    BY DEF TypeInv, TypeOK
  <2> HIDE DEF o, f
  <2> QED BY <1>3, <1>4, <2>1, LockCollateralType
<1>7. orders' \in [OrderIds -> Order]
  BY <1>4, <1>5 DEF TypeInv, TypeOK
<1>8. NoOverfill'
  <2> SUFFICES ASSUME NEW x \in OrderIds PROVE orders'[x].filled <= orders'[x].amount
    BY DEF NoOverfill
  <2>1. CASE x = id
    BY <1>2, <1>4, <1>5, <2>1 DEF TypeInv, TypeOK
  <2>2. CASE x # id
    <3>1. orders'[x] = orders[x]
      BY <1>4, <2>2 DEF TypeInv, TypeOK
    <3> QED BY <3>1 DEF TypeInv, NoOverfill
  <2> QED BY <2>1, <2>2
<1>9. FreshIds'
  <2> SUFFICES ASSUME NEW x \in OrderIds, x > id PROVE orders'[x] = NoOrder
    BY <1>2 DEF FreshIds
  <2>1. x # id /\ x > counter
    BY <1>2 DEF OrderIds, TypeInv, TypeOK
  <2>2. orders'[x] = orders[x]
    BY <1>4, <2>1 DEF TypeInv, TypeOK
  <2> QED BY <2>1, <2>2 DEF TypeInv, FreshIds
<1>10. PICK event \in {"created", "failed"} :
         /\ Dispatch(event, id, under, NoPrice, 0)
         /\ event = "created" => IsOpen(orders'[id])
  <2>1. IsOpen(o)
    BY DEF IsOpen, Placed, NewOrder
  <2>2. \/ orders' = [orders EXCEPT ![id] = o] /\ Dispatch("created", id, under, NoPrice, 0)
        \/ Dispatch("failed", id, under, NoPrice, 0)
    <3> HIDE DEF o, f
    <3> QED BY DEF PlaceOrder, o, Placed
  <2>3. CASE orders' = [orders EXCEPT ![id] = o] /\ Dispatch("created", id, under, NoPrice, 0)
    <3>1. orders'[id] = o
      BY <1>2, <2>3 DEF TypeInv, TypeOK
    <3> QED BY <2>1, <2>3, <3>1
  <2>4. CASE Dispatch("failed", id, under, NoPrice, 0)
    BY <2>4
  <2> QED BY <2>2, <2>3, <2>4
<1>11. /\ event \in EventPoints /\ NoPrice \in Int /\ 0 \in Int
       /\ lastEvent \in [OrderIds -> EventPoints \cup {"none"}]
  BY DEF EventPoints, NoPrice, TypeInv, TypeOK
<1> HIDE DEF o, f, id
<1>12. /\ stack' \in Seq(Frame)
       /\ lastEvent' \in [OrderIds -> EventPoints \cup {"none"}]
       /\ Len(stack') = Len(under) + 1
       /\ stack'[Len(under) + 1] = CallFrame(event, id, NoPrice, 0)
       /\ \A i \in 1 .. Len(under) : stack'[i] = under[i]
  BY <1>2, <1>10, <1>11, DispatchType
<1>13. CallFrame(event, id, NoPrice, 0).id = id /\ CallFrame(event, id, NoPrice, 0).at = event
  BY DEF CallFrame
<1> QED BY <1>2, <1>4, <1>6, <1>7, <1>8, <1>9, <1>10, <1>12, <1>13 DEF id, o, f

-----------------------------------------------------------------------------
\* A fill changes one order, within its amount, and leaves a frame on the stack.
LEMMA ProcessFillType ==
  ASSUME TypeInv, NEW id \in OrderIds, id <= counter,
         NEW m \in CheckAndMatch(orders[id], book), NEW under \in Seq(Frame),
         ProcessFill(id, m, under), counter' = counter
  PROVE  /\ balances' \in [Currencies -> TokenBalance]
         /\ orders' \in [OrderIds -> Order]
         /\ stack' \in Seq(Frame)
         /\ lastEvent' \in [OrderIds -> EventPoints \cup {"none"}]
         /\ NoOverfill' /\ FreshIds'
         /\ \A x \in OrderIds : x # id => orders'[x] = orders[x]
         /\ orders'[id].type = orders[id].type
         /\ SaleReserve(orders'[id]) =
              IF orders[id].side = "SELL" THEN Remaining(orders[id]) - m.amount ELSE 0
         /\ m.amount \in 0 .. Remaining(orders[id])
         /\ balances'["base"].held
         /\ balances'["base"].total =
              balances["base"].total + (IF orders[id].side = "BUY" THEN m.amount ELSE -m.amount)
         /\ balances'["base"].locked =
              balances["base"].locked - (IF orders[id].side = "BUY" THEN 0 ELSE m.amount)
         /\ Len(stack') = Len(under) + 1
         /\ stack'[Len(under) + 1].id = id /\ stack'[Len(under) + 1].at = "filled"
         /\ \A i \in 1 .. Len(under) : stack'[i] = under[i]
<1> DEFINE o == orders[id]
           fee == CalculateFee(o, m.cost)
           u == UpdateWithFill(o, m.amount, m.cost, fee)
<1>1. /\ o \in Order /\ o.filled <= o.amount /\ o.side \in Sides
      /\ book \in Book /\ balances \in [Currencies -> TokenBalance]
      /\ orders \in [OrderIds -> Order]
  BY DEF TypeInv, TypeOK, NoOverfill, Order
<1>2. m.amount \in 0 .. Remaining(o) /\ m.cost \in Int /\ m.level \in Int
  BY <1>1, MatchWithinRemaining
<1>3. fee \in Int
  BY <1>2, FeeType
<1>4. /\ balances' = ApplyFill(balances, o.side, m.amount, m.cost, fee)
      /\ orders' = [orders EXCEPT ![id] = u]
      /\ Dispatch("filled", id, under, m.level, m.amount)
  BY DEF ProcessFill
<1> HIDE DEF o, fee
<1>5. /\ u \in Order /\ u.filled <= u.amount /\ u.side = o.side /\ u.type = o.type
      /\ Remaining(u) = Remaining(o) - m.amount
      /\ ~IsOpen(u) => Remaining(o) = m.amount
  BY <1>1, <1>2, <1>3, UpdateWithFillType
<1> HIDE DEF u
<1>6. m.amount \in Int /\ Remaining(o) \in Int
  BY <1>1, <1>2, SMTT(30) DEF Remaining, Order
<1>7. /\ balances' \in [Currencies -> TokenBalance]
      /\ balances'["base"].held
      /\ balances'["base"].total =
           balances["base"].total + (IF o.side = "BUY" THEN m.amount ELSE -m.amount)
      /\ balances'["base"].locked =
           balances["base"].locked - (IF o.side = "BUY" THEN 0 ELSE m.amount)
  BY <1>1, <1>2, <1>3, <1>4, <1>6, ApplyFillType, SMTT(30)
<1>8. /\ orders' \in [OrderIds -> Order] /\ orders'[id] = u
      /\ \A x \in OrderIds : x # id => orders'[x] = orders[x]
  BY <1>1, <1>4, <1>5
<1>9. NoOverfill'
  <2> SUFFICES ASSUME NEW x \in OrderIds PROVE orders'[x].filled <= orders'[x].amount
    BY DEF NoOverfill
  <2> QED BY <1>5, <1>8 DEF TypeInv, NoOverfill
<1>10. FreshIds'
  <2>1. ~(id > counter)
    BY DEF TypeInv, TypeOK, OrderIds
  <2> QED BY <1>8, <2>1 DEF TypeInv, FreshIds
<1>11. SaleReserve(u) = IF o.side = "SELL" THEN Remaining(o) - m.amount ELSE 0
  <2>1. CASE o.side = "SELL" /\ ~IsOpen(u)
    <3>1. Remaining(o) - m.amount = 0
      BY <1>5, <1>6, <2>1
    <3> QED BY <1>5, <2>1, <3>1 DEF SaleReserve
  <2>2. CASE o.side = "SELL" /\ IsOpen(u)
    BY <1>5, <2>2 DEF SaleReserve
  <2>3. CASE o.side # "SELL"
    BY <1>5, <2>3 DEF SaleReserve
  <2> QED BY <2>1, <2>2, <2>3
<1>12. "filled" \in EventPoints /\ lastEvent \in [OrderIds -> EventPoints \cup {"none"}]
  BY DEF EventPoints, TypeInv, TypeOK
<1>13. /\ stack' \in Seq(Frame)
       /\ lastEvent' \in [OrderIds -> EventPoints \cup {"none"}]
       /\ Len(stack') = Len(under) + 1
       /\ stack'[Len(under) + 1] = CallFrame("filled", id, m.level, m.amount)
       /\ \A i \in 1 .. Len(under) : stack'[i] = under[i]
  BY <1>2, <1>4, <1>6, <1>12, DispatchType
<1>14. /\ CallFrame("filled", id, m.level, m.amount).id = id
       /\ CallFrame("filled", id, m.level, m.amount).at = "filled"
  BY DEF CallFrame
<1> QED BY <1>2, <1>5, <1>7, <1>8, <1>9, <1>10, <1>11, <1>13, <1>14 DEF o

\* Withdrawing an open order closes it and touches no other.
LEMMA WithdrawType ==
  ASSUME TypeInv, NEW id \in OrderIds, IsOpen(orders[id]), Withdraw(id), counter' = counter
  PROVE  /\ balances' \in [Currencies -> TokenBalance]
         /\ orders' \in [OrderIds -> Order]
         /\ NoOverfill' /\ FreshIds'
         /\ \A x \in OrderIds : x # id => orders'[x] = orders[x]
         /\ ~IsOpen(orders'[id]) /\ orders'[id].type = orders[id].type
         /\ balances'["base"].held = balances["base"].held
         /\ balances'["base"].total = balances["base"].total
         /\ balances'["base"].locked =
              IF CollateralCurrency(orders[id]) = "base" /\ balances["base"].held
              THEN Higher(0, balances["base"].locked - Collateral(orders[id]))
              ELSE balances["base"].locked
<1> DEFINE o == orders[id]
           w == [o EXCEPT !.status = "CANCELLED"]
<1>1. o \in Order /\ orders \in [OrderIds -> Order] /\ balances \in [Currencies -> TokenBalance]
  BY DEF TypeInv, TypeOK
<1>2. /\ orders' = [orders EXCEPT ![id] = w]
      /\ balances' = ReleaseCollateral(balances, CollateralCurrency(o), Collateral(o))
  BY <1>1 DEF Withdraw
<1>3. /\ w \in Order /\ w.filled = o.filled /\ w.amount = o.amount
      /\ w.status = "CANCELLED" /\ w.type = o.type
  BY <1>1 DEF Order, Statuses
<1>4. ~IsOpen(w)
  BY <1>3 DEF IsOpen
<1>5. Collateral(o) \in Int /\ CollateralCurrency(o) \in Currencies
  BY <1>1, CollateralType
<1>6. o # NoOrder
  BY DEF IsOpen, NoOrder
<1> HIDE DEF o, w
<1>7. /\ balances' \in [Currencies -> TokenBalance]
      /\ balances'["base"].held = balances["base"].held
      /\ balances'["base"].total = balances["base"].total
      /\ balances'["base"].locked =
           IF CollateralCurrency(o) = "base" /\ balances["base"].held
           THEN Higher(0, balances["base"].locked - Collateral(o))
           ELSE balances["base"].locked
  BY <1>1, <1>2, <1>5, ReleaseCollateralType
<1>8. /\ orders' \in [OrderIds -> Order] /\ orders'[id] = w
      /\ \A x \in OrderIds : x # id => orders'[x] = orders[x]
  BY <1>1, <1>2, <1>3
<1>9. NoOverfill'
  <2> SUFFICES ASSUME NEW x \in OrderIds PROVE orders'[x].filled <= orders'[x].amount
    BY DEF NoOverfill
  <2> QED BY <1>3, <1>8 DEF TypeInv, NoOverfill, o
<1>10. FreshIds'
  <2>1. ~(id > counter)
    BY <1>6 DEF TypeInv, FreshIds, o
  <2> QED BY <1>8, <2>1 DEF TypeInv, FreshIds
<1> QED BY <1>3, <1>4, <1>7, <1>8, <1>9, <1>10 DEF o

-----------------------------------------------------------------------------
\* The type invariant holds at the start.
LEMMA TypeInit == Init => TypeInv
<1> SUFFICES ASSUME Init PROVE TypeInv
  OBVIOUS
<1>1. EmptyBook \in Book
  BY DEF EmptyBook, Book
<1>2. NoOrder \in Order /\ NoOrder.filled = 0 /\ NoOrder.amount = 0
  BY DEF NoOrder, Order, Statuses, OrderTypes, Sides, NoPrice
<1>3. stack \in Seq(Frame)
  BY DEF Init
<1>4. TypeOK
  BY <1>1, <1>2, <1>3, ExchangeAssumption DEF Init, TypeOK
<1>5. NoOverfill /\ FreshIds
  BY <1>2 DEF Init, NoOverfill, FreshIds
<1> QED BY <1>4, <1>5 DEF TypeInv

\* The order a loop turns to next is one that was placed.
LEMMA UpcomingType ==
  ASSUME TypeInv, todo # {}
  PROVE  Upcoming \in todo /\ Upcoming \in OrderIds /\ Upcoming <= counter
         /\ \A x \in todo \ {Upcoming} : x \in OrderIds
<1>1. counter \in 0 .. MaxOrders /\ todo \subseteq 1 .. counter /\ MaxOrders \in Nat
  BY ExchangeAssumption DEF TypeInv, TypeOK
<1>2. todo \subseteq 1 .. MaxOrders
  BY <1>1
<1>3. Upcoming \in todo
  BY <1>1, <1>2, LeastPicks DEF Upcoming
<1> QED BY <1>1, <1>2, <1>3 DEF OrderIds

\* The orders the loops copy were placed, because an absent order is not open.
LEMMA ListsAreKnown ==
  ASSUME TypeInv
  PROVE  OpenConditional \subseteq 1 .. counter /\ OpenPlain \subseteq 1 .. counter
<1>1. ~IsOpen(NoOrder)
  BY DEF IsOpen, NoOrder
<1>2. \A id \in OrderIds : IsOpen(orders[id]) => id \in 1 .. counter
  BY <1>1 DEF TypeInv, TypeOK, FreshIds, OrderIds
<1> QED BY <1>2 DEF OpenConditional, OpenPlain

\* The market order a fired order becomes is a request.
LEMMA MarketRequestType ==
  ASSUME NEW o \in Order
  PROVE  MarketRequest(o) \in Request
BY DEF MarketRequest, Request, Order, OrderTypes, NoPrice

\* Every step of the exchange keeps the types, the fills and the identifiers right.
LEMMA TypeStep == TypeInv /\ [Next]_vars => TypeInv'
<1> SUFFICES ASSUME TypeInv, [Next]_vars PROVE TypeInv'
  OBVIOUS
<1> USE DEF TypeInv
<1>t. /\ book \in Book
      /\ orders \in [OrderIds -> Order]
      /\ counter \in 0 .. MaxOrders
      /\ refs \in [OrderIds -> Nat \cup {NoPrice}]
      /\ stack \in Seq(Frame)
      /\ todo \subseteq 1 .. counter
      /\ lastEvent \in [OrderIds -> EventPoints \cup {"none"}]
      /\ childOf \in [OrderIds -> 0 .. MaxOrders]
      /\ phase \in {"idle", "conditional", "matching"}
      /\ Requests \subseteq Request /\ Books \subseteq Book /\ MaxOrders \in Nat \ {0}
      /\ "cancelled" \in EventPoints /\ "triggered" \in EventPoints /\ "completed" \in EventPoints
      /\ NoPrice \in Int /\ 0 \in Int
      /\ ~IsOpen(NoOrder)
  BY ExchangeAssumption DEF TypeOK, EventPoints, NoPrice, IsOpen, NoOrder
<1>s. stack # << >> => Below \in Seq(Frame) /\ Top \in Frame /\ Top.id \in OrderIds
                         /\ Top.level \in Int /\ Top.amount \in Int
  BY <1>t, StackShape DEF Frame
<1>r. [refs EXCEPT ![Upcoming] = NoPrice] \in [OrderIds -> Nat \cup {NoPrice}]
  BY <1>t
<1>1. ASSUME NEW r \in Requests, Place(r) PROVE TypeInv'
  <2>1. r \in Request /\ PlaceOrder(r, stack)
        /\ UNCHANGED <<book, refs, phase, todo, childOf>>
    BY <1>1, <1>t DEF Place
  <2>2. todo' \subseteq 1 .. counter'
    BY <1>t, <2>1, PlaceOrderType
  <2> QED BY <1>t, <2>1, <2>2, PlaceOrderType, SMTT(30) DEF TypeOK, OrderIds
<1>2. ASSUME NEW id \in OrderIds, Cancel(id) PROVE TypeInv'
  <2>1. /\ IsOpen(orders[id]) /\ Withdraw(id)
        /\ Dispatch("cancelled", id, stack, NoPrice, 0)
        /\ UNCHANGED <<book, counter, phase, todo, childOf>>
    BY <1>2 DEF Cancel
  <2>2. refs' \in [OrderIds -> Nat \cup {NoPrice}]
    BY <1>2, <1>t DEF Cancel
  <2>3. stack' \in Seq(Frame) /\ lastEvent' \in [OrderIds -> EventPoints \cup {"none"}]
    BY <1>t, <2>1, DispatchType
  <2> QED BY <1>t, <2>1, <2>2, <2>3, WithdrawType DEF TypeOK
<1>3. CASE MarketData
  BY <1>3, <1>t DEF MarketData, TypeOK, NoOverfill, FreshIds
<1>4. CASE ProcessTick
  BY <1>4, <1>t, ListsAreKnown DEF ProcessTick, TypeOK, NoOverfill, FreshIds
<1>5. CASE EvaluateOrder
  <2>1. Upcoming \in OrderIds /\ todo # {}
    BY <1>5, UpcomingType DEF EvaluateOrder, LoopIn
  <2>2. Evaluated(orders[Upcoming], book, refs[Upcoming]) \in Nat \cup {NoPrice}
    BY <1>t, <2>1, EvaluatedType
  <2>3. refs' = [refs EXCEPT ![Upcoming] = Evaluated(orders[Upcoming], book, refs[Upcoming])]
    BY <1>5 DEF EvaluateOrder
  <2>4. refs' \in [OrderIds -> Nat \cup {NoPrice}]
    BY <1>t, <2>2, <2>3
  <2> QED BY <1>5, <1>t, <2>4 DEF EvaluateOrder, TypeOK, NoOverfill, FreshIds
<1>6. CASE FireConditionalOrder
  <2> DEFINE id == Upcoming
  <2>1. /\ IsOpen(orders[id]) /\ Withdraw(id) /\ todo # {}
        /\ Dispatch("triggered", id, stack, NoPrice, 0)
        /\ refs' = [refs EXCEPT ![Upcoming] = NoPrice]
        /\ todo' = todo \ {id}
        /\ UNCHANGED <<book, counter, phase, childOf>>
    BY <1>6 DEF FireConditionalOrder, LoopIn
  <2>2. id \in OrderIds
    BY <2>1, UpcomingType
  <2> HIDE DEF id
  <2>3. stack' \in Seq(Frame) /\ lastEvent' \in [OrderIds -> EventPoints \cup {"none"}]
    BY <1>t, <2>1, <2>2, DispatchType
  <2> QED BY <1>t, <1>r, <2>1, <2>2, <2>3, WithdrawType DEF TypeOK
<1>7. CASE StartMatching
  BY <1>7, <1>t, ListsAreKnown DEF StartMatching, TypeOK, NoOverfill, FreshIds
<1>8. CASE LeaveOrder
  BY <1>8, <1>t DEF LeaveOrder, TypeOK, NoOverfill, FreshIds
<1>9. CASE MatchOrder
  <2> DEFINE id == Upcoming
  <2>1. /\ todo # {} /\ todo' = todo \ {id}
        /\ UNCHANGED <<book, counter, refs, phase, childOf>>
    BY <1>9 DEF MatchOrder, LoopIn
  <2>2. PICK m \in CheckAndMatch(orders[id], book) : ProcessFill(id, m, stack)
    BY <1>9 DEF MatchOrder
  <2>3. id \in OrderIds /\ id <= counter
    BY <2>1, UpcomingType
  <2> HIDE DEF id
  <2> QED BY <1>t, <2>1, <2>2, <2>3, ProcessFillType DEF TypeOK
<1>10. CASE EndTick
  BY <1>10, <1>t DEF EndTick, TypeOK, NoOverfill, FreshIds
<1>11. CASE AfterNotice
  BY <1>11, <1>t, <1>s DEF AfterNotice, Resumes, TypeOK, NoOverfill, FreshIds
<1>12. CASE AfterCreatedMatch
  <2>1. /\ stack # << >> /\ orders[Top.id].type = "MARKET"
        /\ UNCHANGED <<book, counter, refs, phase, todo, childOf>>
    BY <1>12 DEF AfterCreatedMatch, Resumes
  <2>2. PICK m \in CheckAndMatch(orders[Top.id], book) : ProcessFill(Top.id, m, Below)
    BY <1>12 DEF AfterCreatedMatch
  <2>3. Top.id <= counter
    <3>1. orders[Top.id] # NoOrder
      BY <2>1 DEF NoOrder
    <3> QED BY <1>t, <1>s, <2>1, <3>1 DEF FreshIds, OrderIds
  <2> QED BY <1>t, <1>s, <2>1, <2>2, <2>3, ProcessFillType DEF TypeOK
<1>13. CASE AfterCreatedRest
  BY <1>13, <1>t, <1>s DEF AfterCreatedRest, Resumes, TypeOK, NoOverfill, FreshIds
<1>14. CASE AfterTriggered
  <2>1. /\ stack # << >>
        /\ PlaceOrder(MarketRequest(orders[Top.id]), Below)
        /\ childOf' = [childOf EXCEPT ![Top.id] = counter + 1]
        /\ UNCHANGED <<book, refs, phase, todo>>
    BY <1>14 DEF AfterTriggered, Resumes
  <2>2. MarketRequest(orders[Top.id]) \in Request
    BY <1>t, <1>s, <2>1, MarketRequestType
  <2>3. counter' = counter + 1 /\ counter' \in 1 .. MaxOrders
    BY <1>s, <2>1, <2>2, PlaceOrderType DEF OrderIds
  <2>4. childOf' \in [OrderIds -> 0 .. MaxOrders] /\ todo' \subseteq 1 .. counter'
    <3>1. counter + 1 \in 0 .. MaxOrders
      BY <1>t, <2>3
    <3>2. childOf' \in [OrderIds -> 0 .. MaxOrders]
      BY <1>t, <2>1, <3>1
    <3>3. todo' = todo /\ \A x \in 1 .. counter : x \in 1 .. counter'
      BY <1>t, <2>1, <2>3
    <3> QED BY <1>t, <3>2, <3>3
  <2> QED BY <1>t, <1>s, <2>1, <2>2, <2>3, <2>4, PlaceOrderType DEF TypeOK
<1>15. CASE AfterFilledComplete
  <2>1. /\ stack # << >>
        /\ Dispatch("completed", Top.id, Below, Top.level, Top.amount)
        /\ UNCHANGED <<book, balances, orders, counter, refs, phase, todo, childOf>>
    BY <1>15 DEF AfterFilledComplete, Resumes
  <2>2. stack' \in Seq(Frame) /\ lastEvent' \in [OrderIds -> EventPoints \cup {"none"}]
    BY <1>t, <1>s, <2>1, DispatchType
  <2> QED BY <1>t, <2>1, <2>2 DEF TypeOK, NoOverfill, FreshIds
<1>16. CASE ConsumeLiquidity
  <2>1. /\ stack # << >> /\ stack' = Below
        /\ book' = ApplyTrade(book, Top.level, Top.amount, orders[Top.id].side)
        /\ UNCHANGED <<balances, orders, counter, refs, phase, todo, lastEvent, childOf>>
    BY <1>16 DEF ConsumeLiquidity, Resumes
  <2>2. orders[Top.id].side \in Sides
    BY <1>t, <1>s, <2>1 DEF Order
  <2>3. book' \in Book
    BY <1>t, <1>s, <2>1, <2>2, ApplyTradeType
  <2> QED BY <1>t, <1>s, <2>1, <2>3 DEF TypeOK, NoOverfill, FreshIds
<1>17. CASE UNCHANGED vars
  BY <1>17 DEF vars, TypeOK, NoOverfill, FreshIds
<1> QED
  BY <1>1, <1>2, <1>3, <1>4, <1>5, <1>6, <1>7, <1>8, <1>9, <1>10, <1>11, <1>12,
     <1>13, <1>14, <1>15, <1>16, <1>17 DEF Next, Loop, Resume

-----------------------------------------------------------------------------
\* In every reachable state of every exchange each variable has its type: the
\* book never shows a negative quantity, no order is filled below zero, the
\* loops hold only identifiers the tracker has generated (order_tracker.py:26).
THEOREM TypeCorrect == Spec => []TypeOK
<1>1. TypeInv => TypeOK
  BY DEF TypeInv
<1> QED BY <1>1, TypeInit, TypeStep, PTL DEF Spec

\* No order is ever filled beyond the amount it was placed for, by any of the
\* engines and under any cancellation by a listener (types.py:154).
THEOREM FillsWithinAmount == Spec => []NoOverfill
<1>1. TypeInv => NoOverfill
  BY DEF TypeInv
<1> QED BY <1>1, TypeInit, TypeStep, PTL DEF Spec

-----------------------------------------------------------------------------
(* The safety of the base currency, when listeners cancel no order that a *)
(* suspended loop or call still holds.                                    *)

\* Calls are suspended only about orders that were placed.
IdsKnown == \A i \in DOMAIN stack : stack[i].id <= counter

\* The manager has an entry for base as long as a sale is open.
BaseHeld ==
  \A id \in OrderIds : IsOpen(orders[id]) /\ orders[id].side = "SELL" => balances["base"].held

BaseSide == BaseHeld /\ BaseAccounted /\ NoNakedSale

BaseInv == TypeInv /\ IdsKnown /\ HeldOrdersAreOpen /\ BaseSide

-----------------------------------------------------------------------------
\* What a sale reserves is a natural number, and nothing for any other order.
LEMMA SaleReserveType ==
  ASSUME NEW o \in Order, o.filled <= o.amount
  PROVE  SaleReserve(o) \in Nat
<1>1. Remaining(o) \in Nat
  BY DEF Remaining, Order
<1> QED BY <1>1 DEF SaleReserve

\* What one order has reserved is part of what is locked.
LEMMA ReserveIsLocked ==
  ASSUME TypeInv, BaseAccounted, NEW id \in OrderIds
  PROVE  /\ SaleReserve(orders[id]) \in Nat
         /\ SaleReserve(orders[id]) <= balances["base"].locked
         /\ 0 <= balances["base"].locked
<1>1. /\ MaxOrders \in Nat /\ OrderIds = 1 .. MaxOrders
      /\ orders \in [OrderIds -> Order] /\ NoOverfill
  BY ExchangeAssumption DEF TypeInv, TypeOK, OrderIds
<1>2. \A i \in OrderIds : BaseReserved[i] = SaleReserve(orders[i]) /\ BaseReserved[i] \in Nat
  BY <1>1, SaleReserveType DEF BaseReserved, NoOverfill
<1>3. \A i \in 1 .. MaxOrders : BaseReserved[i] \in Nat
  BY <1>1, <1>2
<1>4. /\ Total(BaseReserved, MaxOrders) \in Nat
      /\ \A k \in 1 .. MaxOrders : BaseReserved[k] <= Total(BaseReserved, MaxOrders)
  BY <1>1, <1>3, TotalAtLeast
<1> QED BY <1>1, <1>2, <1>4 DEF BaseAccounted

\* When one order changes, the sum of the reserves changes by its reserve.
LEMMA ReserveMoves ==
  ASSUME TypeInv, BaseAccounted, NEW id \in OrderIds,
         orders' \in [OrderIds -> Order], NoOverfill',
         \A x \in OrderIds : x # id => orders'[x] = orders[x],
         balances'["base"].locked =
           balances["base"].locked + (SaleReserve(orders'[id]) - SaleReserve(orders[id]))
  PROVE  BaseAccounted'
<1> DEFINE g == [x \in OrderIds |-> SaleReserve(orders'[x])]
<1>1. /\ MaxOrders \in Nat /\ OrderIds = 1 .. MaxOrders
      /\ orders \in [OrderIds -> Order] /\ NoOverfill
  BY ExchangeAssumption DEF TypeInv, TypeOK, OrderIds
<1>2. \A i \in OrderIds : BaseReserved[i] = SaleReserve(orders[i]) /\ BaseReserved[i] \in Nat
  BY <1>1, SaleReserveType DEF BaseReserved, NoOverfill
<1>3. \A i \in OrderIds : g[i] = SaleReserve(orders'[i]) /\ g[i] \in Nat
  BY SaleReserveType DEF NoOverfill
<1>4. BaseReserved' = g
  BY DEF BaseReserved
<1> HIDE DEF g
<1>5. \A i \in 1 .. MaxOrders : BaseReserved[i] \in Int /\ g[i] \in Int
  BY <1>1, <1>2, <1>3
<1>6. \A i \in 1 .. MaxOrders : i # id => g[i] = BaseReserved[i]
  BY <1>1, <1>2, <1>3
<1>7. Total(g, MaxOrders) = Total(BaseReserved, MaxOrders) + (g[id] - BaseReserved[id])
  BY <1>1, <1>5, <1>6, TotalUpdate, ZenonT(30)
<1>8. Total(g, MaxOrders) = balances'["base"].locked
  BY <1>2, <1>3, <1>7 DEF BaseAccounted
<1>9. BaseAccounted' <=> balances'["base"].locked = Total(BaseReserved', MaxOrders)
  BY DEF BaseAccounted
<1> QED BY <1>4, <1>8, <1>9

-----------------------------------------------------------------------------
\* Placing an order keeps the base side: the lock grows by what the order reserves, if it may.
LEMMA BaseAfterPlacing ==
  ASSUME TypeInv, BaseSide, NEW r \in Request, NEW under \in Seq(Frame), PlaceOrder(r, under)
  PROVE  BaseSide'
<1> DEFINE o == Placed(r)
           f == NewOrder(Quantized(r), "FAILED")
           id == counter + 1
<1>1. id \in OrderIds /\ orders' \in [OrderIds -> Order] /\ NoOverfill'
      /\ balances \in [Currencies -> TokenBalance] /\ orders \in [OrderIds -> Order]
  BY PlaceOrderType DEF TypeInv, TypeOK
<1>2. orders[id] = NoOrder /\ SaleReserve(NoOrder) = 0 /\ ~IsOpen(NoOrder)
  <2>1. counter + 1 > counter
    BY DEF TypeInv, TypeOK
  <2>2. SaleReserve(NoOrder) = 0 /\ ~IsOpen(NoOrder)
    BY DEF SaleReserve, NoOrder, IsOpen
  <2> QED BY <1>1, <2>1, <2>2 DEF TypeInv, FreshIds
<1>3. o \in Order /\ o.filled = 0 /\ o.status = "OPEN"
  <2>1. "OPEN" \in Statuses
    BY DEF Statuses
  <2>2. o \in Order /\ o.filled = 0
    BY <2>1, NewOrderType DEF Placed
  <2> QED BY <2>2 DEF Placed, NewOrder
<1>4. SaleReserve(f) = 0 /\ ~IsOpen(f) /\ [o EXCEPT !.status = "FAILED"] = f
  BY DEF SaleReserve, IsOpen, NewOrder, Placed
<1>5. SaleReserve(o) = IF o.side = "SELL" THEN Collateral(o) ELSE 0
  BY <1>3 DEF SaleReserve, IsOpen, Collateral
<1>6. CollateralCurrency(o) = (IF o.side = "BUY" THEN "quote" ELSE "base")
      /\ o.side \in {"BUY", "SELL"} /\ Collateral(o) \in Int
      /\ CollateralCurrency(o) \in Currencies
  BY <1>3, CollateralType DEF CollateralCurrency, Order, Sides
<1>7. \/ /\ CanLock(balances, CollateralCurrency(o), Collateral(o))
         /\ balances' = LockCollateral(balances, CollateralCurrency(o), Collateral(o))
         /\ orders' = [orders EXCEPT ![id] = o]
      \/ /\ balances' = balances
         /\ orders' = [orders EXCEPT ![id] = f]
  <2> HIDE DEF f
  <2> QED BY <1>4 DEF PlaceOrder, Placed
<1> HIDE DEF o, f, id
<1>8. \A x \in OrderIds : x # id => orders'[x] = orders[x]
  BY <1>1, <1>7
<1>9. CASE /\ balances' = balances
           /\ orders' = [orders EXCEPT ![id] = f]
  <2>1. orders'[id] = f
    BY <1>1, <1>9
  <2>2. balances["base"].locked \in Int
    BY <1>1 DEF Currencies, TokenBalance
  <2>3. balances'["base"].locked =
          balances["base"].locked + (SaleReserve(orders'[id]) - SaleReserve(orders[id]))
    BY <1>2, <1>4, <1>9, <2>1, <2>2
  <2>4. BaseAccounted'
    BY <1>1, <1>8, <2>3, ReserveMoves DEF BaseSide
  <2>5. BaseHeld'
    BY <1>4, <1>8, <1>9, <2>1 DEF BaseHeld, BaseSide
  <2> QED BY <1>9, <2>4, <2>5 DEF BaseSide, NoNakedSale
<1>10. CASE /\ CanLock(balances, CollateralCurrency(o), Collateral(o))
            /\ balances' = LockCollateral(balances, CollateralCurrency(o), Collateral(o))
            /\ orders' = [orders EXCEPT ![id] = o]
  <2>1. orders'[id] = o
    BY <1>1, <1>10
  <2>2. balances["base"].locked \in Int /\ balances["base"].total \in Int
    BY <1>1 DEF Currencies, TokenBalance
  <2>3. /\ balances'["base"].held = balances["base"].held
        /\ balances'["base"].total = balances["base"].total
        /\ balances'["base"].locked =
             balances["base"].locked + (IF CollateralCurrency(o) = "base" THEN Collateral(o) ELSE 0)
    BY <1>1, <1>6, <1>10, LockCollateralType
  <2>4. balances'["base"].locked = balances["base"].locked + SaleReserve(o)
    BY <1>5, <1>6, <2>3
  <2>5. balances'["base"].locked =
          balances["base"].locked + (SaleReserve(orders'[id]) - SaleReserve(orders[id]))
    <3>1. SaleReserve(o) \in Int
      BY <1>5, <1>6
    <3> QED BY <1>2, <2>1, <2>2, <2>4, <3>1
  <2>6. BaseAccounted'
    BY <1>1, <1>8, <2>5, ReserveMoves DEF BaseSide
  <2>7. o.side = "SELL" =>
          /\ balances["base"].held
          /\ balances["base"].total - balances["base"].locked >= Collateral(o)
    BY <1>6, <1>10 DEF CanLock, Available
  <2>8. BaseHeld'
    BY <1>8, <2>1, <2>3, <2>7 DEF BaseHeld, BaseSide
  <2>9. SaleReserve(o) \in Nat
    <3>1. 0 <= o.amount
      BY <1>3 DEF Order
    <3> QED BY <1>3, <3>1, SaleReserveType
  <2>10. NoNakedSale'
    BY <1>5, <1>6, <2>2, <2>3, <2>4, <2>7, <2>9 DEF NoNakedSale, BaseSide
  <2> QED BY <2>6, <2>8, <2>10 DEF BaseSide
<1> QED BY <1>7, <1>9, <1>10

\* Cancelling and firing give back exactly what the order reserved.
LEMMA BaseAfterWithdrawing ==
  ASSUME TypeInv, BaseSide, NEW id \in OrderIds, IsOpen(orders[id]), Withdraw(id),
         counter' = counter
  PROVE  BaseSide'
<1> DEFINE o == orders[id]
<1>1. /\ balances \in [Currencies -> TokenBalance] /\ o \in Order
      /\ o.side \in {"BUY", "SELL"} /\ IsOpen(o)
  BY DEF TypeInv, TypeOK, Order, Sides
<1>2. /\ orders' \in [OrderIds -> Order] /\ NoOverfill'
      /\ \A x \in OrderIds : x # id => orders'[x] = orders[x]
      /\ ~IsOpen(orders'[id])
      /\ balances'["base"].held = balances["base"].held
      /\ balances'["base"].total = balances["base"].total
      /\ balances'["base"].locked =
           IF CollateralCurrency(o) = "base" /\ balances["base"].held
           THEN Higher(0, balances["base"].locked - Collateral(o))
           ELSE balances["base"].locked
  BY WithdrawType
<1>3. SaleReserve(orders'[id]) = 0
  BY <1>2 DEF SaleReserve
<1>4. /\ SaleReserve(o) = (IF o.side = "SELL" THEN Collateral(o) ELSE 0)
      /\ CollateralCurrency(o) = (IF o.side = "BUY" THEN "quote" ELSE "base")
  BY <1>1 DEF SaleReserve, Collateral, CollateralCurrency
<1>5. /\ SaleReserve(o) \in Nat /\ SaleReserve(o) <= balances["base"].locked
      /\ 0 <= balances["base"].locked
  BY ReserveIsLocked DEF BaseSide
<1>6. o.side = "SELL" => balances["base"].held
  BY <1>1 DEF BaseSide, BaseHeld
<1>7. balances["base"].locked \in Int /\ balances["base"].total \in Int
  BY <1>1 DEF Currencies, TokenBalance
<1> HIDE DEF o
<1>8. balances'["base"].locked = balances["base"].locked - SaleReserve(o)
  <2>1. CASE o.side = "SELL"
    BY <1>2, <1>4, <1>5, <1>6, <1>7, <2>1 DEF Higher
  <2>2. CASE o.side = "BUY"
    BY <1>2, <1>4, <1>7, <2>2
  <2> QED BY <1>1, <2>1, <2>2
<1>9. BaseAccounted'
  BY <1>2, <1>3, <1>5, <1>7, <1>8, ReserveMoves DEF BaseSide, o
<1>10. BaseHeld'
  BY <1>2 DEF BaseHeld, BaseSide
<1>11. NoNakedSale'
  BY <1>2, <1>5, <1>7, <1>8 DEF NoNakedSale, BaseSide
<1> QED BY <1>9, <1>10, <1>11 DEF BaseSide

\* What a fill means for the calls that hold orders.
OneFilled(id, under) ==
  /\ \A x \in OrderIds : x # id => orders'[x] = orders[x]
  /\ orders'[id].type = orders[id].type
  /\ Len(stack') = Len(under) + 1
  /\ stack'[Len(under) + 1].id = id /\ stack'[Len(under) + 1].at = "filled"
  /\ \A i \in 1 .. Len(under) : stack'[i] = under[i]

\* _process_fill changes one order and puts a frame above the calls below it.
LEMMA FillChangesOne ==
  ASSUME TypeInv, NEW id \in OrderIds, id <= counter,
         NEW m \in CheckAndMatch(orders[id], book), NEW under \in Seq(Frame),
         ProcessFill(id, m, under), counter' = counter
  PROVE  OneFilled(id, under)
BY ProcessFillType DEF OneFilled

\* A fill takes off the lock what it takes off the reserve of its order.
LEMMA BaseAfterFilling ==
  ASSUME TypeInv, BaseSide, NEW id \in OrderIds, id <= counter, IsOpen(orders[id]),
         NEW m \in CheckAndMatch(orders[id], book), NEW under \in Seq(Frame),
         ProcessFill(id, m, under), counter' = counter
  PROVE  BaseSide'
<1> DEFINE o == orders[id]
           n == m.amount
<1>1. /\ balances \in [Currencies -> TokenBalance] /\ o \in Order
      /\ o.side \in {"BUY", "SELL"} /\ IsOpen(o)
  BY DEF TypeInv, TypeOK, Order, Sides
<1>2. /\ orders' \in [OrderIds -> Order] /\ NoOverfill'
      /\ \A x \in OrderIds : x # id => orders'[x] = orders[x]
      /\ SaleReserve(orders'[id]) = (IF o.side = "SELL" THEN Remaining(o) - n ELSE 0)
      /\ n \in 0 .. Remaining(o)
      /\ balances'["base"].held
      /\ balances'["base"].total =
           balances["base"].total + (IF o.side = "BUY" THEN n ELSE -n)
      /\ balances'["base"].locked =
           balances["base"].locked - (IF o.side = "BUY" THEN 0 ELSE n)
  BY ProcessFillType
<1>3. SaleReserve(o) = IF o.side = "SELL" THEN Remaining(o) ELSE 0
  BY <1>1 DEF SaleReserve
<1>4. SaleReserve(o) \in Nat /\ SaleReserve(o) <= balances["base"].locked
  BY ReserveIsLocked DEF BaseSide
<1>5. balances["base"].locked \in Int /\ balances["base"].total \in Int /\ Remaining(o) \in Int
  BY <1>1, SMTT(30) DEF Currencies, TokenBalance, Remaining, Order
<1> HIDE DEF o, n
<1>6. n \in Int /\ 0 <= n /\ n <= Remaining(o)
  BY <1>2, <1>5
<1>7. balances'["base"].locked =
        balances["base"].locked + (SaleReserve(orders'[id]) - SaleReserve(o))
  <2>1. CASE o.side = "SELL"
    BY <1>2, <1>3, <1>5, <1>6, <2>1
  <2>2. CASE o.side = "BUY"
    BY <1>2, <1>3, <1>5, <2>2
  <2> QED BY <1>1, <2>1, <2>2
<1>8. BaseAccounted'
  BY <1>2, <1>7, ReserveMoves DEF BaseSide, o
<1>9. BaseHeld'
  BY <1>2 DEF BaseHeld
<1>10. NoNakedSale'
  <2>1. CASE o.side = "SELL"
    BY <1>2, <1>3, <1>4, <1>5, <1>6, <2>1 DEF NoNakedSale, BaseSide
  <2>2. CASE o.side = "BUY"
    BY <1>2, <1>5, <1>6, <2>2 DEF NoNakedSale, BaseSide
  <2> QED BY <1>1, <2>1, <2>2
<1> QED BY <1>8, <1>9, <1>10 DEF BaseSide

-----------------------------------------------------------------------------
\* What is held stays open when the orders that change are new, stay open, or are held by nobody after the step.
LEMMA HeldMoves ==
  ASSUME TypeInv, IdsKnown, HeldOrdersAreOpen, ~StaleCancels,
         stack' \in Seq(Frame),
         NEW k \in Nat, k <= Len(stack), Len(stack') \in {k, k + 1},
         \A i \in 1 .. k : stack'[i] = stack[i],
         counter' \in Nat, counter <= counter',
         phase' = "matching" => phase = "matching" /\ todo' \subseteq todo,
         NEW S \in SUBSET OrderIds,
         \A x \in OrderIds \ S : orders'[x] = orders[x],
         \A x \in S :
           /\ phase' = "matching" => x \notin todo'
           /\ orders'[x].type = orders[x].type \/ x > counter
           /\ \A i \in 1 .. k : WaitsToMatch(i) => stack[i].id # x,
         Len(stack') = k + 1 =>
           /\ stack'[k + 1].id <= counter'
           /\ stack'[k + 1].at = "created" =>
                stack'[k + 1].id > counter /\ IsOpen(orders'[stack'[k + 1].id])
  PROVE  IdsKnown' /\ HeldOrdersAreOpen'
<1>a. /\ Len(stack) \in Nat /\ DOMAIN stack = 1 .. Len(stack)
      /\ Len(stack') \in Nat /\ DOMAIN stack' = 1 .. Len(stack')
  BY DEF TypeInv, TypeOK
<1>b. /\ todo \subseteq 1 .. counter /\ counter \in 0 .. MaxOrders /\ MaxOrders \in Nat
      /\ OrderIds = 1 .. MaxOrders
  BY ExchangeAssumption DEF TypeInv, TypeOK, OrderIds
<1>c. todo \subseteq OrderIds /\ OrderIds \subseteq Int /\ counter \in Int
  BY <1>b
<1>d. \A i \in DOMAIN stack : stack[i].id \in OrderIds
  <2>1. \A i \in DOMAIN stack : stack[i] \in Frame
    BY <1>a, ElementOfSeq, Zenon DEF TypeInv, TypeOK
  <2> QED BY <2>1 DEF Frame
<1>e. \A i \in DOMAIN stack' : stack'[i].id \in OrderIds
  <2>1. \A i \in DOMAIN stack' : stack'[i] \in Frame
    BY <1>a, ElementOfSeq, Zenon
  <2> QED BY <2>1 DEF Frame
<1>1. /\ \A i \in DOMAIN stack : stack[i].id \in OrderIds /\ stack[i].id \in Int
      /\ \A i \in DOMAIN stack' : stack'[i].id \in OrderIds /\ stack'[i].id \in Int
      /\ counter \in Int /\ counter' \in Int /\ todo \subseteq OrderIds
      /\ \A x \in Int : x > counter => x \notin todo
  BY <1>b, <1>c, <1>d, <1>e
<1>2. \A i \in 1 .. k : i \in DOMAIN stack /\ i \in DOMAIN stack'
  <2> DEFINE n == Len(stack)
             q == Len(stack')
  <2>1. n \in Nat /\ q \in Nat /\ k <= n /\ q \in {k, k + 1}
    BY <1>a, Zenon
  <2> HIDE DEF n, q
  <2>2. \A i \in 1 .. k : i \in 1 .. n /\ i \in 1 .. q
    BY <2>1
  <2> QED BY <1>a, <2>2, Zenon DEF n, q
<1>3. \A i \in DOMAIN stack' : i \in 1 .. k \/ (i = k + 1 /\ Len(stack') = k + 1)
  <2> DEFINE q == Len(stack')
  <2>1. q \in Nat /\ q \in {k, k + 1}
    BY <1>a, Zenon
  <2> HIDE DEF q
  <2>2. \A i \in 1 .. q : i \in 1 .. k \/ (i = k + 1 /\ q = k + 1)
    BY <2>1
  <2> QED BY <1>a, <2>2, Zenon DEF q
<1>4. \A i \in 1 .. k : stack[i].id <= counter /\ stack'[i] = stack[i]
  BY <1>2 DEF IdsKnown
<1>5. IdsKnown'
  <2> SUFFICES ASSUME NEW i \in DOMAIN stack' PROVE stack'[i].id <= counter'
    BY DEF IdsKnown
  <2>1. CASE i \in 1 .. k
    <3>1. stack'[i].id <= counter /\ stack'[i].id \in Int
      BY <1>1, <1>2, <1>4, <2>1
    <3> QED BY <1>1, <3>1
  <2> QED BY <1>3, <2>1
<1> DEFINE W(i) == stack'[i].at = "created" /\ orders'[stack'[i].id].type = "MARKET"
<1>6. \A i \in 1 .. k : W(i) => WaitsToMatch(i) /\ stack[i].id \notin S
  <2> SUFFICES ASSUME NEW i \in 1 .. k, W(i)
               PROVE  WaitsToMatch(i) /\ stack[i].id \notin S
    OBVIOUS
  <2>1. stack'[i] = stack[i] /\ stack[i].id \in OrderIds /\ stack[i].id <= counter
    BY <1>1, <1>2, <1>4
  <2>2. ~(stack[i].id > counter)
    BY <1>1, <1>2, <2>1
  <2>3. orders'[stack[i].id].type = orders[stack[i].id].type
    BY <2>1, <2>2
  <2>4. WaitsToMatch(i)
    BY <2>1, <2>3 DEF WaitsToMatch
  <2> QED BY <2>4
<1>7. \A i \in 1 .. k : W(i) =>
        /\ IsOpen(orders'[stack'[i].id])
        /\ phase' = "matching" => stack'[i].id \notin todo'
  <2> SUFFICES ASSUME NEW i \in 1 .. k, W(i)
               PROVE  /\ IsOpen(orders'[stack'[i].id])
                      /\ phase' = "matching" => stack'[i].id \notin todo'
    OBVIOUS
  <2>1. WaitsToMatch(i) /\ stack[i].id \notin S /\ stack'[i] = stack[i] /\ i \in DOMAIN stack
        /\ stack[i].id \in OrderIds
    BY <1>1, <1>2, <1>6
  <2>2. IsOpen(orders[stack[i].id]) /\ (phase = "matching" => stack[i].id \notin todo)
    BY <2>1 DEF HeldOrdersAreOpen
  <2> QED BY <2>1, <2>2
<1>8. \A i, j \in 1 .. k : W(i) /\ W(j) /\ stack'[j].id = stack'[i].id => j = i
  <2> SUFFICES ASSUME NEW i \in 1 .. k, NEW j \in 1 .. k,
                      W(i), W(j), stack'[j].id = stack'[i].id
               PROVE  j = i
    OBVIOUS
  <2>1. WaitsToMatch(i) /\ WaitsToMatch(j) /\ i \in DOMAIN stack /\ j \in DOMAIN stack
        /\ stack[j].id = stack[i].id
    BY <1>2, <1>4, <1>6
  <2> QED BY <2>1 DEF HeldOrdersAreOpen
<1>9. ASSUME Len(stack') = k + 1, W(k + 1)
      PROVE  /\ IsOpen(orders'[stack'[k + 1].id])
             /\ phase' = "matching" => stack'[k + 1].id \notin todo'
             /\ \A i \in 1 .. k : stack'[i].id # stack'[k + 1].id
  <2>1. stack'[k + 1].id > counter /\ IsOpen(orders'[stack'[k + 1].id])
    BY <1>9
  <2>3. k + 1 \in DOMAIN stack'
    <3>1. k + 1 \in 1 .. Len(stack')
      BY <1>9
    <3> QED BY <1>a, <3>1
  <2>2. phase' = "matching" => stack'[k + 1].id \notin todo'
    BY <1>1, <2>1, <2>3
  <2>4. \A i \in 1 .. k : stack'[i].id # stack'[k + 1].id
    <3> SUFFICES ASSUME NEW i \in 1 .. k PROVE stack'[i].id # stack'[k + 1].id
      OBVIOUS
    <3>1. stack'[i].id \in Int /\ stack'[i].id <= counter
      BY <1>1, <1>2, <1>4
    <3> QED BY <1>1, <2>1, <2>3, <3>1
  <2> QED BY <2>1, <2>2, <2>4
<1>10. phase' = "matching" => \A x \in todo' : IsOpen(orders'[x])
  <2> SUFFICES ASSUME phase' = "matching", NEW x \in todo' PROVE IsOpen(orders'[x])
    OBVIOUS
  <2>1. x \in todo /\ x \notin S /\ x \in OrderIds /\ phase = "matching"
    BY <1>1
  <2> QED BY <2>1 DEF HeldOrdersAreOpen
<1>11. \A i \in DOMAIN stack' : W(i) =>
         /\ IsOpen(orders'[stack'[i].id])
         /\ phase' = "matching" => stack'[i].id \notin todo'
         /\ \A j \in DOMAIN stack' : W(j) /\ stack'[j].id = stack'[i].id => j = i
  <2> HIDE DEF W
  <2> QED BY <1>3, <1>7, <1>8, <1>9
<1>12. \A i : WaitsToMatch(i)' <=> W(i)
  BY DEF WaitsToMatch
<1> HIDE DEF W
<1> QED BY <1>5, <1>10, <1>11, <1>12 DEF HeldOrdersAreOpen

\* A step that changes neither orders nor balances keeps the base side.
LEMMA BaseKept ==
  ASSUME BaseSide, UNCHANGED <<orders, balances>>
  PROVE  BaseSide'
BY DEF BaseSide, BaseHeld, BaseAccounted, NoNakedSale, BaseReserved

\* A step that changes no order and leaves the suspended calls as they are.
LEMMA HeldKept ==
  ASSUME BaseInv, ~StaleCancels, UNCHANGED <<orders, balances, counter, stack>>,
         phase' = "matching" => phase = "matching" /\ todo' \subseteq todo
  PROVE  IdsKnown' /\ HeldOrdersAreOpen' /\ BaseSide'
<1>1. BaseSide'
  BY BaseKept DEF BaseInv
<1>2. IdsKnown'
  BY DEF BaseInv, IdsKnown
<1>3. \A i : WaitsToMatch(i)' <=> WaitsToMatch(i)
  BY DEF WaitsToMatch
<1>4. HeldOrdersAreOpen'
  BY <1>3 DEF BaseInv, HeldOrdersAreOpen
<1> QED BY <1>1, <1>2, <1>4

\* A step that changes no order: a call returns, or announces a completion.
LEMMA HeldReturns ==
  ASSUME BaseInv, ~StaleCancels, stack # << >>, UNCHANGED <<orders, balances, counter, phase, todo>>,
         stack' = Below \/ Dispatch("completed", Top.id, Below, Top.level, Top.amount)
  PROVE  IdsKnown' /\ HeldOrdersAreOpen' /\ BaseSide'
<1>1. BaseSide'
  BY BaseKept DEF BaseInv
<1> DEFINE k == Len(Below)
<1>2. /\ Below \in Seq(Frame) /\ Top \in Frame /\ Len(stack) \in Nat \ {0} /\ k = Len(stack) - 1
      /\ \A i \in 1 .. k : Below[i] = stack[i]
  BY StackShape DEF BaseInv, TypeInv, TypeOK
<1>3. counter \in Nat /\ k \in Nat /\ k <= Len(stack)
  BY <1>2 DEF BaseInv, TypeInv, TypeOK
<1>4. Top.id <= counter
  <2>1. DOMAIN stack = 1 .. Len(stack)
    BY DEF BaseInv, TypeInv, TypeOK
  <2>2. Len(stack) \in DOMAIN stack
    BY <1>2, <2>1
  <2> QED BY <2>2 DEF BaseInv, IdsKnown, Top
<1>5. CASE stack' = Below
  <2>1. stack' \in Seq(Frame) /\ Len(stack') = k /\ \A i \in 1 .. k : stack'[i] = stack[i]
    BY <1>2, <1>5
  <2>2. Len(stack') \in {k, k + 1} /\ ~(Len(stack') = k + 1)
    BY <1>3, <2>1
  <2> HIDE DEF k
  <2>3. {} \in SUBSET OrderIds /\ \A x \in OrderIds \ {} : orders'[x] = orders[x]
    OBVIOUS
  <2>4. counter' \in Nat /\ counter <= counter' /\ todo' \subseteq todo
    BY <1>3
  <2> QED BY <1>1, <1>3, <2>1, <2>2, <2>3, <2>4, HeldMoves DEF BaseInv
<1>6. CASE Dispatch("completed", Top.id, Below, Top.level, Top.amount)
  <2>1. /\ Top.id \in OrderIds /\ Top.level \in Int /\ Top.amount \in Int
        /\ "completed" \in EventPoints
        /\ lastEvent \in [OrderIds -> EventPoints \cup {"none"}]
    BY <1>2 DEF Frame, EventPoints, BaseInv, TypeInv, TypeOK
  <2>2. /\ stack' \in Seq(Frame) /\ Len(stack') = k + 1
        /\ stack'[k + 1] = CallFrame("completed", Top.id, Top.level, Top.amount)
        /\ \A i \in 1 .. k : stack'[i] = Below[i]
    BY <1>2, <1>6, <2>1, DispatchType
  <2>3. stack'[k + 1].id = Top.id /\ stack'[k + 1].at # "created"
    BY <2>2 DEF CallFrame
  <2> HIDE DEF k
  <2>4. \A i \in 1 .. k : stack'[i] = stack[i]
    BY <1>2, <2>2
  <2>5. {} \in SUBSET OrderIds /\ \A x \in OrderIds \ {} : orders'[x] = orders[x]
    OBVIOUS
  <2>6. counter' \in Nat /\ counter <= counter' /\ todo' \subseteq todo
        /\ stack'[k + 1].id <= counter'
    BY <1>3, <1>4, <2>3
  <2> QED BY <1>1, <1>3, <2>2, <2>3, <2>4, <2>5, <2>6, HeldMoves DEF BaseInv
<1> QED BY <1>5, <1>6

\* A call of _place_order, whatever calls it is made above.
LEMMA HeldAfterPlacing ==
  ASSUME BaseInv, ~StaleCancels, NEW r \in Request, NEW under \in Seq(Frame),
         Len(under) <= Len(stack), \A i \in 1 .. Len(under) : under[i] = stack[i],
         PlaceOrder(r, under), UNCHANGED <<phase, todo>>
  PROVE  IdsKnown' /\ HeldOrdersAreOpen' /\ BaseSide'
<1> DEFINE k == Len(under)
           id == counter + 1
<1>1. BaseSide'
  BY BaseAfterPlacing DEF BaseInv
<1>2. /\ counter' = id /\ id \in OrderIds
      /\ orders' \in [OrderIds -> Order]
      /\ stack' \in Seq(Frame) /\ Len(stack') = k + 1
      /\ stack'[k + 1].id = id
      /\ stack'[k + 1].at = "created" => IsOpen(orders'[id])
      /\ \A i \in 1 .. k : stack'[i] = under[i]
      /\ \E o \in {Placed(r), NewOrder(Quantized(r), "FAILED")} : orders' = [orders EXCEPT ![id] = o]
  BY PlaceOrderType DEF BaseInv
<1>3. /\ k \in Nat /\ k <= Len(stack) /\ counter \in 0 .. MaxOrders
      /\ todo \subseteq 1 .. counter /\ orders \in [OrderIds -> Order]
  BY DEF BaseInv, TypeInv, TypeOK
<1>4. \A x \in OrderIds \ {id} : orders'[x] = orders[x]
  BY <1>2, <1>3
<1>5. \A i \in 1 .. k : stack'[i] = stack[i]
  BY <1>2
<1>6. \A i \in 1 .. k : stack[i].id # id
  <2>1. /\ stack \in Seq(Frame) /\ Len(stack) \in Nat /\ DOMAIN stack = 1 .. Len(stack)
        /\ OrderIds \subseteq Int
    BY DEF BaseInv, TypeInv, TypeOK, OrderIds
  <2> SUFFICES ASSUME NEW i \in 1 .. k PROVE stack[i].id # id
    OBVIOUS
  <2>2. i \in 1 .. Len(stack)
    BY <1>3, <2>1
  <2>3. stack[i].id \in Int
    <3>1. stack[i] \in Frame
      BY <2>1, <2>2, ElementOfSeq
    <3> QED BY <2>1, <3>1 DEF Frame
  <2>4. stack[i].id <= counter
    BY <2>1, <2>2 DEF BaseInv, IdsKnown
  <2> QED BY <1>3, <2>3, <2>4
<1>7. id > counter /\ id \notin todo' /\ id \in Nat /\ counter <= id
  BY <1>3
<1> HIDE DEF k, id
<1>8. {id} \in SUBSET OrderIds /\ Len(stack') \in {k, k + 1}
      /\ counter' \in Nat /\ counter <= counter' /\ todo' \subseteq todo
      /\ stack'[k + 1].id <= counter' /\ stack'[k + 1].id > counter
  BY <1>2, <1>7
<1>9. \A x \in {id} :
        /\ phase' = "matching" => x \notin todo'
        /\ orders'[x].type = orders[x].type \/ x > counter
        /\ \A i \in 1 .. k : WaitsToMatch(i) => stack[i].id # x
  BY <1>6, <1>7
<1>10. Len(stack') = k + 1 =>
         /\ stack'[k + 1].id <= counter'
         /\ stack'[k + 1].at = "created" =>
              stack'[k + 1].id > counter /\ IsOpen(orders'[stack'[k + 1].id])
  BY <1>2, <1>8
<1>11. k \in Nat /\ k <= Len(stack) /\ (phase' = "matching" => phase = "matching")
  BY <1>3
<1>12. TypeInv /\ IdsKnown /\ HeldOrdersAreOpen /\ stack' \in Seq(Frame)
  BY <1>2 DEF BaseInv
<1>13. IdsKnown' /\ HeldOrdersAreOpen'
  BY <1>4, <1>5, <1>8, <1>9, <1>10, <1>11, <1>12, HeldMoves
<1> QED BY <1>1, <1>13

\* An order nobody else holds is withdrawn or filled, and announced.
LEMMA HeldAfterChange ==
  ASSUME BaseInv, ~StaleCancels, NEW id \in OrderIds, NEW under \in Seq(Frame),
         Len(under) <= Len(stack), \A i \in 1 .. Len(under) : under[i] = stack[i],
         \A x \in OrderIds : x # id => orders'[x] = orders[x],
         orders'[id].type = orders[id].type,
         id <= counter, counter' = counter,
         phase' = "matching" => phase = "matching" /\ todo' \subseteq todo /\ id \notin todo',
         \A i \in 1 .. Len(under) : WaitsToMatch(i) => stack[i].id # id,
         stack' \in Seq(Frame), Len(stack') = Len(under) + 1,
         \A i \in 1 .. Len(under) : stack'[i] = under[i],
         stack'[Len(under) + 1].id = id, stack'[Len(under) + 1].at # "created"
  PROVE  IdsKnown' /\ HeldOrdersAreOpen'
<1> DEFINE k == Len(under)
<1>1. /\ k \in Nat /\ k <= Len(stack) /\ counter \in Nat
      /\ \A i \in 1 .. k : stack'[i] = stack[i]
  BY DEF BaseInv, TypeInv, TypeOK
<1>2. Len(stack') \in {k, k + 1}
  OBVIOUS
<1>3. /\ stack'[k + 1].id <= counter' /\ stack'[k + 1].at # "created"
      /\ counter' \in Nat /\ counter <= counter'
  BY <1>1
<1>4. \A x \in {id} :
        /\ phase' = "matching" => x \notin todo'
        /\ orders'[x].type = orders[x].type \/ x > counter
        /\ \A i \in 1 .. k : WaitsToMatch(i) => stack[i].id # x
  OBVIOUS
<1>5. {id} \in SUBSET OrderIds /\ \A x \in OrderIds \ {id} : orders'[x] = orders[x]
  OBVIOUS
<1> HIDE DEF k
<1> QED BY <1>1, <1>2, <1>3, <1>4, <1>5, HeldMoves DEF BaseInv

-----------------------------------------------------------------------------
\* The base invariant holds at the start.
LEMMA BaseInit == Init => BaseInv
<1> SUFFICES ASSUME Init PROVE BaseInv
  OBVIOUS
<1>1. TypeInv
  BY TypeInit
<1>2. /\ \A id \in OrderIds : orders[id] = NoOrder
      /\ stack = << >> /\ phase = "idle" /\ balances = InitialBalances
  BY DEF Init
<1>3. SaleReserve(NoOrder) = 0 /\ ~IsOpen(NoOrder)
  BY DEF SaleReserve, NoOrder, IsOpen
<1>4. IdsKnown /\ HeldOrdersAreOpen /\ BaseHeld
  BY <1>2, <1>3 DEF IdsKnown, HeldOrdersAreOpen, BaseHeld
<1>5. /\ balances["base"].locked = 0 /\ balances["base"].total \in Int
      /\ balances["base"].total >= 0
  BY <1>2, ExchangeAssumption DEF Currencies, TokenBalance
<1>6. \A id \in 1 .. MaxOrders : BaseReserved[id] = 0
  BY <1>2, <1>3 DEF BaseReserved, OrderIds
<1>7. MaxOrders \in Nat
  BY ExchangeAssumption
<1>8. Total(BaseReserved, MaxOrders) = 0
  BY <1>6, <1>7, TotalZero
<1>9. BaseAccounted /\ NoNakedSale
  BY <1>5, <1>8 DEF BaseAccounted, NoNakedSale
<1> QED BY <1>1, <1>4, <1>9 DEF BaseInv, BaseSide

\* Every action of the exchange keeps the base invariant.
LEMMA BaseStep == BaseInv /\ ~StaleCancels /\ [Next]_vars => BaseInv'
<1> SUFFICES ASSUME BaseInv, ~StaleCancels, [Next]_vars PROVE BaseInv'
  OBVIOUS
<1>a. TypeInv /\ TypeInv' /\ BaseSide
  BY TypeStep DEF BaseInv
<1>b. SUFFICES IdsKnown' /\ HeldOrdersAreOpen' /\ BaseSide'
  BY <1>a DEF BaseInv
<1>c. /\ stack \in Seq(Frame) /\ Len(stack) \in Nat /\ DOMAIN stack = 1 .. Len(stack)
      /\ stack' \in Seq(Frame)
      /\ orders \in [OrderIds -> Order] /\ counter \in 0 .. MaxOrders
      /\ todo \subseteq 1 .. counter /\ Requests \subseteq Request
      /\ OrderIds = 1 .. MaxOrders /\ ~IsOpen(NoOrder)
      /\ lastEvent \in [OrderIds -> EventPoints \cup {"none"}]
      /\ "cancelled" \in EventPoints /\ "triggered" \in EventPoints
      /\ NoPrice \in Int /\ 0 \in Int
  BY <1>a, ExchangeAssumption
  DEF TypeInv, TypeOK, OrderIds, IsOpen, NoOrder, EventPoints, NoPrice
<1>d. \A id \in OrderIds : IsOpen(orders[id]) => id <= counter
  BY <1>a, <1>c DEF TypeInv, FreshIds
<1>1. ASSUME NEW r \in Requests, Place(r) PROVE IdsKnown' /\ HeldOrdersAreOpen' /\ BaseSide'
  <2>1. r \in Request /\ PlaceOrder(r, stack) /\ UNCHANGED <<phase, todo>>
    BY <1>1, <1>c DEF Place
  <2>2. Len(stack) <= Len(stack) /\ \A i \in 1 .. Len(stack) : stack[i] = stack[i]
    BY <1>c
  <2> QED BY <1>c, <2>1, <2>2, HeldAfterPlacing
<1>2. ASSUME NEW id \in OrderIds, Cancel(id) PROVE IdsKnown' /\ HeldOrdersAreOpen' /\ BaseSide'
  <2>1. /\ IsOpen(orders[id]) /\ Withdraw(id) /\ counter' = counter
        /\ Dispatch("cancelled", id, stack, NoPrice, 0)
        /\ UNCHANGED <<phase, todo>> /\ id \notin Held
    BY <1>2 DEF Cancel
  <2>2. BaseSide'
    BY <1>a, <2>1, BaseAfterWithdrawing
  <2>3. /\ \A x \in OrderIds : x # id => orders'[x] = orders[x]
        /\ orders'[id].type = orders[id].type
    BY <1>a, <2>1, WithdrawType
  <2>4. id \notin todo /\ \A i \in 1 .. Len(stack) : WaitsToMatch(i) => stack[i].id # id
    BY <1>c, <2>1 DEF Held
  <2>5. /\ Len(stack') = Len(stack) + 1
        /\ stack'[Len(stack) + 1] = CallFrame("cancelled", id, NoPrice, 0)
        /\ \A i \in 1 .. Len(stack) : stack'[i] = stack[i]
    BY <1>c, <2>1, DispatchType
  <2>6. stack'[Len(stack) + 1].id = id /\ stack'[Len(stack) + 1].at # "created"
    BY <2>5 DEF CallFrame
  <2>7. Len(stack) <= Len(stack) /\ \A i \in 1 .. Len(stack) : stack[i] = stack[i]
    BY <1>c
  <2>8. IdsKnown' /\ HeldOrdersAreOpen'
    BY <1>c, <1>d, <2>1, <2>3, <2>4, <2>5, <2>6, <2>7, HeldAfterChange
  <2> QED BY <2>2, <2>8
<1>3. CASE MarketData
  BY <1>3, HeldKept DEF MarketData
<1>4. CASE ProcessTick
  <2>1. UNCHANGED <<orders, balances, counter, stack>> /\ phase' # "matching"
    BY <1>4 DEF ProcessTick
  <2> QED BY <2>1, HeldKept
<1>5. CASE EvaluateOrder
  <2>1. UNCHANGED <<orders, balances, counter, stack, phase>> /\ todo' \subseteq todo
    BY <1>5 DEF EvaluateOrder
  <2> QED BY <2>1, HeldKept
<1>6. CASE FireConditionalOrder
  <2> DEFINE id == Upcoming
  <2>1. /\ IsOpen(orders[id]) /\ Withdraw(id) /\ todo # {} /\ stack = << >>
        /\ Dispatch("triggered", id, stack, NoPrice, 0)
        /\ phase' # "matching" /\ counter' = counter
    BY <1>6 DEF FireConditionalOrder, LoopIn
  <2>2. id \in OrderIds
    BY <1>a, <2>1, UpcomingType
  <2> HIDE DEF id
  <2>3. BaseSide'
    BY <1>a, <2>1, <2>2, BaseAfterWithdrawing
  <2>4. /\ \A x \in OrderIds : x # id => orders'[x] = orders[x]
        /\ orders'[id].type = orders[id].type
    BY <1>a, <2>1, <2>2, WithdrawType
  <2>5. /\ Len(stack') = Len(stack) + 1
        /\ stack'[Len(stack) + 1] = CallFrame("triggered", id, NoPrice, 0)
        /\ \A i \in 1 .. Len(stack) : stack'[i] = stack[i]
    BY <1>c, <2>1, <2>2, DispatchType
  <2>6. stack'[Len(stack) + 1].id = id /\ stack'[Len(stack) + 1].at # "created"
    BY <2>5 DEF CallFrame
  <2>7. /\ Len(stack) <= Len(stack) /\ \A i \in 1 .. Len(stack) : stack[i] = stack[i]
        /\ \A i \in 1 .. Len(stack) : WaitsToMatch(i) => stack[i].id # id
    BY <1>c, <2>1
  <2>8. IdsKnown' /\ HeldOrdersAreOpen'
    BY <1>c, <1>d, <2>1, <2>2, <2>4, <2>5, <2>6, <2>7, HeldAfterChange
  <2> QED BY <2>3, <2>8
<1>7. CASE StartMatching
  <2>1. /\ UNCHANGED <<orders, balances, counter, stack>> /\ stack = << >>
        /\ todo' = OpenPlain
    BY <1>7 DEF StartMatching
  <2>2. IdsKnown'
    BY <2>1 DEF IdsKnown, BaseInv
  <2>3. HeldOrdersAreOpen'
    BY <2>1 DEF HeldOrdersAreOpen, OpenPlain
  <2>4. BaseSide'
    BY <1>a, <2>1, BaseKept
  <2> QED BY <2>2, <2>3, <2>4
<1>8. CASE LeaveOrder
  <2>1. UNCHANGED <<orders, balances, counter, stack, phase>> /\ todo' \subseteq todo
    BY <1>8 DEF LeaveOrder
  <2> QED BY <2>1, HeldKept
<1>9. CASE MatchOrder
  <2> DEFINE id == Upcoming
  <2>1. /\ todo # {} /\ todo' = todo \ {id} /\ phase = "matching" /\ stack = << >>
        /\ counter' = counter /\ phase' = phase
    BY <1>9 DEF MatchOrder, LoopIn
  <2>2. PICK m \in CheckAndMatch(orders[id], book) : ProcessFill(id, m, stack)
    BY <1>9 DEF MatchOrder
  <2>3. id \in OrderIds /\ id <= counter /\ id \in todo
    BY <1>a, <2>1, UpcomingType
  <2>4. IsOpen(orders[id])
    BY <2>1, <2>3 DEF HeldOrdersAreOpen, BaseInv
  <2> HIDE DEF id
  <2>5. BaseSide'
    BY <1>a, <1>c, <2>1, <2>2, <2>3, <2>4, BaseAfterFilling
  <2>6. /\ \A x \in OrderIds : x # id => orders'[x] = orders[x]
        /\ orders'[id].type = orders[id].type
        /\ Len(stack') = Len(stack) + 1
        /\ stack'[Len(stack) + 1].id = id /\ stack'[Len(stack) + 1].at = "filled"
        /\ \A i \in 1 .. Len(stack) : stack'[i] = stack[i]
    <3>1. OneFilled(id, stack)
      BY <1>a, <1>c, <2>1, <2>2, <2>3, FillChangesOne
    <3> QED BY <3>1 DEF OneFilled
  <2>7. /\ Len(stack) <= Len(stack) /\ \A i \in 1 .. Len(stack) : stack[i] = stack[i]
        /\ \A i \in 1 .. Len(stack) : WaitsToMatch(i) => stack[i].id # id
    BY <1>c, <2>1
  <2>8. todo' \subseteq todo /\ id \notin todo'
    BY <2>1
  <2>9. IdsKnown' /\ HeldOrdersAreOpen'
    BY <1>c, <2>1, <2>3, <2>6, <2>7, <2>8, HeldAfterChange, ZenonT(30)
  <2> QED BY <2>5, <2>9
<1>10. CASE EndTick
  <2>1. UNCHANGED <<orders, balances, counter, stack>> /\ phase' # "matching"
    BY <1>10 DEF EndTick
  <2> QED BY <2>1, HeldKept
<1>11. CASE AfterNotice
  BY <1>11, HeldReturns DEF AfterNotice, Resumes
<1>12. CASE AfterCreatedMatch
  <2> DEFINE id == Top.id
             n == Len(stack)
  <2>1. /\ stack # << >> /\ Top.at = "created" /\ orders[id].type = "MARKET"
        /\ UNCHANGED <<counter, phase, todo>>
    BY <1>12 DEF AfterCreatedMatch, Resumes
  <2>2. PICK m \in CheckAndMatch(orders[id], book) : ProcessFill(id, m, Below)
    BY <1>12 DEF AfterCreatedMatch
  <2>3. /\ Top \in Frame /\ Below \in Seq(Frame) /\ n \in Nat \ {0} /\ Len(Below) = n - 1
        /\ \A i \in 1 .. Len(Below) : i \in 1 .. n /\ Below[i] = stack[i]
    BY <1>c, <2>1, StackShape, Zenon
  <2>4. id \in OrderIds
    BY <2>3 DEF Frame
  <2>5. n \in DOMAIN stack /\ WaitsToMatch(n) /\ stack[n].id = id
    BY <1>c, <2>1, <2>3 DEF WaitsToMatch, Top
  <2>6. /\ IsOpen(orders[id])
        /\ phase = "matching" => id \notin todo
        /\ \A j \in DOMAIN stack : WaitsToMatch(j) /\ stack[j].id = id => j = n
    BY <2>5 DEF HeldOrdersAreOpen, BaseInv
  <2>7. id <= counter
    BY <1>d, <2>4, <2>6
  <2> HIDE DEF id, n
  <2>8. BaseSide'
    BY <1>a, <2>1, <2>2, <2>3, <2>4, <2>6, <2>7, BaseAfterFilling
  <2>9. /\ \A x \in OrderIds : x # id => orders'[x] = orders[x]
        /\ orders'[id].type = orders[id].type
        /\ Len(stack') = Len(Below) + 1
        /\ stack'[Len(Below) + 1].id = id /\ stack'[Len(Below) + 1].at = "filled"
        /\ \A i \in 1 .. Len(Below) : stack'[i] = Below[i]
    <3>1. OneFilled(id, Below)
      BY <1>a, <2>1, <2>2, <2>3, <2>4, <2>7, FillChangesOne
    <3> QED BY <3>1 DEF OneFilled
  <2>10. \A i \in 1 .. Len(Below) : WaitsToMatch(i) => stack[i].id # id
    <3> SUFFICES ASSUME NEW i \in 1 .. Len(Below), WaitsToMatch(i), stack[i].id = id
                 PROVE  FALSE
      OBVIOUS
    <3>1. i \in DOMAIN stack
      BY <1>c, <2>3 DEF n
    <3>2. i # n
      BY <2>3
    <3> QED BY <2>6, <3>1, <3>2
  <2>11. Len(Below) <= Len(stack) /\ \A i \in 1 .. Len(Below) : Below[i] = stack[i]
    <3>1. Len(Below) = Len(stack) - 1
      BY <2>3 DEF n
    <3>2. Len(Below) <= Len(stack)
      BY <1>c, <3>1
    <3> QED BY <2>3, <3>2
  <2>12. phase' = "matching" => phase = "matching" /\ todo' \subseteq todo /\ id \notin todo'
    BY <2>1, <2>6
  <2>13. IdsKnown' /\ HeldOrdersAreOpen'
    BY <1>c, <2>1, <2>3, <2>4, <2>7, <2>9, <2>10, <2>11, <2>12, HeldAfterChange
  <2> QED BY <2>8, <2>13
<1>13. CASE AfterCreatedRest
  BY <1>13, HeldReturns DEF AfterCreatedRest, Resumes
<1>14. CASE AfterTriggered
  <2>1. /\ stack # << >> /\ PlaceOrder(MarketRequest(orders[Top.id]), Below)
        /\ UNCHANGED <<phase, todo>>
    BY <1>14 DEF AfterTriggered, Resumes
  <2>2. /\ Top \in Frame /\ Below \in Seq(Frame) /\ Len(Below) = Len(stack) - 1
        /\ \A i \in 1 .. Len(Below) : Below[i] = stack[i]
    BY <1>c, <2>1, StackShape, Zenon
  <2>3. MarketRequest(orders[Top.id]) \in Request
    <3>1. Top.id \in OrderIds
      BY <2>2 DEF Frame
    <3> QED BY <1>c, <3>1, MarketRequestType
  <2>4. Len(Below) <= Len(stack)
    BY <1>c, <2>2
  <2> QED BY <2>1, <2>2, <2>3, <2>4, HeldAfterPlacing
<1>15. CASE AfterFilledComplete
  BY <1>15, HeldReturns DEF AfterFilledComplete, Resumes
<1>16. CASE ConsumeLiquidity
  BY <1>16, HeldReturns DEF ConsumeLiquidity, Resumes
<1>17. CASE UNCHANGED vars
  BY <1>17, HeldKept DEF vars
<1> QED
  BY <1>1, <1>2, <1>3, <1>4, <1>5, <1>6, <1>7, <1>8, <1>9, <1>10, <1>11, <1>12,
     <1>13, <1>14, <1>15, <1>16, <1>17 DEF Next, Loop, Resume

-----------------------------------------------------------------------------
\* Listeners that cancel no held order never make process_tick, or a market
\* order's own call, match an order that is not open any more, and no order is
\* matched by two of them (exchange.py:394, exchange.py:492).
THEOREM HeldOrdersStayOpen == Spec => []HeldOrdersAreOpen
<1>1. CASE ~StaleCancels
  <2>1. BaseInv => HeldOrdersAreOpen
    BY DEF BaseInv
  <2>2. BaseInv /\ [Next]_vars => BaseInv'
    BY <1>1, BaseStep
  <2> QED BY <2>1, <2>2, BaseInit, PTL DEF Spec
<1>2. CASE StaleCancels
  <2>1. HeldOrdersAreOpen
    BY <1>2 DEF HeldOrdersAreOpen
  <2> QED BY <2>1, PTL
<1> QED BY <1>1, <1>2

\* With listeners that cancel no held order, the locked base is always what the
\* open sales reserve, for every engine, fee, book and set of requests
\* (balance_manager.py:25).
THEOREM BaseIsAccounted == ~StaleCancels => (Spec => []BaseAccounted)
<1>1. ASSUME ~StaleCancels PROVE Spec => []BaseAccounted
  <2>1. BaseInv => BaseAccounted
    BY DEF BaseInv, BaseSide
  <2>2. BaseInv /\ [Next]_vars => BaseInv'
    BY <1>1, BaseStep
  <2> QED BY <2>1, <2>2, BaseInit, PTL DEF Spec
<1> QED BY <1>1

\* With the same listeners the account never has more base locked for its sales
\* than it owns, so no fill sells what is not there (balance_manager.py:62).
THEOREM SalesAreCovered == ~StaleCancels => (Spec => []NoNakedSale)
<1>1. ASSUME ~StaleCancels PROVE Spec => []NoNakedSale
  <2>1. BaseInv => NoNakedSale
    BY DEF BaseInv, BaseSide
  <2>2. BaseInv /\ [Next]_vars => BaseInv'
    BY <1>1, BaseStep
  <2> QED BY <2>1, <2>2, BaseInit, PTL DEF Spec
<1> QED BY <1>1
-----------------------------------------------------------------------------
(* The work a tick still has to do, whatever listeners do. *)

OpenIn(list) == Total([id \in OrderIds |-> IF IsOpen(list[id]) THEN 1 ELSE 0], MaxOrders)

WorkOf(calls) == Total([i \in DOMAIN calls |-> FrameWork[calls[i].at]], Len(calls))

\* A sum of one more term.
LEMMA TotalOneMore ==
  ASSUME NEW n \in Nat, NEW f, NEW g,
         \A i \in 1 .. n : f[i] \in Int /\ g[i] = f[i], g[n + 1] \in Int
  PROVE  Total(g, n + 1) = Total(f, n) + g[n + 1]
<1>1. \A i \in 1 .. n + 1 : g[i] \in Int
  OBVIOUS
<1>2. PICK s : HasPrefixes(s, g, n + 1)
  BY <1>1, TotalPrefixes
<1>3. Total(g, n + 1) = Total(g, n) + g[n + 1]
  BY <1>2 DEF HasPrefixes
<1> DEFINE h == [i \in 1 .. n |-> f[i] - g[i]]
<1>4. \A i \in 1 .. n : f[i] \in Int /\ g[i] \in Int /\ h[i] = f[i] - g[i] /\ h[i] = 0
  BY <1>1
<1> HIDE DEF h
<1>5. Total(h, n) = Total(f, n) - Total(g, n)
  BY <1>4, TotalDifference
<1>6. Total(h, n) = 0
  BY <1>4, TotalZero
<1>7. Total(f, n) \in Int /\ Total(g, n) \in Int
  BY <1>4, TotalType
<1> QED BY <1>3, <1>5, <1>6, <1>7

\* When one order changes, the number of open orders changes with it.
LEMMA OpenInMoves ==
  ASSUME NEW f, NEW g, NEW id \in OrderIds, \A x \in OrderIds : x # id => g[x] = f[x]
  PROVE  /\ OpenIn(f) \in Nat /\ OpenIn(g) \in Nat
         /\ OpenIn(g) <= OpenIn(f) + 1
         /\ IsOpen(f[id]) /\ ~IsOpen(g[id]) => OpenIn(g) = OpenIn(f) - 1
<1> DEFINE p == [x \in OrderIds |-> IF IsOpen(f[x]) THEN 1 ELSE 0]
           q == [x \in OrderIds |-> IF IsOpen(g[x]) THEN 1 ELSE 0]
<1>1. MaxOrders \in Nat /\ OrderIds = 1 .. MaxOrders
  BY ExchangeAssumption DEF OrderIds
<1>2. \A x \in 1 .. MaxOrders : p[x] \in Nat /\ q[x] \in Nat /\ (x # id => q[x] = p[x])
  BY <1>1
<1>3. p[id] = (IF IsOpen(f[id]) THEN 1 ELSE 0) /\ q[id] = IF IsOpen(g[id]) THEN 1 ELSE 0
  OBVIOUS
<1>4. OpenIn(f) = Total(p, MaxOrders) /\ OpenIn(g) = Total(q, MaxOrders)
  BY DEF OpenIn
<1> HIDE DEF p, q
<1>5. Total(p, MaxOrders) \in Nat /\ Total(q, MaxOrders) \in Nat
  BY <1>1, <1>2, TotalAtLeast
<1>6. Total(q, MaxOrders) = Total(p, MaxOrders) + (q[id] - p[id])
  <2>1. \A x \in 1 .. MaxOrders : p[x] \in Int /\ q[x] \in Int
    BY <1>2
  <2>2. id \in 1 .. MaxOrders /\ \A x \in 1 .. MaxOrders : x # id => q[x] = p[x]
    BY <1>1, <1>2
  <2> QED BY <1>1, <2>1, <2>2, TotalUpdate, ZenonT(30)
<1> QED BY <1>3, <1>4, <1>5, <1>6

\* A call above others adds its own work to theirs.
LEMMA WorkOfMore ==
  ASSUME NEW under \in Seq(Frame), NEW calls \in Seq(Frame), Len(calls) = Len(under) + 1,
         \A i \in 1 .. Len(under) : calls[i] = under[i]
  PROVE  /\ WorkOf(under) \in Nat /\ WorkOf(calls) \in Nat
         /\ WorkOf(calls) = WorkOf(under) + FrameWork[calls[Len(under) + 1].at]
<1> DEFINE f == [i \in DOMAIN under |-> FrameWork[under[i].at]]
           g == [i \in DOMAIN calls |-> FrameWork[calls[i].at]]
           n == Len(under)
<1>1. /\ n \in Nat /\ DOMAIN under = 1 .. n /\ DOMAIN calls = 1 .. n + 1
      /\ \A i \in 1 .. n : under[i] \in Frame
      /\ \A i \in 1 .. n + 1 : calls[i] \in Frame
  OBVIOUS
<1>2. \A e \in EventPoints : FrameWork[e] \in Nat
  BY DEF EventPoints, FrameWork
<1>3. \A i \in 1 .. n : f[i] \in Nat /\ f[i] \in Int /\ g[i] = f[i]
  BY <1>1, <1>2, SMTT(30) DEF Frame
<1>4. \A i \in 1 .. n + 1 : g[i] \in Nat
  BY <1>1, <1>2 DEF Frame
<1>5. n + 1 \in DOMAIN calls /\ g[n + 1] = FrameWork[calls[n + 1].at] /\ n + 1 \in Nat
  BY <1>1
<1>6. WorkOf(under) = Total(f, n) /\ WorkOf(calls) = Total(g, n + 1)
  BY DEF WorkOf
<1> HIDE DEF f, g, n
<1>7. g[n + 1] \in Int
  BY <1>1, <1>4
<1>8. Total(g, n + 1) = Total(f, n) + g[n + 1]
  BY <1>1, <1>3, <1>7, TotalOneMore
<1>9. Total(f, n) \in Nat /\ Total(g, n + 1) \in Nat
  BY <1>1, <1>3, <1>4, <1>5, TotalAtLeast
<1> QED BY <1>5, <1>6, <1>8, <1>9 DEF n

\* The innermost call adds its work to that of the calls below.
LEMMA TopWork ==
  ASSUME stack \in Seq(Frame), stack # << >>
  PROVE  WorkOf(Below) \in Nat /\ StackWork = WorkOf(Below) + FrameWork[Top.at]
<1>1. /\ Below \in Seq(Frame) /\ Len(stack) = Len(Below) + 1
      /\ \A i \in 1 .. Len(Below) : stack[i] = Below[i]
  BY StackShape
<1>2. Top = stack[Len(Below) + 1]
  BY <1>1 DEF Top
<1>3. StackWork = WorkOf(stack)
  BY DEF StackWork, WorkOf
<1> QED BY <1>1, <1>2, <1>3, WorkOfMore

\* An event dispatched adds the work that follows it.
LEMMA DispatchWork ==
  ASSUME NEW under \in Seq(Frame), NEW event \in EventPoints, NEW id \in OrderIds,
         NEW level \in Int, NEW amount \in Int,
         lastEvent \in [OrderIds -> EventPoints \cup {"none"}],
         Dispatch(event, id, under, level, amount)
  PROVE  StackWork' = WorkOf(under) + FrameWork[event]
<1>1. /\ stack' \in Seq(Frame) /\ Len(stack') = Len(under) + 1
      /\ stack'[Len(under) + 1].at = event
      /\ \A i \in 1 .. Len(under) : stack'[i] = under[i]
  <2>1. CallFrame(event, id, level, amount).at = event
    BY DEF CallFrame
  <2> QED BY <2>1, DispatchType
<1>2. StackWork' = WorkOf(stack')
  BY DEF StackWork, WorkOf
<1> QED BY <1>1, <1>2, WorkOfMore

\* Placing takes an identifier, opens one order at most and leaves one call.
LEMMA PlacingWork ==
  ASSUME TypeInv, NEW r \in Request, NEW under \in Seq(Frame), PlaceOrder(r, under)
  PROVE  /\ counter' = counter + 1 /\ counter < MaxOrders
         /\ OpenOrders' <= OpenOrders + 1 /\ OpenOrders' \in Nat
         /\ StackWork' <= WorkOf(under) + 5 /\ StackWork' \in Nat
<1>1. counter + 1 \in OrderIds /\ counter' = counter + 1 /\ counter < MaxOrders
  BY PlaceOrderType DEF PlaceOrder
<1>2. \A x \in OrderIds : x # counter + 1 => orders'[x] = orders[x]
  BY PlaceOrderType DEF TypeInv, TypeOK
<1>3. OpenOrders' = OpenIn(orders') /\ OpenOrders = OpenIn(orders)
  BY DEF OpenOrders, OpenIn
<1>4. OpenOrders' <= OpenOrders + 1 /\ OpenOrders' \in Nat
  <2>1. OpenIn(orders') <= OpenIn(orders) + 1 /\ OpenIn(orders') \in Nat
    BY <1>1, <1>2, OpenInMoves
  <2> QED BY <1>3, <2>1
<1>5. \/ Dispatch("created", counter + 1, under, NoPrice, 0)
      \/ Dispatch("failed", counter + 1, under, NoPrice, 0)
  BY DEF PlaceOrder
<1>6. "created" \in EventPoints /\ "failed" \in EventPoints /\ NoPrice \in Int
      /\ FrameWork["created"] = 5 /\ FrameWork["failed"] = 1
  BY DEF EventPoints, NoPrice, FrameWork
<1>7. WorkOf(under) \in Nat /\ StackWork' \in Nat
  <2>1. /\ stack' \in Seq(Frame) /\ Len(stack') = Len(under) + 1
        /\ \A i \in 1 .. Len(under) : stack'[i] = under[i]
    BY PlaceOrderType
  <2>2. StackWork' = WorkOf(stack')
    BY DEF StackWork, WorkOf
  <2> QED BY <2>1, <2>2, WorkOfMore
<1>8. StackWork' = WorkOf(under) + 5 \/ StackWork' = WorkOf(under) + 1
  BY <1>1, <1>5, <1>6, DispatchWork DEF TypeInv, TypeOK
<1> QED BY <1>1, <1>4, <1>7, <1>8

\* A fill may open one order again and leaves one call.
LEMMA FillWork ==
  ASSUME TypeInv, NEW id \in OrderIds, id <= counter,
         NEW m \in CheckAndMatch(orders[id], book), NEW under \in Seq(Frame),
         ProcessFill(id, m, under), counter' = counter
  PROVE  /\ OpenOrders' <= OpenOrders + 1 /\ OpenOrders' \in Nat
         /\ StackWork' = WorkOf(under) + 2
<1>1. \A x \in OrderIds : x # id => orders'[x] = orders[x]
  BY ProcessFillType
<1>2. OpenOrders' = OpenIn(orders') /\ OpenOrders = OpenIn(orders)
  BY DEF OpenOrders, OpenIn
<1>3. OpenOrders' <= OpenOrders + 1 /\ OpenOrders' \in Nat
  <2>1. OpenIn(orders') <= OpenIn(orders) + 1 /\ OpenIn(orders') \in Nat
    BY <1>1, OpenInMoves
  <2> QED BY <1>2, <2>1
<1>4. /\ stack' \in Seq(Frame) /\ Len(stack') = Len(under) + 1
      /\ stack'[Len(under) + 1].at = "filled"
      /\ \A i \in 1 .. Len(under) : stack'[i] = under[i]
  BY ProcessFillType, SMTT(30)
<1>5. StackWork' = WorkOf(stack') /\ FrameWork["filled"] = 2
  BY DEF StackWork, WorkOf, FrameWork
<1>6. StackWork' = WorkOf(under) + 2
  BY <1>4, <1>5, WorkOfMore
<1> QED BY <1>3, <1>6

\* An order that is withdrawn is open no more.
LEMMA WithdrawalWork ==
  ASSUME TypeInv, NEW id \in OrderIds, IsOpen(orders[id]), Withdraw(id), counter' = counter
  PROVE  OpenOrders' = OpenOrders - 1 /\ OpenOrders' \in Nat
<1>1. ~IsOpen(orders'[id]) /\ \A x \in OrderIds : x # id => orders'[x] = orders[x]
  BY WithdrawType
<1>2. OpenOrders' = OpenIn(orders') /\ OpenOrders = OpenIn(orders)
  BY DEF OpenOrders, OpenIn
<1> QED BY <1>1, <1>2, OpenInMoves

\* The loops hold as many orders as there are at most.
LEMMA TodoCounts ==
  ASSUME TypeInv
  PROVE  /\ IsFiniteSet(todo) /\ Cardinality(todo) \in Nat
         /\ todo # {} => Cardinality(todo \ {Upcoming}) = Cardinality(todo) - 1
         /\ Cardinality(OpenPlain) \in 0 .. MaxOrders
<1>1. counter \in 0 .. MaxOrders /\ MaxOrders \in Nat /\ todo \subseteq 1 .. counter
  BY ExchangeAssumption DEF TypeInv, TypeOK
<1>2. IsFiniteSet(1 .. MaxOrders) /\ Cardinality(1 .. MaxOrders) = MaxOrders
  BY <1>1, FS_Interval
<1>3. todo \subseteq 1 .. MaxOrders /\ OpenPlain \subseteq 1 .. MaxOrders
  BY <1>1 DEF OpenPlain, OrderIds
<1>4. IsFiniteSet(todo) /\ IsFiniteSet(OpenPlain) /\ Cardinality(OpenPlain) <= MaxOrders
  BY <1>2, <1>3, FS_Subset
<1>5. Cardinality(todo) \in Nat /\ Cardinality(OpenPlain) \in Nat
  BY <1>4, FS_CardinalityType
<1>6. todo # {} => Upcoming \in todo
  BY UpcomingType
<1>7. todo # {} => Cardinality(todo \ {Upcoming}) = Cardinality(todo) - 1
  BY <1>4, <1>6, FS_RemoveElement
<1> QED BY <1>1, <1>4, <1>5, <1>7

\* The work is a number.
LEMMA WorkCounts ==
  ASSUME TypeInv
  PROVE  /\ OpenOrders \in Nat /\ StackWork \in Nat /\ Work \in Nat
         /\ counter \in Nat /\ MaxOrders \in Nat /\ counter <= MaxOrders
<1>1. counter \in 0 .. MaxOrders /\ MaxOrders \in Nat \ {0}
  BY ExchangeAssumption DEF TypeInv, TypeOK
<1>2. OpenOrders \in Nat
  <2>1. OpenOrders = OpenIn(orders) /\ 1 \in OrderIds
    BY <1>1 DEF OpenOrders, OpenIn, OrderIds
  <2> QED BY <2>1, OpenInMoves
<1>3. StackWork \in Nat
  <2>1. CASE stack = << >>
    <3>1. StackWork = Total([i \in DOMAIN stack |-> FrameWork[stack[i].at]], 0)
      BY <2>1 DEF StackWork
    <3>2. Total([i \in DOMAIN stack |-> FrameWork[stack[i].at]], 0) = 0
      BY TotalZero
    <3> QED BY <3>1, <3>2
  <2>2. CASE stack # << >>
    <3>1. Top.at \in EventPoints
      BY <2>2, StackShape DEF TypeInv, TypeOK, Frame
    <3>2. FrameWork[Top.at] \in Nat
      BY <3>1 DEF EventPoints, FrameWork
    <3> QED BY <2>2, <3>2, TopWork DEF TypeInv, TypeOK
  <2> QED BY <2>1, <2>2
<1>4. LoopWork \in Nat
  BY <1>1, TodoCounts, SMTT(30) DEF LoopWork, TypeInv, TypeOK
<1> QED BY <1>1, <1>2, <1>3, <1>4 DEF Work

\* Whoever takes a step while the driver waits, it leaves less to do.
LEMMA StepsLowerWork ==
  ASSUME TypeInv, [Next]_vars, ~Idle
  PROVE  Work' < Work \/ UNCHANGED vars
<1>t. /\ orders \in [OrderIds -> Order] /\ stack \in Seq(Frame)
      /\ lastEvent \in [OrderIds -> EventPoints \cup {"none"}]
      /\ phase \in {"idle", "conditional", "matching"}
      /\ Requests \subseteq Request /\ NoPrice \in Int /\ 0 \in Int
  BY ExchangeAssumption DEF TypeInv, TypeOK, NoPrice
<1>n. /\ OpenOrders \in Nat /\ StackWork \in Nat /\ counter \in Nat /\ MaxOrders \in Nat
      /\ Cardinality(todo) \in Nat
  BY WorkCounts, TodoCounts
<1>s. stack # << >> =>
        /\ Below \in Seq(Frame) /\ Top.id \in OrderIds /\ Top.level \in Int /\ Top.amount \in Int
        /\ WorkOf(Below) \in Nat /\ StackWork = WorkOf(Below) + FrameWork[Top.at]
  BY <1>t, StackShape, TopWork DEF Frame
<1>e. /\ {"created", "failed", "cancelled", "triggered", "filled", "completed"} = EventPoints
      /\ FrameWork["failed"] = 1 /\ FrameWork["cancelled"] = 1 /\ FrameWork["completed"] = 1
      /\ FrameWork["filled"] = 2 /\ FrameWork["created"] = 5 /\ FrameWork["triggered"] = 6
  BY DEF EventPoints, FrameWork
<1>w. StackWork = WorkOf(stack)
  BY DEF StackWork, WorkOf
<1>d. /\ Work = 8 * (MaxOrders - counter) + 2 * OpenOrders + LoopWork + StackWork
      /\ Work' = 8 * (MaxOrders - counter') + 2 * OpenOrders' + LoopWork' + StackWork'
  BY DEF Work
<1>k. /\ phase' = phase /\ todo' = todo => LoopWork' = LoopWork
      /\ phase' = phase /\ todo # {} /\ todo' = todo \ {Upcoming} => LoopWork' = LoopWork - 5
      /\ LoopWork \in Int
  <2>1. phase' = phase /\ todo' = todo => LoopWork' = LoopWork
    BY DEF LoopWork
  <2>2. LoopWork \in Int
    BY <1>t, <1>n DEF LoopWork
  <2>3. ASSUME phase' = phase, todo # {}, todo' = todo \ {Upcoming} PROVE LoopWork' = LoopWork - 5
    <3>1. Cardinality(todo') = Cardinality(todo) - 1
      BY <2>3, TodoCounts
    <3> QED BY <1>t, <1>n, <2>3, <3>1 DEF LoopWork
  <2> QED BY <2>1, <2>2, <2>3
<1>a. ASSUME NEW c \in Nat, NEW o \in Nat, NEW l \in Int, NEW s \in Int,
             counter' = c, OpenOrders' = o, LoopWork' = l, StackWork' = s,
             2 * o + s + l - 8 * c < 2 * OpenOrders + StackWork + LoopWork - 8 * counter
      PROVE  Work' < Work
  BY <1>n, <1>a, <1>d, <1>k
<1>1. ASSUME NEW r \in Requests, Place(r) PROVE Work' < Work
  <2>1. r \in Request /\ PlaceOrder(r, stack) /\ UNCHANGED <<phase, todo>>
    BY <1>1, <1>t DEF Place
  <2>2. /\ counter' = counter + 1 /\ counter < MaxOrders
        /\ OpenOrders' <= OpenOrders + 1 /\ StackWork' <= StackWork + 5
        /\ OpenOrders' \in Nat /\ StackWork' \in Nat
    BY <1>t, <1>w, <2>1, PlacingWork
  <2>3. LoopWork' = LoopWork
    BY <1>k, <2>1
  <2>4. PICK o \in Nat, s \in Nat :
          OpenOrders' = o /\ o <= OpenOrders + 1 /\ StackWork' = s /\ s <= StackWork + 5
    BY <2>2, Zenon
  <2>5. 2 * o + s + LoopWork - 8 * (counter + 1)
          < 2 * OpenOrders + StackWork + LoopWork - 8 * counter
    BY <1>n, <1>k, <2>4
  <2> QED BY <1>n, <1>a, <1>k, <2>2, <2>3, <2>4, <2>5
<1>2. ASSUME NEW id \in OrderIds, Cancel(id) PROVE Work' < Work
  <2>1. /\ IsOpen(orders[id]) /\ Withdraw(id)
        /\ Dispatch("cancelled", id, stack, NoPrice, 0)
        /\ UNCHANGED <<counter, phase, todo>>
    BY <1>2 DEF Cancel
  <2>2. OpenOrders' = OpenOrders - 1
    BY <2>1, WithdrawalWork
  <2>3. StackWork' = StackWork + 1
    BY <1>t, <1>w, <1>e, <2>1, DispatchWork
  <2>4. LoopWork' = LoopWork
    BY <1>k, <2>1
  <2> QED BY <1>n, <1>d, <1>k, <2>1, <2>2, <2>3, <2>4
<1>3. CASE MarketData \/ ProcessTick
  BY <1>3 DEF MarketData, ProcessTick
<1>4. CASE EvaluateOrder \/ LeaveOrder
  <2>1. todo # {} /\ todo' = todo \ {Upcoming} /\ UNCHANGED <<orders, counter, stack, phase>>
    BY <1>4 DEF EvaluateOrder, LeaveOrder, LoopIn
  <2>2. OpenOrders' = OpenOrders /\ StackWork' = StackWork
    BY <2>1 DEF OpenOrders, StackWork
  <2>3. LoopWork' = LoopWork - 5
    BY <1>k, <2>1
  <2> QED BY <1>n, <1>d, <1>k, <2>1, <2>2, <2>3
<1>5. CASE FireConditionalOrder
  <2>1. /\ IsOpen(orders[Upcoming]) /\ Withdraw(Upcoming) /\ todo # {}
        /\ Dispatch("triggered", Upcoming, stack, NoPrice, 0)
        /\ todo' = todo \ {Upcoming} /\ UNCHANGED <<counter, phase>>
    BY <1>5 DEF FireConditionalOrder, LoopIn
  <2>2. Upcoming \in OrderIds
    BY <2>1, UpcomingType
  <2>3. OpenOrders' = OpenOrders - 1
    BY <2>1, <2>2, WithdrawalWork
  <2>4. StackWork' = StackWork + 6
    BY <1>t, <1>w, <1>e, <2>1, <2>2, DispatchWork
  <2>5. LoopWork' = LoopWork - 5
    BY <1>k, <2>1
  <2> QED BY <1>n, <1>d, <1>k, <2>1, <2>3, <2>4, <2>5
<1>6. CASE StartMatching
  <2>1. /\ phase = "conditional" /\ todo = {} /\ phase' = "matching" /\ todo' = OpenPlain
        /\ UNCHANGED <<orders, counter, stack>>
    BY <1>6 DEF StartMatching
  <2>2. OpenOrders' = OpenOrders /\ StackWork' = StackWork
    BY <2>1 DEF OpenOrders, StackWork
  <2>3. Cardinality(todo') <= MaxOrders /\ Cardinality(todo') \in Nat
    BY <1>n, <2>1, TodoCounts
  <2>4. LoopWork = 2 + 5 * MaxOrders + 5 * Cardinality(todo)
    BY <2>1 DEF LoopWork
  <2>5. LoopWork' = 1 + 5 * Cardinality(todo')
    BY <2>1 DEF LoopWork
  <2> QED BY <1>n, <1>d, <2>1, <2>2, <2>3, <2>4, <2>5
<1>7. CASE MatchOrder
  <2>1. todo # {} /\ todo' = todo \ {Upcoming} /\ UNCHANGED <<counter, phase>>
    BY <1>7 DEF MatchOrder, LoopIn
  <2>2. PICK m \in CheckAndMatch(orders[Upcoming], book) : ProcessFill(Upcoming, m, stack)
    BY <1>7 DEF MatchOrder
  <2>3. Upcoming \in OrderIds /\ Upcoming <= counter
    BY <2>1, UpcomingType
  <2>4. OpenOrders' \in Nat /\ OpenOrders' <= OpenOrders + 1 /\ StackWork' = StackWork + 2
    BY <1>t, <1>w, <2>1, <2>2, <2>3, FillWork
  <2>5. LoopWork' = LoopWork - 5
    BY <1>k, <2>1
  <2>6. PICK o \in Nat : OpenOrders' = o /\ o <= OpenOrders + 1
    BY <2>4, Zenon
  <2>7. 2 * o + (StackWork + 2) + (LoopWork - 5) - 8 * counter
          < 2 * OpenOrders + StackWork + LoopWork - 8 * counter
    BY <1>n, <1>k, <2>6
  <2> QED BY <1>n, <1>a, <1>k, <2>1, <2>4, <2>5, <2>6, <2>7
<1>8. CASE EndTick
  <2>1. /\ phase = "matching" /\ phase' = "idle" /\ UNCHANGED <<orders, counter, stack, todo>>
    BY <1>8 DEF EndTick
  <2>2. OpenOrders' = OpenOrders /\ StackWork' = StackWork
    BY <2>1 DEF OpenOrders, StackWork
  <2>3. LoopWork = 1 + 5 * Cardinality(todo) /\ LoopWork' = 5 * Cardinality(todo)
    BY <1>n, <2>1 DEF LoopWork
  <2> QED BY <1>n, <1>d, <2>1, <2>2, <2>3
<1>9. CASE AfterNotice \/ AfterCreatedRest \/ ConsumeLiquidity
  <2>1. /\ stack # << >> /\ stack' = Below /\ UNCHANGED <<orders, counter, phase, todo>>
        /\ Top.at \in {"failed", "cancelled", "created", "filled", "completed"}
    BY <1>9 DEF AfterNotice, AfterCreatedRest, ConsumeLiquidity, Resumes
  <2>2. StackWork' = WorkOf(Below)
    BY <2>1 DEF StackWork, WorkOf
  <2>3. FrameWork[Top.at] \in {1, 2, 5}
    BY <1>e, <2>1
  <2>4. OpenOrders' = OpenOrders
    BY <2>1 DEF OpenOrders
  <2>5. LoopWork' = LoopWork
    BY <1>k, <2>1
  <2> QED BY <1>n, <1>s, <1>d, <1>k, <2>1, <2>2, <2>3, <2>4, <2>5, SMTT(30)
<1>10. CASE AfterCreatedMatch
  <2>1. /\ stack # << >> /\ Top.at = "created" /\ orders[Top.id].type = "MARKET"
        /\ UNCHANGED <<counter, phase, todo>>
    BY <1>10 DEF AfterCreatedMatch, Resumes
  <2>2. PICK m \in CheckAndMatch(orders[Top.id], book) : ProcessFill(Top.id, m, Below)
    BY <1>10 DEF AfterCreatedMatch
  <2>3. Top.id <= counter
    <3>1. orders[Top.id] # NoOrder
      BY <2>1 DEF NoOrder
    <3> QED BY <1>s, <1>n, <2>1, <3>1 DEF TypeInv, FreshIds, OrderIds
  <2>4. OpenOrders' \in Nat /\ OpenOrders' <= OpenOrders + 1 /\ StackWork' = WorkOf(Below) + 2
    BY <1>s, <2>1, <2>2, <2>3, FillWork
  <2>5. LoopWork' = LoopWork
    BY <1>k, <2>1
  <2>6. PICK o \in Nat : OpenOrders' = o /\ o <= OpenOrders + 1
    BY <2>4, Zenon
  <2>7. StackWork = WorkOf(Below) + 5 /\ WorkOf(Below) + 2 = StackWork - 3
    BY <1>n, <1>s, <1>e, <2>1
  <2>8. 2 * o + (StackWork - 3) + LoopWork - 8 * counter
          < 2 * OpenOrders + StackWork + LoopWork - 8 * counter
    BY <1>n, <1>k, <2>6
  <2>9. StackWork' = StackWork - 3 /\ StackWork - 3 \in Int /\ counter' = counter
    BY <1>n, <2>1, <2>4, <2>7
  <2> QED BY <1>n, <1>a, <1>k, <2>5, <2>6, <2>8, <2>9
<1>11. CASE AfterTriggered
  <2>1. /\ stack # << >> /\ Top.at = "triggered"
        /\ PlaceOrder(MarketRequest(orders[Top.id]), Below) /\ UNCHANGED <<phase, todo>>
    BY <1>11 DEF AfterTriggered, Resumes
  <2>2. MarketRequest(orders[Top.id]) \in Request
    BY <1>t, <1>s, <2>1, MarketRequestType
  <2>3. /\ counter' = counter + 1 /\ counter < MaxOrders
        /\ OpenOrders' <= OpenOrders + 1 /\ StackWork' <= WorkOf(Below) + 5
        /\ OpenOrders' \in Nat /\ StackWork' \in Nat
    BY <1>s, <2>1, <2>2, PlacingWork
  <2>4. LoopWork' = LoopWork
    BY <1>k, <2>1
  <2>5. PICK o \in Nat, s \in Nat :
          OpenOrders' = o /\ o <= OpenOrders + 1 /\ StackWork' = s /\ s <= WorkOf(Below) + 5
    BY <2>3, Zenon
  <2>6. StackWork = WorkOf(Below) + 6
    BY <1>s, <1>e, <2>1
  <2>7. 2 * o + s + LoopWork - 8 * (counter + 1)
          < 2 * OpenOrders + StackWork + LoopWork - 8 * counter
    <3>1. PICK w \in Nat : w = WorkOf(Below)
      BY <1>s, <2>1
    <3>2. s <= w + 5 /\ StackWork = w + 6 /\ o <= OpenOrders + 1 /\ LoopWork \in Int
      BY <1>k, <2>5, <2>6, <3>1
    <3> QED BY <1>n, <3>2
  <2> QED BY <1>n, <1>a, <1>k, <2>3, <2>4, <2>5, <2>7
<1>12. CASE AfterFilledComplete
  <2>1. /\ stack # << >> /\ Top.at = "filled"
        /\ Dispatch("completed", Top.id, Below, Top.level, Top.amount)
        /\ UNCHANGED <<orders, counter, phase, todo>>
    BY <1>12 DEF AfterFilledComplete, Resumes
  <2>2. StackWork' = WorkOf(Below) + 1
    BY <1>t, <1>s, <1>e, <2>1, DispatchWork
  <2>3. OpenOrders' = OpenOrders
    BY <2>1 DEF OpenOrders
  <2>4. LoopWork' = LoopWork
    BY <1>k, <2>1
  <2> QED BY <1>n, <1>s, <1>e, <1>d, <1>k, <2>1, <2>2, <2>3, <2>4, SMTT(30)
<1> QED
  BY <1>1, <1>2, <1>3, <1>4, <1>5, <1>6, <1>7, <1>8, <1>9, <1>10, <1>11, <1>12
  DEF Next, Loop, Resume

\* For every engine, fee, book and set of requests, and whatever listeners place
\* and cancel, also of orders a suspended call holds: while a call of the driver
\* runs each step lowers a number, so that the call takes a bounded number of
\* steps (exchange.py:375-400, event_bus_adapter.py:44-64).
THEOREM TicksMakeHeadway == Spec => TickMakesHeadway
<1>1. TypeInv /\ [Next]_vars => [~Idle => Work \in Nat /\ Work' < Work]_vars
  BY StepsLowerWork, WorkCounts
<1> QED BY <1>1, TypeInit, TypeStep, PTL DEF Spec, TickMakesHeadway

=============================================================================
