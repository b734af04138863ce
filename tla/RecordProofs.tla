---------------------------- MODULE RecordProofs ----------------------------
(***************************************************************************)
(* What the exchange leaves on record is what happened: the totals of the  *)
(* account, the prices paid, the events announced about each order, the    *)
(* replacements of fired orders and the references of trailing stops.      *)
(***************************************************************************)
EXTENDS ExchangeProofs

\* What the fields of the orders of one side add to a sum.
OfSide(o, side, v) == IF o.side = side THEN v ELSE 0

BaseFlow(o) == OfSide(o, "BUY", o.filled) - OfSide(o, "SELL", o.filled)

QuoteFlow(o) ==
  OfSide(o, "SELL", o.cost) - OfSide(o, "BUY", o.cost)
    - OfSide(o, "BUY", o.fee) - OfSide(o, "SELL", o.fee)

FilledOf(side) == [id \in OrderIds |-> OfSide(orders[id], side, orders[id].filled)]

CostOf(side) == [id \in OrderIds |-> OfSide(orders[id], side, orders[id].cost)]

FeeOf(side) == [id \in OrderIds |-> OfSide(orders[id], side, orders[id].fee)]

BaseMatches ==
  balances["base"].total =
    InitialBalances["base"].total
      + Total(FilledOf("BUY"), MaxOrders) - Total(FilledOf("SELL"), MaxOrders)

QuoteMatches ==
  balances["quote"].total =
    InitialBalances["quote"].total
      - Total(CostOf("BUY"), MaxOrders) + Total(CostOf("SELL"), MaxOrders)
      - Total(FeeOf("BUY"), MaxOrders) - Total(FeeOf("SELL"), MaxOrders)

LedgerInv == TypeInv /\ BaseMatches /\ QuoteMatches

\* The ledger property, one currency at a time.
LEMMA LedgerIsSums == LedgerMatchesFills <=> BaseMatches /\ QuoteMatches
BY DEF LedgerMatchesFills, BaseMatches, QuoteMatches, Bought, Sold, FilledOf, CostOf,
       FeeOf, OfSide

-----------------------------------------------------------------------------
\* What an order adds to a sum over one side is an integer.
LEMMA OfSideType ==
  ASSUME NEW o \in Order, NEW side
  PROVE  /\ OfSide(o, side, o.filled) \in Int
         /\ OfSide(o, side, o.cost) \in Int
         /\ OfSide(o, side, o.fee) \in Int
BY DEF OfSide, Order

\* When one order changes, the sums of its side change by what it changes.
LEMMA SumsMove ==
  ASSUME NEW side, NEW id \in OrderIds,
         orders \in [OrderIds -> Order], orders' \in [OrderIds -> Order],
         \A x \in OrderIds : x # id => orders'[x] = orders[x]
  PROVE  /\ Total(FilledOf(side), MaxOrders)' - Total(FilledOf(side), MaxOrders)
              = OfSide(orders'[id], side, orders'[id].filled) - OfSide(orders[id], side, orders[id].filled)
         /\ Total(CostOf(side), MaxOrders)' - Total(CostOf(side), MaxOrders)
              = OfSide(orders'[id], side, orders'[id].cost) - OfSide(orders[id], side, orders[id].cost)
         /\ Total(FeeOf(side), MaxOrders)' - Total(FeeOf(side), MaxOrders)
              = OfSide(orders'[id], side, orders'[id].fee) - OfSide(orders[id], side, orders[id].fee)
         /\ Total(FilledOf(side), MaxOrders) \in Int /\ Total(FilledOf(side), MaxOrders)' \in Int
         /\ Total(CostOf(side), MaxOrders) \in Int /\ Total(CostOf(side), MaxOrders)' \in Int
         /\ Total(FeeOf(side), MaxOrders) \in Int /\ Total(FeeOf(side), MaxOrders)' \in Int
<1> DEFINE A == FilledOf(side)
           B == CostOf(side)
           C == FeeOf(side)
           a == [x \in OrderIds |-> OfSide(orders'[x], side, orders'[x].filled)]
           b == [x \in OrderIds |-> OfSide(orders'[x], side, orders'[x].cost)]
           c == [x \in OrderIds |-> OfSide(orders'[x], side, orders'[x].fee)]
<1>1. MaxOrders \in Nat /\ OrderIds = 1 .. MaxOrders /\ id \in 1 .. MaxOrders
  BY ExchangeAssumption DEF OrderIds
<1>2. /\ Total(FilledOf(side), MaxOrders)' = Total(a, MaxOrders)
      /\ Total(CostOf(side), MaxOrders)' = Total(b, MaxOrders)
      /\ Total(FeeOf(side), MaxOrders)' = Total(c, MaxOrders)
  BY DEF FilledOf, CostOf, FeeOf, Total
<1>3. \A x \in OrderIds :
        /\ A[x] = OfSide(orders[x], side, orders[x].filled)
        /\ B[x] = OfSide(orders[x], side, orders[x].cost)
        /\ C[x] = OfSide(orders[x], side, orders[x].fee)
        /\ a[x] = OfSide(orders'[x], side, orders'[x].filled)
        /\ b[x] = OfSide(orders'[x], side, orders'[x].cost)
        /\ c[x] = OfSide(orders'[x], side, orders'[x].fee)
  BY DEF FilledOf, CostOf, FeeOf
<1> HIDE DEF A, B, C, a, b, c
<1>4. \A x \in 1 .. MaxOrders :
        /\ A[x] \in Int /\ a[x] \in Int
        /\ B[x] \in Int /\ b[x] \in Int
        /\ C[x] \in Int /\ c[x] \in Int
  <2> SUFFICES ASSUME NEW x \in OrderIds
               PROVE  /\ A[x] \in Int /\ a[x] \in Int
                      /\ B[x] \in Int /\ b[x] \in Int
                      /\ C[x] \in Int /\ c[x] \in Int
    BY <1>1
  <2>1. orders[x] \in Order /\ orders'[x] \in Order
    OBVIOUS
  <2> QED BY <1>3, <2>1, OfSideType, SMTT(30)
<1>5. \A x \in 1 .. MaxOrders : x # id => a[x] = A[x] /\ b[x] = B[x] /\ c[x] = C[x]
  BY <1>1, <1>3
<1>6. Total(a, MaxOrders) = Total(A, MaxOrders) + (a[id] - A[id])
  BY <1>1, <1>4, <1>5, TotalUpdate
<1>7. Total(b, MaxOrders) = Total(B, MaxOrders) + (b[id] - B[id])
  BY <1>1, <1>4, <1>5, TotalUpdate, ZenonT(30)
<1>8. Total(c, MaxOrders) = Total(C, MaxOrders) + (c[id] - C[id])
  BY <1>1, <1>4, <1>5, TotalUpdate, ZenonT(30)
<1>9. /\ Total(A, MaxOrders) \in Int /\ Total(B, MaxOrders) \in Int /\ Total(C, MaxOrders) \in Int
      /\ Total(a, MaxOrders) \in Int /\ Total(b, MaxOrders) \in Int /\ Total(c, MaxOrders) \in Int
  BY <1>1, <1>4, TotalType
<1>10. \A s, t, u, v \in Int : t = s + (u - v) => t - s = u - v
  OBVIOUS
<1>11. a[id] \in Int /\ b[id] \in Int /\ c[id] \in Int /\ A[id] \in Int /\ B[id] \in Int /\ C[id] \in Int
  BY <1>1, <1>4
<1>12. /\ Total(a, MaxOrders) - Total(A, MaxOrders) = a[id] - A[id]
       /\ Total(b, MaxOrders) - Total(B, MaxOrders) = b[id] - B[id]
       /\ Total(c, MaxOrders) - Total(C, MaxOrders) = c[id] - C[id]
  BY <1>6, <1>7, <1>8, <1>9, <1>10, <1>11
<1> QED BY <1>2, <1>3, <1>9, <1>12 DEF A, B, C

\* So the account still matches when it has changed by the order's own flow.
LEMMA LedgerMoves ==
  ASSUME LedgerInv, NEW id \in OrderIds,
         orders' \in [OrderIds -> Order], balances' \in [Currencies -> TokenBalance],
         \A x \in OrderIds : x # id => orders'[x] = orders[x],
         balances'["base"].total - balances["base"].total
           = BaseFlow(orders'[id]) - BaseFlow(orders[id]),
         balances'["quote"].total - balances["quote"].total
           = QuoteFlow(orders'[id]) - QuoteFlow(orders[id])
  PROVE  BaseMatches' /\ QuoteMatches'
<1>1. /\ orders \in [OrderIds -> Order] /\ balances \in [Currencies -> TokenBalance]
      /\ orders[id] \in Order /\ orders'[id] \in Order
  BY DEF LedgerInv, TypeInv, TypeOK
<1>2. /\ balances["base"].total \in Int /\ balances["quote"].total \in Int
      /\ balances'["base"].total \in Int /\ balances'["quote"].total \in Int
      /\ InitialBalances["base"].total \in Int /\ InitialBalances["quote"].total \in Int
  BY <1>1, ExchangeAssumption DEF Currencies, TokenBalance
<1>3. PICK fb \in Int, fs \in Int, cb \in Int, cs \in Int, gb \in Int, gs \in Int :
        /\ fb = Total(FilledOf("BUY"), MaxOrders) /\ fs = Total(FilledOf("SELL"), MaxOrders)
        /\ cb = Total(CostOf("BUY"), MaxOrders) /\ cs = Total(CostOf("SELL"), MaxOrders)
        /\ gb = Total(FeeOf("BUY"), MaxOrders) /\ gs = Total(FeeOf("SELL"), MaxOrders)
  BY <1>1, SumsMove
<1>4. PICK fb2 \in Int, fs2 \in Int, cb2 \in Int, cs2 \in Int, gb2 \in Int, gs2 \in Int :
        /\ fb2 = Total(FilledOf("BUY"), MaxOrders)' /\ fs2 = Total(FilledOf("SELL"), MaxOrders)'
        /\ cb2 = Total(CostOf("BUY"), MaxOrders)' /\ cs2 = Total(CostOf("SELL"), MaxOrders)'
        /\ gb2 = Total(FeeOf("BUY"), MaxOrders)' /\ gs2 = Total(FeeOf("SELL"), MaxOrders)'
  BY <1>1, SumsMove
<1>5. PICK o \in Order, u \in Order : o = orders[id] /\ u = orders'[id]
  BY <1>1
<1>6. /\ fb2 - fb = OfSide(u, "BUY", u.filled) - OfSide(o, "BUY", o.filled)
      /\ fs2 - fs = OfSide(u, "SELL", u.filled) - OfSide(o, "SELL", o.filled)
      /\ cb2 - cb = OfSide(u, "BUY", u.cost) - OfSide(o, "BUY", o.cost)
      /\ cs2 - cs = OfSide(u, "SELL", u.cost) - OfSide(o, "SELL", o.cost)
      /\ gb2 - gb = OfSide(u, "BUY", u.fee) - OfSide(o, "BUY", o.fee)
      /\ gs2 - gs = OfSide(u, "SELL", u.fee) - OfSide(o, "SELL", o.fee)
  BY <1>1, <1>3, <1>4, <1>5, SumsMove
<1>7. /\ OfSide(o, "BUY", o.filled) \in Int /\ OfSide(o, "SELL", o.filled) \in Int
      /\ OfSide(o, "BUY", o.cost) \in Int /\ OfSide(o, "SELL", o.cost) \in Int
      /\ OfSide(o, "BUY", o.fee) \in Int /\ OfSide(o, "SELL", o.fee) \in Int
      /\ OfSide(u, "BUY", u.filled) \in Int /\ OfSide(u, "SELL", u.filled) \in Int
      /\ OfSide(u, "BUY", u.cost) \in Int /\ OfSide(u, "SELL", u.cost) \in Int
      /\ OfSide(u, "BUY", u.fee) \in Int /\ OfSide(u, "SELL", u.fee) \in Int
  BY OfSideType
<1>8. BaseFlow(u) - BaseFlow(o) = (fb2 - fb) - (fs2 - fs)
  BY <1>6, <1>7 DEF BaseFlow
<1>9. QuoteFlow(u) - QuoteFlow(o) = (cs2 - cs) - (cb2 - cb) - (gb2 - gb) - (gs2 - gs)
  <2>1. \A a, b, c, d, a2, b2, c2, d2 \in Int :
          (a2 - b2 - c2 - d2) - (a - b - c - d) = (a2 - a) - (b2 - b) - (c2 - c) - (d2 - d)
    OBVIOUS
  <2>2. QuoteFlow(u) - QuoteFlow(o) =
          (OfSide(u, "SELL", u.cost) - OfSide(o, "SELL", o.cost))
            - (OfSide(u, "BUY", u.cost) - OfSide(o, "BUY", o.cost))
            - (OfSide(u, "BUY", u.fee) - OfSide(o, "BUY", o.fee))
            - (OfSide(u, "SELL", u.fee) - OfSide(o, "SELL", o.fee))
    BY <1>7, <2>1 DEF QuoteFlow
  <2> QED BY <1>6, <2>2
<1>10. PICK b \in Int, b2 \in Int, q \in Int, q2 \in Int :
         /\ b = balances["base"].total /\ b2 = balances'["base"].total
         /\ q = balances["quote"].total /\ q2 = balances'["quote"].total
  BY <1>2
<1>11. PICK ib \in Int, iq \in Int :
         ib = InitialBalances["base"].total /\ iq = InitialBalances["quote"].total
  BY <1>2
<1>12. /\ b = ib + fb - fs /\ q = iq - cb + cs - gb - gs
       /\ b2 - b = (fb2 - fb) - (fs2 - fs)
       /\ q2 - q = (cs2 - cs) - (cb2 - cb) - (gb2 - gb) - (gs2 - gs)
  BY <1>3, <1>5, <1>8, <1>9, <1>10, <1>11 DEF LedgerInv, BaseMatches, QuoteMatches
<1>13. b2 = ib + fb2 - fs2 /\ q2 = iq - cb2 + cs2 - gb2 - gs2
  BY <1>12
<1>14. BaseMatches'
  BY <1>4, <1>10, <1>11, <1>13 DEF BaseMatches
<1>15. QuoteMatches'
  BY <1>4, <1>10, <1>11, <1>13 DEF QuoteMatches
<1> QED BY <1>14, <1>15

-----------------------------------------------------------------------------
\* No match costs less than nothing, so no fee is negative and none is waived.
LEMMA MatchCosts ==
  ASSUME NEW o \in Order, o.filled <= o.amount, NEW b \in Book,
         NEW m \in CheckAndMatch(o, b)
  PROVE  m.cost \in Nat
<1>1. Remaining(o) \in Nat /\ o.price \in Nat
  BY DEF Remaining, Order
<1>2. \A x, y \in Nat : x * y \in Nat
  OBVIOUS
<1>3. ASSUME NEW p \in Nat, m \in FillAt(o, p) PROVE m.cost \in Nat
  <2> HIDE DEF Remaining
  <2> QED BY <1>1, <1>2, <1>3 DEF FillAt
<1>4. Touch(b, o.side) = NoPrice \/ Touch(b, o.side) \in Nat
  BY TouchType
<1>5. ASSUME m \in MatchWithDepth(o, b) PROVE m.cost \in Nat
  <2> DEFINE takes == Takes(o, b)
             costs == [p \in Prices |-> p * takes[p]]
             cost == Total(costs, MaxPrice)
             amount == Lower(Remaining(o), Total(Offered(o, b), MaxPrice))
  <2>1. MaxPrice \in Nat /\ Prices = 1 .. MaxPrice
    BY MaxPriceAssumption DEF Prices
  <2>2. ASSUME NEW p \in Prices PROVE takes[p] \in Nat
    BY TakesType
  <2>3. \A p \in 1 .. MaxPrice : costs[p] \in Nat
    <3> SUFFICES ASSUME NEW p \in Prices PROVE costs[p] \in Nat
      BY <2>1
    <3> HIDE DEF takes
    <3>1. p \in Nat /\ takes[p] \in Nat
      BY <2>1, <2>2
    <3> QED BY <1>2, <3>1
  <2>4. cost \in Nat
    <3> HIDE DEF costs
    <3> QED BY <2>1, <2>3, TotalAtLeast
  <2>5. m.cost = cost
    <3> HIDE DEF takes
    <3>1. m \in IF amount <= 0 THEN NoMatch
                ELSE {[amount |-> amount, cost |-> cost,
                       level |-> IF cost % amount = 0 THEN cost \div amount ELSE NoPrice]}
      BY <1>5 DEF MatchWithDepth, takes
    <3> HIDE DEF amount, cost
    <3> QED BY <3>1 DEF NoMatch
  <2> QED BY <2>4, <2>5
<1>6. (\E p \in Nat : m \in FillAt(o, p)) \/ m \in MatchWithDepth(o, b)
  <2> HIDE DEF FillAt, MatchWithDepth, Touch
  <2>1. CASE Engine = "Immediate"
    <3>1. m \in MatchImmediate(o, b)
      BY <2>1 DEF CheckAndMatch
    <3> QED BY <1>1, <1>4, <3>1 DEF MatchImmediate, MatchMarket, NoMatch
  <2>2. CASE Engine = "Limit"
    <3>1. m \in MatchLimitEngine(o, b)
      BY <2>2 DEF CheckAndMatch
    <3> QED BY <1>1, <1>4, <3>1 DEF MatchLimitEngine, MatchMarket, MatchLimit,
                                    MatchLimitMaker, NoMatch
  <2>3. CASE Engine = "Depth"
    <3>1. m \in MatchDepthEngine(o, b)
      BY <2>3 DEF CheckAndMatch
    <3> QED BY <1>1, <3>1 DEF MatchDepthEngine, MatchMakerPassive, NoMatch
  <2> QED BY <2>1, <2>2, <2>3, EngineAssumption
<1> QED BY <1>3, <1>5, <1>6

\* A fee is a natural number when the cost is.
LEMMA FeeIsCharged ==
  ASSUME NEW o, NEW cost \in Nat
  PROVE  CalculateFee(o, cost) \in Nat
<1> DEFINE rate == IF o.type = "LIMIT_MAKER" THEN MakerRate ELSE TakerRate
<1>1. rate \in Nat /\ FeeScale \in Nat \ {0}
  BY ExchangeAssumption
<1>2. \A x, y \in Nat : x * y \in Nat
  OBVIOUS
<1>3. cost * rate \in Nat
  <2> HIDE DEF rate
  <2> QED BY <1>1, <1>2
<1>4. \A x \in Nat, y \in Nat \ {0} : x \div y \in Nat
  OBVIOUS
<1> QED BY <1>1, <1>3, <1>4 DEF CalculateFee

\* apply_fill moves both totals by the flow of the fill.
LEMMA FillMovesTotals ==
  ASSUME NEW bals \in [Currencies -> TokenBalance], NEW side \in Sides,
         NEW a \in Int, NEW c \in Int, NEW fee \in Nat
  PROVE  /\ ApplyFill(bals, side, a, c, fee)["base"].total - bals["base"].total
              = IF side = "BUY" THEN a ELSE -a
         /\ ApplyFill(bals, side, a, c, fee)["quote"].total - bals["quote"].total
              = (IF side = "BUY" THEN -c ELSE c) - fee
BY DEF ApplyFill, Currencies, TokenBalance, Higher, Sides

\* update_with_fill moves the flows of the order by the same.
LEMMA FillMovesFlow ==
  ASSUME NEW o \in Order, NEW a \in Int, NEW c \in Int, NEW fee \in Int
  PROVE  /\ BaseFlow(UpdateWithFill(o, a, c, fee)) - BaseFlow(o)
              = IF o.side = "BUY" THEN a ELSE -a
         /\ QuoteFlow(UpdateWithFill(o, a, c, fee)) - QuoteFlow(o)
              = (IF o.side = "BUY" THEN -c ELSE c) - fee
<1> DEFINE u == UpdateWithFill(o, a, c, fee)
<1>1. /\ u.filled = o.filled + a /\ u.cost = o.cost + c /\ u.fee = o.fee + fee
      /\ u.side = o.side
  BY DEF UpdateWithFill, Order
<1>2. o.filled \in Int /\ o.cost \in Int /\ o.fee \in Int /\ o.side \in {"BUY", "SELL"}
  BY DEF Order, Sides
<1> HIDE DEF u
<1>3. CASE o.side = "BUY"
  BY <1>1, <1>2, <1>3 DEF BaseFlow, QuoteFlow, OfSide, u
<1>4. CASE o.side = "SELL"
  BY <1>1, <1>2, <1>4 DEF BaseFlow, QuoteFlow, OfSide, u
<1> QED BY <1>2, <1>3, <1>4

-----------------------------------------------------------------------------
\* A fill moves the totals by what it adds to the records.
LEMMA LedgerAfterFilling ==
  ASSUME LedgerInv, NEW id \in OrderIds, id <= counter,
         NEW m \in CheckAndMatch(orders[id], book), NEW under \in Seq(Frame),
         ProcessFill(id, m, under), counter' = counter
  PROVE  BaseMatches' /\ QuoteMatches'
<1> DEFINE o == orders[id]
           fee == CalculateFee(o, m.cost)
<1>1. /\ o \in Order /\ o.filled <= o.amount /\ o.side \in Sides /\ book \in Book
      /\ balances \in [Currencies -> TokenBalance] /\ orders \in [OrderIds -> Order]
  BY DEF LedgerInv, TypeInv, TypeOK, NoOverfill, Order
<1>2. m.amount \in Int /\ m.cost \in Nat
  <2>1. m.amount \in 0 .. Remaining(o) /\ Remaining(o) \in Int
    BY <1>1, MatchWithinRemaining, SMTT(30) DEF Remaining, Order
  <2> QED BY <1>1, <2>1, MatchCosts
<1>3. fee \in Nat
  BY <1>2, FeeIsCharged
<1>4. /\ balances' = ApplyFill(balances, o.side, m.amount, m.cost, fee)
      /\ orders' = [orders EXCEPT ![id] = UpdateWithFill(o, m.amount, m.cost, fee)]
  BY DEF ProcessFill
<1>5. /\ orders' \in [OrderIds -> Order] /\ balances' \in [Currencies -> TokenBalance]
      /\ \A x \in OrderIds : x # id => orders'[x] = orders[x]
  BY ProcessFillType DEF LedgerInv
<1>6. orders'[id] = UpdateWithFill(o, m.amount, m.cost, fee)
  BY <1>1, <1>4
<1> HIDE DEF fee
<1>7. /\ balances'["base"].total - balances["base"].total
           = (IF o.side = "BUY" THEN m.amount ELSE -m.amount)
      /\ balances'["quote"].total - balances["quote"].total
           = (IF o.side = "BUY" THEN -m.cost ELSE m.cost) - fee
  BY <1>1, <1>2, <1>3, <1>4, FillMovesTotals, SMTT(30)
<1>8. /\ BaseFlow(orders'[id]) - BaseFlow(o) = (IF o.side = "BUY" THEN m.amount ELSE -m.amount)
      /\ QuoteFlow(orders'[id]) - QuoteFlow(o)
           = (IF o.side = "BUY" THEN -m.cost ELSE m.cost) - fee
  BY <1>1, <1>2, <1>3, <1>6, FillMovesFlow
<1> QED BY <1>5, <1>7, <1>8, LedgerMoves

\* An order that has no fills has no flow, so placing one moves nothing.
LEMMA LedgerAfterPlacing ==
  ASSUME LedgerInv, NEW r \in Request, NEW under \in Seq(Frame), PlaceOrder(r, under)
  PROVE  BaseMatches' /\ QuoteMatches'
<1> DEFINE id == counter + 1
           o == Placed(r)
           f == NewOrder(Quantized(r), "FAILED")
<1>1. /\ id \in OrderIds /\ orders' \in [OrderIds -> Order]
      /\ balances' \in [Currencies -> TokenBalance]
      /\ balances \in [Currencies -> TokenBalance] /\ orders \in [OrderIds -> Order]
  BY PlaceOrderType DEF LedgerInv, TypeInv, TypeOK
<1>2. PICK k \in {o, f} : orders' = [orders EXCEPT ![id] = k]
  BY PlaceOrderType DEF LedgerInv
<1>3. k.filled = 0 /\ k.cost = 0 /\ k.fee = 0
  BY <1>2 DEF NewOrder, Placed
<1>4. orders[id] = NoOrder
  <2>1. counter + 1 > counter
    BY DEF LedgerInv, TypeInv, TypeOK
  <2> QED BY <1>1, <2>1 DEF LedgerInv, TypeInv, FreshIds
<1>5. /\ BaseFlow(orders[id]) = 0 /\ QuoteFlow(orders[id]) = 0
  BY <1>4 DEF NoOrder, BaseFlow, QuoteFlow, OfSide
<1>6. o \in Order
  <2>1. "OPEN" \in Statuses
    BY DEF Statuses
  <2> QED BY <2>1, NewOrderType DEF Placed
<1>7. /\ balances'["base"].total = balances["base"].total
      /\ balances'["quote"].total = balances["quote"].total
  <2>1. \/ balances' = LockCollateral(balances, CollateralCurrency(o), Collateral(o))
        \/ balances' = balances
    BY DEF PlaceOrder, Placed
  <2> QED BY <1>1, <2>1 DEF LockCollateral, Currencies, TokenBalance
<1> HIDE DEF id
<1>8. orders'[id] = k
  BY <1>1, <1>2
<1>9. BaseFlow(orders'[id]) = 0 /\ QuoteFlow(orders'[id]) = 0
  BY <1>3, <1>8 DEF BaseFlow, QuoteFlow, OfSide
<1>10. \A x \in OrderIds : x # id => orders'[x] = orders[x]
  BY <1>1, <1>2
<1>11. /\ balances["base"].total \in Int /\ balances["quote"].total \in Int
  BY <1>1 DEF Currencies, TokenBalance
<1>12. /\ balances'["base"].total - balances["base"].total
            = BaseFlow(orders'[id]) - BaseFlow(orders[id])
       /\ balances'["quote"].total - balances["quote"].total
            = QuoteFlow(orders'[id]) - QuoteFlow(orders[id])
  BY <1>5, <1>7, <1>9, <1>11
<1> QED BY <1>1, <1>10, <1>12, LedgerMoves

\* Withdrawing an order keeps its fills and releases without touching a total.
LEMMA LedgerAfterWithdrawing ==
  ASSUME LedgerInv, NEW id \in OrderIds, IsOpen(orders[id]), Withdraw(id), counter' = counter
  PROVE  BaseMatches' /\ QuoteMatches'
<1> DEFINE o == orders[id]
<1>1. /\ orders' \in [OrderIds -> Order] /\ balances' \in [Currencies -> TokenBalance]
      /\ \A x \in OrderIds : x # id => orders'[x] = orders[x]
      /\ balances \in [Currencies -> TokenBalance] /\ orders \in [OrderIds -> Order]
  BY WithdrawType DEF LedgerInv, TypeInv, TypeOK
<1>2. /\ orders'[id] = [o EXCEPT !.status = "CANCELLED"]
      /\ balances' = ReleaseCollateral(balances, CollateralCurrency(o), Collateral(o))
  BY <1>1 DEF Withdraw
<1>3. o \in Order
  BY <1>1
<1>4. BaseFlow(orders'[id]) = BaseFlow(o) /\ QuoteFlow(orders'[id]) = QuoteFlow(o)
  BY <1>2, <1>3 DEF BaseFlow, QuoteFlow, OfSide, Order
<1>5. /\ balances'["base"].total = balances["base"].total
      /\ balances'["quote"].total = balances["quote"].total
  BY <1>1, <1>2 DEF ReleaseCollateral, Currencies, TokenBalance
<1>6. /\ balances["base"].total \in Int /\ balances["quote"].total \in Int
      /\ BaseFlow(o) \in Int /\ QuoteFlow(o) \in Int
  BY <1>1, <1>3, OfSideType DEF Currencies, TokenBalance, BaseFlow, QuoteFlow
<1>7. /\ balances'["base"].total - balances["base"].total = BaseFlow(orders'[id]) - BaseFlow(o)
      /\ balances'["quote"].total - balances["quote"].total = QuoteFlow(orders'[id]) - QuoteFlow(o)
  BY <1>4, <1>5, <1>6
<1> QED BY <1>1, <1>7, LedgerMoves

\* A step that changes neither orders nor balances keeps the ledger.
LEMMA LedgerKept ==
  ASSUME LedgerInv, UNCHANGED <<orders, balances>>
  PROVE  BaseMatches' /\ QuoteMatches'
BY DEF LedgerInv, BaseMatches, QuoteMatches, FilledOf, CostOf, FeeOf

-----------------------------------------------------------------------------
\* The ledger invariant holds at the start.
LEMMA LedgerInit == Init => LedgerInv
<1> SUFFICES ASSUME Init PROVE LedgerInv
  OBVIOUS
<1>1. TypeInv
  BY TypeInit
<1>2. /\ orders = [id \in OrderIds |-> NoOrder] /\ balances = InitialBalances
      /\ MaxOrders \in Nat /\ OrderIds = 1 .. MaxOrders
      /\ balances["base"].total \in Int /\ balances["quote"].total \in Int
  BY ExchangeAssumption DEF Init, OrderIds, Currencies, TokenBalance
<1>4. ASSUME NEW side
      PROVE  /\ Total(FilledOf(side), MaxOrders) = 0
             /\ Total(CostOf(side), MaxOrders) = 0
             /\ Total(FeeOf(side), MaxOrders) = 0
  <2>1. \A id \in 1 .. MaxOrders :
          FilledOf(side)[id] = 0 /\ CostOf(side)[id] = 0 /\ FeeOf(side)[id] = 0
    BY <1>2 DEF FilledOf, CostOf, FeeOf, OfSide, NoOrder
  <2> QED BY <1>2, <2>1, TotalZero
<1>5. BaseMatches
  BY <1>2, <1>4 DEF BaseMatches
<1>6. QuoteMatches
  BY <1>2, <1>4 DEF QuoteMatches
<1> QED BY <1>1, <1>5, <1>6 DEF LedgerInv

\* Every action of the exchange keeps the ledger invariant.
LEMMA LedgerStep == LedgerInv /\ [Next]_vars => LedgerInv'
<1> SUFFICES ASSUME LedgerInv, [Next]_vars PROVE LedgerInv'
  OBVIOUS
<1>a. TypeInv /\ TypeInv'
  BY TypeStep DEF LedgerInv
<1>b. SUFFICES BaseMatches' /\ QuoteMatches'
  BY <1>a DEF LedgerInv
<1>c. /\ stack \in Seq(Frame) /\ orders \in [OrderIds -> Order]
      /\ Requests \subseteq Request /\ todo \subseteq 1 .. counter
      /\ counter \in 0 .. MaxOrders
  BY <1>a, ExchangeAssumption DEF TypeInv, TypeOK
<1>1. ASSUME NEW r \in Requests, Place(r) PROVE BaseMatches' /\ QuoteMatches'
  <2>1. r \in Request /\ PlaceOrder(r, stack)
    BY <1>1, <1>c DEF Place
  <2> QED BY <1>c, <2>1, LedgerAfterPlacing
<1>2. ASSUME NEW id \in OrderIds, Cancel(id) PROVE BaseMatches' /\ QuoteMatches'
  <2>1. IsOpen(orders[id]) /\ Withdraw(id) /\ counter' = counter
    BY <1>2 DEF Cancel
  <2> QED BY <2>1, LedgerAfterWithdrawing
<1>3. CASE FireConditionalOrder
  <2>1. IsOpen(orders[Upcoming]) /\ Withdraw(Upcoming) /\ counter' = counter /\ todo # {}
    BY <1>3 DEF FireConditionalOrder, LoopIn
  <2>2. Upcoming \in OrderIds
    BY <1>a, <2>1, UpcomingType
  <2> QED BY <2>1, <2>2, LedgerAfterWithdrawing
<1>4. CASE MatchOrder
  <2>1. todo # {} /\ counter' = counter
    BY <1>4 DEF MatchOrder, LoopIn
  <2>2. PICK m \in CheckAndMatch(orders[Upcoming], book) : ProcessFill(Upcoming, m, stack)
    BY <1>4 DEF MatchOrder
  <2>3. Upcoming \in OrderIds /\ Upcoming <= counter
    BY <1>a, <2>1, UpcomingType
  <2> QED BY <1>c, <2>1, <2>2, <2>3, LedgerAfterFilling
<1>5. CASE AfterCreatedMatch
  <2>1. stack # << >> /\ counter' = counter /\ orders[Top.id].type = "MARKET"
    BY <1>5 DEF AfterCreatedMatch, Resumes
  <2>2. PICK m \in CheckAndMatch(orders[Top.id], book) : ProcessFill(Top.id, m, Below)
    BY <1>5 DEF AfterCreatedMatch
  <2>3. Top.id \in OrderIds /\ Below \in Seq(Frame)
    BY <1>c, <2>1, StackShape DEF Frame
  <2>4. Top.id <= counter
    <3>1. NoOrder.type # "MARKET"
      BY DEF NoOrder
    <3>2. ~(Top.id > counter)
      BY <1>a, <2>1, <2>3, <3>1 DEF TypeInv, FreshIds
    <3> QED BY <1>c, <2>3, <3>2 DEF OrderIds
  <2> QED BY <2>1, <2>2, <2>3, <2>4, LedgerAfterFilling
<1>6. CASE AfterTriggered
  <2>1. stack # << >> /\ PlaceOrder(MarketRequest(orders[Top.id]), Below)
    BY <1>6 DEF AfterTriggered, Resumes
  <2>2. Top.id \in OrderIds /\ Below \in Seq(Frame)
    BY <1>c, <2>1, StackShape DEF Frame
  <2>3. MarketRequest(orders[Top.id]) \in Request
    BY <1>c, <2>2, MarketRequestType
  <2> QED BY <2>1, <2>2, <2>3, LedgerAfterPlacing
<1>7. CASE \/ MarketData \/ ProcessTick \/ EvaluateOrder \/ StartMatching \/ LeaveOrder \/ EndTick
           \/ AfterNotice \/ AfterCreatedRest \/ AfterFilledComplete \/ ConsumeLiquidity
           \/ UNCHANGED vars
  <2>1. UNCHANGED <<orders, balances>>
    BY <1>7 DEF MarketData, ProcessTick, EvaluateOrder, StartMatching, LeaveOrder, EndTick,
                AfterNotice, AfterCreatedRest, AfterFilledComplete, ConsumeLiquidity, vars
  <2> QED BY <2>1, LedgerKept
<1> QED BY <1>1, <1>2, <1>3, <1>4, <1>5, <1>6, <1>7 DEF Next, Loop, Resume

\* The balances the account is left with are its initial balances moved by the
\* fills and fees on record, whatever was cancelled or replaced in between and
\* with every engine and rate: no fill is booked without being recorded, and
\* none is recorded without being booked (balance_manager.py:60-83, types.py:154).
THEOREM LedgerHolds == Spec => []LedgerMatchesFills
<1>1. LedgerInv => LedgerMatchesFills
  BY LedgerIsSums DEF LedgerInv
<1> QED BY <1>1, LedgerInit, LedgerStep, PTL DEF Spec

-----------------------------------------------------------------------------
(* At what price. *)

\* An order with a limit has been filled within it.
Limited(o) == o.type \in {"LIMIT", "LIMIT_MAKER"}

WithinLimit(o) ==
  Limited(o) =>
    IF o.side = "BUY" THEN o.cost <= o.price * o.filled ELSE o.price * o.filled <= o.cost

\* With LimitOrderEngine no maker order has a fill.
MakerUnfilled(o) == Engine = "Limit" /\ o.type = "LIMIT_MAKER" => o.filled = 0

NoMakerFilled == \A id \in OrderIds : orders[id].type = "LIMIT_MAKER" => orders[id].filled = 0

\* With the engines that fill at one price an order has cost its own price.
PaidExactly(o) == Engine # "Depth" /\ o.type # "MARKET" => o.cost = o.price * o.filled

FilledFairly(o) == WithinLimit(o) /\ MakerUnfilled(o) /\ PaidExactly(o)

PriceInv == TypeInv /\ \A id \in OrderIds : FilledFairly(orders[id])

\* The property, one order at a time.
LEMMA LimitsOneByOne ==
  ASSUME TypeInv
  PROVE  LimitsAreKept <=> \A id \in OrderIds : WithinLimit(orders[id])
<1> SUFFICES ASSUME NEW id \in OrderIds
             PROVE  WithinLimit(orders[id]) <=>
                      LET o == orders[id] IN
                        o.type \in {"LIMIT", "LIMIT_MAKER"} =>
                          IF o.side = "BUY" THEN o.cost <= o.price * o.filled
                                            ELSE o.cost >= o.price * o.filled
  BY DEF LimitsAreKept
<1>1. PICK c \in Int, p \in Int : c = orders[id].cost /\ p = orders[id].price * orders[id].filled
  <2>1. /\ orders[id].cost \in Int /\ orders[id].price \in Nat /\ orders[id].filled \in Nat
    BY DEF TypeInv, TypeOK, Order
  <2>2. \A x, y \in Nat : x * y \in Int
    OBVIOUS
  <2> QED BY <2>1, <2>2
<1> QED BY <1>1 DEF WithinLimit, Limited

\* A fill adds an amount and a cost that keep the limit.
LEMMA FillKeepsFairness ==
  ASSUME NEW o \in Order, o.filled <= o.amount, NEW b \in Book, NEW fee \in Int,
         NEW m \in CheckAndMatch(o, b), FilledFairly(o)
  PROVE  FilledFairly(UpdateWithFill(o, m.amount, m.cost, fee))
<1> DEFINE u == UpdateWithFill(o, m.amount, m.cost, fee)
<1>1. /\ u.filled = o.filled + m.amount /\ u.cost = o.cost + m.cost
      /\ u.type = o.type /\ u.side = o.side /\ u.price = o.price
  BY DEF UpdateWithFill, Order
<1>2. /\ o.filled \in Nat /\ o.cost \in Int /\ o.price \in Nat /\ o.amount \in Nat
      /\ o.side \in {"BUY", "SELL"}
  BY DEF Order, Sides
<1>3. m.amount \in Nat /\ m.cost \in Int
  <2>1. m.amount \in 0 .. Remaining(o) /\ m.cost \in Int
    BY MatchWithinRemaining
  <2>2. Remaining(o) \in Int
    BY <1>2 DEF Remaining
  <2> QED BY <2>1, <2>2
<1>4. PICK p \in Nat, f \in Nat, a \in Nat, c \in Int, d \in Int :
        p = o.price /\ f = o.filled /\ a = m.amount /\ c = o.cost /\ d = m.cost
  BY <1>2, <1>3
<1> HIDE DEF u
<1>5. WithinLimit(u)
  <2> SUFFICES ASSUME Limited(u)
               PROVE  IF u.side = "BUY" THEN u.cost <= u.price * u.filled
                                        ELSE u.price * u.filled <= u.cost
    BY DEF WithinLimit
  <2>1. Limited(o) /\ o.type # "MARKET"
    BY <1>1 DEF Limited
  <2>2. IF o.side = "BUY" THEN d <= p * a ELSE p * a <= d
    BY <1>4, <2>1, MatchWithinLimit
  <2>3. IF o.side = "BUY" THEN c <= p * f ELSE p * f <= c
    BY <1>4, <2>1 DEF FilledFairly, WithinLimit
  <2>4. p * (f + a) = p * f + p * a /\ p * f \in Int /\ p * a \in Int
    OBVIOUS
  <2>5. u.cost = c + d /\ u.price * u.filled = p * f + p * a /\ u.side = o.side
    BY <1>1, <1>4, <2>4
  <2>6. \A v, w, x, y \in Int : v <= w /\ x <= y => v + x <= w + y
    OBVIOUS
  <2> QED BY <1>4, <2>2, <2>3, <2>4, <2>5, <2>6
<1>6. MakerUnfilled(u)
  <2>1. Engine = "Limit" /\ o.type = "LIMIT_MAKER" => CheckAndMatch(o, b) = {}
    BY DEF CheckAndMatch, MatchLimitEngine, MatchLimitMaker, NoMatch
  <2> QED BY <1>1, <2>1 DEF MakerUnfilled
<1>7. PaidExactly(u)
  <2> SUFFICES ASSUME Engine # "Depth", o.type # "MARKET" PROVE u.cost = u.price * u.filled
    BY <1>1 DEF PaidExactly
  <2>1. m \in FillAt(o, o.price)
    <3> HIDE DEF FillAt
    <3>1. CASE Engine = "Immediate"
      BY <3>1 DEF CheckAndMatch, MatchImmediate
    <3>2. CASE Engine = "Limit"
      BY <3>2 DEF CheckAndMatch, MatchLimitEngine, MatchLimit, MatchLimitMaker, NoMatch
    <3> QED BY <3>1, <3>2, EngineAssumption
  <2>2. d = p * a
    BY <1>4, <2>1 DEF FillAt
  <2>3. c = p * f
    BY <1>4 DEF FilledFairly, PaidExactly
  <2>4. p * (f + a) = p * f + p * a
    OBVIOUS
  <2>5. u.cost = c + d /\ u.price * u.filled = p * f + p * a
    BY <1>1, <1>4, <2>4
  <2> QED BY <2>2, <2>3, <2>5
<1> QED BY <1>5, <1>6, <1>7 DEF FilledFairly, u

\* An order without fills has kept every limit.
LEMMA UnfilledIsFair ==
  ASSUME NEW o, o.filled = 0, o.cost = 0, o.price \in Nat
  PROVE  FilledFairly(o)
<1>1. o.price * o.filled = 0
  OBVIOUS
<1> QED BY <1>1 DEF FilledFairly, WithinLimit, MakerUnfilled, PaidExactly

\* Placing, withdrawing and filling are all that moves an order.
LEMMA PriceStep == PriceInv /\ [Next]_vars => PriceInv'
<1> SUFFICES ASSUME PriceInv, [Next]_vars PROVE PriceInv'
  OBVIOUS
<1>a. TypeInv /\ TypeInv' /\ \A id \in OrderIds : FilledFairly(orders[id])
  BY TypeStep DEF PriceInv
<1>b. SUFFICES \A id \in OrderIds : FilledFairly(orders'[id])
  BY <1>a DEF PriceInv, FilledFairly, WithinLimit, MakerUnfilled, PaidExactly, Limited
<1>c. /\ stack \in Seq(Frame) /\ orders \in [OrderIds -> Order] /\ book \in Book
      /\ Requests \subseteq Request /\ todo \subseteq 1 .. counter /\ counter \in 0 .. MaxOrders
  BY <1>a, ExchangeAssumption DEF TypeInv, TypeOK
<1>1. ASSUME NEW r \in Request, NEW under \in Seq(Frame), PlaceOrder(r, under)
      PROVE  \A id \in OrderIds : FilledFairly(orders'[id])
  <2>1. PICK k \in {Placed(r), NewOrder(Quantized(r), "FAILED")} :
          orders' = [orders EXCEPT ![counter + 1] = k]
    BY <1>1, <1>a, PlaceOrderType
  <2>2. k.filled = 0 /\ k.cost = 0 /\ k.price \in Nat
    <3>1. {"OPEN", "FAILED"} \subseteq Statuses
      BY DEF Statuses
    <3>2. k \in Order
      BY <2>1, <3>1, NewOrderType DEF Placed
    <3> QED BY <2>1, <3>2 DEF Placed, NewOrder, Order
  <2>3. FilledFairly(k)
    BY <2>2, UnfilledIsFair
  <2> QED BY <1>a, <1>c, <2>1, <2>3
<1>2. ASSUME NEW x \in OrderIds, Withdraw(x) PROVE \A id \in OrderIds : FilledFairly(orders'[id])
  <2>1. orders' = [orders EXCEPT ![x].status = "CANCELLED"]
    BY <1>2 DEF Withdraw
  <2>2. orders'[x] = [orders[x] EXCEPT !.status = "CANCELLED"] /\ orders[x] \in Order
    BY <1>c, <2>1
  <2>3. FilledFairly(orders'[x])
    BY <1>a, <2>2 DEF FilledFairly, WithinLimit, MakerUnfilled, PaidExactly, Limited, Order
  <2>4. \A id \in OrderIds : id # x => orders'[id] = orders[id]
    BY <1>c, <2>1
  <2> QED BY <1>a, <2>3, <2>4
<1>3. ASSUME NEW x \in OrderIds, NEW m \in CheckAndMatch(orders[x], book), NEW under,
             ProcessFill(x, m, under)
      PROVE  \A id \in OrderIds : FilledFairly(orders'[id])
  <2>1. orders[x] \in Order /\ orders[x].filled <= orders[x].amount
    BY <1>a, <1>c DEF TypeInv, NoOverfill
  <2> DEFINE fee == CalculateFee(orders[x], m.cost)
  <2>2. orders' = [orders EXCEPT ![x] = UpdateWithFill(orders[x], m.amount, m.cost, fee)]
    BY <1>3 DEF ProcessFill
  <2>3. fee \in Int
    BY <2>1, <1>c, MatchCosts, FeeIsCharged
  <2> HIDE DEF fee
  <2>4. FilledFairly(UpdateWithFill(orders[x], m.amount, m.cost, fee))
    BY <1>a, <1>c, <2>1, <2>3, FillKeepsFairness
  <2> QED BY <1>a, <1>c, <2>2, <2>4
<1>4. ASSUME NEW r \in Requests, Place(r) PROVE \A id \in OrderIds : FilledFairly(orders'[id])
  BY <1>1, <1>4, <1>c DEF Place
<1>5. ASSUME NEW id \in OrderIds, Cancel(id) PROVE \A x \in OrderIds : FilledFairly(orders'[x])
  BY <1>2, <1>5 DEF Cancel
<1>6. CASE FireConditionalOrder
  <2>1. todo # {} /\ Withdraw(Upcoming)
    BY <1>6 DEF FireConditionalOrder, LoopIn
  <2> QED BY <1>2, <1>a, <2>1, UpcomingType
<1>7. CASE MatchOrder
  <2>1. todo # {} /\ \E m \in CheckAndMatch(orders[Upcoming], book) : ProcessFill(Upcoming, m, stack)
    BY <1>7 DEF MatchOrder, LoopIn
  <2>2. Upcoming \in OrderIds
    BY <1>a, <2>1, UpcomingType
  <2> QED BY <1>3, <2>1, <2>2
<1>8. CASE AfterCreatedMatch
  <2>1. /\ stack # << >>
        /\ \E m \in CheckAndMatch(orders[Top.id], book) : ProcessFill(Top.id, m, Below)
    BY <1>8 DEF AfterCreatedMatch, Resumes
  <2>2. Top.id \in OrderIds
    BY <1>c, <2>1, StackShape DEF Frame
  <2> QED BY <1>3, <2>1, <2>2
<1>9. CASE AfterTriggered
  <2>1. stack # << >> /\ PlaceOrder(MarketRequest(orders[Top.id]), Below)
    BY <1>9 DEF AfterTriggered, Resumes
  <2>2. Top.id \in OrderIds /\ Below \in Seq(Frame)
    BY <1>c, <2>1, StackShape DEF Frame
  <2>3. MarketRequest(orders[Top.id]) \in Request
    BY <1>c, <2>2, MarketRequestType
  <2> QED BY <1>1, <2>1, <2>2, <2>3
<1>10. CASE \/ MarketData \/ ProcessTick \/ EvaluateOrder \/ StartMatching \/ LeaveOrder \/ EndTick
            \/ AfterNotice \/ AfterCreatedRest \/ AfterFilledComplete \/ ConsumeLiquidity
            \/ UNCHANGED vars
  <2>1. orders' = orders
    BY <1>10 DEF MatchOrder, MarketData, ProcessTick, EvaluateOrder, StartMatching, LeaveOrder,
                 EndTick, AfterNotice, AfterCreatedRest, AfterFilledComplete, ConsumeLiquidity, vars
  <2> QED BY <1>a, <2>1
<1> QED BY <1>4, <1>5, <1>6, <1>7, <1>8, <1>9, <1>10 DEF Next, Loop, Resume

\* No order has a fill at the start.
LEMMA PriceInit == Init => PriceInv
<1> SUFFICES ASSUME Init PROVE PriceInv
  OBVIOUS
<1>1. FilledFairly(NoOrder)
  <2>1. NoOrder.filled = 0 /\ NoOrder.cost = 0 /\ NoOrder.price \in Nat
    BY DEF NoOrder
  <2> QED BY <2>1, UnfilledIsFair
<1>2. \A id \in OrderIds : orders[id] = NoOrder
  BY DEF Init
<1> QED BY <1>1, <1>2, TypeInit DEF PriceInv

\* With every engine, over any books and also when listeners cancel orders that
\* a loop still holds, an order that has a limit is filled within it in the sum
\* of all its fills (matching_engine.py:100-117, 193-263).
THEOREM LimitsHold == Spec => []LimitsAreKept
<1>1. PriceInv => LimitsAreKept
  BY LimitsOneByOne DEF PriceInv, FilledFairly
<1> QED BY <1>1, PriceInit, PriceStep, PTL DEF Spec

\* LimitOrderEngine fills no maker order, at any book: its second test repeats
\* the one that returned None before it (matching_engine.py:119-143).
THEOREM MakersNeverFill == Engine = "Limit" => (Spec => []NoMakerFilled)
<1> SUFFICES ASSUME Engine = "Limit" PROVE Spec => []NoMakerFilled
  OBVIOUS
<1>1. PriceInv => NoMakerFilled
  BY DEF PriceInv, FilledFairly, MakerUnfilled, NoMakerFilled
<1> QED BY <1>1, PriceInit, PriceStep, PTL DEF Spec

\* For every book and order the depth walk is best execution: taking the same
\* amount from the levels within the limit in any other way costs a purchase no
\* less and brings a sale no more (matching_engine.py:169-241).
THEOREM WalkIsBestExecution == Spec => []WalkIsBest
<1>1. TypeInv => WalkIsBest
  <2> SUFFICES ASSUME TypeInv, NEW id \in OrderIds, Engine = "Depth",
                      orders[id].type \in {"MARKET", "LIMIT"},
                      NEW m \in CheckAndMatch(orders[id], book),
                      NEW take \in Ways(orders[id], m.amount)
               PROVE  IF orders[id].side = "BUY" THEN m.cost <= CostOfTaking(take)
                                                 ELSE m.cost >= CostOfTaking(take)
    BY DEF WalkIsBest
  <2> DEFINE o == orders[id]
             takes == Takes(o, book)
             costs == [p \in Prices |-> p * takes[p]]
             cost == Total(costs, MaxPrice)
             amount == Lower(Remaining(o), Total(Offered(o, book), MaxPrice))
             w == [p \in Prices |-> p * take[p]]
  <2>1. /\ o \in Order /\ o.filled <= o.amount /\ book \in Book
        /\ MaxPrice \in Nat /\ Prices = 1 .. MaxPrice
    BY MaxPriceAssumption DEF TypeInv, TypeOK, NoOverfill, Prices
  <2>2. m \in MatchWithDepth(o, book)
    <3> HIDE DEF MatchWithDepth
    <3> QED BY DEF CheckAndMatch, MatchDepthEngine
  <2>3. m.cost = cost /\ m.amount = amount
    <3> HIDE DEF takes
    <3>1. m \in IF amount <= 0 THEN NoMatch
                ELSE {[amount |-> amount, cost |-> cost,
                       level |-> IF cost % amount = 0 THEN cost \div amount ELSE NoPrice]}
      BY <2>2 DEF MatchWithDepth, takes
    <3> HIDE DEF amount, cost
    <3> QED BY <3>1 DEF NoMatch
  <2>4. Total(take, MaxPrice) = Total(takes, MaxPrice)
    BY <2>1, <2>3, WalkTakesAmount DEF Ways
  <2>5. \A p \in 1 .. MaxPrice : take[p] \in Nat /\ take[p] <= Offered(o, book)[p]
    <3>1. Remaining(o) \in Int
      BY <2>1 DEF Remaining, Order
    <3>2. \A p \in Prices : take[p] \in 0 .. Remaining(o) /\ take[p] <= Offered(o, book)[p]
      BY DEF Ways
    <3> QED BY <2>1, <3>1, <3>2
  <2>6. \A p \in 1 .. MaxPrice : costs[p] = p * takes[p] /\ w[p] = p * take[p]
    BY <2>1
  <2>7. CostOfTaking(take) = Total(w, MaxPrice)
    BY DEF CostOfTaking
  <2>8. cost \in Int /\ Total(w, MaxPrice) \in Int
    <3>1. \A x, y \in Nat : x * y \in Int
      OBVIOUS
    <3>2. ASSUME NEW p \in 1 .. MaxPrice PROVE costs[p] \in Int /\ w[p] \in Int
      <4>1. p \in Nat /\ takes[p] \in Nat /\ take[p] \in Nat
        BY <2>1, <2>5, TakesType
      <4> HIDE DEF takes
      <4> QED BY <2>6, <3>1, <4>1
    <3> HIDE DEF costs, w
    <3> QED BY <2>1, <3>2, TotalType
  <2> HIDE DEF costs, w
  <2>9. IF o.side = "BUY" THEN cost <= Total(w, MaxPrice) ELSE Total(w, MaxPrice) <= cost
    BY <2>1, <2>4, <2>5, <2>6, WalkIsBestWay
  <2> HIDE DEF o, cost
  <2> QED BY <2>3, <2>7, <2>8, <2>9 DEF o
<1> QED BY <1>1, TypeInit, TypeStep, PTL DEF Spec

-----------------------------------------------------------------------------
(* What was announced. *)

Waits(at, id) == \E i \in DOMAIN stack : stack[i].at = at /\ stack[i].id = id

Replaces(c, id) ==
  /\ c \in 1 .. counter
  /\ orders[c].type = "MARKET"
  /\ orders[c].side = orders[id].side
  /\ orders[c].amount = orders[id].amount

\* A suspended call and the record of its order. Orders fire only from the
\* driver's loop, so the call that fired one is the outermost.
FrameOK(i) ==
  /\ stack[i].id <= counter
  /\ stack[i].at = "filled" =>
       /\ ~IsConditional(orders[stack[i].id])
       /\ orders[stack[i].id].status = "FILLED" => lastEvent[stack[i].id] = "filled"
  /\ stack[i].at = "triggered" =>
       i = 1 /\ lastEvent[stack[i].id] = "triggered" /\ childOf[stack[i].id] = 0

\* The status of an order and the last event about it.
RecordOK(id) ==
  /\ id > counter => lastEvent[id] = "none" /\ childOf[id] = 0
  /\ IsOpen(orders[id]) => lastEvent[id] \in {"created", "filled"}
  /\ orders[id].status = "FILLED" =>
       lastEvent[id] = "completed" \/ (lastEvent[id] = "filled" /\ Waits("filled", id))
  /\ lastEvent[id] = "completed" => orders[id].status = "FILLED"
  /\ lastEvent[id] = "filled" =>
       /\ ~IsConditional(orders[id])
       /\ orders[id].status \in {"FILLED", "PARTIALLY_FILLED"}
       /\ orders[id].status = "FILLED" <=> Remaining(orders[id]) = 0
  /\ lastEvent[id] = "triggered" =>
       /\ IsConditional(orders[id]) /\ orders[id].status = "CANCELLED"
       /\ childOf[id] # 0 \/ Waits("triggered", id)
  /\ childOf[id] # 0 => lastEvent[id] = "triggered" /\ Replaces(childOf[id], id)
  /\ Quantize(orders[id].amount, AmountIncrement) = orders[id].amount

InFill == {"created", "filled"}

\* No order has two calls suspended on its way from creation to fill.
OneFillCall ==
  \A i, j \in DOMAIN stack :
    stack[i].at \in InFill /\ stack[j].at \in InFill /\ stack[i].id = stack[j].id => i = j

LoopIsPlain == phase = "matching" => \A id \in todo : ~IsConditional(orders[id])

OneParent ==
  \A a, b \in OrderIds : childOf[a] # 0 /\ childOf[a] = childOf[b] => a = b

CallInv ==
  /\ TypeInv
  /\ \A i \in DOMAIN stack : FrameOK(i)
  /\ OneFillCall /\ LoopIsPlain
  /\ \A id \in OrderIds : RecordOK(id)
  /\ OneParent

\* The calls from k on end or begin, and only the records of S change.
LEMMA CallsMove ==
  ASSUME CallInv, TypeInv',
         NEW k \in Nat, Len(stack) \in {k, k + 1}, Len(stack') \in {k, k + 1},
         \A i \in 1 .. k : stack'[i] = stack[i],
         counter <= counter',
         NEW S \in SUBSET OrderIds,
         \A x \in OrderIds \ S :
           orders'[x] = orders[x] /\ lastEvent'[x] = lastEvent[x] /\ childOf'[x] = childOf[x],
         \A x \in OrderIds : x <= counter =>
           /\ orders'[x].type = orders[x].type
           /\ orders'[x].side = orders[x].side
           /\ orders'[x].amount = orders[x].amount,
         \A x \in S : RecordOK(x)',
         \A i \in 1 .. k : stack[i].id \in S => FrameOK(i)',
         Len(stack') = k + 1 =>
           /\ FrameOK(k + 1)'
           /\ stack'[k + 1].at \in InFill =>
                \A i \in 1 .. k : stack[i].at \in InFill => stack[i].id # stack'[k + 1].id,
         Len(stack) = k + 1 =>
           \/ Top.id \in S
           \/ Top.at \notin {"filled", "triggered"}
           \/ Top.at = "filled" /\ orders[Top.id].status # "FILLED",
         LoopIsPlain', OneParent'
  PROVE  CallInv'
<1>a. /\ Len(stack) \in Nat /\ DOMAIN stack = 1 .. Len(stack)
      /\ Len(stack') \in Nat /\ DOMAIN stack' = 1 .. Len(stack')
      /\ counter \in Nat /\ counter' \in Nat /\ OrderIds \subseteq Nat
  BY DEF CallInv, TypeInv, TypeOK, OrderIds
<1>e. OrderIds = 1 .. MaxOrders /\ MaxOrders \in Nat /\ counter <= MaxOrders
  BY ExchangeAssumption DEF CallInv, TypeInv, TypeOK, OrderIds
<1>f. \A x \in Nat : (x <= counter => x <= counter') /\ (x > counter' => x > counter)
  <2> SUFFICES ASSUME NEW x \in Nat PROVE (x <= counter => x <= counter') /\ (x > counter' => x > counter)
    OBVIOUS
  <2>1. PICK c \in Nat, d \in Nat : c = counter /\ d = counter' /\ c <= d
    BY <1>a, Zenon
  <2>2. (x <= c => x <= d) /\ (x > d => x > c)
    BY <2>1
  <2> QED BY <2>1, <2>2
<1>b. \A i \in DOMAIN stack : stack[i].id \in OrderIds
  <2>1. \A i \in DOMAIN stack : stack[i] \in Frame
    BY <1>a, ElementOfSeq, Zenon DEF CallInv, TypeInv, TypeOK
  <2> QED BY <2>1 DEF Frame
<1>c. \A i \in 1 .. k : i \in DOMAIN stack /\ i \in DOMAIN stack'
  <2> DEFINE n == Len(stack)
             q == Len(stack')
  <2>1. n \in Nat /\ q \in Nat /\ n \in {k, k + 1} /\ q \in {k, k + 1}
    BY <1>a, Zenon
  <2> HIDE DEF n, q
  <2>2. \A i \in 1 .. k : i \in 1 .. n /\ i \in 1 .. q
    BY <2>1
  <2> QED BY <1>a, <2>2, Zenon DEF n, q
<1>d. /\ \A i \in DOMAIN stack : i \in 1 .. k \/ (i = k + 1 /\ Len(stack) = k + 1)
      /\ \A i \in DOMAIN stack' : i \in 1 .. k \/ (i = k + 1 /\ Len(stack') = k + 1)
  <2> DEFINE n == Len(stack)
             q == Len(stack')
  <2>1. n \in Nat /\ q \in Nat /\ n \in {k, k + 1} /\ q \in {k, k + 1}
    BY <1>a, Zenon
  <2> HIDE DEF n, q
  <2>2. /\ \A i \in 1 .. n : i \in 1 .. k \/ (i = k + 1 /\ n = k + 1)
        /\ \A i \in 1 .. q : i \in 1 .. k \/ (i = k + 1 /\ q = k + 1)
    BY <2>1
  <2> QED BY <1>a, <2>2, Zenon DEF n, q
<1>1. ASSUME NEW i \in DOMAIN stack' PROVE FrameOK(i)'
  <2>1. CASE i \in 1 .. k /\ stack[i].id \in S
    BY <2>1
  <2>2. CASE i \in 1 .. k /\ stack[i].id \notin S
    <3>1. /\ stack'[i] = stack[i] /\ stack[i].id \in OrderIds \ S /\ stack[i].id \in Nat
          /\ FrameOK(i)
      BY <1>a, <1>b, <1>c, <2>2, Zenon DEF CallInv
    <3>2. /\ orders'[stack[i].id] = orders[stack[i].id]
          /\ lastEvent'[stack[i].id] = lastEvent[stack[i].id]
          /\ childOf'[stack[i].id] = childOf[stack[i].id]
      BY <3>1
    <3>3. stack[i].id <= counter'
      BY <1>f, <3>1 DEF FrameOK
    <3>4. PICK f : f = stack[i] /\ f = stack'[i]
      BY <3>1
    <3>5. /\ f.at = "filled" =>
               /\ ~IsConditional(orders[f.id])
               /\ orders[f.id].status = "FILLED" => lastEvent[f.id] = "filled"
          /\ f.at = "triggered" =>
               i = 1 /\ lastEvent[f.id] = "triggered" /\ childOf[f.id] = 0
      BY <3>1, <3>4 DEF FrameOK
    <3>6. /\ orders'[f.id] = orders[f.id] /\ lastEvent'[f.id] = lastEvent[f.id]
          /\ childOf'[f.id] = childOf[f.id] /\ f.id <= counter'
      BY <3>2, <3>3, <3>4
    <3>7. /\ f.at = "filled" =>
               /\ ~IsConditional(orders'[f.id])
               /\ orders'[f.id].status = "FILLED" => lastEvent'[f.id] = "filled"
          /\ f.at = "triggered" =>
               i = 1 /\ lastEvent'[f.id] = "triggered" /\ childOf'[f.id] = 0
      BY <3>5, <3>6
    <3> QED BY <3>4, <3>6, <3>7 DEF FrameOK
  <2>3. CASE i = k + 1 /\ Len(stack') = k + 1
    BY <2>3
  <2> QED BY <1>d, <2>1, <2>2, <2>3
<1>2. OneFillCall'
  <2> SUFFICES ASSUME NEW i \in DOMAIN stack', NEW j \in DOMAIN stack',
                      stack'[i].at \in InFill, stack'[j].at \in InFill, stack'[i].id = stack'[j].id
               PROVE  i = j
    BY DEF OneFillCall, InFill
  <2>1. CASE i \in 1 .. k /\ j \in 1 .. k
    BY <1>c, <2>1 DEF CallInv, OneFillCall
  <2>2. CASE i \in 1 .. k /\ j = k + 1 /\ Len(stack') = k + 1
    BY <2>2
  <2>3. CASE j \in 1 .. k /\ i = k + 1 /\ Len(stack') = k + 1
    BY <2>3
  <2> QED BY <1>d, <2>1, <2>2, <2>3
<1>3. ASSUME NEW x \in OrderIds \ S PROVE RecordOK(x)'
  <2>1. /\ orders'[x] = orders[x] /\ lastEvent'[x] = lastEvent[x] /\ childOf'[x] = childOf[x]
        /\ RecordOK(x) /\ x \in Nat
    BY <1>a DEF CallInv
  <2>2. ASSUME NEW at \in {"filled", "triggered"}, Waits(at, x),
               at = "filled" => orders[x].status = "FILLED"
        PROVE  Waits(at, x)'
    <3>1. PICK i \in DOMAIN stack : stack[i].at = at /\ stack[i].id = x
      BY <2>2 DEF Waits
    <3>2. i # k + 1 \/ Len(stack) # k + 1
      <4> SUFFICES ASSUME i = k + 1, Len(stack) = k + 1 PROVE FALSE
        OBVIOUS
      <4>1. Top.at = at /\ Top.id = x
        BY <3>1 DEF Top
      <4> QED BY <2>2, <4>1
    <3>3. i \in 1 .. k /\ i \in DOMAIN stack' /\ stack'[i] = stack[i]
      BY <1>c, <1>d, <3>2
    <3> QED BY <3>1, <3>3 DEF Waits
  <2>3. ASSUME childOf'[x] # 0
        PROVE  /\ childOf'[x] \in 1 .. counter'
               /\ orders'[childOf'[x]].type = "MARKET"
               /\ orders'[childOf'[x]].side = orders'[x].side
               /\ orders'[childOf'[x]].amount = orders'[x].amount
    <3>1. Replaces(childOf[x], x)
      BY <2>1, <2>3 DEF RecordOK
    <3>2. PICK c : c = childOf[x] /\ c = childOf'[x]
      BY <2>1
    <3>3. /\ c \in 1 .. counter /\ orders[c].type = "MARKET"
          /\ orders[c].side = orders[x].side /\ orders[c].amount = orders[x].amount
      BY <3>1, <3>2 DEF Replaces
    <3>4. c \in OrderIds /\ c <= counter /\ c \in 1 .. counter'
      <4>1. PICK d \in Nat, e \in Nat : d = counter /\ e = counter'
        BY <1>a, <1>e, Zenon
      <4>2. d <= MaxOrders /\ d <= e /\ c \in 1 .. d /\ MaxOrders \in Nat
        BY <1>a, <1>e, <3>3, <4>1, Zenon
      <4>3. c \in 1 .. MaxOrders /\ c <= d /\ c \in 1 .. e
        BY <4>2
      <4>4. c \in OrderIds
        BY <1>e, <4>3, Zenon
      <4>5. c <= counter /\ c \in 1 .. counter'
        BY <4>1, <4>3, Zenon
      <4> QED BY <4>4, <4>5
    <3> QED BY <2>1, <3>2, <3>3, <3>4
  <2>4. x > counter' => x > counter
    BY <1>f, <2>1
  <2> QED BY <2>1, <2>2, <2>3, <2>4 DEF RecordOK, Replaces
<1>4. \A x \in OrderIds : RecordOK(x)'
  BY <1>3
<1>5. \A i \in DOMAIN stack' : FrameOK(i)'
  BY <1>1
<1> QED BY <1>2, <1>4, <1>5 DEF CallInv
\* A step that changes no record: a call returns, or none does.
LEMMA CallsReturn ==
  ASSUME CallInv, TypeInv', UNCHANGED <<orders, counter, lastEvent, childOf>>, LoopIsPlain',
         \/ stack' = stack
         \/ /\ stack # << >> /\ stack' = Below
            /\ \/ Top.at \notin {"filled", "triggered"}
               \/ Top.at = "filled" /\ orders[Top.id].status # "FILLED"
  PROVE  CallInv'
<1>1. OneParent'
  BY DEF CallInv, OneParent
<1>2. stack \in Seq(Frame) /\ counter \in Nat /\ Len(stack) \in Nat
  BY DEF CallInv, TypeInv, TypeOK
<1>3. {} \in SUBSET OrderIds /\ counter <= counter'
  BY <1>2
<1>4. CASE stack' = stack
  <2>1. PICK k \in Nat : k = Len(stack)
    BY <1>2
  <2>2. /\ Len(stack) \in {k, k + 1} /\ Len(stack') \in {k, k + 1}
        /\ Len(stack') # k + 1 /\ Len(stack) # k + 1
        /\ \A i \in 1 .. k : stack'[i] = stack[i]
    BY <1>4, <2>1
  <2> QED BY <1>1, <1>3, <2>2, CallsMove
<1>5. CASE /\ stack # << >> /\ stack' = Below
           /\ \/ Top.at \notin {"filled", "triggered"}
              \/ Top.at = "filled" /\ orders[Top.id].status # "FILLED"
  <2>1. PICK k \in Nat : k = Len(Below) /\ Len(stack) = k + 1
    BY <1>2, <1>5, StackShape
  <2>2. /\ Len(stack) \in {k, k + 1} /\ Len(stack') \in {k, k + 1} /\ Len(stack') # k + 1
        /\ \A i \in 1 .. k : stack'[i] = stack[i]
    BY <1>2, <1>5, <2>1, StackShape
  <2> QED BY <1>1, <1>3, <1>5, <2>2, CallsMove
<1> QED BY <1>4, <1>5

\* Rounding down to an increment is done once.
LEMMA QuantizeOnce ==
  ASSUME NEW x \in Nat, NEW inc \in Nat
  PROVE  Quantize(Quantize(x, inc), inc) = Quantize(x, inc)
<1>1. CASE inc = 0
  BY <1>1 DEF Quantize
<1>2. CASE inc # 0
  <2>1. \A q \in Nat, i \in Nat \ {0} : (q * i) \div i = q
    OBVIOUS
  <2>2. PICK q \in Nat : q = x \div inc
    BY <1>2
  <2>3. Quantize(x, inc) = q * inc /\ q * inc \in Nat
    <3>1. \A a, b \in Nat : a * b \in Nat
      OBVIOUS
    <3> QED BY <1>2, <2>2, <3>1 DEF Quantize
  <2>4. Quantize(q * inc, inc) = ((q * inc) \div inc) * inc
    BY <1>2 DEF Quantize
  <2> QED BY <1>2, <2>1, <2>3, <2>4
<1> QED BY <1>1, <1>2

\* A new order has a record of its own, and a call that waits for its first event.
LEMMA PlacingRecords ==
  ASSUME CallInv, TypeInv', NEW r \in Request, NEW under \in Seq(Frame), PlaceOrder(r, under),
         NEW id, id = counter + 1, childOf'[id] = 0, NEW k \in Nat, k = Len(under)
  PROVE  /\ id \in OrderIds /\ counter' = id
         /\ \A x \in OrderIds : x # id => orders'[x] = orders[x] /\ lastEvent'[x] = lastEvent[x]
         /\ RecordOK(id)'
         /\ orders'[id].type = r.type /\ orders'[id].side = r.side
         /\ orders'[id].amount = Quantize(r.amount, AmountIncrement)
         /\ Len(stack') = k + 1
         /\ FrameOK(k + 1)' /\ stack'[k + 1].id = id
         /\ \A i \in 1 .. k : stack'[i] = under[i]
<1> DEFINE o == Placed(r)
           f == NewOrder(Quantized(r), "FAILED")
<1>1. /\ id \in OrderIds /\ counter' = id /\ id \in Nat
      /\ orders \in [OrderIds -> Order] /\ orders' \in [OrderIds -> Order]
      /\ lastEvent \in [OrderIds -> EventPoints \cup {"none"}]
  BY PlaceOrderType DEF CallInv, TypeInv, TypeOK, OrderIds
<1>2. \E n \in {o, f}, e \in {"created", "failed"} :
        /\ e = "created" => n = o
        /\ e = "failed" => n = f
        /\ orders' = [orders EXCEPT ![id] = n]
        /\ Dispatch(e, id, under, NoPrice, 0)
  <2>1. f = [o EXCEPT !.status = "FAILED"]
    BY DEF NewOrder, Placed
  <2> HIDE DEF f
  <2> QED BY <2>1 DEF PlaceOrder, Placed
<1>3. PICK n \in {o, f}, e \in {"created", "failed"} :
        /\ e = "created" => n = o
        /\ e = "failed" => n = f
        /\ orders' = [orders EXCEPT ![id] = n]
        /\ Dispatch(e, id, under, NoPrice, 0)
  BY <1>2
<1>4. /\ orders'[id] = n /\ lastEvent'[id] = e
      /\ \A x \in OrderIds : x # id => orders'[x] = orders[x] /\ lastEvent'[x] = lastEvent[x]
  BY <1>1, <1>3 DEF Dispatch
<1>5. /\ n.type = r.type /\ n.side = r.side /\ n.amount = Quantize(r.amount, AmountIncrement)
      /\ n.status = (IF e = "created" THEN "OPEN" ELSE "FAILED")
  BY <1>3 DEF NewOrder, Placed, Quantized, Request
<1>6. Quantize(n.amount, AmountIncrement) = n.amount
  <2>1. r.amount \in Nat /\ AmountIncrement \in Nat
    BY IncrementAssumption DEF Request
  <2> QED BY <1>5, <2>1, QuantizeOnce
<1>7. /\ Len(stack') = k + 1
      /\ stack'[k + 1] = CallFrame(e, id, NoPrice, 0)
      /\ \A i \in 1 .. k : stack'[i] = under[i]
  <2>1. e \in EventPoints /\ NoPrice \in Int /\ 0 \in Int
    BY <1>3 DEF EventPoints, NoPrice
  <2>2. /\ id \in OrderIds /\ lastEvent \in [OrderIds -> EventPoints \cup {"none"}]
        /\ Dispatch(e, id, under, NoPrice, 0)
    BY <1>1, <1>3
  <2>3. /\ Len(stack') = Len(under) + 1
        /\ stack'[Len(under) + 1] = CallFrame(e, id, NoPrice, 0)
        /\ \A i \in 1 .. Len(under) : stack'[i] = under[i]
    BY <2>1, <2>2, DispatchType, Zenon
  <2> QED BY <2>3
<1> HIDE DEF o, f
<1>8. stack'[k + 1].id = id /\ stack'[k + 1].at = e
  BY <1>7 DEF CallFrame
<1>9. FrameOK(k + 1)'
  <2>1. id <= counter'
    BY <1>1
  <2>2. PICK g : g = stack'[k + 1] /\ g.id = id /\ g.at = e
    BY <1>8
  <2>3. g.id <= counter' /\ g.at # "filled" /\ g.at # "triggered"
    BY <1>3, <2>1, <2>2
  <2> QED BY <2>2, <2>3 DEF FrameOK
<1>10. RecordOK(id)'
  <2>1. ~(id > counter')
    BY <1>1
  <2> QED BY <1>3, <1>4, <1>5, <1>6, <2>1 DEF RecordOK, IsOpen
<1> QED BY <1>1, <1>4, <1>5, <1>7, <1>8, <1>9, <1>10

\* The lists process_tick has copied do not hold the next identifier.
LEMMA ListIsOld ==
  ASSUME TypeInv, NEW id, id = counter + 1
  PROVE  \A x \in todo : x # id /\ x \in OrderIds
<1>1. todo \subseteq 1 .. counter /\ counter \in 0 .. MaxOrders /\ MaxOrders \in Nat
  BY ExchangeAssumption DEF TypeInv, TypeOK
<1>2. \A x \in 1 .. counter : x # counter + 1 /\ x \in 1 .. MaxOrders
  BY <1>1
<1> QED BY <1>1, <1>2 DEF OrderIds

\* Place keeps the invariant of the suspended calls.
LEMMA CallsAfterPlacing ==
  ASSUME CallInv, TypeInv', NEW r \in Request, PlaceOrder(r, stack), UNCHANGED <<phase, todo, childOf>>
  PROVE  CallInv'
<1>1. /\ stack \in Seq(Frame) /\ Len(stack) \in Nat /\ counter \in Nat /\ todo \subseteq 1 .. counter
      /\ DOMAIN stack = 1 .. Len(stack)
  BY DEF CallInv, TypeInv, TypeOK
<1>2. PICK id \in OrderIds, k \in Nat : id = counter + 1 /\ k = Len(stack)
  BY <1>1, PlaceOrderType DEF CallInv
<1>3. id > counter /\ id \in Nat
  BY <1>1, <1>2
<1>4. childOf'[id] = 0
  BY <1>2, <1>3 DEF CallInv, RecordOK
<1>5. /\ counter' = id
      /\ \A x \in OrderIds : x # id => orders'[x] = orders[x] /\ lastEvent'[x] = lastEvent[x]
      /\ RecordOK(id)'
      /\ Len(stack') = k + 1
      /\ FrameOK(k + 1)' /\ stack'[k + 1].id = id
      /\ \A i \in 1 .. k : stack'[i] = stack[i]
  <2>1. id = counter + 1 /\ k = Len(stack) /\ stack \in Seq(Frame)
    BY <1>1, <1>2
  <2>2. /\ id \in OrderIds /\ counter' = id
        /\ \A x \in OrderIds : x # id => orders'[x] = orders[x] /\ lastEvent'[x] = lastEvent[x]
        /\ RecordOK(id)'
        /\ orders'[id].type = r.type /\ orders'[id].side = r.side
        /\ orders'[id].amount = Quantize(r.amount, AmountIncrement)
        /\ Len(stack') = k + 1
        /\ FrameOK(k + 1)' /\ stack'[k + 1].id = id
        /\ \A i \in 1 .. k : stack'[i] = stack[i]
    BY <1>4, <2>1, PlacingRecords
  <2> QED BY <2>2
<1>6. \A i \in 1 .. k : stack[i].id # id
  <2> SUFFICES ASSUME NEW i \in 1 .. k PROVE stack[i].id # id
    OBVIOUS
  <2>1. stack[i].id <= counter
    BY <1>1, <1>2 DEF CallInv, FrameOK
  <2> QED BY <1>1, <1>3, <2>1
<1>7. LoopIsPlain'
  <2>1. \A x \in todo : x # id /\ x \in OrderIds
    BY <1>2, ListIsOld DEF CallInv
  <2> QED BY <1>5, <2>1 DEF CallInv, LoopIsPlain, IsConditional
<1>8. OneParent'
  BY DEF CallInv, OneParent
<1>9. /\ {id} \in SUBSET OrderIds
      /\ Len(stack) \in {k, k + 1} /\ Len(stack') \in {k, k + 1} /\ Len(stack) # k + 1
  <2>1. {id} \in SUBSET OrderIds
    BY <1>2
  <2>2. Len(stack) = k /\ Len(stack') = k + 1 /\ k # k + 1
    BY <1>2, <1>5
  <2> QED BY <2>1, <2>2
<1>12. counter <= counter'
  BY <1>1, <1>3, <1>5
<1>10. \A x \in OrderIds \ {id} :
         orders'[x] = orders[x] /\ lastEvent'[x] = lastEvent[x] /\ childOf'[x] = childOf[x]
  BY <1>5
<1>11. \A x \in OrderIds : x <= counter => x # id /\ orders'[x] = orders[x]
  BY <1>1, <1>3, <1>5
<1> QED BY <1>5, <1>6, <1>7, <1>8, <1>9, <1>10, <1>11, <1>12, CallsMove

\* The call that fired an order is the outermost, and ends in its replacement.
LEMMA CallsAfterTriggered ==
  ASSUME CallInv, TypeInv', AfterTriggered
  PROVE  CallInv'
<1>1. /\ stack \in Seq(Frame) /\ Len(stack) \in Nat /\ counter \in Nat /\ todo \subseteq 1 .. counter
      /\ DOMAIN stack = 1 .. Len(stack) /\ orders \in [OrderIds -> Order]
      /\ childOf \in [OrderIds -> 0 .. MaxOrders] /\ OrderIds \subseteq Nat
  BY DEF CallInv, TypeInv, TypeOK, OrderIds
<1>2. /\ stack # << >> /\ Top.at = "triggered"
      /\ PlaceOrder(MarketRequest(orders[Top.id]), Below)
      /\ childOf' = [childOf EXCEPT ![Top.id] = counter + 1]
      /\ UNCHANGED <<phase, todo>>
  BY DEF AfterTriggered, Resumes
<1>3. /\ Top \in Frame /\ Below \in Seq(Frame) /\ Len(stack) \in Nat \ {0}
      /\ Len(Below) = Len(stack) - 1
  BY <1>1, <1>2, StackShape, Zenon
<1>4. PICK p \in OrderIds, id \in {counter + 1}, r \in {MarketRequest(orders[Top.id])} :
        p = Top.id /\ id = counter + 1 /\ r = MarketRequest(orders[p])
  BY <1>3 DEF Frame
<1>5. FrameOK(Len(stack)) /\ stack[Len(stack)] = Top
  BY <1>1, <1>3 DEF CallInv, Top
<1>6. Len(stack) = 1 /\ lastEvent[p] = "triggered" /\ p <= counter
  BY <1>2, <1>4, <1>5 DEF FrameOK
<1>7. Len(Below) = 0
  BY <1>3, <1>6
<1>8. r \in Request
  BY <1>1, <1>4, MarketRequestType
<1>9. id \in OrderIds /\ id > counter /\ id \in Nat /\ id # p
  <2>1. id \in OrderIds
    BY <1>2, <1>3, <1>4, <1>8, PlaceOrderType DEF CallInv
  <2> QED BY <1>1, <1>4, <1>6, <2>1
<1>10. childOf'[id] = 0 /\ childOf'[p] = id /\ \A x \in OrderIds : x # p => childOf'[x] = childOf[x]
  <2>1. childOf[id] = 0
    BY <1>9 DEF CallInv, RecordOK
  <2> QED BY <1>1, <1>2, <1>4, <1>9, <2>1
<1>11. /\ counter' = id
       /\ \A x \in OrderIds : x # id => orders'[x] = orders[x] /\ lastEvent'[x] = lastEvent[x]
       /\ RecordOK(id)'
       /\ orders'[id].type = r.type /\ orders'[id].side = r.side
       /\ orders'[id].amount = Quantize(r.amount, AmountIncrement)
       /\ Len(stack') = 1 /\ FrameOK(1)' /\ stack'[1].id = id
  <2>1. PlaceOrder(r, Below)
    BY <1>2, <1>4
  <2>2. PICK k \in Nat : k = Len(Below) /\ k = 0
    BY <1>7
  <2>3. /\ counter' = id
        /\ \A x \in OrderIds : x # id => orders'[x] = orders[x] /\ lastEvent'[x] = lastEvent[x]
        /\ RecordOK(id)'
        /\ orders'[id].type = r.type /\ orders'[id].side = r.side
        /\ orders'[id].amount = Quantize(r.amount, AmountIncrement)
        /\ Len(stack') = k + 1 /\ FrameOK(k + 1)' /\ stack'[k + 1].id = id
    BY <1>3, <1>4, <1>8, <1>10, <2>1, <2>2, PlacingRecords
  <2>4. k + 1 = 1
    BY <2>2
  <2> QED BY <2>3, <2>4
<1>12. RecordOK(p)'
  <2>1. RecordOK(p)
    BY DEF CallInv
  <2>2. /\ orders'[p] = orders[p] /\ lastEvent'[p] = "triggered" /\ childOf'[p] = id
        /\ IsConditional(orders[p]) /\ orders[p].status = "CANCELLED"
        /\ Quantize(orders[p].amount, AmountIncrement) = orders[p].amount
    BY <1>6, <1>9, <1>10, <1>11, <2>1 DEF RecordOK
  <2>3. /\ orders'[id].type = "MARKET" /\ orders'[id].side = orders'[p].side
        /\ orders'[id].amount = orders'[p].amount
    BY <1>4, <1>11, <2>2 DEF MarketRequest
  <2>4. id \in 1 .. counter' /\ ~(p > counter') /\ id # 0
    BY <1>1, <1>6, <1>9, <1>11
  <2> QED BY <2>2, <2>3, <2>4 DEF RecordOK, Replaces, IsOpen
<1>13. OneParent'
  <2>1. \A x \in OrderIds : childOf[x] # id
    <3> SUFFICES ASSUME NEW x \in OrderIds, childOf[x] = id PROVE FALSE
      OBVIOUS
    <3>1. childOf[x] # 0 => childOf[x] \in 1 .. counter
      BY DEF CallInv, RecordOK, Replaces
    <3> QED BY <1>1, <1>9, <3>1
  <2> SUFFICES ASSUME NEW a \in OrderIds, NEW b \in OrderIds,
                      childOf'[a] # 0, childOf'[a] = childOf'[b]
               PROVE  a = b
    BY DEF OneParent
  <2>2. CASE a # p /\ b # p
    BY <1>10, <2>2 DEF CallInv, OneParent
  <2>3. CASE a = p \/ b = p
    BY <1>10, <2>1, <2>3
  <2> QED BY <2>2, <2>3
<1>14. LoopIsPlain'
  <2>1. \A x \in todo : x # id /\ x \in OrderIds
    BY <1>4, ListIsOld DEF CallInv
  <2> QED BY <1>2, <1>11, <2>1 DEF CallInv, LoopIsPlain, IsConditional
<1>15. PICK k \in Nat : k = 0
  OBVIOUS
<1>16. /\ {p, id} \in SUBSET OrderIds /\ counter <= counter'
       /\ Len(stack) \in {k, k + 1} /\ Len(stack') \in {k, k + 1}
       /\ \A i \in 1 .. k : FALSE
  BY <1>1, <1>4, <1>6, <1>9, <1>11, <1>15
<1>17. \A x \in OrderIds \ {p, id} :
         orders'[x] = orders[x] /\ lastEvent'[x] = lastEvent[x] /\ childOf'[x] = childOf[x]
  BY <1>10, <1>11
<1>18. \A x \in OrderIds : x <= counter => x # id /\ orders'[x] = orders[x]
  BY <1>1, <1>9, <1>11
<1>19. (\A x \in {p, id} : RecordOK(x)') /\ Top.id \in {p, id}
  BY <1>4, <1>11, <1>12
<1>20. FrameOK(k + 1)'
  <2>1. k + 1 = 1
    BY <1>15
  <2> QED BY <1>11, <2>1
<1> QED BY <1>13, <1>14, <1>16, <1>17, <1>18, <1>19, <1>20, CallsMove, Zenon

\* What an event about a placed order says of it.
Announces(e, o) ==
  \/ e = "cancelled" /\ o.status = "CANCELLED"
  \/ e = "triggered" /\ o.status = "CANCELLED" /\ IsConditional(o)
  \/ /\ e = "filled" /\ ~IsConditional(o)
     /\ o.status \in {"FILLED", "PARTIALLY_FILLED"}
     /\ o.status = "FILLED" <=> Remaining(o) = 0
  \/ e = "completed" /\ o.status = "FILLED"

\* The calls up to k about an order are not contradicted by an event that leaves it as o.
Bear(k, id, e, o) ==
  \A i \in 1 .. k : stack[i].id = id =>
    /\ stack[i].at # "triggered"
    /\ stack[i].at = "filled" => ~IsConditional(o) /\ o.status # "FILLED"
    /\ e \in InFill => stack[i].at \notin InFill

\* The calls up to k go on, and at most one ends that is about the order.
Keeps(k, id, under) ==
  /\ k = Len(under)
  /\ Len(stack) = k \/ (Len(stack) = k + 1 /\ Top.id = id)
  /\ \A i \in 1 .. k : under[i] = stack[i]

\* The record of one placed order moves on, and a call about it takes the place
\* of the calls above k. The calls about it that go on waiting bear the change.
LEMMA CallsAnnounce ==
  ASSUME CallInv, TypeInv', NEW id \in OrderIds, id <= counter, counter' = counter,
         NEW e \in EventPoints, NEW under \in Seq(Frame), NEW level \in Int, NEW amount \in Int,
         Dispatch(e, id, under, level, amount),
         NEW k \in Nat, Keeps(k, id, under),
         \A x \in OrderIds : x # id => orders'[x] = orders[x],
         childOf' = childOf, childOf[id] = 0,
         NEW o, o = orders'[id], Announces(e, o),
         o.type = orders[id].type, o.side = orders[id].side, o.amount = orders[id].amount,
         e # "triggered" \/ k = 0, Bear(k, id, e, o), LoopIsPlain'
  PROVE  CallInv'
<1>k. /\ k = Len(under) /\ Len(stack) \in {k, k + 1}
      /\ Len(stack) = k + 1 => Top.id = id
      /\ \A i \in 1 .. k : under[i] = stack[i]
  <2>1. k # k + 1
    OBVIOUS
  <2> QED BY <2>1 DEF Keeps
<1>b. \A i \in 1 .. k : stack[i].id = id =>
        /\ stack[i].at # "triggered"
        /\ stack[i].at = "filled" => ~IsConditional(o) /\ o.status # "FILLED"
        /\ e \in InFill => stack[i].at \notin InFill
  BY DEF Bear
<1>1. /\ Len(stack') = k + 1
      /\ stack'[k + 1] = CallFrame(e, id, level, amount)
      /\ \A i \in 1 .. k : stack'[i] = stack[i]
      /\ stack' \in Seq(Frame)
  BY <1>k, DispatchType DEF CallInv, TypeInv, TypeOK
<1>2. lastEvent'[id] = e /\ \A x \in OrderIds : x # id => lastEvent'[x] = lastEvent[x]
  BY DEF Dispatch, CallInv, TypeInv, TypeOK
<1>3. PICK f : f = stack'[k + 1] /\ f.at = e /\ f.id = id
  BY <1>1 DEF CallFrame
<1>4. k + 1 \in DOMAIN stack'
  BY <1>1
<1>5. counter \in Nat /\ id \in Nat /\ ~(id > counter)
  <2>1. counter \in Nat /\ id \in Nat
    BY DEF CallInv, TypeInv, TypeOK, OrderIds
  <2> QED BY <2>1
<1>6. e # "triggered" \/ k + 1 = 1
  OBVIOUS
<1>7. Waits(e, id)'
  BY <1>3, <1>4 DEF Waits
<1>8. FrameOK(k + 1)'
  <2>1. f.at = "filled" => ~IsConditional(o) /\ lastEvent'[id] = "filled"
    BY <1>2, <1>3 DEF Announces
  <2>2. f.at = "triggered" => k + 1 = 1 /\ lastEvent'[id] = "triggered" /\ childOf'[id] = 0
    BY <1>2, <1>3, <1>6
  <2> QED BY <1>3, <2>1, <2>2 DEF FrameOK
<1>9. ASSUME NEW i \in 1 .. k, stack[i].id = id PROVE FrameOK(i)'
  <2>1. PICK g : g = stack'[i] /\ g = stack[i]
    BY <1>1, <1>9
  <2>2. /\ g.id = id /\ g.at # "triggered"
        /\ g.at = "filled" => ~IsConditional(o) /\ o.status # "FILLED"
    BY <1>9, <1>b, <2>1
  <2> QED BY <2>1, <2>2 DEF FrameOK
<1>10. RecordOK(id)'
  <2>1. Quantize(orders[id].amount, AmountIncrement) = orders[id].amount
    BY DEF CallInv, RecordOK
  <2> QED BY <1>2, <1>5, <1>7, <2>1 DEF RecordOK, Announces, IsOpen
<1>11. OneParent'
  BY DEF CallInv, OneParent
<1>12. {id} \in SUBSET OrderIds /\ Len(stack') \in {k, k + 1}
  BY <1>1
<1>13. \A x \in OrderIds \ {id} :
         orders'[x] = orders[x] /\ lastEvent'[x] = lastEvent[x] /\ childOf'[x] = childOf[x]
  BY <1>2
<1>14. \A x \in OrderIds :
         /\ orders'[x].type = orders[x].type
         /\ orders'[x].side = orders[x].side
         /\ orders'[x].amount = orders[x].amount
  <2> SUFFICES ASSUME NEW x \in OrderIds
               PROVE  /\ orders'[x].type = orders[x].type
                      /\ orders'[x].side = orders[x].side
                      /\ orders'[x].amount = orders[x].amount
    OBVIOUS
  <2>1. CASE x = id
    BY <2>1
  <2>2. CASE x # id
    BY <2>2
  <2> QED BY <2>1, <2>2
<1>15. stack'[k + 1].at \in InFill =>
         \A i \in 1 .. k : stack[i].at \in InFill => stack[i].id # stack'[k + 1].id
  BY <1>3, <1>b
<1>16. counter <= counter'
  BY <1>5
<1>17. /\ \A x \in {id} : RecordOK(x)'
       /\ \A i \in 1 .. k : stack[i].id \in {id} => FrameOK(i)'
  BY <1>9, <1>10
<1>18. Len(stack) = k + 1 =>
         \/ Top.id \in {id}
         \/ Top.at \notin {"filled", "triggered"}
         \/ Top.at = "filled" /\ orders[Top.id].status # "FILLED"
  BY <1>k
<1>19. /\ \A x \in OrderIds : x <= counter =>
            /\ orders'[x].type = orders[x].type
            /\ orders'[x].side = orders[x].side
            /\ orders'[x].amount = orders[x].amount
       /\ Len(stack') = k + 1 =>
            /\ FrameOK(k + 1)'
            /\ stack'[k + 1].at \in InFill =>
                 \A i \in 1 .. k : stack[i].at \in InFill => stack[i].id # stack'[k + 1].id
  <2>1. \A x \in OrderIds : x <= counter =>
            /\ orders'[x].type = orders[x].type
            /\ orders'[x].side = orders[x].side
            /\ orders'[x].amount = orders[x].amount
    BY <1>14
  <2>2. FrameOK(k + 1)'
    BY <1>8
  <2> QED BY <2>1, <2>2, <1>15
<1> QED BY <1>k, <1>1, <1>11, <1>12, <1>13, <1>16, <1>17, <1>18, <1>19, CallsMove, ZenonT(30)

\* The loop goes on over the same orders, and none of them changes its type.
LEMMA LoopKept ==
  ASSUME CallInv, phase' = phase, todo' \subseteq todo,
         \A x \in OrderIds : orders'[x].type = orders[x].type
  PROVE  LoopIsPlain'
<1>1. \A x \in todo : x \in OrderIds
  BY ListIsOld DEF CallInv
<1> QED BY <1>1 DEF CallInv, LoopIsPlain, IsConditional

\* A placed order that has not fired.
LEMMA RecordOfPlaced ==
  ASSUME CallInv, NEW id \in OrderIds, orders[id].type # NoOrder.type \/ IsOpen(orders[id])
  PROVE  id <= counter
<1>1. ~IsOpen(NoOrder)
  BY DEF IsOpen, NoOrder
<1>2. ~(id > counter)
  BY <1>1 DEF CallInv, TypeInv, FreshIds
<1>3. id \in Nat /\ counter \in Nat
  BY DEF CallInv, TypeInv, TypeOK, OrderIds
<1> QED BY <1>2, <1>3

\* An order that is open, or is no stop, has not been fired, and no call waits to replace it.
LEMMA NotFired ==
  ASSUME CallInv, NEW id \in OrderIds, IsOpen(orders[id]) \/ ~IsConditional(orders[id])
  PROVE  /\ childOf[id] = 0 /\ lastEvent[id] # "triggered"
         /\ \A i \in DOMAIN stack : stack[i].id = id => stack[i].at # "triggered"
<1>1. RecordOK(id)
  BY DEF CallInv
<1>2. lastEvent[id] # "triggered"
  BY <1>1 DEF RecordOK
<1>3. childOf[id] = 0
  BY <1>1, <1>2 DEF RecordOK
<1>4. \A i \in DOMAIN stack : stack[i].id = id => stack[i].at # "triggered"
  BY <1>2 DEF CallInv, FrameOK
<1> QED BY <1>2, <1>3, <1>4

\* Cancel keeps the invariant of the suspended calls.
LEMMA CallsAfterCancel ==
  ASSUME CallInv, TypeInv', NEW id \in OrderIds, Cancel(id)
  PROVE  CallInv'
<1>1. /\ stack \in Seq(Frame) /\ Len(stack) \in Nat /\ DOMAIN stack = 1 .. Len(stack)
      /\ orders \in [OrderIds -> Order]
  BY DEF CallInv, TypeInv, TypeOK
<1>2. /\ IsOpen(orders[id]) /\ Withdraw(id) /\ Dispatch("cancelled", id, stack, NoPrice, 0)
      /\ UNCHANGED <<counter, phase, todo, childOf>>
  BY SMTT(30) DEF Cancel
<1>3. PICK k \in Nat, o \in {orders'[id]} : k = Len(stack) /\ o = orders'[id]
  BY <1>1
<1>4. /\ \A x \in OrderIds : x # id => orders'[x] = orders[x]
      /\ o = [orders[id] EXCEPT !.status = "CANCELLED"]
  BY <1>1, <1>2, <1>3 DEF Withdraw
<1>5. /\ o.type = orders[id].type /\ o.side = orders[id].side /\ o.amount = orders[id].amount
      /\ o.status = "CANCELLED"
  BY <1>1, <1>4 DEF Order
<1>6. /\ id <= counter /\ childOf[id] = 0
      /\ \A i \in DOMAIN stack : stack[i].id = id => stack[i].at # "triggered"
  BY <1>2, RecordOfPlaced, NotFired
<1>7. Bear(k, id, "cancelled", o)
  <2> SUFFICES ASSUME NEW i \in 1 .. k, stack[i].id = id
               PROVE  /\ stack[i].at # "triggered"
                      /\ stack[i].at = "filled" => ~IsConditional(o) /\ o.status # "FILLED"
                      /\ "cancelled" \in InFill => stack[i].at \notin InFill
    BY DEF Bear
  <2>1. i \in DOMAIN stack /\ FrameOK(i)
    BY <1>1, <1>3 DEF CallInv
  <2>2. stack[i].at = "filled" => ~IsConditional(orders[id])
    BY <2>1 DEF FrameOK
  <2> QED BY <1>5, <1>6, <2>1, <2>2 DEF IsConditional, InFill
<1>8. \A x \in OrderIds : orders'[x].type = orders[x].type
  BY <1>3, <1>4, <1>5
<1>9. LoopIsPlain'
  BY <1>2, <1>8, LoopKept
<1>10. Announces("cancelled", o) /\ "cancelled" \in EventPoints /\ NoPrice \in Int
  BY <1>5 DEF Announces, EventPoints, NoPrice
<1>11. Keeps(k, id, stack) /\ "cancelled" # "triggered" /\ 0 \in Int
  BY <1>3 DEF Keeps
<1>12. counter' = counter /\ childOf' = childOf /\ o = orders'[id]
  BY <1>2, <1>3
<1> QED BY <1>1, <1>2, <1>4, <1>5, <1>6, <1>7, <1>9, <1>10, <1>11, <1>12, CallsAnnounce

\* FireConditionalOrder keeps the invariant of the suspended calls.
LEMMA CallsAfterFiring ==
  ASSUME CallInv, TypeInv', FireConditionalOrder
  PROVE  CallInv'
<1>1. /\ stack \in Seq(Frame) /\ orders \in [OrderIds -> Order]
  BY DEF CallInv, TypeInv, TypeOK
<1>2. PICK id : id = Upcoming
  OBVIOUS
<1>3. /\ IsOpen(orders[id]) /\ Withdraw(id) /\ Dispatch("triggered", id, stack, NoPrice, 0)
      /\ Fires(orders[id], book, refs[id])
      /\ stack = << >> /\ phase = "conditional" /\ todo # {}
      /\ UNCHANGED <<counter, phase, childOf>>
  BY <1>2 DEF FireConditionalOrder, LoopIn
<1>4. id \in OrderIds
  BY <1>2, <1>3, UpcomingType DEF CallInv
<1>5. IsConditional(orders[id])
  BY <1>3 DEF Fires, IsConditional, ConditionalTypes
<1>6. PICK k \in Nat, o \in {orders'[id]} : k = 0 /\ o = orders'[id]
  OBVIOUS
<1>7. /\ \A x \in OrderIds : x # id => orders'[x] = orders[x]
      /\ o = [orders[id] EXCEPT !.status = "CANCELLED"]
  BY <1>1, <1>3, <1>4, <1>6 DEF Withdraw
<1>8. /\ o.type = orders[id].type /\ o.side = orders[id].side /\ o.amount = orders[id].amount
      /\ o.status = "CANCELLED"
  BY <1>1, <1>4, <1>7 DEF Order
<1>9. id <= counter /\ childOf[id] = 0
  BY <1>3, <1>4, RecordOfPlaced, NotFired
<1>10. LoopIsPlain'
  BY <1>3 DEF LoopIsPlain
<1>11. Announces("triggered", o) /\ "triggered" \in EventPoints /\ NoPrice \in Int
  BY <1>5, <1>8 DEF Announces, EventPoints, NoPrice, IsConditional
<1>12. k = Len(stack) /\ \A i \in 1 .. k : FALSE
  BY <1>3, <1>6
<1>13. Keeps(k, id, stack) /\ Bear(k, id, "triggered", o)
  BY <1>12 DEF Keeps, Bear
<1>14. counter' = counter /\ childOf' = childOf /\ o = orders'[id] /\ 0 \in Int /\ k = 0
  BY <1>3, <1>6
<1> QED BY <1>1, <1>3, <1>4, <1>7, <1>8, <1>9, <1>10, <1>11, <1>13, <1>14, CallsAnnounce

\* A fill is about an order that no other suspended call is filling or placing.
LEMMA CallsAfterFilling ==
  ASSUME CallInv, TypeInv', NEW id \in OrderIds, id <= counter, ~IsConditional(orders[id]),
         NEW m \in CheckAndMatch(orders[id], book), NEW under \in Seq(Frame),
         ProcessFill(id, m, under), counter' = counter, childOf' = childOf,
         phase' = phase, todo' \subseteq todo,
         NEW k \in Nat, Keeps(k, id, under),
         \A i \in 1 .. k : stack[i].id = id => stack[i].at \notin InFill
  PROVE  CallInv'
<1>1. /\ orders[id] \in Order /\ orders[id].filled <= orders[id].amount
      /\ book \in Book /\ orders \in [OrderIds -> Order]
      /\ stack \in Seq(Frame) /\ DOMAIN stack = 1 .. Len(stack) /\ Len(stack) \in Nat
  BY DEF CallInv, TypeInv, TypeOK, NoOverfill
<1>2. m.amount \in 0 .. Remaining(orders[id]) /\ m.cost \in Int /\ m.level \in Int
  BY <1>1, MatchWithinRemaining
<1>3. PICK o, fee : o = orders'[id] /\ fee = CalculateFee(orders[id], m.cost)
  OBVIOUS
<1>4. /\ o = UpdateWithFill(orders[id], m.amount, m.cost, fee)
      /\ Dispatch("filled", id, under, m.level, m.amount)
      /\ \A x \in OrderIds : x # id => orders'[x] = orders[x]
  BY <1>1, <1>3 DEF ProcessFill
<1>5. /\ o.type = orders[id].type /\ o.side = orders[id].side /\ o.amount = orders[id].amount
      /\ o.filled = orders[id].filled + m.amount
      /\ o.status = IF orders[id].filled + m.amount >= orders[id].amount
                    THEN "FILLED" ELSE "PARTIALLY_FILLED"
  BY <1>1, <1>4 DEF UpdateWithFill, Order
<1>6. \A f, a, n \in Int : n \in 0 .. a - f => (f + n >= a <=> a - (f + n) = 0)
  OBVIOUS
<1>7. orders[id].filled \in Int /\ orders[id].amount \in Int /\ m.amount \in Int
  BY <1>1, <1>2 DEF Order, Remaining
<1>8. orders[id].filled + m.amount >= orders[id].amount <=> Remaining(o) = 0
  BY <1>2, <1>5, <1>6, <1>7 DEF Remaining
<1>9. Announces("filled", o)
  BY <1>5, <1>8 DEF Announces, IsConditional
<1>10. /\ childOf[id] = 0
       /\ \A i \in DOMAIN stack : stack[i].id = id => stack[i].at # "triggered"
  BY NotFired
<1>11. Bear(k, id, "filled", o)
  <2>1. \A i \in 1 .. k : i \in DOMAIN stack
    <3>1. PICK n \in Nat : n = Len(stack) /\ (n = k \/ n = k + 1)
      BY <1>1, Zenon DEF Keeps
    <3>2. \A i \in 1 .. k : i \in 1 .. n
      BY <3>1
    <3> QED BY <1>1, <3>1, <3>2, Zenon
  <2> QED BY <1>10, <2>1 DEF Bear, InFill
<1>12. \A x \in OrderIds : orders'[x].type = orders[x].type
  BY <1>3, <1>4, <1>5
<1>13. LoopIsPlain'
  BY <1>12, LoopKept
<1>14. "filled" \in EventPoints /\ "filled" # "triggered" /\ m.amount \in Int
  BY <1>7 DEF EventPoints
<1> QED BY <1>2, <1>3, <1>4, <1>5, <1>9, <1>10, <1>11, <1>13, <1>14, CallsAnnounce

\* A created order that is matched leaves its call to the fill's.
LEMMA CallsAfterMatching ==
  ASSUME CallInv, TypeInv', AfterCreatedMatch
  PROVE  CallInv'
<1>1. stack \in Seq(Frame) /\ DOMAIN stack = 1 .. Len(stack)
  BY DEF CallInv, TypeInv, TypeOK
<1>2. /\ stack # << >> /\ Top.at = "created" /\ orders[Top.id].type = "MARKET"
      /\ counter' = counter /\ childOf' = childOf /\ phase' = phase /\ todo' = todo
  BY DEF AfterCreatedMatch, Resumes
<1>3. PICK m \in CheckAndMatch(orders[Top.id], book) : ProcessFill(Top.id, m, Below)
  BY DEF AfterCreatedMatch
<1>4. /\ Top \in Frame /\ Below \in Seq(Frame) /\ Len(stack) \in Nat \ {0}
      /\ Len(Below) = Len(stack) - 1
      /\ \A i \in 1 .. Len(Below) : i \in 1 .. Len(stack) /\ Below[i] = stack[i]
  BY <1>1, <1>2, StackShape, Zenon
<1>5. PICK id \in OrderIds, k \in Nat, n \in Nat :
        id = Top.id /\ k = Len(Below) /\ n = Len(stack) /\ n = k + 1
  BY <1>4 DEF Frame
<1>6. Keeps(k, id, Below)
  BY <1>4, <1>5 DEF Keeps
<1>7. ~IsConditional(orders[id]) /\ orders[id].type # NoOrder.type
  BY <1>2, <1>5 DEF IsConditional, ConditionalTypes, NoOrder
<1>8. id <= counter
  BY <1>7, RecordOfPlaced
<1>9. \A i \in 1 .. k : stack[i].id = id => stack[i].at \notin InFill
  <2> SUFFICES ASSUME NEW i \in 1 .. k, stack[i].id = id, stack[i].at \in InFill PROVE FALSE
    OBVIOUS
  <2>1. i \in DOMAIN stack /\ n \in DOMAIN stack /\ i # n
    BY <1>1, <1>5
  <2>2. stack[n].at \in InFill /\ stack[n].id = id
    BY <1>2, <1>5 DEF Top, InFill
  <2> QED BY <2>1, <2>2 DEF CallInv, OneFillCall
<1> QED BY <1>2, <1>3, <1>4, <1>5, <1>6, <1>7, <1>8, <1>9, CallsAfterFilling

\* The loop matches plain orders only, with no call suspended.
LEMMA CallsAfterLoopMatch ==
  ASSUME CallInv, TypeInv', MatchOrder
  PROVE  CallInv'
<1>1. /\ stack = << >> /\ phase = "matching" /\ todo # {} /\ todo' = todo \ {Upcoming}
      /\ counter' = counter /\ childOf' = childOf /\ phase' = phase
  BY DEF MatchOrder, LoopIn
<1>2. PICK id : id = Upcoming
  OBVIOUS
<1>3. PICK m \in CheckAndMatch(orders[id], book) : ProcessFill(id, m, stack)
  BY <1>2 DEF MatchOrder
<1>4. id \in OrderIds /\ id <= counter /\ id \in todo
  BY <1>1, <1>2, UpcomingType DEF CallInv
<1>5. ~IsConditional(orders[id])
  BY <1>1, <1>4 DEF CallInv, LoopIsPlain
<1>6. PICK k \in Nat : k = 0
  OBVIOUS
<1>7. k = Len(stack) /\ \A i \in 1 .. k : FALSE
  BY <1>1, <1>6
<1>8. Keeps(k, id, stack) /\ todo' \subseteq todo /\ stack \in Seq(Frame)
  BY <1>1, <1>7 DEF Keeps, CallInv, TypeInv, TypeOK
<1>9. \A i \in 1 .. k : stack[i].id = id => stack[i].at \notin InFill
  BY <1>7
<1> QED BY <1>1, <1>3, <1>4, <1>5, <1>8, <1>9, CallsAfterFilling

\* Announcing a completion keeps the invariant of the suspended calls.
LEMMA CallsAfterComplete ==
  ASSUME CallInv, TypeInv', AfterFilledComplete
  PROVE  CallInv'
<1>1. /\ stack \in Seq(Frame) /\ DOMAIN stack = 1 .. Len(stack)
  BY DEF CallInv, TypeInv, TypeOK
<1>2. /\ stack # << >> /\ Top.at = "filled" /\ orders[Top.id].status = "FILLED"
      /\ Dispatch("completed", Top.id, Below, Top.level, Top.amount)
      /\ counter' = counter /\ childOf' = childOf /\ phase' = phase /\ todo' = todo
      /\ orders' = orders
  BY DEF AfterFilledComplete, Resumes
<1>3. /\ Top \in Frame /\ Below \in Seq(Frame) /\ Len(stack) \in Nat \ {0}
      /\ Len(Below) = Len(stack) - 1
      /\ \A i \in 1 .. Len(Below) : i \in 1 .. Len(stack) /\ Below[i] = stack[i]
  BY <1>1, <1>2, StackShape, Zenon
<1>4. PICK id \in OrderIds, k \in Nat, n \in Nat, level \in Int, amount \in Int, o \in {orders[Top.id]} :
        /\ id = Top.id /\ k = Len(Below) /\ n = Len(stack) /\ n = k + 1
        /\ level = Top.level /\ amount = Top.amount /\ o = orders[id]
  BY <1>3 DEF Frame
<1>5. FrameOK(n) /\ stack[n] = Top /\ n \in DOMAIN stack
  BY <1>1, <1>3, <1>4 DEF CallInv, Top
<1>6. ~IsConditional(orders[id]) /\ id <= counter
  BY <1>2, <1>4, <1>5 DEF FrameOK
<1>7. /\ childOf[id] = 0
      /\ \A i \in DOMAIN stack : stack[i].id = id => stack[i].at # "triggered"
  BY <1>6, NotFired
<1>8. \A i \in 1 .. k : stack[i].id = id => stack[i].at \notin InFill
  <2> SUFFICES ASSUME NEW i \in 1 .. k, stack[i].id = id, stack[i].at \in InFill PROVE FALSE
    OBVIOUS
  <2>1. i \in DOMAIN stack /\ i # n
    BY <1>1, <1>4
  <2>2. stack[n].at \in InFill /\ stack[n].id = id
    BY <1>2, <1>4, <1>5 DEF InFill
  <2> QED BY <1>5, <2>1, <2>2 DEF CallInv, OneFillCall
<1>9. Bear(k, id, "completed", o)
  <2>1. \A i \in 1 .. k : i \in DOMAIN stack
    BY <1>1, <1>4
  <2> QED BY <1>7, <1>8, <2>1 DEF Bear, InFill
<1>10. Keeps(k, id, Below)
  BY <1>3, <1>4 DEF Keeps
<1>11. LoopIsPlain'
  BY <1>2, LoopKept
<1>12. Announces("completed", o) /\ "completed" \in EventPoints /\ "completed" # "triggered"
  BY <1>2, <1>4 DEF Announces, EventPoints
<1>13. /\ Dispatch("completed", id, Below, level, amount) /\ o = orders'[id]
       /\ \A x \in OrderIds : x # id => orders'[x] = orders[x]
       /\ o.type = orders[id].type /\ o.side = orders[id].side /\ o.amount = orders[id].amount
  BY <1>2, <1>4
<1> QED BY <1>2, <1>3, <1>6, <1>7, <1>9, <1>10, <1>11, <1>12, <1>13, CallsAnnounce, Zenon

-----------------------------------------------------------------------------
\* The invariant of the suspended calls holds at the start.
LEMMA CallInit == Init => CallInv
<1> SUFFICES ASSUME Init PROVE CallInv
  OBVIOUS
<1>1. TypeInv
  BY TypeInit
<1>2. /\ stack = << >> /\ DOMAIN stack = {} /\ phase = "idle"
      /\ \A id \in OrderIds : orders[id] = NoOrder /\ lastEvent[id] = "none" /\ childOf[id] = 0
  BY DEF Init
<1>3. Quantize(0, AmountIncrement) = 0
  <2>1. \A i \in Nat \ {0} : (0 \div i) * i = 0
    OBVIOUS
  <2> QED BY <2>1, IncrementAssumption DEF Quantize
<1>4. \A id \in OrderIds : RecordOK(id)
  BY <1>2, <1>3 DEF RecordOK, NoOrder, IsOpen
<1>5. OneFillCall /\ OneParent /\ LoopIsPlain /\ \A i \in DOMAIN stack : FrameOK(i)
  BY <1>2 DEF OneFillCall, OneParent, LoopIsPlain
<1> QED BY <1>1, <1>4, <1>5 DEF CallInv

\* Every action of the exchange keeps the invariant of the suspended calls.
LEMMA CallStep == CallInv /\ [Next]_vars => CallInv'
<1> SUFFICES ASSUME CallInv, [Next]_vars PROVE CallInv'
  OBVIOUS
<1>a. TypeInv /\ TypeInv'
  BY TypeStep DEF CallInv
<1>1. ASSUME NEW r \in Requests, Place(r) PROVE CallInv'
  <2>1. r \in Request /\ PlaceOrder(r, stack) /\ UNCHANGED <<phase, todo, childOf>>
    BY <1>1, ExchangeAssumption DEF Place
  <2> QED BY <1>a, <2>1, CallsAfterPlacing
<1>2. ASSUME NEW id \in OrderIds, Cancel(id) PROVE CallInv'
  BY <1>a, <1>2, CallsAfterCancel
<1>3. CASE FireConditionalOrder
  BY <1>a, <1>3, CallsAfterFiring
<1>4. CASE MatchOrder
  BY <1>a, <1>4, CallsAfterLoopMatch
<1>5. CASE AfterCreatedMatch
  BY <1>a, <1>5, CallsAfterMatching
<1>6. CASE AfterTriggered
  BY <1>a, <1>6, CallsAfterTriggered
<1>7. CASE AfterFilledComplete
  BY <1>a, <1>7, CallsAfterComplete
<1>8. CASE \/ MarketData \/ ProcessTick \/ EvaluateOrder \/ StartMatching \/ LeaveOrder \/ EndTick
           \/ UNCHANGED vars
  <2>1. UNCHANGED <<orders, counter, lastEvent, childOf>> /\ stack' = stack
    BY <1>8 DEF MarketData, ProcessTick, EvaluateOrder, StartMatching, LeaveOrder, EndTick, vars
  <2>2. CASE StartMatching
    <3>1. LoopIsPlain'
      BY <2>1, <2>2 DEF StartMatching, LoopIsPlain, OpenPlain
    <3> QED BY <1>a, <2>1, <3>1, CallsReturn
  <2>3. CASE ~StartMatching
    <3>1. /\ phase' = "matching" => phase' = phase
          /\ todo' \subseteq todo \/ phase' = "conditional"
      BY <1>8, <2>3 DEF MarketData, ProcessTick, EvaluateOrder, LeaveOrder, EndTick, vars
    <3>2. LoopIsPlain'
      BY <2>1, <3>1 DEF CallInv, LoopIsPlain
    <3> QED BY <1>a, <2>1, <3>2, CallsReturn
  <2> QED BY <2>2, <2>3
<1>9. CASE AfterNotice \/ AfterCreatedRest \/ ConsumeLiquidity
  <2>1. /\ UNCHANGED <<orders, counter, lastEvent, childOf, phase, todo>>
        /\ stack # << >> /\ stack' = Below
        /\ \/ Top.at \notin {"filled", "triggered"}
           \/ Top.at = "filled" /\ orders[Top.id].status # "FILLED"
    BY <1>9 DEF AfterNotice, AfterCreatedRest, ConsumeLiquidity, Resumes
  <2>2. LoopIsPlain'
    BY <2>1 DEF CallInv, LoopIsPlain
  <2> QED BY <1>a, <2>1, <2>2, CallsReturn
<1> QED BY <1>1, <1>2, <1>3, <1>4, <1>5, <1>6, <1>7, <1>8, <1>9 DEF Next, Loop, Resume

\* An order is FILLED exactly when its completion was announced, or the call
\* that will announce it still waits on the listeners of its last fill; with
\* every engine, and even when they cancel what a loop holds (exchange.py:663-675).
THEOREM CompletionAnnounced == Spec => []CompletionIsAnnounced
<1>1. CallInv => CompletionIsAnnounced
  BY DEF CallInv, RecordOK, Waits, CompletionIsAnnounced
<1> QED BY <1>1, CallInit, CallStep, PTL DEF Spec

\* A stop that fired is replaced once, by a market order of its own side and
\* amount, whatever listeners place and cancel before (exchange.py:569-600).
THEOREM FiredReplacedOnce == Spec => []FiredIsReplacedOnce
<1>1. ASSUME CallInv PROVE FiredIsReplacedOnce
  <2>1. ASSUME NEW id \in OrderIds, lastEvent[id] = "triggered"
        PROVE  IF \E i \in DOMAIN stack : stack[i].at = "triggered" /\ stack[i].id = id
               THEN childOf[id] = 0
               ELSE childOf[id] # 0 /\ Replaces(childOf[id], id)
    <3>1. RecordOK(id)
      BY <1>1 DEF CallInv
    <3>2. CASE \E i \in DOMAIN stack : stack[i].at = "triggered" /\ stack[i].id = id
      BY <1>1, <3>2 DEF CallInv, FrameOK
    <3>3. CASE ~\E i \in DOMAIN stack : stack[i].at = "triggered" /\ stack[i].id = id
      BY <2>1, <3>1, <3>3 DEF RecordOK, Waits
    <3> QED BY <3>2, <3>3
  <2> QED BY <1>1, <2>1 DEF CallInv, OneParent, FiredIsReplacedOnce, Replaces
<1> QED BY <1>1, CallInit, CallStep, PTL DEF Spec

-----------------------------------------------------------------------------
(* What listeners hear when they leave held orders alone. *)

\* Every step is one event about one order, at its place in the order's life,
\* or none.
LEMMA HearStep ==
  ASSUME CallInv, BaseInv, ~StaleCancels, [Next]_vars
  PROVE  [Lifecycle!Next]_lastEvent
<1>a. /\ stack \in Seq(Frame) /\ Len(stack) \in Nat /\ DOMAIN stack = 1 .. Len(stack)
      /\ lastEvent \in [OrderIds -> EventPoints \cup {"none"}]
      /\ counter \in 0 .. MaxOrders /\ todo \subseteq 1 .. counter
      /\ TypeInv /\ MaxOrders \in Nat /\ counter \in Nat
  BY ExchangeAssumption DEF CallInv, TypeInv, TypeOK
<1>b. \A id \in OrderIds : RecordOK(id)
  BY DEF CallInv
<1>c. ASSUME NEW r \in Request, NEW under \in Seq(Frame), PlaceOrder(r, under)
      PROVE  Lifecycle!Next
  <2>1. PICK id : id = counter + 1
    OBVIOUS
  <2>2. id \in OrderIds
    BY <1>a, <1>c, <2>1, PlaceOrderType
  <2>3. id > counter
    BY <1>a, <2>1
  <2>4. lastEvent[id] = "none"
    BY <1>b, <2>2, <2>3 DEF RecordOK
  <2>5. \E e \in {"created", "failed"} : lastEvent' = [lastEvent EXCEPT ![id] = e]
    BY <1>c, <2>1 DEF PlaceOrder, Dispatch
  <2>6. Lifecycle!Create(id) \/ Lifecycle!Fail(id)
    BY <2>4, <2>5 DEF Lifecycle!Create, Lifecycle!Fail, Lifecycle!Moves
  <2> QED BY <2>2, <2>6 DEF Lifecycle!Next
<1>d. ASSUME NEW id \in OrderIds, IsOpen(orders[id]), lastEvent' = [lastEvent EXCEPT ![id] = "filled"]
      PROVE  Lifecycle!Next
  <2>1. lastEvent[id] \in {"created", "filled"}
    BY <1>b, <1>d DEF RecordOK
  <2>2. Lifecycle!Fill(id)
    BY <1>d, <2>1 DEF Lifecycle!Fill, Lifecycle!Moves
  <2> QED BY <2>2 DEF Lifecycle!Next
<1>e. stack # << >> => Top \in Frame /\ Below \in Seq(Frame) /\ Top.id \in OrderIds
  BY <1>a, StackShape DEF Frame
<1>1. ASSUME NEW r \in Requests, Place(r) PROVE Lifecycle!Next
  <2>1. r \in Request /\ PlaceOrder(r, stack)
    BY <1>1, ExchangeAssumption DEF Place
  <2> QED BY <1>a, <1>c, <2>1
<1>2. ASSUME NEW id \in OrderIds, Cancel(id) PROVE Lifecycle!Next
  <2>1. IsOpen(orders[id]) /\ lastEvent' = [lastEvent EXCEPT ![id] = "cancelled"]
    BY <1>2 DEF Cancel, Dispatch
  <2>2. lastEvent[id] \in {"created", "filled"}
    BY <1>b, <2>1 DEF RecordOK
  <2>3. Lifecycle!Cancel(id)
    BY <2>1, <2>2 DEF Lifecycle!Cancel, Lifecycle!Moves
  <2> QED BY <2>3 DEF Lifecycle!Next
<1>3. CASE FireConditionalOrder
  <2>1. PICK id : id = Upcoming
    OBVIOUS
  <2>2. /\ todo # {} /\ IsOpen(orders[id]) /\ Fires(orders[id], book, refs[id])
        /\ lastEvent' = [lastEvent EXCEPT ![id] = "triggered"]
    BY <1>3, <2>1 DEF FireConditionalOrder, LoopIn, Dispatch
  <2>3. id \in OrderIds
    BY <1>a, <2>1, <2>2, UpcomingType
  <2>4. IsConditional(orders[id])
    BY <2>2 DEF Fires, IsConditional, ConditionalTypes
  <2>5. lastEvent[id] = "created"
    BY <1>b, <2>2, <2>3, <2>4 DEF RecordOK
  <2>6. Lifecycle!Trigger(id)
    BY <2>2, <2>5 DEF Lifecycle!Trigger, Lifecycle!Moves
  <2> QED BY <2>3, <2>6 DEF Lifecycle!Next
<1>4. CASE MatchOrder
  <2>1. PICK id : id = Upcoming
    OBVIOUS
  <2>2. todo # {} /\ phase = "matching"
    BY <1>4 DEF MatchOrder, LoopIn
  <2>3. lastEvent' = [lastEvent EXCEPT ![id] = "filled"]
    BY <1>4, <2>1 DEF MatchOrder, ProcessFill, Dispatch
  <2>4. id \in OrderIds /\ id \in todo
    BY <1>a, <2>1, <2>2, UpcomingType
  <2>5. IsOpen(orders[id])
    BY <2>2, <2>4 DEF BaseInv, HeldOrdersAreOpen
  <2> QED BY <1>d, <2>3, <2>4, <2>5
<1>5. CASE AfterCreatedMatch
  <2>1. stack # << >> /\ Top.at = "created" /\ orders[Top.id].type = "MARKET"
    BY <1>5 DEF AfterCreatedMatch, Resumes
  <2>2. PICK id \in OrderIds, n \in Nat : id = Top.id /\ n = Len(stack) /\ n \in DOMAIN stack
    <3>1. PICK n \in Nat \ {0} : n = Len(stack)
      BY <1>a, <2>1, StackShape
    <3>2. n \in 1 .. n
      OBVIOUS
    <3> QED BY <1>a, <1>e, <2>1, <3>1, <3>2
  <2>3. lastEvent' = [lastEvent EXCEPT ![id] = "filled"]
    BY <1>5, <2>2 DEF AfterCreatedMatch, ProcessFill, Dispatch
  <2>4. WaitsToMatch(n) /\ stack[n].id = id
    BY <2>1, <2>2 DEF WaitsToMatch, Top
  <2>5. IsOpen(orders[id])
    BY <2>2, <2>4 DEF BaseInv, HeldOrdersAreOpen
  <2> QED BY <1>d, <2>3, <2>5
<1>6. CASE AfterTriggered
  <2>1. stack # << >> /\ PlaceOrder(MarketRequest(orders[Top.id]), Below)
    BY <1>6 DEF AfterTriggered, Resumes
  <2>2. MarketRequest(orders[Top.id]) \in Request
    BY <1>e, <2>1, MarketRequestType DEF CallInv, TypeInv, TypeOK
  <2> QED BY <1>c, <1>e, <2>1, <2>2
<1>7. CASE AfterFilledComplete
  <2>1. stack # << >> /\ Top.at = "filled" /\ orders[Top.id].status = "FILLED"
    BY <1>7, SMTT(30) DEF AfterFilledComplete, Resumes
  <2>2. PICK id \in OrderIds, n \in Nat : id = Top.id /\ n = Len(stack) /\ n \in DOMAIN stack
    <3>1. PICK n \in Nat \ {0} : n = Len(stack)
      BY <1>a, <2>1, StackShape
    <3>2. n \in 1 .. n
      OBVIOUS
    <3> QED BY <1>a, <1>e, <2>1, <3>1, <3>2
  <2>3. lastEvent' = [lastEvent EXCEPT ![id] = "completed"]
    BY <1>7, <2>2 DEF AfterFilledComplete, Dispatch
  <2>4. FrameOK(n) /\ stack[n] = Top
    BY <2>2 DEF CallInv, Top
  <2>5. lastEvent[id] = "filled"
    BY <2>1, <2>2, <2>4 DEF FrameOK
  <2>6. Lifecycle!Complete(id)
    BY <2>3, <2>5 DEF Lifecycle!Complete, Lifecycle!Moves
  <2> QED BY <2>6 DEF Lifecycle!Next
<1>8. CASE \/ MarketData \/ ProcessTick \/ EvaluateOrder \/ StartMatching \/ LeaveOrder \/ EndTick
           \/ AfterNotice \/ AfterCreatedRest \/ ConsumeLiquidity \/ UNCHANGED vars
  BY <1>8 DEF MarketData, ProcessTick, EvaluateOrder, StartMatching, LeaveOrder, EndTick,
              AfterNotice, AfterCreatedRest, ConsumeLiquidity, vars
<1> QED BY <1>1, <1>2, <1>3, <1>4, <1>5, <1>6, <1>7, <1>8 DEF Next, Loop, Resume

\* When listeners cancel no order that a suspended call still holds, what they
\* hear about every order is the life OrderLifecycle promises (core/events.py:16-30).
THEOREM LifecycleIsHeard == ~StaleCancels => (Spec => ListenersHearLifecycle)
<1>1. ASSUME ~StaleCancels PROVE Spec => ListenersHearLifecycle
  <2>1. Init => Lifecycle!Init
    BY DEF Init, Lifecycle!Init
  <2>2. CallInv /\ BaseInv /\ [Next]_vars => [Lifecycle!Next]_lastEvent
    BY <1>1, HearStep
  <2>3. BaseInv /\ [Next]_vars => BaseInv'
    BY <1>1, BaseStep
  <2> QED BY <2>1, <2>2, <2>3, CallInit, CallStep, BaseInit, PTL
          DEF Spec, ListenersHearLifecycle, Lifecycle!Spec
<1> QED BY <1>1

-----------------------------------------------------------------------------
(* What the trigger engine remembers when listeners leave held orders alone. *)

\* The trigger loop has only open conditional orders before it.
LoopIsOpen ==
  phase = "conditional" =>
    \A id \in todo : IsOpen(orders[id]) /\ IsConditional(orders[id])

RefInv == CallInv /\ RefsOnlyForOpenOrders /\ LoopIsOpen

\* One order and its reference change, and the trigger loop has left it.
LEMMA RefsMove ==
  ASSUME RefInv, NEW id \in OrderIds,
         \A x \in OrderIds : x # id => orders'[x] = orders[x] /\ refs'[x] = refs[x],
         refs'[id] # NoPrice => IsOpen(orders'[id]) /\ orders'[id].type = "TRAILING_STOP",
         phase' = "conditional" => phase = "conditional" /\ todo' \subseteq todo /\ id \notin todo'
  PROVE  RefsOnlyForOpenOrders' /\ LoopIsOpen'
<1>1. RefsOnlyForOpenOrders'
  BY DEF RefInv, RefsOnlyForOpenOrders
<1>2. \A x \in todo : x \in OrderIds
  BY ListIsOld DEF RefInv, CallInv
<1>3. ASSUME phase' = "conditional", NEW x \in todo'
      PROVE  IsOpen(orders'[x]) /\ IsConditional(orders'[x])
  <2>1. x \in todo /\ x # id /\ x \in OrderIds /\ phase = "conditional"
    BY <1>2, <1>3
  <2>2. orders'[x] = orders[x]
    BY <2>1
  <2> QED BY <2>1, <2>2 DEF RefInv, LoopIsOpen
<1>4. LoopIsOpen'
  BY <1>3 DEF LoopIsOpen
<1> QED BY <1>1, <1>4

\* Placing an order touches no trailing reference and no order the trigger loop has left.
LEMMA RefsAfterPlacing ==
  ASSUME RefInv, NEW r \in Request, NEW under \in Seq(Frame), PlaceOrder(r, under),
         UNCHANGED <<refs, phase, todo>>
  PROVE  RefsOnlyForOpenOrders' /\ LoopIsOpen'
<1>1. PICK id : id = counter + 1
  OBVIOUS
<1>2. /\ id \in OrderIds /\ \E n : orders' = [orders EXCEPT ![id] = n]
  BY <1>1, PlaceOrderType DEF RefInv, CallInv
<1>3. orders[id] = NoOrder
  <2>1. id > counter
    BY <1>1 DEF RefInv, CallInv, TypeInv, TypeOK
  <2> QED BY <1>2, <2>1 DEF RefInv, CallInv, TypeInv, FreshIds
<1>4. refs[id] = NoPrice
  BY <1>2, <1>3 DEF RefInv, RefsOnlyForOpenOrders, NoOrder, IsOpen
<1>5. \A x \in OrderIds : x # id => orders'[x] = orders[x] /\ refs'[x] = refs[x]
  BY <1>2 DEF RefInv, CallInv, TypeInv, TypeOK
<1>6. id \notin todo
  BY <1>1, ListIsOld DEF RefInv, CallInv
<1> QED BY <1>2, <1>4, <1>5, <1>6, RefsMove

\* A fill changes no trailing stop.
LEMMA RefsAfterFilling ==
  ASSUME RefInv, NEW id \in OrderIds, ~IsConditional(orders[id]),
         NEW m, NEW under, ProcessFill(id, m, under),
         UNCHANGED <<refs, phase, todo>> \/ (phase' = "matching" /\ refs' = refs)
  PROVE  RefsOnlyForOpenOrders' /\ LoopIsOpen'
<1>1. \A x \in OrderIds : x # id => orders'[x] = orders[x] /\ refs'[x] = refs[x]
  BY DEF ProcessFill
<1>2. refs[id] = NoPrice
  BY DEF RefInv, RefsOnlyForOpenOrders, IsConditional, ConditionalTypes
<1>3. phase = "conditional" => id \notin todo
  BY DEF RefInv, LoopIsOpen
<1>4. phase' = "conditional" => phase = "conditional" /\ todo' \subseteq todo /\ id \notin todo'
  BY <1>3
<1> QED BY <1>1, <1>2, <1>4, RefsMove

\* A step that changes no order and no reference.
LEMMA RefsKept ==
  ASSUME RefInv, UNCHANGED <<orders, refs>>,
         phase' = "conditional" => todo' = OpenConditional \/ (phase = "conditional" /\ todo' = todo)
  PROVE  RefsOnlyForOpenOrders' /\ LoopIsOpen'
<1>1. RefsOnlyForOpenOrders'
  BY DEF RefInv, RefsOnlyForOpenOrders
<1>2. LoopIsOpen'
  BY DEF RefInv, LoopIsOpen, OpenConditional
<1> QED BY <1>1, <1>2

\* Every action of the exchange keeps the invariant of the trailing references.
LEMMA RefStep == RefInv /\ ~StaleCancels /\ [Next]_vars => RefInv'
<1> SUFFICES ASSUME RefInv, ~StaleCancels, [Next]_vars PROVE RefInv'
  OBVIOUS
<1>a. CallInv /\ CallInv' /\ TypeInv
  BY CallStep DEF RefInv, CallInv
<1>b. SUFFICES RefsOnlyForOpenOrders' /\ LoopIsOpen'
  BY <1>a DEF RefInv
<1>c. /\ stack \in Seq(Frame) /\ orders \in [OrderIds -> Order]
      /\ refs \in [OrderIds -> Nat \cup {NoPrice}]
  BY <1>a DEF TypeInv, TypeOK
<1>d. stack # << >> => Below \in Seq(Frame) /\ Top.id \in OrderIds
  BY <1>c, StackShape DEF Frame
<1>1. ASSUME NEW r \in Requests, Place(r) PROVE RefsOnlyForOpenOrders' /\ LoopIsOpen'
  <2>1. r \in Request /\ PlaceOrder(r, stack) /\ UNCHANGED <<refs, phase, todo>>
    BY <1>1, ExchangeAssumption DEF Place
  <2> QED BY <1>c, <2>1, RefsAfterPlacing
<1>2. ASSUME NEW id \in OrderIds, Cancel(id) PROVE RefsOnlyForOpenOrders' /\ LoopIsOpen'
  <2>1. /\ id \notin todo /\ Withdraw(id) /\ phase' = phase /\ todo' = todo
        /\ refs' = IF IsConditional(orders[id]) THEN [refs EXCEPT ![id] = NoPrice] ELSE refs
    BY <1>2 DEF Cancel, Held
  <2>2. refs'[id] = NoPrice
    BY <1>c, <2>1 DEF RefInv, RefsOnlyForOpenOrders, IsConditional, ConditionalTypes
  <2>3. \A x \in OrderIds : x # id => orders'[x] = orders[x] /\ refs'[x] = refs[x]
    BY <1>c, <2>1 DEF Withdraw
  <2> QED BY <2>1, <2>2, <2>3, RefsMove
<1>3. CASE EvaluateOrder
  <2>1. PICK id : id = Upcoming
    OBVIOUS
  <2>2. /\ todo # {} /\ phase = "conditional" /\ todo' = todo \ {id} /\ orders' = orders
        /\ refs' = [refs EXCEPT ![id] = Evaluated(orders[id], book, refs[id])]
    BY <1>3, <2>1 DEF EvaluateOrder, LoopIn
  <2>3. id \in OrderIds /\ id \in todo
    BY <1>a, <2>1, <2>2, UpcomingType
  <2>4. IsOpen(orders[id])
    BY <2>2, <2>3 DEF RefInv, LoopIsOpen
  <2>5. refs'[id] # NoPrice => orders[id].type = "TRAILING_STOP"
    BY <1>c, <2>2, <2>3 DEF RefInv, RefsOnlyForOpenOrders, Evaluated
  <2>6. \A x \in OrderIds : x # id => orders'[x] = orders[x] /\ refs'[x] = refs[x]
    BY <1>c, <2>2
  <2> QED BY <2>2, <2>3, <2>4, <2>5, <2>6, RefsMove
<1>4. CASE FireConditionalOrder
  <2>1. PICK id : id = Upcoming
    OBVIOUS
  <2>2. /\ todo # {} /\ phase = "conditional" /\ todo' = todo \ {id} /\ Withdraw(id)
        /\ refs' = [refs EXCEPT ![id] = NoPrice]
    BY <1>4, <2>1 DEF FireConditionalOrder, LoopIn
  <2>3. id \in OrderIds
    BY <1>a, <2>1, <2>2, UpcomingType
  <2>4. \A x \in OrderIds : x # id => orders'[x] = orders[x] /\ refs'[x] = refs[x]
    BY <1>c, <2>2 DEF Withdraw
  <2>5. refs'[id] = NoPrice /\ id \notin todo' /\ todo' \subseteq todo
    BY <1>c, <2>2, <2>3
  <2> QED BY <2>2, <2>3, <2>4, <2>5, RefsMove
<1>5. CASE MatchOrder
  <2>1. PICK id : id = Upcoming
    OBVIOUS
  <2>2. todo # {} /\ phase = "matching" /\ phase' = "matching" /\ refs' = refs
    BY <1>5 DEF MatchOrder, LoopIn
  <2>3. id \in OrderIds /\ id \in todo
    BY <1>a, <2>1, <2>2, UpcomingType
  <2>4. ~IsConditional(orders[id])
    BY <1>a, <2>2, <2>3 DEF CallInv, LoopIsPlain
  <2>5. PICK m \in CheckAndMatch(orders[id], book) : ProcessFill(id, m, stack)
    BY <1>5, <2>1 DEF MatchOrder
  <2> QED BY <2>2, <2>3, <2>4, <2>5, RefsAfterFilling
<1>6. CASE AfterCreatedMatch
  <2>1. /\ stack # << >> /\ orders[Top.id].type = "MARKET" /\ UNCHANGED <<refs, phase, todo>>
    BY <1>6 DEF AfterCreatedMatch, Resumes
  <2>2. PICK m \in CheckAndMatch(orders[Top.id], book) : ProcessFill(Top.id, m, Below)
    BY <1>6 DEF AfterCreatedMatch
  <2>3. ~IsConditional(orders[Top.id])
    BY <2>1 DEF IsConditional, ConditionalTypes
  <2> QED BY <1>d, <2>1, <2>2, <2>3, RefsAfterFilling
<1>7. CASE AfterTriggered
  <2>1. /\ stack # << >> /\ PlaceOrder(MarketRequest(orders[Top.id]), Below)
        /\ UNCHANGED <<refs, phase, todo>>
    BY <1>7 DEF AfterTriggered, Resumes
  <2>2. MarketRequest(orders[Top.id]) \in Request
    BY <1>c, <1>d, <2>1, MarketRequestType
  <2> QED BY <1>d, <2>1, <2>2, RefsAfterPlacing
<1>8. CASE \/ MarketData \/ ProcessTick \/ StartMatching \/ LeaveOrder \/ EndTick
           \/ AfterNotice \/ AfterCreatedRest \/ AfterFilledComplete \/ ConsumeLiquidity
           \/ UNCHANGED vars
  <2>1. /\ UNCHANGED <<orders, refs>>
        /\ phase' = "conditional" => todo' = OpenConditional \/ (phase = "conditional" /\ todo' = todo)
    BY <1>8 DEF MarketData, ProcessTick, StartMatching, LeaveOrder, LoopIn, EndTick, Idle,
                AfterNotice, AfterCreatedRest, AfterFilledComplete, ConsumeLiquidity, vars
  <2> QED BY <2>1, RefsKept
<1> QED BY <1>1, <1>2, <1>3, <1>4, <1>5, <1>6, <1>7, <1>8 DEF Next, Loop, Resume

\* When listeners cancel no order that a suspended loop still holds, the trigger
\* engine remembers a price for no order but an open trailing stop, so the loop
\* never writes one back for an order that is gone (trigger_engine.py:184-240).
THEOREM RefsOnlyForOpen == ~StaleCancels => (Spec => []RefsOnlyForOpenOrders)
<1>1. ASSUME ~StaleCancels PROVE Spec => []RefsOnlyForOpenOrders
  <2>1. Init => RefInv
    <3>1. Init => RefsOnlyForOpenOrders /\ LoopIsOpen
      BY DEF Init, RefsOnlyForOpenOrders, LoopIsOpen
    <3> QED BY <3>1, CallInit DEF RefInv
  <2>2. RefInv /\ [Next]_vars => RefInv'
    BY <1>1, RefStep
  <2>3. RefInv => RefsOnlyForOpenOrders
    BY DEF RefInv
  <2> QED BY <2>1, <2>2, <2>3, PTL DEF Spec
<1> QED BY <1>1

-----------------------------------------------------------------------------
(* What a step of the trigger loop may do. *)

\* An evaluation moves a reference that is there towards the market, and only
\* in the direction of its side.
LEMMA ReferenceFollows ==
  ASSUME NEW o \in Order, NEW b \in Book, NEW ref \in Nat
  PROVE  IF o.side = "BUY" THEN Evaluated(o, b, ref) <= ref ELSE Evaluated(o, b, ref) >= ref
<1>1. PICK touch \in Nat \cup {NoPrice} : touch = Touch(b, o.side)
  BY TouchType
<1>2. ref # NoPrice
  BY DEF NoPrice
<1> QED BY <1>1, <1>2 DEF Evaluated, TrailingReference, Lower, Higher, NoPrice

\* Over the ticks a trailing stop lives its reference never moves back, through
\* every tick, cancellation and listener (trigger_engine.py:196-218).
THEOREM TrailsFollow == Spec => TrailFollowsOneWay
<1> DEFINE Follows ==
      \A id \in OrderIds :
        refs[id] # NoPrice /\ refs'[id] # NoPrice =>
          IF orders[id].side = "BUY" THEN refs'[id] <= refs[id] ELSE refs'[id] >= refs[id]
<1>1. TypeInv /\ [Next]_vars => [Follows]_vars
  <2> SUFFICES ASSUME TypeInv, [Next]_vars, NEW id \in OrderIds,
                      refs[id] # NoPrice, refs'[id] # NoPrice
               PROVE  IF orders[id].side = "BUY" THEN refs'[id] <= refs[id] ELSE refs'[id] >= refs[id]
    OBVIOUS
  <2>1. /\ refs \in [OrderIds -> Nat \cup {NoPrice}] /\ refs[id] \in Nat
        /\ orders[id] \in Order /\ book \in Book
    BY DEF TypeInv, TypeOK
  <2>2. refs'[id] \in {refs[id], Evaluated(orders[id], book, refs[id])}
    <3>1. CASE refs' = refs
      BY <3>1
    <3>2. ASSUME NEW x \in OrderIds, refs' = [refs EXCEPT ![x] = NoPrice]
          PROVE  refs'[id] = refs[id]
      BY <2>1, <3>2
    <3>3. CASE EvaluateOrder
      BY <2>1, <3>3 DEF EvaluateOrder
    <3>4. CASE FireConditionalOrder
      <4>1. Upcoming \in OrderIds
        BY <3>4, UpcomingType DEF FireConditionalOrder, LoopIn
      <4> QED BY <3>2, <3>4, <4>1 DEF FireConditionalOrder
    <3>5. ASSUME NEW x \in OrderIds, Cancel(x) PROVE refs'[id] = refs[id]
      BY <3>1, <3>2, <3>5 DEF Cancel
    <3>6. CASE \/ \E r \in Requests : Place(r)
               \/ MarketData \/ ProcessTick \/ StartMatching \/ LeaveOrder \/ MatchOrder \/ EndTick
               \/ Resume \/ UNCHANGED vars
      <4>1. refs' = refs
        BY <3>6 DEF Place, MarketData, ProcessTick, StartMatching, LeaveOrder, MatchOrder, EndTick,
                    Resume, AfterNotice, AfterCreatedMatch, AfterCreatedRest, AfterTriggered,
                    AfterFilledComplete, ConsumeLiquidity, vars
      <4> QED BY <4>1
    <3> QED BY <3>3, <3>4, <3>5, <3>6 DEF Next, Loop
  <2>3. refs[id] <= refs[id] /\ refs[id] >= refs[id]
    BY <2>1
  <2> QED BY <2>1, <2>2, <2>3, ReferenceFollows
<1> QED BY <1>1, TypeInit, TypeStep, PTL DEF Spec, TrailFollowsOneWay

\* A step places one order at most.
LEMMA CounterGrows ==
  ASSUME TypeInv, [Next]_vars
  PROVE  counter' \in {counter, counter + 1}
BY DEF Next, Place, PlaceOrder, Cancel, MarketData, ProcessTick, Loop, EvaluateOrder,
       FireConditionalOrder, StartMatching, LeaveOrder, MatchOrder, EndTick, Resume, AfterNotice,
       AfterCreatedMatch, AfterCreatedRest, AfterTriggered, AfterFilledComplete, ConsumeLiquidity,
       vars

\* What a step may make of an order: place it, withdraw it, or fill some of it.
PlacedNow(id) ==
  /\ id = counter + 1 /\ counter' = id
  /\ orders'[id].filled = 0 /\ orders'[id].status \in {"OPEN", "FAILED"}
  /\ lastEvent'[id] \in {"created", "failed"}

WithdrawnNow(id) ==
  /\ IsOpen(orders[id])
  /\ orders'[id] = [orders[id] EXCEPT !.status = "CANCELLED"]
  /\ lastEvent'[id] \in {"cancelled", "triggered"}

FilledMore(id) ==
  /\ id <= counter
  /\ ~IsConditional(orders[id]) /\ orders'[id].type = orders[id].type
  /\ orders'[id].status \in {"FILLED", "PARTIALLY_FILLED"}
  /\ lastEvent'[id] = "filled"
  /\ ~StaleCancels /\ HeldOrdersAreOpen => IsOpen(orders[id])

OrderMoves(id) ==
  orders'[id] = orders[id] \/ PlacedNow(id) \/ WithdrawnNow(id) \/ FilledMore(id)

\* No step does anything else to an order.
LEMMA StepsMoveOrders ==
  ASSUME CallInv, [Next]_vars
  PROVE  \A id \in OrderIds : OrderMoves(id)
<1>a. /\ TypeInv /\ orders \in [OrderIds -> Order] /\ counter \in 0 .. MaxOrders
      /\ stack \in Seq(Frame) /\ lastEvent \in [OrderIds -> EventPoints \cup {"none"}]
  BY DEF CallInv, TypeInv, TypeOK
<1>b. stack # << >> =>
        /\ Below \in Seq(Frame) /\ Top.id \in OrderIds
        /\ Len(stack) \in DOMAIN stack /\ Top = stack[Len(stack)]
  BY <1>a, StackShape DEF Frame, Top
<1>1. ASSUME NEW r \in Request, NEW under \in Seq(Frame), PlaceOrder(r, under)
      PROVE  \A id \in OrderIds : OrderMoves(id)
  <2>1. PICK o, e :
          /\ o \in {Placed(r), NewOrder(Quantized(r), "FAILED")} /\ e \in {"created", "failed"}
          /\ orders' = [orders EXCEPT ![counter + 1] = o]
          /\ lastEvent' = [lastEvent EXCEPT ![counter + 1] = e]
    <3>1. [NewOrder(Quantized(r), "OPEN") EXCEPT !.status = "FAILED"] = NewOrder(Quantized(r), "FAILED")
      BY DEF NewOrder
    <3> QED BY <1>1, <3>1 DEF PlaceOrder, Placed, Dispatch
  <2>2. counter' = counter + 1
    BY <1>1 DEF PlaceOrder
  <2>3. o.filled = 0 /\ o.status \in {"OPEN", "FAILED"}
    BY <2>1 DEF Placed, NewOrder
  <2>4. ASSUME NEW id \in OrderIds, id = counter + 1 PROVE PlacedNow(id)
    BY <1>a, <2>1, <2>2, <2>3, <2>4 DEF PlacedNow
  <2>5. ASSUME NEW id \in OrderIds, id # counter + 1 PROVE orders'[id] = orders[id]
    BY <1>a, <2>1, <2>5
  <2> QED BY <2>4, <2>5 DEF OrderMoves
<1>2. ASSUME NEW x \in OrderIds, IsOpen(orders[x]), Withdraw(x),
             NEW e \in {"cancelled", "triggered"}, NEW under, NEW level, NEW amount,
             Dispatch(e, x, under, level, amount)
      PROVE  \A id \in OrderIds : OrderMoves(id)
  <2>1. orders' = [orders EXCEPT ![x].status = "CANCELLED"] /\ lastEvent' = [lastEvent EXCEPT ![x] = e]
    BY <1>2 DEF Withdraw, Dispatch
  <2>2. WithdrawnNow(x)
    BY <1>a, <1>2, <2>1 DEF WithdrawnNow
  <2>3. \A id \in OrderIds : id # x => orders'[id] = orders[id]
    BY <1>a, <2>1
  <2> QED BY <2>2, <2>3 DEF OrderMoves
<1>3. ASSUME NEW x \in OrderIds, x <= counter, ~IsConditional(orders[x]), NEW m, NEW under,
             ProcessFill(x, m, under), ~StaleCancels /\ HeldOrdersAreOpen => IsOpen(orders[x])
      PROVE  \A id \in OrderIds : OrderMoves(id)
  <2>1. PICK fee : orders' = [orders EXCEPT ![x] = UpdateWithFill(orders[x], m.amount, m.cost, fee)]
    BY <1>3 DEF ProcessFill
  <2>2. lastEvent' = [lastEvent EXCEPT ![x] = "filled"]
    BY <1>3 DEF ProcessFill, Dispatch
  <2>3. /\ UpdateWithFill(orders[x], m.amount, m.cost, fee).type = orders[x].type
        /\ UpdateWithFill(orders[x], m.amount, m.cost, fee).status \in {"FILLED", "PARTIALLY_FILLED"}
    BY <1>a DEF UpdateWithFill, Order
  <2>4. FilledMore(x)
    BY <1>3, <1>a, <2>1, <2>2, <2>3 DEF FilledMore
  <2>5. \A id \in OrderIds : id # x => orders'[id] = orders[id]
    BY <1>a, <2>1
  <2> QED BY <2>4, <2>5 DEF OrderMoves
<1>4. ASSUME NEW r \in Requests, Place(r) PROVE \A id \in OrderIds : OrderMoves(id)
  BY <1>a, <1>1, <1>4, ExchangeAssumption DEF Place
<1>5. ASSUME NEW x \in OrderIds, Cancel(x) PROVE \A id \in OrderIds : OrderMoves(id)
  BY <1>2, <1>5 DEF Cancel
<1>6. CASE FireConditionalOrder
  <2>1. Upcoming \in OrderIds
    BY <1>6, <1>a, UpcomingType DEF FireConditionalOrder, LoopIn
  <2> QED BY <1>2, <1>6, <2>1 DEF FireConditionalOrder
<1>7. CASE MatchOrder
  <2>1. Upcoming \in OrderIds /\ Upcoming <= counter /\ Upcoming \in todo /\ phase = "matching"
    BY <1>7, <1>a, UpcomingType DEF MatchOrder, LoopIn
  <2>2. ~IsConditional(orders[Upcoming])
    BY <2>1 DEF CallInv, LoopIsPlain
  <2>3. ~StaleCancels /\ HeldOrdersAreOpen => IsOpen(orders[Upcoming])
    BY <2>1 DEF HeldOrdersAreOpen
  <2> QED BY <1>3, <1>7, <2>1, <2>2, <2>3 DEF MatchOrder
<1>8. CASE AfterCreatedMatch
  <2>1. stack # << >> /\ orders[Top.id].type = "MARKET" /\ Top.at = "created"
    BY <1>8 DEF AfterCreatedMatch, Resumes
  <2>2. ~IsConditional(orders[Top.id])
    BY <2>1 DEF IsConditional, ConditionalTypes
  <2>3. ~StaleCancels /\ HeldOrdersAreOpen => IsOpen(orders[Top.id])
    BY <1>b, <2>1 DEF HeldOrdersAreOpen, WaitsToMatch
  <2>4. Top.id <= counter
    BY <1>b, <2>1 DEF CallInv, FrameOK
  <2> QED BY <1>3, <1>8, <1>b, <2>1, <2>2, <2>3, <2>4 DEF AfterCreatedMatch
<1>9. CASE AfterTriggered
  <2>1. stack # << >> /\ PlaceOrder(MarketRequest(orders[Top.id]), Below)
    BY <1>9 DEF AfterTriggered, Resumes
  <2>2. MarketRequest(orders[Top.id]) \in Request
    BY <1>a, <1>b, <2>1, MarketRequestType
  <2> QED BY <1>1, <1>b, <2>1, <2>2
<1>10. CASE \/ MarketData \/ ProcessTick \/ EvaluateOrder \/ StartMatching \/ LeaveOrder \/ EndTick
            \/ AfterNotice \/ AfterCreatedRest \/ AfterFilledComplete \/ ConsumeLiquidity
            \/ UNCHANGED vars
  <2>1. orders' = orders
    BY <1>10 DEF MarketData, ProcessTick, EvaluateOrder, StartMatching, LeaveOrder, EndTick,
                 AfterNotice, AfterCreatedRest, AfterFilledComplete, ConsumeLiquidity, vars
  <2> QED BY <2>1 DEF OrderMoves
<1> QED BY <1>4, <1>5, <1>6, <1>7, <1>8, <1>9, <1>10 DEF Next, Loop, Resume

\* No part of a stop is ever filled: it is cancelled whole when it fires.
StopsUnfilled == \A id \in OrderIds : IsConditional(orders[id]) => orders[id].filled = 0

\* The two places that fill an order never reach a stop.
LEMMA StopsStayUnfilled == CallInv /\ StopsUnfilled /\ [Next]_vars => StopsUnfilled'
<1> SUFFICES ASSUME CallInv, StopsUnfilled, [Next]_vars, NEW id \in OrderIds, IsConditional(orders'[id])
             PROVE  orders'[id].filled = 0
  BY DEF StopsUnfilled
<1>1. orders[id] \in Order
  BY DEF CallInv, TypeInv, TypeOK
<1>2. CASE WithdrawnNow(id)
  BY <1>1, <1>2 DEF WithdrawnNow, StopsUnfilled, IsConditional, Order
<1>3. ~FilledMore(id)
  BY DEF FilledMore, IsConditional
<1> QED BY <1>2, <1>3, StepsMoveOrders DEF OrderMoves, PlacedNow, StopsUnfilled

\* Only the trigger loop tells listeners that an order has fired, in the step
\* that cancels it.
LEMMA FiresOnlyInLoop ==
  ASSUME TypeInv, [Next]_vars, NEW id \in OrderIds,
         lastEvent'[id] = "triggered", lastEvent[id] # "triggered"
  PROVE  FireConditionalOrder /\ id = Upcoming
<1>a. /\ lastEvent \in [OrderIds -> EventPoints \cup {"none"}] /\ orders \in [OrderIds -> Order]
      /\ stack \in Seq(Frame)
  BY DEF TypeInv, TypeOK
<1>1. ASSUME NEW e, NEW x, NEW under, NEW level, NEW amount, Dispatch(e, x, under, level, amount)
      PROVE  x = id /\ e = "triggered"
  BY <1>1, <1>a DEF Dispatch
<1>2. ASSUME NEW r, NEW under, PlaceOrder(r, under) PROVE FALSE
  BY <1>1, <1>2 DEF PlaceOrder
<1>3. ASSUME NEW x, NEW m, NEW under, ProcessFill(x, m, under) PROVE FALSE
  BY <1>1, <1>3 DEF ProcessFill
<1>4. ASSUME NEW x, Cancel(x) PROVE FALSE
  BY <1>1, <1>4 DEF Cancel
<1>5. ~AfterFilledComplete
  BY <1>1 DEF AfterFilledComplete
<1>6. CASE FireConditionalOrder
  BY <1>1, <1>6 DEF FireConditionalOrder
<1>7. ASSUME \/ \E r \in Requests : Place(r)
             \/ MatchOrder \/ AfterCreatedMatch \/ AfterTriggered
      PROVE  FALSE
  BY <1>2, <1>3, <1>7 DEF Place, MatchOrder, AfterCreatedMatch, AfterTriggered
<1>8. ASSUME \/ MarketData \/ ProcessTick \/ EvaluateOrder \/ StartMatching \/ LeaveOrder \/ EndTick
             \/ AfterNotice \/ AfterCreatedRest \/ ConsumeLiquidity \/ UNCHANGED vars
      PROVE  FALSE
  BY <1>8 DEF MarketData, ProcessTick, EvaluateOrder, StartMatching, LeaveOrder, EndTick,
              AfterNotice, AfterCreatedRest, ConsumeLiquidity, vars
<1> QED BY <1>4, <1>5, <1>6, <1>7, <1>8 DEF Next, Loop, Resume

\* A sell stop is open and unfilled when it fires, so what it releases is its
\* amount, and what is left of the lock is still covered.
LEMMA FiringRelocks ==
  ASSUME CallInv, BaseInv, StopsUnfilled, [Next]_vars, NEW id \in OrderIds,
         lastEvent'[id] = "triggered", lastEvent[id] # "triggered", orders[id].side = "SELL"
  PROVE  CanLock(balances', "base", orders[id].amount)
<1>1. TypeInv /\ BaseSide
  BY DEF BaseInv
<1>2. FireConditionalOrder /\ id = Upcoming
  BY <1>1, FiresOnlyInLoop
<1>3. /\ Fires(orders[id], book, refs[id]) /\ IsOpen(orders[id]) /\ Withdraw(id) /\ counter' = counter
  BY <1>2 DEF FireConditionalOrder
<1>4. IsConditional(orders[id])
  BY <1>3 DEF Fires, IsConditional, ConditionalTypes
<1>5. PICK n \in Nat : n = orders[id].amount /\ orders[id].filled = 0 /\ Remaining(orders[id]) = n
  BY <1>1, <1>4 DEF StopsUnfilled, TypeInv, TypeOK, Order, Remaining
<1>6. SaleReserve(orders[id]) = n /\ Collateral(orders[id]) = n /\ CollateralCurrency(orders[id]) = "base"
  BY <1>3, <1>5 DEF SaleReserve, Collateral, CollateralCurrency
<1>7. n <= balances["base"].locked /\ balances["base"].locked <= balances["base"].total
  BY <1>1, <1>6, ReserveIsLocked DEF BaseInv, BaseSide, NoNakedSale
<1>8. balances["base"].held
  BY <1>1, <1>3 DEF BaseSide, BaseHeld
<1>9. /\ balances'["base"].held /\ balances'["base"].total = balances["base"].total
      /\ balances'["base"].locked = Higher(0, balances["base"].locked - n)
  BY <1>1, <1>3, <1>6, <1>8, WithdrawType
<1>10. balances["base"].locked \in Int /\ balances["base"].total \in Int
  BY <1>1 DEF TypeInv, TypeOK, Currencies, TokenBalance
<1>11. Available(balances'["base"]) >= n
  BY <1>7, <1>9, <1>10 DEF Available, Higher
<1> QED BY <1>5, <1>9, <1>11 DEF CanLock

\* With listeners that cancel no held order, what a sell stop releases when it
\* fires can be locked again for the market order that replaces it, whatever
\* other sales have locked (exchange.py:578-598).
THEOREM SellStopsRelock == ~StaleCancels => (Spec => SellStopCanRelock)
<1> SUFFICES ASSUME ~StaleCancels PROVE Spec => SellStopCanRelock
  OBVIOUS
<1> DEFINE StopInv == CallInv /\ BaseInv /\ StopsUnfilled
           Relock  ==
             \A id \in OrderIds :
               (lastEvent'[id] = "triggered" /\ lastEvent[id] # "triggered" /\ orders[id].side = "SELL")
               => CanLock(balances', "base", orders[id].amount)
<1>1. Init => StopInv
  BY CallInit, BaseInit DEF Init, StopsUnfilled, NoOrder
<1>2. StopInv /\ [Next]_vars => StopInv'
  BY CallStep, BaseStep, StopsStayUnfilled
<1>3. StopInv /\ [Next]_vars => [Relock]_vars
  BY FiringRelocks
<1> QED BY <1>1, <1>2, <1>3, PTL DEF Spec, SellStopCanRelock

\* With listeners that cancel no held order only open orders are filled, as
\* process_tick says (exchange.py:377): of the two loops and the calls that wait
\* on OrderCreated none has kept an order that was withdrawn meanwhile.
THEOREM FillsOnlyOpen == ~StaleCancels => (Spec => FillsOnlyOpenOrders)
<1> SUFFICES ASSUME ~StaleCancels PROVE Spec => FillsOnlyOpenOrders
  OBVIOUS
<1> DEFINE OpenInv == CallInv /\ BaseInv /\ StopsUnfilled
           FillsOpen ==
             \A id \in OrderIds : orders'[id].filled > orders[id].filled => IsOpen(orders[id])
<1>1. Init => OpenInv
  BY CallInit, BaseInit DEF Init, StopsUnfilled, NoOrder
<1>2. OpenInv /\ [Next]_vars => OpenInv'
  BY CallStep, BaseStep, StopsStayUnfilled
<1>3. OpenInv /\ [Next]_vars => [FillsOpen]_vars
  <2> SUFFICES ASSUME OpenInv, [Next]_vars, NEW id \in OrderIds,
                      orders'[id].filled > orders[id].filled
               PROVE  IsOpen(orders[id])
    OBVIOUS
  <2>1. OrderMoves(id) /\ HeldOrdersAreOpen
    BY StepsMoveOrders DEF BaseInv
  <2>2. orders[id] \in Order /\ orders[id].filled \in Nat
    BY DEF BaseInv, TypeInv, TypeOK, Order
  <2>3. orders'[id] # orders[id]
    BY <2>2
  <2>4. ~PlacedNow(id) /\ ~WithdrawnNow(id)
    <3>1. ~PlacedNow(id)
      BY <2>2 DEF PlacedNow
    <3>2. ASSUME WithdrawnNow(id) PROVE FALSE
      <4>1. orders'[id].filled = orders[id].filled
        BY <2>2, <3>2 DEF WithdrawnNow, Order
      <4> QED BY <2>2, <4>1
    <3> QED BY <3>1, <3>2
  <2> QED BY <2>1, <2>3, <2>4 DEF OrderMoves, FilledMore
<1> QED BY <1>1, <1>2, <1>3, PTL DEF Spec, FillsOnlyOpenOrders

-----------------------------------------------------------------------------
(* What the open purchases have reserved. *)

\* The manager has an entry for quote as long as a purchase is open.
QuoteHeld ==
  \A id \in OrderIds : IsOpen(orders[id]) /\ orders[id].side = "BUY" => balances["quote"].held

\* No purchase has cost more than what was reserved for the part that is filled.
Affordable(o) == o.side = "BUY" => o.cost <= o.filled * CollateralPrice(o)

QuoteSide ==
  NoMarketBuy =>
    /\ QuoteHeld
    /\ \A id \in OrderIds : Affordable(orders[id])
    /\ balances["quote"].locked = Total(QuoteReserved, MaxOrders)

QuoteInv == CallInv /\ BaseInv /\ QuoteSide

\* The reserve of a purchase: its lock while it is open, and what its fills saved on their limit.
LEMMA PurchaseReserveType ==
  ASSUME NEW o \in Order, o.filled <= o.amount
  PROVE  /\ PurchaseReserve(o) \in Int /\ CollateralPrice(o) \in Nat
         /\ Affordable(o) => PurchaseReserve(o) \in Nat
         /\ o.side = "BUY" /\ IsOpen(o) =>
              /\ PurchaseReserve(o) = Collateral(o) + (o.filled * CollateralPrice(o) - o.cost)
              /\ Collateral(o) \in Nat
              /\ o.filled * CollateralPrice(o) \in Nat
<1>1. PICK p \in Nat, f \in Nat, a \in Nat, c \in Int :
        p = CollateralPrice(o) /\ f = o.filled /\ a = o.amount /\ c = o.cost
  BY DEF CollateralPrice, Order, NoPrice
<1>2. PICK d \in Nat : d = a - f
  BY <1>1, a - f \in Nat
<1>3. a * p = d * p + f * p /\ a * p \in Nat /\ d * p \in Nat /\ f * p \in Nat
  <2>1. a = d + f
    BY <1>1, <1>2
  <2> QED BY <2>1
<1>4. Remaining(o) = d
  BY <1>1, <1>2 DEF Remaining
<1>5. CASE o.side = "SELL"
  BY <1>1, <1>5 DEF PurchaseReserve
<1>6. CASE o.side = "BUY"
  <2>1. PurchaseReserve(o) = (IF IsOpen(o) THEN a ELSE f) * p - c
    BY <1>1, <1>6 DEF PurchaseReserve
  <2>2. Collateral(o) = d * p /\ (Affordable(o) => c <= f * p)
    BY <1>1, <1>4, <1>6 DEF Collateral, Affordable
  <2>3. CASE IsOpen(o)
    <3>1. PurchaseReserve(o) = d * p + (f * p - c)
      BY <1>3, <2>1, <2>3
    <3> QED BY <1>1, <1>3, <2>2, <3>1
  <2>4. CASE ~IsOpen(o)
    <3>1. PurchaseReserve(o) = f * p - c
      BY <2>1, <2>4
    <3> QED BY <1>1, <1>3, <2>2, <2>4, <3>1
  <2> QED BY <2>3, <2>4
<1> QED BY <1>5, <1>6 DEF Order, Sides

\* Orders keep their side and type, so an old purchase at the market stays one.
LEMMA NoMarketBuyBefore ==
  ASSUME NoMarketBuy',
         \A x \in OrderIds : orders[x] = NoOrder \/
           (orders'[x].type = orders[x].type /\ orders'[x].side = orders[x].side)
  PROVE  NoMarketBuy
BY DEF NoMarketBuy, NoOrder

\* When one order changes, the sum of the reserves changes by its reserve.
LEMMA QuoteMoves ==
  ASSUME QuoteInv, NoMarketBuy, NEW id \in OrderIds,
         orders' \in [OrderIds -> Order], NoOverfill',
         \A x \in OrderIds : x # id => orders'[x] = orders[x],
         Affordable(orders'[id]),
         balances["quote"].held => balances'["quote"].held,
         IsOpen(orders'[id]) /\ orders'[id].side = "BUY" => balances'["quote"].held,
         balances'["quote"].locked =
           balances["quote"].locked + (PurchaseReserve(orders'[id]) - PurchaseReserve(orders[id]))
  PROVE  QuoteSide'
<1> DEFINE f == [x \in OrderIds |-> PurchaseReserve(orders[x])]
           g == [x \in OrderIds |-> PurchaseReserve(orders'[x])]
<1>1. /\ MaxOrders \in Nat /\ OrderIds = 1 .. MaxOrders
      /\ orders \in [OrderIds -> Order] /\ NoOverfill
  BY ExchangeAssumption DEF QuoteInv, CallInv, TypeInv, TypeOK, OrderIds
<1>2. \A i \in OrderIds : f[i] = PurchaseReserve(orders[i]) /\ f[i] \in Int
  <2> SUFFICES ASSUME NEW i \in OrderIds PROVE f[i] = PurchaseReserve(orders[i]) /\ f[i] \in Int
    OBVIOUS
  <2>1. orders[i] \in Order /\ orders[i].filled <= orders[i].amount
    BY <1>1 DEF NoOverfill
  <2> QED BY <2>1, PurchaseReserveType
<1>3. \A i \in OrderIds : g[i] = PurchaseReserve(orders'[i]) /\ g[i] \in Int
  <2> SUFFICES ASSUME NEW i \in OrderIds PROVE g[i] = PurchaseReserve(orders'[i]) /\ g[i] \in Int
    OBVIOUS
  <2>1. orders'[i] \in Order /\ orders'[i].filled <= orders'[i].amount
    BY DEF NoOverfill
  <2> QED BY <2>1, PurchaseReserveType
<1>4. QuoteReserved = f /\ QuoteReserved' = g
  BY DEF QuoteReserved
<1> HIDE DEF f, g
<1>5. \A i \in 1 .. MaxOrders : f[i] \in Int /\ g[i] \in Int
  BY <1>1, <1>2, <1>3
<1>6. \A i \in 1 .. MaxOrders : i # id => g[i] = f[i]
  BY <1>1, <1>2, <1>3
<1>7. Total(g, MaxOrders) = Total(f, MaxOrders) + (g[id] - f[id])
  <2>1. MaxOrders \in Nat /\ id \in 1 .. MaxOrders
    BY <1>1
  <2> QED BY <1>5, <1>6, <2>1, TotalUpdate
<1>8. balances["quote"].locked = Total(f, MaxOrders)
  BY <1>4 DEF QuoteInv, QuoteSide
<1>9. balances'["quote"].locked = Total(g, MaxOrders)
  BY <1>2, <1>3, <1>7, <1>8
<1>10. QuoteHeld'
  BY DEF QuoteInv, QuoteSide, QuoteHeld
<1>11. \A x \in OrderIds : Affordable(orders'[x])
  BY DEF QuoteInv, QuoteSide
<1>12. (\A x \in OrderIds : Affordable(orders[x]))' <=> \A x \in OrderIds : Affordable(orders'[x])
  BY DEF Affordable
<1>13. (balances["quote"].locked = Total(QuoteReserved, MaxOrders))'
  BY <1>4, <1>9
<1> QED BY <1>10, <1>11, <1>12, <1>13 DEF QuoteSide

\* What one purchase has reserved is part of what is locked.
LEMMA PurchaseIsLocked ==
  ASSUME QuoteInv, NoMarketBuy, NEW id \in OrderIds
  PROVE  PurchaseReserve(orders[id]) \in Nat /\ PurchaseReserve(orders[id]) <= balances["quote"].locked
<1> DEFINE f == [x \in OrderIds |-> PurchaseReserve(orders[x])]
<1>1. /\ MaxOrders \in Nat /\ OrderIds = 1 .. MaxOrders
      /\ orders \in [OrderIds -> Order] /\ NoOverfill
  BY ExchangeAssumption DEF QuoteInv, CallInv, TypeInv, TypeOK, OrderIds
<1>2. \A i \in OrderIds : f[i] = PurchaseReserve(orders[i]) /\ f[i] \in Nat
  <2> SUFFICES ASSUME NEW i \in OrderIds PROVE f[i] = PurchaseReserve(orders[i]) /\ f[i] \in Nat
    OBVIOUS
  <2>1. orders[i] \in Order /\ orders[i].filled <= orders[i].amount /\ Affordable(orders[i])
    BY <1>1 DEF NoOverfill, QuoteInv, QuoteSide
  <2> QED BY <2>1, PurchaseReserveType
<1>3. balances["quote"].locked = Total(f, MaxOrders)
  BY DEF QuoteInv, QuoteSide, QuoteReserved
<1> HIDE DEF f
<1>4. \A k \in 1 .. MaxOrders : f[k] <= Total(f, MaxOrders)
  BY <1>1, <1>2, TotalAtLeast
<1> QED BY <1>1, <1>2, <1>3, <1>4

\* Placing an order keeps the quote side: the lock grows by what the order reserves, if it may.
LEMMA QuoteAfterPlacing ==
  ASSUME QuoteInv, NEW r \in Request, NEW under \in Seq(Frame), PlaceOrder(r, under)
  PROVE  QuoteSide'
<1> SUFFICES ASSUME NoMarketBuy' PROVE QuoteSide'
  BY DEF QuoteSide
<1> DEFINE o == Placed(r)
           f == NewOrder(Quantized(r), "FAILED")
<1>1. PICK id : id = counter + 1
  OBVIOUS
<1>2. /\ id \in OrderIds /\ orders' \in [OrderIds -> Order] /\ NoOverfill'
      /\ balances \in [Currencies -> TokenBalance] /\ orders \in [OrderIds -> Order]
      /\ TypeInv
  BY <1>1, PlaceOrderType DEF QuoteInv, CallInv, TypeInv, TypeOK
<1>3. orders[id] = NoOrder /\ PurchaseReserve(NoOrder) = 0
  <2>1. id > counter
    BY <1>1, <1>2 DEF TypeInv, TypeOK
  <2>2. PurchaseReserve(NoOrder) = 0
    <3>1. /\ NoOrder.side = "BUY" /\ ~IsOpen(NoOrder) /\ NoOrder.filled = 0 /\ NoOrder.cost = 0
          /\ CollateralPrice(NoOrder) = 0
      BY DEF NoOrder, IsOpen, CollateralPrice, IsConditional, ConditionalTypes
    <3> QED BY <3>1 DEF PurchaseReserve
  <2> QED BY <1>2, <2>1, <2>2 DEF TypeInv, FreshIds
<1>4. o \in Order /\ o.filled = 0 /\ o.cost = 0 /\ IsOpen(o) /\ 0 <= o.amount
  <2>1. "OPEN" \in Statuses
    BY DEF Statuses
  <2>2. o \in Order /\ o.filled = 0
    BY <2>1, NewOrderType DEF Placed
  <2> QED BY <2>2 DEF Placed, NewOrder, IsOpen, Order
<1>5. f \in Order /\ f.filled = 0 /\ f.cost = 0 /\ ~IsOpen(f) /\ [o EXCEPT !.status = "FAILED"] = f
  <2>1. "FAILED" \in Statuses
    BY DEF Statuses
  <2>2. f \in Order /\ f.filled = 0
    BY <2>1, NewOrderType
  <2> QED BY <2>2 DEF Placed, NewOrder, IsOpen
<1>6. /\ CollateralCurrency(o) = (IF o.side = "BUY" THEN "quote" ELSE "base")
      /\ Collateral(o) \in Int /\ CollateralCurrency(o) \in Currencies
  BY <1>4, CollateralType DEF CollateralCurrency
<1>7. \/ /\ CanLock(balances, CollateralCurrency(o), Collateral(o))
         /\ balances' = LockCollateral(balances, CollateralCurrency(o), Collateral(o))
         /\ orders' = [orders EXCEPT ![id] = o]
      \/ /\ balances' = balances
         /\ orders' = [orders EXCEPT ![id] = f]
  <2> HIDE DEF f
  <2> QED BY <1>1, <1>5 DEF PlaceOrder, Placed
<1> HIDE DEF o, f
<1>8. \A x \in OrderIds : x # id => orders'[x] = orders[x]
  BY <1>2, <1>7
<1>9. NoMarketBuy
  <2>1. \A x \in OrderIds : orders[x] = NoOrder \/
          (orders'[x].type = orders[x].type /\ orders'[x].side = orders[x].side)
    BY <1>3, <1>8
  <2> QED BY <2>1, NoMarketBuyBefore
<1>10. balances["quote"].locked \in Int
  BY <1>2 DEF Currencies, TokenBalance
<1>11. \A p \in Nat : 0 * p = 0
  OBVIOUS
<1>12. CASE balances' = balances /\ orders' = [orders EXCEPT ![id] = f]
  <2>1. orders'[id] = f
    BY <1>2, <1>12
  <2>2. CollateralPrice(f) \in Nat
    BY <1>5, PurchaseReserveType DEF Order
  <2>3. 0 * CollateralPrice(f) = 0
    BY <1>11, <2>2
  <2>4. PurchaseReserve(f) = 0 /\ Affordable(f)
    BY <1>5, <2>3 DEF PurchaseReserve, Affordable
  <2>5. balances'["quote"].locked =
          balances["quote"].locked + (PurchaseReserve(orders'[id]) - PurchaseReserve(orders[id]))
    BY <1>3, <1>10, <1>12, <2>1, <2>4
  <2> QED BY <1>2, <1>5, <1>8, <1>9, <1>12, <2>1, <2>4, <2>5, QuoteMoves
<1>13. CASE /\ CanLock(balances, CollateralCurrency(o), Collateral(o))
            /\ balances' = LockCollateral(balances, CollateralCurrency(o), Collateral(o))
            /\ orders' = [orders EXCEPT ![id] = o]
  <2>1. orders'[id] = o
    BY <1>2, <1>13
  <2>2. CollateralPrice(o) \in Nat
    BY <1>4, PurchaseReserveType
  <2>3. 0 * CollateralPrice(o) = 0
    BY <1>11, <2>2
  <2>4. Affordable(o)
    BY <1>4, <2>3 DEF Affordable
  <2>5. PurchaseReserve(o) = IF o.side = "BUY" THEN Collateral(o) ELSE 0
    <3>1. CASE o.side = "BUY"
      <4>1. PurchaseReserve(o) = Collateral(o) + (o.filled * CollateralPrice(o) - o.cost)
        BY <1>4, <3>1, PurchaseReserveType
      <4>2. o.filled * CollateralPrice(o) - o.cost = 0
        BY <1>4, <2>3
      <4> QED BY <1>6, <3>1, <4>1, <4>2
    <3>2. CASE o.side = "SELL"
      BY <3>2 DEF PurchaseReserve
    <3> QED BY <1>4, <3>1, <3>2 DEF Order, Sides
  <2>6. /\ balances'["quote"].held = balances["quote"].held
        /\ balances'["quote"].locked =
             balances["quote"].locked + (IF CollateralCurrency(o) = "quote" THEN Collateral(o) ELSE 0)
    BY <1>2, <1>6, <1>13 DEF LockCollateral, Currencies, TokenBalance
  <2>7. balances'["quote"].locked =
          balances["quote"].locked + (PurchaseReserve(orders'[id]) - PurchaseReserve(orders[id]))
    BY <1>3, <1>6, <1>10, <2>1, <2>5, <2>6
  <2>8. o.side = "BUY" => balances'["quote"].held
    BY <1>6, <1>13, <2>6 DEF CanLock
  <2> QED BY <1>2, <1>8, <1>9, <2>1, <2>4, <2>6, <2>7, <2>8, QuoteMoves
<1> QED BY <1>7, <1>12, <1>13

\* Withdrawing a purchase releases the whole of what is not filled of it.
LEMMA QuoteAfterWithdrawing ==
  ASSUME QuoteInv, NEW id \in OrderIds, IsOpen(orders[id]), Withdraw(id), counter' = counter
  PROVE  QuoteSide'
<1> SUFFICES ASSUME NoMarketBuy' PROVE QuoteSide'
  BY DEF QuoteSide
<1>1. /\ orders' \in [OrderIds -> Order] /\ NoOverfill'
      /\ \A x \in OrderIds : x # id => orders'[x] = orders[x]
      /\ balances \in [Currencies -> TokenBalance] /\ orders \in [OrderIds -> Order]
      /\ orders[id].filled <= orders[id].amount
  BY WithdrawType DEF QuoteInv, CallInv, TypeInv, TypeOK, NoOverfill
<1>2. PICK o \in Order, u \in Order : o = orders[id] /\ u = orders'[id]
  BY <1>1
<1>3. /\ u = [o EXCEPT !.status = "CANCELLED"]
      /\ balances' = ReleaseCollateral(balances, CollateralCurrency(o), Collateral(o))
  BY <1>1, <1>2 DEF Withdraw
<1>4. /\ u.side = o.side /\ u.type = o.type /\ u.filled = o.filled /\ u.cost = o.cost
      /\ u.price = o.price /\ u.trigger = o.trigger /\ ~IsOpen(u) /\ IsOpen(o)
  BY <1>2, <1>3 DEF Order, IsOpen
<1>5. CollateralPrice(u) = CollateralPrice(o)
  BY <1>4 DEF CollateralPrice, IsConditional
<1>6. NoMarketBuy
  <2>1. \A x \in OrderIds : orders[x] = NoOrder \/
          (orders'[x].type = orders[x].type /\ orders'[x].side = orders[x].side)
    BY <1>1, <1>2, <1>4
  <2> QED BY <2>1, NoMarketBuyBefore
<1>7. Affordable(o) /\ Affordable(u)
  <2>1. Affordable(o)
    BY <1>2, <1>6 DEF QuoteInv, QuoteSide
  <2> QED BY <1>4, <1>5, <2>1 DEF Affordable
<1>8. PICK l \in Int, l2 \in Int : l = balances["quote"].locked /\ l2 = balances'["quote"].locked
  BY <1>1, WithdrawType DEF Currencies, TokenBalance, QuoteInv, CallInv
<1>9. balances'["quote"].held = balances["quote"].held
  BY <1>1, <1>3 DEF ReleaseCollateral, Currencies, TokenBalance
<1>10. l2 = l + (PurchaseReserve(u) - PurchaseReserve(o))
  <2>1. CASE o.side = "SELL"
    <3>1. PurchaseReserve(o) = 0 /\ PurchaseReserve(u) = 0
      BY <1>4, <2>1 DEF PurchaseReserve
    <3>2. l2 = l
      BY <1>1, <1>3, <1>8, <2>1 DEF ReleaseCollateral, CollateralCurrency, Currencies, TokenBalance
    <3> QED BY <3>1, <3>2
  <2>2. CASE o.side = "BUY"
    <3>1. balances["quote"].held
      BY <1>2, <1>4, <1>6, <2>2 DEF QuoteInv, QuoteSide, QuoteHeld
    <3>2. l2 = Higher(0, l - Collateral(o))
      BY <1>1, <1>3, <1>8, <2>2, <3>1 DEF ReleaseCollateral, CollateralCurrency, Currencies, TokenBalance
    <3>3. PurchaseReserve(o) \in Nat /\ PurchaseReserve(o) <= l
      BY <1>2, <1>6, <1>8, PurchaseIsLocked
    <3>4. PICK k \in Nat, v \in Nat, c \in Int :
            /\ k = Collateral(o) /\ v = o.filled * CollateralPrice(o) /\ c = o.cost
            /\ PurchaseReserve(o) = k + (v - c)
      BY <1>1, <1>2, <1>4, <2>2, PurchaseReserveType DEF Order
    <3>5. c <= v
      BY <1>7, <2>2, <3>4 DEF Affordable
    <3>6. PurchaseReserve(u) = v - c
      BY <1>4, <1>5, <2>2, <3>4 DEF PurchaseReserve
    <3> QED BY <3>2, <3>3, <3>4, <3>5, <3>6 DEF Higher
  <2> QED BY <1>2, <2>1, <2>2 DEF Order, Sides
<1> QED BY <1>1, <1>2, <1>4, <1>6, <1>7, <1>8, <1>9, <1>10, QuoteMoves

\* A fill of an open purchase takes out of the lock what it costs, and when it
\* is the last one leaves locked what the price was better than reserved.
LEMMA QuoteAfterFilling ==
  ASSUME QuoteInv, NEW id \in OrderIds, id <= counter, IsOpen(orders[id]), ~IsConditional(orders[id]),
         NEW m \in CheckAndMatch(orders[id], book), NEW under \in Seq(Frame),
         ProcessFill(id, m, under), counter' = counter
  PROVE  QuoteSide'
<1> SUFFICES ASSUME NoMarketBuy' PROVE QuoteSide'
  BY DEF QuoteSide
<1>1. /\ orders' \in [OrderIds -> Order] /\ NoOverfill'
      /\ \A x \in OrderIds : x # id => orders'[x] = orders[x]
      /\ m.amount \in 0 .. Remaining(orders[id])
      /\ balances' \in [Currencies -> TokenBalance]
      /\ balances \in [Currencies -> TokenBalance] /\ orders \in [OrderIds -> Order]
      /\ orders[id].filled <= orders[id].amount /\ book \in Book
  BY ProcessFillType DEF QuoteInv, CallInv, TypeInv, TypeOK, NoOverfill
<1>2. PICK o \in Order, u \in Order, fee \in {CalculateFee(orders[id], m.cost)} :
        o = orders[id] /\ u = orders'[id] /\ fee = CalculateFee(orders[id], m.cost)
  BY <1>1
<1>3. /\ u = UpdateWithFill(o, m.amount, m.cost, fee)
      /\ balances' = ApplyFill(balances, o.side, m.amount, m.cost, fee)
  BY <1>1, <1>2 DEF ProcessFill
<1>4. m.cost \in Int /\ m.amount \in Nat /\ m.amount <= Remaining(o)
  <2>1. m.cost \in Int
    BY <1>1, <1>2, MatchWithinRemaining
  <2>2. Remaining(o) \in Int
    BY DEF Remaining, Order
  <2> QED BY <1>1, <1>2, <2>1, <2>2
<1>5. /\ u.side = o.side /\ u.type = o.type /\ u.amount = o.amount
      /\ u.price = o.price /\ u.trigger = o.trigger
      /\ u.filled = o.filled + m.amount /\ u.cost = o.cost + m.cost
      /\ u.status = IF o.filled + m.amount >= o.amount THEN "FILLED" ELSE "PARTIALLY_FILLED"
  BY <1>3 DEF UpdateWithFill, Order
<1>6. ~IsConditional(o) /\ IsOpen(o) /\ o.filled <= o.amount
  BY <1>1, <1>2
<1>7. CollateralPrice(o) = o.price /\ CollateralPrice(u) = o.price
  BY <1>5, <1>6 DEF CollateralPrice, IsConditional
<1>8. NoMarketBuy
  <2>1. \A x \in OrderIds : orders[x] = NoOrder \/
          (orders'[x].type = orders[x].type /\ orders'[x].side = orders[x].side)
    BY <1>1, <1>2, <1>5
  <2> QED BY <2>1, NoMarketBuyBefore
<1>9. balances["quote"].locked \in Int /\ balances'["quote"].locked \in Int
  BY <1>1 DEF Currencies, TokenBalance
<1>10. /\ balances'["quote"].held
       /\ balances'["quote"].locked =
            balances["quote"].locked - (IF o.side = "BUY" THEN m.cost ELSE 0)
  BY <1>3, <1>4, <1>9 DEF ApplyFill, Currencies
<1>11. PICK p \in Nat, f \in Nat, a \in Nat, c \in Int, n \in Nat, k \in Int :
         /\ p = o.price /\ f = o.filled /\ a = o.amount /\ c = o.cost
         /\ n = m.amount /\ k = m.cost /\ n <= a - f
  BY <1>4 DEF Order, Remaining
<1>12. Affordable(u) /\ balances'["quote"].locked =
         balances["quote"].locked + (PurchaseReserve(u) - PurchaseReserve(o))
  <2>1. CASE o.side = "SELL"
    <3>1. PurchaseReserve(o) = 0 /\ PurchaseReserve(u) = 0 /\ Affordable(u)
      BY <1>5, <2>1 DEF PurchaseReserve, Affordable
    <3> QED BY <1>9, <1>10, <2>1, <3>1
  <2>2. CASE o.side = "BUY"
    <3>1. o.type # "MARKET"
      BY <1>2, <1>8, <2>2 DEF NoMarketBuy
    <3>2. k <= p * n
      BY <1>1, <1>2, <1>6, <1>11, <2>2, <3>1, MatchWithinLimit
    <3>3. c <= f * p
      <4>1. Affordable(o)
        BY <1>2, <1>8 DEF QuoteInv, QuoteSide
      <4> QED BY <1>7, <1>11, <2>2, <4>1 DEF Affordable
    <3>4. /\ (f + n) * p = f * p + p * n
          /\ f * p \in Nat /\ p * n \in Nat /\ a * p \in Nat
      OBVIOUS
    <3>5. Affordable(u)
      <4>1. c + k <= (f + n) * p
        BY <3>2, <3>3, <3>4
      <4>2. u.cost = c + k /\ u.filled = f + n /\ CollateralPrice(u) = p
        BY <1>5, <1>7, <1>11
      <4>3. u.cost <= u.filled * CollateralPrice(u)
        BY <4>1, <4>2, Zenon
      <4> QED BY <4>3, Zenon DEF Affordable
    <3>6. PurchaseReserve(o) = a * p - c
      BY <1>6, <1>7, <1>11, <2>2 DEF PurchaseReserve
    <3>7. PurchaseReserve(u) = a * p - (c + k)
      <4>1. CASE f + n >= a
        <5>a. n <= a - f
          BY <1>11
        <5>1. f + n = a
          BY <4>1, <5>a
        <5>2. u.status = "FILLED"
          BY <1>5, <1>11, <4>1
        <5>3. ~IsOpen(u)
          BY <5>2 DEF IsOpen
        <5> QED BY <1>5, <1>7, <1>11, <2>2, <5>1, <5>3 DEF PurchaseReserve
      <4>2. CASE ~(f + n >= a)
        <5>1. u.status = "PARTIALLY_FILLED"
          BY <1>5, <1>11, <4>2
        <5>2. IsOpen(u)
          BY <5>1 DEF IsOpen
        <5> QED BY <1>5, <1>7, <1>11, <2>2, <5>2 DEF PurchaseReserve
      <4> QED BY <4>1, <4>2
    <3>8. \A l, x, y, z \in Int : l - z = l + ((x - (y + z)) - (x - y))
      OBVIOUS
    <3>9. balances'["quote"].locked = balances["quote"].locked - k
      BY <1>10, <1>11, <2>2
    <3>10. PICK x \in Int, y \in Int, l \in Int :
                x = a * p /\ y = c /\ l = balances["quote"].locked
      <4>1. \A z \in Nat : z \in Int
        OBVIOUS
      <4>2. a * p \in Int /\ c \in Int /\ balances["quote"].locked \in Int
        BY <1>9, <3>4, <4>1, Zenon
      <4> QED BY <4>2, Zenon
    <3>11. l - k = l + ((x - (y + k)) - (x - y))
      BY <3>8
    <3>12. PurchaseReserve(o) = x - y /\ PurchaseReserve(u) = x - (y + k)
      BY <3>6, <3>7, <3>10, Zenon
    <3>13. balances'["quote"].locked
             = balances["quote"].locked + (PurchaseReserve(u) - PurchaseReserve(o))
      BY <3>9, <3>10, <3>11, <3>12, Zenon
    <3> QED BY <3>5, <3>13, Zenon
  <2> QED BY <2>1, <2>2 DEF Order, Sides
<1> QED BY <1>1, <1>2, <1>8, <1>10, <1>12, QuoteMoves

\* A step that changes neither orders nor balances keeps the quote side.
LEMMA QuoteKept ==
  ASSUME QuoteInv, UNCHANGED <<orders, balances>>
  PROVE  QuoteSide'
BY DEF QuoteInv, QuoteSide, QuoteHeld, QuoteReserved, NoMarketBuy, Affordable

\* The quote side holds at the start.
LEMMA QuoteInit == Init => QuoteSide
<1> SUFFICES ASSUME Init PROVE QuoteSide
  OBVIOUS
<1>1. /\ \A id \in OrderIds : orders[id] = NoOrder
      /\ balances["quote"].locked = 0 /\ MaxOrders \in Nat /\ OrderIds = 1 .. MaxOrders
  BY ExchangeAssumption DEF Init, Currencies, OrderIds
<1>2. /\ ~IsOpen(NoOrder) /\ NoOrder.filled = 0 /\ NoOrder.cost = 0 /\ CollateralPrice(NoOrder) = 0
  BY DEF NoOrder, IsOpen, CollateralPrice, IsConditional, ConditionalTypes
<1>3. PurchaseReserve(NoOrder) = 0 /\ Affordable(NoOrder)
  BY <1>2 DEF PurchaseReserve, Affordable
<1>4. Total(QuoteReserved, MaxOrders) = 0
  <2>1. \A i \in 1 .. MaxOrders : QuoteReserved[i] = 0
    BY <1>1, <1>3 DEF QuoteReserved
  <2> QED BY <1>1, <2>1, TotalZero
<1> QED BY <1>1, <1>2, <1>3, <1>4 DEF QuoteSide, QuoteHeld

\* Every action of the exchange keeps the quote invariant.
LEMMA QuoteStep == QuoteInv /\ ~StaleCancels /\ [Next]_vars => QuoteInv'
<1> SUFFICES ASSUME QuoteInv, ~StaleCancels, [Next]_vars PROVE QuoteInv'
  OBVIOUS
<1>a. CallInv /\ BaseInv /\ CallInv' /\ BaseInv' /\ TypeInv
  BY CallStep, BaseStep DEF QuoteInv, CallInv
<1>b. SUFFICES QuoteSide'
  BY <1>a DEF QuoteInv
<1>c. /\ stack \in Seq(Frame) /\ orders \in [OrderIds -> Order] /\ DOMAIN stack = 1 .. Len(stack)
  BY <1>a DEF TypeInv, TypeOK
<1>d. stack # << >> => Below \in Seq(Frame) /\ Top.id \in OrderIds
  BY <1>c, StackShape DEF Frame
<1>1. ASSUME NEW r \in Requests, Place(r) PROVE QuoteSide'
  <2>1. r \in Request /\ PlaceOrder(r, stack)
    BY <1>1, ExchangeAssumption DEF Place
  <2> QED BY <1>c, <2>1, QuoteAfterPlacing
<1>2. ASSUME NEW id \in OrderIds, Cancel(id) PROVE QuoteSide'
  <2>1. IsOpen(orders[id]) /\ Withdraw(id) /\ counter' = counter
    BY <1>2 DEF Cancel
  <2> QED BY <2>1, QuoteAfterWithdrawing
<1>3. CASE FireConditionalOrder
  <2>1. IsOpen(orders[Upcoming]) /\ Withdraw(Upcoming) /\ counter' = counter /\ todo # {}
    BY <1>3 DEF FireConditionalOrder, LoopIn
  <2>2. Upcoming \in OrderIds
    BY <1>a, <2>1, UpcomingType
  <2> QED BY <2>1, <2>2, QuoteAfterWithdrawing
<1>4. CASE MatchOrder
  <2>1. todo # {} /\ phase = "matching" /\ counter' = counter
    BY <1>4 DEF MatchOrder, LoopIn
  <2>2. PICK id : id = Upcoming
    OBVIOUS
  <2>3. id \in OrderIds /\ id \in todo /\ id <= counter
    BY <1>a, <2>1, <2>2, UpcomingType
  <2>4. IsOpen(orders[id]) /\ ~IsConditional(orders[id])
    BY <1>a, <2>1, <2>3 DEF BaseInv, HeldOrdersAreOpen, CallInv, LoopIsPlain
  <2>5. PICK m \in CheckAndMatch(orders[id], book) : ProcessFill(id, m, stack)
    BY <1>4, <2>2 DEF MatchOrder
  <2> QED BY <1>c, <2>1, <2>3, <2>4, <2>5, QuoteAfterFilling
<1>5. CASE AfterCreatedMatch
  <2>1. /\ stack # << >> /\ Top.at = "created" /\ orders[Top.id].type = "MARKET"
        /\ counter' = counter
    BY <1>5 DEF AfterCreatedMatch, Resumes
  <2>2. PICK m \in CheckAndMatch(orders[Top.id], book) : ProcessFill(Top.id, m, Below)
    BY <1>5 DEF AfterCreatedMatch
  <2>3. PICK id \in OrderIds : id = Top.id
    BY <1>d, <2>1, SMTT(30)
  <2>4. PICK n \in Nat \ {0} : n = Len(stack)
    BY <1>c, <2>1, StackShape
  <2>5. n \in DOMAIN stack /\ WaitsToMatch(n) /\ stack[n].id = id
    <3>1. n \in 1 .. n
      OBVIOUS
    <3> QED BY <1>c, <2>1, <2>3, <2>4, <3>1 DEF WaitsToMatch, Top
  <2>6. IsOpen(orders[id])
    BY <1>a, <2>5 DEF BaseInv, HeldOrdersAreOpen
  <2>7. ~IsConditional(orders[id]) /\ orders[id].type # NoOrder.type
    BY <2>1, <2>3 DEF IsConditional, ConditionalTypes, NoOrder
  <2>8. id <= counter
    BY <1>a, <2>7, RecordOfPlaced
  <2> QED BY <1>d, <2>1, <2>2, <2>3, <2>6, <2>7, <2>8, QuoteAfterFilling
<1>6. CASE AfterTriggered
  <2>1. stack # << >> /\ PlaceOrder(MarketRequest(orders[Top.id]), Below)
    BY <1>6 DEF AfterTriggered, Resumes
  <2>2. MarketRequest(orders[Top.id]) \in Request
    BY <1>c, <1>d, <2>1, MarketRequestType
  <2> QED BY <1>d, <2>1, <2>2, QuoteAfterPlacing
<1>7. CASE \/ MarketData \/ ProcessTick \/ EvaluateOrder \/ StartMatching \/ LeaveOrder \/ EndTick
           \/ AfterNotice \/ AfterCreatedRest \/ AfterFilledComplete \/ ConsumeLiquidity
           \/ UNCHANGED vars
  <2>1. UNCHANGED <<orders, balances>>
    BY <1>7 DEF MarketData, ProcessTick, EvaluateOrder, StartMatching, LeaveOrder, EndTick,
                AfterNotice, AfterCreatedRest, AfterFilledComplete, ConsumeLiquidity, vars
  <2> QED BY <2>1, QuoteKept
<1> QED BY <1>1, <1>2, <1>3, <1>4, <1>5, <1>6, <1>7 DEF Next, Loop, Resume

\* As long as no purchase was made at the market, and listeners cancel nothing
\* that a suspended call still holds, the quote that is locked is what the open
\* purchases reserve and what those that filled reserved and did not pay
\* (balance_manager.py:31, exchange.py:424-440).
THEOREM QuoteIsAccounted == ~StaleCancels => (Spec => []QuoteAccounted)
<1>1. ASSUME ~StaleCancels PROVE Spec => []QuoteAccounted
  <2>1. Init => QuoteInv
    BY CallInit, BaseInit, QuoteInit DEF QuoteInv
  <2>2. QuoteInv /\ [Next]_vars => QuoteInv'
    BY <1>1, QuoteStep
  <2>3. QuoteInv => QuoteAccounted
    BY DEF QuoteInv, QuoteSide, QuoteAccounted
  <2> QED BY <2>1, <2>2, <2>3, PTL DEF Spec
<1> QED BY <1>1

\* The premise under which a lock never outlives its orders: a fill at one price
\* costs what was reserved for it. So a difference stays locked only after a
\* fill at an average, or a market purchase, which reserves nothing
\* (balance_manager.py:31, 105-109).
THEOREM FillsAtLimitLeaveNoLock ==
  Engine # "Depth" /\ ~StaleCancels => (Spec => [](NoMarketBuy => NothingOpenNothingLocked))
<1> DEFINE LockInv == QuoteInv /\ StopsUnfilled /\ PriceInv
           Freed == NoMarketBuy => NothingOpenNothingLocked
<1> SUFFICES ASSUME Engine # "Depth", ~StaleCancels PROVE Spec => []Freed
  OBVIOUS
<1>1. Init => LockInv
  BY CallInit, BaseInit, QuoteInit, PriceInit DEF QuoteInv, Init, StopsUnfilled, NoOrder
<1>2. LockInv /\ [Next]_vars => LockInv'
  BY QuoteStep, PriceStep, StopsStayUnfilled DEF QuoteInv
<1>3. LockInv => Freed
  <2> SUFFICES ASSUME LockInv, NoMarketBuy, \A id \in OrderIds : ~IsOpen(orders[id]),
                      NEW c \in Currencies
               PROVE  balances[c].locked = 0
    BY DEF NothingOpenNothingLocked
  <2>1. MaxOrders \in Nat /\ OrderIds = 1 .. MaxOrders /\ orders \in [OrderIds -> Order]
    BY ExchangeAssumption DEF OrderIds, PriceInv, TypeInv, TypeOK
  <2>2. balances["base"].locked = 0
    <3>1. \A id \in 1 .. MaxOrders : BaseReserved[id] = 0
      BY <2>1 DEF BaseReserved, SaleReserve
    <3>2. Total(BaseReserved, MaxOrders) = 0
      BY <2>1, <3>1, TotalZero
    <3> QED BY <3>2 DEF QuoteInv, BaseInv, BaseSide, BaseAccounted
  <2>3. balances["quote"].locked = 0
    <3>1. ASSUME NEW id \in OrderIds PROVE QuoteReserved[id] = 0
      <4> DEFINE o == orders[id]
      <4>1. o \in Order /\ ~IsOpen(o) /\ PaidExactly(o) /\ QuoteReserved[id] = PurchaseReserve(o)
        BY <2>1 DEF PriceInv, FilledFairly, QuoteReserved
      <4>2. IsConditional(o) => o.filled = 0
        BY DEF StopsUnfilled
      <4>3. o.side = "BUY" => o.type # "MARKET"
        BY DEF NoMarketBuy
      <4> HIDE DEF o
      <4>4. o.price \in Nat /\ o.filled \in Nat /\ CollateralPrice(o) \in Nat /\ o.side \in {"BUY", "SELL"}
        BY <4>1, CollateralPriceType DEF Order, Sides
      <4>5. CASE o.side = "SELL"
        BY <4>1, <4>5 DEF PurchaseReserve
      <4>6. CASE o.side = "BUY"
        <5>1. o.cost = o.price * o.filled /\ PurchaseReserve(o) = o.filled * CollateralPrice(o) - o.cost
          BY <4>1, <4>3, <4>6 DEF PaidExactly, PurchaseReserve
        <5>2. o.filled = 0 \/ CollateralPrice(o) = o.price
          BY <4>2 DEF CollateralPrice
        <5>3. PICK f \in Nat, p \in Nat, q \in Nat : f = o.filled /\ p = o.price /\ q = CollateralPrice(o)
          BY <4>4
        <5>4. f * q = p * f /\ f * q \in Int
          <6>1. CASE f = 0
            BY <6>1
          <6>2. CASE q = p
            BY <6>2
          <6> QED BY <5>2, <5>3, <6>1, <6>2
        <5> QED BY <4>1, <5>1, <5>3, <5>4
      <4> QED BY <4>4, <4>5, <4>6
    <3>2. Total(QuoteReserved, MaxOrders) = 0
      BY <2>1, <3>1, TotalZero
    <3> QED BY <3>2 DEF QuoteInv, QuoteSide
  <2> QED BY <2>2, <2>3 DEF Currencies
<1> HIDE DEF LockInv, Freed
<1> QED BY <1>1, <1>2, <1>3, PTL DEF Spec

-----------------------------------------------------------------------------
(* What is left of the funds. *)

NoFeeNegative == \A id \in OrderIds : orders[id].fee \in Nat

QuoteFunds ==
  NoMarketBuy =>
    balances["quote"].locked <=
      balances["quote"].total + Total(FeeOf("BUY"), MaxOrders) + Total(FeeOf("SELL"), MaxOrders)

\* What a fired sell stop released is there but for what later sales have taken.
Spared(id) == Available(balances["base"]) + ClaimedAfter(id) >= orders[id].amount

FiredSale(id) == lastEvent[id] = "triggered" /\ orders[id].side = "SELL"

SaleFunds == \A id \in OrderIds : FiredSale(id) => Spared(id)

FundsInv == QuoteInv /\ StopsUnfilled /\ NoFeeNegative /\ QuoteFunds /\ SaleFunds

\* The funds after a step, but for stops that fire in it.
FundsKept ==
  /\ NoFeeNegative' /\ QuoteFunds'
  /\ \A id \in OrderIds : lastEvent[id] = "triggered" /\ orders'[id].side = "SELL" => Spared(id)'

\* The claim of a sale is a natural number.
LEMMA SaleClaimType ==
  ASSUME NEW o \in Order
  PROVE  SaleClaim(o) \in Nat
BY DEF SaleClaim, Order

\* When one order changes, what the sales after another have claimed changes by its claim.
LEMMA ClaimsMove ==
  ASSUME NEW x \in OrderIds, NEW id \in OrderIds,
         orders \in [OrderIds -> Order], orders' \in [OrderIds -> Order],
         \A y \in OrderIds : y # x => orders'[y] = orders[y]
  PROVE  /\ ClaimedAfter(id) \in Nat /\ ClaimedAfter(id)' \in Nat
         /\ ClaimedAfter(id)' = ClaimedAfter(id)
              + (IF x > id THEN SaleClaim(orders'[x]) - SaleClaim(orders[x]) ELSE 0)
<1> DEFINE f == [j \in OrderIds |-> IF j > id THEN SaleClaim(orders[j]) ELSE 0]
           g == [j \in OrderIds |-> IF j > id THEN SaleClaim(orders'[j]) ELSE 0]
<1>1. MaxOrders \in Nat /\ OrderIds = 1 .. MaxOrders
  BY ExchangeAssumption DEF OrderIds
<1>2. ClaimedAfter(id) = Total(f, MaxOrders) /\ ClaimedAfter(id)' = Total(g, MaxOrders)
  BY DEF ClaimedAfter
<1>3. \A j \in OrderIds :
        /\ f[j] = (IF j > id THEN SaleClaim(orders[j]) ELSE 0) /\ f[j] \in Nat
        /\ g[j] = (IF j > id THEN SaleClaim(orders'[j]) ELSE 0) /\ g[j] \in Nat
  BY SaleClaimType
<1> HIDE DEF f, g
<1>4. \A j \in 1 .. MaxOrders : f[j] \in Int /\ g[j] \in Int
  BY <1>1, <1>3
<1>5. \A j \in 1 .. MaxOrders : j # x => g[j] = f[j]
  BY <1>1, <1>3
<1>6. Total(g, MaxOrders) = Total(f, MaxOrders) + (g[x] - f[x])
  <2>1. x \in 1 .. MaxOrders
    BY <1>1
  <2> QED BY <1>1, <1>4, <1>5, <2>1, TotalUpdate, ZenonT(30)
<1>7. Total(f, MaxOrders) \in Nat /\ Total(g, MaxOrders) \in Nat
  BY <1>1, <1>3, TotalAtLeast
<1>8. g[x] - f[x] = IF x > id THEN SaleClaim(orders'[x]) - SaleClaim(orders[x]) ELSE 0
  BY <1>3
<1> QED BY <1>2, <1>6, <1>7, <1>8

\* Fees are charged to one order at a time.
LEMMA FeesMove ==
  ASSUME NEW x \in OrderIds,
         orders \in [OrderIds -> Order], orders' \in [OrderIds -> Order],
         \A y \in OrderIds : y # x => orders'[y] = orders[y],
         \A y \in OrderIds : orders'[y].fee \in Nat
  PROVE  \E s \in Int, s2 \in Nat :
           /\ s = Total(FeeOf("BUY"), MaxOrders) + Total(FeeOf("SELL"), MaxOrders)
           /\ s2 = Total(FeeOf("BUY"), MaxOrders)' + Total(FeeOf("SELL"), MaxOrders)'
           /\ s2 = s + (orders'[x].fee - orders[x].fee)
<1>1. PICK b \in Int, b2 \in Int, s \in Int, s2 \in Int :
        /\ b = Total(FeeOf("BUY"), MaxOrders) /\ b2 = Total(FeeOf("BUY"), MaxOrders)'
        /\ s = Total(FeeOf("SELL"), MaxOrders) /\ s2 = Total(FeeOf("SELL"), MaxOrders)'
  BY SumsMove
<1>2. PICK o \in Order, u \in Order : o = orders[x] /\ u = orders'[x]
  OBVIOUS
<1>3. /\ b2 - b = OfSide(u, "BUY", u.fee) - OfSide(o, "BUY", o.fee)
      /\ s2 - s = OfSide(u, "SELL", u.fee) - OfSide(o, "SELL", o.fee)
  BY <1>1, <1>2, SumsMove
<1>4. /\ OfSide(u, "BUY", u.fee) + OfSide(u, "SELL", u.fee) = u.fee
      /\ OfSide(o, "BUY", o.fee) + OfSide(o, "SELL", o.fee) = o.fee
  BY DEF OfSide, Order, Sides
<1>5. /\ OfSide(u, "BUY", u.fee) \in Int /\ OfSide(u, "SELL", u.fee) \in Int
      /\ OfSide(o, "BUY", o.fee) \in Int /\ OfSide(o, "SELL", o.fee) \in Int
  BY OfSideType
<1>6. b2 + s2 = (b + s) + (u.fee - o.fee)
  BY <1>3, <1>4, <1>5
<1>7. b2 \in Nat /\ s2 \in Nat
  <2> DEFINE f == [y \in OrderIds |-> OfSide(orders'[y], "BUY", orders'[y].fee)]
             g == [y \in OrderIds |-> OfSide(orders'[y], "SELL", orders'[y].fee)]
  <2>1. MaxOrders \in Nat /\ OrderIds = 1 .. MaxOrders
    BY ExchangeAssumption DEF OrderIds
  <2>2. b2 = Total(f, MaxOrders) /\ s2 = Total(g, MaxOrders)
    BY <1>1 DEF FeeOf
  <2>3. \A y \in OrderIds : f[y] \in Nat /\ g[y] \in Nat
    BY DEF OfSide
  <2> HIDE DEF f, g
  <2>4. (\A y \in 1 .. MaxOrders : f[y] \in Nat) /\ (\A y \in 1 .. MaxOrders : g[y] \in Nat)
    BY <2>1, <2>3
  <2> QED BY <2>1, <2>2, <2>4, TotalAtLeast
<1>8. b + s \in Int /\ b2 + s2 \in Nat
  BY <1>7
<1> QED BY <1>1, <1>2, <1>6, <1>8, Zenon

\* What a step does to the funds is decided by the one order it changes: an order that
\* is placed locks no more than is available, and any other leaves as much available
\* as it has claimed, and owes what it has paid and was charged.
LEMMA FundsMove ==
  ASSUME FundsInv, NEW x \in OrderIds,
         orders' \in [OrderIds -> Order], balances' \in [Currencies -> TokenBalance],
         \A y \in OrderIds : y # x => orders'[y] = orders[y],
         orders'[x].fee \in Nat,
         x > counter \/ /\ orders'[x].type = orders[x].type
                        /\ orders'[x].side = orders[x].side
                        /\ orders'[x].amount = orders[x].amount
                        /\ Available(balances["base"]) <= Available(balances'["base"]),
         Available(balances["base"]) + SaleClaim(orders[x])
           <= Available(balances'["base"]) + SaleClaim(orders'[x]),
         NoMarketBuy =>
           \/ balances'["quote"].locked <= balances'["quote"].total
           \/ balances'["quote"].locked - balances["quote"].locked
                <= (balances'["quote"].total - balances["quote"].total)
                     + (orders'[x].fee - orders[x].fee)
  PROVE  FundsKept
<1>1. /\ orders \in [OrderIds -> Order] /\ balances \in [Currencies -> TokenBalance]
      /\ counter \in Nat /\ OrderIds \subseteq Nat
      /\ x > counter => orders[x] = NoOrder
  BY ExchangeAssumption DEF FundsInv, QuoteInv, CallInv, TypeInv, TypeOK, FreshIds, OrderIds
<1>2. \A y \in OrderIds : orders'[y].fee \in Nat
  BY DEF FundsInv, NoFeeNegative
<1>3. QuoteFunds'
  <2> SUFFICES ASSUME NoMarketBuy' PROVE QuoteFunds'
    BY DEF QuoteFunds
  <2>1. NoMarketBuy
    <3>1. \A y \in OrderIds : orders[y] = NoOrder \/
            (orders'[y].type = orders[y].type /\ orders'[y].side = orders[y].side)
      BY <1>1
    <3> QED BY <3>1, NoMarketBuyBefore
  <2>2. PICK l \in Int, t \in Int, l2 \in Int, t2 \in Int :
          /\ l = balances["quote"].locked /\ t = balances["quote"].total
          /\ l2 = balances'["quote"].locked /\ t2 = balances'["quote"].total
    BY <1>1 DEF Currencies, TokenBalance
  <2>3. PICK e \in Int, e2 \in Int : e = orders[x].fee /\ e2 = orders'[x].fee
    BY <1>1 DEF Order
  <2>4. PICK s \in Int, s2 \in Nat :
          /\ s = Total(FeeOf("BUY"), MaxOrders) + Total(FeeOf("SELL"), MaxOrders)
          /\ s2 = Total(FeeOf("BUY"), MaxOrders)' + Total(FeeOf("SELL"), MaxOrders)'
          /\ s2 = s + (e2 - e)
    BY <1>1, <1>2, <2>3, FeesMove
  <2>5. PICK b \in Int, c \in Int, b2 \in Int, c2 \in Int :
          /\ b = Total(FeeOf("BUY"), MaxOrders) /\ c = Total(FeeOf("SELL"), MaxOrders)
          /\ b2 = Total(FeeOf("BUY"), MaxOrders)' /\ c2 = Total(FeeOf("SELL"), MaxOrders)'
    BY <1>1, SumsMove
  <2>6. l <= t + b + c
    BY <2>1, <2>2, <2>5 DEF FundsInv, QuoteFunds
  <2>7. l2 <= t2 \/ l2 - l <= (t2 - t) + (e2 - e)
    BY <2>1, <2>2, <2>3
  <2>8. s = b + c /\ s2 = b2 + c2
    BY <2>4, <2>5
  <2>9. l2 <= t2 + b2 + c2
    BY <2>4, <2>6, <2>7, <2>8
  <2> QED BY <2>2, <2>5, <2>9 DEF QuoteFunds
<1>4. ASSUME NEW id \in OrderIds, lastEvent[id] = "triggered", orders'[id].side = "SELL"
      PROVE  Spared(id)'
  <2>1. id <= counter /\ orders[id] # NoOrder
    <3>1. RecordOK(id)
      BY DEF FundsInv, QuoteInv, CallInv
    <3>2. ~(id > counter) /\ IsConditional(orders[id])
      BY <1>4, <3>1 DEF RecordOK
    <3>3. ~IsConditional(NoOrder)
      BY DEF NoOrder, IsConditional, ConditionalTypes
    <3> QED BY <1>1, <3>2, <3>3
  <2>2. orders'[id].side = orders[id].side /\ orders'[id].amount = orders[id].amount
    BY <1>1, <2>1
  <2>3. Spared(id)
    BY <1>4, <2>2 DEF FundsInv, SaleFunds, FiredSale
  <2>4. PICK a \in Int, a2 \in Int, n \in Nat :
          /\ a = Available(balances["base"]) /\ a2 = Available(balances'["base"])
          /\ n = orders[id].amount
    BY <1>1 DEF Available, Currencies, TokenBalance, Order
  <2>5. PICK p \in Nat, p2 \in Nat : p = SaleClaim(orders[x]) /\ p2 = SaleClaim(orders'[x])
    BY <1>1, SaleClaimType
  <2>6. PICK c \in Nat, c2 \in Nat :
          /\ c = ClaimedAfter(id) /\ c2 = ClaimedAfter(id)'
          /\ c2 = c + (IF x > id THEN p2 - p ELSE 0)
    BY <1>1, <2>5, ClaimsMove
  <2>7. a + c >= n
    BY <2>3, <2>4, <2>6 DEF Spared
  <2>8. a + p <= a2 + p2 /\ (x > id \/ a <= a2)
    BY <1>1, <2>1, <2>4, <2>5
  <2>9. a2 + c2 >= n
    BY <2>6, <2>7, <2>8
  <2> QED BY <2>2, <2>4, <2>6, <2>9 DEF Spared
<1> QED BY <1>2, <1>3, <1>4 DEF NoFeeNegative, FundsKept

\* An order locks no more than is available, or fails and leaves everything as it was.
LEMMA FundsAfterPlacing ==
  ASSUME FundsInv, NEW r \in Request, NEW under \in Seq(Frame), PlaceOrder(r, under)
  PROVE  FundsKept
<1> DEFINE o == Placed(r)
           f == NewOrder(Quantized(r), "FAILED")
<1>1. PICK x : x = counter + 1
  OBVIOUS
<1>2. /\ x \in OrderIds /\ orders' \in [OrderIds -> Order]
      /\ balances' \in [Currencies -> TokenBalance]
      /\ balances \in [Currencies -> TokenBalance] /\ orders \in [OrderIds -> Order]
      /\ TypeInv /\ counter \in Int
  BY <1>1, PlaceOrderType DEF FundsInv, QuoteInv, CallInv, TypeInv, TypeOK
<1>3. x > counter /\ SaleClaim(orders[x]) = 0
  <2>1. x > counter
    BY <1>1, <1>2
  <2>2. orders[x] = NoOrder
    BY <1>2, <2>1 DEF TypeInv, FreshIds
  <2> QED BY <2>1, <2>2 DEF SaleClaim, NoOrder
<1>4. /\ o \in Order /\ o.filled = 0 /\ o.fee = 0 /\ IsOpen(o) /\ Remaining(o) = o.amount
      /\ f \in Order /\ f.filled = 0 /\ f.fee = 0 /\ ~IsOpen(f)
      /\ [o EXCEPT !.status = "FAILED"] = f
  <2>1. "OPEN" \in Statuses /\ "FAILED" \in Statuses
    BY DEF Statuses
  <2>2. o \in Order /\ o.filled = 0 /\ f \in Order /\ f.filled = 0
    BY <2>1, NewOrderType DEF Placed
  <2> HIDE DEF Statuses
  <2>3. o.amount \in Int
    BY <2>2 DEF Order
  <2>4. /\ o.fee = 0 /\ IsOpen(o) /\ f.fee = 0 /\ ~IsOpen(f) /\ [o EXCEPT !.status = "FAILED"] = f
    BY DEF Placed, NewOrder, IsOpen
  <2> HIDE DEF o, f
  <2> QED BY <2>2, <2>3, <2>4 DEF Remaining
<1>5. \/ /\ CanLock(balances, CollateralCurrency(o), Collateral(o))
         /\ balances' = LockCollateral(balances, CollateralCurrency(o), Collateral(o))
         /\ orders' = [orders EXCEPT ![x] = o]
      \/ /\ balances' = balances
         /\ orders' = [orders EXCEPT ![x] = f]
  <2> HIDE DEF f
  <2> QED BY <1>1, <1>4 DEF PlaceOrder, Placed
<1> HIDE DEF o, f
<1>6. \A y \in OrderIds : y # x => orders'[y] = orders[y]
  BY <1>2, <1>5
<1>7. PICK ba \in TokenBalance, qu \in TokenBalance :
        ba = balances["base"] /\ qu = balances["quote"]
  BY <1>2 DEF Currencies
<1>8. CASE balances' = balances /\ orders' = [orders EXCEPT ![x] = f]
  <2>1. orders'[x] = f /\ SaleClaim(f) = 0
    BY <1>2, <1>4, <1>8 DEF SaleClaim
  <2>2. /\ Available(balances'["base"]) = Available(ba) /\ Available(ba) \in Int
        /\ balances'["quote"] = qu
    BY <1>7, <1>8 DEF Available, TokenBalance
  <2>3. Available(balances["base"]) + SaleClaim(orders[x])
          <= Available(balances'["base"]) + SaleClaim(orders'[x])
    BY <1>3, <1>7, <2>1, <2>2
  <2>4. orders[x].fee = 0 /\ orders'[x].fee = 0
    <3>1. orders[x] = NoOrder
      BY <1>2, <1>3 DEF TypeInv, FreshIds
    <3> QED BY <1>4, <2>1, <3>1 DEF NoOrder
  <2>5. balances'["quote"].locked - balances["quote"].locked
          <= (balances'["quote"].total - balances["quote"].total)
               + (orders'[x].fee - orders[x].fee)
    BY <1>7, <2>2, <2>4 DEF TokenBalance
  <2>6. orders'[x].fee \in Nat
    BY <2>4
  <2> QED BY <1>2, <1>3, <1>6, <2>3, <2>5, <2>6, FundsMove
<1>9. CASE /\ CanLock(balances, CollateralCurrency(o), Collateral(o))
           /\ balances' = LockCollateral(balances, CollateralCurrency(o), Collateral(o))
           /\ orders' = [orders EXCEPT ![x] = o]
  <2>1. orders'[x] = o /\ orders'[x].fee \in Nat
    BY <1>2, <1>4, <1>9
  <2>2. PICK k \in Int : k = Collateral(o)
    BY <1>4, CollateralType
  <2>3. PICK ba2 \in TokenBalance, qu2 \in TokenBalance :
          ba2 = balances'["base"] /\ qu2 = balances'["quote"]
    BY <1>2 DEF Currencies
  <2>4. CASE o.side = "SELL"
    <3>1. /\ CollateralCurrency(o) = "base" /\ k = o.amount /\ SaleClaim(o) = k
      BY <1>4, <2>2, <2>4 DEF CollateralCurrency, Collateral, SaleClaim
    <3>2. ba2.total = ba.total /\ ba2.locked = ba.locked + k /\ qu2 = qu
      BY <1>2, <1>7, <1>9, <2>2, <2>3, <3>1 DEF LockCollateral, Currencies, TokenBalance
    <3>3. Available(ba) + 0 <= Available(ba2) + k
      BY <3>2 DEF Available, TokenBalance
    <3>4. Available(balances["base"]) + SaleClaim(orders[x])
            <= Available(balances'["base"]) + SaleClaim(orders'[x])
      BY <1>3, <1>7, <2>1, <2>3, <3>1, <3>3
    <3>5. orders[x].fee = 0 /\ orders'[x].fee = 0
      <4>1. orders[x] = NoOrder
        BY <1>2, <1>3 DEF TypeInv, FreshIds
      <4> QED BY <1>4, <2>1, <4>1 DEF NoOrder
    <3>6. balances'["quote"].locked - balances["quote"].locked
            <= (balances'["quote"].total - balances["quote"].total)
                 + (orders'[x].fee - orders[x].fee)
      BY <1>7, <2>3, <3>2, <3>5 DEF TokenBalance
    <3> QED BY <1>2, <1>3, <1>6, <2>1, <3>4, <3>6, FundsMove
  <2>5. CASE o.side = "BUY"
    <3>1. CollateralCurrency(o) = "quote" /\ SaleClaim(o) = 0
      BY <2>5 DEF CollateralCurrency, SaleClaim
    <3>2. ba2 = ba /\ qu2.total = qu.total /\ qu2.locked = qu.locked + k
      BY <1>2, <1>7, <1>9, <2>2, <2>3, <3>1 DEF LockCollateral, Currencies, TokenBalance
    <3>3. Available(qu) >= k
      BY <1>7, <1>9, <2>2, <3>1 DEF CanLock
    <3>4. qu2.locked <= qu2.total
      BY <3>2, <3>3 DEF Available, TokenBalance
    <3>5. Available(ba) \in Int
      BY DEF Available, TokenBalance
    <3>6. Available(balances["base"]) + SaleClaim(orders[x])
            <= Available(balances'["base"]) + SaleClaim(orders'[x])
      BY <1>3, <1>7, <2>1, <2>3, <3>1, <3>2, <3>5
    <3> QED BY <1>2, <1>3, <1>6, <2>1, <2>3, <3>4, <3>6, FundsMove
  <2> QED BY <1>4, <2>4, <2>5 DEF Order, Sides
<1> QED BY <1>5, <1>8, <1>9

\* An order that is withdrawn gives back what it has claimed and not sold, and no lock grows.
LEMMA FundsAfterWithdrawing ==
  ASSUME FundsInv, NEW x \in OrderIds, IsOpen(orders[x]), Withdraw(x), counter' = counter
  PROVE  FundsKept
<1>1. /\ orders' \in [OrderIds -> Order] /\ balances' \in [Currencies -> TokenBalance]
      /\ \A y \in OrderIds : y # x => orders'[y] = orders[y]
      /\ balances \in [Currencies -> TokenBalance] /\ orders \in [OrderIds -> Order]
      /\ orders[x].filled <= orders[x].amount /\ TypeInv
  BY WithdrawType DEF FundsInv, QuoteInv, CallInv, TypeInv, TypeOK, NoOverfill
<1>2. PICK o \in Order, u \in Order : o = orders[x] /\ u = orders'[x]
  BY <1>1
<1>3. /\ u = [o EXCEPT !.status = "CANCELLED"]
      /\ balances' = ReleaseCollateral(balances, CollateralCurrency(o), Collateral(o))
  BY <1>1, <1>2 DEF Withdraw
<1>4. /\ u.side = o.side /\ u.type = o.type /\ u.amount = o.amount /\ u.filled = o.filled
      /\ u.fee = o.fee /\ ~IsOpen(u) /\ IsOpen(o) /\ o.filled <= o.amount /\ u.fee \in Nat
  <2>1. o.fee \in Nat
    BY <1>2 DEF FundsInv, NoFeeNegative
  <2> QED BY <1>1, <1>2, <1>3, <2>1 DEF Order, IsOpen
<1>5. PICK ba \in TokenBalance, qu \in TokenBalance, ba2 \in TokenBalance, qu2 \in TokenBalance :
        /\ ba = balances["base"] /\ qu = balances["quote"]
        /\ ba2 = balances'["base"] /\ qu2 = balances'["quote"]
  BY <1>1 DEF Currencies
<1>6. PICK k \in Int : k = Collateral(o)
  BY CollateralType
<1>7. PICK n \in Nat, d \in Nat : n = o.amount /\ d = o.filled /\ d <= n
  BY <1>4 DEF Order
<1>8. CASE o.side = "SELL"
  <2>1. SaleClaim(o) = n /\ SaleClaim(u) = d /\ k = n - d /\ SaleReserve(o) = k
    BY <1>4, <1>6, <1>7, <1>8 DEF SaleClaim, Collateral, Remaining, SaleReserve
  <2>2. k <= ba.locked
    BY <1>1, <1>2, <1>5, <2>1, ReserveIsLocked DEF FundsInv, QuoteInv, BaseInv, BaseSide
  <2>3. ba.held
    BY <1>2, <1>4, <1>5, <1>8 DEF FundsInv, QuoteInv, BaseInv, BaseSide, BaseHeld
  <2>4. ba2.total = ba.total /\ ba2.locked = Higher(0, ba.locked - k) /\ qu2 = qu
    BY <1>1, <1>3, <1>5, <1>6, <1>8, <2>3
       DEF ReleaseCollateral, CollateralCurrency, Currencies, TokenBalance
  <2>5. Available(ba) <= Available(ba2) /\ Available(ba) + n <= Available(ba2) + d
    BY <1>7, <2>1, <2>2, <2>4 DEF Available, Higher, TokenBalance
  <2>6. balances'["quote"].locked - balances["quote"].locked
          <= (balances'["quote"].total - balances["quote"].total) + (orders'[x].fee - orders[x].fee)
    <3>1. qu.locked - qu.locked <= (qu.total - qu.total) + (u.fee - u.fee)
      BY <1>4 DEF TokenBalance
    <3> QED BY <1>2, <1>4, <1>5, <2>4, <3>1
  <2>7. /\ Available(balances["base"]) <= Available(balances'["base"])
        /\ Available(balances["base"]) + SaleClaim(orders[x])
             <= Available(balances'["base"]) + SaleClaim(orders'[x])
    BY <1>2, <1>5, <2>1, <2>5
  <2> QED BY <1>1, <1>2, <1>4, <2>6, <2>7, FundsMove
<1>9. CASE o.side = "BUY"
  <2>1. SaleClaim(o) = 0 /\ SaleClaim(u) = 0
    BY <1>4, <1>9 DEF SaleClaim
  <2>2. ba2 = ba /\ qu2.total = qu.total
    BY <1>1, <1>3, <1>5, <1>9 DEF ReleaseCollateral, CollateralCurrency, Currencies, TokenBalance
  <2>3. ASSUME NoMarketBuy PROVE qu2.locked <= qu.locked
    <3>1. qu.held
      BY <1>2, <1>4, <1>5, <1>9, <2>3 DEF FundsInv, QuoteInv, QuoteSide, QuoteHeld
    <3>2. qu2.locked = Higher(0, qu.locked - k)
      BY <1>1, <1>3, <1>5, <1>6, <1>9, <3>1
         DEF ReleaseCollateral, CollateralCurrency, Currencies, TokenBalance
    <3>3. PurchaseReserve(o) \in Nat /\ PurchaseReserve(o) <= qu.locked
      BY <1>2, <1>5, <2>3, PurchaseIsLocked DEF FundsInv
    <3>4. k \in Nat
      BY <1>4, <1>6, <1>9, PurchaseReserveType
    <3> QED BY <3>2, <3>3, <3>4 DEF Higher, TokenBalance
  <2>4. NoMarketBuy =>
          balances'["quote"].locked - balances["quote"].locked
            <= (balances'["quote"].total - balances["quote"].total) + (orders'[x].fee - orders[x].fee)
    <3> SUFFICES ASSUME NoMarketBuy
                 PROVE  balances'["quote"].locked - balances["quote"].locked
                          <= (balances'["quote"].total - balances["quote"].total)
                               + (orders'[x].fee - orders[x].fee)
      OBVIOUS
    <3>1. qu2.locked - qu.locked <= (qu2.total - qu.total) + (u.fee - u.fee)
      BY <1>4, <2>2, <2>3 DEF TokenBalance
    <3> QED BY <1>2, <1>4, <1>5, <3>1
  <2>5. /\ Available(balances["base"]) <= Available(balances'["base"])
        /\ Available(balances["base"]) + SaleClaim(orders[x])
             <= Available(balances'["base"]) + SaleClaim(orders'[x])
    <3>1. Available(ba) \in Int
      BY DEF Available, TokenBalance
    <3> QED BY <1>2, <1>5, <2>1, <2>2, <3>1
  <2> QED BY <1>1, <1>2, <1>4, <2>4, <2>5, FundsMove
<1> QED BY <1>8, <1>9 DEF Order, Sides

\* A fill moves a sale's claim from the lock to what was sold, and a purchase pays out
\* of its lock; the fee it is charged comes on top.
LEMMA FundsAfterFilling ==
  ASSUME FundsInv, NEW x \in OrderIds, x <= counter, IsOpen(orders[x]),
         NEW m \in CheckAndMatch(orders[x], book), NEW under \in Seq(Frame),
         ProcessFill(x, m, under), counter' = counter
  PROVE  FundsKept
<1>1. /\ orders' \in [OrderIds -> Order] /\ balances' \in [Currencies -> TokenBalance]
      /\ \A y \in OrderIds : y # x => orders'[y] = orders[y]
      /\ balances \in [Currencies -> TokenBalance] /\ orders \in [OrderIds -> Order]
      /\ orders[x].filled <= orders[x].amount /\ TypeInv /\ book \in Book
      /\ m.amount \in 0 .. Remaining(orders[x])
  BY ProcessFillType DEF FundsInv, QuoteInv, CallInv, TypeInv, TypeOK, NoOverfill
<1>2. PICK o \in Order, u \in Order, c \in Nat, fee \in Nat :
        o = orders[x] /\ u = orders'[x] /\ c = m.cost /\ fee = CalculateFee(orders[x], m.cost)
  <2>1. m.cost \in Nat
    BY <1>1, MatchCosts
  <2> QED BY <1>1, <2>1, FeeIsCharged
<1>3. PICK a \in Nat, n \in Nat, d \in Nat :
        a = m.amount /\ n = o.amount /\ d = o.filled /\ a <= n - d
  BY <1>1, <1>2, SMTT(30) DEF Remaining, Order
<1>4. /\ u = UpdateWithFill(o, a, c, fee)
      /\ balances' = ApplyFill(balances, o.side, a, c, fee)
  BY <1>1, <1>2, <1>3 DEF ProcessFill
<1>5. /\ u.side = o.side /\ u.type = o.type /\ u.amount = n /\ u.filled = d + a
      /\ u.fee = o.fee + fee /\ IsOpen(o)
      /\ u.status = IF d + a >= n THEN "FILLED" ELSE "PARTIALLY_FILLED"
  BY <1>2, <1>3, <1>4 DEF UpdateWithFill, Order
<1>6. SaleClaim(u) = SaleClaim(o)
  <2>1. CASE d + a >= n
    <3>1. ~IsOpen(u) /\ d + a = n
      BY <1>3, <1>5, <2>1, SMTT(30) DEF IsOpen
    <3> QED BY <1>3, <1>5, <3>1 DEF SaleClaim
  <2>2. CASE ~(d + a >= n)
    <3>1. IsOpen(u)
      BY <1>5, <2>2 DEF IsOpen
    <3> QED BY <1>3, <1>5, <3>1 DEF SaleClaim
  <2> QED BY <2>1, <2>2
<1>7. PICK ba \in TokenBalance, qu \in TokenBalance, ba2 \in TokenBalance, qu2 \in TokenBalance :
        /\ ba = balances["base"] /\ qu = balances["quote"]
        /\ ba2 = balances'["base"] /\ qu2 = balances'["quote"]
  BY <1>1 DEF Currencies
<1>8. Available(ba) <= Available(ba2) /\ qu2.locked - qu.locked <= (qu2.total - qu.total) + fee
  <2>1. PICK tb \in Int, lb \in Int, tb2 \in Int, lb2 \in Int :
          tb = ba.total /\ lb = ba.locked /\ tb2 = ba2.total /\ lb2 = ba2.locked
    BY DEF TokenBalance
  <2>2. PICK tq \in Int, lq \in Int, tq2 \in Int, lq2 \in Int :
          tq = qu.total /\ lq = qu.locked /\ tq2 = qu2.total /\ lq2 = qu2.locked
    BY DEF TokenBalance
  <2>3. o.side \in Sides /\ o.side \in {"BUY", "SELL"}
    BY DEF Order, Sides
  <2>4. /\ tb2 - tb = (IF o.side = "BUY" THEN a ELSE -a)
        /\ tq2 - tq = (IF o.side = "BUY" THEN -c ELSE c) - fee
    <3>1. a \in Int /\ c \in Int
      OBVIOUS
    <3>2. /\ balances'["base"].total - balances["base"].total = (IF o.side = "BUY" THEN a ELSE -a)
          /\ balances'["quote"].total - balances["quote"].total
               = (IF o.side = "BUY" THEN -c ELSE c) - fee
      BY <1>1, <1>4, <2>3, <3>1, FillMovesTotals, SMTT(30)
    <3> QED BY <1>7, <2>1, <2>2, <3>2
  <2>5. lb2 = lb - (IF o.side = "BUY" THEN 0 ELSE a)
    <3>1. a \in Int /\ c \in Int /\ fee \in Int
      OBVIOUS
    <3>2. balances'["base"].locked = balances["base"].locked - (IF o.side = "BUY" THEN 0 ELSE a)
      BY <1>1, <1>4, <2>3, <3>1, ApplyFillType, SMTT(30)
    <3> QED BY <1>7, <2>1, <3>2
  <2>6. lq2 = lq - (IF o.side = "BUY" THEN c ELSE 0)
    <3>1. balances'["quote"].locked = balances["quote"].locked - (IF o.side = "BUY" THEN c ELSE 0)
      BY <1>4 DEF ApplyFill, Currencies
    <3> QED BY <1>7, <2>2, <3>1
  <2>7. tb - lb <= tb2 - lb2 /\ lq2 - lq <= (tq2 - tq) + fee
    BY <2>3, <2>4, <2>5, <2>6
  <2> QED BY <2>1, <2>2, <2>7 DEF Available
<1>9. o.fee \in Nat /\ u.fee \in Nat /\ u.fee - o.fee = fee
  <2>1. o.fee \in Nat
    BY <1>2 DEF FundsInv, NoFeeNegative
  <2> QED BY <1>5, <2>1
<1>10. /\ Available(balances["base"]) <= Available(balances'["base"])
       /\ Available(balances["base"]) + SaleClaim(orders[x])
            <= Available(balances'["base"]) + SaleClaim(orders'[x])
  <2>1. Available(ba) \in Int /\ Available(ba2) \in Int /\ SaleClaim(o) \in Int
    BY SaleClaimType DEF Available, TokenBalance
  <2> QED BY <1>2, <1>6, <1>7, <1>8, <2>1
<1>11. balances'["quote"].locked - balances["quote"].locked
         <= (balances'["quote"].total - balances["quote"].total) + (orders'[x].fee - orders[x].fee)
  BY <1>2, <1>7, <1>8, <1>9
<1> QED BY <1>1, <1>2, <1>3, <1>5, <1>9, <1>10, <1>11, FundsMove

\* A step that changes neither orders nor balances keeps the funds.
LEMMA FundsStay ==
  ASSUME FundsInv, UNCHANGED <<orders, balances>>
  PROVE  FundsKept
BY DEF FundsInv, FundsKept, NoFeeNegative, QuoteFunds, SaleFunds, FiredSale, Spared, ClaimedAfter,
       NoMarketBuy, FeeOf

\* Nothing has been claimed or charged at the start.
LEMMA FundsInit == Init => FundsInv
<1> SUFFICES ASSUME Init PROVE FundsInv
  OBVIOUS
<1>1. QuoteInv /\ StopsUnfilled /\ NoFeeNegative /\ SaleFunds
  BY CallInit, BaseInit, QuoteInit
     DEF QuoteInv, Init, StopsUnfilled, NoFeeNegative, SaleFunds, FiredSale, NoOrder
<1>2. /\ MaxOrders \in Nat /\ OrderIds = 1 .. MaxOrders
      /\ balances["quote"].locked = 0 /\ balances["quote"].total \in Int
      /\ balances["quote"].total >= 0
  BY ExchangeAssumption DEF Init, Currencies, TokenBalance, OrderIds
<1>3. Total(FeeOf("BUY"), MaxOrders) = 0 /\ Total(FeeOf("SELL"), MaxOrders) = 0
  <2> DEFINE f == FeeOf("BUY")
             g == FeeOf("SELL")
  <2>1. (\A y \in 1 .. MaxOrders : f[y] = 0) /\ (\A y \in 1 .. MaxOrders : g[y] = 0)
    BY <1>2 DEF Init, FeeOf, OfSide, NoOrder
  <2> HIDE DEF f, g
  <2> QED BY <1>2, <2>1, TotalZero DEF f, g
<1>4. QuoteFunds
  BY <1>2, <1>3 DEF QuoteFunds
<1> QED BY <1>1, <1>4 DEF FundsInv

\* Every action of the exchange keeps the funds.
LEMMA FundsStep == FundsInv /\ ~StaleCancels /\ [Next]_vars => FundsInv'
<1> SUFFICES ASSUME FundsInv, ~StaleCancels, [Next]_vars PROVE FundsInv'
  OBVIOUS
<1>a. /\ CallInv /\ BaseInv /\ TypeInv /\ QuoteInv /\ StopsUnfilled
      /\ QuoteInv' /\ StopsUnfilled'
  BY QuoteStep, StopsStayUnfilled DEF FundsInv, QuoteInv, CallInv
<1>c. /\ stack \in Seq(Frame) /\ orders \in [OrderIds -> Order] /\ DOMAIN stack = 1 .. Len(stack)
  BY <1>a DEF TypeInv, TypeOK
<1>d. stack # << >> => Below \in Seq(Frame) /\ Top.id \in OrderIds
  BY <1>c, StackShape DEF Frame
<1>1. ASSUME NEW r \in Requests, Place(r) PROVE FundsKept
  <2>1. r \in Request /\ PlaceOrder(r, stack)
    BY <1>1, ExchangeAssumption DEF Place
  <2> QED BY <1>c, <2>1, FundsAfterPlacing
<1>2. ASSUME NEW id \in OrderIds, Cancel(id) PROVE FundsKept
  <2>1. IsOpen(orders[id]) /\ Withdraw(id) /\ counter' = counter
    BY <1>2 DEF Cancel
  <2> QED BY <2>1, FundsAfterWithdrawing
<1>3. ASSUME FireConditionalOrder PROVE FundsKept
  <2>1. IsOpen(orders[Upcoming]) /\ Withdraw(Upcoming) /\ counter' = counter /\ todo # {}
    BY <1>3 DEF FireConditionalOrder, LoopIn
  <2>2. Upcoming \in OrderIds
    BY <1>a, <2>1, UpcomingType
  <2> QED BY <2>1, <2>2, FundsAfterWithdrawing
<1>4. ASSUME MatchOrder PROVE FundsKept
  <2>1. todo # {} /\ phase = "matching" /\ counter' = counter
    BY <1>4 DEF MatchOrder, LoopIn
  <2>2. PICK id : id = Upcoming
    OBVIOUS
  <2>3. id \in OrderIds /\ id \in todo /\ id <= counter
    BY <1>a, <2>1, <2>2, UpcomingType
  <2>4. IsOpen(orders[id])
    BY <1>a, <2>1, <2>3 DEF BaseInv, HeldOrdersAreOpen
  <2>5. PICK m \in CheckAndMatch(orders[id], book) : ProcessFill(id, m, stack)
    BY <1>4, <2>2 DEF MatchOrder
  <2> QED BY <1>c, <2>1, <2>3, <2>4, <2>5, FundsAfterFilling
<1>5. ASSUME AfterCreatedMatch PROVE FundsKept
  <2>1. /\ stack # << >> /\ Top.at = "created" /\ orders[Top.id].type = "MARKET"
        /\ counter' = counter
    BY <1>5 DEF AfterCreatedMatch, Resumes
  <2>2. PICK m \in CheckAndMatch(orders[Top.id], book) : ProcessFill(Top.id, m, Below)
    BY <1>5 DEF AfterCreatedMatch
  <2>3. PICK id \in OrderIds : id = Top.id
    BY <1>d, <2>1, SMTT(30)
  <2>4. PICK n \in Nat \ {0} : n = Len(stack)
    BY <1>c, <2>1, StackShape
  <2>5. n \in DOMAIN stack /\ WaitsToMatch(n) /\ stack[n].id = id
    <3>1. n \in 1 .. n
      OBVIOUS
    <3> QED BY <1>c, <2>1, <2>3, <2>4, <3>1 DEF WaitsToMatch, Top
  <2>6. IsOpen(orders[id])
    BY <1>a, <2>5 DEF BaseInv, HeldOrdersAreOpen
  <2>7. id <= counter
    BY <1>a, <2>6, RecordOfPlaced
  <2> QED BY <1>d, <2>1, <2>2, <2>3, <2>6, <2>7, FundsAfterFilling
<1>6. ASSUME AfterTriggered PROVE FundsKept
  <2>1. stack # << >> /\ PlaceOrder(MarketRequest(orders[Top.id]), Below)
    BY <1>6 DEF AfterTriggered, Resumes
  <2>2. MarketRequest(orders[Top.id]) \in Request
    BY <1>c, <1>d, <2>1, MarketRequestType
  <2> QED BY <1>d, <2>1, <2>2, FundsAfterPlacing
<1>7. ASSUME \/ MarketData \/ ProcessTick \/ EvaluateOrder \/ StartMatching \/ LeaveOrder \/ EndTick
             \/ AfterNotice \/ AfterCreatedRest \/ AfterFilledComplete \/ ConsumeLiquidity
             \/ UNCHANGED vars
      PROVE  FundsKept
  <2>1. UNCHANGED <<orders, balances>>
    BY <1>7 DEF MarketData, ProcessTick, EvaluateOrder, StartMatching, LeaveOrder, EndTick,
                AfterNotice, AfterCreatedRest, AfterFilledComplete, ConsumeLiquidity, vars
  <2> QED BY <2>1, FundsStay
<1>8. FundsKept
  BY <1>1, <1>2, <1>3, <1>4, <1>5, <1>6, <1>7 DEF Next, Loop, Resume
<1>9. ASSUME NEW id \in OrderIds, FiredSale(id)' PROVE Spared(id)'
  <2>1. lastEvent'[id] = "triggered" /\ orders'[id].side = "SELL"
    BY <1>9 DEF FiredSale
  <2>2. CASE lastEvent[id] = "triggered"
    BY <1>8, <2>1, <2>2 DEF FundsKept
  <2>3. CASE lastEvent[id] # "triggered"
    <3>1. FireConditionalOrder /\ id = Upcoming
      BY <1>a, <2>1, <2>3, FiresOnlyInLoop
    <3>2. IsOpen(orders[id]) /\ Withdraw(id) /\ counter' = counter
      BY <3>1 DEF FireConditionalOrder
    <3>3. /\ orders' \in [OrderIds -> Order] /\ balances' \in [Currencies -> TokenBalance]
          /\ \A y \in OrderIds : y # id => orders'[y] = orders[y]
      BY <1>a, <3>2, WithdrawType
    <3>4. orders'[id].side = orders[id].side /\ orders'[id].amount = orders[id].amount
      <4>1. orders[id] \in Order
        BY <1>c
      <4>2. orders'[id] = [orders[id] EXCEPT !.status = "CANCELLED"]
        BY <1>c, <3>2 DEF Withdraw
      <4> QED BY <4>1, <4>2 DEF Order
    <3>5. CanLock(balances', "base", orders[id].amount)
      BY <1>a, <2>1, <2>3, <3>4, FiringRelocks
    <3>6. PICK a \in Int, n \in Nat, c \in Nat :
            /\ a = Available(balances'["base"]) /\ n = orders[id].amount /\ c = ClaimedAfter(id)'
      <4>1. Available(balances'["base"]) \in Int
        BY <3>3 DEF Available, Currencies, TokenBalance
      <4>2. orders[id].amount \in Nat
        BY <1>c DEF Order
      <4> QED BY <1>c, <3>3, <4>1, <4>2, ClaimsMove, Zenon
    <3>7. a >= n
      BY <3>5, <3>6 DEF CanLock
    <3>8. a + c >= n
      BY <3>7
    <3> QED BY <3>4, <3>6, <3>8 DEF Spared
  <2> QED BY <2>2, <2>3
<1>10. SaleFunds'
  BY <1>9 DEF SaleFunds
<1> QED BY <1>a, <1>8, <1>10 DEF FundsInv, FundsKept

\* With listeners that cancel no held order, and until a market purchase is made, the
\* quote account is overdrawn by the fees charged and by nothing else
\* (exchange.py:447-456, balance_manager.py:96-126).
THEOREM FeesAloneOverdraw == ~StaleCancels => (Spec => []OnlyFeesOverdraw)
<1>1. ASSUME ~StaleCancels PROVE Spec => []OnlyFeesOverdraw
  <2>1. FundsInv /\ [Next]_vars => FundsInv'
    BY <1>1, FundsStep
  <2>2. FundsInv => OnlyFeesOverdraw
    BY DEF FundsInv, QuoteFunds, OnlyFeesOverdraw, Bought, Sold, FeeOf, OfSide
  <2> QED BY FundsInit, <2>1, <2>2, PTL DEF Spec
<1> QED BY <1>1

\* With listeners that cancel no held order, what the replacement of a fired sell stop
\* needs is available but for what sales placed after the stop have taken, whatever
\* else was placed, cancelled and filled meanwhile (exchange.py:558-595).
THEOREM LaterSalesAloneStarve == ~StaleCancels => (Spec => []OnlyLaterSalesStarve)
<1>1. ASSUME ~StaleCancels PROVE Spec => []OnlyLaterSalesStarve
  <2>1. FundsInv /\ [Next]_vars => FundsInv'
    BY <1>1, FundsStep
  <2>2. FundsInv => OnlyLaterSalesStarve
    <3> SUFFICES ASSUME FundsInv, NEW i \in DOMAIN stack, stack[i].at = "triggered",
                        orders[stack[i].id].side = "SELL"
                 PROVE  Spared(stack[i].id)
      BY DEF OnlyLaterSalesStarve, Spared
    <3>1. lastEvent[stack[i].id] = "triggered"
      BY DEF FundsInv, QuoteInv, CallInv, FrameOK
    <3>2. stack[i].id \in OrderIds
      <4>1. stack \in Seq(Frame)
        BY DEF FundsInv, QuoteInv, CallInv, TypeInv, TypeOK
      <4>2. stack[i] \in Frame
        BY <4>1
      <4> QED BY <4>2 DEF Frame
    <3> QED BY <3>1, <3>2 DEF FundsInv, SaleFunds, FiredSale
  <2> QED BY FundsInit, <2>1, <2>2, PTL DEF Spec
<1> QED BY <1>1

=============================================================================
