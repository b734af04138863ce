--------------------------- MODULE OperatorProofs ---------------------------
(***************************************************************************)
(* What the operators Exchange is built from return: types and bounds of   *)
(* rounding, matching, triggers, balances and the book; and that the walk  *)
(* over the levels of a book is the best way to take an amount from it.    *)
(***************************************************************************)
EXTENDS Exchange, SumsProofs

\* Rounding down gives a natural number not above the amount.
LEMMA QuantizeType ==
  ASSUME NEW x \in Nat, NEW inc \in Nat
  PROVE  Quantize(x, inc) \in Nat
<1>1. CASE inc = 0
  BY <1>1 DEF Quantize
<1>2. CASE inc # 0
  <2>1. x \div inc \in Nat
    BY <1>2
  <2>2. \A a, b \in Nat : a * b \in Nat
    OBVIOUS
  <2> QED BY <1>2, <2>1, <2>2 DEF Quantize
<1> QED BY <1>1, <1>2

\* A request becomes an order that nothing has filled.
LEMMA NewOrderType ==
  ASSUME NEW r \in Request, NEW s \in Statuses
  PROVE  /\ Quantized(r) \in Request
         /\ NewOrder(Quantized(r), s) \in Order
         /\ NewOrder(Quantized(r), s).filled = 0
<1>1. AmountIncrement \in Nat /\ PriceIncrement \in Nat
  BY IncrementAssumption
<1>2. /\ Quantize(r.amount, AmountIncrement) \in Nat
      /\ Quantize(r.price, PriceIncrement) \in Nat
      /\ r.trigger # NoPrice => Quantize(r.trigger, PriceIncrement) \in Nat
  BY <1>1, QuantizeType DEF Request, NoPrice
<1>3. Quantized(r) \in Request
  BY <1>2 DEF Quantized, Request, NoPrice
<1> HIDE DEF Quantized
<1> QED BY <1>3 DEF NewOrder, Order, Request

\* The price collateral is computed with is a natural number.
LEMMA CollateralPriceType ==
  ASSUME NEW o \in Order
  PROVE  CollateralPrice(o) \in Nat
BY DEF CollateralPrice, Order, NoPrice

\* What is locked for an order is a natural number.
LEMMA CollateralType ==
  ASSUME NEW o \in Order
  PROVE  Collateral(o) \in Int /\ CollateralCurrency(o) \in Currencies
<1>1. Remaining(o) \in Int
  BY DEF Remaining, Order
<1>2. \A a, b \in Int : a * b \in Int
  OBVIOUS
<1>3. Collateral(o) \in Int
  BY <1>1, <1>2, CollateralPriceType DEF Collateral
<1> QED BY <1>3 DEF CollateralCurrency, Currencies

-----------------------------------------------------------------------------
\* A best price is a level of the book, or missing.
LEMMA BestPrices ==
  ASSUME NEW b \in Book
  PROVE  /\ BestBid(b) \in Prices \cup {NoPrice}
         /\ BestAsk(b) \in Prices \cup {NoPrice}
<1>1. MaxPrice \in Nat
  BY MaxPriceAssumption
<1>2. ASSUME NEW levels \in [Prices -> Nat], Levels(levels) # {}
      PROVE  Least(Levels(levels)) \in Prices /\ Greatest(Levels(levels)) \in Prices
  <2>1. Levels(levels) \subseteq Prices
    BY DEF Levels
  <2>2. Levels(levels) \in SUBSET Nat /\ Levels(levels) \in SUBSET (0 .. MaxPrice)
    BY <1>1, <2>1 DEF Prices
  <2>3. Least(Levels(levels)) \in Levels(levels) /\ Greatest(Levels(levels)) \in Levels(levels)
    BY <1>1, <1>2, <2>2, LeastPicks, GreatestPicks
  <2> QED BY <2>1, <2>3
<1>3. b.bids \in [Prices -> Nat] /\ b.asks \in [Prices -> Nat]
  BY DEF Book
<1> QED BY <1>2, <1>3 DEF BestBid, BestAsk

\* The price a market order is matched at is a level of the book, or missing.
LEMMA TouchType ==
  ASSUME NEW b \in Book, NEW side
  PROVE  Touch(b, side) \in Nat \cup {NoPrice}
<1>1. Prices \subseteq Nat
  BY MaxPriceAssumption DEF Prices
<1> QED BY <1>1, BestPrices DEF Touch

\* The trailing reference stays a price or unset.
LEMMA EvaluatedType ==
  ASSUME NEW o \in Order, NEW b \in Book, NEW ref \in Nat \cup {NoPrice}
  PROVE  Evaluated(o, b, ref) \in Nat \cup {NoPrice}
<1>1. Touch(b, o.side) \in Nat \cup {NoPrice}
  BY TouchType
<1>2. o.trigger \in Nat \cup {NoPrice}
  BY DEF Order
<1> HIDE DEF Touch
<1> QED
  BY <1>1, <1>2 DEF Evaluated, TrailingReference, Lower, Higher, NoPrice

-----------------------------------------------------------------------------
\* Every engine fills between nothing and what remains of the order.
LEMMA MatchWithinRemaining ==
  ASSUME NEW o \in Order, o.filled <= o.amount, NEW b \in Book,
         NEW m \in CheckAndMatch(o, b)
  PROVE  /\ m.amount \in 0 .. Remaining(o)
         /\ m.cost \in Int
         /\ m.level \in Int
<1>1. Remaining(o) \in Nat
  BY DEF Remaining, Order
<1>2. \A x, y \in Int : x * y \in Int
  OBVIOUS
<1>3. o.price \in Int
  BY DEF Order
<1>4. ASSUME NEW p \in Int, m \in FillAt(o, p)
      PROVE  m.amount \in 0 .. Remaining(o) /\ m.cost \in Int /\ m.level \in Int
  <2> HIDE DEF Remaining
  <2> QED BY <1>1, <1>2, <1>4 DEF FillAt
<1>5. Touch(b, o.side) \in Int
  BY TouchType DEF NoPrice
<1>6. ASSUME m \in MatchWithDepth(o, b)
      PROVE  m.amount \in 0 .. Remaining(o) /\ m.cost \in Int /\ m.level \in Int
  <2> DEFINE takes == Takes(o, b)
             costs == [p \in Prices |-> p * takes[p]]
             cost == Total(costs, MaxPrice)
             amount == Lower(Remaining(o), Total(Offered(o, b), MaxPrice))
  <2>1. MaxPrice \in Nat /\ Prices = 1 .. MaxPrice
    BY MaxPriceAssumption DEF Prices
  <2>2. b.bids \in [Prices -> Nat] /\ b.asks \in [Prices -> Nat]
    BY DEF Book
  <2>3. Opposite(b, o.side) \in [Prices -> Nat]
    BY <2>2 DEF Opposite
  <2>4. \A p \in 1 .. MaxPrice : Offered(o, b)[p] \in Nat
    BY <2>1, <2>3 DEF Offered
  <2>5. Total(Offered(o, b), MaxPrice) \in Nat
    BY <2>1, <2>4, TotalAtLeast
  <2>6. ASSUME NEW p \in Prices PROVE Ahead(b, o.side, p) \in Int
    <3>1. \A i \in 1 .. MaxPrice : b.asks[i] \in Int /\ b.bids[i] \in Int
      BY <2>1, <2>2
    <3>2. p \in 1 .. MaxPrice /\ p - 1 \in Nat /\ p \in Nat
      BY <2>1
    <3>3. \A i \in 1 .. p - 1 : b.asks[i] \in Int
      BY <3>1, <3>2, <2>1
    <3>4. \A i \in 1 .. p : b.bids[i] \in Int
      BY <3>1, <3>2, <2>1
    <3>5. Total(b.asks, p - 1) \in Int
      BY <3>2, <3>3, TotalType
    <3>6. Total(b.bids, p) \in Int /\ Total(b.bids, MaxPrice) \in Int
      BY <3>1, <3>2, <3>4, <2>1, TotalType
    <3> QED BY <3>5, <3>6 DEF Ahead
  <2>7. ASSUME NEW p \in Prices PROVE takes[p] \in Int
    <3>1. Opposite(b, o.side)[p] \in Int /\ Ahead(b, o.side, p) \in Int
      BY <2>3, <2>6
    <3> HIDE DEF Opposite, Ahead, Remaining
    <3> QED BY <3>1, <1>1 DEF Takes, Higher, Lower
  <2>8. \A p \in 1 .. MaxPrice : costs[p] \in Int
    <3> SUFFICES ASSUME NEW p \in Prices PROVE costs[p] \in Int
      BY <2>1
    <3> HIDE DEF takes
    <3>1. p \in Int /\ takes[p] \in Int
      BY <2>1, <2>7
    <3> QED BY <3>1, <1>2
  <2>9. cost \in Int
    <3> HIDE DEF costs
    <3> QED BY <2>1, <2>8, TotalType
  <2>10. amount \in Int /\ amount <= Remaining(o)
    BY <1>1, <2>5 DEF Lower
  <2>11. amount > 0 /\ m = [amount |-> amount, cost |-> cost,
                 level |-> IF cost % amount = 0 THEN cost \div amount ELSE NoPrice]
    <3> HIDE DEF takes
    <3>1. m \in IF amount <= 0 THEN NoMatch
                ELSE {[amount |-> amount, cost |-> cost,
                       level |-> IF cost % amount = 0 THEN cost \div amount ELSE NoPrice]}
      BY <1>6 DEF MatchWithDepth, takes
    <3> HIDE DEF amount, cost
    <3> QED BY <3>1, <2>10 DEF NoMatch
  <2> HIDE DEF amount, cost
  <2>12. cost \div amount \in Int
    BY <2>9, <2>10, <2>11
  <2> QED BY <1>1, <2>9, <2>10, <2>11, <2>12 DEF NoPrice
<1>7. \/ \E p \in Int : m \in FillAt(o, p)
      \/ m \in MatchWithDepth(o, b)
  <2> HIDE DEF FillAt, MatchWithDepth, Touch
  <2>1. CASE Engine = "Immediate"
    <3>1. m \in MatchImmediate(o, b)
      BY <2>1 DEF CheckAndMatch
    <3> QED BY <3>1, <1>3, <1>5 DEF MatchImmediate, MatchMarket, NoMatch
  <2>2. CASE Engine = "Limit"
    <3>1. m \in MatchLimitEngine(o, b)
      BY <2>2 DEF CheckAndMatch
    <3> QED BY <3>1, <1>3, <1>5 DEF MatchLimitEngine, MatchMarket, MatchLimit,
                                    MatchLimitMaker, NoMatch
  <2>3. CASE Engine = "Depth"
    <3>1. m \in MatchDepthEngine(o, b)
      BY <2>3 DEF CheckAndMatch
    <3> QED BY <3>1, <1>3 DEF MatchDepthEngine, MatchMakerPassive, NoMatch
  <2> QED BY <2>1, <2>2, <2>3, EngineAssumption
<1> QED BY <1>4, <1>6, <1>7

-----------------------------------------------------------------------------
\* Each level of the depth walk gives no more than it offers.
LEMMA TakesType ==
  ASSUME NEW o \in Order, o.filled <= o.amount, NEW b \in Book, NEW p \in Prices
  PROVE  /\ Takes(o, b)[p] \in Nat /\ Offered(o, b)[p] \in Nat
         /\ Takes(o, b)[p] <= Offered(o, b)[p]
<1>1. MaxPrice \in Nat /\ Prices = 1 .. MaxPrice /\ Remaining(o) \in Nat
  BY MaxPriceAssumption DEF Prices, Remaining, Order
<1>2. b.bids \in [Prices -> Nat] /\ b.asks \in [Prices -> Nat]
  BY DEF Book
<1>3. Opposite(b, o.side)[p] \in Nat
  BY <1>2 DEF Opposite
<1>4. Ahead(b, o.side, p) \in Int
  <2>1. \A i \in 1 .. MaxPrice : b.asks[i] \in Int /\ b.bids[i] \in Int
    BY <1>1, <1>2
  <2>2. p \in Nat /\ p - 1 \in Nat /\ p \in 1 .. MaxPrice
    BY <1>1
  <2>3. (\A i \in 1 .. p - 1 : b.asks[i] \in Int) /\ (\A i \in 1 .. p : b.bids[i] \in Int)
    BY <1>1, <2>1, <2>2
  <2>4. Total(b.asks, p - 1) \in Int
    BY <2>2, <2>3, TotalType
  <2>5. Total(b.bids, p) \in Int /\ Total(b.bids, MaxPrice) \in Int
    BY <1>1, <2>1, <2>2, <2>3, TotalType
  <2> QED BY <2>4, <2>5 DEF Ahead
<1> HIDE DEF Opposite, Ahead, Remaining
<1> QED BY <1>1, <1>3, <1>4 DEF Takes, Offered, Higher, Lower

\* A purchase empties the acceptable levels from the lowest on, a sale from the
\* highest on, until nothing remains of the order.
LEMMA WalkTakes ==
  ASSUME NEW o \in Order, o.filled <= o.amount, NEW b \in Book
  PROVE  \A k \in 0 .. MaxPrice :
           Total(Takes(o, b), k) =
             IF o.side = "BUY" THEN Lower(Remaining(o), Total(Offered(o, b), k))
             ELSE Lower(Remaining(o), Total(Offered(o, b), MaxPrice))
                    - Lower(Remaining(o),
                            Total(Offered(o, b), MaxPrice) - Total(Offered(o, b), k))
<1> DEFINE f == Takes(o, b)
           g == Offered(o, b)
           n == MaxPrice
           R == Remaining(o)
           h == Opposite(b, o.side)
           OK(i) == Acceptable(o, i)
<1>1. n \in Nat /\ Prices = 1 .. n /\ R \in Nat /\ o.side \in {"BUY", "SELL"} /\ o.price \in Nat
  BY MaxPriceAssumption DEF Prices, Remaining, Order, Sides
<1>2. \A i \in 1 .. n : f[i] \in Int /\ g[i] \in Int
  <2> SUFFICES ASSUME NEW i \in Prices PROVE f[i] \in Int /\ g[i] \in Int
    BY <1>1
  <2>1. f[i] \in Nat /\ g[i] \in Nat
    BY TakesType
  <2> QED BY <2>1
<1>3. \A i \in 1 .. n : h[i] \in Nat
  BY <1>1 DEF Book, Opposite
<1>4. \A i \in 1 .. n :
        /\ f[i] = IF OK(i) THEN Higher(0, Lower(h[i], R - Ahead(b, o.side, i))) ELSE 0
        /\ g[i] = IF OK(i) THEN h[i] ELSE 0
  BY <1>1 DEF Takes, Offered
<1>5. \A i \in 1 .. n :
        Ahead(b, o.side, i) = IF o.side = "BUY" THEN Total(h, i - 1) ELSE Total(h, n) - Total(h, i)
  BY <1>1 DEF Ahead, Opposite
<1>6. \A i, j \in 1 .. n :
        IF o.side = "BUY" THEN i <= j /\ OK(j) => OK(i) ELSE i <= j /\ OK(i) => OK(j)
  BY <1>1 DEF Acceptable
<1> HIDE DEF f, g, n, R, h, OK
<1>7. PICK s : HasPrefixes(s, h, n)
  <2>1. \A i \in 1 .. n : h[i] \in Int
    BY <1>3
  <2> QED BY <1>1, <2>1, TotalPrefixes
<1>8. PICK t : HasPrefixes(t, f, n)
  BY <1>1, <1>2, TotalPrefixes
<1>9. PICK u : HasPrefixes(u, g, n)
  BY <1>1, <1>2, TotalPrefixes
<1>10. /\ s \in [0 .. n -> Int] /\ t \in [0 .. n -> Int] /\ u \in [0 .. n -> Int]
       /\ s[0] = 0 /\ t[0] = 0 /\ u[0] = 0 /\ 0 \in 0 .. n /\ n \in 0 .. n
       /\ \A i \in 1 .. n : s[i] = s[i - 1] + h[i] /\ t[i] = t[i - 1] + f[i] /\ u[i] = u[i - 1] + g[i]
       /\ \A i \in 0 .. n : Total(h, i) = s[i] /\ Total(f, i) = t[i] /\ Total(g, i) = u[i]
  BY <1>1, <1>7, <1>8, <1>9, SMTT(30) DEF HasPrefixes
<1>11. ASSUME NEW i \in 0 .. n - 1
       PROVE  \E a \in Nat, x \in Int, s1 \in Int, s2 \in Int, t1 \in Int, t2 \in Int,
                 u1 \in Int, u2 \in Int, y \in Int :
                /\ i + 1 \in 1 .. n /\ i \in 0 .. n /\ i + 1 \in 0 .. n
                /\ a = h[i + 1] /\ x = f[i + 1] /\ y = g[i + 1]
                /\ s1 = s[i] /\ t1 = t[i] /\ u1 = u[i]
                /\ s2 = s[i + 1] /\ t2 = t[i + 1] /\ u2 = u[i + 1]
                /\ s2 = s1 + a /\ t2 = t1 + x /\ u2 = u1 + y
                /\ ~OK(i + 1) => x = 0 /\ y = 0
                /\ OK(i + 1) =>
                     /\ y = a
                     /\ x = Higher(0, Lower(a, R - IF o.side = "BUY" THEN s1 ELSE s[n] - s2))
  <2>1. i + 1 \in 1 .. n /\ i + 1 \in 0 .. n /\ (i + 1) - 1 = i /\ i \in 0 .. n
    BY <1>1
  <2>2. /\ h[i + 1] \in Nat /\ f[i + 1] \in Int /\ g[i + 1] \in Int
        /\ s[i] \in Int /\ t[i] \in Int /\ u[i] \in Int
        /\ s[i + 1] \in Int /\ t[i + 1] \in Int /\ u[i + 1] \in Int
    BY <1>2, <1>3, <1>10, <2>1
  <2>3. /\ s[i + 1] = s[i] + h[i + 1] /\ t[i + 1] = t[i] + f[i + 1] /\ u[i + 1] = u[i] + g[i + 1]
    BY <1>10, <2>1
  <2>4. Ahead(b, o.side, i + 1) = IF o.side = "BUY" THEN s[i] ELSE s[n] - s[i + 1]
    BY <1>5, <1>10, <2>1
  <2>5. ~OK(i + 1) => f[i + 1] = 0 /\ g[i + 1] = 0
    BY <1>4, <2>1
  <2>6. OK(i + 1) =>
          /\ g[i + 1] = h[i + 1]
          /\ f[i + 1] = Higher(0, Lower(h[i + 1],
                                        R - IF o.side = "BUY" THEN s[i] ELSE s[n] - s[i + 1]))
    BY <1>4, <2>1, <2>4
  <2> USE <2>2
  <2> WITNESS h[i + 1] \in Nat
  <2> WITNESS f[i + 1] \in Int
  <2> WITNESS s[i] \in Int
  <2> WITNESS s[i + 1] \in Int
  <2> WITNESS t[i] \in Int
  <2> WITNESS t[i + 1] \in Int
  <2> WITNESS u[i] \in Int
  <2> WITNESS u[i + 1] \in Int
  <2> WITNESS g[i + 1] \in Int
  <2> QED BY <2>1, <2>3, <2>5, <2>6, Zenon
<1>12. CASE o.side = "BUY"
  <2> DEFINE T == {i \in 0 .. n : t[i] = Lower(R, u[i]) /\ (i = 0 \/ OK(i) => u[i] = s[i])}
  <2>1. 0 \in T
    BY <1>1, <1>10 DEF Lower
  <2>2. ASSUME NEW i \in 0 .. n - 1, i \in T PROVE i + 1 \in T
    <3>1. PICK a \in Nat, x \in Int, s1 \in Int, s2 \in Int, t1 \in Int, t2 \in Int,
               u1 \in Int, u2 \in Int, y \in Int :
            /\ i + 1 \in 1 .. n /\ i \in 0 .. n /\ i + 1 \in 0 .. n
            /\ a = h[i + 1] /\ x = f[i + 1] /\ y = g[i + 1]
            /\ s1 = s[i] /\ t1 = t[i] /\ u1 = u[i]
            /\ s2 = s[i + 1] /\ t2 = t[i + 1] /\ u2 = u[i + 1]
            /\ s2 = s1 + a /\ t2 = t1 + x /\ u2 = u1 + y
            /\ ~OK(i + 1) => x = 0 /\ y = 0
            /\ OK(i + 1) =>
                 /\ y = a
                 /\ x = Higher(0, Lower(a, R - IF o.side = "BUY" THEN s1 ELSE s[n] - s2))
      BY <1>11
    <3>2. t1 = Lower(R, u1) /\ (i = 0 \/ OK(i) => u1 = s1)
      BY <2>2, <3>1
    <3>3. CASE ~OK(i + 1)
      <4>1. t2 = Lower(R, u2)
        BY <3>1, <3>2, <3>3
      <4>2. t[i + 1] = Lower(R, u[i + 1]) /\ i + 1 \in 0 .. n /\ i + 1 # 0
        BY <1>1, <3>1, <4>1
      <4> QED BY <3>3, <4>2
    <3>4. CASE OK(i + 1)
      <4>1. i = 0 \/ OK(i)
        <5>1. CASE i # 0
          <6>1. i \in 1 .. n /\ i <= i + 1
            BY <1>1, <5>1
          <6> QED BY <1>6, <1>12, <3>1, <3>4, <6>1
        <5> QED BY <5>1
      <4>2. u1 = s1 /\ y = a /\ x = Higher(0, Lower(a, R - s1))
        BY <1>12, <3>1, <3>2, <3>4, <4>1
      <4>3. t2 = Lower(R, u2) /\ u2 = s2
        <5>1. t2 = t1 + x /\ u2 = s1 + a /\ s2 = s1 + a /\ t1 = Lower(R, s1)
          BY <3>1, <3>2, <4>2
        <5> QED BY <1>1, <4>2, <5>1 DEF Lower, Higher
      <4> QED BY <3>1, <4>3
    <3> QED BY <3>3, <3>4
  <2>3. 0 .. n \subseteq T
    <3> HIDE DEF T
    <3> QED BY <1>1, <2>1, <2>2, RangeInduction
  <2>4. \A k \in 0 .. n : Total(f, k) = Lower(R, Total(g, k))
    BY <1>10, <2>3
  <2> QED BY <1>12, <2>4 DEF f, g, n, R
<1>13. CASE o.side = "SELL"
  <2>1. ASSUME NEW k \in 1 .. n, OK(k) PROVE u[n] - u[k] = s[n] - s[k]
    <3> DEFINE T == {i \in 0 .. n : i < k \/ u[i] - u[k] = s[i] - s[k]}
    <3>1. u[k] \in Int /\ s[k] \in Int /\ k \in 0 .. n
      BY <1>1, <1>10
    <3>2. 0 \in T
      BY <1>1
    <3>3. ASSUME NEW i \in 0 .. n - 1, i \in T PROVE i + 1 \in T
      <4>1. PICK a \in Nat, x \in Int, s1 \in Int, s2 \in Int, t1 \in Int, t2 \in Int,
                 u1 \in Int, u2 \in Int, y \in Int :
              /\ i + 1 \in 1 .. n /\ i \in 0 .. n /\ i + 1 \in 0 .. n
              /\ a = h[i + 1] /\ x = f[i + 1] /\ y = g[i + 1]
              /\ s1 = s[i] /\ t1 = t[i] /\ u1 = u[i]
              /\ s2 = s[i + 1] /\ t2 = t[i + 1] /\ u2 = u[i + 1]
              /\ s2 = s1 + a /\ t2 = t1 + x /\ u2 = u1 + y
              /\ ~OK(i + 1) => x = 0 /\ y = 0
              /\ OK(i + 1) =>
                   /\ y = a
                   /\ x = Higher(0, Lower(a, R - IF o.side = "BUY" THEN s1 ELSE s[n] - s2))
        BY <1>11
      <4>2. CASE i + 1 < k
        BY <4>1, <4>2
      <4>3. CASE i + 1 = k
        BY <3>1, <4>1, <4>3
      <4>4. CASE i >= k
        <5>1. OK(i + 1)
          <6>1. k <= i + 1
            BY <4>4
          <6> QED BY <1>6, <1>13, <2>1, <4>1, <6>1
        <5>2. u1 - u[k] = s1 - s[k]
          BY <3>3, <4>1, <4>4
        <5>3. u2 - u[k] = s2 - s[k]
          <6>1. u2 = u1 + a /\ s2 = s1 + a
            BY <4>1, <5>1
          <6>2. PICK c \in Int, d \in Int : c = u[k] /\ d = s[k]
            BY <3>1
          <6>3. u1 - c = s1 - d => u1 + a - c = s1 + a - d
            OBVIOUS
          <6> QED BY <5>2, <6>1, <6>2, <6>3
        <5> QED BY <4>1, <5>3
      <4>5. i + 1 < k \/ i + 1 = k \/ i >= k
        BY <1>1
      <4> QED BY <4>2, <4>3, <4>4, <4>5
    <3>4. n \in T
      <4> HIDE DEF T
      <4>1. 0 .. n \subseteq T
        BY <1>1, <3>2, <3>3, RangeInduction
      <4> QED BY <1>1, <4>1
    <3>5. ~(n < k)
      BY <1>1
    <3> QED BY <3>4, <3>5
  <2> DEFINE U == u[n]
             F(v) == Lower(R, U) - Lower(R, U - v)
             T == {i \in 0 .. n : t[i] = F(u[i])}
  <2>2. U \in Int /\ Lower(R, U) \in Int
    BY <1>1, <1>10 DEF Lower
  <2>3. 0 \in T
    BY <1>1, <1>10, <2>2
  <2>4. ASSUME NEW i \in 0 .. n - 1, i \in T PROVE i + 1 \in T
    <3>1. PICK a \in Nat, x \in Int, s1 \in Int, s2 \in Int, t1 \in Int, t2 \in Int,
               u1 \in Int, u2 \in Int, y \in Int :
            /\ i + 1 \in 1 .. n /\ i \in 0 .. n /\ i + 1 \in 0 .. n
            /\ a = h[i + 1] /\ x = f[i + 1] /\ y = g[i + 1]
            /\ s1 = s[i] /\ t1 = t[i] /\ u1 = u[i]
            /\ s2 = s[i + 1] /\ t2 = t[i + 1] /\ u2 = u[i + 1]
            /\ s2 = s1 + a /\ t2 = t1 + x /\ u2 = u1 + y
            /\ ~OK(i + 1) => x = 0 /\ y = 0
            /\ OK(i + 1) =>
                 /\ y = a
                 /\ x = Higher(0, Lower(a, R - IF o.side = "BUY" THEN s1 ELSE s[n] - s2))
      BY <1>11
    <3>2. t1 = F(u1)
      BY <2>4, <3>1
    <3>3. CASE ~OK(i + 1)
      <4>1. t2 = t1 /\ u2 = u1
        BY <3>1, <3>3
      <4> QED BY <3>1, <3>2, <4>1
    <3>4. CASE OK(i + 1)
      <4>1. U - u2 = s[n] - s2
        BY <2>1, <3>1, <3>4
      <4>2. y = a /\ x = Higher(0, Lower(a, R - (s[n] - s2)))
        BY <1>13, <3>1, <3>4
      <4>3. PICK w \in Int : w = U - u2
        BY <2>2
      <4>4. x = Higher(0, Lower(a, R - w)) /\ U - u1 = w + a /\ t2 = t1 + x
        <5>1. t2 = t1 + x /\ u2 = u1 + a /\ w = s[n] - s2
          BY <3>1, <4>1, <4>2, <4>3
        <5>2. U - u1 = U - u2 + a
          BY <2>2, <5>1
        <5> QED BY <4>2, <4>3, <5>1, <5>2
      <4>5. \A l \in Int, v \in Int :
              v = l - Lower(R, w + a) => v + Higher(0, Lower(a, R - w)) = l - Lower(R, w)
        BY <1>1 DEF Lower, Higher
      <4>6. t2 = Lower(R, U) - Lower(R, w)
        BY <2>2, <3>1, <3>2, <4>4, <4>5
      <4> QED BY <3>1, <4>3, <4>6
    <3> QED BY <3>3, <3>4
  <2>5. 0 .. n \subseteq T
    <3> HIDE DEF T
    <3> QED BY <1>1, <2>3, <2>4, RangeInduction
  <2>6. \A k \in 0 .. n :
          Total(f, k) = Lower(R, Total(g, n)) - Lower(R, Total(g, n) - Total(g, k))
    BY <1>10, <2>5
  <2> QED BY <1>13, <2>6 DEF f, g, n, R
<1> QED BY <1>1, <1>12, <1>13

\* So on either side it takes what the matcher reports: all that the acceptable
\* levels show, or what remains of the order if that is less.
LEMMA WalkTakesAmount ==
  ASSUME NEW o \in Order, o.filled <= o.amount, NEW b \in Book
  PROVE  /\ Total(Takes(o, b), MaxPrice) = Lower(Remaining(o), Total(Offered(o, b), MaxPrice))
         /\ Total(Takes(o, b), MaxPrice) \in Nat /\ Total(Offered(o, b), MaxPrice) \in Nat
<1>1. MaxPrice \in Nat /\ MaxPrice \in 0 .. MaxPrice /\ Prices = 1 .. MaxPrice
  BY MaxPriceAssumption DEF Prices
<1>2. Total(Offered(o, b), MaxPrice) \in Nat /\ Total(Takes(o, b), MaxPrice) \in Nat
  BY <1>1, TakesType, TotalAtLeast
<1>3. PICK u \in Nat, r \in Nat : u = Total(Offered(o, b), MaxPrice) /\ r = Remaining(o)
  BY <1>2 DEF Remaining, Order
<1>4. Lower(r, u - u) = 0 /\ Lower(r, u) \in Nat
  BY DEF Lower
<1>5. Total(Takes(o, b), MaxPrice) = Lower(r, u) \/ Total(Takes(o, b), MaxPrice) = Lower(r, u) - Lower(r, u - u)
  BY <1>1, <1>3, WalkTakes
<1> QED BY <1>2, <1>3, <1>4, <1>5

\* The walk is best execution: no other way to take the same amount from the
\* acceptable levels costs a purchase less, or brings a sale more.
LEMMA WalkIsBestWay ==
  ASSUME NEW o \in Order, o.filled <= o.amount, NEW b \in Book, NEW g, NEW v, NEW w,
         \A p \in 1 .. MaxPrice : g[p] \in Nat /\ g[p] <= Offered(o, b)[p],
         \A p \in 1 .. MaxPrice : v[p] = p * Takes(o, b)[p] /\ w[p] = p * g[p],
         Total(g, MaxPrice) = Total(Takes(o, b), MaxPrice)
  PROVE  IF o.side = "BUY" THEN Total(v, MaxPrice) <= Total(w, MaxPrice)
                           ELSE Total(w, MaxPrice) <= Total(v, MaxPrice)
<1> DEFINE n == MaxPrice
           R == Remaining(o)
           f == Takes(o, b)
           h == Offered(o, b)
           rest == [p \in 1 .. n |-> h[p] - g[p]]
<1>1. n \in Nat /\ Prices = 1 .. n /\ R \in Nat
  BY MaxPriceAssumption DEF Prices, Remaining, Order
<1>2. \A p \in 1 .. n : f[p] \in Nat /\ h[p] \in Nat
  BY <1>1, TakesType
<1>3. \A k \in 0 .. n :
        Total(f, k) = IF o.side = "BUY" THEN Lower(R, Total(h, k))
                      ELSE Lower(R, Total(h, n)) - Lower(R, Total(h, n) - Total(h, k))
  BY WalkTakes
<1>4. Total(g, n) = Lower(R, Total(h, n))
  BY WalkTakesAmount
<1>5. \A p \in 1 .. n : rest[p] \in Nat /\ rest[p] = h[p] - g[p]
  <2> SUFFICES ASSUME NEW p \in 1 .. n PROVE h[p] - g[p] \in Nat
    OBVIOUS
  <2> HIDE DEF h
  <2> QED BY <1>2 DEF h
<1> HIDE DEF f, h, n, R, rest
<1>6. ASSUME NEW k \in 0 .. n
      PROVE  IF o.side = "BUY" THEN Total(g, k) <= Total(f, k) ELSE Total(f, k) <= Total(g, k)
  <2>1. k \in Nat /\ \A p \in 1 .. k : p \in 1 .. n
    BY <1>1
  <2>2. /\ Total(g, k) \in Nat /\ Total(g, k) <= Total(g, n)
        /\ Total(h, k) \in Nat /\ Total(h, k) <= Total(h, n)
        /\ Total(rest, k) \in Nat /\ Total(rest, k) <= Total(rest, n)
    <3>1. \A p \in 1 .. n : g[p] \in Nat
      BY DEF n
    <3> QED BY <1>1, <1>2, <1>5, <3>1, TotalGrows
  <2>3. Total(g, n) \in Nat /\ Total(h, n) \in Nat
    <3>1. \A p \in 1 .. n : g[p] \in Nat
      BY DEF n
    <3> QED BY <1>1, <1>2, <3>1, TotalAtLeast
  <2>4. Total(rest, k) = Total(h, k) - Total(g, k)
    <3>1. \A p \in 1 .. k : h[p] \in Int /\ g[p] \in Int /\ rest[p] = h[p] - g[p]
      BY <1>2, <1>5, <2>1 DEF n
    <3> QED BY <2>1, <3>1, TotalDifference
  <2>5. Total(rest, n) = Total(h, n) - Total(g, n)
    <3>1. \A p \in 1 .. n : h[p] \in Int /\ g[p] \in Int /\ rest[p] = h[p] - g[p]
      BY <1>2, <1>5 DEF n
    <3> QED BY <1>1, <3>1, TotalDifference
  <2>6. PICK gk \in Nat, gn \in Nat, hk \in Nat, hn \in Nat :
          gk = Total(g, k) /\ gn = Total(g, n) /\ hk = Total(h, k) /\ hn = Total(h, n)
    BY <2>2, <2>3
  <2>7. gk <= gn /\ hk <= hn /\ gk <= hk /\ hk - gk <= hn - gn /\ gn = Lower(R, hn)
    BY <1>4, <2>2, <2>4, <2>5, <2>6
  <2>8. gk <= Lower(R, hk) /\ Lower(R, hn) - Lower(R, hn - hk) <= gk
    BY <1>1, <2>7 DEF Lower
  <2>9. Total(f, k) = IF o.side = "BUY" THEN Lower(R, hk) ELSE Lower(R, hn) - Lower(R, hn - hk)
    BY <1>3, <2>6
  <2> QED BY <2>6, <2>8, <2>9
<1>7. \A p \in 1 .. n : g[p] \in Nat /\ v[p] = p * f[p] /\ w[p] = p * g[p]
  BY DEF n, f
<1>8. Total(g, n) = Total(f, n)
  BY DEF n, f
<1>9. CASE o.side = "BUY"
  <2>1. Total(v, n) <= Total(w, n)
    BY <1>1, <1>2, <1>6, <1>7, <1>8, <1>9, EarlierWeighsLess
  <2> QED BY <1>9, <2>1 DEF n
<1>10. CASE o.side # "BUY"
  <2>1. Total(w, n) <= Total(v, n)
    BY <1>1, <1>2, <1>6, <1>7, <1>8, <1>10, EarlierWeighsLess
  <2> QED BY <1>10, <2>1 DEF n
<1> QED BY <1>9, <1>10

\* No engine fills an order that has a limit at a worse price than that, a part
\* of it at an average over several levels included.
LEMMA MatchWithinLimit ==
  ASSUME NEW o \in Order, o.filled <= o.amount, o.type # "MARKET",
         NEW b \in Book, NEW m \in CheckAndMatch(o, b)
  PROVE  IF o.side = "BUY" THEN m.cost <= o.price * m.amount ELSE o.price * m.amount <= m.cost
<1> DEFINE Kept == IF o.side = "BUY" THEN m.cost <= o.price * m.amount
                   ELSE o.price * m.amount <= m.cost
<1>1. Remaining(o) \in Nat /\ o.price \in Nat /\ o.side \in {"BUY", "SELL"}
  BY DEF Remaining, Order, Sides
<1>2. \A x, y \in Nat : x * y \in Nat
  OBVIOUS
<1>3. ASSUME m \in FillAt(o, o.price) PROVE Kept
  <2>1. m.cost = o.price * Remaining(o) /\ m.amount = Remaining(o)
    BY <1>3 DEF FillAt
  <2>2. o.price * Remaining(o) \in Nat
    BY <1>1, <1>2
  <2> QED BY <2>1, <2>2
<1>4. ASSUME m \in MatchWithDepth(o, b) PROVE Kept
  <2> DEFINE takes == Takes(o, b)
             costs == [p \in Prices |-> p * takes[p]]
             cost == Total(costs, MaxPrice)
             amount == Lower(Remaining(o), Total(Offered(o, b), MaxPrice))
  <2>1. MaxPrice \in Nat /\ Prices = 1 .. MaxPrice
    BY MaxPriceAssumption DEF Prices
  <2>2. ASSUME NEW p \in 1 .. MaxPrice
        PROVE  /\ costs[p] \in Int /\ takes[p] \in Int
               /\ o.side = "BUY" => costs[p] <= o.price * takes[p]
               /\ o.side = "SELL" => o.price * takes[p] <= costs[p]
    <3>1. PICK t \in Nat, c \in Nat, q \in Nat : t = takes[p] /\ c = o.price /\ q = p
      BY <1>1, <2>1, TakesType
    <3>2. t = 0 \/ IF o.side = "BUY" THEN q <= c ELSE q >= c
      BY <2>1, <3>1 DEF Takes, Acceptable
    <3>3. costs[p] = q * t
      BY <2>1, <3>1
    <3>4. \A x, y, z \in Nat : x <= y => x * z <= y * z /\ x * z \in Int
      <4> SUFFICES ASSUME NEW x \in Nat, NEW y \in Nat, NEW z \in Nat, x <= y
                   PROVE  x * z <= y * z /\ x * z \in Int
        OBVIOUS
      <4>1. PICK d \in Nat : y = x + d
        BY y - x \in Nat
      <4>2. y * z = x * z + d * z /\ d * z \in Nat /\ x * z \in Nat
        BY <4>1
      <4> QED BY <4>2
    <3> HIDE DEF takes, costs
    <3>5. q * t \in Int
      BY <3>4
    <3>6. CASE t = 0
      <4>1. q * t = 0 /\ c * t = 0
        BY <3>6
      <4> QED BY <3>1, <3>3, <4>1
    <3>7. CASE t # 0
      <4>1. o.side = "BUY" => q * t <= c * t
        BY <3>2, <3>4, <3>7
      <4>2. o.side = "SELL" => c * t <= q * t
        BY <3>2, <3>4, <3>7
      <4> QED BY <3>1, <3>3, <3>5, <4>1, <4>2
    <3> QED BY <3>6, <3>7
  <2>3. m.cost = cost /\ m.amount = amount
    <3> HIDE DEF takes
    <3>1. m \in IF amount <= 0 THEN NoMatch
                ELSE {[amount |-> amount, cost |-> cost,
                       level |-> IF cost % amount = 0 THEN cost \div amount ELSE NoPrice]}
      BY <1>4 DEF MatchWithDepth, takes
    <3> HIDE DEF amount, cost
    <3> QED BY <3>1 DEF NoMatch
  <2>4. amount = Total(takes, MaxPrice)
    BY WalkTakesAmount
  <2> HIDE DEF takes, costs, amount
  <2>5. o.side = "BUY" => cost <= o.price * Total(takes, MaxPrice)
    BY <1>1, <2>1, <2>2, TotalScales
  <2>6. o.side = "SELL" => o.price * Total(takes, MaxPrice) <= cost
    BY <1>1, <2>1, <2>2, TotalScalesUp
  <2> QED BY <1>1, <2>3, <2>4, <2>5, <2>6
<1>5. m \in FillAt(o, o.price) \/ m \in MatchWithDepth(o, b)
  <2> HIDE DEF FillAt, MatchWithDepth
  <2>1. CASE Engine = "Immediate"
    BY <2>1 DEF CheckAndMatch, MatchImmediate
  <2>2. CASE Engine = "Limit"
    BY <2>2 DEF CheckAndMatch, MatchLimitEngine, MatchLimit, MatchLimitMaker, NoMatch
  <2>3. CASE Engine = "Depth"
    BY <2>3 DEF CheckAndMatch, MatchDepthEngine, MatchMakerPassive, NoMatch
  <2> QED BY <2>1, <2>2, <2>3, EngineAssumption
<1> QED BY <1>3, <1>4, <1>5

-----------------------------------------------------------------------------
\* A fee is an integer.
LEMMA FeeType ==
  ASSUME NEW o, NEW cost \in Int
  PROVE  CalculateFee(o, cost) \in Int
<1> DEFINE rate == IF o.type = "LIMIT_MAKER" THEN MakerRate ELSE TakerRate
<1>1. rate \in Int /\ FeeScale \in Nat \ {0}
  BY ExchangeAssumption
<1>2. \A x, y \in Int : x * y \in Int
  OBVIOUS
<1>3. cost * rate \in Int
  <2> HIDE DEF rate
  <2> QED BY <1>1, <1>2
<1>4. \A x \in Int, y \in Nat \ {0} : x \div y \in Int
  OBVIOUS
<1> QED BY <1>1, <1>3, <1>4 DEF CalculateFee

\* A fill of at most what remains keeps the order well-formed and within its amount.
LEMMA UpdateWithFillType ==
  ASSUME NEW o \in Order, o.filled <= o.amount,
         NEW a \in 0 .. Remaining(o), NEW c \in Int, NEW fee \in Int
  PROVE  /\ UpdateWithFill(o, a, c, fee) \in Order
         /\ UpdateWithFill(o, a, c, fee).filled <= UpdateWithFill(o, a, c, fee).amount
         /\ UpdateWithFill(o, a, c, fee).side = o.side
         /\ UpdateWithFill(o, a, c, fee).type = o.type
         /\ Remaining(UpdateWithFill(o, a, c, fee)) = Remaining(o) - a
         /\ ~IsOpen(UpdateWithFill(o, a, c, fee)) => Remaining(o) = a
<1>1. o.filled + a \in Nat /\ o.filled + a <= o.amount /\ o.cost + c \in Int /\ o.fee + fee \in Int
  BY DEF Remaining, Order
<1> DEFINE u == UpdateWithFill(o, a, c, fee)
<1>2. /\ u.filled = o.filled + a /\ u.amount = o.amount
      /\ u.side = o.side /\ u.type = o.type
      /\ u.status = IF o.filled + a >= o.amount THEN "FILLED" ELSE "PARTIALLY_FILLED"
  BY DEF UpdateWithFill, Order
<1>3. u \in Order
  <2>1. u.status \in Statuses
    BY <1>2 DEF Statuses
  <2> HIDE DEF Statuses
  <2> QED BY <1>1, <2>1 DEF UpdateWithFill, Order
<1>4. o.filled \in Int /\ o.amount \in Int /\ a \in Int
  BY DEF Order, Remaining
<1> HIDE DEF u
<1>5. Remaining(u) = Remaining(o) - a
  BY <1>2, <1>4 DEF Remaining
<1>6. ~IsOpen(u) => Remaining(o) = a
  BY <1>1, <1>2, <1>4 DEF Remaining, IsOpen
<1> QED BY <1>1, <1>2, <1>3, <1>5, <1>6 DEF u

\* apply_fill keeps the type of the balances.
LEMMA ApplyFillType ==
  ASSUME NEW bals \in [Currencies -> TokenBalance], NEW side \in Sides,
         NEW a \in Int, NEW c \in Int, NEW fee \in Int
  PROVE  /\ ApplyFill(bals, side, a, c, fee) \in [Currencies -> TokenBalance]
         /\ ApplyFill(bals, side, a, c, fee)["base"].held
         /\ ApplyFill(bals, side, a, c, fee)["base"].total =
              bals["base"].total + (IF side = "BUY" THEN a ELSE -a)
         /\ ApplyFill(bals, side, a, c, fee)["base"].locked =
              bals["base"].locked - (IF side = "BUY" THEN 0 ELSE a)
BY DEF ApplyFill, Currencies, TokenBalance, Higher, Sides

\* lock_collateral keeps the type of the balances.
LEMMA LockCollateralType ==
  ASSUME NEW bals \in [Currencies -> TokenBalance], NEW c \in Currencies, NEW a \in Int
  PROVE  /\ LockCollateral(bals, c, a) \in [Currencies -> TokenBalance]
         /\ LockCollateral(bals, c, a)["base"].held = bals["base"].held
         /\ LockCollateral(bals, c, a)["base"].total = bals["base"].total
         /\ LockCollateral(bals, c, a)["base"].locked =
              bals["base"].locked + (IF c = "base" THEN a ELSE 0)
BY DEF LockCollateral, Currencies, TokenBalance

\* release_collateral keeps the type of the balances.
LEMMA ReleaseCollateralType ==
  ASSUME NEW bals \in [Currencies -> TokenBalance], NEW c \in Currencies, NEW a \in Int
  PROVE  /\ ReleaseCollateral(bals, c, a) \in [Currencies -> TokenBalance]
         /\ ReleaseCollateral(bals, c, a)["base"].held = bals["base"].held
         /\ ReleaseCollateral(bals, c, a)["base"].total = bals["base"].total
         /\ ReleaseCollateral(bals, c, a)["base"].locked =
              IF c = "base" /\ bals["base"].held
              THEN Higher(0, bals["base"].locked - a)
              ELSE bals["base"].locked
BY DEF ReleaseCollateral, Currencies, TokenBalance, Higher

\* apply_trade leaves a book, without negative quantities.
LEMMA ApplyTradeType ==
  ASSUME NEW b \in Book, NEW level \in Int, NEW a \in Int, NEW side \in Sides
  PROVE  ApplyTrade(b, level, a, side) \in Book
<1>1. ASSUME NEW levels \in [Prices -> Nat] PROVE Reduced(levels, level, a) \in [Prices -> Nat]
  BY DEF Reduced, Higher
<1> QED BY <1>1 DEF ApplyTrade, Book
=============================================================================
