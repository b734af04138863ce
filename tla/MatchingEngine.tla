--------------------------- MODULE MatchingEngine ---------------------------
(***************************************************************************)
(* simulator/matching_engine.py: the three strategies behind               *)
(* check_and_match. A result is the set of the matches found: empty for    *)
(* None, else one record of the amount, of its cost (fill_price * amount)  *)
(* and of the book level the fill price names, NoPrice if it is between    *)
(* levels, which an average over several levels may be.                    *)
(***************************************************************************)
EXTENDS OrderBook

CONSTANT Engine               \* the strategy this exchange was built with

ASSUME EngineAssumption == Engine \in {"Immediate", "Limit", "Depth"}

NoMatch == {}

FillAt(o, price) ==
  {[amount |-> Remaining(o), cost |-> price * Remaining(o), level |-> price]}

\* The best opposite price is at the order's limit or better.
PriceReached(o, book) ==
  IF o.side = "BUY"
  THEN BestAsk(book) # NoPrice /\ BestAsk(book) <= o.price
  ELSE BestBid(book) # NoPrice /\ BestBid(book) >= o.price

\* The whole remaining amount at the best price, whatever quantity is shown.
MatchMarket(o, book) ==
  IF Touch(book, o.side) = NoPrice THEN NoMatch ELSE FillAt(o, Touch(book, o.side))

MatchLimit(o, book) == IF PriceReached(o, book) THEN FillAt(o, o.price) ELSE NoMatch

\* A maker order would trade exactly when it would have been a taker: the
\* first test of the code returns None and leaves nothing for the second.
MatchLimitMaker(o, book) ==
  LET wouldTake == PriceReached(o, book)
  IN  IF ~wouldTake /\ PriceReached(o, book) THEN FillAt(o, o.price) ELSE NoMatch

-----------------------------------------------------------------------------
\* The depth walk: from the best level on, each acceptable level gives what
\* it shows until nothing remains.
\* Wrong variant, never used: a sale compares with its limit as a purchase does.
AcceptableBelow(o, p) == o.type = "MARKET" \/ p <= o.price

Acceptable(o, p) ==
  \/ o.type = "MARKET"
  \/ IF o.side = "BUY" THEN p <= o.price ELSE p >= o.price

Takes(o, book) ==
  [p \in Prices |->
     IF Acceptable(o, p)
     THEN Higher(0, Lower(Opposite(book, o.side)[p],
                          Remaining(o) - Ahead(book, o.side, p)))
     ELSE 0]

Offered(o, book) ==
  [p \in Prices |-> IF Acceptable(o, p) THEN Opposite(book, o.side)[p] ELSE 0]

\* Wrong variant, never used: a partly filled order is matched for its whole amount.
MatchWholeWithDepth(o, book) ==
  LET amount == Lower(o.amount, Total(Offered(o, book), MaxPrice))
      cost   == Total([p \in Prices |-> p * Takes(o, book)[p]], MaxPrice)
  IN  IF Remaining(o) <= 0 \/ amount <= 0
      THEN NoMatch
      ELSE {[amount |-> amount, cost |-> cost, level |-> NoPrice]}

MatchWithDepth(o, book) ==
  LET amount == Lower(Remaining(o), Total(Offered(o, book), MaxPrice))
      takes  == Takes(o, book)
      cost   == Total([p \in Prices |-> p * takes[p]], MaxPrice)
  IN  IF amount <= 0
      THEN NoMatch
      ELSE {[amount |-> amount, cost |-> cost,
             level  |-> IF cost % amount = 0 THEN cost \div amount ELSE NoPrice]}

MatchMakerPassive(o, book) == IF PriceReached(o, book) THEN FillAt(o, o.price) ELSE NoMatch

-----------------------------------------------------------------------------
MatchImmediate(o, book) ==
  IF o.type = "MARKET" THEN MatchMarket(o, book) ELSE FillAt(o, o.price)

MatchLimitEngine(o, book) ==
  IF o.type = "MARKET" THEN MatchMarket(o, book)
  ELSE IF o.type = "LIMIT" THEN MatchLimit(o, book)
  ELSE IF o.type = "LIMIT_MAKER" THEN MatchLimitMaker(o, book)
  ELSE NoMatch

MatchDepthEngine(o, book) ==
  IF o.type \in {"MARKET", "LIMIT"} THEN MatchWithDepth(o, book)
  ELSE IF o.type = "LIMIT_MAKER" THEN MatchMakerPassive(o, book)
  ELSE NoMatch

CheckAndMatch(o, book) ==
  CASE Engine = "Immediate" -> MatchImmediate(o, book)
    [] Engine = "Limit"     -> MatchLimitEngine(o, book)
    [] Engine = "Depth"     -> MatchDepthEngine(o, book)
=============================================================================
