----------------------------- MODULE OrderBook ------------------------------
(***************************************************************************)
(* simulator/order_book.py: the quantity shown at each price level of a    *)
(* pair. The code's dict from price to quantity is a function on the price *)
(* levels 1 .. MaxPrice, 0 where the dict has no key.                      *)
(***************************************************************************)
EXTENDS Integers, Sums, Orders

CONSTANT MaxPrice             \* bound: the price levels there are

ASSUME MaxPriceAssumption == MaxPrice \in Nat \ {0}

Prices == 1 .. MaxPrice

Book == [bids : [Prices -> Nat], asks : [Prices -> Nat]]

EmptyBook == [bids |-> [p \in Prices |-> 0], asks |-> [p \in Prices |-> 0]]

Levels(levels) == {p \in Prices : levels[p] > 0}

BestBid(book) == IF Levels(book.bids) = {} THEN NoPrice ELSE Greatest(Levels(book.bids))

BestAsk(book) == IF Levels(book.asks) = {} THEN NoPrice ELSE Least(Levels(book.asks))

\* The best price an order of this side can trade at now.
Touch(book, side) == IF side = "BUY" THEN BestAsk(book) ELSE BestBid(book)

Opposite(book, side) == IF side = "BUY" THEN book.asks ELSE book.bids

\* Wrong variant, never used: the levels come in the order of the other side.
AheadFromWorst(book, side, p) ==
  IF side = "BUY"
  THEN Total(book.asks, MaxPrice) - Total(book.asks, p)
  ELSE Total(book.bids, p - 1)

\* The quantity shown at prices better than p for an order of this side.
Ahead(book, side, p) ==
  IF side = "BUY"
  THEN Total(book.asks, p - 1)
  ELSE Total(book.bids, MaxPrice) - Total(book.bids, p)

\* Wrong variant, never used: an overdrawn level shows a negative quantity.
ReducedBelowZero(levels, level, amount) ==
  IF level \in Prices THEN [levels EXCEPT ![level] = @ - amount] ELSE levels

Reduced(levels, level, amount) ==
  IF level \in Prices
  THEN [levels EXCEPT ![level] = Higher(0, @ - amount)]
  ELSE levels

\* apply_trade: only a level with exactly the traded price is reduced.
ApplyTrade(book, level, amount, side) ==
  IF side = "BUY"
  THEN [book EXCEPT !.asks = Reduced(@, level, amount)]
  ELSE [book EXCEPT !.bids = Reduced(@, level, amount)]
=============================================================================
