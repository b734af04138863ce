----------------------------- MODULE CachedBook -----------------------------
(***************************************************************************)
(* simulator/order_book.py as an object: the levels of OrderBook, the last *)
(* trade price, and the two sorted lists that queries fill and every       *)
(* change of the levels drops.                                             *)
(***************************************************************************)
EXTENDS OrderBook, Sequences

NoCache == << <<NoPrice, 0>> >>    \* None: no list shows this price

CachedBook ==
  [levels : Book, last : Nat \cup {NoPrice}, sortedBids : Seq(Int \X Nat), sortedAsks : Seq(Int \X Nat)]

\* What a recorded diff and a trade look like.
IsDiff(d) ==
  \A side \in {d.bids, d.asks} : \A p \in DOMAIN side \cap Prices : side[p] \in Int

IsTrade(t) == t.level \in Nat /\ t.amount \in Int

NewBook == [levels |-> EmptyBook, last |-> NoPrice, sortedBids |-> NoCache, sortedAsks |-> NoCache]

\* Wrong variant, never used: the list of asks survives.
InvalidateBids(b) == [b EXCEPT !.sortedBids = NoCache]

InvalidateCache(b) == [b EXCEPT !.sortedBids = NoCache, !.sortedAsks = NoCache]

\* A snapshot is a Book: a price it does not list has quantity 0.
ApplySnapshot(b, snapshot) == InvalidateCache([b EXCEPT !.levels = snapshot])

Updated(levels, diffs) ==
  [p \in Prices |-> IF p \in DOMAIN diffs THEN Higher(0, diffs[p]) ELSE levels[p]]

\* Diffs map some prices to their new quantity; 0 removes the level.
ApplyDiffs(b, diffs) ==
  InvalidateCache([b EXCEPT !.levels.bids = Updated(@, diffs.bids),
                            !.levels.asks = Updated(@, diffs.asks)])

RecordTrade(b, t) ==
  InvalidateCache([b EXCEPT !.levels = ApplyTrade(@, t.level, t.amount, t.side), !.last = t.level])

-----------------------------------------------------------------------------
Listed(levels, order) == [i \in DOMAIN order |-> <<order[i], levels[order[i]]>>]

HighFirst(levels) == Ranked(Levels(levels), LAMBDA p, q : p > q)

LowFirst(levels) == Ranked(Levels(levels), LAMBDA p, q : p < q)

\* _sorted_bids and _sorted_asks: a list is made when it is asked for and kept.
ReadBids(b) ==
  IF b.sortedBids # NoCache THEN b
  ELSE [b EXCEPT !.sortedBids = Listed(b.levels.bids, HighFirst(b.levels.bids))]

ReadAsks(b) ==
  IF b.sortedAsks # NoCache THEN b
  ELSE [b EXCEPT !.sortedAsks = Listed(b.levels.asks, LowFirst(b.levels.asks))]

\* The list a query for an order of this side walks.
WalkedList(b, side) == IF side = "BUY" THEN b.sortedAsks ELSE b.sortedBids

PriceOf(entry) == entry[1]

QuantityOf(entry) == entry[2]

Beyond(price, side, limit) == IF side = "BUY" THEN price > limit ELSE price < limit

\* get_volume_for_price_move stops at the first price beyond the limit.
VolumeWithin(list, side, limit) ==
  Total([i \in DOMAIN list |->
           IF \E j \in 1 .. i : Beyond(PriceOf(list[j]), side, limit) THEN 0 ELSE QuantityOf(list[i])],
        Len(list))

\* get_vwap times the amount, NoPrice for its None.
CostOfAmount(list, amount) ==
  LET left[i \in 0 .. Len(list)] ==
        IF i = 0 THEN amount ELSE left[i - 1] - Lower(left[i - 1], QuantityOf(list[i]))
      n == Len(list)
  IN  IF left[n] > 0 THEN NoPrice
      ELSE Total([i \in DOMAIN list |-> (left[i - 1] - left[i]) * PriceOf(list[i])], n)
=============================================================================
