----------------------------- MODULE ExchangeMC -----------------------------
(***************************************************************************)
(* Small instances of Exchange for TLC. Amounts come in lots of 2, so that *)
(* half a lot is an amount no rule lets through and a fee of one half of   *)
(* the cost is exact.                                                      *)
(***************************************************************************)
EXTENDS Exchange

Side(quotes) ==
  [p \in Prices |-> LET q == {x \in quotes : x[1] = p}
                    IN  IF q = {} THEN 0 ELSE (CHOOSE x \in q : TRUE)[2]]

BookOf(bids, asks) == [bids |-> Side(bids), asks |-> Side(asks)]

Plain(type, side, amount, price) ==
  [type |-> type, side |-> side, amount |-> amount, price |-> price,
   trigger |-> NoPrice, trail |-> NoPrice]

Stop(type, side, amount, trigger) ==
  [Plain(type, side, amount, trigger) EXCEPT !.trigger = trigger]

Trailing(side, amount, trail) ==
  [Plain("TRAILING_STOP", side, amount, 0) EXCEPT !.trail = trail]

Funded(base, quote) ==
  [c \in Currencies |->
     [held |-> TRUE, total |-> IF c = "base" THEN base ELSE quote, locked |-> 0]]

\* Two markets one level apart.
TwoMarkets ==
  {BookOf({<<1, 4>>}, {<<2, 4>>}), BookOf({<<2, 2>>}, {<<3, 2>>})}

\* The amount 1 is below the increment and is rounded to 0.
LimitRequests ==
  {Plain("LIMIT", "SELL", 2, 2), Plain("LIMIT", "BUY", 3, 2), Plain("LIMIT", "BUY", 1, 3),
   Plain("MARKET", "SELL", 2, 0),
   Stop("STOP_LOSS", "SELL", 2, 1), Stop("TAKE_PROFIT", "BUY", 2, 2), Trailing("SELL", 2, 1)}

LimitBalances == Funded(4, 6)

-----------------------------------------------------------------------------
\* The depth engine needs several levels on a side to average over.
DeepMarkets ==
  {BookOf({<<1, 2>>, <<2, 2>>}, {<<3, 2>>}), BookOf({<<1, 2>>}, {<<2, 2>>, <<3, 4>>})}

DepthRequests ==
  {Plain("LIMIT", "BUY", 4, 3), Plain("LIMIT", "SELL", 4, 1), Plain("LIMIT", "SELL", 4, 2),
   Plain("MARKET", "SELL", 4, 0), Plain("LIMIT_MAKER", "SELL", 2, 2), Stop("STOP_LOSS", "SELL", 2, 1)}

DepthBalances == Funded(6, 12)

\* One purchase through both levels of the ask side.
DepthPurchase == {Plain("LIMIT", "BUY", 4, 3)}

-----------------------------------------------------------------------------
\* Stops of both sides, one of them trailing.
StopRequests ==
  {Stop("STOP_LOSS", "SELL", 2, 1), Stop("TAKE_PROFIT_LIMIT", "SELL", 2, 2),
   Stop("STOP_LOSS_LIMIT", "BUY", 2, 3), Trailing("BUY", 2, 1), Plain("LIMIT", "SELL", 2, 2)}

BuyStop == {Stop("STOP_LOSS", "BUY", 2, 2)}

TwoSales == {Plain("LIMIT", "SELL", 2, 1)}

=============================================================================
