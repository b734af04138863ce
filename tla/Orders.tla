------------------------------- MODULE Orders -------------------------------
(***************************************************************************)
(* The order records of core/types.py and the classifications the tracker  *)
(* and the exchange ask of them. An order keeps the cost of its fills      *)
(* (filled_price * filled_amount of the code, which stores the average).   *)
(***************************************************************************)
EXTENDS Integers

CONSTANTS AmountIncrement,    \* TradingRule.min_base_amount_increment
          PriceIncrement      \* TradingRule.min_price_increment

ASSUME IncrementAssumption == AmountIncrement \in Nat /\ PriceIncrement \in Nat

NoPrice == -1                 \* None where the code has an optional Decimal

Sides == {"BUY", "SELL"}

ConditionalTypes ==
  {"STOP_LOSS", "TAKE_PROFIT", "STOP_LOSS_LIMIT", "TAKE_PROFIT_LIMIT", "TRAILING_STOP"}

OrderTypes == {"MARKET", "LIMIT", "LIMIT_MAKER"} \cup ConditionalTypes

\* PENDING_CREATE lasts only within _place_order; PENDING_CANCEL is never
\* assigned. ABSENT is an identifier the tracker has not generated yet.
Statuses == {"ABSENT", "OPEN", "PARTIALLY_FILLED", "FILLED", "CANCELLED", "FAILED"}

\* What a strategy passes to buy() or sell().
Request ==
  [type : OrderTypes, side : Sides, amount : Nat, price : Nat,
   trigger : Nat \cup {NoPrice}, trail : Nat \cup {NoPrice}]

Order ==
  [status : Statuses, type : OrderTypes, side : Sides, amount : Nat, price : Nat,
   trigger : Nat \cup {NoPrice}, trail : Nat \cup {NoPrice},
   filled : Nat, cost : Int, fee : Int]

NoOrder ==
  [status |-> "ABSENT", type |-> "LIMIT", side |-> "BUY", amount |-> 0, price |-> 0,
   trigger |-> NoPrice, trail |-> NoPrice, filled |-> 0, cost |-> 0, fee |-> 0]

IsOpen(o) == o.status \in {"OPEN", "PARTIALLY_FILLED"}

IsConditional(o) == o.type \in ConditionalTypes

Remaining(o) == o.amount - o.filled

Quantize(x, increment) ==
  IF increment <= 0 THEN x ELSE (x \div increment) * increment

\* The request as _place_order rounds it before it creates the order.
Quantized(r) ==
  [r EXCEPT !.amount  = Quantize(@, AmountIncrement),
            !.price   = IF r.type = "MARKET" THEN @ ELSE Quantize(@, PriceIncrement),
            !.trigger = IF @ = NoPrice THEN @ ELSE Quantize(@, PriceIncrement)]

NewOrder(r, status) ==
  [status |-> status, type |-> r.type, side |-> r.side, amount |-> r.amount,
   price |-> r.price, trigger |-> r.trigger, trail |-> r.trail,
   filled |-> 0, cost |-> 0, fee |-> 0]

\* Wrong variant, never used: a part of the fills looks like all of them.
UpdateAlwaysFilled(o, amount, cost, fee) ==
  [o EXCEPT !.filled = @ + amount, !.cost = @ + cost, !.fee = @ + fee, !.status = "FILLED"]

\* Wrong variant, never used: the order keeps the cost of its last fill only.
UpdateWithLastCost(o, amount, cost, fee) ==
  [o EXCEPT !.filled = @ + amount, !.cost = cost, !.fee = @ + fee,
            !.status = IF o.filled + amount >= o.amount
                       THEN "FILLED" ELSE "PARTIALLY_FILLED"]

\* Wrong variant, never used: an order filled to the last unit is not yet done.
UpdateBeyondAmount(o, amount, cost, fee) ==
  [o EXCEPT !.filled = @ + amount, !.cost = @ + cost, !.fee = @ + fee,
            !.status = IF o.filled + amount > o.amount
                       THEN "FILLED" ELSE "PARTIALLY_FILLED"]

\* update_with_fill: the status is overwritten whatever it was.
UpdateWithFill(o, amount, cost, fee) ==
  [o EXCEPT !.filled = @ + amount,
            !.cost   = @ + cost,
            !.fee    = @ + fee,
            !.status = IF o.filled + amount >= o.amount
                       THEN "FILLED" ELSE "PARTIALLY_FILLED"]

\* The price at which a BUY reserves quote currency.
CollateralPrice(o) ==
  IF IsConditional(o) /\ o.trigger # NoPrice THEN o.trigger ELSE o.price

\* Wrong variant, never used: a partial fill does not lower what is released.
CollateralOfWhole(o) == IF o.side = "BUY" THEN o.amount * CollateralPrice(o) ELSE o.amount

\* What an order reserves for the part of it that is not filled.
Collateral(o) ==
  IF o.side = "BUY" THEN Remaining(o) * CollateralPrice(o) ELSE Remaining(o)

CollateralCurrency(o) == IF o.side = "BUY" THEN "quote" ELSE "base"
=============================================================================
