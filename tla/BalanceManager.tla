--------------------------- MODULE BalanceManager ---------------------------
(***************************************************************************)
(* simulator/balance_manager.py: what each call makes of the balances of   *)
(* the two currencies of a pair. "held" says that the manager has an entry *)
(* for the currency. Nothing here keeps an amount from going below zero.   *)
(***************************************************************************)
EXTENDS Integers, Sums

Currencies == {"base", "quote"}

TokenBalance == [held : BOOLEAN, total : Int, locked : Int]

Available(b) == b.total - b.locked

\* Wrong variant, never used: what other orders have locked is offered again.
CanLockTotal(bals, c, amount) == bals[c].held /\ bals[c].total >= amount

\* lock_collateral returns False without an entry or with too little available.
CanLock(bals, c, amount) == bals[c].held /\ Available(bals[c]) >= amount

LockCollateral(bals, c, amount) == [bals EXCEPT ![c].locked = @ + amount]

\* release_collateral never leaves less than zero locked.
ReleaseCollateral(bals, c, amount) ==
  IF bals[c].held
  THEN [bals EXCEPT ![c].locked = Higher(0, @ - amount)]
  ELSE bals

\* Wrong variant, never used: a fill takes the total and forgets the lock.
ApplyFillKeepsLock(bals, side, amount, cost, fee) ==
  LET sign == IF side = "BUY" THEN 1 ELSE -1
  IN  [c \in Currencies |->
         [held   |-> TRUE,
          total  |-> bals[c].total
                       + (IF c = "base" THEN sign * amount ELSE -sign * cost - Higher(0, fee)),
          locked |-> bals[c].locked]]

\* Wrong variant, never used: the fee of a purchase leaves the lock as well.
ApplyFillUnlocksFee(bals, side, amount, cost, fee) ==
  LET sign == IF side = "BUY" THEN 1 ELSE -1
  IN  [c \in Currencies |->
         [held   |-> TRUE,
          total  |-> bals[c].total
                       + (IF c = "base" THEN sign * amount ELSE -sign * cost - Higher(0, fee)),
          locked |-> bals[c].locked
                       - (IF c = "quote" /\ side = "BUY" THEN cost + Higher(0, fee)
                          ELSE IF c = "base" /\ side = "SELL" THEN amount ELSE 0)]]

\* Wrong variant, never used: a sale is credited without its fee.
ApplyFillWaivesSaleFee(bals, side, amount, cost, fee) ==
  LET sign == IF side = "BUY" THEN 1 ELSE -1
  IN  [c \in Currencies |->
         [held   |-> TRUE,
          total  |-> bals[c].total
                       + (IF c = "base" THEN sign * amount
                          ELSE -sign * cost - (IF side = "BUY" THEN Higher(0, fee) ELSE 0)),
          locked |-> bals[c].locked
                       - (IF c = "quote" /\ side = "BUY" THEN cost
                          ELSE IF c = "base" /\ side = "SELL" THEN amount ELSE 0)]]

\* apply_fill: the whole value of the fill leaves locked and total of the
\* currency that is given; the fee leaves only the total of quote.
ApplyFill(bals, side, amount, cost, fee) ==
  LET given    == IF side = "BUY" THEN "quote" ELSE "base"
      received == IF side = "BUY" THEN "base" ELSE "quote"
      out      == IF side = "BUY" THEN cost ELSE amount
      in       == IF side = "BUY" THEN amount ELSE cost
      charge   == Higher(0, fee)
  IN  [c \in Currencies |->
         [held   |-> TRUE,
          total  |-> bals[c].total
                       + (IF c = received THEN in ELSE 0)
                       - (IF c = given THEN out ELSE 0)
                       - (IF c = "quote" THEN charge ELSE 0),
          locked |-> bals[c].locked - (IF c = given THEN out ELSE 0)]]
=============================================================================
