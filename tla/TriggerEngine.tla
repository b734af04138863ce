---------------------------- MODULE TriggerEngine ---------------------------
(***************************************************************************)
(* simulator/trigger_engine.py, StandardTriggerEngine: whether a           *)
(* conditional order fires on the best prices of the book, and what        *)
(* becomes of its trailing reference (NoPrice: the engine keeps none).     *)
(***************************************************************************)
EXTENDS OrderBook

\* BUY: the ask rose to the stop; SELL: the bid dropped to it.
StopLossFires(o, touch) ==
  /\ o.trigger # NoPrice
  /\ touch # NoPrice
  /\ IF o.side = "BUY" THEN touch >= o.trigger ELSE touch <= o.trigger

TakeProfitFires(o, touch) ==
  /\ o.trigger # NoPrice
  /\ touch # NoPrice
  /\ IF o.side = "BUY" THEN touch <= o.trigger ELSE touch >= o.trigger

\* Wrong variant, never used: the reference follows the market both ways.
TrailingReferenceBothWays(o, touch, ref) ==
  IF o.trail <= 0 \/ touch = NoPrice THEN ref ELSE touch

\* The reference after this evaluation: taken from the trigger price, else
\* from the market, the first time, then following the market one way only.
TrailingReference(o, touch, ref) ==
  LET start == IF ref # NoPrice THEN ref
               ELSE IF o.trigger # NoPrice THEN o.trigger ELSE touch
  IN  IF o.trail <= 0 \/ touch = NoPrice THEN ref
      ELSE IF o.side = "BUY" THEN Lower(start, touch) ELSE Higher(start, touch)

TrailingStopFires(o, touch, ref) ==
  /\ o.trail > 0
  /\ touch # NoPrice
  /\ LET followed == TrailingReference(o, touch, ref)
     IN  IF o.side = "BUY"
         THEN touch >= followed + o.trail
         ELSE touch <= followed - o.trail

Fires(o, book, ref) ==
  LET touch == Touch(book, o.side)
  IN  \/ o.type \in {"STOP_LOSS", "STOP_LOSS_LIMIT"} /\ StopLossFires(o, touch)
      \/ o.type \in {"TAKE_PROFIT", "TAKE_PROFIT_LIMIT"} /\ TakeProfitFires(o, touch)
      \/ o.type = "TRAILING_STOP" /\ TrailingStopFires(o, touch, ref)

\* evaluate() writes the reference whether or not the order fires.
Evaluated(o, book, ref) ==
  IF o.type = "TRAILING_STOP" THEN TrailingReference(o, Touch(book, o.side), ref) ELSE ref
=============================================================================
