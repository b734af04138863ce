---------------------------- MODULE SimulationMC ----------------------------
(***************************************************************************)
(* A small instance of Simulation, and the series its metrics are checked  *)
(* on.                                                                     *)
(***************************************************************************)
EXTENDS Simulation, ExchangeMC

\* A sale that fills in two parts, a purchase and a stop.
RunRequests ==
  {Plain("LIMIT", "SELL", 4, 1), Plain("LIMIT", "BUY", 2, 3), Plain("MARKET", "SELL", 2, 0),
   Stop("STOP_LOSS", "SELL", 2, 1)}

\* The metrics are compared on every series of two to five values from -2 to 2.
RunLengths == 2 .. 5

RunValues == -2 .. 2
=============================================================================
