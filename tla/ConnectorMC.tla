---------------------------- MODULE ConnectorMC -----------------------------
(***************************************************************************)
(* A small instance of Connector.                                          *)
(***************************************************************************)
EXTENDS Connector, ExchangeMC

\* A sale that fills in two parts, a purchase, a stop, and a stop of a type
\* the connector has no name for.
ConnectorRequests ==
  {Plain("LIMIT", "SELL", 4, 1), Plain("MARKET", "BUY", 2, 0),
   Stop("STOP_LOSS", "SELL", 2, 1), Stop("STOP_LOSS_LIMIT", "SELL", 2, 1)}
=============================================================================
