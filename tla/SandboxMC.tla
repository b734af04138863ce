------------------------------ MODULE SandboxMC ------------------------------
(***************************************************************************)
(* A small instance of Sandbox: one exchange with a trade, and a candle    *)
(* with its snapshot at a later moment, the other with a snapshot between  *)
(* the two.                                                                *)
(***************************************************************************)
EXTENDS Sandbox, TLC

CONSTANTS near, far,                   \* exchanges
          trade, candle, drawn, other  \* events

MCEventIds == {trade, candle, drawn, other}

MCTimeOf == (trade :> 1) @@ (candle :> 3) @@ (drawn :> 3) @@ (other :> 2)

MCKindOf == (trade :> "TRADE") @@ (candle :> "CANDLE") @@ (drawn :> "SNAPSHOT") @@ (other :> "SNAPSHOT")

MCOwnerOf == [e \in MCEventIds |-> IF e = other THEN far ELSE near]

Show(low, high) == [p \in Prices |-> IF p = 1 THEN low ELSE high]

Sale == [level |-> 2, amount |-> 1, side |-> "BUY"]

MCDataOf ==
  (trade :> Sale) @@ (candle :> "no book")
    @@ (drawn :> [bids |-> Show(1, 0), asks |-> Show(0, 2)])
    @@ (other :> [bids |-> Show(0, 0), asks |-> Show(1, 2)])

MCSnapshotOf == candle :> drawn

MCTrades == {Sale}

MCDiffs == {[bids |-> << >>, asks |-> 1 :> 1]}

\* Files of up to three rows over two times, two pairs and both sides; a row's
\* price and quantity stand for the row.
Heads == [time : {1, 2}, pair : {"A-B", "C-B"}, side : {"bid", "ask"}]

Row(head, n) == [time |-> head.time, pair |-> head.pair, side |-> head.side, entry |-> n]

MCFiles ==
  {[i \in DOMAIN heads |-> Row(heads[i], i)] : heads \in UNION {[1 .. n -> Heads] : n \in 0 .. 3}}
=============================================================================
