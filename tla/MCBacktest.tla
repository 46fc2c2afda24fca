----------------------------- MODULE MCBacktest ----------------------------
(* Both replays of track2 over one series of bars: the grid trades ETH. *)
EXTENDS Backtest, GridBacktest, TLC

CONSTANTS ETH, LINK

Reading(p, rsi, macd, ema, fear, change) ==
  [price |-> p, rsi |-> rsi, macd |-> macd, ema |-> ema, fear |-> fear, change |-> change]

\* A purchase, a purchase from the other token, a sale after a fall, a sale
\* after a rise, nothing to do, a price that is missing, and no token at all.
MCBars ==
  { (ETH :> Reading(10000, 25, "bull", 9500, 50, 0)) @@ (LINK :> Reading(100, 50, "none", 0, 50, 0)),
    (ETH :> Reading(9700, 50, "bear", 9900, 50, -600)) @@ (LINK :> Reading(90, 20, "none", 0, 20, 0)),
    (ETH :> Reading(8000, 75, "bear", 9500, 50, -600)),
    (ETH :> Reading(10300, 50, "none", 0, 50, 400)) @@ (LINK :> Reading(20, 80, "bear", 60, 80, -600)),
    (ETH :> Reading(10150, 50, "none", 10000, 50, 100)) @@ (LINK :> Reading(0, 20, "bull", 90, 20, 0)),
    (ETH :> Reading(9850, 20, "bull", 0, 20, 0)) @@ (LINK :> Reading(120, 75, "none", 0, 80, 0)),
    <<>> }

PriceOf(b) == IF ETH \in DOMAIN b THEN b[ETH].price ELSE price

MCInit == Init /\ GridInit
MCNext == \E b \in Bars : Replay(b) /\ GridReplay(PriceOf(b))
MCSpec == MCInit /\ [][MCNext]_<<vars, gridVars>>
=============================================================================
