---------------------------- MODULE MCRebalance ----------------------------
(* Small instances of Rebalance for TLC: three tokens in five markets. *)
EXTENDS Rebalance, TLC

CONSTANTS ETH, CAKE, XRP

NoFib == [l \in {23, 38, 50, 61, 78} |-> 0]

\* A score of 25, neither weak nor trending, between its pivots.
Flat == [change |-> 100, rsi |-> 50, macd |-> "none", fear |-> 50, price |-> 1000,
         ema20 |-> 0, ema50 |-> 0, s1 |-> 900, s2 |-> 0, r1 |-> 1100, r2 |-> 0, fib |-> NoFib]
Rising == [Flat EXCEPT !.change = 400, !.macd = "up", !.ema20 = 900, !.ema50 = 950]
Falling == [Flat EXCEPT !.change = -500, !.macd = "down", !.ema20 = 1100]
Breaking == [Rising EXCEPT !.price = 1200, !.fib[61] = 1150, !.rsi = 60]
Crashing == [Falling EXCEPT !.price = 800, !.rsi = 25, !.fear = 20]
Hot == [Rising EXCEPT !.price = 1095, !.rsi = 80, !.fear = 80]

MCMarkets ==
  { (ETH :> Rising) @@ (CAKE :> Rising) @@ (XRP :> Falling),
    [t \in {ETH, CAKE, XRP} |-> Falling],
    (ETH :> Breaking) @@ (CAKE :> Crashing) @@ (XRP :> Flat),
    (ETH :> Hot) @@ (CAKE :> Hot) @@ (XRP :> Crashing),
    (CAKE :> Flat) @@ (XRP :> Rising) }

MCBooks ==
  { (ETH :> 0) @@ (CAKE :> 0) @@ (XRP :> 0),
    (ETH :> 400) @@ (CAKE :> 2000) @@ (XRP :> 2600),
    (ETH :> 3300) @@ (CAKE :> 0) @@ (XRP :> 900) }

MCCash == {[t \in {ETH, CAKE, XRP} |-> 0]}

MCMaxPosition ==
  [n \in Strategy |-> CASE n \in {"momentum_rebalance", "trend_following"} -> 3000
                        [] n \in {"mean_reversion", "breakout"} -> 2000
                        [] n = "volatility_target" -> 2500]
MCTier == <<7000, 8500, 9500>>
MCNames == Strategy \cup {"auto"}
=============================================================================
