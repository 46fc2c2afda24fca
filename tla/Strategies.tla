----------------------------- MODULE Strategies ----------------------------
(***************************************************************************)
(* The deterministic strategies (strategies/*.py): from a market, a book   *)
(* and a drawdown tier, the one trade proposed to Keel.                    *)
(*                                                                         *)
(* A book gives the share of NAV held in each token, in basis points.  A   *)
(* market gives a reading of the tokens the snapshot has and the           *)
(* competition allows; a book may hold others.  Prices and levels are      *)
(* whole units, 0 where CMC gave none; percentages are in basis points,    *)
(* scores in hundredths.  Ties go to a fixed token.                        *)
(***************************************************************************)
EXTENDS Keel, FiniteSetsExt, Functions

CONSTANTS
  Tokens,            \* the tokens a book may hold, Base apart
  MaxPosition,       \* the largest position each strategy aims at
  ReserveBps,        \* *_min_usdc_reserve_pct
  MinDriftBps,       \* min_drift_pct
  TrendThreshold,    \* trend_momentum_threshold
  Oversold, Overbought,        \* mean_reversion_rsi_*
  BufferBps,         \* breakout_pivot_buffer_pct
  Tier,              \* Tier[i]: momentum_tier<i>_drawdown_ratio
  Tier1Bps,          \* momentum_size_scale_tier1
  DqBps,             \* dq_drawdown_pct
  HighVolBps         \* ladder_volatility_threshold_pct

Strategy == {"momentum_rebalance", "trend_following", "mean_reversion",
             "volatility_target", "breakout"}

ASSUME StrategiesAssumption ==
  /\ Base \notin Tokens
  /\ MaxPosition \in [Strategy -> Bps]
  /\ ReserveBps \in Bps /\ MinDriftBps \in Nat \ {0}
  /\ TrendThreshold \in Nat /\ BufferBps \in Nat /\ DqBps \in Nat \ {0}
  /\ Oversold \in Nat /\ Overbought \in Nat
  /\ Tier1Bps \in Bps
  /\ Tier \in [1 .. 3 -> Nat] /\ Tier[1] <= Tier[2] /\ Tier[2] <= Tier[3]

\* What a market says of a token.
Reading ==
  [change : Int, rsi : 0 .. 100, macd : {"none", "up", "down"}, fear : 0 .. 100,
   price : Nat, ema20 : Nat, ema50 : Nat, s1 : Nat, s2 : Nat, r1 : Nat, r2 : Nat,
   fib : [{23, 38, 50, 61, 78} -> Nat]]

Hold == [token |-> Base, dir |-> "hold", bps |-> 0]
Propose(t, dir, bps) == [token |-> t, dir |-> dir, bps |-> bps]

\* Less than half a percent is not traded; from tier 1 on purchases are scaled
\* down.
LeastBps == 50
Scaled(bps, tier) == IF tier >= 1 THEN (bps * Tier1Bps) \div 10000 ELSE bps

Magnitude(x) == IF x < 0 THEN -x ELSE x
Between(lo, x, hi) == LargerOf(lo, LeastOf(x, hi))

\* A member of S where f is largest.
Best(S, f) == CHOOSE t \in S : \A u \in S : f[u] <= f[t]

Held(book) == {t \in Tokens : book[t] > 0}
SellLargest_Half(book, cap) ==     \* fault: half of a position is left
  IF Held(book) = {} THEN Hold
  ELSE LET t == Best(Held(book), book)
       IN Propose(t, "sell", LeastOf(cap, book[t] \div 2))
SellLargest(book, cap) ==
  IF Held(book) = {} THEN Hold
  ELSE LET t == Best(Held(book), book)
       IN Propose(t, "sell", LeastOf(cap, book[t]))

-----------------------------------------------------------------------------
(* compute_diagnostics. *)

\* The tier of a drawdown: its share of the one that disqualifies.
TierOf(drawdown) ==
  LET ratio == (drawdown * 10000) \div DqBps
  IN Cardinality({i \in 1 .. 3 : ratio >= Tier[i]})

\* macd says on which side of its signal line it is, if both are known.
MacdPoints(f) == CASE f.macd = "none" -> 0 [] f.macd = "up" -> 80 [] OTHER -> -80
EmaPoints(f) == IF f.ema20 = 0 \/ f.price = 0 THEN 0
                ELSE IF f.price > f.ema20 THEN 60 ELSE -60
RsiPoints(f) == IF f.rsi < 35 THEN LeastOf(120, ((35 - f.rsi) * 100) \div 15)
                ELSE IF f.rsi > 70 THEN -LeastOf(120, ((f.rsi - 70) * 100) \div 15)
                ELSE 0
FearPoints(f) == IF f.fear < 25 THEN 40 ELSE IF f.fear > 75 THEN -40 ELSE 0

Score(f) == Between(-200, f.change \div 4, 200)
            + MacdPoints(f) + EmaPoints(f) + RsiPoints(f) + FearPoints(f)

\* Target weights: the share of the budget each positive score earns.
Weights(market) ==
  LET positive == [t \in DOMAIN market |-> LargerOf(0, Score(market[t]))]
      total == LargerOf(1, SumFunction(positive))
  IN [t \in DOMAIN market |-> LeastOf(MaxPosition["momentum_rebalance"],
                                      ((10000 - ReserveBps) * positive[t]) \div total)]

-----------------------------------------------------------------------------
(* momentum_rebalance. *)

Weak(market) == \A t \in DOMAIN market : Score(market[t]) <= 0

Drifts(targets, book) == [t \in DOMAIN targets |-> targets[t] - book[t]]
Sizes(drifts) == [t \in DOMAIN drifts |-> Magnitude(drifts[t])]

\* The token that has drifted most, if purchases are not suppressed and the
\* drift is worth a trade.
Rebalance_AlwaysMax(market, book, tier) ==     \* fault: always a largest trade
  LET drifts == Drifts(Weights(market), book)
      t == Best(DOMAIN market, Sizes(drifts))
  IN IF drifts[t] > 0 THEN IF tier >= 2 THEN Hold ELSE Propose(t, "buy", MaxTradeBps)
     ELSE Propose(t, "sell", MaxTradeBps)
Rebalance(market, book, tier) ==
  LET drifts == Drifts(Weights(market), book)
      t == Best(DOMAIN market, Sizes(drifts))
      size == Scaled(LeastOf(MaxTradeBps, Magnitude(drifts[t])), tier)
  IN IF Magnitude(drifts[t]) <= MinDriftBps \/ (drifts[t] > 0 /\ tier >= 2)
        \/ (tier >= 1 /\ size < LeastBps)
     THEN Hold
     ELSE Propose(t, IF drifts[t] > 0 THEN "buy" ELSE "sell", size)

Momentum(market, book, tier) ==
  IF tier = 3 THEN SellLargest(book, MaxTradeBps \div 2)
  ELSE IF Weak(market) THEN SellLargest(book, MaxTradeBps)
  ELSE Rebalance(market, book, tier)

-----------------------------------------------------------------------------
(* trend_following. *)

Ema(f) == IF f.ema50 > 0 THEN f.ema50 ELSE f.ema20
Trending(market) ==
  {t \in DOMAIN market : Score(market[t]) > TrendThreshold
                         /\ market[t].price >= Ema(market[t])}

\* Every trending token gets the same share.
TrendTarget(n) == LeastOf(MaxPosition["trend_following"], (10000 - ReserveBps) \div n)

\* Purchases of trending tokens that are underweight; sales of held tokens
\* that do not trend.
Buys(trending, book, tier) ==
  LET drift == [t \in trending |-> TrendTarget(Cardinality(trending)) - book[t]]
      size == [t \in trending |-> Scaled(LeastOf(MaxTradeBps, drift[t]), tier)]
  IN {Propose(t, "buy", size[t]) : t \in {u \in trending :
        drift[u] > MinDriftBps /\ size[u] >= LeastBps}}
Exits(trending, book) ==
  {c \in {Propose(t, "sell", LeastOf(MaxTradeBps, book[t])) : t \in Held(book) \ trending} :
     c.bps >= MinDriftBps}

Trend(market, book, tier) ==
  LET trending == Trending(market)
      buys == Buys(trending, book, tier)
      exits == Exits(trending, book)
  IN IF tier = 3 \/ trending = {} THEN SellLargest(book, MaxTradeBps)
     ELSE IF tier = 2 THEN Hold
     ELSE IF buys # {} THEN
       CHOOSE c \in buys : \A d \in buys : Score(market[d.token]) <= Score(market[c.token])
     ELSE IF exits # {} THEN CHOOSE c \in exits : TRUE
     ELSE Hold

-----------------------------------------------------------------------------
(* mean_reversion and breakout: the strongest signal to buy, else the      *)
(* strongest to sell.  Signals are functions from tokens to strengths.     *)

\* The levels of a reading that CMC gave.
Known(levels) == {v \in Range(levels) : v > 0}

Enough(bps) == bps >= LeastBps /\ bps >= MinDriftBps

\* A purchase up to the largest position, a sale of the whole one, and
\* nothing where the trade is too small.
SignalTrade_PastCap(name, buys, sells, book, tier) ==   \* fault: the position held is ignored
  LET b == Best(DOMAIN buys, buys)
      s == Best(DOMAIN sells, sells)
      buy == Scaled(LeastOf(MaxPosition[name], MaxTradeBps), tier)
      sell == LeastOf(book[s], MaxTradeBps)
  IN IF tier = 3 THEN SellLargest(book, MaxTradeBps)
     ELSE IF tier < 2 /\ DOMAIN buys # {} /\ Enough(buy) THEN Propose(b, "buy", buy)
     ELSE IF DOMAIN sells # {} /\ Enough(sell) THEN Propose(s, "sell", sell)
     ELSE Hold
SignalTrade_AnyTier(name, buys, sells, book, tier) ==   \* fault: tier 2 suppresses nothing
  LET b == Best(DOMAIN buys, buys)
      buy == LeastOf(MaxPosition[name] - book[b], MaxTradeBps)
  IN IF DOMAIN buys # {} /\ Enough(buy) THEN Propose(b, "buy", buy) ELSE Hold
SignalTrade(name, buys, sells, book, tier) ==
  LET b == Best(DOMAIN buys, buys)
      s == Best(DOMAIN sells, sells)
      buy == Scaled(LeastOf(MaxPosition[name] - book[b], MaxTradeBps), tier)
      sell == LeastOf(book[s], MaxTradeBps)
  IN IF tier = 3 THEN SellLargest(book, MaxTradeBps)
     ELSE IF tier < 2 /\ DOMAIN buys # {} /\ Enough(buy) THEN Propose(b, "buy", buy)
     ELSE IF DOMAIN sells # {} /\ Enough(sell) THEN Propose(s, "sell", sell)
     ELSE Hold

Support(f) == Known(<<f.s1, f.s2, f.fib[61], f.fib[78]>>)
Resistance(f) == Known(<<f.r1, f.r2, f.fib[23], f.fib[38]>>)

\* Oversold within one percent of the highest support or below it; if not
\* oversold, overbought within one percent of the lowest resistance or above it.
Cheap(market) ==
  {t \in DOMAIN market :
     LET f == market[t] IN
     /\ f.rsi < Oversold /\ Support(f) # {}
     /\ 100 * f.price <= 101 * Max(Support(f))}
Dear(market) ==
  {t \in DOMAIN market :
     LET f == market[t] IN
     /\ f.rsi >= Oversold /\ f.rsi > Overbought /\ Resistance(f) # {}
     /\ 100 * f.price >= 99 * Min(Resistance(f))}

MeanReversion(market, book, tier) ==
  SignalTrade("mean_reversion", [t \in Cheap(market) |-> Oversold - market[t].rsi],
              [t \in Dear(market) |-> market[t].rsi - Overbought], book, tier)

\* The levels of a reading in the order they are tried, and which of them the
\* price has broken, up or down, by more than the buffer.
UpLevels(f) == <<f.r1, f.r2, f.fib[61], f.fib[78]>>
DownLevels(f) == <<f.s1, f.s2, f.fib[38], f.fib[50]>>
Broken(f) == {i \in 1 .. 4 : UpLevels(f)[i] > 0
                             /\ 10000 * f.price > UpLevels(f)[i] * (10000 + BufferBps)}
Lost(f) == {i \in 1 .. 4 : DownLevels(f)[i] > 0
                           /\ 10000 * f.price < DownLevels(f)[i] * (10000 - BufferBps)}

\* How far beyond the first of them.
Beyond(price, levels, passed) ==
  LET v == levels[Min(passed)] IN (Magnitude(price - v) * 10000) \div v

Escaped(market) ==
  {t \in DOMAIN market : /\ market[t].price > 0 /\ Broken(market[t]) # {}
                         /\ market[t].rsi < 75 /\ market[t].macd = "up"}
Sinking(market) ==
  {t \in DOMAIN market : /\ market[t].price > 0 /\ Lost(market[t]) # {}
                         /\ market[t].macd = "down"}

Breakout(market, book, tier) ==
  LET up(t) == Beyond(market[t].price, UpLevels(market[t]), Broken(market[t]))
      down(t) == Beyond(market[t].price, DownLevels(market[t]), Lost(market[t]))
  IN SignalTrade("breakout", [t \in Escaped(market) |-> up(t)],
                 [t \in Sinking(market) \cap Held(book) |-> down(t)], book, tier)

-----------------------------------------------------------------------------
(* volatility_target: the inverse of each token's volatility, from the     *)
(* pivots or the day's change, shares out the whole budget; no database is *)
(* passed, so the realized volatility is never used.                       *)

\* sqrt(365) is 19.1.  A change of zero counts as one percent.
VolProxy(f) ==
  LET daily == IF f.r1 > 0 /\ f.s1 > 0 /\ f.price > 0
               THEN ((f.r1 - f.s1) * 10000) \div f.price
               ELSE IF f.change = 0 THEN 100 ELSE Magnitude(f.change)
  IN LargerOf(100, (daily * 191) \div 10)

VolTargets(market) ==
  LET budget == 10000 - ReserveBps
      inverse == [t \in DOMAIN market |-> 1000000 \div VolProxy(market[t])]
      total == LargerOf(1, SumFunction(inverse))
      capped == [t \in DOMAIN market |->
                   LeastOf((budget * inverse[t]) \div total, MaxPosition["volatility_target"])]
      all == LargerOf(1, SumFunction(capped))
  IN [t \in DOMAIN market |-> (capped[t] * budget) \div all]

VolatilityTarget(market, book, tier) ==
  LET drifts == Drifts(VolTargets(market), book)
      buys == {t \in DOMAIN market : drifts[t] > MinDriftBps}
      sells == {t \in DOMAIN market : drifts[t] < -MinDriftBps}
      b == Best(buys, drifts)
      s == Best(sells, Sizes(drifts))
      buy == Scaled(LeastOf(drifts[b], MaxTradeBps), tier)
      sell == LeastOf(-drifts[s], MaxTradeBps)
  IN IF tier = 3 THEN SellLargest(book, MaxTradeBps)
     ELSE IF tier < 2 /\ buys # {} /\ buy >= LeastBps THEN Propose(b, "buy", buy)
     ELSE IF sells # {} /\ (tier = 2 \/ sell >= LeastBps) THEN Propose(s, "sell", sell)
     ELSE Hold

-----------------------------------------------------------------------------
(* The dispatcher: generate, resolve and choose_strategy_auto.             *)

Mean(f) == SumFunction(f) \div LargerOf(1, Cardinality(DOMAIN f))

\* Averages over the tokens of the snapshot; none at all reads as an RSI of 0.
ChooseStrategyAuto(market) ==
  LET rsi == Mean([t \in DOMAIN market |-> market[t].rsi])
      vol == Mean([t \in DOMAIN market |-> Magnitude(market[t].change)])
      broken == \E t \in DOMAIN market :
                  /\ market[t].price > 0 /\ market[t].r1 > 0
                  /\ 10000 * market[t].price > market[t].r1 * (10000 + BufferBps)
  IN IF broken /\ rsi < 75 THEN "breakout"
     ELSE IF rsi < 35 \/ rsi > 68 THEN "mean_reversion"
     ELSE IF vol >= HighVolBps THEN "volatility_target"
     ELSE "momentum_rebalance"

\* A name the registry does not know is momentum_rebalance.
Resolved(name, market) ==
  LET chosen == IF name = "auto" THEN ChooseStrategyAuto(market) ELSE name
  IN IF chosen \in Strategy THEN chosen ELSE "momentum_rebalance"

Decide(name, market, book, tier) ==
  CASE Resolved(name, market) = "momentum_rebalance" -> Momentum(market, book, tier)
    [] Resolved(name, market) = "trend_following"    -> Trend(market, book, tier)
    [] Resolved(name, market) = "mean_reversion"     -> MeanReversion(market, book, tier)
    [] Resolved(name, market) = "volatility_target"  -> VolatilityTarget(market, book, tier)
    [] Resolved(name, market) = "breakout"           -> Breakout(market, book, tier)
=============================================================================
