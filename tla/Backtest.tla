------------------------------ MODULE Backtest -----------------------------
(***************************************************************************)
(* The replay of the rotation Skill (track2/backtest.py, track2/skill.py): *)
(* one step per bar, with the caps it says it shares with Keel.            *)
(*                                                                         *)
(* NAV begins at Start; a quantity is in units of 1/Unit of a token, its   *)
(* value rounded down.  Sizes are in basis points of NAV, and compared     *)
(* after they are multiplied by it, so that they stay exact.  A reading    *)
(* that CMC did not give is neutral.                                       *)
(***************************************************************************)
EXTENDS Keel, FiniteSetsExt, Functions

CONSTANTS
  Tokens,            \* TOKENS of skill.py
  Bars,              \* the bars there may be: readings of some of the tokens
  MaxBars,           \* bound: the bars replayed
  HardBps            \* HARD_DERISK_PCT

\* macd is "bull" above its signal line and above zero, "bear" below both.
TokenFeatures ==
  [price : Nat, rsi : 0 .. 100, macd : {"bull", "bear", "none"}, ema : Nat,
   fear : 0 .. 100, change : Int]

ASSUME BacktestAssumption ==
  /\ Base \notin Tokens /\ IsFiniteSet(Tokens)
  /\ \A b \in Bars : DOMAIN b \subseteq Tokens /\ b \in [DOMAIN b -> TokenFeatures]
  /\ MaxBars \in Nat /\ HardBps \in Bps
  /\ MaxTokenBps = 0       \* the replay has no cap per token

Start == 10000
Unit == 10000
DefaultBps == 1500   \* DEFAULT_SIZE_PCT
Cost(usd) == (usd * 30) \div 10000

VARIABLES
  bar,               \* the bars replayed so far
  prices, cash, qty, \* the SimPortfolio
  peak,
  reported           \* max_drawdown

vars == <<bar, prices, cash, qty, peak, reported>>

Values(q, p) == [t \in Tokens |-> (q[t] * p[t]) \div Unit]
Nav(c, q, p) == c + SumFunction(Values(q, p))

Drawdown(top, nav) == ((top - nav) * 10000) \div top

TypeOK ==
  /\ bar \in 0 .. MaxBars
  /\ prices \in [Tokens -> Nat] /\ qty \in [Tokens -> Nat]
  /\ cash \in Nat
  /\ peak \in Nat /\ peak >= Nav(cash, qty, prices)
  /\ reported \in Bps

-----------------------------------------------------------------------------
(* The Skill. *)

Signal(holds, n) == IF holds THEN n ELSE 0

TokenScore(f) ==
    Signal(f.rsi < 30, 100) - Signal(f.rsi > 70, 100)
  + Signal(f.macd = "bull", 50) - Signal(f.macd = "bear", 50)
  + Signal(f.ema > 0 /\ f.price > f.ema, 50)
  - Signal(f.ema > 0 /\ f.price > 0 /\ f.price <= f.ema, 50)
  + Signal(f.fear < 25, 100) - Signal(f.fear > 75, 50)
  + Signal(f.change > 300, 25) - Signal(f.change < -500, 25)

Confluence(f) == LargerOf(TokenScore(f), -TokenScore(f))

\* The strongest signal, if one is strong enough.  Ties go to a fixed token.
Evaluate(b) ==
  LET signals == {t \in DOMAIN b : Confluence(b[t]) >= 100}
      best == CHOOSE t \in signals : \A u \in signals : Confluence(b[u]) <= Confluence(b[t])
  IN IF signals = {} THEN [token |-> Base, dir |-> "hold"]
     ELSE [token |-> best, dir |-> IF TokenScore(b[best]) > 0 THEN "buy" ELSE "sell"]

-----------------------------------------------------------------------------
(* A bar of run_backtest. *)

\* size_pct after the caps, times NAV.
Capped == LeastOf(DefaultBps, MaxTradeBps)
SizeN_Current(dir, nav, c) ==    \* fault: current, not projected, exposure
  IF dir = "buy" /\ 10000 * (nav - c) > MaxRiskOnBps * nav THEN 0 ELSE Capped * nav
SizeN_Dropped(dir, nav, c) ==    \* fault: a trade over the cap is not resized
  IF dir = "buy" /\ 10000 * (nav - c) + Capped * nav > MaxRiskOnBps * nav
  THEN 0 ELSE Capped * nav
SizeN(dir, nav, c) ==
  IF dir = "buy" /\ 10000 * (nav - c) + Capped * nav > MaxRiskOnBps * nav
  THEN LargerOf(0, MaxRiskOnBps * nav - 10000 * (nav - c))
  ELSE Capped * nav

TradeUsd(dir, nav, c) ==
  LET n == SizeN(dir, nav, c) IN IF n < 100 * nav THEN 0 ELSE n \div 10000

\* Prices a bar does not give stay; one it gives as missing is zero.
PricesAfter(b) == [t \in Tokens |-> IF t \in DOMAIN b THEN b[t].price ELSE prices[t]]
Top_Kept(nav) == peak            \* fault: a new high is not the peak
Top(nav) == LargerOf(peak, nav)
Stopped(nav) == 10000 * (Top(nav) - nav) >= HardBps * Top(nav)

\* A bar without a token of the Skill is skipped before anything else.
Skip(b) ==
  /\ DOMAIN b = {}
  /\ UNCHANGED <<prices, cash, qty, peak, reported>>

\* Nothing is traded past the hard de-risk drawdown, on a hold, for less than
\* one percent, without a price, or where there is nothing to sell.
Traded(b, nav) ==
  LET a == Evaluate(b) IN
  /\ ~Stopped(nav)
  /\ a.dir # "hold"
  /\ TradeUsd(a.dir, nav, cash) > 0
  /\ b[a.token].price > 0
  /\ a.dir = "sell" => qty[a.token] > 0

Mark(b) ==
  LET nav == Nav(cash, qty, PricesAfter(b)) IN
  /\ DOMAIN b # {} /\ ~Traded(b, nav)
  /\ prices' = PricesAfter(b)
  /\ peak' = Top(nav)
  /\ UNCHANGED <<cash, qty, reported>>

\* A purchase is of the size; a sale is of the whole position.  The drawdown
\* is looked at only here, after a trade.
Trade(b) ==
  LET nav == Nav(cash, qty, PricesAfter(b))
      a == Evaluate(b)
      price == b[a.token].price
      usd == TradeUsd(a.dir, nav, cash)
      proceeds == (qty[a.token] * price) \div Unit
  IN
  /\ DOMAIN b # {} /\ Traded(b, nav)
  /\ prices' = PricesAfter(b)
  /\ IF a.dir = "buy"
     THEN /\ cash' = cash - usd
          /\ qty' = [qty EXCEPT ![a.token] = @ + ((usd - Cost(usd)) * Unit) \div price]
     ELSE /\ cash' = cash + proceeds - Cost(proceeds)
          /\ qty' = [qty EXCEPT ![a.token] = 0]
  /\ peak' = Top(nav)
  /\ reported' = LargerOf(reported, Drawdown(peak', Nav(cash, qty, prices)'))

Replay(b) == bar < MaxBars /\ bar' = bar + 1 /\ (Skip(b) \/ Mark(b) \/ Trade(b))

Init ==
  /\ bar = 0
  /\ prices = [t \in Tokens |-> 0] /\ qty = [t \in Tokens |-> 0]
  /\ cash = Start /\ peak = Start
  /\ reported = 0

Next == \E b \in Bars : Replay(b)

Spec == Init /\ [][Next]_vars

-----------------------------------------------------------------------------
(* Safety. *)

View == [nav |-> Nav(cash, qty, prices),
         held |-> [a \in Tokens \cup {Base} |->
                     IF a = Base THEN cash ELSE Values(qty, prices)[a]]]

\* The sizing of purchases is Keel's, written twice: in every portfolio the
\* replay reaches it buys exactly what Keel, without a cap per token, would
\* approve (backtest.py:121-136, risk.py:40-115).
KeelAgrees ==
  LET nav == View.nav
      derisk == Stopped(nav)
  IN \A t \in Tokens :
       LET c == [token |-> t, dir |-> "buy", bps |-> DefaultBps]
           usd == IF nav > 0 /\ ~derisk THEN TradeUsd("buy", nav, cash) ELSE 0
       IN IF Approved(c, View, derisk) THEN usd = Notional(c, View) ELSE usd = 0

\* No purchase ends above the exposure cap, its cost included.
BuysWithinCap ==
  [][cash' < cash =>
       10000 * RiskOn(View)' <= MaxRiskOnBps * View.nav']_vars
=============================================================================
