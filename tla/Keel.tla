------------------------------- MODULE Keel --------------------------------
(***************************************************************************)
(* Keel's verdict on one proposed trade (risk.evaluate), as a function of  *)
(* the candidate, of the portfolio it is shown and of the drawdown gate.   *)
(* The per-token cooldown, which needs a memory, is in AgentLoop.          *)
(*                                                                         *)
(* Amounts are whole cents at fixed prices, percentages are in basis       *)
(* points, and a share of an amount is rounded down to the cent.           *)
(***************************************************************************)
EXTENDS Integers

CONSTANTS
  Base,              \* cfg.base_token, the one stablecoin held (USDC)
  MaxTradeBps,       \* max_trade_size_pct
  MaxRiskOnBps,      \* max_risk_on_exposure_pct
  MaxTokenBps,       \* max_single_token_exposure_pct (0: no such cap)
  MinNotional        \* min_trade_notional_usd

Bps == 0 .. 10000   \* the percentages a setting may have

ASSUME KeelAssumption ==
  /\ MaxTradeBps \in Bps /\ MaxRiskOnBps \in Bps /\ MaxTokenBps \in Bps
  /\ MinNotional \in Nat

Share(nav, bps) == (nav * bps) \div 10000
LeastOf(a, b) == IF a <= b THEN a ELSE b
LargerOf(a, b) == IF a >= b THEN a ELSE b

\* A portfolio as evaluate is shown it: nav, and the USD value of each asset.
RiskOn(view) == view.nav - view.held[Base]

\* The notional after the per-trade cap.
Asked(c, view) == Share(view.nav, LeastOf(c.bps, MaxTradeBps))

\* What the exposure cap leaves, and whether the trade would exceed it.
Headroom(view) == Share(view.nav, MaxRiskOnBps) - RiskOn(view)
OverCap_NoTrade(c, view) ==      \* fault: current, not projected, exposure
  10000 * RiskOn(view) > MaxRiskOnBps * view.nav
OverCap(c, view) ==
  10000 * (RiskOn(view) + Asked(c, view)) > MaxRiskOnBps * view.nav

\* The notional of the verdict, in which a trade over the cap is resized.
Notional(c, view) ==
  IF c.dir = "buy" /\ OverCap(c, view) THEN Headroom(view) ELSE Asked(c, view)

\* A headroom of less than one percent, a token at its cap and a trade that
\* would be dust are rejected; in hard de-risk every trade is.
Approved_Dust(c, view, derisk) ==      \* fault: dust is traded
  /\ view.nav > 0
  /\ ~derisk
  /\ c.dir = "buy" =>
       /\ OverCap(c, view) =>
            MaxRiskOnBps * view.nav - 10000 * RiskOn(view) >= 100 * view.nav
       /\ MaxTokenBps > 0 => 10000 * view.held[c.token] < MaxTokenBps * view.nav
Approved(c, view, derisk) ==
  /\ view.nav > 0
  /\ ~derisk
  /\ c.dir = "buy" =>
       /\ OverCap(c, view) =>
            MaxRiskOnBps * view.nav - 10000 * RiskOn(view) >= 100 * view.nav
       /\ MaxTokenBps > 0 => 10000 * view.held[c.token] < MaxTokenBps * view.nav
  /\ Notional(c, view) >= MinNotional
=============================================================================
