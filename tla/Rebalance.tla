----------------------------- MODULE Rebalance -----------------------------
(***************************************************************************)
(* A strategy (Strategies) and Keel, tick after tick on one book: what the *)
(* proposals add up to.  Between two ticks the market may move, MaxMoves   *)
(* times, and then stays calm; the drawdown is the present fall from the   *)
(* peak (DrawdownGate), and moves with it.                                 *)
(*                                                                         *)
(* NAV is 10000 units throughout, swaps lose nothing and settle within the *)
(* tick, and there is no cooldown: what settling and failing swaps do is   *)
(* the subject of Exposure, what the cooldown does of AgentLoop.           *)
(***************************************************************************)
EXTENDS Strategies

CONSTANTS
  Names,             \* the settings of cfg.strategy
  Markets,           \* the markets there may be
  Books,             \* the books to begin with
  Drawdowns,         \* the drawdowns, in basis points, that are reached
  HardDeriskBps,     \* hard_derisk_drawdown_pct
  UnitPrices,        \* what a unit of a token is worth, in cents, when the market has
                     \* no price for it and get_portfolio found one of its own,
  LeastUnit,         \* and no less than this
  MaxMoves           \* bound: the moves of the market

ASSUME RebalanceAssumption ==
  /\ Drawdowns \subseteq Nat /\ HardDeriskBps \in Nat /\ MaxMoves \in Nat
  /\ IsFiniteSet(Tokens)
  /\ Books \subseteq [Tokens -> Nat] /\ \A b \in Books : SumFunction(b) <= 10000
  /\ \A m \in Markets : DOMAIN m \subseteq Tokens /\ m \in [DOMAIN m -> Reading]
  /\ \A m \in Markets : \A t \in DOMAIN m : m[t].price > 0
  /\ LeastUnit \in Nat /\ UnitPrices \subseteq Nat /\ \A p \in UnitPrices : p >= LeastUnit

VARIABLES
  strategy,          \* cfg.strategy
  market, book,
  drawdown,
  moves,             \* how often the market has moved
  sold, trades       \* history: the tokens sold, and the number of trades, since
                     \* the market last moved

history == <<sold, trades>>
vars == <<strategy, market, book, drawdown, moves, history>>

Nav == 10000
Worth(b) == SumFunction(b)
Cash(b) == Nav - Worth(b)
View == [nav |-> Nav, held |-> [a \in Tokens \cup {Base} |-> IF a = Base THEN Cash(book) ELSE book[a]]]

TypeOK ==
  /\ strategy \in Names
  /\ market \in Markets
  /\ book \in [Tokens -> 0 .. Nav] /\ Cash(book) >= 0
  /\ drawdown \in Drawdowns
  /\ moves \in 0 .. MaxMoves
  /\ sold \subseteq Tokens /\ trades \in Nat

-----------------------------------------------------------------------------
Derisk == drawdown >= HardDeriskBps

\* At the disqualifying drawdown a tick ends before the strategy is asked.
Proposal ==
  IF drawdown >= DqBps THEN Hold
  ELSE Decide(strategy, market, book, TierOf(drawdown))

Accepted(c) == c.dir # "hold" /\ Approved(c, View, Derisk)

\* Dollars can be made into units of what is paid with: the base, or a token
\* that the snapshot has a price for.
Sized(c) == c.dir = "buy" \/ c.token \in DOMAIN market

\* What may be traded: the notional, at most what the book has.  Of a token
\* without a price it is as many units as the notional has dollars, whatever a
\* unit is worth.
Amounts_Largest(c) == {Share(Nav, MaxTradeBps)}     \* fault: the size is ignored
Amounts(c) ==
  LET asked == IF Sized(c) THEN {Notional(c, View)}
               ELSE {(Notional(c, View) * p) \div 100 : p \in UnitPrices}
      limit == IF c.dir = "buy" THEN Cash(book) ELSE book[c.token]
  IN {LeastOf(n, limit) : n \in asked}

Trade ==
  /\ LET c == Proposal IN
     /\ Accepted(c)
     /\ \E n \in Amounts(c) :
          IF c.dir = "buy"
          THEN book' = [book EXCEPT ![c.token] = @ + n] /\ UNCHANGED sold
          ELSE book' = [book EXCEPT ![c.token] = @ - n] /\ sold' = sold \cup {c.token}
  /\ trades' = trades + 1
  /\ UNCHANGED <<strategy, market, drawdown, moves>>

\* A tick that holds, or whose trade Keel rejects.
Pass == ~Accepted(Proposal) /\ UNCHANGED vars

Tick == Trade \/ Pass

Move ==
  /\ moves < MaxMoves
  /\ market' \in Markets
  /\ drawdown' \in Drawdowns
  /\ moves' = moves + 1 /\ sold' = {} /\ trades' = 0
  /\ UNCHANGED <<strategy, book>>

Init ==
  /\ strategy \in Names
  /\ market \in Markets /\ book \in Books
  /\ drawdown \in Drawdowns
  /\ moves = 0 /\ sold = {} /\ trades = 0

Next == Tick \/ Move
Spec == Init /\ [][Next]_vars

-----------------------------------------------------------------------------
(* Safety. *)

\* From tier 2 on no strategy adds to the risk, whichever way its rules lead
\* to a trade: the largest holding is sold in tier 3, and purchases are
\* suppressed in tier 2 (strategies/*.py, `tier >= 2`).
NoRiskAddedInTier2 ==
  [][Trade /\ TierOf(drawdown) >= 2 => Worth(book') <= Worth(book)]_vars

\* A purchase never takes a token past the largest position of the strategy
\* (momentum_max_target_weight_pct, *_max_position_pct), although Keel
\* resizes it and the tier scales it.  volatility_target is
\* left out: it scales its targets up again after it has capped them.
PositionsCapped ==
  [][Trade => \A t \in Tokens : book'[t] > book[t] =>
       LET name == Resolved(strategy, market) IN
       name # "volatility_target" => book'[t] <= MaxPosition[name]]_vars

\* In an unchanged market what was sold is not bought back: sizes computed
\* from drifts, resized by Keel and scaled by the tier, never overshoot.
NoWhipsaw ==
  [][Trade => \A t \in sold : book'[t] <= book[t]]_vars

\* How far the book is from rest at most: a token still to be sold may first
\* grow to the whole of NAV, and may then be sold off; one that has been sold
\* only shrinks.
Distance == SumFunction([t \in Tokens |-> IF t \in sold THEN book[t] ELSE 2 * Nav - book[t]])

\* What a trade moves at least: the least notional, or of a token without a
\* price as many units as the least notional has dollars.
LeastSale == LeastOf(MinNotional, (MinNotional * LeastUnit) \div 100)
LeastMove(c) == IF Sized(c) THEN MinNotional ELSE LeastSale

\* In an unchanged market every trade brings the book closer to rest, and by
\* no less than LeastMove, so that it comes to rest: no two rules of a
\* strategy, and no rule and Keel's resizing, keep undoing each other, and no
\* strategy is left a trade so small that it could go on for ever, although
\* a token without a price is not sold by its worth (execution.py:350-359).
EveryTradeSettles == [][Trade => Distance' + LeastMove(Proposal) <= Distance]_vars

\* Nothing more is traded until the market moves.
AtRest == ~Accepted(Proposal)

\* Where a strategy wants no risk at all (tier 3, no token with a positive
\* score, no token that trends) and Keel's drawdown gate is open, the book is
\* not at rest before all of it is sold but dust.
Escaping ==
  /\ drawdown < LeastOf(HardDeriskBps, DqBps)
  /\ \/ TierOf(drawdown) = 3
     \/ Resolved(strategy, market) = "momentum_rebalance" /\ Weak(market)
     \/ Resolved(strategy, market) = "trend_following" /\ Trending(market) = {}
RiskLeaves == Escaping /\ AtRest => \A t \in Tokens : book[t] < MinNotional

\* What trend_following promises: "Rotates underperformers to USDC."
Rotates ==
  strategy = "trend_following" /\ TierOf(drawdown) = 0 /\ AtRest =>
    \A t \in Tokens \ Trending(market) : book[t] < MinDriftBps
=============================================================================
