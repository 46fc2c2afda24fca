-------------------------- MODULE Rebalance_proofs --------------------------
(***************************************************************************)
(* What the strategies and Keel keep, tick after tick, for all settings,   *)
(* markets and books: from tier 2 on no risk is added, no purchase goes    *)
(* past a strategy's largest position, nothing sold in a calm market is    *)
(* bought back, every trade brings the book closer to rest, and where a    *)
(* strategy wants no risk none but dust is left when it rests.             *)
(*                                                                         *)
(* All strategies are reduced to one number: the position up to which they *)
(* buy a token and down to which they sell it.                             *)
(***************************************************************************)
EXTENDS Rebalance, Sums

-----------------------------------------------------------------------------
(* What the strategies are given. *)

IsBook(b) == b \in [Tokens -> Nat]
IsMarket(m) ==
  /\ IsFiniteSet(DOMAIN m) /\ DOMAIN m \subseteq Tokens
  /\ \A t \in DOMAIN m : m[t] \in Reading

LEMMA SettingsTyped ==
  /\ MaxTradeBps \in Nat /\ MaxTradeBps \div 2 \in Nat
  /\ MaxRiskOnBps \in Nat /\ MaxRiskOnBps <= 10000 /\ MinNotional \in Nat
  /\ MinDriftBps \in Nat \ {0}
  /\ ReserveBps \in Nat /\ 10000 - ReserveBps \in Nat
  /\ Oversold \in Nat /\ Overbought \in Nat
  /\ Tier1Bps \in Nat /\ Tier1Bps <= 10000 /\ DqBps \in Nat \ {0}
  /\ Base \notin Tokens
  /\ \A s \in Strategy : MaxPosition[s] \in Nat
<1>1. /\ Base \notin Tokens /\ MaxPosition \in [Strategy -> Bps]
      /\ ReserveBps \in Bps /\ Tier1Bps \in Bps
      /\ MinDriftBps \in Nat \ {0} /\ DqBps \in Nat \ {0}
      /\ Oversold \in Nat /\ Overbought \in Nat
  BY StrategiesAssumption
<1>2. \A s \in Strategy : MaxPosition[s] \in Bps
  BY <1>1
<1>3. MaxTradeBps \in Bps /\ MaxRiskOnBps \in Bps /\ MinNotional \in Nat
  BY KeelAssumption
<1>4. \A p \in Bps : p \in Nat /\ p <= 10000 /\ 10000 - p \in Nat /\ p \div 2 \in Nat
  BY DEF Bps
<1> QED
  BY <1>1, <1>2, <1>3, <1>4

LEMMA MarketsTyped == \A m \in Markets : IsMarket(m)
BY RebalanceAssumption, FS_Subset DEF IsMarket

\* The token chosen is one of those to choose from, and there is no better.
LEMMA BestIn ==
  ASSUME NEW S, IsFiniteSet(S), S # {}, NEW f, Ints(f, S)
  PROVE  Best(S, f) \in S /\ \A u \in S : f[u] <= f[Best(S, f)]
<1>1. \E t \in S : \A u \in S : f[u] <= f[t]
  BY LargestExists
<1> QED
  BY <1>1 DEF Best

\* Some tier is the tier of any drawdown.
LEMMA TierTyped == ASSUME NEW d PROVE TierOf(d) \in 0 .. 3
<1> DEFINE ratio == (d * 10000) \div DqBps
           S == {i \in 1 .. 3 : ratio >= Tier[i]}
<1>1. IsFiniteSet(1 .. 3) /\ Cardinality(1 .. 3) = 3
  <2>1. 1 \in Int /\ 3 \in Int
    OBVIOUS
  <2>2. IsFiniteSet(1 .. 3) /\ Cardinality(1 .. 3) = IF 1 > 3 THEN 0 ELSE 3 - 1 + 1
    BY ONLY <2>1, FS_Interval
  <2> QED
    BY <2>2
<1>2. S \in SUBSET (1 .. 3)
  OBVIOUS
<1> HIDE DEF S
<1>3. IsFiniteSet(S) /\ Cardinality(S) <= Cardinality(1 .. 3)
  BY <1>1, <1>2, FS_Subset
<1>4. Cardinality(S) \in Nat
  BY <1>3, FS_CardinalityType
<1>5. TierOf(d) = Cardinality(S)
  BY DEF TierOf, S
<1> QED
  BY <1>1, <1>3, <1>4, <1>5

\* Scaling down a purchase keeps its sign.
LEMMA ScaledDown ==
  ASSUME NEW x \in Int, NEW tier \in Nat
  PROVE  /\ Scaled(x, tier) \in Int
         /\ x >= 0 => Scaled(x, tier) \in 0 .. x
         /\ x < 0 => Scaled(x, tier) <= 0
<1>1. Tier1Bps \in 0 .. 10000 /\ Tier1Bps \in Nat /\ x * Tier1Bps \in Int
  BY SettingsTyped
<1>2. x >= 0 => 0 <= x * Tier1Bps /\ x * Tier1Bps <= x * 10000
  BY <1>1
<1>3. x < 0 => x * Tier1Bps <= 0
  <2>1. \A y \in Nat, z \in Nat : y * z \in Nat
    OBVIOUS
  <2>2. x < 0 => (-x) \in Nat /\ x * Tier1Bps = -((-x) * Tier1Bps)
    BY <1>1
  <2>3. x < 0 => (-x) * Tier1Bps \in Nat
    BY <1>1, <2>1, <2>2
  <2> QED
    BY <1>1, <2>2, <2>3
<1> DEFINE p == x * Tier1Bps
<1>4. p \in Int /\ (x >= 0 => 0 <= p /\ p <= 10000 * x) /\ (x < 0 => p <= 0)
  BY <1>1, <1>2, <1>3
<1> HIDE DEF p
<1>5. p \div 10000 \in Int /\ (x >= 0 => p \div 10000 \in 0 .. x) /\ (x < 0 => p \div 10000 <= 0)
  BY <1>4
<1> QED
  BY <1>5 DEF Scaled, p

LEMMA ScoreTyped ==
  ASSUME NEW f \in Reading
  PROVE  Score(f) \in Int
<1>1. /\ f.change \in Int /\ f.rsi \in 0 .. 100 /\ f.fear \in 0 .. 100
      /\ f.price \in Nat /\ f.ema20 \in Nat
  BY DEF Reading
<1>2. Between(-200, f.change \div 4, 200) \in Int
  BY <1>1 DEF Between, LargerOf, LeastOf
<1>3. MacdPoints(f) \in Int /\ EmaPoints(f) \in Int /\ FearPoints(f) \in Int
  BY <1>1 DEF MacdPoints, EmaPoints, FearPoints
<1>4. RsiPoints(f) \in Int
  BY <1>1 DEF RsiPoints, LeastOf
<1> QED
  BY <1>2, <1>3, <1>4 DEF Score

-----------------------------------------------------------------------------
(* The position each strategy aims at. *)

TargetOf(name, m, t) ==
  CASE name = "momentum_rebalance" -> IF Weak(m) \/ t \notin DOMAIN m THEN 0 ELSE Weights(m)[t]
    [] name = "trend_following"    -> IF t \in Trending(m) THEN TrendTarget(Cardinality(Trending(m))) ELSE 0
    [] name = "mean_reversion"     -> IF t \in Cheap(m) THEN MaxPosition[name] ELSE 0
    [] name = "volatility_target"  -> IF t \in DOMAIN m THEN VolTargets(m)[t] ELSE 0
    [] name = "breakout"           -> IF t \in Escaped(m) THEN MaxPosition[name] ELSE 0

(***************************************************************************)
(* A proposal c by a strategy that aims at target[t] of each token t: it   *)
(* buys no further than the target, and not from tier 2 on; it sells no    *)
(* more than is held, and below tier 2 no further than the target either.  *)
(***************************************************************************)
Aims(c, target, b, tier) ==
  \/ c = Hold
  \/ /\ c.token \in Tokens /\ c.bps \in Nat /\ c.dir \in {"buy", "sell"}
     /\ c.dir = "buy" => tier < 2 /\ b[c.token] + c.bps <= target[c.token]
     /\ c.dir = "sell" => c.bps <= b[c.token]
     /\ c.dir = "sell" /\ tier < 2 => target[c.token] + c.bps <= b[c.token]

Targets(name, m) == [t \in Tokens |-> TargetOf(name, m, t)]

LEMMA HoldAims == ASSUME NEW target, NEW b, NEW tier PROVE Aims(Hold, target, b, tier)
BY DEF Aims

LEMMA BuyAims ==
  ASSUME NEW target, NEW b, NEW tier, tier < 2, NEW t \in Tokens, NEW n \in Nat,
         b[t] + n <= target[t]
  PROVE  Aims(Propose(t, "buy", n), target, b, tier)
BY DEF Aims, Propose

LEMMA SellAims ==
  ASSUME NEW target, NEW b, NEW tier, NEW t \in Tokens, NEW n \in Nat,
         n <= b[t], tier < 2 => target[t] + n <= b[t]
  PROVE  Aims(Propose(t, "sell", n), target, b, tier)
BY DEF Aims, Propose

\* Selling the largest position aims at nothing.
LEMMA SellLargestAims ==
  ASSUME NEW b, IsBook(b), IsFiniteSet(Tokens), NEW cap \in Nat, NEW tier \in Nat,
         NEW target, tier < 2 => \A t \in Tokens : target[t] = 0
  PROVE  Aims(SellLargest(b, cap), target, b, tier)
<1>1. CASE Held(b) = {}
  BY <1>1, HoldAims DEF SellLargest
<1>2. CASE Held(b) # {}
  <2> DEFINE t == Best(Held(b), b)
             n == LeastOf(cap, b[t])
  <2>1. Held(b) \subseteq Tokens /\ IsFiniteSet(Held(b))
    BY FS_Subset DEF Held
  <2>2. Ints(b, Held(b))
    BY <2>1 DEF IsBook, Ints
  <2>3. t \in Held(b)
    BY <1>2, <2>1, <2>2, BestIn
  <2>4. SellLargest(b, cap) = Propose(t, "sell", n)
    BY <1>2 DEF SellLargest
  <2> HIDE DEF t
  <2>5. t \in Tokens /\ b[t] \in Nat
    BY <2>1, <2>3 DEF IsBook
  <2>6. n \in Nat /\ n <= b[t]
    BY <2>5 DEF LeastOf
  <2> HIDE DEF n
  <2>7. tier < 2 => target[t] + n <= b[t]
    BY <2>5, <2>6
  <2>8. Aims(Propose(t, "sell", n), target, b, tier)
    BY <2>5, <2>6, <2>7, SellAims
  <2> QED
    BY <2>4, <2>8
<1> QED
  BY <1>1, <1>2

LEMMA ScoresTyped ==
  ASSUME NEW m, IsMarket(m), NEW t \in DOMAIN m
  PROVE  Score(m[t]) \in Int
BY ScoreTyped DEF IsMarket

-----------------------------------------------------------------------------
(* momentum_rebalance. *)

LEMMA WeightsTyped ==
  ASSUME NEW m, IsMarket(m), NEW t \in DOMAIN m
  PROVE  Weights(m)[t] \in 0 .. MaxPosition["momentum_rebalance"]
<1> DEFINE positive == [u \in DOMAIN m |-> LargerOf(0, Score(m[u]))]
           total == LargerOf(1, SumFunction(positive))
           cap == MaxPosition["momentum_rebalance"]
           share == ((10000 - ReserveBps) * positive[t]) \div total
<1>1. \A u \in DOMAIN m : positive[u] \in Nat
  BY ScoresTyped DEF LargerOf
<1>2. SumFunction(positive) \in Int
  <2>1. IsFiniteSet(DOMAIN m) /\ DOMAIN positive = DOMAIN m
    BY DEF IsMarket
  <2>2. Ints(positive, DOMAIN m)
    BY <1>1 DEF Ints
  <2> HIDE DEF positive
  <2>3. SumFunctionOnSet(positive, DOMAIN m) \in Int
    BY <2>1, <2>2, SumType
  <2> QED
    BY <2>1, <2>3 DEF SumFunction
<1>3. Weights(m)[t] = LeastOf(cap, share)
  BY DEF Weights
<1>4. positive[t] \in Nat
  BY <1>1
<1> HIDE DEF positive
<1>5. total \in Nat \ {0}
  BY <1>2 DEF LargerOf
<1>6. cap \in Nat /\ 10000 - ReserveBps \in Nat
  BY SettingsTyped DEF Strategy
<1> HIDE DEF total, cap
<1>7. (10000 - ReserveBps) * positive[t] \in Nat
  BY <1>4, <1>6
<1>8. share \in Nat
  BY <1>5, <1>7, QuotientTimes
<1> HIDE DEF share
<1>9. LeastOf(cap, share) \in 0 .. cap
  BY <1>6, <1>8 DEF LeastOf
<1> QED
  BY <1>3, <1>9 DEF cap

LEMMA RebalanceAims ==
  ASSUME NEW m, IsMarket(m), NEW b, IsBook(b), NEW tier \in 0 .. 3, ~Weak(m)
  PROVE  Aims(Rebalance(m, b, tier), Targets("momentum_rebalance", m), b, tier)
<1> DEFINE drifts == Drifts(Weights(m), b)
           t == Best(DOMAIN m, Sizes(drifts))
           least == LeastOf(MaxTradeBps, Magnitude(drifts[t]))
           size == Scaled(least, tier)
           target == Targets("momentum_rebalance", m)
<1>1. DOMAIN m # {} /\ IsFiniteSet(DOMAIN m) /\ DOMAIN m \subseteq Tokens
  BY DEF Weak, IsMarket
<1>2. DOMAIN Weights(m) = DOMAIN m /\ DOMAIN drifts = DOMAIN m
  BY DEF Weights, Drifts
<1>3. \A u \in DOMAIN m : Weights(m)[u] \in Nat /\ b[u] \in Nat /\ drifts[u] = Weights(m)[u] - b[u]
  <2> SUFFICES ASSUME NEW u \in DOMAIN m
               PROVE  Weights(m)[u] \in Nat /\ b[u] \in Nat /\ drifts[u] = Weights(m)[u] - b[u]
    OBVIOUS
  <2>1. Weights(m)[u] \in 0 .. MaxPosition["momentum_rebalance"]
    BY WeightsTyped
  <2>2. MaxPosition["momentum_rebalance"] \in Nat
    BY SettingsTyped DEF Strategy
  <2>3. b[u] \in Nat
    BY <1>1 DEF IsBook
  <2>4. drifts[u] = Weights(m)[u] - b[u]
    BY <1>2 DEF Drifts
  <2> HIDE DEF drifts
  <2> QED
    BY <2>1, <2>2, <2>3, <2>4
<1>4. Ints(Sizes(drifts), DOMAIN m)
  BY <1>2, <1>3 DEF Sizes, Ints, Magnitude
<1>5. t \in DOMAIN m
  <2> HIDE DEF drifts
  <2> QED
    BY <1>1, <1>4, BestIn
<1>6. target[t] = Weights(m)[t] /\ t \in Tokens
  BY <1>1, <1>5 DEF Targets, TargetOf
<1>7. \/ Rebalance(m, b, tier) = Hold
      \/ /\ ~(drifts[t] > 0 /\ tier >= 2) /\ drifts[t] > 0
         /\ Rebalance(m, b, tier) = Propose(t, "buy", size)
      \/ /\ ~(drifts[t] > 0)
         /\ Rebalance(m, b, tier) = Propose(t, "sell", size)
  BY DEF Rebalance
<1> HIDE DEF t, drifts, target
<1>8. least \in Nat /\ least <= Magnitude(drifts[t])
  <2>1. drifts[t] \in Int
    BY <1>3, <1>5
  <2>2. Magnitude(drifts[t]) \in Nat
    BY <2>1 DEF Magnitude
  <2> QED
    BY <2>2, SettingsTyped DEF LeastOf
<1>9. size \in 0 .. least
  <2> HIDE DEF least
  <2>1. least \in Int /\ least >= 0 /\ tier \in Nat
    BY <1>8
  <2> QED
    BY <2>1, ScaledDown
<1> HIDE DEF size, least
<1>10. Weights(m)[t] \in Nat /\ b[t] \in Nat /\ drifts[t] = Weights(m)[t] - b[t] /\ size \in Nat
  BY <1>3, <1>5, <1>8, <1>9
<1>11. CASE drifts[t] > 0 /\ tier < 2 /\ Rebalance(m, b, tier) = Propose(t, "buy", size)
  <2>1. b[t] + size <= target[t]
    BY <1>6, <1>8, <1>9, <1>10, <1>11 DEF Magnitude
  <2> QED
    BY <1>6, <1>10, <1>11, <2>1, BuyAims DEF target
<1>12. CASE ~(drifts[t] > 0) /\ Rebalance(m, b, tier) = Propose(t, "sell", size)
  <2>1. target[t] + size <= b[t] /\ size <= b[t]
    BY <1>6, <1>8, <1>9, <1>10, <1>12 DEF Magnitude
  <2> QED
    BY <1>6, <1>10, <1>12, <2>1, SellAims DEF target
<1> QED
  BY <1>7, <1>10, <1>11, <1>12, HoldAims

LEMMA MomentumAims ==
  ASSUME NEW m, IsMarket(m), NEW b, IsBook(b), IsFiniteSet(Tokens), NEW tier \in 0 .. 3
  PROVE  Aims(Momentum(m, b, tier), Targets("momentum_rebalance", m), b, tier)
<1>1. MaxTradeBps \in Nat /\ MaxTradeBps \div 2 \in Nat
  BY SettingsTyped
<1>2. CASE tier = 3
  <2>1. Momentum(m, b, tier) = SellLargest(b, MaxTradeBps \div 2)
    BY <1>2 DEF Momentum
  <2> QED
    BY <1>1, <1>2, <2>1, SellLargestAims
<1>3. CASE tier # 3 /\ Weak(m)
  <2>1. Momentum(m, b, tier) = SellLargest(b, MaxTradeBps)
    BY <1>3 DEF Momentum
  <2>2. \A t \in Tokens : Targets("momentum_rebalance", m)[t] = 0
    BY <1>3 DEF Targets, TargetOf
  <2> QED
    BY <1>1, <2>1, <2>2, SellLargestAims
<1>4. CASE tier # 3 /\ ~Weak(m)
  BY <1>4, RebalanceAims DEF Momentum
<1> QED
  BY <1>2, <1>3, <1>4

-----------------------------------------------------------------------------
(* trend_following. *)

LEMMA TrendTargetTyped ==
  ASSUME NEW n \in Nat \ {0}
  PROVE  TrendTarget(n) \in 0 .. MaxPosition["trend_following"]
<1> DEFINE cap == MaxPosition["trend_following"]
           share == (10000 - ReserveBps) \div n
<1>1. cap \in Nat /\ share \in Nat
  BY SettingsTyped, QuotientTimes DEF Strategy
<1>2. TrendTarget(n) = LeastOf(cap, share)
  BY DEF TrendTarget
<1> HIDE DEF cap, share
<1>3. LeastOf(cap, share) \in 0 .. cap
  BY <1>1 DEF LeastOf
<1> QED
  BY <1>2, <1>3 DEF cap

LEMMA TrendingTyped ==
  ASSUME NEW m, IsMarket(m)
  PROVE  /\ Trending(m) \subseteq DOMAIN m /\ IsFiniteSet(Trending(m))
         /\ Trending(m) # {} => Cardinality(Trending(m)) \in Nat \ {0}
<1>1. Trending(m) \subseteq DOMAIN m
  BY DEF Trending
<1>2. IsFiniteSet(Trending(m))
  BY <1>1, FS_Subset DEF IsMarket
<1> QED
  BY <1>1, <1>2, FS_EmptySet, FS_CardinalityType

LEMMA BuysAim ==
  ASSUME NEW m, IsMarket(m), NEW b, IsBook(b), NEW tier \in 0 .. 1,
         NEW c \in Buys(Trending(m), b, tier)
  PROVE  Aims(c, Targets("trend_following", m), b, tier)
<1> DEFINE trending == Trending(m)
           goal == TrendTarget(Cardinality(trending))
           target == Targets("trend_following", m)
<1>1. PICK t \in trending :
        LET n == Scaled(LeastOf(MaxTradeBps, goal - b[t]), tier)
        IN c = Propose(t, "buy", n) /\ goal - b[t] > MinDriftBps
  BY DEF Buys
<1> DEFINE x == LeastOf(MaxTradeBps, goal - b[t])
           n == Scaled(x, tier)
<1>2. t \in Tokens /\ target[t] = goal
  BY TrendingTyped DEF IsMarket, Targets, TargetOf
<1>3. goal \in Nat
  <2>1. goal \in 0 .. MaxPosition["trend_following"]
    BY TrendingTyped, TrendTargetTyped
  <2>2. MaxPosition["trend_following"] \in Nat
    BY SettingsTyped DEF Strategy
  <2> HIDE DEF goal
  <2> QED
    BY <2>1, <2>2
<1> HIDE DEF goal, trending, target
<1>4. b[t] \in Nat /\ MaxTradeBps \in Nat /\ MinDriftBps \in Nat
  BY <1>2, SettingsTyped DEF IsBook
<1>5. x \in Nat /\ x <= goal - b[t]
  BY <1>1, <1>3, <1>4 DEF LeastOf
<1> HIDE DEF x
<1>6. n \in 0 .. x
  <2>1. x \in Int /\ x >= 0 /\ tier \in Nat
    BY <1>5
  <2> QED
    BY <2>1, ScaledDown
<1>7. c = Propose(t, "buy", n)
  BY <1>1 DEF x
<1> HIDE DEF n
<1>8. n \in Nat /\ b[t] + n <= target[t]
  BY <1>2, <1>3, <1>4, <1>5, <1>6
<1>9. Aims(Propose(t, "buy", n), target, b, tier)
  <2>1. tier < 2
    OBVIOUS
  <2> QED
    BY <1>2, <1>8, <2>1, BuyAims
<1> QED
  BY <1>7, <1>9 DEF target

LEMMA ExitsAim ==
  ASSUME NEW m, IsMarket(m), NEW b, IsBook(b), NEW tier \in 0 .. 3,
         NEW c \in Exits(Trending(m), b)
  PROVE  Aims(c, Targets("trend_following", m), b, tier)
<1> DEFINE target == Targets("trend_following", m)
<1>1. PICK t \in Held(b) \ Trending(m) : c = Propose(t, "sell", LeastOf(MaxTradeBps, b[t]))
  BY DEF Exits
<1> DEFINE n == LeastOf(MaxTradeBps, b[t])
<1>2. t \in Tokens /\ target[t] = 0
  BY DEF Held, Targets, TargetOf
<1>3. b[t] \in Nat
  BY <1>2 DEF IsBook
<1>4. n \in Nat /\ n <= b[t]
  BY <1>3, SettingsTyped DEF LeastOf
<1>5. c = Propose(t, "sell", n)
  BY <1>1
<1> HIDE DEF n, target
<1>6. Aims(Propose(t, "sell", n), target, b, tier)
  <2>1. target[t] + n <= b[t]
    BY <1>2, <1>3, <1>4
  <2> QED
    BY <1>2, <1>4, <2>1, SellAims
<1> QED
  BY <1>5, <1>6 DEF target

\* The purchase chosen is one of them.
LEMMA BestBuy ==
  ASSUME NEW m, IsMarket(m), NEW b, NEW tier,
         NEW buys, buys = Buys(Trending(m), b, tier), buys # {}
  PROVE  (CHOOSE c \in buys : \A d \in buys : Score(m[d.token]) <= Score(m[c.token])) \in buys
<1> DEFINE S == {c.token : c \in buys}
           f == [t \in S |-> Score(m[t])]
<1>1. S \subseteq Trending(m)
  <2> SUFFICES ASSUME NEW c \in buys PROVE c.token \in Trending(m)
    OBVIOUS
  <2>1. PICK t \in Trending(m) : \E n : c = Propose(t, "buy", n)
    BY DEF Buys
  <2> QED
    BY <2>1 DEF Propose
<1>2. IsFiniteSet(S) /\ S # {}
  BY <1>1, TrendingTyped, FS_Subset
<1>3. Ints(f, S)
  BY <1>1, TrendingTyped, ScoresTyped DEF Ints
<1>4. PICK t \in S : \A u \in S : f[u] <= f[t]
  <2> HIDE DEF S, f
  <2> QED
    BY <1>2, <1>3, LargestExists
<1>5. PICK c \in buys : c.token = t
  OBVIOUS
<1>6. \A d \in buys : Score(m[d.token]) <= Score(m[c.token])
  BY <1>4, <1>5
<1> QED
  BY <1>6

LEMMA TrendAims ==
  ASSUME NEW m, IsMarket(m), NEW b, IsBook(b), IsFiniteSet(Tokens), NEW tier \in 0 .. 3
  PROVE  Aims(Trend(m, b, tier), Targets("trend_following", m), b, tier)
<1> DEFINE trending == Trending(m)
           buys == Buys(trending, b, tier)
           exits == Exits(trending, b)
           best == CHOOSE c \in buys : \A d \in buys : Score(m[d.token]) <= Score(m[c.token])
<1>1. CASE tier = 3 \/ trending = {}
  <2>1. Trend(m, b, tier) = SellLargest(b, MaxTradeBps)
    BY <1>1 DEF Trend
  <2>2. tier < 2 => \A t \in Tokens : Targets("trend_following", m)[t] = 0
    BY <1>1 DEF Targets, TargetOf
  <2> QED
    BY <2>1, <2>2, SellLargestAims, SettingsTyped
<1>2. CASE tier < 2 /\ trending # {} /\ buys # {}
  <2>1. Trend(m, b, tier) = best
    BY <1>2 DEF Trend
  <2>2. best \in buys
    <3> HIDE DEF buys
    <3>1. buys = Buys(Trending(m), b, tier)
      BY DEF buys
    <3> QED
      BY <1>2, <3>1, BestBuy
  <2>3. tier \in 0 .. 1
    BY <1>2
  <2> HIDE DEF best
  <2> QED
    BY <2>1, <2>2, <2>3, BuysAim
<1>3. CASE tier < 2 /\ trending # {} /\ buys = {} /\ exits # {}
  <2> DEFINE c == CHOOSE x \in exits : TRUE
  <2>1. Trend(m, b, tier) = c
    BY <1>3 DEF Trend
  <2>2. c \in exits
    BY <1>3
  <2> HIDE DEF c
  <2> QED
    BY <2>1, <2>2, ExitsAim
<1>4. CASE trending # {} /\ (tier = 2 \/ (tier < 2 /\ buys = {} /\ exits = {}))
  <2>1. Trend(m, b, tier) = Hold
    BY <1>4 DEF Trend
  <2> QED
    BY <2>1, HoldAims
<1> QED
  BY <1>1, <1>2, <1>3, <1>4

-----------------------------------------------------------------------------
(* mean_reversion and breakout. *)

LEMMA SignalTradeAims ==
  ASSUME NEW name \in Strategy, NEW b, IsBook(b), IsFiniteSet(Tokens), NEW tier \in 0 .. 3,
         NEW buys, DOMAIN buys \subseteq Tokens, Ints(buys, DOMAIN buys),
         NEW sells, DOMAIN sells \subseteq Tokens, Ints(sells, DOMAIN sells),
         NEW target,
         \A t \in DOMAIN buys : target[t] = MaxPosition[name],
         \A t \in DOMAIN sells : target[t] = 0
  PROVE  Aims(SignalTrade(name, buys, sells, b, tier), target, b, tier)
<1> DEFINE t == Best(DOMAIN buys, buys)
           s == Best(DOMAIN sells, sells)
           cap == MaxPosition[name]
           x == LeastOf(cap - b[t], MaxTradeBps)
           buy == Scaled(x, tier)
           sell == LeastOf(b[s], MaxTradeBps)
           trade == SignalTrade(name, buys, sells, b, tier)
<1>1. \/ tier = 3 /\ trade = SellLargest(b, MaxTradeBps)
      \/ /\ tier < 2 /\ DOMAIN buys # {} /\ Enough(buy)
         /\ trade = Propose(t, "buy", buy)
      \/ DOMAIN sells # {} /\ trade = Propose(s, "sell", sell)
      \/ trade = Hold
  BY DEF SignalTrade
<1>2. DOMAIN buys # {} => t \in DOMAIN buys
  BY BestIn, FS_Subset
<1>3. DOMAIN sells # {} => s \in DOMAIN sells
  BY BestIn, FS_Subset
<1> HIDE DEF t, s, trade
<1>4. MaxTradeBps \in Nat /\ cap \in Nat
  BY SettingsTyped
<1>5. CASE tier = 3 /\ trade = SellLargest(b, MaxTradeBps)
  BY <1>4, <1>5, SellLargestAims DEF trade
<1>6. CASE tier < 2 /\ DOMAIN buys # {} /\ Enough(buy) /\ trade = Propose(t, "buy", buy)
  <2>1. t \in Tokens /\ b[t] \in Nat /\ target[t] = cap
    BY <1>2, <1>6 DEF IsBook
  <2> HIDE DEF cap
  <2>2. x \in Int /\ x <= cap - b[t]
    BY <1>4, <2>1 DEF LeastOf
  <2> HIDE DEF x
  <2>3. buy \in Int /\ (x >= 0 => buy \in 0 .. x) /\ (x < 0 => buy <= 0)
    BY <2>2, ScaledDown
  <2>4. buy >= 50
    BY <1>6 DEF Enough, LeastBps
  <2> HIDE DEF buy
  <2>5. buy \in Nat /\ b[t] + buy <= target[t]
    BY <1>4, <2>1, <2>2, <2>3, <2>4
  <2>6. Aims(Propose(t, "buy", buy), target, b, tier)
    BY <1>6, <2>1, <2>5, BuyAims
  <2> QED
    BY <1>6, <2>6 DEF trade
<1>7. CASE DOMAIN sells # {} /\ trade = Propose(s, "sell", sell)
  <2>1. s \in Tokens /\ b[s] \in Nat /\ target[s] = 0
    BY <1>3, <1>7 DEF IsBook
  <2>2. sell \in Nat /\ sell <= b[s]
    BY <1>4, <2>1 DEF LeastOf
  <2> HIDE DEF sell
  <2>3. target[s] + sell <= b[s]
    BY <2>1, <2>2
  <2>4. Aims(Propose(s, "sell", sell), target, b, tier)
    BY <2>1, <2>2, <2>3, SellAims
  <2> QED
    BY <1>7, <2>4 DEF trade
<1> QED
  BY <1>1, <1>5, <1>6, <1>7, HoldAims DEF trade

LEMMA MeanReversionAims ==
  ASSUME NEW m, IsMarket(m), NEW b, IsBook(b), IsFiniteSet(Tokens), NEW tier \in 0 .. 3
  PROVE  Aims(MeanReversion(m, b, tier), Targets("mean_reversion", m), b, tier)
<1> DEFINE buys == [t \in Cheap(m) |-> Oversold - m[t].rsi]
           sells == [t \in Dear(m) |-> m[t].rsi - Overbought]
           target == Targets("mean_reversion", m)
<1>1. Cheap(m) \subseteq DOMAIN m /\ Dear(m) \subseteq DOMAIN m /\ DOMAIN m \subseteq Tokens
  BY DEF Cheap, Dear, IsMarket
<1>2. \A t \in DOMAIN m : m[t].rsi \in 0 .. 100
  BY DEF IsMarket, Reading
<1>3. Oversold \in Nat /\ Overbought \in Nat
  BY SettingsTyped
<1>4. Ints(buys, DOMAIN buys) /\ Ints(sells, DOMAIN sells)
  <2>1. \A t \in Cheap(m) : Oversold - m[t].rsi \in Int
    BY <1>1, <1>2, <1>3
  <2>2. \A t \in Dear(m) : m[t].rsi - Overbought \in Int
    BY <1>1, <1>2, <1>3
  <2> QED
    BY <2>1, <2>2 DEF Ints
<1>5. \A t \in Cheap(m) : target[t] = MaxPosition["mean_reversion"]
  BY <1>1 DEF Targets, TargetOf
<1>6. \A t \in Dear(m) : t \notin Cheap(m)
  BY <1>1, <1>2, <1>3 DEF Cheap, Dear
<1>7. \A t \in Dear(m) : target[t] = 0
  BY <1>1, <1>6 DEF Targets, TargetOf
<1>8. MeanReversion(m, b, tier) = SignalTrade("mean_reversion", buys, sells, b, tier)
  BY DEF MeanReversion
<1>9. DOMAIN buys = Cheap(m) /\ DOMAIN sells = Dear(m) /\ "mean_reversion" \in Strategy
  BY DEF Strategy
<1> HIDE DEF buys, sells, target
<1>10. Aims(SignalTrade("mean_reversion", buys, sells, b, tier), target, b, tier)
  BY <1>1, <1>4, <1>5, <1>7, <1>9, SignalTradeAims
<1> QED
  BY <1>8, <1>10 DEF target

LEMMA BeyondTyped ==
  ASSUME NEW price \in Nat, NEW levels, NEW passed \in SUBSET (1 .. 4), passed # {},
         \A i \in passed : levels[i] \in Nat \ {0}
  PROVE  Beyond(price, levels, passed) \in Int
<1> DEFINE f == [i \in passed |-> -i]
           v == levels[Min(passed)]
<1>1. IsFiniteSet(passed)
  <2>1. IsFiniteSet(1 .. 4)
    <3>1. 1 \in Int /\ 4 \in Int
      OBVIOUS
    <3> QED
      BY ONLY <3>1, FS_Interval
  <2> QED
    BY <2>1, FS_Subset
<1>2. PICK k \in passed : \A i \in passed : f[i] <= f[k]
  <2>1. Ints(f, passed)
    BY DEF Ints
  <2> HIDE DEF f
  <2> QED
    BY <1>1, <2>1, LargestExists
<1>3. \A i \in passed : k <= i
  BY <1>2
<1>4. Min(passed) \in passed
  BY <1>3 DEF Min
<1>5. v \in Nat \ {0}
  BY <1>4
<1>6. Beyond(price, levels, passed) = (Magnitude(price - v) * 10000) \div v
  BY DEF Beyond
<1> HIDE DEF v
<1>7. Magnitude(price - v) * 10000 \in Nat
  BY <1>5 DEF Magnitude
<1>8. (Magnitude(price - v) * 10000) \div v \in Nat
  BY <1>5, <1>7, QuotientTimes
<1> QED
  BY <1>6, <1>8

LEMMA BreakoutAims ==
  ASSUME NEW m, IsMarket(m), NEW b, IsBook(b), IsFiniteSet(Tokens), NEW tier \in 0 .. 3
  PROVE  Aims(Breakout(m, b, tier), Targets("breakout", m), b, tier)
<1> DEFINE up(t) == Beyond(m[t].price, UpLevels(m[t]), Broken(m[t]))
           down(t) == Beyond(m[t].price, DownLevels(m[t]), Lost(m[t]))
           buys == [t \in Escaped(m) |-> up(t)]
           sells == [t \in Sinking(m) \cap Held(b) |-> down(t)]
           target == Targets("breakout", m)
<1>1. Escaped(m) \subseteq DOMAIN m /\ Sinking(m) \subseteq DOMAIN m /\ DOMAIN m \subseteq Tokens
  BY DEF Escaped, Sinking, IsMarket
<1>2. ASSUME NEW t \in DOMAIN m
      PROVE  /\ m[t].price \in Nat
             /\ \A i \in 1 .. 4 : UpLevels(m[t])[i] \in Nat /\ DownLevels(m[t])[i] \in Nat
  <2> DEFINE f == m[t]
  <2>1. f \in Reading
    BY DEF IsMarket
  <2> HIDE DEF f
  <2>2. /\ f.price \in Nat /\ f.r1 \in Nat /\ f.r2 \in Nat /\ f.s1 \in Nat /\ f.s2 \in Nat
        /\ f.fib[61] \in Nat /\ f.fib[78] \in Nat /\ f.fib[38] \in Nat /\ f.fib[50] \in Nat
    BY <2>1 DEF Reading
  <2>3. \A i \in 1 .. 4 : UpLevels(f)[i] \in Nat /\ DownLevels(f)[i] \in Nat
    BY <2>2 DEF UpLevels, DownLevels
  <2> QED
    BY <2>2, <2>3 DEF f
<1>3. \A t \in Escaped(m) : up(t) \in Int
  <2> SUFFICES ASSUME NEW t \in Escaped(m) PROVE up(t) \in Int
    OBVIOUS
  <2>1. Broken(m[t]) # {} /\ Broken(m[t]) \subseteq 1 .. 4
    BY DEF Escaped, Broken
  <2>2. \A i \in Broken(m[t]) : UpLevels(m[t])[i] \in Nat \ {0}
    <3> SUFFICES ASSUME NEW i \in Broken(m[t]) PROVE UpLevels(m[t])[i] \in Nat \ {0}
      OBVIOUS
    <3>1. UpLevels(m[t])[i] \in Nat
      BY <1>1, <1>2, <2>1
    <3>2. UpLevels(m[t])[i] > 0
      BY DEF Broken
    <3> QED
      BY <3>1, <3>2
  <2> QED
    BY <1>1, <1>2, <2>1, <2>2, BeyondTyped
<1>4. \A t \in Sinking(m) : down(t) \in Int
  <2> SUFFICES ASSUME NEW t \in Sinking(m) PROVE down(t) \in Int
    OBVIOUS
  <2>1. Lost(m[t]) # {} /\ Lost(m[t]) \subseteq 1 .. 4
    BY DEF Sinking, Lost
  <2>2. \A i \in Lost(m[t]) : DownLevels(m[t])[i] \in Nat \ {0}
    <3> SUFFICES ASSUME NEW i \in Lost(m[t]) PROVE DownLevels(m[t])[i] \in Nat \ {0}
      OBVIOUS
    <3>1. DownLevels(m[t])[i] \in Nat
      BY <1>1, <1>2, <2>1
    <3>2. DownLevels(m[t])[i] > 0
      BY DEF Lost
    <3> QED
      BY <3>1, <3>2
  <2> QED
    BY <1>1, <1>2, <2>1, <2>2, BeyondTyped
<1> HIDE DEF up, down
<1>5. Ints(buys, DOMAIN buys) /\ Ints(sells, DOMAIN sells)
  BY <1>3, <1>4 DEF Ints
<1>6. \A t \in Escaped(m) : target[t] = MaxPosition["breakout"]
  BY <1>1 DEF Targets, TargetOf
<1>7. \A t \in Sinking(m) : t \notin Escaped(m) /\ target[t] = 0
  BY <1>1 DEF Targets, TargetOf, Sinking, Escaped
<1>8. Breakout(m, b, tier) = SignalTrade("breakout", buys, sells, b, tier)
  BY DEF Breakout, up, down
<1>9. DOMAIN buys = Escaped(m) /\ DOMAIN sells = Sinking(m) \cap Held(b) /\ "breakout" \in Strategy
  BY DEF Strategy
<1> HIDE DEF buys, sells, target
<1>10. Aims(SignalTrade("breakout", buys, sells, b, tier), target, b, tier)
  <2>1. DOMAIN buys \subseteq Tokens /\ DOMAIN sells \subseteq Tokens
    BY <1>1, <1>9
  <2>2. \A t \in DOMAIN buys : target[t] = MaxPosition["breakout"]
    BY <1>6, <1>9
  <2>3. \A t \in DOMAIN sells : target[t] = 0
    BY <1>7, <1>9
  <2> QED
    BY <1>5, <1>9, <2>1, <2>2, <2>3, SignalTradeAims
<1> QED
  BY <1>8, <1>10 DEF target

-----------------------------------------------------------------------------
(* volatility_target. *)

LEMMA VolProxyTyped ==
  ASSUME NEW f \in Reading
  PROVE  VolProxy(f) \in Nat \ {0}
<1>1. f.change \in Int /\ f.price \in Nat /\ f.r1 \in Nat /\ f.s1 \in Nat
  BY DEF Reading
<1> DEFINE spread == ((f.r1 - f.s1) * 10000) \div f.price
           daily == IF f.r1 > 0 /\ f.s1 > 0 /\ f.price > 0
                    THEN spread ELSE IF f.change = 0 THEN 100 ELSE Magnitude(f.change)
<1>2. f.price > 0 => spread \in Int
  <2>1. (f.r1 - f.s1) * 10000 \in Int
    BY <1>1
  <2>2. \A x \in Int, y \in Nat \ {0} : x \div y \in Int
    OBVIOUS
  <2>3. f.price > 0 => f.price \in Nat \ {0}
    BY <1>1
  <2> QED
    BY <2>1, <2>2, <2>3
<1>3. VolProxy(f) = LargerOf(100, (daily * 191) \div 10)
  BY DEF VolProxy
<1> HIDE DEF spread
<1>4. daily \in Int
  BY <1>1, <1>2 DEF Magnitude
<1> HIDE DEF daily
<1> QED
  BY <1>3, <1>4 DEF LargerOf

LEMMA VolTargetsTyped ==
  ASSUME NEW m, IsMarket(m), NEW t \in DOMAIN m
  PROVE  VolTargets(m)[t] \in Nat
<1> DEFINE budget == 10000 - ReserveBps
           inverse == [u \in DOMAIN m |-> 1000000 \div VolProxy(m[u])]
           total == LargerOf(1, SumFunction(inverse))
           capped == [u \in DOMAIN m |->
                        LeastOf((budget * inverse[u]) \div total, MaxPosition["volatility_target"])]
           all == LargerOf(1, SumFunction(capped))
<1>1. VolTargets(m)[t] = (capped[t] * budget) \div all
  BY DEF VolTargets
<1>2. \A g : DOMAIN g = DOMAIN m /\ Ints(g, DOMAIN m) => LargerOf(1, SumFunction(g)) \in Nat \ {0}
  <2> SUFFICES ASSUME NEW g, DOMAIN g = DOMAIN m, Ints(g, DOMAIN m)
               PROVE  LargerOf(1, SumFunction(g)) \in Nat \ {0}
    OBVIOUS
  <2>1. IsFiniteSet(DOMAIN m)
    BY DEF IsMarket
  <2>2. SumFunctionOnSet(g, DOMAIN m) \in Int
    BY <2>1, SumType
  <2> QED
    BY <2>2 DEF SumFunction, LargerOf
<1>3. budget \in Nat /\ MaxPosition["volatility_target"] \in Nat
  BY SettingsTyped DEF Strategy
<1>4. \A u \in DOMAIN m : inverse[u] \in Nat
  <2>1. \A u \in DOMAIN m : VolProxy(m[u]) \in Nat \ {0}
    BY VolProxyTyped DEF IsMarket
  <2>2. 1000000 \in Nat
    OBVIOUS
  <2> QED
    BY <2>1, <2>2, QuotientTimes
<1>5. DOMAIN inverse = DOMAIN m /\ DOMAIN capped = DOMAIN m
  OBVIOUS
<1>6. Ints(inverse, DOMAIN m)
  <2> HIDE DEF inverse
  <2> QED
    BY <1>4 DEF Ints
<1>7. \A u \in DOMAIN m : capped[u] = LeastOf((budget * inverse[u]) \div total, MaxPosition["volatility_target"])
  OBVIOUS
<1> HIDE DEF inverse, capped
<1>8. total \in Nat \ {0}
  BY <1>2, <1>5, <1>6
<1> HIDE DEF total, budget
<1>9. \A u \in DOMAIN m : capped[u] \in Nat
  <2> SUFFICES ASSUME NEW u \in DOMAIN m PROVE capped[u] \in Nat
    OBVIOUS
  <2> DEFINE x == budget * inverse[u]
             cap == MaxPosition["volatility_target"]
  <2>1. x \in Nat /\ cap \in Nat
    BY <1>3, <1>4
  <2>2. capped[u] = LeastOf(x \div total, cap)
    BY <1>7
  <2> HIDE DEF x, cap
  <2>3. x \div total \in Nat
    BY <1>8, <2>1, QuotientTimes
  <2> QED
    BY <2>1, <2>2, <2>3 DEF LeastOf
<1>10. all \in Nat \ {0}
  <2>1. Ints(capped, DOMAIN m)
    BY <1>9 DEF Ints
  <2> QED
    BY <1>2, <1>5, <2>1
<1> HIDE DEF all
<1>11. capped[t] * budget \in Nat
  BY <1>3, <1>9
<1> QED
  BY <1>1, <1>10, <1>11, QuotientTimes

LEMMA VolatilityTargetAims ==
  ASSUME NEW m, IsMarket(m), NEW b, IsBook(b), IsFiniteSet(Tokens), NEW tier \in 0 .. 3
  PROVE  Aims(VolatilityTarget(m, b, tier), Targets("volatility_target", m), b, tier)
<1> DEFINE drifts == Drifts(VolTargets(m), b)
           buys == {u \in DOMAIN m : drifts[u] > MinDriftBps}
           sells == {u \in DOMAIN m : drifts[u] < -MinDriftBps}
           t == Best(buys, drifts)
           s == Best(sells, Sizes(drifts))
           x == LeastOf(drifts[t], MaxTradeBps)
           buy == Scaled(x, tier)
           sell == LeastOf(-drifts[s], MaxTradeBps)
           target == Targets("volatility_target", m)
           c == VolatilityTarget(m, b, tier)
<1>1. \/ tier = 3 /\ c = SellLargest(b, MaxTradeBps)
      \/ tier < 2 /\ buys # {} /\ c = Propose(t, "buy", buy)
      \/ sells # {} /\ c = Propose(s, "sell", sell)
      \/ c = Hold
  BY DEF VolatilityTarget
<1>2. DOMAIN VolTargets(m) = DOMAIN m /\ DOMAIN drifts = DOMAIN m
  BY DEF VolTargets, Drifts
<1>3. ASSUME NEW u \in DOMAIN m
      PROVE  /\ target[u] \in Nat /\ b[u] \in Nat /\ u \in Tokens
             /\ drifts[u] = target[u] - b[u] /\ drifts[u] \in Int
             /\ Sizes(drifts)[u] \in Int
  <2>1. u \in Tokens /\ b[u] \in Nat
    BY DEF IsMarket, IsBook
  <2>2. target[u] = VolTargets(m)[u]
    BY <2>1 DEF Targets, TargetOf
  <2>3. VolTargets(m)[u] \in Nat
    BY VolTargetsTyped
  <2>4. drifts[u] = VolTargets(m)[u] - b[u]
    BY <1>2 DEF Drifts
  <2> HIDE DEF drifts, target
  <2>5. drifts[u] \in Int
    BY <2>1, <2>3, <2>4
  <2>6. Sizes(drifts)[u] = Magnitude(drifts[u])
    BY <1>2 DEF Sizes
  <2> QED
    BY <2>1, <2>2, <2>3, <2>4, <2>5, <2>6 DEF Magnitude
<1> HIDE DEF drifts, target
<1>4. IsFiniteSet(DOMAIN m) /\ MaxTradeBps \in Nat /\ MinDriftBps \in Nat
  BY SettingsTyped DEF IsMarket
<1>5. buys # {} => t \in buys
  <2>1. IsFiniteSet(buys) /\ Ints(drifts, buys)
    BY <1>3, <1>4, FS_Subset DEF Ints
  <2> HIDE DEF buys
  <2> QED
    BY <2>1, BestIn
<1>6. sells # {} => s \in sells
  <2>1. IsFiniteSet(sells) /\ Ints(Sizes(drifts), sells)
    BY <1>3, <1>4, FS_Subset DEF Ints
  <2> HIDE DEF sells
  <2> QED
    BY <2>1, BestIn
<1> HIDE DEF t, s, c
<1>7. CASE tier = 3 /\ c = SellLargest(b, MaxTradeBps)
  BY <1>4, <1>7, SellLargestAims DEF c, target
<1>8. CASE tier < 2 /\ buys # {} /\ c = Propose(t, "buy", buy)
  <2>1. t \in DOMAIN m /\ drifts[t] > MinDriftBps
    BY <1>5, <1>8
  <2>2. x \in Nat /\ x <= drifts[t]
    BY <1>3, <1>4, <2>1 DEF LeastOf
  <2> HIDE DEF x
  <2>3. buy \in 0 .. x
    <3>1. x \in Int /\ x >= 0 /\ tier \in Nat
      BY <2>2
    <3> QED
      BY <3>1, ScaledDown
  <2> HIDE DEF buy
  <2>4. buy \in Nat /\ b[t] + buy <= target[t]
    BY <1>3, <2>1, <2>2, <2>3
  <2>5. Aims(Propose(t, "buy", buy), target, b, tier)
    BY <1>3, <1>8, <2>1, <2>4, BuyAims
  <2> QED
    BY <1>8, <2>5 DEF c, target
<1>9. CASE sells # {} /\ c = Propose(s, "sell", sell)
  <2>1. s \in DOMAIN m /\ drifts[s] < -MinDriftBps
    BY <1>6, <1>9
  <2>2. sell \in Nat /\ sell <= -drifts[s]
    BY <1>3, <1>4, <2>1 DEF LeastOf
  <2> HIDE DEF sell
  <2>3. target[s] + sell <= b[s] /\ sell <= b[s]
    BY <1>3, <2>1, <2>2
  <2>4. Aims(Propose(s, "sell", sell), target, b, tier)
    BY <1>3, <2>1, <2>2, <2>3, SellAims
  <2> QED
    BY <1>9, <2>4 DEF c, target
<1> QED
  BY <1>1, <1>7, <1>8, <1>9, HoldAims DEF c

-----------------------------------------------------------------------------
(* All strategies. *)

LEMMA DecideAims ==
  ASSUME NEW m, IsMarket(m), NEW b, IsBook(b), IsFiniteSet(Tokens), NEW tier \in 0 .. 3, NEW name
  PROVE  Aims(Decide(name, m, b, tier), Targets(Resolved(name, m), m), b, tier)
<1>1. Resolved(name, m) \in Strategy
  BY DEF Resolved, Strategy
<1> DEFINE r == Resolved(name, m)
<1>2. /\ r = "momentum_rebalance" => Decide(name, m, b, tier) = Momentum(m, b, tier)
      /\ r = "trend_following" => Decide(name, m, b, tier) = Trend(m, b, tier)
      /\ r = "mean_reversion" => Decide(name, m, b, tier) = MeanReversion(m, b, tier)
      /\ r = "volatility_target" => Decide(name, m, b, tier) = VolatilityTarget(m, b, tier)
      /\ r = "breakout" => Decide(name, m, b, tier) = Breakout(m, b, tier)
  BY DEF Decide
<1> HIDE DEF r
<1>3. r \in Strategy
  BY <1>1 DEF r
<1> QED
  BY <1>2, <1>3, MomentumAims, TrendAims, MeanReversionAims, VolatilityTargetAims, BreakoutAims
     DEF Strategy, r

\* No strategy but volatility_target aims beyond its largest position.
LEMMA TargetTyped ==
  ASSUME NEW m, IsMarket(m), NEW name \in Strategy, NEW t \in Tokens
  PROVE  /\ TargetOf(name, m, t) \in Nat
         /\ name # "volatility_target" => TargetOf(name, m, t) <= MaxPosition[name]
<1>1. \A s \in Strategy : MaxPosition[s] \in Nat
  BY SettingsTyped
<1>2. CASE name = "momentum_rebalance"
  <2> DEFINE cap == MaxPosition["momentum_rebalance"]
  <2>1. cap \in Nat /\ (t \in DOMAIN m => Weights(m)[t] \in 0 .. cap)
    BY <1>1, WeightsTyped DEF Strategy
  <2>2. TargetOf(name, m, t) = IF Weak(m) \/ t \notin DOMAIN m THEN 0 ELSE Weights(m)[t]
    BY <1>2 DEF TargetOf
  <2> HIDE DEF cap
  <2>3. TargetOf(name, m, t) \in 0 .. cap
    BY <2>1, <2>2
  <2> QED
    BY <1>2, <2>1, <2>3 DEF cap
<1>3. CASE name = "trend_following"
  <2> DEFINE cap == MaxPosition["trend_following"]
             goal == TrendTarget(Cardinality(Trending(m)))
  <2>1. cap \in Nat /\ (Trending(m) # {} => goal \in 0 .. cap)
    BY <1>1, TrendingTyped, TrendTargetTyped DEF Strategy
  <2>2. TargetOf(name, m, t) = IF t \in Trending(m) THEN goal ELSE 0
    BY <1>3 DEF TargetOf
  <2> HIDE DEF cap, goal
  <2>3. TargetOf(name, m, t) \in 0 .. cap
    BY <2>1, <2>2
  <2> QED
    BY <1>3, <2>1, <2>3 DEF cap
<1>4. CASE name \in {"mean_reversion", "breakout"}
  <2> DEFINE cap == MaxPosition[name]
  <2>1. cap \in Nat
    BY <1>1
  <2>2. TargetOf(name, m, t) \in {0, cap}
    BY <1>4 DEF TargetOf
  <2> HIDE DEF cap
  <2>3. TargetOf(name, m, t) \in 0 .. cap
    BY <2>1, <2>2
  <2> QED
    BY <2>1, <2>3 DEF cap
<1>5. CASE name = "volatility_target"
  BY <1>5, VolTargetsTyped DEF TargetOf
<1> QED
  BY <1>2, <1>3, <1>4, <1>5 DEF Strategy

-----------------------------------------------------------------------------
(* The ticks. *)

(***************************************************************************)
(* What makes NoWhipsaw inductive: as long as the market and the tier      *)
(* stay, what was sold is at or above the position its strategy buys up    *)
(* to.  From tier 2 on nothing is bought.                                  *)
(***************************************************************************)
Released ==
  TierOf(drawdown) < 2 =>
    \A t \in sold : TargetOf(Resolved(strategy, market), market, t) <= book[t]

IInv == TypeOK /\ Released

LEMMA NavTyped == Nav \in Nat
BY DEF Nav

LEMMA BookTyped == ASSUME TypeOK PROVE IsBook(book)
<1> SUFFICES ASSUME NEW t \in Tokens PROVE book[t] \in Nat
  BY DEF TypeOK, IsBook
<1> DEFINE p == book[t]
<1>1. p \in 0 .. Nav
  BY DEF TypeOK
<1> HIDE DEF p
<1>2. p \in Nat
  BY <1>1, NavTyped
<1> QED
  BY <1>2 DEF p

\* The same, when a step of a tick is known to keep the types.
LEMMA NextBookTyped == ASSUME TypeOK' PROVE book' \in [Tokens -> 0 .. Nav]
<1>1. (book \in [Tokens -> 0 .. Nav])'
  BY DEF TypeOK
<1> QED
  BY <1>1

\* The proposal of a tick that trades, and how much of it is traded.
LEMMA TradeAims ==
  ASSUME TypeOK, NEW c, c = Proposal, Accepted(c)
  PROVE  /\ c.token \in Tokens /\ c.dir \in {"buy", "sell"} /\ c.bps \in Nat
         /\ Aims(c, Targets(Resolved(strategy, market), market), book, TierOf(drawdown))
<1>1. IsMarket(market) /\ IsBook(book) /\ IsFiniteSet(Tokens) /\ TierOf(drawdown) \in 0 .. 3
  BY BookTyped, MarketsTyped, TierTyped, RebalanceAssumption DEF TypeOK
<1>2. c # Hold
  BY DEF Accepted, Hold
<1>3. c = Decide(strategy, market, book, TierOf(drawdown))
  BY <1>2 DEF Proposal
<1>4. Aims(c, Targets(Resolved(strategy, market), market), book, TierOf(drawdown))
  BY <1>1, <1>3, DecideAims
<1> QED
  BY <1>2, <1>4 DEF Aims

\* What a trade moves at least, sized or not, is no less than the least sale.
LEMMA LeastMoveTyped ==
  /\ LeastSale \in Nat /\ LeastSale <= MinNotional
  /\ \A c : LeastMove(c) \in Nat /\ LeastSale <= LeastMove(c)
<1> DEFINE units == MinNotional * LeastUnit
<1>1. MinNotional \in Nat /\ LeastUnit \in Nat
  BY SettingsTyped, RebalanceAssumption
<1>2. units \in Nat
  BY <1>1
<1>3. LeastSale = LeastOf(MinNotional, units \div 100)
  BY DEF LeastSale
<1> HIDE DEF units
<1>4. LeastSale \in Nat /\ LeastSale <= MinNotional
  BY <1>1, <1>2, <1>3 DEF LeastOf
<1> HIDE DEF LeastSale
<1> QED
  BY <1>1, <1>4 DEF LeastMove

\* No unit price makes less of a notional than the least one of the least.
LEMMA UnitsMonotone ==
  ASSUME NEW n \in Nat, NEW m \in Nat, m <= n, NEW p \in Nat, NEW l \in Nat, l <= p
  PROVE  (n * p) \div 100 \in Nat /\ (m * l) \div 100 <= (n * p) \div 100
<1> DEFINE small == m * l
           large == n * p
<1>1. small \in Nat /\ large \in Nat
  OBVIOUS
<1>2. small <= large
  <2>1. m * l <= m * p
    OBVIOUS
  <2>2. m * p <= n * p
    OBVIOUS
  <2> QED
    BY <2>1, <2>2
<1> HIDE DEF small, large
<1>3. large \div 100 \in Nat /\ small \div 100 <= large \div 100
  BY <1>1, <1>2
<1> QED
  BY <1>3 DEF small, large

\* A sale whose dollars cannot be made into units may move any part of the
\* position, one that can, and a purchase, no more than is proposed.
LEMMA AmountTyped ==
  ASSUME TypeOK, NEW c, c = Proposal, Accepted(c), NEW n \in Amounts(c)
  PROVE  /\ n \in Nat /\ LeastMove(c) <= n
         /\ Sized(c) => n <= c.bps
         /\ c.dir = "buy" => n <= Cash(book)
         /\ c.dir = "sell" => n <= book[c.token]
<1>1. c.token \in Tokens /\ c.dir \in {"buy", "sell"} /\ c.bps \in Nat
  BY TradeAims
<1>2. book[c.token] \in Nat /\ Cash(book) \in Nat
  <2>1. IsFiniteSet(Tokens) /\ Ints(book, Tokens) /\ DOMAIN book = Tokens
    BY RebalanceAssumption DEF TypeOK, Ints
  <2>2. SumFunctionOnSet(book, Tokens) \in Int
    BY <2>1, SumType
  <2>3. Cash(book) \in Int
    BY <2>1, <2>2 DEF Cash, Worth, SumFunction, Nav
  <2> DEFINE q == Cash(book)
  <2>4. q \in Int /\ q >= 0
    BY <2>3 DEF TypeOK
  <2> HIDE DEF q
  <2>5. q \in Nat
    BY <2>4
  <2> QED
    BY <1>1, <2>5, BookTyped DEF q, IsBook
<1>3. /\ View.nav = 10000 /\ View.held[Base] = Cash(book)
      /\ View.held[c.token] = book[c.token]
  BY <1>1, SettingsTyped DEF View, Nav
<1>4. Asked(c, View) \in Nat /\ Asked(c, View) <= c.bps
  <2> DEFINE cut == LeastOf(c.bps, MaxTradeBps)
  <2>1. cut \in Nat /\ cut <= c.bps
    BY <1>1, SettingsTyped DEF LeastOf
  <2>2. Asked(c, View) = (10000 * cut) \div 10000
    BY <1>3 DEF Asked, Share
  <2> HIDE DEF cut
  <2>3. (10000 * cut) \div 10000 = cut
    BY <2>1
  <2> QED
    BY <2>1, <2>2, <2>3
<1>5. /\ Notional(c, View) \in Nat /\ Notional(c, View) <= Asked(c, View)
      /\ MinNotional <= Notional(c, View)
      /\ c.dir = "buy" => Notional(c, View) <= Cash(book)
  <2> DEFINE risk == RiskOn(View)
             asked == Asked(c, View)
  <2>1. /\ risk \in Int /\ asked \in Nat /\ MinNotional \in Nat
        /\ MaxRiskOnBps \in Nat /\ MaxRiskOnBps <= 10000
        /\ Cash(book) = 10000 - risk
    <3>1. risk = 10000 - Cash(book)
      BY <1>3 DEF RiskOn
    <3>2. MaxRiskOnBps \in Nat /\ MaxRiskOnBps <= 10000 /\ MinNotional \in Nat
      BY SettingsTyped
    <3> HIDE DEF risk
    <3> QED
      BY <1>2, <1>4, <3>1, <3>2
  <2>2. Notional(c, View) >= MinNotional
    BY DEF Accepted, Approved
  <2>3. CASE c.dir = "buy" /\ OverCap(c, View)
    <3>1. 10000 * (risk + asked) > MaxRiskOnBps * 10000
      BY <1>3, <2>3 DEF OverCap
    <3>2. Notional(c, View) = (10000 * MaxRiskOnBps) \div 10000 - risk
      BY <1>3, <2>3 DEF Notional, Headroom, Share
    <3> HIDE DEF risk, asked
    <3>3. (10000 * MaxRiskOnBps) \div 10000 = MaxRiskOnBps
      BY <2>1
    <3> QED
      BY <2>1, <2>2, <3>1, <3>2, <3>3 DEF asked
  <2>4. CASE ~(c.dir = "buy" /\ OverCap(c, View))
    <3>1. Notional(c, View) = asked
      BY <2>4 DEF Notional
    <3>2. c.dir = "buy" => 10000 * (risk + asked) <= MaxRiskOnBps * 10000
      <4>1. c.dir = "buy" => ~(10000 * (risk + asked) > MaxRiskOnBps * 10000)
        BY <1>3, <2>4 DEF OverCap
      <4> HIDE DEF risk, asked
      <4> QED
        BY <2>1, <4>1
    <3> HIDE DEF risk, asked
    <3> QED
      BY <2>1, <2>2, <3>1, <3>2 DEF asked
  <2> QED
    BY <2>3, <2>4
<1> DEFINE limit == IF c.dir = "buy" THEN Cash(book) ELSE book[c.token]
           notional == Notional(c, View)
<1>6. limit \in Nat
  BY <1>2
<1>7. notional \in Nat /\ notional <= c.bps /\ MinNotional <= notional
  BY <1>1, <1>4, <1>5
<1>8. notional <= limit
  <2>1. CASE c.dir = "buy"
    BY <1>5, <2>1
  <2>2. CASE c.dir = "sell"
    <3>1. c.bps <= book[c.token]
      <4>1. Aims(c, Targets(Resolved(strategy, market), market), book, TierOf(drawdown))
        BY TradeAims
      <4>2. c # Hold
        BY <1>1 DEF Hold
      <4> QED
        BY <2>2, <4>1, <4>2 DEF Aims
    <3>2. limit = book[c.token]
      BY <2>2
    <3> HIDE DEF notional, limit
    <3> QED
      BY <1>1, <1>2, <1>7, <3>1, <3>2
  <2> QED
    BY <1>1, <2>1, <2>2
<1> HIDE DEF notional, limit
<1>9. CASE Sized(c)
  <2>1. n = LeastOf(notional, limit)
    BY <1>9 DEF Amounts, notional, limit
  <2>2. LeastMove(c) = MinNotional
    BY <1>9 DEF LeastMove
  <2>3. n \in Nat /\ n <= c.bps /\ n <= limit /\ LeastMove(c) <= n
    BY <1>1, <1>6, <1>7, <1>8, <2>1, <2>2 DEF LeastOf
  <2> QED
    BY <2>3 DEF limit
<1>10. CASE ~Sized(c)
  <2>1. PICK p \in UnitPrices : n = LeastOf((notional * p) \div 100, limit)
    BY <1>10 DEF Amounts, notional, limit
  <2> DEFINE units == (notional * p) \div 100
             least == (MinNotional * LeastUnit) \div 100
  <2>2. MinNotional \in Nat /\ LeastUnit \in Nat /\ p \in Nat /\ LeastUnit <= p
    BY SettingsTyped, RebalanceAssumption
  <2>3. units \in Nat /\ least \in Nat /\ least <= units
    BY <1>7, <2>2, UnitsMonotone
  <2>4. LeastMove(c) = LeastOf(MinNotional, least)
    BY <1>10 DEF LeastMove, LeastSale
  <2>5. n = LeastOf(units, limit)
    BY <2>1
  <2> HIDE DEF units, least
  <2>6. n \in Nat /\ n <= limit /\ LeastMove(c) <= n
    BY <1>6, <1>7, <1>8, <2>2, <2>3, <2>4, <2>5 DEF LeastOf
  <2> QED
    BY <1>10, <2>6 DEF limit
<1> QED
  BY <1>9, <1>10

\* A token that the market does not have is none that a strategy wants.
LEMMA NoTarget ==
  ASSUME NEW m, IsMarket(m), NEW name \in Strategy, NEW t, t \notin DOMAIN m
  PROVE  TargetOf(name, m, t) = 0
<1>1. t \notin Trending(m) /\ t \notin Cheap(m) /\ t \notin Escaped(m)
  BY DEF Trending, Cheap, Escaped
<1> QED
  BY <1>1 DEF TargetOf, Strategy

\* What a trade does to the book: one position changes, no further than to
\* where its strategy aims and by no more than there is, and by LeastMove.
LEMMA TradeMoves ==
  ASSUME TypeOK, Trade
  PROVE  \E t \in Tokens, n \in Nat :
           LET target == TargetOf(Resolved(strategy, market), market, t) IN
           /\ LeastMove(Proposal) <= n
           /\ \/ /\ TierOf(drawdown) < 2 /\ book[t] + n <= target /\ n <= Cash(book)
                 /\ book' = [book EXCEPT ![t] = @ + n] /\ sold' = sold
              \/ /\ n <= book[t]
                 /\ TierOf(drawdown) < 2 => target + n <= book[t]
                 /\ book' = [book EXCEPT ![t] = @ - n] /\ sold' = sold \cup {t}
<1> DEFINE c == Proposal
           t == c.token
           target == TargetOf(Resolved(strategy, market), market, t)
           targets == Targets(Resolved(strategy, market), market)
<1>1. Accepted(c)
  BY DEF Trade
<1>2. PICK n \in Amounts(c) :
        \/ c.dir = "buy" /\ book' = [book EXCEPT ![t] = @ + n] /\ sold' = sold
        \/ c.dir # "buy" /\ book' = [book EXCEPT ![t] = @ - n] /\ sold' = sold \cup {t}
  BY DEF Trade
<1> HIDE DEF c
<1>3. c = Proposal
  BY DEF c
<1>4. /\ t \in Tokens /\ c.dir \in {"buy", "sell"} /\ c.bps \in Nat
      /\ Aims(c, targets, book, TierOf(drawdown))
  BY <1>1, <1>3, TradeAims
<1>5. /\ n \in Nat /\ LeastMove(c) <= n
      /\ Sized(c) => n <= c.bps
      /\ c.dir = "buy" => n <= Cash(book)
      /\ c.dir = "sell" => n <= book[t]
  BY <1>1, <1>3, AmountTyped
<1>6. targets[t] = target
  BY <1>4 DEF Targets
<1>7. c # Hold
  BY <1>4 DEF Hold
<1>8. /\ c.dir = "buy" => TierOf(drawdown) < 2 /\ book[t] + c.bps <= target
      /\ c.dir = "sell" /\ TierOf(drawdown) < 2 => target + c.bps <= book[t]
  BY <1>4, <1>6, <1>7 DEF Aims
<1>9. book[t] \in Int
  BY <1>4 DEF TypeOK
<1>10. target \in Nat
  <2>1. Resolved(strategy, market) \in Strategy /\ IsMarket(market)
    BY MarketsTyped DEF Resolved, Strategy, TypeOK
  <2> QED
    BY <1>4, <2>1, TargetTyped
<1>11. ~Sized(c) => c.dir # "buy" /\ target = 0
  <2>1. Resolved(strategy, market) \in Strategy /\ IsMarket(market)
    BY MarketsTyped DEF Resolved, Strategy, TypeOK
  <2> QED
    BY <2>1, NoTarget DEF Sized
<1> HIDE DEF target, targets, t
<1>12. CASE c.dir = "buy"
  <2>1. book[t] + n <= target
    BY <1>4, <1>5, <1>8, <1>9, <1>10, <1>12, <1>11
  <2> QED
    BY <1>2, <1>3, <1>4, <1>5, <1>8, <1>12, <2>1 DEF target
<1>13. CASE c.dir = "sell"
  <2>1. TierOf(drawdown) < 2 => target + n <= book[t]
    BY <1>4, <1>5, <1>8, <1>9, <1>10, <1>13, <1>11
  <2> QED
    BY <1>2, <1>3, <1>4, <1>5, <1>13, <2>1 DEF target
<1> QED
  BY <1>4, <1>12, <1>13

\* A book of natural numbers that sums up to no more than NAV.
LEMMA BookBounded ==
  ASSUME NEW b, IsBook(b), Worth(b) <= Nav
  PROVE  b \in [Tokens -> 0 .. Nav] /\ Cash(b) >= 0
<1>1. IsFiniteSet(Tokens) /\ Nats(b, Tokens) /\ Ints(b, Tokens) /\ DOMAIN b = Tokens
  BY RebalanceAssumption DEF IsBook, Nats, Ints
<1>2. Worth(b) = SumFunctionOnSet(b, Tokens)
  BY <1>1 DEF Worth, SumFunction
<1>3. Worth(b) \in Int
  BY <1>1, <1>2, SumType
<1>4. ASSUME NEW t \in Tokens PROVE b[t] \in 0 .. Nav
  <2> DEFINE p == b[t]
             w == Worth(b)
  <2>1. p <= w /\ p \in Nat
    BY <1>1, <1>2, SumBounds DEF IsBook
  <2>2. w \in Int /\ w <= Nav
    BY <1>3
  <2> HIDE DEF p, w
  <2>3. p \in 0 .. Nav
    BY ONLY <2>1, <2>2, NavTyped
  <2> QED
    BY <2>3 DEF p
<1>5. Cash(b) >= 0
  <2> DEFINE w == Worth(b)
  <2>1. w \in Int /\ w <= 10000 /\ Cash(b) = 10000 - w
    BY <1>3 DEF Cash, Nav
  <2> HIDE DEF w
  <2> QED
    BY <2>1
<1> QED
  BY <1>4, <1>5 DEF IsBook

\* A position that changes changes the worth of the book by as much.
LEMMA WorthChange ==
  ASSUME NEW b, IsBook(b), NEW t \in Tokens, NEW v \in Nat,
         NEW d, d = [b EXCEPT ![t] = v]
  PROVE  /\ IsBook(d) /\ b[t] \in Nat /\ Worth(b) \in Nat
         /\ Worth(d) = Worth(b) + v - b[t]
<1>1. IsBook(d) /\ d[t] = v /\ \A u \in Tokens \ {t} : b[u] = d[u]
  BY DEF IsBook
<1>2. IsFiniteSet(Tokens) /\ Nats(b, Tokens) /\ Ints(b, Tokens) /\ Ints(d, Tokens)
  BY <1>1, RebalanceAssumption DEF IsBook, Nats, Ints
<1>3. DOMAIN b = Tokens /\ DOMAIN d = Tokens
  BY <1>1 DEF IsBook
<1>4. SumFunctionOnSet(d, Tokens) = SumFunctionOnSet(b, Tokens) + d[t] - b[t]
  <2>1. \A u \in Tokens \ {t} : b[u] = d[u]
    BY <1>1
  <2> QED
    BY ONLY <1>2, <2>1, t \in Tokens, SumChange
<1>5. SumFunctionOnSet(b, Tokens) \in Nat
  BY <1>2, SumType
<1> QED
  BY <1>1, <1>3, <1>4, <1>5 DEF Worth, SumFunction, IsBook

LEMMA InitInv == Init => IInv
<1> SUFFICES ASSUME Init PROVE IInv
  OBVIOUS
<1>1. book \in [Tokens -> 0 .. Nav] /\ Cash(book) >= 0
  <2>1. IsBook(book) /\ Worth(book) <= Nav
    BY RebalanceAssumption DEF Init, IsBook, Worth, Nav
  <2> QED
    BY <2>1, BookBounded
<1>2. moves \in 0 .. MaxMoves /\ trades \in Nat
  BY RebalanceAssumption DEF Init
<1> QED
  BY <1>1, <1>2 DEF Init, IInv, TypeOK, Released

LEMMA TradeKeeps == ASSUME IInv, Trade PROVE IInv'
<1> DEFINE name == Resolved(strategy, market)
           Target(u) == TargetOf(name, market, u)
<1>1. TypeOK /\ Released
  BY DEF IInv
<1>2. UNCHANGED <<strategy, market, drawdown, moves>> /\ trades' = trades + 1
  BY DEF Trade
<1>3. PICK t \in Tokens, n \in Nat :
        \/ /\ TierOf(drawdown) < 2 /\ book[t] + n <= Target(t) /\ n <= Cash(book)
           /\ book' = [book EXCEPT ![t] = @ + n] /\ sold' = sold
        \/ /\ n <= book[t]
           /\ TierOf(drawdown) < 2 => Target(t) + n <= book[t]
           /\ book' = [book EXCEPT ![t] = @ - n] /\ sold' = sold \cup {t}
  BY <1>1, TradeMoves
<1>4. IsBook(book) /\ book[t] \in Nat
  BY <1>1, BookTyped DEF IsBook
<1>5. Released' = (TierOf(drawdown) < 2 => \A u \in sold' : Target(u) <= book'[u])
  BY <1>2 DEF Released
<1>6. TierOf(drawdown) < 2 => \A u \in sold : Target(u) <= book[u]
  BY <1>1 DEF Released
<1>7. \A u \in Tokens : Target(u) \in Nat
  <2>1. name \in Strategy /\ IsMarket(market)
    BY <1>1, MarketsTyped DEF Resolved, Strategy, TypeOK
  <2> HIDE DEF name
  <2> QED
    BY <2>1, TargetTyped
<1>8. sold \subseteq Tokens /\ trades \in Nat
  BY <1>1 DEF TypeOK
<1> HIDE DEF Target
<1>9. CASE /\ TierOf(drawdown) < 2 /\ book[t] + n <= Target(t) /\ n <= Cash(book)
           /\ book' = [book EXCEPT ![t] = @ + n] /\ sold' = sold
  <2> DEFINE v == book[t] + n
  <2>1. v \in Nat /\ book' = [book EXCEPT ![t] = v]
    BY <1>4, <1>9
  <2> HIDE DEF v
  <2>2. /\ IsBook(book') /\ Worth(book) \in Nat
        /\ Worth(book') = Worth(book) + v - book[t]
    BY <1>4, <2>1, WorthChange
  <2>3. Worth(book') <= Nav
    <3> DEFINE w == Worth(book)
    <3>1. n <= 10000 - w
      BY <1>9 DEF Cash, Nav
    <3>2. Worth(book') = w + n
      BY <1>4, <2>2 DEF v
    <3> HIDE DEF w
    <3> QED
      BY <2>2, <3>1, <3>2 DEF Nav, w
  <2>4. \A u \in sold : book[u] <= book'[u]
    <3> SUFFICES ASSUME NEW u \in sold PROVE book[u] <= book'[u]
      OBVIOUS
    <3>1. book[u] \in Nat
      BY <1>4, <1>8 DEF IsBook
    <3> QED
      BY <1>4, <1>8, <2>1, <3>1 DEF v, IsBook
  <2>5. Released'
    <3> SUFFICES ASSUME TierOf(drawdown) < 2, NEW u \in sold
                 PROVE  Target(u) <= book'[u]
      BY <1>5, <1>9
    <3>1. Target(u) <= book[u] /\ book[u] <= book'[u]
      BY <1>6, <2>4
    <3>2. book[u] \in Nat /\ book'[u] \in Nat /\ Target(u) \in Nat
      BY <1>4, <1>7, <1>8, <2>2 DEF IsBook
    <3> QED
      BY <3>1, <3>2
  <2>6. book' \in [Tokens -> 0 .. Nav] /\ (Cash(book) >= 0)'
    BY <2>2, <2>3, BookBounded
  <2>7. /\ strategy' \in Names /\ market' \in Markets /\ drawdown' \in Drawdowns
        /\ moves' \in 0 .. MaxMoves /\ sold' \subseteq Tokens /\ trades' \in Nat
    BY <1>1, <1>2, <1>8, <1>9 DEF TypeOK
  <2>8. TypeOK'
    BY ONLY <2>6, <2>7 DEF TypeOK
  <2> QED
    BY ONLY <2>5, <2>8 DEF IInv
<1>10. CASE /\ n <= book[t]
            /\ TierOf(drawdown) < 2 => Target(t) + n <= book[t]
            /\ book' = [book EXCEPT ![t] = @ - n] /\ sold' = sold \cup {t}
  <2> DEFINE v == book[t] - n
  <2>1. v \in Nat /\ v <= book[t] /\ book' = [book EXCEPT ![t] = v]
    BY <1>4, <1>10
  <2>2. TierOf(drawdown) < 2 => Target(t) <= v
    BY <1>4, <1>7, <1>10
  <2> HIDE DEF v
  <2>3. /\ IsBook(book') /\ Worth(book) \in Nat
        /\ Worth(book') = Worth(book) + v - book[t]
    BY <1>4, <2>1, WorthChange
  <2>4. Worth(book') <= Nav
    <3> DEFINE w == Worth(book)
    <3>1. w \in Nat /\ w <= 10000
      <4>1. Cash(book) >= 0
        BY <1>1 DEF TypeOK
      <4>2. Cash(book) = 10000 - w /\ w \in Nat
        BY <2>3 DEF Cash, Nav
      <4> HIDE DEF w
      <4> QED
        BY <4>1, <4>2
    <3>2. Worth(book') = w + v - book[t]
      BY <2>3
    <3> HIDE DEF w
    <3> QED
      BY <1>4, <2>1, <3>1, <3>2 DEF Nav
  <2>5. Released'
    <3> SUFFICES ASSUME TierOf(drawdown) < 2, NEW u \in sold \cup {t}
                 PROVE  Target(u) <= book'[u]
      BY <1>5, <1>10
    <3>1. CASE u = t
      BY <1>4, <2>1, <2>2, <3>1 DEF IsBook
    <3>2. CASE u # t
      BY <1>4, <1>6, <1>8, <2>1, <3>2 DEF IsBook
    <3> QED
      BY <3>1, <3>2
  <2>6. book' \in [Tokens -> 0 .. Nav] /\ (Cash(book) >= 0)'
    BY <2>3, <2>4, BookBounded
  <2>7. /\ strategy' \in Names /\ market' \in Markets /\ drawdown' \in Drawdowns
        /\ moves' \in 0 .. MaxMoves /\ sold' \subseteq Tokens /\ trades' \in Nat
    BY <1>1, <1>2, <1>8, <1>10 DEF TypeOK
  <2>8. TypeOK'
    BY ONLY <2>6, <2>7 DEF TypeOK
  <2> QED
    BY ONLY <2>5, <2>8 DEF IInv
<1> QED
  BY <1>3, <1>9, <1>10

LEMMA StepInv == IInv /\ [Next]_vars => IInv'
<1> SUFFICES ASSUME IInv, [Next]_vars PROVE IInv'
  OBVIOUS
<1>1. CASE Trade
  BY <1>1, TradeKeeps
<1>2. CASE Move
  <2>1. Released'
    BY <1>2 DEF Move, Released
  <2>2. moves' \in 0 .. MaxMoves
    <3>1. MaxMoves \in Nat
      BY RebalanceAssumption
    <3>2. moves \in 0 .. MaxMoves /\ moves < MaxMoves /\ moves' = moves + 1
      BY <1>2 DEF Move, IInv, TypeOK
    <3> QED
      BY ONLY <3>1, <3>2
  <2>3. book' = book /\ Cash(book)' = Cash(book) /\ Nav' = Nav
    BY <1>2 DEF Move, Cash, Worth, Nav
  <2>4. TypeOK'
    <3>1. TypeOK
      BY DEF IInv
    <3>2. /\ strategy' = strategy /\ market' \in Markets /\ drawdown' \in Drawdowns
          /\ sold' = {} /\ trades' = 0
      BY <1>2 DEF Move
    <3> QED
      BY ONLY <2>2, <2>3, <3>1, <3>2 DEF TypeOK
  <2> QED
    BY <2>1, <2>4 DEF IInv
<1>3. CASE UNCHANGED vars
  <2>1. UNCHANGED <<strategy, market, book, drawdown, moves, sold, trades>>
    BY <1>3 DEF vars, history
  <2>2. Cash(book)' = Cash(book) /\ Nav' = Nav
    BY <2>1 DEF Cash, Worth, Nav
  <2>3. TypeOK'
    BY <2>1, <2>2 DEF IInv, TypeOK
  <2>4. Released'
    BY <2>1 DEF IInv, Released
  <2> QED
    BY <2>3, <2>4 DEF IInv
<1> QED
  BY <1>1, <1>2, <1>3 DEF Next, Tick, Pass

THEOREM IInvInvariance == Spec => []IInv
<1>1. Init => IInv
  BY InitInv
<1>2. IInv /\ [Next]_vars => IInv'
  BY StepInv
<1> QED
  BY <1>1, <1>2, PTL DEF Spec

\* No trade spends more than the cash or sells more than is held, and
\* positions and cash always add up to NAV (portfolio.py, risk.py:54-84).
THEOREM BooksTyped == Spec => []TypeOK
<1>1. IInv => TypeOK
  BY DEF IInv
<1> QED
  BY <1>1, IInvInvariance, PTL

\* In tiers 2 and 3 every trade of every strategy is a sale
\* (strategies/*.py, `tier >= 2`).
THEOREM TierSafe == Spec => NoRiskAddedInTier2
<1>1. IInv /\ [Next]_vars =>
        [Trade /\ TierOf(drawdown) >= 2 => Worth(book') <= Worth(book)]_vars
  <2> SUFFICES ASSUME TypeOK, Trade, TierOf(drawdown) >= 2
               PROVE  Worth(book') <= Worth(book)
    BY DEF IInv
  <2>1. PICK t \in Tokens, n \in Nat :
          /\ n <= book[t] /\ book' = [book EXCEPT ![t] = @ - n]
    <3>1. ~(TierOf(drawdown) < 2)
      <4> DEFINE tier == TierOf(drawdown)
      <4>1. tier \in 0 .. 3 /\ tier >= 2
        BY TierTyped
      <4> HIDE DEF tier
      <4> QED
        BY <4>1 DEF tier
    <3> QED
      BY <3>1, TradeMoves
  <2>2. IsBook(book) /\ book[t] \in Nat
    BY BookTyped DEF IsBook
  <2> DEFINE v == book[t] - n
  <2>3. v \in Nat /\ v <= book[t] /\ book' = [book EXCEPT ![t] = v]
    BY <2>1, <2>2
  <2> HIDE DEF v
  <2>4. Worth(book) \in Nat /\ Worth(book') = Worth(book) + v - book[t]
    BY <2>2, <2>3, WorthChange
  <2> QED
    BY <2>2, <2>3, <2>4
<1> QED
  BY <1>1, IInvInvariance, PTL DEF Spec, NoRiskAddedInTier2

\* No purchase goes past the largest position of the strategy that asked for
\* it, whatever Keel and the tier make of its size.
THEOREM CapsSafe == Spec => PositionsCapped
<1> DEFINE Capped ==
      Trade => \A t \in Tokens : book'[t] > book[t] =>
        LET name == Resolved(strategy, market) IN
        name # "volatility_target" => book'[t] <= MaxPosition[name]
<1>1. IInv /\ [Next]_vars => [Capped]_vars
  <2> DEFINE name == Resolved(strategy, market)
  <2> SUFFICES ASSUME TypeOK, Trade, NEW t \in Tokens, book'[t] > book[t],
                      name # "volatility_target"
               PROVE  book'[t] <= MaxPosition[name]
    BY DEF IInv
  <2>1. PICK u \in Tokens, n \in Nat :
          \/ /\ book[u] + n <= TargetOf(name, market, u)
             /\ book' = [book EXCEPT ![u] = @ + n]
          \/ n <= book[u] /\ book' = [book EXCEPT ![u] = @ - n]
    BY TradeMoves
  <2>2. IsBook(book) /\ book[t] \in Nat /\ book[u] \in Nat
    BY BookTyped DEF IsBook
  <2>3. /\ t = u /\ book'[t] = book[t] + n
        /\ book[t] + n <= TargetOf(name, market, t)
    BY <2>1, <2>2 DEF IsBook
  <2>4. name \in Strategy /\ IsMarket(market)
    BY MarketsTyped DEF Resolved, Strategy, TypeOK
  <2> HIDE DEF name
  <2>5. /\ TargetOf(name, market, t) \in Nat
        /\ TargetOf(name, market, t) <= MaxPosition[name]
    BY <2>4, TargetTyped
  <2>6. MaxPosition[name] \in Nat
    BY <2>4, SettingsTyped
  <2> QED
    BY <2>2, <2>3, <2>5, <2>6
<1> QED
  BY <1>1, IInvInvariance, PTL DEF Spec, PositionsCapped

\* What a strategy has sold it does not buy back while the market stays.
THEOREM NothingBoughtBack == Spec => NoWhipsaw
<1> DEFINE Kept == Trade => \A t \in sold : book'[t] <= book[t]
<1>1. IInv /\ [Next]_vars => [Kept]_vars
  <2> SUFFICES ASSUME TypeOK, Released, Trade, NEW t \in sold
               PROVE  book'[t] <= book[t]
    BY DEF IInv
  <2> DEFINE name == Resolved(strategy, market)
             Target(u) == TargetOf(name, market, u)
  <2>1. PICK u \in Tokens, n \in Nat :
          \/ /\ TierOf(drawdown) < 2 /\ book[u] + n <= Target(u)
             /\ book' = [book EXCEPT ![u] = @ + n]
          \/ n <= book[u] /\ book' = [book EXCEPT ![u] = @ - n]
    BY TradeMoves
  <2>2. t \in Tokens
    BY DEF TypeOK
  <2>3. IsBook(book) /\ book[t] \in Nat /\ book[u] \in Nat
    BY <2>2, BookTyped DEF IsBook
  <2>4. CASE u # t
    BY <2>1, <2>2, <2>3, <2>4 DEF IsBook
  <2>5. CASE u = t /\ book' = [book EXCEPT ![u] = @ - n]
    BY <2>2, <2>3, <2>5 DEF IsBook
  <2>6. CASE u = t /\ TierOf(drawdown) < 2 /\ book[u] + n <= Target(u)
             /\ book' = [book EXCEPT ![u] = @ + n]
    <3>1. Target(t) <= book[t]
      BY <2>6 DEF Released
    <3>2. Target(t) \in Nat
      <4>1. name \in Strategy /\ IsMarket(market)
        BY MarketsTyped DEF Resolved, Strategy, TypeOK
      <4> HIDE DEF name
      <4> QED
        BY <2>2, <4>1, TargetTyped
    <3>3. book'[t] = book[t] + n
      BY <2>2, <2>3, <2>6 DEF IsBook
    <3> HIDE DEF Target
    <3> QED
      BY <2>3, <2>6, <3>1, <3>2, <3>3
  <2> QED
    BY <2>1, <2>4, <2>5, <2>6
<1> QED
  BY <1>1, IInvInvariance, PTL DEF Spec, NoWhipsaw

-----------------------------------------------------------------------------
(* Coming to rest. *)

\* What each token adds to the distance of a book from rest.
Far(b, s) == [t \in Tokens |-> IF t \in s THEN b[t] ELSE 2 * Nav - b[t]]

LEMMA DistanceSum ==
  /\ Distance = SumFunctionOnSet(Far(book, sold), Tokens)
  /\ Distance' = SumFunctionOnSet(Far(book', sold'), Tokens)
<1>1. DOMAIN Far(book, sold) = Tokens /\ DOMAIN Far(book', sold') = Tokens
  BY DEF Far
<1>2. Distance = SumFunction(Far(book, sold)) /\ Distance' = SumFunction(Far(book', sold'))
  BY DEF Distance, Far, Nav
<1> QED
  BY <1>1, <1>2 DEF SumFunction

LEMMA FarTyped ==
  ASSUME NEW b, IsBook(b), NEW s
  PROVE  /\ IsFiniteSet(Tokens) /\ Ints(Far(b, s), Tokens)
         /\ (\A t \in Tokens : b[t] <= Nav) => Nats(Far(b, s), Tokens)
<1>1. ASSUME NEW t \in Tokens
      PROVE  Far(b, s)[t] \in Int /\ (b[t] <= Nav => Far(b, s)[t] \in Nat)
  <2> DEFINE p == b[t]
             d == Far(b, s)[t]
  <2>1. p \in Nat /\ (t \in s => d = p) /\ (t \notin s => d = 20000 - p)
    BY DEF IsBook, Far, Nav
  <2> HIDE DEF p, d
  <2>2. d \in Int /\ (p <= 10000 => d \in Nat)
    BY <2>1
  <2> QED
    BY <2>2 DEF p, d, Nav
<1> QED
  BY <1>1, RebalanceAssumption DEF Ints, Nats

\* The token traded comes closer to rest by as much as is traded of it, and
\* the others stay: one that was sold is only sold further.
LEMMA TradeSettles == ASSUME IInv, Trade PROVE Distance' + LeastMove(Proposal) <= Distance
<1> DEFINE least == LeastMove(Proposal)
           Target(u) == TargetOf(Resolved(strategy, market), market, u)
           f == Far(book, sold)
           g == Far(book', sold')
<1>1. PICK t \in Tokens, n \in Nat :
        /\ least <= n
        /\ \/ /\ TierOf(drawdown) < 2 /\ book[t] + n <= Target(t)
              /\ book' = [book EXCEPT ![t] = @ + n] /\ sold' = sold
           \/ /\ n <= book[t]
              /\ book' = [book EXCEPT ![t] = @ - n] /\ sold' = sold \cup {t}
  BY TradeMoves DEF IInv
<1> DEFINE p == book[t]
<1>2. IsBook(book) /\ IsBook(book') /\ p \in Nat /\ p <= Nav
  <2>1. TypeOK /\ TypeOK'
    BY TradeKeeps DEF IInv
  <2>2. IsBook(book) /\ p \in 0 .. Nav
    BY <2>1, BookTyped DEF TypeOK
  <2>3. IsBook(book')
    <3>1. book' \in [Tokens -> 0 .. Nav]
      BY <2>1, NextBookTyped
    <3>2. \A q \in 0 .. Nav : q \in Nat
      BY NavTyped
    <3> QED
      BY <3>1, <3>2 DEF IsBook
  <2> HIDE DEF p
  <2> QED
    BY <2>2, <2>3, NavTyped
<1>3. t \in sold /\ TierOf(drawdown) < 2 => Target(t) <= p
  BY DEF IInv, Released
<1>4. Target(t) \in Nat /\ least \in Nat
  <2>1. Resolved(strategy, market) \in Strategy /\ IsMarket(market)
    BY MarketsTyped DEF Resolved, Strategy, IInv, TypeOK
  <2> QED
    BY <2>1, TargetTyped, LeastMoveTyped
<1>5. /\ IsFiniteSet(Tokens) /\ Ints(f, Tokens) /\ Ints(g, Tokens)
      /\ f[t] \in Int /\ g[t] \in Int
  <2>1. IsFiniteSet(Tokens) /\ Ints(f, Tokens) /\ Ints(g, Tokens)
    BY <1>2, FarTyped
  <2> HIDE DEF f, g
  <2> QED
    BY <2>1 DEF Ints
<1>6. \A u \in Tokens \ {t} : f[u] = g[u]
  <2> SUFFICES ASSUME NEW u \in Tokens \ {t} PROVE f[u] = g[u]
    OBVIOUS
  <2>1. book'[u] = book[u] /\ (u \in sold' <=> u \in sold)
    BY <1>1, <1>2 DEF IsBook
  <2> QED
    BY <2>1 DEF Far
<1>7. g[t] + least <= f[t]
  <2>1. /\ f[t] = IF t \in sold THEN p ELSE 20000 - p
        /\ g[t] = IF t \in sold' THEN book'[t] ELSE 20000 - book'[t]
    BY DEF Far, Nav
  <2>2. p <= 10000
    BY <1>2 DEF Nav
  <2>3. CASE /\ TierOf(drawdown) < 2 /\ book[t] + n <= Target(t)
             /\ book' = [book EXCEPT ![t] = @ + n] /\ sold' = sold
    <3>1. book'[t] = p + n /\ p + n <= Target(t)
      BY <1>2, <2>3 DEF IsBook
    <3>2. t \in sold => Target(t) <= p
      BY <1>3, <2>3
    <3>3. f[t] = IF t \in sold THEN p ELSE 20000 - p
      BY <2>1
    <3>4. g[t] = IF t \in sold THEN p + n ELSE 20000 - (p + n)
      BY <2>1, <2>3, <3>1
    <3> HIDE DEF p, f, g, Target, least
    <3> QED
      BY <1>1, <1>2, <1>4, <3>1, <3>2, <3>3, <3>4
  <2>4. CASE /\ n <= book[t]
             /\ book' = [book EXCEPT ![t] = @ - n] /\ sold' = sold \cup {t}
    <3>1. book'[t] = p - n
      BY <1>2, <2>4 DEF IsBook
    <3>2. f[t] = IF t \in sold THEN p ELSE 20000 - p
      BY <2>1
    <3>3. g[t] = p - n
      BY <2>1, <2>4, <3>1
    <3> HIDE DEF p, f, g, Target, least
    <3> QED
      BY <1>1, <1>2, <1>4, <2>2, <3>2, <3>3
  <2> QED
    BY <1>1, <2>3, <2>4
<1> HIDE DEF f, g
<1> DEFINE a == SumFunctionOnSet(f, Tokens)
           z == SumFunctionOnSet(g, Tokens)
<1>8. z = a + g[t] - f[t]
  BY ONLY t \in Tokens, <1>5, <1>6, SumChange
<1>9. a \in Int /\ z \in Int
  BY <1>5, SumType
<1>10. z + least <= a
  <2> HIDE DEF a, z, least
  <2> QED
    BY <1>4, <1>5, <1>7, <1>8, <1>9
<1> QED
  BY <1>10, DistanceSum DEF f, g, least

\* Every trade in an unchanged market brings the book closer to rest, by the
\* least notional Keel lets pass, and where a token has no price by as many
\* of its units as the least notional has dollars, or by all there is.
THEOREM EveryTradeCounts == Spec => EveryTradeSettles
<1>1. IInv /\ [Next]_vars => [Trade => Distance' + LeastMove(Proposal) <= Distance]_vars
  BY TradeSettles
<1> QED
  BY <1>1, IInvInvariance, PTL DEF Spec, EveryTradeSettles

\* What is left of the way to rest, and the way that was made.
Progress ==
  /\ Distance \in Nat
  /\ trades * LeastSale + Distance <= 2 * Nav * Cardinality(Tokens)

LEMMA FarBounds ==
  ASSUME NEW b, b \in [Tokens -> 0 .. Nav], NEW s
  PROVE  /\ SumFunctionOnSet(Far(b, s), Tokens) \in Nat
         /\ SumFunctionOnSet(Far(b, s), Tokens) <= 2 * Nav * Cardinality(Tokens)
<1> DEFINE f == Far(b, s)
<1>1. IsBook(b) /\ \A t \in Tokens : b[t] \in Nat /\ b[t] <= Nav
  <2>1. \A q \in 0 .. Nav : q \in Nat /\ q <= Nav
    BY NavTyped
  <2>2. \A t \in Tokens : b[t] \in 0 .. Nav
    OBVIOUS
  <2>3. \A t \in Tokens : b[t] \in Nat /\ b[t] <= Nav
    BY <2>1, <2>2
  <2> QED
    BY <2>3 DEF IsBook
<1>2. IsFiniteSet(Tokens) /\ Ints(f, Tokens) /\ Nats(f, Tokens)
  BY <1>1, FarTyped
<1>3. \A t \in Tokens : f[t] <= 20000
  <2> SUFFICES ASSUME NEW t \in Tokens PROVE f[t] <= 20000
    OBVIOUS
  <2> DEFINE p == b[t]
             d == f[t]
  <2>1. p \in Nat /\ p <= 10000 /\ d = IF t \in s THEN p ELSE 20000 - p
    BY <1>1 DEF Far, Nav
  <2> HIDE DEF p, d
  <2>2. d <= 20000
    BY <2>1
  <2> QED
    BY <2>2 DEF d
<1> HIDE DEF f
<1>4. SumFunctionOnSet(f, Tokens) \in Nat
  BY <1>2, SumType
<1>5. SumFunctionOnSet(f, Tokens) <= 20000 * Cardinality(Tokens)
  <2>1. 20000 \in Int
    OBVIOUS
  <2> QED
    BY <1>2, <1>3, <2>1, SumAtMost
<1>6. 2 * Nav = 20000
  BY DEF Nav
<1> QED
  BY <1>4, <1>5, <1>6 DEF f

LEMMA DistanceBounds ==
  /\ TypeOK => Distance \in Nat /\ Distance <= 2 * Nav * Cardinality(Tokens)
  /\ TypeOK' => Distance' \in Nat /\ Distance' <= 2 * Nav * Cardinality(Tokens)
<1>1. /\ TypeOK => book \in [Tokens -> 0 .. Nav]
      /\ TypeOK' => book' \in [Tokens -> 0 .. Nav]
  <2>1. TypeOK => book \in [Tokens -> 0 .. Nav]
    BY DEF TypeOK
  <2>2. TypeOK' => book' \in [Tokens -> 0 .. Nav]
    BY NextBookTyped
  <2> QED
    BY <2>1, <2>2
<1> QED
  BY <1>1, FarBounds, DistanceSum

\* So an unchanged market has no more trades than twice NAV holds least
\* sales, for each token, whatever the strategy and its settings are; the
\* least sale is the least notional, unless a token that has no price may be
\* worth less than a dollar.
THEOREM TradesRunOut ==
  Spec => [](trades * LeastSale <= 2 * Nav * Cardinality(Tokens))
<1> DEFINE Limit == 2 * Nav * Cardinality(Tokens)
<1>0. LeastSale \in Nat /\ Limit \in Int
  <2>1. Cardinality(Tokens) \in Nat
    BY RebalanceAssumption, FS_CardinalityType
  <2> QED
    BY <2>1, LeastMoveTyped, NavTyped
<1>1. Init => Progress
  <2> SUFFICES ASSUME Init PROVE Progress
    OBVIOUS
  <2>1. Distance \in Nat /\ Distance <= Limit
    BY InitInv, DistanceBounds DEF IInv
  <2>2. trades = 0
    BY DEF Init
  <2>3. trades * LeastSale = 0
    BY <1>0, <2>2
  <2> QED
    BY <2>1, <2>3 DEF Progress
<1>2. IInv /\ Progress /\ [Next]_vars => Progress'
  <2> SUFFICES ASSUME IInv, Progress, [Next]_vars PROVE Progress'
    OBVIOUS
  <2>0. Progress' <=> /\ Distance' \in Nat
                      /\ trades' * LeastSale + Distance' <= Limit
    BY DEF Progress, Nav
  <2>1. TypeOK' /\ Limit' = Limit
    BY StepInv DEF IInv, Nav
  <2>2. Distance' \in Nat /\ Distance' <= Limit
    BY <2>1, DistanceBounds
  <2>3. /\ Distance \in Nat /\ trades \in Nat
        /\ trades * LeastSale + Distance <= Limit
    BY DEF Progress, IInv, TypeOK
  <2> HIDE DEF Limit
  <2>4. CASE Trade
    <3> DEFINE least == LeastMove(Proposal)
    <3>0. least \in Nat /\ LeastSale <= least /\ Distance' + least <= Distance
      BY <2>4, TradeSettles, LeastMoveTyped
    <3> HIDE DEF least
    <3>1. trades' = trades + 1 /\ Distance' + LeastSale <= Distance
      <4> DEFINE now == Distance
                 after == Distance'
      <4>1. now \in Nat /\ after \in Nat /\ after + least <= now
        BY <2>2, <2>3, <3>0
      <4> HIDE DEF now, after
      <4>2. after + LeastSale <= now
        BY <1>0, <3>0, <4>1
      <4> QED
        BY <2>4, <4>2 DEF Trade, now, after
    <3>2. (trades + 1) * LeastSale = trades * LeastSale + LeastSale
      BY <1>0, <2>3
    <3> DEFINE made == trades * LeastSale
               now == Distance
               after == Distance'
    <3>3. made \in Int /\ now \in Int /\ after \in Int
      BY <1>0, <2>2, <2>3
    <3>4. made + now <= Limit /\ after + LeastSale <= now
      BY <2>3, <3>1
    <3> HIDE DEF made, now, after
    <3>5. made + LeastSale + after <= Limit
      BY <1>0, <3>3, <3>4
    <3> QED
      BY <2>0, <2>2, <3>1, <3>2, <3>5 DEF made, after
  <2>5. CASE Move
    <3>1. trades' * LeastSale = 0
      BY <1>0, <2>5 DEF Move
    <3> QED
      BY <2>0, <2>2, <3>1
  <2>6. CASE UNCHANGED vars
    <3>1. trades' = trades /\ Distance' = Distance
      BY <2>6 DEF vars, history, Distance, Nav
    <3> QED
      BY <2>0, <2>3, <3>1
  <2> QED
    BY <2>4, <2>5, <2>6 DEF Next, Tick, Pass
<1>3. IInv /\ Progress => trades * LeastSale <= Limit
  <2> SUFFICES ASSUME IInv, Progress PROVE trades * LeastSale <= Limit
    OBVIOUS
  <2>1. /\ Distance \in Nat /\ trades * LeastSale \in Int
        /\ trades * LeastSale + Distance <= Limit
    BY <1>0 DEF Progress, IInv, TypeOK
  <2> HIDE DEF Limit
  <2> QED
    BY <1>0, <2>1
<1> QED
  BY <1>1, <1>2, <1>3, IInvInvariance, PTL DEF Spec

-----------------------------------------------------------------------------
(* Getting out. *)

\* Where a strategy wants no risk it proposes to sell its largest position,
\* or in tier 3 of momentum_rebalance half a largest trade of it.
LEMMA EscapeSells ==
  ASSUME TypeOK, Escaping
  PROVE  \E cap \in {MaxTradeBps, MaxTradeBps \div 2} : Proposal = SellLargest(book, cap)
<1> DEFINE name == Resolved(strategy, market)
           tier == TierOf(drawdown)
<1>1. ~(drawdown >= DqBps)
  <2>1. drawdown \in Nat /\ HardDeriskBps \in Nat /\ DqBps \in Nat
    BY RebalanceAssumption, SettingsTyped DEF TypeOK
  <2> QED
    BY <2>1 DEF Escaping, LeastOf
<1>2. Proposal = Decide(strategy, market, book, tier)
  BY <1>1 DEF Proposal
<1>3. name \in Strategy
  BY DEF Resolved, Strategy
<1>4. \/ tier = 3
      \/ name = "momentum_rebalance" /\ Weak(market)
      \/ name = "trend_following" /\ Trending(market) = {}
  BY DEF Escaping
<1> HIDE DEF tier
<1>5. CASE name = "momentum_rebalance"
  BY <1>2, <1>4, <1>5 DEF Decide, Momentum
<1>6. CASE name = "trend_following"
  BY <1>2, <1>4, <1>6 DEF Decide, Trend
<1>7. CASE name = "mean_reversion"
  <2>1. tier = 3
    BY <1>4, <1>7
  <2> QED
    BY <1>2, <1>7, <2>1 DEF Decide, MeanReversion, SignalTrade
<1>8. CASE name = "volatility_target"
  <2>1. tier = 3
    BY <1>4, <1>8
  <2> QED
    BY <1>2, <1>8, <2>1 DEF Decide, VolatilityTarget
<1>9. CASE name = "breakout"
  <2>1. tier = 3
    BY <1>4, <1>9
  <2> QED
    BY <1>2, <1>9, <2>1 DEF Decide, Breakout, SignalTrade
<1> QED
  BY <1>3, <1>5, <1>6, <1>7, <1>8, <1>9 DEF Strategy

\* Keel lets such a sale pass unless it would be dust.
LEMMA SalePasses ==
  ASSUME TypeOK, ~Derisk, NEW t \in Tokens, NEW n \in Nat, n <= MaxTradeBps,
         MinNotional <= n
  PROVE  Accepted(Propose(t, "sell", n))
<1> DEFINE c == Propose(t, "sell", n)
<1>1. c.dir = "sell" /\ c.bps = n
  BY DEF Propose
<1>2. View.nav = 10000
  BY DEF View, Nav
<1> HIDE DEF c
<1>3. Asked(c, View) = n
  <2>1. LeastOf(c.bps, MaxTradeBps) = n
    BY <1>1 DEF LeastOf
  <2>2. Asked(c, View) = (10000 * n) \div 10000
    BY <1>2, <2>1 DEF Asked, Share
  <2>3. (10000 * n) \div 10000 = n
    OBVIOUS
  <2> QED
    BY <2>2, <2>3
<1>4. Notional(c, View) = n
  BY <1>1, <1>3 DEF Notional
<1>5. MinNotional \in Nat
  BY SettingsTyped
<1>6. n >= MinNotional
  BY <1>5
<1>7. Approved(c, View, Derisk)
  BY <1>1, <1>2, <1>4, <1>6 DEF Approved
<1> QED
  BY <1>1, <1>7 DEF Accepted, c

\* Where the strategy wants no risk and Keel lets it sell, a book at rest
\* holds nothing but dust, whenever half a largest trade is no dust: in tier 3
\* momentum_rebalance sells no more than that at a time, and Keel would reject
\* it for ever (momentum_rebalance.py tier 3, risk.py:106).
THEOREM RiskGone ==
  ASSUME MinNotional \in 1 .. MaxTradeBps \div 2
  PROVE  Spec => []RiskLeaves
<1>1. TypeOK => RiskLeaves
  <2> SUFFICES ASSUME TypeOK, Escaping, AtRest, NEW t \in Tokens,
                      ~(book[t] < MinNotional)
               PROVE  FALSE
    BY DEF RiskLeaves
  <2>1. PICK cap \in {MaxTradeBps, MaxTradeBps \div 2} : Proposal = SellLargest(book, cap)
    BY EscapeSells
  <2>2. /\ MaxTradeBps \in Nat /\ cap \in Nat /\ cap <= MaxTradeBps
        /\ MinNotional <= cap /\ MinNotional \in Nat \ {0}
    <3>1. MaxTradeBps \in Nat /\ MinNotional \in Nat
      BY SettingsTyped
    <3> QED
      BY <2>1, <3>1
  <2>3. IsBook(book) /\ Held(book) \subseteq Tokens /\ IsFiniteSet(Held(book))
    BY BookTyped, RebalanceAssumption, FS_Subset DEF Held
  <2>4. book[t] \in Nat /\ book[t] >= MinNotional /\ t \in Held(book)
    <3>1. book[t] \in Nat
      BY <2>3 DEF IsBook
    <3> QED
      BY <2>2, <3>1 DEF Held
  <2> DEFINE u == Best(Held(book), book)
             n == LeastOf(cap, book[u])
  <2>5. u \in Held(book) /\ book[t] <= book[u]
    <3>1. Ints(book, Held(book))
      BY <2>3 DEF IsBook, Ints
    <3> QED
      BY <2>3, <2>4, <3>1, BestIn
  <2>6. Proposal = Propose(u, "sell", n)
    BY <2>1, <2>4 DEF SellLargest
  <2> HIDE DEF u
  <2>7. u \in Tokens /\ book[u] \in Nat
    BY <2>3, <2>5 DEF IsBook
  <2>8. n \in Nat /\ n <= MaxTradeBps /\ MinNotional <= n
    BY <2>2, <2>4, <2>5, <2>7 DEF LeastOf
  <2>9. ~Derisk
    <3>1. drawdown \in Nat /\ HardDeriskBps \in Nat /\ DqBps \in Nat
      BY RebalanceAssumption, SettingsTyped DEF TypeOK
    <3> QED
      BY <3>1 DEF Escaping, LeastOf, Derisk
  <2> HIDE DEF n
  <2>10. Accepted(Proposal)
    BY <2>6, <2>7, <2>8, <2>9, SalePasses
  <2> QED
    BY <2>10 DEF AtRest
<1> QED
  BY <1>1, BooksTyped, PTL
=============================================================================
