-------------------------- MODULE Backtest_proofs --------------------------
(***************************************************************************)
(* The replay of the rotation Skill, for any tokens, bars and limits: its  *)
(* books stay well-formed, a purchase stays within the exposure cap, and   *)
(* its sizing is Keel's.  After it the replay of the grid, for any price,  *)
(* spacing and rungs: no fill earns anything, and its account balances.    *)
(***************************************************************************)
EXTENDS Backtest, GridBacktest, Sums

-----------------------------------------------------------------------------
(* The settings. *)

LEMMA SettingsTyped ==
  /\ MaxTradeBps \in Nat /\ MaxRiskOnBps \in Nat /\ MaxRiskOnBps <= 10000
  /\ HardBps \in Nat /\ HardBps <= 10000 /\ MinNotional \in Nat
  /\ Capped \in Nat /\ Capped <= DefaultBps /\ Capped <= MaxTradeBps
<1>1. \A p \in Bps : p \in Nat /\ p <= 10000
  BY DEF Bps
<1>2. MaxTradeBps \in Nat
  BY <1>1, KeelAssumption
<1> QED
  BY <1>1, <1>2, KeelAssumption, BacktestAssumption DEF Capped, LeastOf, DefaultBps

\* What a trade costs is part of its size.
LEMMA CostWithin ==
  ASSUME NEW usd \in Nat
  PROVE  Cost(usd) \in Nat /\ Cost(usd) <= usd
BY DEF Cost

-----------------------------------------------------------------------------
(* The Skill. *)

\* A bar gives readings of tokens.
LEMMA BarTyped ==
  ASSUME NEW b \in Bars, NEW t \in DOMAIN b
  PROVE  /\ t \in Tokens /\ b[t] \in TokenFeatures /\ b[t].price \in Nat
         /\ Confluence(b[t]) \in Int
<1>1. t \in Tokens /\ b[t] \in TokenFeatures
  BY BacktestAssumption
<1>2. TokenScore(b[t]) \in Int
  BY DEF TokenScore, Signal
<1> QED
  BY <1>1, <1>2 DEF Confluence, LargerOf, TokenFeatures

\* What it says to trade is a token the bar gives (skill.py:130-170).
LEMMA EvaluatesToken ==
  ASSUME NEW b \in Bars, Evaluate(b).dir # "hold"
  PROVE  /\ Evaluate(b).token \in DOMAIN b
         /\ Evaluate(b).dir \in {"buy", "sell"}
<1> DEFINE signals == {t \in DOMAIN b : Confluence(b[t]) >= 100}
           best == CHOOSE t \in signals : \A u \in signals : Confluence(b[u]) <= Confluence(b[t])
           f == [t \in signals |-> Confluence(b[t])]
<1>1. signals # {}
  BY DEF Evaluate
<1>2. IsFiniteSet(signals) /\ Ints(f, signals)
  <2>1. signals \subseteq Tokens
    BY BarTyped
  <2>2. Ints(f, signals)
    BY BarTyped DEF Ints
  <2> HIDE DEF signals
  <2> QED
    BY <2>1, <2>2, BacktestAssumption, FS_Subset
<1>3. \E t \in signals : \A u \in signals : f[u] <= f[t]
  <2> HIDE DEF signals, f
  <2> QED
    BY <1>1, <1>2, LargestExists
<1>4. \E t \in signals : \A u \in signals : Confluence(b[u]) <= Confluence(b[t])
  BY <1>3
<1>5. best \in signals
  BY <1>4
<1>6. Evaluate(b) = [token |-> best, dir |-> IF TokenScore(b[best]) > 0 THEN "buy" ELSE "sell"]
  BY <1>1 DEF Evaluate
<1> HIDE DEF best
<1> QED
  BY <1>5, <1>6

-----------------------------------------------------------------------------
(* The value of the tokens. *)

Prices == [Tokens -> Nat]

Holdings(q, p) == SumFunction(Values(q, p))

LEMMA ValuesTyped ==
  ASSUME NEW q \in Prices, NEW p \in Prices
  PROVE  /\ Nats(Values(q, p), Tokens) /\ Ints(Values(q, p), Tokens)
         /\ DOMAIN Values(q, p) = Tokens
<1>1. \A t \in Tokens : Values(q, p)[t] = (q[t] * p[t]) \div Unit
  BY DEF Values
<1>2. \A m, n \in Nat : (m * n) \div Unit \in Nat
  BY DEF Unit
<1>3. \A t \in Tokens : q[t] \in Nat /\ p[t] \in Nat
  BY DEF Prices
<1> QED
  BY <1>1, <1>2, <1>3 DEF Nats, Ints, Values

LEMMA WorthTyped ==
  ASSUME NEW q \in Prices, NEW p \in Prices
  PROVE  /\ Holdings(q, p) \in Nat
         /\ Holdings(q, p) = SumFunctionOnSet(Values(q, p), Tokens)
<1>1. Holdings(q, p) = SumFunctionOnSet(Values(q, p), Tokens)
  BY ValuesTyped DEF Holdings, SumFunction
<1> QED
  BY <1>1, ValuesTyped, SumType, BacktestAssumption

\* A position that changes alone changes the worth by what its value does.
LEMMA WorthChange ==
  ASSUME NEW q \in Prices, NEW p \in Prices, NEW a \in Tokens,
         NEW r \in Prices, \A t \in Tokens \ {a} : r[t] = q[t]
  PROVE  Holdings(r, p) = Holdings(q, p) + (r[a] * p[a]) \div Unit - (q[a] * p[a]) \div Unit
<1> DEFINE f == Values(q, p)
           g == Values(r, p)
<1>1. \A t \in Tokens \ {a} : f[t] = g[t]
  BY DEF Values
<1>2. f[a] = (q[a] * p[a]) \div Unit /\ g[a] = (r[a] * p[a]) \div Unit
  BY DEF Values
<1>3. Ints(f, Tokens) /\ Ints(g, Tokens)
  BY ValuesTyped
<1>4. Holdings(q, p) = SumFunctionOnSet(f, Tokens) /\ Holdings(r, p) = SumFunctionOnSet(g, Tokens)
  BY WorthTyped
<1> HIDE DEF f, g
<1>5. SumFunctionOnSet(g, Tokens) = SumFunctionOnSet(f, Tokens) + g[a] - f[a]
  BY <1>1, <1>3, BacktestAssumption, SumChange
<1> QED
  BY <1>2, <1>4, <1>5

\* The positions after one of them is set.
With(q, a, n) == [q EXCEPT ![a] = n]

LEMMA WithTyped ==
  ASSUME NEW q \in Prices, NEW a \in Tokens, NEW n \in Nat
  PROVE  /\ With(q, a, n) \in Prices /\ With(q, a, n)[a] = n
         /\ \A t \in Tokens \ {a} : With(q, a, n)[t] = q[t]
BY DEF Prices, With

\* What is bought is worth no more than is paid for it, rounding included.
LEMMA BoughtAtMost ==
  ASSUME NEW held \in Nat, NEW usd \in Nat, NEW quote \in Nat, quote > 0
  PROVE  LET got == (usd * Unit) \div quote
         IN  /\ got \in Nat
             /\ ((held + got) * quote) \div Unit <= (held * quote) \div Unit + usd
<1> DEFINE got == (usd * Unit) \div quote
           h == held * quote
<1>1. got \in Nat /\ quote * got <= usd * Unit
  BY QuotientTimes DEF Unit
<1> HIDE DEF got
<1>2. h \in Nat /\ (held + got) * quote = h + quote * got /\ quote * got \in Nat
  BY <1>1
<1> DEFINE k == quote * got
<1> HIDE DEF h, k
<1>3. k \in Nat /\ k <= usd * 10000 /\ h \in Nat
  BY <1>1, <1>2 DEF k, Unit
<1>4. (h + k) \div 10000 <= h \div 10000 + usd
  BY <1>3
<1> QED
  BY <1>1, <1>2, <1>4 DEF got, h, k, Unit

-----------------------------------------------------------------------------
(* The size of a purchase. *)

\* What a purchase takes: no more than the cash there is, and no more than the
\* exposure cap leaves (backtest.py:124-135).
LEMMA PurchaseWithin ==
  ASSUME NEW nav \in Nat, NEW c \in Nat, c <= nav,
         NEW usd, usd = TradeUsd("buy", nav, c), usd > 0
  PROVE  /\ usd \in Nat /\ usd <= c
         /\ 10000 * (nav - c) + 10000 * usd <= MaxRiskOnBps * nav
<1> DEFINE room == MaxRiskOnBps * nav
           asked == Capped * nav
           n == SizeN("buy", nav, c)
<1>1. room \in Nat /\ asked \in Nat /\ room <= 10000 * nav
  BY SettingsTyped
<1>2. n = IF 10000 * (nav - c) + asked > room
          THEN LargerOf(0, room - 10000 * (nav - c)) ELSE asked
  BY DEF SizeN
<1>3. usd = IF n < 100 * nav THEN 0 ELSE n \div 10000
  BY DEF TradeUsd
<1> HIDE DEF room, asked, n
<1>4. n \in Nat /\ (n = 0 \/ 10000 * (nav - c) + n <= room)
  BY <1>1, <1>2 DEF LargerOf
<1>5. usd = n \div 10000 /\ usd \in Nat /\ 10000 * usd <= n /\ n # 0
  BY <1>3, <1>4
<1> QED
  BY <1>1, <1>4, <1>5 DEF room

-----------------------------------------------------------------------------
(* The books. *)

\* The peak of the replay begins at what it begins with.
Books == TypeOK /\ peak >= Start

\* NAV is the cash and what the tokens are worth.
LEMMA NavTyped ==
  ASSUME NEW c \in Nat, NEW q \in Prices, NEW p \in Prices
  PROVE  Nav(c, q, p) = c + Holdings(q, p) /\ Nav(c, q, p) \in Nat /\ c <= Nav(c, q, p)
<1>1. Holdings(q, p) \in Nat
  BY WorthTyped
<1>2. Nav(c, q, p) = c + Holdings(q, p)
  BY DEF Nav, Holdings
<1> QED
  BY <1>1, <1>2

LEMMA PricesTyped ==
  ASSUME prices \in Prices, NEW b \in Bars
  PROVE  PricesAfter(b) \in Prices
BY BarTyped DEF Prices, PricesAfter

\* The top is a peak, whatever NAV is.
LEMMA TopTyped ==
  ASSUME peak \in Nat, peak >= Start, NEW nav \in Nat
  PROVE  Top(nav) \in Nat /\ Top(nav) >= Start /\ Top(nav) >= nav
BY DEF Top, LargerOf, Start

LEMMA BelowIsBps == ASSUME NEW e \in Nat, e <= 10000 PROVE e \in Bps
<1>1. PICK n \in Nat : n = 10000
  OBVIOUS
<1>2. e <= n
  BY <1>1
<1>3. e \in 0 .. n
  BY ONLY e \in Nat, n \in Nat, <1>2
<1> QED
  BY ONLY <1>1, <1>3 DEF Bps

\* A drawdown from a peak is a percentage.
LEMMA DrawdownTyped ==
  ASSUME NEW top \in Nat, top > 0, NEW nav \in Nat, nav <= top
  PROVE  Drawdown(top, nav) \in Bps
<1> DEFINE d == (top - nav) * 10000
<1>1. d \in Nat /\ d <= 10000 * top
  OBVIOUS
<1>2. Drawdown(top, nav) = d \div top
  BY DEF Drawdown
<1> HIDE DEF d
<1>3. d \div top \in Nat /\ top * (d \div top) <= d
  BY <1>1, QuotientTimes
<1> DEFINE e == d \div top
<1> HIDE DEF e
<1>4. e \in Nat /\ top * e <= 10000 * top
  BY <1>1, <1>3 DEF e
<1>5. e <= 10000
  BY <1>4, ProductCancels
<1>6. Drawdown(top, nav) = e
  BY <1>2 DEF e
<1>7. e \in Nat
  BY <1>4
<1>8. e \in Bps
  BY <1>5, <1>7, BelowIsBps
<1> QED
  BY ONLY <1>6, <1>8

LEMMA InitBooks == Init => Books
<1> SUFFICES ASSUME Init PROVE Books
  OBVIOUS
<1> DEFINE none == [t \in Tokens |-> 0]
<1>1. prices = none /\ qty = none /\ cash = Start /\ peak = Start /\ bar = 0 /\ reported = 0
  BY DEF Init
<1>2. none \in Prices
  BY DEF Prices
<1>3. \A t \in Tokens : none[t] = 0
  OBVIOUS
<1> HIDE DEF none
<1>4. Ints(none, Tokens) /\ \A t \in Tokens : none[t] = 0 * none[t]
  BY <1>3 DEF Ints
<1>5. SumFunctionOnSet(none, Tokens) = 0 * SumFunctionOnSet(none, Tokens)
  BY <1>4, BacktestAssumption, SumScaled
<1>6. \A t \in Tokens : Values(none, none)[t] = none[t]
  BY <1>3 DEF Values, Unit
<1>7. Holdings(none, none) = SumFunctionOnSet(none, Tokens)
  BY <1>2, <1>4, <1>6, ValuesTyped, WorthTyped, BacktestAssumption, SumSame
<1>8. Holdings(none, none) = 0
  <2>1. SumFunctionOnSet(none, Tokens) \in Int
    BY <1>4, BacktestAssumption, SumType
  <2> QED
    BY <1>5, <1>7, <2>1
<1>9. Nav(cash, qty, prices) = Start
  BY <1>1, <1>2, <1>8, NavTyped DEF Start
<1>10. prices \in [Tokens -> Nat] /\ qty \in [Tokens -> Nat]
  BY <1>1, <1>2 DEF Prices
<1>11. bar \in 0 .. MaxBars /\ reported \in Bps
  BY <1>1, BacktestAssumption DEF Bps
<1>12. cash \in Nat /\ peak \in Nat /\ peak >= Nav(cash, qty, prices) /\ peak >= Start
  BY <1>1, <1>9 DEF Start
<1> QED
  BY ONLY <1>10, <1>11, <1>12 DEF Books, TypeOK

\* The state before a step, with NAV at the prices of a bar.
Now(b) == Nav(cash, qty, PricesAfter(b))

LEMMA NowTyped ==
  ASSUME Books, NEW b \in Bars
  PROVE  /\ PricesAfter(b) \in Prices /\ qty \in Prices /\ cash \in Nat
         /\ peak \in Nat /\ reported \in Bps
         /\ Now(b) \in Nat /\ cash <= Now(b)
         /\ Now(b) = cash + Holdings(qty, PricesAfter(b))
         /\ Top(Now(b)) \in Nat /\ Top(Now(b)) >= Start /\ Top(Now(b)) >= Now(b)
<1>1. /\ prices \in Prices /\ qty \in Prices /\ cash \in Nat
      /\ peak \in Nat /\ reported \in Bps /\ peak >= Start
  BY DEF Books, TypeOK, Prices
<1>2. PricesAfter(b) \in Prices
  BY <1>1, PricesTyped
<1>3. /\ Now(b) \in Nat /\ cash <= Now(b)
      /\ Now(b) = cash + Holdings(qty, PricesAfter(b))
  BY <1>1, <1>2, NavTyped DEF Now
<1>4. Top(Now(b)) \in Nat /\ Top(Now(b)) >= Start /\ Top(Now(b)) >= Now(b)
  BY <1>1, <1>3, TopTyped
<1> QED
  BY <1>1, <1>2, <1>3, <1>4

\* A trade leaves the books well-formed, and NAV no higher: a purchase spends
\* cash that is there, and what it buys is worth no more (backtest.py:120-171).
LEMMA TradeBooks ==
  ASSUME Books, NEW b \in Bars, Trade(b)
  PROVE  /\ cash' \in Nat /\ qty' \in Prices /\ prices' = PricesAfter(b)
         /\ Nav(cash', qty', prices') <= Now(b)
         /\ Evaluate(b).dir = "sell" => cash' >= cash
         /\ Evaluate(b).dir = "buy" =>
              LET usd == TradeUsd("buy", Now(b), cash)
              IN  /\ usd \in Nat /\ usd > 0 /\ cash' = cash - usd
                  /\ Holdings(qty', prices') <= Holdings(qty, PricesAfter(b)) + usd
<1> DEFINE p == PricesAfter(b)
           a == Evaluate(b).token
           nav == Now(b)
           quote == b[a].price
           held == qty[a]
<1>1. /\ p \in Prices /\ qty \in Prices /\ cash \in Nat
      /\ nav \in Nat /\ cash <= nav /\ nav = cash + Holdings(qty, p)
      /\ Holdings(qty, p) \in Nat
  BY NowTyped, WorthTyped
<1>2. Evaluate(b).dir # "hold" /\ quote > 0 /\ TradeUsd(Evaluate(b).dir, nav, cash) > 0
  BY DEF Trade, Traded, Now
<1>3. /\ a \in Tokens /\ a \in DOMAIN b /\ quote \in Nat /\ p[a] = quote /\ held \in Nat
      /\ Evaluate(b).dir \in {"buy", "sell"}
  <2>1. a \in DOMAIN b /\ Evaluate(b).dir \in {"buy", "sell"}
    BY <1>2, EvaluatesToken
  <2>2. a \in Tokens /\ quote \in Nat
    BY <2>1, BarTyped
  <2>3. p[a] = quote
    BY <2>1, <2>2 DEF PricesAfter
  <2> QED
    BY <1>1, <2>1, <2>2, <2>3 DEF Prices
<1>4. prices' = p
  BY DEF Trade
<1>5. CASE Evaluate(b).dir = "buy"
  <2> DEFINE usd == TradeUsd("buy", nav, cash)
             paid == usd - Cost(usd)
             got == (paid * Unit) \div quote
  <2>1. usd \in Nat /\ usd > 0 /\ usd <= cash
    BY <1>1, <1>2, <1>5, PurchaseWithin
  <2>2. paid \in Nat /\ paid <= usd
    BY <2>1, CostWithin
  <2>3. cash' = cash - usd /\ qty' = With(qty, a, held + got)
    BY <1>5 DEF Trade, Now, With
  <2>4. got \in Nat /\ ((held + got) * quote) \div Unit <= (held * quote) \div Unit + paid
    <3> HIDE DEF paid, held, quote
    <3> QED
      BY <1>2, <1>3, <2>2, BoughtAtMost
  <2> DEFINE worth == (held * quote) \div Unit
             after == ((held + got) * quote) \div Unit
  <2>5. qty' \in Prices /\ Holdings(qty', p) = Holdings(qty, p) + after - worth
    <3> HIDE DEF p, got, a, quote
    <3>1. held + got \in Nat
      BY <1>3, <2>4
    <3>2. qty' \in Prices /\ qty'[a] = held + got /\ \A t \in Tokens \ {a} : qty'[t] = qty[t]
      <4> DEFINE n == held + got
                 r == With(qty, a, n)
      <4>1. a \in Tokens /\ qty \in Prices /\ n \in Nat
        BY <1>1, <1>3, <3>1
      <4> HIDE DEF n
      <4>2. r \in Prices /\ r[a] = n /\ \A t \in Tokens \ {a} : r[t] = qty[t]
        BY ONLY <4>1, WithTyped
      <4>3. qty' = r
        BY <2>3 DEF n
      <4> HIDE DEF r
      <4> QED
        BY ONLY <4>2, <4>3 DEF n
    <3>3. Holdings(qty', p) = Holdings(qty, p) + (qty'[a] * p[a]) \div Unit - (qty[a] * p[a]) \div Unit
      BY ONLY <1>1, <1>3, <3>2, WorthChange
    <3> QED
      BY ONLY <1>3, <3>2, <3>3 DEF worth, after, held
  <2>6. worth \in Nat /\ after \in Nat
    <3>1. held * quote \in Nat /\ (held + got) * quote \in Nat
      <4> HIDE DEF held, quote, got
      <4> QED
        BY <1>3, <2>4
    <3> HIDE DEF held, quote, got
    <3> QED
      BY <3>1 DEF Unit
  <2>7. Holdings(qty', p) \in Nat
    BY <1>1, <2>5, WorthTyped
  <2>8. cash' \in Nat
    BY <1>1, <2>1, <2>3
  <2>9. Nav(cash', qty', p) = cash' + Holdings(qty', p)
    BY <1>1, <2>5, <2>8, NavTyped
  <2> HIDE DEF usd, paid, got, worth, after, p, nav
  <2>10. Holdings(qty', p) <= Holdings(qty, p) + paid
    BY <1>1, <2>2, <2>4, <2>5, <2>6, <2>7 DEF worth, after
  <2>11. Nav(cash', qty', p) <= nav
    BY <1>1, <2>1, <2>2, <2>3, <2>7, <2>9, <2>10
  <2>12. Holdings(qty', p) <= Holdings(qty, p) + usd
    BY <1>1, <2>1, <2>2, <2>7, <2>10
  <2> QED
    BY <1>4, <1>5, <2>1, <2>3, <2>5, <2>8, <2>11, <2>12 DEF usd, p, nav
<1>6. CASE Evaluate(b).dir = "sell"
  <2> DEFINE worth == (held * quote) \div Unit
  <2>1. worth \in Nat
    <3>1. held * quote \in Nat
      <4> HIDE DEF held, quote
      <4> QED
        BY <1>3
    <3> HIDE DEF held, quote
    <3> QED
      BY <3>1 DEF Unit
  <2>2. Cost(worth) \in Nat /\ Cost(worth) <= worth
    BY <2>1, CostWithin
  <2>3. PICK none \in Nat : none = 0
    OBVIOUS
  <2>4. cash' = cash + worth - Cost(worth) /\ qty' = With(qty, a, none)
    BY <1>6, <2>3 DEF Trade, Now, With
  <2>5. qty' \in Prices /\ Holdings(qty', p) = Holdings(qty, p) + (none * quote) \div Unit - worth
    <3> HIDE DEF p, a, quote
    <3>1. qty' \in Prices /\ qty'[a] = none /\ \A t \in Tokens \ {a} : qty'[t] = qty[t]
      <4> DEFINE r == With(qty, a, none)
      <4>1. a \in Tokens /\ qty \in Prices
        BY <1>1, <1>3
      <4>2. r \in Prices /\ r[a] = none /\ \A t \in Tokens \ {a} : r[t] = qty[t]
        BY ONLY <4>1, WithTyped
      <4>3. qty' = r
        BY <2>4
      <4> HIDE DEF r
      <4> QED
        BY ONLY <4>2, <4>3
    <3>2. Holdings(qty', p) = Holdings(qty, p) + (qty'[a] * p[a]) \div Unit - (qty[a] * p[a]) \div Unit
      BY ONLY <1>1, <1>3, <3>1, WorthChange
    <3> QED
      BY ONLY <1>3, <3>1, <3>2 DEF worth, held
  <2>6. (none * quote) \div Unit = 0
    <3> HIDE DEF quote
    <3> QED
      BY <1>3, <2>3 DEF Unit
  <2>7. cash' \in Nat /\ cash' >= cash
    <3> HIDE DEF worth
    <3> QED
      BY <1>1, <2>1, <2>2, <2>4
  <2>8. Nav(cash', qty', p) = cash' + Holdings(qty', p)
    BY <1>1, <2>5, <2>7, NavTyped
  <2> HIDE DEF worth, p, nav
  <2>9. Nav(cash', qty', p) <= nav
    BY <1>1, <2>1, <2>2, <2>4, <2>5, <2>6, <2>8
  <2> QED
    BY <1>4, <1>6, <2>5, <2>7, <2>9 DEF p, nav
<1> QED
  BY <1>3, <1>5, <1>6

LEMMA NextBooks == Books /\ [Next]_vars => Books'
<1> SUFFICES ASSUME Books, [Next]_vars PROVE Books'
  OBVIOUS
<1>1. CASE UNCHANGED vars
  BY <1>1 DEF Books, TypeOK, vars, Nav, Values
<1>2. CASE Next
  <2>1. PICK b \in Bars : Replay(b)
    BY <1>2 DEF Next
  <2>2. bar' \in 0 .. MaxBars
    BY <2>1, BacktestAssumption DEF Replay, Books, TypeOK
  <2>3. /\ prices \in Prices /\ qty \in Prices /\ cash \in Nat /\ peak \in Nat
        /\ peak >= Nav(cash, qty, prices) /\ peak >= Start /\ reported \in Bps
    BY DEF Books, TypeOK, Prices
  <2>4. /\ PricesAfter(b) \in Prices /\ Now(b) \in Nat
        /\ Top(Now(b)) \in Nat /\ Top(Now(b)) >= Start /\ Top(Now(b)) >= Now(b)
    BY NowTyped
  <2> DEFINE Good == /\ prices' \in Prices /\ qty' \in Prices /\ cash' \in Nat
                     /\ peak' \in Nat /\ peak' >= Nav(cash', qty', prices')
                     /\ peak' >= Start /\ reported' \in Bps
  <2>5. ASSUME Skip(b) PROVE Good
    BY <2>3, <2>5 DEF Skip
  <2>6. ASSUME Mark(b) PROVE Good
    <3>1. /\ prices' = PricesAfter(b) /\ peak' = Top(Now(b))
          /\ qty' = qty /\ cash' = cash /\ reported' = reported
      BY <2>6 DEF Mark, Now
    <3>2. Nav(cash', qty', prices') = Now(b)
      BY <3>1 DEF Now
    <3> QED
      BY <2>3, <2>4, <3>1, <3>2
  <2>7. ASSUME Trade(b) PROVE Good
    <3> DEFINE nav == Nav(cash', qty', prices')
    <3>1. /\ cash' \in Nat /\ qty' \in Prices /\ prices' = PricesAfter(b)
          /\ nav <= Now(b)
      BY <2>7, TradeBooks
    <3>2. nav \in Nat
      BY <2>4, <3>1, NavTyped
    <3>3. /\ peak' = Top(Now(b))
          /\ reported' = LargerOf(reported, Drawdown(peak', nav))
      BY <2>7 DEF Trade, Now, Nav, Values
    <3> HIDE DEF nav
    <3>4. peak' \in Nat /\ peak' > 0 /\ peak' >= nav /\ peak' >= Start
      BY <2>4, <3>1, <3>2, <3>3 DEF Start
    <3>5. Drawdown(peak', nav) \in Bps
      BY <3>2, <3>4, DrawdownTyped
    <3>6. reported' \in Bps
      BY <2>3, <3>3, <3>5 DEF LargerOf
    <3> QED
      BY <2>4, <3>1, <3>4, <3>6 DEF nav
  <2>8. Good
    BY <2>1, <2>5, <2>6, <2>7 DEF Replay
  <2> QED
    BY ONLY <2>2, <2>8 DEF Books, TypeOK, Prices, Nav, Values
<1> QED
  BY <1>1, <1>2 DEF Next

\* Whatever the bars, no purchase takes more cash than there is, NAV is never
\* above its peak, and what is reported as the largest drawdown is one
\* (backtest.py:43-57, 120-171).
THEOREM BooksTyped == Spec => []TypeOK
<1>1. Spec => []Books
  BY InitBooks, NextBooks, PTL DEF Spec
<1>2. Books => TypeOK
  BY DEF Books
<1> QED
  BY <1>1, <1>2, PTL

-----------------------------------------------------------------------------
(* The caps. *)

\* What Keel would be shown of the replay.
LEMMA Shown ==
  /\ View.nav = Nav(cash, qty, prices) /\ View.held[Base] = cash
  /\ RiskOn(View) = Nav(cash, qty, prices) - cash
<1>1. /\ View.nav = Nav(cash, qty, prices)
      /\ View.held = [a \in Tokens \cup {Base} |->
                        IF a = Base THEN cash ELSE Values(qty, prices)[a]]
  BY DEF View
<1>2. View.held[Base] = cash
  BY <1>1
<1> QED
  BY <1>1, <1>2 DEF RiskOn

\* Arithmetic: of what is left, too, the cap allows the tokens that were held
\* and what was paid for more.
LEMMA CapKept ==
  ASSUME NEW cap \in Nat, cap <= 10000,
         NEW held \in Nat, NEW spent \in Nat, NEW left \in Nat,
         10000 * held + 10000 * spent <= cap * (held + spent + left),
         NEW after \in Nat, after <= held + spent
  PROVE  10000 * after <= cap * (after + left)
<1> DEFINE free == 10000 - cap
<1>1. PICK more \in Nat : held + spent = after + more
  <2>1. held + spent - after \in Nat /\ held + spent = after + (held + spent - after)
    OBVIOUS
  <2> QED
    BY <2>1
<1>2. free \in Nat /\ cap = 10000 - free
  OBVIOUS
<1>3. 10000 * (after + more) <= cap * (after + more + left)
  BY <1>1
<1>4. cap * (after + more + left) = cap * (after + left) + cap * more
  OBVIOUS
<1>5. cap * more = 10000 * more - free * more /\ free * more \in Nat
  BY <1>2
<1>6. cap * (after + left) \in Nat
  OBVIOUS
<1> HIDE DEF free
<1> DEFINE l == cap * (after + left)
           m == free * more
<1>7. 10000 * after + 10000 * more <= l + 10000 * more - m /\ l \in Nat /\ m \in Nat
  BY <1>3, <1>4, <1>5, <1>6
<1> HIDE DEF l, m
<1>8. 10000 * after <= l
  BY <1>7
<1> QED
  BY <1>8 DEF l

\* No purchase ends above the exposure cap, its cost included, whatever the
\* prices have done to the tokens before it (backtest.py:124-141).
THEOREM BuysStayWithinCap == Spec => BuysWithinCap
<1>1. ASSUME Books, [Next]_vars, cash' < cash
      PROVE  10000 * RiskOn(View)' <= MaxRiskOnBps * View.nav'
  <2>1. cash \in Nat
    BY <1>1 DEF Books, TypeOK
  <2>2. PICK b \in Bars : Trade(b)
    <3>1. cash' # cash
      BY <1>1, <2>1
    <3> QED
      BY <1>1, <3>1 DEF Next, Replay, Skip, Mark, vars
  <2> DEFINE usd == TradeUsd("buy", Now(b), cash)
             worth == Holdings(qty, PricesAfter(b))
             after == Holdings(qty', prices')
  <2>3. /\ cash' \in Nat /\ qty' \in Prices /\ prices' \in Prices
        /\ Evaluate(b).dir = "sell" => cash' >= cash
        /\ Evaluate(b).dir = "buy" => /\ usd \in Nat /\ usd > 0 /\ cash' = cash - usd
                                       /\ after <= worth + usd
    BY <1>1, <2>2, TradeBooks, NowTyped
  <2>4. Evaluate(b).dir = "buy"
    <3>1. Evaluate(b).dir \in {"buy", "sell"}
      BY <2>2, EvaluatesToken DEF Trade, Traded
    <3> QED
      BY <1>1, <2>1, <2>3, <3>1
  <2>5. /\ Now(b) \in Nat /\ cash <= Now(b) /\ Now(b) = cash + worth
        /\ worth \in Nat
    BY <1>1, <2>2, NowTyped, WorthTyped
  <2>6. after \in Nat /\ Nav(cash', qty', prices') = cash' + after
    BY <2>3, NavTyped, WorthTyped
  <2>7. 10000 * (Now(b) - cash) + 10000 * usd <= MaxRiskOnBps * Now(b)
    <3> HIDE DEF worth, after
    <3> QED
      BY <2>1, <2>3, <2>4, <2>5, PurchaseWithin
  <2>8. /\ View.nav' = Nav(cash', qty', prices')
        /\ RiskOn(View)' = Nav(cash', qty', prices') - cash'
    <3>1. /\ View.nav' = Nav(cash', qty', prices')
          /\ View.held' = [a \in Tokens \cup {Base} |->
                             IF a = Base THEN cash' ELSE Values(qty', prices')[a]]
      BY DEF View, Nav, Values
    <3>2. View.held'[Base] = cash'
      BY <3>1
    <3>3. RiskOn(View)' = View.nav' - View.held'[Base]
      BY DEF RiskOn
    <3> QED
      BY <3>1, <3>2, <3>3
  <2> DEFINE nav == Now(b)
             left == cash'
  <2> HIDE DEF usd, worth, after, nav, left
  <2>9. /\ usd \in Nat /\ worth \in Nat /\ after \in Nat /\ left \in Nat
        /\ nav = worth + usd + left /\ nav - cash = worth
        /\ after <= worth + usd
    BY <2>1, <2>3, <2>4, <2>5, <2>6 DEF left, nav
  <2>10. 10000 * worth + 10000 * usd <= MaxRiskOnBps * (worth + usd + left)
    BY <2>7, <2>9 DEF nav
  <2>11. 10000 * after <= MaxRiskOnBps * (after + left)
    BY ONLY <2>9, <2>10, SettingsTyped, CapKept
  <2>12. /\ Nav(cash', qty', prices') = after + left
         /\ Nav(cash', qty', prices') - cash' = after
    <3>1. Nav(cash', qty', prices') = left + after
      BY <2>6 DEF left
    <3>2. Nav(cash', qty', prices') - cash' = (left + after) - left
      BY <3>1 DEF left
    <3> QED
      BY ONLY <2>9, <3>1, <3>2
  <2> QED
    BY ONLY <2>8, <2>11, <2>12
<1>2. Spec => []Books
  BY InitBooks, NextBooks, PTL DEF Spec
<1> QED
  BY <1>1, <1>2, PTL DEF Spec, BuysWithinCap

-----------------------------------------------------------------------------
(* The sizing, written twice. *)

\* The settings under which the replay and Keel cannot differ: a trade of one
\* percent is never dust while the replay still trades, and an order may be of
\* two percent of NAV at least.
DustIsSmall ==
  /\ MinNotional > 0 /\ 100 * MinNotional <= 10000 - HardBps
  /\ MaxTradeBps >= 200

\* Before the hard de-risk drawdown NAV is not below what the drawdown allows,
\* because its peak is not below what the replay began with.
LEMMA NavBeforeStop ==
  ASSUME NEW top \in Nat, top >= Start, NEW nav \in Nat, nav <= top,
         ~(10000 * (top - nav) >= HardBps * top)
  PROVE  nav >= 10000 - HardBps
<1> DEFINE free == 10000 - HardBps
<1>1. free \in Nat /\ HardBps = 10000 - free
  BY SettingsTyped
<1>2. PICK rise \in Nat : top = 10000 + rise
  <2>1. top - 10000 \in Nat /\ top = 10000 + (top - 10000)
    BY DEF Start
  <2> QED
    BY <2>1
<1>3. HardBps * top = 10000 * top - free * top /\ free * top \in Nat
  BY <1>1
<1>4. free * top = 10000 * free + free * rise /\ free * rise \in Nat
  BY <1>1, <1>2
<1> DEFINE m == free * rise
           h == HardBps * top
<1> HIDE DEF free
<1>5. 10000 * nav >= 10000 * free
  <2>1. 10000 * (top - nav) < h /\ h = 10000 * top - (10000 * free + m) /\ m \in Nat
    <3>1. HardBps * top \in Int /\ 10000 * (top - nav) \in Int
      BY <1>1, SettingsTyped
    <3> QED
      BY <1>3, <1>4, <3>1
  <2> HIDE DEF m, h
  <2> QED
    BY <2>1, <1>1
<1> QED
  BY <1>1, <1>5 DEF free

\* Arithmetic: an order of asked, of which the cap leaves room, both in hundredths
\* of a cent, and the same in cents, rounded down.  It is resized by comparing
\* either: where that differs, the whole cents are the same.
LEMMA SameWhole ==
  ASSUME NEW nav \in Nat, NEW least \in Nat, least > 0, nav >= 100 * least,
         NEW asked \in Nat, asked >= 200 * nav,
         NEW room \in Int,
         NEW whole \in Nat, 10000 * whole <= asked, asked < 10000 * whole + 10000,
         NEW head \in Int, 10000 * head <= room, room < 10000 * head + 10000,
         NEW over \in BOOLEAN, over <=> 10000 * whole > room,
         NEW n \in Nat, n = IF asked > room THEN IF room >= 0 THEN room ELSE 0 ELSE asked,
         NEW usd \in Nat, usd = IF n < 100 * nav THEN 0 ELSE n \div 10000,
         NEW note, note = IF over THEN head ELSE whole
  PROVE  /\ (over => room >= 100 * nav) /\ note >= least => usd = note
         /\ ~((over => room >= 100 * nav) /\ note >= least) => usd = 0
<1>1. CASE over
  <2>1. asked > room /\ note = head
    BY <1>1
  <2>2. CASE room >= 100 * nav
    <3>1. n = room /\ usd = n \div 10000
      BY <2>1, <2>2
    <3>2. n \div 10000 = head
      BY <3>1
    <3>3. head >= least
      BY <2>2
    <3> QED
      BY <1>1, <2>1, <2>2, <3>1, <3>2, <3>3
  <2>3. CASE room < 100 * nav
    <3>1. n < 100 * nav
      BY <2>1, <2>3
    <3> QED
      BY <1>1, <2>3, <3>1
  <2> QED
    BY <2>2, <2>3
<1>2. CASE ~over
  <2>1. note = whole /\ 10000 * whole <= room /\ whole >= least
    BY <1>2
  <2>2. n >= 10000 * whole /\ n < 10000 * whole + 10000
    BY <2>1
  <2>3. n \div 10000 = whole
    BY <2>2
  <2>4. n >= 100 * nav
    BY <2>1
  <2> QED
    BY <1>2, <2>1, <2>3, <2>4
<1> QED
  BY <1>1, <1>2

\* A portfolio before the hard de-risk drawdown, a purchase the Skill proposes,
\* and what the replay would buy where Keel approves that and where not.
BeforeStop(view) ==
  /\ view.nav \in Nat /\ view.held[Base] \in Nat
  /\ view.held[Base] <= view.nav /\ view.nav >= 10000 - HardBps

Proposed(c) == c.dir = "buy" /\ c.bps = DefaultBps

Agree(c, view) ==
  LET usd == TradeUsd("buy", view.nav, view.held[Base])
  IN  /\ Approved(c, view, FALSE) => usd = Notional(c, view)
      /\ ~Approved(c, view, FALSE) => usd = 0

LEMMA SameSize ==
  ASSUME DustIsSmall, NEW view, BeforeStop(view), NEW c, Proposed(c)
  PROVE  Agree(c, view)
<1> DEFINE nav == view.nav
           base == view.held[Base]
           cap == MaxRiskOnBps * nav
           asked == Capped * nav
           room == cap - 10000 * (nav - base)
           whole == Asked(c, view)
           head == Headroom(view)
           n == SizeN("buy", nav, base)
           usd == TradeUsd("buy", nav, base)
           note == Notional(c, view)
           over == OverCap(c, view)
<1>1. nav \in Nat /\ base \in Nat /\ cap \in Nat /\ asked \in Nat /\ room \in Int
  BY SettingsTyped DEF BeforeStop
<1>2. nav >= 100 * MinNotional /\ MinNotional \in Nat /\ MinNotional > 0
  BY SettingsTyped DEF BeforeStop, DustIsSmall
<1>3. asked >= 200 * nav
  <2>1. Capped \in Nat /\ Capped >= 200
    BY SettingsTyped DEF DustIsSmall, Capped, LeastOf, DefaultBps
  <2>2. PICK more \in Nat : Capped = 200 + more
    <3>1. Capped - 200 \in Nat /\ Capped = 200 + (Capped - 200)
      BY <2>1
    <3> QED
      BY <3>1
  <2>3. Capped * nav = 200 * nav + more * nav /\ more * nav \in Nat
    <3> HIDE DEF nav
    <3>1. (200 + more) * nav = 200 * nav + more * nav /\ more * nav \in Nat
      BY ONLY <1>1, <2>2
    <3> QED
      BY <2>2, <3>1
  <2> HIDE DEF nav
  <2> QED
    BY <1>1, <2>3
<1>4. whole \in Nat /\ 10000 * whole <= asked /\ asked < 10000 * whole + 10000
  <2>1. whole = asked \div 10000
    <3>1. nav * Capped = asked
      BY <1>1, SettingsTyped
    <3>2. whole = (nav * Capped) \div 10000
      BY DEF Asked, Share, Capped, Proposed
    <3> HIDE DEF whole, asked, nav
    <3> QED
      BY <3>1, <3>2
  <2> HIDE DEF whole, asked
  <2> QED
    BY <1>1, <2>1
<1>5. head \in Int /\ 10000 * head <= room /\ room < 10000 * head + 10000
  <2>1. head = cap \div 10000 - (nav - base)
    <3>1. nav * MaxRiskOnBps = cap
      BY <1>1, SettingsTyped
    <3>2. head = (nav * MaxRiskOnBps) \div 10000 - (nav - base)
      BY DEF Headroom, Share, RiskOn
    <3> HIDE DEF head, cap, nav, base
    <3> QED
      BY <3>1, <3>2
  <2> HIDE DEF head, cap, nav, base
  <2> QED
    BY <1>1, <2>1 DEF room
<1>6. over <=> 10000 * whole > room
  <2>1. over <=> 10000 * ((nav - base) + whole) > cap
    BY DEF OverCap, RiskOn
  <2> HIDE DEF over, whole, cap, nav, base
  <2> QED
    BY <1>1, <1>4, <2>1 DEF room
<1>7. n = (IF asked > room THEN IF room >= 0 THEN room ELSE 0 ELSE asked) /\ n \in Nat
  <2>1. n = IF 10000 * (nav - base) + asked > cap
            THEN LargerOf(0, cap - 10000 * (nav - base)) ELSE asked
    BY DEF SizeN
  <2> HIDE DEF n, asked, cap, nav, base
  <2> QED
    BY <1>1, <2>1 DEF room, LargerOf
<1>8. usd = (IF n < 100 * nav THEN 0 ELSE n \div 10000) /\ usd \in Nat
  <2>1. usd = IF n < 100 * nav THEN 0 ELSE n \div 10000
    BY DEF TradeUsd
  <2> HIDE DEF n, usd, nav
  <2> QED
    BY <1>1, <1>7, <2>1
<1>9. note = IF over THEN head ELSE whole
  BY DEF Notional, Proposed
<1> DEFINE approved == Approved(c, view, FALSE)
<1>10. approved <=> (over => room >= 100 * nav) /\ note >= MinNotional
  <2>1. approved <=>
          /\ nav > 0 /\ (over => cap - 10000 * (nav - base) >= 100 * nav)
          /\ (MaxTokenBps > 0 => 10000 * view.held[c.token] < MaxTokenBps * nav)
          /\ note >= MinNotional
    BY DEF Approved, RiskOn, Proposed
  <2>2. MaxTokenBps = 0
    BY BacktestAssumption
  <2>3. nav > 0
    BY <1>1, <1>2
  <2>4. room = cap - 10000 * (nav - base)
    OBVIOUS
  <2> HIDE DEF nav, base, cap, note, over, room, approved
  <2> QED
    BY ONLY <2>1, <2>2, <2>3, <2>4
<1>11. over \in BOOLEAN
  BY DEF OverCap
<1> HIDE DEF nav, base, cap, asked, room, whole, head, n, usd, note, over, approved
<1>12. /\ (over => room >= 100 * nav) /\ note >= MinNotional => usd = note
       /\ ~((over => room >= 100 * nav) /\ note >= MinNotional) => usd = 0
  BY ONLY <1>1, <1>2, <1>3, <1>4, <1>5, <1>6, <1>7, <1>8, <1>9, <1>11, SameWhole
<1>13. (approved => usd = note) /\ (~approved => usd = 0)
  BY ONLY <1>10, <1>12
<1> QED
  BY ONLY <1>13 DEF Agree, approved, usd, note, nav, base

\* In every portfolio the replay reaches it buys exactly what Keel, without a
\* cap per token, would approve: the rule that is written twice is one
\* (backtest.py:116-136, risk.py:40-115).
THEOREM SizesAsKeel ==
  ASSUME DustIsSmall
  PROVE  Spec => []KeelAgrees
<1>1. ASSUME Books PROVE KeelAgrees
  <2> DEFINE nav == Nav(cash, qty, prices)
  <2>1. /\ cash \in Nat /\ nav \in Nat /\ cash <= nav
        /\ peak \in Nat /\ peak >= nav /\ peak >= Start
    <3>1. /\ cash \in Nat /\ qty \in Prices /\ prices \in Prices
          /\ peak \in Nat /\ peak >= nav /\ peak >= Start
      BY <1>1 DEF Books, TypeOK, Prices
    <3> QED
      BY <3>1, NavTyped
  <2>2. View.nav = nav /\ View.held[Base] = cash
    BY Shown
  <2> HIDE DEF nav
  <2>3. Top(nav) = peak
    BY <2>1 DEF Top, LargerOf
  <2>4. ASSUME NEW t \in Tokens
        PROVE  LET c == [token |-> t, dir |-> "buy", bps |-> DefaultBps]
                   usd == IF nav > 0 /\ ~Stopped(nav) THEN TradeUsd("buy", nav, cash) ELSE 0
               IN IF Approved(c, View, Stopped(nav)) THEN usd = Notional(c, View) ELSE usd = 0
    <3> DEFINE c == [token |-> t, dir |-> "buy", bps |-> DefaultBps]
    <3>1. CASE Stopped(nav)
      BY <3>1 DEF Approved
    <3>2. CASE ~Stopped(nav)
      <4>1. nav >= 10000 - HardBps
        BY <2>1, <2>3, <3>2, NavBeforeStop DEF Stopped
      <4>2. nav > 0
        BY <2>1, <4>1, SettingsTyped DEF DustIsSmall
      <4>3. Stopped(nav) = FALSE
        BY <3>2 DEF Stopped
      <4>4. Proposed(c)
        BY DEF Proposed
      <4>5. BeforeStop(View)
        BY <2>1, <2>2, <4>1 DEF BeforeStop
      <4> HIDE DEF c
      <4>6. Agree(c, View)
        BY ONLY DustIsSmall, <4>4, <4>5, SameSize
      <4> QED
        BY <2>2, <4>2, <4>3, <4>6 DEF Agree, c
    <3> QED
      BY <3>1, <3>2
  <2> QED
    BY <2>2, <2>4 DEF KeelAgrees
<1>2. Spec => []Books
  BY InitBooks, NextBooks, PTL DEF Spec
<1> QED
  BY <1>1, <1>2, PTL


-----------------------------------------------------------------------------
(* The weights of a ladder. *)

Pos == Nat \ {0}

\* The sequence of the rungs' weights is defined, and all of them count.
LEMMA FibTyped == \A n \in Nat : fib[n] \in Pos
<1> DEFINE Step(f, n) == IF n <= 2 THEN 1 ELSE f[n - 1] + f[n - 2]
           Is(f, n) == f \in [0 .. n -> Pos] /\ \A k \in 0 .. n : f[k] = Step(f, k)
           Alike(n) == \A f, g : Is(f, n) /\ Is(g, n) => f = g
           Good(n) == \E f : Is(f, n)
           G == {n \in Nat : Good(n)}
<1>1. ASSUME NEW n \in Nat, NEW f, Is(f, n), NEW m \in Nat, NEW g, Is(g, m), n <= m
      PROVE  \A k \in 0 .. n : f[k] = g[k]
  <2> DEFINE Same(k) == \A j \in 0 .. k : j <= n => f[j] = g[j]
             F == {k \in Nat : Same(k)}
  <2>1. 0 \in F
    <3>1. f[0] = Step(f, 0) /\ g[0] = Step(g, 0)
      BY <1>1
    <3>2. Step(f, 0) = 1 /\ Step(g, 0) = 1
      OBVIOUS
    <3>3. \A j \in 0 .. 0 : j = 0
      OBVIOUS
    <3> QED
      BY <3>1, <3>2, <3>3
  <2>2. ASSUME NEW k \in Nat, k \in F PROVE k + 1 \in F
    <3>1. \A j \in 0 .. k : j <= n => f[j] = g[j]
      BY <2>2
    <3>2. ASSUME k + 1 <= n PROVE f[k + 1] = g[k + 1]
      <4>1. k + 1 \in 0 .. n /\ k + 1 \in 0 .. m
        BY <1>1, <3>2
      <4>2. f[k + 1] = Step(f, k + 1) /\ g[k + 1] = Step(g, k + 1)
        BY <1>1, <4>1
      <4>3. CASE k + 1 <= 2
        BY <4>2, <4>3
      <4>4. CASE ~(k + 1 <= 2)
        <5>1. (k + 1) - 1 \in 0 .. k /\ (k + 1) - 2 \in 0 .. k
          BY <4>4
        <5>2. f[(k + 1) - 1] = g[(k + 1) - 1] /\ f[(k + 1) - 2] = g[(k + 1) - 2]
          BY <3>1, <3>2, <5>1
        <5> QED
          BY <4>2, <4>4, <5>2
      <4> QED
        BY <4>3, <4>4
    <3>3. \A j \in 0 .. k + 1 : j \in 0 .. k \/ j = k + 1
      OBVIOUS
    <3> QED
      BY <3>1, <3>2, <3>3
  <2>3. \A k \in Nat : k \in F
    <3> HIDE DEF F
    <3> QED
      BY <2>1, <2>2, NaturalInduction
  <2>4. Same(n)
    BY <2>3
  <2> QED
    BY <2>4
<1>2. Good(0)
  <2> DEFINE f == [k \in 0 .. 0 |-> 1]
  <2>1. Is(f, 0)
    BY DEF Pos
  <2> QED
    BY <2>1
<1>3. ASSUME NEW n \in Nat, Good(n) PROVE Good(n + 1)
  <2>1. PICK f : Is(f, n)
    BY <1>3
  <2> DEFINE g == [k \in 0 .. n + 1 |-> IF k <= n THEN f[k] ELSE Step(f, k)]
  <2>2. \A k \in 0 .. n : k \in 0 .. n + 1 /\ k <= n /\ g[k] = f[k]
    OBVIOUS
  <2>3. g[n + 1] = Step(f, n + 1)
    OBVIOUS
  <2>4. n + 1 > 2 => (n + 1) - 1 \in 0 .. n /\ (n + 1) - 2 \in 0 .. n
    OBVIOUS
  <2>5. \A k \in 0 .. n : f[k] \in Pos
    BY <2>1
  <2>6. Step(f, n + 1) \in Pos
    <3>1. CASE n + 1 <= 2
      BY <3>1 DEF Pos
    <3>2. CASE n + 1 > 2
      <4>1. f[(n + 1) - 1] \in Pos /\ f[(n + 1) - 2] \in Pos
        BY <2>4, <2>5, <3>2
      <4> QED
        BY <3>2, <4>1 DEF Pos
    <3> QED
      BY <3>1, <3>2
  <2>7. \A k \in 0 .. n + 1 : k \in 0 .. n \/ k = n + 1
    OBVIOUS
  <2>8. g \in [0 .. n + 1 -> Pos]
    BY <2>2, <2>3, <2>5, <2>6, <2>7
  <2> HIDE DEF g
  <2>9. ASSUME NEW k \in 0 .. n + 1 PROVE g[k] = Step(g, k)
    <3>1. CASE k \in 0 .. n
      <4>1. g[k] = f[k] /\ f[k] = Step(f, k)
        BY <2>1, <2>2, <3>1
      <4>2. k > 2 => k - 1 \in 0 .. n /\ k - 2 \in 0 .. n
        BY <3>1
      <4> QED
        BY <2>2, <3>1, <4>1, <4>2
    <3>2. CASE k = n + 1
      BY <2>2, <2>3, <2>4, <3>2
    <3> QED
      BY <2>7, <3>1, <3>2
  <2> QED
    BY <2>8, <2>9
<1>4. \A n \in Nat : Good(n)
  <2>1. 0 \in G /\ \A n \in Nat : n \in G => n + 1 \in G
    <3> HIDE DEF Good
    <3> QED
      BY <1>2, <1>3
  <2> HIDE DEF G
  <2>2. \A n \in Nat : n \in G
    BY <2>1, NaturalInduction
  <2> QED
    BY <2>2 DEF G
<1> DEFINE first(n) == CHOOSE f : Is(f, n)
           all == [n \in Nat |-> first(n)[n]]
           Fibs(f) == f = [n \in Nat |-> Step(f, n)]
<1>5. \A n \in Nat : Is(first(n), n)
  <2> HIDE DEF Is
  <2> QED
    BY <1>4
<1> HIDE DEF first
<1>6. \A n \in Nat : all[n] \in Pos
  BY <1>5
<1>7. ASSUME NEW n \in Nat PROVE all[n] = Step(all, n)
  <2>1. first(n)[n] = Step(first(n), n)
    BY <1>5
  <2>2. CASE n > 2
    <3>1. n - 1 \in Nat /\ n - 2 \in Nat /\ n - 1 <= n /\ n - 2 <= n
      BY <2>2
    <3>2. first(n)[n - 1] = first(n - 1)[n - 1] /\ first(n)[n - 2] = first(n - 2)[n - 2]
      <4>1. \A m \in Nat : m <= n => first(n)[m] = first(m)[m]
        <5> SUFFICES ASSUME NEW m \in Nat, m <= n PROVE first(n)[m] = first(m)[m]
          OBVIOUS
        <5>1. Is(first(n), n) /\ Is(first(m), m) /\ m \in 0 .. m
          BY <1>5
        <5> HIDE DEF Is
        <5>2. \A k \in 0 .. m : first(m)[k] = first(n)[k]
          BY <5>1, <1>1
        <5> QED
          BY <5>1, <5>2
      <4> QED
        BY <3>1, <4>1
    <3> QED
      BY <2>1, <2>2, <3>1, <3>2
  <2>3. CASE n <= 2
    BY <2>1, <2>3
  <2> QED
    BY <2>2, <2>3
<1>8. Fibs(all)
  <2>1. all = [n \in Nat |-> all[n]]
    OBVIOUS
  <2> HIDE DEF all, Step
  <2> QED
    BY <1>7, <2>1
<1>9. Fibs(fib)
  <2>1. fib = CHOOSE f : Fibs(f)
    BY DEF fib
  <2> HIDE DEF Fibs
  <2> QED
    BY <1>8, <2>1
<1> HIDE DEF all
<1>10. \A n \in Nat : fib[n] = Step(fib, n)
  <2> HIDE DEF Step
  <2> QED
    BY <1>9
<1> DEFINE Low(n) == \A k \in 0 .. n : fib[k] \in Pos
           F == {n \in Nat : Low(n)}
<1>11. 0 \in F
  <2>1. \A k \in 0 .. 0 : k = 0
    OBVIOUS
  <2> QED
    BY <1>10, <2>1 DEF Pos
<1>12. ASSUME NEW n \in Nat, n \in F PROVE n + 1 \in F
  <2>1. \A k \in 0 .. n : fib[k] \in Pos
    BY <1>12
  <2>2. fib[n + 1] = Step(fib, n + 1)
    BY <1>10
  <2>3. fib[n + 1] \in Pos
    <3>1. CASE n + 1 > 2
      <4>1. (n + 1) - 1 \in 0 .. n /\ (n + 1) - 2 \in 0 .. n
        BY <3>1
      <4>2. fib[(n + 1) - 1] \in Pos /\ fib[(n + 1) - 2] \in Pos
        BY <2>1, <4>1
      <4> QED
        BY <2>2, <3>1, <4>2 DEF Pos
    <3>2. CASE n + 1 <= 2
      BY <2>2, <3>2 DEF Pos
    <3> QED
      BY <3>1, <3>2
  <2>4. \A k \in 0 .. n + 1 : k \in 0 .. n \/ k = n + 1
    OBVIOUS
  <2> QED
    BY <2>1, <2>3, <2>4
<1>13. \A n \in Nat : n \in F
  <2> HIDE DEF F
  <2> QED
    BY <1>11, <1>12, NaturalInduction
<1> QED
  BY <1>13

-----------------------------------------------------------------------------
(* The ladder. *)

N == RungsPerSide
Shares == Weights("fibonacci", N)

LEMMA GridSettings ==
  /\ N \in Nat /\ N >= 1 /\ BuyShare \in 35 .. 65
  /\ GridPrices \subseteq Pos /\ Atrs \subseteq Nat
BY GridAssumption DEF N, BuyShare, Pos

LEMMA SharesTyped ==
  /\ Nats(Shares, 1 .. N) /\ Ints(Shares, 1 .. N)
  /\ Total(Shares) = SumFunctionOnSet(Shares, 1 .. N)
  /\ Total(Shares) \in Pos
<1>1. Shares = [i \in 1 .. N |-> fib[i]]
  BY DEF Shares, Weights
<1>2. \A i \in 1 .. N : Shares[i] \in Pos
  BY <1>1, FibTyped, GridSettings
<1>3. Nats(Shares, 1 .. N) /\ Ints(Shares, 1 .. N)
  BY <1>2 DEF Nats, Ints, Pos
<1>4. Total(Shares) = SumFunctionOnSet(Shares, 1 .. N)
  BY <1>1 DEF Total, SumFunction
<1>5. IsFiniteSet(1 .. N) /\ 1 \in 1 .. N
  BY GridSettings, FS_Interval
<1>6. Shares[1] <= SumFunctionOnSet(Shares, 1 .. N)
  BY <1>3, <1>5, SumBounds
<1>7. SumFunctionOnSet(Shares, 1 .. N) \in Nat
  BY <1>3, <1>5, SumType
<1> QED
  BY <1>2, <1>3, <1>4, <1>5, <1>6, <1>7 DEF Pos

\* The rungs of a side take no more than the side has.
LEMMA RungsAddUp ==
  ASSUME NEW usd \in Nat, NEW f, \A i \in 1 .. N : f[i] = RungSize(usd, Shares, i)
  PROVE  /\ Nats(f, 1 .. N) /\ Ints(f, 1 .. N)
         /\ SumFunctionOnSet(f, 1 .. N) <= usd
<1> DEFINE total == Total(Shares)
           I == 1 .. N
           asked == [i \in I |-> usd * Shares[i]]
           given == [i \in I |-> total * f[i]]
<1>1. IsFiniteSet(I) /\ Nats(Shares, I) /\ Ints(Shares, I)
      /\ total = SumFunctionOnSet(Shares, I) /\ total \in Pos
  BY SharesTyped, GridSettings, FS_Interval
<1> HIDE DEF total, I
<1>2. ASSUME NEW i \in I
      PROVE  f[i] \in Nat /\ asked[i] \in Nat /\ given[i] \in Nat /\ given[i] <= asked[i]
  <2> DEFINE m == usd * Shares[i]
  <2>1. m \in Nat
    BY <1>1 DEF Nats
  <2>2. f[i] = m \div total
    BY DEF RungSize, I, total
  <2> HIDE DEF m
  <2>3. m \div total \in Nat /\ total * (m \div total) \in Nat /\ total * (m \div total) <= m
    BY <1>1, <2>1, QuotientTimes DEF Pos
  <2> QED
    BY <2>1, <2>2, <2>3 DEF m
<1>3. /\ Nats(f, I) /\ Ints(f, I) /\ Ints(asked, I) /\ Ints(given, I)
      /\ \A i \in I : given[i] <= asked[i]
  BY <1>2 DEF Nats, Ints
<1>4. /\ \A i \in I : asked[i] = usd * Shares[i]
      /\ \A i \in I : given[i] = total * f[i]
  OBVIOUS
<1> HIDE DEF asked, given
<1>5. SumFunctionOnSet(asked, I) = usd * total
  BY <1>1, <1>4, SumScaled
<1>6. SumFunctionOnSet(given, I) = total * SumFunctionOnSet(f, I)
  BY <1>1, <1>3, <1>4, SumScaled DEF Pos
<1>7. SumFunctionOnSet(given, I) <= SumFunctionOnSet(asked, I)
  BY <1>1, <1>3, SumMonotone
<1>8. SumFunctionOnSet(f, I) \in Nat
  BY <1>1, <1>3, SumType
<1>9. total * SumFunctionOnSet(f, I) <= total * usd
  BY <1>1, <1>5, <1>6, <1>7 DEF Pos
<1>10. SumFunctionOnSet(f, I) <= usd
  BY <1>1, <1>8, <1>9, ProductCancels DEF Pos
<1> QED
  BY <1>3, <1>10 DEF I

LEMMA LeastOfTwo ==
  ASSUME NEW m \in Int, NEW n \in Int
  PROVE  Min({m, n}) = IF m <= n THEN m ELSE n
<1>1. \E x \in {m, n} : \A y \in {m, n} : x <= y
  OBVIOUS
<1>2. Min({m, n}) \in {m, n} /\ \A y \in {m, n} : Min({m, n}) <= y
  BY <1>1 DEF Min
<1> QED
  BY <1>2

LEMMA MostOfTwo ==
  ASSUME NEW m \in Int, NEW n \in Int
  PROVE  Max({m, n}) = IF m >= n THEN m ELSE n
<1>1. \E x \in {m, n} : \A y \in {m, n} : x >= y
  OBVIOUS
<1>2. Max({m, n}) \in {m, n} /\ \A y \in {m, n} : Max({m, n}) >= y
  BY <1>1 DEF Max
<1> QED
  BY <1>2

LEMMA SpacingTyped ==
  ASSUME NEW atr \in Nat
  PROVE  /\ VolatilityToSpacing(atr) \in Nat
         /\ VolatilityToSpacing(atr) >= 50 /\ VolatilityToSpacing(atr) <= 500
<1> DEFINE most == 1000
           capped == Min({atr, most})
           within == Max({0, capped})
<1>1. capped = IF atr <= most THEN atr ELSE most
  <2>1. atr \in Int /\ most \in Int
    OBVIOUS
  <2> HIDE DEF most
  <2> QED
    BY <2>1, LeastOfTwo
<1>2. capped \in Nat /\ capped <= 1000
  BY <1>1
<1>3. within = IF 0 >= capped THEN 0 ELSE capped
  <2>1. capped \in Int
    BY <1>2
  <2> HIDE DEF capped
  <2> QED
    BY <2>1, MostOfTwo
<1> HIDE DEF capped
<1>4. within \in Nat /\ within <= 1000
  BY <1>2, <1>3
<1>5. VolatilityToSpacing(atr) = 50 + (within * 450) \div 1000
  BY DEF VolatilityToSpacing, Within, within, capped
<1> HIDE DEF within
<1> QED
  BY <1>4, <1>5

\* A sequence given rung by rung, and one after another.
LEMMA AsSequence ==
  ASSUME NEW n \in Nat, NEW X, NEW f, f = [i \in 1 .. n |-> f[i]], \A i \in 1 .. n : f[i] \in X
  PROVE  f \in Seq(X) /\ Len(f) = n /\ DOMAIN f = 1 .. n
<1>1. f \in [1 .. n -> X]
  OBVIOUS
<1> QED
  BY <1>1

LEMMA OneAfterAnother ==
  ASSUME NEW X, NEW b \in Seq(X), NEW Y, NEW s \in Seq(Y)
  PROVE  /\ Len(b) \in Nat /\ Len(s) \in Nat
         /\ DOMAIN (b \o s) = 1 .. Len(b) + Len(s)
         /\ \A i \in 1 .. Len(b) : (b \o s)[i] = b[i] /\ b[i] \in X
         /\ \A i \in Len(b) + 1 .. Len(b) + Len(s) :
              (b \o s)[i] = s[i - Len(b)] /\ s[i - Len(b)] \in Y
OBVIOUS

\* A side: its rungs have its direction, and those that sell are not below the
\* center.
SideRung(dir) == [price : Int, size : Nat, side : {dir}]

IsSide(l, at, usd, dir) ==
  /\ l \in Seq(SideRung(dir)) /\ Len(l) = IF usd = 0 THEN 0 ELSE N
  /\ \A i \in 1 .. Len(l) : /\ l[i].size = RungSize(usd, Shares, i)
                            /\ dir = "sell" => l[i].price >= at

LEMMA SideTyped ==
  ASSUME NEW at \in Pos, NEW atr \in Nat, NEW usd \in Nat, NEW dir \in {"buy", "sell"},
         NEW l, l = BuildLadder(at, VolatilityToSpacing(atr), N, usd, dir, "fibonacci")
  PROVE  IsSide(l, at, usd, dir)
<1> DEFINE spacing == VolatilityToSpacing(atr)
<1>1. spacing \in Nat /\ spacing >= 50 /\ spacing <= 500 /\ N \in Nat /\ N >= 1
  BY SpacingTyped, GridSettings
<1> HIDE DEF spacing
<1>2. LadderArgs(spacing, N, usd) <=> usd > 0
  BY <1>1 DEF LadderArgs
<1>3. CASE usd = 0
  <2>1. l = <<>>
    BY <1>2, <1>3 DEF BuildLadder, spacing
  <2> DEFINE n == 0
             X == SideRung(dir)
  <2>2. n \in Nat /\ l = [i \in 1 .. n |-> l[i]] /\ 1 .. n = {} /\ n = 0
    BY <2>1
  <2> HIDE DEF n, X
  <2>3. l \in Seq(X) /\ Len(l) = n
    <3>1. \A i \in 1 .. n : l[i] \in X
      BY ONLY <2>2
    <3> QED
      BY ONLY <2>2, <3>1, AsSequence
  <2> QED
    BY <1>3, <2>2, <2>3 DEF IsSide, X
<1>4. CASE usd > 0
  <2> DEFINE at_(i) == (at * (IF dir = "buy" THEN 10000 - spacing * i
                                             ELSE 10000 + spacing * i)) \div 10000
  <2>1. l = [i \in 1 .. N |-> [price |-> at_(i), size |-> RungSize(usd, Shares, i), side |-> dir]]
    BY <1>2, <1>4 DEF BuildLadder, Shares, spacing
  <2>2. ASSUME NEW i \in 1 .. N PROVE at_(i) \in Int /\ (dir = "sell" => at_(i) >= at)
    <3>1. spacing * i \in Nat
      BY <1>1
    <3> DEFINE k == spacing * i
    <3> HIDE DEF k
    <3>2. at * (10000 - k) \in Int
      BY <3>1 DEF k, Pos
    <3>3. at * (10000 + k) = at * 10000 + at * k /\ at * k \in Nat
      BY <3>1 DEF k, Pos
    <3> DEFINE m == at * (10000 - k)
               n == at * (10000 + k)
    <3>4. n >= at * 10000 /\ n \in Int
      BY <3>3 DEF Pos
    <3> HIDE DEF m, n
    <3>5. m \div 10000 \in Int /\ n \div 10000 \in Int /\ n \div 10000 >= at
      BY <3>2, <3>4 DEF m, Pos
    <3>6. at_(i) = IF dir = "buy" THEN m \div 10000 ELSE n \div 10000
      BY DEF m, n, k
    <3> HIDE DEF at_
    <3> QED
      BY <3>5, <3>6
  <2>3. \A i \in 1 .. N : RungSize(usd, Shares, i) \in Nat
    <3> DEFINE f == [i \in 1 .. N |-> RungSize(usd, Shares, i)]
    <3>1. \A i \in 1 .. N : f[i] = RungSize(usd, Shares, i)
      OBVIOUS
    <3> HIDE DEF f
    <3> QED
      BY <3>1, RungsAddUp DEF Nats
  <2> HIDE DEF at_
  <2>4. l = [i \in 1 .. N |-> l[i]]
    BY <2>1
  <2>5. ASSUME NEW i \in 1 .. N
        PROVE  /\ l[i] \in SideRung(dir)
               /\ l[i].size = RungSize(usd, Shares, i)
               /\ dir = "sell" => l[i].price >= at
    <3>1. l[i] = [price |-> at_(i), size |-> RungSize(usd, Shares, i), side |-> dir]
      BY <2>1
    <3> QED
      BY <2>2, <2>3, <3>1 DEF SideRung
  <2>6. l \in Seq(SideRung(dir)) /\ Len(l) = N
    BY <1>1, <2>4, <2>5, AsSequence
  <2> QED
    BY <1>4, <2>5, <2>6 DEF IsSide
<1> QED
  BY <1>3, <1>4

-----------------------------------------------------------------------------
(* The grid. *)

\* A new grid around a center: nothing is filled, and nothing sells below it.
NewGrid(g, c) ==
  /\ g \in Seq(Rung) /\ Len(g) \in {0, N, 2 * N}
  /\ \A i \in DOMAIN g : ~g[i].filled /\ (g[i].side = "sell" => g[i].price >= c)

\* The first grid: its purchases are the first N rungs, and a ladder of usd.
FirstGrid(g, usd) ==
  /\ Len(g) = 2 * N
  /\ \A i \in 1 .. N : g[i].side = "buy" /\ g[i].size = RungSize(usd, Shares, i)
  /\ \A i \in N + 1 .. 2 * N : g[i].side = "sell"

LEMMA SideShares ==
  ASSUME NEW usd \in Nat
  PROVE  /\ (usd * BuyShare) \div 100 \in Nat
         /\ (usd * (100 - BuyShare)) \div 100 \in Nat
         /\ usd = GridStart => /\ (usd * BuyShare) \div 100 > 0
                               /\ (usd * BuyShare) \div 100 <= GridStart
                               /\ (usd * (100 - BuyShare)) \div 100 > 0
<1>1. BuyShare \in {35, 50, 65}
  BY DEF BuyShare
<1> QED
  BY <1>1 DEF GridStart

LEMMA GridTyped ==
  ASSUME NEW at \in Pos, NEW atr \in Nat, NEW usd \in Nat,
         NEW g, g = BuildGrid(at, atr, usd)
  PROVE  /\ NewGrid(g, at)
         /\ usd = GridStart => \E b \in Nat : b <= GridStart /\ FirstGrid(g, b)
<1> DEFINE spacing == VolatilityToSpacing(atr)
           ub == (usd * BuyShare) \div 100
           us == (usd * (100 - BuyShare)) \div 100
           b == BuildLadder(at, spacing, N, ub, "buy", "fibonacci")
           s == BuildLadder(at, spacing, N, us, "sell", "fibonacci")
           all == b \o s
<1>1. ub \in Nat /\ us \in Nat
  BY SideShares
<1>2. g = [i \in DOMAIN all |-> [price |-> all[i].price, size |-> all[i].size,
                                 side |-> all[i].side, filled |-> FALSE]]
  BY DEF BuildGrid, N
<1> HIDE DEF ub, us
<1>3. IsSide(b, at, ub, "buy") /\ IsSide(s, at, us, "sell")
  BY <1>1, SideTyped
<1>5. N \in Nat /\ N >= 1
  BY GridSettings
<1> HIDE DEF b, s
<1>6. b \in Seq(SideRung("buy")) /\ Len(b) = IF ub = 0 THEN 0 ELSE N
  BY <1>3 DEF IsSide
<1>7. s \in Seq(SideRung("sell")) /\ Len(s) = IF us = 0 THEN 0 ELSE N
  BY <1>3 DEF IsSide
<1>8. /\ DOMAIN all = 1 .. Len(b) + Len(s)
      /\ \A i \in 1 .. Len(b) : all[i] = b[i] /\ b[i] \in SideRung("buy")
      /\ \A i \in Len(b) + 1 .. Len(b) + Len(s) :
           all[i] = s[i - Len(b)] /\ s[i - Len(b)] \in SideRung("sell")
  <2> DEFINE X == SideRung("buy")
             Y == SideRung("sell")
  <2>1. b \in Seq(X) /\ s \in Seq(Y)
    BY <1>6, <1>7
  <2> HIDE DEF X, Y, all
  <2>2. /\ DOMAIN (b \o s) = 1 .. Len(b) + Len(s)
        /\ \A i \in 1 .. Len(b) : (b \o s)[i] = b[i] /\ b[i] \in X
        /\ \A i \in Len(b) + 1 .. Len(b) + Len(s) :
             (b \o s)[i] = s[i - Len(b)] /\ s[i - Len(b)] \in Y
    BY ONLY <2>1, OneAfterAnother
  <2> QED
    BY ONLY <2>2 DEF X, Y, all
<1> HIDE DEF all
<1>11. Len(b) \in Nat /\ Len(s) \in Nat /\ Len(b) \in {0, N} /\ Len(s) \in {0, N}
  BY <1>5, <1>6, <1>7
<1>12. DOMAIN g = 1 .. Len(b) + Len(s)
  BY <1>2, <1>8
<1>13. ASSUME NEW i \in DOMAIN g
       PROVE  g[i] \in Rung /\ ~g[i].filled /\ (g[i].side = "sell" => g[i].price >= at)
  <2>1. g[i] = [price |-> all[i].price, size |-> all[i].size, side |-> all[i].side, filled |-> FALSE]
    BY <1>2, <1>8, <1>12
  <2>2. CASE i \in 1 .. Len(b)
    <3>1. all[i] \in SideRung("buy")
      BY <1>8, <2>2
    <3> QED
      BY <2>1, <3>1 DEF Rung, SideRung
  <2>3. CASE i \in Len(b) + 1 .. Len(b) + Len(s)
    <3>1. i - Len(b) \in 1 .. Len(s)
      BY <1>11, <2>3
    <3>2. all[i] \in SideRung("sell") /\ all[i].price >= at
      BY <1>3, <1>8, <2>3, <3>1 DEF IsSide
    <3> QED
      BY <2>1, <3>2 DEF Rung, SideRung
  <2> QED
    BY <1>11, <1>12, <2>2, <2>3
<1>14. g \in Seq(Rung) /\ Len(g) = Len(b) + Len(s)
  <2> DEFINE n == Len(b) + Len(s)
  <2>1. n \in Nat /\ g = [i \in 1 .. n |-> g[i]] /\ \A i \in 1 .. n : g[i] \in Rung
    BY <1>2, <1>11, <1>12, <1>13
  <2> HIDE DEF n
  <2>2. g \in Seq(Rung) /\ Len(g) = n
    BY <2>1, AsSequence
  <2> QED
    BY <2>2 DEF n
<1>15. NewGrid(g, at)
  <2>1. Len(g) \in {0, N, 2 * N}
    BY ONLY <1>5, <1>11, <1>14
  <2>2. \A i \in DOMAIN g : ~g[i].filled /\ (g[i].side = "sell" => g[i].price >= at)
    BY <1>13
  <2> QED
    BY ONLY <1>14, <2>1, <2>2 DEF NewGrid
<1>16. ASSUME usd = GridStart PROVE \E x \in Nat : x <= GridStart /\ FirstGrid(g, x)
  <2>1. ub > 0 /\ us > 0 /\ ub <= GridStart
    BY <1>16, SideShares DEF ub, us
  <2>2. Len(b) = N /\ Len(s) = N
    BY <1>6, <1>7, <2>1
  <2>3. ASSUME NEW i \in 1 .. N PROVE g[i].side = "buy" /\ g[i].size = RungSize(ub, Shares, i)
    <3>1. i \in DOMAIN all /\ all[i] = b[i]
      BY <1>5, <1>8, <2>2
    <3>2. b[i] \in SideRung("buy") /\ b[i].size = RungSize(ub, Shares, i)
      BY <1>3, <1>8, <2>2 DEF IsSide
    <3> QED
      BY <1>2, <3>1, <3>2 DEF SideRung
  <2>4. ASSUME NEW i \in N + 1 .. 2 * N PROVE g[i].side = "sell"
    <3>1. i \in DOMAIN all /\ i - N \in 1 .. N /\ all[i] = s[i - N]
      BY <1>5, <1>8, <2>2
    <3>2. all[i] \in SideRung("sell")
      BY <1>8, <1>5, <2>2, <3>1
    <3> QED
      BY <1>2, <3>1, <3>2 DEF SideRung
  <2>5. FirstGrid(g, ub)
    BY <1>5, <1>14, <2>2, <2>3, <2>4 DEF FirstGrid
  <2> QED
    BY <1>1, <2>1, <2>5
<1> QED
  BY <1>15, <1>16

-----------------------------------------------------------------------------
(* The fills of a price. *)

LEMMA LastOf ==
  ASSUME NEW n \in Nat, NEW s \in SUBSET (1 .. n), s # {}
  PROVE  Max(s) \in s
<1> DEFINE f == [i \in s |-> i]
<1>1. IsFiniteSet(s)
  <2>1. IsFiniteSet(1 .. n)
    BY FS_Interval
  <2> QED
    BY <2>1, FS_Subset
<1>2. Ints(f, s)
  BY DEF Ints
<1>3. \A i \in s : f[i] = i
  OBVIOUS
<1> HIDE DEF f
<1>4. \E t \in s : \A u \in s : f[u] <= f[t]
  BY <1>1, <1>2, LargestExists
<1>5. \E t \in s : \A u \in s : t >= u
  BY <1>3, <1>4
<1> QED
  BY <1>5 DEF Max

\* What no rung takes from a simulation is there when all of them have been
\* tried.
LEMMA FilledIn ==
  ASSUME rungs \in Seq(Rung), NEW p, NEW V, Sim \in V,
         \A s \in V : \A i \in DOMAIN rungs : Fill(s, i, p) \in V
  PROVE  Filled(p) \in V
<1> DEFINE D == DOMAIN rungs
           ids == [i \in D |-> i]
           Step(g, s) == IF s = {} THEN Sim ELSE Fill(g[s \ {Max(s)}], ids[Max(s)], p)
           Iter(g) == g = [s \in SUBSET (DOMAIN ids) |-> Step(g, s)]
           it == CHOOSE g : Iter(g)
<1>1. Filled(p) = it[DOMAIN ids]
  BY DEF Filled, FoldLeftDomain, FoldLeft, MapThenFoldSet
<1>2. DOMAIN ids = D /\ \A i \in D : ids[i] = i
  OBVIOUS
<1>3. IsFiniteSet(D) /\ \A s \in SUBSET D : s # {} => Max(s) \in s
  <2> DEFINE n == Len(rungs)
  <2>1. D = 1 .. n /\ n \in Nat
    OBVIOUS
  <2> HIDE DEF D, n
  <2>2. IsFiniteSet(1 .. n)
    BY <2>1, FS_Interval
  <2>3. \A s \in SUBSET (1 .. n) : s # {} => Max(s) \in s
    BY ONLY <2>1, LastOf
  <2> QED
    BY ONLY <2>1, <2>2, <2>3
<1> DEFINE c == [s \in SUBSET D |-> Max(s)]
           h == [i \in D |-> [v \in V |-> Fill(v, i, p)]]
           base == Sim
<1>4. Chooses(c, D)
  <2> HIDE DEF D
  <2> QED
    BY <1>3 DEF Chooses
<1>5. h \in [D -> [V -> V]]
  OBVIOUS
<1>6. \E g : IsFold(g, D, V, base, c, h)
  <2>1. base \in V
    OBVIOUS
  <2> HIDE DEF D, c, h, base
  <2> QED
    BY <1>3, <1>4, <1>5, <2>1, FoldExists
<1>7. PICK g \in [SUBSET D -> V] :
        \A s \in SUBSET D : g[s] = IF s = {} THEN Sim ELSE h[c[s]][g[s \ {c[s]}]]
  <2> HIDE DEF D, c, h
  <2> QED
    BY <1>6 DEF IsFold
<1>8. ASSUME NEW s \in SUBSET D PROVE g[s] = Step(g, s)
  <2>1. CASE s # {}
    <3>1. Max(s) \in D /\ c[s] = Max(s) /\ ids[Max(s)] = Max(s) /\ s \ {Max(s)} \in SUBSET D
      BY <1>3, <2>1
    <3>2. g[s \ {Max(s)}] \in V
      BY <1>7, <3>1
    <3>3. h[Max(s)][g[s \ {Max(s)}]] = Fill(g[s \ {Max(s)}], Max(s), p)
      BY <3>1, <3>2
    <3> HIDE DEF D, c, h, ids
    <3> QED
      BY <1>7, <2>1, <3>1, <3>3
  <2>2. CASE s = {}
    BY <1>7, <2>2
  <2> QED
    BY <2>1, <2>2
<1>9. Iter(g)
  <2> HIDE DEF Step, D, ids
  <2>1. g = [s \in SUBSET D |-> g[s]]
    BY <1>7
  <2> QED
    BY <1>2, <1>8, <2>1
<1>10. Iter(it)
  <2> HIDE DEF Iter
  <2> QED
    BY <1>9
<1>11. \A s \in SUBSET D : it[s] = Step(it, s)
  <2> HIDE DEF Step, it, D, ids
  <2> QED
    BY <1>2, <1>10
<1> HIDE DEF it
<1> DEFINE F == {s \in SUBSET D : it[s] \in V}
<1>12. ASSUME NEW s \in SUBSET D, \A t \in SUBSET s : t # s => t \in F
       PROVE  s \in F
  <2>1. CASE s = {}
    BY <1>11, <2>1
  <2>2. CASE s # {}
    <3>1. Max(s) \in s /\ ids[Max(s)] = Max(s)
      BY <1>2, <1>3, <2>2
    <3>2. it[s \ {Max(s)}] \in V
      BY <1>12, <3>1
    <3>3. Fill(it[s \ {Max(s)}], Max(s), p) \in V
      BY <3>1, <3>2
    <3>4. it[s] = Fill(it[s \ {Max(s)}], Max(s), p)
      BY <1>11, <2>2, <3>1
    <3> HIDE DEF D
    <3> QED
      BY <3>3, <3>4
  <2> QED
    BY <2>1, <2>2
<1>13. \A s \in SUBSET D : s \in F
  <2> HIDE DEF F, D
  <2> QED
    BY <1>3, <1>12, SubsetInduction
<1> QED
  BY <1>1, <1>2, <1>13

-----------------------------------------------------------------------------
(* What a fill costs and what it brings. *)

LEMMA TimesMonotone ==
  ASSUME NEW a \in Nat, NEW m \in Int, NEW n \in Int, m <= n
  PROVE  a * m \in Int /\ a * n \in Int /\ a * m <= a * n
<1>1. PICK k \in Nat : n = m + k
  <2>1. n - m \in Nat /\ n = m + (n - m)
    OBVIOUS
  <2> QED
    BY <2>1
<1>2. a * (m + k) = a * m + a * k /\ a * k \in Nat /\ a * m \in Int
  OBVIOUS
<1> QED
  BY <1>1, <1>2

\* Division leaves a remainder.
LEMMA Remainder ==
  ASSUME NEW m \in Int, NEW d \in Pos
  PROVE  /\ m \div d \in Int
         /\ \E a \in Nat : a < d /\ d * (m \div d) = m - a
<1>1. m \div d \in Int /\ m % d \in Nat /\ m % d < d /\ m = d * (m \div d) + (m % d)
  BY DEF Pos
<1>2. d * (m \div d) \in Int
  BY <1>1 DEF Pos
<1>3. d * (m \div d) = m - (m % d)
  BY <1>1, <1>2
<1> QED
  BY <1>1, <1>3

LEMMA FeeWithin ==
  ASSUME NEW usd \in Nat
  PROVE  Fee(usd) \in Nat /\ Fee(usd) <= usd
BY DEF Fee

\* At a price no better than the rung's a purchase is worth no more than is
\* paid for it, and a sale brings no more than it was worth.
LEMMA BoughtWorth ==
  ASSUME NEW held \in Nat, NEW m \in Nat, NEW r \in Pos, NEW p \in Nat, p <= r
  PROVE  LET got == (m * GridUnit) \div r
         IN  /\ got \in Nat
             /\ ((held + got) * p) \div GridUnit <= (held * p) \div GridUnit + m
<1> DEFINE got == (m * GridUnit) \div r
           h == held * p
<1>1. got \in Nat /\ r * got <= m * GridUnit
  BY QuotientTimes DEF GridUnit, Pos
<1> HIDE DEF got
<1>2. got * p <= got * r /\ got * p \in Int
  BY <1>1, TimesMonotone DEF Pos
<1>3. h \in Nat /\ (held + got) * p = h + got * p /\ got * p \in Nat /\ got * r = r * got
  BY <1>1 DEF Pos
<1> DEFINE k == got * p
           l == got * r
<1>4. k \in Nat /\ k <= l /\ l <= m * 10000 /\ l \in Nat
  <2>1. l \in Nat
    BY <1>1 DEF Pos
  <2> QED
    BY <1>1, <1>2, <1>3, <2>1 DEF GridUnit
<1> HIDE DEF h, k, l
<1>5. (h + k) \div 10000 <= h \div 10000 + m
  BY <1>3, <1>4
<1> QED
  BY <1>1, <1>3, <1>5 DEF got, h, k, GridUnit

LEMMA SoldWorth ==
  ASSUME NEW held \in Nat, NEW q \in Nat, q <= held, NEW r \in Pos, NEW p \in Nat, r <= p
  PROVE  /\ (q * r) \div GridUnit \in Nat
         /\ (q * r) \div GridUnit + ((held - q) * p) \div GridUnit <= (held * p) \div GridUnit
<1> DEFINE left == (held - q) * p
           all == held * p
           k == q * p
           l == q * r
<1>1. l \in Nat /\ k \in Nat /\ l <= k
  BY TimesMonotone DEF Pos
<1>2. left \in Nat /\ all = left + k
  <2>1. PICK x \in Nat : held = q + x
    <3>1. held - q \in Nat /\ held = q + (held - q)
      OBVIOUS
    <3> QED
      BY <3>1
  <2>2. held - q = x /\ x * p \in Nat /\ (q + x) * p = q * p + x * p
    BY <2>1
  <2>3. left = x * p /\ all = (q + x) * p
    BY <2>1, <2>2
  <2> HIDE DEF left, all
  <2> QED
    BY <1>1, <2>2, <2>3
<1> HIDE DEF left, all, k, l
<1>3. l \div 10000 \in Nat /\ l \div 10000 + left \div 10000 <= all \div 10000
  BY <1>1, <1>2
<1> QED
  BY <1>3 DEF left, all, l, GridUnit

\* What a unit of either kind is worth at most, in GridUnit parts.
Tolerance == GridUnit * (1 + center \div GridUnit)

LEMMA ToleranceTyped ==
  ASSUME center \in Pos
  PROVE  Tolerance \in Nat /\ GridUnit <= Tolerance /\ center <= Tolerance
<1>1. center \div 10000 \in Nat /\ center < 10000 * (center \div 10000) + 10000
  BY DEF Pos
<1> DEFINE k == center \div 10000
<1> HIDE DEF k
<1>2. Tolerance = 10000 * (1 + k) /\ k \in Nat /\ center < 10000 * k + 10000 /\ center \in Nat
  BY <1>1 DEF k, Tolerance, GridUnit, Pos
<1> QED
  BY <1>2 DEF GridUnit

LEMMA IntCancels ==
  ASSUME NEW d \in Pos, NEW m \in Int, NEW n \in Nat, d * m <= d * n
  PROVE  m <= n
<1>1. CASE m < 0
  BY <1>1
<1>2. CASE m >= 0
  BY <1>2, ProductCancels DEF Pos
<1> QED
  BY <1>1, <1>2

\* The rounding of a purchase of m: of the tokens it brings, and of its
\* discount.
LEMMA BuyError ==
  ASSUME NEW m \in Nat, NEW c \in Pos, NEW r \in Pos,
         NEW T \in Nat, GridUnit <= T, c <= T,
         NEW got, got = (m * GridUnit) \div r,
         NEW g, g = (m * (c - r)) \div r
  PROVE  /\ got \in Int /\ g \in Int
         /\ got * c - GridUnit * m - GridUnit * g <= T
         /\ -(got * c - GridUnit * m - GridUnit * g) <= T
<1> DEFINE e == got * c - GridUnit * m - GridUnit * g
           x == m * c
           y == m * r
<1>1. x \in Nat /\ y \in Nat /\ m * (c - r) = x - y
  BY DEF Pos
<1>2. PICK a \in Nat : a < r /\ r * got = m * GridUnit - a /\ got \in Int
  <2> DEFINE n == m * GridUnit
  <2>1. n \in Int
    BY DEF GridUnit
  <2> HIDE DEF n
  <2> QED
    BY <2>1, Remainder DEF n
<1>3. PICK b \in Nat : b < r /\ r * g = x - y - b /\ g \in Int
  <2> DEFINE n == m * (c - r)
  <2>1. n \in Int /\ n = x - y
    BY <1>1
  <2> HIDE DEF n, x, y
  <2>2. g = n \div r
    BY DEF n
  <2>3. \E b \in Nat : b < r /\ r * (n \div r) = n - b
    BY <2>1, Remainder
  <2>4. n \div r \in Int
    BY <2>1, Remainder
  <2> QED
    BY <2>1, <2>2, <2>3, <2>4
<1>4. r * (got * c) = (r * got) * c /\ r * m = y /\ got * c \in Int
  BY <1>2, <1>3 DEF Pos
<1>5. (m * 10000 - a) * c = 10000 * x - a * c /\ a * c \in Nat
  BY <1>2 DEF Pos
<1> DEFINE z == got * c
           w == a * c
<1>6. r * z = 10000 * x - w /\ z \in Int /\ w \in Nat
  BY <1>2, <1>4, <1>5 DEF GridUnit
<1>7. r * e = r * z - 10000 * (r * m) - 10000 * (r * g)
  <2>1. e = z - 10000 * m - 10000 * g
    BY DEF GridUnit
  <2>2. r * (z - 10000 * m - 10000 * g) = r * z - 10000 * (r * m) - 10000 * (r * g)
    <3> HIDE DEF z
    <3> QED
      BY <1>3, <1>6 DEF Pos
  <2> QED
    BY <2>1, <2>2
<1>8. w <= r * T /\ 10000 * b <= r * T /\ r * T \in Nat
  <2>1. a * c <= a * T /\ T * a <= T * r /\ 10000 * b <= T * r
    <3>1. a * c <= a * T
      BY <1>2, TimesMonotone DEF Pos
    <3>2. T * a <= T * r
      BY <1>2, TimesMonotone DEF Pos
    <3>3. b * GridUnit <= b * T
      BY <1>3, TimesMonotone DEF GridUnit
    <3>4. T * b <= T * r
      BY <1>3, TimesMonotone DEF Pos
    <3>5. b * T = T * b /\ b * GridUnit = 10000 * b
      BY <1>3 DEF GridUnit
    <3>6. T * b \in Nat /\ T * r \in Nat
      BY <1>3 DEF Pos
    <3> QED
      BY <3>1, <3>2, <3>3, <3>4, <3>5, <3>6
  <2>2. a * T = T * a /\ T * r = r * T /\ r * T \in Nat /\ T * a \in Nat
    BY <1>2 DEF Pos
  <2> QED
    BY <1>6, <2>1, <2>2
<1>9. e \in Int
  BY <1>2, <1>3, <1>6 DEF GridUnit
<1> HIDE DEF e, x, y, z, w
<1>10. r * e = 10000 * b - w
  <2>1. r * m = y
    BY <1>4
  <2> QED
    BY <1>1, <1>3, <1>6, <1>7, <2>1
<1>11. r * e <= r * T /\ -(r * e) <= r * T
  <2> DEFINE k == r * T
  <2> HIDE DEF k
  <2>1. w <= k /\ 10000 * b <= k /\ k \in Nat
    BY <1>8 DEF k
  <2>2. 10000 * b - w <= k /\ -(10000 * b - w) <= k
    BY <1>3, <1>6, <2>1
  <2> QED
    BY <1>10, <2>2 DEF k
<1>12. r * (-e) = -(r * e)
  BY <1>9 DEF Pos
<1>13. e <= T
  BY <1>9, <1>11, IntCancels
<1>14. -e <= T
  <2>1. -e \in Int /\ r * (-e) <= r * T
    BY <1>9, <1>11, <1>12
  <2> QED
    BY <2>1, IntCancels
<1> QED
  BY <1>2, <1>3, <1>13, <1>14 DEF e

\* And of a sale of q.
LEMMA SellError ==
  ASSUME NEW q \in Nat, NEW c \in Pos, NEW r \in Pos,
         NEW usd, usd = (q * r) \div GridUnit,
         NEW h, h = (q * (r - c)) \div GridUnit
  PROVE  /\ usd \in Int /\ h \in Int
         /\ GridUnit * usd - GridUnit * h - q * c <= GridUnit
         /\ -(GridUnit * usd - GridUnit * h - q * c) <= GridUnit
<1> DEFINE x == q * r
           y == q * c
<1>1. x \in Int /\ y \in Int /\ q * (r - c) = x - y
  BY DEF Pos
<1> HIDE DEF x, y
<1>2. usd = x \div 10000 /\ h = (x - y) \div 10000
  BY <1>1 DEF x, GridUnit
<1>3. /\ usd \in Int /\ h \in Int
      /\ 10000 * usd - 10000 * h - y <= 10000 /\ -(10000 * usd - 10000 * h - y) <= 10000
  BY <1>1, <1>2
<1> QED
  BY <1>3 DEF y, GridUnit

-----------------------------------------------------------------------------
(* One fill. *)

Sims(n) == [cash : Nat, qty : Nat, spread : Nat, fees : Nat, rungs : [1 .. n -> Rung]]

\* No rung sells below the center.
SellsAbove(s) == \A i \in DOMAIN s.rungs : s.rungs[i].side = "sell" => s.rungs[i].price >= center

WithFilled(s, i) == [s.rungs EXCEPT ![i].filled = TRUE]

\* t is s after rung i has filled, with so much more of everything.
FilledBy(s, i, t, n, c, q, sp, fee) ==
  /\ t \in Sims(n)
  /\ t.cash = s.cash + c /\ t.qty = s.qty + q
  /\ t.spread = s.spread + sp /\ t.fees = s.fees + fee
  /\ t.rungs = WithFilled(s, i)

LEMMA RungFilled ==
  ASSUME NEW n \in Nat, NEW s \in Sims(n), NEW i \in 1 .. n,
         NEW w, w = WithFilled(s, i)
  PROVE  /\ w \in [1 .. n -> Rung]
         /\ \A j \in 1 .. n : /\ w[j].price = s.rungs[j].price /\ w[j].size = s.rungs[j].size
                              /\ w[j].side = s.rungs[j].side
                              /\ (w[j].filled <=> j = i \/ s.rungs[j].filled)
<1> DEFINE r == s.rungs
<1>1. r \in [1 .. n -> Rung]
  BY DEF Sims
<1>2. w = [r EXCEPT ![i] = [r[i] EXCEPT !.filled = TRUE]]
  BY DEF WithFilled
<1> HIDE DEF r
<1>3. \A j \in 1 .. n : r[j] \in Rung
  BY <1>1
<1>4. [r[i] EXCEPT !.filled = TRUE] \in Rung
  BY <1>3 DEF Rung
<1>5. \A j \in 1 .. n : w[j] = IF j = i THEN [r[i] EXCEPT !.filled = TRUE] ELSE r[j]
  BY <1>1, <1>2
<1>6. w \in [1 .. n -> Rung]
  BY <1>1, <1>2, <1>4
<1>7. ASSUME NEW j \in 1 .. n
      PROVE  /\ w[j].price = r[j].price /\ w[j].size = r[j].size
             /\ w[j].side = r[j].side /\ (w[j].filled <=> j = i \/ r[j].filled)
  <2>1. r[j] \in Rung
    BY <1>3
  <2>2. CASE j = i
    BY <1>5, <2>1, <2>2 DEF Rung
  <2>3. CASE j # i
    BY <1>5, <2>1, <2>3 DEF Rung
  <2> QED
    BY <2>2, <2>3
<1> QED
  BY <1>6, <1>7 DEF r

LEMMA SimTyped ==
  ASSUME NEW n \in Nat, NEW s \in Sims(n), NEW i \in 1 .. n
  PROVE  /\ s.cash \in Nat /\ s.qty \in Nat /\ s.spread \in Nat /\ s.fees \in Nat
         /\ s.rungs \in [1 .. n -> Rung] /\ s.rungs[i] \in Rung
         /\ s.rungs[i].price \in Int /\ s.rungs[i].size \in Nat
         /\ s.rungs[i].side \in {"buy", "sell"} /\ s.rungs[i].filled \in BOOLEAN
<1>1. s.cash \in Nat /\ s.qty \in Nat /\ s.spread \in Nat /\ s.fees \in Nat
      /\ s.rungs \in [1 .. n -> Rung]
  BY DEF Sims
<1>2. s.rungs[i] \in Rung
  BY <1>1
<1> QED
  BY <1>1, <1>2 DEF Rung

Made(s, c, q, sp, fee, w) ==
  [s EXCEPT !.cash = c, !.qty = q, !.spread = sp, !.fees = fee, !.rungs = w]

Holds(t, n, c, q, sp, fee, w) ==
  /\ t \in Sims(n)
  /\ t.cash = c /\ t.qty = q /\ t.spread = sp /\ t.fees = fee /\ t.rungs = w

LEMMA SimMade ==
  ASSUME NEW n \in Nat, NEW s \in Sims(n),
         NEW c \in Nat, NEW q \in Nat, NEW sp \in Nat, NEW fee \in Nat,
         NEW w \in [1 .. n -> Rung]
  PROVE  Holds(Made(s, c, q, sp, fee, w), n, c, q, sp, fee, w)
<1> DEFINE R == [1 .. n -> Rung]
           t == Made(s, c, q, sp, fee, w)
<1>1. s \in [cash : Nat, qty : Nat, spread : Nat, fees : Nat, rungs : R] /\ w \in R
  BY DEF Sims
<1>2. t = [s EXCEPT !.cash = c, !.qty = q, !.spread = sp, !.fees = fee, !.rungs = w]
  BY DEF Made
<1> HIDE DEF R, t
<1>3. /\ t \in [cash : Nat, qty : Nat, spread : Nat, fees : Nat, rungs : R]
      /\ t.cash = c /\ t.qty = q /\ t.spread = sp /\ t.fees = fee /\ t.rungs = w
  BY <1>1, <1>2
<1> QED
  BY <1>3 DEF Sims, R, t, Holds

\* A purchase of usd, of which the fee is part.
LEMMA BuyGives ==
  ASSUME NEW n \in Nat, NEW s \in Sims(n), NEW i \in 1 .. n, s.rungs[i].price \in Pos,
         NEW usd, usd = Min({s.rungs[i].size, s.cash}), ~(usd < LeastTrade)
  PROVE  LET m == usd - Fee(usd)
             got == (m * GridUnit) \div s.rungs[i].price
         IN  /\ usd \in Nat /\ usd <= s.cash /\ usd <= s.rungs[i].size
             /\ s.rungs[i].size <= s.cash => usd = s.rungs[i].size
             /\ m \in Nat /\ Fee(usd) \in Nat
             /\ FilledBy(s, i, Buy(s, i), n, -usd, got, 0, Fee(usd))
<1> DEFINE m == usd - Fee(usd)
           r == s.rungs[i].price
           got == (m * GridUnit) \div r
           t == Buy(s, i)
           w == WithFilled(s, i)
<1>1. /\ s.cash \in Nat /\ s.qty \in Nat /\ s.spread \in Nat /\ s.fees \in Nat
      /\ s.rungs[i].size \in Nat /\ s.rungs \in [1 .. n -> Rung]
  BY SimTyped
<1>2. /\ usd \in Nat /\ usd <= s.cash /\ usd <= s.rungs[i].size
      /\ s.rungs[i].size <= s.cash => usd = s.rungs[i].size
  <2> DEFINE a == s.rungs[i].size
             b == s.cash
  <2>1. a \in Nat /\ b \in Nat /\ usd = Min({a, b})
    BY <1>1
  <2> HIDE DEF a, b
  <2>2. usd = IF a <= b THEN a ELSE b
    BY <2>1, LeastOfTwo
  <2>3. usd \in Nat /\ usd <= b /\ usd <= a /\ (a <= b => usd = a)
    BY ONLY <2>1, <2>2
  <2> QED
    BY ONLY <2>3 DEF a, b
<1>3. m \in Nat /\ Fee(usd) \in Nat
  BY <1>2, FeeWithin
<1>4. got \in Nat
  <2>1. m * GridUnit \in Nat /\ r \in Pos
    BY <1>3 DEF GridUnit
  <2> DEFINE k == m * GridUnit
  <2> HIDE DEF k, r
  <2>2. k \div r \in Nat
    BY <2>1, QuotientTimes DEF k, Pos
  <2> QED
    BY <2>2 DEF k
<1>5. t = [s EXCEPT !.cash = s.cash - usd, !.qty = s.qty + got, !.spread = s.spread,
                    !.fees = s.fees + Fee(usd), !.rungs = w]
  BY DEF Buy, WithFilled, Sims
<1>6. w \in [1 .. n -> Rung]
  BY RungFilled
<1> HIDE DEF m, r, got, t, w
<1>7. FilledBy(s, i, t, n, -usd, got, 0, Fee(usd))
  <2>1. /\ s.cash - usd \in Nat /\ s.qty + got \in Nat /\ s.spread \in Nat
        /\ s.fees + Fee(usd) \in Nat
    <3>1. s.cash \in Nat /\ usd \in Nat /\ usd <= s.cash
      BY <1>1, <1>2
    <3>2. s.cash - usd \in Nat
      BY ONLY <3>1
    <3>3. s.qty + got \in Nat
      BY ONLY <1>1, <1>4
    <3>4. s.fees + Fee(usd) \in Nat
      BY ONLY <1>1, <1>3
    <3> QED
      BY <1>1, <3>2, <3>3, <3>4
  <2>2. /\ t \in Sims(n) /\ t.cash = s.cash - usd /\ t.qty = s.qty + got
        /\ t.spread = s.spread /\ t.fees = s.fees + Fee(usd) /\ t.rungs = w
    <3> DEFINE c == s.cash - usd
               o == s.qty + got
               f == s.fees + Fee(usd)
    <3>1. c \in Nat /\ o \in Nat /\ s.spread \in Nat /\ f \in Nat
      BY <2>1
    <3>2. t = Made(s, c, o, s.spread, f, w)
      BY <1>5 DEF Made
    <3> HIDE DEF c, o, f
    <3>3. Holds(t, n, c, o, s.spread, f, w)
      BY ONLY n \in Nat, s \in Sims(n), <1>6, <3>1, <3>2, SimMade
    <3> QED
      BY ONLY <3>3 DEF c, o, f, Holds
  <2>3. s.cash - usd = s.cash + (-usd) /\ s.spread = s.spread + 0
    BY <1>1, <1>2
  <2> QED
    BY ONLY <2>2, <2>3 DEF FilledBy, w
<1> QED
  BY <1>2, <1>3, <1>7 DEF m, r, got, t

\* A sale of q for usd.
LEMMA SellGives ==
  ASSUME NEW n \in Nat, NEW s \in Sims(n), NEW i \in 1 .. n,
         center \in Pos, s.rungs[i].price >= center,
         NEW q, q = Sold(s, s.rungs[i]),
         NEW usd, usd = (q * s.rungs[i].price) \div GridUnit, ~(usd < LeastTrade)
  PROVE  /\ s.rungs[i].price \in Pos
         /\ q \in Nat /\ q <= s.qty /\ usd \in Nat /\ Fee(usd) \in Nat /\ Fee(usd) <= usd
         /\ Harvest(q, s.rungs[i]) \in Nat
         /\ FilledBy(s, i, Sell(s, i), n, usd - Fee(usd), -q, Harvest(q, s.rungs[i]), Fee(usd))
<1> DEFINE r == s.rungs[i].price
           h == Harvest(q, s.rungs[i])
           t == Sell(s, i)
           w == WithFilled(s, i)
           asked == (s.rungs[i].size * GridUnit) \div r
<1>1. /\ s.cash \in Nat /\ s.qty \in Nat /\ s.spread \in Nat /\ s.fees \in Nat
      /\ s.rungs[i].size \in Nat /\ s.rungs \in [1 .. n -> Rung] /\ r \in Int
  BY SimTyped
<1>2. r \in Pos
  BY <1>1 DEF Pos
<1>3. asked \in Nat
  <2> DEFINE k == s.rungs[i].size * GridUnit
  <2>1. k \in Nat
    BY <1>1 DEF GridUnit
  <2> HIDE DEF k, r
  <2>2. k \div r \in Nat
    BY <1>2, <2>1, QuotientTimes DEF Pos
  <2> QED
    BY <2>2 DEF k
<1>4. q \in Nat /\ q <= s.qty
  <2>1. q = Min({asked, s.qty})
    BY DEF Sold
  <2> HIDE DEF asked
  <2>2. q = IF asked <= s.qty THEN asked ELSE s.qty
    BY <1>1, <1>3, <2>1, LeastOfTwo
  <2> QED
    BY <1>1, <1>3, <2>2
<1>5. usd \in Nat /\ h \in Nat
  <2> DEFINE k == q * r
             l == q * (r - center)
  <2>1. k \in Nat /\ l \in Nat
    <3>1. r - center \in Nat
      BY <1>1 DEF Pos
    <3> DEFINE d == r - center
    <3> HIDE DEF d, r
    <3> QED
      BY <1>2, <1>4, <3>1 DEF d, Pos
  <2>2. usd = k \div 10000 /\ h = l \div 10000
    BY DEF Harvest, GridUnit
  <2> HIDE DEF k, l, h
  <2> QED
    BY <2>1, <2>2
<1>6. Fee(usd) \in Nat /\ Fee(usd) <= usd
  BY <1>5, FeeWithin
<1>7. t = [s EXCEPT !.cash = s.cash + usd - Fee(usd), !.qty = s.qty - q,
                    !.fees = s.fees + Fee(usd), !.spread = s.spread + h, !.rungs = w]
  BY DEF Sell, WithFilled, Sims
<1>8. w \in [1 .. n -> Rung]
  BY RungFilled
<1> HIDE DEF r, h, t, w, asked
<1>9. FilledBy(s, i, t, n, usd - Fee(usd), -q, h, Fee(usd))
  <2>1. /\ s.cash + usd - Fee(usd) \in Nat /\ s.qty - q \in Nat /\ s.spread + h \in Nat
        /\ s.fees + Fee(usd) \in Nat
    <3>1. /\ s.cash \in Nat /\ usd \in Nat /\ Fee(usd) \in Nat /\ Fee(usd) <= usd
          /\ q \in Nat /\ s.qty \in Nat /\ q <= s.qty
      BY <1>1, <1>4, <1>5, <1>6
    <3>2. s.cash + usd - Fee(usd) \in Nat
      BY ONLY <3>1
    <3>3. s.qty - q \in Nat
      BY ONLY <3>1
    <3>4. s.spread + h \in Nat
      BY ONLY <1>1, <1>5
    <3>5. s.fees + Fee(usd) \in Nat
      BY ONLY <1>1, <1>6
    <3> QED
      BY <3>2, <3>3, <3>4, <3>5
  <2>2. /\ t \in Sims(n) /\ t.cash = s.cash + usd - Fee(usd) /\ t.qty = s.qty - q
        /\ t.spread = s.spread + h /\ t.fees = s.fees + Fee(usd) /\ t.rungs = w
    <3> DEFINE c == s.cash + usd - Fee(usd)
               o == s.qty - q
               sp == s.spread + h
               f == s.fees + Fee(usd)
    <3>1. c \in Nat /\ o \in Nat /\ sp \in Nat /\ f \in Nat
      BY <2>1
    <3>2. t = Made(s, c, o, sp, f, w)
      BY <1>7 DEF Made
    <3> HIDE DEF c, o, sp, f
    <3>3. Holds(t, n, c, o, sp, f, w)
      BY ONLY n \in Nat, s \in Sims(n), <1>8, <3>1, <3>2, SimMade
    <3> QED
      BY ONLY <3>3 DEF c, o, sp, f, Holds
  <2>3. s.cash + usd - Fee(usd) = s.cash + (usd - Fee(usd)) /\ s.qty - q = s.qty + (-q)
    BY ONLY <1>1, <1>4, <1>5, <1>6
  <2> QED
    BY ONLY <2>2, <2>3 DEF FilledBy, w
<1> QED
  BY <1>2, <1>4, <1>5, <1>6, <1>9 DEF r, h, t

-----------------------------------------------------------------------------
(* The account of a grid. *)

BoughtOf(s) == {i \in DOMAIN s.rungs : s.rungs[i].side = "buy" /\ s.rungs[i].filled}
WantedOf(s) == {i \in DOMAIN s.rungs : s.rungs[i].side = "buy" /\ ~s.rungs[i].filled}
FilledOf(s) == {i \in DOMAIN s.rungs : s.rungs[i].filled}

Gain(r) == ((r.size - Fee(r.size)) * (center - r.price)) \div r.price
Gains(s) == [i \in DOMAIN s.rungs |-> Gain(s.rungs[i])]
Sizes(s) == [i \in DOMAIN s.rungs |-> s.rungs[i].size]

Discount(s) == SumFunctionOnSet(Gains(s), BoughtOf(s))
Owing(s) == SumFunctionOnSet(Sizes(s), WantedOf(s))

\* How far the account is off, in GridUnit parts.
Off(s) ==
  GridUnit * (s.cash - (GridStart + s.spread + Discount(s) - s.fees)) + s.qty * center

\* It is off by no more than the rounding of the rungs that have filled, and
\* there is cash for all the purchases that have not.
Account(s) ==
  /\ \A i \in BoughtOf(s) : s.rungs[i].price \in Pos
  /\ Owing(s) <= s.cash
  /\ Off(s) <= Tolerance * Cardinality(FilledOf(s))
  /\ -Off(s) <= Tolerance * Cardinality(FilledOf(s))

\* What a fill changes of all this.
LEMMA FillMoves ==
  ASSUME NEW n \in Nat, NEW s \in Sims(n), NEW i \in 1 .. n, ~s.rungs[i].filled,
         NEW t \in Sims(n), t.rungs = WithFilled(s, i)
  PROVE  /\ Gains(t) = Gains(s) /\ Sizes(t) = Sizes(s)
         /\ i \notin FilledOf(s) /\ FilledOf(t) = FilledOf(s) \cup {i}
         /\ s.rungs[i].side = "buy" =>
              /\ i \notin BoughtOf(s) /\ BoughtOf(t) = BoughtOf(s) \cup {i}
              /\ i \in WantedOf(s) /\ WantedOf(t) = WantedOf(s) \ {i}
         /\ s.rungs[i].side = "sell" => BoughtOf(t) = BoughtOf(s) /\ WantedOf(t) = WantedOf(s)
<1> DEFINE r == s.rungs
           w == t.rungs
<1>1. /\ DOMAIN w = 1 .. n /\ DOMAIN r = 1 .. n
      /\ \A j \in 1 .. n : /\ w[j].price = r[j].price /\ w[j].size = r[j].size
                           /\ w[j].side = r[j].side /\ (w[j].filled <=> j = i \/ r[j].filled)
  <2>1. r \in [1 .. n -> Rung] /\ w \in [1 .. n -> Rung] /\ w = WithFilled(s, i)
    BY SimTyped
  <2> HIDE DEF w
  <2>2. \A j \in 1 .. n : /\ w[j].price = s.rungs[j].price /\ w[j].size = s.rungs[j].size
                           /\ w[j].side = s.rungs[j].side
                           /\ (w[j].filled <=> j = i \/ s.rungs[j].filled)
    BY ONLY n \in Nat, s \in Sims(n), i \in 1 .. n, <2>1, RungFilled
  <2> QED
    BY ONLY <2>1, <2>2 DEF r
<1>2. Gains(t) = [j \in 1 .. n |-> Gain(w[j])] /\ Gains(s) = [j \in 1 .. n |-> Gain(r[j])]
  BY <1>1 DEF Gains
<1>3. Sizes(t) = [j \in 1 .. n |-> w[j].size] /\ Sizes(s) = [j \in 1 .. n |-> r[j].size]
  BY <1>1 DEF Sizes
<1>4. /\ BoughtOf(s) = {j \in 1 .. n : r[j].side = "buy" /\ r[j].filled}
      /\ BoughtOf(t) = {j \in 1 .. n : w[j].side = "buy" /\ w[j].filled}
      /\ WantedOf(s) = {j \in 1 .. n : r[j].side = "buy" /\ ~r[j].filled}
      /\ WantedOf(t) = {j \in 1 .. n : w[j].side = "buy" /\ ~w[j].filled}
      /\ FilledOf(s) = {j \in 1 .. n : r[j].filled}
      /\ FilledOf(t) = {j \in 1 .. n : w[j].filled}
  BY <1>1 DEF BoughtOf, WantedOf, FilledOf
<1> HIDE DEF r, w
<1>5. \A j \in 1 .. n : Gain(w[j]) = Gain(r[j])
  BY <1>1 DEF Gain
<1>6. Gains(t) = Gains(s) /\ Sizes(t) = Sizes(s)
  BY <1>1, <1>2, <1>3, <1>5
<1>7. ~r[i].filled
  BY DEF r
<1>8. i \notin FilledOf(s) /\ FilledOf(t) = FilledOf(s) \cup {i}
  BY <1>1, <1>4, <1>7
<1>9. ASSUME r[i].side = "buy"
      PROVE  /\ i \notin BoughtOf(s) /\ BoughtOf(t) = BoughtOf(s) \cup {i}
             /\ i \in WantedOf(s) /\ WantedOf(t) = WantedOf(s) \ {i}
  BY <1>1, <1>4, <1>7, <1>9
<1>10. ASSUME r[i].side = "sell"
       PROVE  BoughtOf(t) = BoughtOf(s) /\ WantedOf(t) = WantedOf(s)
  BY <1>1, <1>4, <1>7, <1>10
<1> QED
  BY <1>6, <1>8, <1>9, <1>10 DEF r

LEMMA SetsFinite ==
  ASSUME NEW n \in Nat, NEW s \in Sims(n)
  PROVE  /\ IsFiniteSet(BoughtOf(s)) /\ IsFiniteSet(WantedOf(s)) /\ IsFiniteSet(FilledOf(s))
         /\ BoughtOf(s) \subseteq 1 .. n /\ WantedOf(s) \subseteq 1 .. n
         /\ FilledOf(s) \subseteq 1 .. n
         /\ Cardinality(FilledOf(s)) \in Nat /\ Cardinality(FilledOf(s)) <= n
<1>1. DOMAIN s.rungs = 1 .. n
  <2>1. s.rungs \in [1 .. n -> Rung]
    BY DEF Sims
  <2> QED
    BY <2>1
<1>2. /\ BoughtOf(s) \subseteq 1 .. n /\ WantedOf(s) \subseteq 1 .. n
      /\ FilledOf(s) \subseteq 1 .. n
  BY <1>1 DEF BoughtOf, WantedOf, FilledOf
<1>3. IsFiniteSet(1 .. n) /\ Cardinality(1 .. n) = n
  <2>1. 1 \in Int /\ n \in Int /\ n - 1 + 1 = n
    OBVIOUS
  <2> QED
    BY <2>1, FS_Interval
<1>4. IsFiniteSet(BoughtOf(s)) /\ IsFiniteSet(WantedOf(s)) /\ IsFiniteSet(FilledOf(s))
      /\ Cardinality(FilledOf(s)) <= n
  BY <1>2, <1>3, FS_Subset
<1> QED
  BY <1>2, <1>4, FS_CardinalityType

LEMMA GainTyped ==
  ASSUME NEW n \in Nat, NEW s \in Sims(n), center \in Pos,
         NEW i \in 1 .. n, s.rungs[i].price \in Pos
  PROVE  Gain(s.rungs[i]) \in Int
<1> DEFINE m == s.rungs[i].size - Fee(s.rungs[i].size)
           r == s.rungs[i].price
           k == m * (center - r)
<1>1. m \in Nat
  <2> DEFINE a == s.rungs[i].size
  <2>1. a \in Nat
    BY SimTyped
  <2> HIDE DEF a
  <2>2. Fee(a) \in Nat /\ Fee(a) <= a
    BY <2>1, FeeWithin
  <2>3. a - Fee(a) \in Nat
    BY <2>1, <2>2
  <2> QED
    BY <2>3 DEF a
<1>2. k \in Int
  <2> HIDE DEF m, r
  <2> QED
    BY <1>1 DEF Pos, r
<1>3. Gain(s.rungs[i]) = k \div r
  BY DEF Gain
<1> HIDE DEF k, r
<1>4. k \div r \in Int
  BY <1>2, Remainder DEF r
<1> QED
  BY <1>3, <1>4

LEMMA AccountTyped ==
  ASSUME NEW n \in Nat, NEW s \in Sims(n), center \in Pos,
         \A i \in BoughtOf(s) : s.rungs[i].price \in Pos
  PROVE  /\ Ints(Gains(s), BoughtOf(s)) /\ Discount(s) \in Int
         /\ Nats(Sizes(s), WantedOf(s)) /\ Ints(Sizes(s), WantedOf(s)) /\ Owing(s) \in Nat
         /\ Off(s) \in Int
<1>1. s.rungs \in [1 .. n -> Rung] /\ DOMAIN s.rungs = 1 .. n
  <2>1. s.rungs \in [1 .. n -> Rung]
    BY DEF Sims
  <2> QED
    BY <2>1
<1>2. ASSUME NEW i \in BoughtOf(s) PROVE Gains(s)[i] \in Int
  <2>1. i \in 1 .. n /\ s.rungs[i].price \in Pos
    BY SetsFinite
  <2>2. Gains(s)[i] = Gain(s.rungs[i])
    BY <1>1, <2>1 DEF Gains
  <2> QED
    BY <2>1, <2>2, GainTyped
<1>3. ASSUME NEW i \in WantedOf(s) PROVE Sizes(s)[i] \in Nat
  <2>1. i \in 1 .. n
    BY SetsFinite
  <2>2. Sizes(s)[i] = s.rungs[i].size
    BY <1>1, <2>1 DEF Sizes
  <2> QED
    BY <2>1, <2>2, SimTyped
<1>4. Ints(Gains(s), BoughtOf(s)) /\ Nats(Sizes(s), WantedOf(s)) /\ Ints(Sizes(s), WantedOf(s))
  BY <1>2, <1>3 DEF Ints, Nats
<1>5. Discount(s) \in Int /\ Owing(s) \in Nat
  BY <1>4, SetsFinite, SumType DEF Discount, Owing
<1>6. s.cash \in Nat /\ s.qty \in Nat /\ s.spread \in Nat /\ s.fees \in Nat
  BY DEF Sims
<1>7. s.qty * center \in Int
  BY <1>6 DEF Pos
<1>8. Off(s) \in Int
  <2>1. s.cash - (GridStart + s.spread + Discount(s) - s.fees) \in Int
    BY ONLY <1>5, <1>6 DEF GridStart
  <2> DEFINE d == s.cash - (GridStart + s.spread + Discount(s) - s.fees)
  <2> HIDE DEF d
  <2>2. GridUnit * d \in Int
    BY <2>1 DEF d, GridUnit
  <2> QED
    BY <1>7, <2>2 DEF d, Off
<1> QED
  BY <1>4, <1>5, <1>8

\* Arithmetic: one rung more may be off by as much again.
LEMMA OneMore ==
  ASSUME NEW T \in Nat, NEW k \in Nat, NEW o \in Int, o <= T * k, -o <= T * k,
         NEW e \in Int, e <= T, -e <= T
  PROVE  o + e <= T * (k + 1) /\ -(o + e) <= T * (k + 1)
<1>1. T * (k + 1) = T * k + T /\ T * k \in Nat
  OBVIOUS
<1> DEFINE l == T * k
<1>2. l \in Nat /\ o <= l /\ -o <= l /\ T * (k + 1) = l + T
  BY <1>1
<1> HIDE DEF l
<1> QED
  BY <1>2

LEMMA BuyRegroups ==
  ASSUME NEW c \in Int, NEW st \in Int, NEW sp \in Int, NEW di \in Int, NEW fe \in Int,
         NEW usd \in Int, NEW fee \in Int, NEW g \in Int
  PROVE  /\ c - (st + sp + di - fe) \in Int
         /\ (c + (-usd)) - (st + sp + (di + g) - (fe + fee))
              = (c - (st + sp + di - fe)) - (usd - fee) - g
OBVIOUS

LEMMA SellRegroups ==
  ASSUME NEW c \in Int, NEW st \in Int, NEW sp \in Int, NEW di \in Int, NEW fe \in Int,
         NEW usd \in Int, NEW fee \in Int, NEW h \in Int
  PROVE  /\ c - (st + sp + di - fe) \in Int
         /\ (c + (usd - fee)) - (st + (sp + h) + di - (fe + fee))
              = (c - (st + sp + di - fe)) + usd - h
OBVIOUS

\* A purchase keeps the account: there is cash for all of it, because there is
\* for all the purchases that are wanted (grid_backtest.py:81-91).
LEMMA BuyAccount ==
  ASSUME NEW n \in Nat, NEW s \in Sims(n), NEW i \in 1 .. n, center \in Pos,
         ~s.rungs[i].filled, s.rungs[i].side = "buy", s.rungs[i].price \in Pos,
         NEW usd, usd = Min({s.rungs[i].size, s.cash}), ~(usd < LeastTrade), Account(s)
  PROVE  Account(Buy(s, i))
<1> DEFINE size == s.rungs[i].size
           r == s.rungs[i].price
           m == usd - Fee(usd)
           got == (m * GridUnit) \div r
           g == Gain(s.rungs[i])
           t == Buy(s, i)
<1>1. /\ usd \in Nat /\ usd <= s.cash /\ usd <= size
      /\ size <= s.cash => usd = size
      /\ m \in Nat /\ Fee(usd) \in Nat
      /\ FilledBy(s, i, t, n, -usd, got, 0, Fee(usd))
  BY BuyGives
<1>2. /\ t \in Sims(n) /\ t.cash = s.cash + (-usd) /\ t.qty = s.qty + got
      /\ t.spread = s.spread + 0 /\ t.fees = s.fees + Fee(usd) /\ t.rungs = WithFilled(s, i)
  BY <1>1 DEF FilledBy
<1> HIDE DEF t
<1>3. /\ Gains(t) = Gains(s) /\ Sizes(t) = Sizes(s)
      /\ i \notin FilledOf(s) /\ FilledOf(t) = FilledOf(s) \cup {i}
      /\ i \notin BoughtOf(s) /\ BoughtOf(t) = BoughtOf(s) \cup {i}
      /\ i \in WantedOf(s) /\ WantedOf(t) = WantedOf(s) \ {i}
  BY <1>2, FillMoves
<1>4. /\ s.rungs \in [1 .. n -> Rung] /\ DOMAIN s.rungs = 1 .. n
      /\ s.cash \in Nat /\ s.qty \in Nat /\ s.spread \in Nat /\ s.fees \in Nat /\ size \in Nat
  <2>1. /\ s.rungs \in [1 .. n -> Rung]
        /\ s.cash \in Nat /\ s.qty \in Nat /\ s.spread \in Nat /\ s.fees \in Nat /\ size \in Nat
    BY SimTyped
  <2> QED
    BY <2>1
<1>5. /\ \A j \in BoughtOf(s) : s.rungs[j].price \in Pos
      /\ Owing(s) <= s.cash
      /\ Off(s) <= Tolerance * Cardinality(FilledOf(s))
      /\ -Off(s) <= Tolerance * Cardinality(FilledOf(s))
  BY DEF Account
<1>6. \A j \in BoughtOf(t) : t.rungs[j].price \in Pos
  <2> DEFINE w == WithFilled(s, i)
  <2>1. \A j \in 1 .. n : w[j].price = s.rungs[j].price
    BY RungFilled
  <2>2. BoughtOf(s) \subseteq 1 .. n
    BY SetsFinite
  <2>3. t.rungs = w
    BY <1>2
  <2> HIDE DEF w
  <2> QED
    BY <1>3, <1>5, <2>1, <2>2, <2>3
<1>7. /\ Ints(Gains(s), BoughtOf(s)) /\ Discount(s) \in Int
      /\ Nats(Sizes(s), WantedOf(s)) /\ Ints(Sizes(s), WantedOf(s)) /\ Owing(s) \in Nat
      /\ Off(s) \in Int
  BY <1>5, AccountTyped
<1>8. Ints(Gains(t), BoughtOf(t)) /\ Discount(t) \in Int /\ Owing(t) \in Nat
  BY <1>2, <1>6, AccountTyped
<1>9. Sizes(s)[i] = size /\ Gains(s)[i] = g
  BY <1>4 DEF Sizes, Gains
<1>10. size + Owing(t) = Owing(s)
  <2>1. SumFunctionOnSet(Sizes(s), WantedOf(s))
          = Sizes(s)[i] + SumFunctionOnSet(Sizes(s), WantedOf(s) \ {i})
    BY <1>3, <1>7, SetsFinite, SumRemove
  <2> QED
    BY <1>3, <1>9, <2>1 DEF Owing
<1>11. usd = size /\ Owing(t) <= t.cash
  <2> DEFINE o == Owing(s)
             k == Owing(t)
             c == s.cash
  <2>1. /\ size \in Nat /\ k \in Nat /\ o \in Nat /\ c \in Nat /\ usd \in Nat
        /\ size + k = o /\ o <= c /\ (size <= c => usd = size)
        /\ t.cash = c + (-usd)
    BY <1>1, <1>2, <1>4, <1>5, <1>7, <1>8, <1>10
  <2> HIDE DEF o, k, c, size
  <2>2. usd = size /\ k <= c + (-usd)
    BY ONLY <2>1
  <2> QED
    BY ONLY <2>1, <2>2 DEF k
<1>12. Discount(t) = Discount(s) + g
  <2>1. IsFiniteSet(BoughtOf(t)) /\ i \in BoughtOf(t) /\ BoughtOf(t) \ {i} = BoughtOf(s)
    BY <1>2, <1>3, SetsFinite
  <2>2. SumFunctionOnSet(Gains(t), BoughtOf(t))
          = Gains(t)[i] + SumFunctionOnSet(Gains(t), BoughtOf(t) \ {i})
    BY <1>8, <2>1, SumRemove
  <2>3. Discount(t) = g + Discount(s)
    BY <1>3, <1>9, <2>1, <2>2 DEF Discount
  <2>4. g \in Int
    BY GainTyped
  <2> QED
    BY <1>7, <2>3, <2>4
<1> DEFINE e == got * center - GridUnit * m - GridUnit * g
<1>13. got \in Int /\ g \in Int /\ e <= Tolerance /\ -e <= Tolerance
  <2>1. g = (m * (center - r)) \div r
    BY <1>11 DEF Gain
  <2>2. Tolerance \in Nat /\ GridUnit <= Tolerance /\ center <= Tolerance
    BY ToleranceTyped
  <2>3. m \in Nat /\ r \in Pos /\ got = (m * GridUnit) \div r
    BY <1>1
  <2> HIDE DEF g, m, r, got
  <2> QED
    BY <2>1, <2>2, <2>3, BuyError
<1>14. Off(t) = Off(s) + e /\ e \in Int
  <2> DEFINE d == s.cash - (GridStart + s.spread + Discount(s) - s.fees)
             f == t.cash - (GridStart + t.spread + Discount(t) - t.fees)
             x == s.qty * center
             y == got * center
  <2>1. f = d - m - g /\ d \in Int
    <3>1. t.spread = s.spread
      BY <1>2, <1>4
    <3>2. f = (s.cash + (-usd))
                - (GridStart + s.spread + (Discount(s) + g) - (s.fees + Fee(usd)))
      BY <1>2, <1>12, <3>1
    <3>3. /\ s.cash \in Int /\ GridStart \in Int /\ s.spread \in Int /\ Discount(s) \in Int
          /\ s.fees \in Int /\ usd \in Int /\ Fee(usd) \in Int /\ g \in Int
      <4>1. usd \in Int /\ Fee(usd) \in Int
        BY <1>1
      <4>2. s.cash \in Int /\ s.spread \in Int /\ s.fees \in Int
        BY <1>4
      <4>3. GridStart \in Int
        BY DEF GridStart
      <4> QED
        BY ONLY <4>1, <4>2, <4>3, <1>7, <1>13
    <3> HIDE DEF f, g
    <3> QED
      BY ONLY <3>2, <3>3, BuyRegroups DEF d, m
  <2>2. t.qty * center = x + y /\ x \in Int /\ y \in Int
    <3> HIDE DEF got
    <3>1. (s.qty + got) * center = s.qty * center + got * center
          /\ s.qty * center \in Int /\ got * center \in Int
      BY <1>4, <1>13 DEF Pos
    <3> QED
      BY <1>2, <3>1
  <2>3. Off(t) = GridUnit * f + t.qty * center /\ Off(s) = GridUnit * d + x
        /\ e = y - GridUnit * m - GridUnit * g
    BY DEF Off
  <2>4. m \in Int /\ g \in Int
    BY <1>1, <1>13
  <2> HIDE DEF d, f, x, y, e, m, g
  <2>5. GridUnit * f = GridUnit * d - GridUnit * m - GridUnit * g
    BY ONLY <2>1, <2>4 DEF GridUnit
  <2>6. GridUnit * d \in Int /\ GridUnit * m \in Int /\ GridUnit * g \in Int
    BY ONLY <2>1, <2>4 DEF GridUnit
  <2> QED
    BY ONLY <2>2, <2>3, <2>5, <2>6
<1>15. /\ Off(t) <= Tolerance * Cardinality(FilledOf(t))
       /\ -Off(t) <= Tolerance * Cardinality(FilledOf(t))
  <2> DEFINE k == Cardinality(FilledOf(s))
  <2>1. k \in Nat /\ Cardinality(FilledOf(t)) = k + 1
    BY <1>3, SetsFinite, FS_AddElement
  <2>2. Tolerance \in Nat
    BY ToleranceTyped
  <2> DEFINE o == Off(s)
             T == Tolerance
  <2>3. o \in Int /\ o <= T * k /\ -o <= T * k /\ T \in Nat /\ e <= T /\ -e <= T
    BY <1>5, <1>7, <1>13, <2>2
  <2> HIDE DEF k, o, e, T
  <2>4. o + e <= T * (k + 1) /\ -(o + e) <= T * (k + 1)
    BY ONLY <1>14, <2>1, <2>3, OneMore
  <2> QED
    BY ONLY <1>14, <2>1, <2>4 DEF o, T
<1> QED
  BY ONLY <1>6, <1>11, <1>15 DEF Account, t

\* So does a sale, whose spread is what it brings above the center
\* (grid_backtest.py:93-105).
LEMMA SellAccount ==
  ASSUME NEW n \in Nat, NEW s \in Sims(n), NEW i \in 1 .. n, center \in Pos,
         ~s.rungs[i].filled, s.rungs[i].side = "sell", s.rungs[i].price >= center,
         NEW q, q = Sold(s, s.rungs[i]),
         NEW usd, usd = (q * s.rungs[i].price) \div GridUnit, ~(usd < LeastTrade), Account(s)
  PROVE  Account(Sell(s, i))
<1> DEFINE r == s.rungs[i].price
           h == Harvest(q, s.rungs[i])
           t == Sell(s, i)
<1>1. /\ r \in Pos /\ q \in Nat /\ q <= s.qty /\ usd \in Nat
      /\ Fee(usd) \in Nat /\ Fee(usd) <= usd /\ h \in Nat
      /\ FilledBy(s, i, t, n, usd - Fee(usd), -q, h, Fee(usd))
  BY SellGives
<1>2. /\ t \in Sims(n) /\ t.cash = s.cash + (usd - Fee(usd)) /\ t.qty = s.qty + (-q)
      /\ t.spread = s.spread + h /\ t.fees = s.fees + Fee(usd) /\ t.rungs = WithFilled(s, i)
  BY <1>1 DEF FilledBy
<1> HIDE DEF t
<1>3. /\ Gains(t) = Gains(s) /\ Sizes(t) = Sizes(s)
      /\ i \notin FilledOf(s) /\ FilledOf(t) = FilledOf(s) \cup {i}
      /\ BoughtOf(t) = BoughtOf(s) /\ WantedOf(t) = WantedOf(s)
  BY <1>2, FillMoves
<1>4. s.cash \in Nat /\ s.qty \in Nat /\ s.spread \in Nat /\ s.fees \in Nat
  BY SimTyped
<1>5. /\ \A j \in BoughtOf(s) : s.rungs[j].price \in Pos
      /\ Owing(s) <= s.cash
      /\ Off(s) <= Tolerance * Cardinality(FilledOf(s))
      /\ -Off(s) <= Tolerance * Cardinality(FilledOf(s))
  BY DEF Account
<1>6. \A j \in BoughtOf(t) : t.rungs[j].price \in Pos
  <2> DEFINE w == WithFilled(s, i)
  <2>1. \A j \in 1 .. n : w[j].price = s.rungs[j].price
    BY RungFilled
  <2>2. BoughtOf(s) \subseteq 1 .. n
    BY SetsFinite
  <2>3. t.rungs = w
    BY <1>2
  <2> HIDE DEF w
  <2> QED
    BY <1>3, <1>5, <2>1, <2>2, <2>3
<1>7. Discount(s) \in Int /\ Owing(s) \in Nat /\ Off(s) \in Int
  BY <1>5, AccountTyped
<1>8. Discount(t) = Discount(s) /\ Owing(t) = Owing(s)
  BY <1>3 DEF Discount, Owing
<1>9. Owing(t) <= t.cash
  <2> HIDE DEF h, r
  <2> QED
    BY ONLY <1>1, <1>2, <1>4, <1>5, <1>7, <1>8
<1> DEFINE e == GridUnit * usd - GridUnit * h - q * center
<1>10. usd \in Int /\ h \in Int /\ e <= GridUnit /\ -e <= GridUnit
  <2>1. usd = (q * r) \div GridUnit /\ h = (q * (r - center)) \div GridUnit
    BY DEF Harvest
  <2> HIDE DEF r, h
  <2> QED
    BY <1>1, <2>1, SellError
<1>11. Off(t) = Off(s) + e /\ e \in Int
  <2> DEFINE d == s.cash - (GridStart + s.spread + Discount(s) - s.fees)
             f == t.cash - (GridStart + t.spread + Discount(t) - t.fees)
             x == s.qty * center
             y == q * center
  <2>1. f = d + usd - h /\ d \in Int
    <3>1. f = (s.cash + (usd - Fee(usd)))
                - (GridStart + (s.spread + h) + Discount(s) - (s.fees + Fee(usd)))
      BY <1>2, <1>8
    <3>2. /\ s.cash \in Int /\ GridStart \in Int /\ s.spread \in Int /\ Discount(s) \in Int
          /\ s.fees \in Int /\ usd \in Int /\ Fee(usd) \in Int /\ h \in Int
      BY <1>1, <1>4, <1>7 DEF GridStart
    <3> HIDE DEF f, h
    <3> QED
      BY ONLY <3>1, <3>2, SellRegroups DEF d
  <2>2. t.qty * center = x - y /\ x \in Int /\ y \in Int
    <3>1. (s.qty - q) * center = s.qty * center - q * center
          /\ s.qty * center \in Int /\ q * center \in Int
      BY <1>1, <1>4 DEF Pos
    <3>2. t.qty = s.qty - q
      BY <1>1, <1>2, <1>4
    <3> QED
      BY <3>1, <3>2
  <2>3. Off(t) = GridUnit * f + t.qty * center /\ Off(s) = GridUnit * d + x
        /\ e = GridUnit * usd - GridUnit * h - y
    BY DEF Off
  <2> HIDE DEF d, f, x, y, e, h
  <2>4. GridUnit * f = GridUnit * d + GridUnit * usd - GridUnit * h
    BY ONLY <1>10, <2>1 DEF GridUnit
  <2>5. GridUnit * d \in Int /\ GridUnit * usd \in Int /\ GridUnit * h \in Int
    BY ONLY <1>10, <2>1 DEF GridUnit
  <2> QED
    BY ONLY <2>2, <2>3, <2>4, <2>5
<1>12. /\ Off(t) <= Tolerance * Cardinality(FilledOf(t))
       /\ -Off(t) <= Tolerance * Cardinality(FilledOf(t))
  <2> DEFINE k == Cardinality(FilledOf(s))
  <2>1. k \in Nat /\ Cardinality(FilledOf(t)) = k + 1
    BY <1>3, SetsFinite, FS_AddElement
  <2>2. Tolerance \in Nat /\ GridUnit <= Tolerance
    BY ToleranceTyped
  <2> DEFINE o == Off(s)
             T == Tolerance
  <2>3. o \in Int /\ o <= T * k /\ -o <= T * k /\ T \in Nat
    BY <1>5, <1>7, <2>2
  <2>4. e <= T /\ -e <= T
    <3> HIDE DEF e, T
    <3> QED
      BY <1>10, <1>11, <2>2 DEF GridUnit, T
  <2> HIDE DEF k, o, e, T
  <2>5. o + e <= T * (k + 1) /\ -(o + e) <= T * (k + 1)
    BY ONLY <1>11, <2>1, <2>3, <2>4, OneMore
  <2> QED
    BY ONLY <1>11, <2>1, <2>5 DEF o, T
<1> QED
  BY ONLY <1>6, <1>9, <1>12 DEF Account, t

\* A rung that is tried keeps a simulation well-formed and its account, and
\* does not make it worth more at the price that filled it.
LEMMA FillKeeps ==
  ASSUME NEW n \in Nat, NEW s \in Sims(n), NEW i \in 1 .. n, NEW p \in Pos,
         center \in Pos, SellsAbove(s), NEW t, t = Fill(s, i, p)
  PROVE  /\ t \in Sims(n) /\ SellsAbove(t) /\ Worth(t, p) <= Worth(s, p)
         /\ Account(s) => Account(t)
<1> DEFINE r == s.rungs[i].price
<1>1. /\ s.cash \in Nat /\ s.qty \in Nat /\ s.spread \in Nat /\ s.fees \in Nat
      /\ s.rungs \in [1 .. n -> Rung] /\ DOMAIN s.rungs = 1 .. n /\ r \in Int
      /\ s.rungs[i].side \in {"buy", "sell"}
  <2>1. /\ s.cash \in Nat /\ s.qty \in Nat /\ s.spread \in Nat /\ s.fees \in Nat
        /\ s.rungs \in [1 .. n -> Rung] /\ r \in Int /\ s.rungs[i].side \in {"buy", "sell"}
    BY SimTyped
  <2> QED
    BY <2>1
<1>2. ASSUME NEW u \in Sims(n), u.rungs = WithFilled(s, i) PROVE SellsAbove(u)
  <2> DEFINE w == WithFilled(s, i)
  <2>1. \A j \in 1 .. n : w[j].price = s.rungs[j].price /\ w[j].side = s.rungs[j].side
    BY RungFilled
  <2>2. w \in [1 .. n -> Rung]
    BY RungFilled
  <2>3. u.rungs = w
    BY <1>2
  <2> HIDE DEF w
  <2>4. DOMAIN u.rungs = 1 .. n
    BY <2>2, <2>3
  <2> QED
    BY <1>1, <2>1, <2>3, <2>4 DEF SellsAbove
<1>3. \A q \in Nat : (q * p) \div GridUnit \in Nat
  <2> SUFFICES ASSUME NEW q \in Nat PROVE (q * p) \div GridUnit \in Nat
    OBVIOUS
  <2> DEFINE k == q * p
  <2>1. k \in Nat
    BY DEF Pos
  <2> HIDE DEF k
  <2>2. k \div GridUnit \in Nat
    BY <2>1 DEF GridUnit
  <2> QED
    BY <2>2 DEF k
<1>4. Worth(s, p) \in Nat
  <2>1. s.cash \in Nat /\ (s.qty * p) \div GridUnit \in Nat
    BY <1>1, <1>3
  <2> DEFINE k == (s.qty * p) \div GridUnit
  <2> HIDE DEF k
  <2>2. s.cash + k \in Nat
    BY ONLY <2>1 DEF k
  <2> QED
    BY <2>2 DEF Worth, k
<1>5. CASE t = s
  BY <1>4, <1>5
<1>6. CASE t # s /\ s.rungs[i].side = "buy"
  <2> DEFINE usd == Min({s.rungs[i].size, s.cash})
             m == usd - Fee(usd)
             got == (m * GridUnit) \div r
  <2>1. /\ ~s.rungs[i].filled /\ p <= r /\ t = Buy(s, i) /\ ~(usd < LeastTrade)
    BY <1>6 DEF Fill, Reached, Buy
  <2>2. r \in Pos
    BY <1>1, <2>1 DEF Pos
  <2>3. /\ usd \in Nat /\ usd <= s.cash /\ m \in Nat /\ Fee(usd) \in Nat
        /\ FilledBy(s, i, t, n, -usd, got, 0, Fee(usd))
    <3> HIDE DEF usd
    <3>1. usd = Min({s.rungs[i].size, s.cash})
      BY DEF usd
    <3> QED
      BY <2>1, <2>2, <3>1, BuyGives
  <2>4. t \in Sims(n) /\ t.cash = s.cash + (-usd) /\ t.qty = s.qty + got /\ t.rungs = WithFilled(s, i)
    BY <2>3 DEF FilledBy
  <2>5. /\ got \in Nat
        /\ ((s.qty + got) * p) \div GridUnit <= (s.qty * p) \div GridUnit + m
    <3> DEFINE held == s.qty
    <3>1. held \in Nat /\ p \in Nat
      BY <1>1 DEF Pos
    <3> HIDE DEF m, held, r
    <3>2. /\ got \in Nat
          /\ ((held + got) * p) \div GridUnit <= (held * p) \div GridUnit + m
      BY <2>1, <2>2, <2>3, <3>1, BoughtWorth
    <3> QED
      BY <3>2 DEF held
  <2>6. Worth(t, p) <= Worth(s, p)
    <3> DEFINE before == (s.qty * p) \div GridUnit
               after == ((s.qty + got) * p) \div GridUnit
    <3>1. Worth(t, p) = (s.cash + (-usd)) + after /\ Worth(s, p) = s.cash + before
      BY <2>4 DEF Worth
    <3>2. before \in Nat /\ after \in Nat
      <4>1. s.qty \in Nat /\ s.qty + got \in Nat
        BY <1>1, <2>5
      <4> DEFINE k == s.qty + got
      <4>2. k \in Nat
        BY <4>1
      <4> HIDE DEF k, got
      <4> QED
        BY <1>3, <4>1, <4>2 DEF k
    <3>3. after <= before + m /\ m <= usd
      <4>1. m = usd - Fee(usd)
        OBVIOUS
      <4> HIDE DEF usd, m
      <4> QED
        BY <2>3, <2>5, <4>1
    <3> DEFINE c == s.cash
    <3>4. c \in Nat
      BY <1>1
    <3> HIDE DEF before, after, usd, m, c
    <3>5. (c + (-usd)) + after <= c + before
      BY ONLY <2>3, <3>2, <3>3, <3>4
    <3> QED
      BY ONLY <3>1, <3>5 DEF c
  <2>7. Account(s) => Account(t)
    <3> HIDE DEF usd
    <3>1. usd = Min({s.rungs[i].size, s.cash})
      BY DEF usd
    <3> QED
      BY <1>6, <2>1, <2>2, <3>1, BuyAccount
  <2> QED
    BY <1>2, <2>4, <2>6, <2>7
<1>7. CASE t # s /\ s.rungs[i].side = "sell"
  <2> DEFINE q == Sold(s, s.rungs[i])
             usd == (q * r) \div GridUnit
             h == Harvest(q, s.rungs[i])
  <2>1. /\ ~s.rungs[i].filled /\ p >= r /\ t = Sell(s, i) /\ ~(usd < LeastTrade)
    BY <1>7 DEF Fill, Reached, Sell
  <2>2. r >= center
    BY <1>1, <1>7 DEF SellsAbove
  <2>3. /\ r \in Pos /\ q \in Nat /\ q <= s.qty /\ usd \in Nat
        /\ Fee(usd) \in Nat /\ Fee(usd) <= usd
        /\ FilledBy(s, i, t, n, usd - Fee(usd), -q, h, Fee(usd))
    <3> HIDE DEF q, usd
    <3>1. q = Sold(s, s.rungs[i]) /\ usd = (q * s.rungs[i].price) \div GridUnit
      BY DEF q, usd
    <3> QED
      BY <2>1, <2>2, <3>1, SellGives
  <2>4. t \in Sims(n) /\ t.cash = s.cash + (usd - Fee(usd)) /\ t.qty = s.qty + (-q)
        /\ t.rungs = WithFilled(s, i)
    BY <2>3 DEF FilledBy
  <2>5. usd + ((s.qty - q) * p) \div GridUnit <= (s.qty * p) \div GridUnit
    <3> DEFINE held == s.qty
    <3>1. held \in Nat /\ p \in Nat /\ r <= p /\ q <= held /\ q \in Nat /\ r \in Pos
      BY <1>1, <2>1, <2>3 DEF Pos
    <3> HIDE DEF q, held, r
    <3>2. (q * r) \div GridUnit + ((held - q) * p) \div GridUnit <= (held * p) \div GridUnit
      BY ONLY <3>1, SoldWorth
    <3> QED
      BY <3>2 DEF held
  <2>6. Worth(t, p) <= Worth(s, p)
    <3> DEFINE before == (s.qty * p) \div GridUnit
               after == ((s.qty - q) * p) \div GridUnit
    <3>1. s.qty + (-q) = s.qty - q /\ s.qty - q \in Nat
      <4> HIDE DEF q
      <4>1. q \in Nat /\ q <= s.qty /\ s.qty \in Nat
        BY <1>1, <2>3
      <4> QED
        BY ONLY <4>1
    <3>2. Worth(t, p) = (s.cash + (usd - Fee(usd))) + after /\ Worth(s, p) = s.cash + before
      BY <2>4, <3>1 DEF Worth
    <3>3. before \in Nat /\ after \in Nat
      <4> DEFINE k == s.qty - q
      <4>1. k \in Nat /\ s.qty \in Nat
        BY <1>1, <3>1
      <4> HIDE DEF k, q
      <4> QED
        BY <1>3, <4>1 DEF k
    <3> DEFINE c == s.cash
    <3>4. c \in Nat /\ usd + after <= before
      BY <1>1, <2>5
    <3> HIDE DEF before, after, usd, c
    <3>5. (c + (usd - Fee(usd))) + after <= c + before
      BY ONLY <2>3, <3>3, <3>4
    <3> QED
      BY ONLY <3>2, <3>5 DEF c
  <2>7. Account(s) => Account(t)
    <3> HIDE DEF q, usd
    <3>1. q = Sold(s, s.rungs[i]) /\ usd = (q * s.rungs[i].price) \div GridUnit
      BY DEF q, usd
    <3> QED
      BY <1>7, <2>1, <2>2, <3>1, SellAccount
  <2> QED
    BY <1>2, <2>4, <2>6, <2>7
<1> QED
  BY <1>1, <1>5, <1>6, <1>7

-----------------------------------------------------------------------------
(* The replay of the grid. *)

\* The grid's account is kept until the grid is built anew.
GridBooks ==
  /\ GridTypeOK
  /\ SellsAbove(Sim)
  /\ ~rebuilt => Account(Sim)

LEMMA SimIs ==
  /\ Sim.cash = gcash /\ Sim.qty = gqty /\ Sim.spread = spread /\ Sim.fees = fees
  /\ Sim.rungs = rungs
BY DEF Sim

LEMMA SimOf ==
  ASSUME GridTypeOK
  PROVE  /\ Len(rungs) \in Nat /\ DOMAIN rungs = 1 .. Len(rungs) /\ Sim \in Sims(Len(rungs))
         /\ center \in Pos
<1>1. rungs \in Seq(Rung) /\ gcash \in Nat /\ gqty \in Nat /\ spread \in Nat /\ fees \in Nat
  BY DEF GridTypeOK
<1>2. Len(rungs) \in Nat /\ rungs \in [1 .. Len(rungs) -> Rung] /\ DOMAIN rungs = 1 .. Len(rungs)
  BY <1>1
<1>3. Sim \in Sims(Len(rungs))
  BY <1>1, <1>2 DEF Sim, Sims
<1>4. center \in Pos
  BY GridSettings DEF GridTypeOK
<1> QED
  BY <1>2, <1>3, <1>4

\* All the rungs of a price: what holds of one fill holds of them.
LEMMA FilledKeeps ==
  ASSUME GridBooks, NEW p \in GridPrices
  PROVE  /\ Filled(p) \in Sims(Len(rungs)) /\ SellsAbove(Filled(p))
         /\ Worth(Filled(p), p) <= Worth(Sim, p)
         /\ ~rebuilt => Account(Filled(p))
<1> DEFINE n == Len(rungs)
           V == {s \in Sims(n) : /\ SellsAbove(s) /\ Worth(s, p) <= Worth(Sim, p)
                                 /\ ~rebuilt => Account(s)}
<1>1. n \in Nat /\ DOMAIN rungs = 1 .. n /\ Sim \in Sims(n) /\ center \in Pos /\ p \in Pos
  BY SimOf, GridSettings DEF GridBooks
<1> HIDE DEF n
<1>2. \A s \in Sims(n) : Worth(s, p) \in Int
  <2> SUFFICES ASSUME NEW s \in Sims(n) PROVE Worth(s, p) \in Int
    OBVIOUS
  <2>1. s.cash \in Nat /\ s.qty \in Nat
    BY DEF Sims
  <2> DEFINE k == s.qty * p
  <2>2. k \in Nat
    BY <1>1, <2>1 DEF Pos
  <2> HIDE DEF k
  <2>3. k \div GridUnit \in Nat
    BY <2>2 DEF GridUnit
  <2>4. Worth(s, p) = s.cash + k \div GridUnit
    BY DEF Worth, k
  <2> QED
    BY <2>1, <2>3, <2>4
<1>3. Sim \in V
  BY <1>1, <1>2 DEF GridBooks
<1>4. ASSUME NEW s \in V, NEW i \in DOMAIN rungs PROVE Fill(s, i, p) \in V
  <2>1. s \in Sims(n) /\ i \in 1 .. n /\ SellsAbove(s)
    BY <1>1
  <2> DEFINE t == Fill(s, i, p)
  <2>2. /\ t \in Sims(n) /\ SellsAbove(t) /\ Worth(t, p) <= Worth(s, p)
        /\ Account(s) => Account(t)
    BY <1>1, <2>1, FillKeeps
  <2> HIDE DEF t
  <2>3. Worth(t, p) <= Worth(Sim, p)
    <3>1. Worth(s, p) <= Worth(Sim, p) /\ Worth(s, p) \in Int /\ Worth(Sim, p) \in Int
          /\ Worth(t, p) \in Int
      BY <1>1, <1>2, <2>1, <2>2
    <3> QED
      BY <2>2, <3>1
  <2>4. t \in V
    BY <2>2, <2>3
  <2> QED
    BY <2>4 DEF t
<1>5. rungs \in Seq(Rung)
  BY DEF GridBooks, GridTypeOK
<1>6. Filled(p) \in V
  <2> HIDE DEF V
  <2> QED
    BY <1>3, <1>4, <1>5, FilledIn
<1> QED
  BY <1>6 DEF n

\* The first grid owes its purchases no more than the replay begins with, and
\* its account is exact.
LEMMA InitAccount ==
  ASSUME GridInit
  PROVE  GridBooks
<1>1. /\ price \in GridPrices /\ center = price
      /\ gcash = GridStart /\ gqty = 0 /\ spread = 0 /\ fees = 0 /\ rebuilt = FALSE
  BY DEF GridInit
<1>2. PICK atr \in Atrs : rungs = BuildGrid(price, atr, GridStart)
  BY DEF GridInit
<1>3. price \in Pos /\ atr \in Nat /\ GridStart \in Nat
  BY <1>1, GridSettings DEF GridStart
<1>4. /\ NewGrid(rungs, price)
      /\ \E b \in Nat : b <= GridStart /\ FirstGrid(rungs, b)
  BY <1>2, <1>3, GridTyped
<1>5. PICK b \in Nat : b <= GridStart /\ FirstGrid(rungs, b)
  BY <1>4
<1>6. /\ rungs \in Seq(Rung) /\ Len(rungs) = 2 * N /\ N \in Nat /\ N >= 1
      /\ \A i \in DOMAIN rungs : ~rungs[i].filled
      /\ \A i \in DOMAIN rungs : rungs[i].side = "sell" => rungs[i].price >= center
  BY <1>1, <1>4, <1>5, GridSettings DEF NewGrid, FirstGrid
<1>7. GridTypeOK
  <2>1. price \in GridPrices /\ center \in GridPrices
    BY <1>1
  <2>2. gcash \in Nat /\ gqty \in Nat /\ spread \in Nat /\ fees \in Nat /\ rebuilt \in BOOLEAN
    BY <1>1, <1>3
  <2>3. Len(rungs) \in {0, RungsPerSide, 2 * RungsPerSide} /\ Len(rungs) = 2 * RungsPerSide
    BY <1>6 DEF N
  <2> QED
    BY <1>6, <2>1, <2>2, <2>3 DEF GridTypeOK
<1>8. SellsAbove(Sim)
  BY <1>6, SimIs DEF SellsAbove
<1>9. DOMAIN rungs = 1 .. 2 * N
  BY <1>6
<1>10. BoughtOf(Sim) = {} /\ FilledOf(Sim) = {} /\ WantedOf(Sim) = 1 .. N
  <2>1. BoughtOf(Sim) = {} /\ FilledOf(Sim) = {}
    BY <1>6, SimIs DEF BoughtOf, FilledOf
  <2>2. WantedOf(Sim) = {i \in 1 .. 2 * N : rungs[i].side = "buy" /\ ~rungs[i].filled}
    BY <1>9, SimIs DEF WantedOf
  <2>3. \A i \in 1 .. 2 * N : rungs[i].side = "buy" <=> i \in 1 .. N
    <3>1. \A i \in 1 .. 2 * N : i \in 1 .. N \/ i \in N + 1 .. 2 * N
      BY <1>6
    <3>2. /\ \A i \in 1 .. N : rungs[i].side = "buy"
          /\ \A i \in N + 1 .. 2 * N : rungs[i].side = "sell"
      BY <1>5 DEF FirstGrid
    <3> QED
      BY <3>1, <3>2
  <2>4. 1 .. N \subseteq 1 .. 2 * N
    BY <1>6
  <2> QED
    BY <1>6, <1>9, <2>1, <2>2, <2>3, <2>4
<1>11. Owing(Sim) <= gcash
  <2> DEFINE f == Sizes(Sim)
  <2>1. \A i \in 1 .. N : f[i] = RungSize(b, Shares, i)
    <3>1. \A i \in 1 .. N : i \in DOMAIN rungs
      BY <1>6, <1>9
    <3>2. \A i \in 1 .. N : rungs[i].size = RungSize(b, Shares, i)
      BY <1>5 DEF FirstGrid
    <3> QED
      BY <3>1, <3>2, SimIs DEF Sizes
  <2>2. Owing(Sim) = SumFunctionOnSet(f, 1 .. N)
    BY <1>10 DEF Owing
  <2> HIDE DEF f
  <2>3. SumFunctionOnSet(f, 1 .. N) <= b /\ Nats(f, 1 .. N) /\ Ints(f, 1 .. N)
    BY <2>1, RungsAddUp
  <2>4. SumFunctionOnSet(f, 1 .. N) \in Nat
    BY <2>3, SumType, FS_Interval, GridSettings
  <2> QED
    BY <1>1, <1>3, <1>5, <2>2, <2>3, <2>4
<1>12. Off(Sim) = 0
  <2>1. Discount(Sim) = 0
    BY <1>10, SumEmpty DEF Discount
  <2>2. Off(Sim) = GridUnit * (GridStart - (GridStart + 0 + 0 - 0)) + 0 * center
    BY <1>1, <2>1, SimIs DEF Off
  <2>3. center \in Int
    BY <1>1, <1>3 DEF Pos
  <2>4. 0 * center = 0
    BY <2>3
  <2> QED
    BY <2>2, <2>4 DEF GridUnit, GridStart
<1>13. Account(Sim)
  <2>1. Cardinality(FilledOf(Sim)) = 0
    BY <1>10, FS_EmptySet
  <2>2. Tolerance \in Nat
    BY <1>1, <1>3, ToleranceTyped
  <2>3. Tolerance * 0 = 0
    BY <2>2
  <2>4. Owing(Sim) <= Sim.cash
    BY <1>11, SimIs
  <2> QED
    BY <1>10, <1>12, <2>1, <2>3, <2>4 DEF Account
<1> QED
  BY <1>7, <1>8, <1>13 DEF GridBooks

\* What a simulation that was made is, field by field.
LEMMA SimAgain ==
  ASSUME NEW n, NEW s \in Sims(n)
  PROVE  s = [cash |-> s.cash, qty |-> s.qty, spread |-> s.spread, fees |-> s.fees,
              rungs |-> s.rungs]
BY DEF Sims

LEMMA ReplayKeeps ==
  ASSUME GridBooks, NEW p \in GridPrices, GridReplay(p)
  PROVE  GridBooks'
<1> DEFINE n == Len(rungs)
           F == Filled(p)
<1>1. /\ n \in Nat /\ DOMAIN rungs = 1 .. n /\ center \in GridPrices
      /\ n \in {0, RungsPerSide, 2 * RungsPerSide}
      /\ ~rebuilt => n = 2 * RungsPerSide
      /\ rebuilt \in BOOLEAN
  BY SimOf DEF GridBooks, GridTypeOK
<1>2. F \in Sims(n) /\ SellsAbove(F) /\ (~rebuilt => Account(F))
  BY FilledKeeps
<1>3. /\ price' = p
      /\ gcash' = F.cash /\ gqty' = F.qty /\ spread' = F.spread /\ fees' = F.fees
      /\ rebuilt' = (rebuilt \/ NeedsRebalance(center, p))
      /\ NeedsRebalance(center, p) =>
           \E atr \in Atrs : center' = p /\ rungs' = BuildGrid(p, atr, Worth(F, p))
      /\ ~NeedsRebalance(center, p) => center' = center /\ rungs' = F.rungs
  BY DEF GridReplay
<1> HIDE DEF n, F
<1>4. /\ F.cash \in Nat /\ F.qty \in Nat /\ F.spread \in Nat /\ F.fees \in Nat
      /\ F.rungs \in [1 .. n -> Rung]
  BY <1>2 DEF Sims
<1>5. /\ gcash' \in Nat /\ gqty' \in Nat /\ spread' \in Nat /\ fees' \in Nat
      /\ price' \in GridPrices /\ rebuilt' \in BOOLEAN
  <2>1. rebuilt' \in BOOLEAN
    BY <1>3
  <2> QED
    BY <1>3, <1>4, <2>1
<1>6. CASE NeedsRebalance(center, p)
  <2>1. PICK atr \in Atrs : center' = p /\ rungs' = BuildGrid(p, atr, Worth(F, p))
    BY <1>3, <1>6
  <2>2. Worth(F, p) \in Nat
    <3> DEFINE k == F.qty * p
    <3>1. k \in Nat
      BY <1>4, GridSettings DEF Pos
    <3> HIDE DEF k
    <3>2. k \div GridUnit \in Nat
      BY <3>1 DEF GridUnit
    <3>3. Worth(F, p) = F.cash + k \div GridUnit
      BY DEF Worth, k
    <3> QED
      BY <1>4, <3>2, <3>3
  <2>3. p \in Pos /\ atr \in Nat
    BY GridSettings
  <2>4. NewGrid(rungs', p)
    <3> DEFINE g == rungs'
               usd == Worth(F, p)
    <3>1. g = BuildGrid(p, atr, usd) /\ usd \in Nat
      BY <2>1, <2>2
    <3> HIDE DEF g, usd
    <3>2. NewGrid(g, p)
      BY <2>3, <3>1, GridTyped
    <3> QED
      BY <3>2 DEF g
  <2>5. /\ rungs' \in Seq(Rung) /\ Len(rungs') \in {0, RungsPerSide, 2 * RungsPerSide}
        /\ \A i \in DOMAIN rungs' : rungs'[i].side = "sell" => rungs'[i].price >= p
    BY <2>4 DEF NewGrid, N
  <2>6. rebuilt' = TRUE
    BY <1>3, <1>6
  <2>7. GridTypeOK'
    BY <1>5, <2>1, <2>5, <2>6 DEF GridTypeOK
  <2>8. SellsAbove(Sim)'
    BY <2>1, <2>5 DEF SellsAbove, Sim
  <2> QED
    BY <2>6, <2>7, <2>8 DEF GridBooks
<1>7. CASE ~NeedsRebalance(center, p)
  <2>1. center' = center /\ rungs' = F.rungs
    BY <1>3, <1>7
  <2>2. rungs' \in Seq(Rung) /\ Len(rungs') = n
    <3> DEFINE g == F.rungs
    <3>1. g \in [1 .. n -> Rung]
      BY <1>4
    <3> HIDE DEF g
    <3>2. g = [i \in 1 .. n |-> g[i]] /\ \A i \in 1 .. n : g[i] \in Rung
      BY <3>1
    <3>3. g \in Seq(Rung) /\ Len(g) = n
      BY <1>1, <3>2, AsSequence
    <3> QED
      BY <2>1, <3>3 DEF g
  <2>3. ~rebuilt' => ~rebuilt
    BY <1>3, <1>7
  <2>4. GridTypeOK'
    BY <1>1, <1>5, <2>1, <2>2, <2>3 DEF GridTypeOK
  <2>5. Sim' = F
    <3>1. Sim' = [cash |-> F.cash, qty |-> F.qty, spread |-> F.spread, fees |-> F.fees,
                  rungs |-> F.rungs]
      BY <1>3, <2>1 DEF Sim
    <3> QED
      BY <1>2, <3>1, SimAgain
  <2>6. SellsAbove(Sim)'
    <3>1. \A i \in DOMAIN F.rungs : F.rungs[i].side = "sell" => F.rungs[i].price >= center
      BY <1>2 DEF SellsAbove
    <3>2. \A i \in DOMAIN rungs' : rungs'[i].side = "sell" => rungs'[i].price >= center'
      BY <2>1, <3>1
    <3> QED
      BY <3>2 DEF SellsAbove, Sim
  <2>7. (~rebuilt => Account(Sim))'
    <3> SUFFICES ASSUME ~rebuilt' PROVE Account(Sim)'
      OBVIOUS
    <3>1. Account(F)
      BY <1>2, <2>3
    <3>2. Account(Sim)' <=> Account(F)
      BY <2>1, <2>5 DEF Account, Owing, Off, Discount, Tolerance, Gains, Gain, Sizes,
         BoughtOf, WantedOf, FilledOf
    <3> QED
      BY <3>1, <3>2
  <2> QED
    BY <2>4, <2>6, <2>7 DEF GridBooks
<1> QED
  BY <1>6, <1>7

LEMMA GridNextBooks == GridBooks /\ [GridNext]_gridVars => GridBooks'
<1> SUFFICES ASSUME GridBooks, [GridNext]_gridVars PROVE GridBooks'
  OBVIOUS
<1>1. CASE GridNext
  BY <1>1, ReplayKeeps DEF GridNext
<1>2. CASE UNCHANGED gridVars
  BY <1>2 DEF gridVars, GridBooks, GridTypeOK, SellsAbove, Sim, Account, Owing, Off, Discount,
     Tolerance, Gains, Gain, Sizes, BoughtOf, WantedOf, FilledOf
<1> QED
  BY <1>1, <1>2

\* Whatever the prices and the volatilities, and whatever the mood, the replay
\* of the grid sells no token it does not have and spends no cash it does not
\* have, and every spread it counts is a gain (grid_backtest.py:73-122).
THEOREM GridStaysTyped == GridSpec => []GridTypeOK
<1>1. GridSpec => []GridBooks
  BY InitAccount, GridNextBooks, PTL DEF GridSpec
<1>2. GridBooks => GridTypeOK
  BY DEF GridBooks
<1> QED
  BY <1>1, <1>2, PTL

\* No price makes the fills worth more than what was there, at that price
\* (grid_backtest.py:73-105).
THEOREM NothingFromFills == GridSpec => FillsNeverEnrich
<1>1. ASSUME GridBooks, [GridNext]_gridVars
      PROVE  [gcash' + (gqty' * price') \div GridUnit
                <= gcash + (gqty * price') \div GridUnit]_gridVars
  <2>1. CASE GridNext
    <3>1. PICK p \in GridPrices : GridReplay(p)
      BY <2>1 DEF GridNext
    <3>2. price' = p /\ gcash' = Filled(p).cash /\ gqty' = Filled(p).qty
      BY <3>1 DEF GridReplay
    <3>3. Worth(Filled(p), p) <= Worth(Sim, p)
      BY <1>1, FilledKeeps
    <3>4. /\ Worth(Filled(p), p) = gcash' + (gqty' * price') \div GridUnit
          /\ Worth(Sim, p) = gcash + (gqty * price') \div GridUnit
      BY <3>2, SimIs DEF Worth
    <3> QED
      BY <3>3, <3>4
  <2>2. CASE UNCHANGED gridVars
    BY <2>2
  <2> QED
    BY <1>1, <2>1, <2>2
<1>2. GridSpec => []GridBooks
  BY InitAccount, GridNextBooks, PTL DEF GridSpec
<1> QED
  BY <1>1, <1>2, PTL DEF GridSpec, FillsNeverEnrich

\* Arithmetic: what is off by parts is off by less in whole units.
LEMMA WholeUnits ==
  ASSUME NEW x \in Int, NEW y \in Nat, NEW k \in Nat,
         10000 * x + y <= 10000 * k, -(10000 * x + y) <= 10000 * k
  PROVE  Size(x + y \div 10000) <= k + 1
BY DEF Size

\* Until the grid is built anew the spread, the discount and the fees it
\* reports are those of its cash and tokens, whatever fills and in whatever
\* order, but for rounding (grid_backtest.py:81-105).
THEOREM AccountBalances == GridSpec => []HarvestIsReal
<1>1. ASSUME GridBooks PROVE HarvestIsReal
  <2> SUFFICES ASSUME ~rebuilt PROVE HarvestIsReal
    BY DEF HarvestIsReal
  <2> DEFINE bought == {i \in DOMAIN rungs : rungs[i].side = "buy" /\ rungs[i].filled}
             f == [i \in bought |-> Gain(rungs[i])]
             d == gcash - (GridStart + spread + Discount(Sim) - fees)
             k == Cardinality(FilledOf(Sim))
             each == 1 + center \div GridUnit
             y == gqty * center
  <2>1. /\ Len(rungs) = 2 * N /\ Len(rungs) \in Nat /\ DOMAIN rungs = 1 .. Len(rungs)
        /\ Sim \in Sims(Len(rungs)) /\ center \in Pos
        /\ gcash \in Nat /\ gqty \in Nat /\ spread \in Nat /\ fees \in Nat
    BY <1>1, SimOf DEF GridBooks, GridTypeOK, N
  <2>2. Account(Sim)
    BY <1>1 DEF GridBooks
  <2>3. \A i \in BoughtOf(Sim) : Sim.rungs[i].price \in Pos
    BY <2>2 DEF Account
  <2>4. Ints(Gains(Sim), BoughtOf(Sim)) /\ Discount(Sim) \in Int /\ IsFiniteSet(BoughtOf(Sim))
    BY <2>1, <2>3, AccountTyped, SetsFinite
  <2>5. SumFunction(f) = Discount(Sim)
    <3>1. BoughtOf(Sim) = bought
      BY SimIs DEF BoughtOf
    <3>2. \A i \in bought : Gains(Sim)[i] = f[i]
      BY SimIs DEF Gains
    <3>3. DOMAIN f = bought
      OBVIOUS
    <3> HIDE DEF f, bought
    <3>4. SumFunctionOnSet(Gains(Sim), bought) = SumFunctionOnSet(f, bought)
      BY <2>4, <3>1, <3>2, SumSame
    <3> QED
      BY <3>1, <3>3, <3>4 DEF SumFunction, Discount
  <2>6. d \in Int /\ y \in Nat
    <3>1. d \in Int
      <4> DEFINE e == Discount(Sim)
      <4>1. e \in Int
        BY <2>4
      <4> HIDE DEF e
      <4>2. gcash - (GridStart + spread + e - fees) \in Int
        BY ONLY <2>1, <4>1 DEF GridStart
      <4> QED
        BY <4>2 DEF e
    <3>2. y \in Nat
      BY <2>1 DEF Pos
    <3> QED
      BY <3>1, <3>2
  <2>7. Off(Sim) = GridUnit * d + y
    BY SimIs DEF Off
  <2>8. k \in Nat /\ k <= 2 * N
    BY <2>1, SetsFinite
  <2>9. each \in Nat /\ Tolerance = GridUnit * each
    <3>1. center \div 10000 \in Nat
      BY <2>1 DEF Pos
    <3> QED
      BY <3>1 DEF Tolerance, GridUnit
  <2>10. Off(Sim) <= Tolerance * k /\ -Off(Sim) <= Tolerance * k
    BY <2>2 DEF Account
  <2> HIDE DEF d, k, each, y, f
  <2>11. each * k \in Nat /\ each * k <= each * (2 * N) /\ Tolerance * k = 10000 * (each * k)
    <3>1. N \in Nat
      BY GridSettings
    <3>2. each * k \in Int /\ each * k <= each * (2 * N)
      BY <2>8, <2>9, <3>1, TimesMonotone
    <3>3. (10000 * each) * k = 10000 * (each * k) /\ each * k \in Nat
      BY <2>8, <2>9
    <3> QED
      BY <2>9, <3>2, <3>3 DEF GridUnit
  <2>12. Size(d + y \div 10000) <= each * k + 1
    <3> DEFINE m == each * k
    <3>1. m \in Nat /\ 10000 * d + y <= 10000 * m /\ -(10000 * d + y) <= 10000 * m
      BY <2>7, <2>10, <2>11 DEF GridUnit
    <3> HIDE DEF m
    <3>2. Size(d + y \div 10000) <= m + 1
      BY <2>6, <3>1, WholeUnits
    <3> QED
      BY <3>2 DEF m
  <2>13. Size(d + y \div 10000) <= 2 * RungsPerSide * each + 1
    <3>1. y \div 10000 \in Int
      BY <2>6
    <3>2. Size(d + y \div 10000) \in Int
      BY <2>6, <3>1 DEF Size
    <3>3. each * (2 * N) = 2 * RungsPerSide * each /\ each * (2 * N) \in Int
      BY <2>9, GridSettings DEF N
    <3> QED
      BY <2>11, <2>12, <3>2, <3>3
  <2> DEFINE worth == gcash + (gqty * center) \div GridUnit
             discount == SumFunction([i \in bought |-> Gain(rungs[i])])
  <2>14. worth - (GridStart + spread + discount - fees) = d + y \div 10000
    <3>1. y \div 10000 \in Int
      BY <2>6
    <3> DEFINE e == Discount(Sim)
               z == y \div 10000
    <3>2. discount = e /\ worth = gcash + z /\ e \in Int /\ z \in Int
          /\ d = gcash - (GridStart + spread + e - fees)
      BY <2>4, <2>5, <3>1 DEF f, y, GridUnit, d
    <3> HIDE DEF discount, worth, e, z
    <3>3. worth - (GridStart + spread + discount - fees) = d + z
      BY ONLY <2>1, <3>2 DEF GridStart
    <3> QED
      BY <3>3 DEF z
  <2>15. Size(worth - (GridStart + spread + discount - fees))
           <= 2 * RungsPerSide * (1 + center \div GridUnit) + 1
    BY <2>13, <2>14 DEF each
  <2> QED
    BY <2>15 DEF HarvestIsReal, Gain
<1>2. GridSpec => []GridBooks
  BY InitAccount, GridNextBooks, PTL DEF GridSpec
<1> QED
  BY <1>1, <1>2, PTL
=============================================================================
