-------------------------- MODULE Exposure_proofs --------------------------
(***************************************************************************)
(* How far a tick can take the wallet past the exposure cap, for any       *)
(* tokens, wallets, limits and batches: not at all beyond the fallback     *)
(* when every portfolio is exact, and by a bounded number of trades        *)
(* whatever settles late, is torn or is lost.                              *)
(***************************************************************************)
EXTENDS Exposure, Sums

-----------------------------------------------------------------------------
(* What a verdict of Keel guarantees of the portfolio it was given, for    *)
(* every setting of the limits, every portfolio and every candidate.       *)

\* The part of a portfolio evaluate reads about a candidate.
IsView(shown, c) ==
  /\ shown.nav \in Nat
  /\ shown.held[Base] \in Nat /\ shown.held[c.token] \in Nat

\* A percentage is a number, and the limits are.
LEMMA BpsTyped == \A p \in Bps : p \in Nat /\ p <= 10000 /\ 10000 - p \in Nat
BY DEF Bps

LEMMA LimitsTyped ==
  /\ MaxTradeBps \in Nat /\ MaxRiskOnBps \in Nat /\ MaxTokenBps \in Nat
  /\ MaxTradeBps <= 10000 /\ MaxRiskOnBps <= 10000 /\ MaxTokenBps <= 10000
  /\ MinNotional \in Nat
BY KeelAssumption, BpsTyped

\* A share is a whole number of cents.
LEMMA ShareType ==
  ASSUME NEW nav \in Nat, NEW bps \in Nat
  PROVE  Share(nav, bps) \in Nat
BY DEF Share

\* A larger percentage is a larger share.
LEMMA ShareMonotone ==
  ASSUME NEW nav \in Nat, NEW a \in Nat, NEW b \in Nat, a <= b
  PROVE  Share(nav, a) <= Share(nav, b)
<1>1. nav * a \in Nat /\ nav * b \in Nat
  OBVIOUS
<1>2. nav * a <= nav * b
  <2>1. PICK d \in Nat : b = a + d
    <3>1. b - a \in Nat /\ b = a + (b - a)
      OBVIOUS
    <3> QED
      BY <3>1
  <2>2. nav * (a + d) = nav * a + nav * d /\ nav * d \in Nat
    OBVIOUS
  <2> QED
    BY <1>1, <2>1, <2>2
<1>3. \A p, q \in Nat : p <= q => p \div 10000 <= q \div 10000
  OBVIOUS
<1> QED
  BY <1>1, <1>2, <1>3 DEF Share

\* The per-trade cap (risk.py:55-57): what is asked for is within it.
LEMMA AskedWithinTradeCap ==
  ASSUME NEW c, c.bps \in Nat, NEW shown, shown.nav \in Nat
  PROVE  /\ Asked(c, shown) \in Nat
         /\ Asked(c, shown) <= Share(shown.nav, MaxTradeBps)
<1> DEFINE size == LeastOf(c.bps, MaxTradeBps)
<1>1. MaxTradeBps \in Nat /\ size \in Nat /\ size <= MaxTradeBps
  BY LimitsTyped DEF LeastOf
<1>2. Asked(c, shown) = Share(shown.nav, size)
  BY DEF Asked
<1> HIDE DEF size
<1>3. Share(shown.nav, size) \in Nat
  BY <1>1, ShareType
<1>4. Share(shown.nav, size) <= Share(shown.nav, MaxTradeBps)
  BY <1>1, ShareMonotone
<1> QED
  BY <1>2, <1>3, <1>4

\* The larger portfolio has the larger share.
LEMMA ShareOfMore ==
  ASSUME NEW m \in Nat, NEW n \in Nat, NEW bps \in Nat, m <= n
  PROVE  Share(m, bps) <= Share(n, bps)
<1>1. PICK d \in Nat : n = m + d
  <2>1. n - m \in Nat /\ n = m + (n - m)
    OBVIOUS
  <2> QED
    BY <2>1
<1>2. (m + d) * bps = m * bps + d * bps /\ m * bps \in Nat /\ d * bps \in Nat
  OBVIOUS
<1>3. \A p, q \in Nat : p <= q => p \div 10000 <= q \div 10000
  OBVIOUS
<1>4. n * bps \in Nat /\ m * bps <= n * bps
  BY <1>1, <1>2
<1> QED
  BY <1>2, <1>3, <1>4 DEF Share

\* The exposure cap only ever resizes a purchase downwards (risk.py:67-77).
LEMMA NotionalWithinAsked ==
  ASSUME NEW c, c.bps \in Nat,
         NEW shown, IsView(shown, c),
         NEW stopped \in BOOLEAN, Approved(c, shown, stopped)
  PROVE  Notional(c, shown) \in Nat /\ Notional(c, shown) <= Asked(c, shown)
<1> DEFINE cap == Share(shown.nav, MaxRiskOnBps)
           room == MaxRiskOnBps * shown.nav
<1>1. /\ shown.nav \in Nat /\ MaxRiskOnBps \in Nat /\ RiskOn(shown) \in Int
      /\ MinNotional \in Nat
  <2>1. shown.nav \in Nat /\ shown.held[Base] \in Nat
    BY DEF IsView
  <2> QED
    BY <2>1, LimitsTyped DEF RiskOn
<1>2. Asked(c, shown) \in Nat
  BY <1>1, AskedWithinTradeCap
<1>3. Notional(c, shown) >= MinNotional
  BY DEF Approved
<1>4. CASE c.dir = "buy" /\ OverCap(c, shown)
  <2>1. Notional(c, shown) = cap - RiskOn(shown)
    BY <1>4 DEF Notional, Headroom
  <2>2. 10000 * (RiskOn(shown) + Asked(c, shown)) > room
    BY <1>4 DEF OverCap
  <2>3. cap \in Nat /\ room \in Nat /\ 10000 * cap <= room
    <3>1. room \in Nat /\ room = shown.nav * MaxRiskOnBps
      BY <1>1
    <3>2. cap \in Nat /\ 10000 * cap <= shown.nav * MaxRiskOnBps
      BY <1>1, ShareType DEF Share
    <3> HIDE DEF cap, room
    <3> QED
      BY <3>1, <3>2
  <2> HIDE DEF cap, room
  <2> QED
    BY <1>1, <1>2, <1>3, <2>1, <2>2, <2>3
<1>5. CASE ~(c.dir = "buy" /\ OverCap(c, shown))
  BY <1>2, <1>5 DEF Notional
<1> QED
  BY <1>4, <1>5

\* A purchase that Keel approves, resized or not, stays within the per-trade
\* cap and takes the portfolio it was shown no further than the exposure cap
\* (risk.py:54-77); it is neither dust nor bought in hard de-risk.
THEOREM ApprovedPurchase ==
  ASSUME NEW c, c.bps \in Nat, c.dir = "buy",
         NEW shown, IsView(shown, c),
         NEW stopped \in BOOLEAN, Approved(c, shown, stopped)
  PROVE  /\ RiskOn(shown) + Notional(c, shown) <= Share(shown.nav, MaxRiskOnBps)
         /\ Notional(c, shown) <= Share(shown.nav, MaxTradeBps)
         /\ Notional(c, shown) >= MinNotional
         /\ ~stopped
<1> DEFINE cap == Share(shown.nav, MaxRiskOnBps)
           room == MaxRiskOnBps * shown.nav
<1>0. /\ shown.nav \in Nat /\ shown.held[Base] \in Nat
      /\ MaxRiskOnBps \in Nat /\ MaxTradeBps \in Nat
  <2>1. shown.nav \in Nat /\ shown.held[Base] \in Nat
    BY DEF IsView
  <2> QED
    BY <2>1, LimitsTyped
<1>1. /\ shown.nav \in Nat /\ RiskOn(shown) \in Int
      /\ MaxRiskOnBps \in Nat
  BY <1>0 DEF RiskOn
<1>2. /\ room \in Nat /\ cap \in Nat
      /\ 10000 * cap <= room /\ room < 10000 * cap + 10000
  <2>1. room \in Nat /\ room = shown.nav * MaxRiskOnBps
    BY <1>0
  <2>2. cap \in Nat
    BY <1>0, ShareType
  <2>3. /\ 10000 * cap <= shown.nav * MaxRiskOnBps
        /\ shown.nav * MaxRiskOnBps < 10000 * cap + 10000
    BY <1>0 DEF Share
  <2> HIDE DEF cap, room
  <2> QED
    BY <2>1, <2>2, <2>3
<1>3. /\ Asked(c, shown) \in Nat
      /\ Asked(c, shown) <= Share(shown.nav, MaxTradeBps)
      /\ Share(shown.nav, MaxTradeBps) \in Nat
  BY <1>0, AskedWithinTradeCap, ShareType
<1>4. Notional(c, shown) >= MinNotional /\ ~stopped
  BY DEF Approved
<1>5. CASE OverCap(c, shown)
  <2>1. Notional(c, shown) = cap - RiskOn(shown)
    BY <1>5 DEF Notional, Headroom
  <2>2. 10000 * (RiskOn(shown) + Asked(c, shown)) > room
    BY <1>5 DEF OverCap
  <2>3. cap - RiskOn(shown) < Asked(c, shown)
    <3> HIDE DEF cap, room
    <3> QED
      BY <1>1, <1>2, <1>3, <2>2
  <2> QED
    <3> HIDE DEF cap, room
    <3>1. RiskOn(shown) + Notional(c, shown) <= cap
      BY <1>1, <1>2, <2>1
    <3>2. Notional(c, shown) <= Share(shown.nav, MaxTradeBps)
      BY <1>1, <1>2, <1>3, <2>1, <2>3
    <3> QED
      BY <1>4, <3>1, <3>2 DEF cap
<1>6. CASE ~OverCap(c, shown)
  <2>1. Notional(c, shown) = Asked(c, shown)
    BY <1>6 DEF Notional
  <2>2. 10000 * (RiskOn(shown) + Asked(c, shown)) <= room
    <3>1. ~(10000 * (RiskOn(shown) + Asked(c, shown)) > room)
      BY <1>6 DEF OverCap
    <3> HIDE DEF cap, room
    <3> QED
      BY <1>1, <1>2, <1>3, <3>1
  <2>3. RiskOn(shown) + Asked(c, shown) <= cap
    <3> HIDE DEF cap, room
    <3> QED
      BY <1>1, <1>2, <1>3, <2>2
  <2> QED
    BY <1>3, <1>4, <2>1, <2>3
<1> QED
  BY <1>5, <1>6

-----------------------------------------------------------------------------
(* The inductive invariant. *)

\* The types of everything but the sequences.
Kinds ==
  /\ wallet \in [Assets -> Nat]
  /\ phase \in Phase
  /\ listing \in [Assets -> Nat]
  /\ view.nav \in Nat /\ view.held \in [Assets -> Nat]
  /\ derisk \in BOOLEAN
  /\ start \in Nat /\ sight \in Sight /\ twice \in 0 .. MaxTwice

\* Every swap has Base on one side only.
OneSided(s) == s \in Swap /\ ((s.from = Base) # (s.to = Base))

\* What is under way and what is still to execute are no more than the
\* candidates of a tick, but for second attempts, and nothing is under way
\* before the first of them.
Flow ==
  /\ flight \in Seq(Swap) /\ todo \in Seq(Candidate)
  /\ \A i \in 1 .. Len(flight) : OneSided(flight[i])
  /\ Len(flight) + Len(todo) <= MaxActions + 1 + twice
  /\ Len(todo) <= MaxActions
  /\ phase \in {"list", "query", "fallback"} => flight = <<>>
  /\ phase \in {"idle", "list", "query", "fallback", "signal"} => todo = <<>>
  /\ phase = "signal" => Len(flight) <= 1 + twice

\* Until the fallback the wallet is what it was when the tick began, and a
\* list is at any time of a wallet that was worth as much.
Begun ==
  /\ phase \in {"list", "query", "fallback"} => start = RiskOnIn(wallet)
  /\ phase \in {"list", "query"} => sight = "exact"
  /\ sight = "exact" \/ phase \in {"list", "query", "fallback"} => twice = 0
  /\ phase = "fallback" => sight \in {"exact", "blind"}
  /\ phase = "query" => \A a \in Assets : listing[a] \in {0, wallet[a]}
  /\ phase \in {"query", "requery"} => Value(listing) <= Value(wallet)

\* A portfolio shows the value of the wallet, or up to twice as much where a
\* read was torn.  The one a fallback is approved against is the wallet, or
\* lacks an asset.
Shown ==
  /\ phase \in {"fallback", "signal", "batch"} => view.nav <= MostShown
  /\ phase = "fallback" =>
       /\ view.nav <= Value(wallet)
       /\ sight = "exact" => view.held = wallet /\ view.nav = Value(wallet)

\* What is at stake if a largest trade is taken off for each one that was
\* broadcast twice.
Largest == Share(MostShown, MaxTradeBps)
OnceRiskOn == WorstRiskOn - twice * Largest

\* The portfolio in use shows the exposure up to a fallback, and up to second
\* attempts.
UpToFallback ==
  /\ view.nav = Value(wallet)
  /\ OnceRiskOn <= RiskOn(view) + FallbackCost

Threaded == sight = "exact" /\ phase \in {"signal", "batch"} => UpToFallback

\* The bound of a tick that may have executed n largest trades unseen.
Within(n) == OnceRiskOn <= CapOrStart + FallbackCost + n * Largest

\* The first candidate of a batch is approved against a portfolio that shows
\* all but the fallback, unless a read lost an asset; each later one adds a
\* trade at most.
Spent ==
  /\ phase = "signal" =>
       /\ Within(0)
       /\ sight # "blind" => UpToFallback /\ RiskOn(view) <= CapOrStart
  /\ phase \in {"batch", "relist", "requery"} =>
       \/ sight = "blind" /\ Within(MaxActions - Len(todo))
       \/ sight # "blind" /\ phase = "batch" /\ UpToFallback /\ RiskOn(view) <= CapOrStart
       \/ sight # "blind" /\ Len(todo) < MaxActions /\ Within(MaxActions - 1 - Len(todo))

IInv ==
  Kinds /\ Flow /\ Begun /\ Shown /\ Threaded /\ Spent /\ CapHeldWhenExact /\ ExposureBounded

-----------------------------------------------------------------------------
(* The value of a wallet, and what a sequence of swaps would buy. *)

LEMMA AssetsFinite == IsFiniteSet(Assets) /\ Base \in Assets
BY ExposureAssumption, FS_AddElement DEF Assets

\* A wallet of cents is worth cents, no less than it holds of Base.
LEMMA ValueType ==
  ASSUME NEW w \in [Assets -> Nat]
  PROVE  Value(w) \in Nat /\ w[Base] <= Value(w) /\ RiskOnIn(w) \in Nat
<1>1. /\ Ints(w, Assets) /\ Nats(w, Assets) /\ DOMAIN w = Assets
      /\ Value(w) = SumFunctionOnSet(w, Assets)
  BY DEF Ints, Nats, Value, SumFunction
<1>2. Value(w) \in Nat
  BY <1>1, AssetsFinite, SumType
<1>3. w[Base] <= Value(w)
  BY <1>1, AssetsFinite, SumBounds
<1>4. w[Base] \in Nat
  BY AssetsFinite
<1> QED
  BY <1>2, <1>3, <1>4 DEF RiskOnIn

\* A portfolio that shows no asset worth more shows no more.
LEMMA ValueMonotone ==
  ASSUME NEW w \in [Assets -> Nat], NEW v \in [Assets -> Nat],
         \A a \in Assets : w[a] <= v[a]
  PROVE  Value(w) <= Value(v)
<1>1. /\ Ints(w, Assets) /\ Ints(v, Assets) /\ DOMAIN w = Assets /\ DOMAIN v = Assets
  BY DEF Ints
<1>2. SumFunctionOnSet(w, Assets) <= SumFunctionOnSet(v, Assets)
  BY <1>1, AssetsFinite, SumMonotone
<1> QED
  BY <1>1, <1>2 DEF Value, SumFunction

\* A swap moves value and creates none.
Moved(w, s) == [w EXCEPT ![s.from] = @ - s.amount, ![s.to] = @ + s.amount]

LEMMA MovedValue ==
  ASSUME NEW w \in [Assets -> Nat], NEW s \in Swap, s.from # s.to, w[s.from] >= s.amount
  PROVE  Moved(w, s) \in [Assets -> Nat] /\ Value(Moved(w, s)) = Value(w)
<1> DEFINE half == [w EXCEPT ![s.from] = @ - s.amount]
           whole == [half EXCEPT ![s.to] = @ + s.amount]
<1>1. /\ s.from \in Assets /\ s.to \in Assets /\ s.amount \in Nat
      /\ w[s.from] \in Nat /\ w[s.to] \in Nat
  BY DEF Swap
<1>2. /\ half \in [Assets -> Nat]
      /\ half[s.from] = w[s.from] - s.amount
      /\ \A a \in Assets \ {s.from} : half[a] = w[a]
  BY <1>1
<1>3. /\ whole \in [Assets -> Nat]
      /\ whole[s.to] = half[s.to] + s.amount
      /\ \A a \in Assets \ {s.to} : whole[a] = half[a]
  BY <1>1, <1>2
<1>4. Moved(w, s) = whole
  BY DEF Moved
<1> HIDE DEF half, whole
<1>5. Ints(w, Assets) /\ Ints(half, Assets) /\ Ints(whole, Assets)
  BY <1>2, <1>3 DEF Ints
<1>6. SumFunctionOnSet(half, Assets) = SumFunctionOnSet(w, Assets) + half[s.from] - w[s.from]
  BY <1>1, <1>2, <1>5, AssetsFinite, SumChange
<1>7. SumFunctionOnSet(whole, Assets) = SumFunctionOnSet(half, Assets) + whole[s.to] - half[s.to]
  BY <1>1, <1>3, <1>5, AssetsFinite, SumChange
<1>8. SumFunctionOnSet(w, Assets) \in Int /\ half[s.to] \in Int
  BY <1>1, <1>2, <1>5, AssetsFinite, SumType
<1>9. SumFunctionOnSet(whole, Assets) = SumFunctionOnSet(w, Assets)
  BY <1>1, <1>2, <1>3, <1>6, <1>7, <1>8
<1>10. DOMAIN w = Assets /\ DOMAIN whole = Assets
  BY <1>3
<1> QED
  BY <1>3, <1>4, <1>9, <1>10 DEF Value, SumFunction

\* What swaps under way would buy is an amount; one more swap adds what it
\* buys, and the oldest takes it away.
LEMMA SumTypes ==
  ASSUME NEW s \in Seq(Swap)
  PROVE  Sum(s) \in Nat /\ (s = <<>> => Sum(s) = 0)
<1> DEFINE f == [i \in DOMAIN s |-> Bought(s[i])]
<1>1. DOMAIN s = 1 .. Len(s) /\ Len(s) \in Nat /\ \A i \in 1 .. Len(s) : s[i] \in Swap
  OBVIOUS
<1>2. Ints(f, 1 .. Len(s)) /\ Nats(f, 1 .. Len(s)) /\ DOMAIN f = 1 .. Len(s)
  BY <1>1 DEF Ints, Nats, Bought, Swap
<1>3. Sum(s) = SumFunctionOnSet(f, 1 .. Len(s))
  BY <1>2 DEF Sum, SumFunction
<1> HIDE DEF f
<1>4. Sum(s) \in Nat
  BY <1>1, <1>2, <1>3, SumType, FS_Interval
<1>5. ASSUME s = <<>> PROVE Sum(s) = 0
  <2>1. 1 .. Len(s) = {}
    BY <1>5
  <2> QED
    BY <2>1, <1>3, SumEmpty
<1> QED
  BY <1>4, <1>5

LEMMA SumAppended ==
  ASSUME NEW s \in Seq(Swap), NEW e \in Swap
  PROVE  Sum(Append(s, e)) = Sum(s) + Bought(e)
<1> DEFINE f == [i \in DOMAIN s |-> Bought(s[i])]
           t == Append(s, e)
           g == [i \in DOMAIN t |-> Bought(t[i])]
           n == Len(s)
<1>1. /\ n \in Nat /\ DOMAIN s = 1 .. n /\ DOMAIN t = 1 .. n + 1
      /\ \A i \in 1 .. n : s[i] \in Swap /\ t[i] = s[i]
      /\ t[n + 1] = e
  OBVIOUS
<1>2. \A x \in Swap : Bought(x) \in Int
  BY DEF Bought, Swap
<1>3. /\ Ints(g, 1 .. n + 1) /\ Ints(g, 1 .. n) /\ g[n + 1] = Bought(e)
      /\ \A i \in 1 .. n : g[i] = f[i]
      /\ DOMAIN g = 1 .. n + 1 /\ DOMAIN f = 1 .. n
  BY <1>1, <1>2 DEF Ints
<1>4. Sum(t) = SumFunctionOnSet(g, 1 .. n + 1) /\ Sum(s) = SumFunctionOnSet(f, 1 .. n)
  BY <1>3 DEF Sum, SumFunction
<1> HIDE DEF f, g, t, n
<1>5. SumFunctionOnSet(g, 1 .. n + 1) = g[n + 1] + SumFunctionOnSet(g, 1 .. n)
  BY <1>1, <1>3, SumLast
<1>6. IsFiniteSet(1 .. n)
  BY <1>1, FS_Interval
<1>7. SumFunctionOnSet(g, 1 .. n) = SumFunctionOnSet(f, 1 .. n)
  BY <1>3, <1>6, SumSame
<1>8. SumFunctionOnSet(g, 1 .. n) \in Int
  BY <1>3, <1>6, SumType
<1>9. Sum(t) = Sum(s) + Bought(e)
  BY <1>2, <1>3, <1>4, <1>5, <1>7, <1>8
<1> QED
  BY <1>9 DEF t

\* A swap may be broadcast not at all, once or twice.
LEMMA Repeated ==
  ASSUME NEW S, NEW s \in Seq(S), NEW e \in S
  PROVE  /\ s \o [i \in 1 .. 0 |-> e] = s
         /\ s \o [i \in 1 .. 1 |-> e] = Append(s, e)
         /\ s \o [i \in 1 .. 2 |-> e] = Append(Append(s, e), e)
OBVIOUS

LEMMA OnceMore ==
  ASSUME NEW s \in Seq(Swap), \A i \in 1 .. Len(s) : OneSided(s[i]),
         NEW e, OneSided(e)
  PROVE  /\ Append(s, e) \in Seq(Swap) /\ Len(Append(s, e)) = Len(s) + 1
         /\ \A i \in 1 .. Len(Append(s, e)) : OneSided(Append(s, e)[i])
         /\ Sum(Append(s, e)) = Sum(s) + Bought(e)
<1> DEFINE t == Append(s, e)
<1>1. e \in Swap
  BY DEF OneSided
<1>2. /\ t \in Seq(Swap) /\ Len(t) = Len(s) + 1 /\ Len(s) \in Nat
      /\ \A i \in 1 .. Len(t) : t[i] = IF i = Len(s) + 1 THEN e ELSE s[i]
  BY <1>1
<1>3. Sum(t) = Sum(s) + Bought(e)
  BY <1>1, SumAppended
<1> HIDE DEF t
<1>4. ASSUME NEW i \in 1 .. Len(t) PROVE OneSided(t[i])
  <2>1. CASE i = Len(s) + 1
    BY <1>2, <2>1
  <2>2. CASE i # Len(s) + 1
    <3>1. i \in 1 .. Len(s) /\ t[i] = s[i]
      BY <1>2, <2>2
    <3> QED
      BY <3>1
  <2> QED
    BY <2>1, <2>2
<1>5. t \in Seq(Swap) /\ Len(t) = Len(s) + 1 /\ \A i \in 1 .. Len(t) : OneSided(t[i])
  BY <1>2, <1>4
<1> QED
  BY <1>3, <1>5 DEF t

\* What each of them adds to the sequence under way.
LEMMA FlightGrows ==
  ASSUME NEW s \in Seq(Swap), \A i \in 1 .. Len(s) : OneSided(s[i]),
         NEW e, OneSided(e), NEW n \in 0 .. 2
  PROVE  \A t : t = s \o [i \in 1 .. n |-> e] =>
           /\ t \in Seq(Swap) /\ Len(t) = Len(s) + n
           /\ \A i \in 1 .. Len(t) : OneSided(t[i])
           /\ Sum(t) = Sum(s) + n * Bought(e)
<1> SUFFICES ASSUME NEW t, t = s \o [i \in 1 .. n |-> e]
             PROVE  /\ t \in Seq(Swap) /\ Len(t) = Len(s) + n
                    /\ \A i \in 1 .. Len(t) : OneSided(t[i])
                    /\ Sum(t) = Sum(s) + n * Bought(e)
  OBVIOUS
<1> DEFINE one == Append(s, e)
           two == Append(one, e)
<1>1. e \in Swap /\ Bought(e) \in Nat /\ Sum(s) \in Nat /\ Len(s) \in Nat
  <2>1. e \in Swap
    BY DEF OneSided
  <2>2. Bought(e) \in Nat
    BY <2>1 DEF Bought, Swap
  <2> QED
    BY <2>1, <2>2, SumTypes
<1>2. /\ one \in Seq(Swap) /\ Len(one) = Len(s) + 1
      /\ \A i \in 1 .. Len(one) : OneSided(one[i])
      /\ Sum(one) = Sum(s) + Bought(e)
  BY OnceMore
<1> HIDE DEF one
<1>3. /\ two \in Seq(Swap) /\ Len(two) = Len(one) + 1
      /\ \A i \in 1 .. Len(two) : OneSided(two[i])
      /\ Sum(two) = Sum(one) + Bought(e)
  BY <1>2, OnceMore
<1> HIDE DEF two
<1>4. /\ n = 0 => t = s
      /\ n = 1 => t = one
      /\ n = 2 => t = two
  BY <1>1, Repeated DEF one, two
<1> DEFINE b == Bought(e)
           Grown(u, m) == /\ u \in Seq(Swap) /\ Len(u) = Len(s) + m
                          /\ \A i \in 1 .. Len(u) : OneSided(u[i])
                          /\ Sum(u) = Sum(s) + m * b
<1>5. Grown(s, 0)
  BY <1>1
<1>6. Grown(one, 1)
  BY <1>1, <1>2
<1>7. Grown(two, 2)
  <2>1. Len(two) = Len(s) + 2 /\ Sum(two) = Sum(s) + 2 * b
    BY <1>1, <1>2, <1>3
  <2> QED
    BY <1>3, <2>1
<1>8. n = 0 \/ n = 1 \/ n = 2
  OBVIOUS
<1> HIDE DEF Grown
<1>9. Grown(t, n)
  BY <1>4, <1>5, <1>6, <1>7, <1>8
<1> QED
  BY <1>9 DEF Grown

LEMMA SumOldest ==
  ASSUME NEW s \in Seq(Swap), s # <<>>
  PROVE  Sum(s) = Bought(Head(s)) + Sum(Tail(s))
<1> DEFINE t == Tail(s)
           f == [i \in DOMAIN s |-> Bought(s[i])]
           g == [i \in DOMAIN t |-> Bought(t[i])]
           n == Len(t)
<1>1. /\ n \in Nat /\ DOMAIN s = 1 .. n + 1 /\ DOMAIN t = 1 .. n
      /\ \A i \in 1 .. n + 1 : s[i] \in Swap
      /\ \A i \in 1 .. n : t[i] = s[i + 1]
      /\ s[1] = Head(s)
  OBVIOUS
<1>2. \A x \in Swap : Bought(x) \in Int
  BY DEF Bought, Swap
<1>3. /\ Ints(f, 1 .. n + 1) /\ f[1] = Bought(Head(s))
      /\ \A i \in 1 .. n : g[i] = f[i + 1]
      /\ DOMAIN f = 1 .. n + 1 /\ DOMAIN g = 1 .. n
  BY <1>1, <1>2 DEF Ints
<1>4. Sum(s) = SumFunctionOnSet(f, 1 .. n + 1) /\ Sum(t) = SumFunctionOnSet(g, 1 .. n)
  BY <1>3 DEF Sum, SumFunction
<1> HIDE DEF f, g, n
<1>5. SumFunctionOnSet(f, 1 .. n + 1) = f[1] + SumFunctionOnSet(g, 1 .. n)
  BY <1>1, <1>3, SumFirst
<1> QED
  BY <1>3, <1>4, <1>5

-----------------------------------------------------------------------------
(* The bounds. *)

LEMMA NoneTwice == ASSUME NEW a \in Nat, NEW l \in Nat PROVE a - 0 * l = a
OBVIOUS

LEMMA ProductType == ASSUME NEW a \in Nat, NEW b \in Nat PROVE a * b \in Nat
OBVIOUS

LEMMA ProductGrows ==
  ASSUME NEW a \in Nat, NEW b \in Nat, NEW c \in Nat, NEW d \in Nat, a <= b, c <= d
  PROVE  a * c \in Nat /\ b * d \in Nat /\ a * c <= b * d /\ (a + 1) * c = a * c + c
<1>1. PICK e \in Nat : b = a + e
  <2>1. b - a \in Nat /\ b = a + (b - a)
    OBVIOUS
  <2> QED
    BY <2>1
<1>2. PICK f \in Nat : d = c + f
  <2>1. d - c \in Nat /\ d = c + (d - c)
    OBVIOUS
  <2> QED
    BY <2>1
<1>3. (a + e) * (c + f) = a * c + a * f + e * (c + f)
  OBVIOUS
<1>4. a * c \in Nat /\ a * f \in Nat /\ e * (c + f) \in Nat /\ (a + 1) * c = a * c + c
  OBVIOUS
<1> QED
  BY <1>1, <1>2, <1>3, <1>4

LEMMA BoundTypes ==
  ASSUME wallet \in [Assets -> Nat], flight \in Seq(Swap), start \in Nat, twice \in Nat
  PROVE  /\ WorstRiskOn \in Nat /\ CapOrStart \in Nat /\ FallbackCost \in Nat
         /\ MostShown \in Nat /\ Largest \in Nat
         /\ OnceRiskOn \in Int /\ OnceRiskOn <= WorstRiskOn
         /\ twice = 0 => OnceRiskOn = WorstRiskOn
         /\ Value(wallet) \in Nat /\ Value(wallet) <= MostShown
<1>1. Value(wallet) \in Nat /\ RiskOnIn(wallet) \in Nat
  BY ValueType
<1>2. Sum(flight) \in Nat
  BY SumTypes
<1>3. MostShown \in Nat /\ Value(wallet) <= MostShown
  BY <1>1 DEF MostShown
<1>4. MaxRiskOnBps \in Nat /\ MaxTradeBps \in Nat /\ FallbackMax \in Nat
  BY LimitsTyped, ExposureAssumption
<1>5. /\ Share(Value(wallet), MaxRiskOnBps) \in Nat /\ Share(Value(wallet), 50) \in Nat
      /\ Largest \in Nat
  BY <1>1, <1>3, <1>4, ShareType DEF Largest
<1>6. WorstRiskOn \in Nat
  BY <1>1, <1>2 DEF WorstRiskOn
<1>7. /\ OnceRiskOn \in Int /\ OnceRiskOn <= WorstRiskOn
      /\ twice = 0 => OnceRiskOn = WorstRiskOn
  <2> DEFINE w == WorstRiskOn
             l == Largest
             more == twice * l
  <2>1. more \in Nat /\ (twice = 0 => more = 0)
    <3>1. l \in Nat
      BY <1>5
    <3> HIDE DEF l
    <3> QED
      BY <3>1, ProductType
  <2>2. w \in Nat /\ OnceRiskOn = w - more
    BY <1>6 DEF OnceRiskOn
  <2> HIDE DEF w, more
  <2>3. OnceRiskOn \in Int /\ OnceRiskOn <= w /\ (twice = 0 => OnceRiskOn = w)
    BY <2>1, <2>2
  <2> QED
    BY <2>3 DEF w
<1> QED
  BY <1>1, <1>2, <1>3, <1>4, <1>5, <1>6, <1>7 DEF CapOrStart, FallbackCost, LargerOf, LeastOf

\* A step of a tick that leaves the worth of the wallet alone leaves the bounds
\* alone too, but for what a read worse than those before allows.
Worsens == sight' \in Sight /\ \E new \in Sight : sight' = Worse(sight, new)
KeepsBounds ==
  /\ CapOrStart' = CapOrStart /\ FallbackCost' = FallbackCost
  /\ MostShown <= MostShown' /\ Largest <= Largest' /\ Value(wallet') = Value(wallet)

LEMMA BoundsKept ==
  ASSUME wallet \in [Assets -> Nat], flight \in Seq(Swap), start \in Nat, sight \in Sight,
         wallet' \in [Assets -> Nat], flight' \in Seq(Swap), twice \in Nat, twice' \in Nat,
         Value(wallet') = Value(wallet), start' = start, Worsens
  PROVE  /\ KeepsBounds /\ MostShown' \in Nat /\ Largest' \in Nat /\ WorstRiskOn' \in Nat
         /\ OnceRiskOn' \in Int /\ OnceRiskOn' <= WorstRiskOn'
         /\ twice' = twice /\ WorstRiskOn' <= WorstRiskOn => OnceRiskOn' <= OnceRiskOn
<1>1. CapOrStart' = CapOrStart /\ FallbackCost' = FallbackCost
  BY DEF CapOrStart, FallbackCost
<1>2. /\ MostShown \in Nat /\ MostShown' \in Nat /\ MostShown <= MostShown'
  <2>1. sight \in {"torn", "blind"} => sight' \in {"torn", "blind"}
    BY DEF Worsens, Worse, Sight
  <2>2. Value(wallet) \in Nat
    BY ValueType
  <2> QED
    BY <2>1, <2>2 DEF MostShown
<1>3. MaxTradeBps \in Nat
  BY LimitsTyped
<1>4. Largest' \in Nat /\ Largest <= Largest'
  BY <1>2, <1>3, ShareType, ShareOfMore DEF Largest
<1>5. WorstRiskOn' \in Nat
  <2>1. RiskOnIn(wallet') \in Nat /\ Sum(flight') \in Nat
    BY ValueType, SumTypes
  <2>2. WorstRiskOn' = RiskOnIn(wallet') + Sum(flight')
    BY DEF WorstRiskOn
  <2> QED
    BY <2>1, <2>2
<1>6. WorstRiskOn \in Nat /\ Largest \in Nat
  BY BoundTypes
<1> DEFINE w == WorstRiskOn
           w2 == WorstRiskOn'
           more == twice * Largest
           more2 == twice' * Largest'
<1>7. OnceRiskOn = w - more /\ OnceRiskOn' = w2 - more2
  BY DEF OnceRiskOn
<1>8. more \in Nat /\ more2 \in Nat /\ (twice' = twice => more <= more2)
  <2> DEFINE l == Largest
             l2 == Largest'
             n == twice
             n2 == twice'
  <2>1. l \in Nat /\ l2 \in Nat /\ l <= l2 /\ n \in Nat /\ n2 \in Nat
    BY <1>4, <1>6
  <2> HIDE DEF l, l2, n, n2
  <2>2. n * l \in Nat /\ n2 * l2 \in Nat /\ (n2 = n => n * l <= n2 * l2)
    <3>1. n * l \in Nat /\ n2 * l2 \in Nat
      BY <2>1, ProductType
    <3>2. n <= n
      BY <2>1
    <3>3. n * l <= n * l2
      BY <2>1, <3>2, ProductGrows
    <3> QED
      BY <3>1, <3>3
  <2> QED
    BY <2>2 DEF l, l2, n, n2
<1>9. /\ OnceRiskOn' \in Int /\ OnceRiskOn' <= w2
      /\ twice' = twice /\ w2 <= w => OnceRiskOn' <= OnceRiskOn
  <2>1. w \in Nat /\ w2 \in Nat
    BY <1>5, <1>6
  <2> HIDE DEF w, w2, more, more2
  <2> QED
    BY <1>7, <1>8, <2>1
<1> QED
  BY <1>1, <1>2, <1>4, <1>5, <1>9 DEF KeepsBounds

\* What is within n trades stays so, and within m when there is room for what
\* is added.
LEMMA TradesAdded ==
  ASSUME NEW w \in Int, NEW w2 \in Int, NEW base \in Nat, NEW l \in Nat, NEW l2 \in Nat,
         l <= l2, NEW n \in Nat, NEW m \in Nat, w <= base + n * l,
         (n <= m /\ w2 <= w) \/ (n + 1 <= m /\ w2 <= w + l)
  PROVE  w2 <= base + m * l2
<1>1. n * l \in Nat /\ (n + 1) * l = n * l + l
  BY ProductGrows
<1>2. CASE n <= m /\ w2 <= w
  <2>1. n * l <= m * l2 /\ m * l2 \in Nat
    BY <1>2, ProductGrows
  <2> QED
    BY <1>1, <1>2, <2>1
<1>3. CASE n + 1 <= m /\ w2 <= w + l
  <2>1. (n + 1) * l <= m * l2 /\ m * l2 \in Nat
    <3>1. n + 1 \in Nat
      OBVIOUS
    <3> QED
      BY <1>3, <3>1, ProductGrows
  <2> QED
    BY <1>1, <1>3, <2>1
<1> QED
  BY <1>2, <1>3

LEMMA TradesAllowed ==
  ASSUME NEW w \in Int, NEW b \in Nat, NEW c \in Nat, NEW l \in Nat,
         NEW n \in Nat, NEW m \in Nat, n <= m, w <= b + c + n * l \/ w <= b + c
  PROVE  w <= b + c + m * l
<1>1. n * l \in Nat /\ m * l \in Nat /\ n * l <= m * l
  <2>1. l <= l
    OBVIOUS
  <2> QED
    BY <2>1, ProductGrows
<1> DEFINE few == n * l
           many == m * l
<1>2. few \in Nat /\ many \in Nat /\ few <= many /\ (w <= b + c + few \/ w <= b + c)
  BY <1>1
<1>3. w <= b + c + many
  <2> HIDE DEF few, many
  <2> QED
    BY <1>2
<1> QED
  BY <1>3

LEMMA WithinKept ==
  ASSUME KeepsBounds, OnceRiskOn \in Int, OnceRiskOn' \in Int, CapOrStart \in Nat,
         FallbackCost \in Nat, Largest \in Nat, Largest' \in Nat,
         NEW n \in Nat, NEW m \in Nat, Within(n),
         \/ n <= m /\ OnceRiskOn' <= OnceRiskOn
         \/ n + 1 <= m /\ OnceRiskOn' <= OnceRiskOn + Largest
  PROVE  OnceRiskOn' <= CapOrStart' + FallbackCost' + m * Largest'
<1>1. CapOrStart' = CapOrStart /\ FallbackCost' = FallbackCost /\ Largest <= Largest'
  BY DEF KeepsBounds
<1> DEFINE base == CapOrStart + FallbackCost
<1>2. base \in Nat /\ OnceRiskOn <= base + n * Largest
  BY DEF Within
<1>3. OnceRiskOn' <= base + m * Largest'
  <2> HIDE DEF base
  <2> QED
    BY <1>1, <1>2, TradesAdded
<1> QED
  BY <1>1, <1>3

-----------------------------------------------------------------------------
(* The trades. *)

LEMMA CandidateView ==
  ASSUME Kinds, NEW c \in Candidate
  PROVE  IsView(view, c) /\ c.bps \in Nat /\ c.token \in Assets /\ c.token # Base
BY AssetsFinite, ExposureAssumption DEF Kinds, Candidate, IsView, Assets

\* An approved candidate becomes a swap of no more than its notional, which is
\* no more than the largest trade.
LEMMA ApprovedSwap ==
  ASSUME Kinds, NEW c \in Candidate, Approved(c, view, derisk)
  PROVE  /\ OneSided(SwapOf(c))
         /\ Bought(SwapOf(c)) \in Nat
         /\ c.dir # "buy" => Bought(SwapOf(c)) = 0
         /\ Bought(SwapOf(c)) <= Notional(c, view)
         /\ Notional(c, view) \in Nat
         /\ Notional(c, view) <= Asked(c, view)
         /\ Notional(c, view) <= Share(view.nav, MaxTradeBps)
         /\ c.dir = "buy" =>
              RiskOn(view) + Notional(c, view) <= Share(view.nav, MaxRiskOnBps)
<1>1. /\ IsView(view, c) /\ c.bps \in Nat /\ c.token \in Assets /\ c.token # Base
      /\ c.dir \in {"buy", "sell"} /\ Base \in Assets /\ view.nav \in Nat
      /\ derisk \in BOOLEAN
  BY CandidateView, AssetsFinite DEF Kinds, Candidate
<1>2. Notional(c, view) \in Nat /\ Notional(c, view) <= Asked(c, view)
  BY <1>1, NotionalWithinAsked
<1>3. /\ Asked(c, view) \in Nat /\ Asked(c, view) <= Share(view.nav, MaxTradeBps)
      /\ Share(view.nav, MaxTradeBps) \in Nat
  <2>1. MaxTradeBps \in Nat
    BY LimitsTyped
  <2>2. Asked(c, view) \in Nat /\ Asked(c, view) <= Share(view.nav, MaxTradeBps)
    BY <1>1, AskedWithinTradeCap
  <2> QED
    BY <1>1, <2>1, <2>2, ShareType
<1>4. /\ From(c) \in Assets /\ To(c) \in Assets
      /\ (From(c) = Base) # (To(c) = Base)
      /\ c.dir # "buy" => From(c) # Base
  BY <1>1 DEF From, To
<1>5. AmountIn(c) \in Nat /\ AmountIn(c) <= Notional(c, view)
  <2>1. view.held[From(c)] \in Nat
    BY <1>4 DEF Kinds
  <2> QED
    BY <1>2, <2>1 DEF AmountIn, LeastOf
<1>6. c.dir = "buy" =>
        RiskOn(view) + Notional(c, view) <= Share(view.nav, MaxRiskOnBps)
  BY <1>1, ApprovedPurchase
<1>7. /\ SwapOf(c).from = From(c) /\ SwapOf(c).to = To(c)
      /\ SwapOf(c).amount = AmountIn(c) /\ SwapOf(c) \in Swap
  BY <1>4, <1>5 DEF SwapOf, Swap
<1>8. /\ Bought(SwapOf(c)) \in Nat
      /\ c.dir # "buy" => Bought(SwapOf(c)) = 0
      /\ Bought(SwapOf(c)) <= Notional(c, view)
  BY <1>2, <1>4, <1>5, <1>7 DEF Bought
<1>9. OneSided(SwapOf(c))
  BY <1>4, <1>7 DEF OneSided
<1>10. Notional(c, view) <= Share(view.nav, MaxTradeBps)
  BY <1>2, <1>3
<1> QED
  BY <1>2, <1>6, <1>8, <1>9, <1>10

\* A fallback costs no more than FallbackCost, against a portfolio that does
\* not show more than the wallet.
LEMMA FallbackCheap ==
  ASSUME Kinds, view.nav <= Value(wallet), Approved(FallbackCandidate, view, derisk)
  PROVE  /\ FallbackCandidate \in Candidate /\ FallbackCandidate.dir = "buy"
         /\ Notional(FallbackCandidate, view) <= FallbackCost
<1> DEFINE c == FallbackCandidate
           nav == view.nav
           q == (FallbackMax * 10000) \div nav
<1>1. nav \in Nat /\ nav > 0 /\ FallbackMax \in Nat /\ Value(wallet) \in Nat
  BY ExposureAssumption, ValueType DEF Kinds, Approved
<1>2. q \in Nat /\ nav * q <= FallbackMax * 10000 /\ FallbackBps = LeastOf(50, q)
  <2>1. FallbackBps = LeastOf(50, q)
    BY <1>1 DEF FallbackBps
  <2>2. FallbackMax * 10000 \in Nat
    BY <1>1
  <2> DEFINE x == FallbackMax * 10000
  <2>3. x \div nav \in Nat /\ nav * (x \div nav) <= x
    <3> HIDE DEF x, nav
    <3> QED
      BY <1>1, <2>2 DEF x
  <2> QED
    BY <2>1, <2>3
<1> HIDE DEF q
<1>3. FallbackBps \in Nat /\ FallbackBps <= 50 /\ FallbackBps <= q
  BY <1>2 DEF LeastOf
<1>4. c \in Candidate /\ c.dir = "buy" /\ c.bps = FallbackBps
  BY <1>3, ExposureAssumption DEF FallbackCandidate, Candidate
<1>5. Notional(c, view) \in Nat /\ Notional(c, view) <= Asked(c, view)
  BY <1>4, ApprovedSwap
<1> DEFINE b == LeastOf(FallbackBps, MaxTradeBps)
<1>6. b \in Nat /\ b <= 50 /\ b <= q /\ 50 \in Nat
  BY <1>2, <1>3, LimitsTyped DEF LeastOf
<1>7. Asked(c, view) = Share(nav, b)
  BY <1>4 DEF Asked
<1> HIDE DEF c, nav, b
<1>8. Share(nav, b) <= Share(nav, 50) /\ Share(nav, b) <= Share(nav, q) /\ Share(nav, b) \in Nat
  <2>1. \A p \in Nat : b <= p => Share(nav, b) <= Share(nav, p)
    BY <1>1, <1>6, ShareMonotone
  <2> QED
    BY <1>1, <1>2, <1>6, <2>1, ShareType
<1>9. Share(nav, 50) <= Share(Value(wallet), 50) /\ Share(nav, 50) \in Nat
      /\ Share(Value(wallet), 50) \in Nat
  BY <1>1, ShareOfMore, ShareType DEF nav
<1>10. Share(nav, q) <= FallbackMax /\ Share(nav, q) \in Nat
  <2>1. nav * q \in Nat
    BY <1>1, <1>2
  <2>2. (nav * q) \div 10000 <= FallbackMax
    BY <1>1, <1>2, <2>1
  <2> QED
    BY <1>1, <1>2, <2>2, ShareType DEF Share
<1>11. Notional(c, view) <= FallbackMax /\ Notional(c, view) <= Share(Value(wallet), 50)
  BY <1>1, <1>5, <1>7, <1>8, <1>9, <1>10
<1> QED
  BY <1>4, <1>11 DEF FallbackCost, LeastOf, c

-----------------------------------------------------------------------------
(* What the steps with arithmetic do. *)

\* A swap that settles, or reverts, does not raise the exposure at stake.
LEMMA Settled ==
  ASSUME Kinds, Flow, SettleSwap
  PROVE  /\ flight # <<>>
         /\ wallet' \in [Assets -> Nat] /\ Value(wallet') = Value(wallet)
         /\ flight' \in Seq(Swap) /\ Len(flight') = Len(flight) - 1
         /\ \A i \in 1 .. Len(flight') : OneSided(flight'[i])
         /\ WorstRiskOn' <= WorstRiskOn
<1> DEFINE s == Head(flight)
<1>1. /\ flight # <<>> /\ flight \in Seq(Swap) /\ wallet \in [Assets -> Nat]
      /\ flight' = Tail(flight)
      /\ \/ wallet[s.from] >= s.amount /\ wallet' = Moved(wallet, s)
         \/ wallet' = wallet
  BY DEF SettleSwap, Kinds, Flow, Moved
<1>2. /\ flight' \in Seq(Swap) /\ Len(flight') = Len(flight) - 1 /\ Len(flight) \in Nat
      /\ \A i \in 1 .. Len(flight') : flight'[i] = flight[i + 1]
      /\ s = flight[1] /\ 1 \in 1 .. Len(flight)
  BY <1>1
<1>3. OneSided(s) /\ \A i \in 1 .. Len(flight') : OneSided(flight'[i])
  BY <1>2 DEF Flow
<1>4. /\ s \in Swap /\ s.from # s.to /\ s.from \in Assets /\ s.to \in Assets
      /\ s.amount \in Nat
  BY <1>3 DEF OneSided, Swap
<1> HIDE DEF s
<1>5. wallet' \in [Assets -> Nat] /\ Value(wallet') = Value(wallet)
  BY <1>1, <1>4, MovedValue
<1>6. Sum(flight) = Bought(s) + Sum(flight') /\ Sum(flight) \in Nat /\ Sum(flight') \in Nat
  BY <1>1, <1>2, SumOldest, SumTypes DEF s
<1>7. /\ Bought(s) \in Nat /\ wallet[Base] \in Nat
      /\ wallet'[Base] >= wallet[Base] - Bought(s) /\ wallet'[Base] \in Nat
  <2>1. wallet[Base] \in Nat /\ wallet'[Base] \in Nat
    BY <1>1, <1>5, AssetsFinite
  <2>2. CASE wallet' = wallet
    BY <1>4, <2>1, <2>2 DEF Bought
  <2>3. CASE wallet[s.from] >= s.amount /\ wallet' = Moved(wallet, s)
    <3>1. CASE s.from = Base
      BY <1>1, <1>4, <2>1, <2>3, <3>1 DEF Bought, Moved
    <3>2. CASE s.to = Base
      BY <1>1, <1>4, <2>1, <2>3, <3>2 DEF Bought, Moved
    <3> QED
      BY <1>3, <3>1, <3>2 DEF OneSided
  <2> QED
    BY <1>1, <2>2, <2>3
<1>8. Value(wallet) \in Nat
  BY <1>1, ValueType
<1>9. WorstRiskOn' <= WorstRiskOn
  <2>1. WorstRiskOn = Value(wallet) - wallet[Base] + Sum(flight)
    BY DEF WorstRiskOn, RiskOnIn
  <2>2. WorstRiskOn' = Value(wallet') - wallet'[Base] + Sum(flight')
    BY DEF WorstRiskOn, RiskOnIn
  <2> QED
    BY <1>5, <1>6, <1>7, <1>8, <2>1, <2>2
<1> QED
  BY <1>1, <1>2, <1>3, <1>5, <1>9

\* The candidate of a swap, and where the tick goes on after it.
LEMMA CurrentIsOne ==
  ASSUME Kinds, Flow, HasCurrent
  PROVE  Current \in Candidate
<1>1. CASE phase = "fallback"
  <2>1. view.nav \in Nat /\ FallbackMax * 10000 \in Nat
    BY ExposureAssumption DEF Kinds
  <2>2. \A x, y \in Nat : y # 0 => x \div y \in Nat
    OBVIOUS
  <2>3. FallbackBps \in Nat
    BY <2>1, <2>2 DEF FallbackBps, LeastOf
  <2> QED
    BY <1>1, <2>3, ExposureAssumption DEF Current, FallbackCandidate, Candidate
<1>2. CASE phase # "fallback"
  BY <1>2 DEF HasCurrent, Current, Flow
<1> QED
  BY <1>1, <1>2

LEMMA GoesOn ==
  ASSUME Kinds, Flow, HasCurrent, NEW executed, GoOn(executed)
  PROVE  \/ phase = "fallback" /\ phase' = "signal" /\ todo' = <<>>
         \/ /\ phase = "batch" /\ phase' = IF executed THEN "relist" ELSE "batch"
            /\ todo' \in Seq(Candidate) /\ Len(todo') = Len(todo) - 1 /\ Len(todo) > 0
<1>1. todo \in Seq(Candidate) /\ (phase = "fallback" => todo = <<>>)
  BY DEF Flow
<1>2. CASE phase = "fallback"
  BY <1>1, <1>2 DEF GoOn
<1>3. CASE phase # "fallback"
  <2>1. phase = "batch" /\ todo # <<>>
    BY <1>3 DEF HasCurrent
  <2>2. todo' = Tail(todo) /\ phase' = IF executed THEN "relist" ELSE "batch"
    BY <1>3 DEF GoOn
  <2> QED
    BY <1>1, <2>1, <2>2
<1> QED
  BY <1>2, <1>3

\* A swap that is sent adds its notional at most, if it buys, once the second
\* attempt is taken off.
LEMMA Sent ==
  ASSUME Kinds, Flow, Shown, SendSwap
  PROVE  /\ flight' \in Seq(Swap)
         /\ Len(flight') <= Len(flight) + 1 + (twice' - twice)
         /\ \A i \in 1 .. Len(flight') : OneSided(flight'[i])
         /\ twice' \in 0 .. MaxTwice /\ twice <= twice'
         /\ \/ OnceRiskOn' <= OnceRiskOn
            \/ /\ Current.dir = "buy"
               /\ OnceRiskOn' <= OnceRiskOn + Notional(Current, view)
         /\ \E executed \in BOOLEAN :
              /\ GoOn(executed)
              /\ ~executed => flight' = flight \/ sight' # "exact"
         /\ Worsens /\ (sight' = "blind" => sight = "blind")
         /\ sight' = "exact" => sight = "exact" /\ twice' = twice
<1>1. /\ HasCurrent /\ Approved(Current, view, derisk) /\ wallet' = wallet /\ start' = start
      /\ flight \in Seq(Swap) /\ Len(flight) \in Nat /\ wallet \in [Assets -> Nat]
      /\ sight \in Sight /\ start \in Nat /\ twice \in Nat /\ twice <= MaxTwice
      /\ MaxTwice \in Nat
  BY ExposureAssumption DEF SendSwap, Kinds, Flow
<1>2. PICK executed \in BOOLEAN, broadcast \in 0 .. 2 :
        /\ executed => broadcast > 0
        /\ broadcast = 2 => twice < MaxTwice
        /\ flight' = flight \o [i \in 1 .. broadcast |-> SwapOf(Current)]
        /\ twice' = IF broadcast = 2 THEN twice + 1 ELSE twice
        /\ sight' = Worse(sight,
                         IF broadcast > (IF executed THEN 1 ELSE 0) THEN "late" ELSE "exact")
        /\ GoOn(executed)
  BY DEF SendSwap, TakeSwap
<1>3. Current \in Candidate
  BY <1>1, CurrentIsOne
<1> DEFINE bought == Bought(SwapOf(Current))
           amount == Notional(Current, view)
<1>4. /\ OneSided(SwapOf(Current)) /\ bought \in Nat
      /\ Current.dir # "buy" => bought = 0
      /\ bought <= amount /\ amount \in Nat
      /\ amount <= Share(view.nav, MaxTradeBps)
  BY <1>1, <1>3, ApprovedSwap
<1>5. /\ flight' \in Seq(Swap) /\ Len(flight') = Len(flight) + broadcast
      /\ \A i \in 1 .. Len(flight') : OneSided(flight'[i])
      /\ Sum(flight') = Sum(flight) + broadcast * bought
  <2>1. \A i \in 1 .. Len(flight) : OneSided(flight[i])
    BY DEF Flow
  <2> DEFINE f == flight'
             swap == SwapOf(Current)
  <2>2. /\ flight \in Seq(Swap) /\ OneSided(swap) /\ broadcast \in 0 .. 2
        /\ f = flight \o [i \in 1 .. broadcast |-> swap]
    BY <1>1, <1>2, <1>4
  <2> HIDE DEF f, swap
  <2>3. \A t : t = flight \o [i \in 1 .. broadcast |-> swap] =>
           /\ t \in Seq(Swap) /\ Len(t) = Len(flight) + broadcast
           /\ \A i \in 1 .. Len(t) : OneSided(t[i])
           /\ Sum(t) = Sum(flight) + broadcast * Bought(swap)
    BY <2>1, <2>2, FlightGrows
  <2>4. /\ f \in Seq(Swap) /\ Len(f) = Len(flight) + broadcast
        /\ \A i \in 1 .. Len(f) : OneSided(f[i])
        /\ Sum(f) = Sum(flight) + broadcast * Bought(swap)
    BY <2>2, <2>3
  <2> QED
    BY <2>4 DEF f, swap
<1>6. twice' \in Nat /\ twice' <= MaxTwice /\ twice <= twice'
  BY <1>1, <1>2
<1>7. Len(flight') <= Len(flight) + 1 + (twice' - twice)
  BY <1>1, <1>2, <1>5
<1>8. Worsens /\ (sight' = "blind" => sight = "blind")
  BY <1>1, <1>2 DEF Worsens, Worse, Sight
<1>9. ~executed => flight' = flight \/ sight' # "exact"
  <2>1. CASE broadcast = 0
    <3>1. SwapOf(Current) \in Swap
      BY <1>4 DEF OneSided
    <3>2. flight' = flight
      BY <1>1, <1>2, <2>1, <3>1, Repeated
    <3> QED
      BY <3>2
  <2>2. CASE broadcast # 0 /\ ~executed
    <3>1. broadcast > 0
      BY <2>2
    <3>2. sight' = Worse(sight, "late")
      BY <1>2, <2>2, <3>1
    <3> QED
      BY <1>1, <3>2 DEF Worse, Sight
  <2> QED
    BY <2>1, <2>2
<1>10. sight' = "exact" => sight = "exact" /\ twice' = twice
  <2>1. CASE broadcast = 2
    <3>1. sight' = Worse(sight, "late")
      BY <1>2, <2>1
    <3> QED
      BY <1>1, <3>1 DEF Worse, Sight
  <2>2. CASE broadcast # 2
    <3>1. twice' = twice
      BY <1>2, <2>2
    <3> QED
      BY <1>1, <1>2, <3>1 DEF Worse, Sight
  <2> QED
    BY <2>1, <2>2
<1>11. /\ Sum(flight) \in Nat /\ RiskOnIn(wallet) \in Nat
       /\ WorstRiskOn = RiskOnIn(wallet) + Sum(flight)
       /\ WorstRiskOn' = RiskOnIn(wallet) + Sum(flight')
  BY <1>1, SumTypes, ValueType DEF WorstRiskOn
<1>12. WorstRiskOn' = WorstRiskOn + broadcast * bought /\ WorstRiskOn \in Nat
  <2> DEFINE more == broadcast * bought
  <2>1. more \in Nat
    BY <1>4
  <2> HIDE DEF more
  <2>2. WorstRiskOn' = WorstRiskOn + more /\ WorstRiskOn \in Nat
    BY <1>5, <1>11, <2>1 DEF more
  <2> QED
    BY <2>2 DEF more
<1>13. Largest \in Nat /\ Largest' \in Nat /\ Largest <= Largest'
  BY <1>1, <1>5, <1>6, <1>8, BoundTypes, BoundsKept DEF KeepsBounds
<1>14. bought <= Largest'
  <2>1. view.nav \in Nat /\ view.nav <= MostShown /\ MostShown \in Nat
    BY <1>1, BoundTypes DEF HasCurrent, Shown, Kinds
  <2>2. MaxTradeBps \in Nat
    BY LimitsTyped
  <2>3. Share(view.nav, MaxTradeBps) <= Largest /\ Share(view.nav, MaxTradeBps) \in Nat
    BY <2>1, <2>2, ShareOfMore, ShareType DEF Largest
  <2> QED
    BY <1>4, <1>13, <2>3
<1>15. OnceRiskOn' <= OnceRiskOn + bought
  <2> DEFINE l == Largest
             l2 == Largest'
             w == WorstRiskOn
             w2 == WorstRiskOn'
             b == bought
  <2>1. /\ l \in Nat /\ l2 \in Nat /\ l <= l2 /\ b \in Nat /\ b <= l2
        /\ w \in Nat /\ w2 = w + broadcast * b
        /\ OnceRiskOn = w - twice * l /\ OnceRiskOn' = w2 - twice' * l2
    BY <1>4, <1>12, <1>13, <1>14 DEF OnceRiskOn
  <2> HIDE DEF l, l2, w, w2, b
  <2>2. /\ twice * l \in Nat /\ twice * l2 \in Nat /\ twice * l <= twice * l2
        /\ (twice + 1) * l2 = twice * l2 + l2
    <3>1. twice <= twice
      BY <1>1
    <3> QED
      BY <1>1, <2>1, <3>1, ProductGrows
  <2>3. CASE broadcast = 2
    <3>1. twice' * l2 = twice * l2 + l2 /\ w2 = w + b + b
      BY <1>2, <2>1, <2>2, <2>3
    <3> QED
      BY <2>1, <2>2, <3>1 DEF b
  <2>4. CASE broadcast # 2
    <3>1. twice' = twice /\ (w2 = w \/ w2 = w + b)
      <4>1. broadcast = 0 \/ broadcast = 1
        BY <2>4
      <4> QED
        BY <1>2, <2>1, <4>1
    <3>2. OnceRiskOn' = w2 - twice * l2
      BY <2>1, <3>1
    <3> QED
      BY <2>1, <2>2, <3>1, <3>2 DEF b
  <2> QED
    BY <2>3, <2>4
<1>16. OnceRiskOn \in Int /\ OnceRiskOn' \in Int
  BY <1>1, <1>5, <1>6, <1>8, BoundTypes, BoundsKept
<1>17. \/ OnceRiskOn' <= OnceRiskOn
       \/ Current.dir = "buy" /\ OnceRiskOn' <= OnceRiskOn + amount
  BY <1>4, <1>15, <1>16
<1>18. twice' \in 0 .. MaxTwice
  BY <1>1, <1>6
<1>19. \E done \in BOOLEAN : GoOn(done) /\ (~done => flight' = flight \/ sight' # "exact")
  BY <1>2, <1>9
<1> QED
  BY <1>5, <1>6, <1>7, <1>8, <1>10, <1>17, <1>18, <1>19

\* What a read shows: the wallet when it was neither torn nor blind, the wallet
\* at most when nothing was under way, and no more than twice its worth.
LEMMA Read ==
  ASSUME Kinds, Flow, Begun, QueryBalances
  PROVE  /\ view'.held \in [Assets -> Nat] /\ view'.nav = Value(view'.held)
         /\ view'.nav <= 2 * Value(wallet)
         /\ sight' \notin {"torn", "blind"} => view'.held = wallet
         /\ sight' = "exact" => flight = <<>>
         /\ phase = "query" => view'.nav <= Value(wallet) /\ sight' \in {"exact", "blind"}
         /\ Worsens
<1>1. PICK missed \in SUBSET MayMiss :
        /\ view' = [nav |-> Value(Supplemented(missed)), held |-> Supplemented(missed)]
        /\ sight' = Worse(sight,
             IF \E a \in missed : wallet[a] > 0 \/ listing[a] > 0 THEN "blind"
             ELSE IF Supplemented(missed) # wallet THEN "torn"
             ELSE IF flight # <<>> THEN "late" ELSE "exact")
  BY DEF QueryBalances
<1> DEFINE held == Supplemented(missed)
<1>2. /\ wallet \in [Assets -> Nat] /\ listing \in [Assets -> Nat] /\ sight \in Sight
      /\ phase \in {"query", "requery"} /\ Value(listing) <= Value(wallet)
  BY DEF QueryBalances, Kinds, Begun
<1>3. /\ held \in [Assets -> Nat]
      /\ \A a \in Assets : held[a] <= listing[a] + wallet[a]
      /\ \A a \in Assets : held[a] = IF a \in missed THEN 0
                                     ELSE IF listing[a] > 0 THEN listing[a] ELSE wallet[a]
  BY <1>2 DEF Supplemented
<1>4. view'.held = held /\ view'.nav = Value(held)
  BY <1>1
<1> HIDE DEF held
<1>5. Value(held) \in Nat /\ Value(listing) \in Nat /\ Value(wallet) \in Nat
  BY <1>2, <1>3, ValueType
<1>6. Value(held) <= 2 * Value(wallet)
  <2> DEFINE both == [a \in Assets |-> listing[a] + wallet[a]]
  <2>1. /\ both \in [Assets -> Nat] /\ \A a \in Assets : both[a] = listing[a] + wallet[a]
        /\ DOMAIN both = Assets /\ DOMAIN listing = Assets /\ DOMAIN wallet = Assets
        /\ Ints(listing, Assets) /\ Ints(wallet, Assets)
    BY <1>2 DEF Ints
  <2> HIDE DEF both
  <2>2. Value(both) = Value(listing) + Value(wallet)
    BY <2>1, AssetsFinite, SumBoth DEF Value, SumFunction
  <2>3. Value(held) <= Value(both)
    BY <1>3, <2>1, ValueMonotone
  <2> QED
    BY <1>2, <1>5, <2>2, <2>3
<1>7. sight' \notin {"torn", "blind"} => held = wallet
  BY <1>1, <1>2 DEF Worse, Sight, held
<1>8. sight' = "exact" => flight = <<>>
  BY <1>1, <1>2 DEF Worse, Sight
<1>9. Worsens
  BY <1>1, <1>2 DEF Worsens, Worse, Sight
<1>10. ASSUME phase = "query"
       PROVE  Value(held) <= Value(wallet) /\ sight' \in {"exact", "blind"}
  <2>1. /\ \A a \in Assets : listing[a] \in {0, wallet[a]}
        /\ sight = "exact" /\ flight = <<>>
    BY <1>10 DEF Begun, Flow
  <2>2. ASSUME NEW a \in Assets PROVE held[a] <= wallet[a]
    <3>1. /\ wallet[a] \in Nat /\ listing[a] \in {0, wallet[a]}
          /\ held[a] \in {0, listing[a], wallet[a]}
      BY <1>2, <1>3, <2>1
    <3> QED
      BY <3>1
  <2>3. Value(held) <= Value(wallet)
    BY <1>2, <1>3, <2>2, ValueMonotone
  <2>4. ASSUME held # wallet PROVE \E a \in missed : wallet[a] > 0 \/ listing[a] > 0
    <3>1. PICK a \in Assets : held[a] # wallet[a]
      BY <1>2, <1>3, <2>4
    <3>2. a \in missed /\ wallet[a] > 0
      BY <1>2, <1>3, <2>1, <3>1
    <3> QED
      BY <3>2
  <2>5. sight' \in {"exact", "blind"}
    BY <1>1, <2>1, <2>4 DEF Worse, held
  <2> QED
    BY <2>3, <2>5
<1> QED
  BY <1>3, <1>4, <1>6, <1>7, <1>8, <1>9, <1>10

-----------------------------------------------------------------------------
(* The steps. *)

USE DEF vars, chainVars, tickVars, history

LEMMA KindsStep == Kinds /\ Flow /\ Begun /\ Shown /\ [Next]_vars => Kinds'
<1> SUFFICES ASSUME Kinds, Flow, Begun, Shown, [Next]_vars PROVE Kinds'
  OBVIOUS
<1>0. NoView.held \in [Assets -> Nat] /\ NoView.nav \in Nat /\ 0 \in 0 .. MaxTwice
  BY ExposureAssumption DEF NoView
<1>1. CASE SettleSwap
  BY <1>1, Settled DEF SettleSwap, Kinds
<1>2. CASE StartTick
  <2>1. wallet' \in [Assets -> Nat]
    BY <1>2, ExposureAssumption DEF StartTick
  <2>2. start' \in Nat
    BY <1>2, <2>1, ValueType DEF StartTick, RiskOnIn
  <2> QED
    BY <1>0, <1>2, <2>1, <2>2 DEF StartTick, Kinds, Phase, Sight
<1>3. CASE ListBalances
  BY <1>3 DEF ListBalances, Kinds, Phase
<1>4. CASE QueryBalances
  <2>1. view'.held \in [Assets -> Nat] /\ view'.nav \in Nat /\ sight' \in Sight
    BY <1>4, Read, ValueType DEF Worsens
  <2> QED
    BY <1>0, <1>4, <2>1 DEF QueryBalances, Kinds, Phase
<1>5. CASE SkipFallback \/ Generate
  BY <1>5 DEF SkipFallback, Generate, Kinds, Phase
<1>6. CASE RejectCandidate
  BY <1>6 DEF RejectCandidate, GoOn, Kinds, Phase
<1>7. CASE SendSwap
  <2>1. sight' \in Sight /\ twice' \in 0 .. MaxTwice /\ \E executed \in BOOLEAN : GoOn(executed)
    BY <1>7, Sent DEF Worsens
  <2> QED
    BY <1>7, <2>1 DEF SendSwap, GoOn, Kinds, Phase
<1>8. CASE EndTick
  BY <1>0, <1>8 DEF EndTick, Kinds, Phase
<1>9. CASE UNCHANGED vars
  BY <1>9 DEF Kinds
<1> QED
  BY <1>1, <1>2, <1>3, <1>4, <1>5, <1>6, <1>7, <1>8, <1>9 DEF Next

LEMMA RoomLeft ==
  ASSUME NEW f \in Nat, NEW g \in Nat, NEW d \in Nat, NEW m \in Nat, NEW t \in Nat, NEW u \in Nat,
         g <= f + 1 + (u - t), f + d <= m + 1 + t, d <= m
  PROVE  g + (d - 1) <= m + 1 + u /\ d - 1 <= m
OBVIOUS

LEMMA FlowStep == Kinds /\ Flow /\ Begun /\ Shown /\ [Next]_vars => Flow'
<1> SUFFICES ASSUME Kinds, Flow, Begun, Shown, [Next]_vars PROVE Flow'
  OBVIOUS
<1>0. /\ flight \in Seq(Swap) /\ todo \in Seq(Candidate) /\ MaxActions \in Nat
      /\ Len(flight) \in Nat /\ Len(todo) \in Nat /\ MaxActions >= 1 /\ twice \in Nat
  BY ExposureAssumption DEF Flow, Kinds
<1>1. CASE SettleSwap
  <2>1. phase' = phase /\ todo' = todo /\ twice' = twice
    BY <1>1 DEF SettleSwap
  <2> QED
    BY <1>0, <1>1, <2>1, Settled DEF Flow
<1>2. CASE StartTick
  BY <1>0, <1>2 DEF StartTick, Flow
<1>3. CASE ListBalances \/ QueryBalances
  <2>1. /\ flight' = flight /\ todo' = todo /\ twice' = twice
        /\ \/ phase = "list" /\ phase' = "query"
           \/ phase = "relist" /\ phase' = "requery"
           \/ phase = "query" /\ phase' = "fallback"
           \/ phase = "requery" /\ phase' = "batch"
    BY <1>3 DEF ListBalances, QueryBalances
  <2> QED
    BY <2>1 DEF Flow
<1>4. CASE SkipFallback
  BY <1>0, <1>4 DEF SkipFallback, Flow
<1>5. CASE Generate
  <2>1. PICK n \in 1 .. MaxActions :
          todo' \in [1 .. n -> [token : Tokens, dir : {"buy", "sell"}, bps : Sizes]]
    BY <1>5 DEF Generate, Batches
  <2>2. n \in Nat /\ n <= MaxActions
    BY <1>0, <2>1
  <2>3. todo' \in [1 .. n -> Candidate]
    BY <2>1, ExposureAssumption DEF Candidate
  <2>4. todo' \in Seq(Candidate) /\ Len(todo') = n
    BY <2>2, <2>3
  <2> QED
    BY <1>0, <1>5, <2>2, <2>4 DEF Generate, Flow
<1>6. CASE RejectCandidate
  <2>1. HasCurrent /\ GoOn(FALSE) /\ flight' = flight /\ twice' = twice
    BY <1>6 DEF RejectCandidate
  <2>2. CASE phase = "fallback"
    <3>1. phase' = "signal" /\ todo' = <<>> /\ Len(flight) = 0
      BY <2>1, <2>2, GoesOn DEF Flow
    <3> QED
      BY <1>0, <2>1, <3>1 DEF Flow
  <2>3. CASE phase # "fallback"
    <3>1. phase' \in {"relist", "batch"} /\ todo' \in Seq(Candidate) /\ Len(todo') = Len(todo) - 1
      BY <2>1, <2>3, GoesOn
    <3> QED
      BY <1>0, <2>1, <3>1 DEF Flow
  <2> QED
    BY <2>2, <2>3
<1>7. CASE SendSwap
  <2>1. /\ flight' \in Seq(Swap) /\ Len(flight') <= Len(flight) + 1 + (twice' - twice)
        /\ \A i \in 1 .. Len(flight') : OneSided(flight'[i])
        /\ twice' \in Nat /\ twice <= twice'
    BY <1>7, Sent
  <2>2. PICK executed \in BOOLEAN : GoOn(executed)
    BY <1>7, Sent
  <2>3. HasCurrent /\ Len(flight') \in Nat
    BY <1>7, <2>1 DEF SendSwap
  <2>4. CASE phase = "fallback"
    <3>1. phase' = "signal" /\ todo' = <<>> /\ Len(flight) = 0
      BY <2>2, <2>3, <2>4, GoesOn DEF Flow
    <3> QED
      BY <1>0, <2>1, <2>3, <3>1 DEF Flow
  <2>5. CASE phase # "fallback"
    <3>1. phase' \in {"relist", "batch"} /\ todo' \in Seq(Candidate) /\ Len(todo') = Len(todo) - 1
      BY <2>2, <2>3, <2>5, GoesOn
    <3>2. Len(flight) + Len(todo) <= MaxActions + 1 + twice /\ Len(todo) <= MaxActions
      BY DEF Flow
    <3>3. Len(flight') + Len(todo') <= MaxActions + 1 + twice' /\ Len(todo') <= MaxActions
      <4>1. /\ Len(flight) \in Nat /\ Len(flight') \in Nat /\ Len(todo) \in Nat
            /\ MaxActions \in Nat /\ twice \in Nat /\ twice' \in Nat
        BY <1>0, <2>1, <2>3
      <4>2. Len(flight') <= Len(flight) + 1 + (twice' - twice)
        BY <2>1
      <4>3. /\ Len(flight') + (Len(todo) - 1) <= MaxActions + 1 + twice'
            /\ Len(todo) - 1 <= MaxActions
        BY ONLY <3>2, <4>1, <4>2, RoomLeft
      <4> QED
        BY <3>1, <4>3
    <3> QED
      BY <2>1, <3>1, <3>3 DEF Flow
  <2> QED
    BY <2>4, <2>5
<1>8. CASE EndTick
  BY <1>0, <1>8 DEF EndTick, Flow
<1>9. CASE UNCHANGED vars
  BY <1>9 DEF Flow
<1> QED
  BY <1>1, <1>2, <1>3, <1>4, <1>5, <1>6, <1>7, <1>8, <1>9 DEF Next

\* But for the beginning of a tick every step keeps the bounds, and only a swap
\* that is sent adds to what is at stake.
LEMMA StepsKeepBounds ==
  ASSUME Kinds, Flow, Begun, Shown, [Next]_vars, ~StartTick
  PROVE  /\ KeepsBounds /\ Worsens /\ start' = start
         /\ MostShown' \in Nat /\ Largest' \in Nat /\ WorstRiskOn' \in Nat
         /\ twice' \in Nat /\ OnceRiskOn' \in Int /\ OnceRiskOn' <= WorstRiskOn'
         /\ ~SendSwap => /\ twice' = twice
                         /\ WorstRiskOn' <= WorstRiskOn /\ OnceRiskOn' <= OnceRiskOn
<1>1. Kinds' /\ Flow'
  BY KindsStep, FlowStep
<1>2. /\ wallet \in [Assets -> Nat] /\ flight \in Seq(Swap) /\ start \in Nat /\ sight \in Sight
      /\ wallet' \in [Assets -> Nat] /\ flight' \in Seq(Swap)
      /\ twice \in Nat /\ twice' \in Nat
  <2>1. twice \in 0 .. MaxTwice /\ twice' \in 0 .. MaxTwice
    BY <1>1 DEF Kinds
  <2>2. twice \in Nat /\ twice' \in Nat
    BY <2>1
  <2> QED
    BY <1>1, <2>2 DEF Kinds, Flow
<1>3. sight' = sight => Worsens
  BY <1>2 DEF Worsens, Worse, Sight
<1>4. WorstRiskOn \in Nat
  BY <1>2, BoundTypes
<1>5. wallet' = wallet /\ flight' = flight => WorstRiskOn' = WorstRiskOn
  BY DEF WorstRiskOn
<1>6. CASE SettleSwap
  <2>1. start' = start /\ sight' = sight /\ twice' = twice
    BY <1>6 DEF SettleSwap
  <2> QED
    BY <1>2, <1>3, <1>6, <2>1, Settled, BoundsKept
<1>7. CASE QueryBalances
  <2>1. start' = start /\ wallet' = wallet /\ flight' = flight /\ twice' = twice
    BY <1>7 DEF QueryBalances
  <2>2. Worsens
    BY <1>7, Read
  <2> QED
    BY <1>2, <1>4, <1>5, <2>1, <2>2, BoundsKept
<1>8. CASE SendSwap
  <2>1. start' = start /\ wallet' = wallet
    BY <1>8 DEF SendSwap
  <2>2. Worsens
    BY <1>8, Sent
  <2> QED
    BY <1>2, <1>8, <2>1, <2>2, BoundsKept
<1>9. CASE ListBalances \/ SkipFallback \/ Generate \/ RejectCandidate \/ EndTick \/ UNCHANGED vars
  <2>1. /\ start' = start /\ sight' = sight /\ wallet' = wallet /\ flight' = flight
        /\ twice' = twice
    BY <1>9 DEF ListBalances, SkipFallback, Generate, RejectCandidate, EndTick
  <2> QED
    BY <1>2, <1>3, <1>4, <1>5, <2>1, BoundsKept
<1> QED
  BY <1>6, <1>7, <1>8, <1>9 DEF Next

LEMMA BegunStep == Kinds /\ Flow /\ Begun /\ Shown /\ [Next]_vars => Begun'
<1> SUFFICES ASSUME Kinds, Flow, Begun, Shown, [Next]_vars PROVE Begun'
  OBVIOUS
<1>0. wallet \in [Assets -> Nat] /\ listing \in [Assets -> Nat]
  BY DEF Kinds
<1>1. CASE SettleSwap
  <2>1. /\ flight # <<>> /\ phase' = phase /\ listing' = listing
        /\ sight' = sight /\ twice' = twice
    BY <1>1 DEF SettleSwap
  <2>2. phase \notin {"list", "query", "fallback"}
    BY <2>1 DEF Flow
  <2> QED
    BY <1>1, <2>1, <2>2, Settled DEF Begun
<1>2. CASE StartTick
  BY <1>2 DEF StartTick, Begun
<1>3. CASE ListBalances
  <2>1. /\ \A a \in Assets : listing'[a] \in {0, wallet[a]} /\ listing'[a] <= wallet[a]
        /\ listing' \in [Assets -> Nat]
    BY <1>0, <1>3 DEF ListBalances
  <2>2. Value(listing') <= Value(wallet)
    BY <1>0, <2>1, ValueMonotone
  <2>3. /\ wallet' = wallet /\ start' = start /\ sight' = sight /\ twice' = twice
        /\ phase \in {"list", "relist"}
        /\ phase' = IF phase = "list" THEN "query" ELSE "requery"
    BY <1>3 DEF ListBalances
  <2> QED
    BY <2>1, <2>2, <2>3 DEF Begun
<1>4. CASE QueryBalances
  <2>1. /\ wallet' = wallet /\ start' = start /\ twice' = twice
        /\ phase \in {"query", "requery"}
        /\ phase' = IF phase = "query" THEN "fallback" ELSE "batch"
    BY <1>4 DEF QueryBalances
  <2>2. /\ phase = "query" => sight' \in {"exact", "blind"}
        /\ sight' = "exact" => sight = "exact"
    BY <1>4, Read DEF Kinds, Worsens, Worse, Sight
  <2> QED
    BY <2>1, <2>2 DEF Begun
<1>5. CASE SkipFallback \/ Generate \/ EndTick
  BY <1>5 DEF SkipFallback, Generate, EndTick, Begun
<1>6. CASE RejectCandidate \/ SendSwap
  <2>1. HasCurrent /\ \E executed \in BOOLEAN : GoOn(executed)
    BY <1>6, Sent DEF RejectCandidate, SendSwap
  <2>2. phase' \in {"signal", "relist", "batch"}
    BY <2>1, GoesOn
  <2>3. sight' = "exact" => sight = "exact" /\ twice' = twice
    BY <1>6, Sent DEF RejectCandidate
  <2> QED
    BY <2>2, <2>3 DEF Begun
<1>7. CASE UNCHANGED vars
  BY <1>7 DEF Begun
<1> QED
  BY <1>1, <1>2, <1>3, <1>4, <1>5, <1>6, <1>7 DEF Next

LEMMA ShownStep == Kinds /\ Flow /\ Begun /\ Shown /\ [Next]_vars => Shown'
<1> SUFFICES ASSUME Kinds, Flow, Begun, Shown, [Next]_vars PROVE Shown'
  OBVIOUS
<1>0. view.nav \in Nat /\ MostShown \in Nat
  BY BoundTypes DEF Kinds, Flow
<1>1. CASE StartTick
  BY <1>1 DEF StartTick, Shown
<1>2. CASE QueryBalances
  <2>1. /\ wallet' = wallet /\ phase \in {"query", "requery"}
        /\ phase' = IF phase = "query" THEN "fallback" ELSE "batch"
    BY <1>2 DEF QueryBalances
  <2>2. /\ view'.nav = Value(view'.held) /\ view'.nav <= 2 * Value(wallet)
        /\ sight' \notin {"torn", "blind"} => view'.held = wallet
        /\ phase = "query" => view'.nav <= Value(wallet)
    BY <1>2, Read
  <2>3. Value(wallet) \in Nat
    BY ValueType DEF Kinds
  <2>4. view'.nav <= MostShown'
    BY <2>1, <2>2, <2>3 DEF MostShown
  <2> QED
    BY <2>1, <2>2, <2>4 DEF Shown
<1>3. CASE ~StartTick /\ ~QueryBalances
  <2>1. /\ MostShown <= MostShown' /\ MostShown' \in Nat /\ Value(wallet') = Value(wallet)
    BY <1>3, StepsKeepBounds DEF KeepsBounds
  <2>2. /\ phase' \in {"fallback", "signal", "batch"} =>
             view' = view /\ phase \in {"fallback", "signal", "batch"}
        /\ phase' = "fallback" =>
             phase = "fallback" /\ view' = view /\ wallet' = wallet /\ sight' = sight
    <3>1. CASE SettleSwap
      <4>1. flight # <<>> /\ phase' = phase /\ view' = view
        BY <3>1 DEF SettleSwap
      <4> QED
        BY <4>1 DEF Flow
    <3>2. CASE ListBalances \/ SkipFallback \/ Generate \/ EndTick \/ UNCHANGED vars
      BY <3>2 DEF ListBalances, SkipFallback, Generate, EndTick
    <3>3. CASE RejectCandidate \/ SendSwap
      <4>1. /\ HasCurrent /\ (\E executed \in BOOLEAN : GoOn(executed))
            /\ view' = view
        BY <3>3, Sent DEF RejectCandidate, SendSwap
      <4>2. phase' \in {"signal", "relist", "batch"} /\ phase \in {"fallback", "batch"}
        BY <4>1, GoesOn
      <4> QED
        BY <4>1, <4>2
    <3> QED
      BY <1>3, <3>1, <3>2, <3>3 DEF Next
  <2> QED
    BY <1>0, <2>1, <2>2 DEF Shown
<1> QED
  BY <1>1, <1>2, <1>3

\* When the fallback is due, nothing is under way, and the portfolio shows the
\* exposure of the wallet unless it lacks an asset.
LEMMA AtFallback ==
  ASSUME Kinds, Flow, Begun, Shown, phase = "fallback"
  PROVE  /\ WorstRiskOn = start /\ OnceRiskOn = start /\ start <= CapOrStart
         /\ sight # "blind" => view.nav = Value(wallet) /\ RiskOn(view) = start
         /\ sight \in {"exact", "blind"} /\ view.nav <= Value(wallet)
<1>1. flight = <<>> /\ start = RiskOnIn(wallet) /\ start \in Nat /\ flight \in Seq(Swap)
  BY DEF Flow, Begun, Kinds
<1>2. WorstRiskOn = start
  <2>1. Sum(flight) = 0
    BY <1>1, SumTypes
  <2> QED
    BY <1>1, <2>1 DEF WorstRiskOn
<1>7. OnceRiskOn = WorstRiskOn
  <2>1. twice = 0 /\ twice \in Nat
    BY DEF Begun
  <2> QED
    BY <1>1, <2>1, BoundTypes DEF Kinds
<1>3. Share(Value(wallet), MaxRiskOnBps) \in Nat
  <2>1. Value(wallet) \in Nat /\ MaxRiskOnBps \in Nat
    BY ValueType, LimitsTyped DEF Kinds
  <2> QED
    BY <2>1, ShareType
<1>4. start <= CapOrStart
  BY <1>1, <1>3 DEF CapOrStart, LargerOf
<1>5. /\ sight \in {"exact", "blind"} /\ view.nav <= Value(wallet)
      /\ sight = "exact" => view.held = wallet /\ view.nav = Value(wallet)
  BY DEF Begun, Shown
<1>6. sight # "blind" => view.nav = Value(wallet) /\ RiskOn(view) = start
  BY <1>1, <1>5 DEF RiskOn, RiskOnIn
<1> QED
  BY <1>2, <1>4, <1>5, <1>6, <1>7

\* Threading: the portfolio read after a swap shows it, when it is exact.
LEMMA ThreadedStep ==
  ASSUME Kinds, Flow, Begun, Shown, Threaded, CapHeldWhenExact, [Next]_vars
  PROVE  Threaded' /\ CapHeldWhenExact'
<1>0. /\ wallet \in [Assets -> Nat] /\ flight \in Seq(Swap) /\ start \in Nat
      /\ sight \in Sight /\ view.nav \in Nat /\ RiskOn(view) \in Int /\ twice \in Nat
  BY AssetsFinite DEF Kinds, Flow, RiskOn
<1>1. /\ WorstRiskOn \in Nat /\ CapOrStart \in Nat /\ FallbackCost \in Nat
  BY <1>0, BoundTypes
<1>2. CASE StartTick
  <2>1. /\ wallet' \in [Assets -> Nat] /\ flight' = <<>> /\ flight' \in Seq(Swap)
        /\ phase' = "list" /\ start' = RiskOnIn(wallet')
    BY <1>0, <1>2, ExposureAssumption DEF StartTick
  <2>2. start' \in Nat /\ Value(wallet') \in Nat /\ Sum(flight') = 0
    BY <2>1, ValueType, SumTypes
  <2>3. WorstRiskOn' = start'
    BY <2>1, <2>2 DEF WorstRiskOn
  <2>4. MaxRiskOnBps \in Nat /\ FallbackMax \in Nat /\ 50 \in Nat
    BY LimitsTyped, ExposureAssumption
  <2>5. Share(Value(wallet'), MaxRiskOnBps) \in Nat /\ Share(Value(wallet'), 50) \in Nat
    BY <2>2, <2>4, ShareType
  <2>6. start' <= CapOrStart' /\ CapOrStart' \in Nat /\ FallbackCost' \in Nat
    BY <2>2, <2>4, <2>5 DEF CapOrStart, FallbackCost, LargerOf, LeastOf
  <2> QED
    BY <2>1, <2>2, <2>3, <2>6 DEF Threaded, CapHeldWhenExact
<1>3. CASE ~StartTick
  <2>1. /\ CapOrStart' = CapOrStart /\ FallbackCost' = FallbackCost /\ WorstRiskOn' \in Nat
        /\ Value(wallet') = Value(wallet)
        /\ ~SendSwap => WorstRiskOn' <= WorstRiskOn
        /\ sight' = "exact" => sight = "exact" /\ twice = 0 /\ twice' = 0
        /\ Largest' \in Nat
    <3>1. Worsens => (sight' = "exact" => sight = "exact")
      BY <1>0 DEF Worsens, Worse, Sight
    <3>2. Begun /\ Begun'
      BY BegunStep
    <3>3. sight = "exact" => twice = 0
      BY <3>2 DEF Begun
    <3>4. sight' = "exact" => twice' = 0
      BY <3>2 DEF Begun
    <3> QED
      BY <1>3, <3>1, <3>3, <3>4, StepsKeepBounds DEF KeepsBounds
  <2>2. SUFFICES ASSUME sight' = "exact"
                 PROVE  /\ phase' \in {"signal", "batch"} => UpToFallback'
                        /\ WorstRiskOn' <= CapOrStart + FallbackCost
    BY <2>1 DEF Threaded, CapHeldWhenExact
  <2>3. sight = "exact" /\ WorstRiskOn <= CapOrStart + FallbackCost
    BY <2>1, <2>2 DEF CapHeldWhenExact
  <2>0. OnceRiskOn = WorstRiskOn /\ OnceRiskOn' = WorstRiskOn'
    <3>1. OnceRiskOn = WorstRiskOn
      BY <1>0, <2>1, <2>2, BoundTypes
    <3> DEFINE w == WorstRiskOn'
               l == Largest'
    <3>2. w \in Nat /\ l \in Nat /\ OnceRiskOn' = w - 0 * l
      BY <2>1, <2>2 DEF OnceRiskOn
    <3>3. OnceRiskOn' = w
      <4> HIDE DEF w, l
      <4> QED
        BY <3>2, NoneTwice
    <3> QED
      BY <3>1, <3>3
  <2>4. phase \in {"signal", "batch"} => UpToFallback
    BY <2>3 DEF Threaded
  <2>5. /\ phase = "fallback" => UpToFallback
        /\ phase = "fallback" => RiskOn(view) <= CapOrStart
    BY <2>0, <1>0, <1>1, <2>3, AtFallback DEF UpToFallback
  <2>6. ~SendSwap => WorstRiskOn' <= CapOrStart + FallbackCost
    BY <1>1, <2>1, <2>3
  <2>7. ASSUME ~SendSwap, view' = view, UpToFallback PROVE UpToFallback'
    <3>1. RiskOn(view') = RiskOn(view)
      BY <2>7
    <3> QED
      BY <2>0, <1>0, <1>1, <2>1, <2>7, <3>1 DEF UpToFallback
  <2>8. CASE QueryBalances
    <3>1. /\ wallet' = wallet /\ flight' = flight /\ flight = <<>>
          /\ view'.held = wallet /\ view'.nav = Value(wallet)
      BY <1>3, <2>2, <2>8, Read DEF QueryBalances
    <3>2. Sum(flight) = 0 /\ RiskOnIn(wallet) \in Nat
      BY <1>0, <3>1, SumTypes, ValueType
    <3>3. WorstRiskOn' = RiskOn(view')
      BY <3>1, <3>2 DEF WorstRiskOn, RiskOn, RiskOnIn
    <3>4. UpToFallback'
      BY <2>0, <1>1, <2>1, <3>1, <3>3 DEF UpToFallback
    <3>5. WorstRiskOn' <= WorstRiskOn
      BY <1>0, <3>1, <3>2 DEF WorstRiskOn
    <3> QED
      BY <1>1, <2>1, <2>3, <3>4, <3>5
  <2>9. CASE SendSwap
    <3>1. /\ HasCurrent /\ Approved(Current, view, derisk) /\ view' = view
          /\ Current \in Candidate
      BY <2>9, CurrentIsOne DEF SendSwap
    <3>2. /\ \/ WorstRiskOn' <= WorstRiskOn
             \/ /\ Current.dir = "buy"
                /\ WorstRiskOn' <= WorstRiskOn + Notional(Current, view)
      BY <2>0, <2>9, Sent
    <3>3. PICK executed \in BOOLEAN :
            GoOn(executed) /\ (~executed => flight' = flight)
      BY <2>2, <2>9, Sent
    <3>4. UpToFallback
      BY <2>4, <2>5, <3>1 DEF HasCurrent
    <3>5. CASE phase = "fallback"
      <4>1. phase' = "signal"
        BY <3>1, <3>3, <3>5, GoesOn
      <4>2. Current = FallbackCandidate /\ view.nav <= Value(wallet)
        BY <3>5, AtFallback DEF Current
      <4>3. Notional(Current, view) <= FallbackCost /\ Notional(Current, view) \in Nat
        BY <3>1, <4>2, FallbackCheap, ApprovedSwap
      <4>4. WorstRiskOn = RiskOn(view)
        BY <2>3, <3>5, AtFallback
      <4>5. WorstRiskOn' <= RiskOn(view) + FallbackCost
        BY <1>0, <1>1, <2>1, <3>2, <4>3, <4>4
      <4> QED
        BY <2>0, <1>0, <1>1, <2>1, <2>5, <3>1, <3>4, <3>5, <4>5 DEF UpToFallback
    <3>6. CASE phase = "batch"
      <4>1. /\ Current.dir = "buy" =>
                 RiskOn(view) + Notional(Current, view) <= Share(view.nav, MaxRiskOnBps)
            /\ Notional(Current, view) \in Nat
        BY <3>1, ApprovedSwap
      <4>2. view.nav = Value(wallet) /\ WorstRiskOn <= RiskOn(view) + FallbackCost
        BY <2>0, <3>4 DEF UpToFallback
      <4>3. Share(Value(wallet), MaxRiskOnBps) <= CapOrStart
            /\ Share(Value(wallet), MaxRiskOnBps) \in Nat
        <5>1. Value(wallet) \in Nat /\ MaxRiskOnBps \in Nat
          BY <1>0, ValueType, LimitsTyped
        <5>2. Share(Value(wallet), MaxRiskOnBps) \in Nat
          BY <5>1, ShareType
        <5> QED
          BY <1>0, <5>2 DEF CapOrStart, LargerOf
      <4>4. WorstRiskOn' <= CapOrStart + FallbackCost
        BY <1>0, <1>1, <2>1, <2>3, <3>2, <4>1, <4>2, <4>3
      <4>5. ASSUME phase' = "batch" PROVE UpToFallback'
        <5>1. ~executed
          BY <3>1, <3>3, <3>6, <4>5, GoesOn
        <5>2. flight' = flight /\ wallet' = wallet
          BY <2>9, <3>3, <5>1 DEF SendSwap
        <5>3. WorstRiskOn' = WorstRiskOn
          BY <5>2 DEF WorstRiskOn
        <5> QED
          BY <2>0, <2>1, <3>1, <4>2, <5>3 DEF UpToFallback
      <4>6. phase' \in {"relist", "batch"}
        BY <3>1, <3>3, <3>6, GoesOn
      <4> QED
        BY <4>4, <4>5, <4>6
    <3> QED
      BY <3>1, <3>5, <3>6 DEF HasCurrent
  <2>10. CASE ~SendSwap /\ (SettleSwap \/ Generate \/ UNCHANGED vars)
    <3>1. view' = view /\ (phase' \in {"signal", "batch"} => phase \in {"signal", "batch"})
      BY <2>10 DEF SettleSwap, Generate
    <3> QED
      BY <2>4, <2>6, <2>7, <2>10, <3>1
  <2>11. CASE ~SendSwap /\ (ListBalances \/ EndTick)
    <3>1. phase' \notin {"signal", "batch"}
      BY <2>11 DEF ListBalances, EndTick
    <3> QED
      BY <2>6, <2>11, <3>1
  <2>12. CASE ~SendSwap /\ (SkipFallback \/ RejectCandidate)
    <3>1. /\ view' = view /\ phase \in {"fallback", "batch"}
      BY <2>12 DEF SkipFallback, RejectCandidate, HasCurrent
    <3> QED
      BY <2>4, <2>5, <2>6, <2>7, <2>12, <3>1
  <2> QED
    BY <1>3, <2>8, <2>9, <2>10, <2>11, <2>12 DEF Next
<1> QED
  BY <1>2, <1>3

\* One candidate of the batch is one largest trade at most.
LEMMA SpentStep ==
  ASSUME Kinds, Flow, Begun, Shown, Spent, [Next]_vars
  PROVE  Spent'
<1>0. /\ wallet \in [Assets -> Nat] /\ flight \in Seq(Swap) /\ start \in Nat
      /\ sight \in Sight /\ view.nav \in Nat /\ RiskOn(view) \in Int /\ twice \in Nat
      /\ todo \in Seq(Candidate) /\ Len(todo) \in Nat /\ Len(todo) <= MaxActions
      /\ MaxActions \in Nat \ {0}
  BY AssetsFinite, ExposureAssumption DEF Kinds, Flow, RiskOn
<1>1. /\ OnceRiskOn \in Int /\ CapOrStart \in Nat /\ FallbackCost \in Nat
      /\ MostShown \in Nat /\ Largest \in Nat /\ Value(wallet) \in Nat
  BY <1>0, BoundTypes
<1>2. CASE StartTick
  BY <1>2 DEF StartTick, Spent
<1>3. CASE ~StartTick
  <2>1. /\ KeepsBounds /\ CapOrStart' = CapOrStart /\ FallbackCost' = FallbackCost
        /\ OnceRiskOn' \in Int /\ Value(wallet') = Value(wallet) /\ Largest' \in Nat
        /\ ~SendSwap => OnceRiskOn' <= OnceRiskOn
        /\ sight = "blind" => sight' = "blind"
    <3>1. Worsens => (sight = "blind" => sight' = "blind")
      BY <1>0 DEF Worsens, Worse, Sight
    <3> QED
      BY <1>3, <3>1, StepsKeepBounds DEF KeepsBounds
  <2> DEFINE WithinNext(m) == OnceRiskOn' <= CapOrStart' + FallbackCost' + m * Largest'
  <2>2. ASSUME NEW n \in Nat, NEW m \in Nat, Within(n),
               \/ n <= m /\ OnceRiskOn' <= OnceRiskOn
               \/ n + 1 <= m /\ OnceRiskOn' <= OnceRiskOn + Largest
        PROVE  WithinNext(m)
    BY <1>1, <2>1, <2>2, WithinKept
  <2>3. ASSUME OnceRiskOn' <= CapOrStart + FallbackCost, NEW m \in Nat
        PROVE  WithinNext(m)
    <3> DEFINE extra == m * Largest'
    <3>1. extra \in Nat
      BY <2>1, ProductType
    <3>2. OnceRiskOn' <= CapOrStart' + FallbackCost' + extra
      <4> HIDE DEF extra
      <4> QED
        BY <1>1, <2>1, <2>3, <3>1
    <3> QED
      BY <3>2
  <2>4. ASSUME ~SendSwap, view' = view, UpToFallback PROVE UpToFallback'
    BY <1>0, <1>1, <2>1, <2>4 DEF UpToFallback
  <2>5. ASSUME ~SendSwap, NEW n \in Nat, NEW m \in Nat, Within(n), n <= m PROVE WithinNext(m)
    BY <2>1, <2>2, <2>5
  <2>6. Spent' <=>
          /\ phase' = "signal" =>
               /\ WithinNext(0)
               /\ sight' # "blind" => UpToFallback' /\ RiskOn(view') <= CapOrStart'
          /\ phase' \in {"batch", "relist", "requery"} =>
               \/ sight' = "blind" /\ WithinNext(MaxActions - Len(todo'))
               \/ /\ sight' # "blind" /\ phase' = "batch"
                  /\ UpToFallback' /\ RiskOn(view') <= CapOrStart'
               \/ /\ sight' # "blind" /\ Len(todo') < MaxActions
                  /\ WithinNext(MaxActions - 1 - Len(todo'))
    BY DEF Spent, Within
  <2> HIDE DEF WithinNext
  <2>7. ASSUME phase = "fallback", OnceRiskOn' <= OnceRiskOn
        PROVE  WithinNext(0)
    <3>1. OnceRiskOn <= CapOrStart /\ 0 \in Nat
      BY <2>7, AtFallback
    <3> QED
      BY <1>1, <2>1, <2>3, <2>7, <3>1
  <2>8. ASSUME phase = "fallback", sight # "blind"
        PROVE  UpToFallback /\ RiskOn(view) <= CapOrStart
    BY <1>0, <1>1, <2>8, AtFallback DEF UpToFallback
  <2>9. CASE ~SendSwap /\ (SettleSwap \/ ListBalances \/ UNCHANGED vars)
    <3>1. /\ todo' = todo /\ sight' = sight /\ view' = view
          /\ phase' \in {"signal", "batch"} => phase = phase'
          /\ phase' \in {"relist", "requery"} => phase \in {"relist", "requery"}
      BY <2>9 DEF SettleSwap, ListBalances
    <3>2. MaxActions - Len(todo) \in Nat /\ (Len(todo) < MaxActions => MaxActions - 1 - Len(todo) \in Nat)
      BY <1>0
    <3>3. \A n \in Nat : Within(n) => WithinNext(n)
      BY <2>5, <2>9
    <3>4. UpToFallback => UpToFallback'
      BY <2>4, <2>9, <3>1
    <3> QED
      BY <2>1, <2>6, <3>1, <3>2, <3>3, <3>4 DEF Spent
  <2>10. CASE QueryBalances
    <3>1. /\ ~SendSwap /\ todo' = todo /\ phase' \in {"fallback", "batch"}
          /\ phase' = "batch" => phase = "requery"
      BY <2>10 DEF QueryBalances, SendSwap, HasCurrent
    <3>2. CASE phase' = "batch"
      <4>1. CASE sight = "blind" /\ Within(MaxActions - Len(todo))
        <5>1. MaxActions - Len(todo) \in Nat
          BY <1>0
        <5> QED
          BY <2>1, <2>5, <2>6, <3>1, <3>2, <4>1, <5>1
      <4>2. CASE sight # "blind" /\ Len(todo) < MaxActions /\ Within(MaxActions - 1 - Len(todo))
        <5>1. MaxActions - 1 - Len(todo) \in Nat /\ MaxActions - Len(todo) \in Nat
              /\ MaxActions - 1 - Len(todo) <= MaxActions - Len(todo)
          BY <1>0, <4>2
        <5>2. WithinNext(MaxActions - 1 - Len(todo)) /\ WithinNext(MaxActions - Len(todo))
          BY <2>5, <3>1, <4>2, <5>1
        <5> QED
          BY <2>6, <3>1, <3>2, <4>2, <5>2
      <4> QED
        BY <3>1, <3>2, <4>1, <4>2 DEF Spent
    <3> QED
      BY <2>6, <3>1, <3>2
  <2>11. CASE SkipFallback
    <3>1. /\ phase = "fallback" /\ phase' = "signal" /\ view' = view /\ sight' = sight
          /\ OnceRiskOn' = OnceRiskOn /\ flight' = flight /\ wallet' = wallet
      BY <2>11 DEF SkipFallback, history, chainVars, OnceRiskOn, WorstRiskOn, Largest, MostShown
    <3>2. UpToFallback => UpToFallback'
      BY <2>1, <3>1 DEF UpToFallback
    <3> QED
      BY <1>1, <2>1, <2>6, <2>7, <2>8, <3>1, <3>2
  <2>12. CASE Generate
    <3>1. /\ phase = "signal" /\ phase' = "batch" /\ view' = view /\ sight' = sight
          /\ ~SendSwap /\ Len(todo') \in Nat /\ Len(todo') <= MaxActions
      BY <2>12, FlowStep DEF Generate, Flow, SendSwap, HasCurrent
    <3>2. CASE sight = "blind"
      <4>1. /\ Within(0) /\ 0 \in Nat
            /\ MaxActions - Len(todo') \in Nat /\ 0 <= MaxActions - Len(todo')
        BY <1>0, <3>1 DEF Spent
      <4> QED
        BY <2>5, <2>6, <3>1, <3>2, <4>1
    <3>3. CASE sight # "blind"
      BY <2>1, <2>4, <2>6, <3>1, <3>3 DEF Spent
    <3> QED
      BY <3>2, <3>3
  <2>13. CASE RejectCandidate
    <3>1. /\ HasCurrent /\ GoOn(FALSE) /\ view' = view /\ sight' = sight
          /\ OnceRiskOn' = OnceRiskOn /\ flight' = flight /\ wallet' = wallet
      BY <2>13 DEF RejectCandidate, history, chainVars, OnceRiskOn, WorstRiskOn, Largest, MostShown
    <3>2. UpToFallback => UpToFallback'
      BY <2>1, <3>1 DEF UpToFallback
    <3>3. CASE phase = "fallback"
      <4>1. phase' = "signal"
        BY <3>1, <3>3, GoesOn
      <4> QED
        BY <1>1, <2>1, <2>6, <2>7, <2>8, <3>1, <3>2, <3>3, <4>1
    <3>4. CASE phase = "batch"
      <4>1. phase' = "batch" /\ Len(todo') = Len(todo) - 1 /\ Len(todo) > 0
        BY <3>1, <3>4, GoesOn
      <4>2. \A n \in Nat : Within(n) => WithinNext(n + 1)
        BY <1>1, <2>1, <2>2, <3>1
      <4>3. CASE sight = "blind" /\ Within(MaxActions - Len(todo))
        <5>1. MaxActions - Len(todo) \in Nat /\ (MaxActions - Len(todo)) + 1 = MaxActions - Len(todo')
          BY <1>0, <4>1
        <5> QED
          BY <2>6, <3>1, <4>1, <4>2, <4>3, <5>1
      <4>4. CASE sight # "blind" /\ UpToFallback /\ RiskOn(view) <= CapOrStart
        BY <2>1, <2>6, <3>1, <3>2, <4>1, <4>4
      <4>5. CASE sight # "blind" /\ Len(todo) < MaxActions /\ Within(MaxActions - 1 - Len(todo))
        <5>1. /\ MaxActions - 1 - Len(todo) \in Nat /\ Len(todo') < MaxActions
              /\ (MaxActions - 1 - Len(todo)) + 1 = MaxActions - 1 - Len(todo')
          BY <1>0, <4>1, <4>5
        <5> QED
          BY <2>6, <3>1, <4>1, <4>2, <4>5, <5>1
      <4> QED
        BY <3>4, <4>3, <4>4, <4>5 DEF Spent
    <3> QED
      BY <3>1, <3>3, <3>4 DEF HasCurrent
  <2>14. CASE SendSwap
    <3>1. /\ HasCurrent /\ Approved(Current, view, derisk) /\ view' = view
          /\ Current \in Candidate /\ (sight' = "blind" => sight = "blind")
          /\ \/ OnceRiskOn' <= OnceRiskOn
             \/ /\ Current.dir = "buy"
                /\ OnceRiskOn' <= OnceRiskOn + Notional(Current, view)
      BY <2>14, CurrentIsOne, Sent DEF SendSwap
    <3>2. PICK executed \in BOOLEAN : GoOn(executed)
      BY <2>14, Sent
    <3>3. /\ Notional(Current, view) \in Nat
          /\ Notional(Current, view) <= Share(view.nav, MaxTradeBps)
          /\ Current.dir = "buy" =>
               RiskOn(view) + Notional(Current, view) <= Share(view.nav, MaxRiskOnBps)
      BY <3>1, ApprovedSwap
    <3>4. CASE phase = "fallback"
      <4>1. phase' = "signal"
        BY <3>1, <3>2, <3>4, GoesOn
      <4>2. Current = FallbackCandidate /\ view.nav <= Value(wallet) /\ OnceRiskOn = start
            /\ start <= CapOrStart /\ (sight # "blind" => view.nav = Value(wallet) /\ RiskOn(view) = start)
        BY <3>4, AtFallback DEF Current
      <4>3. Notional(Current, view) <= FallbackCost
        BY <3>1, <4>2, FallbackCheap
      <4>4. OnceRiskOn' <= start + FallbackCost
        BY <1>0, <1>1, <2>1, <3>1, <3>3, <4>2, <4>3
      <4>5. OnceRiskOn' <= CapOrStart + FallbackCost /\ 0 \in Nat
        BY <1>0, <1>1, <2>1, <4>2, <4>4
      <4>6. WithinNext(0)
        BY <2>3, <4>5
      <4>7. ASSUME sight' # "blind" PROVE UpToFallback' /\ RiskOn(view') <= CapOrStart'
        <5>1. sight # "blind"
          BY <2>1, <4>7
        <5> QED
          BY <2>1, <3>1, <4>2, <4>4, <5>1 DEF UpToFallback
      <4> QED
        BY <2>6, <4>1, <4>6, <4>7
    <3>5. CASE phase = "batch"
      <4>1. phase' \in {"relist", "batch"} /\ Len(todo') = Len(todo) - 1 /\ Len(todo) > 0
        BY <3>1, <3>2, <3>5, GoesOn
      <4>2. OnceRiskOn' <= OnceRiskOn + Largest
        <5>1. view.nav <= MostShown /\ MaxTradeBps \in Nat
          BY <3>5, LimitsTyped DEF Shown
        <5>2. Share(view.nav, MaxTradeBps) <= Largest /\ Share(view.nav, MaxTradeBps) \in Nat
          BY <1>0, <1>1, <5>1, ShareOfMore, ShareType DEF Largest
        <5> QED
          BY <1>1, <2>1, <3>1, <3>3, <5>2
      <4>3. \A n \in Nat : Within(n) => WithinNext(n + 1)
        BY <1>1, <2>2, <4>2
      <4>4. CASE sight = "blind" /\ Within(MaxActions - Len(todo))
        <5>1. MaxActions - Len(todo) \in Nat /\ (MaxActions - Len(todo)) + 1 = MaxActions - Len(todo')
          BY <1>0, <4>1
        <5> QED
          BY <2>1, <2>6, <4>1, <4>3, <4>4, <5>1
      <4>5. CASE sight # "blind" /\ UpToFallback /\ RiskOn(view) <= CapOrStart
        <5>1. view.nav = Value(wallet) /\ OnceRiskOn <= RiskOn(view) + FallbackCost
          BY <4>5 DEF UpToFallback
        <5>2. Share(Value(wallet), MaxRiskOnBps) <= CapOrStart
              /\ Share(Value(wallet), MaxRiskOnBps) \in Nat
          <6>1. MaxRiskOnBps \in Nat
            BY LimitsTyped
          <6>2. Share(Value(wallet), MaxRiskOnBps) \in Nat
            BY <1>1, <6>1, ShareType
          <6>3. start \in Nat
            BY <1>0
          <6> QED
            BY ONLY <6>2, <6>3 DEF CapOrStart, LargerOf
        <5>3. OnceRiskOn' <= CapOrStart + FallbackCost
          <6> DEFINE risk == RiskOn(view)
                     n == Notional(Current, view)
          <6>1. CASE OnceRiskOn' <= OnceRiskOn
            <7>1. /\ risk \in Int /\ risk <= CapOrStart /\ OnceRiskOn <= risk + FallbackCost
                  /\ OnceRiskOn' \in Int
              BY <1>0, <2>1, <4>5, <5>1
            <7> HIDE DEF risk
            <7> QED
              BY <1>1, <6>1, <7>1
          <6>2. CASE Current.dir = "buy" /\ OnceRiskOn' <= OnceRiskOn + n
            <7>1. risk \in Int /\ n \in Nat /\ risk + n <= CapOrStart
              BY <1>0, <1>1, <3>3, <5>1, <5>2, <6>2
            <7>2. OnceRiskOn <= risk + FallbackCost /\ OnceRiskOn' <= OnceRiskOn + n
              BY <5>1, <6>2
            <7>3. OnceRiskOn' \in Int
              BY <2>1
            <7> HIDE DEF risk, n
            <7> QED
              BY <1>1, <7>1, <7>2, <7>3
          <6> QED
            BY <3>1, <6>1, <6>2
        <5>4. Len(todo') < MaxActions /\ MaxActions - 1 - Len(todo') \in Nat
          BY <1>0, <4>1
        <5>5. WithinNext(MaxActions - 1 - Len(todo'))
          BY <2>3, <5>3, <5>4
        <5> QED
          BY <2>6, <3>1, <4>1, <4>5, <5>4, <5>5
      <4>6. CASE sight # "blind" /\ Len(todo) < MaxActions /\ Within(MaxActions - 1 - Len(todo))
        <5>1. /\ MaxActions - 1 - Len(todo) \in Nat /\ Len(todo') < MaxActions
              /\ (MaxActions - 1 - Len(todo)) + 1 = MaxActions - 1 - Len(todo')
          BY <1>0, <4>1, <4>6
        <5> QED
          BY <2>6, <3>1, <4>1, <4>3, <4>6, <5>1
      <4> QED
        BY <3>5, <4>4, <4>5, <4>6 DEF Spent
    <3> QED
      BY <3>1, <3>4, <3>5 DEF HasCurrent
  <2>15. CASE EndTick
    BY <2>15 DEF EndTick, Spent
  <2> QED
    BY <1>3, <2>9, <2>10, <2>11, <2>12, <2>13, <2>14, <2>15 DEF Next
<1> QED
  BY <1>2, <1>3

\* A trade that is broadcast twice adds one more on both sides of the bound.
LEMMA TradesApart ==
  ASSUME NEW w \in Int, NEW b \in Nat, NEW c \in Nat, NEW l \in Nat,
         NEW n \in Nat, NEW t \in Nat
  PROVE  w <= b + c + (n + t) * l <=> w - t * l <= b + c + n * l
<1> DEFINE p == n * l
           q == t * l
<1>1. p \in Nat /\ q \in Nat /\ (n + t) * l = p + q
  BY ProductType
<1>2. w <= b + c + (p + q) <=> w - q <= b + c + p
  <2> HIDE DEF p, q
  <2> QED
    BY <1>1
<1> QED
  BY <1>1, <1>2

LEMMA BoundedOnce ==
  ASSUME WorstRiskOn \in Nat, CapOrStart \in Nat, FallbackCost \in Nat,
         Largest \in Nat, Unseen \in Nat, twice \in Nat
  PROVE  ExposureBounded <=> Within(Unseen)
<1>1. ExposureBounded <=>
        WorstRiskOn <= CapOrStart + FallbackCost + (Unseen + twice) * Largest
  BY DEF ExposureBounded, Largest
<1>2. Within(Unseen) <=>
        WorstRiskOn - twice * Largest <= CapOrStart + FallbackCost + Unseen * Largest
  BY DEF Within, OnceRiskOn
<1> QED
  BY <1>1, <1>2, TradesApart

\* The bound follows, and outside a batch nothing is added.
LEMMA BoundedStep ==
  ASSUME Kinds, Flow, Begun, Shown, Spent, ExposureBounded, [Next]_vars
  PROVE  ExposureBounded'
<1>0. /\ wallet \in [Assets -> Nat] /\ flight \in Seq(Swap) /\ start \in Nat
      /\ sight \in Sight /\ view.nav \in Nat /\ RiskOn(view) \in Int /\ twice \in Nat
      /\ MaxActions \in Nat \ {0}
  BY AssetsFinite, ExposureAssumption DEF Kinds, Flow, RiskOn
<1>1. /\ OnceRiskOn \in Int /\ WorstRiskOn \in Nat /\ CapOrStart \in Nat /\ FallbackCost \in Nat
      /\ Largest \in Nat /\ Unseen \in Nat
  BY <1>0, BoundTypes DEF Unseen
<1>2. Kinds' /\ Flow' /\ Spent'
  BY KindsStep, FlowStep, SpentStep
<1>3. /\ wallet' \in [Assets -> Nat] /\ flight' \in Seq(Swap) /\ start' \in Nat
      /\ RiskOn(view') \in Int
      /\ Len(todo') \in Nat /\ Len(todo') <= MaxActions
  <2>1. wallet' \in [Assets -> Nat] /\ start' \in Nat
    BY <1>2 DEF Kinds
  <2>2. view'.nav \in Nat /\ view'.held[Base] \in Nat
    BY <1>2, AssetsFinite DEF Kinds
  <2>3. flight' \in Seq(Swap) /\ todo' \in Seq(Candidate) /\ Len(todo') <= MaxActions
    BY <1>2 DEF Flow
  <2> QED
    BY <2>1, <2>2, <2>3 DEF RiskOn
<1>4. /\ OnceRiskOn' \in Int /\ WorstRiskOn' \in Nat /\ CapOrStart' \in Nat /\ FallbackCost' \in Nat
      /\ Largest' \in Nat /\ Unseen' \in Nat
  <2>1. Unseen' \in Nat
    BY <1>0 DEF Unseen
  <2>2. Value(wallet') \in Nat /\ RiskOnIn(wallet') \in Nat /\ Sum(flight') \in Nat
    BY <1>3, ValueType, SumTypes
  <2>3. MostShown' \in Nat
    BY <2>2 DEF MostShown
  <2>4. MaxRiskOnBps \in Nat /\ MaxTradeBps \in Nat /\ FallbackMax \in Nat /\ 50 \in Nat
    BY LimitsTyped, ExposureAssumption
  <2>5. /\ Share(Value(wallet'), MaxRiskOnBps) \in Nat /\ Share(Value(wallet'), 50) \in Nat
        /\ Share(MostShown', MaxTradeBps) \in Nat
    BY <2>2, <2>3, <2>4, ShareType
  <2>6. WorstRiskOn' \in Nat
    BY <2>2 DEF WorstRiskOn
  <2>7. CapOrStart' \in Nat /\ FallbackCost' \in Nat /\ Largest' \in Nat
    BY <1>3, <2>4, <2>5 DEF CapOrStart, FallbackCost, Largest, LargerOf, LeastOf
  <2> DEFINE worst == WorstRiskOn'
             l == Largest'
  <2>8. OnceRiskOn' = worst - twice' * l
    BY DEF OnceRiskOn
  <2>9. OnceRiskOn' \in Int
    <3>1. worst \in Nat /\ l \in Nat /\ twice' \in Nat
      BY <1>2, <2>6, <2>7, ExposureAssumption DEF Kinds
    <3>2. twice' * l \in Nat
      BY <3>1, ProductType
    <3> HIDE DEF worst, l
    <3> QED
      BY <2>8, <3>1, <3>2
  <2> QED
    BY <2>1, <2>6, <2>7, <2>9
<1> DEFINE w == OnceRiskOn'
           cap == CapOrStart'
           cost == FallbackCost'
<1>5. /\ ExposureBounded <=> Within(Unseen)
      /\ ExposureBounded' <=> OnceRiskOn' <= CapOrStart' + FallbackCost' + Unseen' * Largest'
  <2>1. ExposureBounded <=> Within(Unseen)
    BY <1>0, <1>1, BoundedOnce
  <2>2. twice' \in Nat
    BY <1>2, ExposureAssumption DEF Kinds
  <2> DEFINE worst == WorstRiskOn'
             l == Largest'
             b == CapOrStart'
             c == FallbackCost'
             n == Unseen'
             t == twice'
  <2>3. /\ ExposureBounded' <=> worst <= b + c + (n + t) * l
        /\ OnceRiskOn' = worst - t * l
    BY DEF ExposureBounded, OnceRiskOn, Largest
  <2>4. ExposureBounded' <=> OnceRiskOn' <= b + c + n * l
    <3>1. /\ worst \in Nat /\ l \in Nat /\ b \in Nat /\ c \in Nat /\ n \in Nat /\ t \in Nat
      BY <1>4, <2>2
    <3> HIDE DEF worst, l, b, c, n, t
    <3> QED
      BY <2>3, <3>1, TradesApart
  <2> QED
    BY <2>1, <2>4
<1>6. ASSUME NEW n \in Nat, n <= Unseen',
             OnceRiskOn' <= CapOrStart' + FallbackCost' + n * Largest'
      PROVE  ExposureBounded'
  BY <1>4, <1>5, <1>6, TradesAllowed
<1>7. ASSUME OnceRiskOn' <= CapOrStart' + FallbackCost' PROVE ExposureBounded'
  <2>1. Unseen' <= Unseen'
    BY <1>4
  <2> QED
    BY <1>4, <1>5, <1>7, <2>1, TradesAllowed
<1>8. CASE StartTick
  <2>1. flight' = <<>> /\ start' = RiskOnIn(wallet')
    BY <1>8 DEF StartTick
  <2>2. Sum(flight') = 0
    BY <1>3, <2>1, SumTypes
  <2>3. OnceRiskOn' = start'
    <3>1. WorstRiskOn' = start' /\ twice' = 0
      BY <1>3, <1>8, <2>1, <2>2 DEF WorstRiskOn, StartTick
    <3> DEFINE l == Largest'
    <3>2. l \in Nat /\ start' \in Nat /\ OnceRiskOn' = start' - 0 * l
      BY <1>3, <1>4, <3>1 DEF OnceRiskOn
    <3> HIDE DEF l
    <3> QED
      BY <3>2, NoneTwice
  <2>4. start' <= CapOrStart'
    <3>1. Value(wallet') \in Nat /\ MaxRiskOnBps \in Nat
      BY <1>3, ValueType, LimitsTyped
    <3>2. Share(Value(wallet'), MaxRiskOnBps) \in Nat
      BY <3>1, ShareType
    <3> QED
      BY <1>3, <3>2 DEF CapOrStart, LargerOf
  <2>5. w <= cap + cost
    <3>1. w \in Int /\ cap \in Nat /\ cost \in Nat /\ w <= cap
      BY <1>4, <2>3, <2>4
    <3> HIDE DEF w, cap, cost
    <3> QED
      BY <3>1
  <2> QED
    BY <1>7, <2>5
<1>9. CASE ~StartTick /\ ~SendSwap
  <2>1. KeepsBounds /\ Worsens /\ OnceRiskOn' <= OnceRiskOn
    BY <1>9, StepsKeepBounds
  <2>2. Unseen <= Unseen'
    BY <1>0, <2>1 DEF Unseen, Worsens, Worse, Sight
  <2>3. Within(Unseen)
    BY <1>5
  <2>4. OnceRiskOn' <= CapOrStart' + FallbackCost' + Unseen' * Largest'
    BY <1>1, <1>4, <2>1, <2>2, <2>3, WithinKept
  <2> QED
    BY <1>5, <2>4
<1>10. CASE SendSwap
  <2>1. PICK executed \in BOOLEAN : GoOn(executed)
    BY <1>10, Sent
  <2>2. phase' \in {"signal", "batch", "relist"}
    BY <1>10, <2>1, GoesOn DEF SendSwap
  <2>3. CASE UpToFallback' /\ RiskOn(view') <= CapOrStart'
    <3>1. OnceRiskOn' <= RiskOn(view') + FallbackCost'
      BY <2>3 DEF UpToFallback
    <3>2. w <= cap + cost
      <4> DEFINE risk == RiskOn(view')
      <4>1. /\ risk \in Int /\ risk <= cap /\ w <= risk + cost
            /\ w \in Int /\ cap \in Nat /\ cost \in Nat
        BY <1>3, <1>4, <2>3, <3>1
      <4> HIDE DEF w, cap, cost, risk
      <4> QED
        BY <4>1
    <3> QED
      BY <1>7, <3>2
  <2>4. CASE phase' = "signal"
    <3>1. Within(0)'
      BY <1>2, <2>4 DEF Spent
    <3>2. OnceRiskOn' <= CapOrStart' + FallbackCost' + 0 * Largest'
      BY <3>1 DEF Within
    <3>3. 0 \in Nat /\ 0 <= Unseen'
      BY <1>4
    <3> QED
      BY <1>6, <3>2, <3>3
  <2>5. CASE phase' # "signal" /\ sight' = "blind" /\ ~(UpToFallback' /\ RiskOn(view') <= CapOrStart')
    <3>1. OnceRiskOn' <= CapOrStart' + FallbackCost' + (MaxActions - Len(todo')) * Largest'
      BY <1>2, <2>2, <2>5 DEF Spent, Within
    <3>2. MaxActions - Len(todo') \in Nat /\ MaxActions - Len(todo') <= Unseen'
      BY <1>0, <1>3, <2>5 DEF Unseen
    <3> QED
      BY <1>6, <3>1, <3>2
  <2>6. CASE phase' # "signal" /\ sight' # "blind" /\ ~(UpToFallback' /\ RiskOn(view') <= CapOrStart')
    <3>1. /\ OnceRiskOn' <= CapOrStart' + FallbackCost' + (MaxActions - 1 - Len(todo')) * Largest'
          /\ Len(todo') < MaxActions
      BY <1>2, <2>2, <2>6 DEF Spent, Within
    <3>2. MaxActions - 1 - Len(todo') \in Nat /\ MaxActions - 1 - Len(todo') <= Unseen'
      BY <1>0, <1>3, <2>6, <3>1 DEF Unseen
    <3> QED
      BY <1>6, <3>1, <3>2
  <2> QED
    BY <2>3, <2>4, <2>5, <2>6
<1> QED
  BY <1>8, <1>9, <1>10

-----------------------------------------------------------------------------
(* The theorems. *)

LEMMA InitInv == Init => IInv
<1> SUFFICES ASSUME Init PROVE IInv
  OBVIOUS
<1>1. /\ wallet \in [Assets -> Nat] /\ flight = <<>> /\ flight \in Seq(Swap) /\ phase = "idle"
      /\ start = RiskOnIn(wallet) /\ sight = "exact" /\ todo = <<>> /\ view = NoView
      /\ listing = NoView.held /\ derisk = FALSE /\ twice = 0 /\ twice \in 0 .. MaxTwice
      /\ twice \in Nat
  BY ExposureAssumption DEF Init
<1>2. start \in Nat /\ Sum(flight) = 0
  BY <1>1, ValueType, SumTypes
<1>3. WorstRiskOn = start
  BY <1>1, <1>2 DEF WorstRiskOn
<1>4. /\ WorstRiskOn \in Nat /\ OnceRiskOn = WorstRiskOn
      /\ CapOrStart \in Nat /\ FallbackCost \in Nat /\ Largest \in Nat
  BY <1>1, <1>2, BoundTypes
<1>5. start <= CapOrStart
  <2>1. Value(wallet) \in Nat /\ MaxRiskOnBps \in Nat
    BY <1>1, ValueType, LimitsTyped
  <2>2. Share(Value(wallet), MaxRiskOnBps) \in Nat
    BY <2>1, ShareType
  <2> QED
    BY <1>2, <2>2 DEF CapOrStart, LargerOf
<1>6. Kinds
  BY <1>1, <1>2 DEF Kinds, NoView, Phase, Sight
<1>7. Flow
  BY <1>1, ExposureAssumption DEF Flow
<1>8. Begun /\ Shown /\ Threaded /\ Spent
  BY <1>1 DEF Begun, Shown, Threaded, Spent
<1>9. CapHeldWhenExact
  BY <1>2, <1>3, <1>4, <1>5 DEF CapHeldWhenExact
<1>10. ExposureBounded
  <2>1. Unseen \in Nat
    BY ExposureAssumption DEF Unseen
  <2> DEFINE extra == Unseen * Largest
  <2>2. extra \in Nat
    BY <1>4, <2>1, ProductType
  <2>3. OnceRiskOn <= CapOrStart + FallbackCost + extra
    <3> HIDE DEF extra
    <3> QED
      BY <1>2, <1>3, <1>4, <1>5, <2>2
  <2> QED
    BY <1>1, <1>4, <2>1, <2>3, BoundedOnce DEF Within
<1> QED
  BY <1>6, <1>7, <1>8, <1>9, <1>10 DEF IInv

LEMMA StepInv == IInv /\ [Next]_vars => IInv'
<1> SUFFICES ASSUME IInv, [Next]_vars PROVE IInv'
  OBVIOUS
<1>1. Kinds /\ Flow /\ Begun /\ Shown /\ Threaded /\ Spent /\ CapHeldWhenExact /\ ExposureBounded
  BY DEF IInv
<1>2. Kinds' /\ Flow' /\ Begun' /\ Shown'
  BY <1>1, KindsStep, FlowStep, BegunStep, ShownStep
<1>3. Threaded' /\ CapHeldWhenExact'
  BY <1>1, ThreadedStep
<1>4. Spent' /\ ExposureBounded'
  BY <1>1, SpentStep, BoundedStep
<1> QED
  BY <1>2, <1>3, <1>4 DEF IInv

LEMMA Invariant == Spec => []IInv
<1>1. Init => IInv
  BY InitInv
<1>2. IInv /\ [Next]_vars => IInv'
  BY StepInv
<1> QED
  BY <1>1, <1>2, PTL DEF Spec

\* The types of wallets, swaps and portfolios, and no more swaps under way than
\* a tick has candidates, whatever fails, settles late or raises (run.py:338-357,
\* execution.py:291-316).
THEOREM Typed == Spec => []TypeOK
<1>1. IInv => TypeOK
  <2> SUFFICES ASSUME IInv PROVE TypeOK
    OBVIOUS
  <2>1. Kinds /\ Flow
    BY DEF IInv
  <2>2. Len(flight) \in Nat /\ Len(todo) \in Nat /\ MaxActions \in Nat
    BY <2>1, ExposureAssumption DEF Flow
  <2> QED
    BY <2>1, <2>2 DEF TypeOK, Kinds, Flow
<1> QED
  BY <1>1, Invariant, PTL

\* With exact portfolios no batch, of any length and against any wallet, takes
\* the exposure past the cap by more than the fallback: each trade is resized to
\* the headroom of a portfolio that shows the one before (execution.py:313-316).
THEOREM CapSafe == Spec => []CapHeldWhenExact
<1>1. IInv => CapHeldWhenExact
  BY DEF IInv
<1> QED
  BY <1>1, Invariant, PTL

\* Whatever settles late, tears a read, is lost from it or fails after it was
\* broadcast, for all limits and batches, a tick exceeds the cap by a largest
\* trade per candidate at most, the first excepted unless an asset was lost.
THEOREM Bounded == Spec => []ExposureBounded
<1>1. IInv => ExposureBounded
  BY DEF IInv
<1> QED
  BY <1>1, Invariant, PTL
=============================================================================
