-------------------------- MODULE SwapCall_proofs --------------------------
(***************************************************************************)
(* Promises of the TWAK adapter, for every set of trades and orders: paper *)
(* mode puts nothing at stake, the open orders of two trades are not mixed *)
(* unless a cancellation failed, a trade puts no more at stake than its    *)
(* size and what the CLI concealed, its status tells what the CLI          *)
(* acknowledged, and a whole call is one step of AtomicTrade.              *)
(***************************************************************************)
EXTENDS SwapCall, Sums

-----------------------------------------------------------------------------
(* Orders and paper mode. *)

\* Paper mode never gets as far as a swap.
OnPaper == dry => committed = 0 /\ pc \notin {"quote", "swap", "settle"}

\* Where the orders of an older trade can still be: while orders are deleted,
\* among those still to delete; while rungs are placed, among those leaked.
Replacing ==
  /\ leaked \subseteq orders
  /\ pc = "delete" => orders \ leaked \subseteq todo
  /\ pc = "place" => \A o \in orders \ leaked : o[1] = calls

IInv == OnPaper /\ Replacing /\ LaddersReplaced

\* What a restart finds open is of one trade.
LEMMA InitInv == Init => IInv
<1> SUFFICES ASSUME Init PROVE IInv
  OBVIOUS
<1>1. OnPaper /\ Replacing
  BY DEF Init, OnPaper, Replacing
<1>2. LaddersReplaced
  BY SwapCallAssumption DEF Init, LaddersReplaced
<1> QED
  BY <1>1, <1>2 DEF IInv

\* Every way to a swap tests dry_run first.
LEMMA PaperStep == OnPaper /\ [Next]_vars => OnPaper'
<1> SUFFICES ASSUME OnPaper, [Next]_vars PROVE OnPaper'
  OBVIOUS
<1> USE DEF OnPaper, control, ladder, stakes, Return
<1>1. CASE \E t \in Trades : Begin(t)
  BY <1>1 DEF Begin
<1>2. CASE ListOrders \/ (\E o \in todo : DeleteOrder(o))
  BY <1>2 DEF ListOrders, DeleteOrder
<1>3. CASE PlaceRung
  BY <1>3 DEF PlaceRung, PaperLadder
<1>4. CASE EndLadder
  BY <1>4 DEF EndLadder, PaperLadder
<1>5. CASE AskQuote \/ TrySwap \/ Retry
  BY <1>5 DEF AskQuote, TrySwap, Retry
<1>6. CASE \E o \in orders : FillOrder(o)
  BY <1>6 DEF FillOrder
<1>7. CASE UNCHANGED vars
  BY <1>7 DEF vars
<1> QED
  BY <1>1, <1>2, <1>3, <1>4, <1>5, <1>6, <1>7 DEF Next, Step

\* A new ladder begins when no other order is open but those that leaked.
LEMMA ReplacingStep ==
  Replacing /\ LaddersReplaced /\ [Next]_vars => Replacing' /\ LaddersReplaced'
<1> SUFFICES ASSUME Replacing, LaddersReplaced, [Next]_vars
             PROVE  Replacing' /\ LaddersReplaced'
  OBVIOUS
<1> USE DEF Replacing, LaddersReplaced, control, ladder, stakes, Return
<1>1. CASE \E t \in Trades : Begin(t)
  BY <1>1 DEF Begin
<1>2. CASE ListOrders
  BY <1>2 DEF ListOrders
<1>3. CASE \E o \in todo : DeleteOrder(o)
  <2>1. PICK o \in todo : DeleteOrder(o)
    BY <1>3
  <2>2. /\ todo' = todo \ {o} /\ pc = "delete"
        /\ pc' = (IF todo' = {} THEN "place" ELSE "delete")
    BY <2>1 DEF DeleteOrder, StillToDelete
  <2>3. /\ leaked' \subseteq orders'
        /\ orders' \ leaked' \subseteq (orders \ leaked) \ {o}
    BY <2>1 DEF DeleteOrder
  <2> QED
    BY <2>2, <2>3
<1>4. CASE PlaceRung
  <2>1. /\ orders' \in {orders, orders \cup {<<calls, rung>>}}
        /\ leaked' = leaked /\ calls' = calls /\ pc = "place" /\ pc' = "place"
    BY <1>4 DEF PlaceRung
  <2>2. \A o \in orders' \ leaked' : o[1] = calls
    BY <2>1
  <2> QED
    BY <2>1, <2>2
<1>5. CASE EndLadder
  BY <1>5 DEF EndLadder
<1>6. CASE AskQuote \/ TrySwap \/ Retry
  BY <1>6 DEF AskQuote, TrySwap, Retry
<1>7. CASE \E o \in orders : FillOrder(o)
  BY <1>7 DEF FillOrder
<1>8. CASE UNCHANGED vars
  BY <1>8 DEF vars
<1> QED
  BY <1>1, <1>2, <1>3, <1>4, <1>5, <1>6, <1>7, <1>8 DEF Next, Step

\* The inductive invariant.
THEOREM CallInvariance == Spec => []IInv
<1>1. IInv /\ [Next]_vars => IInv'
  BY PaperStep, ReplacingStep DEF IInv
<1> QED
  BY InitInv, <1>1, PTL DEF Spec

\* Paper mode sends no swap and places no order.
THEOREM PaperSafe == Spec => []DryRunAddsNothing
<1>1. IInv => DryRunAddsNothing
  BY DEF IInv, OnPaper, DryRunAddsNothing
<1> QED
  BY CallInvariance, <1>1, PTL

\* Orders of two trades are open together only after a failed cancellation.
THEOREM LaddersSafe == Spec => []LaddersReplaced
<1>1. IInv => LaddersReplaced
  BY DEF IInv
<1> QED
  BY CallInvariance, <1>1, PTL

-----------------------------------------------------------------------------
(* Fibonacci numbers. *)

FibStep(g, k) == IF k <= 2 THEN 1 ELSE g[k - 1] + g[k - 2]

\* The Fibonacci numbers up to n.
FibUpTo(g, n) == g \in [0 .. n -> Nat] /\ \A k \in 0 .. n : g[k] = FibStep(g, k)

\* What the recursion needs is already there.
LEMMA FibExists ==
  ASSUME NEW n \in Nat
  PROVE  \E g : FibUpTo(g, n)
<1> DEFINE F == {k \in Nat : \E g : FibUpTo(g, k)}
<1>1. 0 \in F
  <2> DEFINE g == [i \in 0 .. 0 |-> 1]
  <2>1. FibUpTo(g, 0)
    BY DEF FibUpTo, FibStep
  <2> HIDE DEF g
  <2> QED
    BY <2>1
<1>2. ASSUME NEW k \in Nat, k \in F PROVE k + 1 \in F
  <2>1. PICK g : FibUpTo(g, k)
    BY <1>2
  <2> DEFINE h == [i \in 0 .. k + 1 |-> IF i <= k THEN g[i] ELSE FibStep(g, k + 1)]
  <2>2. FibStep(g, k + 1) \in Nat
    BY <2>1 DEF FibUpTo, FibStep
  <2>3. h \in [0 .. k + 1 -> Nat]
    BY <2>1, <2>2 DEF FibUpTo
  <2>4. \A i \in 0 .. k : h[i] = g[i]
    OBVIOUS
  <2>5. ASSUME NEW i \in 0 .. k + 1 PROVE h[i] = FibStep(h, i)
    <3>1. CASE i <= k
      <4>1. g[i] = FibStep(g, i)
        BY <2>1, <3>1 DEF FibUpTo
      <4>2. FibStep(h, i) = FibStep(g, i)
        BY <2>4, <3>1 DEF FibStep
      <4> QED
        BY <2>4, <3>1, <4>1, <4>2
    <3>2. CASE i = k + 1
      <4>1. h[i] = FibStep(g, k + 1)
        BY <3>2
      <4>2. FibStep(h, k + 1) = FibStep(g, k + 1)
        <5> HIDE DEF h
        <5> QED
          BY <2>4 DEF FibStep
      <4> QED
        BY <3>2, <4>1, <4>2
    <3> QED
      BY <3>1, <3>2
  <2>6. FibUpTo(h, k + 1)
    <3> HIDE DEF h
    <3> QED
      BY <2>3, <2>5 DEF FibUpTo
  <2> HIDE DEF h
  <2> QED
    BY <2>6
<1>3. \A k \in Nat : k \in F
  <2> HIDE DEF F
  <2> QED
    BY <1>1, <1>2, NaturalInduction
<1> QED
  BY <1>3

\* Two tables agree where both are defined.
LEMMA FibUnique ==
  ASSUME NEW m \in Nat, NEW n \in Nat, m <= n,
         NEW g, FibUpTo(g, m), NEW h, FibUpTo(h, n)
  PROVE  g[m] = h[m]
<1> DEFINE F == {k \in Nat : \A j \in 0 .. k : j <= m => g[j] = h[j]}
<1>1. 0 \in F
  BY DEF FibUpTo, FibStep
<1>2. ASSUME NEW k \in Nat, k \in F PROVE k + 1 \in F
  <2> SUFFICES ASSUME k + 1 <= m PROVE g[k + 1] = h[k + 1]
    BY <1>2
  <2>1. g[k + 1] = FibStep(g, k + 1) /\ h[k + 1] = FibStep(h, k + 1)
    BY DEF FibUpTo
  <2>2. FibStep(g, k + 1) = FibStep(h, k + 1)
    BY <1>2 DEF FibStep
  <2> QED
    BY <2>1, <2>2
<1>3. \A k \in Nat : k \in F
  <2> HIDE DEF F
  <2> QED
    BY <1>1, <1>2, NaturalInduction
<1> QED
  BY <1>3

\* The recursion of fib is satisfied.
LEMMA FibEquation == \A n \in Nat : fib[n] = FibStep(fib, n)
<1> DEFINE Table(n) == CHOOSE g : FibUpTo(g, n)
           f == [n \in Nat |-> Table(n)[n]]
           Solves(g) == g = [n \in Nat |-> IF n <= 2 THEN 1 ELSE g[n - 1] + g[n - 2]]
<1>1. \A n \in Nat : FibUpTo(Table(n), n)
  BY FibExists
<1> HIDE DEF Table
<1>2. ASSUME NEW n \in Nat PROVE f[n] = FibStep(f, n)
  <2>1. f[n] = FibStep(Table(n), n)
    BY <1>1 DEF FibUpTo
  <2>2. CASE n > 2
    <3>1. n - 1 \in Nat /\ n - 2 \in Nat /\ n - 1 <= n /\ n - 2 <= n
      BY <2>2
    <3>2. Table(n)[n - 1] = Table(n - 1)[n - 1] /\ Table(n)[n - 2] = Table(n - 2)[n - 2]
      BY <1>1, <3>1, FibUnique
    <3> QED
      BY <2>1, <2>2, <3>1, <3>2 DEF FibStep
  <2> QED
    BY <2>1, <2>2 DEF FibStep
<1>3. Solves(f)
  BY <1>2 DEF FibStep
<1> HIDE DEF f
<1>4. fib = CHOOSE g : Solves(g)
  BY DEF fib
<1>5. Solves(fib)
  <2> HIDE DEF Solves
  <2> QED
    BY <1>3, <1>4
<1> QED
  BY <1>5 DEF FibStep

\* Every rung of a ladder has a positive weight.
LEMMA FibPositive == \A n \in Nat : fib[n] \in Nat \ {0}
<1> DEFINE F == {k \in Nat : \A j \in 0 .. k : fib[j] \in Nat \ {0}}
<1>1. 0 \in F
  BY FibEquation DEF FibStep
<1>2. ASSUME NEW k \in Nat, k \in F PROVE k + 1 \in F
  <2> SUFFICES fib[k + 1] \in Nat \ {0}
    BY <1>2
  <2>1. fib[k + 1] = FibStep(fib, k + 1)
    BY FibEquation
  <2>2. CASE k + 1 > 2
    <3>1. k \in 0 .. k /\ k - 1 \in 0 .. k /\ (k + 1) - 1 = k /\ (k + 1) - 2 = k - 1
      BY <2>2
    <3>2. fib[k] \in Nat \ {0} /\ fib[k - 1] \in Nat \ {0}
      BY <1>2, <3>1
    <3> QED
      BY <2>1, <2>2, <3>1, <3>2 DEF FibStep
  <2> QED
    BY <2>1, <2>2 DEF FibStep
<1>3. \A k \in Nat : k \in F
  <2> HIDE DEF F
  <2> QED
    BY <1>1, <1>2, NaturalInduction
<1> QED
  BY <1>3

-----------------------------------------------------------------------------
(* The amounts of a ladder. *)

\* What place_limit_orders asks for on each rung of a trade, and on the rungs
\* from r on.
Amounts(t) == [i \in 1 .. t.rungs |-> RungSize(t.size, Weights("fibonacci", t.rungs), i)]
Rest(t, r) == SumFunctionOnSet(Amounts(t), r .. t.rungs)

IsTrade(t) == t.size \in Nat /\ t.rungs \in Nat

LEMMA WeightsPositive ==
  ASSUME NEW n \in Nat \ {0}
  PROVE  /\ Weights("fibonacci", n) \in [1 .. n -> Nat \ {0}]
         /\ Total(Weights("fibonacci", n)) = SumFunctionOnSet(Weights("fibonacci", n), 1 .. n)
         /\ Total(Weights("fibonacci", n)) \in Nat \ {0}
<1> DEFINE w == Weights("fibonacci", n)
<1>1. w \in [1 .. n -> Nat \ {0}]
  BY FibPositive DEF Weights
<1> HIDE DEF w
<1>2. Total(w) = SumFunctionOnSet(w, 1 .. n)
  BY <1>1 DEF Total, SumFunction
<1>3. IsFiniteSet(1 .. n) /\ Nats(w, 1 .. n) /\ Ints(w, 1 .. n) /\ 1 \in 1 .. n
  <2>1. IsFiniteSet(1 .. n)
    BY FS_Interval
  <2>2. \A i \in 1 .. n : w[i] \in Nat /\ w[i] \in Int
    BY <1>1
  <2> QED
    BY <2>1, <2>2 DEF Nats, Ints
<1>4. w[1] <= SumFunctionOnSet(w, 1 .. n)
  BY <1>3, SumBounds
<1>5. SumFunctionOnSet(w, 1 .. n) \in Nat
  BY <1>3, SumType
<1>6. w[1] \in Nat \ {0}
  BY <1>1, <1>3
<1>7. SumFunctionOnSet(w, 1 .. n) \in Nat \ {0}
  BY <1>4, <1>5, <1>6
<1> QED
  BY <1>1, <1>2, <1>7 DEF w

LEMMA AmountType ==
  ASSUME NEW t, IsTrade(t), NEW i \in 1 .. t.rungs
  PROVE  Amounts(t)[i] \in Nat
<1> DEFINE w == Weights("fibonacci", t.rungs)
<1>1. t.rungs \in Nat \ {0} /\ t.size \in Nat
  BY DEF IsTrade
<1>2. w \in [1 .. t.rungs -> Nat \ {0}] /\ Total(w) \in Nat \ {0}
  BY <1>1, WeightsPositive
<1>3. Amounts(t)[i] = (t.size * w[i]) \div Total(w)
  BY DEF Amounts, RungSize
<1> HIDE DEF w
<1>4. t.size * w[i] \in Nat
  BY <1>1, <1>2
<1> QED
  BY <1>2, <1>3, <1>4, QuotientTimes

\* The rungs of a ladder together ask for no more than the trade: the weights
\* are normalised by their total, and each amount is rounded down.
LEMMA LadderWithin ==
  ASSUME NEW t, IsTrade(t), t.rungs > 0
  PROVE  Rest(t, 1) <= t.size
<1> DEFINE n == t.rungs
           w == Weights("fibonacci", n)
           a == Amounts(t)
           T == Total(w)
           asked == [i \in 1 .. n |-> T * a[i]]
           share == [i \in 1 .. n |-> t.size * w[i]]
<1>1. n \in Nat \ {0} /\ t.size \in Nat
  BY DEF IsTrade
<1>2. w \in [1 .. n -> Nat \ {0}] /\ T \in Nat \ {0} /\ T = SumFunctionOnSet(w, 1 .. n)
  BY <1>1, WeightsPositive
<1>3. \A i \in 1 .. n : a[i] \in Nat
  BY AmountType
<1>4. \A i \in 1 .. n : a[i] = (t.size * w[i]) \div T
  BY DEF Amounts, RungSize
<1>5. IsFiniteSet(1 .. n)
  BY <1>1, FS_Interval
<1> HIDE DEF n, w, a, T
<1>6. ASSUME NEW i \in 1 .. n
      PROVE  share[i] \in Int /\ asked[i] \in Int /\ asked[i] <= share[i]
  <2>1. t.size * w[i] \in Nat
    BY <1>1, <1>2
  <2>2. T * ((t.size * w[i]) \div T) <= t.size * w[i] /\ T * ((t.size * w[i]) \div T) \in Nat
    BY <1>2, <2>1, QuotientTimes
  <2> QED
    BY <1>4, <2>1, <2>2
<1>7. Ints(w, 1 .. n) /\ Ints(a, 1 .. n) /\ Nats(a, 1 .. n)
      /\ Ints(asked, 1 .. n) /\ Ints(share, 1 .. n)
  <2> HIDE DEF asked, share
  <2> QED
    BY <1>2, <1>3, <1>6 DEF Ints, Nats
<1>8. SumFunctionOnSet(asked, 1 .. n) = T * SumFunctionOnSet(a, 1 .. n)
  <2>1. \A i \in 1 .. n : asked[i] = T * a[i]
    OBVIOUS
  <2>2. T \in Int
    BY <1>2
  <2> HIDE DEF asked
  <2> QED
    BY <1>5, <1>7, <2>1, <2>2, SumScaled
<1>9. SumFunctionOnSet(share, 1 .. n) = t.size * T
  <2>1. \A i \in 1 .. n : share[i] = t.size * w[i]
    OBVIOUS
  <2>2. t.size \in Int
    BY <1>1
  <2> HIDE DEF share
  <2> QED
    BY <1>2, <1>5, <1>7, <2>1, <2>2, SumScaled
<1>10. SumFunctionOnSet(asked, 1 .. n) <= SumFunctionOnSet(share, 1 .. n)
  <2> HIDE DEF asked, share
  <2> QED
    BY <1>5, <1>6, <1>7, SumMonotone
<1>11. SumFunctionOnSet(a, 1 .. n) \in Nat
  BY <1>5, <1>7, SumType
<1>12. t.size * T = T * t.size
  BY <1>1, <1>2
<1>13. T * SumFunctionOnSet(a, 1 .. n) <= T * t.size
  BY <1>8, <1>9, <1>10, <1>12
<1>14. SumFunctionOnSet(a, 1 .. n) <= t.size
  BY <1>1, <1>2, <1>11, <1>13, ProductCancels
<1> QED
  BY <1>14 DEF Rest, a, n

\* The next rung comes off the rest.
LEMMA RestStep ==
  ASSUME NEW t, IsTrade(t), NEW r \in 1 .. t.rungs
  PROVE  Rest(t, r) = Amounts(t)[r] + Rest(t, r + 1)
<1> DEFINE n == t.rungs
           a == Amounts(t)
<1>1. n \in Nat /\ r \in Nat
  BY DEF IsTrade
<1>2. IsFiniteSet(r .. n) /\ r \in r .. n /\ (r .. n) \ {r} = r + 1 .. n
  <2>1. IsFiniteSet(r .. n)
    BY <1>1, FS_Interval
  <2> QED
    BY <1>1, <2>1
<1>3. Ints(a, r .. n)
  BY <1>1, AmountType DEF Ints
<1> HIDE DEF n, a
<1>4. SumFunctionOnSet(a, r .. n) = a[r] + SumFunctionOnSet(a, (r .. n) \ {r})
  BY <1>2, <1>3, SumRemove
<1> QED
  BY <1>2, <1>4 DEF Rest, a, n

LEMMA RestType ==
  ASSUME NEW t, IsTrade(t), NEW r \in Nat \ {0}
  PROVE  Rest(t, r) \in Nat
<1>1. IsFiniteSet(r .. t.rungs)
  BY FS_Interval DEF IsTrade
<1>2. Nats(Amounts(t), r .. t.rungs) /\ Ints(Amounts(t), r .. t.rungs)
  BY AmountType DEF Ints, Nats, IsTrade
<1> QED
  BY <1>1, <1>2, SumType DEF Rest

-----------------------------------------------------------------------------
(* What a trade puts at stake. *)

(***************************************************************************)
(* Where the stakes of a trade come from, call by call.  While rungs are   *)
(* placed, what is at stake and what the remaining rungs would add is      *)
(* within the size of the trade; a swap begins only where nothing of the   *)
(* ladder was acknowledged, so what is at stake then was concealed; and a  *)
(* swap is tried again only after an error that conceals what it sent.     *)
(***************************************************************************)
Fresh ==
  pc \in {"idle", "list", "delete"} =>
    committed = 0 /\ acked = 0 /\ concealed = 0 /\ placed = 0 /\ rung = 1
HasRungs == pc \in {"list", "delete", "place"} => trade.rungs > 0
Laddering ==
  pc = "place" =>
    /\ committed = acked + concealed
    /\ committed + Rest(trade, rung) <= trade.size
    /\ placed > 0 <=> acked > 0
    /\ placed <= rung - 1
Swapping ==
  /\ pc \in {"quote", "swap", "settle"} => acked = 0 /\ committed = concealed
  /\ pc = "settle" => attempt = 0
Ended == pc = "done" => committed <= trade.size + concealed

Money == Fresh /\ HasRungs /\ Laddering /\ Swapping /\ Ended /\ OutcomeTold
Sound == TypeOK /\ Money

\* A trade handed to execute() has a size; none has none.
LEMMA TradeTyped ==
  ASSUME TypeOK
  PROVE  IsTrade(trade) /\ (trade \in Trades => trade.size > 0)
BY SwapCallAssumption DEF TypeOK, IsTrade, NoTrade

LEMMA AmountIs ==
  ASSUME NEW i \in 1 .. trade.rungs
  PROVE  AmountOf(i) = Amounts(trade)[i]
BY DEF AmountOf, Amounts

LEMMA SoundInit == Init => Sound
<1> SUFFICES ASSUME Init PROVE Sound
  OBVIOUS
<1>1. TypeOK
  BY SwapCallAssumption DEF Init, TypeOK, NoTrade
<1>2. Money
  BY DEF Init, Money, Fresh, HasRungs, Laddering, Swapping, Ended, OutcomeTold
<1> QED
  BY <1>1, <1>2 DEF Sound

\* A new trade begins with nothing at stake.
LEMMA SoundBegin ==
  ASSUME Sound, NEW t \in Trades, Begin(t)
  PROVE  Sound'
<1> USE DEF Sound
<1>1. t.rungs \in Nat /\ t.size \in Nat
  BY SwapCallAssumption
<1>2. TypeOK'
  <2>1. calls' \in 0 .. Ids - 1
    <3>1. calls + 1 \in Nat /\ Ids \in Nat \ {0}
      BY SwapCallAssumption DEF TypeOK
    <3>2. (calls + 1) % Ids \in 0 .. Ids - 1
      BY <3>1
    <3> QED
      BY <3>2 DEF Begin
  <2>2. pc' \in {"list", "quote", "done"} /\ result' \in {"none", "dry_run"}
    BY DEF Begin, Return
  <2> QED
    BY <1>1, <2>1, <2>2, SwapCallAssumption DEF TypeOK, Begin
<1>3. Money'
  BY <1>1 DEF Money, Fresh, HasRungs, Laddering, Swapping, Ended, OutcomeTold, Begin, Return
<1> QED
  BY <1>2, <1>3

\* Cancelling puts nothing at stake, and what it leaves is within the size.
LEMMA SoundCancel ==
  ASSUME Sound, Replacing, ListOrders \/ \E o \in todo : DeleteOrder(o)
  PROVE  Sound'
<1> USE DEF Sound
<1>1. UNCHANGED <<dry, calls, trade, rung, placed, attempt, result, committed, acked, concealed>>
  BY DEF ListOrders, DeleteOrder, control, stakes
<1>2. pc \in {"list", "delete"} /\ pc' \in {"delete", "place"}
  BY DEF ListOrders, DeleteOrder
<1>3. TypeOK'
  <2>1. todo' \subseteq orders \cup todo /\ orders' \subseteq orders /\ leaked' \subseteq orders'
    BY DEF ListOrders, DeleteOrder, StillToDelete, Replacing
  <2> QED
    BY <1>1, <1>2, <2>1 DEF TypeOK
<1>4. IsTrade(trade) /\ trade.rungs > 0
  BY <1>2, TradeTyped DEF Money, HasRungs
<1>5. Rest(trade, 1) <= trade.size /\ Rest(trade, 1) \in Nat
  BY <1>4, LadderWithin, RestType
<1>6. rung' = 1 /\ placed' = 0 /\ committed' = 0 /\ acked' = 0 /\ concealed' = 0
  BY <1>1, <1>2 DEF Money, Fresh
<1>7. Rest(trade, rung)' = Rest(trade, 1)
  BY <1>1, <1>6
<1>8. Laddering'
  BY <1>1, <1>5, <1>6, <1>7 DEF Laddering
<1>9. Fresh' /\ HasRungs' /\ Swapping' /\ Ended' /\ OutcomeTold'
  BY <1>1, <1>2, <1>4, <1>6 DEF Fresh, HasRungs, Swapping, Ended, OutcomeTold
<1> QED
  BY <1>3, <1>8, <1>9 DEF Money

\* A rung takes its amount from the rest, whatever the CLI says of it.
LEMMA SoundPlace ==
  ASSUME Sound, Replacing, PlaceRung
  PROVE  Sound'
<1> USE DEF Sound
<1>1. /\ UNCHANGED <<dry, calls, trade, pc, todo, attempt, result, leaked>>
      /\ pc = "place" /\ rung \in 1 .. trade.rungs /\ rung' = rung + 1
  BY DEF PlaceRung, control, TypeOK
<1>2. IsTrade(trade)
  BY TradeTyped
<1> DEFINE a == AmountOf(rung)
<1>3. a \in Nat /\ Rest(trade, rung) = a + Rest(trade, rung + 1)
      /\ Rest(trade, rung + 1) \in Nat
  <2>1. a = Amounts(trade)[rung]
    BY <1>1, AmountIs
  <2>2. Amounts(trade)[rung] \in Nat
    BY <1>1, <1>2, AmountType
  <2>3. Rest(trade, rung) = Amounts(trade)[rung] + Rest(trade, rung + 1)
    BY <1>1, <1>2, RestStep
  <2>4. rung + 1 \in Nat \ {0}
    BY <1>1
  <2>5. Rest(trade, rung + 1) \in Nat
    BY <1>2, <2>4, RestType
  <2> QED
    BY <2>1, <2>2, <2>3, <2>5
<1>4. \/ UNCHANGED <<placed, orders, committed, acked, concealed>>
      \/ /\ a >= DustUsd
         /\ orders' \in {orders, orders \cup {<<calls, rung>>}}
         /\ \E taken \in BOOLEAN, said \in BOOLEAN :
              /\ said => taken
              /\ committed' = committed + Points(taken, a)
              /\ acked' = acked + Points(said, a)
              /\ concealed' = concealed + Points(taken /\ ~said, a)
              /\ placed' = placed + Points(said, 1)
  <2>1. CASE Dust(rung)
    BY <2>1 DEF PlaceRung, stakes
  <2>2. CASE ~Dust(rung)
    <3>1. a >= DustUsd
      BY <1>3, <2>2 DEF Dust, DustUsd
    <3>2. PICK taken \in BOOLEAN, said \in BOOLEAN :
              /\ said => taken
              /\ orders' = IF taken THEN orders \cup {<<calls, rung>>} ELSE orders
              /\ committed' = committed + Points(taken, AmountOf(rung))
              /\ acked' = acked + Points(said, AmountOf(rung))
              /\ concealed' = concealed + Points(taken /\ ~said, AmountOf(rung))
              /\ placed' = placed + Points(said, 1)
      BY <2>2 DEF PlaceRung
    <3>3. orders' \in {orders, orders \cup {<<calls, rung>>}}
      BY <3>2
    <3> QED
      BY <3>1, <3>2, <3>3
  <2> QED
    BY <2>1, <2>2
<1> HIDE DEF a
<1>5. /\ committed \in Nat /\ acked \in Nat /\ concealed \in Nat /\ placed \in Nat
      /\ trade.rungs \in Nat
  BY <1>2 DEF TypeOK, IsTrade
<1>6. /\ committed = acked + concealed /\ committed + Rest(trade, rung) <= trade.size
      /\ placed > 0 <=> acked > 0
      /\ placed <= rung - 1
  BY <1>1 DEF Money, Laddering
<1>7. /\ committed' \in Nat /\ acked' \in Nat /\ concealed' \in Nat
      /\ placed' \in Nat /\ placed' <= rung
      /\ committed' = acked' + concealed' /\ committed' <= committed + a
      /\ placed' > 0 <=> acked' > 0
  BY <1>1, <1>3, <1>4, <1>5, <1>6 DEF Points, DustUsd
<1>8. Laddering'
  <2>1. Rest(trade, rung)' = Rest(trade, rung + 1)
    BY <1>1
  <2>2. trade.size \in Nat
    BY <1>2 DEF IsTrade
  <2>3. committed' + Rest(trade, rung + 1) <= trade.size
    <3> DEFINE left == Rest(trade, rung + 1)
               whole == Rest(trade, rung)
               now == committed'
    <3>1. now \in Nat /\ left \in Nat /\ now <= committed + a /\ whole = a + left
          /\ committed + whole <= trade.size
      BY <1>3, <1>6, <1>7
    <3> HIDE DEF left, whole, now
    <3>2. now + left <= trade.size
      BY <1>3, <1>5, <2>2, <3>1
    <3> QED
      BY <3>2 DEF left, now
  <2> QED
    BY <1>1, <1>7, <2>1, <2>3 DEF Laddering
<1>9. TypeOK'
  <2>1. <<calls, rung>> \in (0 .. Ids - 1) \X Nat
    BY <1>1 DEF TypeOK
  <2>2. orders' \in SUBSET ((0 .. Ids - 1) \X Nat) /\ leaked' \subseteq orders'
    BY <1>1, <1>4, <2>1 DEF TypeOK
  <2>3. rung' \in 1 .. trade'.rungs + 1 /\ placed' \in 0 .. trade'.rungs
    BY <1>1, <1>5, <1>7
  <2> QED
    BY <1>1, <1>7, <2>2, <2>3 DEF TypeOK
<1>10. Fresh' /\ HasRungs' /\ Swapping' /\ Ended' /\ OutcomeTold'
  BY <1>1 DEF Money, Fresh, HasRungs, Swapping, Ended, OutcomeTold
<1> QED
  BY <1>8, <1>9, <1>10 DEF Money

\* A ladder of which nothing was acknowledged is followed by a swap, another
\* one is what the status says.
LEMMA SoundEnd ==
  ASSUME Sound, Replacing, OnPaper, EndLadder
  PROVE  Sound'
<1> USE DEF Sound
<1>1. /\ UNCHANGED <<dry, calls, trade, todo, rung, placed, attempt, orders, committed, acked, concealed, leaked>>
      /\ pc = "place"
      /\ \/ PaperLadder /\ Return("dry_run")
         \/ NonePlaced /\ pc' = "quote" /\ result' = result
         \/ ~PaperLadder /\ ~NonePlaced /\ Return("placed")
  BY DEF EndLadder, control, ladder, stakes
<1>2. IsTrade(trade) /\ rung \in Nat \ {0}
  BY TradeTyped DEF TypeOK, IsTrade
<1>3. Rest(trade, rung) \in Nat
  BY <1>2, RestType
<1>4. TypeOK'
  BY <1>1 DEF TypeOK, Return
<1>5. /\ committed = acked + concealed /\ committed <= trade.size
      /\ placed > 0 <=> acked > 0
      /\ committed \in Nat /\ acked \in Nat /\ concealed \in Nat /\ placed \in Nat
      /\ trade.size \in Nat
  <2>1. committed + Rest(trade, rung) <= trade.size /\ committed = acked + concealed
        /\ (placed > 0 <=> acked > 0)
    BY <1>1 DEF Money, Laddering
  <2>2. committed \in Nat /\ acked \in Nat /\ concealed \in Nat /\ placed \in Nat
        /\ trade.size \in Nat
    BY <1>2 DEF TypeOK, IsTrade
  <2> QED
    BY <1>3, <2>1, <2>2
<1>6. Money'
  <2>1. CASE PaperLadder /\ Return("dry_run")
    <3>1. acked = 0
      BY <1>5, <2>1 DEF OnPaper, PaperLadder
    <3> QED
      BY <1>1, <1>5, <2>1, <3>1 DEF Return, Money, Fresh, HasRungs, Laddering, Swapping, Ended, OutcomeTold
  <2>2. CASE NonePlaced /\ pc' = "quote" /\ result' = result
    BY <1>1, <1>5, <2>2 DEF NonePlaced, Money, Fresh, HasRungs, Laddering, Swapping, Ended, OutcomeTold
  <2>3. CASE ~PaperLadder /\ ~NonePlaced /\ Return("placed")
    BY <1>1, <1>5, <2>3 DEF NonePlaced, Return, Money, Fresh, HasRungs, Laddering, Swapping, Ended, OutcomeTold
  <2> QED
    BY <1>1, <2>1, <2>2, <2>3
<1> QED
  BY <1>4, <1>6

\* The quote and the pause before the second try put nothing at stake.
LEMMA SoundPause ==
  ASSUME Sound, AskQuote \/ Retry
  PROVE  Sound'
<1> USE DEF Sound
<1>1. /\ UNCHANGED <<dry, calls, trade, todo, rung, placed, orders, committed, acked, concealed, leaked>>
      /\ pc \in {"quote", "settle"}
      /\ \/ pc' = "swap" /\ result' = result
         \/ pc' = "done" /\ result' = "skipped"
  BY DEF AskQuote, Retry, Return, control, ladder, stakes
<1>2. attempt' \in {0, 1}
  BY DEF AskQuote, Retry, NextAttempt, Money, Swapping, TypeOK
<1>3. TypeOK'
  BY <1>1, <1>2 DEF TypeOK
<1>4. acked = 0 /\ committed = concealed /\ trade.size \in Nat /\ concealed \in Nat
  BY <1>1, TradeTyped DEF Money, Swapping, TypeOK, IsTrade
<1>5. Money'
  BY <1>1, <1>4 DEF Money, Fresh, HasRungs, Laddering, Swapping, Ended, OutcomeTold
<1> QED
  BY <1>3, <1>5

\* A swap stakes the size once; where it is tried again, the first one was
\* concealed.
LEMMA SoundSwap ==
  ASSUME Sound, TrySwap, trade \in Trades
  PROVE  Sound'
<1> USE DEF Sound
<1>1. /\ UNCHANGED <<dry, calls, trade, todo, rung, placed, attempt, orders, leaked>>
      /\ pc = "swap"
  BY DEF TrySwap, control, ladder
<1>2. PICK says \in Answers, sent \in BOOLEAN :
       /\ says \in {"hash", "nohash"} => sent
       /\ committed' = committed + Points(sent, trade.size)
       /\ acked' = acked + Points(says \in {"hash", "nohash"}, trade.size)
       /\ concealed' = concealed + Points(sent /\ says = "approval", trade.size)
       /\ IF IsRetryable(says) /\ ~LastAttempt
          THEN pc' = "settle" /\ UNCHANGED result
          ELSE Return(StatusOf(says))
  BY DEF TrySwap
<1>3. acked = 0 /\ committed = concealed /\ trade.size \in Nat \ {0} /\ concealed \in Nat
  BY <1>1, TradeTyped DEF Money, Swapping, TypeOK, IsTrade
<1>4. /\ committed' \in Nat /\ acked' \in Nat /\ concealed' \in Nat
      /\ committed' <= trade.size + concealed'
      /\ acked' > 0 <=> says \in {"hash", "nohash"}
      /\ says = "approval" => acked' = 0 /\ committed' = concealed'
  BY <1>2, <1>3 DEF Points
<1>5. CASE pc' = "settle"
  <2>1. says = "approval" /\ attempt = 0 /\ result' = result
    BY <1>2, <1>5 DEF IsRetryable, LastAttempt, Return, TypeOK
  <2>2. TypeOK'
    BY <1>1, <1>4, <1>5, <2>1 DEF TypeOK
  <2>3. Money'
    BY <1>1, <1>4, <1>5, <2>1 DEF Money, Fresh, HasRungs, Laddering, Swapping, Ended, OutcomeTold
  <2> QED
    BY <2>2, <2>3
<1>6. CASE pc' # "settle"
  <2>1. pc' = "done" /\ result' = StatusOf(says)
    BY <1>2, <1>6 DEF Return
  <2>2. /\ result' \in {"executed", "failed", "raised"}
        /\ result' = "executed" <=> says \in {"hash", "nohash"}
    BY <2>1 DEF StatusOf
  <2>3. TypeOK'
    BY <1>1, <1>4, <2>1, <2>2 DEF TypeOK
  <2>4. Money'
    BY <1>1, <1>4, <2>1, <2>2 DEF Money, Fresh, HasRungs, Laddering, Swapping, Ended, OutcomeTold
  <2> QED
    BY <2>3, <2>4
<1> QED
  BY <1>5, <1>6

\* A fill changes what is open, not what is at stake.
LEMMA SoundFill ==
  ASSUME Sound, Replacing, (\E o \in orders : FillOrder(o)) \/ UNCHANGED vars
  PROVE  Sound'
<1>1. /\ UNCHANGED <<dry, pc, calls, trade, todo, rung, placed, attempt, result, committed, acked, concealed>>
      /\ orders' \subseteq orders /\ leaked' \subseteq orders'
  BY DEF FillOrder, vars, control, ladder, stakes, Replacing
<1>2. TypeOK'
  BY <1>1 DEF Sound, TypeOK
<1>3. Money'
  BY <1>1 DEF Sound, Money, Fresh, HasRungs, Laddering, Swapping, Ended, OutcomeTold, Rest
<1> QED
  BY <1>2, <1>3 DEF Sound

\* A trade is under way whenever one is.
UnderWay == pc # "idle" => trade \in Trades

LEMMA UnderWayStep == UnderWay /\ [Next]_vars => UnderWay'
BY DEF UnderWay, Next, Step, vars, Begin, ListOrders, DeleteOrder, PlaceRung,
       EndLadder, AskQuote, TrySwap, Retry, FillOrder, Return, control

THEOREM SoundInvariance == Spec => [](Sound /\ UnderWay)
<1>1. Init => UnderWay
  BY DEF Init, UnderWay
<1>2. Sound /\ UnderWay /\ IInv /\ [Next]_vars => Sound'
  <2> SUFFICES ASSUME Sound, UnderWay, IInv, [Next]_vars PROVE Sound'
    OBVIOUS
  <2>1. Replacing /\ OnPaper
    BY DEF IInv
  <2>2. CASE \E t \in Trades : Begin(t)
    BY <2>2, SoundBegin
  <2>3. CASE ListOrders \/ (\E o \in todo : DeleteOrder(o))
    BY <2>1, <2>3, SoundCancel
  <2>4. CASE PlaceRung
    BY <2>1, <2>4, SoundPlace
  <2>5. CASE EndLadder
    BY <2>1, <2>5, SoundEnd
  <2>6. CASE AskQuote \/ Retry
    BY <2>6, SoundPause
  <2>7. CASE TrySwap
    <3>1. trade \in Trades
      BY <2>7 DEF UnderWay, TrySwap
    <3> QED
      BY <2>7, <3>1, SoundSwap
  <2>8. CASE (\E o \in orders : FillOrder(o)) \/ UNCHANGED vars
    BY <2>1, <2>8, SoundFill
  <2> QED
    BY <2>2, <2>3, <2>4, <2>5, <2>6, <2>7, <2>8 DEF Next, Step
<1> QED
  BY SoundInit, UnderWayStep, CallInvariance, <1>1, <1>2, PTL DEF Spec

THEOREM CallTyped == Spec => []TypeOK
<1>1. Sound => TypeOK
  BY DEF Sound
<1> QED
  BY SoundInvariance, <1>1, PTL

\* No trade puts more at stake than its size and what the CLI concealed.
THEOREM StakesSafe == Spec => []NoDoubleCommitment
<1> SUFFICES Sound => NoDoubleCommitment
  BY SoundInvariance, PTL
<1> SUFFICES ASSUME Sound PROVE NoDoubleCommitment
  OBVIOUS
<1>1. IsTrade(trade) /\ rung \in Nat \ {0} /\ committed \in Nat /\ concealed \in Nat
      /\ trade.size \in Nat
  BY TradeTyped DEF Sound, TypeOK, IsTrade
<1>2. Rest(trade, rung) \in Nat
  BY <1>1, RestType
<1>3. Fresh /\ Laddering /\ Swapping /\ Ended
  BY DEF Sound, Money
<1>4. pc \in {"idle", "list", "delete", "place", "quote", "swap", "settle", "done"}
  BY DEF Sound, TypeOK
<1> QED
  BY <1>1, <1>2, <1>3, <1>4 DEF NoDoubleCommitment, Fresh, Laddering, Swapping, Ended

\* The status tells what the CLI acknowledged.
THEOREM StatusSafe == Spec => []OutcomeTold
<1>1. Sound => OutcomeTold
  BY DEF Sound, Money
<1> QED
  BY SoundInvariance, <1>1, PTL
-----------------------------------------------------------------------------
(* A call as one step. *)

(***************************************************************************)
(* How often the size may be at stake: once after a ladder none of which   *)
(* was acknowledged, and once for each attempt that was made.              *)
(***************************************************************************)
Attempts ==
  /\ pc \in {"list", "delete", "place", "quote"} => attempt = 0
  /\ pc \in {"quote", "swap"} =>
       concealed <= Points(trade.rungs > 0, trade.size) + Points(attempt = 1, trade.size)
  /\ pc = "settle" => concealed <= Points(trade.rungs > 0, trade.size) + trade.size

\* The tries of a trade, as a sum.
LEMMA TriesAre ==
  ASSUME NEW t, IsTrade(t)
  PROVE  Asked!Tries(t) * t.size = Points(t.rungs > 0, t.size) + t.size + t.size
<1> DEFINE s == t.size
<1>1. s \in Nat
  BY DEF IsTrade
<1> HIDE DEF s
<1>2. 3 * s = s + s + s /\ 2 * s = 0 + s + s
  BY <1>1
<1> QED
  BY <1>2 DEF Asked!Tries, Points, s

\* The ladder hides its size at the most, and so does each attempt.
LEMMA AttemptsStep ==
  ASSUME Sound, Replacing, OnPaper, UnderWay, Attempts, [Next]_vars
  PROVE  Attempts'
<1> USE DEF Sound
<1>1. IsTrade(trade) /\ trade.size \in Nat /\ trade.rungs \in Nat
      /\ committed \in Nat /\ acked \in Nat /\ concealed \in Nat
  BY TradeTyped DEF TypeOK, IsTrade
<1>2. CASE \E t \in Trades : Begin(t)
  <2>1. PICK t \in Trades : Begin(t)
    BY <1>2
  <2>2. /\ pc' \in {"list", "quote", "done"} /\ attempt' = 0 /\ concealed' = 0
        /\ trade' = t
    BY <2>1 DEF Begin, Return
  <2>3. t.size \in Nat
    BY SwapCallAssumption
  <2> QED
    BY <2>2, <2>3 DEF Attempts, Points
<1>3. CASE ListOrders \/ (\E o \in todo : DeleteOrder(o))
  <2>1. /\ pc \in {"list", "delete"} /\ pc' \in {"delete", "place"}
        /\ attempt' = attempt
    BY <1>3 DEF ListOrders, DeleteOrder
  <2> QED
    BY <2>1 DEF Attempts
<1>4. CASE PlaceRung
  <2>1. pc = "place" /\ pc' = "place" /\ attempt' = attempt
    BY <1>4 DEF PlaceRung
  <2> QED
    BY <2>1 DEF Attempts
<1>5. CASE EndLadder
  <2>1. /\ pc = "place" /\ pc' \in {"quote", "done"}
        /\ UNCHANGED <<trade, attempt, concealed>>
    BY <1>5 DEF EndLadder, Return, control, stakes
  <2>2. attempt = 0 /\ trade.rungs > 0 /\ committed = acked + concealed
        /\ committed + Rest(trade, rung) <= trade.size
    BY <2>1 DEF Attempts, Money, HasRungs, Laddering
  <2>3. Rest(trade, rung) \in Nat
    <3>1. rung \in Nat \ {0}
      BY <1>1 DEF TypeOK
    <3> QED
      BY <1>1, <3>1, RestType
  <2>4. concealed <= trade.size
    BY <1>1, <2>2, <2>3
  <2> QED
    BY <1>1, <2>1, <2>2, <2>4 DEF Attempts, Points
<1>6. CASE AskQuote
  <2>1. /\ pc = "quote" /\ pc' \in {"swap", "done"}
        /\ UNCHANGED <<trade, attempt, concealed>>
    BY <1>6 DEF AskQuote, Return, control, stakes
  <2> QED
    BY <2>1 DEF Attempts
<1>7. CASE TrySwap
  <2>1. PICK says \in Answers, sent \in BOOLEAN :
         /\ concealed' = concealed + Points(sent /\ says = "approval", trade.size)
         /\ IF IsRetryable(says) /\ ~LastAttempt
            THEN pc' = "settle" /\ UNCHANGED result
            ELSE Return(StatusOf(says))
    BY <1>7 DEF TrySwap
  <2>2. pc = "swap" /\ UNCHANGED <<trade, attempt>>
    BY <1>7 DEF TrySwap, control
  <2>3. CASE pc' = "done"
    BY <2>3 DEF Attempts
  <2>4. CASE pc' = "settle"
    <3>1. attempt = 0
      BY <2>1, <2>4 DEF LastAttempt, Return, TypeOK
    <3>2. concealed <= Points(trade.rungs > 0, trade.size)
      BY <1>1, <2>2, <3>1 DEF Attempts, Points
    <3>3. concealed' <= concealed + trade.size
      BY <1>1, <2>1 DEF Points
    <3>4. concealed' \in Nat
      BY <1>1, <2>1 DEF Points
    <3>5. concealed' <= Points(trade.rungs > 0, trade.size) + trade.size
      BY <1>1, <3>2, <3>3, <3>4 DEF Points
    <3> QED
      BY <2>2, <2>4, <3>5 DEF Attempts
  <2> QED
    BY <2>1, <2>3, <2>4 DEF Return
<1>8. CASE Retry
  <2>1. /\ pc = "settle" /\ pc' = "swap" /\ attempt' = attempt + 1
        /\ UNCHANGED <<trade, concealed>>
    BY <1>8 DEF Retry, NextAttempt, control, stakes
  <2>2. attempt' = 1
    BY <2>1 DEF Money, Swapping
  <2> QED
    BY <1>1, <2>1, <2>2 DEF Attempts, Points
<1>9. CASE (\E o \in orders : FillOrder(o)) \/ UNCHANGED vars
  <2>1. UNCHANGED <<pc, trade, attempt, concealed>>
    BY <1>9 DEF FillOrder, vars, control, stakes
  <2> QED
    BY <2>1 DEF Attempts
<1> QED
  BY <1>2, <1>3, <1>4, <1>5, <1>6, <1>7, <1>8, <1>9 DEF Next, Step

\* An answer: what the last call of a trade leaves behind is the one step of
\* the abstract trade.
LEMMA AnswerIs ==
  ASSUME pc \notin {"idle", "done"}, pc' = "done", UNCHANGED <<dry, trade>>,
         result' \in Asked!Status, committed' \in Nat, acked' \in Nat, concealed' \in Nat,
         Asked!Fits(trade, dry, result', committed', acked', concealed'),
         committed' <= Asked!Tries(trade) * trade.size
  PROVE  Asked!Answer
BY DEF Asked!Answer

\* The ladder that ends a trade.
LEMMA AnswerOfLadder ==
  ASSUME Sound, OnPaper, EndLadder, pc' = "done"
  PROVE  Asked!Answer
<1> USE DEF Sound
<1>1. /\ UNCHANGED <<dry, trade, committed, acked, concealed, placed>>
      /\ pc = "place"
      /\ \/ dry /\ result' = "dry_run"
         \/ ~dry /\ placed # 0 /\ result' = "placed"
  BY DEF EndLadder, PaperLadder, NonePlaced, Return, control, ladder, stakes
<1>2. IsTrade(trade) /\ trade.size \in Nat /\ trade.rungs \in Nat
      /\ committed \in Nat /\ acked \in Nat /\ concealed \in Nat /\ placed \in Nat
  BY TradeTyped DEF TypeOK, IsTrade
<1>3. committed = acked + concealed /\ committed <= trade.size
      /\ (placed > 0 <=> acked > 0) /\ trade.rungs > 0
  <2>1. committed + Rest(trade, rung) <= trade.size /\ committed = acked + concealed
        /\ (placed > 0 <=> acked > 0) /\ trade.rungs > 0
    BY <1>1 DEF Money, Laddering, HasRungs
  <2>2. Rest(trade, rung) \in Nat
    <3>1. rung \in Nat \ {0}
      BY <1>2 DEF TypeOK
    <3> QED
      BY <1>2, <3>1, RestType
  <2> QED
    BY <1>2, <2>1, <2>2
<1>4. Asked!Fits(trade, dry, result', committed', acked', concealed')
  <2>1. CASE dry /\ result' = "dry_run"
    <3>1. committed = 0 /\ acked = 0 /\ concealed = 0
      BY <1>2, <1>3, <2>1 DEF OnPaper
    <3> QED
      BY <1>1, <2>1, <3>1 DEF Asked!Fits
  <2>2. CASE ~dry /\ placed # 0 /\ result' = "placed"
    BY <1>1, <1>2, <1>3, <2>2 DEF Asked!Fits
  <2> QED
    BY <1>1, <2>1, <2>2
<1>5. committed' <= Asked!Tries(trade) * trade.size
  BY <1>1, <1>2, <1>3, TriesAre DEF Points
<1>6. result' \in Asked!Status
  BY <1>1 DEF Asked!Status
<1> QED
  BY <1>1, <1>2, <1>4, <1>5, <1>6, AnswerIs

\* The quote that ends one.
LEMMA AnswerOfQuote ==
  ASSUME Sound, OnPaper, Attempts, AskQuote, pc' = "done"
  PROVE  Asked!Answer
<1> USE DEF Sound
<1>1. /\ UNCHANGED <<dry, trade, committed, acked, concealed>>
      /\ pc = "quote" /\ result' = "skipped"
  BY DEF AskQuote, Return, control, stakes
<1>2. IsTrade(trade) /\ trade.size \in Nat /\ trade.rungs \in Nat
      /\ committed \in Nat /\ acked \in Nat /\ concealed \in Nat
  BY TradeTyped DEF TypeOK, IsTrade
<1>3. acked = 0 /\ committed = concealed /\ ~dry /\ attempt = 0
      /\ concealed <= Points(trade.rungs > 0, trade.size) + Points(attempt = 1, trade.size)
  BY <1>1 DEF Money, Swapping, OnPaper, Attempts
<1>4. Asked!Fits(trade, dry, result', committed', acked', concealed')
  BY <1>1, <1>3 DEF Asked!Fits
<1>5. committed' <= Asked!Tries(trade) * trade.size
  BY <1>1, <1>2, <1>3, TriesAre DEF Points
<1>6. result' \in Asked!Status
  BY <1>1 DEF Asked!Status
<1> QED
  BY <1>1, <1>2, <1>4, <1>5, <1>6, AnswerIs

\* The swap that ends one.
LEMMA AnswerOfSwap ==
  ASSUME Sound, OnPaper, UnderWay, Attempts, TrySwap, pc' = "done"
  PROVE  Asked!Answer
<1> USE DEF Sound
<1>1. PICK says \in Answers, sent \in BOOLEAN :
       /\ says \in {"hash", "nohash"} => sent
       /\ committed' = committed + Points(sent, trade.size)
       /\ acked' = acked + Points(says \in {"hash", "nohash"}, trade.size)
       /\ concealed' = concealed + Points(sent /\ says = "approval", trade.size)
       /\ result' = StatusOf(says)
  BY DEF TrySwap, Return
<1>2. UNCHANGED <<dry, trade>> /\ pc = "swap"
  BY DEF TrySwap, control
<1>3. IsTrade(trade) /\ trade.size \in Nat /\ trade.rungs \in Nat
      /\ committed \in Nat /\ acked \in Nat /\ concealed \in Nat
  BY TradeTyped DEF TypeOK, IsTrade
<1>4. acked = 0 /\ committed = concealed /\ ~dry /\ attempt \in {0, 1}
      /\ concealed <= Points(trade.rungs > 0, trade.size) + Points(attempt = 1, trade.size)
  BY <1>2 DEF Money, Swapping, OnPaper, Attempts, TypeOK
<1>5. committed' \in Nat /\ acked' \in Nat /\ concealed' \in Nat
  BY <1>1, <1>3 DEF Points
<1>6. Asked!Fits(trade, dry, result', committed', acked', concealed')
  <2>1. CASE says \in {"hash", "nohash"}
    <3>1. result' = "executed" /\ says # "approval" /\ sent
      BY <1>1, <2>1 DEF StatusOf
    <3> QED
      BY <1>1, <1>3, <1>4, <2>1, <3>1 DEF Asked!Fits, Points
  <2>2. CASE says = "approval"
    <3>1. result' = "failed" /\ says \notin {"hash", "nohash"}
      BY <1>1, <2>2 DEF StatusOf
    <3> QED
      BY <1>1, <1>3, <1>4, <2>2, <3>1 DEF Asked!Fits, Points
  <2>3. CASE says \notin {"hash", "nohash", "approval"}
    <3>1. result' \in {"failed", "raised"}
      BY <1>1, <2>3 DEF StatusOf
    <3> QED
      BY <1>1, <1>3, <1>4, <2>3, <3>1 DEF Asked!Fits, Points
  <2> QED
    BY <2>1, <2>2, <2>3
<1>7. committed' <= Asked!Tries(trade) * trade.size
  <2>1. committed' <= committed + trade.size
    BY <1>1, <1>3 DEF Points
  <2>2. committed <= Points(trade.rungs > 0, trade.size) + trade.size
    BY <1>3, <1>4 DEF Points
  <2> QED
    BY <1>3, <1>5, <2>1, <2>2, TriesAre DEF Points
<1>8. result' \in Asked!Status
  BY <1>1 DEF StatusOf, Asked!Status
<1> QED
  BY <1>2, <1>5, <1>6, <1>7, <1>8, AnswerIs

\* A step that does not end a trade is none of the abstract one.
LEMMA UnderWayStays ==
  ASSUME UNCHANGED <<dry, trade>>, pc \notin {"idle", "done"}, pc' \notin {"idle", "done"}
  PROVE  UNCHANGED Asked!vars
BY DEF Asked!vars

\* Every call of the CLI is a stutter of the abstract trade or its answer.
LEMMA OneStep ==
  ASSUME Sound, Replacing, OnPaper, UnderWay, Attempts, [Next]_vars
  PROVE  [Asked!Next]_Asked!vars
<1>1. CASE \E t \in Trades : Begin(t)
  <2>1. PICK t \in Trades : Begin(t)
    BY <1>1
  <2>2. /\ pc \in {"idle", "done"} /\ trade' = t /\ dry' = dry
        /\ committed' = 0 /\ acked' = 0 /\ concealed' = 0
        /\ \/ pc' \in {"list", "quote"}
           \/ pc' = "done" /\ result' = "dry_run" /\ dry
    BY <2>1 DEF Begin, Return
  <2>3. pc = "done" => result # "pending"
    BY DEF Sound, TypeOK
  <2>4. Asked!Ask(t)
    BY <2>2, <2>3 DEF Asked!Ask, Asked!money
  <2> QED
    BY <2>4 DEF Asked!Next
<1>2. CASE ListOrders \/ (\E o \in todo : DeleteOrder(o)) \/ PlaceRung \/ Retry
  <2>1. /\ UNCHANGED <<dry, trade>>
        /\ pc \notin {"idle", "done"} /\ pc' \notin {"idle", "done"}
    BY <1>2 DEF ListOrders, DeleteOrder, PlaceRung, Retry, control
  <2> QED
    BY <2>1, UnderWayStays
<1>3. CASE EndLadder \/ AskQuote \/ TrySwap
  <2>1. /\ UNCHANGED <<dry, trade>>
        /\ pc \notin {"idle", "done"} /\ pc' # "idle"
    BY <1>3 DEF EndLadder, AskQuote, TrySwap, Return, control
  <2>2. CASE pc' = "done"
    BY <1>3, <2>2, AnswerOfLadder, AnswerOfQuote, AnswerOfSwap DEF Asked!Next
  <2>3. CASE pc' # "done"
    BY <2>1, <2>3, UnderWayStays
  <2> QED
    BY <2>2, <2>3
<1>4. CASE (\E o \in orders : FillOrder(o)) \/ UNCHANGED vars
  <2>1. UNCHANGED <<dry, trade, pc, result, committed, acked, concealed>>
    BY <1>4 DEF FillOrder, vars, control, stakes
  <2> QED
    BY <2>1 DEF Asked!vars
<1> QED
  BY <1>1, <1>2, <1>3, <1>4 DEF Next, Step

\* execute() may take the whole of a call, with its ladder, quote, swap and
\* second try, for one step: AtomicTrade (execution.py:166-208).
THEOREM CallImplementsTrade == Spec => CallIsOneStep
<1>1. Init => Attempts /\ Asked!Init
  BY DEF Init, Attempts, Asked!Init, Asked!money
<1>2. Sound /\ UnderWay /\ IInv /\ Attempts /\ [Next]_vars => Attempts'
  BY AttemptsStep DEF IInv
<1>3. Sound /\ UnderWay /\ IInv /\ Attempts /\ [Next]_vars => [Asked!Next]_Asked!vars
  BY OneStep DEF IInv
<1>4. Init /\ [][Next]_vars => Asked!Init /\ [][Asked!Next]_Asked!vars
  BY SoundInvariance, CallInvariance, <1>1, <1>2, <1>3, PTL DEF Spec
<1> QED
  BY <1>4 DEF Spec, CallIsOneStep, Asked!Spec

(***************************************************************************)
(* The bridge to Exposure and AgentLoop, which have a swap broadcast up to *)
(* twice, where executed => broadcast > 0 (TakeSwap; SendSwap and          *)
(* SendAgain): in live mode these are exactly the answers a swap may get   *)
(* when the CLI may conceal its first attempt (twak.py:662-716).           *)
(***************************************************************************)
THEOREM RepeatsAsTaken ==
  ASSUME NEW t \in Trades, t.rungs = 0, NEW executed \in BOOLEAN, NEW broadcast \in 0 .. 2
  PROVE  (executed => broadcast > 0) <=>
           \E s \in Asked!Status, ack \in Nat, con \in {0, t.size} :
             /\ Asked!Fits(t, FALSE, s, broadcast * t.size, ack, con)
             /\ executed <=> s = "executed"
<1>0. t.size \in Nat \ {0}
  BY SwapCallAssumption
<1> DEFINE size == t.size
           at == broadcast * size
<1>1. /\ size \in Nat \ {0} /\ at \in Nat /\ broadcast \in {0, 1, 2}
      /\ broadcast = 0 => at = 0
      /\ broadcast = 1 => at = size /\ at = 0 + size
      /\ broadcast = 2 => at = size + size
  <2>1. size \in Nat \ {0} /\ broadcast \in {0, 1, 2}
    BY <1>0
  <2> HIDE DEF size
  <2> QED
    BY <2>1
<1>2. ASSUME NEW s \in Asked!Status, NEW ack \in Nat, NEW con \in {0, t.size},
             Asked!Fits(t, FALSE, s, at, ack, con), executed <=> s = "executed", executed
      PROVE  broadcast > 0
  <2>1. at = con + size /\ con \in Nat
    BY <1>1, <1>2 DEF Asked!Fits
  <2> HIDE DEF at, size
  <2> QED
    BY <1>1, <2>1
<1>3. ASSUME executed => broadcast > 0
      PROVE  \E s \in Asked!Status, ack \in Nat, con \in {0, t.size} :
               Asked!Fits(t, FALSE, s, at, ack, con) /\ (executed <=> s = "executed")
  <2>1. PICK con \in {0, size} :
          IF executed THEN at = con + size ELSE at \in {con, con + size}
    <3> HIDE DEF at, size
    <3> QED
      BY <1>1, <1>3
  <2>2. CASE executed
    <3>1. at = con + size /\ size \in Nat
      BY <1>1, <2>1, <2>2
    <3> HIDE DEF at
    <3>2. Asked!Fits(t, FALSE, "executed", at, size, con)
      BY <3>1 DEF Asked!Fits
    <3>3. "executed" \in Asked!Status
      BY DEF Asked!Status
    <3> QED
      BY <2>1, <2>2, <3>1, <3>2, <3>3
  <2>3. CASE ~executed
    <3>1. at \in {con, con + size}
      BY <2>1, <2>3
    <3> HIDE DEF at
    <3>2. Asked!Fits(t, FALSE, "failed", at, 0, con)
      BY <3>1 DEF Asked!Fits
    <3>3. "failed" \in Asked!Status /\ "failed" # "executed" /\ 0 \in Nat
      BY DEF Asked!Status
    <3> QED
      BY <2>1, <2>3, <3>2, <3>3
  <2> QED
    BY <2>2, <2>3
<1> QED
  BY <1>2, <1>3
=============================================================================
