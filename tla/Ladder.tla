------------------------------ MODULE Ladder -------------------------------
(***************************************************************************)
(* The price ladder (ladder.py) and the choice between a ladder and a      *)
(* market swap (regime.py): functions of one token's reading.              *)
(*                                                                         *)
(* Prices and amounts are in cents, percentages in basis points.  Weights  *)
(* are kept as the integers compute_weights normalises; the sigmoid and    *)
(* the logarithmic distribution, which no caller uses, are left out.       *)
(***************************************************************************)
EXTENDS Integers, Sequences, SequencesExt, FiniteSetsExt, Functions

CONSTANTS
  LadderEnabled,     \* cfg.ladder_enabled
  LadderVolBps       \* cfg.ladder_volatility_threshold_pct

ASSUME LadderAssumption == LadderEnabled \in BOOLEAN /\ LadderVolBps \in Nat

Distribution == {"flat", "linear", "reverse_linear", "fibonacci"}

fib[n \in Nat] == IF n <= 2 THEN 1 ELSE fib[n - 1] + fib[n - 2]

\* compute_weights, before the division by their sum.
Weights(distribution, n) ==
  [i \in 1 .. n |-> CASE distribution = "flat"           -> 1
                      [] distribution = "linear"         -> i
                      [] distribution = "reverse_linear" -> n + 1 - i
                      [] distribution = "fibonacci"      -> fib[i]]

Total(s) == SumFunction(s)

\* The amount of rung i of a ladder of that size.
RungSize(size, weights, i) == (size * weights[i]) \div Total(weights)

\* build_ladder: rungs nearest to the center first.  An argument out of range
\* raises; here there is then no ladder.
LadderArgs(spacing, n, size) == n >= 1 /\ spacing \in 1 .. 5000 /\ size > 0

BuildLadder(center, spacing, n, size, dir, distribution) ==
  IF ~LadderArgs(spacing, n, size) THEN <<>>
  ELSE LET weights == Weights(distribution, n) IN
       [i \in 1 .. n |->
          [price |-> (center * (IF dir = "buy" THEN 10000 - spacing * i
                                               ELSE 10000 + spacing * i)) \div 10000,
           size  |-> RungSize(size, weights, i),
           side  |-> dir]]

\* volatility_to_spacing: 0.5 to 5 percent for a volatility of 0 to 10.
Within(lo, x, hi) == Max({lo, Min({x, hi})})
VolatilityToSpacing(atr) == 50 + (Within(0, atr, 1000) * 450) \div 1000

-----------------------------------------------------------------------------
(* choose_execution_mode, on what a token's reading says of each signal.    *)

Absent == -1        \* a reading CMC did not give
Size(x) == IF x < 0 THEN -x ELSE x
Points(holds, n) == IF holds THEN n ELSE 0

\* A momentum breakout: MACD positive and above its signal line, and the
\* price more than one percent above the EMA.
ModeScore(f) ==
  LET vol == Size(f.change) IN
    Points(vol >= LadderVolBps, 2) - Points(2 * vol < LadderVolBps, 2)
  + Points(f.fear = "fear", 1) - Points(f.fear = "greed", 1)
  + Points(f.rsi # Absent /\ f.rsi < 30, 1)
  - Points(f.macd = "up" /\ f.trend = "above", 2)

ExecutionMode(f, dir) ==
  IF LadderEnabled /\ dir = "buy" /\ ModeScore(f) >= 2 THEN "ladder" ELSE "market"
=============================================================================
