---------------------------- MODULE GridBacktest ---------------------------
(***************************************************************************)
(* The grid Skill and its replay (track2/grid_skill.py, grid_backtest.py): *)
(* rungs below and above a center fill as the price passes them, and the   *)
(* grid is built anew when the price has drifted from the center.          *)
(*                                                                         *)
(* NAV begins at GridStart; a quantity is in units of 1/GridUnit of the    *)
(* token, and amounts are rounded down.                                    *)
(***************************************************************************)
EXTENDS Ladder

CONSTANTS
  GridPrices,        \* the prices there may be
  Atrs,              \* the volatilities a series of prices may have
  Fear,              \* the Fear & Greed value of the whole replay
  RungsPerSide       \* DEFAULT_RUNGS_PER_SIDE

ASSUME GridAssumption ==
  /\ GridPrices \subseteq Nat \ {0} /\ Atrs \subseteq Nat
  /\ Fear \in 0 .. 100 /\ RungsPerSide \in Nat \ {0}

GridStart == 10000
GridUnit == 10000
Fee(usd) == (usd * 30) \div 10000
LeastTrade == 10               \* one dollar
ThresholdBps == 200            \* REBALANCE_THRESHOLD_BPS

VARIABLES
  price,             \* the price replayed last
  center,            \* center_price of the plan
  rungs,             \* active_rungs
  gcash, gqty,       \* the GridSim
  spread, fees,
  rebuilt            \* rebalances: whether there was one

gridVars == <<price, center, rungs, gcash, gqty, spread, fees, rebuilt>>

\* Where rungs are many and far apart the last have no price above zero.
Rung == [price : Int, size : Nat, side : {"buy", "sell"}, filled : BOOLEAN]

\* Neither cash nor tokens are ever owed, and a grid has the rungs of both
\* sides; a later one has none where the size of its side is rounded to zero.
GridTypeOK ==
  /\ price \in GridPrices /\ center \in GridPrices
  /\ rungs \in Seq(Rung)
  /\ Len(rungs) \in {0, RungsPerSide, 2 * RungsPerSide}
  /\ ~rebuilt => Len(rungs) = 2 * RungsPerSide
  /\ gcash \in Nat /\ gqty \in Nat
  /\ spread \in Nat /\ fees \in Nat
  /\ rebuilt \in BOOLEAN

-----------------------------------------------------------------------------
(* build_grid. *)

\* The share of each side, in percent.
BuyShare == IF Fear < 25 THEN 65 ELSE IF Fear > 75 THEN 35 ELSE 50

\* The buy side of one two-sided ladder and the sell side of another.
BuildGrid(at, atr, usd) ==
  LET side(dir, share) == BuildLadder(at, VolatilityToSpacing(atr), RungsPerSide,
                                      (usd * share) \div 100, dir, "fibonacci")
      all == side("buy", BuyShare) \o side("sell", 100 - BuyShare)
  IN [i \in DOMAIN all |-> [price |-> all[i].price, size |-> all[i].size,
                            side |-> all[i].side, filled |-> FALSE]]

NeedsRebalance(c, p) == Size(p - c) * 10000 > ThresholdBps * c

-----------------------------------------------------------------------------
(* A price of run_grid_backtest. *)

Sim == [cash |-> gcash, qty |-> gqty, spread |-> spread, fees |-> fees, rungs |-> rungs]

\* A purchase takes what cash there is, a sale what tokens there are; both at
\* the price of the rung, and neither for less than a dollar.
Buy(s, i) ==
  LET usd == Min({s.rungs[i].size, s.cash})
  IN IF usd < LeastTrade THEN s
     ELSE [s EXCEPT !.cash = @ - usd,
                    !.qty = @ + ((usd - Fee(usd)) * GridUnit) \div s.rungs[i].price,
                    !.fees = @ + Fee(usd),
                    !.rungs[i].filled = TRUE]

Sold_Asked(s, rung) ==           \* fault: tokens it may not have
  (rung.size * GridUnit) \div rung.price
Sold(s, rung) == Min({(rung.size * GridUnit) \div rung.price, s.qty})

Harvest_Whole(q, rung) ==        \* fault: counted for the size of the rung
  (rung.size * (rung.price - center)) \div rung.price
Harvest(q, rung) == (q * (rung.price - center)) \div GridUnit

Sell(s, i) ==
  LET r == s.rungs[i].price
      q == Sold(s, s.rungs[i])
      usd == (q * r) \div GridUnit
  IN IF usd < LeastTrade THEN s
     ELSE [s EXCEPT !.cash = @ + usd - Fee(usd),
                    !.qty = @ - q,
                    !.fees = @ + Fee(usd),
                    !.spread = @ + Harvest(q, s.rungs[i]),
                    !.rungs[i].filled = TRUE]

Reached_Swapped(rung, p) ==      \* fault: the sides are taken for each other
  IF rung.side = "buy" THEN p >= rung.price ELSE p <= rung.price
Reached(rung, p) ==
  IF rung.side = "buy" THEN p <= rung.price ELSE p >= rung.price

Fill(s, i, p) ==
  IF s.rungs[i].filled \/ ~Reached(s.rungs[i], p) THEN s
  ELSE IF s.rungs[i].side = "buy" THEN Buy(s, i) ELSE Sell(s, i)

\* Every rung in turn.
Filled(p) == FoldLeftDomain(LAMBDA s, i : Fill(s, i, p), Sim, rungs)

Worth(s, p) == s.cash + (s.qty * p) \div GridUnit

\* The rungs the price has passed fill; then, if it is too far from the
\* center, a grid for all the sim is worth replaces what is left of this one.
\* The volatility is that of the prices before the first bar of this price.
GridReplay(p) ==
  LET s == Filled(p)
      rebalance == NeedsRebalance(center, p)
  IN /\ price' = p
     /\ gcash' = s.cash /\ gqty' = s.qty /\ spread' = s.spread /\ fees' = s.fees
     /\ rebuilt' = (rebuilt \/ rebalance)
     /\ IF rebalance
        THEN \E atr \in Atrs : center' = p /\ rungs' = BuildGrid(p, atr, Worth(s, p))
        ELSE UNCHANGED center /\ rungs' = s.rungs

\* The first price is the first center.
GridInit ==
  /\ price \in GridPrices /\ center = price
  /\ \E atr \in Atrs : rungs = BuildGrid(price, atr, GridStart)
  /\ gcash = GridStart /\ gqty = 0 /\ spread = 0 /\ fees = 0
  /\ rebuilt = FALSE

GridNext == \E p \in GridPrices : GridReplay(p)

GridSpec == GridInit /\ [][GridNext]_gridVars

-----------------------------------------------------------------------------
(* Safety. *)

\* Fills are never better than the market: at the price that filled them no
\* fill raises NAV, so the return that is reported is not made of the fills
\* (grid_backtest.py:81-105).
FillsNeverEnrich ==
  [][gcash' + (gqty' * price') \div GridUnit <= gcash + (gqty * price') \div GridUnit]_gridVars

\* Until the grid is built anew its account balances: at the center, the sim is
\* worth what it began with, the spread that is reported, the discount of the
\* rungs bought and no fees, but for rounding: for each rung at most a unit of
\* money, or what a unit of the token is worth (grid_backtest.py:81-105).
HarvestIsReal ==
  LET bought == {i \in DOMAIN rungs : rungs[i].side = "buy" /\ rungs[i].filled}
      gain(r) == ((r.size - Fee(r.size)) * (center - r.price)) \div r.price
      discount == SumFunction([i \in bought |-> gain(rungs[i])])
      worth == gcash + (gqty * center) \div GridUnit
  IN ~rebuilt => Size(worth - (GridStart + spread + discount - fees))
                   <= 2 * RungsPerSide * (1 + center \div GridUnit) + 1
=============================================================================
