# Caravels: a verification project

Caravels is an autonomous trading agent. One process runs a loop: every 15 to
30 minutes it fetches a market snapshot, settles what is known of earlier
swaps, reads its wallet, checks its drawdown and its daily quota, asks a signal
generator for trades, lets Keel (risk and compliance) approve them, sends them
through the TWAK command line to BNB Smart Chain, and books a receipt for each.
Its memory is a handful of fields; everything else is in one SQLite database.

This directory holds TLA+ modules of that system, the TLC configurations that
check them, and TLAPS proofs about them. Line numbers below are of files under
`src/caravels/` unless a path says otherwise.

## 1. Inventory

| Component | State it keeps | Operations | Talks to |
|---|---|---|---|
| run loop (`run.py`) | `CompetitionState` in memory: count, peak NAV, cooldown map | boot, `_tick`, `_fallback_trade`, `_sync_confirmed_trade_count` | everything below |
| execution pipeline (`execution.py`) | none between calls; the working portfolio of a batch, the swap result in hand | `execute`, `execute_batch` | Keel, TWAK, database |
| receipts and confirmation (`db.py`, `receipt.py`, `tx_confirmation.py`) | `receipts` table and its views | save, refresh the newest pending rows, count trades | TWAK (RPC) |
| competition ops (`competition.py`) | fields of `CompetitionState`; `competition_ops`, one row per day | `update`, `state_from_db_row`, `is_quota_at_risk` | scoring, database |
| risk guardrails (`risk.py`) | none | `evaluate` | reads the portfolio and the competition state |
| compliance (`compliance.py`) | none | `verify` | reads the competition state |
| scoring (`scoring.py`, views of `db.py`) | `portfolio_snapshots`, `scoring_time` | `compute_live_score` | database |
| TWAK adapter (`twak.py`) | none here; wallet, swaps and automations outside | `get_portfolio`, `swap`, `place_limit_orders`, `cancel_automations`, `get_tx_confirmation` | TWAK CLI, Alchemy, BSC RPC |
| market data (`cmc.py`, the boot in `run.py`) | `token_metadata_cache` in the database; id caches, last snapshot and rate-limit pause of one process | seed, resolve and persist ids and addresses, `fetch_snapshot`, `call_tool` | CoinMarketCap |
| signal (`signal.py`, `regime.py`) | none | `generate`: the agentic path, the one-shot path, the automatic choice | language model, strategies, snapshot |
| LLM providers (`llm.py`) | the conversation of one call | `complete_with_tools`, `complete` | language model, `call_tool` |
| strategies (`strategies/`) | none | five deterministic `generate`s | portfolio, snapshot, drawdown tier |
| ladder (`ladder.py`) | none | `build_ladder`, `compute_weights` | signal, grid Skill |
| backtest (`track2/`) | a simulated portfolio, a grid | two replays, bar by bar | its Skills, `ladder.py` |
| dashboard, BNB identity, CLI and settings, indicators | nothing the loop reads back | display, I/O, averages | |

How the parts interact, and what is hard about it:

- **One process, no threads, many outside calls.** Between any two calls the
  chain settles swaps, ladder orders fill, midnight passes, and any call may
  raise. `run_loop` catches every exception of a tick and keeps the state
  object it had (`run.py:192-196`), so a failing tick leaves its database
  writes and loses its memory.
- **Two clocks of truth.** What happened is on chain; what the agent believes
  is in receipts that a later tick refreshes (`tx_confirmation.py`), in rows
  written once a tick, and in memory that a restart restores from one row.
- **Trades are judged by a portfolio read earlier**, from two requests, and a
  batch threads it from trade to trade.
- **Values survive midnight in memory** that belong to a day in the database.
- **A CLI may do what it reports as failed**, or not answer in time, and what
  failed is tried again or tried in another way.
- **A strategy does not see what became of its last proposal**: Keel may have
  resized or rejected it, and the next tick measures the drift anew.
- **The model answers as it likes**, and may ask for tools first.

What makes each part correct: a swap is booked once and as the chain settled
it; the daily count never exceeds what was traded; the fallback comes when it
is needed; a token is not bought again within its cooldown; the wallet stays
near the exposure cap; the drawdown gates count from the true peak; pending
receipts settle; a trade is not made twice by its retry; prices a tick trades on
were read in it; a strategy comes to rest and leaves risk where it wants none;
whatever a model answers, Keel sees one sound batch. The file `PROJECT.json` lists the hazards with their lines.

## 2. Modules

| Module | What it is |
|---|---|
| `TradeLedger` | the abstract promise of the receipts table: broadcast once, settled once, booked as the chain says |
| `AgentLoop` | the run loop, `execute` and `execute_batch`, the receipts and their refresh; implements `TradeLedger` |
| `Keel` | `risk.evaluate` as operators on a candidate, a portfolio and the drawdown gate |
| `Exposure` | wallet, swaps in flight and the portfolio reads of a tick; uses `Keel` |
| `DrawdownGate` | peak NAV in memory, in the row of the day and in the scoring window; the two drawdown gates |
| `Ladder` | the weights and sizes of the rungs of a ladder, and when one is chosen (`ladder.py`, `regime.py`) |
| `AtomicTrade` | what `execute` may take a trade for: one request, one answer, and what each answer means for what is at stake |
| `SwapCall` | one trade through the TWAK CLI: cancellation, rungs, quote, swap, retry; uses `Ladder`; implements `AtomicTrade` |
| `Strategies` | the deterministic strategies and the automatic choice between them, as operators; uses `Keel` |
| `Rebalance` | `Strategies` and `Keel` on one book, tick after tick |
| `MarketData` | boots, the metadata table, the id caches, `fetch_snapshot` |
| `AgenticSignal` | the tool loop of a model and the reading of its answer; extends `MarketData` and `Ladder` |
| `Backtest`, `GridBacktest` | the two replays of `track2`, with `Keel` and with `Ladder` |
| `MCAgentLoop`, `MCExposure`, `MCDrawdownGate`, `MCSwapCall`, `MCRebalance`, `MCInputs`, `MCBacktest` | instances for TLC; `MCBacktest` runs both replays over one series of bars |
| `AgentLoop_proofs`, `Exposure_proofs`, `DrawdownGate_proofs`, `SwapCall_proofs`, `Backtest_proofs` | proofs about the module of that name; those about `Keel` open `Exposure_proofs`, those about `Ladder` and `GridBacktest` close `Backtest_proofs` |
| `Rebalance_proofs` | proofs about `Strategies` and `Rebalance` |
| `AgenticSignal_proofs` | proofs about `MarketData` and `AgenticSignal` |
| `Sums` | lemmas several of them need: induction over finite sets, and what a sum over a function does when a value changes or an index goes |

Operators named `X_Something` with a comment "fault:" are plausible wrong
versions of `X`. The specifications never use them; each shows that one of the
checked properties notices that mistake.

### AgentLoop

A tick is one action per stretch of code between two outside calls:
`StartTick` (`run.py:190-225`), `SkipTick` or `RefreshReceipts`, `DqStop` or
`CheckQuota`, `Generate`, then for each candidate `RejectCandidate`, or
`SendSwap`, perhaps `SendAgain`, and `RecordReceipt`, and `FinishTick`.
`TickFails` may end a tick anywhere, `Crash` the process, and `Boot` restores
`opsCount[day]`. The same actions serve the fallback (phase "fallback") and
the batch.

- `receipts[x]` is the row about swap `x`. Rows about candidates that were
  never sent carry no information except that they are newer than others:
  `newer` counts them, because the refresh pass reads a window of the newest.
- The result of a swap is EXECUTED with or without a hash, FAILED (broadcast
  or not), or "unsent": skipped for slippage or placed as a ladder.
- `SendSwap` is `_real_swap` up to the CLI's first answer. When that is an
  approval error (`twak.py:670`, `:709`), the phase is "retry" and `SendAgain` is
  the second attempt, whose error is a failure like any other. The first may
  have been broadcast all the same: nothing of it is kept, and the result of
  the second is the one that is booked.
- A swap call that raises something other than `RuntimeError`, and a
  `get_portfolio` that raises, are `TickFails` in phase "sent" or "retry".
- The refresh of a row right after it is saved (`execution.py:255-259`) is the
  choice in `FirstConf`. The refresh pass asks about any subset of the window
  in one step: it reads and writes one row at a time, and nothing but the chain
  moves in between, which may move before or after it just as well.
- A token absent from the cooldown map reads as cooled down, so absence and
  the value `Cooldown` are one.
- Which check rejects, and what the signal proposes, are free choices; the
  disqualification gate is one too. The mode is live: `dry_run` and
  `simulation_mode` are off. The scoring window began before the first
  modelled day. A tick spans at most one midnight, and does not last until the
  cutoff hour of the next day.
- `FinishTick` writes the row and hands back the map in one step; an error of
  the event written in between would lose the map only (`DrawdownGate` has that
  step for the peak).
- `rest` and `forgotten` are history: ticks since the last purchase, and
  purchases the map never learned of.

### Keel and Exposure

`Keel` has the order and the arithmetic of `evaluate`: the per-trade cap, the
projected exposure, resizing to the headroom with its one-percent rule, the
token cap, and the dust rule. Amounts are whole cents and a share is rounded
down; the code has floats rounded to four decimals of a percent.

`Exposure` runs ticks against a wallet. `ListBalances` and `QueryBalances` are
the two requests of `_real_portfolio`. `Listed` are the assets whose balance
the first one provides. (Entries with a `usdValue` are skipped by
`twak.py:474-480` and count only if the second request has them, so they do
not belong to `Listed`.) `MayMiss` are the assets the read may lose because a
balance request failed or no price came. `SendSwap` has every result of
`twak.swap`, which makes two attempts at most: none, one or both of them may
have been broadcast, and one at least when it reports the swap as executed.
`GoOn` has what `execute_batch` threads. `SettleSwap` happens between
any two steps. `sight` is history, what the worst portfolio of the tick left
out or counted twice: "late" when a swap was not yet mined or was broadcast
without being reported, "torn" when one was mined between the two requests of a
read, which then may show its amount on both sides, "blind" when an asset was
lost. `twice` is history too: the trades of the tick that were broadcast twice,
of which `MaxTwice` bounds the number. Every trade is a market swap here;
`SwapCall` has the ladders.

A torn or blind portfolio may be worth more than the wallet, up to twice as
much, and Keel's shares are taken of what it is shown; `MostShown` is that
worth. (With a trade cap of 40 and an exposure cap of 100 percent, USDC listed
before a purchase of the batch is mined and the token queried after it, the
third purchase of a batch is larger than 40 percent of the wallet. The bound
has to allow for that; the usual limits hide it.) `MCExposure` has wallets on
both sides of the caps, so that a torn read is reached with a trade to follow,
and one with room for most of a largest trade but not for two: a second attempt
takes it past what the bound would be without `twice`, and a cap that is not
projected takes it past the bound.

Prices are fixed while a tick runs and swaps lose nothing, so what moves the
exposure is what the agent does; when a tick starts, the market may have
turned the wallet into any of `Wallets`. Swaps settle in nonce order, and all
of them before the next tick: an interval is 15 minutes at least. Candidates
pass compliance; a batch with rejected members is a shorter batch.

### DrawdownGate

The mode is competition mode, where the disqualification gate is enforced.
`ReadPortfolio` saves the snapshot of a tick; `ConfirmReceipt` saves the one
`refresh_pending_receipt` takes when a receipt turns out confirmed
(`tx_confirmation.py:54-78`), in the refresh pass before the tick's own read
(`run.py:280`) or right after a swap (`execution.py:257`). `UpdateState` computes the score and the
new state, `FinishTick` writes the row of the day and hands the state back,
`TickFails` and `Crash` lose it, `Boot` restores the row of the day through
the stale-peak guard (`competition.py:96-106`). The snapshots of the scoring
window matter by their maximum (`db.py:155-177`), which is `window`. A confirmation
raises that maximum and never the peak in the state (`competition.py:20-21`), so
the two gates may count from different NAVs. The properties say which: the
history `top` is the highest NAV of any snapshot, `known` the highest a tick
read; `DqGateShut` counts from the first, `HardGateShut` and `NoPhantomDerisk`
from the second. The disqualification gate compares the latest snapshot at the
time of `UpdateState`; one that is saved later in the tick counts in the next,
so `DqGateShut` is about the step that passes the gate. A tick whose NAV is
zero raises in the score, which divides by it. `lost` and `fell` are history
too. The event
written after the row may raise as well (`FailAfterRow`): the row is saved and
the memory is not.

### SwapCall and Ladder

`SwapCall` opens what `AgentLoop` and `Exposure` take as one step: a trade goes
through `execute` (`execution.py:157-208`) and the adapter, one CLI call per
action. `Begin` chooses the ladder or the swap; `ListOrders` and `DeleteOrder`
are `cancel_automations`, which swallows its errors; `PlaceRung` and
`EndLadder` are `place_limit_orders`, rung by rung, with the dust rule and the
fall back to a swap when none was accepted; `AskQuote`, `TrySwap` and `Retry`
are `_real_swap`. The CLI may do what it was asked or not, and say so or not;
an answer that does not come in time is an exception nobody below `run_loop`
handles. `FillOrder` happens between any two steps. `committed`, `acked` and
`concealed` are history: what was put at stake, what of it was acknowledged,
and what was done although it was reported as failed. Trades are numbered
modulo `Ids`, and a number is taken again once no order bears it.

`AtomicTrade` is a call seen from `execute`: a request and one answer.
`CallIsOneStep` maps the variables of `SwapCall` to it: the request is under
way until `pc` is "done", and what was put at stake counts only then. It
allows three times the size after a ladder and twice for a swap, because a rung
or a swap the CLI reports as failed is tried again in another way.

`Exposure` and `AgentLoop` have that second attempt as well: `RepeatsAsTaken`
says that the answers `Exposure` lets a swap have are those of `AtomicTrade`.

A trade has a positive size, since `evaluate` rejects what is below the least
notional (`risk.py:106`), and as many rungs as its own ladder.

`Ladder` has the Fibonacci and flat weights, the size of a rung, the
preconditions of `build_ladder`, and the choice between market and ladder of
`regime.py`.

### Strategies and Rebalance

`Strategies` has one operator per strategy, with the order of its rules: the
tier-3 sale before anything else, the suppression in tier 2, then purchases
and exits as each file orders them. A token the snapshot does not have is not
in the market, and neither is one the competition does not allow.
A `Reading` is what a market says of one token; the signals of
`mean_reversion` and `breakout` are sets of tokens (`Cheap`, `Dear`, `Escaped`,
`Sinking`) and their strengths, and a token that is oversold is not asked
whether it is overbought (the `elif` of `mean_reversion.py:125`, which matters
where the two thresholds cross). `volatility_target` measures volatility by the
pivots or the 24 hour change; the realized one needs a database, which no
caller hands it.

`Rebalance` runs a strategy and Keel on one book: `Tick` asks for a proposal,
lets `Keel` judge it and applies what was approved; `Move` changes market and
drawdown. NAV stays 10000 units. `sold` and `trades` are history since the
last move, which is what the properties about a calm market are about.

How much is traded is `Amounts`, which is `_trade_amount_in` and the cut to the
balance (`execution.py:161`, `:335-359`). A purchase is paid in the base, and
a token that has a price in the snapshot is sold by its worth: the notional
Keel approved. A held token may be absent from the snapshot and yet have a
value, since `get_portfolio` asks for a price of its own (`twak.py:476`, `:496`).
The dollars of its sale are then taken for units of the token (`:359`), so the
sale is worth the notional times the price of a unit, at most all there is:
`UnitPrices` are the prices, in cents, and `LeastUnit` is no more than any of
them. A market has positive prices only: a token that the snapshot has at zero
is worth nothing to `get_portfolio` and is not sold. NAV is relative, so a
dollar is worth a dollar whatever NAV is.

### MarketData and AgenticSignal

`MarketData` is what a process knows and what outlives it. `Boot` resolves
addresses from settings and table (`run.py:49-93`); `PersistAddress`, `Search`
and `RecordId` write them and look missing ids up, one commit at a time, with
`Crash` in between; `Fetch` is `fetch_snapshot` with everything that may fail in
it. An id never changes, so a cache is the set of tokens it knows; a snapshot
is the tick its prices were read in, the stamp it bears, and the tokens it has.

`AgenticSignal` adds the tick. `AskTools`, `RunTool` and `Answer` are the
rounds of `complete_with_tools`; `Answer` reads the lines of an answer as
`signal.py` does, row by row, guards, ranks and cuts them; `ModelFails` and
`NoTools` let the strategy decide. A line is the header, a row or prose, and a
row may be decorated, in which case its token is not eligible. Rows and
candidates are sets of line numbers and functions on them; the stable sort is
the order `Before`, and the batch takes the candidate of each rank. Which trade the
deterministic strategy then makes is `Rebalance`'s subject.

### Backtest and GridBacktest

One action per bar: `Skip`, `Mark` or `Trade` for the rotation Skill, with
`Evaluate` its scoring; `GridReplay` for the grid, which fills rungs in order
and is built anew past the drift threshold. The two run side by side in
`MCBacktest` because a bar gives both their prices. Amounts are whole units
and rounded down: a purchase loses up to a unit of money, and what it gets up to
a unit of the token, so `HarvestIsReal` allows each rung one unit of money and
what a unit of the token is worth at the center. A later grid has no rungs on a
side whose size is rounded to zero.

## 3. What the runs show

All instances fit in a few minutes. Bounds are in the `.cfg` files.

| Run | Result | What it shows |
|---|---|---|
| `agent_loop` | holds | The count, the ops rows and the receipts table stay truthful; only a tick or process that ends with a result in hand, or an approval retry after a first attempt that was broadcast, orphans a swap. No second purchase within the cooldown, unless the map never learned of the first. Two swaps, two tokens, batches of two, one midnight, a window of one row: enough for a purchase pending across midnight while another is sent, and for both rows to compete for the window; a cooldown of one tick lets whole ticks, a failed one or a restart come between two purchases. |
| `agent_live` | holds | Where refresh passes follow each other and the node answers, pending rows settle, even if the disqualification gate stops every tick; where ticks reach the quota check, a day without a trade gets its fallback tried. |
| `agent_fallback` | violated | The count is read before the refresh pass of the same tick: the fallback is sent on a day whose trade was just confirmed. |
| `agent_window` | violated | Under the same premises a row that newer rows pushed out of the refresh window stays pending for ever, although the pass would "refresh all pending receipts". The window is one row instead of 200. |
| `exposure` | holds | If every portfolio was exact, a batch ends within the cap plus the fallback; whatever happens, it exceeds the cap by one largest trade per further candidate at most, and one more for each that was broadcast twice. Three tokens, batches of three, wallets below and above the caps, one trade a tick that is broadcast twice: enough for a second attempt at each place of the batch. All candidates ask for more than the trade cap, so that each is resized to what a cap leaves of it. |
| `swap_call` | holds | A trade puts no more at stake than its size, except what the CLI did and reported as failed; the status tells what was acknowledged; two ladders are open together only after a failed cancellation; paper mode adds nothing; every call is a step of `AtomicTrade`, and ends. A swap, a ladder with dust rungs and one without, in any order, on top of orders left open. |
| `drawdown` | holds | Which gate knows the peak after failed ticks, restarts, midnights and confirmations that saved a snapshot of their own. Seven NAVs give falls of less than 18, between 18 and 30, more than 30 and more than 50 percent; three days give two midnights between boots. |
| `drawdown_final` | violated | The disqualification gate opens again after a recovery. |
| `rebalance` | holds | In a calm market every strategy comes to rest without undoing a trade, and every trade brings the book closer, by the least notional at least or, of a token without a price, by as many units; risk is sold, down to dust, where a strategy wants none; no risk is added from tier 2 on; no purchase passes the strategy's largest position. Three tokens, so that one trades while two are at a cap; five markets in which every rule fires, one without a token that two of the books hold, whose unit is worth half a dollar or 2500; drawdowns in each tier; three books, one over a cap. The hard gate is above the tiers: with the profiles' own gate they would be without effect. |
| `rebalance_rotate` | violated | `trend_following` proposes a purchase Keel rejects in every tick, and so never sells what no longer trends. |
| `inputs` | holds | Prices were read in the tick that trades on them; addresses and ids that were written last; whatever the model answers, what reaches Keel is a hold or a sound batch, most urgent first; the tick ends. Two settings files, one with the address the other lacks; two boots, two ticks; every answer of two lines and some of three. |
| `backtest` | holds | The rotation replay buys what Keel would approve and stays within the exposure cap; the grid's spread, fees and cash add up, and no fill beats the market. Four bars of seven kinds: a purchase, its sale, a crash and a missing price in one replay. |

Deadlock is checked except in `inputs` and `backtest`, whose boots, ticks and
bars are bounded and end.

**Fairness.** `agent_live` and `agent_window` assume `WF(Tick)` only:
`run_loop` has no exit but a signal, so while the process is up some step of
the loop follows. How far its ticks get is not up to the loop: they return
early in an emergency pause (`run.py:227-244`) or with a stale snapshot
(`:261-278`), and may raise. So it is a premise of the properties.
`PendingSettles` and `EveryPendingSettles` assume that refresh passes follow
each other, and that the node, asked again and again about a settled swap,
tells at last (`NodeAnswers`: of the passes that ask about it, infinitely many
are told); that a pass does ask about every pending row of the window is the
code's part, and what the mutant of `PendingSettles` breaks. `QuotaDefended`
assumes that ticks reach the quota check again and again. Nothing is assumed of
`Boot`: nobody restarts a dead process, and the properties allow for its
death. `swap_call` assumes
`WF(Step)`: `subprocess.run` kills a CLI that outlives its timeout, so every
call returns or raises. `inputs` assumes `WF(TickStep)`: the calls of a model
and of its tools return or raise. Nothing is assumed of fills, of the market,
or of what an answer says.

### Disagreements with documents and comments

The violated runs above, and what follows. `PROJECT.json` quotes the lines.

- *Books.* A broadcast swap leaves no receipt when the portfolio read after it
  raises (`execution.py:250`); `OrphanOnlyByFailure` states what does hold. Not
  all pending receipts are refreshed (`tx_confirmation.py:87` against `:92`). After
  a purchase by the fallback, or in a tick that raised, the cooldown does not
  hold (`config.py:54` against `run.py:352`, `:433-447`): see `CooldownHeld`.
- *Exposure.* Two purchases of a batch together exceed the cap when the first
  is not seen yet (`execution.py:315`); a tick goes on with a portfolio that
  lost an asset (`twak.py:576`).
- *Gates.* A restart after midnight forgets the peak (`run.py:170`). Past the 18
  percent gate `evaluate` rejects sales as well (`risk.py:43`), and so the tiers
  of the strategies, which begin at 19.5 percent, have no effect.
- *Fallback.* It is at most half a percent of NAV and five dollars, and the
  competition profile rejects trades below ten (`run.py:472`, `risk.py:106`).
- *Market data.* The pause after a rate limit and the cached snapshot are dead
  code, because the session catches the error first (`cmc.py:409`); `is_stale` has
  no caller (`cmc.py:523`).
- *Model.* A blank line, a fence or a sentence before the row shifts the fields
  of a one-shot answer (`llm.py:75`); the ceiling on tool rounds is only a default
  (`llm.py:16`); `apply_guards` has no caller (`strategies/guards.py:20`).
- *Strategies.* `volatility_target` scales past its cap (`:148`); the automatic
  choice never returns `trend_following` (`regime.py:147`).
- *Amounts.* A sale of a token without a price is not of the dollars Keel
  approved (`execution.py:336` against `:359`): of a unit worth more than a
  dollar it is more, up to the whole position, whatever the cap per trade. In
  `Rebalance` such a sale is of any of `Amounts`; `EveryTradeSettles` holds.
- *Paper mode* cancels live orders (`execution.py:178`).
- *Backtest.* It has no cap per token, no least notional and sells whole
  positions (`backtest.py:124`); it stops sales as well, and does not report the fall that
  made it stop (`:117`, `:152`).

Smaller observations, outside any property: `max_open_bets`,
`daily_hard_derisk_pct`, `should_hard_derisk` and `increment_trade_count` have
no effect; the token cap is compared before a trade and not with its result;
open ladder orders are invisible to Keel and do not start a cooldown; without
a configured scoring start, every boot begins a new window (`run.py:65`).

## 4. What is proved

TLAPS checks these for every value of the constants that satisfies the named
assumptions of the modules (finite `Tx`, the fallback token is a token, limits
are naturals or percentages), with no bound on days, tokens, batches or NAVs.
Where a result is about a sum or about the largest of several, the lemmas are
in `Sums`. The induction they need is by a minimal counterexample: the sets of
which a statement fails are themselves a set, and strict inclusion between
finite sets is well-founded. That a fold over a finite set is well defined is
shown in this way, and so is every fact about sums after it.

- **AgentLoop.** `Typing`; `LedgerInvariance`, the inductive invariant: what a
  row says agrees with the chain, and the swap in hand is broadcast and has no
  row. The invariant is needed because `TypeOK` alone admits a row that a
  second `RecordReceipt` overwrites. From it: `LedgerRefinement` (every step is
  a step of `TradeLedger` or a stutter), `QuotaSafe` and `OpsRowSafe` (with an
  invariant that ties the count to the trades of the tick's day),
  `OrphansExplained` (what is in hand while `_real_swap` may ask again is no
  swap, so only its end or a broadcast first attempt can lose one).
  `CooldownSafe` rests on its own invariant: between the
  map, the batch under way and the history, a token in neither `traded` nor
  `forgotten` has rested at least as long as the map says.
- **Keel.** `ApprovedPurchase`: an approved purchase, resized or not, is within
  the trade cap and takes the portfolio it was judged by no further than the
  exposure cap. The lemmas are about shares of an amount; the headroom of a
  resized trade is below what was asked because the projected exposure was
  above the cap.
- **Exposure.** The invariant follows the excess through the tick (`Spent`):
  before the fallback nothing is under way, up to the end of the fallback the
  portfolio shows all but the fallback's own purchase, and after it each
  candidate that is done, from the second on, may have added one largest trade.
  Two things had to be added to make it inductive: that a portfolio is worth
  what the wallet is, or up to twice as much after a torn read (`Shown`, which
  needs `Begun`: until the fallback nothing moves), and that with exact
  portfolios the one in use shows the exposure but for the fallback
  (`Threaded`). Each approved purchase then adds no more than `Keel`'s headroom,
  or than its trade cap where it is not seen. A second attempt adds its trade
  once more, so the invariant is about `OnceRiskOn`, the exposure without one
  largest trade for each of them; while all portfolios are exact there is none.
  From it: `Typed`, `CapSafe` (with exact portfolios the cap plus the fallback
  holds for batches of any length), and `Bounded` (the excess of any tick, for
  any number of second attempts).
- **DrawdownGate.** `PeakRemembered` is the inductive invariant: the window is
  the highest NAV of all snapshots, no lower than the highest a tick read, and
  unless that was lost, the peak in memory and the row of the day are the
  latter; no row of a later day exists. Without the last two a restart could
  restore an old row. From it:
  `GateTyping`, `DqGateSafe`, `HardGateSafe`, `NoPhantom`.
- **SwapCall.** `CallInvariance` is the inductive invariant: paper mode keeps
  away from the quote and the swap; orders of an older trade are among those
  still to delete, and after that among those leaked. The second half is needed
  because `LaddersReplaced` alone says nothing of the orders a new rung joins.
  From it: `PaperSafe`, `LaddersSafe`. `SoundInvariance` does the same for the
  amounts: while rungs are placed, what is committed and what the rungs still
  to come add up to is within the size of the trade, whatever their weights and
  however many were dropped as dust, because the parts of an amount add up to
  it at most. From it: `CallTyped`, `StakesSafe`, `StatusSafe`.
- **SwapCall implements AtomicTrade.** `CallImplementsTrade`: every step of a
  call is a step of `AtomicTrade` or a stutter. The answer's accounts come from
  `SoundInvariance`; that no more than two attempts add to them needs one
  invariant more, `Attempts`, which counts the sizes that may have been taken
  and reported as failed: one for a ladder none of which was acknowledged, one
  for the attempt before. `RepeatsAsTaken` then says what this is worth to
  `Exposure`: the CLI may conceal the first attempt of a live market swap, and
  the answers it may get are exactly those `Exposure` has, executed or not,
  broadcast up to twice, and executed only if broadcast.
- **Strategies and Rebalance.** Each strategy is reduced to one number per
  token, the position it aims at (`TargetOf`): it buys no further than that, and
  below tier 2 sells no further either; from tier 2 on it buys nothing
  (`Aims`, shown of each of the five). Keel only makes a trade smaller, and a
  token whose sale is not made by its worth is one no strategy aims at
  (`NoTarget`), so a tick keeps this. From it `TierSafe`, `CapsSafe`, `BooksTyped` (cash and
  positions always add up to NAV, and neither is negative), and with the
  invariant that what was sold stays at or above its target until the market
  moves, `NothingBoughtBack`. `RiskGone` has one more hypothesis, that half of a
  largest trade is no dust: `momentum_rebalance` sells no more at a time in
  tier 3, and Keel rejects a sale that is smaller than the least notional. It is
  tight in the competition profile: ten dollars, of a hundred, is half of the
  twenty percent a trade may have, and with less than a hundred dollars tier 3
  of that strategy can sell nothing.
  `EveryTradeCounts` is why a strategy cannot trade for ever in a market that
  does not change: `Distance` adds up, for each token, how much it may still
  grow and then shrink, and every trade lowers it by the least notional or
  more, and of a token without a price by as many units. It needs that a sale is never of more than is held (else applying it
  would cut it below the dust Keel let through), that Keel's headroom keeps a
  purchase within NAV, and `NothingBoughtBack`. From it, `TradesRunOut`: for
  every strategy, setting and market there are no more trades between two moves
  than twice NAV for each token, divided by `LeastSale`: the least notional, or
  what as many units of the cheapest token without a price are worth.
- **MarketData and AgenticSignal.** `Inputs` is the inductive invariant. Each
  step is a step of the data or leaves it alone (`StepOf`); rows are written
  before a process runs and never lose an address; ids reach the cache before
  the table; the pause of a rate limit never begins, since the errors that
  escape a session are not rate limits. From it: `InputTyping`, `FreshPrices`,
  `AddressesSafe`, `IdsSafe`, with no bound on boots, ticks or rounds other than
  the constants. `FreshPrices` rests on the dead code named above: if the session
  let its rate limits through, the cached snapshot would be traded on.
  `SoundBatches` and `MostUrgentFirst` are about every answer a model may give,
  of any length. In a strict total order of a finite set every rank is taken by
  exactly one member (`Ranking`), so the batch has as many trades as it claims,
  of as many lines; and the first row of each token is the only one that
  counts, so they are of as many tokens.
- **Backtest.** `Books` is the inductive invariant: `TypeOK`, and a peak that is
  no lower than the NAV the replay began with. A trade never raises NAV, since
  what is bought is worth no more than is paid for it however both are rounded
  (`BoughtAtMost`), and so the peak stays one. From it: `BooksTyped`,
  `BuysStayWithinCap` and, for any number of bars, `SizesAsKeel`. The replay
  compares exact sizes and Keel whole cents; where only one of them resizes, the
  whole cents are the same. The hypothesis `DustIsSmall` is what this needs: one
  percent of NAV, the least the replay trades, must be no dust to Keel while the
  replay still trades, and an order may be of two percent. The defaults (one
  dollar of a thousand) meet it; the competition profile (ten dollars) does not,
  and there TLC finds the difference in five bars: three purchases and a resized
  one, then a fall of four percent that leaves room for a purchase of nine dollars.
- **GridBacktest.** The theorems are about `GridSpec`, the grid without the
  rotation Skill; `MCSpec` takes one of its steps with each bar. A step fills
  rung after rung in one fold, so `FilledIn` turns it into an induction over
  the rungs: what the sim satisfies before, and every `Fill` keeps, it
  satisfies after. That a fill loses nothing and creates nothing but for
  rounding is `BuyGives` and `SellGives`. `NothingFromFills` is that induction
  with NAV at the price: a fill is at the rung's price or a worse one. For
  `AccountBalances` the inductive invariant is `GridBooks`. Until the grid is
  built anew it holds `Account`: at the center, the sim is off its account by
  at most `Tolerance` for each filled rung, and there is cash for all the
  purchases that are still wanted. The second half is needed because a purchase
  cut down to the cash there is would be counted by `HarvestIsReal` for all its
  rung; it holds because the rungs of a side add up to its share at most
  (`RungsAddUp`). From the same invariant: `GridStaysTyped`, whose non-negative
  spread needs that no rung sells below the center (`SellsAbove`).

Only model-checked:

- liveness (`PendingSettles`, `QuotaDefended`, `CallEnds`, `TickEnds`), which
  TLAPS cannot prove under fairness.

## 5. Plan

Done, in the order of importance: the loop with its books (`TradeLedger`,
`AgentLoop`), its limits (`Keel`, `Exposure`), its gates (`DrawdownGate`), the
adapter's calls (`SwapCall`, `AtomicTrade`), what a tick trades on (`MarketData`,
`AgenticSignal`), what it decides (`Strategies`, `Rebalance`), and the replays
(`Backtest`, `GridBacktest`).

Next:

1. Composition: `AgentLoop` with `DrawdownGate`'s flag in place of its free
   choice, and `Rebalance` with the swaps of `Exposure`.
2. `verify` of `compliance.py` as operators, and what a fallback needs to pass
   both Keel and compliance, with `QuotaDefended` down to a broadcast trade.
3. Proofs of the safety properties of those compositions.

### Not modelled

- The dashboard and the runtime events: nothing the loop reads back.
- The BNB identity, registration and the x402 enrichment: one-time or optional
  requests that move no token and that no decision reads.
- Command line, settings and the indicators: parsing, and averages over a price
  series; their results are constants and inputs here.
- `strategies/guards.py`, `build_two_sided_ladder`, `is_stale` and the other
  functions without a caller.
- The wording of prompts, events and logs, report statistics, and the split of
  a line at its commas.
- Floating point: amounts are whole numbers, rounded down, and the bounds of the
  properties say by how much.
