----------------------------- MODULE AgentLoop -----------------------------
(***************************************************************************)
(* The agent's run loop (run.py) with the execution pipeline it calls      *)
(* (execution.py), the receipts it keeps (db.py, receipt.py) and the       *)
(* later pass that settles them (tx_confirmation.py), in live mode.        *)
(*                                                                         *)
(* A tick is a sequence of steps, one per outside call after which the     *)
(* process can die or the tick can raise: sync the trade count, fetch the  *)
(* snapshot, refresh pending receipts, read the portfolio and the score,   *)
(* the fallback trade, the signal, then for each candidate swap and save   *)
(* its receipt, and finally the cooldown map and the competition_ops row.  *)
(* The chain settles swaps, and midnight and the cutoff hour pass, at any  *)
(* point between two steps.                                                *)
(*                                                                         *)
(* Abstracted: amounts and NAV (modules on exposure and drawdown), so the  *)
(* risk and compliance checks other than the cooldown reject or approve    *)
(* as they like; what the signal proposes is any list generate() can give. *)
(***************************************************************************)
EXTENDS Integers, Sequences, FiniteSets

CONSTANTS
  Tx,                \* the swaps the agent may broadcast (bounds their number)
  NoTx,              \* "no swap"
  Tokens,            \* tradeable tokens
  FallbackToken,     \* the token _fallback_trade buys (ETH)
  Cooldown,          \* risk.trade_cooldown_ticks
  MaxActions,        \* helm_max_actions_per_tick
  Window,            \* limit of refresh_pending_receipts
  MaxDay,            \* bound: the model's last day
  CompetitionMode    \* cfg.competition_mode

ASSUME TxAssumption == IsFiniteSet(Tx) /\ NoTx \notin Tx
ASSUME TokensAssumption == FallbackToken \in Tokens
ASSUME LimitsAssumption ==
  /\ Cooldown \in Nat
  /\ MaxActions \in Nat \ {0}
  /\ Window \in Nat \ {0}
  /\ MaxDay \in Nat \ {0}
  /\ CompetitionMode \in BOOLEAN

VARIABLES
  day,               \* the UTC date
  late,              \* the hour is at or past daily_quota_cutoff_hour_utc
  chain,             \* chain[x]: what the blockchain did with swap x
  receipts,          \* receipts[x]: the row about swap x (DB)
  opsCount,          \* opsCount[d]: daily_trade_count of the ops row of d (DB)
  phase,             \* where the process is in its loop
  loopDay,           \* the date of the running tick's loop_ref
  count,             \* competition_state.daily_trade_count (memory)
  ticks,             \* competition_state.token_trade_ticks (memory)
  todo,              \* candidates of the batch still to execute
  traded,            \* tokens whose receipt of this batch says executed
  hand,              \* the swap result execute() holds before it is saved
  rest,              \* history: rest[t] ticks ended since t was last bought
  forgotten          \* history: tokens whose last purchase the map does not know

envVars  == <<day, late>>
dbVars   == <<receipts, opsCount>>
memVars  == <<count, ticks>>
tickVars == <<loopDay, todo, traded, hand>>
history  == <<rest, forgotten>>
vars == <<envVars, chain, dbVars, phase, memVars, tickVars, history>>

Days == 1 .. MaxDay

(***************************************************************************)
(* A row of the receipts table about a broadcast swap.  newer counts the   *)
(* receipts saved after it, up to Window: ORDER BY timestamp DESC LIMIT    *)
(* returns the row iff newer < Window.  It is kept while the row is        *)
(* pending: nobody looks for a settled row in that list.                   *)
(***************************************************************************)
ConfState == {"none", "pending", "confirmed", "failed"}
Receipt == [conf : ConfState, hash : BOOLEAN, day : Days, newer : 0 .. Window]
NoReceipt == [conf |-> "none", hash |-> FALSE, day |-> 1, newer |-> 0]

Candidate == [token : Tokens, dir : {"buy", "sell", "hold"}]
HoldOnly == <<[token |-> FallbackToken, dir |-> "hold"]>>

(***************************************************************************)
(* The results of a swap call: EXECUTED with or without a hash in the      *)
(* CLI's answer, FAILED, and "unsent" for SKIPPED by the slippage check    *)
(* and PLACED as a ladder, after which no swap is on its way.  "approval"  *)
(* is no result: the CLI's first answer was that the token's approval is   *)
(* still settling, and _real_swap asks once more.                          *)
(***************************************************************************)
Report == {"hash", "nohash", "failed", "unsent"}
FirstReport == Report \cup {"approval"}
Hand == [tx : Tx \cup {NoTx}, cand : Candidate, fallback : BOOLEAN,
         report : FirstReport \cup {"none"}, day : Days]
EmptyHand == [tx |-> NoTx, cand |-> Head(HoldOnly), fallback |-> FALSE,
              report |-> "none", day |-> 1]

Phase == {"down", "idle", "fetch", "score", "fallback", "signal", "batch",
          "retry", "sent"}
InTick == phase \notin {"down", "idle"}

TypeOK ==
  /\ day \in Days /\ late \in BOOLEAN
  /\ chain \in [Tx -> {"unused", "inflight", "mined", "reverted"}]
  /\ receipts \in [Tx -> Receipt]
  /\ opsCount \in [Days -> Nat]
  /\ phase \in Phase /\ loopDay \in Days
  /\ count \in Nat /\ ticks \in [Tokens -> 0 .. Cooldown]
  /\ todo \in Seq(Candidate) /\ traded \in SUBSET Tokens /\ hand \in Hand
  /\ rest \in [Tokens -> 0 .. Cooldown + 1] /\ forgotten \in SUBSET Tokens

-----------------------------------------------------------------------------
(* The database as the loop reads and writes it. *)

\* The trades view: a confirmed row with a transaction hash.  (effective_price
\* is never null in a row that has a hash.)
IsTrade_NoHashTest(row) == row.conf = "confirmed"   \* fault: hash test dropped
IsTrade(row) == row.conf = "confirmed" /\ row.hash

\* get_trade_count_since_scoring_time(d), scoring having started before.
Trades(d) == {x \in Tx : IsTrade(receipts[x]) /\ receipts[x].day = d}

\* save_receipt: one more row, newer than every row there is.  The row is
\* about swap x, or about nothing the chain knows when x = NoTx.
Saved_NotFailed(x, row) ==       \* fault: a failed swap writes no receipt
  [y \in Tx |-> IF y = x /\ row.conf # "failed" THEN row ELSE receipts[y]]
Saved(x, row) ==
  [y \in Tx |->
     IF y = x THEN row
     ELSE IF receipts[y].conf = "pending" /\ receipts[y].newer < Window
          THEN [receipts[y] EXCEPT !.newer = @ + 1]
          ELSE receipts[y]]

\* What get_tx_confirmation may answer about x.  An RPC error, a missing
\* receipt and an unknown status all read as "pending".
Confirmation_Optimistic(x) ==    \* fault: a known transaction is a mined one
  {"pending"} \cup (IF chain[x] # "unused" THEN {"confirmed"} ELSE {})
Confirmation(x) ==
  {"pending"} \cup (IF chain[x] = "mined" THEN {"confirmed"} ELSE {})
              \cup (IF chain[x] = "reverted" THEN {"failed"} ELSE {})

\* The rows refresh_pending_receipts asks the chain about.
Refreshable_AnyStatus(x) ==      \* fault: the test for "pending" dropped
  receipts[x].conf # "none" /\ receipts[x].hash /\ receipts[x].newer < Window
Refreshable_NewestOnly(x) ==     \* fault: only the latest receipt is refreshed
  receipts[x].conf = "pending" /\ receipts[x].hash /\ receipts[x].newer = 0
Refreshable(x) ==
  receipts[x].conf = "pending" /\ receipts[x].hash /\ receipts[x].newer < Window

\* The row of x after refresh_pending_receipt got that answer.
Answered(x, conf) ==
  [receipts[x] EXCEPT !.conf = conf, !.newer = IF conf = "pending" THEN @ ELSE 0]

\* The lists generate() returns: one HOLD, or one action per distinct token.
Batches ==
  {HoldOnly} \cup
  UNION {{b \in [1 .. n -> [token : Tokens, dir : {"buy", "sell"}]] :
            \A i, j \in 1 .. n : b[i].token = b[j].token => i = j} :
         n \in 1 .. MaxActions}

-----------------------------------------------------------------------------
(* The world outside the process. *)

\* A tick takes minutes: it spans at most one midnight and, once it has, it
\* is over long before that day's cutoff hour.
TickStartedToday == InTick => loopDay = day

NewDay ==
  /\ day < MaxDay /\ TickStartedToday
  /\ day' = day + 1 /\ late' = FALSE
  /\ UNCHANGED <<chain, dbVars, phase, memVars, tickVars, history>>

ReachCutoff ==
  /\ ~late /\ TickStartedToday
  /\ late' = TRUE
  /\ UNCHANGED <<day, chain, dbVars, phase, memVars, tickVars, history>>

SettleSwap(x, outcome) ==
  /\ chain[x] = "inflight"
  /\ chain' = [chain EXCEPT ![x] = outcome]
  /\ UNCHANGED <<envVars, dbVars, phase, memVars, tickVars, history>>

-----------------------------------------------------------------------------
(* run_loop and _tick. *)

\* The end of a tick, which the map of cooldowns learns of unless its
\* purchases are in lost.  From Cooldown + 1 on, rest says nothing more.
LeaveTick(lost) ==
  /\ phase' = "idle"
  /\ todo' = <<>> /\ traded' = {} /\ hand' = EmptyHand
  /\ loopDay' = 1
  /\ rest' = [t \in Tokens |-> IF rest[t] <= Cooldown THEN rest[t] + 1 ELSE rest[t]]
  /\ forgotten' = {t \in forgotten \cup lost : rest[t] < Cooldown}

\* Boot: the day's ops row is restored; the cooldown map never is.
Boot ==
  /\ phase = "down"
  /\ phase' = "idle"
  /\ count' = opsCount[day]
  /\ ticks' = [t \in Tokens |-> Cooldown]
  /\ UNCHANGED <<envVars, chain, dbVars, tickVars, history>>

\* _sync_confirmed_trade_count: the value competition_state takes.
SyncedCount_NoReset ==           \* fault: the count survives midnight
  IF count > 0 THEN count ELSE Cardinality(Trades(day))
SyncedCount == Cardinality(Trades(day))

StartTick ==
  /\ phase = "idle"
  /\ phase' = "fetch"
  /\ count' = SyncedCount
  /\ loopDay' = day
  /\ UNCHANGED <<envVars, chain, dbVars, ticks, todo, traded, hand, history>>

\* Emergency pause, or a stale snapshot.
SkipTick ==
  /\ phase = "fetch"
  /\ LeaveTick({})
  /\ UNCHANGED <<envVars, chain, dbVars, memVars>>

\* refresh_pending_receipts: each row of the window that is asked about takes
\* the answer.  A pass that raises half way has refreshed some rows and then
\* leaves by TickFails.
RefreshReceipts ==
  /\ phase = "fetch"
  /\ \E asked \in SUBSET {x \in Tx : Refreshable(x)} :
     \E answer \in [asked -> ConfState] :
       /\ \A x \in asked : answer[x] \in Confirmation(x)
       /\ receipts' = [x \in Tx |-> IF x \in asked
                                    THEN Answered(x, answer[x])
                                    ELSE receipts[x]]
  /\ phase' = "score"
  /\ UNCHANGED <<envVars, chain, opsCount, memVars, tickVars, history>>

\* The disqualification gate of competition mode: no signal, no execution.
DqStop ==
  /\ phase = "score" /\ CompetitionMode
  /\ opsCount' = [opsCount EXCEPT ![day] = count]
  /\ LeaveTick({})
  /\ UNCHANGED <<envVars, chain, receipts, memVars>>

QuotaAtRisk == count = 0 /\ late

CheckQuota ==
  /\ phase = "score"
  /\ phase' = IF CompetitionMode /\ QuotaAtRisk THEN "fallback" ELSE "signal"
  /\ UNCHANGED <<envVars, chain, dbVars, memVars, tickVars, history>>

Generate ==
  /\ phase = "signal"
  /\ todo' \in Batches
  /\ phase' = "batch"
  /\ UNCHANGED <<envVars, chain, dbVars, memVars, loopDay, traded, hand, history>>

-----------------------------------------------------------------------------
(* execute, called by _fallback_trade and by execute_batch. *)

FallbackCandidate == [token |-> FallbackToken, dir |-> "buy"]

\* The candidate execute() is called with, and where its caller goes on.
NextCandidate == IF phase = "fallback" THEN FallbackCandidate ELSE Head(todo)
HasCandidate == phase = "fallback" \/ (phase = "batch" /\ todo # <<>>)

CallerGoesOn(fallback) ==
  IF fallback THEN phase' = "signal" /\ UNCHANGED todo
              ELSE phase' = "batch" /\ todo' = Tail(todo)

\* HOLD, or a risk or compliance rejection: the receipt says "not sent".
RejectCandidate ==
  /\ HasCandidate
  /\ CallerGoesOn(phase = "fallback")
  /\ receipts' = Saved(NoTx, NoReceipt)
  /\ UNCHANGED <<envVars, chain, opsCount, memVars, loopDay, traded, hand, history>>

\* risk.evaluate's cooldown check.  A token that is absent from the map reads
\* as cooled down, so absence and Cooldown are one value here.
CooledDown(c) == c.dir = "buy" => ticks[c.token] >= Cooldown

\* History: a broadcast purchase, and whether _tick will put it in the map.
Bought(x, cand, fallback, report) ==
  IF x # NoTx /\ cand.dir = "buy"
  THEN /\ rest' = [rest EXCEPT ![cand.token] = 0]
       /\ forgotten' = IF fallback \/ report \in {"failed", "approval"}
                       THEN forgotten \cup {cand.token}
                       ELSE forgotten \ {cand.token}
  ELSE UNCHANGED history

\* One call of the CLI: it broadcasts x, or nothing when x = NoTx, and
\* answers report.  An error does not mean that nothing was sent: the CLI may
\* have broadcast before it failed, or its answer was not JSON.
Broadcast(x, report) ==
  /\ x = NoTx => report \in {"failed", "unsent", "approval"}
  /\ x # NoTx => report # "unsent" /\ chain[x] = "unused"
  /\ chain' = [y \in Tx |-> IF y = x THEN "inflight" ELSE chain[y]]

\* twak.swap up to the CLI's first answer, with the receipt dated before it.
\* Of an attempt answered with an approval error nothing is kept.  A call that
\* raises (timeout) may have broadcast too, and leaves by TickFails.
SendSwap ==
  /\ HasCandidate /\ NextCandidate.dir # "hold"
  /\ CooledDown(NextCandidate)
  /\ \E x \in Tx \cup {NoTx}, report \in FirstReport :
       /\ Broadcast(x, report)
       /\ hand' = [tx |-> IF report = "approval" THEN NoTx ELSE x,
                   cand |-> NextCandidate, fallback |-> phase = "fallback",
                   report |-> report, day |-> day]
       /\ phase' = IF report = "approval" THEN "retry" ELSE "sent"
       /\ Bought(x, NextCandidate, phase = "fallback", report)
  /\ UNCHANGED <<envVars, dbVars, memVars, loopDay, todo, traded>>

\* The second attempt, whose approval error is a failure like any other.
SendAgain ==
  /\ phase = "retry"
  /\ \E x \in Tx \cup {NoTx}, report \in Report \ {"unsent"} :
       /\ Broadcast(x, report)
       /\ hand' = [hand EXCEPT !.tx = x, !.report = report]
       /\ Bought(x, hand.cand, hand.fallback, report)
  /\ phase' = "sent"
  /\ UNCHANGED <<envVars, dbVars, memVars, loopDay, todo, traded>>

\* get_portfolio, then _finalise, then the immediate refresh_pending_receipt
\* of a row with a hash.  An error of the first two leaves by TickFails with
\* no row; an error of the refresh is swallowed.
FirstConf_Untranslated(x, report) ==   \* fault: the execution status is stored
  IF report = "hash" THEN Confirmation(x) ELSE {report}
FirstConf(x, report) ==
  CASE report = "hash"   -> Confirmation(x)
    [] report = "nohash" -> {"confirmed"}
    [] OTHER             -> {"failed"}

RecordReceipt ==
  /\ phase = "sent"
  /\ IF hand.tx = NoTx
     THEN receipts' = Saved(NoTx, NoReceipt)
     ELSE \E conf \in FirstConf(hand.tx, hand.report) :
            receipts' = Saved(hand.tx, [conf |-> conf, hash |-> hand.report = "hash",
                                        day |-> hand.day, newer |-> 0])
  /\ traded' = IF hand.report \in {"hash", "nohash"} /\ ~hand.fallback
               THEN traded \cup {hand.cand.token} ELSE traded
  /\ CallerGoesOn(hand.fallback)
  /\ hand' = EmptyHand
  /\ UNCHANGED <<envVars, chain, opsCount, memVars, loopDay, history>>

-----------------------------------------------------------------------------
(* The end of a tick, and of the process. *)

\* Cooldown ticks stop growing at Cooldown, where no check tells them apart.
Older(n) == IF n < Cooldown THEN n + 1 ELSE n

\* The cooldown map after a batch: a token that just traded restarts at 0.
NextTicks_KeepTraded ==          \* fault: a trade does not restart the count
  [t \in Tokens |-> Older(ticks[t])]
NextTicks == [t \in Tokens |-> IF t \in traded THEN 0 ELSE Older(ticks[t])]

FinishTick ==
  /\ phase = "batch" /\ todo = <<>>
  /\ ticks' = NextTicks
  /\ opsCount' = [opsCount EXCEPT ![day] = count]
  /\ LeaveTick({})
  /\ UNCHANGED <<envVars, chain, receipts, count>>

\* Any step may raise.  run_loop logs it and sleeps; the synced count was
\* written into the old state object, everything later in the tick is lost.
TickFails ==
  /\ InTick
  /\ LeaveTick({t \in Tokens : rest[t] = 0})
  /\ UNCHANGED <<envVars, chain, dbVars, memVars>>

Crash ==
  /\ phase # "down"
  /\ phase' = "down"
  /\ count' = 0 /\ ticks' = [t \in Tokens |-> Cooldown]
  /\ todo' = <<>> /\ traded' = {} /\ hand' = EmptyHand
  /\ loopDay' = 1
  /\ forgotten' = {t \in Tokens : rest[t] <= Cooldown}
  /\ UNCHANGED <<envVars, chain, dbVars, rest>>

-----------------------------------------------------------------------------
Init ==
  /\ day = 1 /\ late = FALSE
  /\ chain = [x \in Tx |-> "unused"]
  /\ receipts = [x \in Tx |-> NoReceipt]
  /\ opsCount = [d \in Days |-> 0]
  /\ phase = "down" /\ loopDay = 1
  /\ count = 0 /\ ticks = [t \in Tokens |-> Cooldown]
  /\ todo = <<>> /\ traded = {} /\ hand = EmptyHand
  /\ rest = [t \in Tokens |-> Cooldown + 1] /\ forgotten = {}

Tick ==
  \/ StartTick \/ SkipTick \/ RefreshReceipts \/ DqStop \/ CheckQuota
  \/ Generate \/ RejectCandidate \/ SendSwap \/ SendAgain \/ RecordReceipt
  \/ FinishTick

World ==
  \/ NewDay \/ ReachCutoff
  \/ \E x \in Tx, outcome \in {"mined", "reverted"} : SettleSwap(x, outcome)

Next == World \/ Boot \/ Tick \/ TickFails \/ Crash

Spec == Init /\ [][Next]_vars

-----------------------------------------------------------------------------
(* Safety. *)

\* During a tick the count the fallback and compliance checks go by never
\* exceeds the swaps of the tick's own day that the chain really executed
\* (run.py:210 reconciles it from the trades view), whatever midnight, a
\* restart from the ops row or a late confirmation did to it before.
MinedOn(d) == {x \in Tx : /\ chain[x] = "mined"
                          /\ receipts[x].conf # "none" /\ receipts[x].day = d}
QuotaNotOverstated == InTick => count <= Cardinality(MinedOn(loopDay))

\* The ops row of a day, from which a restart restores the count
\* (run.py:169), counts trades of that day or, after a tick that spanned
\* midnight (run.py:450), of the day before: never more than either has.
OpsRowTraceable ==
  \A d \in Days : \/ opsCount[d] <= Cardinality(MinedOn(d))
                  \/ d > 1 /\ opsCount[d] <= Cardinality(MinedOn(d - 1))

\* A swap of the agent is being asked for, to buy t.
AtCli == {"retry", "sent"}
Buys(t) == phase \notin AtCli /\ phase' \in AtCli
           /\ hand'.cand = [token |-> t, dir |-> "buy"]

\* Between two purchases of a token lie at least Cooldown whole ticks
\* (risk.py:91-98, run.py:439-447), unless the map never learned of the
\* first: it was the fallback trade, was reported as an error, or the tick or
\* the process died before the batch was over.
CooldownHeld ==
  [][\A t \in Tokens : Buys(t) => rest[t] > Cooldown \/ t \in forgotten]_vars

\* A broadcast swap gets to be without a row in two ways only, one swap at a
\* time: the tick or the process ended while execute() held its result
\* (execution.py:201-253), or it was the first attempt of a call, answered
\* with an approval error, after which the result of the second attempt is
\* the one that is kept (twak.py:670-673, 709-712).
Orphans == {x \in Tx : /\ chain[x] # "unused" /\ receipts[x].conf = "none"
                       /\ hand.tx # x}
OrphanOnlyByFailure ==
  [][Orphans' # Orphans =>
       \/ /\ phase = "sent" /\ phase' \in {"idle", "down"}
          /\ Orphans' = Orphans \cup {hand.tx}
       \/ /\ phase # "retry" /\ phase' = "retry"
          /\ \E x \in Tx : Orphans' = Orphans \cup {x}]_vars

\* The receipts table keeps the promise of TradeLedger: each swap booked once,
\* settled once, and only as the chain settled it.
BookEntry(row) == IF row.conf = "none" \/ row.hash THEN row.conf ELSE "untracked"
Ledger == INSTANCE TradeLedger WITH book <- [x \in Tx |-> BookEntry(receipts[x])]
LedgerKept == Ledger!Spec

-----------------------------------------------------------------------------
(* What documents and comments say, and the code does not do. *)

\* competition.py:58: the fallback is for a day on which "no qualifying trade
\* has been made".
FallbackOnlyWhenNeeded ==
  [][phase = "fallback" /\ phase' \in AtCli => Trades(day) = {}]_vars

-----------------------------------------------------------------------------
(* Liveness. *)

\* run_loop never stops ticking by itself: while the process is up, some step
\* of the loop follows.  Nobody restarts a dead process.  How far ticks get is
\* not up to the loop alone (they return early when paused or when the
\* snapshot is stale, and may raise), so it is a premise of each property.
FairSpec == Spec /\ WF_vars(Tick)

\* The chain's node, asked about a settled swap in pass after pass, tells in
\* one of them.
AskedAbout(x) == RefreshReceipts /\ Refreshable(x) /\ chain[x] # "inflight"
ToldAbout(x) == AskedAbout(x) /\ receipts'[x].conf # "pending"
NodeAnswers ==
  \A x \in Tx : []<><<AskedAbout(x)>>_vars => []<><<ToldAbout(x)>>_vars

\* If refresh passes follow each other and the node answers, a pending row
\* whose swap the chain has settled leaves "pending", even if no tick ever
\* again gets past the disqualification gate and however few rows a pass asks
\* about, unless newer rows push it out of the window (tx_confirmation.py:92)
\* or the process dies.
PendingSettles ==
  []<><<RefreshReceipts>>_vars /\ NodeAnswers =>
    \A x \in Tx :
      receipts[x].conf = "pending" /\ chain[x] # "inflight"
        ~> \/ receipts[x].conf # "pending"
           \/ receipts[x].newer = Window \/ phase = "down"

\* tx_confirmation.py:87: "Refresh all pending receipts in the DB", so that
\* under the same premises every such row leaves "pending".
EveryPendingSettles ==
  []<><<RefreshReceipts>>_vars /\ NodeAnswers =>
    \A x \in Tx :
      receipts[x].conf = "pending" /\ chain[x] # "inflight"
        ~> receipts[x].conf # "pending" \/ phase = "down"

\* If ticks get past the snapshot, the errors and the gates again and again,
\* then after the cutoff hour of a day without a confirmed trade the fallback
\* is tried, whatever the count was on the day before (competition.py:57-62).
QuotaDefended ==
  []<><<CheckQuota>>_vars =>
    \A d \in Days :
      day = d /\ late /\ Trades(d) = {}
        ~> phase \in {"fallback", "down"} \/ day # d \/ Trades(d) # {}
=============================================================================
