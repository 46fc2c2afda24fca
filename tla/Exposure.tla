----------------------------- MODULE Exposure ------------------------------
(***************************************************************************)
(* What the wallet ends up holding: a tick reads the portfolio through     *)
(* TWAK, may send the fallback trade, then executes the signal's batch     *)
(* (execute_batch in execution.py), each trade approved by Keel against a  *)
(* portfolio that was read earlier.  Swaps settle on chain between any two *)
(* steps; the portfolio itself is read in two requests (TWAK's list, then  *)
(* Alchemy's balances).  Every trade is a market swap here: module         *)
(* SwapCall has the ladders.                                               *)
(*                                                                         *)
(* While a tick runs prices are fixed and swaps lose nothing, so the value *)
(* of the wallet is constant and what moves exposure is what the agent     *)
(* does; from one tick to the next the market may turn the wallet into any *)
(* of Wallets.  Candidates pass compliance: a batch with rejected members  *)
(* is a shorter batch.                                                     *)
(***************************************************************************)
EXTENDS Keel, Sequences, FiniteSets, Functions

CONSTANTS
  Tokens,            \* tradeable tokens other than Base
  FallbackToken,     \* the token _fallback_trade buys (ETH)
  Listed,            \* the assets whose balance is taken from TWAK's own list
  MayMiss,           \* the assets a read may lose: see QueryBalances
  Sizes,             \* the sizes, in basis points, the signal proposes
  FallbackMax,       \* fallback_trade_max_cost_usd
  MaxActions,        \* helm_max_actions_per_tick
  Wallets,           \* what the wallet may be worth when a tick begins
  MaxTwice           \* bound: trades of a tick that are broadcast twice

Assets == Tokens \cup {Base}

ASSUME ExposureAssumption ==
  /\ Base \notin Tokens /\ FallbackToken \in Tokens /\ Listed \subseteq Assets
  /\ MayMiss \subseteq Assets
  /\ IsFiniteSet(Tokens) /\ Sizes \subseteq Nat
  /\ FallbackMax \in Nat /\ MaxActions \in Nat \ {0} /\ MaxTwice \in Nat
  /\ Wallets \subseteq [Assets -> Nat]

VARIABLES
  wallet,            \* wallet[a]: the value held on chain in a
  flight,            \* swaps broadcast and not settled, in nonce order
  phase,             \* where the tick is
  listing,           \* the balances of TWAK's list, while the read goes on
  view,              \* the portfolio trades are approved against
  todo,              \* candidates of the batch still to execute
  derisk,            \* drawdown is at or past hard_derisk_drawdown_pct
  start,             \* history: exposure when the tick began
  sight,             \* history: how true the portfolios of this tick were
  twice              \* history: how many of its trades were broadcast twice

chainVars == <<wallet, flight>>
tickVars  == <<listing, view, todo, derisk>>
history   == <<start, sight, twice>>
vars == <<chainVars, phase, tickVars, history>>

Value(w) == SumFunction(w)
RiskOnIn(w) == Value(w) - w[Base]
NoView == [nav |-> 0, held |-> [a \in Assets |-> 0]]

Swap == [from : Assets, to : Assets, amount : Nat]
Candidate == [token : Tokens, dir : {"buy", "sell"}, bps : Nat]

\* Sight: every portfolio was that of the chain with nothing under way; or a
\* swap was under way that one missed, or that was broadcast unreported; or a
\* swap settled within a read, which may count it twice or not at all; or a
\* read lost an asset altogether.
Sight == {"exact", "late", "torn", "blind"}
Worse(now, new) == IF "blind" \in {now, new} THEN "blind"
                   ELSE IF "torn" \in {now, new} THEN "torn"
                   ELSE IF "late" \in {now, new} THEN "late" ELSE "exact"
Phase == {"idle", "list", "query", "fallback", "signal", "batch", "relist", "requery"}

\* The types, and no more swaps under way than the candidates of a tick, but
\* for second attempts: each candidate is executed once, whatever becomes of
\* its swap (execution.py:291).
TypeOK ==
  /\ wallet \in [Assets -> Nat]
  /\ twice \in 0 .. MaxTwice
  /\ flight \in Seq(Swap) /\ Len(flight) <= MaxActions + 1 + twice
  /\ phase \in Phase
  /\ listing \in [Assets -> Nat]
  /\ view.nav \in Nat /\ view.held \in [Assets -> Nat]
  /\ todo \in Seq(Candidate)
  /\ derisk \in BOOLEAN
  /\ start \in Nat /\ sight \in Sight

-----------------------------------------------------------------------------
(* The chain. *)

\* Swaps of one account settle in nonce order.  One whose balance is gone
\* reverts; any other may.
SettleSwap ==
  /\ flight # <<>>
  /\ LET s == Head(flight) IN
     \/ /\ wallet[s.from] >= s.amount
        /\ wallet' = [wallet EXCEPT ![s.from] = @ - s.amount, ![s.to] = @ + s.amount]
     \/ UNCHANGED wallet
  /\ flight' = Tail(flight)
  /\ UNCHANGED <<phase, tickVars, history>>

-----------------------------------------------------------------------------
(* The portfolio (_real_portfolio). *)

\* Swaps of a tick settle before the next one begins, an interval of 15 to
\* 30 minutes later.
StartTick ==
  /\ phase = "idle" /\ flight = <<>>
  /\ phase' = "list"
  /\ wallet' \in Wallets
  /\ derisk' \in BOOLEAN
  /\ start' = RiskOnIn(wallet)' /\ sight' = "exact" /\ twice' = 0
  /\ UNCHANGED <<flight, listing, view, todo>>

ListBalances ==
  /\ phase \in {"list", "relist"}
  /\ phase' = IF phase = "list" THEN "query" ELSE "requery"
  /\ listing' = [a \in Assets |-> IF a \in Listed THEN wallet[a] ELSE 0]
  /\ UNCHANGED <<chainVars, view, todo, derisk, history>>

\* Assets the list does not know, or knows no balance of, take the balance
\* of the second request.  An asset is lost when that request fails, which
\* counts as an empty answer, or when its price is unavailable, which counts
\* as zero.
Supplemented(missed) ==
  [a \in Assets |-> IF a \in missed THEN 0
                    ELSE IF listing[a] > 0 THEN listing[a] ELSE wallet[a]]

QueryBalances ==
  /\ phase \in {"query", "requery"}
  /\ phase' = IF phase = "query" THEN "fallback" ELSE "batch"
  /\ \E missed \in SUBSET MayMiss :
       LET held == Supplemented(missed) IN
       /\ view' = [nav |-> Value(held), held |-> held]
       /\ sight' = Worse(sight,
                     IF \E a \in missed : wallet[a] > 0 \/ listing[a] > 0 THEN "blind"
                     ELSE IF held # wallet THEN "torn"
                     ELSE IF flight # <<>> THEN "late" ELSE "exact")
  /\ listing' = NoView.held
  /\ UNCHANGED <<chainVars, todo, derisk, start, twice>>

-----------------------------------------------------------------------------
(* The trades of a tick. *)

\* _fallback_trade: half a percent of NAV, at most FallbackMax.
FallbackBps ==
  IF view.nav = 0 THEN 0 ELSE LeastOf(50, (FallbackMax * 10000) \div view.nav)
FallbackCandidate == [token |-> FallbackToken, dir |-> "buy", bps |-> FallbackBps]

\* The lists generate() returns, other than a HOLD: distinct tokens.
Batches ==
  UNION {{b \in [1 .. n -> [token : Tokens, dir : {"buy", "sell"}, bps : Sizes]] :
            \A i, j \in 1 .. n : b[i].token = b[j].token => i = j} :
         n \in 1 .. MaxActions}

SkipFallback ==
  /\ phase = "fallback"
  /\ phase' = "signal"
  /\ UNCHANGED <<chainVars, tickVars, history>>

Generate ==
  /\ phase = "signal"
  /\ todo' \in Batches
  /\ phase' = "batch"
  /\ UNCHANGED <<chainVars, listing, view, derisk, history>>

\* The candidate execute() is called with, if any.
Current == IF phase = "fallback" THEN FallbackCandidate ELSE Head(todo)
HasCurrent == phase = "fallback" \/ (phase = "batch" /\ todo # <<>>)

\* Where the caller goes on: the fallback's portfolio is not threaded, the
\* batch's is after a swap that was executed.
GoOn_NotThreaded(executed) ==    \* fault: the portfolio read after is dropped
  IF phase = "fallback" THEN phase' = "signal" /\ UNCHANGED todo
                        ELSE phase' = "batch" /\ todo' = Tail(todo)
GoOn_Retried(executed) ==        \* fault: a failed swap is tried again
  IF phase = "fallback" THEN phase' = "signal" /\ UNCHANGED todo
  ELSE /\ phase' = IF executed THEN "relist" ELSE "batch"
       /\ todo' = IF executed THEN Tail(todo) ELSE todo
GoOn(executed) ==
  IF phase = "fallback" THEN phase' = "signal" /\ UNCHANGED todo
  ELSE /\ phase' = IF executed THEN "relist" ELSE "batch"
       /\ todo' = Tail(todo)

RejectCandidate ==
  /\ HasCurrent /\ ~Approved(Current, view, derisk)
  /\ GoOn(FALSE)
  /\ UNCHANGED <<chainVars, listing, view, derisk, history>>

\* amount_in: the notional, but no more than the portfolio says is there.  A
\* token the portfolio does not mention sets no limit.
From(c) == IF c.dir = "buy" THEN Base ELSE c.token
To(c) == IF c.dir = "buy" THEN c.token ELSE Base
AmountIn(c) ==
  LET amount == Notional(c, view)
      there  == view.held[From(c)]
  IN IF there > 0 THEN LeastOf(amount, there) ELSE amount

\* twak.swap: executed, failed, or skipped (here as failed).  It makes two
\* attempts at most, and one it does not report as executed may have been
\* broadcast all the same; SwapCall has its steps.
SwapOf(c) == [from |-> From(c), to |-> To(c), amount |-> AmountIn(c)]
TakeSwap(c) ==
  \E executed \in BOOLEAN, broadcast \in 0 .. 2 :
    /\ executed => broadcast > 0
    /\ broadcast = 2 => twice < MaxTwice
    /\ flight' = flight \o [i \in 1 .. broadcast |-> SwapOf(c)]
    /\ twice' = IF broadcast = 2 THEN twice + 1 ELSE twice
    /\ sight' = Worse(sight, IF broadcast > (IF executed THEN 1 ELSE 0) THEN "late" ELSE "exact")
    /\ GoOn(executed)

SendSwap ==
  /\ HasCurrent
  /\ Approved(Current, view, derisk)
  /\ TakeSwap(Current)
  /\ UNCHANGED <<wallet, listing, view, derisk, start>>

\* The batch is over, or any step of the tick raised.
EndTick ==
  /\ phase # "idle"
  /\ phase' = "idle"
  /\ todo' = <<>> /\ listing' = NoView.held /\ view' = NoView /\ derisk' = FALSE
  /\ UNCHANGED <<chainVars, history>>

-----------------------------------------------------------------------------
Init ==
  /\ wallet \in Wallets
  /\ flight = <<>>
  /\ phase = "idle" /\ listing = NoView.held /\ view = NoView
  /\ todo = <<>> /\ derisk = FALSE
  /\ start = RiskOnIn(wallet) /\ sight = "exact" /\ twice = 0

Next ==
  \/ SettleSwap \/ StartTick \/ ListBalances \/ QueryBalances \/ SkipFallback \/ Generate
  \/ RejectCandidate \/ SendSwap \/ EndTick

Spec == Init /\ [][Next]_vars

-----------------------------------------------------------------------------
(* Safety. *)

\* The exposure if every purchase under way is mined and no sale is.
Bought(swap) == IF swap.from = Base THEN swap.amount ELSE 0
Sum(s) == SumFunction([i \in DOMAIN s |-> Bought(s[i])])
WorstRiskOn == RiskOnIn(wallet) + Sum(flight)

CapOrStart == LargerOf(Share(Value(wallet), MaxRiskOnBps), start)
FallbackCost == LeastOf(FallbackMax, Share(Value(wallet), 50))

\* With exact portfolios a batch ends within the cap: threading the portfolio
\* from one trade to the next (execution.py:313-316) leaves the fallback
\* trade, which is not threaded (run.py:352), as the only excess.
CapHeldWhenExact == sight = "exact" => WorstRiskOn <= CapOrStart + FallbackCost

\* Whatever settles late, tears a read or is reported FAILED after it was
\* broadcast, a tick exceeds the cap by no more than one largest trade per
\* candidate after the first, and one more for each that was broadcast twice
\* (twak.py:662-716); when a read loses an asset, the first counts too.  The
\* largest trade is the trade cap's share of the wallet, or of twice the wallet
\* when a read may count a swap twice (risk.py:55-77 against whatever portfolio
\* it is shown).
Unseen == IF sight = "blind" THEN MaxActions ELSE MaxActions - 1
MostShown == IF sight \in {"torn", "blind"} THEN 2 * Value(wallet) ELSE Value(wallet)
ExposureBounded ==
  WorstRiskOn <= CapOrStart + FallbackCost + (Unseen + twice) * Share(MostShown, MaxTradeBps)
=============================================================================
