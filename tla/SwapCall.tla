----------------------------- MODULE SwapCall ------------------------------
(***************************************************************************)
(* One trade, from the moment execute() hands it to the TWAK adapter until *)
(* it has an ExecutionResult: cancelling the open ladder of the token,     *)
(* placing the rungs of a new one, the market swap when none was accepted, *)
(* the quote before a swap and the second try after an approval.  Every    *)
(* step is one call of the twak CLI, which may do what it was asked and    *)
(* report an error, or report nothing before its timeout; limit orders     *)
(* fill on their own between any two steps.                                *)
(*                                                                         *)
(* AtomicTrade is the same trade as one step, as execute() may see it.     *)
(***************************************************************************)
EXTENDS Ladder, FiniteSets

CONSTANTS
  Trades,            \* the trades: size in cents, and how many rungs (0: none)
  LeftOpen,          \* orders a previous run of the process left open
  Ids                \* bound: numbers that tell the trades with open orders apart

ASSUME SwapCallAssumption ==
  /\ Trades \subseteq [size : Nat \ {0}, rungs : Nat]
  /\ LeftOpen \subseteq {0} \X Nat
  /\ Ids \in Nat \ {0, 1}

VARIABLES
  dry,               \* cfg.dry_run
  pc,                \* the CLI call that comes next
  calls,             \* the number of the trade under way
  trade,             \* the one under way
  todo,              \* listed orders still to delete
  rung,              \* the next rung to place
  placed,            \* rungs the CLI accepted
  attempt,           \* attempts at the swap before this one
  result,            \* the status execute() gets; "raised" if it gets none
  orders,            \* at TWAK: open limit orders <<call, rung>> of the token
  committed,         \* history: what this trade put at stake
  acked,             \* history: as much of it as the CLI acknowledged
  concealed,         \* history: what it put at stake though the CLI said it failed
  leaked             \* history: orders a cancellation failed to remove

control == <<dry, calls, trade>>
ladder  == <<todo, rung, placed>>
stakes  == <<committed, acked, concealed>>
vars == <<control, pc, ladder, attempt, result, orders, stakes, leaked>>

NoTrade == [size |-> 0, rungs |-> 0]
DustUsd == 50        \* cents below which a rung is skipped

TypeOK ==
  /\ dry \in BOOLEAN /\ calls \in 0 .. Ids - 1 /\ trade \in Trades \cup {NoTrade}
  /\ pc \in {"idle", "list", "delete", "place", "quote", "swap", "settle", "done"}
  /\ rung \in 1 .. trade.rungs + 1 /\ placed \in 0 .. trade.rungs /\ attempt \in {0, 1}
  /\ result \in {"none", "executed", "placed", "failed", "skipped", "dry_run", "raised"}
  /\ todo \in SUBSET ((0 .. Ids - 1) \X Nat)
  /\ orders \in SUBSET ((0 .. Ids - 1) \X Nat)
  /\ leaked \subseteq orders
  /\ committed \in Nat /\ acked \in Nat /\ concealed \in Nat

-----------------------------------------------------------------------------
(* execute() and its choice of the ladder branch. *)

Return(status) == pc' = "done" /\ result' = status

\* candidate.rungs of a BUY in ladder mode; otherwise the market swap, which
\* paper mode answers at once.  A number is taken again once no order bears it.
Begin(t) ==
  /\ pc \in {"idle", "done"}
  /\ calls' = (calls + 1) % Ids /\ trade' = t
  /\ \A o \in orders : o[1] # calls'
  /\ IF t.rungs > 0 THEN pc' = "list" /\ result' = "none"
     ELSE IF dry THEN Return("dry_run") ELSE pc' = "quote" /\ result' = "none"
  /\ todo' = {} /\ rung' = 1 /\ placed' = 0 /\ attempt' = 0
  /\ committed' = 0 /\ acked' = 0 /\ concealed' = 0
  /\ UNCHANGED <<dry, orders, leaked>>

-----------------------------------------------------------------------------
(* cancel_automations.  Paper mode does not stop it. *)

\* The open orders of the token, or an error, after which nothing is deleted.
ListOrders ==
  /\ pc = "list"
  /\ \/ /\ todo' = orders
        /\ pc' = IF orders = {} THEN "place" ELSE "delete"
        /\ UNCHANGED leaked
     \/ /\ pc' = "place" /\ leaked' = orders
        /\ UNCHANGED todo
  /\ UNCHANGED <<control, rung, placed, attempt, result, orders, stakes>>

\* One order is deleted, or it is not and the error is swallowed.
StillToDelete_Rest(o) == {}         \* fault: the first deletion ends the loop
StillToDelete(o) == todo \ {o}
DeleteOrder(o) ==
  /\ pc = "delete" /\ o \in todo
  /\ todo' = StillToDelete(o)
  /\ pc' = IF todo' = {} THEN "place" ELSE "delete"
  /\ \/ orders' = orders \ {o} /\ leaked' = leaked \ {o}
     \/ leaked' = leaked \cup ({o} \cap orders) /\ UNCHANGED orders
  /\ UNCHANGED <<control, rung, placed, attempt, result, stakes>>

-----------------------------------------------------------------------------
(* place_limit_orders. *)

AmountOf(i) == RungSize(trade.size, Weights("fibonacci", trade.rungs), i)
Dust(i) == AmountOf(i) < DustUsd

\* Whether place_limit_orders stops before the CLI.
PaperLadder == dry

\* The CLI took the order or it did not; it said so or it did not.
PlaceRung ==
  /\ pc = "place" /\ rung <= trade.rungs /\ ~PaperLadder
  /\ rung' = rung + 1
  /\ IF Dust(rung) THEN UNCHANGED <<placed, orders, stakes>>
     ELSE \E taken \in BOOLEAN, said \in BOOLEAN :
       /\ said => taken
       /\ orders' = IF taken THEN orders \cup {<<calls, rung>>} ELSE orders
       /\ committed' = committed + Points(taken, AmountOf(rung))
       /\ acked' = acked + Points(said, AmountOf(rung))
       /\ concealed' = concealed + Points(taken /\ ~said, AmountOf(rung))
       /\ placed' = placed + Points(said, 1)
  /\ UNCHANGED <<control, pc, todo, attempt, result, leaked>>

\* No rung was accepted: the status is FAILED and a market swap follows.
NonePlaced_Some == placed < trade.rungs   \* fault: one failed rung is enough
NonePlaced == placed = 0
EndLadder ==
  /\ pc = "place" /\ (PaperLadder \/ rung > trade.rungs)
  /\ IF PaperLadder THEN Return("dry_run")
     ELSE IF NonePlaced THEN pc' = "quote" /\ UNCHANGED result
     ELSE Return("placed")
  /\ UNCHANGED <<control, ladder, attempt, orders, stakes, leaked>>

-----------------------------------------------------------------------------
(* _real_swap. *)

\* A quote over the slippage cap ends the call; one that fails does not.
AskQuote ==
  /\ pc = "quote"
  /\ \/ pc' = "swap" /\ UNCHANGED result
     \/ Return("skipped")
  /\ UNCHANGED <<control, ladder, attempt, orders, stakes, leaked>>

\* What the CLI may say of the swap: done, with a transaction hash or without,
\* an approval error, another error, or nothing: a timeout, which is no
\* RuntimeError and which no handler below run_loop turns into a result.
Answers == {"hash", "nohash", "approval", "error", "timeout"}
IsRetryable_AnyError(says) == says \in {"approval", "error"}   \* fault
IsRetryable(says) == says = "approval"

StatusOf_NoHashFails(says) ==    \* fault: an answer without a hash is an error
  CASE says = "hash"    -> "executed"
    [] says = "timeout" -> "raised"
    [] OTHER            -> "failed"
StatusOf(says) ==
  CASE says \in {"hash", "nohash"} -> "executed"
    [] says = "timeout"            -> "raised"
    [] OTHER                       -> "failed"

LastAttempt_Never == FALSE       \* fault: the attempts are not counted
LastAttempt == attempt = 1

TrySwap ==
  /\ pc = "swap"
  /\ \E says \in Answers, sent \in BOOLEAN :
       /\ says \in {"hash", "nohash"} => sent
       /\ committed' = committed + Points(sent, trade.size)
       /\ acked' = acked + Points(says \in {"hash", "nohash"}, trade.size)
       /\ concealed' = concealed + Points(sent /\ says = "approval", trade.size)
       /\ IF IsRetryable(says) /\ ~LastAttempt
          THEN pc' = "settle" /\ UNCHANGED result
          ELSE Return(StatusOf(says))
  /\ UNCHANGED <<control, ladder, attempt, orders, leaked>>

\* Five seconds for the allowance to settle, then the same swap again.
NextAttempt_Same == attempt      \* fault: the loop does not advance
NextAttempt == attempt + 1
Retry ==
  /\ pc = "settle"
  /\ pc' = "swap" /\ attempt' = NextAttempt
  /\ UNCHANGED <<control, ladder, result, orders, stakes, leaked>>

-----------------------------------------------------------------------------
\* A limit order is executed when its price is reached.
FillOrder(o) ==
  /\ o \in orders
  /\ orders' = orders \ {o} /\ leaked' = leaked \ {o}
  /\ UNCHANGED <<control, pc, ladder, attempt, result, stakes>>

Init ==
  /\ dry \in BOOLEAN /\ pc = "idle" /\ calls = 0 /\ trade = NoTrade
  /\ todo = {} /\ rung = 1 /\ placed = 0 /\ attempt = 0 /\ result = "none"
  /\ orders = LeftOpen /\ leaked = {}
  /\ committed = 0 /\ acked = 0 /\ concealed = 0

Step ==
  \/ ListOrders \/ (\E o \in todo : DeleteOrder(o))
  \/ PlaceRung \/ EndLadder \/ AskQuote \/ TrySwap \/ Retry

Next ==
  \/ \E t \in Trades : Begin(t)
  \/ Step
  \/ \E o \in orders : FillOrder(o)

\* subprocess.run kills a CLI that outlives its timeout, so every call ends.
Spec == Init /\ [][Next]_vars
FairSpec == Spec /\ WF_vars(Step)

-----------------------------------------------------------------------------
(* Safety. *)

\* A trade puts no more at stake than its size (execution.py:168-208), except
\* for what the CLI took while it said that it had failed: rungs reported as
\* refused, or a swap sent with an "approval sent" error (twak.py:670).
NoDoubleCommitment == committed <= trade.size + concealed

\* The status tells what the CLI acknowledged: EXECUTED or PLACED if it
\* acknowledged anything, and only then; what a receipt books as failed or
\* skipped is what the CLI never owned up to (execution.py:210).
OutcomeTold ==
  pc = "done" => (acked > 0 <=> result \in {"executed", "placed"})

\* Orders of two different trades are open together only if a cancellation
\* failed for the older ones (execution.py:177-178, twak.py:292-323).
LaddersReplaced ==
  \A o, p \in orders \ leaked : o[1] = p[1]

\* Paper mode sends no swap and places no order (twak.py:130, 279).
DryRunAddsNothing == dry => committed = 0

\* Seen from execute(), the calls of a trade are one step: nothing is at stake
\* under an answer that was given before, every request gets one answer, it
\* fits what was done, and the size is staked by the ladder and by each of two
\* attempts at the most (execution.py:166-208, twak.py:662).
Asked == INSTANCE AtomicTrade WITH
           status <- IF pc = "done" THEN result ELSE IF pc = "idle" THEN "none" ELSE "pending",
           staked <- IF pc = "done" THEN committed ELSE 0,
           told   <- IF pc = "done" THEN acked ELSE 0,
           hidden <- IF pc = "done" THEN concealed ELSE 0
CallIsOneStep == Asked!Spec

-----------------------------------------------------------------------------
(* Liveness. *)

\* Every trade gets a result or an exception: the second try is the last one
\* (twak.py:662), and a loop over rungs or orders ends.
CallEnds == pc # "idle" ~> pc = "done"
=============================================================================
