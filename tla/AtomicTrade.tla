---------------------------- MODULE AtomicTrade ----------------------------
(***************************************************************************)
(* What execute() may take a trade for: one step, from the request to an   *)
(* answer, with no quote, no ladder, no second try and no open order in    *)
(* sight.  The answer tells how much the trade put at stake, how much of   *)
(* that the CLI acknowledged, and how much it concealed, that is, took     *)
(* while it reported an error that does not end the call.                  *)
(*                                                                         *)
(* SwapCall implements this module, call by call of the CLI.  Exposure and *)
(* AgentLoop take their swaps as they are here.                            *)
(***************************************************************************)
EXTENDS Integers

CONSTANTS
  Trades,            \* the trades: size in cents, and how many rungs (0: none)
  NoTrade

VARIABLES
  dry,               \* cfg.dry_run
  trade,             \* the one asked for
  status,            \* its ExecutionStatus, if it has one
  staked, told, hidden     \* at stake, acknowledged, concealed

vars == <<dry, trade, status, staked, told, hidden>>
money == <<staked, told, hidden>>

Status == {"executed", "placed", "skipped", "failed", "raised", "dry_run"}

(***************************************************************************)
(* An acknowledged swap is of the whole size; a ladder, acknowledged or    *)
(* not, of no more.  Where the answer is a failure or an exception, the    *)
(* swap may have been sent all the same.  Paper mode stakes nothing.       *)
(***************************************************************************)
Fits(t, paper, s, at, ack, con) ==
  /\ s = "dry_run" <=> paper
  /\ s = "dry_run" => at = 0 /\ ack = 0 /\ con = 0
  /\ s = "executed" => ack = t.size /\ at = con + t.size
  /\ s = "placed" => t.rungs > 0 /\ ack > 0 /\ at = con + ack /\ at <= t.size
  /\ s = "skipped" => ack = 0 /\ at = con
  /\ s \in {"failed", "raised"} => ack = 0 /\ at \in {con, con + t.size}

\* The size is staked by a ladder and by two attempts at a swap at the most.
Tries(t) == IF t.rungs > 0 THEN 3 ELSE 2

Init ==
  /\ dry \in BOOLEAN /\ trade = NoTrade /\ status = "none"
  /\ money = <<0, 0, 0>>

\* A request, which paper mode may answer at once.
Ask(t) ==
  /\ status # "pending"
  /\ trade' = t
  /\ status' = "pending" \/ (dry /\ status' = "dry_run")
  /\ money' = <<0, 0, 0>>
  /\ UNCHANGED dry

\* The one answer it gets.
Answer ==
  /\ status = "pending"
  /\ status' \in Status /\ staked' \in Nat /\ told' \in Nat /\ hidden' \in Nat
  /\ Fits(trade, dry, status', staked', told', hidden')
  /\ staked' <= Tries(trade) * trade.size
  /\ UNCHANGED <<dry, trade>>

Next == (\E t \in Trades : Ask(t)) \/ Answer

Spec == Init /\ [][Next]_vars
=============================================================================
