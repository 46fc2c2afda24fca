--------------------------- MODULE AgenticSignal ---------------------------
(***************************************************************************)
(* A signal that a language model gives (signal.py, llm.py): the rounds of *)
(* tool calls it may ask for, the reading of its answer, and the batch of  *)
(* trades that goes to Keel, or the strategy that takes over when the      *)
(* model gives none.  The snapshot, the token ids and the tools are those  *)
(* of MarketData.                                                          *)
(*                                                                         *)
(* A line of an answer is the header, a decision or anything else; a row   *)
(* may be decorated ("- ETH,buy,..").  Sizes are in basis points.          *)
(***************************************************************************)
EXTENDS MarketData, Ladder

CONSTANTS
  Answers,           \* the answers the model may give
  Reading,           \* Reading[t]: what the snapshot says of a token
  Drift,             \* Drift[t]: how far a token is from its target weight
  MaxTradeBps,       \* max_trade_size_pct
  LeastBps,          \* twice the estimated cost
  MaxActions,        \* helm_max_actions_per_tick
  MaxRounds,         \* helm_max_tool_rounds
  MaxCalls           \* bound: the tools one reply asks for

AnswerLine ==
  [kind : {"header", "row", "prose"}, token : Symbols, clean : BOOLEAN,
   dir : {"buy", "sell", "hold"}, bps : Int]

ASSUME AgenticAssumption ==
  /\ Answers \subseteq Seq(AnswerLine)
  /\ DOMAIN Reading = Symbols
  /\ DOMAIN Drift \subseteq Symbols /\ Drift \in [DOMAIN Drift -> Int]
  /\ MaxTradeBps \in Nat /\ LeastBps \in Nat
  /\ MaxActions \in Nat \ {0} /\ MaxRounds \in Nat /\ MaxCalls \in Nat \ {0}

VARIABLES
  helm,              \* the provider of the tool loop, or the one-shot strategy
  round, calls,      \* rounds made; tool calls of this one still to be made
  decision           \* what the strategy returns

vars == <<dataVars, helm, round, calls, decision>>

Undecided == [source |-> "none", batch |-> <<>>]
Deterministic == [source |-> "deterministic", batch |-> <<>>]
HoldAction == [token |-> "ALL", dir |-> "hold", bps |-> 0, mode |-> "market", rungs |-> 0]

TypeOK ==
  /\ MarketTypeOK
  /\ helm \in {"mistral", "openai", "oneshot"}
  /\ round \in 0 .. MaxRounds /\ calls \in 0 .. MaxCalls
  /\ decision.source \in {"none", "deterministic", "agentic", "oneshot", "raised"}
  /\ pc # "tick" => decision = Undecided /\ round = 0 /\ calls = 0

-----------------------------------------------------------------------------
(* _build_candidate. *)

\* A ladder of an amount that is too small, or without a price, has no rungs:
\* it stays a ladder, and is executed as a swap.
Candidate(t, dir, bps) ==
  LET mode == IF t \in snap.tokens THEN ExecutionMode(Reading[t], dir) ELSE "market"
  IN [token |-> t, dir |-> dir, bps |-> bps, mode |-> mode,
      rungs |-> IF mode = "ladder" /\ bps > 50 /\ t \in snap.priced THEN 5 ELSE 0]

Clamped(bps) == Within(0, bps, MaxTradeBps)
Eligible(row) == row.clean /\ row.token \in DOMAIN settings

-----------------------------------------------------------------------------
(* _generate_agentic, once the model has answered. *)

\* The rows, by their lines: the first of each token, whatever decorates it.
Rows_Repeated(answer) == {i \in DOMAIN answer : answer[i].kind = "row"}   \* fault
Rows(answer) ==
  {i \in DOMAIN answer :
     /\ answer[i].kind = "row"
     /\ \A j \in 1 .. i - 1 : answer[j].kind = "row" => answer[j].token # answer[i].token}

\* No purchase of what is overbought, nothing that is too small for its cost.
Overbought(t) == t \in snap.tokens /\ Reading[t].rsi > 70
Guarded(row) ==
  \/ row.dir = "buy" /\ Overbought(row.token)
  \/ row.dir # "hold" /\ Clamped(row.bps) < LeastBps

CandidateOf(row) ==
  IF Guarded(row) THEN Candidate(row.token, "hold", 0)
                  ELSE Candidate(row.token, row.dir, Clamped(row.bps))

\* The candidates, and those that trade, by the lines they come from.
Candidates(answer) ==
  [i \in {j \in Rows(answer) : Eligible(answer[j])} |-> CandidateOf(answer[i])]
Actionable(cands) == {i \in DOMAIN cands : cands[i].dir # "hold"}

\* Ranked by drift, and by size where no drift is known.
DriftOf(c) == IF c.token \in DOMAIN Drift \cap snap.tokens THEN Size(Drift[c.token]) ELSE c.bps

Outranks_Smaller(a, b) == DriftOf(a) < DriftOf(b)     \* fault: the smallest first
Outranks(a, b) == DriftOf(a) > DriftOf(b)

\* The sort is stable: of two that are level the earlier line comes first.
Before(cands, i) ==
  {j \in Actionable(cands) : \/ Outranks(cands[j], cands[i])
                             \/ j < i /\ ~Outranks(cands[i], cands[j])}
Ranked(cands, k) == CHOOSE i \in Actionable(cands) : Cardinality(Before(cands, i)) = k - 1

Batch(cands) ==
  LET act == Actionable(cands)
  IN IF act = {} THEN <<cands[Min(DOMAIN cands)]>>
     ELSE [k \in 1 .. Min({MaxActions, Cardinality(act)}) |-> cands[Ranked(cands, k)]]

\* Without a candidate the path raises, and the strategy decides by itself.
Agentic(answer) ==
  LET cands == Candidates(answer)
  IN IF DOMAIN cands = {} THEN Deterministic
     ELSE [source |-> "agentic", batch |-> Batch(cands)]

\* The one-shot strategy takes the first line that is not the header for its
\* row, whatever it is, and holds if that does not do.
OneShot(answer) ==
  LET lines == {i \in DOMAIN answer : answer[i].kind # "header"}
      row == answer[Min(lines)]
      bad == lines = {} \/ row.kind # "row" \/ ~Eligible(row)
  IN [source |-> "oneshot",
      batch |-> IF bad THEN <<HoldAction>>
                ELSE <<Candidate(row.token, row.dir, Clamped(row.bps))>>]

-----------------------------------------------------------------------------
(* complete_with_tools, and the strategy that calls it. *)

Deciding == pc = "tick" /\ decision = Undecided
AtModel == Deciding /\ calls = 0 /\ (helm = "oneshot" \/ key)

\* The model asks for tools, as long as it may.
AskTools ==
  /\ AtModel /\ helm # "oneshot" /\ round < MaxRounds
  /\ calls' \in 1 .. MaxCalls
  /\ UNCHANGED <<dataVars, helm, round, decision>>

NextRound_Same == round            \* fault: the rounds are not counted
NextRound == round + 1

RunTool ==
  /\ Deciding /\ calls > 0
  /\ \E t \in Symbols, found \in BOOLEAN : CallTool(t, found)
  /\ calls' = calls - 1
  /\ round' = IF calls = 1 THEN NextRound ELSE round
  /\ UNCHANGED <<pc, conf, todo, prices, table, clock, boots, addressed, helm, decision>>

\* It answers.  Mistral is told to call a tool first; after the last round the
\* model is asked once more, without tools.
Answer(answer) ==
  /\ AtModel
  /\ helm = "mistral" => round > 0 \/ MaxRounds = 0
  /\ decision' = IF helm = "oneshot" THEN OneShot(answer) ELSE Agentic(answer)
  /\ UNCHANGED <<dataVars, helm, round, calls>>

\* The call raises: a strategy takes over, the one-shot strategy has none.
ModelFails ==
  /\ AtModel
  /\ decision' = IF helm = "oneshot" THEN [Undecided EXCEPT !.source = "raised"]
                                     ELSE Deterministic
  /\ UNCHANGED <<dataVars, helm, round, calls>>

\* Without CMC there are no tools, and the model is not asked.
NoTools ==
  /\ Deciding /\ helm # "oneshot" /\ ~key
  /\ decision' = Deterministic
  /\ UNCHANGED <<dataVars, helm, round, calls>>

\* The rest of the tick, and the sleep.
EndTick ==
  /\ pc = "tick" /\ decision # Undecided
  /\ pc' = "up" /\ clock' = clock + 1
  /\ round' = 0 /\ calls' = 0 /\ decision' = Undecided
  /\ UNCHANGED <<conf, todo, ids, prices, table, boots, addressed, helm>>

TickStep ==
  \/ AskTools \/ RunTool \/ ModelFails \/ NoTools \/ EndTick
  \/ \E answer \in Answers : Answer(answer)

Data == (Boot \/ BootStep \/ Fetch) /\ UNCHANGED <<helm, round, calls, decision>>
Die == Crash /\ round' = 0 /\ calls' = 0 /\ decision' = Undecided /\ UNCHANGED helm

Init == /\ MarketInit
        /\ helm \in {"mistral", "openai", "oneshot"}
        /\ round = 0 /\ calls = 0 /\ decision = Undecided

Next == Data \/ TickStep \/ Die

\* The calls of a tick return or raise; nothing makes the loop go on or a
\* process start.
Spec == Init /\ [][Next]_vars /\ WF_vars(TickStep)

-----------------------------------------------------------------------------
(* Safety. *)

\* What reaches Keel from the model: a hold alone, or at most MaxActions trades
\* of as many eligible tokens, none overbought, none too small for its cost or
\* above the cap (signal.py:239-340).
Sound(b) ==
  /\ Len(b) \in 1 .. MaxActions
  /\ \A i, j \in DOMAIN b : b[i].token = b[j].token => i = j
  /\ \A i \in DOMAIN b :
       /\ b[i].token \in DOMAIN settings
       /\ b[i].dir = "hold" => Len(b) = 1
       /\ b[i].dir # "hold" => b[i].bps \in LeastBps .. MaxTradeBps
       /\ b[i].dir = "buy" => ~Overbought(b[i].token)
BatchSound == decision.source = "agentic" => Sound(decision.batch)

\* The trades of a batch come largest drift first, so that the exposure that is
\* left when Keel looks at a later one is what the more urgent ones left
\* (signal.py:304-307).
Urgent(b) == \A i, j \in DOMAIN b : i <= j => DriftOf(b[i]) >= DriftOf(b[j])
UrgentFirst == decision.source = "agentic" => Urgent(decision.batch)

\* Whatever the model asks for, a tick comes to an end (llm.py:148-214).
TickEnds == pc = "tick" ~> pc # "tick"
=============================================================================
