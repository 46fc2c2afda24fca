-------------------------- MODULE AgentLoop_proofs --------------------------
(***************************************************************************)
(* Proofs about AgentLoop for every set of swaps, tokens and every limit:  *)
(* its types and guards, that the receipts table keeps TradeLedger's       *)
(* promise, that a tick's count never exceeds the swaps the chain executed *)
(* that day, in which two ways a swap loses its row, and that the cooldown *)
(* holds wherever the map learned of the first purchase.                   *)
(***************************************************************************)
EXTENDS AgentLoop, FiniteSetTheorems, SequenceTheorems, TLAPS

USE TxAssumption, TokensAssumption, LimitsAssumption

-----------------------------------------------------------------------------
(* Typing. *)

\* The trades of a day are finitely many.
LEMMA TradesFinite ==
  ASSUME NEW d
  PROVE  IsFiniteSet(Trades(d)) /\ Cardinality(Trades(d)) \in Nat
<1>1. Trades(d) \subseteq Tx
  BY DEF Trades
<1>2. IsFiniteSet(Trades(d))
  BY <1>1, FS_Subset
<1> QED
  BY <1>2, FS_CardinalityType

\* A tuple of candidates is a sequence of candidates.
LEMMA BatchesAreSeqs == Batches \subseteq Seq(Candidate)
<1>1. HoldOnly \in Seq(Candidate)
  BY DEF HoldOnly, Candidate
<1>2. ASSUME NEW n \in 1 .. MaxActions,
             NEW b \in [1 .. n -> [token : Tokens, dir : {"buy", "sell"}]]
      PROVE  b \in Seq(Candidate)
  <2>1. b \in [1 .. n -> Candidate]
    BY <1>2 DEF Candidate
  <2> QED
    BY <2>1, SeqDef
<1> QED
  BY <1>1, <1>2 DEF Batches

\* The values a row can take.
LEMMA SavedType ==
  ASSUME TypeOK, NEW x, NEW row \in Receipt
  PROVE  Saved(x, row) \in [Tx -> Receipt]
<1>1. ASSUME NEW y \in Tx, receipts[y].newer < Window
      PROVE  [receipts[y] EXCEPT !.newer = @ + 1] \in Receipt
  <2>1. receipts[y] \in Receipt
    BY DEF TypeOK
  <2>2. receipts[y].newer + 1 \in 0 .. Window
    BY <1>1, <2>1 DEF Receipt
  <2> QED
    BY <2>1, <2>2 DEF Receipt
<1>2. ASSUME NEW y \in Tx PROVE receipts[y] \in Receipt
  BY DEF TypeOK
<1> QED
  BY <1>1, <1>2 DEF Saved

LEMMA AnsweredType ==
  ASSUME TypeOK, NEW x \in Tx, NEW conf \in ConfState
  PROVE  Answered(x, conf) \in Receipt
<1>1. receipts[x] \in Receipt
  BY DEF TypeOK
<1>2. (IF conf = "pending" THEN receipts[x].newer ELSE 0) \in 0 .. Window
  BY <1>1 DEF Receipt
<1> QED
  BY <1>1, <1>2 DEF Answered, Receipt

LEMMA NoReceiptType == NoReceipt \in Receipt
  BY DEF NoReceipt, Receipt, ConfState, Days

LEMMA EmptyHandType == EmptyHand \in Hand
  BY DEF EmptyHand, Hand, Candidate, HoldOnly, Report, FirstReport, Days

LEMMA LeaveTickType ==
  ASSUME TypeOK, NEW lost \in SUBSET Tokens, LeaveTick(lost)
  PROVE  /\ phase' \in Phase /\ loopDay' \in Days
         /\ todo' \in Seq(Candidate) /\ traded' \in SUBSET Tokens /\ hand' \in Hand
         /\ rest' \in [Tokens -> 0 .. Cooldown + 1] /\ forgotten' \in SUBSET Tokens
<1>1. \A t \in Tokens : rest[t] \in 0 .. Cooldown + 1
  BY DEF TypeOK
<1>2. rest' \in [Tokens -> 0 .. Cooldown + 1]
  BY <1>1 DEF LeaveTick
<1>3. todo' \in Seq(Candidate)
  BY DEF LeaveTick
<1>4. forgotten' \in SUBSET Tokens
  BY DEF TypeOK, LeaveTick
<1> QED
  BY <1>2, <1>3, <1>4, EmptyHandType DEF LeaveTick, Phase, Days

LEMMA TailType ==
  ASSUME NEW S, NEW s \in Seq(S)
  PROVE  Tail(s) \in Seq(S)
<1>1. CASE s # <<>>
  BY <1>1, HeadTailProperties
<1>2. CASE s = <<>>
  BY <1>2, SMT
<1> QED
  BY <1>1, <1>2

LEMMA CallerGoesOnType ==
  ASSUME TypeOK, NEW fallback \in BOOLEAN, CallerGoesOn(fallback)
  PROVE  phase' \in Phase /\ todo' \in Seq(Candidate)
<1>1. todo \in Seq(Candidate) /\ Tail(todo) \in Seq(Candidate)
  BY TailType DEF TypeOK
<1>2. CASE fallback
  BY <1>1, <1>2 DEF CallerGoesOn, Phase
<1>3. CASE ~fallback
  BY <1>1, <1>3 DEF CallerGoesOn, Phase
<1> QED
  BY <1>2, <1>3

LEMMA NextCandidateType ==
  ASSUME TypeOK, HasCandidate
  PROVE  NextCandidate \in Candidate
<1>1. CASE phase = "fallback"
  BY <1>1 DEF NextCandidate, FallbackCandidate, Candidate
<1>2. CASE phase = "batch" /\ todo # <<>>
  BY <1>2, HeadTailProperties DEF TypeOK, NextCandidate
<1> QED
  BY <1>1, <1>2 DEF HasCandidate

LEMMA BoughtType ==
  ASSUME TypeOK, NEW x, NEW cand \in Candidate, NEW fallback, NEW report,
         Bought(x, cand, fallback, report)
  PROVE  rest' \in [Tokens -> 0 .. Cooldown + 1] /\ forgotten' \in SUBSET Tokens
<1>1. cand.token \in Tokens
  BY DEF Candidate
<1>2. CASE x # NoTx /\ cand.dir = "buy"
  <2>1. rest' = [rest EXCEPT ![cand.token] = 0]
    BY <1>2 DEF Bought
  <2>2. forgotten' \in {forgotten \cup {cand.token}, forgotten \ {cand.token}}
    BY <1>2, Zenon DEF Bought
  <2> QED
    BY <1>1, <2>1, <2>2 DEF TypeOK
<1>3. CASE ~(x # NoTx /\ cand.dir = "buy")
  BY <1>3 DEF TypeOK, Bought, history
<1> QED
  BY <1>2, <1>3

LEMMA BroadcastType ==
  ASSUME TypeOK, NEW x, NEW report, Broadcast(x, report)
  PROVE  chain' \in [Tx -> {"unused", "inflight", "mined", "reverted"}]
  BY DEF TypeOK, Broadcast

\* Every variable keeps its type.
THEOREM Typing == Spec => []TypeOK
<1>1. Init => TypeOK
  <2> SUFFICES ASSUME Init PROVE TypeOK
    OBVIOUS
  <2>1. todo \in Seq(Candidate) /\ traded \in SUBSET Tokens /\ forgotten \in SUBSET Tokens
    BY DEF Init
  <2>2. ticks \in [Tokens -> 0 .. Cooldown] /\ rest \in [Tokens -> 0 .. Cooldown + 1]
    BY DEF Init
  <2>3. day \in Days /\ loopDay \in Days
    BY DEF Init, Days
  <2>4. receipts \in [Tx -> Receipt] /\ hand \in Hand
    BY NoReceiptType, EmptyHandType DEF Init
  <2> QED
    BY <2>1, <2>2, <2>3, <2>4 DEF Init, TypeOK, Phase
<1>2. TypeOK /\ [Next]_vars => TypeOK'
  <2> SUFFICES ASSUME TypeOK, [Next]_vars PROVE TypeOK'
    OBVIOUS
  <2>1. CASE NewDay
    <3>1. day' \in Days
      BY <2>1 DEF TypeOK, NewDay, Days
    <3> QED
      BY <2>1, <3>1 DEF TypeOK, NewDay, dbVars, memVars, tickVars, history
  <2>2. CASE ReachCutoff
    BY <2>2 DEF TypeOK, ReachCutoff, dbVars, memVars, tickVars, history
  <2>3. ASSUME NEW x \in Tx, NEW outcome \in {"mined", "reverted"}, SettleSwap(x, outcome)
        PROVE  TypeOK'
    BY <2>3 DEF TypeOK, SettleSwap, envVars, dbVars, memVars, tickVars, history
  <2>4. CASE Boot
    BY <2>4 DEF TypeOK, Boot, envVars, dbVars, tickVars, history, Phase
  <2>5. CASE StartTick
    BY <2>5, TradesFinite DEF TypeOK, StartTick, SyncedCount, envVars, dbVars, history, Phase
  <2>6. CASE SkipTick
    BY <2>6, LeaveTickType DEF TypeOK, SkipTick, envVars, dbVars, memVars
  <2>7. CASE RefreshReceipts
    <3>1. receipts' \in [Tx -> Receipt]
      <4>1. PICK asked \in SUBSET {x \in Tx : Refreshable(x)} :
              \E answer \in [asked -> ConfState] :
                receipts' = [x \in Tx |-> IF x \in asked THEN Answered(x, answer[x])
                                                         ELSE receipts[x]]
        BY <2>7 DEF RefreshReceipts
      <4>2. PICK answer \in [asked -> ConfState] :
              receipts' = [x \in Tx |-> IF x \in asked THEN Answered(x, answer[x])
                                                       ELSE receipts[x]]
        BY <4>1
      <4>3. ASSUME NEW x \in Tx, x \in asked PROVE Answered(x, answer[x]) \in Receipt
        BY <4>3, AnsweredType
      <4> QED
        BY <4>2, <4>3 DEF TypeOK
    <3> QED
      BY <2>7, <3>1 DEF TypeOK, RefreshReceipts, envVars, memVars, tickVars, history, Phase
  <2>8. CASE DqStop
    BY <2>8, LeaveTickType DEF TypeOK, DqStop, envVars, memVars
  <2>9. CASE CheckQuota
    BY <2>9 DEF TypeOK, CheckQuota, envVars, dbVars, memVars, tickVars, history, Phase
  <2>10. CASE Generate
    BY <2>10, BatchesAreSeqs DEF TypeOK, Generate, envVars, dbVars, memVars, history, Phase
  <2>11. CASE RejectCandidate
    <3>1. receipts' \in [Tx -> Receipt]
      BY <2>11, SavedType, NoReceiptType DEF RejectCandidate
    <3>2. phase' \in Phase /\ todo' \in Seq(Candidate)
      BY <2>11, CallerGoesOnType DEF RejectCandidate
    <3> QED
      BY <2>11, <3>1, <3>2 DEF TypeOK, RejectCandidate, envVars, memVars, history
  <2>12. CASE SendSwap
    <3>1. NextCandidate \in Candidate
      BY <2>12, NextCandidateType DEF SendSwap
    <3>2. PICK x \in Tx \cup {NoTx}, report \in FirstReport :
            /\ Broadcast(x, report)
            /\ hand' = [tx |-> IF report = "approval" THEN NoTx ELSE x,
                        cand |-> NextCandidate, fallback |-> phase = "fallback",
                        report |-> report, day |-> day]
            /\ phase' = IF report = "approval" THEN "retry" ELSE "sent"
            /\ Bought(x, NextCandidate, phase = "fallback", report)
      BY <2>12, Zenon DEF SendSwap
    <3>3. hand' \in Hand /\ phase' \in Phase
      BY <3>1, <3>2 DEF TypeOK, Hand, Phase
    <3>4. rest' \in [Tokens -> 0 .. Cooldown + 1] /\ forgotten' \in SUBSET Tokens
      BY <3>1, <3>2, BoughtType
    <3>5. chain' \in [Tx -> {"unused", "inflight", "mined", "reverted"}]
      BY <3>2, BroadcastType
    <3> QED
      BY <2>12, <3>3, <3>4, <3>5 DEF TypeOK, SendSwap, envVars, dbVars, memVars
  <2>18. CASE SendAgain
    <3>1. PICK x \in Tx \cup {NoTx}, report \in Report \ {"unsent"} :
            /\ Broadcast(x, report)
            /\ hand' = [hand EXCEPT !.tx = x, !.report = report]
            /\ Bought(x, hand.cand, hand.fallback, report)
      BY <2>18 DEF SendAgain
    <3>2. hand' \in Hand
      BY <3>1 DEF TypeOK, Hand, FirstReport
    <3>3. rest' \in [Tokens -> 0 .. Cooldown + 1] /\ forgotten' \in SUBSET Tokens
      BY <3>1, BoughtType DEF TypeOK, Hand
    <3>4. chain' \in [Tx -> {"unused", "inflight", "mined", "reverted"}]
      BY <3>1, BroadcastType
    <3> QED
      BY <2>18, <3>2, <3>3, <3>4 DEF TypeOK, SendAgain, envVars, dbVars, memVars, Phase
  <2>13. CASE RecordReceipt
    <3>1. receipts' \in [Tx -> Receipt]
      <4>1. CASE hand.tx = NoTx
        BY <2>13, <4>1, SavedType, NoReceiptType DEF RecordReceipt
      <4>2. CASE hand.tx # NoTx
        <5>1. PICK conf \in FirstConf(hand.tx, hand.report) :
                receipts' = Saved(hand.tx, [conf |-> conf, hash |-> hand.report = "hash",
                                            day |-> hand.day, newer |-> 0])
          BY <2>13, <4>2 DEF RecordReceipt
        <5>2. conf \in ConfState
          BY <5>1 DEF FirstConf, Confirmation, ConfState
        <5>3. hand.day \in Days
          BY DEF TypeOK, Hand
        <5> QED
          <6>1. [conf |-> conf, hash |-> hand.report = "hash",
                 day |-> hand.day, newer |-> 0] \in Receipt
            BY <5>2, <5>3 DEF Receipt
          <6> QED
            BY <5>1, <6>1, SavedType
      <4> QED
        BY <4>1, <4>2
    <3>2. phase' \in Phase /\ todo' \in Seq(Candidate)
      BY <2>13, CallerGoesOnType DEF TypeOK, Hand, RecordReceipt
    <3>3. traded' \in SUBSET Tokens
      BY <2>13 DEF TypeOK, RecordReceipt, Hand, Candidate
    <3> QED
      BY <2>13, <3>1, <3>2, <3>3, EmptyHandType DEF TypeOK, RecordReceipt, envVars, memVars, history
  <2>14. CASE FinishTick
    <3>1. ticks' \in [Tokens -> 0 .. Cooldown]
      BY <2>14 DEF TypeOK, FinishTick, NextTicks, Older
    <3> QED
      BY <2>14, <3>1, LeaveTickType DEF TypeOK, FinishTick, envVars
  <2>15. CASE TickFails
    <3>1. LeaveTick({t \in Tokens : rest[t] = 0})
      BY <2>15 DEF TickFails
    <3> QED
      BY <2>15, <3>1, LeaveTickType DEF TypeOK, TickFails, envVars, dbVars, memVars
  <2>16. CASE Crash
    BY <2>16, EmptyHandType DEF TypeOK, Crash, envVars, dbVars, Phase, Days
  <2>17. CASE UNCHANGED vars
    BY <2>17 DEF TypeOK, vars, envVars, dbVars, memVars, tickVars, history
  <2> QED
    BY <2>1, <2>2, <2>3, <2>4, <2>5, <2>6, <2>7, <2>8, <2>9, <2>10, <2>11, <2>12,
       <2>13, <2>14, <2>15, <2>16, <2>17, <2>18 DEF Next, World, Tick
<1> QED
  BY <1>1, <1>2, PTL DEF Spec

-----------------------------------------------------------------------------
(* The receipts and the chain. *)

(***************************************************************************)
(* What the table says of a swap in terms of what the chain did with it.   *)
(* The last two conjuncts are why a row is written once: execute() holds a *)
(* swap only between the call and the save, and holds only a new one.      *)
(***************************************************************************)
LedgerInv ==
  /\ \A x \in Tx : chain[x] = "unused" => receipts[x].conf = "none" /\ hand.tx # x
  /\ \A x \in Tx : receipts[x].hash /\ receipts[x].conf = "confirmed" => chain[x] = "mined"
  /\ \A x \in Tx : receipts[x].hash /\ receipts[x].conf = "failed" => chain[x] = "reverted"
  /\ \A x \in Tx : hand.tx = x => receipts[x].conf = "none"
  /\ phase # "sent" => hand.tx = NoTx

\* Row y says the same as before, apart from its place in the list.
Kept(y) == /\ receipts'[y].conf = receipts[y].conf
           /\ receipts'[y].hash = receipts[y].hash
           /\ receipts'[y].day = receipts[y].day

\* Saving a row changes no other row's say.
LEMMA SavedKeeps ==
  ASSUME TypeOK, NEW x, NEW row, NEW y \in Tx, y # x, receipts' = Saved(x, row)
  PROVE  Kept(y)
<1>1. receipts[y] \in Receipt
  BY DEF TypeOK
<1>2. receipts'[y] = receipts[y] \/ receipts'[y] = [receipts[y] EXCEPT !.newer = @ + 1]
  BY DEF Saved
<1> QED
  BY <1>1, <1>2 DEF Kept, Receipt

LEMMA SavedNew ==
  ASSUME NEW x \in Tx, NEW row, receipts' = Saved(x, row)
  PROVE  receipts'[x] = row
  BY DEF Saved

\* A refresh pass keeps a row or settles a pending one as the chain did.
LEMMA RefreshKeeps ==
  ASSUME TypeOK, RefreshReceipts, NEW y \in Tx
  PROVE  \/ Kept(y)
         \/ /\ receipts[y].conf = "pending" /\ receipts[y].hash
            /\ receipts'[y].hash = receipts[y].hash /\ receipts'[y].day = receipts[y].day
            /\ \/ receipts'[y].conf = "confirmed" /\ chain[y] = "mined"
               \/ receipts'[y].conf = "failed" /\ chain[y] = "reverted"
<1>1. PICK asked \in SUBSET {x \in Tx : Refreshable(x)} :
        \E answer \in [asked -> ConfState] :
          /\ \A x \in asked : answer[x] \in Confirmation(x)
          /\ receipts' = [x \in Tx |-> IF x \in asked THEN Answered(x, answer[x])
                                                      ELSE receipts[x]]
  BY DEF RefreshReceipts
<1>2. PICK answer \in [asked -> ConfState] :
        /\ \A x \in asked : answer[x] \in Confirmation(x)
        /\ receipts' = [x \in Tx |-> IF x \in asked THEN Answered(x, answer[x])
                                                    ELSE receipts[x]]
  BY <1>1
<1>3. CASE y \notin asked
  BY <1>2, <1>3 DEF Kept
<1>4. CASE y \in asked
  <2>1. receipts[y] \in Receipt /\ receipts[y].conf = "pending" /\ receipts[y].hash
    BY <1>4 DEF TypeOK, Refreshable
  <2>2. receipts'[y] = Answered(y, answer[y])
    BY <1>2, <1>4
  <2>3. /\ receipts'[y].conf = answer[y]
        /\ receipts'[y].hash = receipts[y].hash /\ receipts'[y].day = receipts[y].day
    BY <2>1, <2>2 DEF Answered, Receipt
  <2>4. \/ answer[y] = "pending"
        \/ answer[y] = "confirmed" /\ chain[y] = "mined"
        \/ answer[y] = "failed" /\ chain[y] = "reverted"
    BY <1>2, <1>4 DEF Confirmation
  <2> QED
    BY <2>1, <2>3, <2>4 DEF Kept
<1> QED
  BY <1>3, <1>4

LEMMA RowHash ==
  ASSUME NEW c, NEW h, NEW d, NEW n
  PROVE  [conf |-> c, hash |-> h, day |-> d, newer |-> n].hash = h
  OBVIOUS

\* The row RecordReceipt writes about a broadcast swap.
LEMMA RecordWrites ==
  ASSUME TypeOK, RecordReceipt, hand.tx # NoTx
  PROVE  /\ hand.tx \in Tx
         /\ \A y \in Tx \ {hand.tx} : Kept(y)
         /\ receipts'[hand.tx].conf # "none"
         /\ receipts'[hand.tx].hash =>
              \/ receipts'[hand.tx].conf = "pending"
              \/ receipts'[hand.tx].conf = "confirmed" /\ chain[hand.tx] = "mined"
              \/ receipts'[hand.tx].conf = "failed" /\ chain[hand.tx] = "reverted"
<1>1. PICK conf \in FirstConf(hand.tx, hand.report) :
        receipts' = Saved(hand.tx, [conf |-> conf, hash |-> hand.report = "hash",
                                    day |-> hand.day, newer |-> 0])
  BY Zenon DEF RecordReceipt
<1>2. hand.tx \in Tx
  BY DEF TypeOK, Hand
<1>3. receipts'[hand.tx] = [conf |-> conf, hash |-> hand.report = "hash",
                            day |-> hand.day, newer |-> 0]
  BY <1>1, <1>2, SavedNew
<1>4. conf # "none"
  BY <1>1 DEF FirstConf, Confirmation
<1>5. hand.report = "hash" => \/ conf = "pending"
                              \/ conf = "confirmed" /\ chain[hand.tx] = "mined"
                              \/ conf = "failed" /\ chain[hand.tx] = "reverted"
  BY <1>1 DEF FirstConf, Confirmation
<1>6. ASSUME NEW y \in Tx, y # hand.tx PROVE Kept(y)
  BY <1>1, <1>6, SavedKeeps
<1>7. receipts'[hand.tx].conf = conf
  BY <1>3
<1>8. receipts'[hand.tx].hash => hand.report = "hash"
  <2> DEFINE answered == hand.report = "hash"
             row == [conf |-> conf, hash |-> answered, day |-> hand.day, newer |-> 0]
  <2>1. receipts'[hand.tx] = row
    BY <1>3
  <2>2. row.hash = answered
    BY Zenon, RowHash
  <2>3. receipts'[hand.tx].hash = answered
    BY <2>1, <2>2, Zenon
  <2> QED
    BY <2>3, Zenon
<1> QED
  BY <1>2, <1>4, <1>5, <1>6, <1>7, <1>8

\* Steps that leave the chain, the rows and the swap in hand as they are.
LEMMA QuietSteps ==
  ASSUME NewDay \/ ReachCutoff \/ Boot \/ StartTick \/ CheckQuota \/ Generate \/ UNCHANGED vars
  PROVE  /\ chain' = chain /\ receipts' = receipts /\ hand' = hand
         /\ phase' = "sent" <=> phase = "sent"
  BY DEF NewDay, ReachCutoff, Boot, StartTick, CheckQuota, Generate,
         vars, envVars, dbVars, memVars, tickVars, history

\* Steps that end a tick, or the process, and forget what it held.
LEMMA EndSteps ==
  ASSUME SkipTick \/ DqStop \/ FinishTick \/ TickFails \/ Crash
  PROVE  /\ chain' = chain /\ receipts' = receipts
         /\ hand'.tx = NoTx /\ phase' # "sent"
<1>1. EmptyHand.tx = NoTx
  BY DEF EmptyHand
<1> QED
  BY <1>1 DEF SkipTick, DqStop, FinishTick, TickFails, Crash, LeaveTick, envVars, dbVars, memVars

\* A call of the CLI broadcasts one new swap or none, which is in hand
\* afterwards unless the answer was an approval error.
LEMMA SendSteps ==
  ASSUME TypeOK, LedgerInv, SendSwap \/ SendAgain
  PROVE  /\ receipts' = receipts /\ hand.tx = NoTx
         /\ \E x \in Tx \cup {NoTx} :
              /\ x # NoTx => chain[x] = "unused"
              /\ chain' = [y \in Tx |-> IF y = x THEN "inflight" ELSE chain[y]]
              /\ \/ hand'.tx = x /\ phase' = "sent"
                 \/ hand'.tx = NoTx /\ phase' = "retry" /\ phase # "retry"
<1>1. receipts' = receipts /\ hand.tx = NoTx
  BY DEF SendSwap, SendAgain, HasCandidate, dbVars, LedgerInv
<1>2. CASE SendSwap
  <2>1. PICK x \in Tx \cup {NoTx}, report \in FirstReport :
          /\ Broadcast(x, report)
          /\ hand' = [tx |-> IF report = "approval" THEN NoTx ELSE x,
                      cand |-> NextCandidate, fallback |-> phase = "fallback",
                      report |-> report, day |-> day]
          /\ phase' = IF report = "approval" THEN "retry" ELSE "sent"
    BY <1>2, Zenon DEF SendSwap
  <2>2. phase # "retry"
    BY <1>2 DEF SendSwap, HasCandidate
  <2> QED
    BY <1>1, <2>1, <2>2 DEF Broadcast
<1>3. CASE SendAgain
  <2>1. PICK x \in Tx \cup {NoTx}, report \in Report \ {"unsent"} :
          Broadcast(x, report) /\ hand' = [hand EXCEPT !.tx = x, !.report = report]
    BY <1>3 DEF SendAgain
  <2>2. hand'.tx = x /\ phase' = "sent"
    BY <1>3, <2>1 DEF SendAgain, TypeOK, Hand
  <2> QED
    BY <1>1, <2>1, <2>2 DEF Broadcast
<1> QED
  BY <1>2, <1>3

LEMMA LedgerInvInit == Init => LedgerInv
  BY DEF Init, LedgerInv, NoReceipt, EmptyHand

LEMMA LedgerInvStep == TypeOK /\ LedgerInv /\ [Next]_vars => LedgerInv'
<1> SUFFICES ASSUME TypeOK, LedgerInv, [Next]_vars PROVE LedgerInv'
  OBVIOUS
<1>1. CASE NewDay \/ ReachCutoff \/ Boot \/ StartTick \/ CheckQuota \/ Generate \/ UNCHANGED vars
  <2>1. /\ chain' = chain /\ receipts' = receipts /\ hand' = hand
        /\ phase' = "sent" <=> phase = "sent"
    BY <1>1, QuietSteps, Zenon
  <2> QED
    BY <2>1 DEF LedgerInv
<1>2. CASE SkipTick \/ DqStop \/ FinishTick \/ TickFails \/ Crash
  BY <1>2, EndSteps DEF LedgerInv
<1>3. ASSUME NEW x \in Tx, NEW outcome \in {"mined", "reverted"}, SettleSwap(x, outcome)
      PROVE  LedgerInv'
  <2>1. receipts' = receipts /\ hand' = hand /\ phase' = phase
    BY <1>3 DEF SettleSwap, dbVars, tickVars
  <2>2. chain[x] = "inflight" /\ chain' = [chain EXCEPT ![x] = outcome]
    BY <1>3 DEF SettleSwap
  <2> QED
    BY <2>1, <2>2 DEF LedgerInv, TypeOK
<1>4. CASE RefreshReceipts
  <2>1. chain' = chain /\ hand' = hand /\ phase' # "sent" /\ hand.tx = NoTx
    BY <1>4 DEF RefreshReceipts, tickVars, LedgerInv
  <2>2. \A y \in Tx : /\ receipts[y].conf = "none" => receipts'[y].conf = "none"
                      /\ receipts'[y].hash = receipts[y].hash
                      /\ receipts'[y].conf = "confirmed" =>
                           receipts[y].conf = "confirmed" \/ chain[y] = "mined"
                      /\ receipts'[y].conf = "failed" =>
                           receipts[y].conf = "failed" \/ chain[y] = "reverted"
    BY <1>4, RefreshKeeps DEF Kept
  <2> QED
    BY <2>1, <2>2 DEF LedgerInv
<1>5. CASE RejectCandidate
  <2>1. \A y \in Tx : Kept(y)
    BY <1>5, SavedKeeps DEF RejectCandidate
  <2>2. chain' = chain /\ hand' = hand /\ phase' # "sent" /\ hand.tx = NoTx
    BY <1>5 DEF RejectCandidate, CallerGoesOn, HasCandidate, LedgerInv
  <2> QED
    BY <2>1, <2>2 DEF LedgerInv, Kept
<1>6. CASE SendSwap \/ SendAgain
  <2>1. PICK x \in Tx \cup {NoTx} :
          /\ x # NoTx => chain[x] = "unused"
          /\ chain' = [y \in Tx |-> IF y = x THEN "inflight" ELSE chain[y]]
          /\ \/ hand'.tx = x /\ phase' = "sent"
             \/ hand'.tx = NoTx /\ phase' = "retry"
    BY <1>6, SendSteps
  <2>2. receipts' = receipts /\ hand.tx = NoTx
    BY <1>6, SendSteps
  <2>3. \A y \in Tx : chain'[y] = IF y = x THEN "inflight" ELSE chain[y]
    BY <2>1
  <2>4. \A y \in Tx : y # NoTx
    OBVIOUS
  <2> QED
    BY <2>1, <2>2, <2>3, <2>4 DEF LedgerInv
<1>7. CASE RecordReceipt
  <2>1. chain' = chain /\ hand'.tx = NoTx
    BY <1>7 DEF RecordReceipt, EmptyHand
  <2>2. CASE hand.tx = NoTx
    <3>1. \A y \in Tx : Kept(y)
      BY <1>7, <2>2, SavedKeeps DEF RecordReceipt
    <3> QED
      BY <2>1, <3>1 DEF LedgerInv, Kept
  <2>3. CASE hand.tx # NoTx
    BY <1>7, <2>1, <2>3, RecordWrites DEF LedgerInv, Kept
  <2> QED
    BY <2>2, <2>3
<1> QED
  BY <1>1, <1>2, <1>3, <1>4, <1>5, <1>6, <1>7 DEF Next, World, Tick

\* What the table says of a swap is what the chain did.
THEOREM LedgerInvariance == Spec => []LedgerInv
  BY Typing, LedgerInvInit, LedgerInvStep, PTL DEF Spec

-----------------------------------------------------------------------------
(* Refinement. *)

\* Kept rows are the same entry of the book.
LEMMA KeptEntry ==
  ASSUME NEW y \in Tx, Kept(y)
  PROVE  BookEntry(receipts[y])' = BookEntry(receipts[y])
  BY DEF Kept, BookEntry

LEMMA RefineInit == Init => Ledger!Init
  BY DEF Init, Ledger!Init, BookEntry, NoReceipt

\* Every row is an entry of the book.
LEMMA EntryType ==
  ASSUME TypeOK, NEW y \in Tx
  PROVE  BookEntry(receipts[y]) \in Ledger!BookState
<1>1. receipts[y] \in Receipt
  BY DEF TypeOK
<1> QED
  BY <1>1 DEF BookEntry, Receipt, ConfState, Ledger!BookState

\* Saving the row of a swap in hand books it; a tick's step does nothing else.
LEMMA RefineStep == TypeOK /\ TypeOK' /\ LedgerInv /\ [Next]_vars => [Ledger!Next]_Ledger!vars
<1> DEFINE book == [x \in Tx |-> BookEntry(receipts[x])]
<1> SUFFICES ASSUME TypeOK, TypeOK', LedgerInv, [Next]_vars
             PROVE  Ledger!Next \/ (chain' = chain /\ book' = book)
  BY DEF Ledger!vars
<1>1. CASE NewDay \/ ReachCutoff \/ Boot \/ StartTick \/ CheckQuota \/ Generate \/ UNCHANGED vars
  <2>1. chain' = chain /\ receipts' = receipts
    BY <1>1, QuietSteps, Zenon
  <2> QED
    BY <2>1
<1>2. CASE SkipTick \/ DqStop \/ FinishTick \/ TickFails \/ Crash
  <2>1. chain' = chain /\ receipts' = receipts
    BY <1>2, EndSteps, Zenon
  <2> QED
    BY <2>1
<1>3. ASSUME NEW x \in Tx, NEW outcome \in {"mined", "reverted"}, SettleSwap(x, outcome)
      PROVE  Ledger!Next
  <2>1. Ledger!Resolve(x, outcome)
    BY <1>3 DEF SettleSwap, dbVars, Ledger!Resolve
  <2> QED
    BY <2>1 DEF Ledger!Next
<1>4. CASE RefreshReceipts
  <2>1. chain' = chain
    BY <1>4 DEF RefreshReceipts
  <2>2. ASSUME NEW y \in Tx
        PROVE  \/ book'[y] = book[y]
               \/ book[y] = "pending" /\ Ledger!Settled(y, book'[y])
    <3>1. CASE Kept(y)
      BY <3>1, KeptEntry
    <3>2. CASE ~Kept(y)
      <4>1. /\ receipts[y].conf = "pending" /\ receipts[y].hash
            /\ receipts'[y].hash = receipts[y].hash
            /\ \/ receipts'[y].conf = "confirmed" /\ chain[y] = "mined"
               \/ receipts'[y].conf = "failed" /\ chain[y] = "reverted"
        BY <1>4, <3>2, RefreshKeeps
      <4>2. book[y] = "pending" /\ book'[y] = receipts'[y].conf
        BY <4>1 DEF BookEntry
      <4> QED
        BY <4>1, <4>2 DEF Ledger!Settled
    <3> QED
      BY <3>1, <3>2
  <2>3. book' \in [Tx -> Ledger!BookState]
    <3>1. \A y \in Tx : receipts'[y] \in Receipt
      BY DEF TypeOK
    <3>2. \A y \in Tx : BookEntry(receipts'[y]) \in Ledger!BookState
      BY <3>1 DEF BookEntry, Receipt, ConfState, Ledger!BookState
    <3> QED
      BY <3>2
  <2> QED
    BY <2>1, <2>2, <2>3 DEF Ledger!Next, Ledger!Refresh
<1>5. CASE RejectCandidate
  <2>1. \A y \in Tx : Kept(y)
    BY <1>5, SavedKeeps DEF RejectCandidate
  <2>2. ASSUME NEW y \in Tx PROVE BookEntry(receipts'[y]) = BookEntry(receipts[y])
    BY <2>1, Zenon DEF Kept, BookEntry
  <2>3. chain' = chain
    BY <1>5 DEF RejectCandidate
  <2> QED
    BY <2>2, <2>3
<1>6. CASE SendSwap \/ SendAgain
  <2>1. PICK x \in Tx \cup {NoTx} :
          /\ x # NoTx => chain[x] = "unused"
          /\ chain' = [y \in Tx |-> IF y = x THEN "inflight" ELSE chain[y]]
    BY <1>6, SendSteps
  <2>2. receipts' = receipts
    BY <1>6, SendSteps
  <2>3. CASE x = NoTx
    <3>1. chain' = chain
      BY <2>1, <2>3 DEF TypeOK
    <3> QED
      BY <2>2, <3>1
  <2>4. CASE x # NoTx
    <3>1. x \in Tx /\ chain[x] = "unused" /\ chain' = [chain EXCEPT ![x] = "inflight"]
      BY <2>1, <2>4 DEF TypeOK
    <3>2. Ledger!Broadcast(x)
      BY <2>2, <3>1 DEF Ledger!Broadcast
    <3> QED
      BY <3>1, <3>2 DEF Ledger!Next
  <2> QED
    BY <2>3, <2>4
<1>7. CASE RecordReceipt
  <2>1. chain' = chain
    BY <1>7 DEF RecordReceipt
  <2>2. CASE hand.tx = NoTx
    <3>1. \A y \in Tx : Kept(y)
      BY <1>7, <2>2, SavedKeeps DEF RecordReceipt
    <3>2. ASSUME NEW y \in Tx PROVE BookEntry(receipts'[y]) = BookEntry(receipts[y])
      BY <3>1, Zenon DEF Kept, BookEntry
    <3> QED
      BY <2>1, <3>2
  <2>3. CASE hand.tx # NoTx
    <3> DEFINE h == hand.tx
               entry == BookEntry(receipts'[h])
    <3>1. h \in Tx /\ chain[h] # "unused" /\ book[h] = "none"
      BY <1>7, <2>3, RecordWrites DEF LedgerInv, BookEntry
    <3>2. ASSUME NEW y \in Tx, y # h
          PROVE  BookEntry(receipts'[y]) = BookEntry(receipts[y])
      <4>1. Kept(y)
        BY <1>7, <2>3, <3>2, RecordWrites
      <4> QED
        BY <4>1, Zenon DEF Kept, BookEntry
    <3>3. entry \in {"pending", "untracked"} \/ Ledger!Settled(h, entry)
      BY <1>7, <2>3, RecordWrites DEF BookEntry, Ledger!Settled
    <3>4. book' = [book EXCEPT ![h] = entry]
      BY <3>1, <3>2
    <3>5. entry \in Ledger!BookState
      BY <3>3 DEF Ledger!Settled, Ledger!BookState
    <3>6. Ledger!Record(h, entry)
      BY <2>1, <3>1, <3>3, <3>4 DEF Ledger!Record
    <3> QED
      BY <3>1, <3>5, <3>6 DEF Ledger!Next
  <2> QED
    BY <2>2, <2>3
<1> QED
  BY <1>1, <1>2, <1>3, <1>4, <1>5, <1>6, <1>7 DEF Next, World, Tick

\* The agent keeps the promise of TradeLedger about every swap it broadcasts.
THEOREM LedgerRefinement == Spec => LedgerKept
<1>1. Init /\ [][Next]_vars => Ledger!Init /\ [][Ledger!Next]_Ledger!vars
  BY Typing, LedgerInvariance, RefineInit, RefineStep, PTL DEF Spec
<1> QED
  BY <1>1 DEF Spec, LedgerKept, Ledger!Spec

-----------------------------------------------------------------------------
(* The count of trades. *)

\* A trade of a day stays one: rows in hand are new and settled rows are kept.
LEMMA TradesStay ==
  ASSUME TypeOK, LedgerInv, [Next]_vars, NEW d
  PROVE  Trades(d) \subseteq Trades(d)'
<1> SUFFICES ASSUME NEW x \in Trades(d)
             PROVE  Kept(x)
  BY DEF Trades, IsTrade, Kept
<1>1. x \in Tx /\ receipts[x].conf = "confirmed"
  BY DEF Trades, IsTrade
<1>2. CASE NewDay \/ ReachCutoff \/ Boot \/ StartTick \/ CheckQuota \/ Generate \/ UNCHANGED vars
  <2>1. receipts' = receipts
    BY <1>2, QuietSteps, Zenon
  <2> QED
    BY <2>1 DEF Kept
<1>3. CASE SkipTick \/ DqStop \/ FinishTick \/ TickFails \/ Crash
  <2>1. receipts' = receipts
    BY <1>3, EndSteps, Zenon
  <2> QED
    BY <2>1 DEF Kept
<1>4. ASSUME NEW y \in Tx, NEW outcome \in {"mined", "reverted"}, SettleSwap(y, outcome)
      PROVE  Kept(x)
  BY <1>4 DEF SettleSwap, dbVars, Kept
<1>5. CASE RefreshReceipts
  BY <1>1, <1>5, RefreshKeeps
<1>6. CASE RejectCandidate
  BY <1>1, <1>6, SavedKeeps DEF RejectCandidate
<1>7. CASE SendSwap \/ SendAgain
  BY <1>7 DEF SendSwap, SendAgain, dbVars, Kept
<1>8. CASE RecordReceipt
  <2>1. CASE hand.tx = NoTx
    BY <1>1, <1>8, <2>1, SavedKeeps DEF RecordReceipt
  <2>2. CASE hand.tx # NoTx
    <3>1. x # hand.tx
      BY <1>1, <2>2, <1>8, RecordWrites DEF LedgerInv
    <3> QED
      BY <1>1, <1>8, <2>2, <3>1, RecordWrites
  <2> QED
    BY <2>1, <2>2
<1> QED
  BY <1>2, <1>3, <1>4, <1>5, <1>6, <1>7, <1>8 DEF Next, World, Tick

LEMMA MoreTrades ==
  ASSUME TypeOK, LedgerInv, [Next]_vars, NEW d
  PROVE  Cardinality(Trades(d)) <= Cardinality(Trades(d)')
         /\ Cardinality(Trades(d)) \in Nat /\ Cardinality(Trades(d)') \in Nat
<1>1. Trades(d)' \subseteq Tx
  BY DEF Trades
<1>2. IsFiniteSet(Trades(d)')
  BY <1>1, FS_Subset
<1> QED
  BY <1>2, TradesStay, TradesFinite, FS_Subset, FS_CardinalityType

(***************************************************************************)
(* The strengthening of the two count invariants.  A tick's count is at    *)
(* most the trades of its own day; a tick is of today or, after midnight,  *)
(* of yesterday; hence the row FinishTick writes for today holds at most   *)
(* the trades of one of the two.                                           *)
(***************************************************************************)
AtMostTrades(n, d) == n <= Cardinality(Trades(d))
CountInv ==
  /\ InTick => AtMostTrades(count, loopDay)
  /\ InTick => loopDay = day \/ loopDay + 1 = day
  /\ \A d \in Days : \/ AtMostTrades(opsCount[d], d)
                     \/ d > 1 /\ AtMostTrades(opsCount[d], d - 1)

LEMMA CountInvInit == Init => CountInv
  BY TradesFinite DEF Init, CountInv, InTick, AtMostTrades

LEMMA CountInvStep == TypeOK /\ LedgerInv /\ CountInv /\ [Next]_vars => CountInv'
<1> SUFFICES ASSUME TypeOK, LedgerInv, CountInv, [Next]_vars PROVE CountInv'
  OBVIOUS
<1> USE DEF AtMostTrades
<1>1. ASSUME NEW d, NEW n \in Nat, AtMostTrades(n, d)
      PROVE  n <= Cardinality(Trades(d)')
  BY <1>1, MoreTrades
<1>2. count \in Nat /\ opsCount \in [Days -> Nat]
  BY DEF TypeOK
<1>3. ASSUME opsCount' = opsCount
      PROVE  \A d \in Days : \/ AtMostTrades(opsCount[d], d)'
                             \/ d > 1 /\ AtMostTrades(opsCount[d], d - 1)'
  BY <1>1, <1>2, <1>3 DEF CountInv
<1>4. ASSUME InTick, opsCount' = [opsCount EXCEPT ![day] = count]
      PROVE  \A d \in Days : \/ AtMostTrades(opsCount[d], d)'
                             \/ d > 1 /\ AtMostTrades(opsCount[d], d - 1)'
  <2> SUFFICES ASSUME NEW d \in Days
               PROVE  \/ AtMostTrades(opsCount[d], d)'
                      \/ d > 1 /\ AtMostTrades(opsCount[d], d - 1)'
    OBVIOUS
  <2>1. CASE d = day
    <3>1. opsCount'[d] = count
      BY <1>2, <1>4, <2>1
    <3>2. loopDay = d \/ (loopDay = d - 1 /\ d > 1)
      BY <1>4, <2>1 DEF CountInv, TypeOK, Days
    <3> QED
      BY <1>1, <1>2, <1>4, <3>1, <3>2 DEF CountInv
  <2>2. CASE d # day
    <3>1. opsCount'[d] = opsCount[d] /\ opsCount[d] \in Nat
      BY <1>2, <1>4, <2>2
    <3> QED
      BY <1>1, <3>1 DEF CountInv
  <2> QED
    BY <2>1, <2>2
<1>5. CASE NewDay
  BY <1>1, <1>2, <1>3, <1>5 DEF CountInv, NewDay, TickStartedToday, InTick, TypeOK, Days,
     dbVars, memVars, tickVars
<1>6. CASE StartTick
  BY <1>3, <1>6, MoreTrades DEF CountInv, StartTick, SyncedCount, InTick, dbVars, envVars
<1>7. CASE Boot \/ Crash \/ SkipTick \/ TickFails
  BY <1>3, <1>7 DEF CountInv, Boot, Crash, SkipTick, TickFails, LeaveTick, InTick, dbVars
<1>8. CASE DqStop \/ FinishTick
  BY <1>4, <1>8 DEF CountInv, DqStop, FinishTick, LeaveTick, InTick
<1>9. ASSUME /\ opsCount' = opsCount /\ count' = count /\ loopDay' = loopDay
             /\ day' = day /\ (InTick' => InTick)
      PROVE  CountInv'
  BY <1>1, <1>2, <1>3, <1>9 DEF CountInv
<1>10. CASE ReachCutoff \/ UNCHANGED vars
  BY <1>9, <1>10 DEF ReachCutoff, vars, envVars, dbVars, memVars, tickVars, InTick
<1>11. ASSUME NEW x \in Tx, NEW outcome \in {"mined", "reverted"}, SettleSwap(x, outcome)
       PROVE  CountInv'
  BY <1>9, <1>11 DEF SettleSwap, envVars, dbVars, memVars, tickVars, InTick
<1>12. CASE RefreshReceipts \/ CheckQuota \/ Generate
  BY <1>9, <1>12 DEF RefreshReceipts, CheckQuota, Generate, envVars, dbVars, memVars,
     tickVars, InTick
<1>13. CASE RejectCandidate \/ SendSwap \/ SendAgain \/ RecordReceipt
  BY <1>9, <1>13 DEF RejectCandidate, SendSwap, SendAgain, RecordReceipt, HasCandidate,
     CallerGoesOn, envVars, dbVars, memVars, InTick
<1> QED
  BY <1>5, <1>6, <1>7, <1>8, <1>10, <1>11, <1>12, <1>13 DEF Next, World, Tick

LEMMA CountInvariance == Spec => []CountInv
  BY Typing, LedgerInvariance, CountInvInit, CountInvStep, PTL DEF Spec

\* Trades are swaps the chain executed.
LEMMA TradesAreMined ==
  ASSUME LedgerInv, NEW d, NEW n \in Nat, AtMostTrades(n, d)
  PROVE  n <= Cardinality(MinedOn(d))
<1>1. Trades(d) \subseteq MinedOn(d)
  BY DEF Trades, IsTrade, MinedOn, LedgerInv
<1>2. MinedOn(d) \subseteq Tx
  BY DEF MinedOn
<1>3. /\ IsFiniteSet(MinedOn(d)) /\ Cardinality(MinedOn(d)) \in Nat
      /\ Cardinality(Trades(d)) <= Cardinality(MinedOn(d))
  BY <1>1, <1>2, FS_Subset, FS_CardinalityType
<1> QED
  BY <1>3, TradesFinite DEF AtMostTrades

\* The count the quota checks go by is never more than the chain's.
THEOREM QuotaSafe == Spec => []QuotaNotOverstated
<1>1. TypeOK /\ LedgerInv /\ CountInv => QuotaNotOverstated
  BY TradesAreMined DEF TypeOK, CountInv, QuotaNotOverstated
<1> QED
  BY <1>1, Typing, LedgerInvariance, CountInvariance, PTL

\* An ops row counts swaps the chain executed that day or the day before.
THEOREM OpsRowSafe == Spec => []OpsRowTraceable
<1>1. TypeOK /\ LedgerInv /\ CountInv => OpsRowTraceable
  BY TradesAreMined DEF TypeOK, CountInv, OpsRowTraceable
<1> QED
  BY <1>1, Typing, LedgerInvariance, CountInvariance, PTL

-----------------------------------------------------------------------------
(* Swaps without a row. *)

LEMMA OrphanStep ==
  ASSUME TypeOK, LedgerInv, [Next]_vars, Orphans' # Orphans
  PROVE  \/ /\ phase = "sent" /\ phase' \in {"idle", "down"}
            /\ Orphans' = Orphans \cup {hand.tx}
         \/ /\ phase # "retry" /\ phase' = "retry"
            /\ \E x \in Tx : Orphans' = Orphans \cup {x}
<1>1. CASE NewDay \/ ReachCutoff \/ Boot \/ StartTick \/ CheckQuota \/ Generate \/ UNCHANGED vars
  <2>1. chain' = chain /\ receipts' = receipts /\ hand' = hand
    BY <1>1, QuietSteps, Zenon
  <2> QED
    BY <2>1 DEF Orphans
<1>2. CASE SkipTick \/ DqStop \/ FinishTick \/ TickFails \/ Crash
  <2>1. chain' = chain /\ receipts' = receipts /\ hand'.tx = NoTx
    BY <1>2, EndSteps, Zenon
  <2>2. phase' \in {"idle", "down"}
    BY <1>2 DEF SkipTick, DqStop, FinishTick, TickFails, Crash, LeaveTick
  <2>3. CASE hand.tx = NoTx
    BY <2>1, <2>3 DEF Orphans
  <2>4. CASE hand.tx # NoTx
    <3>1. hand.tx \in Tx /\ phase = "sent"
      BY <2>4 DEF TypeOK, Hand, LedgerInv
    <3>2. chain[hand.tx] # "unused" /\ receipts[hand.tx].conf = "none"
      BY <3>1 DEF LedgerInv
    <3> QED
      BY <2>1, <2>2, <3>1, <3>2 DEF Orphans
  <2> QED
    BY <2>3, <2>4
<1>3. ASSUME NEW x \in Tx, NEW outcome \in {"mined", "reverted"}, SettleSwap(x, outcome)
      PROVE  Orphans' = Orphans
  <2>1. receipts' = receipts /\ hand' = hand
    BY <1>3 DEF SettleSwap, dbVars, tickVars
  <2>2. \A y \in Tx : chain'[y] # "unused" <=> chain[y] # "unused"
    BY <1>3 DEF SettleSwap, TypeOK
  <2> QED
    BY <2>1, <2>2 DEF Orphans
<1>4. CASE RefreshReceipts
  <2>1. chain' = chain /\ hand' = hand
    BY <1>4 DEF RefreshReceipts, tickVars
  <2>2. \A y \in Tx : receipts'[y].conf = "none" <=> receipts[y].conf = "none"
    BY <1>4, RefreshKeeps DEF Kept
  <2> QED
    BY <2>1, <2>2 DEF Orphans
<1>5. CASE RejectCandidate
  <2>1. \A y \in Tx : Kept(y)
    BY <1>5, SavedKeeps DEF RejectCandidate
  <2>2. chain' = chain /\ hand' = hand
    BY <1>5 DEF RejectCandidate
  <2> QED
    BY <2>1, <2>2 DEF Orphans, Kept
<1>6. CASE SendSwap \/ SendAgain
  <2>1. PICK x \in Tx \cup {NoTx} :
          /\ x # NoTx => chain[x] = "unused"
          /\ chain' = [y \in Tx |-> IF y = x THEN "inflight" ELSE chain[y]]
          /\ \/ hand'.tx = x /\ phase' = "sent"
             \/ hand'.tx = NoTx /\ phase' = "retry" /\ phase # "retry"
    BY <1>6, SendSteps
  <2>2. receipts' = receipts /\ hand.tx = NoTx
    BY <1>6, SendSteps
  <2>3. CASE hand'.tx = x
    <3>1. Orphans' = Orphans
      BY <2>1, <2>2, <2>3 DEF Orphans, LedgerInv
    <3> QED
      BY <3>1
  <2>4. CASE hand'.tx # x
    <3>1. x \in Tx /\ hand'.tx = NoTx /\ phase' = "retry" /\ phase # "retry"
      BY <2>1, <2>4
    <3>2. chain[x] = "unused" /\ receipts[x].conf = "none" /\ chain'[x] = "inflight"
      BY <2>1, <3>1 DEF LedgerInv
    <3>3. \A y \in Tx : y \in Orphans' <=> y \in Orphans \/ y = x
      BY <2>1, <2>2, <3>1, <3>2 DEF Orphans
    <3>4. Orphans' = Orphans \cup {x}
      BY <3>1, <3>3 DEF Orphans
    <3> QED
      BY <3>1, <3>4
  <2> QED
    BY <2>3, <2>4
<1>7. CASE RecordReceipt
  <2>1. chain' = chain /\ hand'.tx = NoTx
    BY <1>7 DEF RecordReceipt, EmptyHand
  <2>2. CASE hand.tx = NoTx
    <3>1. \A y \in Tx : Kept(y)
      BY <1>7, <2>2, SavedKeeps DEF RecordReceipt
    <3> QED
      BY <2>1, <2>2, <3>1 DEF Orphans, Kept
  <2>3. CASE hand.tx # NoTx
    <3>1. \A y \in Tx \ {hand.tx} : Kept(y)
      BY <1>7, <2>3, RecordWrites
    <3>2. receipts'[hand.tx].conf # "none"
      BY <1>7, <2>3, RecordWrites
    <3> QED
      BY <2>1, <3>1, <3>2 DEF Orphans, Kept
  <2> QED
    BY <2>2, <2>3
<1> QED
  BY <1>1, <1>2, <1>3, <1>4, <1>5, <1>6, <1>7 DEF Next, World, Tick

\* A broadcast swap is without a row only if its tick or process ended while
\* execute() held it, or if it was an attempt that the approval retry followed.
THEOREM OrphansExplained == Spec => OrphanOnlyByFailure
<1>1. TypeOK /\ LedgerInv /\ [Next]_vars
        => [Orphans' # Orphans =>
              \/ /\ phase = "sent" /\ phase' \in {"idle", "down"}
                 /\ Orphans' = Orphans \cup {hand.tx}
              \/ /\ phase # "retry" /\ phase' = "retry"
                 /\ \E x \in Tx : Orphans' = Orphans \cup {x}]_vars
  BY OrphanStep
<1> QED
  BY <1>1, Typing, LedgerInvariance, PTL DEF Spec, OrphanOnlyByFailure

-----------------------------------------------------------------------------
(* The cooldown. *)
DistinctTokens(s) ==
  \A i, j \in 1 .. Len(s) : s[i].token = s[j].token => i = j

\* The receipt of a purchase of t that the map will learn of is being made.
OnItsWay(t) == /\ phase = "sent" /\ ~hand.fallback /\ hand.cand.token = t
               /\ hand.report \in {"hash", "nohash"}

(***************************************************************************)
(* A batch buys a token once: what it has still to do names each token     *)
(* once, and none that it traded.                                          *)
(***************************************************************************)
BatchInv ==
  /\ phase \in {"batch"} \cup AtCli =>
       /\ DistinctTokens(todo)
       /\ \A i \in 1 .. Len(todo) : todo[i].token \notin traded
  /\ phase # "batch" /\ ~(phase \in AtCli /\ ~hand.fallback) => traded = {} /\ todo = <<>>
  /\ phase \in AtCli /\ ~hand.fallback => todo # <<>> /\ hand.cand = Head(todo)

(***************************************************************************)
(* The map runs behind the history by the tick of the purchase itself,     *)
(* and until that tick is over traded stands for it.                       *)
(***************************************************************************)
MapInv ==
  /\ \A t \in Tokens \ forgotten : rest[t] <= Cooldown =>
       \/ rest[t] > 0 /\ ticks[t] < rest[t]
       \/ rest[t] = 0 /\ (t \in traded \/ OnItsWay(t))
  /\ phase = "down" => \A t \in Tokens \ forgotten : rest[t] > Cooldown

-----------------------------------------------------------------------------
(* Batches. *)

LEMMA FunctionIsSeq ==
  ASSUME NEW S, NEW n \in Nat, NEW b \in [1 .. n -> S]
  PROVE  b \in Seq(S) /\ Len(b) = n
<1>1. b \in Seq(S)
  BY SeqDef
<1> QED
  BY <1>1, LenProperties

LEMMA GeneratedDistinct == \A b \in Batches : DistinctTokens(b)
<1>1. DistinctTokens(HoldOnly)
  BY DEF DistinctTokens, HoldOnly
<1>2. ASSUME NEW n \in 1 .. MaxActions,
             NEW b \in [1 .. n -> [token : Tokens, dir : {"buy", "sell"}]],
             \A i, j \in 1 .. n : b[i].token = b[j].token => i = j
      PROVE  DistinctTokens(b)
  <2>1. Len(b) = n
    BY FunctionIsSeq
  <2> QED
    BY <1>2, <2>1 DEF DistinctTokens
<1> QED
  BY <1>1, <1>2 DEF Batches

\* Doing the head of a batch leaves the other tokens for later.
LEMMA TailDistinct ==
  ASSUME NEW s \in Seq(Candidate), s # <<>>, DistinctTokens(s)
  PROVE  /\ DistinctTokens(Tail(s))
         /\ \A i \in 1 .. Len(Tail(s)) :
              /\ i + 1 \in 1 .. Len(s) /\ Tail(s)[i] = s[i + 1]
              /\ Tail(s)[i].token # Head(s).token
<1>1. /\ Len(Tail(s)) = Len(s) - 1 /\ Len(s) \in Nat /\ Len(s) >= 1
      /\ \A i \in 1 .. Len(Tail(s)) : Tail(s)[i] = s[i + 1]
  BY HeadTailProperties, LenProperties, EmptySeq
<1>2. Head(s) = s[1]
  BY <1>1
<1> QED
  BY <1>1, <1>2 DEF DistinctTokens

LEMMA BatchInvInit == Init => BatchInv
  BY DEF Init, BatchInv, AtCli

LEMMA BatchInvStep == TypeOK /\ BatchInv /\ [Next]_vars => BatchInv'
<1> SUFFICES ASSUME TypeOK, BatchInv, [Next]_vars PROVE BatchInv'
  OBVIOUS
<1> USE DEF AtCli
<1>1. ASSUME todo' = todo, traded' = traded, hand' = hand, phase' = phase
      PROVE  BatchInv'
  BY <1>1 DEF BatchInv, DistinctTokens
<1>2. CASE NewDay \/ ReachCutoff \/ UNCHANGED vars
  BY <1>1, <1>2 DEF NewDay, ReachCutoff, vars, tickVars
<1>3. ASSUME NEW x \in Tx, NEW outcome \in {"mined", "reverted"}, SettleSwap(x, outcome)
      PROVE  BatchInv'
  BY <1>1, <1>3 DEF SettleSwap, tickVars
<1>4. CASE Boot \/ StartTick \/ RefreshReceipts \/ CheckQuota
  BY <1>4 DEF Boot, StartTick, RefreshReceipts, CheckQuota, tickVars, BatchInv
<1>5. CASE SkipTick \/ DqStop \/ FinishTick \/ TickFails \/ Crash
  BY <1>5 DEF SkipTick, DqStop, FinishTick, TickFails, Crash, LeaveTick, BatchInv
<1>6. CASE Generate
  <2>1. todo' \in Batches /\ phase' = "batch" /\ traded' = {}
    BY <1>6 DEF Generate, BatchInv
  <2>2. DistinctTokens(todo)'
    BY <2>1, GeneratedDistinct DEF DistinctTokens
  <2> QED
    BY <2>1, <2>2 DEF BatchInv
<1>7. CASE RejectCandidate
  <2>1. CASE phase = "fallback"
    BY <1>7, <2>1 DEF RejectCandidate, CallerGoesOn, BatchInv
  <2>2. CASE phase = "batch" /\ todo # <<>>
    <3>1. todo' = Tail(todo) /\ traded' = traded /\ phase' = "batch"
      BY <1>7, <2>2 DEF RejectCandidate, CallerGoesOn
    <3>2. DistinctTokens(todo) /\ todo \in Seq(Candidate)
      BY <2>2 DEF BatchInv, TypeOK
    <3>3. DistinctTokens(todo)'
      BY <2>2, <3>1, <3>2, TailDistinct DEF DistinctTokens
    <3>4. \A i \in 1 .. Len(todo') : todo'[i].token \notin traded'
      BY <2>2, <3>1, <3>2, TailDistinct DEF BatchInv
    <3> QED
      BY <3>1, <3>3, <3>4 DEF BatchInv
  <2> QED
    BY <1>7, <2>1, <2>2 DEF RejectCandidate, HasCandidate
<1>8. CASE SendSwap
  <2>1. /\ todo' = todo /\ traded' = traded /\ phase' \in AtCli
        /\ hand'.cand = NextCandidate /\ hand'.fallback = (phase = "fallback")
    BY <1>8 DEF SendSwap
  <2>2. CASE phase = "fallback"
    <3>1. hand'.fallback
      BY <2>1, <2>2, Zenon
    <3>2. traded' = {} /\ todo' = <<>>
      BY <2>1, <2>2 DEF BatchInv
    <3>3. Len(todo') = 0
      BY <3>2
    <3> QED
      BY <2>1, <3>1, <3>2, <3>3 DEF BatchInv, DistinctTokens
  <2>3. CASE phase = "batch" /\ todo # <<>>
    BY <2>1, <2>3 DEF BatchInv, DistinctTokens, NextCandidate
  <2> QED
    BY <1>8, <2>2, <2>3 DEF SendSwap, HasCandidate
<1>10. CASE SendAgain
  <2>1. /\ todo' = todo /\ traded' = traded /\ phase = "retry" /\ phase' = "sent"
        /\ hand'.cand = hand.cand /\ hand'.fallback = hand.fallback
    BY <1>10 DEF SendAgain, TypeOK, Hand
  <2> QED
    BY <2>1 DEF BatchInv, DistinctTokens
<1>9. CASE RecordReceipt
  <2>1. CASE hand.fallback
    BY <1>9, <2>1 DEF RecordReceipt, CallerGoesOn, BatchInv
  <2>2. CASE ~hand.fallback
    <3>1. /\ todo' = Tail(todo) /\ phase' = "batch"
          /\ traded' \subseteq traded \cup {hand.cand.token}
      BY <1>9, <2>2 DEF RecordReceipt, CallerGoesOn
    <3>2. /\ DistinctTokens(todo) /\ todo \in Seq(Candidate) /\ todo # <<>>
          /\ hand.cand = Head(todo)
      BY <1>9, <2>2 DEF RecordReceipt, BatchInv, TypeOK
    <3>3. DistinctTokens(todo)'
      BY <3>1, <3>2, TailDistinct DEF DistinctTokens
    <3>4. \A i \in 1 .. Len(todo') : todo'[i].token \notin traded'
      BY <1>9, <3>1, <3>2, TailDistinct DEF BatchInv, RecordReceipt
    <3> QED
      BY <3>1, <3>3, <3>4 DEF BatchInv
  <2> QED
    BY <2>1, <2>2
<1> QED
  BY <1>2, <1>3, <1>4, <1>5, <1>6, <1>7, <1>8, <1>9, <1>10 DEF Next, World, Tick

-----------------------------------------------------------------------------
(* The map of cooldowns. *)

LEMMA MapInvInit == Init => MapInv
  BY DEF Init, MapInv

\* The end of a tick ages history and, at least as slowly, the map.
LEMMA LeaveTickKeepsMap ==
  ASSUME TypeOK, MapInv, NEW lost \in SUBSET Tokens, LeaveTick(lost),
         \A t \in Tokens : ticks'[t] \in Nat /\ ticks'[t] <= ticks[t] + 1,
         \A t \in Tokens \ (forgotten \cup lost) : rest[t] = 0 => ticks'[t] = 0
  PROVE  MapInv'
<1>1. phase' = "idle" /\ \A t \in Tokens :
        /\ rest[t] \in 0 .. Cooldown + 1 /\ ticks[t] \in 0 .. Cooldown
        /\ rest'[t] = IF rest[t] <= Cooldown THEN rest[t] + 1 ELSE rest[t]
  BY DEF LeaveTick, TypeOK
<1>2. ASSUME NEW t \in Tokens \ forgotten', rest'[t] <= Cooldown
      PROVE  rest'[t] > 0 /\ ticks'[t] < rest'[t]
  <2>1. rest[t] < Cooldown /\ rest'[t] = rest[t] + 1
    BY <1>1, <1>2
  <2>2. t \notin forgotten \cup lost
    BY <1>2, <2>1 DEF LeaveTick
  <2>3. CASE rest[t] = 0
    BY <1>1, <2>1, <2>2, <2>3
  <2>4. CASE rest[t] > 0
    <3>1. ticks[t] < rest[t]
      BY <1>1, <2>1, <2>2, <2>4 DEF MapInv
    <3> QED
      BY <1>1, <2>1, <3>1
  <2> QED
    BY <1>1, <2>3, <2>4
<1> QED
  BY <1>1, <1>2 DEF MapInv

\* A purchase that the map will learn of has its receipt on its way; one that
\* it will not learn of is forgotten.
LEMMA BoughtKeepsMap ==
  ASSUME TypeOK, MapInv, NEW x, NEW cand, NEW fallback, NEW report,
         Bought(x, cand, fallback, report),
         x # NoTx /\ ~fallback /\ report \notin {"failed", "approval"}
           => OnItsWay(cand.token)',
         \A t \in Tokens : ~OnItsWay(t),
         ticks' = ticks, traded' = traded, phase' # "down"
  PROVE  MapInv'
<1> DEFINE token == cand.token
<1>1. CASE x # NoTx /\ cand.dir = "buy"
  <2>1. /\ rest' = [rest EXCEPT ![token] = 0]
        /\ forgotten' = IF fallback \/ report \in {"failed", "approval"}
                        THEN forgotten \cup {token} ELSE forgotten \ {token}
    BY <1>1, Zenon DEF Bought
  <2>2. ASSUME NEW t \in Tokens \ forgotten', rest'[t] <= Cooldown
        PROVE  \/ rest'[t] > 0 /\ ticks'[t] < rest'[t]
               \/ rest'[t] = 0 /\ (t \in traded' \/ OnItsWay(t)')
    <3>1. CASE t = token
      <4>1. ~fallback /\ report \notin {"failed", "approval"}
        BY <2>1, <2>2, <3>1
      <4>2. OnItsWay(t)'
        BY <1>1, <3>1, <4>1
      <4>3. rest'[t] = 0
        BY <2>1, <3>1 DEF TypeOK
      <4> QED
        BY <4>2, <4>3
    <3>2. CASE t # token
      <4>1. t \notin forgotten /\ rest'[t] = rest[t]
        BY <2>1, <2>2, <3>2 DEF TypeOK
      <4> QED
        BY <2>2, <4>1 DEF MapInv
    <3> QED
      BY <3>1, <3>2
  <2> QED
    BY <2>2 DEF MapInv
<1>2. CASE ~(x # NoTx /\ cand.dir = "buy")
  <2>1. rest' = rest /\ forgotten' = forgotten
    BY <1>2 DEF Bought, history
  <2> QED
    BY <2>1 DEF MapInv
<1> QED
  BY <1>1, <1>2

LEMMA MapInvStep == TypeOK /\ BatchInv /\ MapInv /\ [Next]_vars => MapInv'
<1> SUFFICES ASSUME TypeOK, BatchInv, MapInv, [Next]_vars PROVE MapInv'
  OBVIOUS
<1>1. ASSUME rest' = rest, forgotten' = forgotten, ticks' = ticks, traded' = traded,
             hand' = hand, phase' = "sent" <=> phase = "sent", phase' = "down" <=> phase = "down"
      PROVE  MapInv'
  BY <1>1 DEF MapInv, OnItsWay
<1>2. CASE NewDay \/ ReachCutoff \/ UNCHANGED vars
  BY <1>1, <1>2 DEF NewDay, ReachCutoff, vars, memVars, tickVars, history
<1>3. ASSUME NEW x \in Tx, NEW outcome \in {"mined", "reverted"}, SettleSwap(x, outcome)
      PROVE  MapInv'
  BY <1>1, <1>3 DEF SettleSwap, memVars, tickVars, history
<1>4. CASE StartTick \/ RefreshReceipts \/ CheckQuota \/ Generate
  BY <1>1, <1>4 DEF StartTick, RefreshReceipts, CheckQuota, Generate, memVars, tickVars, history
<1>5. CASE Boot
  <2>1. rest' = rest /\ forgotten' = forgotten
    BY <1>5 DEF Boot, history
  <2>2. \A t \in Tokens \ forgotten : rest[t] > Cooldown
    BY <1>5 DEF Boot, MapInv
  <2>3. \A t \in Tokens : rest[t] \in Int
    BY DEF TypeOK
  <2> QED
    BY <2>1, <2>2, <2>3 DEF MapInv
<1>6. CASE Crash
  <2>1. rest' = rest /\ forgotten' = {t \in Tokens : rest[t] <= Cooldown}
    BY <1>6 DEF Crash
  <2>2. \A t \in Tokens : rest[t] \in Int
    BY DEF TypeOK
  <2> QED
    BY <2>1, <2>2 DEF MapInv
<1>7. CASE SkipTick \/ DqStop
  <2>1. LeaveTick({}) /\ ticks' = ticks
    BY <1>7 DEF SkipTick, DqStop, memVars
  <2>2. \A t \in Tokens : ticks'[t] \in Nat /\ ticks'[t] <= ticks[t] + 1
    BY <2>1 DEF TypeOK
  <2>3. \A t \in Tokens \ forgotten : rest[t] # 0
    <3>1. phase \in {"fetch", "score"}
      BY <1>7 DEF SkipTick, DqStop
    <3>2. traded = {} /\ \A t \in Tokens : ~OnItsWay(t)
      BY <3>1 DEF BatchInv, OnItsWay, AtCli
    <3> QED
      BY <3>2 DEF MapInv
  <2> QED
    BY <2>1, <2>2, <2>3, LeaveTickKeepsMap
<1>8. CASE TickFails
  <2>1. LeaveTick({t \in Tokens : rest[t] = 0}) /\ ticks' = ticks
    BY <1>8 DEF TickFails, memVars
  <2>2. \A t \in Tokens : ticks'[t] \in Nat /\ ticks'[t] <= ticks[t] + 1
    BY <2>1 DEF TypeOK
  <2> QED
    BY <2>1, <2>2, LeaveTickKeepsMap
<1>9. CASE FinishTick
  <2>1. LeaveTick({}) /\ ticks' = NextTicks /\ phase = "batch"
    BY <1>9 DEF FinishTick
  <2>2. \A t \in Tokens : /\ ticks'[t] \in Nat /\ ticks'[t] <= ticks[t] + 1
                          /\ t \in traded => ticks'[t] = 0
    BY <2>1 DEF TypeOK, NextTicks, Older
  <2>3. \A t \in Tokens \ forgotten : rest[t] = 0 => t \in traded
    BY <2>1 DEF MapInv, OnItsWay, TypeOK
  <2> QED
    BY <2>1, <2>2, <2>3, LeaveTickKeepsMap
<1>10. CASE RejectCandidate
  <2>1. /\ rest' = rest /\ forgotten' = forgotten /\ ticks' = ticks /\ traded' = traded
        /\ hand' = hand
    BY <1>10 DEF RejectCandidate, memVars, history
  <2>2. phase' \in {"signal", "batch"} /\ phase \in {"fallback", "batch"}
    BY <1>10 DEF RejectCandidate, CallerGoesOn, HasCandidate
  <2> QED
    BY <1>1, <2>1, <2>2
<1>11. CASE SendSwap
  <2>0. PICK cand : cand = NextCandidate
    OBVIOUS
  <2>1. PICK x \in Tx \cup {NoTx}, report \in FirstReport, fallback \in BOOLEAN :
          /\ Broadcast(x, report)
          /\ hand'.cand = cand /\ hand'.report = report /\ hand'.fallback = fallback
          /\ phase' = IF report = "approval" THEN "retry" ELSE "sent"
          /\ Bought(x, cand, fallback, report)
    <3>1. PICK x \in Tx \cup {NoTx}, report \in FirstReport :
            /\ Broadcast(x, report)
            /\ hand' = [tx |-> IF report = "approval" THEN NoTx ELSE x,
                        cand |-> cand, fallback |-> phase = "fallback",
                        report |-> report, day |-> day]
            /\ phase' = IF report = "approval" THEN "retry" ELSE "sent"
            /\ Bought(x, cand, phase = "fallback", report)
      BY <1>11, <2>0, Zenon DEF SendSwap
    <3>2. hand'.cand = cand /\ hand'.report = report /\ hand'.fallback = (phase = "fallback")
      BY <3>1
    <3> QED
      BY <3>1, <3>2, Zenon
  <2>2. phase \in {"fallback", "batch"} /\ ticks' = ticks /\ traded' = traded
    BY <1>11 DEF SendSwap, HasCandidate, memVars
  <2>3. \A t \in Tokens : ~OnItsWay(t)
    BY <2>2 DEF OnItsWay
  <2>4. phase' # "down"
    BY <2>1
  <2>5. ASSUME x # NoTx, ~fallback, report \notin {"failed", "approval"}
        PROVE  OnItsWay(cand.token)'
    BY <2>1, <2>5 DEF Broadcast, FirstReport, Report, OnItsWay
  <2> QED
    BY <2>1, <2>2, <2>3, <2>4, <2>5, BoughtKeepsMap
<1>13. CASE SendAgain
  <2>0. PICK cand, fallback : cand = hand.cand /\ fallback = hand.fallback
    OBVIOUS
  <2>1. PICK x \in Tx \cup {NoTx}, report \in Report \ {"unsent"} :
          /\ Broadcast(x, report)
          /\ hand' = [hand EXCEPT !.tx = x, !.report = report]
          /\ Bought(x, cand, fallback, report)
    BY <1>13, <2>0 DEF SendAgain
  <2>2. phase = "retry" /\ phase' = "sent" /\ ticks' = ticks /\ traded' = traded
    BY <1>13 DEF SendAgain, memVars
  <2>3. \A t \in Tokens : ~OnItsWay(t)
    BY <2>2 DEF OnItsWay
  <2>4. phase' # "down"
    BY <2>2
  <2>5. ASSUME x # NoTx, ~fallback, report \notin {"failed", "approval"}
        PROVE  OnItsWay(cand.token)'
    BY <2>0, <2>1, <2>2, <2>5 DEF Report, OnItsWay, TypeOK, Hand
  <2> QED
    BY <2>1, <2>2, <2>3, <2>4, <2>5, BoughtKeepsMap
<1>12. CASE RecordReceipt
  <2>1. /\ rest' = rest /\ forgotten' = forgotten /\ ticks' = ticks
        /\ phase = "sent" /\ phase' # "down"
    BY <1>12 DEF RecordReceipt, CallerGoesOn, memVars, history
  <2>2. \A t \in Tokens : t \in traded \/ OnItsWay(t) => t \in traded'
    BY <1>12 DEF RecordReceipt, OnItsWay
  <2> QED
    BY <2>1, <2>2 DEF MapInv
<1> QED
  BY <1>2, <1>3, <1>4, <1>5, <1>6, <1>7, <1>8, <1>9, <1>10, <1>11, <1>12,
     <1>13 DEF Next, World, Tick

LEMMA MapInvariance == Spec => [](TypeOK /\ BatchInv /\ MapInv)
  BY Typing, BatchInvInit, BatchInvStep, MapInvInit, MapInvStep, PTL DEF Spec

\* No purchase of a token within Cooldown ticks of one that the map knows of.
THEOREM CooldownSafe == Spec => CooldownHeld
<1>1. TypeOK /\ BatchInv /\ MapInv /\ [Next]_vars
        => [\A t \in Tokens : Buys(t) => rest[t] > Cooldown \/ t \in forgotten]_vars
  <2> SUFFICES ASSUME TypeOK, BatchInv, MapInv, [Next]_vars,
                      NEW t \in Tokens, Buys(t), t \notin forgotten, rest[t] <= Cooldown
               PROVE  FALSE
    BY DEF TypeOK
  <2>1. SendSwap
    BY DEF Buys, AtCli, SendAgain, Next, World, Tick, NewDay, ReachCutoff, SettleSwap, Boot,
       StartTick, SkipTick,
       RefreshReceipts, DqStop, CheckQuota, Generate, RejectCandidate, CallerGoesOn,
       RecordReceipt, FinishTick, TickFails, Crash, LeaveTick, vars
  <2>2. /\ phase \in {"fallback", "batch"} /\ hand'.cand = NextCandidate
        /\ CooledDown(NextCandidate)
    BY <2>1 DEF SendSwap, HasCandidate
  <2>3. NextCandidate.token = t /\ NextCandidate.dir = "buy"
    BY <2>2 DEF Buys
  <2>4. ticks[t] >= Cooldown
    BY <2>2, <2>3 DEF CooledDown
  <2>5. rest[t] = 0 /\ t \in traded
    BY <2>2, <2>4 DEF MapInv, OnItsWay, TypeOK
  <2>6. phase = "batch" /\ todo # <<>>
    BY <2>1, <2>2, <2>5 DEF BatchInv, AtCli, SendSwap, HasCandidate
  <2>7. 1 \in 1 .. Len(todo) /\ todo[1].token = t
    BY <2>3, <2>6 DEF NextCandidate, TypeOK
  <2> QED
    BY <2>5, <2>6, <2>7 DEF BatchInv
<1> QED
  BY <1>1, MapInvariance, PTL DEF Spec, CooldownHeld
=============================================================================
