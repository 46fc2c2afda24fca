---------------------------- MODULE TradeLedger ----------------------------
(***************************************************************************)
(* What the receipts table promises about the swaps the agent sends, with  *)
(* no run loop, no ticks and no clock: a swap is broadcast once, the chain *)
(* settles it once, and the book (the receipts table) learns of it at most *)
(* once.  A tracked entry leaves "pending" only for what the chain says,   *)
(* and then never changes again.  AgentLoop implements this module.        *)
(***************************************************************************)
CONSTANT Tx          \* the swaps the agent may ever broadcast

VARIABLES
  chain,             \* chain[t]: what the blockchain did with swap t
  book               \* book[t]: what the receipts table says of swap t

vars == <<chain, book>>

ChainState == {"unused", "inflight", "mined", "reverted"}

(***************************************************************************)
(* "untracked" is an entry saved without a transaction hash: nothing will  *)
(* ever refresh it and it never counts as a trade.                         *)
(***************************************************************************)
BookState == {"none", "pending", "confirmed", "failed", "untracked"}

TypeOK ==
  /\ chain \in [Tx -> ChainState]
  /\ book  \in [Tx -> BookState]

Init ==
  /\ chain = [t \in Tx |-> "unused"]
  /\ book  = [t \in Tx |-> "none"]

Broadcast(t) ==
  /\ chain[t] = "unused"
  /\ chain' = [chain EXCEPT ![t] = "inflight"]
  /\ UNCHANGED book

Resolve(t, outcome) ==
  /\ chain[t] = "inflight"
  /\ chain' = [chain EXCEPT ![t] = outcome]
  /\ UNCHANGED book

\* The book may say "confirmed" or "failed" of t.
Settled(t, entry) ==
  \/ entry = "confirmed" /\ chain[t] = "mined"
  \/ entry = "failed" /\ chain[t] = "reverted"

\* The first entry about a broadcast swap.  The swap may have settled already.
Record(t, entry) ==
  /\ chain[t] # "unused"
  /\ book[t] = "none"
  /\ entry \in {"pending", "untracked"} \/ Settled(t, entry)
  /\ book' = [book EXCEPT ![t] = entry]
  /\ UNCHANGED chain

\* One pass over pending entries: any of them may move, each to the truth.
Refresh ==
  /\ book' \in [Tx -> BookState]
  /\ \A t \in Tx :
       book'[t] = book[t] \/ (book[t] = "pending" /\ Settled(t, book'[t]))
  /\ UNCHANGED chain

Next ==
  \/ \E t \in Tx : Broadcast(t)
  \/ \E t \in Tx, outcome \in {"mined", "reverted"} : Resolve(t, outcome)
  \/ \E t \in Tx, entry \in BookState : Record(t, entry)
  \/ Refresh

Spec == Init /\ [][Next]_vars
=============================================================================
