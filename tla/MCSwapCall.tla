---------------------------- MODULE MCSwapCall -----------------------------
(* Small instances of SwapCall for TLC. *)
EXTENDS SwapCall

\* A market swap, a ladder whose smallest rungs are dust, and one that is not.
MCTrades == {[size |-> 1000, rungs |-> 0], [size |-> 300, rungs |-> 4],
             [size |-> 3000, rungs |-> 2]}

\* Two orders of a ladder placed before a restart.
MCLeftOpen == {<<0, 1>>, <<0, 2>>}
=============================================================================
