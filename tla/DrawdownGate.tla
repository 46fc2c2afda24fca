---------------------------- MODULE DrawdownGate ----------------------------
(***************************************************************************)
(* The two drawdown gates of a tick and what each one remembers.           *)
(*                                                                         *)
(* The disqualification gate (scoring.py) compares the NAV a tick read     *)
(* with the highest snapshot of the scoring window, which the database     *)
(* keeps.  The hard de-risk gate (risk.py) compares it with the peak in    *)
(* the competition state (competition.py), which lives in memory, is saved *)
(* once a tick in the row of its day, and is restored at boot from the row *)
(* of that day alone.                                                      *)
(*                                                                         *)
(* A NAV is what get_portfolio returned, rightly or not.  A snapshot is    *)
(* saved by each tick that reads the portfolio and by each receipt that is *)
(* confirmed (tx_confirmation.py): the window holds both kinds, the peak   *)
(* in the state only the first.                                            *)
(***************************************************************************)
EXTENDS Integers

CONSTANTS
  Navs,              \* the NAVs get_portfolio may return
  MaxDay,            \* bound: days modelled
  HardPct,           \* hard_derisk_drawdown_pct
  DqPct,             \* dq_drawdown_pct
  StartConfigured    \* scoring_start_at is set, not defaulted at every boot

ASSUME GateAssumption ==
  /\ Navs \subseteq Nat
  /\ MaxDay \in Nat
  /\ HardPct \in 1 .. 100 /\ DqPct \in 1 .. 100
  /\ StartConfigured \in BOOLEAN

VARIABLES
  up,                \* the process runs
  day,               \* today, UTC
  phase,             \* where the tick is; trades are approved in "open" only
  nav,               \* the NAV this tick read
  peak,              \* competition_state.peak_nav_usd between ticks
  tickPeak,          \* the same in the state this tick is building
  ops,               \* ops[d]: row of competition_ops, or NoRow
  window,            \* the highest snapshot of the scoring window
  top,               \* history: the highest NAV of any snapshot
  known,             \* history: the highest NAV a tick read
  lost,              \* history: the peak in memory forgot that NAV
  fell               \* history: a tick of this scoring window was disqualified

process == <<up, phase, nav, peak, tickPeak>>
vars == <<process, day, ops, window, top, known, lost, fell>>

Days == 0 .. MaxDay
Row == [peak : Navs, nav : Navs]
NoRow == [peak |-> 0, nav |-> 0]
Phase == {"idle", "read", "dq", "hard", "open"}

TypeOK ==
  /\ up \in BOOLEAN /\ day \in Days /\ phase \in Phase
  /\ nav \in Navs \cup {0}
  /\ {peak, tickPeak, window, top, known} \subseteq Navs \cup {0}
  /\ ops \in [Days -> Row \cup {NoRow}]
  /\ lost \in BOOLEAN /\ fell \in BOOLEAN

Higher(a, b) == IF a >= b THEN a ELSE b

\* A NAV of n is pct percent or more below a peak of p.
Fallen_OfNav(p, n, pct) == 100 * (p - n) >= pct * n    \* fault: percent of the NAV
Fallen(p, n, pct) == 100 * (p - n) >= pct * p

-----------------------------------------------------------------------------
(* A tick. *)

\* get_portfolio, then save_portfolio: a snapshot is kept whatever happens to
\* the tick.
Window_Latest(n) == n            \* fault: only the last snapshot is read
Window(n) == Higher(window, n)

ReadPortfolio ==
  /\ up /\ phase = "idle"
  /\ phase' = "read"
  /\ nav' \in Navs
  /\ window' = Window(nav')
  /\ top' = Higher(top, nav')
  /\ known' = Higher(known, nav')
  /\ UNCHANGED <<up, day, peak, tickPeak, ops, lost, fell>>

\* A receipt turns out confirmed, in the refresh pass before the portfolio is
\* read or right after the swap: refresh_pending_receipt reads the portfolio
\* for it and saves one more snapshot, which this tick's state never sees.
ConfirmReceipt ==
  /\ up /\ phase \in {"idle", "open"}
  /\ \E n \in Navs : window' = Window(n) /\ top' = Higher(top, n)
  /\ UNCHANGED <<process, day, ops, known, lost, fell>>

\* compute_live_score and comp_ops.update.  The score of a portfolio worth
\* nothing divides by zero and raises.
UpdateState ==
  /\ phase = "read" /\ nav > 0
  /\ tickPeak' = Higher(peak, nav)
  /\ phase' = IF Fallen(window, nav, DqPct) THEN "dq"
              ELSE IF Fallen(tickPeak', nav, HardPct) THEN "hard" ELSE "open"
  /\ fell' = (fell \/ phase' = "dq")
  /\ UNCHANGED <<up, day, nav, peak, ops, window, top, known, lost>>

\* The row of the day and the state handed back, in the dq branch and at the
\* end of a tick alike.
SavedRow_Nav == [peak |-> nav, nav |-> nav]      \* fault: the peak is not saved
SavedRow == [peak |-> tickPeak, nav |-> nav]

FinishTick ==
  /\ phase \in {"dq", "hard", "open"}
  /\ ops' = [ops EXCEPT ![day] = SavedRow]
  /\ peak' = tickPeak
  /\ phase' = "idle" /\ nav' = 0 /\ tickPeak' = 0
  /\ lost' = (tickPeak < known)
  /\ UNCHANGED <<up, day, window, top, known, fell>>

\* The event written after the row raises: run_loop keeps the state it had.
FailAfterRow ==
  /\ phase \in {"dq", "hard", "open"}
  /\ ops' = [ops EXCEPT ![day] = SavedRow]
  /\ phase' = "idle" /\ nav' = 0 /\ tickPeak' = 0
  /\ lost' = (lost \/ nav > peak)
  /\ UNCHANGED <<up, day, peak, window, top, known, fell>>

\* An exception anywhere before the row.
TickFails ==
  /\ phase # "idle"
  /\ phase' = "idle" /\ nav' = 0 /\ tickPeak' = 0
  /\ lost' = (lost \/ nav > peak)
  /\ UNCHANGED <<up, day, peak, ops, window, top, known, fell>>

-----------------------------------------------------------------------------
(* The process. *)

Crash ==
  /\ up
  /\ up' = FALSE
  /\ phase' = "idle" /\ nav' = 0 /\ tickPeak' = 0 /\ peak' = 0
  /\ lost' = (lost \/ (phase # "idle" /\ nav > peak))
  /\ UNCHANGED <<day, ops, window, top, known, fell>>

\* state_from_db_row: without a row nothing is restored, and a peak of more
\* than twice the NAV it was saved with is taken for a stale one.
Stale(row) == row.peak > 2 * row.nav
Restored_Capped(row) ==          \* fault: a stale peak is cut to twice the NAV
  IF Stale(row) THEN 2 * row.nav ELSE row.peak
Restored(row) == IF Stale(row) THEN row.nav ELSE row.peak

Boot ==
  /\ ~up
  /\ up' = TRUE
  /\ peak' = Restored(ops[day])
  /\ window' = IF StartConfigured THEN window ELSE 0
  /\ fell' = (fell /\ StartConfigured)
  /\ lost' = (lost \/ (known > 0 /\ (ops[day] = NoRow \/ Stale(ops[day]))))
  /\ UNCHANGED <<day, phase, nav, tickPeak, ops, top, known>>

NewDay ==
  /\ day < MaxDay
  /\ day' = day + 1
  /\ UNCHANGED <<process, ops, window, top, known, lost, fell>>

-----------------------------------------------------------------------------
Init ==
  /\ up = FALSE /\ day = 0 /\ phase = "idle"
  /\ nav = 0 /\ peak = 0 /\ tickPeak = 0
  /\ ops = [d \in Days |-> NoRow]
  /\ window = 0 /\ top = 0 /\ known = 0 /\ lost = FALSE /\ fell = FALSE

Next ==
  \/ ReadPortfolio \/ ConfirmReceipt \/ UpdateState \/ FinishTick
  \/ FailAfterRow \/ TickFails \/ Crash \/ Boot \/ NewDay

Spec == Init /\ [][Next]_vars

-----------------------------------------------------------------------------
(* Safety. *)

\* The NAV is pct percent or more below p.
Down(p, pct) == 100 * (p - nav) >= pct * p

\* With a configured scoring start no tick gets past the disqualification
\* gate while the NAV is below the threshold, counted from the highest
\* snapshot the agent ever saved: not after restarts, midnights, failed ticks
\* or confirmations (db.py:155-177, scoring.py:41, run.py:304).
DqGateShut ==
  [][StartConfigured /\ phase = "read" /\ phase' \in {"hard", "open"}
       => ~Down(top, DqPct)]_vars

\* Trades are approved past the hard threshold, counted from the highest NAV
\* a tick read, only if the peak in memory was lost: in a tick that failed
\* after it read that NAV, in a restart after midnight or with a row taken
\* for stale (risk.py:43, competition.py:100-106, run.py:194).  Of NAVs that
\* only a confirmation read, the gate promises nothing (competition.py:20).
HardGateShut == phase = "open" /\ Down(known, HardPct) => lost

\* No restart or stale row makes up a drawdown: a tick that rejects every
\* trade is that far below a NAV a tick did read (competition.py:96-98).
NoPhantomDerisk == phase = "hard" => Down(known, HardPct)

\* Violated: the "max drawdown" and the "disqualification gate" of the live
\* score (scoring.py:5-7): the largest fall of the window, not the present
\* one, so that who once fell to the threshold stays disqualified.
DqIsFinal == fell => phase \notin {"hard", "open"}
=============================================================================
