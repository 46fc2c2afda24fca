------------------------ MODULE DrawdownGate_proofs -------------------------
(***************************************************************************)
(* The drawdown gates, for every set of NAVs, thresholds and number of     *)
(* days.  The argument is about where the highest NAV is remembered: the   *)
(* window always holds that of all snapshots, the state in memory and the  *)
(* row of the day hold that of the ticks unless it was lost.               *)
(***************************************************************************)
EXTENDS DrawdownGate, TLAPS

Judged == {"dq", "hard", "open"}

\* Nothing remembered exceeds what was read, and no row is of a day to come.
Bounded ==
  /\ known <= top /\ nav <= known /\ peak <= known /\ tickPeak <= known
  /\ \A d \in Days : ops[d].nav <= ops[d].peak /\ ops[d].peak <= known
  /\ \A d \in Days : d > day => ops[d] = NoRow

WindowIsTop == StartConfigured => window = top

\* The tick under way: what it built, and what it decided by.
TickState ==
  /\ ~up => phase = "idle"
  /\ phase = "idle" => nav = 0
  /\ phase \in Judged => nav > 0 /\ tickPeak = Higher(peak, nav)
  /\ phase = "hard" => Fallen(tickPeak, nav, HardPct)
  /\ phase = "open" => ~Fallen(tickPeak, nav, HardPct)

\* Unless it was lost, the peak in memory is the highest NAV read before this
\* tick, and the row of the day holds the same.
Remembered ==
  ~lost => /\ up => known = Higher(peak, nav)
           /\ ops[day] # NoRow => ops[day].peak = (IF up THEN peak ELSE known)

IInv == TypeOK /\ Bounded /\ WindowIsTop /\ TickState /\ Remembered

-----------------------------------------------------------------------------
(* The inductive invariant. *)

\* Every NAV is a number.
LEMMA NavTypes ==
  ASSUME TypeOK
  PROVE  /\ nav \in Nat /\ peak \in Nat /\ tickPeak \in Nat
         /\ window \in Nat /\ top \in Nat /\ known \in Nat
         /\ \A d \in Days : ops[d].peak \in Nat /\ ops[d].nav \in Nat
<1>1. Navs \subseteq Nat
  BY GateAssumption
<1>2. ASSUME NEW d \in Days
      PROVE  ops[d].peak \in Nat /\ ops[d].nav \in Nat
  <2>1. ops[d] \in Row \cup {NoRow}
    BY DEF TypeOK
  <2>2. CASE ops[d] \in Row
    BY <1>1, <2>2 DEF Row
  <2>3. CASE ops[d] = NoRow
    BY <2>3 DEF NoRow
  <2> QED
    BY <2>1, <2>2, <2>3
<1>3. /\ nav \in Nat /\ peak \in Nat /\ tickPeak \in Nat
      /\ window \in Nat /\ top \in Nat /\ known \in Nat
  <2>1. Navs \cup {0} \subseteq Nat
    BY <1>1
  <2>2. {nav, peak, tickPeak, window, top, known} \subseteq Navs \cup {0}
    BY DEF TypeOK
  <2> QED
    BY <2>1, <2>2
<1> QED
  BY <1>2, <1>3

LEMMA InitInv == Init => IInv
<1> SUFFICES ASSUME Init PROVE IInv
  OBVIOUS
<1>1. day \in Days
  BY GateAssumption DEF Init, Days
<1>2. TypeOK
  BY <1>1 DEF Init, TypeOK, Phase
<1>3. Bounded
  BY DEF Init, Bounded, NoRow
<1>4. WindowIsTop /\ TickState
  BY DEF Init, WindowIsTop, TickState, Judged
<1>5. Remembered
  BY <1>1 DEF Init, Remembered
<1> QED
  BY <1>2, <1>3, <1>4, <1>5 DEF IInv

\* A read raises the window and the two highest NAVs together.
LEMMA ReadStep == IInv /\ ReadPortfolio => IInv'
<1> SUFFICES ASSUME IInv, ReadPortfolio PROVE IInv'
  OBVIOUS
<1> USE DEF IInv
<1>1. /\ nav' \in Navs /\ nav' \in Nat
      /\ nav = 0 /\ up /\ phase = "idle" /\ phase' = "read"
      /\ UNCHANGED <<up, day, peak, tickPeak, ops, lost, fell>>
  BY GateAssumption DEF ReadPortfolio, TickState
<1>2. /\ top' = Higher(top, nav') /\ window' = Higher(window, nav')
      /\ known' = Higher(known, nav')
  BY DEF ReadPortfolio, Window
<1>3. /\ known' >= known /\ known' >= nav' /\ top' >= known'
      /\ top' \in Nat /\ known' \in Nat
      /\ {top', known', window'} \subseteq Navs \cup {0}
  BY <1>1, <1>2, NavTypes DEF Higher, TypeOK, Bounded
<1>4. TypeOK'
  BY <1>1, <1>3 DEF TypeOK, Phase
<1>5. Bounded'
  <2>1. peak' <= known' /\ tickPeak' <= known' /\ nav' <= known' /\ known' <= top'
    BY <1>1, <1>3, NavTypes DEF Bounded
  <2>2. \A d \in Days : ops[d].peak <= known'
    BY <1>1, <1>3, NavTypes DEF Bounded
  <2> QED
    BY <1>1, <2>1, <2>2 DEF Bounded
<1>6. WindowIsTop'
  BY <1>2 DEF WindowIsTop
<1>7. TickState'
  BY <1>1 DEF TickState, Judged
<1>8. Remembered'
  <2> SUFFICES ASSUME ~lost
               PROVE  /\ known' = Higher(peak, nav')
                      /\ ops[day] # NoRow => ops[day].peak = peak
    BY <1>1 DEF Remembered
  <2>1. known = peak
    BY <1>1, NavTypes DEF Remembered, Higher
  <2> QED
    BY <1>1, <1>2, <2>1 DEF Remembered
<1> QED
  BY <1>4, <1>5, <1>6, <1>7, <1>8

\* The snapshot of a confirmation raises the window and what it stands for.
LEMMA ConfirmStep == IInv /\ ConfirmReceipt => IInv'
<1> SUFFICES ASSUME IInv, ConfirmReceipt PROVE IInv'
  OBVIOUS
<1> USE DEF IInv
<1>1. PICK n \in Navs : window' = Higher(window, n) /\ top' = Higher(top, n)
  BY DEF ConfirmReceipt, Window
<1>2. UNCHANGED <<up, day, phase, nav, peak, tickPeak, ops, known, lost, fell>>
  BY DEF ConfirmReceipt, process
<1>3. n \in Nat
  BY GateAssumption
<1>4. top' >= top /\ top' \in Nat /\ {top', window'} \subseteq Navs \cup {0}
  BY <1>1, <1>3, NavTypes DEF Higher, TypeOK
<1>5. TypeOK'
  BY <1>2, <1>4 DEF TypeOK
<1>6. Bounded'
  BY <1>2, <1>4, NavTypes DEF Bounded
<1>7. WindowIsTop'
  BY <1>1 DEF WindowIsTop
<1>8. TickState'
  <2>1. Fallen(tickPeak, nav, HardPct)' = Fallen(tickPeak, nav, HardPct)
    BY <1>2 DEF Fallen
  <2> QED
    BY <1>2, <2>1 DEF TickState, Judged
<1>9. Remembered'
  BY <1>2 DEF Remembered
<1> QED
  BY <1>5, <1>6, <1>7, <1>8, <1>9

\* The state a tick builds remembers the NAV it read.
LEMMA UpdateStep == IInv /\ UpdateState => IInv'
<1> SUFFICES ASSUME IInv, UpdateState PROVE IInv'
  OBVIOUS
<1> USE DEF IInv
<1>1. /\ phase = "read" /\ nav > 0 /\ tickPeak' = Higher(peak, nav)
      /\ phase' \in Judged /\ up
      /\ UNCHANGED <<up, day, nav, peak, ops, window, top, known, lost>>
  BY DEF UpdateState, TickState, Judged
<1>2. tickPeak' \in Navs \cup {0} /\ tickPeak' <= known
  BY <1>1, NavTypes DEF Higher, TypeOK, Bounded
<1>3. TypeOK'
  BY <1>1, <1>2 DEF TypeOK, Phase, Judged, UpdateState
<1>4. Bounded' /\ WindowIsTop'
  BY <1>1, <1>2 DEF Bounded, WindowIsTop
<1>5. TickState'
  <2>1. /\ phase' = "hard" => Fallen(tickPeak', nav, HardPct)
        /\ phase' = "open" => ~Fallen(tickPeak', nav, HardPct)
    BY DEF UpdateState
  <2>2. Fallen(tickPeak, nav, HardPct)' = Fallen(tickPeak', nav, HardPct)
    BY <1>1 DEF Fallen
  <2> QED
    BY <1>1, <2>1, <2>2 DEF TickState, Judged, UpdateState
<1>6. Remembered'
  BY <1>1 DEF Remembered
<1> QED
  BY <1>3, <1>4, <1>5, <1>6

\* Saving the row of the day keeps the rows in order.
LEMMA SavedRows ==
  ASSUME IInv, phase \in Judged, ops' = [ops EXCEPT ![day] = SavedRow]
  PROVE  /\ up /\ day \in Days
         /\ tickPeak = Higher(peak, nav)
         /\ tickPeak \in Navs /\ nav \in Navs /\ nav <= tickPeak /\ tickPeak <= known
         /\ ops' \in [Days -> Row \cup {NoRow}]
         /\ ops'[day].peak = tickPeak
         /\ \A d \in Days : /\ ops'[d].nav <= ops'[d].peak /\ ops'[d].peak <= known
                            /\ d > day => ops'[d] = NoRow
<1> USE DEF IInv
<1>1. up /\ day \in Days /\ nav > 0 /\ tickPeak = Higher(peak, nav)
  BY DEF TickState, Judged, TypeOK
<1>2. ops' = [ops EXCEPT ![day] = [peak |-> tickPeak, nav |-> nav]]
  BY DEF SavedRow
<1>3. /\ nav \in Navs /\ tickPeak \in Navs
      /\ nav <= tickPeak /\ tickPeak <= known
  BY <1>1, NavTypes DEF Higher, TypeOK, Bounded
<1>4. ops' \in [Days -> Row \cup {NoRow}]
  BY <1>1, <1>2, <1>3 DEF TypeOK, Row
<1>5. ASSUME NEW d \in Days
      PROVE  /\ ops'[d].nav <= ops'[d].peak /\ ops'[d].peak <= known
             /\ d > day => ops'[d] = NoRow
  <2>1. CASE d = day
    <3>1. ops'[d] = [peak |-> tickPeak, nav |-> nav]
      BY <1>1, <1>2, <2>1 DEF TypeOK
    <3>2. ~(d > day)
      BY <2>1 DEF Days
    <3> QED
      BY <1>3, <3>1, <3>2
  <2>2. CASE d # day
    BY <1>2, <2>2 DEF TypeOK, Bounded
  <2> QED
    BY <2>1, <2>2
<1>6. ops'[day].peak = tickPeak
  BY <1>1, <1>2 DEF TypeOK
<1> QED
  BY <1>1, <1>3, <1>4, <1>5, <1>6

\* The row and the memory take the peak of the tick: it is remembered again
\* if it is the highest of all.
LEMMA FinishStep == IInv /\ FinishTick => IInv'
<1> SUFFICES ASSUME IInv, FinishTick PROVE IInv'
  OBVIOUS
<1> USE DEF IInv
<1>1. /\ peak' = tickPeak /\ phase' = "idle" /\ nav' = 0 /\ tickPeak' = 0
      /\ lost' = (tickPeak < known)
      /\ UNCHANGED <<up, day, window, top, known, fell>>
  BY DEF FinishTick
<1>2. phase \in Judged /\ ops' = [ops EXCEPT ![day] = SavedRow]
  BY DEF FinishTick, Judged
<1>3. /\ up /\ tickPeak \in Navs /\ tickPeak <= known
      /\ ops' \in [Days -> Row \cup {NoRow}] /\ ops'[day].peak = tickPeak
      /\ \A d \in Days : /\ ops'[d].nav <= ops'[d].peak /\ ops'[d].peak <= known
                         /\ d > day => ops'[d] = NoRow
  BY <1>2, SavedRows
<1>4. TypeOK'
  BY <1>1, <1>3 DEF TypeOK, Phase
<1>5. Bounded'
  BY <1>1, <1>3, NavTypes DEF Bounded
<1>6. WindowIsTop' /\ TickState'
  BY <1>1, <1>3 DEF WindowIsTop, TickState, Judged
<1>7. Remembered'
  <2> SUFFICES ASSUME ~lost'
               PROVE  known = Higher(tickPeak, 0) /\ ops'[day].peak = tickPeak
    BY <1>1, <1>3 DEF Remembered
  <2>1. known = tickPeak
    <3>1. ~(tickPeak < known)
      BY <1>1
    <3> QED
      BY <1>3, <3>1, NavTypes
  <2> QED
    BY <1>3, <2>1, NavTypes DEF Higher
<1> QED
  BY <1>4, <1>5, <1>6, <1>7

\* A row that was saved by a tick that then failed agrees with the memory
\* unless that tick read a new peak.
LEMMA FailAfterRowStep == IInv /\ FailAfterRow => IInv'
<1> SUFFICES ASSUME IInv, FailAfterRow PROVE IInv'
  OBVIOUS
<1> USE DEF IInv
<1>1. /\ phase' = "idle" /\ nav' = 0 /\ tickPeak' = 0
      /\ lost' = (lost \/ nav > peak)
      /\ UNCHANGED <<up, day, peak, window, top, known, fell>>
  BY DEF FailAfterRow
<1>2. phase \in Judged /\ ops' = [ops EXCEPT ![day] = SavedRow]
  BY DEF FailAfterRow, Judged
<1>3. /\ up /\ tickPeak = Higher(peak, nav)
      /\ ops' \in [Days -> Row \cup {NoRow}] /\ ops'[day].peak = tickPeak
      /\ \A d \in Days : /\ ops'[d].nav <= ops'[d].peak /\ ops'[d].peak <= known
                         /\ d > day => ops'[d] = NoRow
  BY <1>2, SavedRows
<1>4. TypeOK'
  BY <1>1, <1>3 DEF TypeOK, Phase
<1>5. Bounded'
  BY <1>1, <1>3, NavTypes DEF Bounded
<1>6. WindowIsTop' /\ TickState'
  BY <1>1, <1>3 DEF WindowIsTop, TickState, Judged
<1>7. Remembered'
  <2> SUFFICES ASSUME ~lost, ~(nav > peak)
               PROVE  known = Higher(peak, 0) /\ ops'[day].peak = peak
    BY <1>1, <1>3 DEF Remembered
  <2>1. known = Higher(peak, nav)
    BY <1>3 DEF Remembered
  <2> QED
    BY <1>3, <2>1, NavTypes DEF Higher
<1> QED
  BY <1>4, <1>5, <1>6, <1>7

\* A tick that ends early loses the NAV it read only if that was a new peak.
LEMMA FailStep == IInv /\ TickFails => IInv'
<1> SUFFICES ASSUME IInv, TickFails PROVE IInv'
  OBVIOUS
<1> USE DEF IInv
<1>1. /\ phase' = "idle" /\ nav' = 0 /\ tickPeak' = 0 /\ up
      /\ lost' = (lost \/ nav > peak)
      /\ UNCHANGED <<up, day, peak, ops, window, top, known, fell>>
  BY DEF TickFails, TickState
<1>2. TypeOK'
  BY <1>1 DEF TypeOK, Phase
<1>3. Bounded'
  BY <1>1, NavTypes DEF Bounded
<1>4. WindowIsTop' /\ TickState'
  BY <1>1 DEF WindowIsTop, TickState, Judged
<1>5. Remembered'
  <2> SUFFICES ASSUME ~lost, ~(nav > peak)
               PROVE  /\ known = Higher(peak, 0)
                      /\ ops[day] # NoRow => ops[day].peak = peak
    BY <1>1 DEF Remembered
  <2>1. known = Higher(peak, nav) /\ (ops[day] # NoRow => ops[day].peak = peak)
    BY <1>1 DEF Remembered
  <2> QED
    BY <2>1, NavTypes DEF Higher
<1> QED
  BY <1>2, <1>3, <1>4, <1>5

LEMMA CrashStep == IInv /\ Crash => IInv'
<1> SUFFICES ASSUME IInv, Crash PROVE IInv'
  OBVIOUS
<1> USE DEF IInv
<1>1. /\ up /\ up' = FALSE /\ phase' = "idle"
      /\ nav' = 0 /\ tickPeak' = 0 /\ peak' = 0
      /\ lost' = (lost \/ (phase # "idle" /\ nav > peak))
      /\ UNCHANGED <<day, ops, window, top, known, fell>>
  BY DEF Crash
<1>2. TypeOK'
  BY <1>1 DEF TypeOK, Phase
<1>3. Bounded'
  BY <1>1, NavTypes DEF Bounded
<1>4. WindowIsTop' /\ TickState'
  BY <1>1 DEF WindowIsTop, TickState, Judged
<1>5. Remembered'
  <2> SUFFICES ASSUME ~lost, ~(phase # "idle" /\ nav > peak), ops[day] # NoRow
               PROVE  ops[day].peak = known
    BY <1>1 DEF Remembered
  <2>1. known = Higher(peak, nav) /\ ops[day].peak = peak
    BY <1>1 DEF Remembered
  <2>2. ~(nav > peak)
    BY NavTypes DEF TickState
  <2> QED
    BY <2>1, <2>2, NavTypes DEF Higher
<1> QED
  BY <1>2, <1>3, <1>4, <1>5

\* What a restart restores was saved; the rest is lost.
LEMMA BootStep == IInv /\ Boot => IInv'
<1> SUFFICES ASSUME IInv, Boot PROVE IInv'
  OBVIOUS
<1> USE DEF IInv
<1> DEFINE row == ops[day]
<1>1. /\ ~up /\ up' = TRUE /\ phase = "idle" /\ nav = 0
      /\ peak' = Restored(row)
      /\ window' = IF StartConfigured THEN window ELSE 0
      /\ fell' = (fell /\ StartConfigured)
      /\ lost' = (lost \/ (known > 0 /\ (row = NoRow \/ Stale(row))))
      /\ UNCHANGED <<day, phase, nav, tickPeak, ops, top, known>>
  BY DEF Boot, TickState
<1>2. /\ day \in Days /\ row \in Row \cup {NoRow}
      /\ row.nav \in Nat /\ row.peak \in Nat
      /\ row.nav <= row.peak /\ row.peak <= known
  BY NavTypes DEF TypeOK, Bounded
<1>3. peak' \in Navs \cup {0}
  BY <1>1, <1>2 DEF Restored, Row, NoRow
<1>4. peak' <= known
  BY <1>1, <1>2, NavTypes DEF Restored
<1>5. TypeOK'
  BY <1>1, <1>3 DEF TypeOK
<1>6. Bounded'
  BY <1>1, <1>4 DEF Bounded
<1>7. WindowIsTop' /\ TickState'
  BY <1>1 DEF WindowIsTop, TickState, Judged
<1>8. Remembered'
  <2> SUFFICES ASSUME ~lost, ~(known > 0 /\ (row = NoRow \/ Stale(row)))
               PROVE  /\ known = Higher(peak', 0)
                      /\ row # NoRow => row.peak = peak'
    BY <1>1 DEF Remembered
  <2>1. CASE known > 0
    <3>1. row # NoRow /\ ~Stale(row)
      BY <2>1
    <3>2. row.peak = known /\ peak' = row.peak
      BY <1>1, <3>1 DEF Remembered, Restored
    <3> QED
      BY <2>1, <3>2, NavTypes DEF Higher
  <2>2. CASE ~(known > 0)
    <3>1. known = 0 /\ row.peak = 0 /\ row.nav = 0
      BY <1>2, <2>2, NavTypes
    <3>2. peak' = 0
      BY <1>1, <3>1 DEF Restored
    <3> QED
      BY <3>1, <3>2 DEF Higher
  <2> QED
    BY <2>1, <2>2
<1> QED
  BY <1>5, <1>6, <1>7, <1>8

\* No row of the new day exists yet.
LEMMA NewDayStep == IInv /\ NewDay => IInv'
<1> SUFFICES ASSUME IInv, NewDay PROVE IInv'
  OBVIOUS
<1> USE DEF IInv
<1>1. /\ day \in Days /\ day < MaxDay /\ day' = day + 1
      /\ UNCHANGED <<up, phase, nav, peak, tickPeak, ops, window, top, known, lost, fell>>
  BY DEF NewDay, process, TypeOK
<1>2. day' \in Days /\ day' > day
  BY <1>1, GateAssumption DEF Days
<1>3. TypeOK'
  BY <1>1, <1>2 DEF TypeOK
<1>4. Bounded'
  <2>1. \A d \in Days : d > day' => d > day
    BY <1>1, <1>2 DEF Days
  <2> QED
    BY <1>1, <2>1 DEF Bounded
<1>5. WindowIsTop' /\ TickState'
  <2>1. Fallen(tickPeak, nav, HardPct)' = Fallen(tickPeak, nav, HardPct)
    BY <1>1 DEF Fallen
  <2> QED
    BY <1>1, <2>1 DEF WindowIsTop, TickState, Judged
<1>6. Remembered'
  <2>1. ops'[day'] = NoRow
    BY <1>1, <1>2 DEF Bounded
  <2> QED
    BY <1>1, <2>1 DEF Remembered
<1> QED
  BY <1>3, <1>4, <1>5, <1>6

LEMMA StutterStep == IInv /\ UNCHANGED vars => IInv'
<1> SUFFICES ASSUME IInv, UNCHANGED vars PROVE IInv'
  OBVIOUS
<1>1. Fallen(tickPeak, nav, HardPct)' = Fallen(tickPeak, nav, HardPct)
  BY DEF vars, process, Fallen
<1> QED
  BY <1>1 DEF vars, process, IInv, TypeOK, Bounded, WindowIsTop, TickState, Remembered

\* The inductive invariant: where the highest NAV is remembered.
THEOREM PeakRemembered == Spec => []IInv
<1>1. IInv /\ [Next]_vars => IInv'
  BY ReadStep, ConfirmStep, UpdateStep, FinishStep, FailAfterRowStep, FailStep, CrashStep, BootStep,
     NewDayStep, StutterStep DEF Next
<1> QED
  BY InitInv, <1>1, PTL DEF Spec

-----------------------------------------------------------------------------
(* The gates. *)

\* Every variable of the gates keeps its type.
THEOREM GateTyping == Spec => []TypeOK
<1>1. IInv => TypeOK
  BY DEF IInv
<1> QED
  BY <1>1, PeakRemembered, PTL

\* No tick passes the disqualification gate while the NAV is below the
\* threshold of the highest snapshot, however often the process restarts.
THEOREM DqGateSafe == Spec => DqGateShut
<1>1. IInv /\ [Next]_vars =>
        [StartConfigured /\ phase = "read" /\ phase' \in {"hard", "open"}
           => ~Down(top, DqPct)]_vars
  <2> SUFFICES ASSUME IInv, Next, StartConfigured, phase = "read", phase' \in {"hard", "open"}
               PROVE  ~Down(top, DqPct)
    OBVIOUS
  <2>1. UpdateState
    BY DEF Next, ReadPortfolio, ConfirmReceipt, FinishTick, FailAfterRow, TickFails, Crash,
       Boot, NewDay, process
  <2>2. ~Fallen(window, nav, DqPct)
    BY <2>1 DEF UpdateState
  <2> QED
    BY <2>2 DEF IInv, WindowIsTop, Down, Fallen
<1> QED
  BY <1>1, PeakRemembered, PTL DEF Spec, DqGateShut

\* Trades are approved beyond the hard threshold of what the ticks read only
\* if the peak was lost.
THEOREM HardGateSafe == Spec => []HardGateShut
<1>1. ASSUME IInv, phase = "open", Down(known, HardPct), ~lost
      PROVE  FALSE
  <2>1. up /\ tickPeak = Higher(peak, nav) /\ ~Fallen(tickPeak, nav, HardPct)
    BY <1>1 DEF IInv, TickState, Judged
  <2>2. known = tickPeak
    BY <1>1, <2>1 DEF IInv, Remembered
  <2> QED
    BY <1>1, <2>1, <2>2 DEF Down, Fallen
<1>2. IInv => HardGateShut
  BY <1>1 DEF HardGateShut
<1> QED
  BY <1>2, PeakRemembered, PTL

\* Further below a higher peak.
LEMMA FallenFurther ==
  ASSUME NEW p \in Nat, NEW q \in Nat, NEW n \in Nat, NEW pct \in 1 .. 100,
         p <= q, 100 * (p - n) >= pct * p
  PROVE  100 * (q - n) >= pct * q
<1>1. PICK d \in Nat : q = p + d
  <2>1. q - p \in Nat /\ q = p + (q - p)
    OBVIOUS
  <2> QED
    BY <2>1
<1>2. PICK r \in Nat : 100 = pct + r
  <2>1. 100 - pct \in Nat /\ 100 = pct + (100 - pct)
    OBVIOUS
  <2> QED
    BY <2>1
<1>3. pct * q = pct * p + pct * d /\ pct * d \in Nat /\ pct * p \in Nat
  BY <1>1
<1>4. 100 * d = pct * d + r * d /\ r * d \in Nat
  BY <1>2
<1> QED
  BY <1>1, <1>3, <1>4

\* No restart, stale row or lost peak makes up a drawdown.
THEOREM NoPhantom == Spec => []NoPhantomDerisk
<1>1. ASSUME IInv, phase = "hard"
      PROVE  Down(known, HardPct)
  <2>1. Fallen(tickPeak, nav, HardPct) /\ tickPeak <= known /\ TypeOK
    BY <1>1 DEF IInv, TickState, Bounded
  <2>2. HardPct \in 1 .. 100
    BY GateAssumption
  <2> QED
    BY <2>1, <2>2, NavTypes, FallenFurther DEF Down, Fallen
<1>2. IInv => NoPhantomDerisk
  BY <1>1 DEF NoPhantomDerisk
<1> QED
  BY <1>2, PeakRemembered, PTL
=============================================================================
