--------------------------- MODULE DebuggerProofs ---------------------------
(***************************************************************************)
(* The debugger's loop, for every length of a burst and of a batch of      *)
(* keys, and its views, for every size of memory and of a row.  The facts  *)
(* about the loop's flags need no more than themselves, but for the steps: *)
(* a request that is still up has had no answer.  The views stay in memory *)
(* because every key moves them by whole rows.                             *)
(***************************************************************************)
EXTENDS MCDebugger, Integers, TLAPS

\* The actions of handle_input and the rest of the loop, which the facts below
\* treat alike.
Running == BurstRuns \/ BurstMeetsIllegal \/ BurstIsOver
Stepping == StepRuns \/ StepMeetsIllegal \/ NothingToRun

----------------------------------------------------------------------------
(* What a key does, whichever it is.                                       *)

KeyAction(key) == IF illegal_opcode THEN KeyUnderOverlay(key) ELSE KeyOutsideOverlay(key)

LEMMA KeysKeepTypes ==
  ASSUME TypeOK, NEW key \in Keys, KeyAction(key)
  PROVE  /\ running' \in BOOLEAN /\ paused' \in BOOLEAN /\ step_requested' \in BOOLEAN
         /\ quit_requested' \in BOOLEAN /\ illegal_opcode' \in BOOLEAN
         /\ play_mode' \in BOOLEAN
         /\ last_key' \in Keys \cup {"none"}
         /\ frame_complete' = frame_complete /\ opcode' \in Opcodes
<1> USE DEF TypeOK
<1>1. CASE illegal_opcode
  <2>1. CASE key = "space"
    BY <1>1, <2>1 DEF KeyAction, KeyUnderOverlay, ResetToInitState
  <2>2. CASE key # "space"
    BY <1>1, <2>2 DEF KeyAction, KeyUnderOverlay, keyVars, codeVars
  <2> QED
    BY <2>1, <2>2
<1>2. CASE ~illegal_opcode
  <2>1. KeyOutsideOverlay(key)
    BY <1>2 DEF KeyAction
  <2>2. CASE key = "q"
    BY <2>1, <2>2 DEF KeyOutsideOverlay, PressQuit, codeVars
  <2>3. CASE key \in {"space", "s"}
    BY <2>1, <2>3 DEF KeyOutsideOverlay, PressStep
  <2>4. CASE key = "p"
    BY <2>1, <2>4 DEF KeyOutsideOverlay, PressPause, codeVars
  <2>5. CASE key = "r"
    BY <2>1, <2>5 DEF KeyOutsideOverlay, PressReset
  <2>6. CASE key = "d"
    BY <2>1, <2>6 DEF KeyOutsideOverlay, PressPlay, codeVars
  <2>7. CASE key = "other"
    BY <2>1, <2>7 DEF KeyOutsideOverlay, PressOther, codeVars
  <2> QED
    BY <2>2, <2>3, <2>4, <2>5, <2>6, <2>7 DEF Keys
<1> QED
  BY <1>1, <1>2

\* The overlay is not raised by a key, and while it stays up no key unpauses
\* the program or moves it.
LEMMA KeysKeepOverlay ==
  ASSUME OverlayHoldsProgram, NEW key \in Keys, KeyAction(key)
  PROVE  OverlayHoldsProgram'
<1> USE DEF OverlayHoldsProgram
<1>1. CASE illegal_opcode
  BY <1>1 DEF KeyAction, KeyUnderOverlay, ResetToInitState, keyVars, codeVars
<1>2. CASE ~illegal_opcode
  <2>1. ~illegal_opcode'
    BY <1>2 DEF KeyAction, KeyOutsideOverlay, Keys, PressQuit, PressStep, PressPause,
                PressReset, PressPlay, PressOther
  <2> QED
    BY <2>1
<1> QED
  BY <1>1, <1>2

LEMMA KeysKeepQuitRequest ==
  ASSUME QuitRequestIsFresh, NEW key \in Keys, KeyAction(key)
  PROVE  QuitRequestIsFresh'
<1> USE DEF QuitRequestIsFresh
<1>1. CASE illegal_opcode
  BY <1>1 DEF KeyAction, KeyUnderOverlay, ResetToInitState, keyVars
<1>2. CASE ~illegal_opcode
  BY <1>2 DEF KeyAction, KeyOutsideOverlay, Keys, PressQuit, PressStep, PressPause,
              PressReset, PressPlay, PressOther
<1> QED
  BY <1>1, <1>2

\* A request that is still up has had no answer, and none has had two.
StepInv == StepsAreAskedFor /\ (step_requested => answers = 0)

\* A key asks for a step afresh, or leaves both the request and its answer.
LEMMA KeysAndSteps ==
  ASSUME step_requested \in BOOLEAN, NEW key \in Keys, KeyAction(key)
  PROVE  \/ step_requested' /\ answers' = 0
         \/ UNCHANGED <<step_requested, answers>>
<1>1. CASE illegal_opcode
  BY <1>1 DEF KeyAction, KeyUnderOverlay, ResetToInitState, keyVars, codeVars
<1>2. CASE ~illegal_opcode
  <2>1. KeyOutsideOverlay(key)
    BY <1>2 DEF KeyAction
  <2>2. CASE PressStep /\ paused
    BY <2>2 DEF PressStep
  <2>3. CASE PressStep /\ ~paused
    BY <2>3 DEF PressStep
  <2>4. CASE PressQuit \/ PressPause \/ PressReset \/ PressPlay \/ PressOther
    BY <2>4 DEF PressQuit, PressPause, PressReset, PressPlay, PressOther, codeVars
  <2>5. \/ PressQuit \/ PressStep \/ PressPause \/ PressReset \/ PressPlay
        \/ PressOther
    BY <2>1, Zenon DEF KeyOutsideOverlay
  <2> QED
    BY <2>2, <2>3, <2>4, <2>5
<1> QED
  BY <1>1, <1>2

----------------------------------------------------------------------------
(* The invariants over the whole loop.                                     *)

\* The type invariant in two parts: counting needs arithmetic, the flags do not.
Counters == batch \in 0 .. MaxBatch /\ burst \in 0 .. BurstLength /\ answers \in Nat
Flags ==
  /\ phase \in {"poll", "run", "draw", "ended"}
  /\ running \in BOOLEAN /\ paused \in BOOLEAN /\ step_requested \in BOOLEAN
  /\ quit_requested \in BOOLEAN /\ illegal_opcode \in BOOLEAN /\ play_mode \in BOOLEAN
  /\ frame_complete \in BOOLEAN /\ opcode \in Opcodes
  /\ last_key \in Keys \cup {"none"}

LEMMA TypeParts == TypeOK <=> Counters /\ Flags
BY Zenon DEF TypeOK, Counters, Flags

LEMMA NextCounters == TypeOK /\ [Next]_vars => Counters'
<1> SUFFICES ASSUME TypeOK, [Next]_vars PROVE Counters'
  OBVIOUS
<1>0. Counters
  BY TypeParts
<1> USE DebuggerAssumption DEF DebuggerAssumption, Counters
<1>1. CASE PressKey
  <2>1. PICK key \in Keys : KeyAction(key)
    BY <1>1 DEF PressKey, KeyAction
  <2>2. answers' \in Nat
    BY <1>0, <2>1, KeysAndSteps DEF TypeOK
  <2> QED
    BY <1>0, <1>1, <2>2 DEF PressKey, TakeEvent
<1>2. CASE CloseWindow
  BY <1>0, <1>2 DEF CloseWindow, TakeEvent, codeVars
<1>3. CASE NoMoreEvents
  BY <1>0, <1>3 DEF NoMoreEvents, codeVars
<1>4. CASE Running
  BY <1>0, <1>4 DEF Running, BurstRuns, BurstMeetsIllegal, BurstIsOver, codeVars
<1>5. CASE Stepping
  BY <1>0, <1>5 DEF Stepping, StepRuns, StepMeetsIllegal, NothingToRun, codeVars
<1>6. CASE Render
  BY <1>0, <1>6 DEF Render, codeVars
<1>7. CASE UNCHANGED vars
  BY <1>0, <1>7 DEF vars, codeVars
<1> QED
  BY <1>1, <1>2, <1>3, <1>4, <1>5, <1>6, <1>7 DEF Next, Running, Stepping

LEMMA NextFlags == TypeOK /\ [Next]_vars => Flags'
<1> SUFFICES ASSUME TypeOK, [Next]_vars PROVE Flags'
  OBVIOUS
<1>0. Flags
  BY TypeParts
<1> USE DEF Flags
<1>1. CASE PressKey
  <2>1. PICK key \in Keys : KeyAction(key)
    BY <1>1 DEF PressKey, KeyAction
  <2>2. UNCHANGED phase
    BY <1>1 DEF PressKey, TakeEvent
  <2> QED
    BY <1>0, <2>1, <2>2, KeysKeepTypes
<1>2. CASE CloseWindow
  BY <1>0, <1>2, Zenon DEF CloseWindow, TakeEvent, codeVars
<1>3. CASE NoMoreEvents
  BY <1>0, <1>3, Zenon DEF NoMoreEvents, keyVars, codeVars
<1>4. CASE BurstRuns
  <2>1. phase' \in {"draw", "run"}
    BY <1>0, <1>4 DEF BurstRuns
  <2>2. opcode' \in Opcodes
    BY <1>0, <1>4, Zenon DEF BurstRuns, ExecuteWithPpu
  <2>3. frame_complete' = FALSE /\ UNCHANGED keyVars
    BY <1>4 DEF BurstRuns
  <2> QED
    BY <1>0, <2>1, <2>2, <2>3, Zenon DEF keyVars
<1>5. CASE BurstMeetsIllegal \/ BurstIsOver
  BY <1>0, <1>5, Zenon DEF BurstMeetsIllegal, BurstIsOver, keyVars, codeVars
<1>6. CASE StepRuns
  <2>1. opcode' \in Opcodes /\ frame_complete' \in BOOLEAN
    BY <1>0, <1>6, Zenon DEF StepRuns, ExecuteWithPpu
  <2> QED
    BY <1>0, <1>6, <2>1, Zenon DEF StepRuns
<1>7. CASE StepMeetsIllegal \/ NothingToRun
  BY <1>0, <1>7, Zenon DEF StepMeetsIllegal, NothingToRun, keyVars, codeVars
<1>8. CASE Render
  <2>1. phase' \in {"poll", "ended"}
    BY <1>8, Zenon DEF Render
  <2> QED
    BY <1>0, <1>8, <2>1, Zenon DEF Render, keyVars, codeVars
<1>9. CASE UNCHANGED vars
  BY <1>0, <1>9, Zenon DEF vars, keyVars, codeVars
<1> QED
  BY <1>1, <1>2, <1>3, <1>4, <1>5, <1>6, <1>7, <1>8, <1>9 DEF Next

LEMMA NextTypeOK == TypeOK /\ [Next]_vars => TypeOK'
<1> SUFFICES ASSUME TypeOK, [Next]_vars PROVE TypeOK'
  OBVIOUS
<1>1. Counters'
  BY TypeParts, NextCounters
<1>2. Flags'
  BY NextFlags
<1>3. TypeOK' <=> Counters' /\ Flags'
  BY Zenon DEF TypeOK, Counters, Flags
<1> QED
  BY <1>1, <1>2, <1>3

LEMMA NextOverlay == OverlayHoldsProgram /\ [Next]_vars => OverlayHoldsProgram'
<1> SUFFICES ASSUME OverlayHoldsProgram, [Next]_vars PROVE OverlayHoldsProgram'
  OBVIOUS
<1>1. CASE PressKey
  BY <1>1, KeysKeepOverlay DEF PressKey, KeyAction
<1>2. CASE CloseWindow
  BY <1>2 DEF CloseWindow, codeVars, OverlayHoldsProgram
<1>3. CASE NoMoreEvents
  BY <1>3 DEF NoMoreEvents, keyVars, codeVars, OverlayHoldsProgram
<1>4. CASE Running
  BY <1>4 DEF Running, BurstRuns, BurstMeetsIllegal, BurstIsOver, keyVars, codeVars,
              OverlayHoldsProgram
<1>5. CASE Stepping
  BY <1>5 DEF Stepping, StepRuns, StepMeetsIllegal, NothingToRun, keyVars, codeVars,
              OverlayHoldsProgram
<1>6. CASE Render
  BY <1>6 DEF Render, keyVars, codeVars, OverlayHoldsProgram
<1>7. CASE UNCHANGED vars
  BY <1>7 DEF vars, keyVars, codeVars, OverlayHoldsProgram
<1> QED
  BY <1>1, <1>2, <1>3, <1>4, <1>5, <1>6, <1>7 DEF Next, Running, Stepping

LEMMA NextQuitRequest == QuitRequestIsFresh /\ [Next]_vars => QuitRequestIsFresh'
<1> SUFFICES ASSUME QuitRequestIsFresh, [Next]_vars PROVE QuitRequestIsFresh'
  OBVIOUS
<1>1. CASE PressKey
  BY <1>1, KeysKeepQuitRequest DEF PressKey, KeyAction
<1>2. CASE ~PressKey
  <2>1. UNCHANGED <<quit_requested, last_key>>
    BY <1>2 DEF Next, CloseWindow, NoMoreEvents, BurstRuns, BurstMeetsIllegal,
                BurstIsOver, StepRuns, StepMeetsIllegal, NothingToRun, Render,
                vars, keyVars
  <2> QED
    BY <2>1 DEF QuitRequestIsFresh
<1> QED
  BY <1>1, <1>2

\* An answer takes the request back, so that it is the only one.
LEMMA NextSteps == TypeOK /\ StepInv /\ [Next]_vars => StepInv'
<1> SUFFICES ASSUME TypeOK, StepInv, [Next]_vars PROVE StepInv'
  OBVIOUS
<1> USE DEF StepInv, StepsAreAskedFor
<1>1. CASE PressKey
  <2>1. PICK key \in Keys : KeyAction(key)
    BY <1>1 DEF PressKey, KeyAction
  <2>2. CASE step_requested' /\ answers' = 0
    BY <2>2
  <2>3. CASE UNCHANGED <<step_requested, answers>>
    BY <2>3
  <2> QED
    BY <2>1, <2>2, <2>3, KeysAndSteps DEF TypeOK
<1>2. CASE StepRuns \/ StepMeetsIllegal
  <2>1. step_requested /\ ~step_requested' /\ answers' = answers + 1
    BY <1>2 DEF StepRuns, StepMeetsIllegal
  <2>2. answers' = 1
    BY <2>1
  <2> QED
    BY <2>1, <2>2
<1>3. CASE ~PressKey /\ ~StepRuns /\ ~StepMeetsIllegal
  <2>1. UNCHANGED <<step_requested, answers>>
    BY <1>3 DEF Next, CloseWindow, NoMoreEvents, BurstRuns, BurstMeetsIllegal, BurstIsOver,
                NothingToRun, Render, vars, keyVars, codeVars
  <2> QED
    BY <2>1
<1> QED
  BY <1>1, <1>2, <1>3

----------------------------------------------------------------------------
LEMMA InitTypeOK == Init => TypeOK
<1> SUFFICES ASSUME Init PROVE TypeOK
  OBVIOUS
<1>1. Counters
  BY DebuggerAssumption DEF DebuggerAssumption, Init, Counters
<1>2. Flags
  BY Zenon DEF Init, Flags
<1> QED
  BY <1>1, <1>2, TypeParts

\* No batch of keys and no program takes a variable of the loop out of its range.
THEOREM TypeCorrect == Spec => []TypeOK
BY InitTypeOK, NextTypeOK, PTL DEF Spec

\* However long the bursts, and whatever keys are taken while the overlay is
\* up, the program stays paused at the opcode that raised it.
THEOREM OverlayHolds == Spec => []OverlayHoldsProgram
<1>1. Init => OverlayHoldsProgram
  BY DEF Init, OverlayHoldsProgram
<1> QED
  BY <1>1, NextOverlay, PTL DEF Spec

\* A Q that is still waiting for its second press was the latest key pressed.
THEOREM QuitRequestFresh == Spec => []QuitRequestIsFresh
<1>1. Init => QuitRequestIsFresh
  BY DEF Init, QuitRequestIsFresh
<1> QED
  BY <1>1, NextQuitRequest, PTL DEF Spec

\* However the keys, the bursts and the overlay follow each other, a request
\* for a step is answered at most once, and no paused program runs an
\* instruction without one: a request that is still up has had no answer yet.
THEOREM StepsAsked == Spec => []StepsAreAskedFor
<1>1. Init => StepInv
  BY DEF Init, StepInv, StepsAreAskedFor
<1>2. StepInv => StepsAreAskedFor
  BY DEF StepInv
<1> QED
  BY <1>1, <1>2, InitTypeOK, NextTypeOK, NextSteps, PTL DEF Spec

----------------------------------------------------------------------------
(* The views.  An address that is a whole number of rows into memory, and  *)
(* less than its end, leaves room for a row; every key moves the view by   *)
(* whole rows, and the rows below wrap where memory ends.                  *)

RowCount  == Words \div RowBytes
RowStarts == {RowBytes * k : k \in 0 .. RowCount - 1}

LEMMA RowsCancel ==
  ASSUME NEW b \in Nat \ {0}, NEW i \in Int, NEW j \in Int
  PROVE  /\ b * i < b * j <=> i < j
         /\ b * i <= b * j <=> i <= j
         /\ b * i = b * j <=> i = j
<1>1. ASSUME NEW x \in Int, NEW y \in Int, x < y PROVE b * x < b * y
  <2>1. y - x \in Nat /\ y - x >= 1
    BY <1>1
  <2>2. b * (y - x) >= b
    BY <2>1, SMT
  <2>3. b * (y - x) = b * y - b * x
    BY SMT
  <2> QED
    BY <2>2, <2>3
<1>2. i < j => b * i < b * j
  BY <1>1
<1>3. j < i => b * j < b * i
  BY <1>1
<1>4. b * i \in Int /\ b * j \in Int
  BY SMT
<1>5. i < j \/ i = j \/ j < i
  OBVIOUS
<1> QED
  BY <1>2, <1>3, <1>4, <1>5

LEMMA Geometry ==
  /\ RowBytes \in Nat \ {0} /\ Words \in Nat /\ RowCount \in Nat
  /\ Words = RowBytes * RowCount /\ Rows \in Nat \ {0} /\ Rows <= RowCount /\ 16 < RowCount
  /\ Page = RowBytes * Rows /\ Page \in Nat /\ Stack = RowBytes * 16
<1>1. /\ RowBytes \in Nat \ {0} /\ Words \in Nat /\ Rows \in Nat \ {0}
      /\ Words % RowBytes = 0 /\ RowBytes * Rows <= Words /\ 16 * RowBytes < Words
  BY ViewAssumption
<1>2. RowCount \in Nat /\ Words = RowBytes * RowCount
  BY <1>1, SMT DEF RowCount
<1>3. RowBytes * Rows <= RowBytes * RowCount /\ RowBytes * 16 < RowBytes * RowCount
  BY <1>1, <1>2
<1>4. Rows <= RowCount /\ 16 < RowCount
  BY <1>1, <1>2, <1>3, RowsCancel
<1>5. Page = RowBytes * Rows /\ Page \in Nat /\ Stack = RowBytes * 16
  BY <1>1, SMT DEF Page, Stack
<1> QED
  BY <1>1, <1>2, <1>4, <1>5

\* A row has room, and whole rows lead to rows.
LEMMA RowHasRoom ==
  ASSUME NEW a \in RowStarts
  PROVE  a \in 0 .. Words - 1 /\ a + RowBytes <= Words /\ a % RowBytes = 0
<1>1. PICK k \in 0 .. RowCount - 1 : a = RowBytes * k
  BY DEF RowStarts
<1>2. k \in Int /\ 0 <= k /\ k + 1 <= RowCount /\ k + 1 \in Int /\ 0 \in Int
  BY <1>1, Geometry
<1>3. RowBytes * 0 <= RowBytes * k /\ RowBytes * (k + 1) <= RowBytes * RowCount
  BY <1>2, Geometry, RowsCancel
<1>4. RowBytes * (k + 1) = RowBytes * k + RowBytes /\ RowBytes * 0 = 0 /\ RowBytes * k \in Int
  BY <1>2, Geometry, SMT
<1>5. a % RowBytes = 0
  BY <1>1, <1>2, Geometry, SMT
<1> QED
  BY <1>1, <1>3, <1>4, <1>5, Geometry

LEMMA RowsAway ==
  ASSUME NEW a \in RowStarts, NEW j \in Int, a + RowBytes * j \in 0 .. Words - 1
  PROVE  a + RowBytes * j \in RowStarts
<1>1. PICK k \in 0 .. RowCount - 1 : a = RowBytes * k
  BY DEF RowStarts
<1>2. k \in Int /\ k + j \in Int /\ 0 \in Int /\ RowCount \in Int
  BY <1>1, Geometry
<1>3. a + RowBytes * j = RowBytes * (k + j)
  BY <1>1, <1>2, Geometry, SMT
<1>4. RowBytes * 0 <= RowBytes * (k + j) /\ RowBytes * (k + j) < RowBytes * RowCount
  <2>1. RowBytes * 0 = 0
    BY Geometry, SMT
  <2> QED
    BY <1>3, <2>1, Geometry
<1>5. 0 <= k + j /\ k + j < RowCount
  BY <1>2, <1>4, Geometry, RowsCancel
<1>6. k + j \in 0 .. RowCount - 1
  BY <1>2, <1>5, Geometry
<1> QED
  BY <1>3, <1>6 DEF RowStarts

\* Where the row numbered m of a view that runs over the end of memory is.
Wrapped(m) == IF m < RowCount THEN m ELSE m - RowCount

LEMMA RowsWrap ==
  ASSUME NEW m \in 0 .. 2 * RowCount - 1
  PROVE  Wrapped(m) \in 0 .. RowCount - 1 /\ (RowBytes * m) % Words = RowBytes * Wrapped(m)
<1>1. m \in Nat /\ Wrapped(m) \in 0 .. RowCount - 1
  BY Geometry DEF Wrapped
<1> DEFINE r == RowBytes * Wrapped(m)
<1>2. r \in 0 .. Words - 1 /\ Words \in Nat \ {0}
  <2>1. r \in RowStarts
    BY <1>1 DEF RowStarts
  <2> HIDE DEF r
  <2> QED
    BY <2>1, RowHasRoom, Geometry
<1>3. RowBytes * m = Words * (IF m < RowCount THEN 0 ELSE 1) + r
  BY <1>1, Geometry, SMT DEF Wrapped
<1>4. ASSUME NEW w \in Nat \ {0}, NEW q \in {0, 1}, NEW s \in 0 .. w - 1
      PROVE  (w * q + s) % w = s
  BY SMT
<1> DEFINE p == IF m < RowCount THEN 0 ELSE 1
<1>5. p \in {0, 1} /\ RowBytes * m = Words * p + r
  BY <1>3
<1> HIDE DEF p, r
<1>6. (Words * p + r) % Words = r
  BY <1>2, <1>4, <1>5
<1> QED
  BY <1>1, <1>5, <1>6 DEF r

\* What draw_memory makes of an address: rows with room, each another.
LEMMA RowsDrawn ==
  ASSUME NEW a \in RowStarts
  PROVE  LET at(row) == (a + row * RowBytes) % Words
         IN  /\ \A row \in 0 .. Rows - 1 : at(row) \in RowStarts
             /\ \A row, other \in 0 .. Rows - 1 : at(row) = at(other) => row = other
<1> DEFINE at(row) == (a + row * RowBytes) % Words
<1>1. PICK k \in 0 .. RowCount - 1 : a = RowBytes * k
  BY DEF RowStarts
<1>2. ASSUME NEW row \in 0 .. Rows - 1
      PROVE  k + row \in 0 .. 2 * RowCount - 1 /\ at(row) = RowBytes * Wrapped(k + row)
  <2>1. k + row \in 0 .. 2 * RowCount - 1 /\ k \in Int /\ row \in Int
    BY <1>1, Geometry
  <2>2. a + row * RowBytes = RowBytes * (k + row)
    BY <1>1, <2>1, Geometry, SMT
  <2>3. (RowBytes * (k + row)) % Words = RowBytes * Wrapped(k + row)
    BY <2>1, RowsWrap
  <2> QED
    BY <2>1, <2>2, <2>3
<1>3. ASSUME NEW row \in 0 .. Rows - 1 PROVE at(row) \in RowStarts
  BY <1>2, RowsWrap DEF RowStarts
<1>4. ASSUME NEW row \in 0 .. Rows - 1, NEW other \in 0 .. Rows - 1, at(row) = at(other)
      PROVE  row = other
  <2>1. RowBytes * Wrapped(k + row) = RowBytes * Wrapped(k + other)
    BY <1>2, <1>4
  <2>2. Wrapped(k + row) \in Int /\ Wrapped(k + other) \in Int
    BY <1>2, RowsWrap
  <2>3. Wrapped(k + row) = Wrapped(k + other)
    BY <2>1, <2>2, Geometry, RowsCancel
  <2> QED
    BY <1>1, <2>3, Geometry DEF Wrapped
<1> QED
  BY <1>3, <1>4

ViewInv ==
  /\ ViewTypeOK
  /\ mem_view_addr \in RowStarts
  /\ \A row \in 0 .. Rows - 1 : shown[row] \in RowStarts
  /\ \A row, other \in 0 .. Rows - 1 : shown[row] = shown[other] => row = other

LEMMA ViewsInit == ViewInit => ViewInv
<1> SUFFICES ASSUME ViewInit PROVE ViewInv
  OBVIOUS
<1>1. 0 \in RowStarts
  <2>1. 0 = RowBytes * 0 /\ 0 \in 0 .. RowCount - 1
    BY Geometry, SMT
  <2> QED
    BY <2>1 DEF RowStarts
<1>2. ASSUME NEW row \in 0 .. Rows - 1
      PROVE  shown[row] = (0 + row * RowBytes) % Words
  <2>1. shown[row] = row * RowBytes
    BY DEF ViewInit
  <2>2. row \in Int /\ row < RowCount /\ row \in 0 .. 2 * RowCount - 1
    BY Geometry
  <2>3. (RowBytes * row) % Words = RowBytes * row
    BY <2>2, RowsWrap DEF Wrapped
  <2>4. 0 + row * RowBytes = RowBytes * row /\ row * RowBytes = RowBytes * row
    BY <2>2, Geometry, SMT
  <2> QED
    BY <2>1, <2>3, <2>4
<1>3. /\ \A row \in 0 .. Rows - 1 : shown[row] \in RowStarts
      /\ \A row, other \in 0 .. Rows - 1 : shown[row] = shown[other] => row = other
  BY <1>1, <1>2, RowsDrawn
<1>4. /\ shown \in [0 .. Rows - 1 -> 0 .. Words - 1] /\ mem_view_addr \in 0 .. Words - 1
  <2>1. DOMAIN shown = 0 .. Rows - 1 /\ shown = [row \in 0 .. Rows - 1 |-> shown[row]]
    BY DEF ViewInit
  <2>2. \A row \in 0 .. Rows - 1 : shown[row] \in 0 .. Words - 1
    BY <1>3, RowHasRoom
  <2>3. mem_view_addr \in 0 .. Words - 1
    BY <1>1, RowHasRoom DEF ViewInit
  <2> QED
    BY <2>1, <2>2, <2>3
<1>5. run_speed \in 0 .. 2 * MaxSpeed /\ oam_scroll_offset \in 0 .. MaxScroll
  BY ViewAssumption DEF ViewInit
<1> QED
  BY <1>1, <1>3, <1>4, <1>5 DEF ViewInit, ViewInv, ViewTypeOK

\* A key that looks elsewhere leaves the picture alone.
LEMMA Looked ==
  ASSUME ViewInv, NEW a \in RowStarts, Look(a)
  PROVE  ViewInv'
<1>1. a \in 0 .. Words - 1
  BY RowHasRoom
<1> QED
  BY <1>1 DEF Look, ViewInv, ViewTypeOK

LEMMA KeysKeepViews ==
  ASSUME ViewInv, PressUp \/ PressDown \/ PageUp \/ PageDown
  PROVE  ViewInv'
<1> DEFINE a == mem_view_addr
<1>1. a \in RowStarts /\ a \in 0 .. Words - 1 /\ a + RowBytes <= Words
  BY RowHasRoom DEF ViewInv
<1>2. /\ RowBytes * (-1) = -RowBytes /\ RowBytes * 1 = RowBytes
      /\ RowBytes * (-Rows) = -Page /\ RowBytes * Rows = Page
      /\ {-1, 1, -Rows, Rows} \subseteq Int
  BY Geometry, SMT
<1>3. ASSUME NEW j \in Int, a + RowBytes * j \in 0 .. Words - 1, Look(a + RowBytes * j)
      PROVE  ViewInv'
  <2>1. a + RowBytes * j \in RowStarts
    BY <1>1, <1>3, RowsAway
  <2> QED
    BY <1>3, <2>1, Looked
<1>4. ASSUME NEW offset \in 0 .. MaxScroll, Scroll(offset) PROVE ViewInv'
  BY <1>4 DEF Scroll, ViewInv, ViewTypeOK
<1>5. oam_scroll_offset \in 0 .. MaxScroll /\ MaxScroll \in Nat
  BY ViewAssumption DEF ViewInv, ViewTypeOK
<1>6. CASE PressUp
  <2>1. CASE debug_view_mode = "PPU"
    <3>1. oam_scroll_offset - 1 \in 0 .. MaxScroll /\ Scroll(oam_scroll_offset - 1)
      BY <1>5, <1>6, <2>1 DEF PressUp
    <3> QED
      BY <1>4, <3>1
  <2>2. CASE debug_view_mode # "PPU"
    <3>1. a >= RowBytes /\ Look(a - RowBytes)
      BY <1>6, <2>2 DEF PressUp
    <3>2. a + RowBytes * (-1) = a - RowBytes /\ a - RowBytes \in 0 .. Words - 1
      BY <1>1, <1>2, <3>1, Geometry
    <3> HIDE DEF a
    <3> QED
      BY <1>2, <1>3, <3>1, <3>2
  <2> QED
    BY <2>1, <2>2
<1>7. CASE PressDown
  <2>1. CASE debug_view_mode = "PPU"
    <3>1. oam_scroll_offset + 1 \in 0 .. MaxScroll /\ Scroll(oam_scroll_offset + 1)
      BY <1>5, <1>7, <2>1 DEF PressDown
    <3> QED
      BY <1>4, <3>1
  <2>2. CASE debug_view_mode # "PPU"
    <3>1. a < Words - RowBytes /\ Look(a + RowBytes)
      BY <1>7, <2>2 DEF PressDown
    <3>2. a + RowBytes * 1 = a + RowBytes /\ a + RowBytes \in 0 .. Words - 1
      BY <1>1, <1>2, <3>1, Geometry
    <3> HIDE DEF a
    <3> QED
      BY <1>2, <1>3, <3>1, <3>2
  <2> QED
    BY <2>1, <2>2
<1>8. CASE PageUp
  <2>1. CASE a >= Page
    <3>1. Look(a - Page)
      BY <1>8, <2>1 DEF PageUp
    <3>2. a + RowBytes * (-Rows) = a - Page /\ a - Page \in 0 .. Words - 1
      BY <1>1, <1>2, <2>1, Geometry
    <3> HIDE DEF a
    <3> QED
      BY <1>2, <1>3, <3>1, <3>2
  <2>2. CASE ~(a >= Page)
    <3>1. Look(0)
      BY <1>8, <2>2 DEF PageUp
    <3>2. 0 = RowBytes * 0 /\ 0 \in 0 .. RowCount - 1
      BY Geometry, SMT
    <3>3. 0 \in RowStarts
      BY <3>2 DEF RowStarts
    <3> QED
      BY <3>1, <3>3, Looked
  <2> QED
    BY <2>1, <2>2
<1>9. CASE PageDown
  <2>1. a < Words - Page /\ Look(a + Page)
    BY <1>9 DEF PageDown
  <2>2. a + RowBytes * Rows = a + Page /\ a + Page \in 0 .. Words - 1
    BY <1>1, <1>2, <2>1, Geometry
  <2> HIDE DEF a
  <2> QED
    BY <1>2, <1>3, <2>1, <2>2
<1> QED
  BY <1>6, <1>7, <1>8, <1>9

LEMMA DrawKeepsViews ==
  ASSUME ViewInv, DrawMemory
  PROVE  ViewInv'
<1> DEFINE a == CASE mem_view_mode = "ZERO_PAGE" -> 0
                  [] mem_view_mode = "STACK"     -> Stack
                  [] mem_view_mode = "CUSTOM"    -> mem_view_addr
<1>1. a \in RowStarts
  <2>1. RowBytes * 0 \in RowStarts /\ RowBytes * 16 \in RowStarts
    BY Geometry DEF RowStarts
  <2>2. 0 \in RowStarts /\ Stack \in RowStarts
    <3>1. RowBytes * 0 = 0 /\ RowBytes * 16 = Stack
      BY Geometry, SMT
    <3> QED
      BY <2>1, <3>1
  <2> QED
    BY <2>2 DEF ViewInv, ViewTypeOK
<1>2. mem_view_addr' = a /\ shown' = [row \in 0 .. Rows - 1 |-> (a + row * RowBytes) % Words]
  <2>1. mem_view_addr' = a
    BY DEF DrawMemory
  <2>2. shown' = [row \in 0 .. Rows - 1 |-> (mem_view_addr' + row * RowBytes) % Words]
    BY DEF DrawMemory
  <2> HIDE DEF a
  <2> QED
    BY <2>1, <2>2
<1>3. UNCHANGED <<debug_view_mode, mem_view_mode, oam_scroll_offset, ppu_palette_select,
                  run_speed>>
  BY DEF DrawMemory
<1> HIDE DEF a
<1>4. /\ \A row \in 0 .. Rows - 1 : shown'[row] \in RowStarts
      /\ \A row, other \in 0 .. Rows - 1 : shown'[row] = shown'[other] => row = other
  <2>1. \A row \in 0 .. Rows - 1 : shown'[row] = (a + row * RowBytes) % Words
    BY <1>2
  <2> QED
    BY <1>1, <2>1, RowsDrawn
<1>5. shown' \in [0 .. Rows - 1 -> 0 .. Words - 1]
  <2>1. \A row \in 0 .. Rows - 1 : shown'[row] \in 0 .. Words - 1
    BY <1>4, RowHasRoom
  <2> QED
    BY <1>2, <2>1
<1>6. mem_view_addr' \in RowStarts /\ mem_view_addr' \in 0 .. Words - 1
  BY <1>1, <1>2, RowHasRoom
<1> QED
  BY <1>3, <1>4, <1>5, <1>6 DEF ViewInv, ViewTypeOK

LEMMA ViewInvariant == ViewSpec => []ViewInv
<1>1. ViewInv /\ [ViewNext]_view_vars => ViewInv'
  <2> SUFFICES ASSUME ViewInv, [ViewNext]_view_vars PROVE ViewInv'
    OBVIOUS
  <2>1. ASSUME PressRegion("ZERO_PAGE") \/ PressRegion("STACK") PROVE ViewInv'
    BY <2>1 DEF PressRegion, ViewInv, ViewTypeOK
  <2>2. ASSUME PressView PROVE ViewInv'
    BY <2>2 DEF PressView, ViewInv, ViewTypeOK
  <2>3. ASSUME PressDigit PROVE ViewInv'
    BY <2>3 DEF PressDigit, ViewInv, ViewTypeOK
  <2>4. ASSUME PressFaster \/ PressSlower PROVE ViewInv'
    <3>1. run_speed \in 0 .. 2 * MaxSpeed /\ MaxSpeed \in Nat \ {0}
      BY ViewAssumption DEF ViewInv, ViewTypeOK
    <3>2. run_speed' \in 0 .. 2 * MaxSpeed
      BY <2>4, <3>1 DEF PressFaster, PressSlower
    <3> QED
      BY <2>4, <3>2 DEF PressFaster, PressSlower, ViewInv, ViewTypeOK
  <2>5. ASSUME UNCHANGED view_vars PROVE ViewInv'
    BY <2>5 DEF view_vars, ViewInv, ViewTypeOK
  <2> QED
    BY <2>1, <2>2, <2>3, <2>4, <2>5, KeysKeepViews, DrawKeepsViews DEF ViewNext
<1> QED
  BY <1>1, ViewsInit, PTL DEF ViewSpec

\* The view never leaves memory by any sequence of keys, and what is on the
\* screen is whole rows of it, each another: no row runs over the end of memory,
\* and a page up takes a page down back.
THEOREM ViewsStayInRows == ViewSpec => ViewsKeepRows
<1>1. ViewInv => RowsInOnePiece
  BY RowHasRoom DEF ViewInv, RowsInOnePiece
<1>2. ASSUME ViewInv, PageDown
      PROVE  /\ mem_view_addr' >= Page /\ mem_view_addr' - Page = mem_view_addr
             /\ mem_view_addr' % RowBytes = 0
  <2>1. PICK a \in RowStarts : a = mem_view_addr
    BY <1>2 DEF ViewInv
  <2>2. PICK b : b = a + Page
    OBVIOUS
  <2>3. mem_view_addr' = b
    BY <1>2, <2>1, <2>2 DEF PageDown, Look
  <2>4. b \in RowStarts
    BY <1>2, <2>3, KeysKeepViews DEF ViewInv
  <2>5. b >= Page /\ b - Page = a /\ b % RowBytes = 0
    BY <2>1, <2>2, <2>4, RowHasRoom, Geometry
  <2> QED
    BY <2>1, <2>3, <2>5
<1>3. ASSUME ViewInv
      PROVE  [PageDown => /\ mem_view_addr' >= Page /\ mem_view_addr' - Page = mem_view_addr
                          /\ mem_view_addr' % RowBytes = 0]_view_vars
  BY <1>2, <1>3
<1> QED
  BY <1>1, <1>3, ViewInvariant, PTL DEF ViewSpec, ViewsKeepRows, PagesAreUndone

----------------------------------------------------------------------------
(* The loop and its views together, as the run has them.                   *)

LEMMA EachPart == DebuggerSpec => Spec /\ ViewSpec
<1>1. DebuggerInit => Init /\ ViewInit
  BY DEF DebuggerInit
<1>2. [DebuggerNext]_debugger_vars => [Next]_vars /\ [ViewNext]_view_vars
  BY DEF DebuggerNext, LoopMoves, ViewsMove, debugger_vars
<1> QED
  BY <1>1, <1>2, PTL DEF DebuggerSpec, Spec, ViewSpec

\* Every flag, counter and position of the loop and of the views has its range,
\* for every burst, batch of keys, size of memory and number of rows.
THEOREM DebuggerTypes == DebuggerSpec => []DebuggerTypeOK
<1>1. ViewInv => ViewTypeOK
  BY DEF ViewInv
<1>2. TypeOK /\ ViewTypeOK => DebuggerTypeOK
  BY DEF DebuggerTypeOK
<1> QED
  BY <1>1, <1>2, EachPart, TypeCorrect, ViewInvariant, PTL

\* And in that run the views keep their rows.
THEOREM DebuggerViews == DebuggerSpec => ViewsKeepRows
BY EachPart, ViewsStayInRows
=============================================================================
