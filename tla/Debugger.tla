------------------------------ MODULE Debugger ------------------------------
(***************************************************************************)
(* debugger_run of debugger.c and the keys that steer it: every iteration  *)
(* takes the waiting events, runs a burst of instructions or one step or   *)
(* nothing, and draws.                                                     *)
(*                                                                         *)
(* The program under the debugger is what its next opcode is: "legal", an  *)
(* "illegal" one that the table names so, or a "stuck" one that the table  *)
(* leaves out, which neither moves the PC nor spends a cycle.  Whether an  *)
(* instruction ends a frame is left open.  The keys that only move a view  *)
(* are "other" here; DebuggerView has them.                                *)
(***************************************************************************)
EXTENDS Naturals

CONSTANTS
  BurstLength,  \* max_instructions
  MaxBatch      \* events that SDL_PollEvent finds in one iteration

ASSUME DebuggerAssumption == BurstLength \in Nat \ {0} /\ MaxBatch \in Nat \ {0}

Opcodes == {"legal", "illegal", "stuck"}
Keys    == {"q", "space", "s", "p", "r", "d", "other"}

VARIABLES
  phase,           \* part of the loop's body: "poll", "run", "draw"; "ended"
  running, paused, step_requested, quit_requested, illegal_opcode, play_mode,
  frame_complete,  \* the PPU's flag
  opcode,          \* what the PC points at
  batch,           \* events taken in this iteration
  burst,           \* i, instructions run in this iteration
  last_key,        \* the latest key that the overlay did not swallow
  answers          \* how often the latest request for a step has been answered

keyVars  == <<running, paused, step_requested, quit_requested, illegal_opcode,
              play_mode, last_key>>
codeVars == <<frame_complete, opcode, answers>>
vars     == <<phase, keyVars, codeVars, batch, burst>>

\* debugger_init, and main's --play.  No step is asked for, so none is left to
\* answer.
Init ==
  /\ phase = "poll" /\ running = TRUE
  /\ play_mode \in BOOLEAN /\ paused = ~play_mode
  /\ step_requested = FALSE /\ quit_requested = FALSE /\ illegal_opcode = FALSE
  /\ frame_complete = FALSE /\ opcode \in Opcodes
  /\ batch = 0 /\ burst = 0
  /\ last_key = "none" /\ answers = 1

----------------------------------------------------------------------------
(* handle_input.                                                           *)

\* Under the overlay SPACE restarts the program, and no other key counts.
\* Neither request is dropped.
ResetToInitState ==
  /\ illegal_opcode' = FALSE /\ paused' = TRUE
  /\ opcode' \in Opcodes
  /\ UNCHANGED <<running, step_requested, quit_requested, play_mode,
                 last_key, frame_complete, answers>>

\* Mutant: the overlay only swallows the keys that would run something.
KeyUnderOverlayPauses(key) ==
  IF key = "space" THEN ResetToInitState
  ELSE /\ paused' = (IF key = "p" THEN ~paused ELSE paused)
       /\ UNCHANGED <<running, step_requested, quit_requested, illegal_opcode,
                      play_mode, last_key, codeVars>>

KeyUnderOverlay(key) ==
  IF key = "space" THEN ResetToInitState ELSE UNCHANGED <<keyVars, codeVars>>

PressQuit ==
  /\ running' = (running /\ ~quit_requested) /\ quit_requested' = TRUE
  /\ UNCHANGED <<paused, step_requested, illegal_opcode, play_mode, codeVars>>

PressStep ==
  /\ step_requested' = (paused \/ step_requested)
  /\ answers' = (IF paused THEN 0 ELSE answers)
  /\ quit_requested' = FALSE
  /\ UNCHANGED <<running, paused, illegal_opcode, play_mode, frame_complete, opcode>>

\* Mutant: pausing forgets to cancel the request to quit.
PressPauseOnly ==
  /\ paused' = ~paused
  /\ UNCHANGED <<running, step_requested, quit_requested, illegal_opcode, play_mode, codeVars>>

PressPause ==
  /\ paused' = ~paused /\ quit_requested' = FALSE
  /\ UNCHANGED <<running, step_requested, illegal_opcode, play_mode, codeVars>>

PressReset ==
  /\ opcode' \in Opcodes /\ quit_requested' = FALSE
  /\ UNCHANGED <<running, paused, step_requested, illegal_opcode, play_mode,
                 frame_complete, answers>>

PressPlay ==
  /\ play_mode' = ~play_mode /\ quit_requested' = FALSE
  /\ UNCHANGED <<running, paused, step_requested, illegal_opcode, codeVars>>

PressOther ==
  /\ quit_requested' = FALSE
  /\ UNCHANGED <<running, paused, step_requested, illegal_opcode, play_mode,
                 codeVars>>

KeyOutsideOverlay(key) ==
  /\ last_key' = key
  /\ CASE key = "q"              -> PressQuit
       [] key \in {"space", "s"} -> PressStep
       [] key = "p"              -> PressPause
       [] key = "r"              -> PressReset
       [] key = "d"              -> PressPlay
       [] OTHER                  -> PressOther

----------------------------------------------------------------------------
(* debugger_run.                                                           *)

TakeEvent ==
  /\ phase = "poll" /\ batch < MaxBatch
  /\ batch' = batch + 1
  /\ UNCHANGED <<phase, burst>>

PressKey ==
  /\ TakeEvent
  /\ \E key \in Keys :
       IF illegal_opcode THEN KeyUnderOverlay(key) ELSE KeyOutsideOverlay(key)

\* SDL_QUIT.
CloseWindow ==
  /\ TakeEvent /\ running' = FALSE
  /\ UNCHANGED <<paused, step_requested, quit_requested, illegal_opcode, play_mode, last_key, codeVars>>

NoMoreEvents ==
  /\ phase = "poll" /\ phase' = "run"
  /\ burst' = 0
  /\ UNCHANGED <<keyVars, codeVars, batch>>

\* run_instruction and its PPU ticks.  A stuck opcode spends no cycle, so no
\* dot is drawn.
ExecuteWithPpu(frame_ends) ==
  IF opcode = "stuck" THEN frame_ends = frame_complete /\ UNCHANGED opcode
  ELSE opcode' \in Opcodes /\ (frame_complete => frame_ends)

\* Mutant: a burst lasts until the frame is complete.
BurstRunsToFrame ==
  /\ phase = "run" /\ ~illegal_opcode /\ ~paused /\ opcode # "illegal"
  /\ \E frame_ends \in BOOLEAN :
       /\ ExecuteWithPpu(frame_ends)
       /\ phase' = IF frame_ends THEN "draw" ELSE "run"
  /\ burst' = (IF burst < BurstLength THEN burst + 1 ELSE 0)
  /\ frame_complete' = FALSE
  /\ UNCHANGED <<keyVars, answers, batch>>

\* Mutant: i <= max_instructions.
BurstRunsOnceMore ==
  /\ phase = "run" /\ ~illegal_opcode /\ ~paused
  /\ burst <= BurstLength /\ opcode # "illegal"
  /\ \E frame_ends \in BOOLEAN :
       /\ ExecuteWithPpu(frame_ends)
       /\ phase' = IF frame_ends THEN "draw" ELSE "run"
  /\ burst' = burst + 1 /\ frame_complete' = FALSE
  /\ UNCHANGED <<keyVars, answers, batch>>

BurstRuns ==
  /\ phase = "run" /\ ~illegal_opcode /\ ~paused
  /\ burst < BurstLength /\ opcode # "illegal"
  /\ \E frame_ends \in BOOLEAN :
       /\ ExecuteWithPpu(frame_ends)
       /\ phase' = IF frame_ends THEN "draw" ELSE "run"
  /\ burst' = burst + 1 /\ frame_complete' = FALSE
  /\ UNCHANGED <<keyVars, answers, batch>>

BurstMeetsIllegal ==
  /\ phase = "run" /\ ~illegal_opcode /\ ~paused
  /\ burst < BurstLength /\ opcode = "illegal"
  /\ illegal_opcode' = TRUE /\ paused' = TRUE /\ phase' = "draw"
  /\ UNCHANGED <<running, step_requested, quit_requested, play_mode, last_key,
                 codeVars, batch, burst>>

BurstIsOver ==
  /\ phase = "run" /\ ~illegal_opcode /\ ~paused /\ burst = BurstLength
  /\ phase' = "draw"
  /\ UNCHANGED <<keyVars, codeVars, batch, burst>>

\* A step leaves the PPU's flag up, for the next burst to find.
StepRuns ==
  /\ phase = "run" /\ ~illegal_opcode /\ paused /\ step_requested
  /\ opcode # "illegal"
  /\ \E frame_ends \in BOOLEAN :
       ExecuteWithPpu(frame_ends) /\ frame_complete' = frame_ends
  /\ burst' = 1 /\ answers' = answers + 1
  /\ step_requested' = FALSE /\ phase' = "draw"
  /\ UNCHANGED <<running, paused, quit_requested, illegal_opcode, play_mode,
                 last_key, batch>>

\* Mutant: only an instruction that was run uses up the request.
StepMeetsIllegalKeepsRequest ==
  /\ phase = "run" /\ ~illegal_opcode /\ paused /\ step_requested
  /\ opcode = "illegal"
  /\ illegal_opcode' = TRUE /\ answers' = answers + 1 /\ phase' = "draw"
  /\ UNCHANGED <<running, paused, step_requested, quit_requested, play_mode, last_key,
                 frame_complete, opcode, batch, burst>>

\* The answer is the overlay.
StepMeetsIllegal ==
  /\ phase = "run" /\ ~illegal_opcode /\ paused /\ step_requested
  /\ opcode = "illegal"
  /\ illegal_opcode' = TRUE /\ answers' = answers + 1
  /\ step_requested' = FALSE /\ phase' = "draw"
  /\ UNCHANGED <<running, paused, quit_requested, play_mode, last_key,
                 frame_complete, opcode, batch, burst>>

NothingToRun ==
  /\ phase = "run" /\ (illegal_opcode \/ (paused /\ ~step_requested))
  /\ phase' = "draw"
  /\ UNCHANGED <<keyVars, codeVars, batch, burst>>

\* update_screen_texture and render, which but for draw_memory only read the
\* console (DebuggedNes has draw_memory); what they put into the texture and on
\* the screen is not modelled.
Render ==
  /\ phase = "draw"
  /\ phase' = IF running THEN "poll" ELSE "ended"
  /\ batch' = 0
  /\ UNCHANGED <<keyVars, codeVars, burst>>

Next ==
  \/ PressKey \/ CloseWindow \/ NoMoreEvents
  \/ BurstRuns \/ BurstMeetsIllegal \/ BurstIsOver
  \/ StepRuns \/ StepMeetsIllegal \/ NothingToRun
  \/ Render

Spec == Init /\ [][Next]_vars

\* The loop waits for nothing: SDL_PollEvent returns, with or without an event.
FairSpec == Spec /\ WF_vars(Next)

----------------------------------------------------------------------------
TypeOK ==
  /\ phase \in {"poll", "run", "draw", "ended"}
  /\ running \in BOOLEAN /\ paused \in BOOLEAN /\ step_requested \in BOOLEAN
  /\ quit_requested \in BOOLEAN /\ illegal_opcode \in BOOLEAN /\ play_mode \in BOOLEAN
  /\ frame_complete \in BOOLEAN /\ opcode \in Opcodes /\ answers \in Nat
  /\ batch \in 0 .. MaxBatch /\ burst \in 0 .. BurstLength
  /\ last_key \in Keys \cup {"none"}

\* While the overlay is up the program stands at the illegal opcode, paused:
\* no key that the overlay takes, and no step still asked for, moves it on.
OverlayHoldsProgram == illegal_opcode => paused /\ opcode = "illegal"

\* A paused program runs an instruction only when it is asked to: a request for
\* a step is answered once, by an instruction or by the overlay, whatever comes
\* between the two.  The answer may come late: a step asked for just before the
\* program is let go waits until it is paused again, even behind the overlay and
\* the restart that dismisses it (SPACE, P, an illegal opcode, SPACE).
StepsAreAskedFor == answers <= 1

\* The second Q quits only when it follows the first with no key in between,
\* but those that the overlay took.
QuitRequestIsFresh == quit_requested <=> last_key = "q"

\* However the program behaves, also when the PC no longer moves and no frame
\* ever ends, the debugger comes back to look at its keys.
Responsive == []<>(phase \in {"poll", "ended"})

\* Once the window is closed or the quit confirmed the debugger ends, with no
\* further key: whatever is left of the burst is the last of it.
QuitIsHeeded == ~running ~> phase = "ended"

\* No program keeps the debugger from its keys, or from ending when told to.
KeysAreHeeded == Responsive /\ QuitIsHeeded
=============================================================================
