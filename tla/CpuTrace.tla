------------------------------ MODULE CpuTrace ------------------------------
(***************************************************************************)
(* cpu_trace.c from the options on: it loads a cartridge, opens its files, *)
(* runs the program one instruction at a time beside a reference log,      *)
(* stops at a difference or at the end of the log's range, and gives a     *)
(* verdict and an exit status.  A line of the log is what the comparison   *)
(* makes of it; the log ends anywhere.                                     *)
(***************************************************************************)
EXTENDS CartLoader, FiniteSets

CONSTANTS
  OfficialEnd,  \* NESTEST_OFFICIAL_OPCODES_END, 5003
  AllEnd,       \* 8991
  MaxChoices    \* values of -n, the default among them

ASSUME TraceAssumption ==
  /\ OfficialEnd \in Nat \ {0} /\ AllEnd \in Nat /\ OfficialEnd < AllEnd
  /\ MaxChoices \subseteq Nat \ {0}

Keys  == {"s", "c", "q"}
Lines == {"same", "different", "unreadable"}

VARIABLES
  trace_phase,
  nestest_mode, official_only, max_instructions, stepping,  \* options_t
  comparing,             \* -c names a log
  held,                  \* of what main opens itself: not yet let go
  stdin_closed, log_ended,
  instruction_count, running, mismatches, first_mismatch_line,
  differing,             \* lines that differed from the log's
  verdict, exit_code

options == <<nestest_mode, max_instructions, comparing>>
tally   == <<mismatches, first_mismatch_line, differing>>
own     == <<trace_phase, options, official_only, stepping, held, stdin_closed,
             log_ended, instruction_count, running, tally, verdict, exit_code>>
trace_vars == <<own, vars>>

\* The options are read; --nestest has a log.
TraceInit ==
  /\ Init
  /\ nestest_mode \in BOOLEAN /\ comparing \in BOOLEAN
  /\ nestest_mode => comparing
  /\ max_instructions \in MaxChoices /\ stepping \in BOOLEAN
  /\ trace_phase = "load"
  /\ official_only = FALSE /\ held = {}
  /\ stdin_closed = FALSE /\ log_ended = FALSE
  /\ instruction_count = 0 /\ running = TRUE
  /\ mismatches = 0 /\ first_mismatch_line = 0 /\ differing = {}
  /\ verdict = "none" /\ exit_code = 0

----------------------------------------------------------------------------
(* gamecart_load.                                                          *)

LoadCart ==
  /\ trace_phase = "load"
  /\ OpenFile \/ ReadHeader \/ ReadPrg \/ ReadChr \/ CloseFile \/ AllocatePrgRam
  /\ UNCHANGED own

\* A cartridge that could not be loaded is not freed.
CartIsMissing ==
  /\ trace_phase = "load" /\ phase = "failed"
  /\ trace_phase' = "done" /\ exit_code' = 1
  /\ UNCHANGED <<vars, options, official_only, stepping, held, stdin_closed, log_ended,
                 instruction_count, running, tally, verdict>>

CartIsLoaded ==
  /\ trace_phase = "load" /\ phase = "loaded"
  /\ trace_phase' = (IF nestest_mode THEN "ask" ELSE "open")
  /\ UNCHANGED <<vars, options, official_only, stepping, held, stdin_closed, log_ended,
                 instruction_count, running, tally, verdict, exit_code>>

----------------------------------------------------------------------------
(* "Test official opcodes only? (y/n)": one character, and the rest of a   *)
(* line.  At the end of the input getchar returns EOF again and again.     *)

GetChar(char) ==
  /\ stdin_closed => char = "EOF"
  /\ stdin_closed' = (char = "EOF")

Ask ==
  /\ trace_phase = "ask" /\ trace_phase' = "drain"
  /\ \E char \in {"y", "n", "newline", "EOF"} :
       GetChar(char) /\ official_only' = (char = "y")
  /\ UNCHANGED <<options, stepping, held, log_ended, instruction_count, running, tally,
                 verdict, exit_code>>

Drain ==
  /\ trace_phase = "drain"
  /\ \E char \in {"y", "n", "newline", "EOF"} :
       /\ GetChar(char)
       /\ trace_phase' = IF char = "newline" THEN "open" ELSE "drain"
  /\ UNCHANGED <<options, official_only, stepping, held, log_ended, instruction_count,
                 running, tally, verdict, exit_code>>

----------------------------------------------------------------------------
(* Output file, reference log, trace buffer and error log, in this order.  *)

loopVars == <<instruction_count, running, tally, log_ended>>

GiveUp(released) ==
  /\ trace_phase' = "done" /\ exit_code' = 1 /\ held' = held \ released
  /\ Free
  /\ UNCHANGED <<options, official_only, stepping, stdin_closed, loopVars, verdict>>

GoOn(next_phase, acquired) ==
  /\ trace_phase' = next_phase /\ held' = held \cup acquired
  /\ UNCHANGED vars
  /\ UNCHANGED <<options, official_only, stepping, stdin_closed, loopVars, verdict,
                 exit_code>>

OpenOutput ==
  /\ trace_phase = "open"
  /\ \/ GoOn("open_log", {}) \/ GoOn("open_log", {"output"})
     \/ GiveUp({})

\* A log that cannot be opened is done without.
OpenLog ==
  /\ trace_phase = "open_log"
  /\ \/ GoOn("allocate", {})
     \/ comparing /\ GoOn("allocate", {"log"})

\* Mutant: the log stays open when there is no memory.
AllocateTraceLeaks ==
  /\ trace_phase = "allocate"
  /\ IF nestest_mode /\ "log" \in held
       THEN GoOn("open_errors", {"trace"}) \/ GiveUp({"output"})
       ELSE GoOn("open_errors", {})

AllocateTrace ==
  /\ trace_phase = "allocate"
  /\ IF nestest_mode /\ "log" \in held
       THEN GoOn("open_errors", {"trace"}) \/ GiveUp({"log", "output"})
       ELSE GoOn("open_errors", {})

\* Nor is the error log needed.
OpenErrors ==
  /\ trace_phase = "open_errors"
  /\ \/ GoOn("compare", {})
     \/ "log" \in held /\ GoOn("compare", {"errors"})

----------------------------------------------------------------------------
(* The loop.                                                               *)

\* Mutant: instruction_count <= max_instructions.
LoopingOnceMore == running /\ instruction_count <= max_instructions

Looping == running /\ instruction_count < max_instructions
Line    == instruction_count + 1

\* Mutant: the latest difference is remembered, not the first.
TallyLatest ==
  /\ mismatches' = mismatches + 1
  /\ first_mismatch_line' = Line

\* Mutant: a difference behind the official range is no mismatch.
TallyOfficial ==
  /\ mismatches' = mismatches + (IF Line <= OfficialEnd THEN 1 ELSE 0)
  /\ first_mismatch_line' = IF first_mismatch_line = 0 THEN Line ELSE first_mismatch_line

Tally ==
  /\ mismatches' = mismatches + 1
  /\ first_mismatch_line' = IF first_mismatch_line = 0 THEN Line ELSE first_mismatch_line

\* Mutant: only the official test stops at a difference.
StopsTheRunOfficial == official_only /\ first_mismatch_line' <= OfficialEnd

\* Whether a difference ends the loop.
StopsTheRun ==
  IF official_only THEN first_mismatch_line' <= OfficialEnd
                   ELSE first_mismatch_line' > OfficialEnd

\* compare_state writes the error log, and is not called without one.
CompareLine(line) ==
  /\ trace_phase = "compare" /\ Looping
  /\ "log" \in held /\ ~log_ended
  /\ differing' = (IF line = "different" THEN differing \cup {Line} ELSE differing)
  /\ IF line = "different" /\ "errors" \in held
       THEN Tally /\ trace_phase' = IF StopsTheRun THEN "verdict" ELSE "step"
       ELSE trace_phase' = "step" /\ UNCHANGED <<mismatches, first_mismatch_line>>
  /\ UNCHANGED <<options, official_only, stepping, held, stdin_closed, log_ended,
                 instruction_count, running, verdict, exit_code>>

\* No log, or no line left in it; where a log ends is left open, and it never
\* has a line again.
NothingToCompare ==
  /\ trace_phase = "compare" /\ Looping /\ trace_phase' = "step"
  /\ log_ended' = ("log" \in held)
  /\ UNCHANGED <<options, official_only, stepping, held, stdin_closed,
                 instruction_count, running, tally, verdict, exit_code>>

\* read_step_input gives "q" when there is nothing to read.
StepInput ==
  /\ trace_phase = "step"
  /\ \E key \in Keys :
       IF ~stepping THEN trace_phase' = "run" /\ UNCHANGED <<stepping, running>>
       ELSE /\ stdin_closed => key = "q"
            /\ stepping' = (key # "c")
            /\ running' = (key # "q")
            /\ trace_phase' = IF key = "q" THEN "verdict" ELSE "run"
  /\ UNCHANGED <<options, official_only, held, stdin_closed, log_ended,
                 instruction_count, tally, verdict, exit_code>>

\* Mutant: only instructions that were compared are counted.
RunCountsCompared ==
  /\ trace_phase = "run" /\ trace_phase' = "compare"
  /\ instruction_count' = (IF log_ended THEN instruction_count ELSE instruction_count + 1)
  /\ \E meets_brk \in BOOLEAN :
       running' = ~(nestest_mode /\ \/ official_only /\ instruction_count' >= OfficialEnd
                                    \/ ~official_only /\ instruction_count' > AllEnd
                                    \/ meets_brk)
  /\ UNCHANGED <<options, official_only, stepping, held, stdin_closed, log_ended, tally,
                 verdict, exit_code>>

\* run_instruction, and where nestest stops.  It may meet its closing BRK.
Run ==
  /\ trace_phase = "run" /\ trace_phase' = "compare"
  /\ instruction_count' = instruction_count + 1
  /\ \E meets_brk \in BOOLEAN :
       running' = ~(nestest_mode /\ \/ official_only /\ instruction_count' >= OfficialEnd
                                    \/ ~official_only /\ instruction_count' > AllEnd
                                    \/ meets_brk)
  /\ UNCHANGED <<options, official_only, stepping, held, stdin_closed, log_ended, tally,
                 verdict, exit_code>>

LoopEnds ==
  /\ trace_phase = "compare" /\ ~Looping /\ trace_phase' = "verdict"
  /\ UNCHANGED <<options, official_only, stepping, held, stdin_closed, log_ended,
                 instruction_count, running, tally, verdict, exit_code>>

----------------------------------------------------------------------------
\* What is printed of a nestest run, and of another one.
NestestVerdict ==
  CASE mismatches = 0 -> IF official_only THEN "all_official_correct" ELSE "all_correct"
    [] mismatches > 0 /\ ~official_only /\ first_mismatch_line > OfficialEnd
                      -> "unofficial_mismatch"
    [] OTHER          -> "official_mismatch"

OtherVerdict == IF mismatches = 0 THEN "no_mismatches" ELSE "mismatches"

Conclude ==
  /\ trace_phase = "verdict" /\ trace_phase' = "done"
  /\ verdict' = (IF "log" \notin held THEN "none"
                 ELSE IF nestest_mode THEN NestestVerdict ELSE OtherVerdict)
  /\ exit_code' = IF verdict' \in {"official_mismatch", "mismatches"} THEN 1 ELSE 0
  /\ held' = held \ {"errors", "log", "trace", "output"} /\ Free
  /\ UNCHANGED <<options, official_only, stepping, stdin_closed, log_ended,
                 instruction_count, running, tally>>

TraceNext ==
  \/ LoadCart \/ CartIsMissing \/ CartIsLoaded
  \/ OpenOutput \/ OpenLog \/ AllocateTrace \/ OpenErrors \/ Conclude
  \/ /\ \/ Ask \/ Drain
        \/ (\E line \in Lines : CompareLine(line)) \/ NothingToCompare
        \/ StepInput \/ Run \/ LoopEnds
     /\ UNCHANGED vars   \* the cartridge stays as it was loaded

TraceSpec == TraceInit /\ [][TraceNext]_trace_vars

\* One thread, that waits for nothing but a key.
FairTraceSpec == TraceSpec /\ WF_trace_vars(TraceNext)

----------------------------------------------------------------------------
Verdicts == {"none", "all_official_correct", "all_correct", "official_mismatch",
             "unofficial_mismatch", "no_mismatches", "mismatches"}

First(lines) == CHOOSE n \in lines : \A m \in lines : n <= m

TraceTypeOK ==
  /\ TypeOK
  /\ trace_phase \in {"load", "ask", "drain", "open", "open_log", "allocate", "open_errors",
                      "compare", "step", "run", "verdict", "done"}
  /\ nestest_mode \in BOOLEAN /\ official_only \in BOOLEAN /\ stepping \in BOOLEAN
  /\ max_instructions \in MaxChoices /\ comparing \in BOOLEAN
  /\ held \subseteq {"output", "log", "trace", "errors"}
  /\ stdin_closed \in BOOLEAN /\ log_ended \in BOOLEAN /\ running \in BOOLEAN
  /\ \E most \in MaxChoices :
       /\ instruction_count \in 0 .. most
       /\ mismatches \in 0 .. most /\ first_mismatch_line \in 0 .. most
       /\ differing \subseteq 1 .. most
  /\ verdict \in Verdicts /\ exit_code \in 0 .. 1

\* Once a difference was counted, all of them were, and the verdict is about the
\* first, in whatever mode, step or stop it was met: the exit status is 1 exactly
\* when it lies in the official range, or anywhere outside nestest.
VerdictIsOfFirst ==
  trace_phase = "done" /\ mismatches > 0 =>
    /\ mismatches = Cardinality(differing)
    /\ first_mismatch_line = First(differing)
    /\ (exit_code = 1) <=> (nestest_mode => First(differing) <= OfficialEnd)

\* Nothing runs behind a difference that decides the verdict: the official test
\* ends at its first one, and every run ends at the first one outside that range.
StopsAtDifference ==
  [][Run /\ mismatches > 0 => ~official_only /\ First(differing) <= OfficialEnd]_trace_vars

\* Whichever file or buffer could not be had, and wherever the loop was left,
\* all the others are closed and freed, the cartridge among them; only a
\* cartridge that could not be loaded is left to gamecart_load.
NothingLeftOpen ==
  trace_phase = "done" => held = {} /\ ~file_open /\ (heap = {} \/ phase = "failed")

\* A run that has its cartridge and its answer ends: at its bound, at the end of
\* the test, at a BRK or a difference, or by a key.
TraceEnds == trace_phase = "open" ~> trace_phase = "done"

\* "PASSED" of a run that had its error log: no line that was compared differed,
\* whichever of the loop's ends was taken.  It does not say that a line was
\* compared: without an error log none is, and an empty log has none, and the
\* code prints PASSED of both.
PassedIsCompared ==
  [][Conclude /\ "errors" \in held
       /\ verdict' \in {"all_official_correct", "all_correct", "no_mismatches"}
     => differing = {}]_trace_vars
=============================================================================
