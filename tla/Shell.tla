-------------------------------- MODULE Shell --------------------------------
(***************************************************************************)
(* The read loop of one gupt process (src/core/shell.c, main.c): start-up, *)
(* the loop, the command history, SIGTERM, end of input and clean-up.      *)
(*                                                                         *)
(* What a command does is left to the other modules; here what fgets       *)
(* returns is one of                                                       *)
(*   "empty"   nothing before the newline                                  *)
(*   "blank"   white space only                                            *)
(*   "bad"     the parser refuses it (unterminated quote)                  *)
(*   "ok", "fail"  a command that returns 0, or something else             *)
(*   "exit"    exit or quit                                                *)
(* and a line longer than the 4096-byte buffer comes in several parts, all *)
(* taken for lines of their own.  The Nth entry of the history is known by *)
(* N; freed lists the entries passed to free().  SIGTERM is delivered at   *)
(* any step; the handlers are installed with signal(), which restarts a    *)
(* read that it interrupts.  SIGINT only prints a newline.                 *)
(***************************************************************************)
EXTENDS Naturals, Sequences

CONSTANTS
  MaxHistory,  \* MAX_HISTORY_SIZE
  MaxReads     \* bound on the lines, or parts of lines, that are read

ASSUME MaxHistoryAssumption == MaxHistory \in Nat \ {0}
ASSUME MaxReadsAssumption == MaxReads \in Nat

VARIABLES
  pc,        \* where main is
  running,   \* shell.running
  kind,      \* the command being executed
  rest,      \* a long line is still partly unread
  history,   \* history[0 .. history_count - 1]
  exitCode,  \* what main returns, shell.last_exit_code: zero or not
  eof,       \* the input is closed
  reads,     \* fgets calls that returned something
  entered,   \* history: entries made so far
  freed,     \* history: entries freed, in that order
  term,      \* history: what the shell did when SIGTERM arrived
  late       \* history: commands begun after SIGTERM was noticed

io    == <<eof, reads>>
ghost == <<term, late>>
mem   == <<history, entered, freed>>
vars  == <<pc, running, kind, rest, exitCode, io, mem, ghost>>

Kinds == {"empty", "blank", "bad", "ok", "fail", "exit"}
PcStates == {"boot", "armed", "ready", "loop", "reading", "executing",
             "cleanup", "gone"}

TypeOK ==
  /\ pc \in PcStates
  /\ running \in BOOLEAN
  /\ kind \in Kinds
  /\ rest \in BOOLEAN
  /\ history \in Seq(Nat) /\ Len(history) <= MaxHistory
  /\ exitCode \in {0, 1}
  /\ eof \in BOOLEAN
  /\ reads \in Nat
  /\ entered \in Nat
  /\ freed \in Seq(Nat)
  /\ term \in {"none", "lost", "reading", "busy"}
  /\ late \in Nat

\* memset, before signal() is called.
Init ==
  /\ pc = "boot" /\ running = FALSE /\ kind = "empty" /\ rest = FALSE
  /\ history = <<>> /\ exitCode = 0
  /\ eof = FALSE /\ reads = 0
  /\ entered = 0 /\ freed = <<>> /\ term = "none" /\ late = 0

-----------------------------------------------------------------------------
(* Start-up                                                                *)

InstallHandlers ==
  /\ pc = "boot"
  /\ pc' = "armed"
  /\ UNCHANGED <<running, kind, rest, exitCode, io, mem, ghost>>

\* running is set only after the handlers are installed.
SetRunning ==
  /\ pc = "armed"
  /\ pc' = "ready"
  /\ running' = TRUE
  /\ UNCHANGED <<kind, rest, exitCode, io, mem, ghost>>

\* --version, --help, or -w without a name: main returns without the loop.
LeaveAtOnce ==
  /\ pc = "ready"
  /\ pc' = "cleanup"
  /\ exitCode' \in {0, 1}
  /\ UNCHANGED <<running, kind, rest, io, mem, ghost>>

EnterLoop ==
  /\ pc = "ready"
  /\ pc' = "loop"
  /\ UNCHANGED <<running, kind, rest, exitCode, io, mem, ghost>>

-----------------------------------------------------------------------------
(* The loop                                                                *)

\* while (shell->running); in the variant the loop runs on.
StaysIgnoringTerm == TRUE
Stays == running

LoopTest ==
  /\ pc = "loop"
  /\ pc' = IF Stays THEN "reading" ELSE "cleanup"
  /\ UNCHANGED <<running, kind, rest, exitCode, io, mem, ghost>>

\* Append a string, freeing the oldest and moving the others down one place
\* once there are limit of them.
Push(limit) ==
  /\ entered' = entered + 1
  /\ IF Len(history) >= limit
       THEN /\ freed' = Append(freed, Head(history))
            /\ history' = Append(Tail(history), entered + 1)
       ELSE /\ history' = Append(history, entered + 1)
            /\ UNCHANGED freed

\* Variants of AddToHistory: past the end of the array, and without the
\* free.
AddPastEnd == Push(MaxHistory + 1)
AddNoFree ==
  /\ entered' = entered + 1
  /\ history' = Append(IF Len(history) < MaxHistory THEN history
                       ELSE Tail(history), entered + 1)
  /\ UNCHANGED freed

AddToHistory == Push(MaxHistory)

\* What the loop does with one line that fgets has returned.
Take(k) ==
  /\ late' = IF k \notin {"empty", "blank"} /\ term \in {"reading", "busy"}
               THEN late + 1 ELSE late
  /\ UNCHANGED <<running, eof, term>>
  /\ CASE k = "empty" ->
            pc' = "loop" /\ UNCHANGED <<kind, exitCode, mem>>
       [] k = "blank" ->
            pc' = "loop" /\ exitCode' = 0 /\ UNCHANGED <<kind, mem>>
       [] k = "bad" ->
            pc' = "loop" /\ exitCode' = 1 /\ AddToHistory /\ UNCHANGED kind
       [] OTHER ->
            /\ pc' = "executing"
            /\ kind' = k
            /\ AddToHistory
            /\ UNCHANGED exitCode

\* fgets returns the next line or part of a line; more parts may follow.
Fgets(k, more) ==
  /\ pc = "reading"
  /\ rest \/ ~eof
  /\ reads < MaxReads
  /\ more => k # "empty" /\ reads + 1 < MaxReads
  /\ reads' = reads + 1
  /\ rest' = more
  /\ Take(k)

\* Variant of ReadEof: end of input is taken for an empty line.
ReadEofAgain ==
  /\ pc = "reading"
  /\ eof /\ ~rest
  /\ pc' = "loop"
  /\ UNCHANGED <<running, kind, rest, exitCode, io, mem, ghost>>

\* End of input: break.
ReadEof ==
  /\ pc = "reading"
  /\ eof /\ ~rest
  /\ pc' = "cleanup"
  /\ UNCHANGED <<running, kind, rest, exitCode, io, mem, ghost>>

\* execute_command returns.
Finish ==
  /\ pc = "executing"
  /\ pc' = "loop"
  /\ running' = (running /\ kind # "exit")
  /\ exitCode' = IF kind = "fail" THEN 1 ELSE 0
  /\ UNCHANGED <<kind, rest, io, mem, ghost>>

\* ks_shell_cleanup frees what is left of the history.
Cleanup ==
  /\ pc = "cleanup"
  /\ pc' = "gone"
  /\ freed' = freed \o history
  /\ history' = <<>>
  /\ UNCHANGED <<running, kind, rest, exitCode, entered, io, ghost>>

-----------------------------------------------------------------------------
(* The world outside                                                       *)

\* Without a handler SIGTERM kills; with one it clears shell.running, which
\* start-up may set again; after the loop nothing looks at it.
Sigterm ==
  /\ pc # "gone" /\ term = "none"
  /\ IF pc = "boot"
       THEN pc' = "gone" /\ UNCHANGED <<running, term>>
       ELSE /\ running' = FALSE
            /\ term' = CASE pc = "armed" -> "lost"
                         [] pc = "reading" -> "reading"
                         [] OTHER -> "busy"
            /\ UNCHANGED pc
  /\ UNCHANGED <<kind, rest, exitCode, io, mem, late>>

CloseInput ==
  /\ ~eof
  /\ eof' = TRUE
  /\ UNCHANGED <<pc, running, kind, rest, exitCode, reads, mem, ghost>>

Step ==
  \/ InstallHandlers \/ SetRunning \/ LeaveAtOnce \/ EnterLoop \/ LoopTest
  \/ \E k \in Kinds, more \in BOOLEAN : rest /\ Fgets(k, more)
  \/ ReadEof \/ Finish \/ Cleanup

Next ==
  \/ Step
  \/ \E k \in Kinds, more \in BOOLEAN : Fgets(k, more)
  \/ Sigterm
  \/ CloseInput

Spec == Init /\ [][Next]_vars

\* The process runs and its commands return.  Nobody has to type anything,
\* send a signal or close the input.
FairSpec == Spec /\ WF_vars(Step)

-----------------------------------------------------------------------------
(* Properties                                                              *)

\* The history owns its strings.  Entries are freed once each, oldest first,
\* and what is not freed is in the array: no leak, no double free, no entry
\* lost or kept twice when the array is full (shell.c:70-79, 358-362).
HistoryOwnsStrings == freed \o history = [i \in 1..entered |-> i]

\* After SIGTERM has been noticed the shell begins no further command, or a
\* single one when it was waiting for input: the interrupted read is
\* restarted, and running is looked at only after the line that ends it
\* (shell.c:62-68, 312-316, 368-389).
AtMostOneLateCommand ==
  /\ term = "busy" => late = 0
  /\ term = "reading" => late <= 1

\* SIGTERM that finds the shell anywhere but waiting for input, or in the
\* window of start-up, ends it without anybody typing (shell.c:62-68, 368).
TermStops == (term = "busy") ~> (pc = "gone")

\* When the input is closed the shell ends, whatever it was doing, and reads
\* the rest of a long line first (shell.c:376-380).
EofStops == eof ~> (pc = "gone")
=============================================================================
