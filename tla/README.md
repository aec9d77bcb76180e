# A TLA+ verification of Gupt

Gupt is an interactive shell, written in C, for security researchers: it keeps
a directory with a SQLite database per investigation ("workspace"), starts
external reconnaissance tools and collects what they write, records sessions,
keeps notes and runs small scripts. Its own code is about 5,900 lines under
`src/src`; SQLite is vendored beside it.

The project models the parts of that code that keep state over several steps
or share it between processes, checks them with TLC and proves the main safety
properties with TLAPS. File names below are relative to the repository's
`src/` directory (`workspace.c` is `src/workspace/workspace.c`, and so on).

Contents: 1 the system, 2 the modules, 3 the runs, 4 what the runs found,
5 the proofs, 6 what is assumed, 7 what is not modelled, 8 the plan.

## 1. The system

A gupt process is single-threaded: `main` calls `ks_shell_init`,
`ks_shell_run` and `ks_shell_cleanup`, and one global structure, `shell`,
holds what the components share. The only asynchronous code in a process is
its signal handler. Concurrency comes from outside: a user runs several gupt
processes, which share `~/.gupt/workspaces`, the SQLite files in it,
`.gupt/sessions` and `knowledge.db`, without a lock of their own; and the tools
that a process starts are processes as well, which may outlive it.

| Component | State | Operations | Interacts with |
|---|---|---|---|
| workspace engine (`workspace.c`, `database.c`) | `shell.current_workspace`, `shell.workspace_dir`, the static handle `db`; on disk a directory tree, `database.db`, one row | new, open, close, spaces, `-w` | file system and SQLite, shared by all processes; scan and report read `workspace_dir` |
| shell loop (`shell.c`, `main.c`) | `running`, `last_exit_code`, `history` | start-up, read, execute, signals, clean-up | everything; the terminal; `signal()` |
| dispatch and adapters (`shell.c`, `adapters/`) | the table of builtins, 64 adapter slots | `execute_command`, `run`, `tools` | calls every handler with argc and argv |
| scan pipeline, tool registry (`orchestrator.c`, `tool.c`) | the tools with their `installed` flag; files in the workspace's `recon` | scan, recon | external tools through `popen`; other processes through the files |
| session recording (`session.c`) | `current_session` with its entries and log file | record start, stop, timeline | log files shared by the processes of a directory |
| command parser (`parser.c`) | position in the line, `argv` | `ks_parse_command` | called by `execute_command` |
| platform layer (`platform.c`, `file_utils.c`) | none | execute, mkdir, exists, read, write | part of the actions of the callers |
| script language (`gupt_dsl.c`) | tokenizer position and line, list of statements | script | workspace engine, adapters |
| workflow engine (`pipeline.c`) | the built-in pipelines; files in `.temp` and `recon` | execute a pipeline; no command reaches it | writes the files that scan writes; other processes and surviving tools write in the same directories |
| configuration (`config.c`) | growing array of keys and values, its file | load, get, set, save | read by `ai.c`; load has no caller |
| knowledge base (`knowledge.c`) | handle on `knowledge.db`, its one table | note add, list, search | SQLite, shared by the shells of a directory |
| CVSS (`cvss.c`) | none between two commands | score | output |
| plugins (`plugin.c`) | array of libraries, always empty | none reachable | `dlopen`, not compiled in |
| graph, findings, reports, AI, TUI, Lua | little or none between two commands | graph, bug, report, dash | output |

What is hard in it, and what makes each part correct:

- *Workspaces.* `new` is an unlocked sequence of some ten system calls.
  Processes interleave between any two, one may be killed between any two, and
  each may fail. A name must be created once; what can be opened must be
  complete; a process must not have one workspace selected and another one's
  database open; a failure must not change the selection.
- *The loop.* A signal can come between any two statements, the history is a
  hand-managed array of owned strings, and lines longer than the buffer come in
  parts. Nothing may leak or be freed twice; SIGTERM and end of input must end
  the shell.
- *Scans.* Four tools run one after the other, connected by files only. No
  status is looked at and no file is removed first, so that results of
  different scans can mix: the question is exactly when.
- *Sessions.* Log files are named after name and local time, to the second, and
  opened with `"w"`; a local time can come twice.
  A log must agree with the timeline shown, and an old log must be safe.
- *The parser.* Nested loops over a character pointer, with quotes, escapes
  and a bounded `argv`: no read or write out of bounds, and the arguments a
  simple definition would give.
- *Scripts.* A second parser, a tokenizer under two nested loops, with buffers
  of fixed size that cut long tokens in two; and an executor that goes on after
  a failure. Its statements must be the lines of the text, and all must run.
- *Notes.* The shells of one directory share a table, without a busy timeout:
  another one's lock is an error at once. A note reported as added must be
  there, and a search must not see half of another shell's work. An error while
  it reads is taken for the end of the rows.
- *Configuration.* An array that grows, may hold a key twice and is written
  and read by different rules for quotes and lines: it must behave as a table,
  and what was saved must come back, as far as one value does not spoil another.
- *Workflows.* Results pass through a directory that is never emptied and that
  runs of all pipelines and processes share: the question is what may be copied
  to `recon`.
- *Scores.* Tables of weights, clamping and rounding up to a tenth.
- *Dispatch.* A table and a chain of comparisons, each with its own check of
  `argc`: no handler may look at a word that is not there.

`PROJECT.json` lists all components and, under `hazards`, every place of this
kind with the property that covers it or the reason why none does.

## 2. The modules

| Module | Models | Lines of code |
|---|---|---|
| `Registry` | what the workspace engine promises; no file system, no SQLite | - |
| `Workspace` | the workspace engine in several processes; implements `Registry` | `workspace.c`, `database.c`, `main.c` |
| `Shell` | one process's loop, history, signals | `shell.c:62-79, 100-127, 280-393`, `main.c` |
| `Recon` | scan in several processes | `orchestrator.c:50-162`, `tool.c` |
| `Session` | record in several processes | `session.c:7-125` |
| `Parser` | `ks_parse_command` | `parser.c:3-73` |
| `Commands` | `execute_command` as rules; run | `shell.c:12-60, 100-278`, `adapters/` |
| `Dsl` | a script, from its text to its last statement | `gupt_dsl.c`, `dsl.h` |
| `Notebook` | what the knowledge base promises; no locks, no rows read one by one | - |
| `Knowledge` | note in several shells; implements `Notebook` | `knowledge.c`, `shell.c:234-264` |
| `Settings` | what a configuration promises | - |
| `Config` | the configuration; implements `Settings` | `config.c` |
| `Cvss` | score | `cvss.c` |
| `Workflow` | a pipeline run beside other processes | `pipeline.c:27-206`, `orchestrator.c` |
| `WorkspaceProofs`, `ShellProofs`, `ReconProofs`, `SessionProofs`, `ParserProofs`, `DslProofs` | theorems of one component each | |
| `PartsProofs` | theorems of the four parts of `MCParts`, and of `Workflow` | |
| `NumberTheorems` | induction for the proofs, on sets of numbers | - |
| `MC...` | instances for TLC | |

The modules meet at `shell`: `Shell` says when a command runs and what its
result does, `Parser` what its words are, `Commands` which handler gets them,
and `Workspace`, `Recon` and `Session` what that handler does together with
those of other processes. They are not multiplied out, as a process runs one
handler at a time; `Recon` therefore takes workspaces as complete names and
selecting one as a single step, and adds the name given by `-w`, which has no
directory.

**Workspace.** `pc[p]` is the place of process p in `ks_workspace_create` or
`ks_workspace_open`. There is one action per system call that touches shared
state: the check (`CreateBegin`, `CreateRefused`), `mkdir` (`MakeDir`), the
five subdirectories (`MakeSubdirs`), `sqlite3_open` (`DbOpened`,
`DbOpenFailed`), the tables (`TablesCreated`, `TablesFailed`, `Opened`) and the
INSERT (`Inserted`, `InsertFailed`). What follows a step privately, such as
setting `current_workspace`, is in that step. `ks_db_init` closes the old
handle before it opens the new one; a failing `sqlite3_open` leaves a handle
that is not NULL and cannot be used, "sick". `Faults` says which calls may fail
and whether processes crash. SQLite is external: each statement is atomic, and
the UNIQUE constraint on the name is the guard `NameUnused`. Two history
variables are not in the code: `wins` counts the creates that succeeded, and
`intact` says that a process's last change of handle was a success.

**Shell.** `pc` follows `main`. What `fgets` returns is one of six kinds of
line; `rest` says that a line longer than the buffer is not yet read to its
end. The history holds entry numbers, and `freed` lists the numbers passed to
`free`. SIGTERM may come at any step after `signal()`; before, it kills. In the
default build the C dialect is GNU's, where `signal()` has BSD semantics: a
read that is interrupted is restarted, which is why `Sigterm` leaves `pc` where
it is. SIGINT prints a newline only and is left out. `late` counts commands
begun after SIGTERM; `term` remembers what the shell was doing.

**Recon.** A file is abstracted to the scan that wrote it and the set of scans
its data come from. A step is `Skip` (not installed), or `StartTool`, then
`ToolSucceeds` or `ToolFails`, then `Save` (the tool's standard output, written
after `pclose`). `Die` ends a process at any point, and its tool may live on
(`OrphanEnds`). `SaveFails` is a write of that output which fails: the status is
discarded (`orchestrator.c:93`), and what was saved before stays, or has been
emptied or replaced in part (0 in `raw`). `Move` installs or removes a tool,
while `cached` keeps what `ks_tool_init` saw. The history variable `clean` holds
the scans whose steps all worked, whose outputs could be saved and into whose
workspace nobody else wrote meanwhile.

**Session.** `logs` maps name and local time to lines. `LocalTime` says what
`localtime` shows in each second, and may show the same in several, as it does
for an hour when daylight saving ends. A process writes at its own offset `at`,
so that a file truncated by another process gets holes (`PutLine`). `RecordStart`, `OpenLog` and `LogStarted` are the steps of
`ks_session_start`, the first of which also stops a running session.
`sharers[k]` remembers which sessions opened a file.

**Parser.** One action per decision of the loops. Characters are the five
classes that the code tells apart; an argument is the interval of the line that
`strdup` copies. The reference is a reader of four states, run over the line by a
recursive function (`Moved`, `Where`); the arguments (`ArgSet`) are read off its
states.

**Commands.** The table of builtins and the chain of comparisons are one
sequence of rules (words, least argc, handler) of which the first that fits
decides, as in the code. A behaviour is one command.

**Dsl.** `ks_dsl_next_token` and `ks_dsl_parse` are one state machine: outside
a token (`SkipBlank`, `Newline`, `EndOfSource`, `Begin`), inside one (`Copy`) and
at its end (`End`, with what the parser then does with the token). `inside`
says which of the two loops of `ks_dsl_parse` is running. As in `Parser`, a
token is the interval it copies, and its text is not kept; which command a
statement is therefore stays open in `Execute`, which takes any of them with
the results that it can have for that number of words. The reference says of
each character what it belongs to, in one pass (`GoesOn`, `Belongs`, `Owners`).
Tokens are the maximal stretches of one owner, the line of a token is told by the
newlines before it that are in no string (`Breaks`, `LineOf`), a statement is the
set of tokens of a line from its first word on, and `Takes` says which of them
the arguments are. All of this is a relation between sets, with no recursion but
that of `Owners`, and no order but that of places. `Left` counts what a script
still has to do.

**Knowledge.** `handle` is what `ks_knowledge_init` left: nothing, an SQLite
handle that was not opened, one whose CREATE TABLE failed, or a ready one; the
note commands only ask whether it is NULL. A statement that writes goes from `shared`
to `writing` to `written`, one that reads passes row by row (`at`, `found`)
under the shared lock, and `Blocked` is the lock of somebody else, which is an
error at once. `ReadFails` is an error at a row: the loop ends as at the last
row and the command reports what it has; the result "cut" tells it from a whole
answer, which the user cannot. Processes end at any point, and what was not
committed is rolled back. The word to search for is spliced into the SQL text:
`Hits` gives the texts that the SQL of a word selects, for words with `%` or `_`
more than those that contain it, and `BadQueries` are the words with which it
does not parse. `Book` maps all that to `Notebook`: `Running` is every stage
from start-up to the end, and `Unreported` the note of a shell between its
commit and its message. SQLite is external here too.

**Config.** `LoadLine` takes one line and appends without looking for the key;
`ConfigSet` updates the first entry of a key or appends; `SaveEntry` prints one
entry. The file is the sequence of lines that load makes of it, and `AsRead`
gives the lines that a printed entry becomes: a double quote ends the value, a
newline breaks the line, and more than 4095 characters are read in parts, so
that one entry may come back as another, as several or as lines that are
skipped. `FlushFails` is a write that fails, which save does not notice, and
`CutOff` what the disk then has, or has when the process ends in a save: a
head of the file, its last line perhaps torn (`Torn`). `Table` maps the array to
`Settings`: the value of a key is that of its first entry. `Unspoilt` are the
keys for which no entry that is read back otherwise brings a line.

**Cvss.** The vector is read token by token into `metrics`, and the score is
computed in integers, 10^-8 apart. `BaseScore` takes the weights of the impact
metrics as a parameter, so that the standard's own can be put beside the
code's.

**Workflow.** A file is abstracted as in `Recon`. The tools
(`ToolWorks`, `ToolFails`) write into `.temp`, and `Copy` takes what is there to
`recon`. `strays` holds what is under way beside the run: the tool of a run
whose process was killed (`FlowDies`), a step of another process's pipeline or
scan, another process's copy (`StrayBegins`). Each reads when it begins and
writes, empties or leaves its file at any later time (`StrayEnds`). Other
processes are not followed further: a step of theirs may come in any order,
which is more than they can do. `trouble` holds the results whose step failed in
this run, `disturbed` those that others wrote since it began.

**MCParts.** `Commands`, `Knowledge`, `Config` and `Cvss` share no variable; the
module puts them side by side, and a behaviour is one of a single part, so that
one run of TLC checks all four without multiplying their states. `MCLogs` does
the same for `Session` and `Workflow`.

## 3. The runs

| Run | Instance | What it shows |
|---|---|---|
| `workspace_faults` | 2 processes, 2 names, failing mkdir and SQL, crashes; symmetric | types; selection, directory and handle agree at rest (`HandleMatchesSelection`); at most one create succeeds (`AtMostOneCreate`); a failing command leaves the selection alone (`FailureKeepsSelection`); a wedged name stays wedged (`WedgedForever`); `Registry` is implemented |
| `workspace_recover` | 2 processes, 1 name, failing SQL only, fair | what can be opened has its directories (`OpenableIsComplete`); a create that was begun leaves a name that can be opened, whoever lost a race (`CreateLeavesOpenable`) |
| `shell_loop` | history of 2, 6 reads, fair | the history owns its strings; at most one command after SIGTERM; SIGTERM and end of input end the shell |
| `recon_safety` | 2 processes, 1 workspace, 2 scans, httpx may come or go once, saving may fail; symmetric | only a troubled or disturbed scan leaves mixed results (`MixedOnlyAfterTrouble`); a clean one leaves exactly its own (`CleanScanIsComplete`) |
| `recon_liveness` | 1 process, 2 scans, fair | every scan ends (`ScanEnds`) |
| `logs_and_workflows` | `MCLogs`: 2 processes, a name and a bad one, 3 seconds of which the last two have one local time, 4 sessions; the three pipelines with the tools of `recon` installed, 3 runs or steps of others, these begun with at most one run before them | an unshared log is its timeline (`LogIsTimeline`), its end included (`StoppedIsLogged`); past logs are safe (`PastLogsAreSafe`); shared ones have holes only after an interrupted start (`HolesAreFilled`); a run in which nothing failed, and whose files nobody else wrote, leaves exactly its own results (`CleanRunIsWhole`); older results replace newer ones only otherwise (`OlderOnlyAfterFailure`) |
| `parser_lines` | all lines of up to 6 characters, `MAX_ARGS` 3, fair | in bounds, ends, agrees with the reference, at the limit too |
| `dsl_scripts` | all texts of up to 5 characters, tokens of 2 characters, statements of 2 words, fair | in bounds; tokens, cut or not, do not overlap; the statements, lines and words of the reference; every statement is run (`EveryStatementRuns`), and each step leaves less to do (`EveryStepCounts`) |
| `parts` | `MCParts`: all first and second words, up to 5 words; 2 shells and 2 notes; 2 keys, 3 values, an array of first 2 and at most 3 entries; all vectors | every handler gets the words it takes (`ArgumentsArePresent`); the shells implement `Notebook`, so that a note reported as added is there and stays (`ImplementsNotebook`), and searches show what their SQL selects, or its beginning after an error (`SearchIsExact`); types, and an array that is large enough (`PartsTypeOK`); the array is a table (`ImplementsSettings`), and a save of which all was written comes back, but for what a value with a newline spoils (`SavedIsKept`); a harder attack never scores higher (`HarderIsNoWorse`) |
| `commands_run`, `knowledge_list`, `cvss_standard` | as in `parts` | violations, section 4 |

*Why the bounds are enough.* Workspace: processes affect each other through one
name's disk state, which only grows, so that two processes show each pair of
interleaved steps; two names are needed for a handle and a selection that
differ. The theorems remove these bounds. Shell: six reads into a history of two shift it several times and still
leave reads for SIGTERM and parts of lines; the theorems remove this bound too.
Recon: a mixture needs two scans; a third adds only further members to `from`.
One movable tool is enough as no two tools share a flag, and httpx both reads
and writes a file. Session: a file is shared by two sessions of one name and
local time; four sessions give each process two, before and after the clock
moves, and the third second shows the time of the second one again; a second
good name would give its sessions files of their own.
Parser: six characters hold an escape inside a quote, a word glued to it and,
with room for two arguments, a third word that is dropped. Scripts: five
characters hold two lines with statements, a newline inside a string, a token
that is cut into two or three and a statement with a third word. The theorems
remove the bounds of both, for the memory accesses and for what is read.
Parts: two shells are enough for one to hold a lock that another one wants, and
two notes for a search that is between two rows; an array of two entries grows
at the third, and two keys let one stand twice beside another; the third value
holds a newline, so that an entry of one key brings a line of the other; the
words searched for are one that selects one text, one that selects both and one
that does not parse; the vectors are all there are. Workflows: two runs and a
step of somebody else between them are the least that put an older result over
a newer one.

*Symmetry* is used only in runs whose properties are invariants, action
properties or the refinement of `Registry` (which has no fairness); the runs
with fairness use none. Deadlock is not checked where the system stops for
good: the shell, the parser and a script end, `Commands` takes one command, and
`Recon`, `Session` and `Workflow` reach the bounds on scans, sessions, seconds
and runs.
`Workspace` is checked for deadlock.

*Fairness* is on the steps of a process that is already running code
(`WF(Step)`): the operating system schedules it. Nobody has to type, to send a
signal, to close the input, to install a tool or to die. `TermStops` thus holds
only for a shell that is busy when the signal comes: one that waits in `fgets`
stays until somebody types, and runs that line (`AtMostOneLateCommand`).
`EofStops` and `ScanEnds` assume that commands and tools end: `ks_platform_execute`
waits without a timeout, so this is an assumption about the tools and not a
property of the code.

Each property has in `PROJECT.json` a variant of one mapped definition, a bug
that code could plausibly have, under which TLC finds it violated. The variants
stand before the definitions they replace and are used nowhere else.

## 4. What the runs found

- `commands_run`: `run <tool>` runs nothing. Every adapter calls
  `ks_platform_execute(cmd, NULL, 0)`, which answers `KS_ERROR_INVALID` before
  `popen` (`platform.c:43-45`).
- `knowledge_list`: `note list` lists nothing. It passes -1 for all types,
  and the test `type >= 0` is always true, as the enumeration is unsigned
  (`knowledge.c:171`).
- `cvss_standard`: impact weights are 0, 0.56 and 1.12 instead of 0, 0.22 and
  0.56 (`cvss.c:56`): the default vector scores 10.0 and not 9.8, and with C:N
  10.0 and not 9.1. Which of the wrong scores TLC shows depends on the order in
  which its workers search.
- Not runs of their own: `workspace open x` creates a workspace called `open`,
  though the listing recommends that form (`workspace.c:270`); `notes` and
  `analyze` are in the table of builtins without a function and end as unknown
  commands; `note search word` prints its usage, as the check wants four words
  (`shell.c:258`); `bug create t critical` records MEDIUM (`shell.c:189`) and
  nothing stores a finding (`finding.c:86`); `cd ~x` uses a buffer after its
  block has ended (`shell.c:482-485`); a report says it was written whatever
  the write returned (`report.c:191`); loading a configuration twice and
  saving it doubles the entries, harmlessly (`SavedIsKept`); `ks_shell_cleanup`
  closes neither the knowledge base nor a session; `help` shows `report` and
  `graph` as complete commands, and both want a further word.

Properties whose form shows a limit of the code rather than a bug:

- `WedgedForever`. A crash between `mkdir` and `sqlite3_open`, or an open that
  fails, leaves a name that create refuses because it exists and open refuses
  as corrupted. No command repairs it.
- `HandleMatchesSelection` has to exclude a process whose last create or open
  failed after `ks_db_init`, and one started with `-w`: these have a selected
  workspace with another database or none.
- `AtMostOneLateCommand` allows one command after SIGTERM, and `TermStops`
  excludes the signal lost between `signal()` and `running = true`.
- `MixedOnlyAfterTrouble` is as strong as it gets: a scan with one failed step
  reports completion over results of an earlier scan, perhaps of another
  target.
- `CleanScanIsComplete` counts an output that could not be saved as a failure,
  though the code, which discards that status, does not.
- `OlderOnlyAfterFailure` has to allow a failed step, as `.temp` then still holds
  the result of an earlier run, which is copied over a newer one of scan; and it
  has to allow what others wrote since the run began, as a tool that outlived a
  killed run can put its result in `.temp` just before the copy.
- `SearchIsExact` has to allow an answer that breaks off: the loop of
  `knowledge.c:118` ends at an error as at the last row. It is about what the SQL
  selects, which for a word with `%`, `_` or a quote is not what contains it.
- `SavedIsKept` is about saves of which all was written, and about keys that no
  spoilt entry touches: a value `v`, newline, `b: "v` saved under one key makes a
  load set the other.
- `HarderIsNoWorse` is about exploitability only: with the code's weights a
  vector with more impact can score lower, because the product of three
  remainders changes its sign.
- `PastLogsAreSafe` excludes sessions of one name begun at one local time, in one
  second or an hour apart when daylight saving ends: the second destroys the log
  of the first.

## 5. The proofs

All hold for every value of the constants; the only assumptions are the named
ASSUMEs of the modules.

**`WorkspaceProofs`** (any set of processes, names and faults; NULL is not a
name). The safety properties are not inductive: that a name is created once
rests on the database row, and that the row is unique evidence rests on the
order in which a create leaves its traces. `IInv` in `Workspace` adds
`DiskOrdered` (rows are in databases with tables, these are files, these are in
directories), `WinsAreRows` (a row for each success and the reverse) and
`ProcessKnows` (what the handler of a process may rely on at each of its
points: which database is open, that the file and the tables exist). Every
action has a lemma that it keeps `IInv`. From it follow `TypeCorrect`,
`OneCreate` (`AtMostOneCreate`), `HandleMatches` (`HandleMatchesSelection`),
`WedgedStays` (`WedgedForever`), `SelectionKept` (`FailureKeepsSelection`) and
`Refinement`: every step of `Workspace` is a step of `Registry` or leaves what
it sees alone. `Complete` (`OpenableIsComplete`) has a further invariant, that
a process before `sqlite3_open` has made its subdirectories, and needs `"mkdir"
\notin Faults`.

**`ShellProofs`** (any size of the history and number of reads). `IInv` has the
history and the freed entries as the two halves of 1..entered, what `term` and
`late` say at each place of the loop, and that the history is empty when the
process has gone. The lemmas `PushRoom` and `PushOut` are about one more entry
in a sequence with and without room, and `AddKeepsHistory` carries both over to
`AddToHistory`. Results: `TypeCorrect`, `HistoryOwned`, `HistoryFull`,
`LateCommand`.

**`ReconProofs`** (any number of processes, workspaces, scans and movable
tools). That results do not mix cannot be seen from the files: it needs to know
which of them a scan under way has already made. `ReconInv` adds that no two
processes scan under one number (`Numbered`), that the scan of an orphan is not
clean (`OrphansUnclean`) and `CleanSoFar`: a scan still clean (no tool failed, no
output failed to be saved, nobody else wrote) has left, for every step behind it,
its own file and its own saved output, and its tool has read nothing else. `PipelineFacts` says that a step reads only what an earlier
one wrote and that no two write the same; `LocalInv` carries the invariant over
for any step of one process, given what it does to its own scan, and
`OthersUndisturbed` for all others. Results: `ReconTypes`,
`MixturesMeanTrouble`, `CleanScansAreComplete`.

**`SessionProofs`** (any number of processes, names, seconds and sessions).
`SessionInv` says what list and offset a session has at each place of
`ks_session_start` (`Phase`), that a session with a file is among those that
opened it and, alone, is its content (`Mine`), and that no log outgrows two
lines, the second of which is always a "stopped" (`TwoPlaces`); from the last
it follows that a hole is the missing first line. Results: `SessionTypes`,
`LogsFollowTimelines`, `HolesAreStarts`, `StopsAreLogged`, `PastLogsStay`.

**`PartsProofs`** proves about the parts of `MCParts` and about `Workflow`, each
under its own specification, for any values of its constants.

- *Notes* (any shells, texts and queries, any number of notes). `KnowledgeInv`
  says that a writer is alone, that a written note is at the place its shell
  will report, and that a reader has found exactly the matching rows among those
  it has passed, so that this also holds of an answer that an error cuts off.
  `Hits` is any function, so that nothing depends on what LIKE matches. Results: `AddsAreKept` (what was reported is there for good),
  `SearchesAreExact`, `ReadyHasItsTable`.
  `BookInv` adds what was asked for, and `NotesAreNotebook` is the refinement of
  `Notebook`: the commit of a row is the abstract `Write`, the message is
  `Report`, the end of a read is a `Search` answered at that moment, and locks,
  waiting rows and lost transactions are not seen. That a search is one moment's
  answer rests on the shared lock: no note is committed while it is held.
- *Configuration* (any keys, values, contents of the file and first size, any
  `AsRead` and `Torn`). `ConfigInv` says of a save that has lost nothing that its
  file answers, for each key that no spoilt entry among those printed touches, as
  the entries printed so far do (`SavedSoFar`), and ties `kept` to the file. The
  lemmas `GetAppend`, `GetOther` and `GetToNext` say what `Get` makes of one more
  entry and of lines for other keys. Results: `ArrayIsLargeEnough`, `SavesAreKept`
  and `ArrayIsTable`, the refinement of `Settings`.
- *Workflows* (any installed tools, any number of runs and of steps of others).
  `FlowInv` is for `.temp` what `CleanSoFar` is for `recon`: in a run still clean every step
  behind the current one has left its own result there, made from this run's (its
  own, whatever became of the others, if that one step worked and nobody else
  wrote its file), and every copy behind has
  taken it over (`MadeSoFar`); nothing, what is under way included, is newer than
  the latest run (`Dated`), and what nobody else has written since the run began
  is not newer than the run (`Recent`). Results: `FlowTypes`,
  `CleanRunsAreWhole`, and from the same invariant the action property
  `NewerResultsStay`.
- *Commands* (any words, adapters and `MaxArgc`). The rule that decides is the
  first that fits, a CHOOSE over the numbers of the rules; that there is a first
  one comes from `LeastExists`. `HandlersHaveTheirWords` then goes through the
  rules.
- *Scores*. `HarderNeverWorse` follows the two weights that a metric of
  exploitability changes through product, sum, the limit at 10 and the rounding
  up, each of which is monotone, whatever the sign of the impact.
- `PartsTypes` puts the types of the four parts together.

**`NumberTheorems`.** The library's induction theorems are about a predicate,
which no installed prover can instantiate. `SetInduction` says the same of a
set: one that has 0 and the successor of each of its members holds all natural
numbers, as the successor would otherwise map its numbers up to the missing one
into themselves, one to one and not onto. From it come a least and a greatest
member (`LeastExists`, `LargestExists`), induction over the places of a text
(`PlaceInduction`) and the existence of the functions that are defined by
recursion over them (`RunExists`). With these, both parsers can be compared with
their references for texts of any length.

**`ParserProofs`** (lines of any length, any `MAX_ARGS`). `IInv` joins the
bounds, the order of the arguments and that an argument under way starts
behind all others; `AtInside` says that `After` never leaves the line, whatever
follows a backslash. Results: `InBounds`, `InOrder`. `ReadInv` adds that the
parser's place and mode are those of the reference there (`Reads`; a step of the
parser may be two of the reference, over a backslash), and that the arguments
found are those of the reference that end before (`FoundSoFar`). Result:
`CutsLikeReference`.

**`DslProofs`** (scripts of any length, any size of tokens and statements).
`TypeOK` of `Dsl` is inductive: it bounds the token being read by its buffer and
each statement by its places, and knows that an argument is only collected when
there is a statement. `CopyInside` and `ClosedInside` say why no loop passes the
end of the text, `CollectedType` and `BegunType` what the two ways to keep a
token do to the list of statements. `OrderInv` adds that no argument reaches
the token that is being read, and `EndAdds` that each argument was there or is
the last one. Results: `InBounds`, `ArgumentsInOrder`.

`ScriptsAreLines` is the comparison with the reference. Its invariant `LinesInv`
has two parts, for texts whose tokens fit their buffers: `Scans`, that the
tokenizer is at a place with the reference's owner and, in a token, has passed
only characters of it; and `ReadLines`, that the statements are those of the
tokens that begin before that place, their lines those of the words, and `inside`
true when the line has a word so far. `EndToken` says that a token that ends is
one of the reference's, and none is left out between two; `EndScans` that the
character which ends it is read again as the reference reads it. The proof found
one flaw, in the model: two arms of a CASE in the reference overlapped, so that
what a comment character belongs to was open where TLC had taken the first arm.
They are written apart now, here and in `Results`.

`StepsAreFew` proves `EveryStepCounts`: `Left` is a natural number that each step
lowers. A token that ends gives its last character to the next one, so that
places alone do not do: the argument needs that no token but a string can end
before its first character (`FreshGoesOn`), because the branches of the tokenizer
take every character that would end a word at once.

*Only model-checked:* liveness (`CreateLeavesOpenable`, `TermStops`, `EofStops`,
`ScanEnds`, `Terminates`, `EveryStatementRuns`), which needs fairness and ENABLED.
For scripts, `StepsAreFew` is the half of it that needs neither. Each safety
property of a passing run has a theorem.

## 6. Assumptions

System calls and single SQLite statements are atomic. SQLite undoes an
interrupted statement and rolls back, as one atomic step, what a process had
not committed when it ended. The integer arithmetic of `Cvss` gives the score
of the compiled `cvss.c` for each of the 2,592 choices of metrics, which was
compared outside the model. A crash ends a process and nothing else. Workspaces are
not deleted by hand. A tool reads its input when it starts and writes its file
when it ends; a tool that reports failure, or is killed (which `WEXITSTATUS`
turns into a zero that nobody looks at), may have written it or not. What
`Session` writes to a log that is open gets there (`fprintf` and `fflush`
succeed). Memory allocation succeeds.

## 7. What is not modelled

- Unreachable today, and left out: plugins (`HAVE_DLOPEN` is defined nowhere in
  the build, so that no library can be loaded), the pipelines web-basic and
  api-audit of `orchestrator.c` (those of `pipeline.c` are in `Workflow`), the
  typed functions of `session.c`, `ks_knowledge_delete`, the graph's nodes: no
  command adds one, so that every graph is empty.
- Without state or pure output: findings (printed, not stored), reports, the AI
  assistant, TUI, log.
- Other builds: Lua (`HAVE_LUA`), Windows. Third-party: SQLite, 460,000 of the
  repository's 480,000 lines, of which only the statements that gupt issues are
  modelled, as external. Any share of the code is therefore to be read against
  gupt's own 5,900 lines.
- Inside the modelled parts: in scripts, the commands themselves (all but
  workspace and the adapters only print) and the REPL, which has no caller;
  text of messages, cd and pwd, memory of `argv` (every command leaks its own),
  lengths of paths; in `Workflow`, a run without an open workspace, and what the
  tools print, which is saved under their names beside the results; in
  `Knowledge`, a word to search for whose quote turns the condition into one about
  other columns, or the SQL into one that selects something other than notes.

## 8. The plan

1. Done: the workspace engine, the configuration and the notes, each with its
   abstract specification, loop, parser, dispatch, scan, sessions, scripts,
   scores and workflows; a theorem for each safety property.
2. Next to prove: that `Parser` has only so many steps, as `Dsl` has. Its loop
   moves `pos` in each step, and a stuck one would change nothing; the property
   therefore has to say that a mode is left, and not that a step counts.
3. Next to model: results that a killed tool has cut off, as a third kind of
   content in `Recon`; `note`'s joined text in `Dsl`; plugins and the graph when
   the build and the commands reach them.
