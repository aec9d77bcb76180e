-------------------------------- MODULE Recon --------------------------------
(***************************************************************************)
(* scan and recon: ks_orchestrator_run_pipeline("recon", target)           *)
(* (src/tools/orchestrator.c) and the tool registry (src/tools/tool.c),    *)
(* for several gupt processes that scan into the same workspaces.          *)
(*                                                                         *)
(* Each step runs an external program through the shell, which reads one   *)
(* file of the workspace's recon directory and writes another; gupt then   *)
(* saves the program's standard output under the tool's name.  No status   *)
(* is looked at and no file is removed first, so what a later step reads   *)
(* may be left from an earlier scan.  A file's content is abstracted to    *)
(* the scan that wrote it, "by", and the scans its data come from,         *)
(* "from"; a scan is known by its number.                                  *)
(*                                                                         *)
(* Not modelled: the recon directory itself, which each workspace has.     *)
(***************************************************************************)
EXTENDS Naturals, Sequences

CONSTANTS
  Procs,       \* gupt processes
  Workspaces,  \* names of complete workspaces
  MaxRuns,     \* bound on the scans
  Movable,     \* tools that may be installed or removed while gupt runs
  MaxMoves     \* bound on the number of times that happens

Tools == {"subfinder", "httpx", "katana", "nuclei"}
Files == {"subdomains", "live_hosts", "endpoints", "findings"}

ASSUME MaxRunsAssumption == MaxRuns \in Nat
ASSUME MovableAssumption == Movable \subseteq Tools /\ MaxMoves \in Nat
ASSUME WorkspacesAssumption == {"none", "dirless"} \cap Workspaces = {}

Stage(tool, in, out) == [tool |-> tool, in |-> in, out |-> out]

\* Variants of Pipeline: the first two steps in the wrong order, and without
\* the last one.
PipelineSwapped ==
  << Stage("httpx", "subdomains", "live_hosts"),
     Stage("subfinder", "target", "subdomains"),
     Stage("katana", "target", "endpoints"),
     Stage("nuclei", "live_hosts", "findings") >>
PipelineShort ==
  << Stage("subfinder", "target", "subdomains"),
     Stage("httpx", "subdomains", "live_hosts"),
     Stage("katana", "target", "endpoints") >>

\* The recon pipeline: each tool with the file it reads ("target" when it is
\* given the target itself) and the one it writes.
Pipeline ==
  << Stage("subfinder", "target", "subdomains"),
     Stage("httpx", "subdomains", "live_hosts"),
     Stage("katana", "target", "endpoints"),
     Stage("nuclei", "live_hosts", "findings") >>

VARIABLES
  pc,       \* what each process is doing
  ws,       \* its workspace; "dirless" is a name from -w, without directory
  run,      \* number of its scan, 0 outside one
  step,     \* step of the pipeline it is at
  got,      \* what the running tool has read, as a set of scans
  cached,   \* tools[i].installed, looked up when the process started
  onPath,   \* the tools that are there
  moves,    \* times onPath changed
  file,     \* the files of each recon directory
  raw,      \* the saved standard outputs, as the scan they are from (0: none,
            \* or not the whole of one)
  orphans,  \* tools whose gupt process has died
  runs,     \* scans begun
  clean     \* history: scans without a failed step (its tool or the saving
            \* of what that printed) or a foreign write

proc == <<ws, cached>>
disk == <<file, raw>>
env  == <<onPath, moves, orphans>>
vars == <<pc, run, step, got, runs, clean, proc, disk, env>>

Runs == 1..MaxRuns
Absent == [by |-> 0, from |-> {}]
Contents == {Absent} \cup [by : Runs, from : SUBSET Runs]
Orphans == [ws : Workspaces, out : Files, run : Runs, got : SUBSET Runs]

TypeOK ==
  /\ pc \in [Procs -> {"gone", "idle", "lookup", "tool", "save"}]
  /\ ws \in [Procs -> Workspaces \cup {"none", "dirless"}]
  /\ run \in [Procs -> 0..MaxRuns]
  /\ step \in [Procs -> 1..Len(Pipeline)]
  /\ got \in [Procs -> SUBSET Runs]
  /\ cached \in [Procs -> SUBSET Tools]
  /\ onPath \subseteq Tools /\ moves \in 0..MaxMoves
  /\ file \in [Workspaces -> [Files -> Contents]]
  /\ raw \in [Workspaces -> [Tools -> 0..MaxRuns]]
  /\ orphans \subseteq Orphans
  /\ runs \in 0..MaxRuns /\ clean \subseteq Runs

Init ==
  /\ pc = [p \in Procs |-> "gone"] /\ ws = [p \in Procs |-> "none"]
  /\ run = [p \in Procs |-> 0] /\ step = [p \in Procs |-> 1]
  /\ got = [p \in Procs |-> {}] /\ cached = [p \in Procs |-> {}]
  /\ onPath \in {Tools, Tools \ Movable} /\ moves = 0
  /\ file = [w \in Workspaces |-> [f \in Files |-> Absent]]
  /\ raw = [w \in Workspaces |-> [t \in Tools |-> 0]]
  /\ orphans = {} /\ runs = 0 /\ clean = {}

-----------------------------------------------------------------------------
(* The process and its workspace                                           *)

\* ks_tool_init looks for the tools once; -w sets a name and no directory.
Launch(p) ==
  /\ pc[p] = "gone"
  /\ pc' = [pc EXCEPT ![p] = "idle"]
  /\ cached' = [cached EXCEPT ![p] = onPath]
  /\ ws' \in {[ws EXCEPT ![p] = "none"], [ws EXCEPT ![p] = "dirless"]}
  /\ UNCHANGED <<run, step, got, runs, clean, disk, env>>

\* new, open and close that succeed.
Select(p, w) ==
  /\ pc[p] = "idle" /\ ws[p] # w
  /\ ws' = [ws EXCEPT ![p] = w]
  /\ UNCHANGED <<pc, run, step, got, cached, runs, clean, disk, env>>

\* Without a workspace the command is refused and nothing happens.
Scan(p) ==
  /\ pc[p] = "idle" /\ ws[p] # "none"
  /\ runs < MaxRuns
  /\ runs' = runs + 1
  /\ run' = [run EXCEPT ![p] = runs + 1]
  /\ clean' = clean \cup {runs + 1}
  /\ pc' = [pc EXCEPT ![p] = "lookup"]
  /\ UNCHANGED <<step, got, proc, disk, env>>

-----------------------------------------------------------------------------
(* The steps                                                               *)

Scanning(p) == pc[p] \in {"lookup", "tool", "save"}
Now(p) == Pipeline[step[p]]

\* Variant of Advance: the end of the pipeline is not noticed.
AdvancePast(p) ==
  /\ step' = [step EXCEPT ![p] = @ + 1]
  /\ pc' = [pc EXCEPT ![p] = "lookup"]
  /\ UNCHANGED run

\* On to the next step, whatever became of this one.
Advance(p) ==
  IF step[p] < Len(Pipeline)
    THEN /\ step' = [step EXCEPT ![p] = @ + 1]
         /\ pc' = [pc EXCEPT ![p] = "lookup"]
         /\ UNCHANGED run
    ELSE /\ pc' = [pc EXCEPT ![p] = "idle"]
         /\ step' = [step EXCEPT ![p] = 1]
         /\ run' = [run EXCEPT ![p] = 0]

\* Variant of Skip: the tool is looked up again.
SkipRetry(p) ==
  /\ pc[p] = "lookup"
  /\ Now(p).tool \notin cached[p]
  /\ clean' = clean \ {run[p]}
  /\ UNCHANGED <<pc, step, run, got, runs, proc, disk, env>>

\* A tool that was not there when gupt started is passed over.
Skip(p) ==
  /\ pc[p] = "lookup"
  /\ Now(p).tool \notin cached[p]
  /\ clean' = clean \ {run[p]}
  /\ Advance(p)
  /\ UNCHANGED <<got, runs, proc, disk, env>>

\* popen.  The tool reads its input; without a workspace directory the file
\* names are "(null)", which the shell refuses to parse.
StartTool(p) ==
  /\ pc[p] = "lookup"
  /\ Now(p).tool \in cached[p]
  /\ LET in == Now(p).in
         able == ws[p] \in Workspaces /\ Now(p).tool \in onPath
     IN IF able /\ in = "target"
          THEN /\ pc' = [pc EXCEPT ![p] = "tool"]
               /\ got' = [got EXCEPT ![p] = {}]
               /\ UNCHANGED clean
        ELSE IF able /\ file[ws[p]][in] # Absent
          THEN /\ pc' = [pc EXCEPT ![p] = "tool"]
               /\ got' = [got EXCEPT ![p] = file[ws[p]][in].from]
               /\ UNCHANGED clean
        ELSE /\ pc' = [pc EXCEPT ![p] = "save"]
             /\ clean' = clean \ {run[p]}
             /\ UNCHANGED got
  /\ UNCHANGED <<run, step, runs, proc, disk, env>>

\* A tool of scan r writes a file, or gupt its output; the scans of others
\* that are under way in that workspace are no longer clean.
Write(w, f, r, from) ==
  file' = [file EXCEPT ![w][f] = [by |-> r, from |-> {r} \cup from]]
Disturbed(w, r) == {run[q] : q \in {q \in Procs : Scanning(q) /\ ws[q] = w}} \ {r}

ToolSucceeds(p) ==
  /\ pc[p] = "tool"
  /\ Write(ws[p], Now(p).out, run[p], got[p])
  /\ clean' = clean \ Disturbed(ws[p], run[p])
  /\ pc' = [pc EXCEPT ![p] = "save"]
  /\ got' = [got EXCEPT ![p] = {}]
  /\ UNCHANGED <<run, step, runs, raw, proc, env>>

\* It fails, with or without some output written.
ToolFails(p) ==
  /\ pc[p] = "tool"
  /\ \/ UNCHANGED file /\ clean' = clean \ {run[p]}
     \/ /\ Write(ws[p], Now(p).out, run[p], got[p])
        /\ clean' = (clean \ Disturbed(ws[p], run[p])) \ {run[p]}
  /\ pc' = [pc EXCEPT ![p] = "save"]
  /\ got' = [got EXCEPT ![p] = {}]
  /\ UNCHANGED <<run, step, runs, raw, proc, env>>

\* pclose has returned: what the tool printed goes to the recon directory.
Save(p) ==
  /\ pc[p] = "save"
  /\ IF ws[p] \in Workspaces
       THEN /\ raw' = [raw EXCEPT ![ws[p]][Now(p).tool] = run[p]]
            /\ clean' = clean \ Disturbed(ws[p], run[p])
       ELSE UNCHANGED <<raw, clean>>
  /\ Advance(p)
  /\ UNCHANGED <<got, runs, file, proc, env>>

\* The output cannot be written, and nobody looks at the status: what was
\* saved before is there still, or has been emptied or replaced in part.
SaveFails(p) ==
  /\ pc[p] = "save" /\ ws[p] \in Workspaces
  /\ \/ UNCHANGED raw /\ clean' = clean \ {run[p]}
     \/ /\ raw' = [raw EXCEPT ![ws[p]][Now(p).tool] = 0]
        /\ clean' = (clean \ Disturbed(ws[p], run[p])) \ {run[p]}
  /\ Advance(p)
  /\ UNCHANGED <<got, runs, file, proc, env>>

-----------------------------------------------------------------------------
(* The world outside                                                       *)

\* gupt ends, or is killed in the middle of a scan; its tool may live on.
Die(p) ==
  /\ pc[p] # "gone"
  /\ pc' = [pc EXCEPT ![p] = "gone"]
  /\ clean' = IF Scanning(p) THEN clean \ {run[p]} ELSE clean
  /\ \/ UNCHANGED orphans
     \/ /\ pc[p] = "tool"
        /\ orphans' = orphans \cup
             {[ws |-> ws[p], out |-> Now(p).out, run |-> run[p], got |-> got[p]]}
  /\ run' = [run EXCEPT ![p] = 0] /\ step' = [step EXCEPT ![p] = 1]
  /\ got' = [got EXCEPT ![p] = {}]
  /\ ws' = [ws EXCEPT ![p] = "none"] /\ cached' = [cached EXCEPT ![p] = {}]
  /\ UNCHANGED <<runs, disk, onPath, moves>>

\* A tool whose gupt is dead ends, with or without having written its file.
OrphanEnds(o) ==
  /\ o \in orphans
  /\ orphans' = orphans \ {o}
  /\ \/ UNCHANGED <<file, clean>>
     \/ /\ Write(o.ws, o.out, o.run, o.got)
        /\ clean' = clean \ Disturbed(o.ws, o.run)
  /\ UNCHANGED <<pc, run, step, got, runs, raw, proc, onPath, moves>>

\* A tool is installed or removed.
Move(t) ==
  /\ t \in Movable /\ moves < MaxMoves
  /\ moves' = moves + 1
  /\ onPath' = IF t \in onPath THEN onPath \ {t} ELSE onPath \cup {t}
  /\ UNCHANGED <<pc, run, step, got, runs, clean, proc, disk, orphans>>

\* What goes on by itself: the process between two tools, and the tools.
Step(p) ==
  \/ Skip(p) \/ StartTool(p) \/ ToolSucceeds(p) \/ ToolFails(p)
  \/ Save(p) \/ SaveFails(p)

Next ==
  \/ \E p \in Procs :
       Launch(p) \/ (\E w \in Workspaces \cup {"none"} : Select(p, w))
       \/ Scan(p) \/ Step(p) \/ Die(p)
  \/ \E o \in orphans : OrphanEnds(o)
  \/ \E t \in Movable : Move(t)

Spec == Init /\ [][Next]_vars

\* A process that scans goes on, and each tool it starts ends some time:
\* gupt waits for it in pclose without a timeout.
FairSpec == Spec /\ \A p \in Procs : WF_vars(Step(p))

-----------------------------------------------------------------------------
(* Properties                                                              *)

\* A result file that draws on the data of another scan was written by a
\* scan that had a failed or missing step, or into whose workspace someone
\* else wrote meanwhile (orchestrator.c:125-154): the order of the steps and
\* the names of the files pass on each scan's own data otherwise.
MixedOnlyAfterTrouble ==
  \A w \in Workspaces, f \in Files :
    LET c == file[w][f]
    IN c.by \in clean => c.from = {c.by}

\* When a scan ends in which every tool worked, every output could be saved
\* and nobody interfered, its workspace holds its results and nothing else:
\* all four files and all four saved outputs are its own
\* (orchestrator.c:78-98, 125-162).
CleanScanIsComplete ==
  [][\A p \in Procs :
       (pc[p] = "save" /\ pc'[p] = "idle" /\ run[p] \in clean') =>
         /\ \A f \in Files :
              file'[ws[p]][f] = [by |-> run[p], from |-> {run[p]}]
         /\ \A t \in Tools : raw'[ws[p]][t] = run[p]]_vars

\* A tool that was absent when gupt started is passed over by every scan of
\* that process, and all the same each scan ends: no failure of a step stops
\* the pipeline (orchestrator.c:62-66, 125-162).
ScanEnds ==
  \A p \in Procs : Scanning(p) ~> pc[p] \in {"idle", "gone"}
=============================================================================
