------------------------------ MODULE Workflow -------------------------------
(***************************************************************************)
(* The workflow engine (src/tools/pipeline.c): a pipeline's tools write    *)
(* their results into the workspace's .temp directory, which is never      *)
(* emptied, and at the end every result that is there is copied to recon.  *)
(* The scan command (src/tools/orchestrator.c) writes files of the same    *)
(* names into recon directly.                                              *)
(*                                                                         *)
(* A file's content is the run that wrote it, "by", and the runs its data  *)
(* come from, "from".  The module follows one gupt process, whose          *)
(* workspace is open; it may die at any point, and a tool that it runs may *)
(* outlive it.  Other processes, and scans of this one, write in the same  *)
(* workspace: each of their steps counts as a run of its own.              *)
(***************************************************************************)
EXTENDS Naturals, Sequences

CONSTANTS
  Installed,  \* tools that are installed
  MaxRuns,    \* bound on the runs of this process and the steps of others
  MaxStray    \* bound on the runs begun by the time a step of others begins

ASSUME MaxRunsAssumption == MaxRuns \in Nat

WorkStep(tool, in, out) == [tool |-> tool, in |-> in, out |-> out]

\* Variant of ReconSteps: probing comes before searching.
ReconStepsSwapped ==
  << WorkStep("httpx", "subdomains", "live_hosts"),
     WorkStep("subfinder", "none", "subdomains"),
     WorkStep("katana", "none", "endpoints"),
     WorkStep("nuclei", "live_hosts", "findings") >>
ReconSteps ==
  << WorkStep("subfinder", "none", "subdomains"),
     WorkStep("httpx", "subdomains", "live_hosts"),
     WorkStep("katana", "none", "endpoints"),
     WorkStep("nuclei", "live_hosts", "findings") >>

\* The built-in pipelines: each tool with the file it reads and the one it
\* writes, if any.
Workflows ==
  [recon |-> ReconSteps,
   web_basic |-> << WorkStep("ffuf", "none", "directories"),
                    WorkStep("whatweb", "none", "none"),
                    WorkStep("nmap", "none", "ports") >>,
   api_audit |-> << WorkStep("katana", "none", "api_endpoints"),
                    WorkStep("arjun", "none", "parameters"),
                    WorkStep("dalfox", "none", "none"),
                    WorkStep("sqlmap", "none", "none") >>]

Scanned == {"subdomains", "live_hosts", "endpoints", "findings"}
Results ==
  Scanned \cup {"directories", "ports", "api_endpoints", "parameters"}

\* No file, or an empty one.
Nothing == [by |-> 0, from |-> {}]

VARIABLES
  flow,     \* the pipeline that runs
  flowPc,   \* "idle", "tools", "copy" or "done" (the last run is complete)
  flowAt,   \* the step it is at
  flowRun,  \* its number
  runs,     \* runs begun
  temp,     \* the files in .temp
  recon,    \* the files in recon
  strays,   \* steps under way that are not of this process's pipeline: each
            \* with the directory and the file it will write, and what
  trouble,  \* history: results that the run failed to make or copy
  disturbed \* history: results that others have written since the run began

disk == <<temp, recon, strays>>
flowVars == <<flow, flowPc, flowAt, flowRun, runs, disk, trouble, disturbed>>

FlowInit ==
  /\ flow = "recon" /\ flowPc = "idle" /\ flowAt = 1 /\ flowRun = 0 /\ runs = 0
  /\ temp = [f \in Results |-> Nothing]
  /\ recon = [f \in Results |-> Nothing]
  /\ strays = {} /\ trouble = {} /\ disturbed = {}

-----------------------------------------------------------------------------

AtStep == Workflows[flow][flowAt]
\* Variant of LastStep: one step too far.
LastStepLate == flowAt > Len(Workflows[flow])
LastStep == flowAt = Len(Workflows[flow])

\* pipeline run <name> <target>
Run(name) ==
  /\ flowPc \in {"idle", "done"} /\ runs < MaxRuns
  /\ flow' = name /\ flowPc' = "tools" /\ flowAt' = 1
  /\ runs' = runs + 1 /\ flowRun' = runs + 1
  /\ trouble' = {} /\ disturbed' = {}
  /\ UNCHANGED disk

\* On to the next step, or from the tools to the copies and from there to
\* the end.
NextStep ==
  IF LastStep
    THEN flowAt' = 1 /\ flowPc' = IF flowPc = "tools" THEN "copy" ELSE "done"
    ELSE flowAt' = flowAt + 1 /\ UNCHANGED flowPc

\* The tool is installed, and what it reads in directory dir is there.
Able(step, dir) ==
  step.tool \in Installed /\ (step.in # "none" => dir[step.in] # Nothing)

\* What it writes for run r has come from what it reads.
ReadFrom(step, dir) == IF step.in = "none" THEN {} ELSE dir[step.in].from
MadeBy(r, step, dir) == [by |-> r, from |-> {r} \cup ReadFrom(step, dir)]

Output == MadeBy(flowRun, AtStep, temp)

\* Variant of Written: a result that is there is not made again.
WrittenOnce ==
  IF AtStep.out = "none" \/ temp[AtStep.out] # Nothing THEN temp
  ELSE [temp EXCEPT ![AtStep.out] = Output]
\* .temp with the result of the step in it.
Written ==
  IF AtStep.out = "none" THEN temp ELSE [temp EXCEPT ![AtStep.out] = Output]

ToolWorks ==
  /\ flowPc = "tools" /\ Able(AtStep, temp)
  /\ temp' = Written
  /\ NextStep
  /\ UNCHANGED <<flow, flowRun, runs, recon, strays, trouble, disturbed>>

\* The tool is not installed, cannot read its input or fails; nobody looks
\* at its result, and what it may have written stays.
ToolFails ==
  /\ flowPc = "tools"
  /\ \/ UNCHANGED temp
     \/ Able(AtStep, temp) /\ temp' = Written
  /\ trouble' = trouble \cup {AtStep.out}
  /\ NextStep
  /\ UNCHANGED <<flow, flowRun, runs, recon, strays, disturbed>>

\* A result that is in .temp is copied, whoever made it.
Copied(f) ==
  IF temp[f] = Nothing THEN recon ELSE [recon EXCEPT ![f] = temp[f]]

Copy ==
  /\ flowPc = "copy"
  /\ recon' = IF AtStep.out = "none" THEN recon ELSE Copied(AtStep.out)
  /\ NextStep
  /\ UNCHANGED <<flow, flowRun, runs, temp, strays, trouble, disturbed>>

\* A result cannot be read or written; nobody looks at that, and what was in
\* recon is there still or has been emptied.
CopyFails ==
  /\ flowPc = "copy" /\ AtStep.out # "none" /\ temp[AtStep.out] # Nothing
  /\ \/ UNCHANGED recon
     \/ recon' = [recon EXCEPT ![AtStep.out] = Nothing]
  /\ trouble' = trouble \cup {AtStep.out}
  /\ NextStep
  /\ UNCHANGED <<flow, flowRun, runs, temp, strays, disturbed>>

Stray(dir, f, content) == [dir |-> dir, out |-> f, content |-> content]

\* The process ends; its tool may live on.
FlowDies ==
  /\ flowPc \in {"tools", "copy"}
  /\ flowPc' = "idle" /\ flowAt' = 1 /\ trouble' = {}
  /\ \/ UNCHANGED strays
     \/ /\ flowPc = "tools" /\ AtStep.out # "none" /\ Able(AtStep, temp)
        /\ strays' = strays \cup {Stray("temp", AtStep.out, Output)}
  /\ UNCHANGED <<flow, flowRun, runs, temp, recon, disturbed>>

\* A tool of another process's pipeline begins, which writes into .temp, or
\* one of a scan, which writes into recon, or the copy of a result.
StrayBegins(step) ==
  /\ step.out # "none" /\ runs < MaxRuns /\ runs <= MaxStray
  /\ runs' = runs + 1
  /\ \/ /\ Able(step, temp)
        /\ strays' = strays \cup
             {Stray("temp", step.out, MadeBy(runs + 1, step, temp))}
     \/ /\ step.out \in Scanned /\ Able(step, recon)
        /\ strays' = strays \cup
             {Stray("recon", step.out, MadeBy(runs + 1, step, recon))}
     \/ /\ temp[step.out] # Nothing
        /\ strays' = strays \cup {Stray("recon", step.out, temp[step.out])}
  /\ UNCHANGED <<flow, flowPc, flowAt, flowRun, temp, recon, trouble, disturbed>>

\* It ends: its file is written, has been emptied, or is as it was.
StrayEnds(stray) ==
  /\ strays' = strays \ {stray}
  /\ \/ UNCHANGED <<temp, recon, disturbed>>
     \/ /\ \E content \in {stray.content, Nothing} :
             IF stray.dir = "temp"
               THEN temp' = [temp EXCEPT ![stray.out] = content] /\ UNCHANGED recon
               ELSE recon' = [recon EXCEPT ![stray.out] = content] /\ UNCHANGED temp
        /\ disturbed' = disturbed \cup {stray.out}
  /\ UNCHANGED <<flow, flowPc, flowAt, flowRun, runs, trouble>>

FlowNext ==
  \/ \E name \in DOMAIN Workflows : Run(name)
  \/ ToolWorks \/ ToolFails \/ Copy \/ CopyFails
  \/ FlowDies
  \/ \E name \in DOMAIN Workflows :
       \E i \in DOMAIN Workflows[name] : StrayBegins(Workflows[name][i])
  \/ \E stray \in strays : StrayEnds(stray)

FlowSpec == FlowInit /\ [][FlowNext]_flowVars

-----------------------------------------------------------------------------
(* Properties                                                              *)

Content == [by : 0..MaxRuns, from : SUBSET (1..MaxRuns)]

\* Every variable has its type (pipeline.c:6-25).
FlowTypeOK ==
  /\ flow \in DOMAIN Workflows
  /\ flowPc \in {"idle", "tools", "copy", "done"}
  /\ flowAt \in 1..Len(Workflows[flow])
  /\ runs \in 0..MaxRuns /\ flowRun \in 0..runs
  /\ temp \in [Results -> Content] /\ recon \in [Results -> Content]
  /\ strays \subseteq [dir : {"temp", "recon"}, out : Results, content : Content]
  /\ trouble \subseteq Results \cup {"none"} /\ disturbed \subseteq Results

\* No step of the run failed, and nobody else has written one of its files.
Clean ==
  trouble = {} /\ \A i \in DOMAIN Workflows[flow] :
                    Workflows[flow][i].out \notin disturbed

\* After a run in which no step failed, recon holds this run's results, made
\* from this run's data only, for all that .temp held before, unless another
\* process, or a tool that outlived one, has written one of them since the
\* run began (pipeline.c:128-206).
CleanRunIsWhole ==
  (flowPc = "done" /\ Clean) =>
    \A i \in DOMAIN Workflows[flow] :
      LET out == Workflows[flow][i].out
      IN out = "none" \/ recon[out] = [by |-> flowRun, from |-> {flowRun}]

\* A run puts an older result, or nothing, in the place of a newer one only
\* when its own step for that result or the copying failed, or somebody else
\* has written that result since the run began (pipeline.c:189-206).
OlderOnlyAfterFailure ==
  [][\A f \in Results :
       recon'[f].by < recon[f].by => f \in trouble' \cup disturbed'
    ]_flowVars
=============================================================================
