----------------------------- MODULE ReconProofs -----------------------------
(***************************************************************************)
(* The safety of scans for any number of processes, workspaces and scans:  *)
(* only a troubled or disturbed scan leaves results that draw on another   *)
(* one, and a clean scan is complete.                                      *)
(***************************************************************************)
EXTENDS Recon, TLAPS

USE MaxRunsAssumption, MovableAssumption, WorkspacesAssumption

-----------------------------------------------------------------------------
(* The pipeline                                                            *)

\* Four steps, which write all files by all tools, no file twice, and read
\* the target or the file of an earlier step.
LEMMA PipelineFacts ==
  /\ Len(Pipeline) = 4
  /\ \A i \in 1..4 :
       /\ Pipeline[i].tool \in Tools /\ Pipeline[i].out \in Files
       /\ Pipeline[i].in = "target" \/
            \E j \in 1..4 : j < i /\ Pipeline[i].in = Pipeline[j].out
  /\ \A i, j \in 1..4 :
       i # j => /\ Pipeline[i].out # Pipeline[j].out
                /\ Pipeline[i].tool # Pipeline[j].tool
  /\ \A f \in Files : \E i \in 1..4 : f = Pipeline[i].out
  /\ \A t \in Tools : \E i \in 1..4 : t = Pipeline[i].tool
<1>1. /\ Len(Pipeline) = 4
      /\ Pipeline[1] = Stage("subfinder", "target", "subdomains")
      /\ Pipeline[2] = Stage("httpx", "subdomains", "live_hosts")
      /\ Pipeline[3] = Stage("katana", "target", "endpoints")
      /\ Pipeline[4] = Stage("nuclei", "live_hosts", "findings")
  BY DEF Pipeline
<1>2. \A i \in 1..4 : i = 1 \/ i = 2 \/ i = 3 \/ i = 4
  OBVIOUS
<1>3. \A i \in 1..4 :
        /\ Pipeline[i].tool \in Tools /\ Pipeline[i].out \in Files
        /\ Pipeline[i].in = "target" \/
             \E j \in 1..4 : j < i /\ Pipeline[i].in = Pipeline[j].out
  BY <1>1, <1>2 DEF Stage, Tools, Files
<1>4. \A i, j \in 1..4 :
        i # j => /\ Pipeline[i].out # Pipeline[j].out
                 /\ Pipeline[i].tool # Pipeline[j].tool
  BY <1>1, <1>2 DEF Stage
<1>5. \A f \in Files : \E i \in 1..4 : f = Pipeline[i].out
  BY <1>1 DEF Stage, Files
<1>6. \A t \in Tools : \E i \in 1..4 : t = Pipeline[i].tool
  BY <1>1 DEF Stage, Tools
<1>7. QED  BY <1>1, <1>3, <1>4, <1>5, <1>6

-----------------------------------------------------------------------------
(* The inductive invariant                                                 *)

\* Numbers of scans are handed out in order, and no two processes scan under
\* the same one.
Numbered ==
  /\ clean \subseteq 1..runs
  /\ \A p \in Procs : run[p] <= runs
  /\ \A w \in Workspaces, f \in Files : file[w][f].by <= runs
  /\ \A p, q \in Procs :
       p # q /\ Scanning(p) /\ Scanning(q) => run[p] # run[q]

\* A process is where its place in the pipeline says.
Placed ==
  \A p \in Procs :
    /\ Scanning(p) => run[p] >= 1
    /\ ~Scanning(p) => step[p] = 1
    /\ pc[p] = "tool" => ws[p] \in Workspaces

\* The scan of a tool that has lost its process is not clean.
OrphansUnclean ==
  \A o \in orphans : o.run \notin clean /\ o.run <= runs

Own(r) == [by |-> r, from |-> {r}]

\* Scan r has done step i in workspace w.
Done(w, i, r) ==
  /\ file[w][Pipeline[i].out] = Own(r)
  /\ raw[w][Pipeline[i].tool] = r

\* The scan of p has left its own results so far, and its tool has read
\* nothing else.
SoFar(p) ==
  /\ step[p] > 1 => ws[p] \in Workspaces
  /\ \A i \in 1..4 : i < step[p] => Done(ws[p], i, run[p])
  /\ pc[p] = "tool" => got[p] \subseteq {run[p]}
  /\ pc[p] = "save" => /\ ws[p] \in Workspaces
                       /\ file[ws[p]][Now(p).out] = Own(run[p])

CleanSoFar ==
  \A p \in Procs : (Scanning(p) /\ run[p] \in clean) => SoFar(p)

ReconInv ==
  /\ TypeOK
  /\ Numbered
  /\ Placed
  /\ OrphansUnclean
  /\ CleanSoFar
  /\ MixedOnlyAfterTrouble

LEMMA InitInv == Init => ReconInv
<1> SUFFICES ASSUME Init PROVE ReconInv
  OBVIOUS
<1> USE DEF Init
<1>1. TypeOK
  <2>1. 1 \in 1..Len(Pipeline)
    BY PipelineFacts
  <2>2. Absent \in Contents
    BY DEF Contents
  <2>3. QED  BY <2>1, <2>2 DEF TypeOK
<1>2. Numbered /\ Placed /\ OrphansUnclean /\ CleanSoFar
  BY DEF Numbered, Placed, OrphansUnclean, CleanSoFar, Scanning, Absent
<1>3. MixedOnlyAfterTrouble
  BY DEF MixedOnlyAfterTrouble
<1>4. QED  BY <1>1, <1>2, <1>3 DEF ReconInv
-----------------------------------------------------------------------------
(* Writing a file                                                          *)

LEMMA WriteFile ==
  ASSUME TypeOK, NEW w \in Workspaces, NEW f \in Files, NEW r \in Runs,
         NEW from \in SUBSET Runs, Write(w, f, r, from)
  PROVE  /\ file' \in [Workspaces -> [Files -> Contents]]
         /\ file'[w][f] = [by |-> r, from |-> {r} \cup from]
         /\ \A v \in Workspaces, g \in Files :
              v # w \/ g # f => file'[v][g] = file[v][g]
<1> USE DEF TypeOK, Write
<1>1. [by |-> r, from |-> {r} \cup from] \in Contents
  BY DEF Contents
<1>2. QED  BY <1>1

-----------------------------------------------------------------------------
(* What a step of one process leaves to the others                         *)

Same(q) ==
  /\ pc'[q] = pc[q] /\ run'[q] = run[q] /\ step'[q] = step[q]
  /\ ws'[q] = ws[q] /\ got'[q] = got[q]

\* A clean scan in a workspace that nobody has written to is as it was.
LEMMA OtherKept ==
  ASSUME ReconInv, NEW q \in Procs, Same(q), Scanning(q), run[q] \in clean,
         ws[q] \in Workspaces =>
           file'[ws[q]] = file[ws[q]] /\ raw'[ws[q]] = raw[ws[q]]
  PROVE  SoFar(q)'
<1>1. SoFar(q)
  BY DEF ReconInv, CleanSoFar
<1>2. step[q] \in 1..4
  BY PipelineFacts DEF ReconInv, TypeOK
<1>3. \A i \in 1..4 : i < step'[q] => Done(ws[q], i, run[q])'
  BY <1>1, <1>2 DEF SoFar, Done, Same
<1>4. QED  BY <1>1, <1>2, <1>3 DEF SoFar, Now, Same

\* All scans but the one of p, after a step of p that adds no clean scan and
\* writes at most in a workspace whose other scans are no longer clean.
LEMMA OthersKept ==
  ASSUME ReconInv, NEW p \in Procs,
         \A q \in Procs : q # p => Same(q),
         clean' \subseteq clean,
         \A q \in Procs :
           (q # p /\ Scanning(q) /\ run[q] \in clean' /\ ws[q] \in Workspaces)
             => file'[ws[q]] = file[ws[q]] /\ raw'[ws[q]] = raw[ws[q]]
  PROVE  \A q \in Procs :
           (q # p /\ Scanning(q)' /\ run'[q] \in clean') => SoFar(q)'
<1> SUFFICES ASSUME NEW q \in Procs, q # p, Scanning(q)', run'[q] \in clean'
             PROVE  SoFar(q)'
  OBVIOUS
<1>1. Same(q) /\ Scanning(q) /\ run[q] \in clean /\ run[q] \in clean'
  BY DEF Same, Scanning
<1>2. QED  BY <1>1, OtherKept

LEMMA Advanced ==
  ASSUME TypeOK, NEW p \in Procs, Advance(p)
  PROVE  /\ pc' \in [Procs -> {"gone", "idle", "lookup", "tool", "save"}]
         /\ step' \in [Procs -> 1..Len(Pipeline)]
         /\ \A q \in Procs : q # p => pc'[q] = pc[q] /\ step'[q] = step[q]
         /\ step[p] < 4 => pc'[p] = "lookup" /\ step'[p] = step[p] + 1
         /\ step[p] = 4 => pc'[p] = "idle" /\ step'[p] = 1
         /\ step[p] \in 1..4
         /\ run' \in [Procs -> 0..MaxRuns]
         /\ \A q \in Procs : q # p => run'[q] = run[q]
         /\ run'[p] = IF pc'[p] = "idle" THEN 0 ELSE run[p]
<1>1. Len(Pipeline) = 4 /\ step[p] \in 1..4
  BY PipelineFacts DEF TypeOK
<1>2. CASE step[p] < 4
  <2>1. /\ step' = [step EXCEPT ![p] = @ + 1]
        /\ pc' = [pc EXCEPT ![p] = "lookup"]
        /\ run' = run
    BY <1>1, <1>2 DEF Advance
  <2>2. pc'[p] = "lookup" /\ step'[p] = step[p] + 1 /\ run'[p] = run[p]
    BY <2>1 DEF TypeOK
  <2>3. \A q \in Procs : q # p =>
          pc'[q] = pc[q] /\ step'[q] = step[q] /\ run'[q] = run[q]
    BY <2>1 DEF TypeOK
  <2>4. /\ pc' \in [Procs -> {"gone", "idle", "lookup", "tool", "save"}]
        /\ step' \in [Procs -> 1..Len(Pipeline)]
        /\ run' \in [Procs -> 0..MaxRuns]
    BY <1>1, <1>2, <2>1 DEF TypeOK
  <2>5. QED  BY <1>1, <1>2, <2>2, <2>3, <2>4
<1>3. CASE step[p] = 4
  <2>1. /\ step' = [step EXCEPT ![p] = 1]
        /\ pc' = [pc EXCEPT ![p] = "idle"]
        /\ run' = [run EXCEPT ![p] = 0]
    BY <1>1, <1>3 DEF Advance
  <2>2. pc'[p] = "idle" /\ step'[p] = 1 /\ run'[p] = 0
    BY <2>1 DEF TypeOK
  <2>3. \A q \in Procs : q # p =>
          pc'[q] = pc[q] /\ step'[q] = step[q] /\ run'[q] = run[q]
    BY <2>1 DEF TypeOK
  <2>4. /\ pc' \in [Procs -> {"gone", "idle", "lookup", "tool", "save"}]
        /\ step' \in [Procs -> 1..Len(Pipeline)]
        /\ run' \in [Procs -> 0..MaxRuns]
    BY <1>1, <2>1, MaxRunsAssumption DEF TypeOK
  <2>5. QED  BY <1>1, <1>3, <2>2, <2>3, <2>4
<1>4. QED  BY <1>1, <1>2, <1>3

-----------------------------------------------------------------------------
(* The process and its workspace                                           *)

LEMMA LaunchInv ==
  ASSUME ReconInv, NEW p \in Procs, Launch(p)
  PROVE  ReconInv'
<1> USE DEF ReconInv, Launch, disk, env
<1>1. TypeOK'
  BY DEF TypeOK
<1>2. Numbered' /\ Placed'
  BY DEF TypeOK, Numbered, Placed, Scanning
<1>3. OrphansUnclean' /\ MixedOnlyAfterTrouble'
  BY DEF OrphansUnclean, MixedOnlyAfterTrouble
<1>4. \A q \in Procs : q # p => Same(q)
  BY DEF TypeOK, Same
<1>5. CleanSoFar'
  BY <1>4, OthersKept DEF TypeOK, CleanSoFar, Scanning
<1>6. QED  BY <1>1, <1>2, <1>3, <1>5

LEMMA SelectInv ==
  ASSUME ReconInv, NEW p \in Procs, NEW w \in Workspaces \cup {"none"},
         Select(p, w)
  PROVE  ReconInv'
<1> USE DEF ReconInv, Select, disk, env
<1>1. TypeOK'
  BY DEF TypeOK
<1>2. Numbered' /\ Placed'
  BY DEF TypeOK, Numbered, Placed, Scanning
<1>3. OrphansUnclean' /\ MixedOnlyAfterTrouble'
  BY DEF OrphansUnclean, MixedOnlyAfterTrouble
<1>4. \A q \in Procs : q # p => Same(q)
  BY DEF TypeOK, Same
<1>5. CleanSoFar'
  BY <1>4, OthersKept DEF TypeOK, CleanSoFar, Scanning
<1>6. QED  BY <1>1, <1>2, <1>3, <1>5

LEMMA ScanInv ==
  ASSUME ReconInv, NEW p \in Procs, Scan(p)
  PROVE  ReconInv'
<1> USE DEF ReconInv, Scan, proc, disk, env
<1>1. TypeOK'
  BY DEF TypeOK, Runs
<1>2. Numbered'
  <2>1. \A q \in Procs : run[q] <= runs /\ run[q] \in Nat
    BY DEF TypeOK, Numbered
  <2>2. clean' \subseteq 1..runs'
    BY DEF TypeOK, Numbered
  <2>3. \A w \in Workspaces, f \in Files : file[w][f].by <= runs'
    BY DEF TypeOK, Numbered, Contents, Absent, Runs
  <2>4. \A q \in Procs : run'[q] <= runs' /\ (q # p => run'[q] = run[q])
    BY <2>1 DEF TypeOK
  <2>5. run'[p] = runs + 1 /\ \A q \in Procs : q # p => pc'[q] = pc[q]
    BY DEF TypeOK
  <2>6. \A q, r \in Procs :
          q # r /\ Scanning(q)' /\ Scanning(r)' => run'[q] # run'[r]
    BY <2>1, <2>4, <2>5 DEF TypeOK, Numbered, Scanning
  <2>7. QED  BY <2>2, <2>3, <2>4, <2>6 DEF Numbered
<1>3. Placed'
  BY DEF TypeOK, Placed, Scanning
<1>4. OrphansUnclean'
  BY DEF OrphansUnclean, Orphans, TypeOK, Runs
<1>5. MixedOnlyAfterTrouble'
  <2>1. \A w \in Workspaces, f \in Files :
          file[w][f].by # runs + 1
    BY DEF Numbered, TypeOK, Contents, Absent, Runs
  <2>2. QED  BY <2>1 DEF MixedOnlyAfterTrouble
<1>6. \A q \in Procs :
        (q # p /\ Scanning(q)' /\ run'[q] \in clean') => SoFar(q)'
  <2> SUFFICES ASSUME NEW q \in Procs, q # p, Scanning(q)', run'[q] \in clean'
               PROVE  SoFar(q)'
    OBVIOUS
  <2>1. Same(q) /\ Scanning(q) /\ run[q] # runs + 1
    BY DEF TypeOK, Same, Scanning, Numbered
  <2>2. QED  BY <2>1, OtherKept DEF Same
<1>7. SoFar(p)'
  <2>1. step'[p] = 1 /\ pc'[p] = "lookup"
    BY DEF TypeOK, Placed, Scanning
  <2>2. QED  BY <2>1 DEF SoFar
<1>8. QED  BY <1>1, <1>2, <1>3, <1>4, <1>5, <1>6, <1>7 DEF CleanSoFar
-----------------------------------------------------------------------------
(* The steps                                                               *)

\* A step of p that leaves the other processes, the numbers and the orphans
\* alone and adds no clean scan.
Local(p) ==
  /\ \A q \in Procs : q # p => Same(q)
  /\ pc' \in [Procs -> {"gone", "idle", "lookup", "tool", "save"}]
  /\ step' \in [Procs -> 1..Len(Pipeline)]
  /\ got' \in [Procs -> SUBSET Runs]
  /\ clean' \subseteq clean
  /\ UNCHANGED <<runs, proc, env>>
  /\ Scanning(p)
  /\ run' \in [Procs -> 0..MaxRuns]
  /\ run'[p] = IF Scanning(p)' THEN run[p] ELSE 0
  /\ ~Scanning(p)' => step'[p] = 1
  /\ pc'[p] = "tool" => ws[p] \in Workspaces

LEMMA LocalInv ==
  ASSUME ReconInv, NEW p \in Procs, Local(p),
         file' \in [Workspaces -> [Files -> Contents]],
         raw' \in [Workspaces -> [Tools -> 0..MaxRuns]],
         \A w \in Workspaces, f \in Files : file'[w][f].by <= runs,
         \A q \in Procs :
           (q # p /\ Scanning(q) /\ run[q] \in clean' /\ ws[q] \in Workspaces)
             => file'[ws[q]] = file[ws[q]] /\ raw'[ws[q]] = raw[ws[q]],
         (Scanning(p)' /\ run[p] \in clean') => SoFar(p)',
         MixedOnlyAfterTrouble'
  PROVE  ReconInv'
<1> USE DEF ReconInv, Local, proc, env
<1>1. TypeOK'
  BY DEF TypeOK
<1>2. \A q \in Procs : Scanning(q)' => Scanning(q)
  BY DEF Same, Scanning
<1>3. Numbered'
  <2>1. \A q \in Procs : /\ run'[q] = run[q] \/ run'[q] = 0
                         /\ Scanning(q)' => run'[q] = run[q]
    BY DEF Same
  <2>2. \A q \in Procs : run'[q] <= runs'
    <3>1. runs \in Nat /\ runs' = runs
      BY MaxRunsAssumption DEF TypeOK
    <3>2. \A q \in Procs : run[q] <= runs
      BY DEF Numbered
    <3> SUFFICES ASSUME NEW q \in Procs
                 PROVE  run'[q] <= runs'
      OBVIOUS
    <3> HIDE DEF ReconInv, Local
    <3>3. CASE run'[q] = run[q]
      BY <3>1, <3>2, <3>3
    <3>4. CASE run'[q] = 0
      BY <3>1, <3>4
    <3>5. QED  BY <2>1, <3>3, <3>4
  <2>3. \A q, r \in Procs :
          q # r /\ Scanning(q)' /\ Scanning(r)' => run'[q] # run'[r]
    BY <1>2, <2>1 DEF Numbered
  <2>4. QED  BY <2>2, <2>3 DEF Numbered
<1>4. Placed'
  BY <1>2 DEF Placed, Same, Scanning
<1>5. OrphansUnclean'
  BY DEF OrphansUnclean
<1>6. CleanSoFar'
  BY OthersKept DEF CleanSoFar
<1>7. QED  BY <1>1, <1>3, <1>4, <1>5, <1>6

LEMMA SkipInv ==
  ASSUME ReconInv, NEW p \in Procs, Skip(p)
  PROVE  ReconInv'
<1> USE DEF ReconInv, Skip, disk
<1>1. Local(p)
  <2>1. /\ pc[p] = "lookup" /\ clean' \subseteq clean
        /\ UNCHANGED <<got, runs, proc, env>> /\ Advance(p)
    OBVIOUS
  <2>2. ~Scanning(p)' => step'[p] = 1
    BY Advanced DEF Scanning
  <2>3. \A q \in Procs : q # p => Same(q)
    BY <2>1, Advanced DEF Same, proc
  <2>4. pc'[p] # "tool"
    BY Advanced
  <2>5. run'[p] = IF Scanning(p)' THEN run[p] ELSE 0
    <3>1. pc'[p] = "lookup" \/ pc'[p] = "idle"
      <4>1. step[p] \in 1..4 /\ (step[p] < 4 => pc'[p] = "lookup")
            /\ (step[p] = 4 => pc'[p] = "idle")
        BY <2>1, Advanced
      <4>2. step[p] < 4 \/ step[p] = 4
        BY <4>1
      <4>3. QED  BY <4>1, <4>2
    <3>2. run'[p] = IF pc'[p] = "idle" THEN 0 ELSE run[p]
      BY <2>1, Advanced
    <3>3. QED  BY <3>1, <3>2 DEF Scanning
  <2>6. QED  BY <2>1, <2>2, <2>3, <2>4, <2>5, Advanced DEF Local, Scanning, TypeOK
<1>2. run[p] \notin clean'
  OBVIOUS
<1>3. MixedOnlyAfterTrouble'
  BY DEF MixedOnlyAfterTrouble
<1>4. QED  BY <1>1, <1>2, <1>3, LocalInv DEF TypeOK, Numbered

LEMMA StartToolInv ==
  ASSUME ReconInv, NEW p \in Procs, StartTool(p)
  PROVE  ReconInv'
<1> USE DEF ReconInv, disk
<1> DEFINE in == Now(p).in
<1>1. step[p] \in 1..4 /\ Now(p) = Pipeline[step[p]]
  BY PipelineFacts DEF TypeOK, Now
<1>2. /\ pc[p] = "lookup" /\ clean' \subseteq clean
      /\ UNCHANGED <<run, step, runs, proc, disk, env>>
  BY DEF StartTool
<1>3. MixedOnlyAfterTrouble'
  BY <1>2 DEF MixedOnlyAfterTrouble
<1>4. CASE /\ ws[p] \in Workspaces
           /\ pc' = [pc EXCEPT ![p] = "tool"]
           /\ \/ got' = [got EXCEPT ![p] = {}]
              \/ /\ in # "target"
                 /\ got' = [got EXCEPT ![p] = file[ws[p]][in].from]
           /\ UNCHANGED clean
  <2>1. in # "target" =>
          \E j \in 1..4 : j < step[p] /\ in = Pipeline[j].out
    BY <1>1, PipelineFacts
  <2>2. in # "target" => in \in Files
    BY <2>1, PipelineFacts
  <2>3. got' \in [Procs -> SUBSET Runs]
    <3>1. in # "target" => file[ws[p]][in] \in Contents
      BY <1>4, <2>2 DEF TypeOK
    <3>2. in # "target" => file[ws[p]][in].from \in SUBSET Runs
      BY <3>1 DEF Contents, Absent
    <3>3. QED  BY <1>4, <3>2 DEF TypeOK
  <2>4. Local(p)
    BY <1>2, <1>4, <2>3 DEF Local, Same, Scanning, TypeOK, proc, env
  <2>5. ASSUME Scanning(p)', run[p] \in clean'
        PROVE  SoFar(p)'
    <3>1. SoFar(p)
      BY <1>2, <1>4, <2>5 DEF CleanSoFar, Scanning
    <3>2. in # "target" => file[ws[p]][in].from = {run[p]}
      BY <2>1, <3>1 DEF SoFar, Done, Own
    <3>3. got'[p] \subseteq {run[p]} /\ pc'[p] = "tool"
      BY <1>4, <3>2 DEF TypeOK
    <3>4. \A i \in 1..4 : i < step[p] => Done(ws[p], i, run[p])'
      BY <1>2, <3>1 DEF SoFar, Done, proc
    <3>5. QED  BY <1>2, <1>4, <3>3, <3>4 DEF SoFar, proc
  <2>6. QED  BY <1>2, <1>3, <2>4, <2>5, LocalInv DEF TypeOK, Numbered
<1>5. CASE /\ pc' = [pc EXCEPT ![p] = "save"]
           /\ clean' = clean \ {run[p]}
           /\ UNCHANGED got
  <2>1. Local(p)
    BY <1>2, <1>5 DEF Local, Same, Scanning, TypeOK, proc, env
  <2>2. QED  BY <1>2, <1>3, <1>5, <2>1, LocalInv DEF TypeOK, Numbered
<1>6. QED  BY <1>4, <1>5 DEF StartTool

\* A tool that p has started writes its file.
LEMMA ToolWrites ==
  ASSUME ReconInv, NEW p \in Procs, pc[p] = "tool",
         Write(ws[p], Now(p).out, run[p], got[p])
  PROVE  /\ file' \in [Workspaces -> [Files -> Contents]]
         /\ \A w \in Workspaces, f \in Files : file'[w][f].by <= runs
         /\ \A v \in Workspaces, g \in Files :
              (v # ws[p] \/ g # Now(p).out) => file'[v][g] = file[v][g]
         /\ file'[ws[p]][Now(p).out] =
              [by |-> run[p], from |-> {run[p]} \cup got[p]]
         /\ run[p] \in clean => got[p] \subseteq {run[p]}
         /\ ws[p] \in Workspaces /\ Now(p).out \in Files
<1> USE DEF ReconInv
<1>1. ws[p] \in Workspaces /\ run[p] \in Runs /\ got[p] \in SUBSET Runs
  BY DEF Placed, Scanning, TypeOK, Runs
<1>2. Now(p).out \in Files
  BY PipelineFacts DEF TypeOK, Now
<1>3. /\ file' \in [Workspaces -> [Files -> Contents]]
      /\ file'[ws[p]][Now(p).out] =
           [by |-> run[p], from |-> {run[p]} \cup got[p]]
      /\ \A v \in Workspaces, g \in Files :
           (v # ws[p] \/ g # Now(p).out) => file'[v][g] = file[v][g]
  BY <1>1, <1>2, WriteFile
<1>4. \A w \in Workspaces, f \in Files : file'[w][f].by <= runs
  BY <1>3 DEF Numbered
<1>5. run[p] \in clean => got[p] \subseteq {run[p]}
  BY DEF CleanSoFar, SoFar, Scanning
<1>6. QED  BY <1>1, <1>2, <1>3, <1>4, <1>5

\* A result that is written keeps the others unmixed, and is unmixed when the
\* scan is clean.
LEMMA WriteUnmixed ==
  ASSUME MixedOnlyAfterTrouble, clean' \subseteq clean,
         NEW w \in Workspaces, NEW f \in Files, NEW r, NEW from,
         r \in clean' => from \subseteq {r},
         file'[w][f] = [by |-> r, from |-> {r} \cup from],
         \A v \in Workspaces, g \in Files :
           (v # w \/ g # f) => file'[v][g] = file[v][g]
  PROVE  MixedOnlyAfterTrouble'
<1> SUFFICES ASSUME NEW v \in Workspaces, NEW g \in Files,
                    file'[v][g].by \in clean'
             PROVE  file'[v][g].from = {file'[v][g].by}
  BY DEF MixedOnlyAfterTrouble
<1>1. CASE v # w \/ g # f
  BY <1>1 DEF MixedOnlyAfterTrouble
<1>2. CASE v = w /\ g = f
  <2>1. r \in clean'
    BY <1>2
  <2>2. {r} \cup from = {r}
    BY <2>1
  <2>3. QED  BY <1>2, <2>2
<1>3. QED  BY <1>1, <1>2

\* Whatever the tool of p has written, no other scan in its workspace is
\* clean any more.
LEMMA OthersUndisturbed ==
  ASSUME ReconInv, NEW p \in Procs, Scanning(p),
         clean' \subseteq clean \ Disturbed(ws[p], run[p])
  PROVE  \A q \in Procs :
           (q # p /\ Scanning(q) /\ run[q] \in clean') => ws[q] # ws[p]
BY DEF ReconInv, Numbered, Disturbed

\* The tool of p ends, and what it has written is whole or the scan is not
\* clean.
LEMMA ToolEndsInv ==
  ASSUME ReconInv, NEW p \in Procs, pc[p] = "tool",
         Write(ws[p], Now(p).out, run[p], got[p]),
         clean' \subseteq clean \ Disturbed(ws[p], run[p]),
         pc' = [pc EXCEPT ![p] = "save"], got' = [got EXCEPT ![p] = {}],
         UNCHANGED <<run, step, runs, raw, proc, env>>
  PROVE  ReconInv'
<1> USE DEF ReconInv
<1> DEFINE w == ws[p]
           out == Now(p).out
<1>1. /\ file' \in [Workspaces -> [Files -> Contents]]
      /\ \A v \in Workspaces, f \in Files : file'[v][f].by <= runs
      /\ \A v \in Workspaces, g \in Files :
           (v # w \/ g # out) => file'[v][g] = file[v][g]
      /\ file'[w][out] = [by |-> run[p], from |-> {run[p]} \cup got[p]]
      /\ run[p] \in clean => got[p] \subseteq {run[p]}
      /\ w \in Workspaces /\ out \in Files
  BY ToolWrites
<1>2. Local(p)
  <2>1. pc'[p] = "save" /\ \A q \in Procs : q # p => Same(q)
    BY DEF TypeOK, Same, proc
  <2>2. QED  BY <2>1 DEF Local, Scanning, TypeOK
<1>3. MixedOnlyAfterTrouble'
  <2>1. clean' \subseteq clean /\ MixedOnlyAfterTrouble
    OBVIOUS
  <2>2. run[p] \in clean' => got[p] \subseteq {run[p]}
    BY <1>1
  <2> HIDE DEF ReconInv
  <2>3. QED  BY <1>1, <2>1, <2>2, WriteUnmixed
<1>4. \A q \in Procs :
        (q # p /\ Scanning(q) /\ run[q] \in clean' /\ ws[q] \in Workspaces)
          => file'[ws[q]] = file[ws[q]] /\ raw'[ws[q]] = raw[ws[q]]
  <2> SUFFICES ASSUME NEW q \in Procs, q # p, Scanning(q),
                      run[q] \in clean', ws[q] \in Workspaces
               PROVE  file'[ws[q]] = file[ws[q]] /\ raw'[ws[q]] = raw[ws[q]]
    OBVIOUS
  <2>1. ws[q] # w
    BY OthersUndisturbed DEF Scanning
  <2>2. \A g \in Files : file'[ws[q]][g] = file[ws[q]][g]
    BY <1>1, <2>1
  <2>3. file[ws[q]] \in [Files -> Contents] /\ file'[ws[q]] \in [Files -> Contents]
    BY <1>1 DEF TypeOK
  <2>4. QED  BY <2>2, <2>3
<1>5. ASSUME run[p] \in clean'
      PROVE  SoFar(p)'
  <2>1. SoFar(p) /\ run[p] \in clean
    BY <1>5 DEF CleanSoFar, Scanning
  <2>2. step[p] \in 1..4 /\ out = Pipeline[step[p]].out
    BY PipelineFacts DEF TypeOK, Now
  <2>3. \A i \in 1..4 : i < step[p] =>
          Pipeline[i].out \in Files /\ Pipeline[i].out # out
    BY <2>2, PipelineFacts
  <2>4. \A i \in 1..4 : i < step[p] => Done(ws[p], i, run[p])'
    BY <1>1, <2>1, <2>3 DEF SoFar, Done, proc
  <2>5. file'[w][out] = Own(run[p])
    <3>1. {run[p]} \cup got[p] = {run[p]}
      BY <1>1, <2>1
    <3>2. QED  BY <1>1, <3>1 DEF Own
  <2>6. pc'[p] = "save"
    BY DEF TypeOK
  <2>7. Now(p)' = Now(p)
    BY DEF Now
  <2>8. QED  BY <1>1, <2>4, <2>5, <2>6, <2>7 DEF SoFar, proc, Own
<1>6. raw' \in [Workspaces -> [Tools -> 0..MaxRuns]]
  BY DEF TypeOK
<1>7. QED  BY <1>1, <1>2, <1>3, <1>4, <1>5, <1>6, LocalInv

LEMMA ToolSucceedsInv ==
  ASSUME ReconInv, NEW p \in Procs, ToolSucceeds(p)
  PROVE  ReconInv'
BY ToolEndsInv DEF ToolSucceeds

LEMMA ToolFailsInv ==
  ASSUME ReconInv, NEW p \in Procs, ToolFails(p)
  PROVE  ReconInv'
<1>1. CASE Write(ws[p], Now(p).out, run[p], got[p])
           /\ clean' = (clean \ Disturbed(ws[p], run[p])) \ {run[p]}
  BY <1>1, ToolEndsInv DEF ToolFails
<1>2. CASE UNCHANGED file /\ clean' = clean \ {run[p]}
  <2> USE DEF ReconInv, ToolFails
  <2>1. pc'[p] = "save" /\ \A q \in Procs : q # p => Same(q)
    BY DEF TypeOK, Same, proc
  <2>2. Local(p)
    BY <1>2, <2>1 DEF Local, Scanning, TypeOK
  <2>3. MixedOnlyAfterTrouble'
    BY <1>2 DEF MixedOnlyAfterTrouble
  <2>4. QED  BY <1>2, <2>2, <2>3, LocalInv DEF TypeOK, Numbered
<1>3. QED  BY <1>1, <1>2 DEF ToolFails

\* pclose has returned.
LEMMA SaveInv ==
  ASSUME ReconInv, NEW p \in Procs, Save(p)
  PROVE  ReconInv'
<1> USE DEF ReconInv
<1>1. /\ pc[p] = "save"
      /\ UNCHANGED <<got, runs, file, proc, env>>
      /\ Advance(p)
  BY DEF Save
<1>2. step[p] \in 1..4 /\ Now(p) = Pipeline[step[p]] /\ Now(p).tool \in Tools
  BY PipelineFacts DEF TypeOK, Now
<1>3. /\ clean' \subseteq clean
      /\ raw' \in [Workspaces -> [Tools -> 0..MaxRuns]]
      /\ \A q \in Procs :
           (q # p /\ Scanning(q) /\ run[q] \in clean' /\ ws[q] \in Workspaces)
             => raw'[ws[q]] = raw[ws[q]]
  <2>1. CASE ws[p] \in Workspaces
    <3>1. /\ raw' = [raw EXCEPT ![ws[p]][Now(p).tool] = run[p]]
          /\ clean' = clean \ Disturbed(ws[p], run[p])
      BY <2>1 DEF Save
    <3>2. raw' \in [Workspaces -> [Tools -> 0..MaxRuns]]
      BY <2>1, <3>1, <1>2 DEF TypeOK
    <3>3. \A q \in Procs :
            (q # p /\ Scanning(q) /\ run[q] \in clean') => ws[q] # ws[p]
      BY <1>1, <3>1, OthersUndisturbed DEF Scanning
    <3>4. \A v \in Workspaces : v # ws[p] => raw'[v] = raw[v]
      BY <3>1, <2>1 DEF TypeOK
    <3>5. QED  BY <3>1, <3>2, <3>3, <3>4
  <2>2. CASE ws[p] \notin Workspaces
    BY <2>2 DEF Save, TypeOK
  <2>3. QED  BY <2>1, <2>2
<1>4. Local(p)
  <2>1. \A q \in Procs : q # p => Same(q)
    BY <1>1, Advanced DEF Same, proc
  <2>2. ~Scanning(p)' => step'[p] = 1
    BY <1>1, <1>2, Advanced DEF Scanning
  <2>3. pc'[p] # "tool"
    BY <1>1, <1>2, Advanced
  <2>4. run'[p] = IF Scanning(p)' THEN run[p] ELSE 0
    BY <1>1, <1>2, Advanced DEF Scanning
  <2>5. QED
    BY <1>1, <1>3, <2>1, <2>2, <2>3, <2>4, Advanced DEF Local, Scanning, TypeOK
<1>5. MixedOnlyAfterTrouble'
  BY <1>1, <1>3 DEF MixedOnlyAfterTrouble
<1>6. ASSUME Scanning(p)', run[p] \in clean'
      PROVE  SoFar(p)'
  <2>1. SoFar(p) /\ ws[p] \in Workspaces
    BY <1>1, <1>3, <1>6 DEF CleanSoFar, SoFar, Scanning
  <2>2. step[p] < 4 /\ step'[p] = step[p] + 1 /\ pc'[p] = "lookup"
    BY <1>1, <1>2, <1>6, Advanced DEF Scanning
  <2>3. raw' = [raw EXCEPT ![ws[p]][Now(p).tool] = run[p]]
    BY <2>1 DEF Save
  <2>4. \A t \in Tools :
          raw'[ws[p]][t] = IF t = Now(p).tool THEN run[p] ELSE raw[ws[p]][t]
    BY <2>1, <2>3 DEF TypeOK
  <2>5. /\ file'[ws[p]][Pipeline[step[p]].out] = Own(run[p])
        /\ raw'[ws[p]][Pipeline[step[p]].tool] = run[p]
    BY <1>1, <1>2, <2>1, <2>4 DEF SoFar
  <2>6. \A i \in 1..4 : i < step[p] =>
          /\ file'[ws[p]][Pipeline[i].out] = Own(run[p])
          /\ raw'[ws[p]][Pipeline[i].tool] = run[p]
    <3>1. \A i \in 1..4 : i < step[p] =>
            /\ Pipeline[i].tool \in Tools
            /\ Pipeline[i].tool # Now(p).tool
      BY <1>2, PipelineFacts
    <3>2. \A i \in 1..4 : i < step[p] => Done(ws[p], i, run[p])
      BY <2>1 DEF SoFar
    <3>3. QED  BY <1>1, <2>4, <3>1, <3>2 DEF Done
  <2>7. \A i \in 1..4 : i < step'[p] => i < step[p] \/ i = step[p]
    BY <1>2, <2>2
  <2>8. \A i \in 1..4 : i < step'[p] =>
          /\ file'[ws[p]][Pipeline[i].out] = Own(run[p])
          /\ raw'[ws[p]][Pipeline[i].tool] = run[p]
    BY <2>5, <2>6, <2>7
  <2>9. ws' = ws /\ run'[p] = run[p]
    BY <1>1, <2>2, Advanced DEF proc
  <2>10. \A i \in 1..4 : i < step'[p] => Done(ws[p], i, run[p])'
    BY <2>8, <2>9 DEF Done, Own
  <2>11. QED  BY <2>1, <2>2, <2>9, <2>10 DEF SoFar
<1>7. QED  BY <1>1, <1>3, <1>4, <1>5, <1>6, LocalInv DEF TypeOK, Numbered

\* The output is not saved, or not the whole of it.
LEMMA SaveFailsInv ==
  ASSUME ReconInv, NEW p \in Procs, SaveFails(p)
  PROVE  ReconInv'
<1> USE DEF ReconInv
<1>1. /\ pc[p] = "save" /\ ws[p] \in Workspaces
      /\ UNCHANGED <<got, runs, file, proc, env>>
      /\ Advance(p)
  BY DEF SaveFails
<1>2. step[p] \in 1..4 /\ Now(p).tool \in Tools
  BY PipelineFacts DEF TypeOK, Now
<1>3. /\ clean' \subseteq clean /\ run[p] \notin clean'
      /\ raw' \in [Workspaces -> [Tools -> 0..MaxRuns]]
      /\ \A q \in Procs :
           (q # p /\ Scanning(q) /\ run[q] \in clean' /\ ws[q] \in Workspaces)
             => raw'[ws[q]] = raw[ws[q]]
  <2>1. CASE UNCHANGED raw /\ clean' = clean \ {run[p]}
    BY <2>1 DEF TypeOK
  <2>2. CASE /\ raw' = [raw EXCEPT ![ws[p]][Now(p).tool] = 0]
             /\ clean' = (clean \ Disturbed(ws[p], run[p])) \ {run[p]}
    <3>1. raw' \in [Workspaces -> [Tools -> 0..MaxRuns]]
      BY <2>2, <1>1, <1>2 DEF TypeOK
    <3>2. \A q \in Procs :
            (q # p /\ Scanning(q) /\ run[q] \in clean') => ws[q] # ws[p]
      BY <1>1, <2>2, OthersUndisturbed DEF Scanning
    <3>3. \A v \in Workspaces : v # ws[p] => raw'[v] = raw[v]
      BY <2>2 DEF TypeOK
    <3>4. QED  BY <2>2, <3>1, <3>2, <3>3
  <2>3. QED  BY <2>1, <2>2 DEF SaveFails
<1>4. Local(p)
  <2>1. \A q \in Procs : q # p => Same(q)
    BY <1>1, Advanced DEF Same, proc
  <2>2. ~Scanning(p)' => step'[p] = 1
    BY <1>1, <1>2, Advanced DEF Scanning
  <2>3. pc'[p] # "tool"
    BY <1>1, <1>2, Advanced
  <2>4. run'[p] = IF Scanning(p)' THEN run[p] ELSE 0
    BY <1>1, <1>2, Advanced DEF Scanning
  <2>5. QED
    BY <1>1, <1>3, <2>1, <2>2, <2>3, <2>4, Advanced DEF Local, Scanning, TypeOK
<1>5. MixedOnlyAfterTrouble'
  BY <1>1, <1>3 DEF MixedOnlyAfterTrouble
<1>6. QED  BY <1>1, <1>3, <1>4, <1>5, LocalInv DEF TypeOK, Numbered

-----------------------------------------------------------------------------
(* The world outside                                                       *)

LEMMA DieInv ==
  ASSUME ReconInv, NEW p \in Procs, Die(p)
  PROVE  ReconInv'
<1> USE DEF ReconInv, Die, disk
<1>1. /\ clean' \subseteq clean /\ UNCHANGED <<runs, file, raw, onPath, moves>>
      /\ pc'[p] = "gone" /\ run'[p] = 0 /\ step'[p] = 1
      /\ \A q \in Procs : q # p => Same(q)
  BY DEF TypeOK, Same
<1>2. orphans' \subseteq Orphans /\ OrphansUnclean'
  <2>1. CASE UNCHANGED orphans
    BY <1>1, <2>1 DEF OrphansUnclean, TypeOK
  <2>2. CASE pc[p] = "tool" /\ orphans' = orphans \cup
             {[ws |-> ws[p], out |-> Now(p).out, run |-> run[p], got |-> got[p]]}
    <3>1. ws[p] \in Workspaces /\ run[p] \in Runs /\ run[p] <= runs
      BY <2>2 DEF Placed, Scanning, TypeOK, Runs, Numbered
    <3>2. Now(p).out \in Files
      BY PipelineFacts DEF TypeOK, Now
    <3>3. run[p] \notin clean'
      BY <2>2 DEF Scanning
    <3>4. orphans' \subseteq Orphans
      BY <2>2, <3>1, <3>2 DEF TypeOK, Orphans
    <3>5. QED  BY <1>1, <2>2, <3>1, <3>3, <3>4 DEF OrphansUnclean
  <2>3. QED  BY <2>1, <2>2
<1>3. TypeOK'
  <2>1. 1 \in 1..Len(Pipeline)
    BY PipelineFacts
  <2>2. QED  BY <1>1, <1>2, <2>1 DEF TypeOK
<1>4. \A q \in Procs : Scanning(q)' => Scanning(q) /\ q # p
  BY <1>1 DEF Same, Scanning
<1>5. Numbered'
  <2>1. \A q \in Procs : run'[q] <= runs
    BY <1>1 DEF Numbered, Same, TypeOK
  <2>2. QED  BY <1>1, <1>4, <2>1 DEF Numbered, Same
<1>6. Placed'
  BY <1>1, <1>4 DEF Placed, Same, Scanning
<1>7. CleanSoFar'
  BY <1>1, <1>4, OthersKept DEF CleanSoFar
<1>8. MixedOnlyAfterTrouble'
  BY <1>1 DEF MixedOnlyAfterTrouble
<1>9. QED  BY <1>2, <1>3, <1>5, <1>6, <1>7, <1>8

LEMMA OrphanEndsInv ==
  ASSUME ReconInv, NEW o \in orphans, OrphanEnds(o)
  PROVE  ReconInv'
<1> USE DEF ReconInv
<1>1. /\ o \in Orphans /\ o.run \notin clean /\ o.run <= runs
      /\ orphans' \subseteq orphans
      /\ UNCHANGED <<pc, run, step, got, runs, raw, proc, onPath, moves>>
  BY DEF OrphanEnds, TypeOK, OrphansUnclean
<1>2. CASE UNCHANGED <<file, clean>>
  <2>1. TypeOK' /\ Numbered' /\ Placed'
    BY <1>1, <1>2 DEF TypeOK, Numbered, Placed, Scanning, proc
  <2>2. OrphansUnclean' /\ MixedOnlyAfterTrouble'
    BY <1>1, <1>2 DEF OrphansUnclean, MixedOnlyAfterTrouble
  <2>3. CleanSoFar'
    BY <1>1, <1>2 DEF CleanSoFar, SoFar, Scanning, Now, Done, proc
  <2>4. QED  BY <2>1, <2>2, <2>3
<1>3. CASE /\ Write(o.ws, o.out, o.run, o.got)
           /\ clean' = clean \ Disturbed(o.ws, o.run)
  <2>1. /\ o.ws \in Workspaces /\ o.out \in Files /\ o.run \in Runs
        /\ o.got \in SUBSET Runs
    BY <1>1 DEF Orphans
  <2>2. /\ file' \in [Workspaces -> [Files -> Contents]]
        /\ file'[o.ws][o.out] = [by |-> o.run, from |-> {o.run} \cup o.got]
        /\ \A v \in Workspaces, g \in Files :
             (v # o.ws \/ g # o.out) => file'[v][g] = file[v][g]
    BY <1>3, <2>1, WriteFile
  <2>3. TypeOK'
    BY <1>1, <1>3, <2>2 DEF TypeOK, proc
  <2>4. Numbered'
    <3>1. \A w \in Workspaces, f \in Files : file'[w][f].by <= runs
      BY <1>1, <2>2 DEF Numbered
    <3>2. QED  BY <1>1, <1>3, <3>1 DEF Numbered, Scanning
  <2>5. Placed' /\ OrphansUnclean'
    BY <1>1, <1>3 DEF Placed, OrphansUnclean, Scanning, proc
  <2>6. MixedOnlyAfterTrouble'
    <3>1. clean' \subseteq clean /\ o.run \notin clean'
      BY <1>1, <1>3
    <3>2. MixedOnlyAfterTrouble
      OBVIOUS
    <3>3. PICK w, f, r, from :
            /\ w \in Workspaces /\ f \in Files
            /\ w = o.ws /\ f = o.out /\ r = o.run /\ from = o.got
      BY <2>1
    <3>4. /\ file'[w][f] = [by |-> r, from |-> {r} \cup from]
          /\ \A v \in Workspaces, g \in Files :
               (v # w \/ g # f) => file'[v][g] = file[v][g]
      BY <2>2, <3>3
    <3>5. r \in clean' => from \subseteq {r}
      BY <3>1, <3>3
    <3> HIDE DEF ReconInv
    <3>6. QED  BY <3>1, <3>2, <3>3, <3>4, <3>5, WriteUnmixed
  <2>7. CleanSoFar'
    <3> SUFFICES ASSUME NEW q \in Procs, Scanning(q)', run'[q] \in clean'
                 PROVE  SoFar(q)'
      BY DEF CleanSoFar
    <3>1. Same(q) /\ Scanning(q) /\ run[q] \in clean /\ run[q] \in clean'
      BY <1>1, <1>3 DEF Same, Scanning, proc
    <3>2. ws[q] # o.ws
      BY <1>1, <1>3, <3>1 DEF Disturbed
    <3>3. ws[q] \in Workspaces =>
            file'[ws[q]] = file[ws[q]] /\ raw'[ws[q]] = raw[ws[q]]
      <4>1. SUFFICES ASSUME ws[q] \in Workspaces
                     PROVE  file'[ws[q]] = file[ws[q]]
        BY <1>1
      <4>2. \A g \in Files : file'[ws[q]][g] = file[ws[q]][g]
        BY <2>2, <3>2, <4>1
      <4>3. /\ file[ws[q]] \in [Files -> Contents]
            /\ file'[ws[q]] \in [Files -> Contents]
        BY <2>2, <4>1 DEF TypeOK
      <4>4. QED  BY <4>2, <4>3
    <3>4. QED  BY <3>1, <3>3, OtherKept
  <2>8. QED  BY <2>3, <2>4, <2>5, <2>6, <2>7
<1>4. QED  BY <1>2, <1>3 DEF OrphanEnds

LEMMA MoveInv ==
  ASSUME ReconInv, NEW t \in Movable, Move(t)
  PROVE  ReconInv'
<1> USE DEF ReconInv, Move, disk, proc
<1>1. TypeOK'
  BY DEF TypeOK
<1>2. Numbered' /\ Placed' /\ OrphansUnclean' /\ MixedOnlyAfterTrouble'
  BY DEF Numbered, Placed, OrphansUnclean, MixedOnlyAfterTrouble, Scanning
<1>3. CleanSoFar'
  BY DEF CleanSoFar, SoFar, Scanning, Now, Done
<1>4. QED  BY <1>1, <1>2, <1>3

-----------------------------------------------------------------------------
(* The theorems                                                            *)

LEMMA NextInv == ReconInv /\ [Next]_vars => ReconInv'
<1> SUFFICES ASSUME ReconInv, [Next]_vars
             PROVE  ReconInv'
  OBVIOUS
<1>1. CASE UNCHANGED vars
  <2> USE <1>1 DEF ReconInv, vars, proc, disk, env
  <2>1. TypeOK'
    BY DEF TypeOK
  <2>2. Numbered' /\ Placed' /\ OrphansUnclean' /\ MixedOnlyAfterTrouble'
    BY DEF Numbered, Placed, OrphansUnclean, MixedOnlyAfterTrouble, Scanning
  <2>3. CleanSoFar'
    BY DEF CleanSoFar, SoFar, Scanning, Now, Done
  <2>4. QED  BY <2>1, <2>2, <2>3
<1>2. ASSUME NEW p \in Procs, Step(p)
      PROVE  ReconInv'
  BY <1>2, SkipInv, StartToolInv, ToolSucceedsInv, ToolFailsInv, SaveInv,
     SaveFailsInv DEF Step
<1>3. ASSUME NEW p \in Procs,
             Launch(p) \/ (\E w \in Workspaces \cup {"none"} : Select(p, w))
             \/ Scan(p) \/ Die(p)
      PROVE  ReconInv'
  BY <1>3, LaunchInv, SelectInv, ScanInv, DieInv
<1>4. ASSUME NEW o \in orphans, OrphanEnds(o)
      PROVE  ReconInv'
  BY <1>4, OrphanEndsInv
<1>5. ASSUME NEW t \in Movable, Move(t)
      PROVE  ReconInv'
  BY <1>5, MoveInv
<1>6. QED  BY <1>1, <1>2, <1>3, <1>4, <1>5 DEF Next

\* A scan that is still clean has so far only its own results, whatever the
\* other processes, the tools they leave behind and the installed tools do
\* (orchestrator.c:57-162).
THEOREM ReconInvariance == Spec => []ReconInv
<1>1. QED  BY InitInv, NextInv, PTL DEF Spec

\* The variables keep their types; a scan stays within its four steps
\* (orchestrator.c:57-66).
THEOREM ReconTypes == Spec => []TypeOK
<1>1. ReconInv => TypeOK
  BY DEF ReconInv
<1>2. QED  BY <1>1, ReconInvariance, PTL

\* Results that draw on another scan are from a scan that had a failed or a
\* missing step, or whose workspace others wrote to (orchestrator.c:125-154).
THEOREM MixturesMeanTrouble == Spec => []MixedOnlyAfterTrouble
<1>1. ReconInv => MixedOnlyAfterTrouble
  BY DEF ReconInv
<1>2. QED  BY <1>1, ReconInvariance, PTL

LEMMA LastStep ==
  ASSUME ReconInv, [Next]_vars, NEW p \in Procs,
         pc[p] = "save", pc'[p] = "idle"
  PROVE  (Save(p) \/ SaveFails(p)) /\ step[p] = 4
<1> USE DEF ReconInv
<1>1. ~UNCHANGED vars
  BY DEF vars
<1>2. ~\E o \in orphans : OrphanEnds(o)
  BY DEF OrphanEnds
<1>3. ~\E t \in Movable : Move(t)
  BY DEF Move
<1>4. ASSUME NEW q \in Procs,
             Launch(q) \/ (\E w \in Workspaces \cup {"none"} : Select(q, w))
             \/ Scan(q) \/ Die(q)
      PROVE  FALSE
  BY <1>4 DEF Launch, Select, Scan, Die, TypeOK
<1>5. ASSUME NEW q \in Procs, q # p, Step(q)
      PROVE  FALSE
  <2>1. pc'[p] = pc[p]
    BY <1>5, Advanced
       DEF Step, Skip, StartTool, ToolSucceeds, ToolFails, Save, SaveFails,
           TypeOK
  <2>2. QED  BY <2>1
<1>6. Step(p)
  BY <1>1, <1>2, <1>3, <1>4, <1>5 DEF Next
<1>7. Save(p) \/ SaveFails(p)
  BY <1>6 DEF Step, Skip, StartTool, ToolSucceeds, ToolFails
<1>8. step[p] = 4
  <2>1. step[p] \in 1..4 /\ (step[p] < 4 => pc'[p] = "lookup")
    BY <1>7, Advanced DEF Save, SaveFails
  <2>2. QED  BY <2>1
<1>9. QED  BY <1>7, <1>8

\* A scan that ends with every tool and every saving of an output done and
\* nobody else's write leaves all four files and all four saved outputs, all
\* of them its own (orchestrator.c:78-98, 125-162).
THEOREM CleanScansAreComplete == Spec => CleanScanIsComplete
<1>1. ASSUME ReconInv, [Next]_vars
      PROVE  [\A p \in Procs :
                (pc[p] = "save" /\ pc'[p] = "idle" /\ run[p] \in clean') =>
                  /\ \A f \in Files :
                       file'[ws[p]][f] = [by |-> run[p], from |-> {run[p]}]
                  /\ \A t \in Tools : raw'[ws[p]][t] = run[p]]_vars
  <2> SUFFICES ASSUME NEW p \in Procs,
                      pc[p] = "save", pc'[p] = "idle", run[p] \in clean'
               PROVE  /\ \A f \in Files : file'[ws[p]][f] = Own(run[p])
                      /\ \A t \in Tools : raw'[ws[p]][t] = run[p]
    BY DEF Own
  <2>1. Save(p) /\ step[p] = 4
    BY <1>1, LastStep DEF SaveFails
  <2>2. SoFar(p)
    BY <1>1, <2>1 DEF ReconInv, CleanSoFar, Scanning, Save
  <2>3. Now(p) = Pipeline[4] /\ ws[p] \in Workspaces /\ file' = file
    BY <2>1, <2>2 DEF Now, SoFar, Save
  <2>4. \A i \in 1..4 : file'[ws[p]][Pipeline[i].out] = Own(run[p])
    BY <2>1, <2>2, <2>3 DEF SoFar, Done
  <2>5. \A t \in Tools :
          raw'[ws[p]][t] = IF t = Now(p).tool THEN run[p] ELSE raw[ws[p]][t]
    BY <1>1, <2>1, <2>3 DEF Save, ReconInv, TypeOK
  <2>6. \A i \in 1..4 : raw'[ws[p]][Pipeline[i].tool] = run[p]
    <3>1. \A i \in 1..4 : Pipeline[i].tool \in Tools
      BY PipelineFacts
    <3>2. \A i \in 1..4 : i < 4 => raw[ws[p]][Pipeline[i].tool] = run[p]
      BY <2>1, <2>2 DEF SoFar, Done
    <3>3. QED  BY <2>3, <2>5, <3>1, <3>2
  <2>7. QED  BY <2>4, <2>6, PipelineFacts
<1>2. QED  BY <1>1, ReconInvariance, PTL DEF Spec, CleanScanIsComplete
=============================================================================
