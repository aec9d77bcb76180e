----------------------------- MODULE PartsProofs -----------------------------
(***************************************************************************)
(* The parts that MCParts checks side by side, and Workflow, for every     *)
(* value of their constants.                                               *)
(*                                                                         *)
(* Notes, for any processes, texts and locks: what was added is there, and *)
(* a search gives what is there; together they implement Notebook.         *)
(*                                                                         *)
(* A workflow's results, the words of a command, the order of scores.      *)
(*                                                                         *)
(* Configuration, for any keys, values, files and first size: entries fit  *)
(* in the array, a save that lost nothing gives back what it was made from *)
(* as far as its format lets it, and the array implements Settings.        *)
(* Get(es, k) is a set, so nothing there needs that a first entry exists:  *)
(* that several cannot be first is enough.                                 *)
(*                                                                         *)
(* Last the types of all parts together.                                   *)
(***************************************************************************)
EXTENDS MCParts, Workflow, NumberTheorems

-----------------------------------------------------------------------------
(* The notes                                                               *)

\* Who writes holds the only lock.
Exclusive ==
  \A p, q \in Procs :
    p # q /\ stage[p] = "writing" =>
      stage[q] \notin {"shared", "writing", "reading"}

\* What a process is at fits its stage.
JobFits ==
  \A p \in Procs :
    /\ stage[p] \in {"shared", "writing"} =>
         \/ job[p].op = "create"
         \/ job[p].op = "add" /\ job[p].word \in Texts /\ table
    /\ stage[p] = "written" =>
         /\ job[p].word \in Texts
         /\ job[p].at \in DOMAIN notes /\ notes[job[p].at] = job[p].word

\* A reader has found the rows that it selects among those it has passed.
ReadSoFar ==
  \A p \in Procs :
    stage[p] = "reading" =>
      /\ job[p].at <= Len(notes)
      /\ job[p].found = {i \in 1..job[p].at : Selects(job[p], i)}

\* When one shell's initialisation succeeded, the table is there for every
\* shell, those whose own initialisation failed included; so a note can be
\* in it (knowledge.c:38-42, shell.c:327).
ReadyHasTable ==
  (notes # <<>> \/ \E p \in Procs : handle[p] = "ready") => table

KnowledgeInv ==
  /\ KnowledgeTypeOK
  /\ Exclusive
  /\ JobFits
  /\ ReadSoFar
  /\ AddedIsKept
  /\ ReadyHasTable

LEMMA KnowledgeInitInv == KnowledgeInit => KnowledgeInv
<1> SUFFICES ASSUME KnowledgeInit PROVE KnowledgeInv
  OBVIOUS
<1> USE DEF KnowledgeInit
<1>1. <<>> \in Seq(Texts) /\ Len(<<>>) = 0
  OBVIOUS
<1>2. NoJob \in Jobs
  BY DEF NoJob, Job, Jobs
<1>3. KnowledgeTypeOK
  BY <1>1, <1>2 DEF KnowledgeTypeOK
<1>4. Exclusive /\ JobFits /\ ReadSoFar /\ AddedIsKept /\ ReadyHasTable
  BY DEF Exclusive, JobFits, ReadSoFar, AddedIsKept, ReadyHasTable
<1>5. QED  BY <1>3, <1>4 DEF KnowledgeInv

-----------------------------------------------------------------------------
(* The notes: the steps by what they change                                *)

\* A statement begins or moves on to a lock; its process alone changes.
LEMMA BeginsInv ==
  ASSUME KnowledgeInv, NEW p \in Procs,
         NEW how \in {"shared", "writing", "reading"}, NEW what,
         Begins(p, how, what),
         what \in Jobs,
         ~Blocked(p), how = "writing" => Alone(p),
         how # "reading" =>
           \/ what.op = "create"
           \/ what.op = "add" /\ what.word \in Texts /\ table,
         how = "reading" => what.at = 0 /\ what.found = {}
  PROVE  KnowledgeInv'
<1> USE DEF KnowledgeInv
<1>1. KnowledgeTypeOK'
  BY DEF Begins, KnowledgeTypeOK
<1>2. Exclusive'
  BY DEF Begins, KnowledgeTypeOK, Exclusive, Blocked, Alone
<1>3. JobFits'
  BY DEF Begins, KnowledgeTypeOK, JobFits
<1>4. ReadSoFar'
  <2> SUFFICES ASSUME NEW q \in Procs, stage'[q] = "reading"
               PROVE  /\ job'[q].at <= Len(notes')
                      /\ job'[q].found =
                           {i \in 1..job'[q].at : Selects(job[q], i)'}
    BY DEF ReadSoFar
  <2>1. CASE q = p
    <3>1. job'[q] = what /\ how = "reading" /\ notes' = notes
      BY <2>1 DEF Begins, KnowledgeTypeOK
    <3>2. Len(notes) \in Nat /\ 1..0 = {}
      BY DEF KnowledgeTypeOK
    <3>3. QED  BY <3>1, <3>2
  <2>2. CASE q # p
    BY <2>2 DEF Begins, KnowledgeTypeOK, ReadSoFar, Selects
  <2>3. QED  BY <2>1, <2>2
<1>5. AddedIsKept' /\ ReadyHasTable'
  BY DEF Begins, AddedIsKept, ReadyHasTable
<1>6. QED  BY <1>1, <1>2, <1>3, <1>4, <1>5

\* A process gives up its lock and changes nothing in the file; it may have
\* learnt that the table is there.
LEMMA LeavesInv ==
  ASSUME KnowledgeInv, NEW p \in Procs, KnowledgeTypeOK',
         notes' = notes, table' = table, told' = told,
         \A q \in Procs \ {p} :
           stage'[q] = stage[q] /\ job'[q] = job[q] /\ handle'[q] = handle[q],
         stage'[p] \in {"idle", "down"},
         handle'[p] = "ready" => handle[p] = "ready" \/ table
  PROVE  KnowledgeInv'
<1> USE DEF KnowledgeInv
<1>1. Exclusive'
  BY DEF Exclusive
<1>2. JobFits'
  BY DEF JobFits
<1>3. ReadSoFar'
  BY DEF ReadSoFar, Selects
<1>4. AddedIsKept' /\ ReadyHasTable'
  BY DEF AddedIsKept, ReadyHasTable
<1>5. QED  BY <1>1, <1>2, <1>3, <1>4

LEMMA JobType ==
  ASSUME NEW op \in {"none", "create", "add", "search", "list"},
         NEW word \in Texts \cup Queries \cup {"none"}
  PROVE  Job(op, word) \in Jobs
BY DEF Job, Jobs

LEMMA NoJobType == NoJob \in Jobs
BY JobType DEF NoJob

\* The ways for a command to be over without a trace in the file.
LEMMA EndsInv ==
  ASSUME KnowledgeInv, NEW p \in Procs,
         NEW res \in {"ok", "error", "cut"}, NEW out \in SUBSET Nat,
         Ends(p, res, out), UNCHANGED <<notes, table, handle, told>>
  PROVE  KnowledgeInv'
<1>1. KnowledgeTypeOK'
  BY NoJobType DEF KnowledgeInv, KnowledgeTypeOK, Ends
<1>2. /\ notes' = notes /\ table' = table /\ told' = told
      /\ \A q \in Procs \ {p} :
           stage'[q] = stage[q] /\ job'[q] = job[q] /\ handle'[q] = handle[q]
      /\ stage'[p] = "idle" /\ handle'[p] = handle[p]
  BY DEF Ends, KnowledgeInv, KnowledgeTypeOK
<1>3. QED  BY <1>1, <1>2, LeavesInv

LEMMA OpenedInv ==
  ASSUME KnowledgeInv, NEW p \in Procs, NEW how \in {"sick", "bare", "ready"},
         Opened(p, how), UNCHANGED <<notes, table, told>>,
         how = "ready" => table
  PROVE  KnowledgeInv'
<1>1. KnowledgeTypeOK'
  BY NoJobType DEF KnowledgeInv, KnowledgeTypeOK, Opened, Ends
<1>2. /\ notes' = notes /\ table' = table /\ told' = told
      /\ \A q \in Procs \ {p} :
           stage'[q] = stage[q] /\ job'[q] = job[q] /\ handle'[q] = handle[q]
      /\ stage'[p] = "idle" /\ handle'[p] = how
  BY DEF Opened, Ends, KnowledgeInv, KnowledgeTypeOK
<1>3. QED  BY <1>1, <1>2, LeavesInv

LEMMA RefusedInv ==
  ASSUME KnowledgeInv, NEW p \in Procs, Refused(p)
  PROVE  KnowledgeInv'
<1>1. CASE job[p].op = "create"
  BY <1>1, OpenedInv DEF Refused, TableFailed
<1>2. CASE job[p].op # "create"
  BY <1>2, EndsInv DEF Refused
<1>3. QED  BY <1>1, <1>2

-----------------------------------------------------------------------------
(* The notes: every step                                                   *)

LEMMA StartInv ==
  ASSUME KnowledgeInv, NEW p \in Procs, Start(p)
  PROVE  KnowledgeInv'
<1>1. CASE Opened(p, "sick") /\ UNCHANGED <<notes, table, told>>
  BY <1>1, OpenedInv
<1>2. CASE TableFailed(p) /\ UNCHANGED <<notes, table, told>>
  BY <1>2, OpenedInv DEF TableFailed
<1>3. CASE table /\ Opened(p, "ready") /\ UNCHANGED <<notes, table, told>>
  BY <1>3, OpenedInv
<1>4. CASE ~Blocked(p) /\ Begins(p, "shared", Job("create", "none"))
  <2>1. Job("create", "none").op = "create"
    BY DEF Job
  <2>2. QED  BY <1>4, <2>1, JobType, BeginsInv
<1>5. QED  BY <1>1, <1>2, <1>3, <1>4 DEF Start

LEMMA NoteAddInv ==
  ASSUME KnowledgeInv, NEW p \in Procs, NEW text \in Texts, NoteAdd(p, text)
  PROVE  KnowledgeInv'
<1>1. CASE Ends(p, "error", {}) /\ UNCHANGED <<notes, table, handle, told>>
  BY <1>1, EndsInv
<1>2. CASE Usable(p) /\ ~Blocked(p) /\ Begins(p, "shared", Job("add", text))
  <2>1. Job("add", text).op = "add" /\ Job("add", text).word = text /\ table
    BY <1>2 DEF Job, Usable
  <2>2. QED  BY <1>2, <2>1, JobType, BeginsInv
<1>3. QED  BY <1>1, <1>2 DEF NoteAdd

LEMMA NoteSearchInv ==
  ASSUME KnowledgeInv, NEW p \in Procs, NEW query \in Queries,
         NoteSearch(p, query)
  PROVE  KnowledgeInv'
<1>1. CASE /\ \E res \in {"ok", "error"} : Ends(p, res, {})
           /\ UNCHANGED <<notes, table, handle, told>>
  BY <1>1, EndsInv
<1>2. CASE ~Blocked(p) /\ Begins(p, "reading", Job("search", query))
  <2>1. Job("search", query).at = 0 /\ Job("search", query).found = {}
    BY DEF Job
  <2>2. QED  BY <1>2, <2>1, JobType, BeginsInv
<1>3. QED  BY <1>1, <1>2 DEF NoteSearch

LEMMA NoteListInv ==
  ASSUME KnowledgeInv, NEW p \in Procs, NoteList(p)
  PROVE  KnowledgeInv'
<1>1. CASE Ends(p, "ok", {}) /\ UNCHANGED <<notes, table, handle, told>>
  BY <1>1, EndsInv
<1>2. CASE ~Blocked(p) /\ Begins(p, "reading", Job("list", "none"))
  <2>1. Job("list", "none").at = 0 /\ Job("list", "none").found = {}
    BY DEF Job
  <2>2. QED  BY <1>2, <2>1, JobType, BeginsInv
<1>3. QED  BY <1>1, <1>2 DEF NoteList

\* Nobody can hold the exclusive lock while another holds the shared one.
LEMMA SharedNotBlocked ==
  ASSUME KnowledgeInv, NEW p \in Procs,
         stage[p] \in {"shared", "writing", "reading"}
  PROVE  ~Blocked(p)
BY DEF KnowledgeInv, Exclusive, Blocked

LEMMA UpgradeInv ==
  ASSUME KnowledgeInv, NEW p \in Procs, Upgrade(p)
  PROVE  KnowledgeInv'
<1>1. CASE Refused(p)
  BY <1>1, RefusedInv
<1>2. CASE stage[p] = "shared" /\ Alone(p) /\ Begins(p, "writing", job[p])
  <2>1. ~Blocked(p)
    BY <1>2, SharedNotBlocked
  <2>2. job[p] \in Jobs
    BY DEF KnowledgeInv, KnowledgeTypeOK
  <2>3. \/ job[p].op = "create"
        \/ job[p].op = "add" /\ job[p].word \in Texts /\ table
    BY <1>2 DEF KnowledgeInv, JobFits
  <2>4. QED  BY <1>2, <2>1, <2>2, <2>3, BeginsInv
<1>3. QED  BY <1>1, <1>2 DEF Upgrade

LEMMA CommitTableInv ==
  ASSUME KnowledgeInv, NEW p \in Procs, CommitTable(p)
  PROVE  KnowledgeInv'
<1> USE DEF KnowledgeInv, CommitTable, Opened, Ends
<1>1. KnowledgeTypeOK'
  BY NoJobType DEF KnowledgeTypeOK
<1>2. Exclusive'
  BY DEF KnowledgeTypeOK, Exclusive
<1>3. JobFits'
  BY DEF KnowledgeTypeOK, JobFits
<1>4. ReadSoFar'
  BY DEF KnowledgeTypeOK, ReadSoFar, Selects
<1>5. AddedIsKept' /\ ReadyHasTable'
  BY DEF AddedIsKept, ReadyHasTable
<1>6. QED  BY <1>1, <1>2, <1>3, <1>4, <1>5

LEMMA CommitNoteInv ==
  ASSUME KnowledgeInv, NEW p \in Procs, CommitNote(p)
  PROVE  KnowledgeInv'
<1> USE DEF KnowledgeInv
<1>1. job[p].word \in Texts /\ table
  BY DEF CommitNote, JobFits
<1>2. notes' = Append(notes, job[p].word) /\ notes \in Seq(Texts)
  BY DEF CommitNote, KnowledgeTypeOK
<1>3. /\ notes' \in Seq(Texts) /\ Len(notes') = Len(notes) + 1
      /\ DOMAIN notes \subseteq DOMAIN notes'
      /\ \A i \in DOMAIN notes : notes'[i] = notes[i]
      /\ Len(notes) + 1 \in DOMAIN notes'
      /\ notes'[Len(notes) + 1] = job[p].word
  BY <1>1, <1>2
<1>4. KnowledgeTypeOK'
  <2>0. job[p] \in Jobs /\ Len(notes) + 1 \in Nat
    BY <1>2 DEF KnowledgeTypeOK
  <2>1. [job[p] EXCEPT !.at = Len(notes) + 1] \in Jobs
    BY <2>0 DEF Jobs
  <2>2. job' \in [Procs -> Jobs]
    BY <2>1 DEF CommitNote, KnowledgeTypeOK
  <2>3. QED  BY <1>3, <2>2 DEF CommitNote, KnowledgeTypeOK
<1>5. Exclusive'
  BY DEF CommitNote, KnowledgeTypeOK, Exclusive
<1>6. JobFits'
  <2> SUFFICES ASSUME NEW q \in Procs
               PROVE  /\ stage'[q] \in {"shared", "writing"} =>
                           \/ job'[q].op = "create"
                           \/ /\ job'[q].op = "add"
                              /\ job'[q].word \in Texts /\ table'
                      /\ stage'[q] = "written" =>
                           /\ job'[q].word \in Texts
                           /\ job'[q].at \in DOMAIN notes'
                           /\ notes'[job'[q].at] = job'[q].word
    BY DEF JobFits
  <2>1. CASE q = p
    <3>1. /\ stage'[p] = "written" /\ job'[p].at = Len(notes) + 1
          /\ job'[p].word = job[p].word
      BY DEF CommitNote, KnowledgeTypeOK
    <3>2. QED  BY <2>1, <3>1, <1>1, <1>3
  <2>2. CASE q # p
    BY <2>2, <1>3 DEF CommitNote, KnowledgeTypeOK, JobFits
  <2>3. QED  BY <2>1, <2>2
<1>7. ReadSoFar'
  <2> SUFFICES ASSUME NEW q \in Procs, stage'[q] = "reading" PROVE FALSE
    BY DEF ReadSoFar
  <2>1. q # p /\ stage[q] = "reading" /\ stage[p] = "writing"
    BY DEF CommitNote, KnowledgeTypeOK
  <2>2. QED  BY <2>1 DEF Exclusive
<1>8. AddedIsKept' /\ ReadyHasTable'
  BY <1>1, <1>3 DEF CommitNote, AddedIsKept, ReadyHasTable
<1>9. QED  BY <1>4, <1>5, <1>6, <1>7, <1>8

LEMMA ReportAddedInv ==
  ASSUME KnowledgeInv, NEW p \in Procs, ReportAdded(p)
  PROVE  KnowledgeInv'
<1> USE DEF KnowledgeInv, ReportAdded, Ends
<1>1. /\ job[p].word \in Texts
      /\ job[p].at \in DOMAIN notes /\ notes[job[p].at] = job[p].word
  BY DEF JobFits
<1>2. KnowledgeTypeOK'
  BY <1>1, NoJobType DEF KnowledgeTypeOK
<1>3. Exclusive'
  BY DEF KnowledgeTypeOK, Exclusive
<1>4. JobFits'
  BY DEF KnowledgeTypeOK, JobFits
<1>5. ReadSoFar'
  BY DEF KnowledgeTypeOK, ReadSoFar, Selects
<1>6. AddedIsKept' /\ ReadyHasTable'
  BY <1>1 DEF AddedIsKept, ReadyHasTable
<1>7. QED  BY <1>2, <1>3, <1>4, <1>5, <1>6

LEMMA ReadRowInv ==
  ASSUME KnowledgeInv, NEW p \in Procs, ReadRow(p)
  PROVE  KnowledgeInv'
<1> DEFINE row == job[p].at + 1
           more == {i \in {row} : Selects(job[p], i)}
<1> USE DEF KnowledgeInv
<1>1. /\ job[p].at \in Nat /\ job[p].found \in SUBSET Nat /\ Len(notes) \in Nat
      /\ job[p].found = {i \in 1..job[p].at : Selects(job[p], i)}
      /\ row <= Len(notes)
  BY DEF ReadRow, KnowledgeTypeOK, ReadSoFar, Jobs
<1>2. /\ job'[p] = [job[p] EXCEPT !.at = row, !.found = @ \cup more]
      /\ job'[p].at = row /\ job'[p].found = job[p].found \cup more
      /\ job'[p].op = job[p].op /\ job'[p].word = job[p].word
      /\ \A q \in Procs \ {p} : job'[q] = job[q]
      /\ UNCHANGED <<notes, stage>>
  BY DEF ReadRow, KnowledgeTypeOK, Jobs
<1>3. KnowledgeTypeOK'
  <2>1. row \in Nat /\ job[p].found \cup more \in SUBSET Nat
    BY <1>1
  <2>2. job'[p] \in Jobs
    BY <1>2, <2>1 DEF KnowledgeTypeOK, Jobs
  <2>3. job' \in [Procs -> Jobs]
    BY <1>2, <2>2 DEF ReadRow, KnowledgeTypeOK
  <2>4. QED  BY <2>3 DEF ReadRow, KnowledgeTypeOK
<1>4. Exclusive'
  BY DEF ReadRow, Exclusive
<1>5. JobFits'
  BY <1>2 DEF ReadRow, JobFits
<1>6. ReadSoFar'
  <2> SUFFICES ASSUME NEW q \in Procs, stage'[q] = "reading"
               PROVE  /\ job'[q].at <= Len(notes')
                      /\ job'[q].found =
                           {i \in 1..job'[q].at : Selects(job[q], i)'}
    BY DEF ReadSoFar
  <2>1. CASE q # p
    BY <2>1, <1>2 DEF ReadSoFar, Selects
  <2>2. CASE q = p
    <3>1. \A i \in Nat : Selects(job[p], i)' = Selects(job[p], i)
      BY <1>2 DEF Selects
    <3>2. 1..row = 1..job[p].at \cup {row}
      BY <1>1
    <3>3. job'[p].found = {i \in 1..row : Selects(job[p], i)}
      BY <1>1, <1>2, <3>2
    <3>4. job'[p].found = {i \in 1..row : Selects(job[p], i)'}
      BY <3>1, <3>3, <1>1
    <3>5. QED  BY <2>2, <3>4, <1>1, <1>2
  <2>3. QED  BY <2>1, <2>2
<1>7. AddedIsKept' /\ ReadyHasTable'
  BY DEF ReadRow, AddedIsKept, ReadyHasTable
<1>8. QED  BY <1>3, <1>4, <1>5, <1>6, <1>7

LEMMA QuitInv ==
  ASSUME KnowledgeInv, NEW p \in Procs, Quit(p)
  PROVE  KnowledgeInv'
<1>1. KnowledgeTypeOK'
  <2>1. NoJob \in Jobs
    BY DEF NoJob, Job, Jobs
  <2>2. QED  BY <2>1 DEF KnowledgeInv, KnowledgeTypeOK, Quit
<1>2. /\ notes' = notes /\ table' = table /\ told' = told
      /\ \A q \in Procs \ {p} :
           stage'[q] = stage[q] /\ job'[q] = job[q] /\ handle'[q] = handle[q]
      /\ stage'[p] = "down" /\ handle'[p] = "none"
  BY DEF Quit, KnowledgeInv, KnowledgeTypeOK
<1>3. QED  BY <1>1, <1>2, LeavesInv

LEMMA ReadEndInv ==
  ASSUME KnowledgeInv, NEW p \in Procs, ReadEnd(p) \/ ReadFails(p)
  PROVE  KnowledgeInv'
<1>1. job[p].found \in SUBSET Nat
  BY DEF KnowledgeInv, KnowledgeTypeOK, Jobs
<1>2. QED  BY <1>1, EndsInv DEF ReadEnd, ReadFails

LEMMA KnowledgeStepInv == KnowledgeInv /\ [KnowledgeNext]_knowledgeVars => KnowledgeInv'
<1> SUFFICES ASSUME KnowledgeInv, [KnowledgeNext]_knowledgeVars
             PROVE  KnowledgeInv'
  OBVIOUS
<1>1. CASE KnowledgeNext
  <2> PICK p \in Procs : KnowledgeStep(p)
    BY <1>1 DEF KnowledgeNext
  <2>1. CASE Start(p)  BY <2>1, StartInv
  <2>2. CASE Upgrade(p)  BY <2>2, UpgradeInv
  <2>3. CASE WriteFails(p)  BY <2>3, RefusedInv DEF WriteFails
  <2>4. CASE CommitTable(p)  BY <2>4, CommitTableInv
  <2>5. CASE CommitNote(p)  BY <2>5, CommitNoteInv
  <2>6. CASE ReportAdded(p)  BY <2>6, ReportAddedInv
  <2>7. CASE \E text \in Texts : NoteAdd(p, text)  BY <2>7, NoteAddInv
  <2>8. CASE \E query \in Queries : NoteSearch(p, query)
    BY <2>8, NoteSearchInv
  <2>9. CASE NoteList(p)  BY <2>9, NoteListInv
  <2>10. CASE ReadRow(p)  BY <2>10, ReadRowInv
  <2>11. CASE ReadEnd(p) \/ ReadFails(p)  BY <2>11, ReadEndInv
  <2>12. CASE Quit(p)  BY <2>12, QuitInv
  <2>13. QED
    BY <2>1, <2>2, <2>3, <2>4, <2>5, <2>6, <2>7, <2>8, <2>9, <2>10, <2>11,
       <2>12 DEF KnowledgeStep
<1>2. CASE UNCHANGED knowledgeVars
  BY <1>2 DEF knowledgeVars, KnowledgeInv, KnowledgeTypeOK, Exclusive, JobFits,
              ReadSoFar, AddedIsKept, ReadyHasTable, Selects
<1>3. QED  BY <1>1, <1>2

-----------------------------------------------------------------------------
(* The notes: theorems                                                     *)

\* The conjunction of the type invariant and what it takes to be kept, the
\* locks included (knowledge.c:11-203).
THEOREM KnowledgeInvariance == KnowledgeSpec => []KnowledgeInv
BY KnowledgeInitInv, KnowledgeStepInv, PTL DEF KnowledgeSpec

\* Every variable has its type (knowledge.c:8-45).
THEOREM KnowledgeTypes == KnowledgeSpec => []KnowledgeTypeOK
<1>1. KnowledgeInv => KnowledgeTypeOK
  BY DEF KnowledgeInv
<1>2. QED  BY <1>1, KnowledgeInvariance, PTL

\* A note reported as added stays in the table (knowledge.c:85-94).
THEOREM AddsAreKept == KnowledgeSpec => []AddedIsKept
<1>1. KnowledgeInv => AddedIsKept
  BY DEF KnowledgeInv
<1>2. QED  BY <1>1, KnowledgeInvariance, PTL

\* A shell that came up without an error left the table for all
\* (knowledge.c:38-42).
THEOREM ReadyHasItsTable == KnowledgeSpec => []ReadyHasTable
<1>1. KnowledgeInv => ReadyHasTable
  BY DEF KnowledgeInv
<1>2. QED  BY <1>1, KnowledgeInvariance, PTL

\* A search that got its lock prints the notes that its SQL selects, all of
\* them or, when an error ended its reading, those among the rows before that
\* (knowledge.c:117-158).
THEOREM SearchesAreExact == KnowledgeSpec => SearchIsExact
<1> DEFINE hits(p) == {i \in DOMAIN notes : notes[i] \in Hits[job[p].word]}
           Exact == \A p \in Procs :
             (stage[p] = "reading" /\ job[p].op = "search" /\ stage'[p] = "idle")
               => \/ result'[p] = "ok" /\ shown'[p] = hits(p)
                  \/ result'[p] = "cut" /\ shown'[p] = hits(p) \cap 1..job[p].at
<1>1. KnowledgeInv /\ [KnowledgeNext]_knowledgeVars => [Exact]_knowledgeVars
  <2> SUFFICES ASSUME KnowledgeInv, KnowledgeNext, NEW p \in Procs,
                      stage[p] = "reading", job[p].op = "search",
                      stage'[p] = "idle"
               PROVE  \/ result'[p] = "ok" /\ shown'[p] = hits(p)
                      \/ result'[p] = "cut" /\ shown'[p] = hits(p) \cap 1..job[p].at
    BY DEF knowledgeVars
  <2>1. PICK q \in Procs : KnowledgeStep(q)
    BY DEF KnowledgeNext
  <2>2. ReadEnd(p) \/ ReadFails(p)
    <3> USE DEF KnowledgeInv, KnowledgeTypeOK
    <3>1. CASE Start(q)
      BY <3>1 DEF Start, TableFailed, Opened, Ends, Begins
    <3>2. CASE Upgrade(q) \/ WriteFails(q)
      BY <3>2 DEF Upgrade, WriteFails, Refused, TableFailed, Opened, Ends,
                  Begins
    <3>3. CASE CommitTable(q) \/ CommitNote(q) \/ ReportAdded(q)
      BY <3>3 DEF CommitTable, CommitNote, ReportAdded, Opened, Ends
    <3>4. CASE \E text \in Texts : NoteAdd(q, text)
      BY <3>4 DEF NoteAdd, Ends, Begins
    <3>5. CASE \E query \in Queries : NoteSearch(q, query)
      BY <3>5 DEF NoteSearch, Ends, Begins
    <3>6. CASE NoteList(q)
      BY <3>6 DEF NoteList, Ends, Begins
    <3>7. CASE ReadRow(q) \/ Quit(q)
      BY <3>7 DEF ReadRow, Quit
    <3>8. CASE ReadEnd(q) \/ ReadFails(q)
      <4>1. q = p
        BY <3>8 DEF ReadEnd, ReadFails, Ends
      <4>2. QED  BY <3>8, <4>1
    <3>9. QED
      BY <2>1, <3>1, <3>2, <3>3, <3>4, <3>5, <3>6, <3>7, <3>8 DEF KnowledgeStep
  <2>3. /\ job[p].at \in Nat /\ job[p].at <= Len(notes)
        /\ job[p].found = {i \in 1..job[p].at : Selects(job[p], i)}
        /\ DOMAIN notes = 1..Len(notes) /\ Len(notes) \in Nat
    BY DEF KnowledgeInv, KnowledgeTypeOK, ReadSoFar, Jobs
  <2>4. \A i : Selects(job[p], i) <=> notes[i] \in Hits[job[p].word]
    BY DEF Selects
  <2>5. job[p].found = hits(p) \cap 1..job[p].at
    BY <2>3, <2>4
  <2>6. CASE ReadEnd(p)
    <3>1. result'[p] = "ok" /\ shown'[p] = job[p].found /\ job[p].at = Len(notes)
      BY <2>6 DEF ReadEnd, RowsOver, Ends, KnowledgeInv, KnowledgeTypeOK
    <3>2. QED  BY <2>3, <2>5, <3>1
  <2>7. CASE ReadFails(p)
    <3>1. result'[p] = "cut" /\ shown'[p] = job[p].found
      BY <2>7 DEF ReadFails, Ends, KnowledgeInv, KnowledgeTypeOK
    <3>2. QED  BY <2>5, <3>1
  <2>8. QED  BY <2>2, <2>6, <2>7
<1>2. QED
  BY <1>1, KnowledgeInvariance, PTL DEF KnowledgeSpec, SearchIsExact

-----------------------------------------------------------------------------
(* The notes: Knowledge implements Notebook                                *)

\* A shell that does not run shows nothing; a search is for a word.
Asked ==
  \A p \in Procs :
    /\ stage[p] = "down" => shown[p] = {}
    /\ stage[p] = "reading" /\ job[p].op = "search" => job[p].word \in Queries

BookInv == KnowledgeInv /\ Asked

bookVars == <<notes, told, Running, Unreported, shown>>

\* What the steps of one process do to what Notebook sees of it.
LEMMA BookMoves ==
  ASSUME KnowledgeTypeOK, NEW p \in Procs,
         NEW how \in {"down", "idle", "shared", "writing", "written", "reading"},
         stage' = [stage EXCEPT ![p] = how],
         \A q \in Procs \ {p} : job'[q] = job[q]
  PROVE  /\ Running' = [Running EXCEPT ![p] = (how # "down")]
         /\ Unreported' = [Unreported EXCEPT ![p] =
                             IF how = "written" THEN {job'[p].at} ELSE {}]
         /\ Running[p] = (stage[p] # "down")
         /\ Unreported[p] = IF stage[p] = "written" THEN {job[p].at} ELSE {}
<1>1. stage' \in [Procs -> {"down", "idle", "shared", "writing", "written", "reading"}]
      /\ stage'[p] = how /\ \A q \in Procs \ {p} : stage'[q] = stage[q]
  BY DEF KnowledgeTypeOK
<1>2. Running' = [Running EXCEPT ![p] = (how # "down")]
  BY <1>1 DEF Running
<1>3. Unreported' = [Unreported EXCEPT ![p] =
                       IF how = "written" THEN {job'[p].at} ELSE {}]
  BY <1>1 DEF Unreported
<1>4. QED  BY <1>2, <1>3 DEF Running, Unreported

\* A statement begins, perhaps that of the initialisation, or goes on.
LEMMA BookBegins ==
  ASSUME BookInv, NEW p \in Procs,
         NEW how \in {"shared", "writing", "reading"}, NEW what,
         Begins(p, how, what), stage[p] # "written"
  PROVE  Book!Next \/ UNCHANGED bookVars
<1>1. KnowledgeTypeOK
  BY DEF BookInv, KnowledgeInv
<1>2. /\ stage' = [stage EXCEPT ![p] = how]
      /\ \A q \in Procs \ {p} : job'[q] = job[q]
      /\ UNCHANGED <<notes, told, shown>>
  BY <1>1 DEF Begins, KnowledgeTypeOK
<1>3. /\ Running' = [Running EXCEPT ![p] = TRUE] /\ Running[p] = (stage[p] # "down")
      /\ Unreported' = [Unreported EXCEPT ![p] = {}] /\ Unreported[p] = {}
  BY <1>1, <1>2, BookMoves
<1>4. Unreported' = Unreported
  BY <1>3 DEF Unreported
<1>5. CASE stage[p] = "down"
  BY <1>2, <1>3, <1>4, <1>5 DEF Book!Next, Book!Enter
<1>6. CASE stage[p] # "down"
  <2>1. Running' = Running
    BY <1>3, <1>6 DEF Running
  <2>2. QED  BY <1>2, <1>4, <2>1 DEF bookVars
<1>7. QED  BY <1>5, <1>6

\* A command is over and shows no note.
LEMMA BookEnds ==
  ASSUME BookInv, NEW p \in Procs, NEW res,
         Ends(p, res, {}), UNCHANGED <<notes, told>>, stage[p] # "written"
  PROVE  Book!Next \/ UNCHANGED bookVars
<1>1. KnowledgeTypeOK
  BY DEF BookInv, KnowledgeInv
<1>2. /\ stage' = [stage EXCEPT ![p] = "idle"]
      /\ \A q \in Procs \ {p} : job'[q] = job[q]
      /\ shown' = [shown EXCEPT ![p] = {}]
  BY <1>1 DEF Ends, KnowledgeTypeOK
<1>3. /\ Running' = [Running EXCEPT ![p] = TRUE] /\ Running[p] = (stage[p] # "down")
      /\ Unreported' = [Unreported EXCEPT ![p] = {}] /\ Unreported[p] = {}
  BY <1>1, <1>2, BookMoves
<1>4. Unreported' = Unreported
  BY <1>3 DEF Unreported
<1>5. CASE stage[p] = "down"
  <2>1. shown' = shown
    BY <1>1, <1>2, <1>5 DEF BookInv, Asked, KnowledgeTypeOK
  <2>2. Book!Enter(p)
    BY <1>3, <1>4, <1>5, <2>1 DEF Book!Enter
  <2>3. QED  BY <2>2 DEF Book!Next
<1>6. CASE stage[p] # "down"
  <2>1. Running' = Running
    BY <1>3, <1>6 DEF Running
  <2>2. Book!Clear(p)
    BY <1>2, <1>3, <1>4, <1>6, <2>1 DEF Book!Clear, Book!Free
  <2>3. QED  BY <2>2 DEF Book!Next
<1>7. QED  BY <1>5, <1>6

LEMMA BookRefused ==
  ASSUME BookInv, NEW p \in Procs, Refused(p), stage[p] # "written"
  PROVE  Book!Next \/ UNCHANGED bookVars
BY BookEnds DEF Refused, TableFailed, Opened

LEMMA BookCommits ==
  ASSUME BookInv, NEW p \in Procs, CommitNote(p)
  PROVE  Book!Next
<1>1. KnowledgeTypeOK /\ job[p] \in Jobs /\ job[p].word \in Texts
      /\ stage[p] = "writing"
  BY DEF BookInv, KnowledgeInv, KnowledgeTypeOK, JobFits, CommitNote
<1>2. /\ stage' = [stage EXCEPT ![p] = "written"]
      /\ \A q \in Procs \ {p} : job'[q] = job[q]
      /\ job'[p].at = Len(notes) + 1
      /\ notes' = Append(notes, job[p].word)
      /\ UNCHANGED <<told, shown>>
  BY <1>1 DEF CommitNote, KnowledgeTypeOK, Jobs
<1>3. /\ Running' = [Running EXCEPT ![p] = TRUE] /\ Running[p] = TRUE
      /\ Unreported' = [Unreported EXCEPT ![p] = {Len(notes) + 1}]
      /\ Unreported[p] = {}
  BY <1>1, <1>2, BookMoves
<1>4. Running' = Running
  BY <1>3 DEF Running
<1>5. Book!Write(p, job[p].word)
  BY <1>2, <1>3, <1>4 DEF Book!Write, Book!Free
<1>6. QED  BY <1>1, <1>5 DEF Book!Next

LEMMA BookReports ==
  ASSUME BookInv, NEW p \in Procs, ReportAdded(p)
  PROVE  Book!Next
<1>1. /\ KnowledgeTypeOK /\ stage[p] = "written"
      /\ job[p].at \in DOMAIN notes /\ notes[job[p].at] = job[p].word
  BY DEF BookInv, KnowledgeInv, JobFits, ReportAdded
<1>2. /\ stage' = [stage EXCEPT ![p] = "idle"]
      /\ \A q \in Procs \ {p} : job'[q] = job[q]
      /\ told' = told \cup {[id |-> job[p].at, text |-> notes[job[p].at]]}
      /\ shown' = [shown EXCEPT ![p] = {}] /\ notes' = notes
  BY <1>1 DEF ReportAdded, Ends
<1>3. /\ Running' = [Running EXCEPT ![p] = TRUE] /\ Running[p] = TRUE
      /\ Unreported' = [Unreported EXCEPT ![p] = {}]
      /\ Unreported[p] = {job[p].at}
  BY <1>1, <1>2, BookMoves
<1>4. Running' = Running
  BY <1>3 DEF Running
<1>5. Book!Report(p, job[p].at)
  BY <1>2, <1>3, <1>4 DEF Book!Report
<1>6. QED  BY <1>1, <1>5 DEF Book!Next

\* A type that the conversion to an unsigned one has made.
LEMMA Wrapped ==
  ASSUME NEW n \in Int, NEW m \in 0..255, n = m + 256 * (0 - 1)
  PROVE  n % 256 = m
OBVIOUS

\* A search shows what it has found, the notes of the moment it ends as far
\* as it has read; the list, which asks for a type that no note has, shows
\* none.
LEMMA BookReads ==
  ASSUME BookInv, NEW p \in Procs, ReadEnd(p) \/ ReadFails(p)
  PROVE  Book!Next \/ UNCHANGED bookVars
<1>1. /\ KnowledgeTypeOK /\ stage[p] = "reading"
      /\ \E res \in {"ok", "cut"} : Ends(p, res, job[p].found)
      /\ UNCHANGED <<notes, told>>
      /\ job[p].at \in 0..Len(notes)
      /\ job[p].found = {i \in DOMAIN notes : i <= job[p].at /\ Selects(job[p], i)}
  <2>1. /\ KnowledgeTypeOK /\ stage[p] = "reading" /\ job[p].at <= Len(notes)
        /\ job[p].found = {i \in 1..job[p].at : Selects(job[p], i)}
    BY DEF BookInv, KnowledgeInv, ReadSoFar, ReadEnd, ReadFails
  <2>2. DOMAIN notes = 1..Len(notes) /\ Len(notes) \in Nat /\ job[p].at \in Nat
    BY <2>1 DEF KnowledgeTypeOK, Jobs
  <2>3. QED  BY <2>1, <2>2 DEF ReadEnd, ReadFails
<1>2. CASE job[p].op = "search"
  <2>1. job[p].word \in Queries
    BY <1>1, <1>2 DEF BookInv, Asked
  <2>2. /\ stage' = [stage EXCEPT ![p] = "idle"]
        /\ \A q \in Procs \ {p} : job'[q] = job[q]
        /\ shown' = [shown EXCEPT ![p] = job[p].found]
    BY <1>1 DEF Ends
  <2>3. /\ Running' = [Running EXCEPT ![p] = TRUE] /\ Running[p] = TRUE
        /\ Unreported' = [Unreported EXCEPT ![p] = {}] /\ Unreported[p] = {}
    BY <1>1, <2>2, BookMoves
  <2>4. Running' = Running /\ Unreported' = Unreported
    BY <2>3 DEF Running, Unreported
  <2>5. job[p].found = {i \in DOMAIN notes : i <= job[p].at /\ notes[i] \in Hits[job[p].word]}
    BY <1>1, <1>2 DEF Selects
  <2>6. Book!Search(p, job[p].word, job[p].at)
    BY <1>1, <2>2, <2>3, <2>4, <2>5 DEF Book!Search, Book!Free
  <2>7. QED  BY <1>1, <2>1, <2>6 DEF Book!Next
<1>3. CASE job[p].op # "search"
  <2>1. ListType = 255
    <3>1. 0 - 1 \in Int /\ 255 \in 0..255 /\ 0 - 1 = 255 + 256 * (0 - 1)
      OBVIOUS
    <3>2. (0 - 1) % 256 = 255
      BY <3>1, Wrapped
    <3>3. QED  BY <3>2 DEF ListType, AsType, TypeRange
  <2>2. \A i : ~Selects(job[p], i)
    BY <1>3, <2>1 DEF Selects, General
  <2>3. job[p].found = {}
    BY <1>1, <2>2
  <2>4. QED  BY <1>1, <2>3, BookEnds
<1>4. QED  BY <1>2, <1>3

LEMMA BookQuits ==
  ASSUME BookInv, NEW p \in Procs, Quit(p)
  PROVE  Book!Next
<1>1. KnowledgeTypeOK /\ stage[p] # "down"
  BY DEF BookInv, KnowledgeInv, Quit
<1>2. /\ stage' = [stage EXCEPT ![p] = "down"]
      /\ \A q \in Procs \ {p} : job'[q] = job[q]
      /\ shown' = [shown EXCEPT ![p] = {}] /\ UNCHANGED <<notes, told>>
  BY <1>1 DEF Quit, KnowledgeTypeOK
<1>3. /\ Running' = [Running EXCEPT ![p] = FALSE] /\ Running[p] = TRUE
      /\ Unreported' = [Unreported EXCEPT ![p] = {}]
  BY <1>1, <1>2, BookMoves
<1>4. Book!Leave(p)
  BY <1>2, <1>3 DEF Book!Leave
<1>5. QED  BY <1>4 DEF Book!Next

LEMMA BookStep ==
  BookInv /\ [KnowledgeNext]_knowledgeVars => [Book!Next]_bookVars
<1> SUFFICES ASSUME BookInv, [KnowledgeNext]_knowledgeVars
             PROVE  Book!Next \/ UNCHANGED bookVars
  OBVIOUS
<1>1. CASE KnowledgeNext
  <2> PICK p \in Procs : KnowledgeStep(p)
    BY <1>1 DEF KnowledgeNext
  <2>1. CASE Start(p)
    BY <2>1, BookBegins, BookEnds DEF Start, TableFailed, Opened
  <2>2. CASE Upgrade(p)
    BY <2>2, BookBegins, BookRefused DEF Upgrade
  <2>3. CASE WriteFails(p)
    BY <2>3, BookRefused DEF WriteFails
  <2>4. CASE CommitTable(p)
    BY <2>4, BookEnds DEF CommitTable, Opened
  <2>5. CASE CommitNote(p)
    BY <2>5, BookCommits
  <2>6. CASE ReportAdded(p)
    BY <2>6, BookReports
  <2>7. CASE \E text \in Texts : NoteAdd(p, text)
    BY <2>7, BookBegins, BookEnds DEF NoteAdd
  <2>8. CASE \E query \in Queries : NoteSearch(p, query)
    BY <2>8, BookBegins, BookEnds DEF NoteSearch
  <2>9. CASE NoteList(p)
    BY <2>9, BookBegins, BookEnds DEF NoteList
  <2>10. CASE ReadRow(p)
    <3>1. KnowledgeTypeOK
      BY DEF BookInv, KnowledgeInv
    <3>2. \A q \in Procs : q # p => job'[q] = job[q]
      BY <2>10, <3>1 DEF ReadRow, KnowledgeTypeOK
    <3>3. Unreported' = Unreported
      BY <2>10, <3>2 DEF ReadRow, Unreported
    <3>4. QED  BY <2>10, <3>3 DEF ReadRow, bookVars, Running
  <2>11. CASE ReadEnd(p) \/ ReadFails(p)
    BY <2>11, BookReads
  <2>12. CASE Quit(p)
    BY <2>12, BookQuits
  <2>13. QED
    BY <2>1, <2>2, <2>3, <2>4, <2>5, <2>6, <2>7, <2>8, <2>9, <2>10, <2>11,
       <2>12 DEF KnowledgeStep
<1>2. CASE UNCHANGED knowledgeVars
  BY <1>2 DEF knowledgeVars, bookVars, Running, Unreported
<1>3. QED  BY <1>1, <1>2

LEMMA AskedStep == BookInv /\ [KnowledgeNext]_knowledgeVars => Asked'
<1> SUFFICES ASSUME BookInv, [KnowledgeNext]_knowledgeVars PROVE Asked'
  OBVIOUS
<1>1. KnowledgeTypeOK /\ Asked
  BY DEF BookInv, KnowledgeInv
<1>2. CASE UNCHANGED knowledgeVars
  BY <1>1, <1>2 DEF knowledgeVars, Asked
<1>3. ASSUME NEW p \in Procs, NEW how \in {"shared", "writing", "reading"}, NEW what,
             Begins(p, how, what),
             how = "reading" /\ what.op = "search" => what.word \in Queries
      PROVE  Asked'
  BY <1>1, <1>3 DEF Begins, Asked, KnowledgeTypeOK
<1>4. ASSUME NEW p \in Procs, NEW res, NEW out, Ends(p, res, out)
      PROVE  Asked'
  BY <1>1, <1>4 DEF Ends, Asked, KnowledgeTypeOK
<1>5. CASE KnowledgeNext
  <2> PICK p \in Procs : KnowledgeStep(p)
    BY <1>5 DEF KnowledgeNext
  <2>1. CASE Start(p)
    BY <2>1, <1>3, <1>4 DEF Start, TableFailed, Opened
  <2>2. CASE Upgrade(p) \/ WriteFails(p)
    BY <2>2, <1>3, <1>4 DEF Upgrade, WriteFails, Refused, TableFailed, Opened
  <2>3. CASE CommitTable(p) \/ ReportAdded(p) \/ ReadEnd(p) \/ ReadFails(p)
    BY <2>3, <1>4 DEF CommitTable, ReportAdded, ReadEnd, ReadFails, Opened
  <2>4. CASE \E text \in Texts : NoteAdd(p, text)
    BY <2>4, <1>3, <1>4 DEF NoteAdd
  <2>5. CASE \E query \in Queries : NoteSearch(p, query)
    <3>1. PICK query \in Queries : NoteSearch(p, query)
      BY <2>5
    <3>2. Job("search", query).word = query
      BY DEF Job
    <3>3. QED  BY <1>3, <1>4, <3>1, <3>2 DEF NoteSearch
  <2>6. CASE NoteList(p)
    <3>1. Job("list", "none").op # "search"
      BY DEF Job
    <3>2. QED  BY <1>3, <1>4, <2>6, <3>1 DEF NoteList
  <2>7. CASE CommitNote(p) \/ Quit(p)
    BY <1>1, <2>7 DEF CommitNote, Quit, Asked, KnowledgeTypeOK
  <2>8. CASE ReadRow(p)
    <3>1. /\ job'[p].op = job[p].op /\ job'[p].word = job[p].word
          /\ \A q \in Procs \ {p} : job'[q] = job[q]
          /\ UNCHANGED <<stage, shown>>
      BY <1>1, <2>8 DEF ReadRow, KnowledgeTypeOK, Jobs
    <3>2. QED  BY <1>1, <3>1 DEF Asked
  <2>9. QED
    BY <2>1, <2>2, <2>3, <2>4, <2>5, <2>6, <2>7, <2>8 DEF KnowledgeStep
<1>6. QED  BY <1>2, <1>5

\* The shells of a directory share a notebook: whatever they interleave,
\* fail at or leave undone, each of their steps is one that the notebook
\* without locks allows, or is not seen (knowledge.c:11-203).
THEOREM NotesAreNotebook == KnowledgeSpec => ImplementsNotebook
<1>1. KnowledgeInit => BookInv /\ Book!Init
  <2>1. KnowledgeInit => Asked /\ Book!Init
    BY DEF KnowledgeInit, Asked, Book!Init, Running, Unreported
  <2>2. QED  BY <2>1, KnowledgeInitInv DEF BookInv
<1>2. BookInv /\ [KnowledgeNext]_knowledgeVars => BookInv'
  BY KnowledgeStepInv, AskedStep DEF BookInv
<1>3. BookInv /\ [KnowledgeNext]_knowledgeVars
        => [Book!Next]_<<notes, told, Running, Unreported, shown>>
  BY BookStep DEF bookVars
<1>4. QED
  BY <1>1, <1>2, <1>3, PTL
     DEF KnowledgeSpec, ImplementsNotebook, Book!Spec

-----------------------------------------------------------------------------
(* Workflows.  FlowInv says how far a run has come: what it has made so    *)
(* far is in .temp, what it has copied is in recon, and both only as long  *)
(* as no step was in trouble.                                              *)

\* A step's place in its pipeline: what it writes, that no other step
\* writes the same, and that what it reads is made before.
LEMMA PlanFacts ==
  ASSUME NEW name \in DOMAIN Workflows
  PROVE  /\ Len(Workflows[name]) \in Nat \ {0}
         /\ DOMAIN Workflows[name] = 1..Len(Workflows[name])
         /\ \A i \in 1..Len(Workflows[name]) :
              /\ Workflows[name][i].out \in Results \cup {"none"}
              /\ Workflows[name][i].in \in Results \cup {"none"}
              /\ Workflows[name][i].in # "none" =>
                   \E j \in 1..i - 1 : Workflows[name][j].out = Workflows[name][i].in
         /\ \A i, j \in 1..Len(Workflows[name]) :
              i # j /\ Workflows[name][i].out = Workflows[name][j].out
                => Workflows[name][i].out = "none"
<1> USE DEF WorkStep, Results, Scanned
<1>1. name \in {"recon", "web_basic", "api_audit"}
  BY DEF Workflows
<1>2. CASE name = "recon"
  BY <1>2 DEF Workflows, ReconSteps
<1>3. CASE name = "web_basic"
  BY <1>3 DEF Workflows
<1>4. CASE name = "api_audit"
  BY <1>4 DEF Workflows
<1>5. QED  BY <1>1, <1>2, <1>3, <1>4

\* A run under way has a number, and what no other has written since it began
\* is not younger than it.
Recent ==
  flowPc \in {"tools", "copy"} =>
    /\ flowRun > 0
    /\ \A f \in Results \ disturbed :
         temp[f].by <= flowRun /\ recon[f].by <= flowRun
Dated ==
  /\ \A f \in Results : temp[f].by <= runs /\ recon[f].by <= runs
  /\ \A stray \in strays : stray.content.by <= runs

\* Step i has been at its tool, at its copy.
ToolDone(i) == flowPc \in {"copy", "done"} \/ (flowPc = "tools" /\ i < flowAt)
CopyDone(i) == flowPc = "done" \/ (flowPc = "copy" /\ i < flowAt)

Whole == [by |-> flowRun, from |-> {flowRun}]

\* What a run has made so far: a result whose step was not in trouble and
\* that no other wrote is this run's, and while the run is clean, every result
\* is whole.
MadeSoFar ==
  \A i \in 1..Len(Workflows[flow]) :
    LET out == Workflows[flow][i].out
    IN (out # "none" /\ flowPc # "idle") =>
         /\ ToolDone(i) /\ out \notin trouble \cup disturbed => temp[out].by = flowRun
         /\ ToolDone(i) /\ Clean => temp[out] = Whole
         /\ CopyDone(i) /\ Clean => recon[out] = Whole

FlowInv == FlowTypeOK /\ Recent /\ Dated /\ MadeSoFar

\* Nothing has been made yet.
LEMMA FlowInitInv == FlowInit => FlowInv
<1> SUFFICES ASSUME FlowInit PROVE FlowInv
  OBVIOUS
<1>1. "recon" \in DOMAIN Workflows
  BY DEF Workflows
<1>2. Nothing \in Content
  BY MaxRunsAssumption DEF Nothing, Content
<1>3. FlowTypeOK
  BY <1>1, <1>2, PlanFacts, MaxRunsAssumption DEF FlowInit, FlowTypeOK
<1>4. Recent /\ Dated /\ MadeSoFar
  BY DEF FlowInit, Recent, Dated, MadeSoFar, Nothing
<1>5. QED  BY <1>3, <1>4 DEF FlowInv

USE MaxRunsAssumption

\* The facts about the present step that every action needs.
LEMMA AtStepFacts ==
  ASSUME FlowInv
  PROVE  /\ flow \in DOMAIN Workflows
         /\ Len(Workflows[flow]) \in Nat \ {0}
         /\ flowAt \in 1..Len(Workflows[flow])
         /\ AtStep = Workflows[flow][flowAt]
         /\ AtStep.out \in Results \cup {"none"}
         /\ AtStep.in \in Results \cup {"none"}
         /\ "none" \notin Results
         /\ runs \in 0..MaxRuns /\ flowRun \in 0..runs
<1>1. "none" \notin Results
  BY DEF Results, Scanned
<1>2. QED  BY <1>1, PlanFacts DEF FlowInv, FlowTypeOK, AtStep

\* A new run begins with nothing done.
LEMMA RunInv ==
  ASSUME FlowInv, NEW name \in DOMAIN Workflows, Run(name)
  PROVE  FlowInv'
<1>1. FlowTypeOK'
  BY PlanFacts DEF FlowInv, FlowTypeOK, Run, disk
<1>2. /\ runs \in Nat /\ runs' = runs + 1 /\ flowRun' = runs'
      /\ UNCHANGED <<temp, recon, strays>>
  BY DEF FlowInv, FlowTypeOK, Run, disk
<1>3. /\ \A f \in Results : temp[f].by \in Nat /\ recon[f].by \in Nat
      /\ \A stray \in strays : stray.content.by \in Nat
  BY DEF FlowInv, FlowTypeOK, Content
<1>4. Recent' /\ Dated'
  BY <1>2, <1>3 DEF FlowInv, Dated, Recent
<1>5. MadeSoFar'
  BY <1>2 DEF Run, MadeSoFar, ToolDone, CopyDone
<1>6. QED  BY <1>1, <1>4, <1>5 DEF FlowInv

\* The type and the number of what a tool writes.
LEMMA MadeFacts ==
  ASSUME NEW r \in 1..MaxRuns, NEW step, step.in \in Results \cup {"none"},
         NEW dir \in [Results -> Content]
  PROVE  MadeBy(r, step, dir) \in Content /\ MadeBy(r, step, dir).by = r
<1>1. ReadFrom(step, dir) \subseteq 1..MaxRuns
  BY DEF ReadFrom, Content
<1>2. QED  BY <1>1 DEF MadeBy, Content

\* What a working tool reads is whole in a clean run, so what it writes is.
LEMMA OutputFacts ==
  ASSUME FlowInv, flowPc = "tools"
  PROVE  /\ Output \in Content /\ Output.by = flowRun
         /\ Clean => Output = Whole
<1>1. flowRun \in 1..MaxRuns
  BY AtStepFacts DEF FlowInv, Recent
<1>2. Output \in Content /\ Output.by = flowRun
  BY <1>1, AtStepFacts, MadeFacts DEF Output, FlowInv, FlowTypeOK
<1>3. ASSUME Clean PROVE ReadFrom(AtStep, temp) \subseteq {flowRun}
  <2>1. CASE AtStep.in = "none"
    BY <2>1 DEF ReadFrom
  <2>2. CASE AtStep.in # "none"
    <3>1. PICK j \in 1..flowAt - 1 : Workflows[flow][j].out = AtStep.in
      BY <2>2, AtStepFacts, PlanFacts
    <3>2. j \in 1..Len(Workflows[flow]) /\ j < flowAt
      BY <3>1, AtStepFacts
    <3>3. temp[AtStep.in] = Whole
      BY <1>3, <2>2, <3>1, <3>2 DEF FlowInv, MadeSoFar, ToolDone
    <3>4. QED  BY <2>2, <3>3 DEF ReadFrom, Whole
  <2>3. QED  BY <2>1, <2>2
<1>4. Clean => Output = Whole
  BY <1>3 DEF Output, MadeBy, Whole
<1>5. QED  BY <1>2, <1>4

\* Where NextStep leads.
LEMMA NextStepFacts ==
  ASSUME FlowInv, NextStep, flowPc \in {"tools", "copy"}, UNCHANGED flow
  PROVE  /\ flowPc' \in {"tools", "copy", "done"}
         /\ flowAt' \in 1..Len(Workflows[flow])
         /\ flowPc' = "tools" => flowPc = "tools"
         /\ \A i \in 1..Len(Workflows[flow]) :
              /\ ToolDone(i)' => ToolDone(i) \/ (flowPc = "tools" /\ i = flowAt)
              /\ CopyDone(i)' => CopyDone(i) \/ (flowPc = "copy" /\ i = flowAt)
  BY AtStepFacts DEF NextStep, LastStep, ToolDone, CopyDone

\* A tool's step, with the result written or not.
LEMMA ToolInv ==
  ASSUME FlowInv, flowPc = "tools", NextStep,
         UNCHANGED <<flow, flowRun, runs, recon, strays, disturbed>>,
         \/ temp' = Written /\ UNCHANGED trouble
         \/ temp' \in {temp, Written} /\ trouble' = trouble \cup {AtStep.out}
  PROVE  FlowInv'
<1>1. temp' \in {temp, Written}
  OBVIOUS
<1>2. \A f \in Results : f # AtStep.out => temp'[f] = temp[f]
  BY <1>1, AtStepFacts DEF Written, FlowInv, FlowTypeOK
<1>3. AtStep.out # "none" => temp'[AtStep.out] \in {temp[AtStep.out], Output}
  BY <1>1, AtStepFacts DEF Written, FlowInv, FlowTypeOK
<1>4. AtStep.out # "none" /\ AtStep.out \notin trouble' => temp'[AtStep.out] = Output
  BY <1>1, AtStepFacts DEF Written, FlowInv, FlowTypeOK
<1>5. FlowTypeOK'
  <2>1. temp' \in [Results -> Content]
    BY <1>1, OutputFacts, AtStepFacts DEF Written, FlowInv, FlowTypeOK
  <2>2. trouble' \subseteq Results \cup {"none"}
    BY AtStepFacts DEF FlowInv, FlowTypeOK
  <2>3. QED  BY <2>1, <2>2, NextStepFacts DEF FlowInv, FlowTypeOK
<1>6. Recent' /\ Dated'
  <2>1. ASSUME NEW f \in Results
        PROVE  temp'[f] = temp[f] \/ temp'[f].by = flowRun
    BY <1>2, <1>3, OutputFacts, AtStepFacts
  <2>2. Recent'
    BY <2>1, AtStepFacts DEF FlowInv, Recent
  <2>3. QED  BY <2>1, <2>2, AtStepFacts DEF FlowInv, Dated
<1>7. MadeSoFar'
  <2> SUFFICES ASSUME NEW i \in 1..Len(Workflows[flow]),
                      Workflows[flow][i].out # "none"
               PROVE  LET out == Workflows[flow][i].out
                      IN /\ ToolDone(i)' /\ out \notin trouble' \cup disturbed
                              => temp'[out].by = flowRun
                         /\ ToolDone(i)' /\ Clean' => temp'[out] = Whole
                         /\ CopyDone(i)' /\ Clean' => recon[out] = Whole
    BY DEF MadeSoFar, Whole
  <2> DEFINE out == Workflows[flow][i].out
  <2>1. out \in Results
    BY AtStepFacts, PlanFacts
  <2>2. ~CopyDone(i)'
    BY NextStepFacts DEF CopyDone
  <2>3. trouble \subseteq trouble' /\ (Clean' => Clean /\ trouble' = {})
    BY DEF Clean
  <2>4. CASE i = flowAt
    BY <1>4, <2>1, <2>2, <2>3, <2>4, OutputFacts, AtStepFacts
  <2>5. CASE i # flowAt
    <3>1. out # AtStep.out
      BY <2>5, AtStepFacts, PlanFacts
    <3>2. temp'[out] = temp[out]
      BY <1>2, <2>1, <3>1
    <3>3. ToolDone(i)' => ToolDone(i)
      BY <2>5, NextStepFacts
    <3>4. QED  BY <2>2, <2>3, <3>2, <3>3 DEF FlowInv, MadeSoFar
  <2>6. QED  BY <2>4, <2>5
<1>8. QED  BY <1>5, <1>6, <1>7 DEF FlowInv

\* The copy of one result, made or failed.
LEMMA CopyStepInv ==
  ASSUME FlowInv, Copy \/ CopyFails
  PROVE  FlowInv'
<1>1. /\ flowPc = "copy" /\ NextStep
      /\ UNCHANGED <<flow, flowRun, runs, temp, strays, disturbed>>
      /\ flowPc' \in {"copy", "done"}
  BY NextStepFacts DEF Copy, CopyFails, NextStep
<1>2. \A f \in Results : /\ recon'[f] \in {recon[f], temp[f], Nothing}
                         /\ f # AtStep.out => recon'[f] = recon[f]
  BY AtStepFacts DEF Copy, CopyFails, Copied, FlowInv, FlowTypeOK
<1>3. trouble \subseteq trouble' /\ trouble' \subseteq Results \cup {"none"}
  BY AtStepFacts DEF Copy, CopyFails, FlowInv, FlowTypeOK
<1>4. \A f \in Results : f \in {AtStep.out} \ trouble' /\ temp[f] # Nothing =>
                           recon'[f] = temp[f]
  BY AtStepFacts DEF Copy, CopyFails, Copied, FlowInv, FlowTypeOK
<1>5. FlowTypeOK'
  <2>1. Nothing \in Content
    BY DEF Nothing, Content
  <2>2. recon' \in [Results -> Content]
    BY <2>1, AtStepFacts DEF Copy, CopyFails, Copied, FlowInv, FlowTypeOK
  <2>3. QED  BY <1>1, <1>3, <2>2, NextStepFacts DEF FlowInv, FlowTypeOK
<1>6. Recent' /\ Dated'
  <2>1. Nothing.by = 0
    BY DEF Nothing
  <2>2. Recent'
    BY <1>1, <1>2, <2>1, AtStepFacts DEF FlowInv, Recent
  <2>3. QED  BY <1>1, <1>2, <2>1, <2>2, AtStepFacts DEF FlowInv, Dated
<1>7. MadeSoFar'
  <2> SUFFICES ASSUME NEW i \in 1..Len(Workflows[flow]),
                      Workflows[flow][i].out # "none"
               PROVE  LET out == Workflows[flow][i].out
                      IN /\ out \notin trouble' \cup disturbed => temp[out].by = flowRun
                         /\ Clean' => temp[out] = Whole
                         /\ CopyDone(i)' /\ Clean' => recon'[out] = Whole
    BY <1>1 DEF MadeSoFar, Whole
  <2> DEFINE out == Workflows[flow][i].out
  <2>1. out \in Results
    BY AtStepFacts, PlanFacts
  <2>2. Clean' => Clean /\ trouble' = {}
    BY <1>1, <1>3 DEF Clean
  <2>3. /\ out \notin trouble' \cup disturbed => temp[out].by = flowRun
        /\ Clean' => temp[out] = Whole
    BY <1>1, <1>3, <2>2 DEF FlowInv, MadeSoFar, ToolDone
  <2>4. CASE i = flowAt
    <3>1. Whole # Nothing
      BY DEF Whole, Nothing
    <3>2. QED  BY <1>1, <1>4, <2>1, <2>2, <2>3, <2>4, <3>1, AtStepFacts
  <2>5. CASE i # flowAt
    <3>1. out # AtStep.out
      BY <2>5, AtStepFacts, PlanFacts
    <3>2. recon'[out] = recon[out]
      BY <1>2, <2>1, <3>1
    <3>3. CopyDone(i)' => CopyDone(i)
      BY <1>1, <2>5, NextStepFacts
    <3>4. QED  BY <1>1, <2>2, <2>3, <3>2, <3>3 DEF FlowInv, MadeSoFar
  <2>6. QED  BY <2>4, <2>5
<1>8. QED  BY <1>5, <1>6, <1>7 DEF FlowInv

\* The process dies, with or without a tool that lives on.
LEMMA FlowDiesInv ==
  ASSUME FlowInv, FlowDies
  PROVE  FlowInv'
<1>1. \/ strays' = strays
      \/ /\ strays' = strays \cup {Stray("temp", AtStep.out, Output)}
         /\ AtStep.out \in Results /\ flowPc = "tools"
  BY AtStepFacts DEF FlowDies
<1>2. \A stray \in strays' :
        \/ stray \in strays
        \/ /\ stray = [dir |-> "temp", out |-> AtStep.out, content |-> Output]
           /\ AtStep.out \in Results /\ Output \in Content /\ Output.by = flowRun
  BY <1>1, OutputFacts DEF Stray
<1>3. FlowTypeOK'
  BY <1>2, AtStepFacts DEF FlowDies, FlowInv, FlowTypeOK
<1>4. Dated'
  BY <1>2, AtStepFacts DEF FlowDies, FlowInv, Dated
<1>5. Recent' /\ MadeSoFar'
  BY DEF FlowDies, Recent, MadeSoFar
<1>6. QED  BY <1>3, <1>4, <1>5 DEF FlowInv

\* A step of another process begins: it is the youngest.
LEMMA StrayBeginsInv ==
  ASSUME FlowInv, NEW name \in DOMAIN Workflows,
         NEW k \in DOMAIN Workflows[name], StrayBegins(Workflows[name][k])
  PROVE  FlowInv'
<1> DEFINE step == Workflows[name][k]
<1>1. /\ runs' = runs + 1 /\ runs \in Nat /\ runs + 1 \in 1..MaxRuns
      /\ UNCHANGED <<flow, flowPc, flowAt, flowRun, temp, recon, trouble, disturbed>>
  BY AtStepFacts DEF StrayBegins
<1>2. step.out \in Results /\ step.in \in Results \cup {"none"}
  BY PlanFacts DEF StrayBegins
<1>3. \A dir \in {temp, recon} : /\ MadeBy(runs + 1, step, dir) \in Content
                                 /\ MadeBy(runs + 1, step, dir).by = runs + 1
  BY <1>1, <1>2, MadeFacts DEF FlowInv, FlowTypeOK
<1>4. temp[step.out] \in Content /\ temp[step.out].by <= runs
  BY <1>2 DEF FlowInv, FlowTypeOK, Dated
<1>5. ASSUME NEW stray \in strays', stray \notin strays
      PROVE  /\ stray \in [dir : {"temp", "recon"}, out : Results, content : Content]
             /\ stray.content.by <= runs + 1
  <2>1. CASE stray = Stray("temp", step.out, MadeBy(runs + 1, step, temp))
    BY <1>1, <1>2, <1>3, <2>1 DEF Stray
  <2>2. CASE stray = Stray("recon", step.out, MadeBy(runs + 1, step, recon))
    BY <1>1, <1>2, <1>3, <2>2 DEF Stray
  <2>3. CASE stray = Stray("recon", step.out, temp[step.out])
    <3>1. temp[step.out].by \in Nat
      BY <1>4 DEF Content
    <3>2. QED  BY <1>1, <1>2, <1>4, <2>3, <3>1 DEF Stray
  <2>4. QED  BY <1>5, <2>1, <2>2, <2>3 DEF StrayBegins
<1>6. FlowTypeOK'
  BY <1>1, <1>5, AtStepFacts DEF FlowInv, FlowTypeOK
<1>7. Dated'
  <2>1. /\ \A f \in Results : temp[f].by \in Nat /\ recon[f].by \in Nat
        /\ \A stray \in strays : stray.content.by \in Nat
    BY DEF FlowInv, FlowTypeOK, Content
  <2>2. QED  BY <1>1, <1>5, <2>1 DEF FlowInv, Dated
<1>8. Recent' /\ MadeSoFar'
  BY <1>1 DEF FlowInv, Recent, MadeSoFar, ToolDone, CopyDone, Clean, Whole
<1>9. QED  BY <1>6, <1>7, <1>8 DEF FlowInv

\* It ends: one result may be another one, and is disturbed then.
LEMMA StrayEndsInv ==
  ASSUME FlowInv, NEW stray \in strays, StrayEnds(stray)
  PROVE  FlowInv'
<1>1. /\ strays' \subseteq strays
      /\ UNCHANGED <<flow, flowPc, flowAt, flowRun, runs, trouble>>
      /\ disturbed \subseteq disturbed'
  BY DEF StrayEnds
<1>2. Nothing \in Content /\ Nothing.by = 0
  BY DEF Nothing, Content
<1>3. stray.out \in Results /\ stray.content \in Content /\ stray.content.by <= runs
  BY DEF FlowInv, FlowTypeOK, Dated
<1>4. /\ temp' \in [Results -> Content] /\ recon' \in [Results -> Content]
      /\ disturbed' \subseteq Results
      /\ \A f \in Results : temp'[f] \in {temp[f], stray.content, Nothing}
                            /\ recon'[f] \in {recon[f], stray.content, Nothing}
  BY <1>2, <1>3 DEF StrayEnds, FlowInv, FlowTypeOK
<1>5. \A f \in Results \ disturbed' : temp'[f] = temp[f] /\ recon'[f] = recon[f]
  BY DEF StrayEnds, FlowInv, FlowTypeOK
<1>6. FlowTypeOK'
  BY <1>1, <1>4 DEF FlowInv, FlowTypeOK
<1>7. Dated' /\ Recent'
  BY <1>1, <1>2, <1>3, <1>4, <1>5, AtStepFacts DEF FlowInv, Dated, Recent
<1>8. MadeSoFar'
  <2> SUFFICES ASSUME NEW i \in 1..Len(Workflows[flow]),
                      Workflows[flow][i].out # "none", flowPc # "idle"
               PROVE  LET out == Workflows[flow][i].out
                      IN /\ ToolDone(i) /\ out \notin trouble \cup disturbed'
                              => temp'[out].by = flowRun
                         /\ ToolDone(i) /\ Clean' => temp'[out] = Whole
                         /\ CopyDone(i) /\ Clean' => recon'[out] = Whole
    BY <1>1 DEF MadeSoFar, Whole, ToolDone, CopyDone
  <2>1. Workflows[flow][i].out \in Results /\ i \in DOMAIN Workflows[flow]
    BY AtStepFacts, PlanFacts
  <2>2. Clean' => Clean /\ Workflows[flow][i].out \notin disturbed'
    BY <1>1, <2>1 DEF Clean
  <2>3. QED  BY <1>1, <1>5, <2>1, <2>2 DEF FlowInv, MadeSoFar
<1>9. QED  BY <1>6, <1>7, <1>8 DEF FlowInv

LEMMA FlowStepInv == FlowInv /\ [FlowNext]_flowVars => FlowInv'
<1> SUFFICES ASSUME FlowInv, [FlowNext]_flowVars PROVE FlowInv'
  OBVIOUS
<1>1. CASE ToolWorks \/ ToolFails
  BY <1>1, ToolInv DEF ToolWorks, ToolFails
<1>2. CASE UNCHANGED flowVars
  BY <1>2 DEF flowVars, disk, FlowInv, FlowTypeOK, Recent, Dated, MadeSoFar,
              ToolDone, CopyDone, Whole, Clean
<1>3. QED
  BY <1>1, <1>2, RunInv, CopyStepInv, FlowDiesInv, StrayBeginsInv, StrayEndsInv
     DEF FlowNext

\* The inductive invariant of workflows: numbers, dates and what a run has
\* made so far, beside other processes and tools that outlived theirs
\* (pipeline.c:98-213).
THEOREM FlowInvariance == FlowSpec => []FlowInv
  BY FlowInitInv, FlowStepInv, PTL DEF FlowSpec

\* Every variable has its type (pipeline.c:6-25).
THEOREM FlowTypes == FlowSpec => []FlowTypeOK
<1>1. FlowInv => FlowTypeOK
  BY DEF FlowInv
<1>2. QED  BY <1>1, FlowInvariance, PTL

\* A run without trouble leaves its own results in recon, made from its own
\* data, whatever .temp held before, when nobody else wrote one of them since
\* it began (pipeline.c:128-206).
THEOREM CleanRunsAreWhole == FlowSpec => []CleanRunIsWhole
<1>1. FlowInv => CleanRunIsWhole
  <2> SUFFICES ASSUME FlowInv, flowPc = "done", Clean,
                      NEW i \in DOMAIN Workflows[flow],
                      Workflows[flow][i].out # "none"
               PROVE  recon[Workflows[flow][i].out] = Whole
    BY DEF CleanRunIsWhole, Whole
  <2>1. i \in 1..Len(Workflows[flow])
    BY AtStepFacts, PlanFacts
  <2>2. QED  BY <2>1 DEF FlowInv, MadeSoFar, CopyDone
<1>2. QED  BY <1>1, FlowInvariance, PTL

\* A copied result is no older than anything, unless its step failed or
\* somebody else wrote it.
LEMMA OlderStep ==
  ASSUME FlowInv, [FlowNext]_flowVars, NEW f \in Results,
         recon'[f].by < recon[f].by
  PROVE  f \in trouble' \cup disturbed'
<1>1. recon[f].by \in Nat
  BY DEF FlowInv, FlowTypeOK, Content
<1>2. CASE Copy
  <2>1. f = AtStep.out /\ recon'[f] = temp[f]
    BY <1>1, <1>2, AtStepFacts DEF Copy, Copied, FlowInv, FlowTypeOK
  <2>2. f \notin trouble \cup disturbed => temp[f].by = flowRun
    BY <1>2, <2>1, AtStepFacts DEF Copy, FlowInv, MadeSoFar, ToolDone
  <2>3. f \notin disturbed => recon[f].by <= flowRun
    BY <1>2 DEF Copy, FlowInv, Recent
  <2>4. UNCHANGED <<trouble, disturbed>> /\ flowRun \in Nat
    BY <1>2, AtStepFacts DEF Copy
  <2>5. QED  BY <1>1, <2>1, <2>2, <2>3, <2>4
<1>3. CASE CopyFails
  <2>1. f = AtStep.out
    BY <1>1, <1>3, AtStepFacts DEF CopyFails, FlowInv, FlowTypeOK
  <2>2. QED  BY <1>3, <2>1 DEF CopyFails
<1>4. ASSUME NEW stray \in strays, StrayEnds(stray) PROVE f \in disturbed'
  BY <1>1, <1>4 DEF StrayEnds, FlowInv, FlowTypeOK
<1>5. ASSUME UNCHANGED recon PROVE FALSE
  BY <1>1, <1>5
<1>6. QED
  BY <1>2, <1>3, <1>4, <1>5
     DEF FlowNext, Run, ToolWorks, ToolFails, FlowDies, StrayBegins, flowVars, disk

\* An older result takes the place of a newer one only when the run's step
\* for it or its copy failed, or somebody else wrote it meanwhile
\* (pipeline.c:189-206).
THEOREM NewerResultsStay == FlowSpec => OlderOnlyAfterFailure
<1>1. FlowInv /\ [FlowNext]_flowVars =>
        [\A f \in Results :
           recon'[f].by < recon[f].by => f \in trouble' \cup disturbed']_flowVars
  BY OlderStep
<1>2. QED
  BY <1>1, FlowInvariance, PTL DEF FlowSpec, OlderOnlyAfterFailure

-----------------------------------------------------------------------------
(* Commands.  The first rule that fits is the least of a set of numbers.   *)

\* A set of numbers has a least one, and Min is it.
LEMMA MinIsLeast ==
  ASSUME NEW S, S \subseteq Nat, S # {}
  PROVE  Min(S) \in S /\ \A y \in S : Min(S) <= y
<1>1. \E x \in S : \A y \in S : x <= y
  BY LeastExists
<1>2. QED  BY <1>1 DEF Min

\* What Taken says of a handler.
Wants(h) ==
  CASE h \in {"workspace_create", "workspace_open", "adapter_run",
              "run_pipeline", "dsl_execute_file", "search", "cvss",
              "report", "graph"} -> 2
    [] h \in {"knowledge_search", "knowledge_add"} -> 3
    [] h = "finding_create" -> 4
    [] OTHER -> 1

\* A rule wants at least the words that its handler takes, and no handler
\* has the name of another answer.
IsSafe(r) ==
  /\ r.least \in Nat /\ r.least >= Wants(r.handler)
  /\ r.handler \notin {"pending", "usage", "unknown"}

\* The rules one by one, first of the table, then of the chain.
LEMMA BuiltinsAreSafe ==
  /\ Len(Builtins) = 11
  /\ \A i \in 1..11 : IsSafe(Builtins[i])
<1>1. Len(Builtins) = 11
  BY DEF Builtins
<1>2. ASSUME NEW i \in 1..11 PROVE IsSafe(Builtins[i])
  BY DEF Builtins, Rule, Wants, IsSafe
<1>3. QED  BY <1>1, <1>2

LEMMA ChainIsSafe ==
  /\ Len(Chain) = 22
  /\ \A i \in 1..22 : IsSafe(Chain[i])
<1>1. Len(Chain) = 22
  BY DEF Chain
<1>2. ASSUME NEW i \in 1..22 PROVE IsSafe(Chain[i])
  BY DEF Chain, Rule, Wants, IsSafe
<1>3. QED  BY <1>1, <1>2

\* The places of two sequences one behind the other.
LEMMA Joined ==
  ASSUME NEW S, NEW a \in Seq(S), NEW b \in Seq(S)
  PROVE  /\ DOMAIN (a \o b) = 1..Len(a) + Len(b)
         /\ \A i \in DOMAIN (a \o b) :
              (a \o b)[i] = IF i <= Len(a) THEN a[i] ELSE b[i - Len(a)]
  OBVIOUS

LEMMA RulesAreSafe ==
  /\ DOMAIN Rules \subseteq Nat
  /\ \A i \in DOMAIN Rules : IsSafe(Rules[i])
<1> DEFINE S == {Builtins[i] : i \in 1..11} \cup {Chain[i] : i \in 1..22}
<1>1. Builtins \in Seq(S)
  <2>1. Builtins = [i \in 1..11 |-> Builtins[i]]
    BY DEF Builtins
  <2>2. QED  BY <2>1
<1>2. Chain \in Seq(S)
  <2>1. Chain = [i \in 1..22 |-> Chain[i]]
    BY DEF Chain
  <2>2. QED  BY <2>1
<1>3. /\ DOMAIN Rules = 1..Len(Builtins) + Len(Chain)
      /\ \A i \in DOMAIN Rules :
           Rules[i] = IF i <= Len(Builtins) THEN Builtins[i] ELSE Chain[i - Len(Builtins)]
  <2> HIDE DEF S
  <2>1. QED  BY <1>1, <1>2, Joined DEF Rules
<1>4. QED
  BY <1>3, BuiltinsAreSafe, ChainIsSafe

\* A command's answer is that of its first rule.
CommandInv ==
  /\ command \in Commands
  /\ answer = "pending" \/ answer = Answer(command)

LEMMA AnswerHasWords ==
  ASSUME NEW c \in Commands, Answer(c) \in DOMAIN Taken
  PROVE  c.argc >= Taken[Answer(c)]
<1> DEFINE fits == {i \in DOMAIN Rules : c.head \in Rules[i].heads /\ c.sub \in Rules[i].subs}
           r == Rules[Min(fits)]
<1>1. \A h \in DOMAIN Taken : /\ h \notin {"pending", "usage", "unknown"}
                              /\ Taken[h] = Wants(h)
  BY RulesAreSafe DEF Taken, Wants, IsSafe
<1>2. fits # {}
  BY <1>1 DEF Answer
<1>3. Min(fits) \in fits
  BY <1>2, RulesAreSafe, MinIsLeast
<1>4. Enough(c, r) /\ Answer(c) = r.handler
  BY <1>1, <1>2 DEF Answer
<1>5. r.least \in Nat /\ r.least >= Wants(r.handler) /\ c.argc \in Nat
  BY <1>3, RulesAreSafe DEF IsSafe, Commands
<1>6. Wants(r.handler) \in Nat
  BY DEF Wants
<1>7. QED  BY <1>1, <1>4, <1>5, <1>6 DEF Enough

\* No command reaches a handler with fewer words than the handler takes from
\* argv, whatever the words are (shell.c:130-274).
THEOREM HandlersHaveTheirWords == Spec => []ArgumentsArePresent
<1>1. Init => CommandInv
  BY DEF Init, CommandInv
<1>2. CommandInv /\ [Next]_vars => CommandInv'
  BY DEF CommandInv, Next, Execute, vars
<1>3. CommandInv => ArgumentsArePresent
  <2>1. "pending" \notin DOMAIN Taken
    BY RulesAreSafe DEF Taken, IsSafe
  <2>2. QED  BY <2>1, AnswerHasWords DEF CommandInv, ArgumentsArePresent
<1>4. QED  BY <1>1, <1>2, <1>3, PTL DEF Spec

-----------------------------------------------------------------------------
(* Scores.  Each factor of exploitability and each operation behind it     *)
(* leaves the order of its arguments.                                      *)

\* The metrics are functions from their names to letters that they have.
Metrics == {m \in [DOMAIN Letters -> AllLetters] : \A x \in DOMAIN Letters : m[x] \in Known(x)}

\* The letters of each metric.
LEMMA LetterFacts ==
  /\ DOMAIN Letters = {"av", "ac", "pr", "ui", "s", "c", "i", "a"}
  /\ Known("av") = {"N", "A", "L", "P"} /\ Known("ac") = {"L", "H"}
  /\ Known("pr") = {"N", "L", "H"} /\ Known("ui") = {"N", "R"}
  /\ Known("s") = {"U", "C"}
  /\ \A x \in {"c", "i", "a"} : Known(x) = {"N", "L", "H"}
<1>1. DOMAIN Letters = {"av", "ac", "pr", "ui", "s", "c", "i", "a"}
  BY DEF Letters
<1>2. Known("av") = {"N", "A", "L", "P"} /\ Known("pr") = {"N", "L", "H"}
  BY DEF Letters, Known
<1>3. Known("ac") = {"L", "H"} /\ Known("ui") = {"N", "R"} /\ Known("s") = {"U", "C"}
  BY DEF Letters, Known
<1>4. Known("c") = {"N", "L", "H"} /\ Known("i") = {"N", "L", "H"} /\ Known("a") = {"N", "L", "H"}
  BY DEF Letters, Known
<1>5. QED  BY <1>1, <1>2, <1>3, <1>4

\* The arithmetic stays in the integers.
LEMMA TimesType ==
  ASSUME NEW x \in Int, NEW y \in Int
  PROVE  Times(x, y) \in Int
  BY SMT DEF Times, One

LEMMA Power15Type ==
  ASSUME NEW x \in Int
  PROVE  Power15(x) \in Int
<1> DEFINE x2 == Times(x, x)
           x4 == Times(x2, x2)
           x8 == Times(x4, x4)
<1>1. x2 \in Int
  BY TimesType
<1>2. x4 \in Int
  BY <1>1, TimesType
<1>3. x8 \in Int
  BY <1>2, TimesType
<1>4. Times(Times(x8, x4), Times(x2, x)) \in Int
  BY <1>1, <1>2, <1>3, TimesType
<1>5. QED BY <1>4 DEF Power15

LEMMA ImpactType ==
  ASSUME NEW m \in Metrics
  PROVE  Impact(m, Remains) \in Int
<1>1. m.c \in {"N", "L", "H"} /\ m.i \in {"N", "L", "H"} /\ m.a \in {"N", "L", "H"}
  BY LetterFacts DEF Metrics
<1>2. Remains[m.c] \in Int /\ Remains[m.i] \in Int /\ Remains[m.a] \in Int
  BY <1>1 DEF Remains
<1>3. Iss(m, Remains) \in Int
  BY <1>2 DEF Iss
<1>4. Power15((Iss(m, Remains) - 20000) * 100) \in Int
  BY <1>3, Power15Type
<1>5. QED  BY <1>3, <1>4 DEF Impact

\* A product of numbers is in the order of each factor.
LEMMA Ordered ==
  ASSUME NEW a \in Nat, NEW b \in Nat, NEW c \in Nat, a <= b
  PROVE  a * c \in Nat /\ b * c \in Nat /\ a * c <= b * c
  OBVIOUS

\* The four factors of exploitability.
Av(m) == VectorWeight[m.av]
Ac(m) == [L |-> 77, H |-> 44][m.ac]
Pr(m) == IF m.s = "U" THEN [N |-> 85, L |-> 62, H |-> 27][m.pr]
                      ELSE [N |-> 85, L |-> 68, H |-> 50][m.pr]
Ui(m) == [N |-> 85, R |-> 62][m.ui]

LEMMA FactorTypes ==
  ASSUME NEW m \in Metrics
  PROVE  Av(m) \in Nat /\ Ac(m) \in Nat /\ Pr(m) \in Nat /\ Ui(m) \in Nat
<1>1. /\ m.av \in {"N", "A", "L", "P"} /\ m.ac \in {"L", "H"}
      /\ m.pr \in {"N", "L", "H"} /\ m.ui \in {"N", "R"} /\ m.s \in {"U", "C"}
  BY LetterFacts DEF Metrics
<1>2. QED  BY <1>1 DEF Av, Ac, Pr, Ui, VectorWeight

LEMMA ExploitabilityOrdered ==
  ASSUME NEW m \in Metrics, NEW n \in Metrics,
         Av(n) <= Av(m), Ac(n) <= Ac(m), Pr(n) <= Pr(m), Ui(n) <= Ui(m)
  PROVE  /\ Exploitability(n) \in Nat /\ Exploitability(m) \in Nat
         /\ Exploitability(n) <= Exploitability(m)
<1> DEFINE P(x) == Av(x) * Ac(x)
           Q(x) == P(x) * Pr(x)
           R(x) == Q(x) * Ui(x)
<1>1. P(n) \in Nat /\ P(m) \in Nat /\ P(n) <= P(m)
  <2>1. Av(n) * Ac(n) \in Nat /\ Av(n) * Ac(n) <= Av(m) * Ac(n)
    BY FactorTypes, Ordered
  <2>2. Ac(n) * Av(m) \in Nat /\ Ac(m) * Av(m) \in Nat /\ Ac(n) * Av(m) <= Ac(m) * Av(m)
    BY FactorTypes, Ordered
  <2>3. Ac(n) * Av(m) = Av(m) * Ac(n) /\ Ac(m) * Av(m) = Av(m) * Ac(m)
    BY FactorTypes
  <2>4. QED  BY <2>1, <2>2, <2>3
<1>2. Q(n) \in Nat /\ Q(m) \in Nat /\ Q(n) <= Q(m)
  <2> HIDE DEF P
  <2>1. P(n) * Pr(n) \in Nat /\ P(n) * Pr(n) <= P(m) * Pr(n)
    BY <1>1, FactorTypes, Ordered
  <2>2. Pr(n) * P(m) \in Nat /\ Pr(m) * P(m) \in Nat /\ Pr(n) * P(m) <= Pr(m) * P(m)
    BY <1>1, FactorTypes, Ordered
  <2>3. Pr(n) * P(m) = P(m) * Pr(n) /\ Pr(m) * P(m) = P(m) * Pr(m)
    BY <1>1, FactorTypes
  <2>4. QED  BY <2>1, <2>2, <2>3
<1>3. R(n) \in Nat /\ R(m) \in Nat /\ R(n) <= R(m)
  <2> HIDE DEF Q
  <2>1. Q(n) * Ui(n) \in Nat /\ Q(n) * Ui(n) <= Q(m) * Ui(n)
    BY <1>2, FactorTypes, Ordered
  <2>2. Ui(n) * Q(m) \in Nat /\ Ui(m) * Q(m) \in Nat /\ Ui(n) * Q(m) <= Ui(m) * Q(m)
    BY <1>2, FactorTypes, Ordered
  <2>3. Ui(n) * Q(m) = Q(m) * Ui(n) /\ Ui(m) * Q(m) = Q(m) * Ui(m)
    BY <1>2, FactorTypes
  <2>4. QED  BY <2>1, <2>2, <2>3
<1>4. /\ Exploitability(n) = (R(n) \div 100) * 822
      /\ Exploitability(m) = (R(m) \div 100) * 822
  BY DEF Exploitability, Av, Ac, Pr, Ui
<1> HIDE DEF R
<1>5. QED  BY <1>3, <1>4

\* What Capped does with a number.
LEMMA CappedFacts ==
  ASSUME NEW x \in Int
  PROVE  Capped(x) = IF x <= 10 * One THEN x ELSE 10 * One
<1> DEFINE S == {x, 10 * One}
<1>1. 10 * One \in Int
  BY SMT DEF One
<1>2. \E y \in S : \A z \in S : y <= z
  BY <1>1
<1>3. Min(S) \in S /\ \A z \in S : Min(S) <= z
  BY <1>2 DEF Min
<1>4. QED  BY <1>1, <1>3 DEF Capped

\* The last steps to the score, from the sum of its parts.
Tenths(x) == (Capped(x) + One \div 10 - 1) \div (One \div 10)
Scaled(m, x) == IF m.s = "U" THEN x ELSE x + (x \div 100) * 8

LEMMA ScoreOf ==
  ASSUME NEW m \in Metrics
  PROVE  LET sum == Impact(m, Remains) + Exploitability(m)
         IN BaseScore(m, Remains) =
              IF Impact(m, Remains) <= 0 THEN 0
              ELSE Tenths(Scaled(m, sum))
  BY DEF BaseScore, Scaled, Zeroed, Tenths

\* Capping and rounding up to a tenth leave the order, and end at 100.
LEMMA RoundedOrdered ==
  ASSUME NEW x \in Int, NEW y \in Int, x <= y
  PROVE  /\ Tenths(x) <= Tenths(y)
         /\ x >= 0 => Tenths(x) \in 0..100
<1> DEFINE most == 10 * One
<1>1. most \in Nat /\ most = 1000000000 /\ One \div 10 = 10000000
  BY SMT DEF One
<1>2. /\ Capped(x) = IF x <= most THEN x ELSE most
      /\ Capped(y) = IF y <= most THEN y ELSE most
  BY CappedFacts, SMT
<1>3. most \in Nat
  BY <1>1, SMT
<1> HIDE DEF most
<1>4. /\ Capped(x) \in Int /\ Capped(y) \in Int /\ Capped(x) <= Capped(y)
      /\ Capped(x) <= most /\ (x >= 0 => Capped(x) >= 0)
  BY <1>2, <1>3, SMT
<1>5. /\ Tenths(x) = (Capped(x) + 10000000 - 1) \div 10000000
      /\ Tenths(y) = (Capped(y) + 10000000 - 1) \div 10000000
  BY <1>1, SMT DEF Tenths
<1>6. ASSUME NEW c \in Int, NEW d \in Int, c <= d, c <= 1000000000
      PROVE  /\ (c + 10000000 - 1) \div 10000000 <= (d + 10000000 - 1) \div 10000000
             /\ c >= 0 => (c + 10000000 - 1) \div 10000000 \in 0..100
  BY ONLY <1>6, SMT
<1>7. PICK c \in Int, d \in Int : c = Capped(x) /\ d = Capped(y)
  BY <1>4, SMT
<1>8. /\ c <= d /\ c <= 1000000000 /\ (x >= 0 => c >= 0)
      /\ Tenths(x) = (c + 10000000 - 1) \div 10000000
      /\ Tenths(y) = (d + 10000000 - 1) \div 10000000
  BY <1>1, <1>4, <1>5, <1>7, SMT
<1>9. QED  BY <1>6, <1>8, SMT

\* Vectors of the same impact are in the order of their factors.
LEMMA ScoreOrdered ==
  ASSUME NEW m \in Metrics, NEW n \in Metrics, m.s = n.s,
         Impact(n, Remains) = Impact(m, Remains),
         Av(n) <= Av(m), Ac(n) <= Ac(m), Pr(n) <= Pr(m), Ui(n) <= Ui(m)
  PROVE  BaseScore(n, Remains) <= BaseScore(m, Remains)
<1> DEFINE x == Impact(n, Remains) + Exploitability(n)
           y == Impact(m, Remains) + Exploitability(m)
<1>1. x \in Int /\ y \in Int /\ x <= y
  BY ImpactType, ExploitabilityOrdered
<1>2. /\ BaseScore(n, Remains) =
           IF Impact(n, Remains) <= 0 THEN 0
           ELSE Tenths(Scaled(n, x))
      /\ BaseScore(m, Remains) =
           IF Impact(n, Remains) <= 0 THEN 0
           ELSE Tenths(Scaled(m, y))
  BY ScoreOf
<1>3. Scaled(n, x) \in Int /\ Scaled(m, y) \in Int /\ Scaled(n, x) <= Scaled(m, y)
  <2> HIDE DEF x, y
  <2>1. QED  BY <1>1 DEF Scaled
<1> HIDE DEF x, y
<1>4. Tenths(Scaled(n, x)) <= Tenths(Scaled(m, y))
  BY <1>3, RoundedOrdered
<1>5. QED  BY <1>2, <1>4

LEMMA ScoreType ==
  ASSUME NEW m \in Metrics
  PROVE  BaseScore(m, Remains) \in 0..100
<1> DEFINE x == Impact(m, Remains) + Exploitability(m)
<1>1. Impact(m, Remains) \in Int
  BY ImpactType
<1>2. Exploitability(m) \in Nat
  BY FactorTypes, ExploitabilityOrdered
<1>3. CASE Impact(m, Remains) <= 0
  BY <1>3, ScoreOf
<1>4. CASE Impact(m, Remains) > 0
  <2>1. x \in Nat
    BY <1>1, <1>2, <1>4
  <2>2. BaseScore(m, Remains) = Tenths(Scaled(m, x))
    BY <1>1, <1>4, ScoreOf
  <2> HIDE DEF x
  <2>3. Scaled(m, x) \in Nat
    BY <2>1 DEF Scaled
  <2>4. QED  BY <2>2, <2>3, RoundedOrdered
<1>5. QED  BY <1>1, <1>3, <1>4

\* The letters of a metric of exploitability are in the order of their weights.
LEMMA HarderWeighsLess ==
  ASSUME NEW m \in Metrics, NEW k \in {"av", "ac", "pr", "ui"},
         NEW x \in DOMAIN Letters[k], NEW y \in DOMAIN Letters[k],
         x < y, m[k] = Letters[k][x]
  PROVE  LET n == [m EXCEPT ![k] = Letters[k][y]]
         IN /\ n \in Metrics /\ n.s = m.s
            /\ Impact(n, Remains) = Impact(m, Remains)
            /\ Av(n) <= Av(m) /\ Ac(n) <= Ac(m) /\ Pr(n) <= Pr(m) /\ Ui(n) <= Ui(m)
<1> DEFINE n == [m EXCEPT ![k] = Letters[k][y]]
<1>1. k \in DOMAIN Letters
  BY LetterFacts
<1>2. Letters[k][y] \in Known(k) /\ Letters[k][y] \in AllLetters
  BY <1>1 DEF Known, AllLetters
<1>3. n \in Metrics
  BY <1>1, <1>2 DEF Metrics
<1>4. DOMAIN m = {"av", "ac", "pr", "ui", "s", "c", "i", "a"}
  BY LetterFacts DEF Metrics
<1>5. \A j \in {"av", "ac", "pr", "ui", "s", "c", "i", "a"} \ {k} : n[j] = m[j]
  BY <1>4
<1>6. n[k] = Letters[k][y]
  BY <1>1, <1>4, LetterFacts
<1>7. n.s = m.s /\ n.c = m.c /\ n.i = m.i /\ n.a = m.a
  BY <1>5
<1>8. Impact(n, Remains) = Impact(m, Remains)
  BY <1>7 DEF Impact, Iss
<1>9. Av(n) <= Av(m) /\ Ac(n) <= Ac(m) /\ Pr(n) <= Pr(m) /\ Ui(n) <= Ui(m)
  <2>1. CASE k = "av"
    <3>1. Ac(n) = Ac(m) /\ Pr(n) = Pr(m) /\ Ui(n) = Ui(m)
      BY <1>5, <2>1 DEF Ac, Pr, Ui
    <3>2. Av(n) <= Av(m)
      BY <1>6, <2>1 DEF Av, VectorWeight, Letters
    <3>3. QED  BY <3>1, <3>2, FactorTypes
  <2>2. CASE k = "ac"
    <3>1. Av(n) = Av(m) /\ Pr(n) = Pr(m) /\ Ui(n) = Ui(m)
      BY <1>5, <2>2 DEF Av, Pr, Ui
    <3>2. Ac(n) <= Ac(m)
      BY <1>6, <2>2 DEF Ac, Letters
    <3>3. QED  BY <3>1, <3>2, FactorTypes
  <2>3. CASE k = "pr"
    <3>1. Av(n) = Av(m) /\ Ac(n) = Ac(m) /\ Ui(n) = Ui(m)
      BY <1>5, <2>3 DEF Av, Ac, Ui
    <3>2. Pr(n) <= Pr(m)
      BY <1>6, <1>7, <2>3 DEF Pr, Letters
    <3>3. QED  BY <3>1, <3>2, FactorTypes
  <2>4. CASE k = "ui"
    <3>1. Av(n) = Av(m) /\ Ac(n) = Ac(m) /\ Pr(n) = Pr(m)
      BY <1>5, <2>4 DEF Av, Ac, Pr
    <3>2. Ui(n) <= Ui(m)
      BY <1>6, <2>4 DEF Ui, Letters
    <3>3. QED  BY <3>1, <3>2, FactorTypes
  <2>5. QED  BY <2>1, <2>2, <2>3, <2>4
<1>10. QED  BY <1>3, <1>7, <1>8, <1>9

\* Before the score is computed it is 0.
CvssInv ==
  /\ metrics \in Metrics
  /\ cvssPhase \in {"parsing", "scored"}
  /\ score = IF cvssPhase = "scored" THEN BaseScore(metrics, Remains) ELSE 0

LEMMA CvssInitInv == CvssInit => CvssInv
<1>1. [m \in DOMAIN Letters |-> Letters[m][1]] \in Metrics
  <2>1. \A m \in DOMAIN Letters : 1 \in DOMAIN Letters[m]
    BY DEF Letters
  <2>2. \A m \in DOMAIN Letters : Letters[m][1] \in Known(m) /\ Letters[m][1] \in AllLetters
    BY <2>1 DEF Known, AllLetters
  <2>3. QED  BY <2>2 DEF Metrics
<1>2. QED  BY <1>1 DEF CvssInit, CvssInv

LEMMA CvssStepInv == CvssInv /\ [CvssNext]_cvssVars => CvssInv'
<1> SUFFICES ASSUME CvssInv, [CvssNext]_cvssVars PROVE CvssInv'
  OBVIOUS
<1>1. ASSUME NEW m \in DOMAIN Letters, NEW letter \in AllLetters,
             ReadToken(m, letter)
      PROVE  CvssInv'
  BY <1>1 DEF ReadToken, CvssInv, Metrics
<1>2. CASE Calculate
  BY <1>2 DEF Calculate, CvssInv
<1>3. CASE UNCHANGED cvssVars
  BY <1>3 DEF cvssVars, CvssInv
<1>4. QED  BY <1>1, <1>2, <1>3 DEF CvssNext

LEMMA CvssInvTypes == CvssInv => CvssTypeOK
  BY ScoreType DEF CvssInv, CvssTypeOK, Metrics

\* The metrics are always a vector that the parser knows, and the score is
\* its base score (cvss.c:53-215).
THEOREM CvssInvariance == CvssSpec => []CvssInv
  BY CvssInitInv, CvssStepInv, PTL DEF CvssSpec

\* Of two vectors that differ in one metric of exploitability, the one that
\* asks more of the attacker never scores higher (cvss.c:65-120).
THEOREM HarderNeverWorse == CvssSpec => []HarderIsNoWorse
<1>1. CvssInv => HarderIsNoWorse
  <2> SUFFICES ASSUME CvssInv, cvssPhase = "scored",
                      NEW m \in {"av", "ac", "pr", "ui"},
                      NEW x \in DOMAIN Letters[m], NEW y \in DOMAIN Letters[m],
                      x < y, metrics[m] = Letters[m][x]
               PROVE  BaseScore([metrics EXCEPT ![m] = Letters[m][y]], Remains) <= score
    BY DEF HarderIsNoWorse
  <2> DEFINE n == [metrics EXCEPT ![m] = Letters[m][y]]
  <2>1. metrics \in Metrics /\ score = BaseScore(metrics, Remains)
    BY DEF CvssInv
  <2>2. /\ n \in Metrics /\ n.s = metrics.s
        /\ Impact(n, Remains) = Impact(metrics, Remains)
        /\ Av(n) <= Av(metrics) /\ Ac(n) <= Ac(metrics)
        /\ Pr(n) <= Pr(metrics) /\ Ui(n) <= Ui(metrics)
    BY <2>1, HarderWeighsLess
  <2> HIDE DEF n
  <2>3. BaseScore(n, Remains) <= BaseScore(metrics, Remains)
    BY <2>1, <2>2, ScoreOrdered
  <2>4. QED  BY <2>1, <2>3 DEF n
<1>2. QED  BY <1>1, CvssInvariance, PTL

-----------------------------------------------------------------------------
(* The configuration                                                       *)

Entry == [key : Keys, value : Values]

\* The first n entries: whether they hold key k, what they answer for it, and
\* whether none of them spoils it.
HasTo(es, n, k) == \E i \in 1..n : es[i].key = k
GetTo(es, n, k) == {es[i].value : i \in {i \in 1..n : IsFirst(es, i, k)}}
UnspoiltTo(es, n, k) ==
  \A i \in 1..n :
    \/ Plain(es[i])
    \/ /\ es[i].key # k
       /\ \A l \in DOMAIN Printed(es[i]) : Printed(es[i])[l].key # k

\* While a save is under way that has lost nothing so far, the file answers as
\* the entries do that it has dealt with, for the keys that they do not spoil.
SavedSoFar ==
  /\ Saving => kept = <<>> /\ at <= Len(entries)
  /\ mode = "saving" =>
       \A k \in Keys : UnspoiltTo(entries, at, k) =>
         /\ HasTo(file, Len(file), k) <=> HasTo(entries, at, k)
         /\ Get(file, k) = GetTo(entries, at, k)

ConfigInv == ConfigTypeOK /\ EntriesFit /\ SavedSoFar /\ SavedIsKept

USE FilesAssumption, FirstCapacityAssumption, KeysAssumption

LEMMA ConfigInitInv == ConfigInit => ConfigInv
<1> SUFFICES ASSUME ConfigInit PROVE ConfigInv
  OBVIOUS
<1>1. <<>> \in Seq(Entry) /\ Len(<<>>) = 0
  OBVIOUS
<1>2. ConfigTypeOK
  BY <1>1 DEF ConfigInit, ConfigTypeOK, Entry
<1>3. EntriesFit /\ SavedSoFar /\ SavedIsKept
  BY <1>1 DEF ConfigInit, EntriesFit, SavedSoFar, Saving, SavedIsKept
<1>4. QED  BY <1>2, <1>3 DEF ConfigInv

\* Appending keeps the array within its capacity.
LEMMA AppendFits ==
  ASSUME ConfigTypeOK, EntriesFit, NEW k \in Keys, NEW v \in Values,
         AppendEntry(k, v)
  PROVE  /\ entries' = Append(entries, [key |-> k, value |-> v])
         /\ entries' \in Seq(Entry) /\ Len(entries') = Len(entries) + 1
         /\ capacity' \in Nat /\ Len(entries') <= capacity'
<1>1. entries \in Seq(Entry) /\ [key |-> k, value |-> v] \in Entry
  BY DEF ConfigTypeOK, Entry
<1>2. /\ entries' = Append(entries, [key |-> k, value |-> v])
      /\ entries' \in Seq(Entry) /\ Len(entries') = Len(entries) + 1
      /\ Len(entries) \in Nat
  BY <1>1 DEF AppendEntry
<1>3. capacity \in Nat /\ Len(entries) <= capacity
  BY DEF ConfigTypeOK, EntriesFit
<1>4. capacity' \in Nat /\ Len(entries) + 1 <= capacity'
  <2>1. CASE Len(entries) < capacity
    BY <1>2, <1>3, <2>1 DEF AppendEntry, Full
  <2>2. CASE capacity = 0
    BY <1>2, <1>3, <2>2 DEF AppendEntry, Full
  <2>3. CASE capacity # 0 /\ Len(entries) = capacity
    BY <1>2, <1>3, <2>3 DEF AppendEntry, Full
  <2>4. QED  BY <1>2, <1>3, <2>1, <2>2, <2>3
<1>5. QED  BY <1>2, <1>4

\* A line that load does not skip is an entry.
LEMMA LineType ==
  ASSUME NEW line \in Lines, line # Skipped
  PROVE  line.key \in Keys /\ line.value \in Values
BY DEF Lines

\* What an array answers depends on its entries alone.
LEMMA GetAppend ==
  ASSUME NEW S, NEW es \in Seq(S), NEW line \in S, NEW key
  PROVE  Get(Append(es, line), key) =
           IF key = line.key /\ \A i \in DOMAIN es : es[i].key # key
           THEN {line.value} ELSE Get(es, key)
<1> DEFINE more == Append(es, line)
<1>1. /\ Len(es) \in Nat /\ DOMAIN es = 1..Len(es)
      /\ DOMAIN more = 1..Len(es) + 1
      /\ \A i \in DOMAIN es : more[i] = es[i]
      /\ more[Len(es) + 1] = line
  OBVIOUS
<1> HIDE DEF more
<1>2. \A i \in DOMAIN es : IsFirst(more, i, key) <=> IsFirst(es, i, key)
  BY <1>1 DEF IsFirst
<1>3. IsFirst(more, Len(es) + 1, key) <=>
        key = line.key /\ \A i \in DOMAIN es : es[i].key # key
  <2>1. 1..(Len(es) + 1) - 1 = DOMAIN es
    BY <1>1
  <2>2. IsFirst(more, Len(es) + 1, key) <=>
          line.key = key /\ \A i \in DOMAIN es : more[i].key # key
    BY <1>1, <2>1 DEF IsFirst
  <2>3. QED  BY <1>1, <2>2
<1>4. DOMAIN more = DOMAIN es \cup {Len(es) + 1}
  BY <1>1
<1>5. CASE key = line.key /\ \A i \in DOMAIN es : es[i].key # key
  <2>1. {i \in DOMAIN more : IsFirst(more, i, key)} = {Len(es) + 1}
    BY <1>1, <1>2, <1>3, <1>4, <1>5 DEF IsFirst
  <2>2. Get(more, key) = {more[i].value : i \in {Len(es) + 1}}
    BY <2>1 DEF Get
  <2>3. QED  BY <2>2, <1>1, <1>5 DEF more
<1>6. CASE ~(key = line.key /\ \A i \in DOMAIN es : es[i].key # key)
  <2>1. {i \in DOMAIN more : IsFirst(more, i, key)}
          = {i \in DOMAIN es : IsFirst(es, i, key)}
    BY <1>2, <1>3, <1>4, <1>6
  <2>2. Get(more, key) = Get(es, key)
    BY <2>1, <1>1 DEF Get
  <2>3. QED  BY <2>2, <1>6 DEF more
<1>7. QED  BY <1>5, <1>6 DEF more

\* Lines without a key change nothing for it.
LEMMA GetOther ==
  ASSUME NEW f \in Seq(Lines), NEW ls \in Seq(Lines), NEW k,
         \A l \in DOMAIN ls : ls[l].key # k
  PROVE  /\ Get(f \o ls, k) = Get(f, k)
         /\ HasTo(f \o ls, Len(f \o ls), k) <=> HasTo(f, Len(f), k)
<1> DEFINE more == f \o ls
<1>1. /\ Len(f) \in Nat /\ Len(ls) \in Nat /\ Len(more) = Len(f) + Len(ls)
      /\ DOMAIN f = 1..Len(f) /\ DOMAIN more = 1..Len(f) + Len(ls)
      /\ \A i \in DOMAIN f : more[i] = f[i]
      /\ \A i \in DOMAIN more \ DOMAIN f : more[i] = ls[i - Len(f)]
                                         /\ i - Len(f) \in DOMAIN ls
  OBVIOUS
<1> HIDE DEF more
<1>2. \A i \in DOMAIN f : IsFirst(more, i, k) <=> IsFirst(f, i, k)
  <2> SUFFICES ASSUME NEW i \in DOMAIN f
               PROVE  IsFirst(more, i, k) <=> IsFirst(f, i, k)
    OBVIOUS
  <2>1. more[i] = f[i] /\ \A j \in 1..i - 1 : more[j] = f[j]
    BY <1>1
  <2>2. QED  BY <2>1 DEF IsFirst
<1>3. \A i \in DOMAIN more \ DOMAIN f : more[i].key # k
  BY <1>1
<1>4. {i \in DOMAIN more : IsFirst(more, i, k)} = {i \in DOMAIN f : IsFirst(f, i, k)}
  BY <1>1, <1>2, <1>3 DEF IsFirst
<1>5. Get(more, k) = Get(f, k)
  BY <1>1, <1>4 DEF Get
<1>6. HasTo(more, Len(more), k) <=> HasTo(f, Len(f), k)
  BY <1>1, <1>3 DEF HasTo
<1>7. QED  BY <1>5, <1>6 DEF more

\* One entry more.
LEMMA GetToNext ==
  ASSUME NEW es, NEW n \in Nat, NEW k
  PROVE  /\ HasTo(es, n + 1, k) <=> HasTo(es, n, k) \/ es[n + 1].key = k
         /\ GetTo(es, n + 1, k) =
              IF es[n + 1].key = k /\ ~HasTo(es, n, k)
              THEN {es[n + 1].value} ELSE GetTo(es, n, k)
<1>1. 1..n + 1 = 1..n \cup {n + 1} /\ (n + 1) - 1 = n
  OBVIOUS
<1>2. HasTo(es, n + 1, k) <=> HasTo(es, n, k) \/ es[n + 1].key = k
  BY <1>1 DEF HasTo
<1>3. IsFirst(es, n + 1, k) <=> es[n + 1].key = k /\ ~HasTo(es, n, k)
  BY <1>1 DEF IsFirst, HasTo
<1>4. CASE es[n + 1].key = k /\ ~HasTo(es, n, k)
  <2>1. {i \in 1..n + 1 : IsFirst(es, i, k)} = {n + 1}
    BY <1>1, <1>3, <1>4 DEF IsFirst, HasTo
  <2>2. QED  BY <1>2, <1>4, <2>1 DEF GetTo
<1>5. CASE ~(es[n + 1].key = k /\ ~HasTo(es, n, k))
  <2>1. {i \in 1..n + 1 : IsFirst(es, i, k)} = {i \in 1..n : IsFirst(es, i, k)}
    BY <1>1, <1>3, <1>5
  <2>2. QED  BY <1>2, <1>5, <2>1 DEF GetTo
<1>6. QED  BY <1>4, <1>5

\* u is es with value v at place i.
Updated(u, es, i, v) == u = [es EXCEPT ![i].value = v]

LEMMA GetUpdate ==
  ASSUME NEW es \in Seq(Entry), NEW k \in Keys, NEW v \in Values, NEW key,
         NEW i \in DOMAIN es, IsFirst(es, i, k),
         NEW upd, Updated(upd, es, i, v)
  PROVE  Get(upd, key) = IF key = k THEN {v} ELSE Get(es, key)
<1>1. Len(es) \in Nat /\ DOMAIN es = 1..Len(es) /\ DOMAIN upd = DOMAIN es
  BY DEF Updated
<1>2. \A j \in DOMAIN es :
        /\ upd[j].key = es[j].key
        /\ upd[j].value = IF j = i THEN v ELSE es[j].value
  <2> SUFFICES ASSUME NEW j \in DOMAIN es
               PROVE  /\ upd[j].key = es[j].key
                      /\ upd[j].value = IF j = i THEN v ELSE es[j].value
    OBVIOUS
  <2>1. es[j] \in Entry
    BY <1>1
  <2>2. upd[j] = IF j = i THEN [es[j] EXCEPT !.value = v] ELSE es[j]
    BY DEF Updated
  <2>3. QED  BY <2>1, <2>2 DEF Entry
<1>3. \A j \in DOMAIN es : IsFirst(upd, j, key) <=> IsFirst(es, j, key)
  <2> SUFFICES ASSUME NEW j \in DOMAIN es
               PROVE  IsFirst(upd, j, key) <=> IsFirst(es, j, key)
    OBVIOUS
  <2>1. \A l \in 1..j - 1 : l \in DOMAIN es
    BY <1>1
  <2>2. QED  BY <1>2, <2>1 DEF IsFirst
<1>4. {j \in DOMAIN upd : IsFirst(upd, j, key)}
        = {j \in DOMAIN es : IsFirst(es, j, key)}
  BY <1>1, <1>3
<1>5. CASE key = k
  <2>1. ASSUME NEW j \in DOMAIN es, IsFirst(es, j, key) PROVE j = i
    <3>1. i \in Nat /\ j \in Nat /\ i >= 1 /\ j >= 1
      BY <1>1
    <3>2. ~(i < j) /\ ~(j < i)
      BY <1>5, <2>1, <3>1 DEF IsFirst
    <3>3. QED  BY <3>1, <3>2
  <2>2. {j \in DOMAIN es : IsFirst(es, j, key)} = {i}
    BY <1>5, <2>1
  <2>3. Get(upd, key) = {upd[j].value : j \in {i}}
    BY <1>4, <2>2 DEF Get
  <2>4. Get(upd, key) = {v}
    BY <2>3, <1>2
  <2>5. QED  BY <2>4, <1>5
<1>6. CASE key # k
  <2>1. \A j \in DOMAIN es :
          IsFirst(es, j, key) => upd[j].value = es[j].value
    BY <1>2, <1>6 DEF IsFirst
  <2>2. Get(upd, key) = Get(es, key)
    BY <1>4, <2>1 DEF Get
  <2>3. QED  BY <2>2, <1>6
<1>7. QED  BY <1>5, <1>6

-----------------------------------------------------------------------------
(* The configuration: steps                                                *)

LEMMA ConfigSetInv ==
  ASSUME ConfigInv, NEW k \in Keys, NEW v \in Values, ConfigSet(k, v)
  PROVE  ConfigInv'
<1> USE DEF ConfigInv
<1>1. entries \in Seq(Entry) /\ Len(entries) \in Nat
  BY DEF ConfigTypeOK, Entry
<1>2. /\ entries' \in Seq(Entry) /\ capacity' \in Nat
      /\ Len(entries') <= capacity'
  <2>1. CASE \E i \in DOMAIN entries :
               /\ entries' = [entries EXCEPT ![i].value = v]
               /\ UNCHANGED capacity
    <3> PICK i \in DOMAIN entries :
          entries' = [entries EXCEPT ![i].value = v] /\ UNCHANGED capacity
      BY <2>1
    <3>1. entries[i] \in Entry
      BY <1>1
    <3>2. [entries[i] EXCEPT !.value = v] \in Entry
      BY <3>1 DEF Entry
    <3>3. entries' \in Seq(Entry) /\ Len(entries') = Len(entries)
      BY <1>1, <3>2
    <3>4. QED  BY <3>3 DEF ConfigTypeOK, EntriesFit
  <2>2. CASE AppendEntry(k, v)
    BY <2>2, AppendFits
  <2>3. QED  BY <2>1, <2>2 DEF ConfigSet
<1>3. UNCHANGED <<file, mode, at, kept>> /\ mode = "idle"
  BY DEF ConfigSet
<1>4. QED
  BY <1>2, <1>3
     DEF ConfigTypeOK, Entry, EntriesFit, SavedSoFar, Saving, SavedIsKept

LEMMA LoadLineInv ==
  ASSUME ConfigInv, LoadLine
  PROVE  ConfigInv'
<1> USE DEF ConfigInv
<1> DEFINE line == file[at + 1]
<1>1. line \in Lines /\ at + 1 \in Nat
  BY DEF LoadLine, ConfigTypeOK
<1>2. /\ entries' \in Seq(Entry) /\ capacity' \in Nat
      /\ Len(entries') <= capacity'
  <2>1. CASE line = Skipped
    BY <2>1 DEF LoadLine, IsEntry, ConfigTypeOK, EntriesFit, Entry
  <2>2. CASE line # Skipped
    <3>1. line.key \in Keys /\ line.value \in Values
      BY <1>1, <2>2, LineType
    <3>2. AppendEntry(line.key, line.value)
      BY <2>2 DEF LoadLine, IsEntry, Loaded
    <3>3. QED  BY <3>1, <3>2, AppendFits
  <2>3. QED  BY <2>1, <2>2
<1>3. UNCHANGED <<file, mode, kept>> /\ mode = "loading" /\ at' \in Nat
  BY <1>1 DEF LoadLine
<1>4. QED
  BY <1>2, <1>3
     DEF ConfigTypeOK, Entry, EntriesFit, SavedSoFar, Saving, SavedIsKept

LEMMA SaveEntryInv ==
  ASSUME ConfigInv, SaveEntry
  PROVE  ConfigInv'
<1> USE DEF ConfigInv
<1> DEFINE e == entries[at + 1]
<1>1. /\ entries \in Seq(Entry) /\ file \in Seq(Lines) /\ at \in Nat
      /\ at < Len(entries) /\ e \in Entry /\ e \in Lines
      /\ kept = <<>>
  <2>1. entries \in Seq(Entry) /\ file \in Seq(Lines) /\ at \in Nat
    BY DEF ConfigTypeOK, Entry
  <2>2. at < Len(entries) /\ kept = <<>>
    BY DEF SaveEntry, SavedSoFar
  <2>3. entries[at + 1] \in Entry
    BY <2>1, <2>2
  <2>4. QED  BY <2>1, <2>2, <2>3 DEF Lines, Entry
<1>2. Printed(e) \in Seq(Lines)
  BY <1>1, AsReadAssumption DEF Printed, Entry
<1>3. PICK n \in 1..Len(Printed(e)) + 1 :
        /\ n = 1 \/ mode = "losing"
        /\ file' = file \o SubSeq(Printed(e), n, Len(Printed(e)))
  BY DEF SaveEntry, NextToSave
<1>4. SubSeq(Printed(e), n, Len(Printed(e))) \in Seq(Lines)
  BY <1>2, <1>3
<1>5. /\ file' \in Seq(Lines) /\ at' = at + 1
      /\ UNCHANGED <<entries, capacity, mode, kept>>
  BY <1>1, <1>3, <1>4 DEF SaveEntry
<1>6. ConfigTypeOK' /\ EntriesFit' /\ SavedIsKept'
  BY <1>1, <1>5 DEF ConfigTypeOK, EntriesFit, SavedIsKept
<1>7. ASSUME mode = "saving", NEW k \in Keys, UnspoiltTo(entries, at + 1, k)
      PROVE  /\ HasTo(file', Len(file'), k) <=> HasTo(entries, at + 1, k)
             /\ Get(file', k) = GetTo(entries, at + 1, k)
  <2>1. file' = file \o Printed(e)
    BY <1>2, <1>3, <1>7
  <2>2. UnspoiltTo(entries, at, k) /\ at + 1 \in 1..at + 1
    <3>1. at + 1 \in 1..at + 1 /\ \A i \in 1..at : i \in 1..at + 1
      BY <1>1
    <3>2. QED  BY ONLY <1>7, <3>1 DEF UnspoiltTo
  <2>3. /\ HasTo(file, Len(file), k) <=> HasTo(entries, at, k)
        /\ Get(file, k) = GetTo(entries, at, k)
    BY <1>7, <2>2 DEF SavedSoFar
  <2>4. CASE Plain(e)
    <3>1. file' = Append(file, e)
      BY <1>1, <2>1, <2>4 DEF Plain
    <3>2. Get(file', k) =
            IF k = e.key /\ \A i \in DOMAIN file : file[i].key # k
            THEN {e.value} ELSE Get(file, k)
      <4>1. Get(Append(file, e), k) =
              IF k = e.key /\ \A i \in DOMAIN file : file[i].key # k
              THEN {e.value} ELSE Get(file, k)
        <5>1. file \in Seq(Lines) /\ e \in Lines
          BY <1>1
        <5>2. \A es \in Seq(Lines) : \A line \in Lines :
                Get(Append(es, line), k) =
                  IF k = line.key /\ \A i \in DOMAIN es : es[i].key # k
                  THEN {line.value} ELSE Get(es, k)
          BY ONLY GetAppend
        <5> HIDE DEF e
        <5>3. QED  BY ONLY <5>1, <5>2
      <4>2. QED  BY ONLY <3>1, <4>1
    <3>3. HasTo(file, Len(file), k) <=> \E i \in DOMAIN file : file[i].key = k
      <4>1. DOMAIN file = 1..Len(file)
        BY <1>1
      <4>2. QED  BY ONLY <4>1 DEF HasTo
    <3>4. HasTo(file', Len(file'), k) <=> HasTo(file, Len(file), k) \/ e.key = k
      <4>1. /\ Len(file') = Len(file) + 1 /\ file'[Len(file) + 1] = e
            /\ \A i \in 1..Len(file) : file'[i] = file[i]
        BY <1>1, <3>1
      <4>2. Len(file) \in Nat
        BY <1>1
      <4>3. 1..Len(file) + 1 = 1..Len(file) \cup {Len(file) + 1}
        BY <4>2
      <4>4. QED  BY ONLY <4>1, <4>3 DEF HasTo
    <3>5. QED  BY <1>1, <2>3, <3>2, <3>3, <3>4, GetToNext
  <2>5. CASE e.key # k /\ \A l \in DOMAIN Printed(e) : Printed(e)[l].key # k
    <3>1. /\ Get(file', k) = Get(file, k)
          /\ HasTo(file', Len(file'), k) <=> HasTo(file, Len(file), k)
      BY <1>1, <1>2, <2>1, <2>5, GetOther
    <3>2. QED  BY <1>1, <2>3, <2>5, <3>1, GetToNext
  <2>6. QED  BY <1>7, <2>2, <2>4, <2>5 DEF UnspoiltTo
<1>8. SavedSoFar'
  <2>1. at + 1 <= Len(entries) /\ kept' = <<>>
    BY <1>1, <1>5
  <2>2. \A k \in Keys : UnspoiltTo(entries, at, k)' <=> UnspoiltTo(entries, at + 1, k)
    BY <1>5 DEF UnspoiltTo, Plain, Printed
  <2>3. \A k \in Keys : /\ HasTo(entries, at, k)' <=> HasTo(entries, at + 1, k)
                       /\ GetTo(entries, at, k)' = GetTo(entries, at + 1, k)
    BY <1>5 DEF HasTo, GetTo, IsFirst
  <2>4. QED  BY <1>5, <1>7, <2>1, <2>2, <2>3 DEF SavedSoFar, Get, IsFirst, HasTo
<1>9. QED  BY <1>6, <1>8

LEMMA SaveEndInv ==
  ASSUME ConfigInv, SaveEnd
  PROVE  ConfigInv'
<1> USE DEF ConfigInv
<1> DEFINE ks == {k \in Keys : Unspoilt(entries, k)}
           answers == [k \in ks |-> Get(entries, k)]
<1>1. /\ entries \in Seq(Entry) /\ file \in Seq(Lines) /\ at = Len(entries)
      /\ kept' = IF mode = "losing" THEN <<>> ELSE <<answers>>
      /\ UNCHANGED <<entries, capacity, file>> /\ mode' = "idle" /\ at' = 0
  BY DEF SaveEnd, ConfigTypeOK, Entry
<1>2. ASSUME NEW k \in Keys PROVE Get(entries, k) \in SUBSET Values
  <2>1. \A i \in DOMAIN entries : entries[i].value \in Values
    <3>1. \A i \in DOMAIN entries : entries[i] \in Entry
      BY <1>1
    <3>2. QED  BY <3>1 DEF Entry
  <2>2. QED  BY <2>1 DEF Get
<1>3. answers \in [ks -> SUBSET Values] /\ ks \in SUBSET Keys
  BY <1>2
<1>4. kept' # <<>> => mode = "saving" /\ kept'[1] = answers
  BY <1>1 DEF SaveEnd, Saving
<1>5. ConfigTypeOK' /\ EntriesFit' /\ SavedSoFar'
  BY <1>1, <1>3, <1>4 DEF ConfigTypeOK, EntriesFit, SavedSoFar, Saving
<1>6. ASSUME mode = "saving", NEW k \in ks
      PROVE  Get(file, k) = Get(entries, k)
  <2>1. DOMAIN entries = 1..at
    BY <1>1
  <2>2. UnspoiltTo(entries, at, k)
    BY <1>6, <2>1 DEF Unspoilt, UnspoiltTo
  <2>3. Get(file, k) = GetTo(entries, at, k)
    BY <1>6, <2>2 DEF SavedSoFar
  <2>4. QED  BY <2>1, <2>3 DEF Get, GetTo
<1>7. SavedIsKept'
  <2>1. \A k \in Keys : Get(file, k)' = Get(file, k)
    BY <1>1 DEF Get, IsFirst
  <2>2. QED  BY <1>3, <1>4, <1>6, <2>1 DEF SavedIsKept
<1>8. QED  BY <1>5, <1>7

\* What is left of a file is lines.
LEMMA CutOffType ==
  ASSUME file \in Seq(Lines), CutOff
  PROVE  file' \in Seq(Lines)
<1> PICK n \in 0..Len(file) :
      \/ file' = SubSeq(file, 1, n)
      \/ /\ n > 0
         /\ \E line \in Torn : file' = [SubSeq(file, 1, n) EXCEPT ![n] = line]
  BY DEF CutOff
<1>1. SubSeq(file, 1, n) \in Seq(Lines) /\ Len(SubSeq(file, 1, n)) = n
  OBVIOUS
<1>2. ASSUME n > 0, NEW line \in Torn
      PROVE  [SubSeq(file, 1, n) EXCEPT ![n] = line] \in Seq(Lines)
  BY <1>1, <1>2, TornAssumption
<1>3. QED  BY <1>1, <1>2

LEMMA FlushFailsInv ==
  ASSUME ConfigInv, FlushFails
  PROVE  ConfigInv'
<1>1. /\ file' \in Seq(Lines) /\ kept = <<>> /\ mode' = "losing"
      /\ UNCHANGED <<entries, capacity, at, kept>> /\ at <= Len(entries)
  BY CutOffType DEF FlushFails, ConfigInv, ConfigTypeOK, SavedSoFar
<1>2. QED
  BY <1>1 DEF ConfigInv, ConfigTypeOK, EntriesFit, SavedSoFar, SavedIsKept

\* The steps that touch neither the array nor a line, or empty the array.
LEMMA PhaseInv ==
  ASSUME ConfigInv, LoadBegin \/ LoadEnd \/ SaveBegin \/ ConfigCleanup \/ Edit
  PROVE  ConfigInv'
<1> USE DEF ConfigInv
<1>1. CASE LoadBegin \/ LoadEnd
  <2>1. /\ UNCHANGED <<entries, capacity, file, kept>> /\ at' = 0
        /\ mode' \in {"loading", "idle"}
    BY <1>1 DEF LoadBegin, LoadEnd
  <2>2. ConfigTypeOK' /\ EntriesFit'
    BY <2>1 DEF ConfigTypeOK, EntriesFit
  <2>3. SavedSoFar' /\ SavedIsKept'
    BY <2>1 DEF SavedSoFar, Saving, SavedIsKept, Get, IsFirst
  <2>4. QED  BY <2>2, <2>3
<1>2. CASE SaveBegin
  <2>1. <<Skipped>> \in Seq(Lines) /\ Len(<<Skipped>>) = 1
    BY DEF Lines
  <2>2. Len(entries) \in Nat
    BY DEF ConfigTypeOK
  <2>3. file' = <<Skipped>> /\ at' = 0 /\ mode' = "saving" /\ kept' = <<>>
        /\ UNCHANGED <<entries, capacity>>
    BY <1>2 DEF SaveBegin
  <2>4. ASSUME NEW k \in Keys
        PROVE  /\ ~HasTo(<<Skipped>>, 1, k) /\ Get(<<Skipped>>, k) = {}
               /\ ~HasTo(entries', 0, k) /\ GetTo(entries', 0, k) = {}
    BY DEF HasTo, Get, GetTo, IsFirst, Skipped
  <2>5. SavedSoFar'
    BY <2>1, <2>2, <2>3, <2>4 DEF SavedSoFar, Get, HasTo
  <2>6. QED
    BY <2>1, <2>3, <2>5 DEF ConfigTypeOK, EntriesFit, SavedIsKept
<1>3. CASE ConfigCleanup
  <2>1. <<>> \in Seq(Entry) /\ Len(<<>>) = 0
    OBVIOUS
  <2>2. file' \in Seq(Lines)
    BY <1>3, CutOffType DEF ConfigCleanup, ConfigTypeOK
  <2>3. kept = <<>> \/ file' = file
    BY <1>3 DEF ConfigCleanup, SavedSoFar
  <2>4. SavedIsKept'
    BY <1>3, <2>3 DEF ConfigCleanup, SavedIsKept
  <2>5. /\ entries' = <<>> /\ capacity' = 0 /\ mode' = "idle" /\ at' = 0
        /\ kept' = kept
    BY <1>3 DEF ConfigCleanup
  <2>6. ConfigTypeOK' /\ EntriesFit'
    <3>1. ConfigTypeOK'
      BY <2>1, <2>2, <2>5 DEF ConfigTypeOK, Entry
    <3>2. QED  BY <2>1, <2>5, <3>1 DEF EntriesFit
  <2>7. SavedSoFar'
    BY <2>5 DEF SavedSoFar, Saving
  <2>8. QED  BY <2>4, <2>6, <2>7
<1>4. CASE Edit
  BY <1>4 DEF Edit, ConfigTypeOK, EntriesFit, SavedSoFar, Saving, SavedIsKept
<1>5. QED  BY <1>1, <1>2, <1>3, <1>4

LEMMA ConfigStepInv == ConfigInv /\ [ConfigNext]_configVars => ConfigInv'
<1> SUFFICES ASSUME ConfigInv, [ConfigNext]_configVars PROVE ConfigInv'
  OBVIOUS
<1>1. CASE UNCHANGED configVars
  <2>1. UNCHANGED <<entries, capacity, file, mode, at, kept>>
    BY <1>1 DEF configVars
  <2>2. ConfigTypeOK' /\ EntriesFit' /\ SavedIsKept'
    <3>1. ConfigTypeOK'
      BY <2>1 DEF ConfigInv, ConfigTypeOK
    <3>2. EntriesFit'
      BY <2>1 DEF ConfigInv, EntriesFit
    <3>3. SavedIsKept'
      BY <2>1 DEF ConfigInv, SavedIsKept, Get, IsFirst
    <3>4. QED  BY <3>1, <3>2, <3>3
  <2>3. \A k \in Keys :
          /\ UnspoiltTo(entries, at, k)' <=> UnspoiltTo(entries, at, k)
          /\ HasTo(file, Len(file), k)' <=> HasTo(file, Len(file), k)
          /\ HasTo(entries, at, k)' <=> HasTo(entries, at, k)
          /\ Get(file, k)' = Get(file, k)
          /\ GetTo(entries, at, k)' = GetTo(entries, at, k)
    BY <2>1 DEF UnspoiltTo, Plain, Printed, HasTo, Get, GetTo, IsFirst
  <2>4. SavedSoFar'
    BY <2>1, <2>3 DEF ConfigInv, SavedSoFar, Saving
  <2>5. QED  BY <2>2, <2>4 DEF ConfigInv
<1>2. CASE \E k \in Keys, v \in Values : ConfigSet(k, v)
  BY <1>2, ConfigSetInv
<1>3. CASE LoadLine
  BY <1>3, LoadLineInv
<1>4. CASE SaveEntry
  BY <1>4, SaveEntryInv
<1>5. CASE SaveEnd
  BY <1>5, SaveEndInv
<1>6. CASE LoadBegin \/ LoadEnd \/ SaveBegin \/ ConfigCleanup \/ Edit
  BY <1>6, PhaseInv
<1>7. CASE FlushFails
  BY <1>7, FlushFailsInv
<1>8. QED
  BY <1>1, <1>2, <1>3, <1>4, <1>5, <1>6, <1>7 DEF ConfigNext

-----------------------------------------------------------------------------
(* The configuration: theorems                                             *)

\* The conjunction of the type invariant, the two safety invariants and what
\* an unfinished save has written as long as nothing of it is lost
\* (config.c:24-138).
THEOREM ConfigInvariance == ConfigSpec => []ConfigInv
BY ConfigInitInv, ConfigStepInv, PTL DEF ConfigSpec

\* Every variable has its type (config.c:3-14).
THEOREM ConfigTypes == ConfigSpec => []ConfigTypeOK
<1>1. ConfigInv => ConfigTypeOK
  BY DEF ConfigInv
<1>2. QED  BY <1>1, ConfigInvariance, PTL

\* No entry is written behind the end of the array (config.c:59-67, 99-107).
THEOREM ArrayIsLargeEnough == ConfigSpec => []EntriesFit
<1>1. ConfigInv => EntriesFit
  BY DEF ConfigInv
<1>2. QED  BY <1>1, ConfigInvariance, PTL

\* A save of which all could be written gives back what get answered, for
\* every key that no entry spoils: one whose line load reads as something else
\* (config.c:110-127).
THEOREM SavesAreKept == ConfigSpec => []SavedIsKept
<1>1. ConfigInv => SavedIsKept
  BY DEF ConfigInv
<1>2. QED  BY <1>1, ConfigInvariance, PTL

\* The array implements the table of Settings: a key has one value, a set
\* call gives it, and a load fills in but never changes (config.c:58-67,
\* 74-108).
THEOREM ArrayIsTable == ConfigSpec => ImplementsSettings
<1> DEFINE vals(es) == [k \in Keys |-> Get(es, k)]
<1>1. ConfigInit => Table!Init
  <2>1. \A k \in Keys : Get(<<>>, k) = {}
    BY DEF Get
  <2>2. QED  BY <2>1 DEF ConfigInit, Table!Init
<1>2. ConfigInv /\ [ConfigNext]_configVars =>
        [Table!Next]_<<[k \in Keys |-> Get(entries, k)], mode = "loading">>
  <2> SUFFICES ASSUME ConfigInv, [ConfigNext]_configVars
               PROVE  \/ Table!Next
                      \/ /\ vals(entries') = vals(entries)
                         /\ (mode' = "loading") = (mode = "loading")
    BY DEF Get, IsFirst
  <2>1. entries \in Seq(Entry)
    BY DEF ConfigInv, ConfigTypeOK, Entry
  <2>2. CASE \/ UNCHANGED configVars
             \/ SaveBegin \/ SaveEntry \/ FlushFails \/ SaveEnd \/ Edit
    BY <2>2 DEF configVars, SaveBegin, SaveEntry, FlushFails, SaveEnd, Edit, Saving
  <2>3. CASE LoadBegin
    BY <2>3 DEF LoadBegin, Table!Next, Table!BeginLoad, Get, IsFirst
  <2>4. CASE LoadEnd
    BY <2>4 DEF LoadEnd, Table!Next, Table!EndLoad, Get, IsFirst
  <2>5. CASE ConfigCleanup
    <3>1. \A k \in Keys : Get(<<>>, k) = {}
      BY DEF Get
    <3>2. entries' = <<>> /\ mode' = "idle"
      BY <2>5 DEF ConfigCleanup
    <3>3. \A k \in Keys : Get(entries, k)' = {}
      BY <3>1, <3>2
    <3>4. QED  BY <3>2, <3>3 DEF Table!Next, Table!Clear
  <2>6. ASSUME NEW k \in Keys, NEW v \in Values, AppendEntry(k, v)
        PROVE  \A key \in Keys :
                 Get(entries, key)' =
                   IF key = k /\ \A i \in DOMAIN entries : entries[i].key # k
                   THEN {v} ELSE Get(entries, key)
    <3>1. /\ [key |-> k, value |-> v] \in Entry
          /\ entries' = Append(entries, [key |-> k, value |-> v])
      BY <2>6 DEF AppendEntry, Entry
    <3>2. ASSUME NEW key \in Keys
          PROVE  Get(Append(entries, [key |-> k, value |-> v]), key) =
                   IF key = k /\ \A i \in DOMAIN entries : entries[i].key # k
                   THEN {v} ELSE Get(entries, key)
      <4> DEFINE new == [key |-> k, value |-> v]
      <4>1. entries \in Seq(Entry) /\ new \in Entry /\ new.key = k /\ new.value = v
        BY <2>1, <3>1
      <4> HIDE DEF new
      <4>2. Get(Append(entries, new), key) =
              IF key = new.key /\ \A i \in DOMAIN entries : entries[i].key # key
              THEN {new.value} ELSE Get(entries, key)
        <5>1. \A es \in Seq(Entry) : \A line \in Entry :
                Get(Append(es, line), key) =
                  IF key = line.key /\ \A i \in DOMAIN es : es[i].key # key
                  THEN {line.value} ELSE Get(es, key)
          BY ONLY GetAppend
        <5>2. QED  BY ONLY <4>1, <5>1
      <4>3. QED  BY <4>1, <4>2 DEF new
    <3>3. QED  BY <3>1, <3>2
  <2>7. ASSUME NEW k \in Keys, \A i \in DOMAIN entries : entries[i].key # k
        PROVE  Get(entries, k) = {}
    BY <2>7 DEF Get, IsFirst
  <2>8. CASE LoadLine
    <3> DEFINE line == file[at + 1]
    <3>1. mode = "loading" /\ mode' = "loading"
      BY <2>8 DEF LoadLine
    <3>2. CASE line = Skipped
      BY <2>8, <3>1, <3>2 DEF LoadLine, IsEntry
    <3>3. CASE line # Skipped
      <4>1. line \in Lines
        BY <2>8 DEF LoadLine, ConfigInv, ConfigTypeOK
      <4>2. line.key \in Keys /\ line.value \in Values
        BY <3>3, <4>1, LineType
      <4>3. AppendEntry(line.key, line.value)
        BY <2>8, <3>3 DEF LoadLine, IsEntry, Loaded
      <4>4. CASE \A i \in DOMAIN entries : entries[i].key # line.key
        <5>1. Get(entries, line.key) = {}
          BY <2>7, <4>2, <4>4
        <5>2. vals(entries') =
                [vals(entries) EXCEPT ![line.key] = {line.value}]
          BY <2>6, <4>2, <4>3, <4>4
        <5>3. Table!Fill(line.key, line.value)
          BY <3>1, <4>2, <5>1, <5>2 DEF Table!Fill
        <5>4. QED  BY <4>2, <5>3 DEF Table!Next
      <4>5. CASE ~\A i \in DOMAIN entries : entries[i].key # line.key
        <5>1. vals(entries') = vals(entries)
          BY <2>6, <4>2, <4>3, <4>5
        <5>2. QED  BY <3>1, <5>1
      <4>6. QED  BY <4>4, <4>5
    <3>4. QED  BY <3>2, <3>3
  <2>9. ASSUME NEW k \in Keys, NEW v \in Values, ConfigSet(k, v)
        PROVE  Table!Next
    <3>1. vals(entries') = [vals(entries) EXCEPT ![k] = {v}]
      <4>1. CASE \E i \in DOMAIN entries :
                   /\ IsFirst(entries, i, k)
                   /\ entries' = [entries EXCEPT ![i].value = v]
        <5> PICK i \in DOMAIN entries :
              /\ IsFirst(entries, i, k)
              /\ entries' = [entries EXCEPT ![i].value = v]
          BY <4>1
        <5>1. Updated(entries', entries, i, v)
          BY DEF Updated
        <5>2. ASSUME NEW key \in Keys
              PROVE  Get(entries', key) =
                       IF key = k THEN {v} ELSE Get(entries, key)
          <6>1. IsFirst(entries, i, k) /\ i \in DOMAIN entries
            OBVIOUS
          <6>2. k \in Keys /\ v \in Values
            OBVIOUS
          <6>3. QED  BY ONLY <2>1, <5>1, <6>1, <6>2, GetUpdate
        <5>3. [key \in Keys |-> Get(entries', key)] =
                [key \in Keys |-> IF key = k THEN {v} ELSE Get(entries, key)]
          BY <5>2
        <5>4. QED  BY <5>3
      <4>2. CASE /\ \A i \in DOMAIN entries : entries[i].key # k
                 /\ AppendEntry(k, v)
        BY <2>6, <4>2
      <4>3. QED  BY <2>9, <4>1, <4>2 DEF ConfigSet
    <3>2. mode = "idle" /\ mode' = "idle"
      BY <2>9 DEF ConfigSet
    <3>3. Table!Put(k, v)
      BY <3>1, <3>2 DEF Table!Put
    <3>4. QED  BY <3>3 DEF Table!Next
  <2>10. QED
    BY <2>2, <2>3, <2>4, <2>5, <2>8, <2>9 DEF ConfigNext
<1>3. QED
  BY <1>1, <1>2, ConfigInvariance, PTL
     DEF ConfigSpec, ImplementsSettings, Table!Spec

-----------------------------------------------------------------------------
(* All parts of MCParts                                                    *)

PartsInv == KnowledgeInv /\ ConfigInv /\ CvssInv

\* Every variable of the parts has its type, and the configuration fits in its
\* array, whichever of them moves (knowledge.c, config.c, cvss.c:210-215).
THEOREM PartsTypes == PartsSpec => []PartsTypeOK
<1>1. PartsInit => PartsInv
  BY KnowledgeInitInv, ConfigInitInv, CvssInitInv
     DEF PartsInit, PartsInv
<1>2. PartsInv /\ [PartsNext]_<<part, vars, knowledgeVars, configVars,
                                cvssVars>>
        => PartsInv'
  BY KnowledgeStepInv, ConfigStepInv, CvssStepInv
     DEF PartsInv, PartsNext
<1>3. PartsInv => PartsTypeOK
  BY CvssInvTypes
     DEF PartsInv, PartsTypeOK, KnowledgeInv, ConfigInv
<1>4. QED  BY <1>1, <1>2, <1>3, PTL DEF PartsSpec
=============================================================================
