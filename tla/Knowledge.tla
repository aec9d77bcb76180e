------------------------------ MODULE Knowledge ------------------------------
(***************************************************************************)
(* The knowledge base (src/knowledge/knowledge.c) and the note commands    *)
(* (src/core/shell.c:234-264): the shells started in one directory share   *)
(* the file knowledge.db, each through its own SQLite handle, and none     *)
(* sets a busy timeout: a lock that another process holds is an error at   *)
(* once.                                                                   *)
(*                                                                         *)
(* A statement that writes takes the shared lock, makes it exclusive when  *)
(* nobody else holds one, and commits; a statement that reads holds the    *)
(* shared lock from its first row to its last.  A process may end at any   *)
(* point, and what it had not committed is rolled back.                    *)
(*                                                                         *)
(* The word to search for is put into the SQL text between the % of three  *)
(* LIKE patterns as it is: its own % and _ match anything, and a quote in  *)
(* it ends the pattern, so that the SQL does not parse or has another      *)
(* condition.  Not modelled: a word with a quote that makes it select      *)
(* anything but notes by their text.                                       *)
(***************************************************************************)
EXTENDS Integers, Sequences

CONSTANTS
  Procs,      \* the shells
  Texts,      \* texts of notes
  Queries,    \* words to search for
  BadQueries, \* those among them whose SQL text does not parse
  Hits,       \* Hits[q]: the texts that the SQL text of q selects
  MaxNotes    \* bound on the notes that are added

ASSUME HitsAssumption ==
  /\ BadQueries \subseteq Queries
  /\ Hits \in [Queries -> SUBSET Texts]
ASSUME MaxNotesAssumption == MaxNotes \in Nat

VARIABLES
  notes,   \* the rows of the table; the id of a note is its position
  table,   \* the table has been created
  handle,  \* what ks_knowledge_init left in db: "none", "sick" (not opened),
           \* "bare" (opened, but CREATE TABLE failed) or "ready"
  stage,   \* how far the process's statement is
  job,     \* the statement that runs, the row it is at and the rows found
  result,  \* what the last note command returned; "cut" is an "ok" after an
           \* error that ended the reading
  shown,   \* the notes it printed
  told     \* history: the notes that ks_knowledge_add reported as added

knowledgeVars == <<notes, table, handle, stage, job, result, shown, told>>

Job(op, word) == [op |-> op, word |-> word, at |-> 0, found |-> {}]
NoJob == Job("none", "none")
Jobs == [op : {"none", "create", "add", "search", "list"},
         word : Texts \cup Queries \cup {"none"},
         at : Nat, found : SUBSET Nat]

KnowledgeInit ==
  /\ notes = <<>> /\ table = FALSE /\ told = {}
  /\ handle = [p \in Procs |-> "none"]
  /\ stage = [p \in Procs |-> "down"]
  /\ job = [p \in Procs |-> NoJob]
  /\ result = [p \in Procs |-> "ok"]
  /\ shown = [p \in Procs |-> {}]

-----------------------------------------------------------------------------
(* Locks of knowledge.db                                                   *)

\* Somebody else holds the exclusive lock.
Blocked(p) == \E q \in Procs \ {p} : stage[q] = "writing"

\* Somebody else writes or is about to: the lock may be refused.
Contended(p) == \E q \in Procs \ {p} : stage[q] \in {"shared", "writing"}

\* Nobody else holds any lock.
Alone(p) ==
  \A q \in Procs \ {p} : stage[q] \notin {"shared", "writing", "reading"}

-----------------------------------------------------------------------------
(* Steps of a statement                                                    *)

Begins(p, how, what) ==
  /\ stage' = [stage EXCEPT ![p] = how]
  /\ job' = [job EXCEPT ![p] = what]
  /\ UNCHANGED <<notes, table, handle, result, shown, told>>

\* The command is over: its result and what it printed.
Ends(p, res, out) ==
  /\ stage' = [stage EXCEPT ![p] = "idle"]
  /\ result' = [result EXCEPT ![p] = res]
  /\ shown' = [shown EXCEPT ![p] = out]
  /\ job' = [job EXCEPT ![p] = NoJob]

\* ks_knowledge_init is over.
Opened(p, how) ==
  /\ handle' = [handle EXCEPT ![p] = how]
  /\ Ends(p, IF how = "ready" THEN "ok" ELSE "error", {})

\* CREATE TABLE failed; the handle stays open.
TableFailed(p) == Opened(p, "bare")

\* ks_knowledge_init: open the file, CREATE TABLE IF NOT EXISTS.  The shell
\* goes on whatever it returns.
Start(p) ==
  /\ stage[p] = "down"
  /\ \/ /\ \/ Opened(p, "sick")
           \/ Contended(p) /\ TableFailed(p)
           \/ ~Blocked(p) /\ table /\ Opened(p, "ready")
        /\ UNCHANGED <<notes, table, told>>
     \/ /\ ~Blocked(p) /\ ~table
        /\ Begins(p, "shared", Job("create", "none"))

\* The statement can be prepared.
Usable(p) == handle[p] # "sick" /\ table

\* note add <text>.
NoteAdd(p, text) ==
  /\ stage[p] = "idle" /\ Len(notes) < MaxNotes
  /\ \/ /\ ~Usable(p) \/ Contended(p)
        /\ Ends(p, "error", {})
        /\ UNCHANGED <<notes, table, handle, told>>
     \/ /\ Usable(p) /\ ~Blocked(p)
        /\ Begins(p, "shared", Job("add", text))

\* Variant of Refused: the result of the statement is not looked at.
RefusedUnnoticed(p) ==
  /\ IF job[p].op = "create"
     THEN TableFailed(p) /\ UNCHANGED told
     ELSE /\ Ends(p, "ok", {})
          /\ told' = told \cup {[id |-> Len(notes) + 1, text |-> job[p].word]}
          /\ UNCHANGED handle
  /\ UNCHANGED <<notes, table>>

\* The lock is refused, or the disk fails: nothing is written.
Refused(p) ==
  /\ IF job[p].op = "create" THEN TableFailed(p)
     ELSE Ends(p, "error", {}) /\ UNCHANGED handle
  /\ UNCHANGED <<notes, table, told>>

\* The shared lock becomes exclusive, or the statement fails.
Upgrade(p) ==
  /\ stage[p] = "shared"
  /\ \/ Alone(p) /\ Begins(p, "writing", job[p])
     \/ ~Alone(p) /\ Refused(p)

WriteFails(p) == stage[p] = "writing" /\ Refused(p)

CommitTable(p) ==
  /\ stage[p] = "writing" /\ job[p].op = "create"
  /\ table' = TRUE
  /\ Opened(p, "ready")
  /\ UNCHANGED <<notes, told>>

CommitNote(p) ==
  /\ stage[p] = "writing" /\ job[p].op = "add"
  /\ notes' = Append(notes, job[p].word)
  /\ stage' = [stage EXCEPT ![p] = "written"]
  /\ job' = [job EXCEPT ![p].at = Len(notes) + 1]
  /\ UNCHANGED <<table, handle, result, shown, told>>

\* Variant of ReportAdded: the note is taken to be the last one in the table.
ReportLast(p) ==
  /\ stage[p] = "written"
  /\ told' = told \cup {[id |-> Len(notes), text |-> notes[Len(notes)]]}
  /\ Ends(p, "ok", {})
  /\ UNCHANGED <<notes, table, handle>>

\* The user reads "Added".
ReportAdded(p) ==
  /\ stage[p] = "written"
  /\ told' = told \cup {[id |-> job[p].at, text |-> job[p].word]}
  /\ Ends(p, "ok", {})
  /\ UNCHANGED <<notes, table, handle>>

-----------------------------------------------------------------------------
(* Reading                                                                 *)

\* note search <query>.  SQL that does not parse is an error; a lock refused
\* at the first row looks like an empty result.
NoteSearch(p, query) ==
  /\ stage[p] = "idle"
  /\ \/ /\ \/ (~Usable(p) \/ query \in BadQueries) /\ Ends(p, "error", {})
           \/ Contended(p) /\ \E res \in {"ok", "error"} : Ends(p, res, {})
        /\ UNCHANGED <<notes, table, handle, told>>
     \/ /\ Usable(p) /\ query \notin BadQueries /\ ~Blocked(p)
        /\ Begins(p, "reading", Job("search", query))

\* The types of notes; NOTE_GENERAL is 0.  The enum is unsigned: -1 becomes
\* the largest value.
TypeRange == 256
General == 0
AsType(n) == n % TypeRange

\* What note list asks for: -1.
ListType == AsType(0 - 1)

\* note list.  It looks at no result: whatever goes wrong before the first
\* row, it has counted no note.
NoteList(p) ==
  /\ stage[p] = "idle"
  /\ \/ /\ ~Usable(p) \/ Contended(p)
        /\ Ends(p, "ok", {})
        /\ UNCHANGED <<notes, table, handle, told>>
     \/ /\ Usable(p) /\ ~Blocked(p)
        /\ Begins(p, "reading", Job("list", "none"))

\* Row i is in the result of the statement.
Selects(what, i) ==
  IF what.op = "search" THEN notes[i] \in Hits[what.word]
  ELSE ListType >= 0 => General = ListType

ReadRow(p) ==
  LET row == job[p].at + 1
  IN /\ stage[p] = "reading" /\ row <= Len(notes)
     /\ job' = [job EXCEPT ![p].at = row,
                  ![p].found = @ \cup {i \in {row} : Selects(job[p], i)}]
     /\ UNCHANGED <<notes, table, handle, stage, result, shown, told>>

\* Variant of RowsOver: a lock refused between two rows ends the loop, too.
RowsOverOrBusy(p) == job[p].at = Len(notes) \/ Contended(p)
RowsOver(p) == job[p].at = Len(notes)

ReadEnd(p) ==
  /\ stage[p] = "reading" /\ RowsOver(p)
  /\ Ends(p, "ok", job[p].found)
  /\ UNCHANGED <<notes, table, handle, told>>

\* An error at a row ends the loop like the end of the rows, and nobody is
\* told: the rows so far are reported as all.
ReadFails(p) ==
  /\ stage[p] = "reading" /\ job[p].at < Len(notes)
  /\ Ends(p, "cut", job[p].found)
  /\ UNCHANGED <<notes, table, handle, told>>

\* The process exits or dies; SQLite rolls back what it had not committed.
Quit(p) ==
  /\ stage[p] # "down"
  /\ stage' = [stage EXCEPT ![p] = "down"]
  /\ handle' = [handle EXCEPT ![p] = "none"]
  /\ job' = [job EXCEPT ![p] = NoJob]
  /\ result' = [result EXCEPT ![p] = "ok"]
  /\ shown' = [shown EXCEPT ![p] = {}]
  /\ UNCHANGED <<notes, table, told>>

KnowledgeStep(p) ==
  \/ Start(p) \/ Upgrade(p) \/ WriteFails(p)
  \/ CommitTable(p) \/ CommitNote(p) \/ ReportAdded(p)
  \/ \E text \in Texts : NoteAdd(p, text)
  \/ \E query \in Queries : NoteSearch(p, query)
  \/ NoteList(p) \/ ReadRow(p) \/ ReadEnd(p) \/ ReadFails(p)
  \/ Quit(p)

KnowledgeNext == \E p \in Procs : KnowledgeStep(p)
KnowledgeSpec == KnowledgeInit /\ [][KnowledgeNext]_knowledgeVars

-----------------------------------------------------------------------------
(* Properties                                                              *)

\* Every variable has its type (knowledge.c:8-45).
KnowledgeTypeOK ==
  /\ notes \in Seq(Texts) /\ table \in BOOLEAN
  /\ handle \in [Procs -> {"none", "sick", "bare", "ready"}]
  /\ stage \in [Procs -> {"down", "idle", "shared", "writing", "written",
                         "reading"}]
  /\ job \in [Procs -> Jobs]
  /\ result \in [Procs -> {"ok", "error", "cut"}]
  /\ shown \in [Procs -> SUBSET Nat]
  /\ told \subseteq [id : Nat, text : Texts]

\* A note that the user was told is added is in the table, under the id it
\* got, whoever writes, fails or dies meanwhile (knowledge.c:85-94).
AddedIsKept ==
  \A n \in told : n.id \in DOMAIN notes /\ notes[n.id] = n.text

\* A search that got its lock prints exactly the notes that its SQL selects,
\* none missed or shown in part because of another shell's adds between its
\* rows; when an error ended the reading, it prints exactly those among the
\* rows it had got to (knowledge.c:117-158).
SearchIsExact ==
  [][\A p \in Procs :
       (stage[p] = "reading" /\ job[p].op = "search" /\ stage'[p] = "idle")
         => LET hits == {i \in DOMAIN notes : notes[i] \in Hits[job[p].word]}
            IN \/ result'[p] = "ok" /\ shown'[p] = hits
               \/ result'[p] = "cut" /\ shown'[p] = hits \cap 1..job[p].at
    ]_knowledgeVars

\* What the user is told and shown is what a notebook without locks could
\* tell and show: notes stay where they are, each note is reported by the
\* shell that wrote it and by no other, and a search sees the notes of one
\* moment, all of them or, after an error, the first ones
\* (knowledge.c:64-158).
Running == [p \in Procs |-> stage[p] # "down"]
Unreported == [p \in Procs |-> IF stage[p] = "written" THEN {job[p].at} ELSE {}]
Book == INSTANCE Notebook WITH
          up <- Running, owed <- Unreported, answer <- shown
ImplementsNotebook == Book!Spec

\* note list lists all notes (shell.c:439), at least when no error ends its
\* reading.
ListShowsAll ==
  [][\A p \in Procs :
       (/\ stage[p] = "reading" /\ job[p].op = "list"
        /\ stage'[p] = "idle" /\ result'[p] = "ok")
         => shown'[p] = DOMAIN notes
    ]_knowledgeVars
=============================================================================
