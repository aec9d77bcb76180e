------------------------------ MODULE Workspace ------------------------------
(***************************************************************************)
(* The workspace engine (src/workspace) run by several gupt processes of   *)
(* one user.  They share the directory ~/.gupt/workspaces and the SQLite   *)
(* database inside each workspace; everything else (the current workspace, *)
(* its directory, the database handle) is private to a process.            *)
(*                                                                         *)
(* ks_workspace_create and ks_workspace_open are sequences of system calls *)
(* with no lock around them, so each call that reads or writes something   *)
(* shared is an action of its own: the existence checks, the two mkdir     *)
(* stages, sqlite3_open, the CREATE TABLE statements and the INSERT.       *)
(* Assigning the shell's own fields is private and belongs to the last     *)
(* shared step before it.  Workspaces are never deleted by the program.    *)
(***************************************************************************)
EXTENDS Integers

CONSTANTS
  Procs,   \* gupt processes
  Names,   \* workspace names
  NULL,    \* the C null pointer
  Faults   \* what the environment may do: "mkdir", "open", "sql", "crash"

ASSUME NullAssumption == NULL \notin Names
ASSUME FaultsAssumption == Faults \subseteq {"mkdir", "open", "sql", "crash"}

VARIABLES
  dirs,    \* names whose directory exists
  trees,   \* names whose five subdirectories all exist
  files,   \* names whose database.db exists
  schema,  \* names whose database has the workspaces table
  rows,    \* names whose database holds the row of that name
  pc,      \* pc[p]: where p is in the handler it runs
  arg,     \* arg[p]: the name given to that handler
  db,      \* db[p]: the static handle of database.c
  cur,     \* cur[p]: shell.current_workspace
  wdir,    \* wdir[p]: shell.workspace_dir, named by its workspace
  rc,      \* rc[p]: the exit code of the last command
  wins,    \* history: how many creates of each name succeeded (at most 2)
  intact   \* history: p's last change of database handle ended in success

disk   == <<dirs, trees, files, schema, rows>>
fields == <<cur, wdir, intact>>
vars   == <<disk, pc, arg, db, fields, rc, wins>>

PcStates == {"off", "idle", "mkdir", "subdirs", "createdb", "createtables",
             "insert", "opendb", "opentables"}
Working  == PcStates \ {"off", "idle"}
NameOrNull == Names \cup {NULL}
Handle   == [state : {"null", "open", "sick"}, path : NameOrNull]
NoHandle == [state |-> "null", path |-> NULL]
OpenOn(n) == [state |-> "open", path |-> n]

TypeOK ==
  /\ dirs \subseteq Names /\ trees \subseteq Names /\ files \subseteq Names
  /\ schema \subseteq Names /\ rows \subseteq Names
  /\ pc \in [Procs -> PcStates]
  /\ arg \in [Procs -> NameOrNull]
  /\ \A p \in Procs : pc[p] \in Working => arg[p] \in Names
  /\ db \in [Procs -> Handle]
  /\ cur \in [Procs -> NameOrNull]
  /\ wdir \in [Procs -> NameOrNull]
  /\ rc \in [Procs -> {0, 1}]
  /\ wins \in [Names -> 0..2]
  /\ intact \in [Procs -> BOOLEAN]

Init ==
  /\ dirs = {} /\ trees = {} /\ files = {} /\ schema = {} /\ rows = {}
  /\ pc = [p \in Procs |-> "off"]
  /\ arg = [p \in Procs |-> NULL]
  /\ db = [p \in Procs |-> NoHandle]
  /\ cur = [p \in Procs |-> NULL]
  /\ wdir = [p \in Procs |-> NULL]
  /\ rc = [p \in Procs |-> 0]
  /\ wins = [n \in Names |-> 0]
  /\ intact = [p \in Procs |-> TRUE]

-----------------------------------------------------------------------------
(* Control of one handler.                                                 *)

\* The handler of p goes on at step s.
Goto(p, s) == pc' = [pc EXCEPT ![p] = s] /\ UNCHANGED rc

\* Variant of Return: a KS_ERROR code is returned for a failure.
ReturnRaw(p, c) ==
  /\ pc' = [pc EXCEPT ![p] = "idle"]
  /\ arg' = [arg EXCEPT ![p] = NULL]
  /\ rc' = [rc EXCEPT ![p] = IF c = 0 THEN 0 ELSE -c]

\* The handler of p returns code c to the read loop, which stores it.
Return(p, c) ==
  /\ pc' = [pc EXCEPT ![p] = "idle"]
  /\ arg' = [arg EXCEPT ![p] = NULL]
  /\ rc' = [rc EXCEPT ![p] = c]

\* Variant of Adopt: the directory is left as it was.
AdoptNameOnly(p, n) ==
  /\ cur' = [cur EXCEPT ![p] = n]
  /\ intact' = [intact EXCEPT ![p] = TRUE]
  /\ UNCHANGED wdir

\* shell.current_workspace and shell.workspace_dir are set to n.
Adopt(p, n) ==
  /\ cur' = [cur EXCEPT ![p] = n]
  /\ wdir' = [wdir EXCEPT ![p] = n]
  /\ intact' = [intact EXCEPT ![p] = TRUE]

\* Variants of FailAfterClose: the selection is given up; the failure is
\* taken for a success.
FailAndForget(p) ==
  /\ Return(p, 1)
  /\ Adopt(p, NULL)
  /\ UNCHANGED wins

FailUnnoticed(p) ==
  /\ Return(p, 0)
  /\ Adopt(p, arg[p])
  /\ UNCHANGED wins

\* A failure after ks_db_init has already closed the previous handle.
FailAfterClose(p) ==
  /\ Return(p, 1)
  /\ intact' = [intact EXCEPT ![p] = FALSE]
  /\ UNCHANGED <<cur, wdir, wins>>

-----------------------------------------------------------------------------
(* A process starts, with or without "-w name", and ends.                  *)

\* main: -w stores the name and nothing else.
Start(p, w) ==
  /\ pc[p] = "off"
  /\ pc' = [pc EXCEPT ![p] = "idle"]
  /\ rc' = [rc EXCEPT ![p] = 0]
  /\ cur' = [cur EXCEPT ![p] = w]
  /\ intact' = [intact EXCEPT ![p] = (w = NULL)]
  /\ UNCHANGED <<disk, arg, db, wdir, wins>>

\* The memory of p is gone; SQLite rolls back what p had not committed, and
\* every statement of this program commits on its own.
Gone(p) ==
  /\ pc' = [pc EXCEPT ![p] = "off"]
  /\ arg' = [arg EXCEPT ![p] = NULL]
  /\ db' = [db EXCEPT ![p] = NoHandle]
  /\ cur' = [cur EXCEPT ![p] = NULL]
  /\ wdir' = [wdir EXCEPT ![p] = NULL]
  /\ rc' = [rc EXCEPT ![p] = 0]
  /\ intact' = [intact EXCEPT ![p] = TRUE]
  /\ UNCHANGED <<disk, wins>>

Quit(p) == pc[p] = "idle" /\ Gone(p)

Crash(p) == "crash" \in Faults /\ pc[p] \in Working /\ Gone(p)

-----------------------------------------------------------------------------
(* ks_workspace_create                                                     *)

\* The path does not exist yet.
PathFreeUnchecked(n) == TRUE
PathFree(n) == n \notin dirs

\* "already exists".
CreateRefused(p, n) ==
  /\ pc[p] = "idle"
  /\ ~PathFree(n)
  /\ Return(p, 1)
  /\ UNCHANGED <<disk, db, fields, wins>>

CreateBegin(p, n) ==
  /\ pc[p] = "idle"
  /\ PathFree(n)
  /\ Goto(p, "mkdir")
  /\ arg' = [arg EXCEPT ![p] = n]
  /\ UNCHANGED <<disk, db, fields, wins>>

\* Variant of MakeDir: the database is made before the subdirectories.
MakeDirThenDb(p) ==
  /\ pc[p] = "mkdir"
  /\ dirs' = dirs \cup {arg[p]}
  /\ Goto(p, "createdb")
  /\ UNCHANGED <<trees, files, schema, rows, arg, db, fields, wins>>

\* ks_path_mkdir takes EEXIST for success, and its result is not looked at.
MakeDir(p) ==
  /\ pc[p] = "mkdir"
  /\ \/ dirs' = dirs \cup {arg[p]}
     \/ "mkdir" \in Faults /\ UNCHANGED dirs
  /\ Goto(p, "subdirs")
  /\ UNCHANGED <<trees, files, schema, rows, arg, db, fields, wins>>

\* Variant of MakeSubdirs: a directory that is already there is a failure.
MakeSubdirsStrict(p) ==
  /\ pc[p] = "subdirs"
  /\ Return(p, 1)
  /\ UNCHANGED <<disk, db, fields, wins>>

\* Five more calls; each also makes the workspace directory when it is missing.
MakeSubdirs(p) ==
  /\ pc[p] = "subdirs"
  /\ \/ /\ dirs' = dirs \cup {arg[p]}
        /\ trees' = trees \cup {arg[p]}
     \/ /\ "mkdir" \in Faults
        /\ dirs' \in {dirs, dirs \cup {arg[p]}}
        /\ UNCHANGED trees
  /\ Goto(p, "createdb")
  /\ UNCHANGED <<files, schema, rows, arg, db, fields, wins>>

-----------------------------------------------------------------------------
(* ks_db_init, shared by create and open: the previous handle is closed,   *)
(* then sqlite3_open creates the file if it is missing and the statements  *)
(* run.                                                                    *)

DbOpened(p) ==
  /\ pc[p] \in {"createdb", "opendb"}
  /\ arg[p] \in dirs
  /\ db' = [db EXCEPT ![p] = OpenOn(arg[p])]
  /\ files' = files \cup {arg[p]}
  /\ Goto(p, IF pc[p] = "createdb" THEN "createtables" ELSE "opentables")
  /\ UNCHANGED <<dirs, trees, schema, rows, arg, fields, wins>>

\* sqlite3_open fails: the handle it leaves is not null and cannot be used.
DbOpenFailed(p) ==
  /\ pc[p] \in {"createdb", "opendb"}
  /\ "open" \in Faults \/ arg[p] \notin dirs
  /\ db' = [db EXCEPT ![p] = [state |-> "sick", path |-> arg[p]]]
  /\ FailAfterClose(p)
  /\ UNCHANGED disk

\* A CREATE TABLE fails (locked, disk full): the tables before it stay, and
\* so does the handle.
TablesFailed(p) ==
  /\ pc[p] \in {"createtables", "opentables"}
  /\ "sql" \in Faults
  /\ schema' \in {schema, schema \cup {arg[p]}}
  /\ FailAfterClose(p)
  /\ UNCHANGED <<dirs, trees, files, rows, db>>

\* The tables are there and the create goes on to its INSERT.
TablesCreated(p) ==
  /\ pc[p] = "createtables"
  /\ schema' = schema \cup {arg[p]}
  /\ Goto(p, "insert")
  /\ UNCHANGED <<dirs, trees, files, rows, arg, db, fields, wins>>

\* The name column is UNIQUE; in the variant it is not.
NameUnusedUnchecked(n) == TRUE
NameUnused(n) == n \notin rows

\* The INSERT of the workspace's row succeeds: "created".
Inserted(p) ==
  /\ pc[p] = "insert"
  /\ arg[p] \in schema
  /\ NameUnused(arg[p])
  /\ rows' = rows \cup {arg[p]}
  /\ wins' = [wins EXCEPT ![arg[p]] = IF @ = 0 THEN 1 ELSE 2]
  /\ Adopt(p, arg[p])
  /\ Return(p, 0)
  /\ UNCHANGED <<dirs, trees, files, schema, db>>

\* The INSERT fails, on the UNIQUE name or for any other reason.
InsertFailed(p) ==
  /\ pc[p] = "insert"
  /\ ~NameUnused(arg[p]) \/ "sql" \in Faults
  /\ db' = [db EXCEPT ![p] = NoHandle]
  /\ FailAfterClose(p)
  /\ UNCHANGED disk

-----------------------------------------------------------------------------
(* ks_workspace_open, ks_workspace_close, ks_workspace_list                *)

\* "not found" or "corrupted (missing database)".
OpenRefused(p, n) ==
  /\ pc[p] = "idle"
  /\ PathFree(n) \/ n \notin files
  /\ Return(p, 1)
  /\ UNCHANGED <<disk, db, fields, wins>>

OpenBegin(p, n) ==
  /\ pc[p] = "idle"
  /\ ~PathFree(n) /\ n \in files
  /\ Goto(p, "opendb")
  /\ arg' = [arg EXCEPT ![p] = n]
  /\ UNCHANGED <<disk, db, fields, wins>>

\* The tables are there and the open is done: "opened".
Opened(p) ==
  /\ pc[p] = "opentables"
  /\ schema' = schema \cup {arg[p]}
  /\ Adopt(p, arg[p])
  /\ Return(p, 0)
  /\ UNCHANGED <<dirs, trees, files, rows, db, wins>>

CloseNothing(p) ==
  /\ pc[p] = "idle"
  /\ cur[p] = NULL
  /\ Return(p, 0)
  /\ UNCHANGED <<disk, db, fields, wins>>

Close(p) ==
  /\ pc[p] = "idle"
  /\ cur[p] # NULL
  /\ Adopt(p, NULL)
  /\ db' = [db EXCEPT ![p] = NoHandle]
  /\ Return(p, 0)
  /\ UNCHANGED <<disk, wins>>

\* The names the listing prints; printing changes nothing else.
Listed == dirs \cap files

\* It fails when the directory of the workspaces cannot be read.
List(p) ==
  /\ pc[p] = "idle"
  /\ \E c \in {0, 1} : Return(p, c)
  /\ UNCHANGED <<disk, db, fields, wins>>

-----------------------------------------------------------------------------
Step(p) ==
  \/ MakeDir(p) \/ MakeSubdirs(p)
  \/ DbOpened(p) \/ DbOpenFailed(p) \/ TablesCreated(p) \/ TablesFailed(p)
  \/ Inserted(p) \/ InsertFailed(p) \/ Opened(p)

Command(p) ==
  \/ \E n \in Names : \/ CreateRefused(p, n) \/ CreateBegin(p, n)
                      \/ OpenRefused(p, n) \/ OpenBegin(p, n)
  \/ CloseNothing(p) \/ Close(p) \/ List(p)

Next ==
  \E p \in Procs :
    \/ \E w \in NameOrNull : Start(p, w)
    \/ Quit(p) \/ Crash(p)
    \/ Command(p)
    \/ Step(p)

Spec == Init /\ [][Next]_vars

\* The operating system runs a handler that has begun; nobody has to type.
FairSpec == Spec /\ \A p \in Procs : WF_vars(Step(p))

-----------------------------------------------------------------------------
(* Properties                                                              *)

\* However creates of one name race, fail or are cut off, the command reports
\* success for that name at most once: the exists check (workspace.c:58) does
\* not ensure it, the UNIQUE row does (workspace.c:98, database.c:25).
AtMostOneCreate == \A n \in Names : wins[n] <= 1

\* A process at rest whose last change of handle ended in success has one
\* workspace, not three: current_workspace, workspace_dir and the open
\* database name the same one, and no handle is left open when none is
\* current (workspace.c:112-113, 181-182, 202-211; database.c:7-15).
HandleMatchesSelection ==
  \A p \in Procs : pc[p] = "idle" /\ intact[p] =>
    /\ wdir[p] = cur[p]
    /\ db[p] = IF cur[p] = NULL THEN NoHandle ELSE OpenOn(cur[p])
    /\ cur[p] # NULL => cur[p] \in schema

\* A workspace that can be opened has its whole directory tree, even while
\* another process is still creating it: the five mkdirs come before
\* sqlite3_open makes the file that open looks for (workspace.c:66-88, 156).
\* It needs an environment in which mkdir does not fail.
OpenableIsComplete == files \subseteq trees

\* A name whose directory exists without a database and that nobody is
\* working on: create says it exists, open says it is corrupted.
Wedged(n) ==
  /\ n \in dirs \ files
  /\ \A p \in Procs : arg[p] # n

\* A wedged name stays wedged: no sequence of commands of any process makes
\* it usable again (workspace.c:58-63 and 156-162 both refuse it).
WedgedForever == [][\A n \in Names : Wedged(n) => Wedged(n)']_vars

\* A command that fails leaves the current workspace of its process as it
\* was, at every step of the way, and no command of another process touches
\* it (workspace.c:58-109, 147-171).
FailureKeepsSelection ==
  [][\A p \in Procs : (cur'[p] # cur[p] \/ wdir'[p] # wdir[p]) =>
        pc[p] = "off" \/ pc'[p] = "off" \/ (pc'[p] = "idle" /\ rc'[p] = 0)]_vars

\* The engine keeps the promise of Registry.
R == INSTANCE Registry WITH
       present <- files, registered <- rows, selected <- cur,
       up <- [p \in Procs |-> pc[p] # "off"]
ImplementsRegistry == R!Spec

\* Statements that fail (a locked database: there is no busy timeout) and lost
\* races cost a command, never the name: while nothing crashes and
\* sqlite3_open works, a name that some process has begun to create
\* becomes one that can be opened, whoever wins and whatever fails after
\* sqlite3_open (workspace.c:66-88).
CreateLeavesOpenable ==
  \A n \in Names : (\E p \in Procs : pc[p] = "mkdir" /\ arg[p] = n) ~> n \in files

-----------------------------------------------------------------------------
(* The inductive invariant behind the safety properties: the order in      *)
(* which a creation leaves its traces on disk, one success per row, and    *)
(* what each process knows at each of its program points.                  *)

DiskOrdered ==
  rows \subseteq schema /\ schema \subseteq files /\ files \subseteq dirs

WinsAreRows == \A n \in Names : wins[n] = (IF n \in rows THEN 1 ELSE 0)

\* The handle that goes with the selection w.
HandleFor(w) == IF w = NULL THEN NoHandle ELSE OpenOn(w)

ProcessKnows(p) ==
  /\ pc[p] \in {"createtables", "opentables", "insert"} =>
       db[p] = OpenOn(arg[p]) /\ arg[p] \in files
  /\ pc[p] = "insert" => arg[p] \in schema
  /\ pc[p] = "opendb" => arg[p] \in files
  /\ pc[p] = "off" => intact[p] /\ cur[p] = NULL
  /\ intact[p] => wdir[p] = cur[p] /\ (cur[p] # NULL => cur[p] \in schema)
  /\ intact[p] /\ pc[p] \notin {"createtables", "opentables", "insert"} =>
       db[p] = HandleFor(cur[p])

IInv == TypeOK /\ DiskOrdered /\ WinsAreRows /\ \A p \in Procs : ProcessKnows(p)
=============================================================================
