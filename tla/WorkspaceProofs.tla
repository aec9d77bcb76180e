--------------------------- MODULE WorkspaceProofs ---------------------------
(***************************************************************************)
(* The safety properties of Workspace for any processes, names and faults. *)
(* IInv is inductive: Init establishes it (InitIInv) and every action      *)
(* keeps it (one lemma per action, gathered in NextIInv).  The invariants  *)
(* follow from it directly; the action properties and the refinement of    *)
(* Registry follow step by step under it.                                  *)
(***************************************************************************)
EXTENDS Workspace, TLAPS

USE NullAssumption, FaultsAssumption

LEMMA InitIInv == Init => IInv
  BY DEF Init, IInv, TypeOK, DiskOrdered, WinsAreRows, ProcessKnows, PcStates,
         Working, NameOrNull, Handle, NoHandle, HandleFor

LEMMA HandleType ==
  /\ NoHandle \in Handle
  /\ \A n \in Names : /\ OpenOn(n) \in Handle
                      /\ [state |-> "sick", path |-> n] \in Handle
  BY DEF NoHandle, Handle, OpenOn, NameOrNull

LEMMA StartIInv ==
  ASSUME NEW p \in Procs, NEW w \in NameOrNull, IInv, Start(p, w)
  PROVE  IInv'
<1> USE DEF Start, disk
<1>1. TypeOK'
  BY HandleType DEF IInv, TypeOK, PcStates, Working, NameOrNull
<1>2. DiskOrdered'
  BY DEF IInv, TypeOK, DiskOrdered, ProcessKnows, Working
<1>3. WinsAreRows'
  BY DEF IInv, TypeOK, WinsAreRows
<1>4. ASSUME NEW q \in Procs
      PROVE  ProcessKnows(q)'
  <2>1. CASE q = p
    BY <2>1 DEF IInv, TypeOK, DiskOrdered, ProcessKnows, HandleFor, OpenOn,
                NoHandle, PcStates, Working, NameOrNull
  <2>2. CASE q # p
    BY <2>2 DEF IInv, TypeOK, DiskOrdered, ProcessKnows, HandleFor, OpenOn,
                NoHandle, PcStates, Working, NameOrNull
  <2>3. QED  BY <2>1, <2>2
<1>5. QED  BY <1>1, <1>2, <1>3, <1>4 DEF IInv

LEMMA QuitIInv ==
  ASSUME NEW p \in Procs, IInv, Quit(p)
  PROVE  IInv'
<1> USE DEF Quit, Gone, disk
<1>1. TypeOK'
  BY HandleType DEF IInv, TypeOK, PcStates, Working, NameOrNull
<1>2. DiskOrdered'
  BY DEF IInv, TypeOK, DiskOrdered, ProcessKnows, Working
<1>3. WinsAreRows'
  BY DEF IInv, TypeOK, WinsAreRows
<1>4. ASSUME NEW q \in Procs
      PROVE  ProcessKnows(q)'
  <2>1. CASE q = p
    BY <2>1 DEF IInv, TypeOK, DiskOrdered, ProcessKnows, HandleFor, OpenOn,
                NoHandle, PcStates, Working, NameOrNull
  <2>2. CASE q # p
    BY <2>2 DEF IInv, TypeOK, DiskOrdered, ProcessKnows, HandleFor, OpenOn,
                NoHandle, PcStates, Working, NameOrNull
  <2>3. QED  BY <2>1, <2>2
<1>5. QED  BY <1>1, <1>2, <1>3, <1>4 DEF IInv

LEMMA CrashIInv ==
  ASSUME NEW p \in Procs, IInv, Crash(p)
  PROVE  IInv'
<1> USE DEF Crash, Gone, disk
<1>1. TypeOK'
  BY HandleType DEF IInv, TypeOK, PcStates, Working, NameOrNull
<1>2. DiskOrdered'
  BY DEF IInv, TypeOK, DiskOrdered, ProcessKnows, Working
<1>3. WinsAreRows'
  BY DEF IInv, TypeOK, WinsAreRows
<1>4. ASSUME NEW q \in Procs
      PROVE  ProcessKnows(q)'
  <2>1. CASE q = p
    BY <2>1 DEF IInv, TypeOK, DiskOrdered, ProcessKnows, HandleFor, OpenOn,
                NoHandle, PcStates, Working, NameOrNull
  <2>2. CASE q # p
    BY <2>2 DEF IInv, TypeOK, DiskOrdered, ProcessKnows, HandleFor, OpenOn,
                NoHandle, PcStates, Working, NameOrNull
  <2>3. QED  BY <2>1, <2>2
<1>5. QED  BY <1>1, <1>2, <1>3, <1>4 DEF IInv

LEMMA CreateRefusedIInv ==
  ASSUME NEW p \in Procs, NEW n \in Names, IInv, CreateRefused(p, n)
  PROVE  IInv'
<1> USE DEF CreateRefused, PathFree, Return, fields, disk
<1>1. TypeOK'
  BY HandleType DEF IInv, TypeOK, PcStates, Working, NameOrNull
<1>2. DiskOrdered'
  BY DEF IInv, TypeOK, DiskOrdered, ProcessKnows, Working
<1>3. WinsAreRows'
  BY DEF IInv, TypeOK, WinsAreRows
<1>4. ASSUME NEW q \in Procs
      PROVE  ProcessKnows(q)'
  <2>1. CASE q = p
    BY <2>1 DEF IInv, TypeOK, DiskOrdered, ProcessKnows, HandleFor, OpenOn,
                NoHandle, PcStates, Working, NameOrNull
  <2>2. CASE q # p
    BY <2>2 DEF IInv, TypeOK, DiskOrdered, ProcessKnows, HandleFor, OpenOn,
                NoHandle, PcStates, Working, NameOrNull
  <2>3. QED  BY <2>1, <2>2
<1>5. QED  BY <1>1, <1>2, <1>3, <1>4 DEF IInv

LEMMA CreateBeginIInv ==
  ASSUME NEW p \in Procs, NEW n \in Names, IInv, CreateBegin(p, n)
  PROVE  IInv'
<1> USE DEF CreateBegin, PathFree, Goto, fields, disk
<1>1. TypeOK'
  BY HandleType DEF IInv, TypeOK, PcStates, Working, NameOrNull
<1>2. DiskOrdered'
  BY DEF IInv, TypeOK, DiskOrdered, ProcessKnows, Working
<1>3. WinsAreRows'
  BY DEF IInv, TypeOK, WinsAreRows
<1>4. ASSUME NEW q \in Procs
      PROVE  ProcessKnows(q)'
  <2>1. CASE q = p
    BY <2>1 DEF IInv, TypeOK, DiskOrdered, ProcessKnows, HandleFor, OpenOn,
                NoHandle, PcStates, Working, NameOrNull
  <2>2. CASE q # p
    BY <2>2 DEF IInv, TypeOK, DiskOrdered, ProcessKnows, HandleFor, OpenOn,
                NoHandle, PcStates, Working, NameOrNull
  <2>3. QED  BY <2>1, <2>2
<1>5. QED  BY <1>1, <1>2, <1>3, <1>4 DEF IInv

LEMMA MakeDirIInv ==
  ASSUME NEW p \in Procs, IInv, MakeDir(p)
  PROVE  IInv'
<1> USE DEF MakeDir, Goto, fields, disk
<1>1. TypeOK'
  BY HandleType DEF IInv, TypeOK, PcStates, Working, NameOrNull
<1>2. DiskOrdered'
  BY DEF IInv, TypeOK, DiskOrdered, ProcessKnows, Working
<1>3. WinsAreRows'
  BY DEF IInv, TypeOK, WinsAreRows
<1>4. ASSUME NEW q \in Procs
      PROVE  ProcessKnows(q)'
  <2>1. CASE q = p
    BY <2>1 DEF IInv, TypeOK, DiskOrdered, ProcessKnows, HandleFor, OpenOn,
                NoHandle, PcStates, Working, NameOrNull
  <2>2. CASE q # p
    BY <2>2 DEF IInv, TypeOK, DiskOrdered, ProcessKnows, HandleFor, OpenOn,
                NoHandle, PcStates, Working, NameOrNull
  <2>3. QED  BY <2>1, <2>2
<1>5. QED  BY <1>1, <1>2, <1>3, <1>4 DEF IInv

LEMMA MakeSubdirsIInv ==
  ASSUME NEW p \in Procs, IInv, MakeSubdirs(p)
  PROVE  IInv'
<1> USE DEF MakeSubdirs, Goto, fields, disk
<1>1. TypeOK'
  BY HandleType DEF IInv, TypeOK, PcStates, Working, NameOrNull
<1>2. DiskOrdered'
  BY DEF IInv, TypeOK, DiskOrdered, ProcessKnows, Working
<1>3. WinsAreRows'
  BY DEF IInv, TypeOK, WinsAreRows
<1>4. ASSUME NEW q \in Procs
      PROVE  ProcessKnows(q)'
  <2>1. CASE q = p
    BY <2>1 DEF IInv, TypeOK, DiskOrdered, ProcessKnows, HandleFor, OpenOn,
                NoHandle, PcStates, Working, NameOrNull
  <2>2. CASE q # p
    BY <2>2 DEF IInv, TypeOK, DiskOrdered, ProcessKnows, HandleFor, OpenOn,
                NoHandle, PcStates, Working, NameOrNull
  <2>3. QED  BY <2>1, <2>2
<1>5. QED  BY <1>1, <1>2, <1>3, <1>4 DEF IInv

LEMMA DbOpenedIInv ==
  ASSUME NEW p \in Procs, IInv, DbOpened(p)
  PROVE  IInv'
<1> USE DEF DbOpened, Goto, fields, disk
<1>1. TypeOK'
  BY HandleType DEF IInv, TypeOK, PcStates, Working, NameOrNull
<1>2. DiskOrdered'
  BY DEF IInv, TypeOK, DiskOrdered, ProcessKnows, Working
<1>3. WinsAreRows'
  BY DEF IInv, TypeOK, WinsAreRows
<1>4. ASSUME NEW q \in Procs
      PROVE  ProcessKnows(q)'
  <2>1. CASE q = p
    BY <2>1 DEF IInv, TypeOK, DiskOrdered, ProcessKnows, HandleFor, OpenOn,
                NoHandle, PcStates, Working, NameOrNull
  <2>2. CASE q # p
    BY <2>2 DEF IInv, TypeOK, DiskOrdered, ProcessKnows, HandleFor, OpenOn,
                NoHandle, PcStates, Working, NameOrNull
  <2>3. QED  BY <2>1, <2>2
<1>5. QED  BY <1>1, <1>2, <1>3, <1>4 DEF IInv

LEMMA DbOpenFailedIInv ==
  ASSUME NEW p \in Procs, IInv, DbOpenFailed(p)
  PROVE  IInv'
<1> USE DEF DbOpenFailed, FailAfterClose, Return, disk
<1>1. TypeOK'
  BY HandleType DEF IInv, TypeOK, PcStates, Working, NameOrNull
<1>2. DiskOrdered'
  BY DEF IInv, TypeOK, DiskOrdered, ProcessKnows, Working
<1>3. WinsAreRows'
  BY DEF IInv, TypeOK, WinsAreRows
<1>4. ASSUME NEW q \in Procs
      PROVE  ProcessKnows(q)'
  <2>1. CASE q = p
    BY <2>1 DEF IInv, TypeOK, DiskOrdered, ProcessKnows, HandleFor, OpenOn,
                NoHandle, PcStates, Working, NameOrNull
  <2>2. CASE q # p
    BY <2>2 DEF IInv, TypeOK, DiskOrdered, ProcessKnows, HandleFor, OpenOn,
                NoHandle, PcStates, Working, NameOrNull
  <2>3. QED  BY <2>1, <2>2
<1>5. QED  BY <1>1, <1>2, <1>3, <1>4 DEF IInv

LEMMA TablesCreatedIInv ==
  ASSUME NEW p \in Procs, IInv, TablesCreated(p)
  PROVE  IInv'
<1> USE DEF TablesCreated, Goto, fields, disk
<1>1. TypeOK'
  BY HandleType DEF IInv, TypeOK, PcStates, Working, NameOrNull
<1>2. DiskOrdered'
  BY DEF IInv, TypeOK, DiskOrdered, ProcessKnows, Working
<1>3. WinsAreRows'
  BY DEF IInv, TypeOK, WinsAreRows
<1>4. ASSUME NEW q \in Procs
      PROVE  ProcessKnows(q)'
  <2>1. CASE q = p
    BY <2>1 DEF IInv, TypeOK, DiskOrdered, ProcessKnows, HandleFor, OpenOn,
                NoHandle, PcStates, Working, NameOrNull
  <2>2. CASE q # p
    BY <2>2 DEF IInv, TypeOK, DiskOrdered, ProcessKnows, HandleFor, OpenOn,
                NoHandle, PcStates, Working, NameOrNull
  <2>3. QED  BY <2>1, <2>2
<1>5. QED  BY <1>1, <1>2, <1>3, <1>4 DEF IInv

LEMMA TablesFailedIInv ==
  ASSUME NEW p \in Procs, IInv, TablesFailed(p)
  PROVE  IInv'
<1> USE DEF TablesFailed, FailAfterClose, Return, disk
<1>1. TypeOK'
  BY HandleType DEF IInv, TypeOK, PcStates, Working, NameOrNull
<1>2. DiskOrdered'
  BY DEF IInv, TypeOK, DiskOrdered, ProcessKnows, Working
<1>3. WinsAreRows'
  BY DEF IInv, TypeOK, WinsAreRows
<1>4. ASSUME NEW q \in Procs
      PROVE  ProcessKnows(q)'
  <2>1. CASE q = p
    BY <2>1 DEF IInv, TypeOK, DiskOrdered, ProcessKnows, HandleFor, OpenOn,
                NoHandle, PcStates, Working, NameOrNull
  <2>2. CASE q # p
    BY <2>2 DEF IInv, TypeOK, DiskOrdered, ProcessKnows, HandleFor, OpenOn,
                NoHandle, PcStates, Working, NameOrNull
  <2>3. QED  BY <2>1, <2>2
<1>5. QED  BY <1>1, <1>2, <1>3, <1>4 DEF IInv

LEMMA InsertedIInv ==
  ASSUME NEW p \in Procs, IInv, Inserted(p)
  PROVE  IInv'
<1> USE DEF Inserted, NameUnused, Adopt, Return, disk
<1>1. TypeOK'
  BY HandleType DEF IInv, TypeOK, PcStates, Working, NameOrNull
<1>2. DiskOrdered'
  BY DEF IInv, TypeOK, DiskOrdered, ProcessKnows, Working
<1>3. WinsAreRows'
  BY DEF IInv, TypeOK, WinsAreRows
<1>4. ASSUME NEW q \in Procs
      PROVE  ProcessKnows(q)'
  <2>1. CASE q = p
    BY <2>1 DEF IInv, TypeOK, DiskOrdered, ProcessKnows, HandleFor, OpenOn,
                NoHandle, PcStates, Working, NameOrNull
  <2>2. CASE q # p
    BY <2>2 DEF IInv, TypeOK, DiskOrdered, ProcessKnows, HandleFor, OpenOn,
                NoHandle, PcStates, Working, NameOrNull
  <2>3. QED  BY <2>1, <2>2
<1>5. QED  BY <1>1, <1>2, <1>3, <1>4 DEF IInv

LEMMA InsertFailedIInv ==
  ASSUME NEW p \in Procs, IInv, InsertFailed(p)
  PROVE  IInv'
<1> USE DEF InsertFailed, NameUnused, FailAfterClose, Return, disk
<1>1. TypeOK'
  BY HandleType DEF IInv, TypeOK, PcStates, Working, NameOrNull
<1>2. DiskOrdered'
  BY DEF IInv, TypeOK, DiskOrdered, ProcessKnows, Working
<1>3. WinsAreRows'
  BY DEF IInv, TypeOK, WinsAreRows
<1>4. ASSUME NEW q \in Procs
      PROVE  ProcessKnows(q)'
  <2>1. CASE q = p
    BY <2>1 DEF IInv, TypeOK, DiskOrdered, ProcessKnows, HandleFor, OpenOn,
                NoHandle, PcStates, Working, NameOrNull
  <2>2. CASE q # p
    BY <2>2 DEF IInv, TypeOK, DiskOrdered, ProcessKnows, HandleFor, OpenOn,
                NoHandle, PcStates, Working, NameOrNull
  <2>3. QED  BY <2>1, <2>2
<1>5. QED  BY <1>1, <1>2, <1>3, <1>4 DEF IInv

LEMMA OpenRefusedIInv ==
  ASSUME NEW p \in Procs, NEW n \in Names, IInv, OpenRefused(p, n)
  PROVE  IInv'
<1> USE DEF OpenRefused, PathFree, Return, fields, disk
<1>1. TypeOK'
  BY HandleType DEF IInv, TypeOK, PcStates, Working, NameOrNull
<1>2. DiskOrdered'
  BY DEF IInv, TypeOK, DiskOrdered, ProcessKnows, Working
<1>3. WinsAreRows'
  BY DEF IInv, TypeOK, WinsAreRows
<1>4. ASSUME NEW q \in Procs
      PROVE  ProcessKnows(q)'
  <2>1. CASE q = p
    BY <2>1 DEF IInv, TypeOK, DiskOrdered, ProcessKnows, HandleFor, OpenOn,
                NoHandle, PcStates, Working, NameOrNull
  <2>2. CASE q # p
    BY <2>2 DEF IInv, TypeOK, DiskOrdered, ProcessKnows, HandleFor, OpenOn,
                NoHandle, PcStates, Working, NameOrNull
  <2>3. QED  BY <2>1, <2>2
<1>5. QED  BY <1>1, <1>2, <1>3, <1>4 DEF IInv

LEMMA OpenBeginIInv ==
  ASSUME NEW p \in Procs, NEW n \in Names, IInv, OpenBegin(p, n)
  PROVE  IInv'
<1> USE DEF OpenBegin, PathFree, Goto, fields, disk
<1>1. TypeOK'
  BY HandleType DEF IInv, TypeOK, PcStates, Working, NameOrNull
<1>2. DiskOrdered'
  BY DEF IInv, TypeOK, DiskOrdered, ProcessKnows, Working
<1>3. WinsAreRows'
  BY DEF IInv, TypeOK, WinsAreRows
<1>4. ASSUME NEW q \in Procs
      PROVE  ProcessKnows(q)'
  <2>1. CASE q = p
    BY <2>1 DEF IInv, TypeOK, DiskOrdered, ProcessKnows, HandleFor, OpenOn,
                NoHandle, PcStates, Working, NameOrNull
  <2>2. CASE q # p
    BY <2>2 DEF IInv, TypeOK, DiskOrdered, ProcessKnows, HandleFor, OpenOn,
                NoHandle, PcStates, Working, NameOrNull
  <2>3. QED  BY <2>1, <2>2
<1>5. QED  BY <1>1, <1>2, <1>3, <1>4 DEF IInv

LEMMA OpenedIInv ==
  ASSUME NEW p \in Procs, IInv, Opened(p)
  PROVE  IInv'
<1> USE DEF Opened, Adopt, Return, disk
<1>1. TypeOK'
  BY HandleType DEF IInv, TypeOK, PcStates, Working, NameOrNull
<1>2. DiskOrdered'
  BY DEF IInv, TypeOK, DiskOrdered, ProcessKnows, Working
<1>3. WinsAreRows'
  BY DEF IInv, TypeOK, WinsAreRows
<1>4. ASSUME NEW q \in Procs
      PROVE  ProcessKnows(q)'
  <2>1. CASE q = p
    BY <2>1 DEF IInv, TypeOK, DiskOrdered, ProcessKnows, HandleFor, OpenOn,
                NoHandle, PcStates, Working, NameOrNull
  <2>2. CASE q # p
    BY <2>2 DEF IInv, TypeOK, DiskOrdered, ProcessKnows, HandleFor, OpenOn,
                NoHandle, PcStates, Working, NameOrNull
  <2>3. QED  BY <2>1, <2>2
<1>5. QED  BY <1>1, <1>2, <1>3, <1>4 DEF IInv

LEMMA CloseNothingIInv ==
  ASSUME NEW p \in Procs, IInv, CloseNothing(p)
  PROVE  IInv'
<1> USE DEF CloseNothing, Return, fields, disk
<1>1. TypeOK'
  BY HandleType DEF IInv, TypeOK, PcStates, Working, NameOrNull
<1>2. DiskOrdered'
  BY DEF IInv, TypeOK, DiskOrdered, ProcessKnows, Working
<1>3. WinsAreRows'
  BY DEF IInv, TypeOK, WinsAreRows
<1>4. ASSUME NEW q \in Procs
      PROVE  ProcessKnows(q)'
  <2>1. CASE q = p
    BY <2>1 DEF IInv, TypeOK, DiskOrdered, ProcessKnows, HandleFor, OpenOn,
                NoHandle, PcStates, Working, NameOrNull
  <2>2. CASE q # p
    BY <2>2 DEF IInv, TypeOK, DiskOrdered, ProcessKnows, HandleFor, OpenOn,
                NoHandle, PcStates, Working, NameOrNull
  <2>3. QED  BY <2>1, <2>2
<1>5. QED  BY <1>1, <1>2, <1>3, <1>4 DEF IInv

LEMMA CloseIInv ==
  ASSUME NEW p \in Procs, IInv, Close(p)
  PROVE  IInv'
<1> USE DEF Close, Adopt, Return, disk
<1>1. TypeOK'
  BY HandleType DEF IInv, TypeOK, PcStates, Working, NameOrNull
<1>2. DiskOrdered'
  BY DEF IInv, TypeOK, DiskOrdered, ProcessKnows, Working
<1>3. WinsAreRows'
  BY DEF IInv, TypeOK, WinsAreRows
<1>4. ASSUME NEW q \in Procs
      PROVE  ProcessKnows(q)'
  <2>1. CASE q = p
    BY <2>1 DEF IInv, TypeOK, DiskOrdered, ProcessKnows, HandleFor, OpenOn,
                NoHandle, PcStates, Working, NameOrNull
  <2>2. CASE q # p
    BY <2>2 DEF IInv, TypeOK, DiskOrdered, ProcessKnows, HandleFor, OpenOn,
                NoHandle, PcStates, Working, NameOrNull
  <2>3. QED  BY <2>1, <2>2
<1>5. QED  BY <1>1, <1>2, <1>3, <1>4 DEF IInv

LEMMA ListIInv ==
  ASSUME NEW p \in Procs, IInv, List(p)
  PROVE  IInv'
<1> USE DEF List, Return, fields, disk
<1>1. TypeOK'
  BY HandleType DEF IInv, TypeOK, PcStates, Working, NameOrNull
<1>2. DiskOrdered'
  BY DEF IInv, TypeOK, DiskOrdered, ProcessKnows, Working
<1>3. WinsAreRows'
  BY DEF IInv, TypeOK, WinsAreRows
<1>4. ASSUME NEW q \in Procs
      PROVE  ProcessKnows(q)'
  <2>1. CASE q = p
    BY <2>1 DEF IInv, TypeOK, DiskOrdered, ProcessKnows, HandleFor, OpenOn,
                NoHandle, PcStates, Working, NameOrNull
  <2>2. CASE q # p
    BY <2>2 DEF IInv, TypeOK, DiskOrdered, ProcessKnows, HandleFor, OpenOn,
                NoHandle, PcStates, Working, NameOrNull
  <2>3. QED  BY <2>1, <2>2
<1>5. QED  BY <1>1, <1>2, <1>3, <1>4 DEF IInv

LEMMA StutterIInv == IInv /\ UNCHANGED vars => IInv'
  BY DEF IInv, TypeOK, DiskOrdered, WinsAreRows, ProcessKnows, HandleFor, vars,
         disk, fields

LEMMA NextIInv == IInv /\ [Next]_vars => IInv'
<1> SUFFICES ASSUME IInv, [Next]_vars PROVE IInv'
  OBVIOUS
<1>1. CASE UNCHANGED vars
  BY <1>1, StutterIInv
<1>2. ASSUME NEW p \in Procs, NEW w \in NameOrNull, Start(p, w)
      PROVE  IInv'
  BY <1>2, StartIInv
<1>3. ASSUME NEW p \in Procs, Quit(p) \/ Crash(p)
      PROVE  IInv'
  BY <1>3, QuitIInv, CrashIInv
<1>4. ASSUME NEW p \in Procs, Command(p)
      PROVE  IInv'
  BY <1>4, CreateRefusedIInv, CreateBeginIInv, OpenRefusedIInv, OpenBeginIInv,
     CloseNothingIInv, CloseIInv, ListIInv DEF Command
<1>5. ASSUME NEW p \in Procs, Step(p)
      PROVE  IInv'
  BY <1>5, MakeDirIInv, MakeSubdirsIInv, DbOpenedIInv, DbOpenFailedIInv,
     TablesCreatedIInv, TablesFailedIInv, InsertedIInv, InsertFailedIInv,
     OpenedIInv DEF Step
<1>6. QED  BY <1>1, <1>2, <1>3, <1>4, <1>5 DEF Next

\* The inductive invariant holds in every reachable state.
THEOREM Inductive == Spec => []IInv
<1>1. QED  BY InitIInv, NextIInv, PTL DEF Spec

\* Every variable keeps its type, for any processes, names and faults.
THEOREM TypeCorrect == Spec => []TypeOK
<1>1. IInv => TypeOK
  BY DEF IInv
<1>2. QED  BY <1>1, Inductive, PTL

\* No name is ever reported as created twice, whatever races or fails.
THEOREM OneCreate == Spec => []AtMostOneCreate
<1>1. IInv => AtMostOneCreate
  BY DEF IInv, WinsAreRows, AtMostOneCreate
<1>2. QED  BY <1>1, Inductive, PTL

\* Selection, directory and handle agree at rest after a success.
THEOREM HandleMatches == Spec => []HandleMatchesSelection
<1>1. IInv => HandleMatchesSelection
  BY DEF IInv, ProcessKnows, HandleMatchesSelection, HandleFor
<1>2. QED  BY <1>1, Inductive, PTL

-----------------------------------------------------------------------------
(* Action properties                                                       *)

\* A name that a crash or a failed sqlite3_open has wedged stays unusable.
THEOREM WedgedStays == Spec => WedgedForever
<1>1. ASSUME IInv, [Next]_vars, NEW n \in Names, Wedged(n)
      PROVE  Wedged(n)'
  <2> USE DEF Wedged, IInv, TypeOK, Working, PcStates
  <2>1. CASE UNCHANGED vars
    BY <1>1, <2>1 DEF vars, disk
  <2>2. ASSUME NEW p \in Procs, NEW w \in NameOrNull, Start(p, w)
        PROVE  Wedged(n)'
    BY <1>1, <2>2 DEF Start, disk
  <2>3. ASSUME NEW p \in Procs, Quit(p) \/ Crash(p)
        PROVE  Wedged(n)'
    BY <1>1, <2>3 DEF Quit, Crash, Gone, disk
  <2>4. ASSUME NEW p \in Procs, Command(p)
        PROVE  Wedged(n)'
    BY <1>1, <2>4 DEF Command, CreateRefused, CreateBegin, OpenRefused,
       OpenBegin, PathFree, CloseNothing, Close, List, Goto, Return, disk
  <2>5. ASSUME NEW p \in Procs, Step(p)
        PROVE  Wedged(n)'
    BY <1>1, <2>5 DEF Step, MakeDir, MakeSubdirs, DbOpened, DbOpenFailed,
       TablesCreated, TablesFailed, Inserted, InsertFailed, Opened,
       FailAfterClose, Goto, Return, disk
  <2>6. QED  BY <1>1, <2>1, <2>2, <2>3, <2>4, <2>5 DEF Next
<1>2. IInv /\ [Next]_vars => [\A n \in Names : Wedged(n) => Wedged(n)']_vars
  BY <1>1
<1>3. QED  BY <1>2, Inductive, PTL DEF Spec, WedgedForever

\* The current workspace of a process changes only when the process starts,
\* ends, or completes a command with success.
KeepsSelection ==
  \A p \in Procs : (cur'[p] # cur[p] \/ wdir'[p] # wdir[p]) =>
    pc[p] = "off" \/ pc'[p] = "off" \/ (pc'[p] = "idle" /\ rc'[p] = 0)

THEOREM SelectionKept == Spec => FailureKeepsSelection
<1>1. ASSUME IInv, Next PROVE KeepsSelection
  <2> USE DEF KeepsSelection, IInv, TypeOK
  <2>1. ASSUME NEW p \in Procs, NEW w \in NameOrNull, Start(p, w)
        PROVE  KeepsSelection
    BY <1>1, <2>1 DEF Start
  <2>2. ASSUME NEW p \in Procs, Quit(p) \/ Crash(p)
        PROVE  KeepsSelection
    BY <1>1, <2>2 DEF Quit, Crash, Gone
  <2>3. ASSUME NEW p \in Procs, Command(p)
        PROVE  KeepsSelection
    BY <1>1, <2>3 DEF Command, CreateRefused, CreateBegin, OpenRefused,
       OpenBegin, CloseNothing, Close, List, Adopt, Goto, Return, fields
  <2>4. ASSUME NEW p \in Procs, Step(p)
        PROVE  KeepsSelection
    BY <1>1, <2>4 DEF Step, MakeDir, MakeSubdirs, DbOpened, DbOpenFailed,
       TablesCreated, TablesFailed, Inserted, InsertFailed, Opened, Adopt,
       FailAfterClose, Goto, Return, fields
  <2>5. QED  BY <1>1, <2>1, <2>2, <2>3, <2>4 DEF Next
<1>2. IInv /\ [Next]_vars => [KeepsSelection]_vars
  BY <1>1
<1>3. QED
  BY <1>2, Inductive, PTL DEF Spec, FailureKeepsSelection, KeepsSelection

-----------------------------------------------------------------------------
(* Refinement of Registry: a step of Workspace is a step of Registry, or   *)
(* changes nothing that Registry can see.                                  *)

THEOREM Refinement == Spec => ImplementsRegistry
<1> USE DEF R!vars
<1>1. Init => R!Init
  BY DEF Init, R!Init
<1>2. ASSUME IInv, [Next]_vars PROVE [R!Next]_R!vars
  <2> USE DEF IInv, TypeOK, DiskOrdered
  <2>1. CASE UNCHANGED vars
    BY <2>1 DEF vars, disk, fields
  <2>2. ASSUME NEW p \in Procs, NEW w \in NameOrNull, Start(p, w)
        PROVE  R!Start(p, w)
    BY <1>2, <2>2 DEF Start, R!Start, disk
  <2>3. ASSUME NEW p \in Procs, Quit(p) \/ Crash(p)
        PROVE  R!Stop(p)
    BY <1>2, <2>3 DEF Quit, Crash, Gone, R!Stop, disk, Working, PcStates
  <2>4. ASSUME NEW p \in Procs, Close(p)
        PROVE  R!Close(p)
    BY <1>2, <2>4 DEF Close, Adopt, Return, R!Close, disk
  <2>5. ASSUME NEW p \in Procs, Inserted(p)
        PROVE  R!Create(p, arg[p])
    BY <1>2, <2>5 DEF Inserted, NameUnused, Adopt, Return, R!Create
  <2>6. ASSUME NEW p \in Procs, Opened(p)
        PROVE  R!Open(p, arg[p])
    BY <1>2, <2>6 DEF Opened, Adopt, Return, R!Open, ProcessKnows
  <2>7. ASSUME NEW p \in Procs, DbOpened(p)
        PROVE  R!Appear(arg[p])
    BY <1>2, <2>7 DEF DbOpened, Goto, R!Appear, fields
  <2>8. ASSUME NEW p \in Procs,
               \/ MakeDir(p) \/ MakeSubdirs(p) \/ DbOpenFailed(p)
               \/ TablesCreated(p) \/ TablesFailed(p) \/ InsertFailed(p)
        PROVE  UNCHANGED R!vars
    BY <1>2, <2>8 DEF MakeDir, MakeSubdirs, DbOpenFailed, TablesCreated,
       TablesFailed, InsertFailed, FailAfterClose, Goto, Return, disk, fields
  <2>9. ASSUME NEW p \in Procs,
               \/ \E n \in Names : \/ CreateRefused(p, n) \/ CreateBegin(p, n)
                                   \/ OpenRefused(p, n) \/ OpenBegin(p, n)
               \/ CloseNothing(p) \/ List(p)
        PROVE  UNCHANGED R!vars
    BY <1>2, <2>9 DEF CreateRefused, CreateBegin, OpenRefused, OpenBegin,
       CloseNothing, List, Goto, Return, disk, fields
  <2>10. ASSUME NEW p \in Procs, Step(p) PROVE [R!Next]_R!vars
    <3>1. CASE Inserted(p) \/ Opened(p) \/ DbOpened(p)
      <4>1. arg[p] \in Names
        BY <1>2, <3>1 DEF Inserted, Opened, DbOpened, Working, PcStates
      <4>2. R!Next
        BY <3>1, <4>1, <2>5, <2>6, <2>7 DEF R!Next
      <4>3. QED  BY <4>2
    <3>2. CASE ~(Inserted(p) \/ Opened(p) \/ DbOpened(p))
      BY <2>8, <2>10, <3>2 DEF Step
    <3>3. QED  BY <3>1, <3>2
  <2>11. ASSUME NEW p \in Procs, Command(p) PROVE [R!Next]_R!vars
    BY <2>4, <2>9, <2>11 DEF Command, R!Next
  <2>12. QED
    BY <1>2, <2>1, <2>2, <2>3, <2>10, <2>11 DEF Next, R!Next, NameOrNull
<1>3. QED  BY <1>1, <1>2, Inductive, PTL DEF Spec, ImplementsRegistry, R!Spec

-----------------------------------------------------------------------------
(* The directory tree, in an environment where mkdir does not fail.        *)

\* A creation that has reached sqlite3_open has made its subdirectories.
TreesMade ==
  /\ files \subseteq trees
  /\ \A p \in Procs : pc[p] = "createdb" => arg[p] \in trees

\* Without mkdir failures, what can be opened has its whole directory tree.
THEOREM Complete == "mkdir" \notin Faults => (Spec => []OpenableIsComplete)
<1> SUFFICES ASSUME "mkdir" \notin Faults PROVE Spec => []OpenableIsComplete
  OBVIOUS
<1>1. Init => TreesMade
  BY DEF Init, TreesMade
<1>2. ASSUME IInv, TreesMade, [Next]_vars PROVE TreesMade'
  <2> USE DEF TreesMade, IInv, TypeOK
  <2>1. CASE UNCHANGED vars
    BY <1>2, <2>1 DEF vars, disk
  <2>2. ASSUME NEW p \in Procs, NEW w \in NameOrNull, Start(p, w)
        PROVE  TreesMade'
    BY <1>2, <2>2 DEF Start, disk
  <2>3. ASSUME NEW p \in Procs, Quit(p) \/ Crash(p)
        PROVE  TreesMade'
    BY <1>2, <2>3 DEF Quit, Crash, Gone, disk
  <2>4. ASSUME NEW p \in Procs, Command(p)
        PROVE  TreesMade'
    BY <1>2, <2>4 DEF Command, CreateRefused, CreateBegin, OpenRefused,
       OpenBegin, PathFree, CloseNothing, Close, List, Goto, Return, disk
  <2>5. ASSUME NEW p \in Procs, MakeDir(p) \/ MakeSubdirs(p)
        PROVE  TreesMade'
    BY <1>2, <2>5 DEF MakeDir, MakeSubdirs, Goto
  <2>6. ASSUME NEW p \in Procs, DbOpened(p)
        PROVE  TreesMade'
    BY <1>2, <2>6 DEF DbOpened, Goto, ProcessKnows
  <2>7. ASSUME NEW p \in Procs,
               \/ DbOpenFailed(p) \/ TablesCreated(p) \/ TablesFailed(p)
               \/ Inserted(p) \/ InsertFailed(p) \/ Opened(p)
        PROVE  TreesMade'
    BY <1>2, <2>7 DEF DbOpenFailed, TablesCreated, TablesFailed, Inserted,
       InsertFailed, Opened, FailAfterClose, Goto, Return, disk
  <2>8. QED
    BY <1>2, <2>1, <2>2, <2>3, <2>4, <2>5, <2>6, <2>7 DEF Next, Step
<1>3. TreesMade => OpenableIsComplete
  BY DEF TreesMade, OpenableIsComplete
<1>4. QED  BY <1>1, <1>2, <1>3, Inductive, PTL DEF Spec

=============================================================================
