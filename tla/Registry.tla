------------------------------ MODULE Registry ------------------------------
(***************************************************************************)
(* What the workspace engine promises, with no file system and no SQLite:  *)
(* a growing set of workspaces that exist, a growing set of those that     *)
(* some process created successfully, and the workspace each process has   *)
(* selected.  A name is created successfully once.  A running process      *)
(* selects a workspace only if it exists; what it was started with (-w) is *)
(* not checked.                                                            *)
(***************************************************************************)
CONSTANTS Procs, Names, NULL

VARIABLES
  present,     \* names that can be opened
  registered,  \* names a create command has reported as created
  up,          \* up[p]: process p is running
  selected     \* selected[p]: the current workspace of p, or NULL

vars == <<present, registered, up, selected>>

Init ==
  /\ present = {}
  /\ registered = {}
  /\ up = [p \in Procs |-> FALSE]
  /\ selected = [p \in Procs |-> NULL]

Start(p, w) ==
  /\ ~up[p]
  /\ up' = [up EXCEPT ![p] = TRUE]
  /\ selected' = [selected EXCEPT ![p] = w]
  /\ UNCHANGED <<present, registered>>

Stop(p) ==
  /\ up[p]
  /\ up' = [up EXCEPT ![p] = FALSE]
  /\ selected' = [selected EXCEPT ![p] = NULL]
  /\ UNCHANGED <<present, registered>>

\* A creation under way makes the name one that others can open.
Appear(n) ==
  /\ present' = present \cup {n}
  /\ UNCHANGED <<registered, up, selected>>

Create(p, n) ==
  /\ up[p]
  /\ n \in present \ registered
  /\ registered' = registered \cup {n}
  /\ selected' = [selected EXCEPT ![p] = n]
  /\ UNCHANGED <<present, up>>

Open(p, n) ==
  /\ up[p]
  /\ n \in present
  /\ selected' = [selected EXCEPT ![p] = n]
  /\ UNCHANGED <<present, registered, up>>

Close(p) ==
  /\ up[p]
  /\ selected' = [selected EXCEPT ![p] = NULL]
  /\ UNCHANGED <<present, registered, up>>

Next ==
  \/ \E n \in Names : Appear(n)
  \/ \E p \in Procs :
       \/ \E w \in Names \cup {NULL} : Start(p, w)
       \/ Stop(p)
       \/ \E n \in Names : Create(p, n) \/ Open(p, n)
       \/ Close(p)

Spec == Init /\ [][Next]_vars
=============================================================================
