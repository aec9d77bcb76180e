---------------------------- MODULE MCWorkspace ----------------------------
(* Instances of Workspace for TLC. *)
EXTENDS Workspace, TLC

CONSTANTS p1, p2, a, b

MCProcs2 == {p1, p2}
MCNames1 == {a}
MCNames2 == {a, b}
NoOpenFault == {"mkdir", "sql", "crash"}
SqlFaults == {"sql"}

\* Processes are interchangeable, and so are names.
Symmetric == Permutations(Procs) \cup Permutations(Names)
=============================================================================
