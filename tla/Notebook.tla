------------------------------ MODULE Notebook -------------------------------
(***************************************************************************)
(* What the knowledge base promises to its users, with no locks and no     *)
(* rows read one by one: a list of notes that only grows; each note, when  *)
(* it is there, reported as added by the shell that wrote it, unless that  *)
(* ends first; and searches that answer at one moment, with all that they  *)
(* select or, after an error that the user is not told of, the first part. *)
(***************************************************************************)
EXTENDS Naturals, Sequences

CONSTANTS Procs, Texts, Queries, Hits

VARIABLES
  notes,   \* the notes in the order they were written
  told,    \* the notes that were reported as added, with their places
  up,      \* up[p]: shell p is running
  owed,    \* owed[p]: the note that p has written and not yet reported
  answer   \* answer[p]: the notes that p's user sees

Init ==
  /\ notes = <<>> /\ told = {}
  /\ up = [p \in Procs |-> FALSE]
  /\ owed = [p \in Procs |-> {}]
  /\ answer = [p \in Procs |-> {}]

Enter(p) ==
  /\ ~up[p]
  /\ up' = [up EXCEPT ![p] = TRUE]
  /\ UNCHANGED <<notes, told, owed, answer>>

Leave(p) ==
  /\ up[p]
  /\ up' = [up EXCEPT ![p] = FALSE]
  /\ owed' = [owed EXCEPT ![p] = {}]
  /\ answer' = [answer EXCEPT ![p] = {}]
  /\ UNCHANGED <<notes, told>>

Free(p) == up[p] /\ owed[p] = {}

Write(p, text) ==
  /\ Free(p)
  /\ notes' = Append(notes, text)
  /\ owed' = [owed EXCEPT ![p] = {Len(notes) + 1}]
  /\ UNCHANGED <<told, up, answer>>

Report(p, i) ==
  /\ up[p] /\ owed[p] = {i}
  /\ told' = told \cup {[id |-> i, text |-> notes[i]]}
  /\ owed' = [owed EXCEPT ![p] = {}]
  /\ answer' = [answer EXCEPT ![p] = {}]
  /\ UNCHANGED <<notes, up>>

\* Reading has come to note n, the last one unless an error ended it.
Search(p, query, n) ==
  /\ Free(p)
  /\ answer' = [answer EXCEPT ![p] =
                  {i \in DOMAIN notes : i <= n /\ notes[i] \in Hits[query]}]
  /\ UNCHANGED <<notes, told, up, owed>>

\* A command that shows no note, or fails.
Clear(p) ==
  /\ Free(p)
  /\ answer' = [answer EXCEPT ![p] = {}]
  /\ UNCHANGED <<notes, told, up, owed>>

Next ==
  \E p \in Procs :
    \/ Enter(p) \/ Leave(p) \/ Clear(p)
    \/ \E text \in Texts : Write(p, text)
    \/ \E i \in DOMAIN notes : Report(p, i)
    \/ \E query \in Queries, n \in 0..Len(notes) : Search(p, query, n)

Spec == Init /\ [][Next]_<<notes, told, up, owed, answer>>
=============================================================================
