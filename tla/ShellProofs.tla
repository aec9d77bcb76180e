----------------------------- MODULE ShellProofs -----------------------------
(***************************************************************************)
(* The safety properties of Shell for every history size and any number of *)
(* reads.  The history is handled elementwise: Owned says which entry is   *)
(* at which place of freed and of history, and HistoryOwnsStrings is its   *)
(* statement as one equation between sequences.                            *)
(***************************************************************************)
EXTENDS Shell, SequenceTheorems, TLAPS

\* freed f and kept h, as sequences of the numbers 1 .. n cut in two.
Cut(f, h, n) ==
  /\ Len(f) + Len(h) = n
  /\ \A i \in 1..Len(f) : f[i] = i
  /\ \A i \in 1..Len(h) : h[i] = Len(f) + i

\* Entries 1 .. Len(freed) are freed, in order; the rest is the history.
Owned == Cut(freed, history, entered)

\* What SIGTERM leaves behind, place by place.
TermKnown ==
  /\ term = "none" => late = 0
  /\ term = "busy" => late = 0 /\ (pc \in {"cleanup", "gone"} \/ ~running)
  /\ term = "busy" => pc \notin {"boot", "armed", "reading"}
  /\ term = "reading" =>
       /\ pc \notin {"boot", "armed", "ready"}
       /\ ~running
       /\ late <= 1
       /\ late = 1 => pc # "reading"

\* Before the loop and at the end there is no history.
HistEmpty == pc \in {"boot", "armed", "ready", "gone"} => history = <<>>

\* Until clean-up the history holds as many entries as it can
\* (shell.c:8-9, 71-78): no entry goes before the array is full.
HistoryIsFull ==
  pc # "gone" => Len(history) = (IF entered < MaxHistory THEN entered
                                 ELSE MaxHistory)

IInv ==
  /\ TypeOK
  /\ Owned
  /\ HistoryIsFull
  /\ TermKnown
  /\ HistEmpty

USE MaxHistoryAssumption, MaxReadsAssumption

LEMMA InitIInv == Init => IInv
<1> SUFFICES ASSUME Init PROVE IInv
  OBVIOUS
<1> USE DEF Init
<1>1. <<>> \in Seq(Nat) /\ Len(<<>>) = 0
  BY EmptySeq
<1>2. TypeOK
  <2>1. history \in Seq(Nat) /\ Len(history) <= MaxHistory /\ freed \in Seq(Nat)
    BY <1>1
  <2>2. QED  BY <2>1 DEF TypeOK, Kinds, PcStates
<1>3. Owned
  BY <1>1 DEF Owned, Cut
<1>4. HistoryIsFull /\ TermKnown /\ HistEmpty
  BY <1>1 DEF HistoryIsFull, TermKnown, HistEmpty
<1>5. QED  BY <1>2, <1>3, <1>4 DEF IInv

\* A push that finds room.
LEMMA PushRoom ==
  ASSUME NEW f \in Seq(Nat), NEW h \in Seq(Nat), NEW n \in Nat, Cut(f, h, n)
  PROVE  /\ Append(h, n + 1) \in Seq(Nat)
         /\ Len(Append(h, n + 1)) = Len(h) + 1
         /\ Cut(f, Append(h, n + 1), n + 1)
<1> DEFINE g == Append(h, n + 1)
<1>1. Len(h) \in Nat /\ Len(f) \in Nat /\ n = Len(f) + Len(h)
  BY LenProperties DEF Cut
<1>2. /\ g \in Seq(Nat) /\ Len(g) = Len(h) + 1
      /\ \A i \in 1..Len(h) : g[i] = h[i]
      /\ g[Len(h) + 1] = n + 1
  BY AppendProperties
<1> HIDE DEF g
<1>3. ASSUME NEW i \in 1..Len(g)
      PROVE  g[i] = Len(f) + i
  <2>1. CASE i = Len(h) + 1
    <3>1. g[i] = n + 1
      BY <1>2, <2>1
    <3>2. n + 1 = Len(f) + i
      BY <1>1, <2>1
    <3>3. QED  BY <3>1, <3>2
  <2>2. CASE i # Len(h) + 1
    <3>1. i \in 1..Len(h)
      BY <1>1, <1>2, <2>2
    <3>2. QED  BY <1>2, <3>1 DEF Cut
  <2>3. QED  BY <2>1, <2>2
<1>4. Cut(f, g, n + 1)
  BY <1>1, <1>2, <1>3 DEF Cut
<1>5. QED  BY <1>2, <1>4 DEF g

\* A push that frees the oldest.
LEMMA PushOut ==
  ASSUME NEW f \in Seq(Nat), NEW h \in Seq(Nat), NEW n \in Nat, Cut(f, h, n),
         Len(h) >= 1
  PROVE  /\ Append(Tail(h), n + 1) \in Seq(Nat)
         /\ Append(f, Head(h)) \in Seq(Nat)
         /\ Len(Append(Tail(h), n + 1)) = Len(h)
         /\ Cut(Append(f, Head(h)), Append(Tail(h), n + 1), n + 1)
<1> DEFINE g == Append(Tail(h), n + 1)
           e == Append(f, Head(h))
<1>1. /\ Len(h) \in Nat /\ Len(f) \in Nat /\ h # <<>>
      /\ n = Len(f) + Len(h)
  BY LenProperties, EmptySeq DEF Cut
<1>2. /\ Tail(h) \in Seq(Nat) /\ Head(h) = h[1]
      /\ Len(Tail(h)) = Len(h) - 1
      /\ \A i \in 1..Len(h) - 1 : Tail(h)[i] = h[i + 1]
  BY <1>1, HeadTailProperties
<1>3. /\ g \in Seq(Nat) /\ Len(g) = Len(h)
      /\ \A i \in 1..Len(h) - 1 : g[i] = h[i + 1]
      /\ g[Len(h)] = n + 1
  BY <1>1, <1>2, AppendProperties
<1>4. Head(h) = Len(f) + 1
  BY <1>1, <1>2 DEF Cut
<1>5. /\ e \in Seq(Nat) /\ Len(e) = Len(f) + 1
      /\ \A i \in 1..Len(f) : e[i] = f[i]
      /\ e[Len(f) + 1] = Len(f) + 1
  BY <1>1, <1>4, AppendProperties
<1> HIDE DEF g, e
<1>6. ASSUME NEW i \in 1..Len(e)
      PROVE  e[i] = i
  <2>1. CASE i = Len(f) + 1
    BY <1>5, <2>1
  <2>2. CASE i # Len(f) + 1
    <3>1. i \in 1..Len(f)
      BY <1>1, <1>5, <2>2
    <3>2. QED  BY <1>5, <3>1 DEF Cut
  <2>3. QED  BY <2>1, <2>2
<1>7. ASSUME NEW i \in 1..Len(g)
      PROVE  g[i] = Len(e) + i
  <2>1. CASE i = Len(h)
    <3>1. g[i] = n + 1
      BY <1>3, <2>1
    <3>2. n + 1 = Len(e) + i
      BY <1>1, <1>5, <2>1
    <3>3. QED  BY <3>1, <3>2
  <2>2. CASE i # Len(h)
    <3>1. i \in 1..Len(h) - 1 /\ i + 1 \in 1..Len(h)
      BY <1>1, <1>3, <2>2
    <3>2. g[i] = h[i + 1] /\ h[i + 1] = Len(f) + (i + 1)
      BY <1>3, <3>1 DEF Cut
    <3>3. QED  BY <1>1, <1>5, <3>1, <3>2
  <2>3. QED  BY <2>1, <2>2
<1>8. Cut(e, g, n + 1)
  BY <1>1, <1>3, <1>5, <1>6, <1>7 DEF Cut
<1>9. QED  BY <1>3, <1>5, <1>8 DEF g, e

\* One more entry: the history stays what it should be.
LEMMA AddKeepsHistory ==
  ASSUME IInv, AddToHistory, pc # "gone", pc' # "gone"
  PROVE  /\ history' \in Seq(Nat) /\ freed' \in Seq(Nat) /\ entered' \in Nat
         /\ Len(history') <= MaxHistory
         /\ Owned'
         /\ HistoryIsFull'
<1>1. /\ history \in Seq(Nat) /\ Len(history) \in Nat
      /\ freed \in Seq(Nat) /\ Len(freed) \in Nat
      /\ entered \in Nat /\ Len(history) <= MaxHistory
      /\ Cut(freed, history, entered)
  BY LenProperties DEF IInv, TypeOK, Owned
<1>2. Len(history) = IF entered < MaxHistory THEN entered ELSE MaxHistory
  BY DEF IInv, HistoryIsFull
<1>3. entered' = entered + 1
  BY DEF AddToHistory, Push
<1>4. Len(freed) + Len(history) = entered
  BY <1>1 DEF Cut
<1>5. CASE Len(history) >= MaxHistory
  <2>1. /\ freed' = Append(freed, Head(history))
        /\ history' = Append(Tail(history), entered + 1)
    BY <1>5 DEF AddToHistory, Push
  <2>2. /\ history' \in Seq(Nat) /\ freed' \in Seq(Nat)
        /\ Len(history') = Len(history)
        /\ Cut(freed', history', entered')
    BY <1>1, <1>3, <1>5, <2>1, PushOut
  <2>3. HistoryIsFull'
    BY <1>1, <1>2, <1>3, <1>4, <1>5, <2>2 DEF HistoryIsFull
  <2>4. QED  BY <1>1, <1>3, <2>2, <2>3 DEF Owned
<1>6. CASE ~(Len(history) >= MaxHistory)
  <2>1. history' = Append(history, entered + 1) /\ freed' = freed
    BY <1>6 DEF AddToHistory, Push
  <2>2. /\ history' \in Seq(Nat) /\ Len(history') = Len(history) + 1
        /\ Cut(freed', history', entered')
    BY <1>1, <1>3, <2>1, PushRoom
  <2>3. HistoryIsFull'
    BY <1>1, <1>2, <1>3, <1>4, <1>6, <2>2 DEF HistoryIsFull
  <2>4. Len(history') <= MaxHistory
    BY <1>1, <1>6, <2>2
  <2>5. QED  BY <1>1, <1>3, <2>1, <2>2, <2>3, <2>4 DEF Owned
<1>7. QED  BY <1>5, <1>6

\* Clean-up frees the whole history behind what was freed before.
LEMMA CleanupIInv == IInv /\ Cleanup => IInv'
<1> SUFFICES ASSUME IInv, Cleanup PROVE IInv'
  OBVIOUS
<1> USE DEF IInv, Cleanup, io, ghost
<1>1. /\ freed' \in Seq(Nat) /\ Len(freed') = Len(freed) + Len(history)
      /\ \A i \in 1..Len(freed) + Len(history) :
           freed'[i] = IF i <= Len(freed) THEN freed[i] ELSE history[i - Len(freed)]
  BY ConcatProperties DEF TypeOK
<1>2. Len(history') = 0 /\ history' \in Seq(Nat)
  BY EmptySeq
<1>3. Len(history) \in Nat /\ Len(freed) \in Nat
  BY LenProperties DEF TypeOK
<1>4. Owned'
  BY <1>1, <1>2, <1>3 DEF Owned, Cut, TypeOK
<1>5. TypeOK'
  BY <1>1, <1>2 DEF TypeOK, PcStates
<1>6. HistoryIsFull' /\ TermKnown' /\ HistEmpty'
  BY DEF HistoryIsFull, TermKnown, HistEmpty
<1>7. QED  BY <1>4, <1>5, <1>6

\* A line, or a part of one.
LEMMA FgetsIInv ==
  ASSUME NEW k \in Kinds, NEW more \in BOOLEAN, IInv, Fgets(k, more)
  PROVE  IInv'
<1> USE DEF IInv, Fgets, Take
<1>1. CASE k \in {"empty", "blank"}
  <2>1. pc' = "loop" /\ UNCHANGED <<history, entered, freed, kind>>
    BY <1>1 DEF mem
  <2>2. TypeOK'
    BY <1>1, <2>1 DEF TypeOK, PcStates
  <2>3. Owned' /\ HistoryIsFull' /\ HistEmpty'
    BY <2>1 DEF Owned, Cut, HistoryIsFull, HistEmpty
  <2>4. TermKnown'
    BY <1>1, <2>1 DEF TermKnown
  <2>5. QED  BY <2>2, <2>3, <2>4
<1>2. CASE k \notin {"empty", "blank"}
  <2>1. AddToHistory /\ pc' \in {"loop", "executing"} /\ pc = "reading"
    BY <1>2
  <2>2. /\ history' \in Seq(Nat) /\ freed' \in Seq(Nat) /\ entered' \in Nat
        /\ Len(history') <= MaxHistory /\ Owned' /\ HistoryIsFull'
    BY <2>1, AddKeepsHistory
  <2>3. TypeOK'
    BY <1>2, <2>1, <2>2 DEF TypeOK, PcStates, Kinds
  <2>4. TermKnown'
    BY <1>2, <2>1 DEF TermKnown, TypeOK
  <2>5. HistEmpty'
    BY <2>1 DEF HistEmpty
  <2>6. QED  BY <2>2, <2>3, <2>4, <2>5
<1>3. QED  BY <1>1, <1>2

\* The other steps leave the history alone.
LEMMA OtherIInv ==
  ASSUME IInv,
         \/ InstallHandlers \/ SetRunning \/ LeaveAtOnce \/ EnterLoop \/ LoopTest
         \/ ReadEof \/ Finish \/ Sigterm \/ CloseInput \/ UNCHANGED vars
  PROVE  IInv'
<1> USE DEF IInv, InstallHandlers, SetRunning, LeaveAtOnce, EnterLoop, LoopTest,
            Stays, ReadEof, Finish, Sigterm, CloseInput, vars, io, ghost, mem
<1>1. UNCHANGED <<history, entered, freed>> /\ (pc = "gone" => pc' = "gone")
  BY DEF TypeOK
<1>2. TypeOK'
  BY <1>1 DEF TypeOK, PcStates
<1>3. Owned' /\ HistoryIsFull' /\ HistEmpty'
  BY <1>1 DEF Owned, Cut, HistoryIsFull, HistEmpty, TypeOK
<1>4. TermKnown'
  BY DEF TermKnown, TypeOK
<1>5. QED  BY <1>2, <1>3, <1>4

LEMMA NextIInv == IInv /\ [Next]_vars => IInv'
  BY FgetsIInv, CleanupIInv, OtherIInv DEF Next, Step

\* The inductive invariant holds in every reachable state (shell.c:280-393).
THEOREM Inductive == Spec => []IInv
  BY InitIInv, NextIInv, PTL DEF Spec

\* Type correctness of the read loop, the history's length included.
THEOREM TypeCorrect == Spec => []TypeOK
<1>1. IInv => TypeOK
  BY DEF IInv
<1>2. QED  BY <1>1, Inductive, PTL

\* No entry of the history leaks, is freed twice or is lost, whatever the
\* size of the array (shell.c:70-79, 358-362).
THEOREM HistoryOwned == Spec => []HistoryOwnsStrings
<1>1. ASSUME IInv PROVE HistoryOwnsStrings
  <2>1. /\ history \in Seq(Nat) /\ freed \in Seq(Nat) /\ entered \in Nat
        /\ Len(history) \in Nat /\ Len(freed) \in Nat
    BY <1>1, LenProperties DEF IInv, TypeOK
  <2> DEFINE c == freed \o history
             n == [i \in 1..entered |-> i]
  <2>2. c \in Seq(Nat) /\ Len(c) = entered
    BY <1>1, <2>1, ConcatProperties DEF IInv, Owned, Cut
  <2>3. n \in Seq(Nat) /\ Len(n) = entered
    BY <2>1
  <2>4. ASSUME NEW i \in 1..entered
        PROVE  c[i] = i
    <3>1. c[i] = IF i <= Len(freed) THEN freed[i] ELSE history[i - Len(freed)]
      BY <1>1, <2>1, <2>2, ConcatProperties DEF IInv, Owned, Cut
    <3>2. CASE i <= Len(freed)
      BY <1>1, <2>1, <3>1, <3>2 DEF IInv, Owned, Cut
    <3>3. CASE ~(i <= Len(freed))
      <4>1. i - Len(freed) \in 1..Len(history)
        BY <1>1, <2>1, <3>3 DEF IInv, Owned, Cut
      <4>2. history[i - Len(freed)] = Len(freed) + (i - Len(freed))
        BY <1>1, <4>1 DEF IInv, Owned, Cut
      <4>3. QED  BY <2>1, <3>1, <3>3, <4>2
    <3>4. QED  BY <3>2, <3>3
  <2>5. c = n
    <3>1. \A i \in 1..Len(c) : c[i] = n[i]
      BY <2>2, <2>4
    <3> HIDE DEF c, n
    <3>2. QED  BY <2>2, <2>3, <3>1, SeqEqual
  <2>6. QED  BY <2>5 DEF HistoryOwnsStrings
<1>2. QED  BY <1>1, Inductive, PTL

\* No entry goes before the array is full (shell.c:70-79).
THEOREM HistoryFull == Spec => []HistoryIsFull
<1>1. IInv => HistoryIsFull
  BY DEF IInv
<1>2. QED  BY <1>1, Inductive, PTL

\* At most one command begins after SIGTERM was noticed, and none when the
\* shell was not waiting for input (shell.c:62-68, 368-389).
THEOREM LateCommand == Spec => []AtMostOneLateCommand
<1>1. IInv => AtMostOneLateCommand
  BY DEF IInv, TermKnown, AtMostOneLateCommand
<1>2. QED  BY <1>1, Inductive, PTL
=============================================================================
