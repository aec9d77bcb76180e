---------------------------- MODULE ParserProofs -----------------------------
(***************************************************************************)
(* The command parser stays inside its line and inside argv, and cuts the  *)
(* line into arguments that follow one another and are those of the        *)
(* one-pass reference, for lines of any length and any MAX_ARGS.           *)
(***************************************************************************)
EXTENDS Parser, NumberTheorems, SequenceTheorems

USE LinesAssumption, MaxArgsAssumption

\* An argument is opened only while there is room for it, and begins behind
\* all that were read before.
Opened ==
  mode \in {"quoted", "plain"} =>
    /\ Room
    /\ start <= pos
    /\ \A i \in 1..Len(args) : args[i][2] < start

IInv == TypeOK /\ ArgsInOrder /\ Opened

LEMMA InitIInv == Init => IInv
<1> SUFFICES ASSUME Init PROVE IInv
  OBVIOUS
<1>1. args \in Seq(Nat \X Nat) /\ Len(args) = 0
  BY EmptySeq DEF Init
<1>2. line \in Seq(Chars) /\ Len(line) \in Nat
  BY LenProperties DEF Init
<1>3. TypeOK
  BY <1>1, <1>2 DEF Init, TypeOK
<1>4. ArgsInOrder /\ Opened
  BY <1>1 DEF Init, ArgsInOrder, Opened
<1>5. QED  BY <1>3, <1>4 DEF IInv

\* A place with a character is a place of the line, and After stays on it.
LEMMA AtInside ==
  ASSUME TypeOK, NEW i \in 1..Len(line) + 1, At(i) # "nul"
  PROVE  i \in 1..Len(line) /\ After(i) \in i + 1..Len(line) + 1
<1>1. line \in Seq(Chars) /\ Len(line) \in Nat
  BY LenProperties DEF TypeOK
<1>2. i \in 1..Len(line)
  BY <1>1 DEF At
<1>3. At(i + 1) # "nul" => i + 1 <= Len(line)
  BY <1>1, <1>2 DEF At
<1>4. QED  BY <1>1, <1>2, <1>3 DEF After

\* A further argument behind the others.
LEMMA AppendArg ==
  ASSUME IInv, NEW a \in Nat, NEW b \in Nat,
         Room, 1 <= a, a <= b + 1, b < pos', pos <= pos', pos' \in Nat,
         \A i \in 1..Len(args) : args[i][2] < a,
         args' = Append(args, <<a, b>>)
  PROVE  /\ args' \in Seq(Nat \X Nat)
         /\ Len(args') <= MaxArgs - 1
         /\ ArgsInOrder'
<1>1. args \in Seq(Nat \X Nat) /\ Len(args) \in Nat /\ pos \in Nat
  BY LenProperties DEF IInv, TypeOK
<1>2. /\ args' \in Seq(Nat \X Nat) /\ Len(args') = Len(args) + 1
      /\ \A i \in 1..Len(args) : args'[i] = args[i]
      /\ args'[Len(args) + 1] = <<a, b>>
  BY <1>1, AppendProperties
<1>3. \A i \in 1..Len(args) : args[i] \in Nat \X Nat
  BY <1>1
<1>4. ASSUME NEW i \in 1..Len(args')
      PROVE  1 <= args'[i][1] /\ args'[i][1] <= args'[i][2] + 1 /\ args'[i][2] < pos'
  <2>1. CASE i = Len(args) + 1
    BY <1>2, <2>1
  <2>2. CASE i # Len(args) + 1
    <3>1. i \in 1..Len(args)
      BY <1>1, <1>2, <2>2
    <3>2. 1 <= args[i][1] /\ args[i][1] <= args[i][2] + 1 /\ args[i][2] < pos
      BY <3>1 DEF IInv, ArgsInOrder
    <3>3. args'[i] = args[i] /\ args[i][2] \in Nat
      BY <1>2, <1>3, <3>1
    <3>4. QED  BY <1>1, <3>2, <3>3
  <2>3. QED  BY <2>1, <2>2
<1>5. ASSUME NEW i \in 1..Len(args') - 1
      PROVE  args'[i][2] < args'[i + 1][1]
  <2>1. i \in 1..Len(args)
    BY <1>1, <1>2
  <2>2. CASE i = Len(args)
    BY <1>1, <1>2, <2>1, <2>2
  <2>3. CASE i # Len(args)
    <3>1. i \in 1..Len(args) - 1 /\ i + 1 \in 1..Len(args)
      BY <1>1, <2>1, <2>3
    <3>2. args[i][2] < args[i + 1][1]
      BY <3>1 DEF IInv, ArgsInOrder
    <3>3. QED  BY <1>2, <2>1, <3>1, <3>2
  <2>4. QED  BY <2>2, <2>3
<1>6. ArgsInOrder'
  BY <1>4, <1>5 DEF ArgsInOrder
<1>7. Len(args') <= MaxArgs - 1
  BY <1>1, <1>2 DEF Room
<1>8. QED  BY <1>2, <1>6, <1>7

\* Without a further argument the order stays, as pos only grows.
LEMMA SameArgs ==
  ASSUME IInv, UNCHANGED args, pos <= pos', pos' \in Nat
  PROVE  ArgsInOrder'
<1>1. args \in Seq(Nat \X Nat) /\ Len(args) \in Nat /\ pos \in Nat
  BY LenProperties DEF IInv, TypeOK
<1>2. ASSUME NEW i \in 1..Len(args)
      PROVE  1 <= args[i][1] /\ args[i][1] <= args[i][2] + 1 /\ args[i][2] < pos'
  <2>1. args[i] \in Nat \X Nat
    BY <1>1
  <2>2. args[i][2] \in Nat
    BY <2>1
  <2>3. QED  BY <1>1, <2>2 DEF IInv, ArgsInOrder
<1>3. QED  BY <1>2 DEF IInv, ArgsInOrder

LEMMA NextIInv == IInv /\ [Next]_vars => IInv'
<1> SUFFICES ASSUME IInv, [Next]_vars PROVE IInv'
  OBVIOUS
<1>1. /\ line \in Seq(Chars) /\ Len(line) \in Nat
      /\ args \in Seq(Nat \X Nat) /\ Len(args) \in Nat
      /\ pos \in 1..Len(line) + 1 /\ start \in 1..Len(line) + 1
      /\ TypeOK /\ ArgsInOrder /\ Opened
  BY LenProperties DEF IInv, TypeOK
<1>2. CASE SkipBlank
  <2>1. pos' \in 1..Len(line) + 1 /\ pos <= pos'
    BY <1>1, <1>2, AtInside DEF SkipBlank
  <2>2. TypeOK' /\ Opened'
    BY <1>1, <1>2, <2>1 DEF SkipBlank, TypeOK, Opened
  <2>3. QED  BY <1>1, <1>2, <2>1, <2>2, SameArgs DEF SkipBlank, IInv
<1>3. CASE Stop
  <2>1. TypeOK' /\ Opened'
    BY <1>1, <1>3 DEF Stop, TypeOK, Opened
  <2>2. QED  BY <1>1, <1>3, <2>1, SameArgs DEF Stop, IInv
<1>4. CASE OpenQuote
  <2>1. pos' \in 1..Len(line) + 1 /\ pos <= pos'
    BY <1>1, <1>4, AtInside DEF OpenQuote
  <2>2. TypeOK'
    BY <1>1, <1>4, <2>1 DEF OpenQuote, TypeOK
  <2>3. ASSUME NEW i \in 1..Len(args)
        PROVE  args[i][2] < pos + 1
    <3>1. args[i] \in Nat \X Nat
      BY <1>1
    <3>2. args[i][2] \in Nat /\ args[i][2] < pos /\ pos \in Nat
      BY <1>1, <3>1 DEF ArgsInOrder
    <3>3. QED  BY <3>2
  <2>4. Opened'
    BY <1>1, <1>4, <2>1, <2>3 DEF OpenQuote, Opened, Room
  <2>5. QED  BY <1>1, <1>4, <2>1, <2>2, <2>4, SameArgs DEF OpenQuote, IInv
<1>5. CASE OpenPlain
  <2>1. TypeOK'
    BY <1>1, <1>5 DEF OpenPlain, TypeOK
  <2>2. Opened'
    BY <1>1, <1>5 DEF OpenPlain, Opened, Room, ArgsInOrder
  <2>3. QED  BY <1>1, <1>5, <2>1, <2>2, SameArgs DEF OpenPlain, IInv
<1>6. CASE Within
  <2>1. pos' \in pos + 1..Len(line) + 1
    BY <1>1, <1>6, AtInside DEF Within
  <2>2. TypeOK' /\ pos <= pos' /\ pos' \in Nat
    BY <1>1, <1>6, <2>1 DEF Within, TypeOK
  <2>3. Opened'
    BY <1>1, <1>6, <2>2 DEF Within, Opened, Room
  <2>4. QED  BY <1>1, <1>6, <2>2, <2>3, SameArgs DEF Within, IInv
<1>7. CASE CloseQuote
  <2>1. pos' = pos + 1 /\ pos \in 1..Len(line) /\ pos' \in Nat
    BY <1>1, <1>7, AtInside DEF CloseQuote, TypeOK
  <2>2. args' \in Seq(Nat \X Nat) /\ Len(args') <= MaxArgs - 1 /\ ArgsInOrder'
    BY <1>1, <1>7, <2>1, AppendArg DEF CloseQuote, Opened
  <2>3. TypeOK' /\ Opened'
    BY <1>1, <1>7, <2>1, <2>2 DEF CloseQuote, TypeOK, Opened
  <2>4. QED  BY <2>2, <2>3 DEF IInv
<1>8. CASE Unterminated
  <2>1. TypeOK' /\ Opened'
    BY <1>1, <1>8 DEF Unterminated, TypeOK, Opened
  <2>2. QED  BY <1>1, <1>8, <2>1, SameArgs DEF Unterminated, IInv
<1>9. CASE EndPlain
  <2>1. pos' \in 1..Len(line) + 1 /\ pos <= pos' /\ pos' \in Nat
    BY <1>1, <1>9, AtInside DEF EndPlain
  <2> DEFINE last == pos - 1
  <2>2. /\ start \in Nat /\ last \in Nat /\ 1 <= start /\ start <= last + 1
        /\ last < pos' /\ Room
    BY <1>1, <1>9, <2>1 DEF EndPlain, Opened
  <2>3. args' = Append(args, <<start, last>>)
    BY <1>9 DEF EndPlain
  <2>4. \A i \in 1..Len(args) : args[i][2] < start
    BY <1>1, <1>9 DEF EndPlain, Opened
  <2> HIDE DEF last
  <2>5. args' \in Seq(Nat \X Nat) /\ Len(args') <= MaxArgs - 1 /\ ArgsInOrder'
    BY <2>1, <2>2, <2>3, <2>4, AppendArg
  <2>6. TypeOK' /\ Opened'
    BY <1>1, <1>9, <2>1, <2>5 DEF EndPlain, TypeOK, Opened
  <2>7. QED  BY <2>5, <2>6 DEF IInv
<1>10. CASE UNCHANGED vars
  <2>1. TypeOK' /\ Opened'
    BY <1>1, <1>10 DEF vars, TypeOK, Opened, Room
  <2>2. QED  BY <1>1, <1>10, <2>1, SameArgs DEF vars, IInv
<1>11. QED
  BY <1>2, <1>3, <1>4, <1>5, <1>6, <1>7, <1>8, <1>9, <1>10 DEF Next

-----------------------------------------------------------------------------
(* The reference, run along with the code                                  *)

\* Where the reader of the reference is when the code is at pos: at the same
\* kind of place.  The end of the line closes a plain argument for the code
\* and leaves the reader in it, and an argument that ends with a backslash
\* leaves the reader waiting for one more character.
Reads ==
  LET w == Where(line)
  IN /\ pos <= Len(line) => ~w[pos].escaped
     /\ mode \in {"between", "ok"} =>
          \/ w[pos].in = "between"
          \/ pos = Len(line) + 1 /\ w[pos].in = "plain"
     /\ mode = "quoted" =>
          /\ start >= 2 /\ w[start - 1].in = "between"
          /\ \A j \in start..pos : w[j].in = quote
     /\ mode = "plain" =>
          /\ w[start].in = "between"
          /\ \A j \in start + 1..pos : w[j].in = "plain"
          /\ pos = start => At(pos) \in {"a", "b"}
     /\ mode = "ok" => At(pos) = "nul" \/ ~Room
     /\ mode = "invalid" => pos = Len(line) + 1 /\ w[pos].in = quote

\* The places of the line the code is done with.
Passed(j) == j < pos \/ (j = pos /\ mode \in {"between", "ok"})

\* The arguments so far are those of the reference that end there.
Done(w) == {k \in 1..Len(w) : Passed(k) /\ IsEnd(w, k)}
FoundSoFar ==
  LET w == Where(line)
  IN {args[i] : i \in 1..Len(args)} = {<<FirstOf(w, k), k - 1>> : k \in Done(w)}

ReadInv == IInv /\ Reads /\ FoundSoFar

Readers == [in : {"between", "plain", "d", "q"}, escaped : BOOLEAN]

LEMMA MovedType ==
  ASSUME NEW r \in Readers, NEW c \in Chars
  PROVE  Moved(r, c) \in Readers
BY DEF Readers, Chars, Moved

\* Where(l) is the run of the reader over l: its definition by recursion has
\* a solution.
LEMMA WhereIsRun ==
  ASSUME NEW l \in Seq(Chars)
  PROVE  /\ Where(l) \in [1..Len(l) + 1 -> Readers]
         /\ Where(l)[1] = Outside
         /\ \A i \in 1..Len(l) : Where(l)[i + 1] = Moved(Where(l)[i], l[i])
<1> DEFINE n == Len(l)
           Step(w, i) == IF i = 1 THEN Outside ELSE Moved(w[i - 1], l[i - 1])
           IsRun(w) == w = [i \in 1..n + 1 |-> Step(w, i)]
           g == [i \in 1..n |-> [r \in Readers |-> Moved(r, l[i])]]
<1>1. n \in Nat /\ \A i \in 1..n : l[i] \in Chars
  BY LenProperties
<1>2. Outside \in Readers
  BY DEF Outside, Readers
<1>3. g \in [1..n -> [Readers -> Readers]]
  BY <1>1, MovedType
<1>4. PICK f : f \in RunsOf(n, Readers, Outside, g)
  <2>1. n \in Nat
    BY <1>1
  <2> HIDE DEF g, n
  <2>2. QED  BY <1>2, <1>3, <2>1, RunExists, Zenon
<1>5. \A i \in 1..n : f[i + 1] = Moved(f[i], l[i])
  <2> SUFFICES ASSUME NEW i \in 1..n PROVE f[i + 1] = Moved(f[i], l[i])
    OBVIOUS
  <2>1. f[i] \in Readers
    BY <1>1, <1>4 DEF RunsOf
  <2>2. f[i + 1] = g[i][f[i]] /\ g[i] = [r \in Readers |-> Moved(r, l[i])]
    BY <1>4 DEF RunsOf
  <2> HIDE DEF n, g
  <2>3. QED  BY <2>1, <2>2
<1>6. IsRun(f)
  <2>1. ASSUME NEW i \in 1..n + 1 PROVE f[i] = Step(f, i)
    <3>1. CASE i = 1
      BY <1>4, <3>1 DEF RunsOf
    <3>2. CASE i # 1
      <4>1. i - 1 \in 1..n /\ (i - 1) + 1 = i
        BY <1>1, <3>2
      <4>2. QED  BY <1>5, <3>2, <4>1
    <3>3. QED  BY <3>1, <3>2
  <2> HIDE DEF Step, n
  <2>2. QED  BY <1>4, <2>1 DEF RunsOf
<1>7. Where(l) = CHOOSE w : IsRun(w)
  BY DEF Where
<1>8. IsRun(Where(l))
  <2> HIDE DEF IsRun
  <2>1. QED  BY <1>6, <1>7, Zenon
<1>9. \A i \in 1..n + 1 : Where(l)[i] = Step(Where(l), i)
  <2> DEFINE w == Where(l)
  <2>1. IsRun(w)
    BY <1>8
  <2> HIDE DEF w, Step, n
  <2>2. \A i \in 1..n + 1 : w[i] = Step(w, i)
    BY <2>1, Zenon
  <2>3. QED  BY <2>2 DEF w
<1>10. DOMAIN Where(l) = 1..n + 1 /\ Where(l) = [i \in 1..n + 1 |-> Where(l)[i]]
  <2> DEFINE w == Where(l)
  <2>1. IsRun(w)
    BY <1>8
  <2> HIDE DEF w, Step, n
  <2>2. DOMAIN w = 1..n + 1 /\ w = [i \in 1..n + 1 |-> w[i]]
    BY <2>1
  <2>3. QED  BY <2>2 DEF w
<1>11. Where(l)[1] = Outside
  BY <1>1, <1>9
<1>12. ASSUME NEW i \in 1..n PROVE Where(l)[i + 1] = Moved(Where(l)[i], l[i])
  <2>1. i + 1 \in 1..n + 1 /\ i + 1 # 1 /\ (i + 1) - 1 = i
    BY <1>1
  <2>2. Where(l)[i + 1] = Step(Where(l), i + 1)
    BY <1>9, <2>1
  <2>3. QED  BY <2>1, <2>2
<1>13. Where(l) \in [1..n + 1 -> Readers]
  <2> DEFINE T == {i \in 1..n + 1 : Where(l)[i] \in Readers}
  <2>1. 1 \in T
    BY <1>1, <1>2, <1>11
  <2>2. \A i \in 1..n : i \in T => i + 1 \in T
    BY <1>1, <1>12, MovedType
  <2>3. 1..n + 1 \subseteq T
    <3> HIDE DEF T, n
    <3>1. QED  BY <1>1, <2>1, <2>2, PlaceInduction
  <2>4. \A i \in 1..n + 1 : Where(l)[i] \in Readers
    BY <2>3
  <2> HIDE DEF n
  <2>5. QED  BY <1>10, <2>4
<1>14. QED  BY <1>11, <1>12, <1>13

\* How a reader moves, from r over the character c to n.
Goes(r, c, n) ==
  /\ r.in \in {"between", "plain", "d", "q"}
  /\ r.in = "between" =>
       n.in = IF c = "s" THEN "between" ELSE IF c \in {"d", "q"} THEN c ELSE "plain"
  /\ r.in \in {"d", "q"} =>
       n.in = IF c = r.in /\ ~r.escaped THEN "between" ELSE r.in
  /\ r.in = "plain" =>
       n.in = IF c = "s" /\ ~r.escaped THEN "between" ELSE "plain"
  /\ c # "b" => ~n.escaped
  /\ c = "b" => (n.escaped <=> ~r.escaped)

LEMMA MovedGoes ==
  ASSUME NEW r \in Readers, NEW c \in Chars PROVE Goes(r, c, Moved(r, c))
BY DEF Readers, Chars, Moved, Goes

\* The places of the line and of the reader.
LEMMA PlaceFacts ==
  ASSUME TypeOK
  PROVE  /\ Len(line) \in Nat /\ pos \in 1..Len(line) + 1
         /\ Where(line) \in [1..Len(line) + 1 -> Readers]
         /\ Len(Where(line)) = Len(line) + 1
         /\ Where(line)[1] = Outside
         /\ \A i \in Nat \ {0} : At(i) = "nul" => i > Len(line)
         /\ \A i \in 1..Len(line) :
              /\ At(i) = line[i] /\ At(i) \in Chars /\ At(i) # "nul"
              /\ Where(line)[i + 1] = Moved(Where(line)[i], At(i))
<1> DEFINE w == Where(line)
<1>1. line \in Seq(Chars) /\ Len(line) \in Nat /\ pos \in 1..Len(line) + 1
  BY LenProperties DEF TypeOK
<1>2. /\ w \in [1..Len(line) + 1 -> Readers]
      /\ w[1] = Outside
      /\ \A i \in 1..Len(line) : w[i + 1] = Moved(w[i], line[i])
  BY <1>1, WhereIsRun
<1> HIDE DEF w
<1>3. Len(w) = Len(line) + 1
  <2>1. Len(line) + 1 \in Nat
    BY <1>1
  <2>2. w \in Seq(Readers)
    BY <1>2, <2>1, SeqDef
  <2>3. DOMAIN w = 1..Len(line) + 1
    BY <1>2
  <2>4. QED  BY <2>1, <2>2, <2>3, LenProperties
<1>4. \A i \in 1..Len(line) : line[i] \in Chars
  BY <1>1
<1>5. \A i \in 1..Len(line) : At(i) = line[i] /\ At(i) \in Chars /\ At(i) # "nul"
  BY <1>1, <1>4 DEF At, Chars
<1>6. \A i \in Nat \ {0} : At(i) = "nul" => i > Len(line)
  BY <1>1, <1>5
<1>7. \A i \in 1..Len(line) : w[i + 1] = Moved(w[i], At(i))
  BY <1>2, <1>5
<1>8. QED  BY <1>1, <1>2, <1>3, <1>5, <1>6, <1>7 DEF w

\* From a place with a character to the next.
LEMMA StepFacts ==
  ASSUME TypeOK, NEW i \in 1..Len(line) + 1, At(i) # "nul"
  PROVE  /\ i \in 1..Len(line) /\ Len(line) \in Nat
         /\ Goes(Where(line)[i], At(i), Where(line)[i + 1])
<1>1. Len(line) \in Nat
  BY PlaceFacts
<1>2. i \in 1..Len(line)
  BY <1>1 DEF At
<1>3. /\ Where(line)[i] \in Readers /\ At(i) \in Chars
      /\ Where(line)[i + 1] = Moved(Where(line)[i], At(i))
  BY <1>1, <1>2, PlaceFacts
<1>4. QED  BY <1>1, <1>2, <1>3, MovedGoes

\* The same for the place the code is at.
LEMMA AtPos ==
  ASSUME TypeOK, At(pos) # "nul"
  PROVE  /\ pos \in 1..Len(line) /\ Len(line) \in Nat
         /\ Goes(Where(line)[pos], At(pos), Where(line)[pos + 1])
<1>1. pos \in 1..Len(line) + 1
  BY DEF TypeOK
<1>2. QED  BY <1>1, StepFacts

\* An argument of the reference begins where its reader was between
\* arguments for the last time.
LEMMA FirstOfIs ==
  ASSUME NEW w, NEW i \in Nat, NEW b \in 1..i, w[b].in = "between",
         \A j \in b + 1..i : w[j].in # "between"
  PROVE  FirstOf(w, i) = IF w[i].in = "plain" THEN b ELSE b + 1
<1> DEFINE P(c) == w[c].in = "between" /\ \A j \in c + 1..i : w[j].in # "between"
<1>1. \A c \in 1..i : P(c) => c = b
  <2> SUFFICES ASSUME NEW c \in 1..i, P(c) PROVE c = b
    OBVIOUS
  <2>1. c \in Nat /\ b \in Nat
    OBVIOUS
  <2>2. ~(c < b)
    BY <2>1
  <2>3. ~(b < c)
    BY <2>1
  <2>4. QED  BY <2>1, <2>2, <2>3
<1>2. P(b)
  OBVIOUS
<1>3. FirstOf(w, i) = LET c == CHOOSE c \in 1..i : P(c)
                      IN IF w[i].in = "plain" THEN c ELSE c + 1
  BY DEF FirstOf
<1> HIDE DEF P
<1>4. (CHOOSE c \in 1..i : P(c)) = b
  BY <1>1, <1>2
<1>5. QED  BY <1>3, <1>4

\* So one that ends behind such a place begins there or behind it.
LEMMA FirstOfAfter ==
  ASSUME NEW w, NEW i \in Nat, NEW p \in 1..i, w[p].in = "between"
  PROVE  FirstOf(w, i) \in Nat /\ FirstOf(w, i) >= p
<1> DEFINE S == {b \in 1..i : w[b].in = "between"}
<1>1. S \subseteq 0..i /\ p \in S
  OBVIOUS
<1>2. PICK b \in S : \A y \in S : y <= b
  <2> HIDE DEF S
  <2>1. S # {}
    BY <1>1
  <2>2. QED  BY <1>1, <2>1, LargestExists
<1>3. b \in 1..i /\ w[b].in = "between" /\ b >= p
  BY <1>1, <1>2
<1>4. ASSUME NEW j \in b + 1..i PROVE w[j].in # "between"
  <2>1. j \in 1..i /\ j \in Nat /\ b \in Nat /\ ~(j <= b)
    BY <1>3
  <2>2. j \notin S
    BY <1>2, <2>1
  <2>3. QED  BY <2>1, <2>2
<1>5. FirstOf(w, i) = IF w[i].in = "plain" THEN b ELSE b + 1
  <2> HIDE DEF S
  <2>1. QED  BY <1>3, <1>4, FirstOfIs
<1>6. QED  BY <1>3, <1>5

-----------------------------------------------------------------------------
(* The reference and the code step by step                                 *)

\* What was found stays the same while no end of an argument is passed.
LEMMA SameFound ==
  ASSUME FoundSoFar, UNCHANGED <<line, args>>,
         \A k \in 1..Len(Where(line)) :
           IsEnd(Where(line), k) => (Passed(k)' <=> Passed(k))
  PROVE  FoundSoFar'
<1> DEFINE w == Where(line)
<1>1. w' = w
  OBVIOUS
<1>2. Done(w)' = Done(w)
  BY <1>1 DEF Done
<1>3. QED  BY <1>1, <1>2 DEF FoundSoFar

\* It grows by one when one is.
LEMMA MoreFound ==
  ASSUME ReadInv, UNCHANGED line, NEW a, NEW b, args' = Append(args, <<a, b>>),
         <<a, b>> \in Nat \X Nat,
         NEW p \in 1..Len(Where(line)), IsEnd(Where(line), p),
         <<a, b>> = <<FirstOf(Where(line), p), p - 1>>,
         \A k \in 1..Len(Where(line)) :
           IsEnd(Where(line), k) => (Passed(k)' <=> Passed(k) \/ k = p)
  PROVE  FoundSoFar'
<1> DEFINE w == Where(line)
           Of(k) == <<FirstOf(w, k), k - 1>>
<1>1. w' = w
  OBVIOUS
<1>2. Done(w)' = Done(w) \cup {p}
  BY <1>1 DEF Done
<1>3. args \in Seq(Nat \X Nat) /\ Len(args) \in Nat
  BY LenProperties DEF ReadInv, IInv, TypeOK
<1>4. /\ Len(args') = Len(args) + 1
      /\ \A i \in 1..Len(args) : args'[i] = args[i]
      /\ args'[Len(args) + 1] = Of(p)
  BY <1>3, AppendProperties
<1>5. {args'[i] : i \in 1..Len(args')} = {args[i] : i \in 1..Len(args)} \cup {Of(p)}
  <2>1. \A i \in 1..Len(args') : i = Len(args) + 1 \/ i \in 1..Len(args)
    BY <1>3, <1>4
  <2>2. \A i \in 1..Len(args) : i \in 1..Len(args')
    BY <1>3, <1>4
  <2>3. Len(args) + 1 \in 1..Len(args')
    BY <1>3, <1>4
  <2> HIDE DEF Of
  <2>4. QED  BY <1>4, <2>1, <2>2, <2>3
<1>6. {args[i] : i \in 1..Len(args)} = {Of(k) : k \in Done(w)}
  BY DEF ReadInv, FoundSoFar
<1>7. {args'[i] : i \in 1..Len(args')} = {Of(k) : k \in Done(w) \cup {p}}
  <2> HIDE DEF Of
  <2>1. QED  BY <1>5, <1>6
<1>8. QED  BY <1>1, <1>2, <1>7 DEF FoundSoFar

LEMMA InitReadInv == Init => ReadInv
<1> SUFFICES ASSUME Init PROVE ReadInv
  OBVIOUS
<1>1. IInv
  BY InitIInv
<1> DEFINE w == Where(line)
<1>2. /\ w[1] = Outside /\ Len(w) \in Nat
      /\ pos = 1 /\ mode = "between"
  BY <1>1, PlaceFacts DEF Init, IInv
<1>3. Reads
  BY <1>2 DEF Reads, Outside
<1>4. Done(w) = {}
  BY <1>2 DEF Done, Passed, IsEnd, Outside
<1>5. Len(args) = 0
  BY EmptySeq DEF Init
<1>6. FoundSoFar
  BY <1>4, <1>5 DEF FoundSoFar
<1>7. QED  BY <1>1, <1>3, <1>6 DEF ReadInv

LEMMA BlankReads ==
  ASSUME ReadInv, SkipBlank PROVE Reads' /\ FoundSoFar'
<1> DEFINE w == Where(line)
<1>1. w' = w
  BY DEF SkipBlank
<1>2. TypeOK /\ Reads /\ FoundSoFar
  BY DEF ReadInv, IInv
<1>3. pos \in 1..Len(line) /\ Len(line) \in Nat /\ At(pos) = "s"
  BY <1>2, AtPos DEF SkipBlank
<1>4. w[pos].in = "between"
  BY <1>2, <1>3 DEF Reads, SkipBlank
<1>5. w[pos + 1].in = "between" /\ ~w[pos + 1].escaped
  BY <1>2, <1>3, <1>4, AtPos DEF Goes
<1>6. Reads'
  BY <1>1, <1>3, <1>5 DEF Reads, SkipBlank
<1>7. \A k \in 1..Len(w) : IsEnd(w, k) => (Passed(k)' <=> Passed(k))
  BY <1>3, <1>4, <1>5 DEF IsEnd, Passed, SkipBlank
<1>8. QED  BY <1>2, <1>6, <1>7, SameFound DEF SkipBlank

LEMMA StopReads ==
  ASSUME ReadInv, Stop PROVE Reads' /\ FoundSoFar'
<1> DEFINE w == Where(line)
<1>1. w' = w
  BY DEF Stop
<1>2. TypeOK /\ Reads /\ FoundSoFar
  BY DEF ReadInv, IInv
<1>3. Reads'
  BY <1>1, <1>2 DEF Reads, Stop, At, Room
<1>4. \A k \in 1..Len(w) : IsEnd(w, k) => (Passed(k)' <=> Passed(k))
  BY DEF Passed, Stop
<1>5. QED  BY <1>2, <1>3, <1>4, SameFound DEF Stop

LEMMA OpenQuoteReads ==
  ASSUME ReadInv, OpenQuote PROVE Reads' /\ FoundSoFar'
<1> DEFINE w == Where(line)
<1>1. w' = w
  BY DEF OpenQuote
<1>2. TypeOK /\ Reads /\ FoundSoFar
  BY DEF ReadInv, IInv
<1>3. /\ pos \in 1..Len(line) /\ Len(line) \in Nat
      /\ At(pos) \in {"d", "q"} /\ quote' = At(pos)
  BY <1>2, AtPos DEF OpenQuote
<1>4. w[pos].in = "between"
  BY <1>2, <1>3 DEF Reads, OpenQuote
<1>5. w[pos + 1].in = quote' /\ ~w[pos + 1].escaped
  BY <1>2, <1>3, <1>4, AtPos DEF Goes
<1>6. Reads'
  BY <1>1, <1>3, <1>4, <1>5 DEF Reads, OpenQuote
<1>7. \A k \in 1..Len(w) : IsEnd(w, k) => (Passed(k)' <=> Passed(k))
  BY <1>3 DEF Passed, OpenQuote
<1>8. QED  BY <1>2, <1>6, <1>7, SameFound DEF OpenQuote

LEMMA OpenPlainReads ==
  ASSUME ReadInv, OpenPlain PROVE Reads' /\ FoundSoFar'
<1> DEFINE w == Where(line)
<1>1. w' = w
  BY DEF OpenPlain
<1>2. TypeOK /\ Reads /\ FoundSoFar
  BY DEF ReadInv, IInv
<1>3. pos \in 1..Len(line) /\ Len(line) \in Nat
  BY <1>2, AtPos DEF OpenPlain
<1>4. w[pos].in = "between" /\ ~w[pos].escaped
  BY <1>2, <1>3 DEF Reads, OpenPlain
<1>5. Reads'
  BY <1>1, <1>3, <1>4 DEF Reads, OpenPlain, At
<1>6. \A k \in 1..Len(w) : IsEnd(w, k) => (Passed(k)' <=> Passed(k))
  BY <1>4 DEF IsEnd, Passed, OpenPlain
<1>7. QED  BY <1>2, <1>5, <1>6, SameFound DEF OpenPlain

LEMMA UnterminatedReads ==
  ASSUME ReadInv, Unterminated PROVE Reads' /\ FoundSoFar'
<1> DEFINE w == Where(line)
<1>1. w' = w
  BY DEF Unterminated
<1>2. TypeOK /\ Reads /\ FoundSoFar /\ Opened
  BY DEF ReadInv, IInv
<1>3. pos = Len(line) + 1 /\ Len(line) \in Nat
  BY <1>2, PlaceFacts DEF Unterminated
<1>4. start \in 1..pos
  BY <1>2, <1>3 DEF TypeOK, Opened, Unterminated
<1>5. w[pos].in = quote
  BY <1>2, <1>3, <1>4 DEF Reads, Unterminated
<1>6. Reads'
  BY <1>1, <1>3, <1>5 DEF Reads, Unterminated
<1>7. \A k \in 1..Len(w) : IsEnd(w, k) => (Passed(k)' <=> Passed(k))
  BY DEF Passed, Unterminated
<1>8. QED  BY <1>2, <1>6, <1>7, SameFound DEF Unterminated

\* Within an argument the reader stays in it, at every place passed.
LEMMA WithinReads ==
  ASSUME ReadInv, Within PROVE Reads' /\ FoundSoFar'
<1> DEFINE w == Where(line)
           kind == IF mode = "quoted" THEN quote ELSE "plain"
<1>1. w' = w
  BY DEF Within
<1>2. TypeOK /\ Reads /\ FoundSoFar /\ Opened
  BY DEF ReadInv, IInv
<1>3. /\ pos \in 1..Len(line) /\ Len(line) \in Nat
      /\ At(pos) # "nul" /\ ~Ends(At(pos))
  BY <1>2, AtPos DEF Within
<1>4. start \in 1..pos /\ mode \in {"quoted", "plain"} /\ quote \in {"d", "q"}
  BY <1>2, <1>3 DEF TypeOK, Opened, Within
<1>5. ~w[pos].escaped
  BY <1>2, <1>3 DEF Reads
<1>6. w[pos + 1].in = kind /\ (w[pos + 1].escaped <=> At(pos) = "b")
  <2>1. w[pos + 1].escaped <=> At(pos) = "b"
    BY <1>2, <1>3, <1>5, AtPos DEF Goes
  <2>2. CASE mode = "quoted"
    <3>1. w[pos].in = quote /\ At(pos) # quote
      BY <1>2, <1>3, <1>4, <2>2 DEF Reads, Ends
    <3>2. QED  BY <1>2, <1>3, <1>4, <2>1, <2>2, <3>1, AtPos DEF Goes
  <2>3. CASE mode = "plain" /\ pos = start
    <3>1. w[pos].in = "between" /\ At(pos) \in {"a", "b"}
      BY <1>2, <1>3, <2>3 DEF Reads
    <3>2. QED  BY <1>2, <1>3, <2>1, <2>3, <3>1, AtPos DEF Goes
  <2>4. CASE mode = "plain" /\ pos # start
    <3>1. w[pos].in = "plain" /\ At(pos) # "s"
      BY <1>2, <1>3, <1>4, <2>4 DEF Reads, Ends
    <3>2. QED  BY <1>2, <1>3, <2>1, <2>4, <3>1, AtPos DEF Goes
  <2>5. QED  BY <1>4, <2>2, <2>3, <2>4
<1>7. /\ pos' \in pos + 1..Len(line) + 1
      /\ \A j \in pos + 1..pos' : w[j].in = kind
      /\ pos' <= Len(line) => ~w[pos'].escaped
  <2>1. CASE At(pos) = "b" /\ At(pos + 1) # "nul"
    <3>1. pos' = pos + 2
      BY <1>3, <2>1 DEF Within, After
    <3>2. pos + 1 \in 1..Len(line)
      BY <1>3, <2>1 DEF At
    <3>3. w[(pos + 1) + 1].in = kind /\ ~w[(pos + 1) + 1].escaped
      <4>1. kind \in {"d", "q", "plain"} /\ w[pos + 1].in = kind /\ w[pos + 1].escaped
        BY <1>4, <1>6, <2>1
      <4>2. pos + 1 \in 1..Len(line) + 1
        BY <1>3, <3>2
      <4> HIDE DEF kind
      <4>3. QED  BY <1>2, <2>1, <4>1, <4>2, StepFacts DEF Goes
    <3>4. (pos + 1) + 1 = pos + 2
      BY <1>3
    <3> HIDE DEF kind, w
    <3>5. QED  BY <1>3, <1>6, <3>1, <3>2, <3>3, <3>4
  <2>2. CASE ~(At(pos) = "b" /\ At(pos + 1) # "nul")
    <3>1. pos' = pos + 1
      BY <1>3, <2>2 DEF Within, After
    <3>2. pos + 1 <= Len(line) => At(pos) # "b"
      <4>1. pos + 1 <= Len(line) => At(pos + 1) # "nul"
        BY <1>2, <1>3, PlaceFacts
      <4>2. QED  BY <2>2, <4>1
    <3> HIDE DEF kind, w
    <3>3. QED  BY <1>3, <1>6, <3>1, <3>2
  <2>3. QED  BY <2>1, <2>2
<1>8. Reads'
  <2>1. UNCHANGED <<line, start, quote, mode, args>> /\ pos' # start /\ pos' > pos
    BY <1>3, <1>4, <1>7 DEF Within
  <2>2. CASE mode = "quoted"
    <3>1. \A j \in start..pos' : w[j].in = quote
      BY <1>2, <1>3, <1>4, <1>7, <2>2 DEF Reads
    <3>2. start >= 2 /\ w[start - 1].in = "between"
      BY <1>2, <2>2 DEF Reads
    <3>3. QED  BY <1>1, <1>7, <2>1, <2>2, <3>1, <3>2 DEF Reads
  <2>3. CASE mode = "plain"
    <3>1. \A j \in start + 1..pos' : w[j].in = "plain"
      BY <1>2, <1>3, <1>4, <1>7, <2>3 DEF Reads
    <3>2. w[start].in = "between"
      BY <1>2, <2>3 DEF Reads
    <3>3. QED  BY <1>1, <1>7, <2>1, <2>3, <3>1, <3>2 DEF Reads
  <2>4. QED  BY <1>4, <2>2, <2>3
<1>9. \A k \in 1..Len(w) : IsEnd(w, k) => (Passed(k)' <=> Passed(k))
  <2>1. Len(w) = Len(line) + 1 /\ kind # "between"
    BY <1>2, <1>4, PlaceFacts
  <2>2. ASSUME NEW k \in 1..Len(w), k >= pos, k < pos' PROVE ~IsEnd(w, k)
    <3>1. k # Len(w) /\ k + 1 \in pos + 1..pos'
      BY <1>3, <1>7, <2>1, <2>2
    <3>2. w[k + 1].in # "between"
      BY <1>7, <2>1, <3>1
    <3>3. QED  BY <3>1, <3>2 DEF IsEnd
  <2>3. \A k \in 1..Len(w) : (Passed(k) <=> k < pos) /\ (Passed(k)' <=> k < pos')
    BY <1>4 DEF Passed, Within
  <2>4. QED  BY <1>3, <1>7, <2>1, <2>2, <2>3
<1>10. QED  BY <1>2, <1>8, <1>9, SameFound DEF Within

LEMMA CloseQuoteReads ==
  ASSUME ReadInv, CloseQuote PROVE Reads' /\ FoundSoFar'
<1> DEFINE w == Where(line)
           last == pos - 1
<1>1. w' = w
  BY DEF CloseQuote
<1>2. TypeOK /\ Reads /\ FoundSoFar /\ Opened
  BY DEF ReadInv, IInv
<1>3. /\ pos \in 1..Len(line) /\ Len(line) \in Nat /\ Len(w) = Len(line) + 1
      /\ start \in 1..pos /\ start \in 2..pos /\ quote \in {"d", "q"} /\ At(pos) = quote
  <2>1. quote \in {"d", "q"} /\ start >= 2
    BY <1>2 DEF TypeOK, Reads, CloseQuote
  <2>2. At(pos) # "nul"
    BY <2>1 DEF CloseQuote
  <2>3. pos \in 1..Len(line) /\ Len(line) \in Nat /\ Len(w) = Len(line) + 1
    BY <1>2, <2>2, AtPos, PlaceFacts
  <2>4. QED  BY <1>2, <2>1, <2>3 DEF TypeOK, Opened, CloseQuote
<1>4. /\ \A j \in start..pos : w[j].in = quote
      /\ w[start - 1].in = "between" /\ ~w[pos].escaped
  BY <1>2, <1>3 DEF Reads, CloseQuote
<1>5. w[pos + 1].in = "between" /\ ~w[pos + 1].escaped
  <2>1. w[pos].in = quote
    BY <1>3, <1>4
  <2>2. QED  BY <1>2, <1>3, <1>4, <2>1, AtPos DEF Goes
<1>6. Reads'
  BY <1>1, <1>3, <1>5 DEF Reads, CloseQuote
<1>7. FirstOf(w, pos) = start
  <2>1. /\ pos \in Nat /\ start - 1 \in 1..pos /\ (start - 1) + 1 = start
        /\ w[pos].in = quote
    BY <1>3, <1>4
  <2>2. \A j \in (start - 1) + 1..pos : w[j].in # "between"
    BY <1>3, <1>4, <2>1
  <2>3. FirstOf(w, pos) = IF w[pos].in = "plain" THEN start - 1 ELSE (start - 1) + 1
    <3> HIDE DEF w
    <3>1. QED  BY <1>4, <2>1, <2>2, FirstOfIs
  <2>4. QED  BY <1>3, <2>1, <2>3
<1>8. IsEnd(w, pos) /\ pos \in 1..Len(w)
  BY <1>3, <1>4, <1>5 DEF IsEnd
<1>9. ASSUME NEW k \in 1..Len(w), IsEnd(w, k)
      PROVE  Passed(k)' <=> Passed(k) \/ k = pos
  <2>1. k # pos + 1
    BY <1>5, <1>9 DEF IsEnd
  <2>2. QED  BY <1>3, <2>1 DEF Passed, CloseQuote
<1>10. /\ <<start, last>> \in Nat \X Nat
       /\ <<start, last>> = <<FirstOf(w, pos), pos - 1>>
       /\ args' = Append(args, <<start, last>>)
  BY <1>3, <1>7 DEF CloseQuote
<1> HIDE DEF last
<1>11. FoundSoFar'
  BY <1>8, <1>9, <1>10, MoreFound DEF CloseQuote
<1>12. QED  BY <1>6, <1>11

LEMMA EndPlainReads ==
  ASSUME ReadInv, EndPlain PROVE Reads' /\ FoundSoFar'
<1> DEFINE w == Where(line)
           last == pos - 1
<1>1. w' = w
  BY DEF EndPlain
<1>2. TypeOK /\ Reads /\ FoundSoFar /\ Opened
  BY DEF ReadInv, IInv
<1>3. /\ Len(line) \in Nat /\ Len(w) = Len(line) + 1 /\ pos \in 1..Len(w)
      /\ start \in 1..pos /\ start # pos
  <2>1. start # pos
    BY <1>2 DEF Reads, EndPlain
  <2>2. Len(line) \in Nat /\ Len(w) = Len(line) + 1 /\ pos \in 1..Len(line) + 1
    BY <1>2, PlaceFacts
  <2>3. QED  BY <1>2, <2>1, <2>2 DEF TypeOK, Opened, EndPlain
<1>4. w[start].in = "between" /\ \A j \in start + 1..pos : w[j].in = "plain"
  BY <1>2 DEF Reads, EndPlain
<1>5. w[pos].in = "plain"
  BY <1>3, <1>4
<1>6. FirstOf(w, pos) = start
  <2>1. \A j \in start + 1..pos : w[j].in # "between"
    BY <1>4
  <2>2. pos \in Nat
    BY <1>3
  <2>3. FirstOf(w, pos) = IF w[pos].in = "plain" THEN start ELSE start + 1
    <3> HIDE DEF w
    <3>1. QED  BY <1>3, <1>4, <2>1, <2>2, FirstOfIs
  <2>4. QED  BY <1>5, <2>3
<1>7. /\ <<start, last>> \in Nat \X Nat
      /\ <<start, last>> = <<FirstOf(w, pos), pos - 1>>
      /\ args' = Append(args, <<start, last>>)
  BY <1>3, <1>6 DEF EndPlain
<1>8. CASE At(pos) = "s"
  <2>1. pos \in 1..Len(line) /\ w[pos + 1].in = "between" /\ ~w[pos + 1].escaped
    <3>1. pos \in 1..Len(line)
      BY <1>2, <1>8, AtPos
    <3>2. ~w[pos].escaped
      BY <1>2, <1>3, <3>1 DEF Reads
    <3>3. QED  BY <1>2, <1>5, <1>8, <3>1, <3>2, AtPos DEF Goes
  <2>2. Reads'
    BY <1>1, <1>3, <1>8, <2>1 DEF Reads, EndPlain
  <2>3. IsEnd(w, pos)
    BY <1>3, <1>5, <2>1 DEF IsEnd
  <2>4. ASSUME NEW k \in 1..Len(w), IsEnd(w, k)
        PROVE  Passed(k)' <=> Passed(k) \/ k = pos
    <3>1. k # pos + 1
      BY <2>1, <2>4 DEF IsEnd
    <3>2. QED  BY <1>3, <1>8, <2>1, <3>1 DEF Passed, EndPlain
  <2> HIDE DEF last
  <2>5. FoundSoFar'
    BY <1>3, <1>7, <2>3, <2>4, MoreFound DEF EndPlain
  <2>6. QED  BY <2>2, <2>5
<1>9. CASE At(pos) = "nul"
  <2>1. pos = Len(w) /\ pos' = pos
    BY <1>2, <1>3, <1>9, PlaceFacts DEF EndPlain
  <2>2. Reads'
    BY <1>1, <1>3, <1>5, <2>1 DEF Reads, EndPlain
  <2>3. IsEnd(w, pos)
    BY <1>5, <2>1 DEF IsEnd
  <2>4. \A k \in 1..Len(w) : Passed(k)' <=> Passed(k) \/ k = pos
    BY <1>3, <2>1 DEF Passed, EndPlain
  <2> HIDE DEF last
  <2>5. FoundSoFar'
    BY <1>3, <1>7, <2>3, <2>4, MoreFound DEF EndPlain
  <2>6. QED  BY <2>2, <2>5
<1>10. QED  BY <1>8, <1>9 DEF EndPlain

LEMMA NextReadInv == ReadInv /\ [Next]_vars => ReadInv'
<1> SUFFICES ASSUME ReadInv, [Next]_vars PROVE ReadInv'
  OBVIOUS
<1>1. IInv'
  BY NextIInv DEF ReadInv
<1>2. CASE UNCHANGED vars
  <2>1. Reads'
    BY <1>2 DEF vars, ReadInv, Reads, At, Room
  <2>2. FoundSoFar'
    BY <1>2, SameFound DEF vars, ReadInv, Passed
  <2>3. QED  BY <1>1, <2>1, <2>2 DEF ReadInv
<1>3. Next => Reads' /\ FoundSoFar'
  BY BlankReads, StopReads, OpenQuoteReads, OpenPlainReads, WithinReads,
     CloseQuoteReads, UnterminatedReads, EndPlainReads DEF Next
<1>4. QED  BY <1>1, <1>2, <1>3 DEF ReadInv

\* At the end everything is passed that the limit on arguments leaves.
LEMMA ReadAll == ReadInv => ParsesLikeReference
<1> SUFFICES ASSUME ReadInv, mode \in {"ok", "invalid"}
    PROVE  ParsesLikeReference
  BY DEF ParsesLikeReference
<1> DEFINE w == Where(line)
           all == ArgSet(w)
           found == {args[i] : i \in 1..Len(args)}
<1>1. TypeOK /\ Reads /\ ArgsInOrder /\ found = {<<FirstOf(w, k), k - 1>> : k \in Done(w)}
  BY DEF ReadInv, IInv, FoundSoFar
<1>2. Len(line) \in Nat /\ Len(w) = Len(line) + 1 /\ pos \in 1..Len(w)
  BY <1>1, PlaceFacts
<1>3. all = {<<FirstOf(w, k), k - 1>> : k \in {j \in 1..Len(w) : IsEnd(w, j)}}
  BY DEF ArgSet
<1>4. CASE mode = "invalid"
  <2>1. pos = Len(w) /\ w[pos].in = quote /\ quote \in {"d", "q"}
    BY <1>1, <1>2, <1>4 DEF Reads, TypeOK
  <2>2. Done(w) = {j \in 1..Len(w) : IsEnd(w, j)}
    BY <1>2, <1>4, <2>1 DEF Done, Passed, IsEnd
  <2>3. found = all
    BY <1>1, <1>3, <2>2
  <2>4. QED  BY <1>4, <2>1, <2>3 DEF ParsesLikeReference
<1>5. CASE mode = "ok" /\ Room
  <2>1. pos = Len(w) /\ w[pos].in \in {"between", "plain"}
    BY <1>1, <1>2, <1>5, PlaceFacts DEF Reads
  <2>2. Done(w) = {j \in 1..Len(w) : IsEnd(w, j)}
    BY <1>2, <1>5, <2>1 DEF Done, Passed
  <2>3. found = all
    BY <1>1, <1>3, <2>2
  <2>4. QED  BY <1>5, <2>1, <2>3 DEF ParsesLikeReference
<1>6. CASE mode = "ok" /\ ~Room
  <2>1. found \subseteq all
    BY <1>1, <1>3 DEF Done
  <2>2. ASSUME NEW a \in all \ found, NEW b \in found PROVE a[1] > b[2]
    <3>1. PICK k \in 1..Len(w) : IsEnd(w, k) /\ a = <<FirstOf(w, k), k - 1>>
      BY <1>3
    <3>2. k \notin Done(w)
      BY <1>1, <2>2, <3>1
    <3>3. k > pos
      BY <1>2, <1>6, <3>1, <3>2 DEF Done, Passed
    <3>4. w[pos].in = "between"
      BY <1>1, <1>2, <1>6, <3>3 DEF Reads
    <3>5. FirstOf(w, k) \in Nat /\ FirstOf(w, k) >= pos
      <4>1. k \in Nat /\ pos \in 1..k
        BY <1>2, <3>3
      <4> HIDE DEF w
      <4>2. QED  BY <3>4, <4>1, FirstOfAfter
    <3>6. PICK i \in 1..Len(args) : b = args[i]
      OBVIOUS
    <3>7. args[i][2] < pos /\ args[i][2] \in Nat
      <4>1. args \in Seq(Nat \X Nat)
        BY <1>1 DEF TypeOK
      <4>2. args[i] \in Nat \X Nat
        BY <4>1
      <4>3. QED  BY <1>1, <4>2 DEF ArgsInOrder
    <3>8. a[1] = FirstOf(w, k) /\ b[2] = args[i][2]
      BY <3>1, <3>6
    <3> HIDE DEF w, found, all
    <3>9. QED  BY <1>2, <3>5, <3>7, <3>8
  <2>3. QED  BY <1>6, <2>1, <2>2 DEF ParsesLikeReference
<1>7. QED  BY <1>4, <1>5, <1>6

-----------------------------------------------------------------------------
(* Theorems                                                                *)

\* The inductive invariant of the parser (parser.c:3-73).
THEOREM Inductive == Spec => []IInv
  BY InitIInv, NextIInv, PTL DEF Spec

\* The parser never reads behind the terminating NUL and never writes behind
\* argv, which keeps a place for its NULL (parser.c:20, 36-41, 54-59, 70).
THEOREM InBounds == Spec => []TypeOK
<1>1. IInv => TypeOK
  BY DEF IInv
<1>2. QED  BY <1>1, Inductive, PTL

\* The arguments follow one another without overlap (parser.c:30-67).
THEOREM InOrder == Spec => []ArgsInOrder
<1>1. IInv => ArgsInOrder
  BY DEF IInv
<1>2. QED  BY <1>1, Inductive, PTL

\* The inductive invariant of the parser and the reference side by side.
THEOREM ReadInductive == Spec => []ReadInv
  BY InitReadInv, NextReadInv, PTL DEF Spec

\* A line is cut into the arguments of the one-pass reference: all of them
\* with room to spare, the first ones at the limit, and those before a quote
\* that is never closed when the line is refused (parser.c:20-72).
THEOREM CutsLikeReference == Spec => []ParsesLikeReference
  BY ReadAll, ReadInductive, PTL
=============================================================================
