------------------------------ MODULE DslProofs -------------------------------
(***************************************************************************)
(* The tokenizer and the executor of scripts stay in their bounds, and     *)
(* what they read is what the reference reads, for texts of any length and *)
(* any size of the token buffer and of args.                               *)
(***************************************************************************)
EXTENDS Dsl, NumberTheorems, SequenceTheorems

USE SourcesAssumption, MaxTokenAssumption, MaxArgsAssumption

LEMMA InitType == Init => TypeOK
<1>1. SUFFICES ASSUME Init PROVE TypeOK
  OBVIOUS
<1>2. source \in Seq(Chars) /\ Len(source) \in Nat
  BY <1>1 DEF Init
<1>3. nodes = <<>> /\ nodes \in Seq(Node) /\ Len(nodes) = 0
  BY <1>1 DEF Init
<1>4. \A i \in 1..Len(nodes) : Len(nodes[i].args) \in 1..MaxArgs
  BY <1>3
<1>5. /\ pos = 1 /\ lineNo = 1 /\ start = 1 /\ token = "none" /\ next = 1
      /\ inside = FALSE /\ mode = "parse" /\ result = "ok"
  BY <1>1 DEF Init
<1>6. /\ pos \in 1..Len(source) + 1 /\ start \in 1..Len(source) + 1
      /\ token \in Kinds \cup {"none"} /\ lineNo \in 1..pos
      /\ token # "string" /\ next \in 1..Len(nodes) + 1
  BY <1>2, <1>3, <1>5
<1>7. inside \in BOOLEAN /\ (inside => nodes # <<>>)
  BY <1>5
<1>8. QED  BY <1>2, <1>3, <1>4, <1>5, <1>6, <1>7 DEF TypeOK

\* A place with a character is a place of the text.
LEMMA AtInside ==
  ASSUME TypeOK, NEW i \in Nat \ {0}
  PROVE  /\ At(i) # "nul" => i <= Len(source)
         /\ i <= Len(source) => At(i) \in Chars /\ At(i) # "nul"
<1>1. source \in Seq(Chars)
  BY DEF TypeOK
<1>2. i <= Len(source) => source[i] \in Chars
  BY <1>1
<1>3. QED  BY <1>2 DEF At, Chars

\* Whatever the token, it ends where the text does.
LEMMA CopyInside ==
  ASSUME TypeOK, token # "none", ~Ends(At(pos))
  PROVE  pos + 1 \in 1..Len(source) + 1
<1>1. token \in Kinds /\ pos \in 1..Len(source) + 1 /\ Len(source) \in Nat
  BY DEF TypeOK
<1>2. At(pos) # "nul"
  BY <1>1 DEF Ends, Kinds
<1>3. QED  BY <1>1, <1>2, AtInside

\* A closing quote is a character of the text.
LEMMA ClosedInside ==
  ASSUME TypeOK, Closed
  PROVE  pos + 1 \in 1..Len(source) + 1
<1>1. /\ token = "string" /\ start > 1 /\ start \in 1..Len(source) + 1
      /\ pos \in 1..Len(source) + 1 /\ Len(source) \in Nat
  BY DEF TypeOK, Closed
<1>2. At(start - 1) # "nul"
  BY <1>1, AtInside
<1>3. At(pos) # "nul"
  BY <1>2 DEF Closed
<1>4. QED  BY <1>1, <1>3, AtInside

\* The statements keep their type and their size with one argument more.
LEMMA CollectedType ==
  ASSUME TypeOK, inside
  PROVE  /\ Collected \in Seq(Node) /\ Len(Collected) = Len(nodes)
         /\ \A i \in 1..Len(Collected) : Len(Collected[i].args) \in 1..MaxArgs
<1> DEFINE k == Len(nodes)
           longer == [line |-> nodes[k].line, args |-> Append(nodes[k].args, Place)]
           more == [nodes EXCEPT ![k] = longer]
<1>1. /\ nodes \in Seq(Node) /\ nodes # <<>> /\ k \in Nat \ {0}
      /\ \A i \in 1..k : Len(nodes[i].args) \in 1..MaxArgs
  BY DEF TypeOK
<1>2. Place \in Nat \X Nat
  BY DEF Place, TypeOK
<1>3. nodes[k] \in Node /\ nodes[k].args \in Seq(Nat \X Nat)
  <2>1. k \in 1..Len(nodes)
    BY <1>1
  <2>2. nodes[k] \in Node
    BY <1>1, <2>1
  <2>3. QED  BY <2>2 DEF Node
<1>4. CASE Len(nodes[k].args) < MaxArgs
  <2>1. /\ Append(nodes[k].args, Place) \in Seq(Nat \X Nat)
        /\ Len(Append(nodes[k].args, Place)) = Len(nodes[k].args) + 1
    BY <1>2, <1>3
  <2>2. longer \in Node /\ Len(longer.args) \in 1..MaxArgs
    <3>1. Len(nodes[k].args) \in 1..MaxArgs /\ nodes[k].line \in Nat
      BY <1>1, <1>3 DEF Node
    <3>2. longer \in Node /\ longer.args = Append(nodes[k].args, Place)
      BY <2>1, <3>1 DEF Node
    <3>3. QED  BY <1>4, <2>1, <3>1, <3>2
  <2> HIDE DEF longer
  <2>4. more \in Seq(Node) /\ Len(more) = k
    BY <1>1, <2>2
  <2>5. \A i \in 1..k : Len(more[i].args) \in 1..MaxArgs
    BY <1>1, <2>2
  <2>6. QED  BY <1>4, <2>4, <2>5 DEF Collected, longer
<1>5. CASE ~(Len(nodes[k].args) < MaxArgs)
  BY <1>1, <1>5 DEF Collected
<1>6. QED  BY <1>4, <1>5

\* So they do with one statement more.
LEMMA BegunType ==
  ASSUME TypeOK
  PROVE  /\ Begun \in Seq(Node) /\ Len(Begun) = Len(nodes) + 1
         /\ \A i \in 1..Len(Begun) : Len(Begun[i].args) \in 1..MaxArgs
<1> DEFINE n == [line |-> lineNo, args |-> <<Place>>]
<1>1. /\ nodes \in Seq(Node) /\ Len(nodes) \in Nat
      /\ \A i \in 1..Len(nodes) : Len(nodes[i].args) \in 1..MaxArgs
  BY DEF TypeOK
<1>2. Place \in Nat \X Nat /\ lineNo \in Nat
  BY DEF Place, TypeOK
<1>3. n \in Node /\ Len(n.args) = 1
  BY <1>2 DEF Node
<1>4. Begun = Append(nodes, n)
  BY DEF Begun
<1>5. Begun \in Seq(Node) /\ Len(Begun) = Len(nodes) + 1
  BY <1>1, <1>3, <1>4
<1>6. ASSUME NEW i \in 1..Len(Begun) PROVE Len(Begun[i].args) \in 1..MaxArgs
  <2>a. Len(n.args) = 1
    BY <1>3
  <2> HIDE DEF n
  <2>1. CASE i <= Len(nodes)
    <3>1. Begun[i] = nodes[i]
      BY <1>1, <1>4, <1>5, <2>1
    <3>2. QED  BY <1>1, <2>1, <3>1
  <2>2. CASE i = Len(nodes) + 1
    <3>1. Begun[i] = n
      BY <1>1, <1>4, <2>2
    <3>2. Len(Begun[i].args) = 1
      BY <2>a, <3>1
    <3>3. QED  BY <3>2
  <2>3. QED  BY <1>1, <1>5, <2>1, <2>2
<1>7. QED  BY <1>5, <1>6

LEMMA EndType == TypeOK /\ End => TypeOK'
<1>1. SUFFICES ASSUME TypeOK, End PROVE TypeOK'
  OBVIOUS
<1>2. /\ nodes' \in Seq(Node) /\ Len(nodes') \in Nat
      /\ Len(nodes) \in Nat /\ Len(nodes) <= Len(nodes')
      /\ \A i \in 1..Len(nodes') : Len(nodes'[i].args) \in 1..MaxArgs
  <2>1. nodes \in Seq(Node) /\ Len(nodes) \in Nat
    BY <1>1 DEF TypeOK
  <2>2. CASE nodes' = nodes
    BY <1>1, <2>1, <2>2 DEF TypeOK
  <2>3. CASE inside /\ nodes' = Collected
    BY <1>1, <2>1, <2>3, CollectedType
  <2>4. CASE nodes' = Begun
    BY <1>1, <2>1, <2>4, BegunType
  <2>5. QED  BY <1>1, <2>2, <2>3, <2>4 DEF End
<1>3. inside' => nodes' # <<>>
  <2>1. CASE inside
    <3>1. Len(nodes) # 0
      BY <1>1, <2>1 DEF TypeOK
    <3>2. QED  BY <1>2, <3>1
  <2>2. CASE ~inside /\ token = "word"
    <3>1. nodes' = Begun
      BY <1>1, <2>2 DEF End
    <3>2. QED  BY <1>1, <3>1, BegunType DEF TypeOK
  <2>3. QED  BY <1>1, <2>1, <2>2 DEF End
<1>4. pos' \in 1..Len(source) + 1 /\ pos' >= pos
  BY <1>1, ClosedInside DEF End, TypeOK
<1>5. /\ source' = source /\ lineNo' = lineNo /\ start' = start
      /\ token' = "none" /\ inside' \in BOOLEAN
      /\ mode' = mode /\ next' = next /\ result' = result
  BY <1>1 DEF End, TypeOK
<1>6. source \in Seq(Chars) /\ lineNo' \in 1..pos' /\ next' \in 1..Len(nodes') + 1
  BY <1>1, <1>2, <1>4, <1>5 DEF TypeOK
<1>7. QED  BY <1>1, <1>2, <1>3, <1>4, <1>5, <1>6 DEF TypeOK

LEMMA ResultsType ==
  ASSUME NEW c, NEW n
  PROVE  Results(c, n) \subseteq {"ok", "fail"}
  BY DEF Results

\* The other steps of the parser leave the statements alone.
LEMMA ReadType ==
  TypeOK /\ (SkipBlank \/ Newline \/ EndOfSource \/ Begin \/ Copy) => TypeOK'
<1>1. SUFFICES ASSUME TypeOK, SkipBlank \/ Newline \/ EndOfSource \/ Begin \/ Copy
               PROVE  TypeOK'
  OBVIOUS
<1>2. /\ pos \in 1..Len(source) + 1 /\ Len(source) \in Nat /\ start \in Nat
      /\ source \in Seq(Chars)
  BY <1>1 DEF TypeOK
<1>3. UNCHANGED <<source, nodes, next, result>> /\ inside' \in {inside, FALSE}
  BY <1>1 DEF SkipBlank, Newline, EndOfSource, Begin, Copy
<1>4. At(pos) # "nul" => pos + 1 \in 1..Len(source) + 1
  BY <1>1, <1>2, AtInside
<1>5. pos' \in 1..Len(source) + 1 /\ start' \in 1..Len(source) + 1
      /\ pos' \in {pos, pos + 1}
  <2>1. CASE SkipBlank \/ Newline
    BY <1>1, <1>2, <1>4, <2>1 DEF SkipBlank, Newline, TypeOK
  <2>2. CASE EndOfSource
    BY <1>1, <1>2, <2>2 DEF EndOfSource, TypeOK
  <2>3. CASE Begin
    BY <1>1, <1>2, <1>4, <2>3 DEF Begin, TypeOK
  <2>4. CASE Copy
    BY <1>1, <1>2, <2>4, CopyInside DEF Copy, TypeOK
  <2>5. QED  BY <1>1, <2>1, <2>2, <2>3, <2>4
<1>6. lineNo' \in 1..pos'
  BY <1>1, <1>2, <1>5 DEF SkipBlank, Newline, EndOfSource, Begin, Copy, TypeOK
<1>7. /\ token' \in Kinds \cup {"none"}
      /\ token' # "none" => start' <= pos' /\ pos' - start' <= MaxToken
      /\ token' = "string" => start' > 1
  <2>1. CASE SkipBlank \/ Newline \/ EndOfSource
    BY <1>1, <2>1 DEF SkipBlank, Newline, EndOfSource, Between
  <2>2. CASE Begin
    BY <1>2, <2>2 DEF Begin, KindOf, Kinds
  <2>3. CASE Copy
    BY <1>1, <1>2, <2>3 DEF Copy, Full, TypeOK
  <2>4. QED  BY <1>1, <2>1, <2>2, <2>3
<1>8. mode' \in {"parse", "execute", "done"}
  BY <1>1 DEF SkipBlank, Newline, EndOfSource, Begin, Copy, TypeOK
<1>9. /\ nodes \in Seq(Node) /\ next \in 1..Len(nodes) + 1
      /\ \A i \in 1..Len(nodes) : Len(nodes[i].args) \in 1..MaxArgs
      /\ result \in {"ok", "fail"}
  BY <1>1 DEF TypeOK
<1>10. inside' \in BOOLEAN /\ (inside' => nodes' # <<>>)
  <2>1. inside \in BOOLEAN /\ (inside => nodes # <<>>)
    BY <1>1 DEF TypeOK
  <2>2. nodes' = nodes
    BY <1>3
  <2>3. CASE inside' = inside
    BY <2>1, <2>2, <2>3, Zenon
  <2>4. CASE inside' = FALSE
    BY <2>4
  <2>5. QED  BY <1>3, <2>3, <2>4, Zenon
<1>11. nodes' = nodes /\ next' = next /\ result' = result /\ source' = source
  BY <1>3
<1>12. QED
  BY <1>2, <1>5, <1>6, <1>7, <1>8, <1>9, <1>10, <1>11 DEF TypeOK

LEMMA NextType == TypeOK /\ [Next]_vars => TypeOK'
<1>1. SUFFICES ASSUME TypeOK, [Next]_vars PROVE TypeOK'
  OBVIOUS
<1>2. CASE SkipBlank \/ Newline \/ EndOfSource \/ Begin \/ Copy
  BY <1>1, <1>2, ReadType
<1>3. CASE End
  BY <1>1, <1>3, EndType
<1>4. CASE Execute
  <2>1. result' \in {"ok", "fail"}
    BY <1>4, ResultsType DEF Execute
  <2>2. next' \in 1..Len(nodes) + 1
    BY <1>1, <1>4 DEF Execute, TypeOK
  <2>3. UNCHANGED <<source, pos, lineNo, token, start, inside, nodes, mode>>
    BY <1>4 DEF Execute, parser
  <2>4. QED  BY <1>1, <2>1, <2>2, <2>3 DEF TypeOK
<1>5. CASE Finish
  BY <1>1, <1>5 DEF Finish, parser, TypeOK
<1>6. CASE UNCHANGED vars
  BY <1>1, <1>6 DEF vars, parser, TypeOK
<1>7. QED  BY <1>1, <1>2, <1>3, <1>4, <1>5, <1>6 DEF Next

\* No token outgrows its buffer, no statement its places, and the tokenizer
\* never reads behind the end of the text (gupt_dsl.c:17-98, 130-147).
THEOREM InBounds == Spec => []TypeOK
  BY InitType, NextType, PTL DEF Spec

-----------------------------------------------------------------------------
(* The order of the tokens                                                 *)

\* No argument reaches the token that is read, or what is still unread.
Passed ==
  \A i \in 1..Len(nodes) : \A j \in 1..Len(nodes[i].args) :
    nodes[i].args[j][2] < IF token = "none" THEN pos ELSE start

OrderInv == TypeOK /\ Passed /\ TokensInOrder

\* Argument j of statement i is one that was there, or the token just read;
\* none stands behind that.
Stays(i, j) ==
  /\ i <= Len(nodes) /\ j <= Len(nodes[i].args)
  /\ nodes'[i].args[j] = nodes[i].args[j]
Added(i, j) ==
  /\ nodes'[i].args[j] = Place
  /\ \A k \in 1..Len(nodes') : \A l \in 1..Len(nodes'[k].args) :
       ~(i < k \/ (i = k /\ j < l))

LEMMA EndAdds ==
  ASSUME TypeOK, End
  PROVE  \A i \in 1..Len(nodes') : \A j \in 1..Len(nodes'[i].args) :
           Stays(i, j) \/ (token # "comment" /\ Added(i, j))
<1>1. /\ nodes \in Seq(Node) /\ Len(nodes) \in Nat
      /\ \A i \in 1..Len(nodes) : nodes[i].args \in Seq(Nat \X Nat)
  <2>1. nodes \in Seq(Node)
    BY DEF TypeOK
  <2>2. \A i \in 1..Len(nodes) : nodes[i] \in Node
    BY <2>1
  <2>3. QED  BY <2>1, <2>2 DEF Node
<1>2. CASE nodes' = nodes
  BY <1>1, <1>2 DEF Stays
<1>3. CASE inside /\ nodes' = Collected /\ nodes' # nodes /\ token # "comment"
  <2> DEFINE k == Len(nodes)
             longer == [line |-> nodes[k].line,
                        args |-> Append(nodes[k].args, Place)]
  <2>1. nodes' = [nodes EXCEPT ![k] = longer]
    BY <1>3 DEF Collected
  <2>2. k \in 1..Len(nodes)
    BY <1>1, <1>3 DEF TypeOK
  <2>3. nodes[k].args \in Seq(Nat \X Nat) /\ longer.args = Append(nodes[k].args, Place)
    BY <1>1, <2>2
  <2>4. /\ Len(longer.args) = Len(nodes[k].args) + 1
        /\ longer.args[Len(nodes[k].args) + 1] = Place
        /\ \A j \in 1..Len(nodes[k].args) : longer.args[j] = nodes[k].args[j]
        /\ Len(nodes[k].args) \in Nat
    BY <2>3
  <2> HIDE DEF longer
  <2>5. /\ Len(nodes') = k /\ nodes'[k] = longer
        /\ \A i \in 1..k : i # k => nodes'[i] = nodes[i]
    BY <1>1, <2>1, <2>2
  <2>6. ASSUME NEW i \in 1..k, NEW j \in 1..Len(nodes'[i].args)
        PROVE  Stays(i, j) \/ Added(i, j)
    <3>1. CASE i # k
      BY <1>1, <2>5, <3>1 DEF Stays
    <3>2. CASE i = k /\ j <= Len(nodes[k].args)
      <4>1. nodes'[i].args = longer.args /\ j \in Nat
        BY <2>5, <3>2
      <4>2. j \in 1..Len(nodes[k].args)
        BY <2>4, <3>2
      <4>3. nodes'[i].args[j] = nodes[i].args[j]
        BY <2>4, <3>2, <4>1, <4>2
      <4>4. QED  BY <3>2, <4>3 DEF Stays
    <3>3. CASE i = k /\ j = Len(nodes[k].args) + 1
      BY <1>1, <2>4, <2>5, <3>3 DEF Added
    <3>4. QED  BY <2>4, <2>5, <3>1, <3>2, <3>3
  <2>7. QED  BY <1>3, <2>5, <2>6
<1>4. CASE nodes' = Begun /\ token # "comment"
  <2> DEFINE n == [line |-> lineNo, args |-> <<Place>>]
  <2>1. nodes' = Append(nodes, n)
    BY <1>4 DEF Begun
  <2>2. Len(n.args) = 1 /\ n.args[1] = Place
    OBVIOUS
  <2> HIDE DEF n
  <2>3. /\ Len(nodes') = Len(nodes) + 1 /\ nodes'[Len(nodes) + 1] = n
        /\ \A i \in 1..Len(nodes) : nodes'[i] = nodes[i]
    BY <1>1, <2>1
  <2>4. ASSUME NEW i \in 1..Len(nodes'), NEW j \in 1..Len(nodes'[i].args)
        PROVE  Stays(i, j) \/ Added(i, j)
    <3>1. CASE i <= Len(nodes)
      BY <1>1, <2>3, <3>1 DEF Stays
    <3>2. CASE i = Len(nodes) + 1
      <4>1. nodes'[i] = n
        BY <2>3, <3>2
      <4>2. Len(nodes'[i].args) = 1 /\ nodes'[i].args[1] = Place
        BY <2>2, <4>1
      <4>3. j = 1
        BY <4>2
      <4>4. \A k \in 1..Len(nodes') : \A l \in 1..Len(nodes'[k].args) :
              ~(i < k \/ (i = k /\ j < l))
        <5>1. \A k \in 1..Len(nodes') : ~(i < k)
          BY <1>1, <2>3, <3>2
        <5>2. \A l \in 1..Len(nodes'[i].args) : ~(j < l)
          BY <4>2, <4>3
        <5>3. QED  BY <5>1, <5>2
      <4>5. QED  BY <4>2, <4>3, <4>4 DEF Added
    <3>3. QED  BY <1>1, <2>3, <3>1, <3>2
  <2>5. QED  BY <1>4, <2>4
<1>5. QED  BY <1>2, <1>3, <1>4 DEF End

LEMMA EndOrder ==
  ASSUME OrderInv, End
  PROVE  Passed' /\ TokensInOrder'
<1>1. /\ pos \in Nat /\ start \in Nat /\ start <= pos /\ token # "none"
      /\ token' = "none" /\ pos' \in Nat /\ pos <= pos'
      /\ Place = <<start, pos - 1>>
  BY DEF OrderInv, TypeOK, End, Place
<1>2. \A i \in 1..Len(nodes') : \A j \in 1..Len(nodes'[i].args) :
        Stays(i, j) \/ Added(i, j)
  BY EndAdds DEF OrderInv
<1>3. ASSUME NEW i \in 1..Len(nodes'), NEW j \in 1..Len(nodes'[i].args),
             Stays(i, j)
      PROVE  /\ i \in 1..Len(nodes) /\ j \in 1..Len(nodes[i].args)
             /\ nodes'[i].args[j] = nodes[i].args[j]
             /\ nodes'[i].args[j][2] < start /\ nodes'[i].args[j][2] \in Nat
  <2>1. nodes \in Seq(Node) /\ i \in 1..Len(nodes)
    BY <1>3 DEF OrderInv, TypeOK, Stays
  <2>2. nodes[i] \in Node
    BY <2>1
  <2>3. nodes[i].args \in Seq(Nat \X Nat)
    BY <2>2 DEF Node
  <2>4. j \in 1..Len(nodes[i].args)
    BY <1>3, <2>3 DEF Stays
  <2>5. nodes[i].args[j] \in Nat \X Nat
    BY <2>3, <2>4
  <2>6. nodes[i].args[j][2] < start
    BY <1>1, <2>1, <2>4 DEF OrderInv, Passed
  <2>7. QED  BY <1>3, <2>1, <2>4, <2>5, <2>6 DEF Stays
<1>4. ASSUME NEW i \in 1..Len(nodes'), NEW j \in 1..Len(nodes'[i].args)
      PROVE  nodes'[i].args[j][2] < pos'
  <2>1. CASE Stays(i, j)
    <3>1. nodes'[i].args[j][2] < start /\ nodes'[i].args[j][2] \in Nat
      BY <1>3, <2>1
    <3>2. QED  BY <1>1, <3>1
  <2>2. CASE Added(i, j)
    BY <1>1, <2>2 DEF Added
  <2>3. QED  BY <1>2, <2>1, <2>2
<1>5. ASSUME NEW i \in 1..Len(nodes'), NEW j \in 1..Len(nodes'[i].args),
             NEW k \in 1..Len(nodes'), NEW l \in 1..Len(nodes'[k].args),
             i < k \/ (i = k /\ j < l)
      PROVE  nodes'[i].args[j][2] < nodes'[k].args[l][1]
  <2>1. Stays(i, j)
    BY <1>2, <1>5 DEF Added
  <2>2. CASE Stays(k, l)
    <3>1. /\ i \in 1..Len(nodes) /\ j \in 1..Len(nodes[i].args)
          /\ nodes'[i].args[j] = nodes[i].args[j]
      BY <1>3, <2>1
    <3>2. /\ k \in 1..Len(nodes) /\ l \in 1..Len(nodes[k].args)
          /\ nodes'[k].args[l] = nodes[k].args[l]
      BY <1>3, <2>2
    <3>3. QED  BY <1>5, <3>1, <3>2 DEF OrderInv, TokensInOrder
  <2>3. CASE Added(k, l)
    <3>1. nodes'[k].args[l][1] = start
      BY <1>1, <2>3 DEF Added
    <3>2. QED  BY <1>3, <2>1, <3>1
  <2>4. QED  BY <1>2, <2>2, <2>3
<1>6. QED  BY <1>1, <1>4, <1>5 DEF Passed, TokensInOrder

LEMMA NextOrder == OrderInv /\ [Next]_vars => OrderInv'
<1> SUFFICES ASSUME OrderInv, [Next]_vars PROVE OrderInv'
  OBVIOUS
<1>1. TypeOK'
  BY NextType DEF OrderInv
<1>2. CASE End
  BY <1>1, <1>2, EndOrder DEF OrderInv
<1>3. CASE ~End
  <2>1. nodes' = nodes
    BY <1>3 DEF Next, vars, SkipBlank, Newline, EndOfSource, Begin, Copy,
                Execute, Finish
  <2>2. TokensInOrder'
    <3>1. TokensInOrder
      BY DEF OrderInv
    <3>2. ASSUME NEW i \in 1..Len(nodes), NEW k \in 1..Len(nodes),
                 NEW j \in 1..Len(nodes[i].args), NEW l \in 1..Len(nodes[k].args),
                 i < k \/ (i = k /\ j < l)
          PROVE  nodes[i].args[j][2] < nodes[k].args[l][1]
      BY <3>1, <3>2 DEF TokensInOrder
    <3>3. QED  BY <2>1, <3>2 DEF TokensInOrder
  <2> DEFINE reach == IF token = "none" THEN pos ELSE start
  <2>3. reach \in Nat /\ reach' \in Nat /\ reach <= reach'
    BY <1>1, <1>3 DEF OrderInv, TypeOK, Next, vars, parser, SkipBlank,
       Newline, EndOfSource, Begin, Copy, Execute, Finish, Between
  <2>4. ASSUME NEW i \in 1..Len(nodes), NEW j \in 1..Len(nodes[i].args)
        PROVE  nodes[i].args[j][2] \in Nat
    <3>1. nodes \in Seq(Node)
      BY DEF OrderInv, TypeOK
    <3>2. nodes[i] \in Node
      BY <3>1
    <3>3. nodes[i].args \in Seq(Nat \X Nat)
      BY <3>2 DEF Node
    <3>4. nodes[i].args[j] \in Nat \X Nat
      BY <3>3
    <3>5. QED  BY <3>4
  <2>5. \A i \in 1..Len(nodes) : \A j \in 1..Len(nodes[i].args) :
          nodes[i].args[j][2] < reach
    BY DEF OrderInv, Passed
  <2> HIDE DEF reach
  <2>6. \A i \in 1..Len(nodes) : \A j \in 1..Len(nodes[i].args) :
          nodes[i].args[j][2] < reach'
    BY <2>3, <2>4, <2>5
  <2>7. Passed'
    BY <2>1, <2>6 DEF Passed, reach
  <2>8. QED  BY <1>1, <2>2, <2>7 DEF OrderInv
<1>4. QED  BY <1>2, <1>3

\* The arguments of the statements are disjoint parts of the text, in its
\* order, whether tokens are cut or not (gupt_dsl.c:40-97, 130-158).
THEOREM ArgumentsInOrder == Spec => []TokensInOrder
<1>1. Init => OrderInv
  <2>1. Init => Len(nodes) = 0
    BY DEF Init
  <2>2. QED  BY <2>1, InitType DEF OrderInv, Passed, TokensInOrder
<1>2. OrderInv => TokensInOrder
  BY DEF OrderInv
<1>3. QED  BY <1>1, <1>2, NextOrder, PTL DEF Spec

-----------------------------------------------------------------------------
(* The reference, run along with the tokenizer                             *)

\* The kind of the token as the reference has it, and the first of its places.
Kind == IF token = "string" THEN At(start - 1) ELSE token
First == IF token = "string" THEN start ELSE start + 1

\* The reference and the tokenizer are at the same point.
Scans ==
  LET o == Owners(source)
  IN /\ Between =>
          \/ o[pos] = "gap"
          \/ o[pos] = "word" /\ At(pos) \in {"s", "n", "h", "nul"}
          \/ o[pos] = "number" /\ At(pos) # "0"
          \/ o[pos] = "comment" /\ At(pos) \in {"n", "nul"}
          \/ o[pos] \in {"d", "q"} /\ At(pos) = "nul"
     /\ token # "none" =>
          /\ First <= Len(source) + 1
          /\ o[First] = Kind /\ o[First - 1] # Kind
          /\ \A i \in First..pos : o[i] = Kind
          /\ IF token = "string" THEN Kind \in {"d", "q"}
             ELSE KindOf(At(start)) = token /\ At(start) \notin {"s", "n", "nul"}
     /\ mode # "parse" => token = "none" /\ pos = Len(source) + 1
     /\ lineNo = 1 + Cardinality(Breaks(source, o, pos))

\* The tokens that have been read.
Seen(t) == t[1] < IF token = "none" THEN pos + 1 ELSE First
SeenOf(tokens) == {t \in tokens : Seen(t)}

\* The statements are those of the tokens that have been read.
ReadLines ==
  LET o == Owners(source)
      line(t) == LineOf(source, o, t)
  IN /\ {nodes[i].line : i \in 1..Len(nodes)} = {line(w) : w \in SeenOf(Words(o))}
     /\ \A i, k \in 1..Len(nodes) : i < k => nodes[i].line < nodes[k].line
     /\ \A i \in 1..Len(nodes) : nodes[i].line <= lineNo
     /\ mode = "parse" =>
          /\ inside <=> \E w \in SeenOf(Words(o)) : line(w) = lineNo
          /\ inside => nodes[Len(nodes)].line = lineNo
     /\ \A i \in 1..Len(nodes) :
          Takes(nodes[i].args, o, SeenOf(StatementOf(source, o, nodes[i].line)))

LinesInv == OrderInv /\ (Short(source) => Scans /\ ReadLines)

Owned == {"gap", "comment", "d", "q", "number", "word"}

LEMMA BelongsType ==
  ASSUME NEW t \in Owned, NEW c \in Chars
  PROVE  Belongs(t, c) \in Owned
BY DEF Owned, Chars, Belongs, GoesOn

\* Owners(l) is the run of the reference over l: its definition by recursion
\* has a solution.
LEMMA OwnersIsRun ==
  ASSUME NEW l \in Seq(Chars)
  PROVE  /\ Owners(l) \in [1..Len(l) + 1 -> Owned]
         /\ Owners(l)[1] = "gap"
         /\ \A i \in 1..Len(l) : Owners(l)[i + 1] = Belongs(Owners(l)[i], l[i])
<1> DEFINE n == Len(l)
           Step(o, i) == IF i = 1 THEN "gap" ELSE Belongs(o[i - 1], l[i - 1])
           IsRun(o) == o = [i \in 1..n + 1 |-> Step(o, i)]
           g == [i \in 1..n |-> [t \in Owned |-> Belongs(t, l[i])]]
<1>1. n \in Nat /\ \A i \in 1..n : l[i] \in Chars
  BY LenProperties
<1>2. "gap" \in Owned
  BY DEF Owned
<1>3. g \in [1..n -> [Owned -> Owned]]
  BY <1>1, BelongsType
<1>4. PICK f : f \in RunsOf(n, Owned, "gap", g)
  <2>1. n \in Nat
    BY <1>1
  <2> HIDE DEF g, n
  <2>2. QED  BY <1>2, <1>3, <2>1, RunExists, Zenon
<1>5. \A i \in 1..n : f[i + 1] = Belongs(f[i], l[i])
  <2> SUFFICES ASSUME NEW i \in 1..n PROVE f[i + 1] = Belongs(f[i], l[i])
    OBVIOUS
  <2>1. f[i] \in Owned
    BY <1>1, <1>4 DEF RunsOf
  <2>2. f[i + 1] = g[i][f[i]] /\ g[i] = [t \in Owned |-> Belongs(t, l[i])]
    BY <1>4 DEF RunsOf
  <2> HIDE DEF n, g
  <2>3. QED  BY <2>1, <2>2
<1>6. IsRun(f)
  <2>1. ASSUME NEW i \in 1..n + 1 PROVE f[i] = Step(f, i)
    <3>1. CASE i = 1
      BY <1>4, <3>1 DEF RunsOf
    <3>2. CASE i # 1
      <4>1. i - 1 \in 1..n /\ (i - 1) + 1 = i
        BY <1>1, <3>2
      <4>2. QED  BY <1>5, <3>2, <4>1
    <3>3. QED  BY <3>1, <3>2
  <2> HIDE DEF Step, n
  <2>2. QED  BY <1>4, <2>1 DEF RunsOf
<1>7. Owners(l) = CHOOSE o : IsRun(o)
  BY DEF Owners
<1>8. IsRun(Owners(l))
  <2> HIDE DEF IsRun
  <2>1. QED  BY <1>6, <1>7, Zenon
<1>9. /\ DOMAIN Owners(l) = 1..n + 1
      /\ Owners(l) = [i \in 1..n + 1 |-> Owners(l)[i]]
      /\ \A i \in 1..n + 1 : Owners(l)[i] = Step(Owners(l), i)
  <2> DEFINE o == Owners(l)
  <2>1. IsRun(o)
    BY <1>8
  <2> HIDE DEF o, Step, n
  <2>2. DOMAIN o = 1..n + 1 /\ o = [i \in 1..n + 1 |-> o[i]]
    BY <2>1
  <2>3. \A i \in 1..n + 1 : o[i] = Step(o, i)
    BY <2>1, Zenon
  <2>4. QED  BY <2>2, <2>3 DEF o
<1>10. Owners(l)[1] = "gap"
  BY <1>1, <1>9
<1>11. ASSUME NEW i \in 1..n PROVE Owners(l)[i + 1] = Belongs(Owners(l)[i], l[i])
  <2>1. i + 1 \in 1..n + 1 /\ i + 1 # 1 /\ (i + 1) - 1 = i
    BY <1>1
  <2>2. Owners(l)[i + 1] = Step(Owners(l), i + 1)
    BY <1>9, <2>1
  <2>3. QED  BY <2>1, <2>2
<1>12. Owners(l) \in [1..n + 1 -> Owned]
  <2> DEFINE T == {i \in 1..n + 1 : Owners(l)[i] \in Owned}
  <2>1. 1 \in T
    BY <1>1, <1>2, <1>10
  <2>2. \A i \in 1..n : i \in T => i + 1 \in T
    BY <1>1, <1>11, BelongsType
  <2>3. 1..n + 1 \subseteq T
    <3> HIDE DEF T, n
    <3>1. QED  BY <1>1, <2>1, <2>2, PlaceInduction
  <2>4. \A i \in 1..n + 1 : Owners(l)[i] \in Owned
    BY <2>3
  <2> HIDE DEF n
  <2>5. QED  BY <1>9, <2>4
<1>13. QED  BY <1>10, <1>11, <1>12

\* The places of the text and of the reference.
LEMMA OwnerFacts ==
  ASSUME TypeOK
  PROVE  /\ Len(source) \in Nat /\ pos \in 1..Len(source) + 1
         /\ Owners(source) \in [1..Len(source) + 1 -> Owned]
         /\ Len(Owners(source)) = Len(source) + 1
         /\ Owners(source)[1] = "gap"
         /\ \A i \in 1..Len(source) :
              /\ At(i) = source[i] /\ At(i) \in Chars /\ At(i) # "nul"
              /\ Owners(source)[i + 1] = Belongs(Owners(source)[i], At(i))
         /\ At(pos) = "nul" => pos = Len(source) + 1
<1> DEFINE o == Owners(source)
<1>1. source \in Seq(Chars) /\ Len(source) \in Nat /\ pos \in 1..Len(source) + 1
  BY LenProperties DEF TypeOK
<1>2. /\ o \in [1..Len(source) + 1 -> Owned]
      /\ o[1] = "gap"
      /\ \A i \in 1..Len(source) : o[i + 1] = Belongs(o[i], source[i])
  BY <1>1, OwnersIsRun
<1> HIDE DEF o
<1>3. Len(o) = Len(source) + 1
  <2>1. Len(source) + 1 \in Nat
    BY <1>1
  <2>2. o \in Seq(Owned)
    BY <1>2, <2>1, SeqDef
  <2>3. DOMAIN o = 1..Len(source) + 1
    BY <1>2
  <2>4. QED  BY <2>1, <2>2, <2>3, LenProperties
<1>4. \A i \in 1..Len(source) : source[i] \in Chars
  BY <1>1
<1>5. \A i \in 1..Len(source) : At(i) = source[i] /\ At(i) \in Chars /\ At(i) # "nul"
  BY <1>1, <1>4 DEF At, Chars
<1>6. \A i \in 1..Len(source) : o[i + 1] = Belongs(o[i], At(i))
  BY <1>2, <1>5
<1>7. At(pos) = "nul" => pos = Len(source) + 1
  BY <1>1, <1>5
<1>8. QED  BY <1>1, <1>2, <1>3, <1>5, <1>6, <1>7 DEF o

LEMMA AtOwner ==
  ASSUME TypeOK, At(pos) # "nul"
  PROVE  /\ pos \in 1..Len(source) /\ Len(source) \in Nat
         /\ At(pos) \in Chars /\ source[pos] = At(pos)
         /\ Owners(source)[pos] \in Owned
         /\ Owners(source)[pos + 1] = Belongs(Owners(source)[pos], At(pos))
<1>1. pos \in 1..Len(source) /\ Len(source) \in Nat
  <2>1. pos \in 1..Len(source) + 1 /\ Len(source) \in Nat
    BY OwnerFacts
  <2>2. QED  BY <2>1 DEF At
<1>2. QED  BY <1>1, OwnerFacts

\* Between tokens the next character belongs to a token of its own.
LEMMA FromBetween ==
  ASSUME NEW t \in Owned, NEW c \in Chars,
         \/ t = "gap"
         \/ t = "word" /\ c \in {"s", "n", "h", "nul"}
         \/ t = "number" /\ c # "0"
         \/ t = "comment" /\ c \in {"n", "nul"}
  PROVE  /\ c \in {"s", "n"} => Belongs(t, c) = "gap"
         /\ c \in {"d", "q"} => Belongs(t, c) = c /\ t # c
         /\ c \in {"h", "0", "a"} => Belongs(t, c) = KindOf(c) /\ t # KindOf(c)
BY DEF Owned, Chars, Belongs, GoesOn, KindOf

\* The characters that stay with the owner of the last one.
LEMMA StaysOwner ==
  ASSUME NEW k \in Owned \ {"gap"}, NEW c \in Chars
  PROVE  /\ k = "comment" => (Belongs(k, c) = k <=> c # "n")
         /\ k \in {"d", "q"} => (Belongs(k, c) = k <=> c # k) /\ Belongs(k, k) = "gap"
         /\ k = "number" => (Belongs(k, c) = k <=> c = "0")
         /\ k = "word" => (Belongs(k, c) = k <=> c \notin {"s", "n", "h"})
<1>1. Belongs(k, c) = k <=> GoesOn(k, c)
  BY DEF Owned, Chars, Belongs, GoesOn
<1>2. k \in {"d", "q"} => Belongs(k, k) = "gap"
  BY DEF Belongs, GoesOn
<1>3. QED  BY <1>1, <1>2 DEF Chars, GoesOn

\* A token ends where the reference changes its owner.
LEMMA EndsOwner ==
  ASSUME token \in Kinds, token = "string" => Kind \in {"d", "q"},
         NEW c \in Chars
  PROVE  /\ Kind \in Owned \ {"gap"}
         /\ Ends(c) <=> Belongs(Kind, c) # Kind
         /\ token = "string" => Belongs(Kind, Kind) = "gap"
<1>1. Kind \in Owned \ {"gap"} /\ c # "nul"
  BY DEF Kind, Owned, Kinds, Chars
<1>2. CASE token = "string"
  <2>1. Kind = At(start - 1) /\ (Ends(c) <=> c = Kind)
    BY <1>1, <1>2 DEF Kind, Ends
  <2>2. QED  BY <1>1, <1>2, <2>1, StaysOwner
<1>3. CASE token = "comment"
  <2>1. Kind = "comment" /\ (Ends(c) <=> c = "n")
    BY <1>1, <1>3 DEF Kind, Ends
  <2>2. QED  BY <1>1, <1>3, <2>1, StaysOwner
<1>4. CASE token = "number"
  <2>1. Kind = "number" /\ (Ends(c) <=> c # "0")
    BY <1>1, <1>4 DEF Kind, Ends
  <2>2. QED  BY <1>1, <1>4, <2>1, StaysOwner
<1>5. CASE token = "word"
  <2>1. Kind = "word" /\ (Ends(c) <=> c \in {"s", "n", "h"})
    BY <1>1, <1>5 DEF Kind, Ends
  <2>2. QED  BY <1>1, <1>5, <2>1, StaysOwner
<1>6. QED  BY <1>2, <1>3, <1>4, <1>5 DEF Kinds

\* Tokens with the same beginning are the same.
LEMMA SameFirst ==
  ASSUME NEW o, Len(o) \in Nat, NEW t \in Tokens(o), NEW u \in Tokens(o), t[1] = u[1]
  PROVE  t = u
<1>1. /\ t = <<t[1], t[2]>> /\ u = <<u[1], u[2]>>
      /\ t[1] \in 2..Len(o) /\ t[2] \in t[1]..Len(o) /\ u[2] \in t[1]..Len(o)
      /\ \A i \in t[1]..t[2] : o[i] = o[t[1]]
      /\ \A i \in t[1]..u[2] : o[i] = o[t[1]]
      /\ t[2] < Len(o) => o[t[2] + 1] # o[t[1]]
      /\ u[2] < Len(o) => o[u[2] + 1] # o[t[1]]
  BY DEF Tokens
<1>2. ~(t[2] < u[2])
  BY <1>1
<1>3. ~(u[2] < t[2])
  BY <1>1
<1>4. t[2] = u[2]
  BY <1>1, <1>2, <1>3
<1>5. QED  BY <1>1, <1>4

\* The count of newlines from one place to the next.
LEMMA NoBreak ==
  ASSUME NEW o, NEW i \in Nat \ {0}, ~(source[i] = "n" /\ o[i + 1] = "gap")
  PROVE  Breaks(source, o, i + 1) = Breaks(source, o, i)
<1>1. \A k \in 1..(i + 1) - 1 : k = i \/ k \in 1..i - 1
  OBVIOUS
<1>2. \A k \in 1..i - 1 : k \in 1..(i + 1) - 1
  OBVIOUS
<1>3. QED  BY <1>1, <1>2 DEF Breaks

LEMMA OneBreak ==
  ASSUME NEW o, NEW i \in Nat \ {0}, source[i] = "n" /\ o[i + 1] = "gap"
  PROVE  /\ Cardinality(Breaks(source, o, i)) \in Nat
         /\ Cardinality(Breaks(source, o, i + 1)) = Cardinality(Breaks(source, o, i)) + 1
<1>1. IsFiniteSet(Breaks(source, o, i))
  <2>1. IsFiniteSet(1..i - 1)
    BY FS_Interval
  <2>2. Breaks(source, o, i) \subseteq 1..i - 1
    BY DEF Breaks
  <2>3. QED  BY <2>1, <2>2, FS_Subset
<1>2. i \notin Breaks(source, o, i)
  BY DEF Breaks
<1>3. Breaks(source, o, i + 1) = Breaks(source, o, i) \cup {i}
  <2>1. \A k \in 1..(i + 1) - 1 : k = i \/ k \in 1..i - 1
    OBVIOUS
  <2>2. i \in 1..(i + 1) - 1 /\ \A k \in 1..i - 1 : k \in 1..(i + 1) - 1
    OBVIOUS
  <2>3. QED  BY <2>1, <2>2 DEF Breaks
<1>4. QED  BY <1>1, <1>2, <1>3, FS_AddElement, FS_CardinalityType

\* A token of the reference, by what makes it one.
LEMMA TokenFacts ==
  ASSUME NEW o, Len(o) \in Nat, NEW t \in Tokens(o)
  PROVE  /\ t[1] \in 2..Len(o) /\ t[2] \in t[1]..Len(o)
         /\ o[t[1]] # "gap" /\ o[t[1] - 1] # o[t[1]]
BY DEF Tokens

\* What the tokenizer knows between two tokens, with a character to come.
LEMMA BetweenFacts ==
  ASSUME TypeOK, Scans, Between, At(pos) # "nul"
  PROVE  LET o == Owners(source)
         IN /\ pos \in 1..Len(source) /\ Len(source) \in Nat
            /\ At(pos) \in Chars /\ source[pos] = At(pos)
            /\ At(pos) \in {"s", "n"} => o[pos + 1] = "gap"
            /\ At(pos) \in {"d", "q"} => o[pos + 1] = At(pos) /\ o[pos] # At(pos)
            /\ At(pos) \in {"h", "0", "a"} =>
                 o[pos + 1] = KindOf(At(pos)) /\ o[pos] # KindOf(At(pos))
<1> DEFINE o == Owners(source)
<1>1. /\ pos \in 1..Len(source) /\ Len(source) \in Nat
      /\ At(pos) \in Chars /\ source[pos] = At(pos)
      /\ o[pos] \in Owned /\ o[pos + 1] = Belongs(o[pos], At(pos))
  BY AtOwner
<1>2. \/ o[pos] = "gap"
      \/ o[pos] = "word" /\ At(pos) \in {"s", "n", "h", "nul"}
      \/ o[pos] = "number" /\ At(pos) # "0"
      \/ o[pos] = "comment" /\ At(pos) \in {"n", "nul"}
  BY DEF Scans
<1> HIDE DEF o
<1>3. /\ At(pos) \in {"s", "n"} => Belongs(o[pos], At(pos)) = "gap"
      /\ At(pos) \in {"d", "q"} => Belongs(o[pos], At(pos)) = At(pos) /\ o[pos] # At(pos)
      /\ At(pos) \in {"h", "0", "a"} =>
           Belongs(o[pos], At(pos)) = KindOf(At(pos)) /\ o[pos] # KindOf(At(pos))
  BY <1>1, <1>2, FromBetween
<1>4. QED  BY <1>1, <1>3 DEF o

LEMMA BlankScans ==
  ASSUME TypeOK, Scans, SkipBlank PROVE Scans'
<1> DEFINE o == Owners(source)
<1>1. /\ pos \in 1..Len(source) /\ source[pos] = "s" /\ o[pos + 1] = "gap"
      /\ token = "none" /\ mode = "parse"
  BY BetweenFacts DEF SkipBlank, Between
<1>2. Breaks(source, o, pos + 1) = Breaks(source, o, pos)
  BY <1>1, NoBreak
<1>3. QED  BY <1>1, <1>2 DEF Scans, SkipBlank, Between

LEMMA NewlineScans ==
  ASSUME TypeOK, Scans, Newline PROVE Scans'
<1> DEFINE o == Owners(source)
<1>1. /\ pos \in 1..Len(source) /\ source[pos] = "n" /\ o[pos + 1] = "gap"
      /\ token = "none" /\ mode = "parse"
  BY BetweenFacts DEF Newline, Between
<1>2. /\ Cardinality(Breaks(source, o, pos)) \in Nat
      /\ Cardinality(Breaks(source, o, pos + 1)) = Cardinality(Breaks(source, o, pos)) + 1
  BY <1>1, OneBreak
<1>3. lineNo' = 1 + Cardinality(Breaks(source, o, pos + 1))
  BY <1>2 DEF Scans, Newline
<1>4. QED  BY <1>1, <1>3 DEF Scans, Newline, Between

LEMMA EndOfSourceScans ==
  ASSUME TypeOK, Scans, EndOfSource PROVE Scans'
<1>1. pos = Len(source) + 1
  BY OwnerFacts DEF EndOfSource
<1>2. QED  BY <1>1 DEF Scans, EndOfSource, Between

\* The kind and the place where a token begins.
LEMMA BeginFacts ==
  ASSUME TypeOK, Scans, Begin
  PROVE  LET o == Owners(source)
         IN /\ pos \in 1..Len(source) /\ Len(source) \in Nat
            /\ First' = pos + 1 /\ pos' \in {pos, pos + 1}
            /\ o[pos + 1] = Kind' /\ o[pos] # Kind'
            /\ token' = "string" => /\ Kind' \in {"d", "q"} /\ pos' = pos + 1
                                    /\ source[pos] # "n"
            /\ token' # "string" => /\ KindOf(At(pos)) = token' /\ start' = pos /\ pos' = pos
                                    /\ At(pos) \notin {"s", "n", "nul"}
            /\ token' # "none"
<1> DEFINE o == Owners(source)
<1>1. /\ pos \in 1..Len(source) /\ Len(source) \in Nat
      /\ At(pos) \in Chars /\ source[pos] = At(pos)
      /\ At(pos) \in {"d", "q"} => o[pos + 1] = At(pos) /\ o[pos] # At(pos)
      /\ At(pos) \in {"h", "0", "a"} =>
           o[pos + 1] = KindOf(At(pos)) /\ o[pos] # KindOf(At(pos))
  BY BetweenFacts DEF Begin
<1>2. At(pos) \notin {"s", "n", "nul"} /\ token' = KindOf(At(pos))
  BY DEF Begin
<1>3. CASE At(pos) \in {"d", "q"}
  <2>1. token' = "string"
    BY <1>2, <1>3 DEF KindOf
  <2>2. pos' = pos + 1 /\ start' = pos + 1 /\ source' = source
    BY <2>1 DEF Begin
  <2>3. (start - 1)' = pos
    BY <1>1, <2>2
  <2>4. Kind' = At(pos)
    BY <2>1, <2>2, <2>3 DEF Kind, At
  <2>5. First' = pos + 1
    BY <2>1, <2>2 DEF First
  <2>6. QED  BY <1>1, <1>3, <2>1, <2>2, <2>4, <2>5
<1>4. CASE At(pos) \in {"h", "0", "a"}
  <2>1. token' = KindOf(At(pos)) /\ token' \notin {"string", "none"}
    BY <1>2, <1>4 DEF KindOf
  <2>2. pos' = pos /\ start' = pos /\ source' = source
    BY <2>1 DEF Begin
  <2>3. Kind' = KindOf(At(pos)) /\ First' = pos + 1
    BY <2>1, <2>2 DEF Kind, First
  <2>4. QED  BY <1>1, <1>2, <1>4, <2>1, <2>2, <2>3
<1>5. QED  BY <1>1, <1>2, <1>3, <1>4 DEF Chars

LEMMA BeginScans ==
  ASSUME TypeOK, Scans, Begin PROVE Scans'
<1> DEFINE o == Owners(source)
<1>1. /\ pos \in 1..Len(source) /\ Len(source) \in Nat
      /\ First' = pos + 1 /\ pos' \in {pos, pos + 1}
      /\ o[pos + 1] = Kind' /\ o[pos] # Kind'
      /\ token' = "string" => Kind' \in {"d", "q"} /\ pos' = pos + 1 /\ source[pos] # "n"
      /\ token' # "string" => /\ KindOf(At(pos)) = token' /\ start' = pos /\ pos' = pos
                              /\ At(pos) \notin {"s", "n", "nul"}
      /\ token' # "none"
  BY BeginFacts
<1>2. UNCHANGED <<source, lineNo, mode>> /\ mode = "parse"
  BY DEF Begin, Between
<1>3. o' = o
  BY <1>2
<1>4. lineNo' = 1 + Cardinality(Breaks(source, o, pos'))
  <2>1. CASE token' = "string"
    <3>1. Breaks(source, o, pos + 1) = Breaks(source, o, pos)
      BY <1>1, <2>1, NoBreak
    <3>2. QED  BY <1>1, <1>2, <2>1, <3>1 DEF Scans
  <2>2. CASE token' # "string"
    BY <1>1, <1>2, <2>2 DEF Scans
  <2>3. QED  BY <2>1, <2>2
<1>5. \A i \in First'..pos' : o[i] = Kind'
  BY <1>1
<1>6. First' <= Len(source) + 1 /\ o[First'] = Kind' /\ o[First' - 1] # Kind'
  BY <1>1
<1>7. token' # "string" => At(start)' = At(pos)
  BY <1>1, <1>2 DEF At
<1>8. IF token' = "string" THEN Kind' \in {"d", "q"}
      ELSE KindOf(At(start)') = token' /\ At(start)' \notin {"s", "n", "nul"}
  BY <1>1, <1>7
<1>9. QED
  BY <1>1, <1>2, <1>3, <1>4, <1>5, <1>6, <1>8, Zenon DEF Scans, Between, KindOf

\* What the tokenizer knows within a token.
LEMMA TokenScan ==
  ASSUME TypeOK, Scans, token # "none"
  PROVE  LET o == Owners(source)
         IN /\ Len(source) \in Nat /\ Len(o) = Len(source) + 1
            /\ pos \in 1..Len(o) /\ start \in Nat \ {0} /\ start <= pos
            /\ token \in Kinds /\ (token = "string" => Kind \in {"d", "q"})
            /\ First \in 2..pos + 1 /\ First <= Len(o) /\ First \in {start, start + 1}
            /\ o[First] = Kind /\ o[First - 1] # Kind
            /\ \A i \in First..pos : o[i] = Kind
            /\ mode = "parse"
            /\ Kind \in Owned \ {"gap"}
            /\ \A c \in Chars : Ends(c) <=> Belongs(Kind, c) # Kind
<1> DEFINE o == Owners(source)
<1>1. Len(source) \in Nat /\ Len(o) = Len(source) + 1 /\ pos \in 1..Len(o)
  BY OwnerFacts
<1>2. /\ start \in Nat \ {0} /\ start <= pos /\ token \in Kinds
      /\ token = "string" => start > 1
  BY DEF TypeOK
<1>3. First \in 2..pos + 1 /\ First \in {start, start + 1}
  BY <1>1, <1>2 DEF First
<1>4. /\ First <= Len(source) + 1
      /\ o[First] = Kind /\ o[First - 1] # Kind
      /\ \A i \in First..pos : o[i] = Kind
      /\ mode = "parse" /\ (token = "string" => Kind \in {"d", "q"})
  BY DEF Scans
<1>5. ASSUME NEW c \in Chars
      PROVE  Ends(c) <=> Belongs(Kind, c) # Kind
  BY <1>2, <1>4, EndsOwner
<1>6. Kind \in Owned \ {"gap"}
  BY <1>2, <1>4 DEF Kind, Owned, Kinds
<1>7. QED  BY <1>1, <1>2, <1>3, <1>4, <1>5, <1>6

\* A token that has not begun cannot end.
LEMMA TokenBegins ==
  ASSUME TypeOK, Scans, token \notin {"none", "string"}, pos = start
  PROVE  ~Ends(At(pos)) /\ ~Full /\ Owners(source)[pos + 1] = Kind
<1>1. KindOf(At(start)) = token /\ At(start) \notin {"s", "n", "nul"}
  BY DEF Scans
<1>2. token \in Kinds /\ pos \in Nat
  BY DEF TypeOK
<1>3. ~Ends(At(pos))
  <2>1. CASE token = "comment"
    <3>1. ~(At(pos) \in {"n", "nul"})
      BY <1>1
    <3>2. QED  BY <2>1, <3>1 DEF Ends
  <2>2. CASE token = "number"
    <3>1. At(pos) = "0"
      BY <1>1, <2>2 DEF KindOf
    <3>2. QED  BY <2>2, <3>1 DEF Ends
  <2>3. CASE token = "word"
    <3>1. At(pos) # "h"
      BY <1>1, <2>3 DEF KindOf
    <3>2. QED  BY <1>1, <2>3, <3>1 DEF Ends
  <2>4. QED  BY <1>2, <2>1, <2>2, <2>3 DEF Kinds
<1>4. ~Full
  BY <1>2 DEF Full
<1>5. First = pos + 1 /\ Owners(source)[First] = Kind
  BY DEF Scans, First
<1>6. QED  BY <1>3, <1>4, <1>5

\* The next character of a token has the owner that it had before.
LEMMA CopyFacts ==
  ASSUME TypeOK, Scans, token # "none", ~Ends(At(pos))
  PROVE  /\ pos \in 1..Len(source) /\ Len(source) \in Nat
         /\ First <= pos + 1 /\ Owners(source)[pos + 1] = Kind
<1> DEFINE o == Owners(source)
<1>1. /\ First \in 2..pos + 1 /\ token \in Kinds
      /\ \A i \in First..pos : o[i] = Kind
      /\ \A c \in Chars : Ends(c) <=> Belongs(Kind, c) # Kind
      /\ start \in Nat /\ pos \in Nat /\ start <= pos /\ First \in {start, start + 1}
  BY TokenScan
<1>2. At(pos) # "nul"
  BY <1>1 DEF Ends, Kinds
<1>3. /\ pos \in 1..Len(source) /\ Len(source) \in Nat /\ At(pos) \in Chars
      /\ o[pos + 1] = Belongs(o[pos], At(pos))
  BY <1>2, AtOwner
<1>4. CASE First <= pos
  <2>1. o[pos] = Kind
    BY <1>1, <1>4
  <2>2. Belongs(Kind, At(pos)) = Kind
    BY <1>1, <1>3
  <2>3. QED  BY <1>1, <1>3, <2>1, <2>2
<1>5. CASE First > pos
  <2>1. token # "string" /\ pos = start
    BY <1>1, <1>5 DEF First
  <2>2. QED  BY <1>1, <1>3, <2>1, TokenBegins
<1>6. QED  BY <1>1, <1>4, <1>5

LEMMA CopyScans ==
  ASSUME TypeOK, Scans, Copy PROVE Scans'
<1> DEFINE o == Owners(source)
<1>1. /\ pos \in 1..Len(source) /\ Len(source) \in Nat /\ First \in 2..pos + 1
      /\ o[pos + 1] = Kind /\ \A i \in First..pos : o[i] = Kind
      /\ Kind # "gap"
  BY CopyFacts, TokenScan DEF Copy
<1>2. Breaks(source, o, pos + 1) = Breaks(source, o, pos)
  BY <1>1, NoBreak
<1>3. UNCHANGED <<source, lineNo, token, start, mode>> /\ pos' = pos + 1
      /\ token # "none" /\ mode = "parse"
  BY DEF Copy
<1>4. First' = First /\ Kind' = Kind /\ At(start)' = At(start) /\ o' = o
  BY <1>3 DEF First, Kind, At
<1>5. \A i \in First..pos' : o[i] = Kind
  BY <1>1, <1>3
<1>6. lineNo' = 1 + Cardinality(Breaks(source, o, pos'))
  BY <1>2, <1>3 DEF Scans
<1>7. QED
  BY <1>3, <1>4, <1>5, <1>6 DEF Scans, Between

\* A token that fits its buffer ends only where the reference ends it.
LEMMA EndsThere ==
  ASSUME TypeOK, Scans, Short(source), End PROVE Ends(At(pos))
<1> SUFFICES ASSUME ~Ends(At(pos)) PROVE FALSE
  OBVIOUS
<1> DEFINE o == Owners(source)
           S == {e \in First..Len(o) : \A i \in First..e : o[i] = Kind}
<1>1. /\ pos \in 1..Len(source) /\ Len(source) \in Nat /\ First <= pos + 1
      /\ o[pos + 1] = Kind
  BY CopyFacts DEF End
<1>2. /\ Len(o) = Len(source) + 1 /\ First \in 2..pos + 1
      /\ o[First] = Kind /\ o[First - 1] # Kind
      /\ \A i \in First..pos : o[i] = Kind
      /\ Kind # "gap" /\ start \in Nat
      /\ First = IF Kind \in {"d", "q"} THEN start ELSE start + 1
  <2>1. token # "string" => Kind \notin {"d", "q"}
    BY TokenScan DEF Kind, Kinds, End
  <2>2. token = "string" => Kind \in {"d", "q"}
    BY TokenScan DEF End
  <2>3. QED  BY <2>1, <2>2, TokenScan DEF First, End
<1>3. \A i \in First..pos + 1 : o[i] = Kind
  BY <1>1, <1>2
<1>4. PICK e \in S : \A y \in S : y <= e
  <2>1. S \subseteq 0..Len(o) /\ pos + 1 \in S
    BY <1>1, <1>2, <1>3
  <2>2. Len(o) \in Nat
    BY <1>1, <1>2
  <2> HIDE DEF S, o
  <2>3. QED  BY <2>1, <2>2, LargestExists
<1>5. e >= pos + 1 /\ e \in First..Len(o) /\ \A i \in First..e : o[i] = Kind
  <2>1. pos + 1 \in S
    BY <1>1, <1>2, <1>3
  <2>2. QED  BY <1>4, <2>1
<1>6. e < Len(o) => o[e + 1] # Kind
  <2> SUFFICES ASSUME e < Len(o), o[e + 1] = Kind PROVE FALSE
    OBVIOUS
  <2>1. e + 1 \in First..Len(o)
    BY <1>2, <1>5
  <2>2. \A i \in First..e + 1 : o[i] = Kind
    BY <1>2, <1>5
  <2>3. e + 1 \in S
    BY <2>1, <2>2
  <2>4. e + 1 <= e /\ e \in Nat
    BY <1>2, <1>4, <1>5, <2>3
  <2>5. QED  BY <2>4
<1> DEFINE t == <<First, e>>
<1> HIDE DEF S
<1>7. t \in Tokens(o)
  <2>1. t \in (2..Len(o)) \X (2..Len(o)) /\ t[1] = First /\ t[2] = e
    BY <1>1, <1>2, <1>5
  <2> HIDE DEF t, o
  <2>2. QED  BY <1>2, <1>5, <1>6, <2>1 DEF Tokens
<1>8. Kept(o, t) = <<start, e - 1>>
  <2>1. Kept(o, t) = IF o[First] \in {"d", "q"} THEN <<First, e - 1>> ELSE <<First - 1, e - 1>>
    BY DEF Kept
  <2>2. QED  BY <1>2, <2>1
<1>9. (e - 1) - start < MaxToken
  BY <1>7, <1>8 DEF Short
<1>10. Full /\ pos \in Nat /\ start <= pos
  BY TokenScan DEF End
<1>11. QED  BY <1>1, <1>2, <1>5, <1>9, <1>10 DEF Full

\* The token that ends is the one of the reference, and no other is read
\* with it.
LEMMA EndToken ==
  ASSUME TypeOK, Scans, Short(source), End
  PROVE  LET o == Owners(source)
             t == <<First, pos>>
         IN /\ t \in Tokens(o) /\ t[1] = First /\ o[First] = Kind
            /\ Kept(o, t) = Place
            /\ LineOf(source, o, t) = lineNo
            /\ ~Seen(t)
            /\ \A u \in Tokens(o) : Seen(u)' <=> Seen(u) \/ u = t
<1> DEFINE o == Owners(source)
           t == <<First, pos>>
<1>1. /\ Len(source) \in Nat /\ Len(o) = Len(source) + 1
      /\ pos \in 1..Len(o) /\ start \in Nat \ {0} /\ start <= pos
      /\ First \in 2..pos + 1 /\ First \in {start, start + 1}
      /\ o[First] = Kind /\ o[First - 1] # Kind
      /\ \A i \in First..pos : o[i] = Kind
      /\ Kind \in Owned \ {"gap"} /\ token \in Kinds
      /\ token = "string" => Kind \in {"d", "q"}
      /\ \A c \in Chars : Ends(c) <=> Belongs(Kind, c) # Kind
  BY TokenScan DEF End
<1>2. Ends(At(pos))
  BY EndsThere
<1>3. First \in 2..pos
  <2>1. CASE token = "string"
    BY <1>1, <2>1 DEF First
  <2>2. CASE token # "string"
    <3>1. pos # start
      BY <1>1, <1>2, <2>2, TokenBegins DEF End
    <3>2. QED  BY <1>1, <2>2, <3>1 DEF First
  <2>3. QED  BY <2>1, <2>2
<1>4. pos < Len(o) => o[pos + 1] # Kind
  <2> SUFFICES ASSUME pos < Len(o) PROVE o[pos + 1] # Kind
    OBVIOUS
  <2>1. pos \in 1..Len(source)
    BY <1>1
  <2>2. At(pos) \in Chars /\ o[pos + 1] = Belongs(o[pos], At(pos))
    BY <2>1, OwnerFacts
  <2>3. o[pos] = Kind
    BY <1>1, <1>3
  <2>4. QED  BY <1>1, <1>2, <2>2, <2>3
<1>5. t \in Tokens(o)
  <2>1. t \in (2..Len(o)) \X (2..Len(o)) /\ t[1] = First /\ t[2] = pos
    BY <1>1, <1>3
  <2> HIDE DEF t, o
  <2>2. QED  BY <1>1, <1>3, <1>4, <2>1 DEF Tokens
<1>6. Kept(o, t) = Place
  <2>1. Kept(o, t) = IF o[First] \in {"d", "q"} THEN <<First, pos - 1>> ELSE <<First - 1, pos - 1>>
    BY DEF Kept
  <2>2. token # "string" => Kind \notin {"d", "q"}
    BY <1>1 DEF Kind, Kinds
  <2>3. First = IF token = "string" THEN start ELSE start + 1
    BY DEF First
  <2>4. QED  BY <1>1, <2>1, <2>2, <2>3 DEF Place
<1>7. LineOf(source, o, t) = lineNo
  <2>1. Breaks(source, o, pos) = Breaks(source, o, First - 1)
    <3>1. ASSUME NEW k \in 1..pos - 1, o[k + 1] = "gap"
          PROVE  k \in 1..(First - 1) - 1
      <4>1. k + 1 \notin First..pos
        BY <1>1, <3>1
      <4>2. QED  BY <1>1, <1>3, <4>1
    <3>2. \A k \in 1..(First - 1) - 1 : k \in 1..pos - 1
      BY <1>1, <1>3
    <3> HIDE DEF o
    <3>3. QED  BY <3>1, <3>2 DEF Breaks
  <2>2. QED  BY <2>1 DEF Scans, LineOf
<1>8. token # "none" /\ token' = "none" /\ pos' = IF Closed THEN pos + 1 ELSE pos
  BY DEF End
<1>9. ~Seen(t)
  BY <1>1, <1>8 DEF Seen
<1>10. ASSUME NEW u \in Tokens(o)
       PROVE  Seen(u)' <=> Seen(u) \/ u = t
  <2>1. u[1] \in 2..Len(o) /\ o[u[1]] # "gap" /\ o[u[1] - 1] # o[u[1]]
    BY <1>1, TokenFacts
  <2>2. (Seen(u) <=> u[1] < First) /\ (Seen(u)' <=> u[1] < pos' + 1)
    BY <1>8 DEF Seen
  <2>3. u[1] = First => u = t
    BY <1>1, <1>5, SameFirst
  <2>4. ~(u[1] \in First + 1..pos)
    <3> SUFFICES ASSUME u[1] \in First + 1..pos PROVE FALSE
      OBVIOUS
    <3>1. u[1] \in First..pos /\ u[1] - 1 \in First..pos
      BY <1>1, <1>3
    <3>2. QED  BY <1>1, <2>1, <3>1
  <2>5. Closed => u[1] # pos + 1
    <3> SUFFICES ASSUME Closed PROVE o[pos + 1] = "gap"
      BY <2>1
    <3>1. At(pos) = Kind /\ Kind \in {"d", "q"} /\ Kind \in Chars
      BY <1>1 DEF Closed, Kind, Chars
    <3>2. pos \in 1..Len(source) /\ o[pos + 1] = Belongs(o[pos], At(pos))
      <4>1. At(pos) # "nul"
        BY <3>1
      <4>2. QED  BY <4>1, AtOwner
    <3>3. o[pos] = Kind
      BY <1>1, <1>3
    <3>4. QED  BY <1>1, <3>1, <3>2, <3>3, StaysOwner
  <2>6. QED  BY <1>1, <1>3, <1>8, <2>1, <2>2, <2>3, <2>4, <2>5
<1>11. QED  BY <1>1, <1>5, <1>6, <1>7, <1>9, <1>10

LEMMA EndScans ==
  ASSUME TypeOK, Scans, Short(source), End PROVE Scans'
<1> DEFINE o == Owners(source)
<1>1. /\ Len(source) \in Nat /\ pos \in 1..Len(source) + 1
      /\ First <= pos /\ \A i \in First..pos : o[i] = Kind
      /\ First \in 2..pos + 1 /\ token \in Kinds
      /\ token = "string" => Kind \in {"d", "q"}
  <2>1. First <= pos
    <3>1. <<First, pos>> \in Tokens(o) /\ <<First, pos>>[1] = First /\ <<First, pos>>[2] = pos
      BY EndToken
    <3>2. QED  BY <3>1 DEF Tokens
  <2>2. QED  BY <2>1, TokenScan, OwnerFacts DEF End
<1>2. o[pos] = Kind /\ Ends(At(pos))
  BY <1>1, EndsThere
<1>3. UNCHANGED <<source, lineNo, start, mode>> /\ token' = "none" /\ mode = "parse"
  BY DEF End
<1>4. o' = o
  BY <1>3
<1>5. CASE Closed
  <2>1. At(pos) = Kind /\ Kind \in {"d", "q"} /\ Kind \in Chars /\ pos' = pos + 1
    BY <1>1, <1>5 DEF Closed, Kind, Chars, End
  <2>2. /\ pos \in 1..Len(source) /\ source[pos] = At(pos)
        /\ o[pos + 1] = Belongs(o[pos], At(pos))
    <3>1. At(pos) # "nul"
      BY <2>1
    <3>2. QED  BY <3>1, AtOwner
  <2>3. o[pos + 1] = "gap"
    BY <1>2, <2>1, <2>2, StaysOwner DEF Owned
  <2>4. Breaks(source, o, pos + 1) = Breaks(source, o, pos)
    BY <2>1, <2>2, NoBreak
  <2>5. QED  BY <1>3, <1>4, <2>1, <2>3, <2>4 DEF Scans, Between
<1>6. CASE ~Closed
  <2>1. pos' = pos /\ At(pos)' = At(pos)
    BY <1>3, <1>6 DEF End, At
  <2>2. \/ Kind = "word" /\ At(pos) \in {"s", "n", "h", "nul"}
        \/ Kind = "number" /\ At(pos) # "0"
        \/ Kind = "comment" /\ At(pos) \in {"n", "nul"}
        \/ Kind \in {"d", "q"} /\ At(pos) = "nul"
    <3>1. CASE token = "string"
      BY <1>1, <1>2, <1>6, <3>1 DEF Ends, Closed
    <3>2. CASE token = "comment"
      BY <1>2, <3>2 DEF Ends, Kind
    <3>3. CASE token = "number"
      BY <1>2, <3>3 DEF Ends, Kind
    <3>4. CASE token = "word"
      BY <1>2, <3>4 DEF Ends, Kind
    <3>5. QED  BY <1>1, <3>1, <3>2, <3>3, <3>4 DEF Kinds
  <2>3. QED  BY <1>2, <1>3, <1>4, <2>1, <2>2 DEF Scans, Between
<1>7. QED  BY <1>5, <1>6

-----------------------------------------------------------------------------
(* The statements that have been read                                      *)

\* The words and the statements are sets of tokens.
LEMMA AreTokens ==
  ASSUME NEW o, NEW text
  PROVE  /\ Words(o) \subseteq Tokens(o)
         /\ \A l : StatementOf(text, o, l) \subseteq Tokens(o)
BY DEF Words, StatementOf

\* A step that reads no token keeps the statements as they are.
LEMMA SameLines ==
  ASSUME ReadLines, UNCHANGED <<source, nodes, lineNo, inside, mode>>,
         \A t \in Tokens(Owners(source)) : Seen(t)' <=> Seen(t)
  PROVE  ReadLines'
<1> DEFINE o == Owners(source)
<1>1. o' = o
  OBVIOUS
<1>2. {t \in Words(o) : Seen(t)'} = {t \in Words(o) : Seen(t)}
  BY AreTokens
<1>3. \A l : {t \in StatementOf(source, o, l) : Seen(t)'}
               = {t \in StatementOf(source, o, l) : Seen(t)}
  BY AreTokens
<1>4. SeenOf(Words(o))' = SeenOf(Words(o))
  BY <1>1, <1>2 DEF SeenOf
<1>5. \A i \in 1..Len(nodes) :
        {t \in StatementOf(source, o, nodes[i].line) : Seen(t)'}
          = SeenOf(StatementOf(source, o, nodes[i].line))
  BY <1>3 DEF SeenOf
<1>6. \A i \in 1..Len(nodes') :
        Takes(nodes[i].args, o, {t \in StatementOf(source, o, nodes[i].line) : Seen(t)'})
  BY <1>5 DEF ReadLines
<1>7. /\ {nodes[i].line : i \in 1..Len(nodes)}
           = {LineOf(source, o, w) : w \in SeenOf(Words(o))}
      /\ \A i, k \in 1..Len(nodes) : i < k => nodes[i].line < nodes[k].line
      /\ \A i \in 1..Len(nodes) : nodes[i].line <= lineNo
      /\ mode = "parse" =>
           /\ inside <=> \E w \in SeenOf(Words(o)) : LineOf(source, o, w) = lineNo
           /\ inside => nodes[Len(nodes)].line = lineNo
  BY DEF ReadLines
<1>8. QED  BY <1>1, <1>4, <1>6, <1>7 DEF ReadLines, SeenOf

LEMMA BlankReads ==
  ASSUME TypeOK, Scans, ReadLines, SkipBlank PROVE ReadLines'
<1> DEFINE o == Owners(source)
<1>1. /\ pos \in 1..Len(source) /\ Len(source) \in Nat /\ o[pos + 1] = "gap"
      /\ token = "none" /\ token' = "none" /\ pos' = pos + 1
  BY BetweenFacts DEF SkipBlank, Between
<1>2. Len(o) \in Nat
  BY OwnerFacts
<1>3. ASSUME NEW t \in Tokens(o) PROVE Seen(t)' <=> Seen(t)
  <2>1. t[1] \in Nat /\ o[t[1]] # "gap"
    BY <1>2, TokenFacts
  <2>2. t[1] # pos + 1
    BY <1>1, <2>1
  <2>3. QED  BY <1>1, <2>1, <2>2 DEF Seen
<1>4. QED  BY <1>3, SameLines DEF SkipBlank

LEMMA BeginReads ==
  ASSUME TypeOK, Scans, ReadLines, Begin PROVE ReadLines'
<1>1. First' = pos + 1 /\ token' # "none" /\ token = "none"
  BY BeginFacts DEF Begin, Between
<1>2. \A t \in Tokens(Owners(source)) : Seen(t)' <=> Seen(t)
  BY <1>1 DEF Seen
<1>3. QED  BY <1>2, SameLines DEF Begin

LEMMA CopyReads ==
  ASSUME ReadLines, Copy PROVE ReadLines'
<1>1. First' = First /\ token' # "none" /\ token # "none"
  BY DEF Copy, First
<1>2. \A t \in Tokens(Owners(source)) : Seen(t)' <=> Seen(t)
  BY <1>1 DEF Seen
<1>3. QED  BY <1>2, SameLines DEF Copy

\* The lines of the words that have been read are lines of statements.
LEMMA SeenWords ==
  ASSUME TypeOK, ReadLines, NEW w \in SeenOf(Words(Owners(source)))
  PROVE  \E i \in 1..Len(nodes) : nodes[i].line = LineOf(source, Owners(source), w)
BY DEF ReadLines

\* The line that begins has no word as yet.
LEMMA NewlineReads ==
  ASSUME TypeOK, Scans, ReadLines, Newline PROVE ReadLines'
<1> DEFINE o == Owners(source)
<1>1. /\ pos \in 1..Len(source) /\ Len(source) \in Nat /\ o[pos + 1] = "gap"
      /\ token = "none" /\ token' = "none" /\ pos' = pos + 1
  BY BetweenFacts DEF Newline, Between
<1>2. Len(o) \in Nat
  BY OwnerFacts
<1>3. ASSUME NEW t \in Tokens(o) PROVE Seen(t)' <=> Seen(t)
  <2>1. t[1] \in Nat /\ o[t[1]] # "gap"
    BY <1>2, TokenFacts
  <2>2. t[1] # pos + 1
    BY <1>1, <2>1
  <2>3. QED  BY <1>1, <2>1, <2>2 DEF Seen
<1>4. UNCHANGED <<source, nodes, mode>> /\ inside' = FALSE /\ lineNo' = lineNo + 1
      /\ lineNo \in Nat /\ o' = o
  BY DEF Newline, TypeOK
<1>5. {t \in Words(o) : Seen(t)'} = {t \in Words(o) : Seen(t)}
  BY <1>3, AreTokens
<1>6. SeenOf(Words(o))' = SeenOf(Words(o))
  BY <1>4, <1>5 DEF SeenOf
<1>7. \A i \in 1..Len(nodes) : nodes[i].line \in Nat /\ nodes[i].line <= lineNo
  <2>1. nodes \in Seq(Node)
    BY DEF TypeOK
  <2>2. \A i \in 1..Len(nodes) : nodes[i] \in Node
    BY <2>1
  <2>3. QED  BY <2>2 DEF Node, ReadLines
<1>8. \A w \in SeenOf(Words(o)) : LineOf(source, o, w) # lineNo + 1
  BY <1>4, <1>7, SeenWords
<1>9. \A i \in 1..Len(nodes) :
        {t \in StatementOf(source, o, nodes[i].line) : Seen(t)'}
          = SeenOf(StatementOf(source, o, nodes[i].line))
  BY <1>3, AreTokens DEF SeenOf
<1>10. \A i \in 1..Len(nodes) :
         Takes(nodes[i].args, o, {t \in StatementOf(source, o, nodes[i].line) : Seen(t)'})
  BY <1>9 DEF ReadLines
<1>11. /\ {nodes[i].line : i \in 1..Len(nodes)}
            = {LineOf(source, o, w) : w \in SeenOf(Words(o))}
       /\ \A i, k \in 1..Len(nodes) : i < k => nodes[i].line < nodes[k].line
  BY DEF ReadLines
<1>12. \A i \in 1..Len(nodes) : nodes[i].line <= lineNo'
  BY <1>4, <1>7
<1>13. QED
  BY <1>4, <1>6, <1>8, <1>10, <1>11, <1>12 DEF ReadLines, SeenOf

LEMMA EndOfSourceReads ==
  ASSUME ReadLines, EndOfSource PROVE ReadLines'
<1> DEFINE o == Owners(source)
<1>1. UNCHANGED <<source, nodes, lineNo, token, pos, start>> /\ mode' = "execute" /\ o' = o
  BY DEF EndOfSource
<1>2. \A t : Seen(t)' <=> Seen(t)
  BY <1>1 DEF Seen, First
<1>3. SeenOf(Words(o))' = SeenOf(Words(o))
  BY <1>1, <1>2 DEF SeenOf
<1>4. \A i \in 1..Len(nodes) :
        {t \in StatementOf(source, o, nodes[i].line) : Seen(t)'}
          = SeenOf(StatementOf(source, o, nodes[i].line))
  BY <1>2 DEF SeenOf
<1>5. \A i \in 1..Len(nodes) :
        Takes(nodes[i].args, o, {t \in StatementOf(source, o, nodes[i].line) : Seen(t)'})
  BY <1>4 DEF ReadLines
<1>6. /\ {nodes[i].line : i \in 1..Len(nodes)}
           = {LineOf(source, o, w) : w \in SeenOf(Words(o))}
      /\ \A i, k \in 1..Len(nodes) : i < k => nodes[i].line < nodes[k].line
      /\ \A i \in 1..Len(nodes) : nodes[i].line <= lineNo
  BY DEF ReadLines
<1>7. QED  BY <1>1, <1>3, <1>5, <1>6 DEF ReadLines, SeenOf

\* The token that ends belongs to the statement of its line, if there is one
\* or the token is a word, and to no other.
LEMMA EndBelongs ==
  ASSUME TypeOK, Scans, ReadLines, Short(source), End
  PROVE  LET o == Owners(source)
             t == <<First, pos>>
         IN /\ t \in Words(o) <=> token = "word"
            /\ \A l : t \in StatementOf(source, o, l) <=>
                 l = lineNo /\ token # "comment" /\ (inside \/ token = "word")
<1> DEFINE o == Owners(source)
           t == <<First, pos>>
<1>1. /\ t \in Tokens(o) /\ t[1] = First /\ o[t[1]] = Kind
      /\ LineOf(source, o, t) = lineNo /\ Len(o) \in Nat
  BY EndToken, TokenScan DEF End
<1>2. token # "none" /\ mode = "parse" /\ (Kind = "word" <=> token = "word")
      /\ (Kind = "comment" <=> token = "comment")
  <2>1. token # "none" /\ mode = "parse"
    BY DEF End
  <2>2. token = "string" => Kind \in {"d", "q"}
    BY <2>1, TokenScan
  <2>3. QED  BY <2>1, <2>2 DEF Kind
<1>3. First \in Nat /\ \A u \in Tokens(o) : Seen(u) <=> u[1] < First
  BY <1>2, TokenScan DEF Seen
<1>4. inside <=> \E w \in SeenOf(Words(o)) : LineOf(source, o, w) = lineNo
  BY <1>2 DEF ReadLines
<1> HIDE DEF o, t
<1>5. t \in Words(o) <=> token = "word"
  BY <1>1, <1>2 DEF Words
<1>6. (\E w \in Words(o) : LineOf(source, o, w) = lineNo /\ w[1] <= t[1])
        <=> inside \/ token = "word"
  <2>1. CASE token = "word"
    BY <1>1, <1>3, <1>5, <2>1
  <2>2. CASE token # "word"
    <3>1. ASSUME NEW w \in Words(o)
          PROVE  w \in SeenOf(Words(o)) <=> w[1] <= t[1]
      <4>1. w \in Tokens(o) /\ w[1] \in Nat
        <5>1. w \in Tokens(o)
          BY DEF Words
        <5>2. w[1] \in 2..Len(o)
          BY <1>1, <5>1, TokenFacts
        <5>3. QED  BY <1>1, <5>1, <5>2
      <4>2. w[1] # t[1]
        <5>1. w # t
          BY <1>5, <2>2
        <5>2. QED  BY <1>1, <4>1, <5>1, SameFirst
      <4>3. QED  BY <1>1, <1>3, <4>1, <4>2 DEF SeenOf
    <3>2. SeenOf(Words(o)) \subseteq Words(o)
      BY DEF SeenOf
    <3>3. QED  BY <1>4, <2>2, <3>1, <3>2
  <2>3. QED  BY <2>1, <2>2
<1>7. ASSUME NEW l
      PROVE  t \in StatementOf(source, o, l) <=>
               l = lineNo /\ token # "comment" /\ (inside \/ token = "word")
  <2>1. t \in StatementOf(source, o, l) <=>
          /\ o[t[1]] # "comment" /\ LineOf(source, o, t) = l
          /\ \E w \in Words(o) : LineOf(source, o, w) = l /\ w[1] <= t[1]
    BY <1>1 DEF StatementOf
  <2>2. QED  BY <1>1, <1>2, <1>6, <2>1
<1>8. QED  BY <1>5, <1>7 DEF o, t

\* What has been read, with the token that ends.
LEMMA EndSees ==
  ASSUME TypeOK, Scans, ReadLines, Short(source), End
  PROVE  LET o == Owners(source)
             t == <<First, pos>>
         IN /\ {w \in Words(o) : Seen(w)'} =
                 IF token = "word" THEN SeenOf(Words(o)) \cup {t} ELSE SeenOf(Words(o))
            /\ \A l : {u \in StatementOf(source, o, l) : Seen(u)'} =
                 IF l = lineNo /\ token # "comment" /\ (inside \/ token = "word")
                   THEN SeenOf(StatementOf(source, o, l)) \cup {t}
                   ELSE SeenOf(StatementOf(source, o, l))
<1> DEFINE o == Owners(source)
           t == <<First, pos>>
<1>1. \A u \in Tokens(o) : Seen(u)' <=> Seen(u) \/ u = t
  BY EndToken
<1>2. /\ t \in Words(o) <=> token = "word"
      /\ \A l : t \in StatementOf(source, o, l) <=>
           l = lineNo /\ token # "comment" /\ (inside \/ token = "word")
  BY EndBelongs
<1> HIDE DEF o, t
<1>3. ASSUME NEW S, S \subseteq Tokens(o)
      PROVE  {u \in S : Seen(u)'} = IF t \in S THEN SeenOf(S) \cup {t} ELSE SeenOf(S)
  <2>1. \A u \in S : Seen(u)' <=> Seen(u) \/ u = t
    BY <1>1, <1>3
  <2>2. QED  BY <2>1 DEF SeenOf
<1>4. {w \in Words(o) : Seen(w)'} =
        IF token = "word" THEN SeenOf(Words(o)) \cup {t} ELSE SeenOf(Words(o))
  BY <1>2, <1>3, AreTokens
<1>5. ASSUME NEW l
      PROVE  {u \in StatementOf(source, o, l) : Seen(u)'} =
               IF l = lineNo /\ token # "comment" /\ (inside \/ token = "word")
                 THEN SeenOf(StatementOf(source, o, l)) \cup {t}
                 ELSE SeenOf(StatementOf(source, o, l))
  <2>1. StatementOf(source, o, l) \subseteq Tokens(o)
    BY AreTokens
  <2>2. t \in StatementOf(source, o, l) <=>
          l = lineNo /\ token # "comment" /\ (inside \/ token = "word")
    BY <1>2
  <2>3. QED  BY <1>3, <2>1, <2>2
<1>6. QED  BY <1>4, <1>5 DEF o, t

\* An argument more for one token more, as long as there is room.
LEMMA TakesMore ==
  ASSUME NEW o, NEW args \in Seq(Nat \X Nat), Len(args) < MaxArgs,
         NEW tokens, NEW t, Takes(args, o, tokens)
  PROVE  Takes(Append(args, Kept(o, t)), o, tokens \cup {t})
<1> DEFINE more == Append(args, Kept(o, t))
           taken(a) == {a[j] : j \in 1..Len(a)}
           kept(T) == {Kept(o, u) : u \in T}
<1>1. taken(args) = kept(tokens)
  <2>1. Len(args) # MaxArgs
    BY LenProperties
  <2>2. QED  BY <2>1 DEF Takes
<1>2. Len(more) = Len(args) + 1 /\ more[Len(args) + 1] = Kept(o, t) /\ Len(args) \in Nat
      /\ \A j \in 1..Len(args) : more[j] = args[j]
  BY AppendProperties
<1>3. taken(more) = taken(args) \cup {Kept(o, t)}
  <2> HIDE DEF more
  <2>1. ASSUME NEW j \in 1..Len(more)
        PROVE  more[j] \in taken(args) \cup {Kept(o, t)}
    <3>1. j \in 1..Len(args) \/ j = Len(args) + 1
      BY <1>2
    <3>2. QED  BY <1>2, <3>1
  <2>2. ASSUME NEW j \in 1..Len(args) PROVE args[j] \in taken(more)
    <3>1. j \in 1..Len(more) /\ more[j] = args[j]
      BY <1>2
    <3>2. QED  BY <3>1
  <2>3. Kept(o, t) \in taken(more)
    <3>1. Len(args) + 1 \in 1..Len(more)
      BY <1>2
    <3>2. QED  BY <1>2, <3>1
  <2>4. QED  BY <2>1, <2>2, <2>3
<1>4. kept(tokens \cup {t}) = kept(tokens) \cup {Kept(o, t)}
  OBVIOUS
<1>5. kept(tokens \cup {t}) = taken(more)
  BY <1>1, <1>3, <1>4
<1> HIDE DEF more
<1>6. Takes(more, o, tokens \cup {t})
  BY <1>5 DEF Takes
<1>7. QED  BY <1>6 DEF more

\* No argument more when there is no room and the token stands behind all.
LEMMA TakesNoMore ==
  ASSUME NEW o, NEW args, Len(args) = MaxArgs, NEW tokens, NEW t,
         Takes(args, o, tokens),
         \A j \in 1..Len(args) : args[j][2] < Kept(o, t)[1]
  PROVE  Takes(args, o, tokens \cup {t})
<1> DEFINE taken == {args[j] : j \in 1..Len(args)}
<1>1. \A a \in taken : a[2] < Kept(o, t)[1]
  OBVIOUS
<1>2. taken \subseteq {Kept(o, u) : u \in tokens}
      /\ \A k \in {Kept(o, u) : u \in tokens} \ taken : \A a \in taken : a[2] < k[1]
  BY DEF Takes
<1> HIDE DEF taken
<1>3. /\ taken \subseteq {Kept(o, u) : u \in tokens \cup {t}}
      /\ \A k \in {Kept(o, u) : u \in tokens \cup {t}} \ taken : \A a \in taken : a[2] < k[1]
  BY <1>1, <1>2
<1>4. QED  BY <1>3 DEF Takes, taken

LEMMA TakesOne ==
  ASSUME NEW o, NEW t PROVE Takes(<<Kept(o, t)>>, o, {t})
<1>1. {<<Kept(o, t)>>[j] : j \in 1..Len(<<Kept(o, t)>>)} = {Kept(o, t)}
  OBVIOUS
<1>2. {Kept(o, u) : u \in {t}} = {Kept(o, t)}
  OBVIOUS
<1>3. QED  BY <1>1, <1>2 DEF Takes

LEMMA NodeFacts ==
  ASSUME TypeOK
  PROVE  /\ nodes \in Seq(Node) /\ Len(nodes) \in Nat
         /\ \A i \in 1..Len(nodes) :
              /\ nodes[i].line \in Nat /\ nodes[i].args \in Seq(Nat \X Nat)
              /\ Len(nodes[i].args) \in 1..MaxArgs
<1>1. /\ nodes \in Seq(Node) /\ Len(nodes) \in Nat
      /\ \A i \in 1..Len(nodes) : Len(nodes[i].args) \in 1..MaxArgs
  BY DEF TypeOK
<1>2. \A i \in 1..Len(nodes) : nodes[i] \in Node
  BY <1>1
<1>3. QED  BY <1>1, <1>2 DEF Node

\* What an argument more changes in the statements.
LEMMA CollectedFacts ==
  ASSUME TypeOK, inside
  PROVE  /\ Len(nodes) \in 1..Len(Collected) /\ Len(Collected) = Len(nodes)
         /\ \A i \in 1..Len(nodes) :
              /\ Collected[i].line = nodes[i].line
              /\ i # Len(nodes) => Collected[i].args = nodes[i].args
         /\ Collected[Len(nodes)].args =
              IF Len(nodes[Len(nodes)].args) < MaxArgs
                THEN Append(nodes[Len(nodes)].args, Place) ELSE nodes[Len(nodes)].args
<1> DEFINE k == Len(nodes)
           longer == [line |-> nodes[k].line, args |-> Append(nodes[k].args, Place)]
<1>1. nodes \in Seq(Node) /\ k \in 1..Len(nodes)
  BY DEF TypeOK
<1>2. longer.line = nodes[k].line /\ longer.args = Append(nodes[k].args, Place)
  OBVIOUS
<1>3. Collected = IF Len(nodes[k].args) < MaxArgs
                    THEN [nodes EXCEPT ![k] = longer] ELSE nodes
  BY DEF Collected
<1>4. CASE Len(nodes[k].args) < MaxArgs
  <2> HIDE DEF longer
  <2>1. Collected = [nodes EXCEPT ![k] = longer]
    BY <1>3, <1>4
  <2>2. /\ Len(Collected) = Len(nodes) /\ Collected[k] = longer
        /\ \A i \in 1..Len(nodes) : i # k => Collected[i] = nodes[i]
    BY <1>1, <2>1
  <2>3. \A i \in 1..Len(nodes) : Collected[i].line = nodes[i].line
    BY <1>2, <2>2
  <2>4. QED  BY <1>1, <1>2, <1>4, <2>2, <2>3
<1>5. CASE ~(Len(nodes[k].args) < MaxArgs)
  BY <1>1, <1>3, <1>5
<1>6. QED  BY <1>4, <1>5

\* A comment is dropped, and so is what stands before the first word of a
\* line.
LEMMA DropReads ==
  ASSUME TypeOK, Scans, ReadLines, Short(source), End,
         ~(token # "comment" /\ (inside \/ token = "word"))
  PROVE  ReadLines'
<1> DEFINE o == Owners(source)
<1>1. UNCHANGED <<source, nodes, lineNo, mode>> /\ inside' = inside /\ o' = o
  BY DEF End, TypeOK
<1>2. {w \in Words(o) : Seen(w)'} = SeenOf(Words(o))
  BY EndSees
<1>3. \A i \in 1..Len(nodes) :
        {t \in StatementOf(source, o, nodes[i].line) : Seen(t)'}
          = SeenOf(StatementOf(source, o, nodes[i].line))
  BY EndSees
<1>4. \A i \in 1..Len(nodes) :
        Takes(nodes[i].args, o, {t \in StatementOf(source, o, nodes[i].line) : Seen(t)'})
  BY <1>3 DEF ReadLines
<1>5. /\ {nodes[i].line : i \in 1..Len(nodes)}
           = {LineOf(source, o, w) : w \in SeenOf(Words(o))}
      /\ \A i, k \in 1..Len(nodes) : i < k => nodes[i].line < nodes[k].line
      /\ \A i \in 1..Len(nodes) : nodes[i].line <= lineNo
      /\ mode = "parse" =>
           /\ inside <=> \E w \in SeenOf(Words(o)) : LineOf(source, o, w) = lineNo
           /\ inside => nodes[Len(nodes)].line = lineNo
  BY DEF ReadLines
<1>6. SeenOf(Words(o))' = SeenOf(Words(o))
  BY <1>1, <1>2 DEF SeenOf
<1>7. QED  BY <1>1, <1>4, <1>5, <1>6 DEF ReadLines, SeenOf

\* A token more belongs to the last statement.
LEMMA CollectReads ==
  ASSUME OrderInv, Scans, ReadLines, Short(source), End,
         token # "comment", inside
  PROVE  ReadLines'
<1> DEFINE o == Owners(source)
           t == <<First, pos>>
           k == Len(nodes)
<1>1. /\ UNCHANGED <<source, lineNo, mode>> /\ inside' = TRUE /\ o' = o
      /\ mode = "parse" /\ token # "none" /\ nodes' = Collected
  <2>1. nodes' = Collected
    BY DEF End
  <2>2. QED  BY <2>1 DEF End
<1>2. TypeOK
  BY DEF OrderInv
<1>3. /\ k \in 1..k /\ Len(nodes') = k
      /\ \A i \in 1..k : /\ nodes'[i].line = nodes[i].line
                         /\ i # k => nodes'[i].args = nodes[i].args
      /\ nodes'[k].args = IF Len(nodes[k].args) < MaxArgs
                            THEN Append(nodes[k].args, Place) ELSE nodes[k].args
  BY <1>1, <1>2, CollectedFacts
<1>4. /\ {w \in Words(o) : Seen(w)'} =
           IF token = "word" THEN SeenOf(Words(o)) \cup {t} ELSE SeenOf(Words(o))
      /\ \A l : {u \in StatementOf(source, o, l) : Seen(u)'} =
           IF l = lineNo THEN SeenOf(StatementOf(source, o, l)) \cup {t}
           ELSE SeenOf(StatementOf(source, o, l))
  BY <1>2, EndSees
<1>5. LineOf(source, o, t) = lineNo /\ Kept(o, t) = Place
  BY <1>2, EndToken
<1>6. /\ {nodes[i].line : i \in 1..k} = {LineOf(source, o, w) : w \in SeenOf(Words(o))}
      /\ \A i, m \in 1..k : i < m => nodes[i].line < nodes[m].line
      /\ \A i \in 1..k : nodes[i].line <= lineNo
      /\ nodes[k].line = lineNo
      /\ \E w \in SeenOf(Words(o)) : LineOf(source, o, w) = lineNo
      /\ \A i \in 1..k : Takes(nodes[i].args, o, SeenOf(StatementOf(source, o, nodes[i].line)))
  BY <1>1 DEF ReadLines
<1>7. /\ k \in Nat
      /\ \A i \in 1..k : nodes[i].line \in Nat /\ nodes[i].args \in Seq(Nat \X Nat)
                         /\ Len(nodes[i].args) \in 1..MaxArgs
  BY <1>2, NodeFacts
<1>8. \A j \in 1..Len(nodes[k].args) : nodes[k].args[j][2] < Place[1]
  BY <1>1, <1>3 DEF OrderInv, Passed, Place
<1> HIDE DEF o, t, k
<1>9. ASSUME NEW i \in 1..k
      PROVE  Takes(nodes'[i].args, o,
                   {u \in StatementOf(source, o, nodes[i].line) : Seen(u)'})
  <2>1. CASE i # k
    <3>1. nodes[i].line # lineNo
      <4>1. k \in 1..k /\ i < k
        BY <1>3, <1>7, <2>1
      <4>2. nodes[i].line < nodes[k].line /\ nodes[k].line = lineNo
        BY <1>6, <4>1
      <4>3. nodes[i].line \in Nat
        BY <1>7
      <4>4. QED  BY <4>2, <4>3
    <3>2. QED  BY <1>3, <1>4, <1>6, <2>1, <3>1
  <2>2. CASE i = k
    <3>1. /\ Takes(nodes[k].args, o, SeenOf(StatementOf(source, o, lineNo)))
          /\ {u \in StatementOf(source, o, nodes[i].line) : Seen(u)'}
               = SeenOf(StatementOf(source, o, lineNo)) \cup {t}
          /\ nodes[k].args \in Seq(Nat \X Nat) /\ Len(nodes[k].args) \in 1..MaxArgs
      BY <1>3, <1>4, <1>6, <1>7, <2>2
    <3>2. CASE Len(nodes[k].args) < MaxArgs
      <4>1. Takes(Append(nodes[k].args, Kept(o, t)), o,
                  SeenOf(StatementOf(source, o, lineNo)) \cup {t})
        BY <3>1, <3>2, TakesMore
      <4>2. QED  BY <1>3, <1>5, <2>2, <3>1, <3>2, <4>1
    <3>3. CASE ~(Len(nodes[k].args) < MaxArgs)
      <4>1. Len(nodes[k].args) = MaxArgs
        BY <3>1, <3>3
      <4>2. Takes(nodes[k].args, o, SeenOf(StatementOf(source, o, lineNo)) \cup {t})
        BY <1>5, <1>8, <3>1, <4>1, TakesNoMore
      <4>3. QED  BY <1>3, <2>2, <3>1, <3>3, <4>2
    <3>4. QED  BY <3>2, <3>3
  <2>3. QED  BY <2>1, <2>2
<1>10. {LineOf(source, o, w) : w \in {w \in Words(o) : Seen(w)'}}
         = {LineOf(source, o, w) : w \in SeenOf(Words(o))}
  BY <1>4, <1>5, <1>6
<1>11. \E w \in {w \in Words(o) : Seen(w)'} : LineOf(source, o, w) = lineNo
  BY <1>4, <1>6
<1>12. /\ {nodes'[i].line : i \in 1..k}
            = {LineOf(source, o, w) : w \in {w \in Words(o) : Seen(w)'}}
       /\ \A i, m \in 1..k : i < m => nodes'[i].line < nodes'[m].line
       /\ \A i \in 1..k : nodes'[i].line <= lineNo
       /\ nodes'[k].line = lineNo
  <2>1. {nodes'[i].line : i \in 1..k} = {nodes[i].line : i \in 1..k}
    BY <1>3
  <2>2. QED  BY <1>3, <1>6, <1>10, <2>1
<1>13. \A i \in 1..k : Takes(nodes'[i].args, o,
                             {u \in StatementOf(source, o, nodes'[i].line) : Seen(u)'})
  BY <1>3, <1>9
<1>14. Owners(source)' = o /\ (Len(nodes))' = k /\ source' = source
  BY <1>1, <1>3 DEF o
<1>15. (inside <=> \E w \in SeenOf(Words(Owners(source))) :
                     LineOf(source, Owners(source), w) = lineNo)'
  BY <1>1, <1>11, <1>14 DEF SeenOf
<1>16. ({nodes[i].line : i \in 1..Len(nodes)}
          = {LineOf(source, Owners(source), w) : w \in SeenOf(Words(Owners(source)))})'
  BY <1>12, <1>14 DEF SeenOf
<1>17. (\A i \in 1..Len(nodes) :
          Takes(nodes[i].args, Owners(source),
                SeenOf(StatementOf(source, Owners(source), nodes[i].line))))'
  BY <1>13, <1>14 DEF SeenOf
<1>18. /\ \A i, m \in 1..Len(nodes') : i < m => nodes'[i].line < nodes'[m].line
       /\ \A i \in 1..Len(nodes') : nodes'[i].line <= lineNo'
       /\ nodes'[Len(nodes')].line = lineNo'
  BY <1>1, <1>12, <1>14
<1>19. QED  BY <1>15, <1>16, <1>17, <1>18 DEF ReadLines

\* A word begins the statement of its line.
LEMMA BegunReads ==
  ASSUME TypeOK, Scans, ReadLines, Short(source), End,
         token = "word", ~inside
  PROVE  ReadLines'
<1> DEFINE o == Owners(source)
           t == <<First, pos>>
           k == Len(nodes)
           n == [line |-> lineNo, args |-> <<Place>>]
<1>1. /\ UNCHANGED <<source, lineNo, mode>> /\ inside' = TRUE /\ o' = o
      /\ mode = "parse" /\ nodes' = Append(nodes, n)
  <2>1. nodes' = Begun
    BY DEF End
  <2>2. QED  BY <2>1 DEF End, Begun
<1>2. /\ k \in Nat /\ nodes \in Seq(Node)
      /\ \A i \in 1..k : nodes[i].line \in Nat
  BY NodeFacts
<1>3. n.line = lineNo /\ n.args = <<Place>> /\ lineNo \in Nat
  BY DEF TypeOK
<1>4. /\ Len(nodes') = k + 1 /\ nodes'[k + 1] = n
      /\ \A i \in 1..k : nodes'[i] = nodes[i]
  <2> HIDE DEF n
  <2>1. QED  BY <1>1, <1>2
<1>5. /\ {w \in Words(o) : Seen(w)'} = SeenOf(Words(o)) \cup {t}
      /\ \A l : {u \in StatementOf(source, o, l) : Seen(u)'} =
           IF l = lineNo THEN SeenOf(StatementOf(source, o, l)) \cup {t}
           ELSE SeenOf(StatementOf(source, o, l))
  BY EndSees
<1>6. LineOf(source, o, t) = lineNo /\ Kept(o, t) = Place /\ Len(o) \in Nat
  BY EndToken, TokenScan DEF End
<1>7. /\ {nodes[i].line : i \in 1..k} = {LineOf(source, o, w) : w \in SeenOf(Words(o))}
      /\ \A i, m \in 1..k : i < m => nodes[i].line < nodes[m].line
      /\ \A i \in 1..k : nodes[i].line <= lineNo
      /\ \A w \in SeenOf(Words(o)) : LineOf(source, o, w) # lineNo
      /\ \A i \in 1..k : Takes(nodes[i].args, o, SeenOf(StatementOf(source, o, nodes[i].line)))
  BY <1>1 DEF ReadLines
<1>8. First \in Nat /\ \A u : Seen(u) <=> u[1] < First
  BY TokenScan DEF Seen
<1> HIDE DEF o, t, k, n
<1>9. \A i \in 1..k : nodes[i].line < lineNo
  <2> SUFFICES ASSUME NEW i \in 1..k PROVE nodes[i].line < lineNo
    OBVIOUS
  <2>1. nodes[i].line \in {nodes[m].line : m \in 1..k}
    OBVIOUS
  <2>2. PICK w \in SeenOf(Words(o)) : nodes[i].line = LineOf(source, o, w)
    BY <1>7, <2>1
  <2>3. nodes[i].line # lineNo
    BY <1>7, <2>2
  <2>4. QED  BY <1>2, <1>3, <1>7, <2>3
<1>10. SeenOf(StatementOf(source, o, lineNo)) = {}
  <2> SUFFICES ASSUME NEW u \in SeenOf(StatementOf(source, o, lineNo)) PROVE FALSE
    OBVIOUS
  <2>1. u \in StatementOf(source, o, lineNo) /\ Seen(u)
    BY DEF SeenOf
  <2>2. PICK w \in Words(o) : LineOf(source, o, w) = lineNo /\ w[1] <= u[1]
    BY <2>1 DEF StatementOf
  <2>3. u \in Tokens(o) /\ w \in Tokens(o)
    BY <2>1 DEF StatementOf, Words
  <2>4. u[1] \in 2..Len(o) /\ w[1] \in 2..Len(o)
    BY <1>6, <2>3, TokenFacts
  <2>5. Seen(w)
    BY <1>6, <1>8, <2>1, <2>2, <2>4
  <2>6. QED  BY <1>7, <2>2, <2>5 DEF SeenOf
<1>11. ASSUME NEW i \in 1..k + 1
       PROVE  Takes(nodes'[i].args, o,
                    {u \in StatementOf(source, o, nodes'[i].line) : Seen(u)'})
  <2>1. CASE i \in 1..k
    <3>1. nodes'[i] = nodes[i] /\ nodes[i].line # lineNo
      BY <1>2, <1>3, <1>4, <1>9, <2>1
    <3>2. {u \in StatementOf(source, o, nodes[i].line) : Seen(u)'}
            = SeenOf(StatementOf(source, o, nodes[i].line))
      BY <1>5, <3>1
    <3>3. QED  BY <1>7, <2>1, <3>1, <3>2
  <2>2. CASE i = k + 1
    <3>1. nodes'[i].args = <<Kept(o, t)>> /\ nodes'[i].line = lineNo
      BY <1>3, <1>4, <1>6, <2>2
    <3>2. {u \in StatementOf(source, o, lineNo) : Seen(u)'} = {t}
      BY <1>5, <1>10
    <3>3. QED  BY <3>1, <3>2, TakesOne
  <2>3. QED  BY <1>2, <2>1, <2>2
<1>12. {nodes'[i].line : i \in 1..k + 1}
         = {LineOf(source, o, w) : w \in {w \in Words(o) : Seen(w)'}}
  <2>1. {nodes'[i].line : i \in 1..k + 1} = {nodes[i].line : i \in 1..k} \cup {lineNo}
    <3>1. \A i \in 1..k + 1 : i \in 1..k \/ i = k + 1
      BY <1>2
    <3>2. k + 1 \in 1..k + 1 /\ \A i \in 1..k : i \in 1..k + 1
      BY <1>2
    <3>3. nodes'[k + 1].line = lineNo /\ \A i \in 1..k : nodes'[i].line = nodes[i].line
      BY <1>3, <1>4
    <3>4. QED  BY <3>1, <3>2, <3>3
  <2>2. {LineOf(source, o, w) : w \in {w \in Words(o) : Seen(w)'}}
          = {LineOf(source, o, w) : w \in SeenOf(Words(o))} \cup {lineNo}
    BY <1>5, <1>6
  <2>3. QED  BY <1>7, <2>1, <2>2
<1>13. ASSUME NEW i \in 1..k + 1, NEW m \in 1..k + 1, i < m
       PROVE  nodes'[i].line < nodes'[m].line
  <2>1. i \in 1..k /\ nodes'[i].line = nodes[i].line
    BY <1>2, <1>4, <1>13
  <2>2. CASE m \in 1..k
    BY <1>4, <1>7, <1>13, <2>1, <2>2
  <2>3. CASE m = k + 1
    BY <1>3, <1>4, <1>9, <2>1, <2>3
  <2>4. QED  BY <1>2, <2>2, <2>3
<1>14. ASSUME NEW i \in 1..k + 1 PROVE nodes'[i].line <= lineNo
  <2>1. i \in 1..k \/ i = k + 1
    BY <1>2
  <2>2. QED  BY <1>3, <1>4, <1>7, <2>1
<1>15. \E w \in {w \in Words(o) : Seen(w)'} : LineOf(source, o, w) = lineNo
  BY <1>5, <1>6
<1>16. Owners(source)' = o /\ (Len(nodes))' = k + 1 /\ source' = source
  BY <1>1, <1>4 DEF o
<1>17. (inside <=> \E w \in SeenOf(Words(Owners(source))) :
                     LineOf(source, Owners(source), w) = lineNo)'
  BY <1>1, <1>15, <1>16 DEF SeenOf
<1>18. ({nodes[i].line : i \in 1..Len(nodes)}
          = {LineOf(source, Owners(source), w) : w \in SeenOf(Words(Owners(source)))})'
  BY <1>12, <1>16 DEF SeenOf
<1>19. (\A i \in 1..Len(nodes) :
          Takes(nodes[i].args, Owners(source),
                SeenOf(StatementOf(source, Owners(source), nodes[i].line))))'
  BY <1>11, <1>16 DEF SeenOf
<1>20. /\ \A i, m \in 1..Len(nodes') : i < m => nodes'[i].line < nodes'[m].line
       /\ \A i \in 1..Len(nodes') : nodes'[i].line <= lineNo'
       /\ nodes'[Len(nodes')].line = lineNo'
  BY <1>1, <1>3, <1>4, <1>13, <1>14, <1>16
<1>21. QED  BY <1>17, <1>18, <1>19, <1>20 DEF ReadLines

-----------------------------------------------------------------------------
(* The invariant                                                           *)

LEMMA InitLines == Init => LinesInv
<1> SUFFICES ASSUME Init PROVE LinesInv
  OBVIOUS
<1> DEFINE o == Owners(source)
<1>1. TypeOK
  BY InitType
<1>2. OrderInv
  <2>1. Len(nodes) = 0
    BY DEF Init
  <2>2. QED  BY <1>1, <2>1 DEF OrderInv, Passed, TokensInOrder
<1>3. Len(source) \in Nat /\ Len(o) = Len(source) + 1 /\ o[1] = "gap"
  BY <1>1, OwnerFacts
<1>4. /\ pos = 1 /\ lineNo = 1 /\ token = "none" /\ inside = FALSE
      /\ mode = "parse" /\ Len(nodes) = 0
  BY DEF Init
<1>5. Scans
  <2>1. Breaks(source, o, 1) = {}
    BY DEF Breaks
  <2>2. Cardinality(Breaks(source, o, pos)) = 0
    BY <1>4, <2>1, FS_EmptySet
  <2>3. QED  BY <1>3, <1>4, <2>2 DEF Scans, Between
<1>6. ASSUME NEW t \in Tokens(o) PROVE ~Seen(t)
  <2>1. t[1] \in 2..Len(o)
    BY <1>3, TokenFacts
  <2>2. QED  BY <1>3, <1>4, <2>1 DEF Seen
<1>7. SeenOf(Words(o)) = {}
  BY <1>6, AreTokens DEF SeenOf
<1>8. ReadLines
  BY <1>4, <1>7 DEF ReadLines
<1>9. QED  BY <1>2, <1>5, <1>8 DEF LinesInv

LEMMA NextLines == LinesInv /\ [Next]_vars => LinesInv'
<1> SUFFICES ASSUME LinesInv, [Next]_vars PROVE LinesInv'
  OBVIOUS
<1>1. OrderInv /\ TypeOK /\ OrderInv'
  BY NextOrder DEF LinesInv, OrderInv
<1>2. source' = source
  BY DEF Next, vars, SkipBlank, Newline, EndOfSource, Begin, Copy, End,
         Execute, Finish
<1>3. SUFFICES ASSUME Short(source) PROVE Scans' /\ ReadLines'
  BY <1>1, <1>2 DEF LinesInv
<1>4. Scans /\ ReadLines
  BY <1>3 DEF LinesInv
<1>5. CASE SkipBlank
  BY <1>1, <1>4, <1>5, BlankScans, BlankReads
<1>6. CASE Newline
  BY <1>1, <1>4, <1>6, NewlineScans, NewlineReads
<1>7. CASE EndOfSource
  BY <1>1, <1>4, <1>7, EndOfSourceScans, EndOfSourceReads
<1>8. CASE Begin
  BY <1>1, <1>4, <1>8, BeginScans, BeginReads
<1>9. CASE Copy
  BY <1>1, <1>4, <1>9, CopyScans, CopyReads
<1>10. CASE End
  <2>1. Scans'
    BY <1>1, <1>3, <1>4, <1>10, EndScans
  <2>2. CASE ~(token # "comment" /\ (inside \/ token = "word"))
    BY <1>1, <1>3, <1>4, <1>10, <2>1, <2>2, DropReads
  <2>3. CASE token # "comment" /\ inside
    BY <1>1, <1>3, <1>4, <1>10, <2>1, <2>3, CollectReads
  <2>4. CASE token = "word" /\ ~inside
    BY <1>1, <1>3, <1>4, <1>10, <2>1, <2>4, BegunReads
  <2>5. QED  BY <2>1, <2>2, <2>3, <2>4
<1>11. CASE Execute \/ Finish \/ UNCHANGED vars
  <2>1. UNCHANGED <<source, pos, lineNo, token, start, inside, nodes>>
    BY <1>11 DEF Execute, Finish, vars, parser
  <2>2. mode' = mode \/ (mode # "parse" /\ mode' # "parse")
    BY <1>11 DEF Execute, Finish, vars
  <2>3. Scans'
    BY <1>4, <2>1, <2>2 DEF Scans, Between, First, Kind, At
  <2>4. \A t : Seen(t)' <=> Seen(t)
    BY <2>1 DEF Seen, First
  <2>5. ReadLines'
    BY <1>4, <2>1, <2>2, <2>4 DEF ReadLines, SeenOf
  <2>6. QED  BY <2>3, <2>5
<1>12. QED
  BY <1>5, <1>6, <1>7, <1>8, <1>9, <1>10, <1>11 DEF Next

\* When the text is read to its end, every token of the reference is read.
LEMMA LinesRead == LinesInv => StatementsAreLines
<1> SUFFICES ASSUME LinesInv, mode = "execute", Short(source)
             PROVE  LET o == Owners(source)
                    IN /\ {nodes[i].line : i \in 1..Len(nodes)} =
                            {LineOf(source, o, w) : w \in Words(o)}
                       /\ \A i, k \in 1..Len(nodes) :
                            i < k => nodes[i].line < nodes[k].line
                       /\ \A i \in 1..Len(nodes) :
                            Takes(nodes[i].args, o,
                                  StatementOf(source, o, nodes[i].line))
  BY DEF StatementsAreLines
<1> DEFINE o == Owners(source)
<1>1. Scans /\ ReadLines /\ TypeOK
  BY DEF LinesInv, OrderInv
<1>2. Len(source) \in Nat /\ Len(o) = Len(source) + 1
  BY <1>1, OwnerFacts
<1>3. token = "none" /\ pos = Len(source) + 1
  BY <1>1 DEF Scans
<1>4. ASSUME NEW t \in Tokens(o) PROVE Seen(t)
  <2>1. t[1] \in 2..Len(o)
    BY <1>2, TokenFacts
  <2>2. QED  BY <1>2, <1>3, <2>1 DEF Seen
<1>5. SeenOf(Words(o)) = Words(o)
  BY <1>4, AreTokens DEF SeenOf
<1>6. \A l : SeenOf(StatementOf(source, o, l)) = StatementOf(source, o, l)
  BY <1>4, AreTokens DEF SeenOf
<1>7. /\ {nodes[i].line : i \in 1..Len(nodes)}
           = {LineOf(source, o, w) : w \in SeenOf(Words(o))}
      /\ \A i, k \in 1..Len(nodes) : i < k => nodes[i].line < nodes[k].line
      /\ \A i \in 1..Len(nodes) :
           Takes(nodes[i].args, o, SeenOf(StatementOf(source, o, nodes[i].line)))
  BY <1>1 DEF ReadLines
<1>8. \A i \in 1..Len(nodes) :
        Takes(nodes[i].args, o, StatementOf(source, o, nodes[i].line))
  BY <1>6, <1>7
<1>9. QED  BY <1>5, <1>7, <1>8

\* What a text is read to, token by token, are the lines of the reference:
\* LinesInv holds in every state of the tokenizer (gupt_dsl.c:17-98, 115-161).
THEOREM LinesInductive == Spec => []LinesInv
  BY InitLines, NextLines, PTL DEF Spec

\* A text of any length whose tokens fit their buffers is run as it is
\* written: one statement for each line with a word, in the order of the
\* lines, each with the tokens of its line from the first word on, but
\* comments, as far as args has room (gupt_dsl.c:17-98, 115-161).
THEOREM ScriptsAreLines == Spec => []StatementsAreLines
  BY LinesInductive, LinesRead, PTL

-----------------------------------------------------------------------------
(* The end of a script                                                     *)

\* A token that is no string begins with a character of its own.
Starts ==
  token \notin {"none", "string"} =>
    KindOf(At(start)) = token /\ At(start) \notin {"s", "n", "nul"}

CountInv == TypeOK /\ Starts /\ (mode # "parse" => token = "none")

LEMMA InitCount == Init => CountInv
BY InitType DEF Init, CountInv, Starts

LEMMA NextCount == CountInv /\ [Next]_vars => CountInv'
<1> SUFFICES ASSUME CountInv, [Next]_vars PROVE CountInv'
  OBVIOUS
<1>1. TypeOK /\ TypeOK' /\ source' = source
  BY NextType DEF CountInv, Next, vars, SkipBlank, Newline, EndOfSource, Begin,
     Copy, End, Execute, Finish
<1>2. mode' # "parse" => token' = "none"
  BY DEF CountInv, Next, vars, parser, SkipBlank, Newline, EndOfSource, Begin,
     Copy, End, Execute, Finish, Between
<1>3. Starts'
  <2>1. CASE Begin
    <3>1. At(pos) \notin {"s", "n", "nul"} /\ token' = KindOf(At(pos))
          /\ (token' # "string" => start' = pos)
      BY <2>1 DEF Begin
    <3>2. token' # "string" => At(start)' = At(pos)
      BY <1>1, <3>1 DEF At
    <3>3. QED  BY <3>1, <3>2 DEF Starts
  <2>2. CASE ~Begin
    <3>1. token' = "none" \/ (token' = token /\ start' = start)
      BY <2>2 DEF Next, vars, parser, SkipBlank, Newline, EndOfSource, Copy, End,
         Execute, Finish
    <3>2. start' = start => At(start)' = At(start)
      BY <1>1 DEF At
    <3>3. QED  BY <3>1, <3>2 DEF CountInv, Starts
  <2>3. QED  BY <2>1, <2>2
<1>4. QED  BY <1>1, <1>2, <1>3 DEF CountInv

\* A token of no characters does not end, unless it is a string.
LEMMA FreshGoesOn ==
  ASSUME CountInv, token \notin {"none", "string"}, pos = start
  PROVE  ~Ends(At(pos)) /\ ~Full
<1>1. KindOf(At(pos)) = token /\ At(pos) \notin {"s", "n", "nul"}
      /\ token \in Kinds /\ pos \in Nat
  BY DEF CountInv, Starts, TypeOK
<1>2. ~Full
  BY <1>1, MaxTokenAssumption DEF Full
<1>3. CASE token = "comment"
  BY <1>1, <1>2, <1>3 DEF Ends
<1>4. CASE token = "number"
  BY <1>1, <1>2, <1>4 DEF Ends, KindOf
<1>5. CASE token = "word"
  <2>1. At(pos) # "h"
    BY <1>1, <1>5 DEF KindOf
  <2>2. QED  BY <1>1, <1>2, <1>5, <2>1 DEF Ends
<1>6. QED  BY <1>1, <1>3, <1>4, <1>5 DEF Kinds

\* What there is to do is counted by a number.
LEMMA LeftType == CountInv => Left \in Nat /\ ToRead \in Nat
<1> SUFFICES ASSUME CountInv PROVE Left \in Nat /\ ToRead \in Nat
  OBVIOUS
<1>1. /\ Len(source) \in Nat /\ pos \in 1..Len(source) + 1
      /\ Len(nodes) \in Nat /\ next \in 1..Len(nodes) + 1
  BY DEF CountInv, TypeOK
<1>2. ToRead \in Nat
  <2>1. 4 * (Len(source) + 1 - pos) \in Nat
    BY <1>1
  <2>2. QED  BY <2>1 DEF ToRead
<1>3. Len(nodes) + 1 - next \in Nat
  BY <1>1
<1>4. QED  BY <1>2, <1>3 DEF Left

\* The same counts, as sums of numbers.
LEMMA LeftSum ==
  ASSUME NEW n \in Nat, NEW p \in Nat, NEW p1 \in Nat, NEW k \in Nat,
         NEW k1 \in Nat, NEW a \in Nat, NEW a1 \in Nat, NEW i \in Nat,
         4 * p + a1 + k1 < 4 * p1 + a + k
  PROVE  4 * (n + 1 - p1) + a1 + (k1 + 1 - i) + 1
           < 4 * (n + 1 - p) + a + (k + 1 - i) + 1
OBVIOUS

\* What a token still costs.
TokenCost == IF token = "none" THEN 2
             ELSE IF token # "string" /\ pos = start THEN 1 ELSE 4

\* A step of the tokenizer that reads enough for what it adds.
LEMMA ReadFalls ==
  ASSUME CountInv, CountInv', mode = "parse", mode' = "parse", next' = next,
         source' = source,
         4 * pos + TokenCost' + Len(nodes') < 4 * pos' + TokenCost + Len(nodes)
  PROVE  Left' < Left
<1>1. /\ Len(source) \in Nat /\ pos \in Nat /\ pos' \in Nat
      /\ Len(nodes) \in Nat /\ Len(nodes') \in Nat /\ next \in Nat
  BY DEF CountInv, TypeOK
<1>2. TokenCost \in Nat /\ TokenCost' \in Nat
  BY DEF TokenCost
<1>3. 4 * (Len(source) + 1 - pos') + TokenCost' + (Len(nodes') + 1 - next) + 1
        < 4 * (Len(source) + 1 - pos) + TokenCost + (Len(nodes) + 1 - next) + 1
  BY <1>1, <1>2, LeftSum
<1>4. /\ Left = 4 * (Len(source) + 1 - pos) + TokenCost
                  + (Len(nodes) + 1 - next) + 1
      /\ Left' = 4 * (Len(source) + 1 - pos') + TokenCost'
                   + (Len(nodes') + 1 - next) + 1
  BY DEF Left, ToRead, TokenCost
<1>5. QED  BY <1>3, <1>4

LEMMA LeftFalls == CountInv /\ Next => Left' < Left
<1> SUFFICES ASSUME CountInv, Next PROVE Left' < Left
  OBVIOUS
<1>1. /\ Len(source) \in Nat /\ pos \in 1..Len(source) + 1 /\ start \in Nat
      /\ Len(nodes) \in Nat /\ next \in 1..Len(nodes) + 1 /\ TypeOK
  BY DEF CountInv, TypeOK
<1>2. CountInv'
  BY NextCount
<1>3. CASE SkipBlank \/ Newline
  <2>1. /\ mode = "parse" /\ mode' = "parse" /\ next' = next /\ source' = source
        /\ nodes' = nodes /\ pos' = pos + 1 /\ token = "none" /\ token' = "none"
    BY <1>3 DEF SkipBlank, Newline, Between
  <2>2. TokenCost = 2 /\ TokenCost' = 2
    BY <2>1 DEF TokenCost
  <2>3. QED  BY <1>1, <1>2, <2>1, <2>2, ReadFalls
<1>4. CASE EndOfSource
  <2>1. /\ mode = "parse" /\ mode' = "execute" /\ next' = next
        /\ nodes' = nodes /\ token = "none"
    BY <1>4 DEF EndOfSource, Between
  <2>2. ToRead' = 0 /\ ToRead = 4 * (Len(source) + 1 - pos) + 2
    BY <2>1 DEF ToRead
  <2>3. ToRead >= 2
    BY <1>1, <2>2
  <2>4. /\ Left = ToRead + (Len(nodes) + 1 - next) + 1
        /\ Left' = 0 + (Len(nodes) + 1 - next) + 1
    BY <2>1, <2>2 DEF Left
  <2>5. ToRead \in Nat
    BY LeftType
  <2>6. QED  BY <1>1, <2>3, <2>4, <2>5
<1>5. CASE Begin
  <2>1. /\ mode = "parse" /\ mode' = "parse" /\ next' = next /\ source' = source
        /\ nodes' = nodes /\ token = "none" /\ token' # "none"
        /\ start' = pos'
        /\ pos' = IF token' = "string" THEN pos + 1 ELSE pos
    BY <1>5 DEF Begin, Between, KindOf
  <2>2. /\ TokenCost = 2
        /\ TokenCost' = IF token' = "string" THEN 4 ELSE 1
    BY <2>1 DEF TokenCost
  <2>3. QED  BY <1>1, <1>2, <2>1, <2>2, ReadFalls
<1>6. CASE Copy
  <2>1. /\ mode = "parse" /\ mode' = "parse" /\ next' = next /\ source' = source
        /\ nodes' = nodes /\ pos' = pos + 1 /\ token # "none"
    BY <1>6 DEF Copy
  <2>2. TokenCost \in {1, 4} /\ TokenCost' \in {1, 2, 4}
    BY <2>1 DEF TokenCost
  <2>3. QED  BY <1>1, <1>2, <2>1, <2>2, ReadFalls
<1>7. CASE End
  <2>1. /\ mode = "parse" /\ mode' = "parse" /\ next' = next /\ source' = source
        /\ token # "none" /\ token' = "none"
        /\ pos' = IF Closed THEN pos + 1 ELSE pos
    BY <1>7 DEF End
  <2>2. Len(nodes') \in Nat /\ Len(nodes') <= Len(nodes) + 1
    <3>1. CASE nodes' = nodes
      BY <1>1, <3>1
    <3>2. CASE inside /\ nodes' = Collected
      BY <1>1, <3>2, CollectedType
    <3>3. CASE nodes' = Begun
      BY <1>1, <3>3 DEF Begun
    <3>4. QED  BY <1>7, <3>1, <3>2, <3>3 DEF End
  <2>3. ~(token # "string" /\ pos = start)
    BY <1>7, <2>1, FreshGoesOn DEF End
  <2>4. TokenCost = 4 /\ TokenCost' = 2
    BY <2>1, <2>3 DEF TokenCost
  <2>5. pos' >= pos /\ pos' \in Nat
    BY <1>1, <2>1
  <2>6. QED  BY <1>1, <1>2, <2>1, <2>2, <2>4, <2>5, ReadFalls
<1>8. CASE Execute
  <2>1. /\ mode = "execute" /\ mode' = "execute" /\ next' = next + 1
        /\ nodes' = nodes
    BY <1>8 DEF Execute, parser
  <2>2. /\ Left = 0 + (Len(nodes) + 1 - next) + 1
        /\ Left' = 0 + (Len(nodes) + 1 - (next + 1)) + 1
    BY <2>1 DEF Left, ToRead
  <2>3. QED  BY <1>1, <2>2
<1>9. CASE Finish
  <2>1. /\ mode = "execute" /\ mode' = "done" /\ next' = next /\ nodes' = nodes
    BY <1>9 DEF Finish, parser
  <2>2. /\ Left = 0 + (Len(nodes) + 1 - next) + 1
        /\ Left' = 0 + (Len(nodes) + 1 - next) + 0
    BY <2>1 DEF Left, ToRead
  <2>3. QED  BY <1>1, <2>2
<1>10. QED
  BY <1>3, <1>4, <1>5, <1>6, <1>7, <1>8, <1>9 DEF Next

\* A text of any length has only so many steps: every step of the tokenizer
\* and of the executor leaves less to do, and what is left is a natural
\* number (gupt_dsl.c:17-98, 115-213).
THEOREM StepsAreFew == Spec => EveryStepCounts
<1>1. CountInv /\ CountInv' /\ [Next]_vars => [Left' \in Nat /\ Left' < Left]_vars
  <2>1. CountInv /\ CountInv' /\ Next => Left' \in Nat /\ Left' < Left
    <3>1. (CountInv => Left \in Nat /\ ToRead \in Nat)'
      BY LeftType, PTL
    <3>2. QED  BY <3>1, LeftFalls
  <2>2. QED  BY <2>1
<1>2. QED
  BY <1>1, InitCount, NextCount, PTL DEF Spec, EveryStepCounts
=============================================================================
