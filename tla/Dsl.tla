--------------------------------- MODULE Dsl ---------------------------------
(***************************************************************************)
(* A script (src/scripting/gupt_dsl.c): ks_dsl_execute_file parses the     *)
(* whole text into statements and then runs them one after the other.      *)
(*                                                                         *)
(* Characters are of the classes the tokenizer tells apart: "s" blank or   *)
(* tab, "n" newline, "h" the comment sign, "d" and "q" the two quotes, "0" *)
(* a digit, "a" anything else; the end of the text reads "nul".  A token   *)
(* is known by the interval <<first, last>> of the text that it copies, a  *)
(* statement by its line and its first MaxArgs tokens, the name first.     *)
(* Which command a name is, the model leaves open.                         *)
(***************************************************************************)
EXTENDS Naturals, Sequences, FiniteSets, TLC

CONSTANTS
  Sources,   \* the texts to run
  MaxToken,  \* characters of a token that are kept, 1023
  MaxArgs    \* places in args, 8

Chars == {"s", "n", "h", "d", "q", "0", "a"}
Kinds == {"comment", "string", "number", "word"}

ASSUME SourcesAssumption == Sources \subseteq Seq(Chars)
ASSUME MaxTokenAssumption == MaxToken \in Nat \ {0}
ASSUME MaxArgsAssumption == MaxArgs \in Nat \ {0}

VARIABLES
  source,  \* the text
  pos,     \* parser.pos, as a place in the text
  lineNo,  \* parser.line
  token,   \* the kind of the token being read, or "none"
  start,   \* place of its first character that is copied
  inside,  \* the arguments of a statement are being collected
  nodes,   \* the statements, in their order
  mode,    \* "parse", "execute" or "done"
  next,    \* the statement to be executed
  result   \* result of the last statement executed

parser == <<pos, lineNo, token, start, inside>>
vars == <<source, parser, nodes, mode, next, result>>

\* ks_dsl_node_t, as far as it is used.
Node == [line : Nat, args : Seq(Nat \X Nat)]

TypeOK ==
  /\ source \in Seq(Chars)
  /\ pos \in 1..Len(source) + 1
  /\ start \in 1..Len(source) + 1
  /\ token # "none" => start <= pos /\ pos - start <= MaxToken
  /\ token = "string" => start > 1
  /\ lineNo \in 1..pos
  /\ token \in Kinds \cup {"none"}
  /\ inside \in BOOLEAN /\ (inside => nodes # <<>>)
  /\ nodes \in Seq(Node)
  /\ \A i \in 1..Len(nodes) : Len(nodes[i].args) \in 1..MaxArgs
  /\ mode \in {"parse", "execute", "done"}
  /\ next \in 1..Len(nodes) + 1
  /\ result \in {"ok", "fail"}

Init ==
  /\ source \in Sources
  /\ pos = 1 /\ lineNo = 1 /\ token = "none" /\ start = 1
  /\ inside = FALSE /\ nodes = <<>>
  /\ mode = "parse" /\ next = 1 /\ result = "ok"

At(i) == IF i <= Len(source) THEN source[i] ELSE "nul"
Between == mode = "parse" /\ token = "none"

-----------------------------------------------------------------------------
(* ks_dsl_next_token and, with its result, ks_dsl_parse                    *)

SkipBlank ==
  /\ Between
  /\ At(pos) = "s"
  /\ pos' = pos + 1
  /\ UNCHANGED <<source, lineNo, token, start, inside, nodes, mode, next, result>>

\* Variant of Newline: a statement goes on behind it.
NewlineGoesOn ==
  /\ Between
  /\ At(pos) = "n"
  /\ pos' = pos + 1
  /\ lineNo' = lineNo + 1
  /\ UNCHANGED <<source, token, start, inside, nodes, mode, next, result>>

\* The end of a line ends the statement on it.
Newline ==
  /\ Between
  /\ At(pos) = "n"
  /\ pos' = pos + 1
  /\ lineNo' = lineNo + 1
  /\ inside' = FALSE
  /\ UNCHANGED <<source, token, start, nodes, mode, next, result>>

EndOfSource ==
  /\ Between
  /\ At(pos) = "nul"
  /\ mode' = "execute"
  /\ inside' = FALSE
  /\ UNCHANGED <<source, pos, lineNo, token, start, nodes, next, result>>

\* Variant of KindOf: the comment sign is an ordinary character.
KindOfNoComment(c) ==
  CASE c \in {"d", "q"} -> "string"
    [] c = "0" -> "number"
    [] OTHER -> "word"

KindOf(c) ==
  CASE c = "h" -> "comment"
    [] c \in {"d", "q"} -> "string"
    [] c = "0" -> "number"
    [] OTHER -> "word"

\* A token begins; a quote is passed over.
Begin ==
  /\ Between
  /\ At(pos) \notin {"s", "n", "nul"}
  /\ token' = KindOf(At(pos))
  /\ pos' = IF token' = "string" THEN pos + 1 ELSE pos
  /\ start' = pos'
  /\ UNCHANGED <<source, lineNo, inside, nodes, mode, next, result>>

\* The character c ends the token, which is no part of it.
Ends(c) ==
  CASE token = "comment" -> c \in {"n", "nul"}
    [] token = "string"  -> c \in {At(start - 1), "nul"}
    [] token = "number"  -> c # "0"
    [] token = "word"    -> c \in {"s", "n", "h", "nul"}

\* Variant of Full: the buffer is one character longer.
FullLate == pos - start = MaxToken + 1
Full == pos - start = MaxToken

Copy ==
  /\ mode = "parse" /\ token # "none"
  /\ ~Full /\ ~Ends(At(pos))
  /\ pos' = pos + 1
  /\ UNCHANGED <<source, lineNo, token, start, inside, nodes, mode, next, result>>

\* The closing quote of a string, which is passed over.
Closed == token = "string" /\ At(pos) = At(start - 1)

\* Variant of Place: the character behind the token belongs to it.
PlaceLate == <<start, pos>>
Place == <<start, pos - 1>>

\* Variant of Collected: one token more than there is room for.
CollectedPast ==
  LET n == nodes[Len(nodes)]
  IN IF Len(n.args) <= MaxArgs
       THEN [nodes EXCEPT ![Len(nodes)] =
               [line |-> n.line, args |-> Append(n.args, Place)]]
       ELSE nodes

\* The statements with one more argument, for which there may be no room.
Collected ==
  LET n == nodes[Len(nodes)]
  IN IF Len(n.args) < MaxArgs
       THEN [nodes EXCEPT ![Len(nodes)] =
               [line |-> n.line, args |-> Append(n.args, Place)]]
       ELSE nodes

Begun == Append(nodes, [line |-> lineNo, args |-> <<Place>>])

\* A token is complete, or its buffer is full and the rest is read as another
\* token.  A comment is dropped, and so is a string or a number where a
\* statement might begin; a word begins one there.
End ==
  /\ mode = "parse" /\ token # "none"
  /\ Full \/ Ends(At(pos))
  /\ nodes' = CASE token = "comment" -> nodes
                [] token # "comment" /\ inside -> Collected
                [] token = "word" /\ ~inside -> Begun
                [] OTHER -> nodes
  /\ inside' = (inside \/ token = "word")
  /\ pos' = IF Closed THEN pos + 1 ELSE pos
  /\ token' = "none"
  /\ UNCHANGED <<source, lineNo, start, mode, next, result>>

-----------------------------------------------------------------------------
(* ks_dsl_execute                                                          *)

\* The commands, the least number of tokens each wants, and what each may
\* return.  The adapters behind run, discover and the tests for xss and sqli
\* never succeed, whatever is installed.
Least ==
  [c \in {"workspace", "target", "discover", "test", "note", "search", "run"} |-> 2]
    @@ [set |-> 3, report |-> 1, unknown |-> 1]

Results(c, argc) ==
  IF argc < Least[c] \/ c \in {"discover", "run", "unknown"} THEN {"fail"}
  ELSE IF c \in {"workspace", "test"} THEN {"ok", "fail"} ELSE {"ok"}

\* Variant of Execute: the script stops at the first failure.
ExecuteUntilFailure ==
  /\ mode = "execute" /\ next <= Len(nodes)
  /\ \E c \in DOMAIN Least : result' \in Results(c, Len(nodes[next].args))
  /\ next' = next + 1
  /\ mode' = IF result' = "fail" THEN "done" ELSE mode
  /\ UNCHANGED <<source, parser, nodes>>

\* A statement that fails is reported, and the next one is run.
Execute ==
  /\ mode = "execute" /\ next <= Len(nodes)
  /\ \E c \in DOMAIN Least : result' \in Results(c, Len(nodes[next].args))
  /\ next' = next + 1
  /\ UNCHANGED <<source, parser, nodes, mode>>

Finish ==
  /\ mode = "execute" /\ next > Len(nodes)
  /\ mode' = "done"
  /\ UNCHANGED <<source, parser, nodes, next, result>>

Next ==
  \/ SkipBlank \/ Newline \/ EndOfSource \/ Begin \/ Copy \/ End
  \/ Execute \/ Finish

Spec == Init /\ [][Next]_vars
FairSpec == Spec /\ WF_vars(Next)

-----------------------------------------------------------------------------
(* The reference: what each character belongs to, read left to right.      *)

\* The character c goes on with what the last one belonged to.
GoesOn(t, c) ==
  \/ t = "comment" /\ c # "n"
  \/ t \in {"d", "q"} /\ c # t
  \/ t = "number" /\ c = "0"
  \/ t = "word" /\ c \in {"d", "q", "0", "a"}

\* What the next character belongs to, when the last one belonged to t.
Belongs(t, c) ==
  IF GoesOn(t, c) THEN t ELSE IF t \in {"d", "q"} THEN "gap"
  ELSE CASE c \in {"d", "q"} -> c
         [] c = "h" -> "comment"
         [] c = "0" -> "number"
         [] c = "a" -> "word"
         [] OTHER -> "gap"

\* The owners of the characters of a text, in order, after one gap.
Owners(text) ==
  LET o[i \in 1..Len(text) + 1] ==
        IF i = 1 THEN "gap" ELSE Belongs(o[i - 1], text[i - 1])
  IN o

\* The tokens: maximal stretches of one owner, without the opening quote.
Tokens(o) ==
  {t \in (2..Len(o)) \X (2..Len(o)) :
     /\ t[1] <= t[2] /\ o[t[1]] # "gap" /\ o[t[1] - 1] # o[t[1]]
     /\ \A i \in t[1]..t[2] : o[i] = o[t[1]]
     /\ t[2] < Len(o) => o[t[2] + 1] # o[t[1]]}
Kept(o, t) == IF o[t[1]] \in {"d", "q"} THEN <<t[1], t[2] - 1>>
              ELSE <<t[1] - 1, t[2] - 1>>

\* The newlines before a place that are not part of a string, and the line
\* that a token begins on.
Breaks(text, o, i) == {k \in 1..i - 1 : text[k] = "n" /\ o[k + 1] = "gap"}
LineOf(text, o, t) == 1 + Cardinality(Breaks(text, o, t[1] - 1))

\* The words, and the statement of a line: its first word and what follows
\* on it, but comments.
Words(o) == {t \in Tokens(o) : o[t[1]] = "word"}
StatementOf(text, o, line) ==
  {t \in Tokens(o) :
     /\ o[t[1]] # "comment" /\ LineOf(text, o, t) = line
     /\ \E w \in Words(o) : LineOf(text, o, w) = line /\ w[1] <= t[1]}

\* The arguments are the first of the tokens, as many as there is room for.
Takes(args, o, tokens) ==
  LET taken == {args[j] : j \in 1..Len(args)}
      kept == {Kept(o, t) : t \in tokens}
  IN /\ taken \subseteq kept
     /\ \A k \in kept \ taken : Len(args) = MaxArgs /\ \A a \in taken : a[2] < k[1]

Short(text) ==
  LET o == Owners(text)
  IN \A t \in Tokens(o) : Kept(o, t)[2] - Kept(o, t)[1] < MaxToken

-----------------------------------------------------------------------------
(* Properties                                                              *)

\* A text whose tokens fit their buffers is read as the reference reads it:
\* one statement for each line with a word, in the order of the lines and
\* with the right number, and its arguments are what stands on the line
\* without comments and quotes (gupt_dsl.c:17-98, 115-161), in the order
\* that TokensInOrder gives them.  A longer comment would end early and its
\* tail be run.
StatementsAreLines ==
  (mode = "execute" /\ next = 1 /\ Short(source)) =>
    LET o == Owners(source)
    IN /\ {nodes[i].line : i \in 1..Len(nodes)} =
            {LineOf(source, o, w) : w \in Words(o)}
       /\ \A i, k \in 1..Len(nodes) : i < k => nodes[i].line < nodes[k].line
       /\ \A i \in 1..Len(nodes) :
            Takes(nodes[i].args, o, StatementOf(source, o, nodes[i].line))

\* Tokens that are cut or not, the arguments of the statements are disjoint
\* parts of the text in its order (gupt_dsl.c:40-97, 130-158).
TokensInOrder ==
  \A i, k \in 1..Len(nodes) :
    \A j \in 1..Len(nodes[i].args), l \in 1..Len(nodes[k].args) :
      (i < k \/ (i = k /\ j < l)) => nodes[i].args[j][2] < nodes[k].args[l][1]

\* How much is left to do: the characters to be read, what becomes of the
\* token, the statements to be run.  A token without a character counts less
\* than none, as reading one is progress.
ToRead ==
  IF mode # "parse" THEN 0
  ELSE 4 * (Len(source) + 1 - pos)
         + IF token = "none" THEN 2
           ELSE IF token # "string" /\ pos = start THEN 1 ELSE 4
Left == ToRead + (Len(nodes) + 1 - next) + IF mode = "done" THEN 0 ELSE 1

\* No loop goes round without progress, though a token that ends leaves its
\* last character to the next one: a script takes at most Left steps
\* (gupt_dsl.c:17-98, 115-213).
EveryStepCounts == [][Left' \in Nat /\ Left' < Left]_vars

\* Every statement of a script is run, whatever became of those before it,
\* and the script ends (gupt_dsl.c:115-213).
EveryStatementRuns == <>(mode = "done" /\ next = Len(nodes) + 1)
=============================================================================
