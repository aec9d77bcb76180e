------------------------------- MODULE Parser --------------------------------
(***************************************************************************)
(* ks_parse_command (src/parser/parser.c): a command line is cut into      *)
(* arguments in place.                                                     *)
(*                                                                         *)
(* Characters are of the classes the code tells apart: "s" white space,    *)
(* "d" and "q" the two quotes, "b" backslash, "a" anything else; reading   *)
(* past the end yields "nul", and would be an overrun one place further.   *)
(* An argument is the interval <<first, last>> of the line that strdup     *)
(* copies: quotes are left out, backslashes stay in.                       *)
(***************************************************************************)
EXTENDS Naturals, Sequences

CONSTANTS
  Lines,    \* the lines to parse
  MaxArgs   \* MAX_ARGS, the size of argv

Chars == {"s", "d", "q", "b", "a"}

ASSUME LinesAssumption == Lines \subseteq Seq(Chars)
ASSUME MaxArgsAssumption == MaxArgs \in Nat \ {0}

VARIABLES
  line,    \* the line
  pos,     \* input, as a place in the line
  start,   \* start of the argument that is being read
  quote,   \* the quote it is in
  mode,    \* what the code is doing
  args     \* argv[0 .. argc - 1]

vars == <<line, pos, start, quote, mode, args>>

TypeOK ==
  /\ line \in Seq(Chars)
  /\ pos \in 1..Len(line) + 1
  /\ start \in 1..Len(line) + 1
  /\ quote \in {"d", "q"}
  /\ mode \in {"between", "quoted", "plain", "ok", "invalid"}
  /\ args \in Seq(Nat \X Nat)
  /\ Len(args) <= MaxArgs - 1

Init ==
  /\ line \in Lines
  /\ pos = 1 /\ start = 1 /\ quote = "d"
  /\ mode = "between" /\ args = <<>>

At(i) == IF i <= Len(line) THEN line[i] ELSE "nul"

\* Variant of Room: argv is filled to its last place.
RoomForOneMore == Len(args) < MaxArgs
Room == Len(args) < MaxArgs - 1

-----------------------------------------------------------------------------

SkipBlank ==
  /\ mode = "between" /\ Room
  /\ At(pos) = "s"
  /\ pos' = pos + 1
  /\ UNCHANGED <<line, start, quote, mode, args>>

\* The end of the line, or no room for another argument: what is left of
\* the line is dropped, and the result is KS_OK all the same.
Stop ==
  /\ mode = "between"
  /\ At(pos) = "nul" \/ ~Room
  /\ mode' = "ok"
  /\ UNCHANGED <<line, pos, start, quote, args>>

OpenQuote ==
  /\ mode = "between" /\ Room
  /\ At(pos) \in {"d", "q"}
  /\ mode' = "quoted"
  /\ quote' = At(pos)
  /\ start' = pos + 1
  /\ pos' = pos + 1
  /\ UNCHANGED <<line, args>>

OpenPlain ==
  /\ mode = "between" /\ Room
  /\ At(pos) \in {"a", "b"}
  /\ mode' = "plain"
  /\ start' = pos
  /\ UNCHANGED <<line, pos, quote, args>>

\* Variants of After: a backslash always takes the next character with it,
\* or waits for one.
AfterUnchecked(i) == IF At(i) = "b" THEN i + 2 ELSE i + 1
AfterStuck(i) ==
  IF At(i) # "b" THEN i + 1 ELSE IF At(i + 1) # "nul" THEN i + 2 ELSE i

\* One character further, or two after a backslash that is not the last.
After(i) == IF At(i) = "b" /\ At(i + 1) # "nul" THEN i + 2 ELSE i + 1

Ends(c) == IF mode = "quoted" THEN c = quote ELSE c = "s"

Within ==
  /\ mode \in {"quoted", "plain"}
  /\ At(pos) # "nul" /\ ~Ends(At(pos))
  /\ pos' = After(pos)
  /\ UNCHANGED <<line, start, quote, mode, args>>

CloseQuote ==
  /\ mode = "quoted"
  /\ At(pos) = quote
  /\ args' = Append(args, <<start, pos - 1>>)
  /\ pos' = pos + 1
  /\ mode' = "between"
  /\ UNCHANGED <<line, start, quote>>

\* KS_ERROR_INVALID; *argc counts the arguments before.
Unterminated ==
  /\ mode = "quoted"
  /\ At(pos) = "nul"
  /\ mode' = "invalid"
  /\ UNCHANGED <<line, pos, start, quote, args>>

\* Variant of EndPlain: a quote ends an argument too, and is passed over.
EndPlainAtQuote ==
  /\ mode = "plain"
  /\ At(pos) \in {"nul", "s"} \/ (At(pos) \in {"d", "q"} /\ pos > start)
  /\ args' = Append(args, <<start, pos - 1>>)
  /\ pos' = IF At(pos) = "nul" THEN pos ELSE pos + 1
  /\ mode' = "between"
  /\ UNCHANGED <<line, start, quote>>

\* Variant of EndPlain: the argument takes the blank behind it.
EndPlainLate ==
  /\ mode = "plain"
  /\ At(pos) \in {"nul", "s"}
  /\ args' = Append(args, <<start, pos>>)
  /\ pos' = IF At(pos) = "nul" THEN pos ELSE pos + 1
  /\ mode' = "between"
  /\ UNCHANGED <<line, start, quote>>

\* The blank behind the argument, if there is one, is passed over.
EndPlain ==
  /\ mode = "plain"
  /\ At(pos) \in {"nul", "s"}
  /\ args' = Append(args, <<start, pos - 1>>)
  /\ pos' = IF At(pos) = "nul" THEN pos ELSE pos + 1
  /\ mode' = "between"
  /\ UNCHANGED <<line, start, quote>>

Next ==
  SkipBlank \/ Stop \/ OpenQuote \/ OpenPlain \/ Within
    \/ CloseQuote \/ Unterminated \/ EndPlain

Spec == Init /\ [][Next]_vars
FairSpec == Spec /\ WF_vars(Next)

-----------------------------------------------------------------------------
(* The reference: one left-to-right pass over the line.                    *)

\* Where the reader is before a character: between arguments, in a plain
\* argument, or in one quoted by "d" or by "q"; and whether an unescaped
\* backslash comes before the character.
Outside == [in |-> "between", escaped |-> FALSE]
Moved(r, c) ==
  [in |-> CASE r.in = "between" /\ c \in {"a", "b"} -> "plain"
            [] r.in = "between" /\ c \in {"d", "q"} -> c
            [] r.in \in {"d", "q"} /\ c = r.in /\ ~r.escaped -> "between"
            [] r.in = "plain" /\ c = "s" /\ ~r.escaped -> "between"
            [] OTHER -> r.in,
   escaped |-> c = "b" /\ ~r.escaped]

\* At the places of a line in order, and at the end of it.
Where(l) ==
  LET w[i \in 1..Len(l) + 1] ==
        IF i = 1 THEN Outside ELSE Moved(w[i - 1], l[i - 1])
  IN w

\* The places at which arguments end, and the intervals they cover.
IsEnd(w, i) ==
  /\ w[i].in # "between"
  /\ IF i = Len(w) THEN w[i].in = "plain" ELSE w[i + 1].in = "between"
FirstOf(w, i) ==
  LET b == CHOOSE b \in 1..i :
             w[b].in = "between" /\ \A j \in b + 1..i : w[j].in # "between"
  IN IF w[i].in = "plain" THEN b ELSE b + 1

\* The arguments of the line, all of them.
ArgSet(w) == {<<FirstOf(w, i), i - 1>> : i \in {j \in 1..Len(w) : IsEnd(w, j)}}

-----------------------------------------------------------------------------
(* Properties                                                              *)

\* The arguments come in the order of the line and do not overlap, and no
\* argument reaches past the line (parser.c:30-67).
ArgsInOrder ==
  /\ \A i \in 1..Len(args) :
       1 <= args[i][1] /\ args[i][1] <= args[i][2] + 1 /\ args[i][2] < pos
  /\ \A i \in 1..Len(args) - 1 : args[i][2] < args[i + 1][1]

\* A line is cut as the one-pass reference cuts it: with room to spare the
\* result has all its arguments, at the limit it has the first ones, and the
\* line is refused only for a quote that is still open (parser.c:20-72).
ParsesLikeReference ==
  mode \in {"ok", "invalid"} =>
    LET w == Where(line)
        all == ArgSet(w)
        found == {args[i] : i \in 1..Len(args)}
        atEnd == w[Len(w)].in
    IN IF mode = "invalid" THEN found = all /\ atEnd \in {"d", "q"}
       ELSE IF Room THEN found = all /\ atEnd \in {"between", "plain"}
       ELSE /\ found \subseteq all
            /\ \A a \in all \ found, b \in found : a[1] > b[2]

\* Parsing ends (parser.c:20-68).
Terminates == <>(mode \in {"ok", "invalid"})
=============================================================================
