------------------------------ MODULE MCParser -------------------------------
(* Instance of Parser for TLC: every line of up to six characters.  With     *)
(* room for two arguments, lines of five already run into the limit.        *)
EXTENDS Parser

MCLines == UNION {[1..n -> Chars] : n \in 0..6}
=============================================================================
