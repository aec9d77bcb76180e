-------------------------------- MODULE MCDsl --------------------------------
(* Instance of Dsl for TLC: every text of up to five characters.  Tokens of  *)
(* more than two characters are cut, statements keep two tokens.            *)
EXTENDS Dsl

MCSources == UNION {[1..n -> Chars] : n \in 0..5}
=============================================================================
