----------------------------- MODULE MCKnowledge -----------------------------
(* Instance of Knowledge for TLC: two texts, a query that is in one of them, *)
(* one that hits both (a wildcard, or a quote that makes the condition hold  *)
(* always) and one with a quote that makes the SQL text one not to parse.    *)
EXTENDS Knowledge

MCTexts == {"login form", "admin form"}
MCQueries == {"admin", "%", "quote"}
MCHits ==
  [q \in MCQueries |-> CASE q = "admin" -> {"admin form"}
                         [] q = "%" -> MCTexts
                         [] OTHER -> {}]
=============================================================================
