----------------------------- MODULE MCCommands ------------------------------
(* Instance of Commands for TLC: every word of the rules, two names of the   *)
(* table that have no function, any other word; up to five words.           *)
EXTENDS Commands

MCSubs ==
  {"none", "create", "list", "start", "stop", "timeline", "add", "search",
   "generate", "preview", "export", "show", "stats", "open", "subfinder", "word"}

MCHeads ==
  UNION {Rules[i].heads : i \in DOMAIN Rules} \cup
    {"notes", "analyze", "word"}
=============================================================================
