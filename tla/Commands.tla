------------------------------ MODULE Commands -------------------------------
(***************************************************************************)
(* What the shell does with a command (src/core/shell.c, execute_command): *)
(* the table of builtins, the chain of comparisons behind it and, for run, *)
(* the way through the tool adapters (src/adapters) to                     *)
(* ks_platform_execute (src/utils/platform.c).                             *)
(*                                                                         *)
(* A command is its first word, its second word ("none" when there is      *)
(* none) and argc.  The table and the chain are one list of rules; the     *)
(* first that fits the two words decides, and it wants a number of words.  *)
(* What the handlers do is the matter of the other modules.                *)
(***************************************************************************)
EXTENDS Naturals, Sequences, FiniteSetsExt

CONSTANTS
  Heads,     \* first words to try
  Subs,      \* second words to try
  MaxArgc,   \* bound on argc
  Adapters   \* second words that are names of registered adapters

ASSUME SubsAssumption == "none" \in Subs /\ Adapters \subseteq Subs

VARIABLES
  installed,  \* the tools on the PATH
  command,    \* the command
  answer,     \* what it led to: a handler, "usage" or "unknown"
  ran         \* the tools that it started

vars == <<installed, command, answer, ran>>

Commands ==
  {c \in [head : Heads, sub : Subs, argc : 1..MaxArgc] :
     c.sub = "none" <=> c.argc = 1}

-----------------------------------------------------------------------------
(* The rules: words, least argc, handler                                   *)

Rule(heads, subs, least, handler) ==
  [heads |-> heads, subs |-> subs, least |-> least, handler |-> handler]

\* The builtins that have a function; report, score and graph look at their
\* own arguments.
Builtins ==
  << Rule({"help"}, Subs, 1, "help"),
     Rule({"exit", "quit"}, Subs, 1, "exit"),
     Rule({"clear"}, Subs, 1, "clear"),
     Rule({"history"}, Subs, 1, "history"),
     Rule({"cd"}, Subs, 1, "cd"),
     Rule({"pwd"}, Subs, 1, "pwd"),
     Rule({"report"}, {"none"}, 2, "report"),
     Rule({"report"}, {"generate", "preview", "export"}, 2, "report"),
     Rule({"score"}, Subs, 2, "cvss"),
     Rule({"graph"}, {"none"}, 2, "graph"),
     Rule({"graph"}, {"show", "export", "stats"}, 2, "graph") >>

\* The chain, in its order.
Chain ==
  << Rule({"new", "workspace"}, Subs, 2, "workspace_create"),
     Rule({"open"}, Subs, 2, "workspace_open"),
     Rule({"spaces", "workspace"}, Subs, 1, "workspace_list"),
     Rule({"close"}, Subs, 1, "workspace_close"),
     Rule({"tools", "tool"}, Subs, 1, "adapter_list"),
     Rule({"run"}, Subs, 2, "adapter_run"),
     Rule({"scan", "recon"}, Subs, 2, "run_pipeline"),
     Rule({"bug", "finding"}, {"none"}, 2, "finding_list"),
     Rule({"bug", "finding"}, {"create"}, 4, "finding_create"),
     Rule({"bug", "finding"}, {"list"}, 2, "finding_list"),
     Rule({"dash", "dashboard"}, Subs, 1, "draw_dashboard"),
     Rule({"gupt", "script"}, Subs, 2, "dsl_execute_file"),
     Rule({"record"}, {"none"}, 2, "session_start"),
     Rule({"record"}, {"start"}, 2, "session_start"),
     Rule({"record"}, {"stop"}, 2, "session_stop"),
     Rule({"record"}, {"timeline"}, 2, "session_timeline"),
     Rule({"timeline"}, Subs, 1, "session_timeline"),
     Rule({"note"}, {"none"}, 2, "knowledge_list"),
     Rule({"note"}, {"add"}, 3, "knowledge_add"),
     Rule({"note"}, {"list"}, 2, "knowledge_list"),
     Rule({"note"}, {"search"}, 4, "knowledge_search"),
     Rule({"search", "find"}, Subs, 2, "search") >>

Rules == Builtins \o Chain

\* Variant of Enough: one word less is enough.
EnoughBarely(c, r) == c.argc + 1 >= r.least
Enough(c, r) == c.argc >= r.least

\* Where the first rule that fits sends a command.
Answer(c) ==
  LET fits == {i \in DOMAIN Rules : c.head \in Rules[i].heads /\ c.sub \in Rules[i].subs}
  IN IF fits = {} THEN "unknown"
     ELSE LET r == Rules[Min(fits)]
          IN IF Enough(c, r) THEN r.handler ELSE "usage"

-----------------------------------------------------------------------------
(* run <tool>                                                              *)

\* ks_platform_execute refuses to run anything without a buffer.
PlatformExecute(tool, buffer) == IF buffer = "NULL" THEN {} ELSE {tool}

\* Every adapter's run calls it with NULL.
AdapterRun(tool) ==
  IF tool \in Adapters \cap installed THEN PlatformExecute(tool, "NULL") ELSE {}

-----------------------------------------------------------------------------

\* A command's answer does not depend on the commands before it: a behaviour
\* is one command.
Init ==
  /\ installed \in SUBSET Adapters
  /\ command \in Commands
  /\ answer = "pending" /\ ran = {}

Execute ==
  /\ answer = "pending"
  /\ answer' = Answer(command)
  /\ ran' = IF Answer(command) = "adapter_run" THEN AdapterRun(command.sub) ELSE {}
  /\ UNCHANGED <<installed, command>>

Next == Execute
Spec == Init /\ [][Next]_vars

-----------------------------------------------------------------------------
(* Properties                                                              *)

\* The words that a handler takes from argv without looking at argc.
Taken ==
  [h \in {Rules[i].handler : i \in DOMAIN Rules} |->
     CASE h \in {"workspace_create", "workspace_open", "adapter_run",
                 "run_pipeline", "dsl_execute_file", "search", "cvss",
                 "report", "graph"} -> 2
       [] h \in {"knowledge_search", "knowledge_add"} -> 3
       [] h = "finding_create" -> 4
       [] OTHER -> 1]

\* No handler is reached with fewer words than it takes from argv, whose
\* last one is followed by a NULL that strcmp and strlen would read through
\* (shell.c:130-274): every way into a handler checks argc before.
ArgumentsArePresent ==
  answer \in DOMAIN Taken => command.argc >= Taken[answer]

\* run <tool> runs a tool that is there (README.md:55).
RunRunsTheTool ==
  (command.head = "run" /\ command.sub \in Adapters \cap installed)
    => answer = "pending" \/ ran = {command.sub}
=============================================================================
