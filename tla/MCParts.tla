------------------------------- MODULE MCParts -------------------------------
(***************************************************************************)
(* Four parts that share no state, checked side by side: a behaviour is    *)
(* one of a single part, the others stay as they begin.                    *)
(***************************************************************************)
EXTENDS MCCommands, MCKnowledge, Config, Cvss

VARIABLE part  \* the part that moves

\* Two values that are read back as they are, one of them empty; and "vn",
\* which is v, a newline and b: "v without the quote that ends it.
Line(k, v) == [key |-> k, value |-> v]
MCAsRead ==
  [k \in {"a", "b"} |->
     [v \in {"", "v", "vn"} |->
        IF v = "vn" THEN << Line(k, "v"), Line("b", "v") >>
        ELSE << Line(k, v) >>]]
MCTorn == { Line("a", "") }
MCFiles == { <<>>, << Line("a", "v"), Skipped, Line("a", "") >> }

PartsInit ==
  /\ part \in {"commands", "knowledge", "config", "cvss"}
  /\ Init /\ KnowledgeInit /\ ConfigInit /\ CvssInit
  /\ part # "commands" =>
       installed = {} /\ command = [head |-> "help", sub |-> "none", argc |-> 1]
  /\ part # "config" => file = <<>>

PartsNext ==
  \/ /\ part = "commands" /\ Next
     /\ UNCHANGED <<part, knowledgeVars, configVars, cvssVars>>
  \/ /\ part = "knowledge" /\ KnowledgeNext
     /\ UNCHANGED <<part, vars, configVars, cvssVars>>
  \/ /\ part = "config" /\ ConfigNext
     /\ UNCHANGED <<part, vars, knowledgeVars, cvssVars>>
  \/ /\ part = "cvss" /\ CvssNext
     /\ UNCHANGED <<part, vars, knowledgeVars, configVars>>

PartsSpec == PartsInit /\ [][PartsNext]_<<part, vars, knowledgeVars, configVars,
                                          cvssVars>>

\* Every variable of the three parts that have several steps has its type, and
\* the configuration has no more entries than its array has room for
\* (config.c:59-67, 99-107).
PartsTypeOK ==
  KnowledgeTypeOK /\ ConfigTypeOK /\ EntriesFit /\ CvssTypeOK
=============================================================================
