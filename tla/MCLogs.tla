-------------------------------- MODULE MCLogs --------------------------------
(***************************************************************************)
(* Session logs and workflows, which share no state, checked side by side: *)
(* a behaviour is one of a single part, the other stays as it begins.      *)
(*                                                                         *)
(* Sessions have two processes, one name that both can take and three      *)
(* seconds, the last two of them an hour apart at the end of daylight      *)
(* saving time, so that the local clock shows the same.                    *)
(***************************************************************************)
EXTENDS Session, Workflow

VARIABLE part  \* the part that moves

SetBack == <<1, 2, 2>>

LogsInit == part \in {"sessions", "workflows"} /\ Init /\ FlowInit

LogsNext ==
  \/ part = "sessions" /\ Next /\ UNCHANGED <<part, flowVars>>
  \/ part = "workflows" /\ FlowNext /\ UNCHANGED <<part, vars>>

LogsSpec == LogsInit /\ [][LogsNext]_<<part, vars, flowVars>>

\* Every variable of both parts has its type (session.c:7-12, pipeline.c:6-25).
LogsTypeOK == TypeOK /\ FlowTypeOK
=============================================================================
