------------------------------ MODULE Settings -------------------------------
(***************************************************************************)
(* What a configuration promises: at most one value for each key.  A set   *)
(* call gives a key its value; loading a file only fills in the keys that  *)
(* have none.                                                              *)
(***************************************************************************)
CONSTANTS Keys, Values

VARIABLES
  settings,  \* the value of each key, as a set with at most one element
  loading    \* a file is being loaded

Init == settings = [k \in Keys |-> {}] /\ loading = FALSE

Put(k, v) ==
  /\ ~loading
  /\ settings' = [settings EXCEPT ![k] = {v}]
  /\ UNCHANGED loading

BeginLoad == ~loading /\ loading' = TRUE /\ UNCHANGED settings

Fill(k, v) ==
  /\ loading /\ settings[k] = {}
  /\ settings' = [settings EXCEPT ![k] = {v}]
  /\ UNCHANGED loading

EndLoad == loading /\ loading' = FALSE /\ UNCHANGED settings

\* The end of the process, or ks_config_cleanup.
Clear == settings' = [k \in Keys |-> {}] /\ loading' = FALSE

Next ==
  \/ \E k \in Keys, v \in Values : Put(k, v) \/ Fill(k, v)
  \/ BeginLoad \/ EndLoad \/ Clear

Spec == Init /\ [][Next]_<<settings, loading>>
=============================================================================
