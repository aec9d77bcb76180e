------------------------------- MODULE MCRecon -------------------------------
(* Instances of Recon for TLC.  The processes of the safety runs are         *)
(* interchangeable, as no definition names one.                             *)
EXTENDS Recon, TLC

ProcSymmetry == Permutations(Procs)
=============================================================================
