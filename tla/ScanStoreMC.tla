----------------------------- MODULE ScanStoreMC -----------------------------
(* Two runs are interchangeable: no property names one. *)
EXTENDS ScanStore, TLC

RunSymmetry == Permutations(Runs)
===============================================================================
