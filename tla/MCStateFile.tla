---------------------------- MODULE MCStateFile ----------------------------
(* Instances of StateFile: the dialogs are interchangeable. *)
EXTENDS StateFile, TLC

MCSymmetry == Permutations(Dialogs)
=============================================================================
