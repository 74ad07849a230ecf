----------------------------- MODULE MCWebChat -----------------------------
(* An instance of WebChat: the other side's messages are interchangeable. *)
EXTENDS WebChat, TLC

MCSymmetry == Permutations(Others)
=============================================================================
