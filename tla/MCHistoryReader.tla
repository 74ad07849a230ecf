--------------------------- MODULE MCHistoryReader ---------------------------
(* An instance of HistoryReader for TLC: two conversations under one lock key;
   m2 carries no UUID, so each of its copies is stored, and m3 is not valid. *)
EXTENDS HistoryReader, TLC

CONSTANTS p1, p2, c1, c2, m1, m2, m3, k1

MCConvOf == (m1 :> c1) @@ (m2 :> c1) @@ (m3 :> c2)
MCHashText == (c1 :> k1) @@ (c2 :> k1)
=============================================================================
