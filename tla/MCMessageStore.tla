--------------------------- MODULE MCMessageStore ---------------------------
(* Instances of MessageStore for TLC. *)
EXTENDS MessageStore, TLC

CONSTANTS p1, p2, c1, c2, m1, m2, m3, k1

\* Two conversations whose hashes collide; m2 carries an id that is no UUID.
MCConvOf == (m1 :> c1) @@ (m2 :> c1) @@ (m3 :> c2)
MCHashText == (c1 :> k1) @@ (c2 :> k1)

\* Processes are interchangeable.
MCSymmetry == Permutations({p1, p2})
=============================================================================
