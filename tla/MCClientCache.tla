--------------------------- MODULE MCClientCache ---------------------------
(* Seconds for ClientCache: the senders' clocks agree with the order in     *)
(* which the backend stores, and two messages share a second.               *)
EXTENDS ClientCache, TLC

MCCreatedAt == [m \in Messages |-> (m + 1) \div 2]
RoomSymmetry == Permutations(Rooms)
=============================================================================
