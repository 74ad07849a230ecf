--------------------------- MODULE MCBotRuntime ---------------------------
(***************************************************************************)
(* Two dialogs that each hold one older message; a1, a2, b1 and b2 are     *)
(* published while the runtime starts, runs, loses its connection or       *)
(* restarts.                                                               *)
(***************************************************************************)
EXTENDS BotRuntime

CONSTANTS da, db, a0, a1, a2, b0, b1, b2

MCDialogOf ==
  [m \in Messages |-> IF m \in {a0, a1, a2} THEN da ELSE db]

MCInitialLog ==
  [d \in Dialogs |-> IF d = da THEN <<a0>> ELSE <<b0>>]
=============================================================================
