----------------------------- MODULE MessageLog -----------------------------
(***************************************************************************)
(* What the backend promises its readers: every conversation is one        *)
(* append-only log, the position of an entry is its seq, and no message id *)
(* is stored twice in a conversation.  History queries page through this   *)
(* log by position, so everything a client relies on after a reconnect is  *)
(* said here.  MessageStore is the detailed specification.                 *)
(***************************************************************************)
EXTENDS Sequences

CONSTANTS Conversations,   \* conversation ids (MQTT topics)
          Ids              \* message ids (the UUIDs stored with the rows)

VARIABLE log               \* log[c][n] is the id stored with seq n

Init == log = [c \in Conversations |-> << >>]

Holds(c, id) == \E n \in DOMAIN log[c] : log[c][n] = id

\* A new message takes the next position of its conversation.
Append1(c, id) ==
  /\ ~ Holds(c, id)
  /\ log' = [log EXCEPT ![c] = Append(@, id)]

Next == \E c \in Conversations, id \in Ids : Append1(c, id)

Spec == Init /\ [][Next]_log
=============================================================================
