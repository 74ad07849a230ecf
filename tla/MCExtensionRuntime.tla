------------------------- MODULE MCExtensionRuntime -------------------------
(* Small instances of ExtensionRuntime for TLC. *)
EXTENDS ExtensionRuntime

CONSTANTS u1, u2

Config(allowFrom, approval, deniedReply, messages) ==
  [allowFrom |-> allowFrom, approval |-> approval, deniedReply |-> deniedReply,
   messages |-> messages]

MCInputs == {<<u1, FALSE>>, <<u1, TRUE>>, <<u2, FALSE>>}

\* An allowlist that is silent to the others; open to all with an approver.
MCConfigs == {Config({u1}, FALSE, FALSE, 2), Config({}, TRUE, TRUE, 1)}
\* An allowlist that answers the others.
MCDenying == {Config({u1}, FALSE, TRUE, 1)}
=============================================================================
