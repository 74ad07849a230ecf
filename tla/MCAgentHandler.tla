--------------------------- MODULE MCAgentHandler ---------------------------
(* Small instances of AgentHandler for TLC. *)
EXTENDS AgentHandler

CONSTANTS pin, pout, s1

Local(tool, path, size, expected) ==
  [kind |-> "local", tool |-> tool, path |-> path, size |-> size, expected |-> expected]
Remote(path) ==
  [kind |-> "remote", tool |-> "edit", path |-> path, size |-> 1, expected |-> 0]
Unknown == [kind |-> "unknown", tool |-> "none", path |-> pin, size |-> 1, expected |-> 0]

\* Two calls: edits inside and outside of the roots, replacements with a right
\* and a wrong expectation, an unknown tool.
MCPlans ==
  { <<Local("write", pin, 1, 0), Remote(pout)>>,
    <<Local("append", pout, 1, 0), Remote(pin)>>,
    <<Local("replaceAll", pin, 1, 1), Local("append", pin, 1, 0)>>,
    <<Local("replace", pin, 1, 1), Unknown>> }
=============================================================================
