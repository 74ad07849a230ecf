--------------------------- MODULE MCChatRouting ---------------------------
(***************************************************************************)
(* Two groups in which two bots carry each other's names, one of them the  *)
(* beginning of the other, and a direct conversation.  a1 may answer       *)
(* everywhere; a2 only in g2, unless its approver agrees.                  *)
(***************************************************************************)
EXTENDS ChatRouting, TLC

CONSTANTS g1, g2, a1, a2, k1, k2, k3

Ann == <<"ann">>
AnnLee == <<"ann", "lee">>

MCTargets == {[type |-> "group", id |-> g1], [type |-> "group", id |-> g2],
              [type |-> "bot", id |-> a1]}
MCWritten == {Ann, AnnLee}
MCTexts == {{AnnLee}}
MCAliases ==
  [g \in Groups |-> [b \in Bots |-> IF (g = g1) = (b = a1) THEN {Ann} ELSE {AnnLee}]]
MCBotName == [b \in Bots |-> IF b = a1 THEN Ann ELSE AnnLee]
MCMembers == [g \in Groups |-> IF g = g1 THEN {a1} ELSE Bots]

\* A file with three bots: a1 answers in every group, a2 follows the default
\* policy with an allow-list, the third is switched off.  The key of the default
\* bot comes from the environment.
Plain == [enabled |-> None, groupPolicy |-> "open", actions |-> None,
          channels |-> None, users |-> None]
Scoped == [Plain EXCEPT !.groupPolicy = None,
                        !.channels = [mode |-> None, items |-> {g2}]]
Off == [Plain EXCEPT !.enabled = FALSE]
Entry(key, bot) == [accessKey |-> key, id |-> None, bot |-> bot]
Unset == [accessKey |-> None, botId |-> None, defaultBot |-> None,
          channelPolicy |-> None, approvalEnabled |-> None, approver |-> None]
MCFile ==
  [bots |-> [one |-> Entry(k1, Plain), two |-> Entry(k2, Scoped),
             off |-> Entry(k2, Off)],
   order |-> [one |-> 1, two |-> 2, off |-> 3],
   bot |-> Plain] @@
  [Unset EXCEPT !.channelPolicy = "allowlist", !.approvalEnabled = TRUE,
                !.approver = "handler"]
MCEnv == [Unset EXCEPT !.accessKey = k3]

MCKeyOf == [b \in Bots |-> IF b = a1 THEN "one" ELSE "two"]
MCItems == Groups \cup {User}
=============================================================================
