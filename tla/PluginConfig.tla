---------------------------- MODULE PluginConfig ----------------------------
(***************************************************************************)
(* What the bot plugin makes of its configuration (config.ts): the bots of *)
(* the file, or the one bot of the older single-bot settings, the          *)
(* environment variables that override them, and the permissions each      *)
(* runtime works with.                                                     *)
(*                                                                         *)
(* A file is a record of what it says, with None for a setting that is     *)
(* missing, empty or of the wrong type; env likewise.  bots is a function  *)
(* on the keys of "bots", None for an entry that is no object.  Addresses, *)
(* timeouts and paths are left out.                                        *)
(***************************************************************************)
EXTENDS Naturals

CONSTANTS Keys,        \* names of bots in the configuration
          DefaultKey,  \* "default"
          AccessKeys,
          BotIds,
          Items,       \* entries of allow-lists
          None

ASSUME ConfigAssumption ==
  /\ DefaultKey \in Keys
  /\ None \notin Keys \cup AccessKeys \cup BotIds
  /\ None \notin BOOLEAN

-----------------------------------------------------------------------------
(* Settings *)

ChannelPolicies == {"open", "allowlist"}
GroupPolicies == ChannelPolicies \cup {"disabled"}
MatchModes == {"id", "name", "any"}
Actions == {"sendMessage", "sendImage", "typing", "reactions", "threads"}

AllowLists == [mode : MatchModes, items : (SUBSET Items) \ {{}}]

BotConfigs ==
  [accessKey : AccessKeys, id : BotIds \cup {None}, enabled : BOOLEAN,
   groupPolicy : GroupPolicies, actions : [Actions -> BOOLEAN],
   channels : AllowLists \cup {None}, users : AllowLists \cup {None}]

RawLists == [mode : MatchModes \cup {None}, items : SUBSET Items] \cup {None}

\* What an entry of "bots", or the older settings, may say of a bot.
RawBots ==
  [enabled : BOOLEAN \cup {None}, groupPolicy : GroupPolicies \cup {None},
   actions : [Actions -> BOOLEAN \cup {None}] \cup {None},
   channels : RawLists, users : RawLists]

\* readString, readBoolean, readInteger and "??": the first value there is.
First(value, fallback) == IF value # None THEN value ELSE fallback

\* normalizeAllowList: a list without items is no list.
NormalizeAllowList(raw) ==
  IF raw = None \/ raw.items = {} THEN None
  ELSE [mode |-> First(raw.mode, "any"), items |-> raw.items]

DefaultActions == [a \in Actions |-> a \in {"sendMessage", "sendImage", "typing"}]

\* resolveActionPermissions(readActions()): flags that are no booleans count
\* as missing.
ResolveActions(raw) ==
  [a \in Actions |-> IF raw = None THEN DefaultActions[a]
                     ELSE First(raw[a], DefaultActions[a])]

ReadChannelPolicy(value, fallback) == First(value, First(fallback, "open"))

ReadGroupPolicy(value, defaultChannelPolicy) == First(value, defaultChannelPolicy)

-----------------------------------------------------------------------------
(* Inputs *)

\* What stands beside the bots, or in the environment.
Overrides(o) ==
  /\ o.accessKey \in AccessKeys \cup {None} /\ o.botId \in BotIds \cup {None}
  /\ o.defaultBot \in Keys \cup {None}
  /\ o.channelPolicy \in ChannelPolicies \cup {None}
  /\ o.approvalEnabled \in BOOLEAN \cup {None}

\* A file with its bots, their order, and the older settings of a single bot.
FileType(file) ==
  /\ Overrides(file)
  /\ file.bot \in RawBots
  /\ DOMAIN file.bots \subseteq Keys
  /\ file.order \in [DOMAIN file.bots -> Nat]
  /\ \A k \in DOMAIN file.bots : file.bots[k] # None =>
       /\ file.bots[k].accessKey \in AccessKeys \cup {None}
       /\ file.bots[k].id \in BotIds \cup {None}
       /\ file.bots[k].bot \in RawBots

-----------------------------------------------------------------------------
(* Bots *)

\* What an entry of "bots" and the older settings have in common.
BotConfig(raw, accessKey, id, policy) ==
  [accessKey |-> accessKey, id |-> id, enabled |-> First(raw.enabled, TRUE),
   groupPolicy |-> ReadGroupPolicy(raw.groupPolicy, policy),
   actions |-> ResolveActions(raw.actions),
   channels |-> NormalizeAllowList(raw.channels),
   users |-> NormalizeAllowList(raw.users)]

Entries(file) == {k \in DOMAIN file.bots : file.bots[k] # None}

ReadBots(file, policy) ==
  [k \in Entries(file) |->
     BotConfig(file.bots[k].bot, file.bots[k].accessKey, file.bots[k].id, policy)]

\* One bot from the settings at the top of the file.
BuildLegacyBots(file, accessKey, botId, policy, defaultBot) ==
  [k \in {First(defaultBot, DefaultKey)} |->
     BotConfig(file.bot, accessKey, botId, policy)]

\* The key and the id given beside the bots replace those of the default bot,
\* each for itself.
ApplyLegacyOverrides(bots, selected, accessKey, botId) ==
  [k \in DOMAIN bots |->
     IF k # selected THEN bots[k]
     ELSE [bots[k] EXCEPT !.accessKey = First(accessKey, @),
                          !.id = First(botId, @)]]

-----------------------------------------------------------------------------
(* loadConfig *)

AccessKeyOf(file, env) == First(env.accessKey, file.accessKey)
BotIdOf(file, env) == First(env.botId, file.botId)
PolicyOf(file, env) == ReadChannelPolicy(env.channelPolicy, file.channelPolicy)
NamedBot(file, env) == First(env.defaultBot, file.defaultBot)

\* Object.keys(bots)[0]
FirstKey(file) ==
  CHOOSE k \in Entries(file) : \A l \in Entries(file) : file.order[k] <= file.order[l]

\* loadConfig throws.
Refused(file, env) ==
  \/ \E k \in Entries(file) : file.bots[k].accessKey = None
  \/ Entries(file) = {} /\ AccessKeyOf(file, env) = None
  \/ /\ Entries(file) # {}
     /\ NamedBot(file, env) # None /\ NamedBot(file, env) \notin Entries(file)

DefaultBot(file, env) ==
  First(NamedBot(file, env),
        IF Entries(file) = {} THEN DefaultKey ELSE FirstKey(file))

LoadBots(file, env) ==
  IF Entries(file) = {}
  THEN BuildLegacyBots(file, AccessKeyOf(file, env), BotIdOf(file, env),
                       PolicyOf(file, env), NamedBot(file, env))
  ELSE ApplyLegacyOverrides(ReadBots(file, PolicyOf(file, env)),
                            DefaultBot(file, env), AccessKeyOf(file, env),
                            BotIdOf(file, env))

\* getEnabledBots: the bots that get a runtime.
EnabledBots(file, env) ==
  {k \in DOMAIN LoadBots(file, env) : LoadBots(file, env)[k].enabled}

\* createPermissionApprover: an approver needs a handler or a URL.
HasApprover(file, env) ==
  /\ First(env.approvalEnabled, First(file.approvalEnabled, FALSE))
  /\ First(env.approver, file.approver) # None
=============================================================================
