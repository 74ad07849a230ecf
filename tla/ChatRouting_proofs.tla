--------------------------- MODULE ChatRouting_proofs ---------------------------
(***************************************************************************)
(* Proofs about PluginConfig and ChatRouting: what loadConfig makes of any *)
(* file and any environment; and, for any bots, groups, names and texts,   *)
(* who answers a message, and that nobody who was asked is passed over.    *)
(*                                                                         *)
(* The argument: the list of a group's bots is the one of the group on     *)
(* display once no request is under way (ListInv), so what the composer    *)
(* encodes is what the text means (LogInv).  A task has passed the filter  *)
(* and the permissions and holds the session of its topic (TaskInv), and a *)
(* session belongs to one topic (SessionInv).                              *)
(***************************************************************************)
EXTENDS ChatRouting, FiniteSetTheorems, SequenceTheorems, TLAPS

-----------------------------------------------------------------------------
(* The configuration *)

LEMMA FirstType ==
  ASSUME NEW S, NEW value \in S \cup {None}, NEW fallback \in S
  PROVE  First(value, fallback) \in S
BY DEF First

LEMMA AllowListType ==
  ASSUME NEW raw \in RawLists
  PROVE  NormalizeAllowList(raw) \in AllowLists \cup {None}
<1>1. CASE raw = None \/ raw.items = {}
  BY <1>1 DEF NormalizeAllowList
<1>2. CASE ~ (raw = None \/ raw.items = {})
  <2>1. raw.mode \in MatchModes \cup {None} /\ raw.items \in (SUBSET Items) \ {{}}
    BY <1>2 DEF RawLists
  <2>2. First(raw.mode, "any") \in MatchModes
    BY <2>1, FirstType DEF MatchModes
  <2> QED
    BY <1>2, <2>1, <2>2 DEF NormalizeAllowList, AllowLists
<1> QED
  BY <1>1, <1>2

LEMMA ActionsType ==
  ASSUME NEW raw \in [Actions -> BOOLEAN \cup {None}] \cup {None}
  PROVE  ResolveActions(raw) \in [Actions -> BOOLEAN]
<1>1. ASSUME NEW a \in Actions
      PROVE  (IF raw = None THEN DefaultActions[a]
              ELSE First(raw[a], DefaultActions[a])) \in BOOLEAN
  <2>1. DefaultActions[a] \in BOOLEAN
    BY <1>1 DEF DefaultActions
  <2>2. CASE raw = None
    BY <2>1, <2>2
  <2>3. CASE raw # None
    <3>1. raw[a] \in BOOLEAN \cup {None}
      BY <1>1, <2>3
    <3> QED
      BY <2>1, <2>3, <3>1, FirstType
  <2> QED
    BY <2>2, <2>3
<1> QED
  BY <1>1 DEF ResolveActions

LEMMA BotConfigType ==
  ASSUME NEW raw \in RawBots, NEW accessKey \in AccessKeys,
         NEW id \in BotIds \cup {None}, NEW policy \in ChannelPolicies
  PROVE  BotConfig(raw, accessKey, id, policy) \in BotConfigs
<1>1. First(raw.enabled, TRUE) \in BOOLEAN
  <2>1. raw.enabled \in BOOLEAN \cup {None}
    BY DEF RawBots
  <2> QED
    BY <2>1, FirstType
<1>2. ReadGroupPolicy(raw.groupPolicy, policy) \in GroupPolicies
  <2>1. raw.groupPolicy \in GroupPolicies \cup {None} /\ policy \in GroupPolicies
    BY DEF RawBots, GroupPolicies
  <2> QED
    BY <2>1, FirstType DEF ReadGroupPolicy
<1>3. ResolveActions(raw.actions) \in [Actions -> BOOLEAN]
  BY ActionsType DEF RawBots
<1>4. NormalizeAllowList(raw.channels) \in AllowLists \cup {None}
  BY AllowListType DEF RawBots
<1>5. NormalizeAllowList(raw.users) \in AllowLists \cup {None}
  BY AllowListType DEF RawBots
<1> QED
  BY <1>1, <1>2, <1>3, <1>4, <1>5 DEF BotConfig, BotConfigs

LEMMA PolicyType ==
  ASSUME NEW file, NEW env, FileType(file), Overrides(env)
  PROVE  PolicyOf(file, env) \in ChannelPolicies
<1>1. /\ env.channelPolicy \in ChannelPolicies \cup {None}
      /\ file.channelPolicy \in ChannelPolicies \cup {None}
  BY DEF FileType, Overrides
<1>2. First(file.channelPolicy, "open") \in ChannelPolicies
  BY <1>1, FirstType DEF ChannelPolicies
<1> QED
  BY <1>1, <1>2, FirstType DEF PolicyOf, ReadChannelPolicy

\* The access key and the id given beside the bots, if they are given.
LEMMA OverrideType ==
  ASSUME NEW file, NEW env, FileType(file), Overrides(env)
  PROVE  /\ AccessKeyOf(file, env) \in AccessKeys \cup {None}
         /\ BotIdOf(file, env) \in BotIds \cup {None}
         /\ NamedBot(file, env) \in Keys \cup {None}
BY DEF FileType, Overrides, AccessKeyOf, BotIdOf, NamedBot, First

\* Whatever loadConfig accepts gives every bot an access key, and settings the
\* permission checks can work with: flags for all actions, a policy for groups,
\* allow-lists that are absent or not empty (config.ts:239-371).
THEOREM LoadedBotsType ==
  ASSUME NEW file, NEW env, FileType(file), Overrides(env), ~ Refused(file, env)
  PROVE  \A k \in DOMAIN LoadBots(file, env) :
           LoadBots(file, env)[k] \in BotConfigs
<1> DEFINE key == AccessKeyOf(file, env)
           id == BotIdOf(file, env)
           policy == PolicyOf(file, env)
<1>1. /\ policy \in ChannelPolicies
      /\ key \in AccessKeys \cup {None} /\ id \in BotIds \cup {None}
  BY PolicyType, OverrideType
<1>2. CASE Entries(file) = {}
  <2>1. key \in AccessKeys
    BY <1>1, <1>2 DEF Refused
  <2>2. BotConfig(file.bot, key, id, policy) \in BotConfigs
    BY <1>1, <2>1, BotConfigType DEF FileType
  <2>3. LoadBots(file, env) =
          [k \in {First(NamedBot(file, env), DefaultKey)} |->
             BotConfig(file.bot, key, id, policy)]
    BY <1>2 DEF LoadBots, BuildLegacyBots
  <2> QED
    BY <2>2, <2>3
<1>3. CASE Entries(file) # {}
  <2> DEFINE read == ReadBots(file, policy)
             chosen == DefaultBot(file, env)
  <2>1. LoadBots(file, env) = ApplyLegacyOverrides(read, chosen, key, id)
    BY <1>3 DEF LoadBots
  <2>2. DOMAIN read = Entries(file)
    BY DEF ReadBots
  <2>3. ASSUME NEW k \in Entries(file)
        PROVE  read[k] \in BotConfigs
    <3>1. /\ k \in DOMAIN file.bots /\ file.bots[k] # None
          /\ file.bots[k].accessKey # None
      BY <2>3 DEF Entries, Refused
    <3>2. /\ file.bots[k].accessKey \in AccessKeys
          /\ file.bots[k].id \in BotIds \cup {None}
          /\ file.bots[k].bot \in RawBots
      BY <3>1 DEF FileType
    <3>3. read[k] = BotConfig(file.bots[k].bot, file.bots[k].accessKey,
                              file.bots[k].id, policy)
      BY <2>3 DEF ReadBots
    <3> QED
      BY <1>1, <3>2, <3>3, BotConfigType
  <2>4. ASSUME NEW k \in Entries(file)
        PROVE  ApplyLegacyOverrides(read, chosen, key, id)[k] \in BotConfigs
    <3> DEFINE over == [read[k] EXCEPT !.accessKey = First(key, @),
                                       !.id = First(id, @)]
    <3>1. First(key, read[k].accessKey) \in AccessKeys
      BY <1>1, <2>3, <2>4, FirstType DEF BotConfigs
    <3>2. First(id, read[k].id) \in BotIds \cup {None}
      BY <1>1, <2>3, <2>4 DEF BotConfigs, First
    <3>3. over \in BotConfigs
      BY <2>3, <2>4, <3>1, <3>2 DEF BotConfigs
    <3>4. ApplyLegacyOverrides(read, chosen, key, id)[k] \in {read[k], over}
      BY <2>2, <2>4 DEF ApplyLegacyOverrides
    <3> QED
      BY <2>3, <2>4, <3>3, <3>4
  <2>5. DOMAIN ApplyLegacyOverrides(read, chosen, key, id) = Entries(file)
    BY <2>2 DEF ApplyLegacyOverrides
  <2> QED
    BY <2>1, <2>4, <2>5
<1> QED
  BY <1>2, <1>3

LEMMA FirstKeyExists ==
  ASSUME NEW file, FileType(file), Entries(file) # {}
  PROVE  FirstKey(file) \in Entries(file)
<1> DEFINE places == {file.order[k] : k \in Entries(file)}
<1>1. places \in SUBSET Nat /\ places # {}
  BY DEF FileType, Entries
<1>2. PICK least \in places : \A n \in places : least <= n
  <2> HIDE DEF places
  <2>1. \E m \in places : \A n \in places : ~ (<<n, m>> \in OpToRel(<, Nat))
    BY <1>1, WFMin, NatLessThanWellFounded
  <2>2. \A m, n \in Nat : ~ (<<n, m>> \in OpToRel(<, Nat)) => m <= n
    BY DEF OpToRel
  <2> QED
    BY <1>1, <2>1, <2>2
<1>3. PICK k \in Entries(file) : file.order[k] = least
  BY <1>2
<1>4. \A l \in Entries(file) : file.order[k] <= file.order[l]
  BY <1>2, <1>3
<1> QED
  BY <1>3, <1>4 DEF FirstKey

\* The default bot is one of the configured bots, so the settings that follow
\* it (config.ts:162-165) are there (config.ts:117-126).
THEOREM DefaultBotConfigured ==
  ASSUME NEW file, NEW env, FileType(file), Overrides(env), ~ Refused(file, env)
  PROVE  DefaultBot(file, env) \in DOMAIN LoadBots(file, env)
<1>1. CASE Entries(file) = {}
  <2>1. DOMAIN LoadBots(file, env) = {First(NamedBot(file, env), DefaultKey)}
    BY <1>1 DEF LoadBots, BuildLegacyBots
  <2> QED
    BY <1>1, <2>1 DEF DefaultBot
<1>2. CASE Entries(file) # {}
  <2>1. DOMAIN LoadBots(file, env) = Entries(file)
    BY <1>2 DEF LoadBots, ApplyLegacyOverrides, ReadBots
  <2>2. FirstKey(file) \in Entries(file)
    BY <1>2, FirstKeyExists
  <2>3. NamedBot(file, env) # None => NamedBot(file, env) \in Entries(file)
    BY <1>2 DEF Refused
  <2> QED
    BY <1>2, <2>1, <2>2, <2>3 DEF DefaultBot, First
<1> QED
  BY <1>1, <1>2

\* The key and the id of the environment reach the default bot alone: whatever
\* they are, every other bot of the file keeps what the file says of it
\* (config.ts:338-371).
THEOREM OthersKeepTheirs ==
  ASSUME NEW file, NEW env, Entries(file) # {},
         NEW k \in Entries(file), k # DefaultBot(file, env)
  PROVE  LoadBots(file, env)[k] =
           BotConfig(file.bots[k].bot, file.bots[k].accessKey, file.bots[k].id,
                     PolicyOf(file, env))
BY DEF LoadBots, ApplyLegacyOverrides, ReadBots

-----------------------------------------------------------------------------
(* The invariant *)

Lists == [group : Groups \cup {None}, bots : SUBSET Bots]
Captures ==
  [target : Targets, from : Lists, settled : BOOLEAN, text : SUBSET Written,
   mounted : BOOLEAN]
Requests ==
  [source : Nat, answer : {"reply", "notice", "silence"}, session : Nat]

Types ==
  /\ members \in [Groups -> SUBSET Bots]
  /\ current \in Targets \cup {None} /\ list \in Lists
  /\ loads \subseteq [group : Groups, cancelled : BOOLEAN]
  /\ draft \in (SUBSET Written) \cup {None} /\ uploads \subseteq Captures
  /\ messages \in Seq(MessageType) /\ refused \subseteq DOMAIN messages
  /\ up \in [Bots -> BOOLEAN] /\ subs \in [Bots -> SUBSET Groups]
  /\ inbox \in [Bots -> Seq(Nat)] /\ tasks \in [Bots -> SUBSET Requests]
  /\ heard \in [Bots -> SUBSET Nat] /\ sessions \in [Bots -> [Topics -> Nat]]

\* What the runtimes hold are publications.
Pointers ==
  \A b \in Bots :
    /\ heard[b] \subseteq DOMAIN messages
    /\ \A i \in DOMAIN inbox[b] : inbox[b][i] \in DOMAIN messages
    /\ \A t \in tasks[b] : t.source \in DOMAIN messages

\* A request that still counts is for the group on display; without one the
\* list is that group's.
ListInv ==
  /\ \A l \in loads : ~ l.cancelled =>
       current # None /\ current.type = "group" /\ l.group = current.id
  /\ current # None /\ current.type = "group" /\ Settled => list.group = current.id

Honest(c) == c.target.type = "group" /\ c.settled => c.from.group = c.target.id

\* No alias of a group names two of its bots.
AliasesTellApart ==
  \A g \in Groups : \A b, c \in Bots :
    Aliases[g][b] \cap Aliases[g][c] # {} => b = c

\* A message of the user.
Asked(m) ==
  /\ m.answer = "none" /\ m.from = UserPeer
  /\ m.to \in Targets /\ m.topic = SendTopic(m.to)
  /\ m.to.type = "group" /\ m.settled =>
       /\ m.mentions \subseteq Meant(m)
       /\ AliasesTellApart => Meant(m) \subseteq m.mentions

Allowed(m, b) == HasApprover(ConfigFile, Env) \/ Permitted(m, b)

\* A message of a bot.
Answered(r) ==
  \E b \in Bots : \E n \in DOMAIN messages :
    /\ r.answer \in {"reply", "notice"} /\ r.from = BotPeer(b)
    /\ r.source = n /\ ShouldProcess(messages[n], b) /\ r.topic = messages[n].topic
    /\ r.answer = "reply" =>
         /\ Allowed(messages[n], b)
         /\ r.session # 0 /\ r.session = sessions[b][r.topic]

Explained(n) == Asked(messages[n]) \/ Answered(messages[n])

LogInv == \A n \in DOMAIN messages : Explained(n)

TaskInv ==
  \A b \in Bots : \A t \in tasks[b] :
    LET m == messages[t.source] IN
    /\ ShouldProcess(m, b)
    /\ t.answer = "reply" =>
         /\ Allowed(m, b)
         /\ t.session # 0 /\ t.session = sessions[b][m.topic]
    /\ \A u \in tasks[b] : messages[u.source].topic = m.topic => u = t

SessionInv ==
  \A b \in Bots : \A t, u \in Topics :
    sessions[b][t] = sessions[b][u] /\ sessions[b][t] # 0 => t = u

WaitInv == AliasesTellApart => AskedNotLost

IInv ==
  /\ Types /\ Pointers /\ ListInv /\ (\A u \in uploads : Honest(u))
  /\ LogInv /\ TaskInv /\ SessionInv /\ WaitInv

-----------------------------------------------------------------------------
(* Names and topics *)

LEMMA PrefixesEqual ==
  ASSUME NEW a \in Written, NEW b \in Written, NEW w,
         IsPrefix(a, w), IsPrefix(b, w), Len(a) = Len(b)
  PROVE  a = b
<1>1. a \in Seq(STRING) /\ b \in Seq(STRING)
  BY RoutingAssumption
<1>2. SubSeq(a, 1, Len(a)) = a /\ SubSeq(b, 1, Len(b)) = b
  BY <1>1
<1> QED
  BY <1>2 DEF IsPrefix

LEMMA DenotedHere ==
  ASSUME NEW from \in Lists, NEW w, NEW c \in Denoted(from, w)
  PROVE  \E b \in from.bots, a \in Written :
           /\ c = <<b, a>> /\ a \in AliasesIn(from.group, b) /\ IsPrefix(a, w)
           /\ \A d \in from.bots : \A e \in AliasesIn(from.group, d) \cap Written :
                IsPrefix(e, w) => Len(e) <= Len(a)
<1>1. PICK b \in from.bots, a \in Written :
        c = <<b, a>> /\ a \in AliasesIn(from.group, b) /\ IsPrefix(a, w)
  BY DEF Denoted, Candidates
<1>2. ASSUME NEW d \in from.bots, NEW e \in AliasesIn(from.group, d) \cap Written, IsPrefix(e, w)
      PROVE  Len(e) <= Len(a)
  <2>1. <<d, e>> \in Candidates(from, w)
    BY <1>2 DEF Candidates
  <2>2. Len(<<d, e>>[2]) <= Len(c[2])
    BY <2>1 DEF Denoted
  <2> QED
    BY <1>1, <2>2
<1> QED
  BY <1>1, <1>2

\* encodeMentionedBots gives bots of the list.
LEMMA EncodedListed ==
  ASSUME NEW from \in Lists, NEW text
  PROVE  Encoded(text, from) \subseteq from.bots /\ Encoded(text, from) \in SUBSET Bots
<1>1. ASSUME NEW w, Denoted(from, w) # {}
      PROVE  (CHOOSE c \in Denoted(from, w) : TRUE)[1] \in from.bots
  <2>1. PICK c : c = CHOOSE x \in Denoted(from, w) : TRUE
    OBVIOUS
  <2>2. c \in Denoted(from, w)
    BY <1>1, <2>1
  <2>3. c[1] \in from.bots
    BY <2>2, DenotedHere
  <2> QED
    BY <2>1, <2>3
<1>2. Encoded(text, from) \subseteq from.bots
  BY <1>1 DEF Encoded
<1> QED
  BY <1>2 DEF Lists

\* What the composer encodes is what the text means among the bots it has listed.
LEMMA EncodedIsMeant ==
  ASSUME NEW g \in Groups, NEW from \in Lists, from.group = g, NEW text \in SUBSET Written,
         NEW m, m.topic.group = g, m.listed = from.bots, m.text = text
  PROVE  /\ Encoded(text, from) \subseteq Meant(m)
         /\ AliasesTellApart => Meant(m) \subseteq Encoded(text, from)
<1> DEFINE Fits(b, a, w) ==
             /\ b \in from.bots /\ a \in Aliases[g][b] /\ IsPrefix(a, w)
             /\ \A d \in from.bots : \A e \in Aliases[g][d] : IsPrefix(e, w) => Len(e) <= Len(a)
           first(w) == CHOOSE c \in Denoted(from, w) : TRUE
<1>1. \A b \in from.bots : AliasesIn(from.group, b) = Aliases[g][b] /\ Aliases[g][b] \subseteq Written
  BY RoutingAssumption DEF AliasesIn, Lists
<1>2. ASSUME NEW w, Denoted(from, w) # {}
      PROVE  \E a \in Written : first(w)[1] \in Bots /\ Fits(first(w)[1], a, w)
  <2>1. PICK c : c = first(w)
    OBVIOUS
  <2>2. c \in Denoted(from, w)
    BY <1>2, <2>1
  <2>3. PICK b \in from.bots, a \in Written :
          /\ c = <<b, a>> /\ a \in AliasesIn(from.group, b) /\ IsPrefix(a, w)
          /\ \A d \in from.bots : \A e \in AliasesIn(from.group, d) \cap Written :
               IsPrefix(e, w) => Len(e) <= Len(a)
    BY <2>2, DenotedHere
  <2>4. Fits(b, a, w)
    BY <1>1, <2>3
  <2>5. b \in Bots
    BY DEF Lists
  <2>6. first(w)[1] = b
    <3> HIDE DEF Fits, first
    <3>1. c[1] = b
      BY <2>3
    <3> QED
      BY <2>1, <3>1
  <2> HIDE DEF Fits, first
  <2> QED
    BY <2>4, <2>5, <2>6
<1>3. Meant(m) = {b \in from.bots : \E w \in text : \E a : Fits(b, a, w)}
  BY DEF Meant
<1>4. ASSUME NEW b \in Encoded(text, from) PROVE b \in Meant(m)
  <2>1. PICK w \in text : Denoted(from, w) # {} /\ b = first(w)[1]
    BY DEF Encoded
  <2>2. PICK a \in Written : Fits(b, a, w)
    BY <1>2, <2>1
  <2> QED
    BY <1>3, <2>2
<1>5. ASSUME AliasesTellApart, NEW b \in Meant(m) PROVE b \in Encoded(text, from)
  <2>1. PICK w \in text, a \in Written : Fits(b, a, w)
    BY <1>1, <1>3
  <2>2. a \in Written /\ b \in Bots
    BY <1>1, <2>1 DEF Lists
  <2>3. <<b, a>> \in Denoted(from, w)
    <3>1. <<b, a>> \in Candidates(from, w)
      BY <1>1, <2>1, <2>2 DEF Candidates
    <3>2. \A d \in Candidates(from, w) : Len(d[2]) <= Len(<<b, a>>[2])
      BY <1>1, <2>1 DEF Candidates
    <3> QED
      BY <3>1, <3>2 DEF Denoted
  <2>4. PICK e \in Written : first(w)[1] \in Bots /\ Fits(first(w)[1], e, w)
    BY <1>2, <2>3
  <2>5. PICK c \in Bots : c = first(w)[1] /\ Fits(c, e, w)
    BY <2>4
  <2>6. Len(a) = Len(e)
    <3>1. Len(a) \in Nat /\ Len(e) \in Nat
      BY <2>2, RoutingAssumption
    <3>2. Len(a) <= Len(e) /\ Len(e) <= Len(a)
      BY <2>1, <2>5
    <3> QED
      BY <3>1, <3>2
  <2>7. a = e
    BY <2>1, <2>2, <2>5, <2>6, PrefixesEqual
  <2>8. b = c
    BY <1>5, <2>1, <2>2, <2>5, <2>7 DEF AliasesTellApart
  <2> HIDE DEF first
  <2>9. b = first(w)[1]
    BY <2>5, <2>8
  <2> QED
    BY <2>3, <2>9 DEF Encoded, first
<1> QED
  BY <1>4, <1>5

LEMMA TargetShape ==
  ASSUME NEW t \in Targets
  PROVE  /\ t \in Peers \cup GroupPeers /\ SendTopic(t) \in Topics
         /\ \/ /\ t.type = "group" /\ t.id \in Groups /\ t.id # None
               /\ SendTopic(t).group = t.id
            \/ /\ t.type = "bot" /\ t.id \in Bots /\ t = BotPeer(t.id)
               /\ SendTopic(t) = [group |-> None, left |-> UserPeer, right |-> t]
<1>1. t \in GroupPeers \cup [type : {"bot"}, id : Bots]
  BY RoutingAssumption
<1>2. SendTopic(t) \in Topics /\ t \in Peers \cup GroupPeers
  BY <1>1 DEF Topics, Peers
<1>3. CASE t \in GroupPeers
  BY <1>2, <1>3, RoutingAssumption DEF GroupPeers, SendTopic, GroupTopic
<1>4. CASE t \in [type : {"bot"}, id : Bots]
  BY <1>2, <1>4 DEF SendTopic, DirectTopic, Rank, UserPeer, BotPeer
<1> QED
  BY <1>1, <1>3, <1>4

\* A reply keeps the topic, and a client files it where the question is.
LEMMA TopicKept ==
  ASSUME NEW t \in Targets
  PROVE  ReplyTopic(SendTopic(t)) = SendTopic(t) /\ FiledUnder(SendTopic(t)) = SendTopic(t)
<1>1. t \in GroupPeers \cup [type : {"bot"}, id : Bots] /\ None \notin Groups
  BY RoutingAssumption
<1> QED
  BY <1>1 DEF GroupPeers, ReplyTopic, FiledUnder, SendTopic, GroupTopic, DirectTopic, Rank, UserPeer

\* What the user sends, with what the composer has captured.
LEMMA MessageAsked ==
  ASSUME NEW c \in Captures, Honest(c), NEW m, m = Message(c)
  PROVE  m \in MessageType /\ Asked(m)
<1>1. PICK mentions : mentions = Encoded(c.text, c.from)
  OBVIOUS
<1>2. mentions \in SUBSET Bots
  BY <1>1, EncodedListed DEF Captures
<1>3. PICK topic : topic = SendTopic(c.target)
  OBVIOUS
<1>4. topic \in Topics /\ c.target \in Peers \cup GroupPeers /\ UserPeer \in Peers
  BY <1>3, TargetShape DEF Captures, UserPeer, Peers
<1>5. m = [from |-> UserPeer, to |-> c.target, topic |-> topic, mentions |-> mentions,
           source |-> 0, session |-> 0, answer |-> "none", text |-> c.text,
           listed |-> c.from.bots, settled |-> c.settled]
  BY <1>1, <1>3 DEF Message
<1>6. m \in MessageType
  BY <1>2, <1>4, <1>5 DEF Captures, Lists, MessageType
<1>7. ASSUME m.to.type = "group", m.settled
      PROVE  m.mentions \subseteq Meant(m) /\ (AliasesTellApart => Meant(m) \subseteq m.mentions)
  <2>1. /\ m.to = c.target /\ c.target.type = "group" /\ c.from.group = c.target.id
        /\ m.listed = c.from.bots /\ m.text = c.text /\ m.mentions = mentions /\ m.topic = topic
    BY <1>5, <1>7 DEF Honest
  <2>2. c.target.id \in Groups /\ topic.group = c.target.id /\ c.from \in Lists
        /\ c.text \in SUBSET Written
    BY <1>3, <2>1, TargetShape DEF Captures
  <2> QED
    BY <1>1, <2>1, <2>2, EncodedIsMeant
<1>8. Asked(m)
  BY <1>3, <1>5, <1>7 DEF Asked, Captures
<1> QED
  BY <1>6, <1>8

LEMMA BotsAnswer ==
  ASSUME NEW m, Answered(m)
  PROVE  m.from.type # "user" /\ m.answer # "none"
<1>1. PICK b \in Bots : m.from = BotPeer(b) /\ m.answer \in {"reply", "notice"}
  BY DEF Answered
<1>2. BotPeer(b).type = "bot"
  BY DEF BotPeer
<1> QED
  BY <1>1, <1>2

\* Who is asked passes the filter.
LEMMA AskedPasses ==
  ASSUME NEW m \in MessageType, Asked(m) \/ Answered(m), AliasesTellApart,
         NEW b \in Bots, Asks(m, b)
  PROVE  ShouldProcess(m, b)
<1>1. m.from.type = "user"
  BY DEF Asks
<1>2. Asked(m)
  BY <1>1, BotsAnswer
<1>3. m.to \in Targets /\ m.topic = SendTopic(m.to)
  BY <1>2 DEF Asked
<1>4. CASE m.to.type = "group"
  <2>1. m.topic.group # None
    BY <1>3, <1>4, TargetShape
  <2>2. m.settled /\ b \in Meant(m)
    BY <2>1 DEF Asks
  <2>3. b \in m.mentions
    BY <1>2, <1>4, <2>2 DEF Asked
  <2> QED
    BY <1>1, <1>4, <2>3 DEF ShouldProcess, Mentioned
<1>5. CASE m.to.type = "bot"
  <2>1. m.topic.group = None
    BY <1>3, <1>5, TargetShape
  <2>2. b = m.to.id
    BY <2>1 DEF Asks
  <2> QED
    BY <1>1, <1>5, <2>1, <2>2 DEF ShouldProcess, IsGroupMessage
<1> QED
  BY <1>3, <1>4, <1>5, TargetShape

\* Who passes the filter was asked.
LEMMA PassesWasAsked ==
  ASSUME NEW m \in MessageType, Asked(m) \/ Answered(m), NEW b \in Bots, ShouldProcess(m, b)
  PROVE  /\ Asked(m) /\ m.from.type = "user"
         /\ IF m.topic.group = None THEN b = m.to.id ELSE m.settled => b \in Meant(m)
<1>1. m.from.type = "user"
  BY DEF ShouldProcess
<1>2. Asked(m)
  BY <1>1, BotsAnswer
<1>3. m.to \in Targets /\ m.topic = SendTopic(m.to)
  BY <1>2 DEF Asked
<1>4. CASE m.to.type = "group"
  <2>1. m.topic.group # None /\ b \in m.mentions
    BY <1>3, <1>4, TargetShape DEF ShouldProcess, IsGroupMessage, Mentioned
  <2>2. m.settled => b \in Meant(m)
    BY <1>2, <1>4, <2>1 DEF Asked
  <2> QED
    BY <1>1, <1>2, <2>1, <2>2
<1>5. CASE m.to.type = "bot"
  <2>1. m.topic.group = None /\ b = m.to.id
    BY <1>3, <1>5, TargetShape DEF ShouldProcess
  <2> QED
    BY <1>1, <1>2, <2>1
<1> QED
  BY <1>3, <1>4, <1>5, TargetShape

\* What a bot answers.
LEMMA ReplyAnswers ==
  ASSUME Types, Pointers, LogInv, TaskInv, NEW b \in Bots, NEW task \in tasks[b],
         task.answer # "silence", NEW r, r = Reply(b, task)
  PROVE  r \in MessageType /\ Answered(r)
<1>1. PICK n \in DOMAIN messages : n = task.source
  BY DEF Pointers
<1>2. PICK m \in MessageType : m = messages[n]
  BY DEF Types
<1>3. task.answer \in {"reply", "notice"} /\ task.session \in Nat
  BY DEF Types, Requests
<1>4. /\ ShouldProcess(m, b)
      /\ task.answer = "reply" =>
           Allowed(m, b) /\ task.session # 0 /\ task.session = sessions[b][m.topic]
  BY <1>1, <1>2 DEF TaskInv
<1>5. Asked(m) \/ Answered(m)
  BY <1>1, <1>2 DEF LogInv, Explained
<1>6. Asked(m)
  BY <1>4, <1>5, PassesWasAsked
<1>7. ReplyTopic(m.topic) = m.topic
  BY <1>6, TopicKept DEF Asked
<1>8. r = [from |-> BotPeer(b), to |-> m.from, topic |-> m.topic, mentions |-> m.mentions,
           source |-> n, session |-> task.session, answer |-> task.answer, text |-> {},
           listed |-> {}, settled |-> m.settled]
  BY <1>1, <1>2, <1>7 DEF Reply
<1>9. BotPeer(b) \in Peers
  BY DEF BotPeer, Peers
<1>10. n \in Nat
  BY DEF Types
<1>11. r \in MessageType
  BY <1>3, <1>8, <1>9, <1>10 DEF MessageType
<1>12. Answered(r)
  <2>1. /\ r.answer = task.answer /\ r.from = BotPeer(b) /\ r.source = n /\ r.topic = m.topic
        /\ r.session = task.session
    BY <1>8
  <2> QED
    BY <1>2, <1>3, <1>4, <2>1 DEF Answered
<1> QED
  BY <1>11, <1>12

-----------------------------------------------------------------------------
(* What a step keeps *)

\* A publication stays what it is, and so does a session.
Kept ==
  /\ DOMAIN messages \subseteq DOMAIN messages'
  /\ \A n \in DOMAIN messages : messages'[n] = messages[n]
  /\ \A b \in Bots : \A t \in Topics : sessions[b][t] # 0 => sessions'[b][t] = sessions[b][t]

Held(b) == ToSet(inbox[b]) \cup {t.source : t \in tasks[b]}

LEMMA AnsweredStays ==
  ASSUME Kept, NEW r \in MessageType, Answered(r)
  PROVE  Answered(r)'
<1>1. PICK b \in Bots, n \in DOMAIN messages :
        /\ r.answer \in {"reply", "notice"} /\ r.from = BotPeer(b)
        /\ r.source = n /\ ShouldProcess(messages[n], b) /\ r.topic = messages[n].topic
        /\ r.answer = "reply" =>
             /\ Allowed(messages[n], b)
             /\ r.session # 0 /\ r.session = sessions[b][r.topic]
  BY DEF Answered
<1>2. n \in DOMAIN messages' /\ messages'[n] = messages[n]
  BY DEF Kept
<1>3. r.answer = "reply" => sessions'[b][r.topic] = sessions[b][r.topic]
  BY <1>1 DEF Kept, MessageType
<1> QED
  BY <1>1, <1>2, <1>3 DEF Answered

LEMMA LogStays ==
  ASSUME Types, LogInv, Kept, messages' = messages
  PROVE  LogInv'
<1>1. ASSUME NEW n \in DOMAIN messages'
      PROVE  Explained(n)'
  <2>1. PICK m \in MessageType : m = messages[n]
    BY DEF Types
  <2>2. Asked(m) \/ Answered(m)
    BY <2>1 DEF LogInv, Explained
  <2>3. Asked(m) \/ Answered(m)'
    BY <2>2, AnsweredStays
  <2>4. m = messages'[n]
    BY <2>1
  <2> QED
    BY <2>3, <2>4 DEF Explained
<1> QED
  BY <1>1 DEF LogInv

LEMMA TasksStay ==
  ASSUME Types, Pointers, TaskInv, Kept, \A b \in Bots : tasks'[b] \subseteq tasks[b]
  PROVE  TaskInv'
<1>1. ASSUME NEW b \in Bots, NEW t \in tasks'[b]
      PROVE  LET m == messages'[t.source] IN
             /\ ShouldProcess(m, b)
             /\ t.answer = "reply" =>
                  /\ Allowed(m, b)
                  /\ t.session # 0 /\ t.session = sessions'[b][m.topic]
             /\ \A u \in tasks'[b] : messages'[u.source].topic = m.topic => u = t
  <2>1. t \in tasks[b] /\ t.source \in DOMAIN messages
    BY <1>1 DEF Pointers
  <2>2. PICK m \in MessageType : m = messages[t.source]
    BY <2>1 DEF Types
  <2>3. messages'[t.source] = m
    BY <2>1, <2>2 DEF Kept
  <2>4. /\ ShouldProcess(m, b)
        /\ t.answer = "reply" =>
             Allowed(m, b) /\ t.session # 0 /\ t.session = sessions[b][m.topic]
        /\ \A u \in tasks[b] : messages[u.source].topic = m.topic => u = t
    BY <2>1, <2>2 DEF TaskInv
  <2>5. t.answer = "reply" => sessions'[b][m.topic] = sessions[b][m.topic]
    BY <2>4 DEF Kept, MessageType
  <2>6. \A u \in tasks'[b] : u \in tasks[b] /\ messages'[u.source] = messages[u.source]
    BY DEF Kept, Pointers
  <2> QED
    BY <2>3, <2>4, <2>5, <2>6
<1> QED
  BY <1>1 DEF TaskInv

LEMMA WaitStays ==
  ASSUME Pointers, WaitInv, Kept,
         \A b \in Bots : \A n \in heard'[b] :
           \/ n \in Held(b)'
           \/ n \in heard[b] /\ n \notin Held(b)
           \/ n \in heard[b] /\ (AliasesTellApart => ~ Asks(messages[n], b))
  PROVE  WaitInv'
<1>1. ASSUME AliasesTellApart, NEW b \in Bots, NEW n \in heard'[b], Asks(messages'[n], b)
      PROVE  n \in Held(b)'
  <2>1. ASSUME n \in heard[b] PROVE Asks(messages[n], b) /\ n \in Held(b)
    <3>1. n \in DOMAIN messages
      BY <2>1 DEF Pointers
    <3>2. Asks(messages[n], b)
      BY <1>1, <3>1 DEF Kept
    <3> QED
      BY <1>1, <2>1, <3>2 DEF WaitInv, AskedNotLost, Held
  <2> QED
    BY <1>1, <2>1
<1> QED
  BY <1>1 DEF WaitInv, AskedNotLost, Held

\* A step that touches neither publications nor what a runtime has of them.
LEMMA QuietStep ==
  ASSUME Types, Pointers, LogInv, TaskInv, SessionInv, WaitInv,
         UNCHANGED <<messages, inbox, heard, tasks, sessions>>
  PROVE  Pointers' /\ LogInv' /\ TaskInv' /\ SessionInv' /\ WaitInv'
<1>1. Kept
  BY DEF Kept
<1>2. Pointers'
  BY DEF Pointers
<1>3. LogInv'
  BY <1>1, LogStays
<1>4. TaskInv'
  BY <1>1, TasksStay
<1>5. SessionInv'
  BY DEF SessionInv
<1>6. WaitInv'
  <2>1. \A b \in Bots : \A n \in heard'[b] : n \in heard[b] /\ (n \in Held(b) => n \in Held(b)')
    BY DEF Held
  <2> QED
    BY <1>1, <2>1, WaitStays
<1> QED
  BY <1>2, <1>3, <1>4, <1>5, <1>6

\* A publication gets a new number, and every runtime that hears it has it in
\* its inbox.
LEMMA Published ==
  ASSUME Types, Pointers, LogInv, NEW m \in MessageType, Asked(m) \/ Answered(m),
         NEW pending \in [Bots -> SUBSET Nat], \A b \in Bots : pending[b] \subseteq heard[b],
         Publish(m, pending), UNCHANGED sessions
  PROVE  /\ messages' \in Seq(MessageType) /\ refused' \subseteq DOMAIN messages'
         /\ inbox' \in [Bots -> Seq(Nat)] /\ heard' \in [Bots -> SUBSET Nat]
         /\ Kept /\ LogInv'
         /\ \A b \in Bots :
              /\ heard'[b] \subseteq DOMAIN messages'
              /\ \A i \in DOMAIN inbox'[b] : inbox'[b][i] \in DOMAIN messages'
              /\ ToSet(inbox[b]) \subseteq ToSet(inbox'[b])
              /\ \A n \in heard'[b] : n \in pending[b] \/ n \in ToSet(inbox'[b])
<1>1. PICK n \in Nat : n = Len(messages) + 1
  BY DEF Types
<1>2. /\ messages' = Append(messages, m)
      /\ refused' = IF Valid(m) THEN refused ELSE refused \cup {n}
      /\ inbox' = [b \in Bots |-> IF Hears(b, m.topic) THEN Append(inbox[b], n) ELSE inbox[b]]
      /\ heard' = [b \in Bots |-> IF Hears(b, m.topic) THEN pending[b] \cup {n}
                                  ELSE pending[b]]
  BY <1>1 DEF Publish
<1>3. /\ messages' \in Seq(MessageType) /\ messages'[n] = m
      /\ DOMAIN messages' = DOMAIN messages \cup {n}
      /\ \A k \in DOMAIN messages : messages'[k] = messages[k]
  BY <1>1, <1>2 DEF Types
<1>4. Kept
  BY <1>3 DEF Kept
<1>5. ASSUME NEW k \in DOMAIN messages'
      PROVE  Explained(k)'
  <2>1. PICK a \in MessageType : a = messages'[k]
    <3>1. PICK s \in Seq(MessageType) : s = messages'
      BY <1>3
    <3>2. \A i \in DOMAIN s : s[i] \in MessageType
      OBVIOUS
    <3> QED
      BY <3>1, <3>2
  <2>2. Asked(a) \/ Answered(a)
    BY <1>3, <2>1 DEF LogInv, Explained
  <2>3. Asked(a) \/ Answered(a)'
    BY <1>4, <2>2, AnsweredStays
  <2> QED
    BY <2>1, <2>3 DEF Explained
<1>6. LogInv'
  BY <1>5 DEF LogInv
<1>7. ASSUME NEW b \in Bots
      PROVE  /\ inbox'[b] \in Seq(Nat) /\ heard'[b] \in SUBSET Nat
             /\ heard'[b] \subseteq DOMAIN messages'
             /\ \A i \in DOMAIN inbox'[b] : inbox'[b][i] \in DOMAIN messages'
             /\ ToSet(inbox[b]) \subseteq ToSet(inbox'[b])
             /\ \A k \in heard'[b] : k \in pending[b] \/ k \in ToSet(inbox'[b])
  <2>1. PICK q \in Seq(Nat) : q = inbox[b] /\ \A i \in DOMAIN q : q[i] \in DOMAIN messages
    BY DEF Types, Pointers
  <2>2. pending[b] \subseteq DOMAIN messages /\ pending[b] \subseteq Nat
    BY DEF Pointers
  <2>3. CASE Hears(b, m.topic)
    <3>1. inbox'[b] = Append(q, n) /\ heard'[b] = pending[b] \cup {n}
      BY <1>2, <2>1, <2>3
    <3>2. /\ Append(q, n) \in Seq(Nat) /\ DOMAIN Append(q, n) = DOMAIN q \cup {Len(q) + 1}
          /\ Append(q, n)[Len(q) + 1] = n /\ \A i \in DOMAIN q : Append(q, n)[i] = q[i]
      OBVIOUS
    <3> QED
      BY <1>3, <2>1, <2>2, <3>1, <3>2 DEF ToSet
  <2>4. CASE ~ Hears(b, m.topic)
    <3>1. inbox'[b] = q /\ heard'[b] = pending[b]
      BY <1>2, <2>1, <2>4
    <3> QED
      BY <1>3, <2>1, <2>2, <3>1
  <2> QED
    BY <2>3, <2>4
<1>8. refused' \subseteq DOMAIN messages'
  BY <1>2, <1>3 DEF Types
<1>9. inbox' \in [Bots -> Seq(Nat)] /\ heard' \in [Bots -> SUBSET Nat]
  BY <1>2, <1>7
<1> QED
  BY <1>3, <1>4, <1>6, <1>7, <1>8, <1>9

-----------------------------------------------------------------------------
(* The composer's steps *)

HonestInv == \A u \in uploads : Honest(u)

LEMMA QuietKeepsInv ==
  ASSUME IInv, UNCHANGED <<messages, inbox, heard, tasks, sessions>>,
         Types', ListInv', HonestInv'
  PROVE  IInv'
BY QuietStep DEF IInv, HonestInv

LEMMA MembersStep ==
  ASSUME IInv, NEW g \in Groups, NEW S \in SUBSET Bots, ChangeMembers(g, S)
  PROVE  IInv'
<1>1. UNCHANGED <<composer, broker, inbox, heard, runtime>>
  BY DEF ChangeMembers
<1>2. members' \in [Groups -> SUBSET Bots]
  BY DEF IInv, Types, ChangeMembers
<1>3. Types' /\ ListInv' /\ HonestInv'
  BY <1>1, <1>2 DEF IInv, Types, ListInv, HonestInv, Settled, composer, broker, runtime
<1> QED
  BY <1>1, <1>3, QuietKeepsInv DEF broker, runtime

LEMMA CancelledShape ==
  ASSUME Types
  PROVE  /\ Cancelled \subseteq [group : Groups, cancelled : BOOLEAN]
         /\ \A l \in Cancelled : l.cancelled
<1>1. ASSUME NEW l \in loads, NEW k, k = [l EXCEPT !.cancelled = TRUE]
      PROVE  k \in [group : Groups, cancelled : BOOLEAN] /\ k.cancelled
  <2>1. l \in [group : Groups, cancelled : BOOLEAN]
    BY DEF Types
  <2> QED
    BY <1>1, <2>1
<1> QED
  BY <1>1, Zenon DEF Cancelled

LEMMA UnmountedShape ==
  ASSUME NEW u \in Captures, NEW v, v = [u EXCEPT !.mounted = FALSE]
  PROVE  v \in Captures /\ (Honest(u) => Honest(v))
<1>1. v \in Captures /\ v.target = u.target /\ v.settled = u.settled /\ v.from = u.from
  BY DEF Captures
<1> QED
  BY <1>1 DEF Honest

LEMMA OpenStep ==
  ASSUME IInv, NEW t \in Targets, Open(t)
  PROVE  IInv'
<1>1. /\ current' = t
      /\ loads' = IF t.type = "group"
                  THEN Cancelled \cup {[group |-> t.id, cancelled |-> FALSE]} ELSE Cancelled
      /\ list' \in {NoList, list} /\ draft' \in {None, draft}
      /\ \/ uploads' = uploads
         \/ uploads' = {[u EXCEPT !.mounted = FALSE] : u \in uploads}
      /\ UNCHANGED <<groupVars, broker, inbox, heard, runtime>>
  BY DEF Open
<1>2. Types
  BY DEF IInv
<1>3. t.type = "group" => t.id \in Groups
  BY TargetShape
<1>4. loads' \subseteq [group : Groups, cancelled : BOOLEAN]
  <2>1. Cancelled \subseteq [group : Groups, cancelled : BOOLEAN]
    BY <1>2, CancelledShape
  <2>2. t.type = "group" =>
          [group |-> t.id, cancelled |-> FALSE] \in [group : Groups, cancelled : BOOLEAN]
    BY <1>3
  <2> QED
    BY <1>1, <2>1, <2>2
<1>5. ASSUME NEW v \in uploads' PROVE v \in Captures /\ Honest(v)
  <2>1. CASE uploads' = uploads
    BY <1>5, <2>1 DEF IInv, Types
  <2>2. CASE uploads' = {[u EXCEPT !.mounted = FALSE] : u \in uploads}
    <3>1. PICK u \in uploads : v = [u EXCEPT !.mounted = FALSE]
      BY <1>5, <2>2
    <3>2. u \in Captures /\ Honest(u)
      BY DEF IInv, Types
    <3> QED
      BY <3>1, <3>2, UnmountedShape
  <2> QED
    BY <1>1, <2>1, <2>2
<1>6. list' \in Lists /\ draft' \in (SUBSET Written) \cup {None}
  BY <1>1, <1>2 DEF Types, NoList, Lists
<1>7. Types'
  BY <1>1, <1>2, <1>4, <1>5, <1>6 DEF Types, groupVars, broker, runtime
<1>8. ListInv'
  <2>1. ASSUME NEW l \in loads', ~ l.cancelled
        PROVE  t.type = "group" /\ l.group = t.id
    <3>1. l \notin Cancelled
      BY <1>2, <2>1, CancelledShape
    <3>2. t.type = "group" /\ l = [group |-> t.id, cancelled |-> FALSE]
      BY <1>1, <2>1, <3>1
    <3> QED
      BY <3>2
  <2>2. t # None
    BY RoutingAssumption
  <2>3. t.type = "group" => ~ Settled'
    <3>1. ASSUME t.type = "group" PROVE \E l \in loads' : ~ l.cancelled
      <4>1. PICK l : l = [group |-> t.id, cancelled |-> FALSE]
        OBVIOUS
      <4>2. ~ l.cancelled
        BY <4>1
      <4> QED
        BY <1>1, <3>1, <4>1, <4>2
    <3> QED
      BY <3>1 DEF Settled
  <2> QED
    BY <1>1, <2>1, <2>2, <2>3 DEF ListInv
<1>9. HonestInv'
  BY <1>5 DEF HonestInv
<1> QED
  BY <1>1, <1>7, <1>8, <1>9, QuietKeepsInv DEF broker, runtime

LEMMA LoadStep ==
  ASSUME IInv, NEW l \in loads, LoadAnswered(l)
  PROVE  IInv'
<1>1. /\ loads' = loads \ {l}
      /\ IF l.cancelled THEN UNCHANGED list
         ELSE list' \in [group : {l.group}, bots : {members[l.group], {}}]
      /\ UNCHANGED <<groupVars, current, draft, uploads, broker, inbox, heard, runtime>>
  BY DEF LoadAnswered
<1>2. l.group \in Groups /\ members[l.group] \in SUBSET Bots
  BY DEF IInv, Types
<1>3. list' \in Lists /\ (~ l.cancelled => list'.group = l.group)
  BY <1>1, <1>2 DEF IInv, Types, Lists
<1>4. Types'
  BY <1>1, <1>3 DEF IInv, Types, groupVars, broker, runtime
<1>5. ListInv'
  <2>1. ASSUME current # None, current.type = "group", Settled'
        PROVE  list'.group = current.id
    <3>1. CASE l.cancelled
      <4>1. Settled
        BY <1>1, <2>1, <3>1 DEF Settled
      <4> QED
        BY <1>1, <2>1, <3>1, <4>1 DEF IInv, ListInv
    <3>2. CASE ~ l.cancelled
      BY <1>3, <3>2 DEF IInv, ListInv
    <3> QED
      BY <3>1, <3>2
  <2> QED
    BY <1>1, <2>1 DEF IInv, ListInv
<1>6. HonestInv'
  BY <1>1 DEF IInv, HonestInv
<1> QED
  BY <1>1, <1>4, <1>5, <1>6, QuietKeepsInv DEF broker, runtime

LEMMA WriteStep ==
  ASSUME IInv, NEW text \in Texts, Write(text)
  PROVE  IInv'
<1>1. /\ draft' = text
      /\ UNCHANGED <<groupVars, current, list, loads, uploads, broker, inbox, heard, runtime>>
  BY DEF Write
<1>2. text \in SUBSET Written
  BY RoutingAssumption
<1>3. Types' /\ ListInv' /\ HonestInv'
  BY <1>1, <1>2 DEF IInv, Types, ListInv, HonestInv, Settled, groupVars, broker, runtime
<1> QED
  BY <1>1, <1>3, QuietKeepsInv DEF broker, runtime

\* What a handler captures is the list of the group on display, or it says that
\* the list was not there yet.
LEMMA CapturedHonest ==
  ASSUME Types, ListInv, current # None, NEW c, c = Captured
  PROVE  c \in Captures /\ Honest(c)
<1>1. PICK from : from = MentionBots
  OBVIOUS
<1>2. from \in Lists /\ (current.type = "group" => from = list)
  BY <1>1 DEF Types, MentionBots, Lists
<1>3. PICK text \in SUBSET Written : text = IF draft = None THEN {} ELSE draft
  BY DEF Types
<1>4. PICK settled \in BOOLEAN : settled = Settled
  BY DEF Settled
<1>5. c = [target |-> current, from |-> from, settled |-> settled, text |-> text,
           mounted |-> TRUE]
  BY <1>1, <1>3, <1>4 DEF Captured
<1>6. c \in Captures
  BY <1>2, <1>5 DEF Captures, Types
<1> QED
  BY <1>2, <1>4, <1>5, <1>6 DEF Honest, ListInv

LEMMA ImageStep ==
  ASSUME IInv, SelectImage
  PROVE  IInv'
<1>1. PICK c : c = Captured
  OBVIOUS
<1>2. /\ current # None /\ uploads' = uploads \cup {c}
      /\ UNCHANGED <<groupVars, current, list, loads, draft, broker, inbox, heard, runtime>>
  BY <1>1 DEF SelectImage
<1>3. c \in Captures /\ Honest(c)
  BY <1>1, <1>2, CapturedHonest DEF IInv
<1>4. Types' /\ ListInv' /\ HonestInv'
  BY <1>2, <1>3 DEF IInv, Types, ListInv, HonestInv, Settled, groupVars, broker, runtime
<1> QED
  BY <1>2, <1>4, QuietKeepsInv DEF broker, runtime

LEMMA UploadFailedStep ==
  ASSUME IInv, NEW u \in uploads, UploadFailed(u)
  PROVE  IInv'
<1>1. /\ uploads' = uploads \ {u}
      /\ UNCHANGED <<groupVars, current, list, loads, draft, broker, inbox, heard, runtime>>
  BY DEF UploadFailed
<1>2. Types' /\ ListInv' /\ HonestInv'
  BY <1>1 DEF IInv, Types, ListInv, HonestInv, Settled, groupVars, broker, runtime
<1> QED
  BY <1>1, <1>2, QuietKeepsInv DEF broker, runtime

\* The user's messages, with or without an image.
LEMMA UserPublishes ==
  ASSUME IInv, NEW c \in Captures, Honest(c), Publish(Message(c), heard),
         draft' \in {None, draft}, uploads' \subseteq uploads,
         UNCHANGED <<groupVars, current, list, loads, runtime>>
  PROVE  IInv'
<1>1. PICK m : m = Message(c)
  OBVIOUS
<1>2. m \in MessageType /\ Asked(m)
  BY <1>1, MessageAsked
<1>3. /\ Types /\ Pointers /\ LogInv /\ TaskInv /\ WaitInv /\ heard \in [Bots -> SUBSET Nat]
      /\ Publish(m, heard) /\ UNCHANGED <<tasks, sessions>>
  BY <1>1 DEF IInv, Types, runtime
<1>4. /\ messages' \in Seq(MessageType) /\ refused' \subseteq DOMAIN messages'
      /\ inbox' \in [Bots -> Seq(Nat)] /\ heard' \in [Bots -> SUBSET Nat]
      /\ Kept /\ LogInv'
      /\ \A b \in Bots :
           /\ heard'[b] \subseteq DOMAIN messages'
           /\ \A i \in DOMAIN inbox'[b] : inbox'[b][i] \in DOMAIN messages'
           /\ ToSet(inbox[b]) \subseteq ToSet(inbox'[b])
           /\ \A n \in heard'[b] : n \in heard[b] \/ n \in ToSet(inbox'[b])
  BY <1>2, <1>3, Published
<1>5. Types'
  BY <1>4 DEF IInv, Types, groupVars, runtime
<1>6. Pointers'
  <2>1. \A b \in Bots : \A t \in tasks'[b] : t.source \in DOMAIN messages'
    BY <1>3, <1>4 DEF Pointers, Kept
  <2> QED
    BY <1>4, <2>1 DEF Pointers
<1>7. TaskInv'
  BY <1>3, <1>4, TasksStay
<1>8. WaitInv'
  <2>1. \A b \in Bots : Held(b) \subseteq Held(b)'
    BY <1>3, <1>4 DEF Held
  <2>2. \A b \in Bots : \A n \in heard'[b] : n \in Held(b)' \/ (n \in heard[b] /\ n \notin Held(b))
    BY <1>4, <2>1 DEF Held
  <2> QED
    BY <1>3, <1>4, <2>2, WaitStays
<1>9. SessionInv' /\ ListInv' /\ HonestInv'
  BY DEF IInv, SessionInv, ListInv, HonestInv, Settled, runtime
<1> QED
  BY <1>4, <1>5, <1>6, <1>7, <1>8, <1>9 DEF IInv, HonestInv

-----------------------------------------------------------------------------
(* The runtimes' steps *)

LEMMA PublishStep ==
  ASSUME IInv, Send \/ \E u \in uploads : UploadDone(u)
  PROVE  IInv'
<1>1. CASE Send
  <2>1. PICK c : c = Captured
    OBVIOUS
  <2>2. /\ current # None /\ Publish(Message(c), heard) /\ draft' = None
        /\ UNCHANGED <<groupVars, current, list, loads, uploads, runtime>>
    BY <1>1, <2>1 DEF Send
  <2>3. c \in Captures /\ Honest(c)
    BY <2>1, <2>2, CapturedHonest DEF IInv
  <2> QED
    BY <2>2, <2>3, UserPublishes
<1>2. CASE \E u \in uploads : UploadDone(u)
  <2>1. PICK u \in uploads : UploadDone(u)
    BY <1>2
  <2>2. /\ Publish(Message(u), heard) /\ draft' \in {None, draft} /\ uploads' \subseteq uploads
        /\ UNCHANGED <<groupVars, current, list, loads, runtime>>
    BY <2>1 DEF UploadDone
  <2>3. u \in Captures /\ Honest(u)
    BY DEF IInv, Types
  <2> QED
    BY <2>2, <2>3, UserPublishes
<1> QED
  BY <1>1, <1>2

LEMMA BootStep ==
  ASSUME IInv, NEW b \in Bots, Boot(b)
  PROVE  IInv'
<1>1. /\ up' = [up EXCEPT ![b] = TRUE]
      /\ subs' = [subs EXCEPT ![b] = {g \in Groups : b \in members[g]}]
      /\ UNCHANGED <<groupVars, composer, broker, inbox, heard, tasks, sessions>>
  BY DEF Boot
<1>2. Types' /\ ListInv' /\ HonestInv'
  BY <1>1 DEF IInv, Types, ListInv, HonestInv, Settled, groupVars, composer, broker
<1> QED
  BY <1>1, <1>2, QuietKeepsInv DEF broker

LEMMA StopStep ==
  ASSUME IInv, NEW b \in Bots, Stop(b)
  PROVE  IInv'
<1>1. /\ up' = [up EXCEPT ![b] = FALSE] /\ subs' = [subs EXCEPT ![b] = {}]
      /\ inbox' = [inbox EXCEPT ![b] = << >>] /\ heard' = [heard EXCEPT ![b] = {}]
      /\ tasks' = [tasks EXCEPT ![b] = {}]
      /\ UNCHANGED <<groupVars, composer, broker, sessions>>
  BY DEF Stop
<1>2. Types' /\ ListInv' /\ HonestInv'
  BY <1>1 DEF IInv, Types, ListInv, HonestInv, Settled, groupVars, composer, broker
<1>3. Kept /\ messages' = messages
  BY <1>1 DEF Kept, broker
<1>4. \A c \in Bots : /\ tasks'[c] \subseteq tasks[c] /\ heard'[c] \subseteq heard[c]
                      /\ \A i \in DOMAIN inbox'[c] : i \in DOMAIN inbox[c] /\ inbox'[c][i] = inbox[c][i]
  BY <1>1 DEF IInv, Types
<1>5. Pointers'
  BY <1>3, <1>4 DEF IInv, Pointers
<1>6. LogInv' /\ TaskInv' /\ SessionInv'
  BY <1>1, <1>3, <1>4, LogStays, TasksStay DEF IInv, SessionInv
<1>7. WaitInv'
  <2>1. ASSUME NEW c \in Bots, NEW n \in heard'[c]
        PROVE  n \in heard[c] /\ (n \in Held(c) => n \in Held(c)')
    <3>1. c # b
      BY <1>1, <2>1 DEF IInv, Types
    <3>2. inbox'[c] = inbox[c] /\ tasks'[c] = tasks[c]
      BY <1>1, <3>1 DEF IInv, Types
    <3> QED
      BY <1>4, <2>1, <3>2 DEF Held
  <2> QED
    BY <1>3, <2>1, WaitStays DEF IInv
<1> QED
  BY <1>2, <1>5, <1>6, <1>7 DEF IInv, HonestInv

LEMMA FinishStep ==
  ASSUME IInv, NEW b \in Bots, NEW task \in tasks[b], Finish(b, task)
  PROVE  IInv'
<1>1. PICK pending : pending = [heard EXCEPT ![b] = @ \ {task.source}]
  OBVIOUS
<1>2. /\ tasks' = [tasks EXCEPT ![b] = @ \ {task}]
      /\ \/ task.answer # "silence" /\ Publish(Reply(b, task), pending)
         \/ heard' = pending /\ UNCHANGED <<broker, inbox>>
      /\ UNCHANGED <<groupVars, composer, up, subs, sessions>>
  BY <1>1 DEF Finish
<1>3. /\ pending \in [Bots -> SUBSET Nat]
      /\ \A c \in Bots : pending[c] \subseteq heard[c]
      /\ task.source \notin pending[b]
  BY <1>1 DEF IInv, Types
<1>4. /\ messages' \in Seq(MessageType) /\ refused' \subseteq DOMAIN messages'
      /\ inbox' \in [Bots -> Seq(Nat)] /\ heard' \in [Bots -> SUBSET Nat]
      /\ Kept /\ LogInv'
      /\ \A c \in Bots :
           /\ heard'[c] \subseteq DOMAIN messages'
           /\ \A i \in DOMAIN inbox'[c] : inbox'[c][i] \in DOMAIN messages'
           /\ ToSet(inbox[c]) \subseteq ToSet(inbox'[c])
           /\ \A n \in heard'[c] : n \in pending[c] \/ n \in ToSet(inbox'[c])
  <2>1. CASE task.answer # "silence" /\ Publish(Reply(b, task), pending)
    <3>1. PICK m : m = Reply(b, task)
      OBVIOUS
    <3>2. m \in MessageType /\ Answered(m)
      BY <2>1, <3>1, ReplyAnswers DEF IInv
    <3>3. Publish(m, pending) /\ UNCHANGED sessions
      BY <1>2, <2>1, <3>1
    <3>4. Types /\ Pointers /\ LogInv
      BY DEF IInv
    <3> QED
      BY <1>3, <3>2, <3>3, <3>4, Published
  <2>2. CASE heard' = pending /\ UNCHANGED <<broker, inbox>>
    <3>1. messages' = messages /\ refused' = refused /\ inbox' = inbox
      BY <2>2 DEF broker
    <3>2. Kept
      BY <1>2, <3>1 DEF Kept
    <3>3. LogInv'
      BY <3>1, <3>2, LogStays DEF IInv
    <3>4. \A c \in Bots : /\ heard'[c] \subseteq DOMAIN messages'
                          /\ \A i \in DOMAIN inbox'[c] : inbox'[c][i] \in DOMAIN messages'
      BY <1>3, <2>2, <3>1 DEF IInv, Pointers
    <3> QED
      BY <1>3, <2>2, <3>1, <3>2, <3>3, <3>4 DEF IInv, Types
  <2> QED
    BY <1>2, <2>1, <2>2
<1>5. /\ tasks' \in [Bots -> SUBSET Requests]
      /\ \A c \in Bots : tasks'[c] \subseteq tasks[c]
      /\ \A c \in Bots : \A t \in tasks[c] : t \in tasks'[c] \/ (c = b /\ t = task)
  BY <1>2 DEF IInv, Types
<1>6. Types'
  BY <1>2, <1>4, <1>5 DEF IInv, Types, groupVars, composer
<1>7. Pointers'
  <2>1. \A c \in Bots : \A t \in tasks'[c] : t.source \in DOMAIN messages'
    BY <1>4, <1>5 DEF IInv, Pointers, Kept
  <2> QED
    BY <1>4, <2>1 DEF Pointers
<1>8. TaskInv'
  BY <1>4, <1>5, TasksStay DEF IInv
<1>9. WaitInv'
  <2>1. ASSUME NEW c \in Bots, NEW n \in heard'[c], n \notin Held(c)'
        PROVE  n \in heard[c] /\ n \notin Held(c)
    <3>1. n \in pending[c] /\ n \notin ToSet(inbox[c])
      BY <1>4, <2>1 DEF Held
    <3>2. ASSUME NEW t \in tasks[c], n = t.source
          PROVE  FALSE
      <4>1. CASE t \in tasks'[c]
        BY <2>1, <3>2, <4>1 DEF Held
      <4>2. CASE c = b /\ t = task
        BY <1>3, <3>1, <3>2, <4>2
      <4> QED
        BY <1>5, <4>1, <4>2
    <3> QED
      BY <1>3, <3>1, <3>2 DEF Held
  <2>2. \A c \in Bots : \A n \in heard'[c] : n \in Held(c)' \/ (n \in heard[c] /\ n \notin Held(c))
    BY <2>1
  <2> QED
    BY <1>4, <2>2, WaitStays DEF IInv
<1>10. SessionInv' /\ ListInv' /\ HonestInv'
  BY <1>2 DEF IInv, SessionInv, ListInv, HonestInv, Settled, composer
<1> QED
  BY <1>4, <1>6, <1>7, <1>8, <1>9, <1>10 DEF IInv, HonestInv

-----------------------------------------------------------------------------
(* Sessions *)

LEMMA TopicsFinite == IsFiniteSet(Topics) /\ Cardinality(Topics) \in Nat
<1> DEFINE BotTargets == [type : {"bot"}, id : Bots]
           group == [g \in Groups |-> [type |-> "group", id |-> g]]
           bot == [b \in Bots |-> [type |-> "bot", id |-> b]]
           topic == [t \in GroupPeers \cup BotTargets |-> SendTopic(t)]
<1>1. IsFiniteSet(GroupPeers)
  <2>1. group \in Surjection(Groups, GroupPeers)
    BY DEF Surjection, GroupPeers
  <2> QED
    BY <2>1, FS_Surjection, RoutingAssumption
<1>2. IsFiniteSet(BotTargets)
  <2>1. bot \in Surjection(Bots, BotTargets)
    BY DEF Surjection
  <2> QED
    BY <2>1, FS_Surjection, RoutingAssumption
<1>3. IsFiniteSet(GroupPeers \cup BotTargets)
  BY <1>1, <1>2, FS_Union
<1>4. topic \in Surjection(GroupPeers \cup BotTargets, Topics)
  BY DEF Surjection, Topics
<1>5. IsFiniteSet(Topics)
  BY <1>3, <1>4, FS_Surjection
<1> QED
  BY <1>5, FS_CardinalityType

\* There is always a session that no topic has.
LEMMA NewSessionIsNew ==
  ASSUME Types, NEW b \in Bots
  PROVE  /\ NewSession(b) \in Nat \ {0}
         /\ \A t \in Topics : sessions[b][t] # NewSession(b)
<1>1. PICK n \in Nat : n = Cardinality(Topics)
  BY TopicsFinite
<1>2. PICK f \in [Topics -> Nat] : f = sessions[b]
  BY DEF Types
<1>3. \E k \in 1 .. n + 1 : \A t \in Topics : f[t] # k
  <2> SUFFICES ASSUME \A k \in 1 .. n + 1 : \E t \in Topics : f[t] = k
               PROVE  FALSE
    OBVIOUS
  <2> DEFINE owner == [k \in 1 .. n + 1 |-> CHOOSE t \in Topics : f[t] = k]
  <2>1. \A k \in 1 .. n + 1 : owner[k] \in Topics /\ f[owner[k]] = k
    OBVIOUS
  <2>2. owner \in [1 .. n + 1 -> Topics]
    BY <2>1
  <2>3. IsFiniteSet(1 .. n + 1) /\ Cardinality(1 .. n + 1) = n + 1
    <3>1. n + 1 \in Int /\ 1 \in Int /\ ~ (1 > n + 1)
      OBVIOUS
    <3>2. Cardinality(1 .. n + 1) = n + 1 - 1 + 1 /\ IsFiniteSet(1 .. n + 1)
      BY <3>1, FS_Interval
    <3> QED
      BY <3>2
  <2>4. Cardinality(Topics) < Cardinality(1 .. n + 1)
    BY <1>1, <2>3
  <2> HIDE DEF owner
  <2>5. \E k, l \in 1 .. n + 1 : k # l /\ owner[k] = owner[l]
    BY <2>2, <2>3, <2>4, TopicsFinite, FS_PigeonHole
  <2> QED
    BY <2>1, <2>5
<1>4. NewSession(b) = CHOOSE k \in 1 .. n + 1 : \A t \in Topics : f[t] # k
  BY <1>1, <1>2 DEF NewSession
<1>5. NewSession(b) \in 1 .. n + 1 /\ \A t \in Topics : f[t] # NewSession(b)
  BY <1>3, <1>4
<1> QED
  BY <1>2, <1>5

LEMMA SessionShape ==
  ASSUME Types, SessionInv, NEW b \in Bots, NEW topic \in Topics,
         NEW n, n = SessionOf(b, topic)
  PROVE  /\ n \in Nat \ {0} /\ \A t \in Topics : t # topic => sessions[b][t] # n
         /\ sessions[b][topic] # 0 => sessions[b][topic] = n
<1>1. CASE sessions[b][topic] # 0
  <2>1. n = sessions[b][topic] /\ n \in Nat
    BY <1>1 DEF SessionOf, Types
  <2> QED
    BY <1>1, <2>1 DEF SessionInv
<1>2. CASE sessions[b][topic] = 0
  <2>1. n = NewSession(b)
    BY <1>2 DEF SessionOf
  <2> QED
    BY <1>2, <2>1, NewSessionIsNew
<1> QED
  BY <1>1, <1>2

LEMMA PositionBelow ==
  ASSUME NEW n \in Nat, NEW i \in Nat, NEW k \in Nat, 1 <= i, i < k, k <= n
  PROVE  k - 1 \in 1 .. n - 1 /\ k = (k - 1) + 1 /\ ~ (k - 1 < i)
OBVIOUS

LEMMA Removed ==
  ASSUME NEW q \in Seq(Nat), NEW i \in DOMAIN q
  PROVE  /\ RemoveAt(q, i) \in Seq(Nat)
         /\ ToSet(RemoveAt(q, i)) \subseteq ToSet(q)
         /\ ToSet(q) \subseteq ToSet(RemoveAt(q, i)) \cup {q[i]}
<1>1. PICK n \in Nat : n = Len(q) /\ DOMAIN q = 1 .. n
  OBVIOUS
<1>2. PICK r : r = RemoveAt(q, i)
  OBVIOUS
<1>3. i \in Nat /\ 1 <= i /\ i <= n /\ i - 1 \in 0 .. n /\ i + 1 \in 1 .. n + 1
  BY <1>1
<1>4. PICK a \in Seq(Nat) : /\ a = SubSeq(q, 1, i - 1) /\ Len(a) = i - 1
                            /\ \A k \in 1 .. i - 1 : a[k] = q[k]
  <2>1. PICK l \in 0 .. n : l = i - 1
    BY <1>3
  <2>2. SubSeq(q, 1, l) \in Seq(Nat) /\ Len(SubSeq(q, 1, l)) = l
        /\ \A k \in 1 .. l : SubSeq(q, 1, l)[k] = q[k]
    BY <1>1
  <2> QED
    BY <2>1, <2>2
<1>5. PICK c \in Seq(Nat) : /\ c = SubSeq(q, i + 1, n) /\ Len(c) = n - i
                            /\ \A k \in 1 .. n - i : c[k] = q[k + i]
  <2>1. PICK l \in 1 .. n + 1 : l = i + 1
    BY <1>3
  <2>2. l \in Int /\ n \in Int /\ \A k \in l .. n : q[k] \in Nat
    BY <1>1
  <2>3. /\ SubSeq(q, l, n) \in Seq(Nat)
        /\ Len(SubSeq(q, l, n)) = IF l <= n THEN n - l + 1 ELSE 0
        /\ \A k \in 1 .. n - l + 1 : SubSeq(q, l, n)[k] = q[l + k - 1]
    BY <2>2, SubSeqProperties
  <2>4. (IF l <= n THEN n - l + 1 ELSE 0) = n - i /\ n - l + 1 = n - i
    <3>1. i \in Nat /\ i <= n /\ l = i + 1
      BY <1>3, <2>1
    <3>2. l <= n <=> i < n
      BY <3>1
    <3>3. n - l + 1 = n - i
      BY <3>1
    <3>4. ~ (i < n) => n - i = 0
      BY <3>1
    <3> QED
      BY <3>2, <3>3, <3>4
  <2>5. \A k \in 1 .. n - i : l + k - 1 = k + i
    BY <1>3, <2>1
  <2> QED
    <3>1. PICK c \in Seq(Nat) : /\ c = SubSeq(q, l, n) /\ Len(c) = n - i
                                /\ \A k \in 1 .. n - i : c[k] = q[l + k - 1]
      BY <2>3, <2>4
    <3> QED
      BY <2>1, <2>5, <3>1
<1>6. r = a \o c
  BY <1>1, <1>2, <1>4, <1>5 DEF RemoveAt
<1>7. r \in Seq(Nat) /\ Len(r) = n - 1 /\ DOMAIN r = 1 .. n - 1
  <2>1. r \in Seq(Nat) /\ Len(r) = Len(a) + Len(c)
    BY <1>6
  <2>2. Len(r) = n - 1
    BY <1>1, <1>3, <1>4, <1>5, <2>1
  <2>3. DOMAIN r = 1 .. Len(r)
    BY <2>1
  <2> QED
    BY <2>1, <2>2, <2>3
<1>8. \A k \in 1 .. n - 1 : r[k] = IF k < i THEN q[k] ELSE q[k + 1]
  <2>1. ASSUME NEW k \in 1 .. n - 1, k < i PROVE r[k] = q[k]
    <3>1. k \in 1 .. Len(a)
      BY <1>3, <1>4, <2>1
    <3>2. r[k] = a[k]
      BY <1>6, <3>1
    <3> QED
      BY <1>4, <3>1, <3>2
  <2>2. ASSUME NEW k \in 1 .. n - 1, ~ (k < i) PROVE r[k] = q[k + 1]
    <3>1. PICK l \in 1 .. Len(c) : k = Len(a) + l /\ l + i = k + 1
      <4>1. PICK x \in Nat, y \in Nat : x = Len(a) /\ y = Len(c)
        OBVIOUS
      <4>2. x = i - 1 /\ y = n - i
        BY <1>4, <1>5, <4>1
      <4>3. k \in Nat /\ i <= k /\ k <= n - 1
        BY <1>3, <2>2
      <4>4. i \in Nat /\ n \in Nat /\ k \in Nat
        BY <1>3, <4>3
      <4>5. x + 1 = i /\ y + i = n
        BY <4>2, <4>4
      <4>6. k - x \in 1 .. y
        <5>1. x + 1 <= k /\ k + 1 <= y + (x + 1)
          BY <4>3, <4>4, <4>5
        <5>2. 1 <= k - x /\ k - x <= y
          BY <4>4, <5>1
        <5> QED
          BY <4>4, <5>2
      <4>7. k = x + (k - x) /\ (k - x) + i = k + 1
        BY <4>4, <4>5
      <4> QED
        BY <4>1, <4>6, <4>7
    <3>2. r[Len(a) + l] = c[l]
      BY <1>6, SMTT(30)
    <3>3. c[l] = q[l + i]
      BY <1>5
    <3> QED
      BY <3>1, <3>2, <3>3
  <2> QED
    BY <2>1, <2>2
<1>9. \A k \in DOMAIN r : r[k] \in ToSet(q)
  <2>1. \A k \in 1 .. n - 1 : k \in DOMAIN q /\ k + 1 \in DOMAIN q
    BY <1>1
  <2> QED
    BY <1>7, <1>8, <2>1 DEF ToSet
<1>10. ASSUME NEW k \in DOMAIN q, k # i PROVE q[k] \in ToSet(r)
  <2>1. CASE k < i
    <3>1. k \in 1 .. n - 1
      BY <1>1, <1>3, <2>1
    <3>2. r[k] = q[k]
      BY <1>8, <2>1, <3>1
    <3> QED
      BY <1>7, <3>1, <3>2 DEF ToSet
  <2>2. CASE k > i
    <3>1. PICK l \in 1 .. n - 1 : l = k - 1 /\ k = l + 1 /\ ~ (l < i)
      <4>1. k \in Nat /\ k <= n
        BY <1>1
      <4>2. k - 1 \in 1 .. n - 1 /\ k = (k - 1) + 1 /\ ~ (k - 1 < i)
        BY <1>3, <2>2, <4>1, PositionBelow
      <4> QED
        BY <4>2
    <3>2. r[l] = q[k]
      BY <1>8, <3>1
    <3> QED
      BY <1>7, <3>1, <3>2 DEF ToSet
  <2> QED
    BY <1>1, <1>3, <1>10, <2>1, <2>2
<1>11. ToSet(r) \subseteq ToSet(q)
  BY <1>9 DEF ToSet
<1>12. ToSet(q) \subseteq ToSet(r) \cup {q[i]}
  BY <1>10 DEF ToSet
<1> QED
  BY <1>2, <1>7, <1>11, <1>12

-----------------------------------------------------------------------------
(* A runtime takes a message *)

LEMMA TopicOf ==
  ASSUME Types, NEW n \in DOMAIN messages
  PROVE  messages[n] \in MessageType /\ messages[n].topic \in Topics
<1>1. messages[n] \in MessageType
  BY DEF Types
<1> QED
  BY <1>1 DEF MessageType

\* A message that passes the filter becomes a task.
LEMMA TakenStep ==
  ASSUME IInv, NEW b \in Bots, NEW n \in DOMAIN messages, NEW m, m = messages[n],
         NEW q, inbox' = [inbox EXCEPT ![b] = q], q \in Seq(Nat),
         ToSet(q) \subseteq ToSet(inbox[b]), ToSet(inbox[b]) \subseteq ToSet(q) \cup {n},
         ~ Busy(b, m.topic), ShouldProcess(m, b),
         NEW verdict \in Verdicts(m, b), NEW session,
         session = IF verdict = "reply" THEN SessionOf(b, m.topic) ELSE sessions[b][m.topic],
         tasks' = [tasks EXCEPT ![b] = @ \cup {Request(n, verdict, session)}],
         sessions' = [sessions EXCEPT ![b][m.topic] = session],
         UNCHANGED <<groupVars, composer, broker, heard, up, subs>>
  PROVE  IInv'
<1>1. PICK topic \in Topics : topic = m.topic
  BY TopicOf DEF IInv
<1>2. /\ session \in Nat /\ (verdict = "reply" => session # 0)
      /\ sessions[b][topic] # 0 => session = sessions[b][topic]
      /\ session # 0 => \A t \in Topics : t # topic => sessions[b][t] # session
  <2>1. CASE verdict = "reply"
    <3>1. session = SessionOf(b, topic)
      BY <1>1, <2>1
    <3> QED
      BY <2>1, <3>1, SessionShape DEF IInv
  <2>2. CASE verdict # "reply"
    <3>1. session = sessions[b][topic]
      BY <1>1, <2>2
    <3> QED
      BY <2>2, <3>1 DEF IInv, Types, SessionInv
  <2> QED
    BY <2>1, <2>2
<1>3. /\ sessions' \in [Bots -> [Topics -> Nat]]
      /\ sessions'[b][topic] = session
      /\ \A c \in Bots : \A t \in Topics :
           (c # b \/ t # topic) => sessions'[c][t] = sessions[c][t]
  BY <1>1, <1>2 DEF IInv, Types
<1>4. messages' = messages /\ refused' = refused
  BY DEF broker
<1>5. Kept
  BY <1>2, <1>3, <1>4 DEF Kept
<1>6. PICK task : task = Request(n, verdict, session)
  OBVIOUS
<1>7. /\ task \in Requests /\ task.source = n /\ task.answer = verdict /\ task.session = session
      /\ verdict \in {"reply", "notice", "silence"}
      /\ verdict = "reply" => Allowed(m, b)
  <2>1. verdict \in {"reply", "notice", "silence"} /\ (verdict = "reply" => Allowed(m, b))
    BY DEF Verdicts, Allowed
  <2>2. n \in Nat
    BY DEF IInv, Types
  <2>3. task = [source |-> n, answer |-> verdict, session |-> session]
    BY <1>6 DEF Request
  <2>4. task \in Requests
    BY <1>2, <2>1, <2>2, <2>3 DEF Requests
  <2> QED
    BY <2>1, <2>3, <2>4
<1>8. /\ tasks' \in [Bots -> SUBSET Requests]
      /\ tasks'[b] = tasks[b] \cup {task}
      /\ \A c \in Bots : c # b => tasks'[c] = tasks[c]
  BY <1>6, <1>7 DEF IInv, Types
<1>9. /\ inbox' \in [Bots -> Seq(Nat)] /\ inbox'[b] = q
      /\ \A c \in Bots : c # b => inbox'[c] = inbox[c]
  BY DEF IInv, Types
<1>10. Types'
  BY <1>3, <1>4, <1>8, <1>9 DEF IInv, Types, groupVars, composer
<1>11. Pointers'
  <2>1. \A i \in DOMAIN q : q[i] \in DOMAIN messages
    BY DEF IInv, Pointers, ToSet
  <2> QED
    BY <1>4, <1>7, <1>8, <1>9, <2>1 DEF IInv, Pointers
<1>12. LogInv'
  BY <1>4, <1>5, LogStays DEF IInv
<1>13. SessionInv'
  <2>1. ASSUME NEW c \in Bots, NEW t \in Topics, NEW u \in Topics,
               sessions'[c][t] = sessions'[c][u], sessions'[c][t] # 0
        PROVE  t = u
    <3>1. CASE c # b \/ (t # topic /\ u # topic)
      BY <1>3, <2>1, <3>1 DEF IInv, SessionInv
    <3>2. CASE c = b /\ t = topic
      BY <1>2, <1>3, <2>1, <3>2
    <3>3. CASE c = b /\ u = topic
      BY <1>2, <1>3, <2>1, <3>3
    <3> QED
      BY <3>1, <3>2, <3>3
  <2> QED
    BY <2>1 DEF SessionInv
<1>14. TaskInv'
  <2>1. \A t \in tasks[b] : messages[t.source].topic # topic
    BY <1>1 DEF Busy
  <2>2. ASSUME NEW c \in Bots, NEW t \in tasks'[c]
        PROVE  LET w == messages[t.source] IN
               /\ ShouldProcess(w, c)
               /\ t.answer = "reply" =>
                    /\ Allowed(w, c)
                    /\ t.session # 0 /\ t.session = sessions'[c][w.topic]
               /\ \A u \in tasks'[c] : messages[u.source].topic = w.topic => u = t
    <3>1. CASE t \in tasks[c]
      <4>1. PICK w \in MessageType : w = messages[t.source] /\ w.topic \in Topics
        BY <3>1, TopicOf DEF IInv, Pointers
      <4>2. /\ ShouldProcess(w, c)
            /\ t.answer = "reply" =>
                 Allowed(w, c) /\ t.session # 0 /\ t.session = sessions[c][w.topic]
            /\ \A u \in tasks[c] : messages[u.source].topic = w.topic => u = t
        BY <3>1, <4>1 DEF IInv, TaskInv
      <4>3. t.answer = "reply" => t.session = sessions'[c][w.topic]
        BY <1>5, <4>1, <4>2 DEF Kept
      <4>4. \A u \in tasks'[c] : messages[u.source].topic = w.topic => u \in tasks[c]
        BY <1>1, <1>7, <1>8, <2>1, <3>1, <4>1
      <4> QED
        BY <4>1, <4>2, <4>3, <4>4
    <3>2. CASE c = b /\ t = task
      <4>1. messages[t.source] = m
        BY <1>7, <3>2
      <4>2. \A u \in tasks'[c] : messages[u.source].topic = m.topic => u = t
        BY <1>1, <1>8, <2>1, <3>2
      <4>3. t.answer = "reply" =>
              /\ Allowed(m, c)
              /\ t.session # 0 /\ t.session = sessions'[c][m.topic]
        BY <1>1, <1>2, <1>3, <1>7, <3>2
      <4> QED
        BY <3>2, <4>1, <4>2, <4>3
    <3> QED
      BY <1>8, <2>2, <3>1, <3>2
  <2> QED
    BY <1>4, <2>2 DEF TaskInv
<1>15. WaitInv'
  <2>1. \A c \in Bots : Held(c) \subseteq Held(c)'
    BY <1>7, <1>8, <1>9 DEF Held
  <2>2. \A c \in Bots : \A k \in heard'[c] : k \in Held(c)' \/ (k \in heard[c] /\ k \notin Held(c))
    BY <2>1
  <2> QED
    BY <1>5, <2>2, WaitStays DEF IInv
<1>16. ListInv' /\ HonestInv'
  BY DEF IInv, ListInv, HonestInv, Settled, composer
<1> QED
  BY <1>10, <1>11, <1>12, <1>13, <1>14, <1>15, <1>16 DEF IInv, HonestInv

\* A message that does not pass is dropped: nobody asked this bot.
LEMMA DroppedStep ==
  ASSUME IInv, NEW b \in Bots, NEW n \in DOMAIN messages,
         NEW q, inbox' = [inbox EXCEPT ![b] = q], q \in Seq(Nat),
         ToSet(q) \subseteq ToSet(inbox[b]), ToSet(inbox[b]) \subseteq ToSet(q) \cup {n},
         ~ ShouldProcess(messages[n], b),
         UNCHANGED <<groupVars, composer, broker, heard, up, subs, tasks, sessions>>
  PROVE  IInv'
<1>1. messages' = messages /\ refused' = refused /\ Kept
  BY DEF broker, Kept
<1>2. /\ inbox' \in [Bots -> Seq(Nat)] /\ inbox'[b] = q
      /\ \A c \in Bots : c # b => inbox'[c] = inbox[c]
  BY DEF IInv, Types
<1>3. Types'
  BY <1>1, <1>2 DEF IInv, Types, groupVars, composer
<1>4. Pointers'
  <2>1. \A i \in DOMAIN q : q[i] \in DOMAIN messages
    BY DEF IInv, Pointers, ToSet
  <2> QED
    BY <1>1, <1>2, <2>1 DEF IInv, Pointers
<1>5. LogInv' /\ TaskInv' /\ SessionInv'
  BY <1>1, LogStays, TasksStay DEF IInv, SessionInv
<1>6. AliasesTellApart => ~ Asks(messages[n], b)
  <2>1. messages[n] \in MessageType /\ (Asked(messages[n]) \/ Answered(messages[n]))
    BY TopicOf DEF IInv, LogInv, Explained
  <2> QED
    BY <2>1, AskedPasses
<1>7. WaitInv'
  <2>1. ASSUME NEW c \in Bots, NEW k \in heard'[c], k \notin Held(c)', k \in Held(c)
        PROVE  c = b /\ k = n
    BY <1>2, <2>1 DEF Held
  <2>2. \A c \in Bots : \A k \in heard'[c] :
          \/ k \in Held(c)'
          \/ k \in heard[c] /\ k \notin Held(c)
          \/ k \in heard[c] /\ (AliasesTellApart => ~ Asks(messages[k], c))
    BY <1>6, <2>1
  <2> QED
    BY <1>1, <2>2, WaitStays DEF IInv
<1>8. ListInv' /\ HonestInv'
  BY DEF IInv, ListInv, HonestInv, Settled, composer
<1> QED
  BY <1>3, <1>4, <1>5, <1>7, <1>8 DEF IInv, HonestInv

LEMMA TakeStep ==
  ASSUME IInv, NEW b \in Bots, Take(b)
  PROVE  IInv'
<1>1. PICK i \in DOMAIN inbox[b] :
        LET n == inbox[b][i]  m == messages[n] IN
        /\ ~ Busy(b, m.topic)
        /\ inbox' = [inbox EXCEPT ![b] = RemoveAt(@, i)]
        /\ \/ /\ ~ ShouldProcess(m, b)
              /\ UNCHANGED <<tasks, sessions>>
           \/ /\ ShouldProcess(m, b)
              /\ \E verdict \in Verdicts(m, b) :
                   LET session == IF verdict = "reply" THEN SessionOf(b, m.topic)
                                  ELSE sessions[b][m.topic] IN
                   /\ tasks' = [tasks EXCEPT ![b] = @ \cup {Request(n, verdict, session)}]
                   /\ sessions' = [sessions EXCEPT ![b][m.topic] = session]
        /\ UNCHANGED <<groupVars, composer, broker, heard, up, subs>>
  BY DEF Take
<1>2. PICK n \in DOMAIN messages : n = inbox[b][i]
  BY DEF IInv, Pointers
<1>3. PICK m : m = messages[n]
  OBVIOUS
<1>4. PICK q : q = RemoveAt(inbox[b], i)
  OBVIOUS
<1>5. /\ q \in Seq(Nat) /\ ToSet(q) \subseteq ToSet(inbox[b])
      /\ ToSet(inbox[b]) \subseteq ToSet(q) \cup {n}
  <2>1. inbox[b] \in Seq(Nat)
    BY DEF IInv, Types
  <2> QED
    BY <1>2, <1>4, <2>1, Removed
<1>6. inbox' = [inbox EXCEPT ![b] = q]
  BY <1>1, <1>4 DEF IInv, Types
<1>7. CASE ~ ShouldProcess(m, b)
  <2>1. UNCHANGED <<groupVars, composer, broker, heard, up, subs, tasks, sessions>>
    BY <1>1, <1>2, <1>3, <1>7
  <2> QED
    BY <1>3, <1>5, <1>6, <1>7, <2>1, DroppedStep
<1>8. CASE ShouldProcess(m, b)
  <2>1. PICK verdict \in Verdicts(m, b) : \E session :
          /\ session = IF verdict = "reply" THEN SessionOf(b, m.topic) ELSE sessions[b][m.topic]
          /\ tasks' = [tasks EXCEPT ![b] = @ \cup {Request(n, verdict, session)}]
          /\ sessions' = [sessions EXCEPT ![b][m.topic] = session]
    BY <1>1, <1>2, <1>3, <1>8
  <2>2. PICK session :
          /\ session = IF verdict = "reply" THEN SessionOf(b, m.topic) ELSE sessions[b][m.topic]
          /\ tasks' = [tasks EXCEPT ![b] = @ \cup {Request(n, verdict, session)}]
          /\ sessions' = [sessions EXCEPT ![b][m.topic] = session]
    BY <2>1
  <2>3. ~ Busy(b, m.topic) /\ UNCHANGED <<groupVars, composer, broker, heard, up, subs>>
    BY <1>1, <1>2, <1>3
  <2> QED
    BY <1>3, <1>5, <1>6, <1>8, <2>2, <2>3, TakenStep
<1> QED
  BY <1>7, <1>8

-----------------------------------------------------------------------------
(* The invariant *)

LEMMA InitInv == Init => IInv
<1> SUFFICES ASSUME Init PROVE IInv
  OBVIOUS
<1>1. messages = << >> /\ DOMAIN messages = {}
  BY DEF Init
<1>2. Types
  <2>1. NoList \in Lists
    BY DEF NoList, Lists
  <2>2. InitialMembers \in [Groups -> SUBSET Bots]
    BY RoutingAssumption
  <2> QED
    BY <2>1, <2>2 DEF Init, Types
<1>3. Pointers /\ ListInv /\ HonestInv
  BY DEF Init, Pointers, ListInv, HonestInv
<1>4. LogInv /\ TaskInv
  BY <1>1 DEF Init, LogInv, TaskInv
<1>5. SessionInv /\ WaitInv
  BY DEF Init, SessionInv, WaitInv, AskedNotLost
<1> QED
  BY <1>2, <1>3, <1>4, <1>5 DEF IInv, HonestInv

LEMMA NextInv == IInv /\ [Next]_vars => IInv'
<1> SUFFICES ASSUME IInv, [Next]_vars PROVE IInv'
  OBVIOUS
<1>1. ASSUME NEW t \in Targets, Open(t) PROVE IInv'
  BY <1>1, OpenStep
<1>2. ASSUME NEW l \in loads, LoadAnswered(l) PROVE IInv'
  BY <1>2, LoadStep
<1>3. ASSUME NEW text \in Texts, Write(text) PROVE IInv'
  BY <1>3, WriteStep
<1>4. CASE Send
  BY <1>4, PublishStep
<1>5. CASE SelectImage
  BY <1>5, ImageStep
<1>6. ASSUME NEW u \in uploads, UploadDone(u) PROVE IInv'
  BY <1>6, PublishStep
<1>7. ASSUME NEW u \in uploads, UploadFailed(u) PROVE IInv'
  BY <1>7, UploadFailedStep
<1>8. ASSUME NEW g \in Managed, NEW b \in Bots, AddBot(g, b) \/ RemoveBot(g, b) PROVE IInv'
  <2>1. g \in Groups /\ members[g] \in SUBSET Bots
    BY RoutingAssumption DEF IInv, Types
  <2>2. \E S \in SUBSET Bots : ChangeMembers(g, S)
    BY <1>8, <2>1 DEF AddBot, RemoveBot
  <2> QED
    BY <2>1, <2>2, MembersStep
<1>9. ASSUME NEW b \in Bots, Boot(b) PROVE IInv'
  BY <1>9, BootStep
<1>10. ASSUME NEW b \in Bots, Stop(b) PROVE IInv'
  BY <1>10, StopStep
<1>11. ASSUME NEW b \in Bots, Take(b) PROVE IInv'
  BY <1>11, TakeStep
<1>12. ASSUME NEW b \in Bots, NEW task \in tasks[b], Finish(b, task) PROVE IInv'
  BY <1>12, FinishStep
<1>13. CASE UNCHANGED vars
  <2>1. UNCHANGED <<groupVars, composer, broker, inbox, heard, runtime>>
    BY <1>13 DEF vars
  <2>2. Types' /\ ListInv' /\ HonestInv'
    BY <2>1 DEF IInv, Types, ListInv, HonestInv, Settled, groupVars, composer, broker, runtime
  <2> QED
    BY <2>1, <2>2, QuietKeepsInv DEF broker, runtime
<1>14. CASE ComposerStep
  BY <1>14, <1>1, <1>2, <1>3, <1>4, <1>5, <1>6, <1>7 DEF ComposerStep
<1> QED
  BY <1>8, <1>9, <1>10, <1>11, <1>12, <1>13, <1>14 DEF Next, BotStep

LEMMA IInvAlways == Spec => []IInv
BY InitInv, NextInv, PTL DEF Spec

-----------------------------------------------------------------------------
(* The theorems *)

LEMMA OneLoadCounts ==
  ASSUME Types, ListInv
  PROVE  Cardinality({l \in loads : ~ l.cancelled}) <= 1
<1> DEFINE L == {l \in loads : ~ l.cancelled}
<1>1. ASSUME NEW l \in L, NEW k \in L
      PROVE  l = k
  <2>1. /\ l \in [group : Groups, cancelled : BOOLEAN] /\ ~ l.cancelled
        /\ k \in [group : Groups, cancelled : BOOLEAN] /\ ~ k.cancelled
    BY DEF Types
  <2>2. l.group = k.group
    BY <2>1 DEF ListInv
  <2>3. l.cancelled = k.cancelled
    BY <2>1
  <2> QED
    BY <2>1, <2>2, <2>3
<1>2. L = {} \/ \E l : L = {l}
  BY <1>1
<1> HIDE DEF L
<1>3. L = {} => Cardinality(L) = 0
  BY FS_EmptySet
<1>4. \A l : Cardinality({l}) = 1
  BY FS_Singleton
<1>5. Cardinality(L) <= 1
  BY <1>2, <1>3, <1>4
<1> QED
  BY <1>5 DEF L

LEMMA InvTypes == IInv => TypeOK
<1> SUFFICES ASSUME IInv PROVE TypeOK
  OBVIOUS
<1>1. Types /\ Pointers /\ ListInv /\ TaskInv
  BY DEF IInv
<1>2. /\ members \in [Groups -> SUBSET Bots] /\ current \in Targets \cup {None}
      /\ list.bots \subseteq Bots /\ list.group \in Groups \cup {None}
      /\ loads \subseteq [group : Groups, cancelled : BOOLEAN]
      /\ refused \subseteq DOMAIN messages
  BY <1>1 DEF Types, Lists
<1>3. \A n \in DOMAIN messages : messages[n] \in MessageType
  BY <1>1, TopicOf
<1>4. Cardinality({l \in loads : ~ l.cancelled}) <= 1
  BY <1>1, OneLoadCounts
<1>5. ASSUME NEW b \in Bots
      PROVE  /\ subs[b] \subseteq Groups
             /\ ToSet(inbox[b]) \cup {t.source : t \in tasks[b]} \subseteq DOMAIN messages
             /\ \A t, u \in tasks[b] :
                  messages[t.source].topic = messages[u.source].topic => t = u
  BY <1>1 DEF Types, Pointers, TaskInv, ToSet
<1> QED
  BY <1>2, <1>3, <1>4, <1>5 DEF TypeOK

LEMMA InvAnswered == IInv => AnsweredByAsked
<1> SUFFICES ASSUME IInv PROVE AnsweredByAsked
  OBVIOUS
<1>1. Types /\ LogInv /\ SessionInv
  BY DEF IInv
<1>2. ASSUME NEW n \in Replies
      PROVE  \E r \in MessageType, b \in Bots, k \in DOMAIN messages : \E m \in MessageType :
               /\ r = messages[n] /\ m = messages[k]
               /\ r.from = BotPeer(b) /\ r.source = k
               /\ ShouldProcess(m, b) /\ r.topic = m.topic /\ Allowed(m, b)
               /\ r.session # 0 /\ r.session = sessions[b][r.topic]
  <2>1. n \in DOMAIN messages /\ messages[n].answer = "reply"
    BY DEF Replies
  <2>2. PICK r \in MessageType : r = messages[n]
    BY <1>1, <2>1, TopicOf
  <2>3. Answered(r)
    BY <1>1, <2>1, <2>2 DEF LogInv, Explained, Asked
  <2>4. PICK b \in Bots, k \in DOMAIN messages :
          /\ r.from = BotPeer(b) /\ r.source = k
          /\ ShouldProcess(messages[k], b) /\ r.topic = messages[k].topic
          /\ Allowed(messages[k], b)
          /\ r.session # 0 /\ r.session = sessions[b][r.topic]
    BY <2>1, <2>2, <2>3 DEF Answered
  <2>5. PICK m \in MessageType : m = messages[k]
    BY <1>1, TopicOf
  <2> QED
    BY <2>2, <2>4, <2>5
<1>3. ASSUME NEW n \in Replies
      PROVE  LET r == messages[n]  m == messages[r.source]  b == r.from.id IN
             /\ m.from.type = "user"
             /\ IF m.topic.group = None THEN b = m.to.id
                ELSE m.settled => b \in Meant(m)
             /\ FiledUnder(r.topic) = m.topic
             /\ HasApprover(ConfigFile, Env) \/ Permitted(m, b)
  <2>1. PICK r \in MessageType, b \in Bots, k \in DOMAIN messages : \E m \in MessageType :
               /\ r = messages[n] /\ m = messages[k]
               /\ r.from = BotPeer(b) /\ r.source = k
               /\ ShouldProcess(m, b) /\ r.topic = m.topic /\ Allowed(m, b)
    BY <1>2
  <2>2. PICK m \in MessageType :
               /\ r = messages[n] /\ m = messages[k]
               /\ r.from = BotPeer(b) /\ r.source = k
               /\ ShouldProcess(m, b) /\ r.topic = m.topic /\ Allowed(m, b)
    BY <2>1
  <2>3. Asked(m) \/ Answered(m)
    BY <1>1, <2>2 DEF LogInv, Explained
  <2>4. /\ Asked(m) /\ m.from.type = "user"
        /\ IF m.topic.group = None THEN b = m.to.id ELSE m.settled => b \in Meant(m)
    BY <2>2, <2>3, PassesWasAsked
  <2>5. FiledUnder(r.topic) = m.topic
    BY <2>2, <2>4, TopicKept DEF Asked
  <2>6. r.from.id = b
    BY <2>2 DEF BotPeer
  <2>7. HasApprover(ConfigFile, Env) \/ Permitted(m, b)
    BY <2>2 DEF Allowed
  <2> QED
    BY <2>2, <2>4, <2>5, <2>6, <2>7
<1>4. ASSUME NEW n \in Replies, NEW k \in Replies, messages[n].from = messages[k].from
      PROVE  messages[n].topic = messages[k].topic <=> messages[n].session = messages[k].session
  <2>1. PICK r \in MessageType, b \in Bots :
          /\ r = messages[n] /\ r.from = BotPeer(b)
          /\ r.session # 0 /\ r.session = sessions[b][r.topic]
    BY <1>2
  <2>2. PICK s \in MessageType, c \in Bots :
          /\ s = messages[k] /\ s.from = BotPeer(c)
          /\ s.session # 0 /\ s.session = sessions[c][s.topic]
    BY <1>2
  <2>3. BotPeer(b).id = b /\ BotPeer(c).id = c
    BY DEF BotPeer
  <2>4. b = c
    BY <1>4, <2>1, <2>2, <2>3
  <2>5. r.topic \in Topics /\ s.topic \in Topics
    BY DEF MessageType
  <2>6. r.topic = s.topic <=> r.session = s.session
    BY <1>1, <2>1, <2>2, <2>4, <2>5 DEF SessionInv
  <2> QED
    BY <2>1, <2>2, <2>6
<1> QED
  BY <1>3, <1>4 DEF AnsweredByAsked

\* Every variable of the composer, the broker and the runtimes keeps its type,
\* at most one request for a group's bots counts, what a runtime holds are
\* publications, and no dialog has two tasks: the `cancelled` flag of
\* ChatInput's effect and the per-dialog turn of the bot's runtime see to it
\* for any set of groups, bots and mentions.
THEOREM TypeCorrect == Spec => []TypeOK
BY IInvAlways, InvTypes, PTL

\* Whatever the user opens, writes and sends while lists load, images upload,
\* members change and runtimes stop and start, a bot's answer was asked for: by
\* a message of the user that is direct to it or whose text means it in that
\* group (once the list was there), that checkPermission or an approver let
\* through; the answer is filed where the question is, and a bot's answers
\* share a session of SessionManager exactly when they share a conversation.
THEOREM AnsweredByAskedAlways == Spec => []AnsweredByAsked
BY IInvAlways, InvAnswered, PTL

\* When no alias of a group names two of its bots, a message that asks a bot
\* and has reached its runtime waits in the inbox or is a task until it is
\* finished: shouldProcessMessage drops nothing that encodeMentionedBots meant.
\* With an alias that two bots share, encodeMentionedBots names the first of
\* them in the list only.
THEOREM AskedNotLostAlways ==
  ASSUME AliasesTellApart
  PROVE  Spec => []AskedNotLost
<1>1. IInv => AskedNotLost
  BY AliasesTellApart DEF IInv, WaitInv
<1> QED
  BY <1>1, IInvAlways, PTL
=================================================================================
