---------------------------- MODULE ChatRouting ----------------------------
(***************************************************************************)
(* Who answers a message, where: from the web client's composer            *)
(* (ChatInput, with the list of a group's bots that it loads and the names *)
(* it resolves against it) over the topic of the conversation to the bots' *)
(* runtimes (router/message.ts, permissions.ts, the sessions), and back to *)
(* the conversation and to the backend that stores what was published.     *)
(*                                                                         *)
(* A topic is the route parseRoute, parseMessageRoute and parseChatTopic   *)
(* read from it: a group, or two peers.  Channel and guild topics are left *)
(* out: no client composes them and the backend refuses them.  A written   *)
(* mention and an alias are sequences of words; a mention runs on to the   *)
(* end of what could be a name.  Publishing, reconnecting, catching up and *)
(* the runtime's queue are modelled in WebChat and BotRuntime: here a      *)
(* publication reaches every bot that is subscribed, in order.             *)
(***************************************************************************)
EXTENDS PluginConfig, Sequences, FiniteSets, SequencesExt

CONSTANTS User, Bots, Groups,
          Targets,      \* the conversations the user opens
          Written,      \* the mentions the user may write
          Texts,        \* and the sets of them that make a text
          Aliases,      \* group -> bot -> nickname there and name of the bot
          BotName,      \* bot -> its name
          InitialMembers, \* group -> bots
          ConfigFile, Env, \* the configuration of the plugin's process
          KeyOf,        \* bot -> its key in the configuration
          MaxOpens,     \* bound: changes of the conversation on display
          MaxSent,      \* bound: messages the user starts to send
          Managed,      \* the groups whose members change
          MaxChanges    \* bound: changes of members

Peers == [type : {"user"}, id : {User}] \cup [type : {"bot"}, id : Bots]
GroupPeers == [type : {"group"}, id : Groups]

\* The settings a bot's runtime works with.
Config == [b \in Bots |-> LoadBots(ConfigFile, Env)[KeyOf[b]]]

\* The bots that get a runtime.
Running == {b \in Bots : KeyOf[b] \in EnabledBots(ConfigFile, Env)}

\* A configured id is the one of the bot that owns the access key.
ASSUME RoutingAssumption ==
  /\ Targets \subseteq GroupPeers \cup [type : {"bot"}, id : Bots]
  /\ Aliases \in [Groups -> [Bots -> SUBSET Written]]
  /\ BotName \in [Bots -> Written]
  /\ InitialMembers \in [Groups -> SUBSET Bots]
  /\ Groups \cup {User} \subseteq Items
  /\ FileType(ConfigFile) /\ Overrides(Env) /\ ~ Refused(ConfigFile, Env)
  /\ KeyOf \in [Bots -> DOMAIN LoadBots(ConfigFile, Env)]
  /\ \A b \in Bots : Config[b].id \in {None, b}
  /\ None \notin Groups \cup Bots \cup Targets \cup Peers
  /\ Texts \subseteq SUBSET Written
  /\ IsFiniteSet(Groups) /\ IsFiniteSet(Bots) /\ Written \subseteq Seq(STRING)
  /\ MaxOpens \in Nat /\ MaxSent \in Nat /\ MaxChanges \in Nat
  /\ Managed \subseteq Groups

VARIABLES members,   \* group -> bots that belong to it
          changes,
          current,   \* currentConversation.target
          list,      \* groupBots: of which group, and the bots
          opens,
          loads,     \* getMembers requests under way
          draft,     \* the mentions in the text field; None: it is empty
          uploads,   \* images under way, with what their handler captured
          sent,      \* messages the user has started to send
          messages,  \* all publications, in order
          refused,   \* those the backend has not stored
          up,        \* bot -> its runtime is running
          subs,      \* bot -> groups whose topic it has subscribed
          inbox,     \* bot -> publications (their numbers) on their way
          tasks,     \* bot -> messages it is answering
          sessions,  \* bot -> topic -> session, 0: none
          heard      \* bot -> publications it has heard and not answered

groupVars == <<members, changes>>
composer == <<current, opens, list, loads, draft, uploads, sent>>
broker == <<messages, refused>>
runtime == <<up, subs, tasks, sessions>>
vars == <<groupVars, composer, broker, inbox, heard, runtime>>

-----------------------------------------------------------------------------
(* Topics *)

Rank(type) == IF type = "user" THEN 0 ELSE 1

GroupTopic(g) == [group |-> g, left |-> None, right |-> None]

\* canonicalizeDirectPeers: the peer of the lower rank first.  A user and a bot
\* never tie.
DirectTopic(p, q) ==
  IF Rank(p.type) <= Rank(q.type)
  THEN [group |-> None, left |-> p, right |-> q]
  ELSE [group |-> None, left |-> q, right |-> p]

UserPeer == [type |-> "user", id |-> User]
BotPeer(b) == [type |-> "bot", id |-> b]

\* createGroupDraftConversation, createBotDraftConversation: send_topic.
SendTopic(target) ==
  IF target.type = "group" THEN GroupTopic(target.id)
  ELSE DirectTopic(UserPeer, target)

Topics == {SendTopic(t) : t \in GroupPeers \cup [type : {"bot"}, id : Bots]}

\* buildReplyTopic.
ReplyTopic(topic) ==
  IF topic.group # None THEN GroupTopic(topic.group)
  ELSE DirectTopic(topic.left, topic.right)

\* conversationIdFromTopic: where a client files what comes on a topic.
FiledUnder(topic) ==
  IF topic.group # None THEN GroupTopic(topic.group)
  ELSE DirectTopic(topic.left, topic.right)

\* The topics the broker matches with a bot's subscriptions: the wildcards of
\* its direct conversations and the groups it belonged to at the bootstrap.
Hears(b, topic) ==
  /\ up[b]
  /\ \/ topic.group \in subs[b]
     \/ topic.group = None /\ BotPeer(b) \in {topic.left, topic.right}

-----------------------------------------------------------------------------
(* The names in a text *)

\* The candidates for a mention.  Another conversation than a group offers all
\* the user's bots, by their names.
AliasesIn(g, b) == IF g = None THEN {BotName[b]} ELSE Aliases[g][b]

Candidates(from, w) ==
  {c \in from.bots \X Written :
     c[2] \in AliasesIn(from.group, c[1]) /\ IsPrefix(c[2], w)}

\* The longest alias that fits wins.
Denoted(from, w) ==
  {c \in Candidates(from, w) :
     \A d \in Candidates(from, w) : Len(d[2]) <= Len(c[2])}

\* encodeMentionedBots: two bots of one alias cannot be told apart, the one the
\* list has first is meant.
Encoded(text, from) ==
  {LET first == CHOOSE c \in Denoted(from, w) : TRUE IN first[1] :
     w \in {v \in text : Denoted(from, v) # {}}}

\* mentionBots
MentionBots ==
  IF current.type = "group" THEN list ELSE [group |-> None, bots |-> Bots]

\* The list is the one of the group on display: no request is under way.
Settled == \A l \in loads : l.cancelled

-----------------------------------------------------------------------------
(* Members *)

ChangeMembers(g, S) ==
  /\ changes < MaxChanges
  /\ changes' = changes + 1
  /\ members' = [members EXCEPT ![g] = S]
  /\ UNCHANGED <<composer, broker, inbox, heard, runtime>>

AddBot(g, b) == b \notin members[g] /\ ChangeMembers(g, members[g] \cup {b})
RemoveBot(g, b) == b \in members[g] /\ ChangeMembers(g, members[g] \ {b})

-----------------------------------------------------------------------------
(* The composer *)

NoList == [group |-> None, bots |-> {}]

\* Faulty: the request under way goes on.
FaultyCancelled == loads

\* The effect's clean-up, before it runs again.
Cancelled == {[l EXCEPT !.cancelled = TRUE] : l \in loads}

\* currentConversation changes, or is replaced by a newer object of the same
\* conversation: the effect cancels its request and, in a group, loads the
\* bots again; the old list stays until the answer.  Bots and groups have
\* pages of their own, so the composer is a new one when the kind changes.
Open(t) ==
  LET remount == current = None \/ current.type # t.type IN
  /\ opens < MaxOpens
  /\ opens' = opens + 1
  /\ current' = t
  /\ loads' = IF t.type = "group"
              THEN Cancelled \cup {[group |-> t.id, cancelled |-> FALSE]}
              ELSE Cancelled
  /\ list' = IF remount THEN NoList ELSE list
  /\ draft' = IF remount THEN None ELSE draft
  /\ uploads' = IF remount THEN {[u EXCEPT !.mounted = FALSE] : u \in uploads}
                ELSE uploads
  /\ UNCHANGED <<groupVars, sent, broker, inbox, heard, runtime>>

\* Faulty: the answer of a cancelled request is taken.
FaultyLoadAnswered(l) ==
  /\ loads' = loads \ {l}
  /\ list' \in [group : {l.group}, bots : {members[l.group], {}}]
  /\ UNCHANGED <<groupVars, current, opens, draft, uploads, sent, broker,
                 inbox, heard, runtime>>

\* getMembers answers or fails.
LoadAnswered(l) ==
  /\ loads' = loads \ {l}
  /\ IF l.cancelled THEN UNCHANGED list
     ELSE list' \in [group : {l.group}, bots : {members[l.group], {}}]
  /\ UNCHANGED <<groupVars, current, opens, draft, uploads, sent, broker,
                 inbox, heard, runtime>>

Uploading == \E u \in uploads : u.mounted

\* The text field is disabled during an upload.
Write(text) ==
  /\ current # None
  /\ ~ Uploading
  /\ draft' = text
  /\ UNCHANGED <<groupVars, current, opens, list, loads, uploads, sent, broker,
                 inbox, heard, runtime>>

\* The validateNormalizedMessage: in a group the receiver has to be the
\* group, in a direct conversation sender and receiver are its two peers.
Valid(m) ==
  IF m.topic.group # None
  THEN m.to = [type |-> "group", id |-> m.topic.group]
  ELSE m.from # m.to /\ {m.from, m.to} \subseteq {m.topic.left, m.topic.right}

\* The broker passes a publication on to every subscriber and to the backend,
\* which stores it or refuses it (HandleIncomingMessage).  pending: what the
\* runtimes have heard before.
Publish(m, pending) ==
  LET n == Len(messages) + 1 IN
  /\ messages' = Append(messages, m)
  /\ refused' = IF Valid(m) THEN refused ELSE refused \cup {n}
  /\ inbox' = [b \in Bots |-> IF Hears(b, m.topic) THEN Append(inbox[b], n)
                              ELSE inbox[b]]
  /\ heard' = [b \in Bots |-> IF Hears(b, m.topic) THEN pending[b] \cup {n}
                              ELSE pending[b]]

\* ChatContext.sendMessage, with what the composer has captured.
Message(c) ==
  [from |-> UserPeer, to |-> c.target, topic |-> SendTopic(c.target),
   mentions |-> Encoded(c.text, c.from), source |-> 0, session |-> 0,
   answer |-> "none", text |-> c.text, listed |-> c.from.bots,
   settled |-> c.settled]

Captured == [target |-> current, from |-> MentionBots, settled |-> Settled,
             text |-> IF draft = None THEN {} ELSE draft, mounted |-> TRUE]

\* handleSend
Send ==
  /\ current # None /\ draft # None
  /\ ~ Uploading
  /\ sent < MaxSent
  /\ sent' = sent + 1
  /\ draft' = None
  /\ Publish(Message(Captured), heard)
  /\ UNCHANGED <<groupVars, current, opens, list, loads, uploads, runtime>>

\* handleImageSelect, up to its first await: the upload is prepared for the
\* conversation on display.
SelectImage ==
  /\ current # None
  /\ ~ Uploading
  /\ sent < MaxSent
  /\ sent' = sent + 1
  /\ uploads' = uploads \cup {Captured}
  /\ UNCHANGED <<groupVars, current, opens, list, loads, draft, broker, inbox,
                 heard, runtime>>

\* Prepared, uploaded and completed: the image goes where it was prepared for.
UploadDone(u) ==
  /\ uploads' = uploads \ {u}
  /\ draft' = IF u.mounted THEN None ELSE draft
  /\ Publish(Message(u), heard)
  /\ UNCHANGED <<groupVars, current, opens, list, loads, sent, runtime>>

UploadFailed(u) ==
  /\ uploads' = uploads \ {u}
  /\ UNCHANGED <<groupVars, current, opens, list, loads, draft, sent, broker,
                 inbox, heard, runtime>>

-----------------------------------------------------------------------------
(* A bot's runtime *)

\* resolveSubscriptions of the bootstrap; the sessions come from their file.
Boot(b) ==
  /\ b \in Running /\ ~ up[b]
  /\ up' = [up EXCEPT ![b] = TRUE]
  /\ subs' = [subs EXCEPT ![b] = {g \in Groups : b \in members[g]}]
  /\ UNCHANGED <<groupVars, composer, broker, inbox, heard, tasks, sessions>>

Stop(b) ==
  /\ up[b]
  /\ up' = [up EXCEPT ![b] = FALSE]
  /\ subs' = [subs EXCEPT ![b] = {}]
  /\ inbox' = [inbox EXCEPT ![b] = << >>]
  /\ heard' = [heard EXCEPT ![b] = {}]
  /\ tasks' = [tasks EXCEPT ![b] = {}]
  /\ UNCHANGED <<groupVars, composer, broker, sessions>>

IsGroupMessage(m) == m.to.type = "group" \/ m.topic.group # None

\* isMessageMentionedForBot
Mentioned(m, b) == b \in m.mentions

\* Faulty: a direct message needs a mention too.
FaultyShouldProcess(m, b) ==
  /\ m.from.type = "user"
  /\ m.to.type = "bot" => m.to.id = b
  /\ Mentioned(m, b)

\* shouldProcessMessage
ShouldProcess(m, b) ==
  /\ m.from.type = "user"
  /\ m.to.type = "bot" => m.to.id = b
  /\ IsGroupMessage(m) => Mentioned(m, b)

\* resolveChannelContext: a group, or the user of the direct conversation.
Channel(m) ==
  IF m.topic.group # None THEN [type |-> "group", id |-> m.topic.group]
  ELSE [type |-> "dm", id |-> User]

\* matchesAllowList.  Payloads carry ids only, so a list that matches by name
\* matches nothing.
Matches(allowList, id) == allowList.mode # "name" /\ id \in allowList.items

CheckPermission(config, user, channel) ==
  /\ config.enabled
  /\ config.actions["sendMessage"]
  /\ config.users # None => Matches(config.users, user)
  /\ channel.type = "group" => config.groupPolicy # "disabled"
  /\ IF config.channels # None THEN Matches(config.channels, channel.id)
     ELSE ~ (channel.type = "group" /\ config.groupPolicy = "allowlist")

\* routeIncomingMessage
Permitted(m, b) == CheckPermission(Config[b], m.from.id, Channel(m))

\* resolvePermissionApproval: what may become of the message.
Verdicts(m, b) ==
  IF Permitted(m, b) THEN {"reply"}
  ELSE {"notice", "silence"} \cup
         IF HasApprover(ConfigFile, Env) THEN {"reply"} ELSE {}

\* randomUUID
NewSession(b) ==
  CHOOSE n \in 1 .. (Cardinality(Topics) + 1) : \A t \in Topics : sessions[b][t] # n

\* getOrCreate: SessionManager and ChannelState keep a session for each dialog.
SessionOf(b, topic) ==
  IF sessions[b][topic] # 0 THEN sessions[b][topic] ELSE NewSession(b)

\* toOpenClawRequest: what the task works on.
Request(n, verdict, session) ==
  [source |-> n, answer |-> verdict, session |-> session]

Busy(b, topic) == \E t \in tasks[b] : messages[t.source].topic = topic

\* handleIncomingMessage and the start of its task: the first message of its
\* dialog, when no task of that dialog runs.
Take(b) ==
  \E i \in DOMAIN inbox[b] :
    LET n == inbox[b][i]  m == messages[n] IN
    /\ ~ Busy(b, m.topic)
    /\ \A j \in 1 .. (i - 1) : messages[inbox[b][j]].topic # m.topic
    /\ inbox' = [inbox EXCEPT ![b] = RemoveAt(@, i)]
    /\ \/ /\ ~ ShouldProcess(m, b)
          /\ UNCHANGED <<tasks, sessions>>
       \/ /\ ShouldProcess(m, b)
          /\ \E verdict \in Verdicts(m, b) :
               LET session == IF verdict = "reply" THEN SessionOf(b, m.topic)
                              ELSE sessions[b][m.topic] IN
               /\ tasks' = [tasks EXCEPT ![b] = @ \cup
                    {Request(n, verdict, session)}]
               /\ sessions' = [sessions EXCEPT ![b][m.topic] = session]
    /\ UNCHANGED <<groupVars, composer, broker, heard, up, subs>>

\* toBotChatOutgoingMessage, toRealtimePublishPayload: to the author of the
\* message, on the dialog's topic.  The metadata of the message, its mentions
\* among it, is passed on.
Reply(b, task) ==
  LET m == messages[task.source] IN
  [from |-> BotPeer(b), to |-> m.from, topic |-> ReplyTopic(m.topic),
   mentions |-> m.mentions, source |-> task.source, session |-> task.session,
   answer |-> task.answer, text |-> {}, listed |-> {},
   settled |-> m.settled]

\* The agent answers, or answers nothing; the task ends.
Finish(b, task) ==
  LET pending == [heard EXCEPT ![b] = @ \ {task.source}] IN
  /\ tasks' = [tasks EXCEPT ![b] = @ \ {task}]
  /\ \/ task.answer # "silence" /\ Publish(Reply(b, task), pending)
     \/ task.answer # "notice" /\ heard' = pending /\ UNCHANGED <<broker, inbox>>
  /\ UNCHANGED <<groupVars, composer, up, subs, sessions>>

-----------------------------------------------------------------------------
Init ==
  /\ members = InitialMembers /\ changes = 0
  /\ current = None /\ opens = 0 /\ list = NoList /\ loads = {} /\ draft = None
  /\ uploads = {} /\ sent = 0
  /\ messages = << >> /\ refused = {}
  /\ up = [b \in Bots |-> FALSE]
  /\ subs = [b \in Bots |-> {}] /\ inbox = [b \in Bots |-> << >>]
  /\ tasks = [b \in Bots |-> {}]
  /\ heard = [b \in Bots |-> {}]
  /\ sessions = [b \in Bots |-> [t \in Topics |-> 0]]

ComposerStep ==
  \/ \E t \in Targets : Open(t)
  \/ \E l \in loads : LoadAnswered(l)
  \/ \E text \in Texts : Write(text)
  \/ Send \/ SelectImage
  \/ \E u \in uploads : UploadDone(u) \/ UploadFailed(u)

BotStep(b) == Take(b) \/ \E task \in tasks[b] : Finish(b, task)

Next ==
  \/ ComposerStep
  \/ \E g \in Managed, b \in Bots : AddBot(g, b) \/ RemoveBot(g, b)
  \/ \E b \in Bots : Boot(b) \/ Stop(b) \/ BotStep(b)

Spec == Init /\ [][Next]_vars

-----------------------------------------------------------------------------
(* Properties *)

MessageType ==
  [from : Peers, to : Peers \cup GroupPeers, topic : Topics,
   mentions : SUBSET Bots, source : Nat, session : Nat,
   answer : {"none", "reply", "notice"}, text : SUBSET Written,
   listed : SUBSET Bots, settled : BOOLEAN]

\* Every variable has its type; tasks and inboxes point at publications.
TypeOK ==
  /\ members \in [Groups -> SUBSET Bots]
  /\ current \in Targets \cup {None}
  /\ list.bots \subseteq Bots /\ list.group \in Groups \cup {None}
  /\ loads \subseteq [group : Groups, cancelled : BOOLEAN]
  /\ Cardinality({l \in loads : ~ l.cancelled}) <= 1
  /\ \A n \in DOMAIN messages : messages[n] \in MessageType
  /\ refused \subseteq DOMAIN messages
  /\ \A b \in Bots :
       /\ subs[b] \subseteq Groups
       /\ ToSet(inbox[b]) \cup {t.source : t \in tasks[b]} \subseteq DOMAIN messages
       /\ \A t, u \in tasks[b] :
            messages[t.source].topic = messages[u.source].topic => t = u

\* The bots that a message means in its group: among those the composer had
\* listed, the ones of the longest alias there that a mention begins with.
Meant(m) ==
  LET Fits(b, w) == {a \in Aliases[m.topic.group][b] : IsPrefix(a, w)} IN
  {b \in m.listed : \E w \in m.text : \E a \in Fits(b, w) :
     \A c \in m.listed : \A d \in Fits(c, w) : Len(d) <= Len(a)}

Replies == {n \in DOMAIN messages : messages[n].answer = "reply"}

\* An answer comes from a bot that was asked: the peer of the direct
\* conversation, or a bot that the text means in that group, if the composer
\* had the group's list by then; its settings or its approver let it answer; it
\* is filed in the conversation of the question; and the answers of one bot
\* share a session exactly when they share a conversation.
AnsweredByAsked ==
  /\ \A n \in Replies :
       LET r == messages[n]  m == messages[r.source]  b == r.from.id IN
       /\ m.from.type = "user"
       /\ IF m.topic.group = None THEN b = m.to.id
          ELSE m.settled => b \in Meant(m)
       /\ FiledUnder(r.topic) = m.topic
       /\ HasApprover(ConfigFile, Env) \/ Permitted(m, b)
  /\ \A n, k \in Replies :
       messages[n].from = messages[k].from =>
         (messages[n].topic = messages[k].topic
            <=> messages[n].session = messages[k].session)

Asks(m, b) ==
  /\ m.from.type = "user"
  /\ IF m.topic.group = None THEN b = m.to.id ELSE m.settled /\ b \in Meant(m)

\* A message that asks a bot and has reached its runtime is not lost on its way
\* through the filter, the permissions and the dialog's turn: until it is
\* finished it waits or is being answered, unless the runtime stops.
AskedNotLost ==
  \A b \in Bots : \A n \in heard[b] :
    Asks(messages[n], b) =>
      n \in ToSet(inbox[b]) \cup {t.source : t \in tasks[b]}

\* What a bot answers is stored like every message on a conversation's topic
\* (backend/README.md: the backend subscribes to the business topics and stores
\* what comes).
RepliesStored == \A n \in refused : messages[n].from.type # "bot"
=============================================================================
