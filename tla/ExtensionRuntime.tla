-------------------------- MODULE ExtensionRuntime --------------------------
(***************************************************************************)
(* The OpenClaw channel extension: startAccount and dispatchBotChatReply   *)
(* of channel.ts on top of DefaultBotChatRuntime of runtime.ts.  Every     *)
(* incoming message gets a handler of its own that awaits the approver,    *)
(* the agent, the publish, and two steps of the state file; nothing orders *)
(* the handlers of two messages.  A history recovery runs after start()    *)
(* and another one after every MQTT connect, beside the handlers.          *)
(*                                                                         *)
(* A conversation is the direct dialog of a user with the bot.  What the   *)
(* bot publishes in it comes back to its own subscription.                 *)
(***************************************************************************)
EXTENDS Naturals, Sequences, FiniteSets

CONSTANTS Users,
          Bot, Default,    \* the sender ids the extension writes: its bot's, "default"
          Inputs,          \* what users write: sender, blocked in its metadata
          Configs,         \* configurations: allowFrom, approval, deniedReply,
                           \* and a bound: how many messages users write under it
          DataIsArray,     \* the history answer is an array in `data' (the
                           \* tests' server) or data.messages (the backend)
          Limit,           \* historyCatchupLimit
          Attempts,        \* 3: the tries of bootstrapBotWithRetry
          MaxLog,          \* bound: messages of users and answers of the agent
          MaxDenials,      \* bound: denied replies
          MaxFaults        \* bound: connections lost, stops, deaths and errors

ASSUME ExtensionAssumption ==
  /\ IsFiniteSet(Users) /\ Bot \notin Users /\ Default \notin Users \cup {Bot}
  /\ \A c \in Configs : c.allowFrom \subseteq Users /\ {c.approval, c.deniedReply} \subseteq BOOLEAN
                             /\ c.messages \in Nat
  /\ Inputs \subseteq Users \X BOOLEAN /\ DataIsArray \in BOOLEAN
  /\ {Limit, Attempts, MaxLog} \subseteq Nat \ {0}
  /\ {MaxDenials, MaxFaults} \subseteq Nat

VARIABLES config,
          gateway,     \* where startAccount and its stop are
          started,     \* the flag of the runtime
          loaded,      \* statePath is set and the file was read
          tries,       \* bootstrap attempts of this start
          client,      \* mqttClient: "none", "offline", "online"
          log,         \* everything published, with the stage of its handler
          marks,       \* checkpoints in memory: conversation -> message, 0 none
          writing,     \* state files open for writing: [by, map]
          file,        \* {map}, or {}: missing, empty or not JSON
          recovery,    \* the recoveries of start() and of the connect handler
          handled,     \* messages whose hook has returned
          recovered,   \* messages a recovery gave to the hook
          overlapped,  \* two writes of the file were open at once
          faults       \* connections lost, stops, deaths and errors so far

connection == <<config, gateway, started, loaded, tries, client>>
memory == <<marks, writing, file, overlapped>>
vars == <<connection, log, memory, recovery, handled, recovered, faults>>

-----------------------------------------------------------------------------
Senders == Users \cup {Bot, Default}
Ids == 1 .. Len(log)
NoMarks == [u \in Users |-> 0]
Slots == {"start", "connect", "reconnect"}
Idle == [at |-> "idle", seen |-> {}, queue |-> {}]

\* The stages of a handler; "missed" is a message no handler saw.
Over == {"missed", "done", "denied", "failed", "lost"}
Stages == Over \cup {"asking", "refusing", "agent", "replying", "hooked", "writing"}

Fault == faults < MaxFaults /\ faults' = faults + 1

\* evaluateBotChatAccess: allowFrom is the first gate (empty allows all);
\* a blocked message needs the approver, if there is one.
SenderAllowed(m) == config.allowFrom = {} \/ m.from \in config.allowFrom
Refused == IF config.deniedReply THEN "refusing" ELSE "denied"

\* Mutant: the hook takes messages of bots too.
FaultyHook(m) == "agent"

\* The hook given by startAccount ignores what a bot sent.
Hook(m) == IF m.from \in Users THEN "agent" ELSE "hooked"

\* Mutant: the gate of allowFrom is left out.
FaultyReceived(m) ==
  IF ~m.blocked THEN IF m.from \in Users THEN "agent" ELSE "hooked"
  ELSE IF config.approval THEN "asking" ELSE Refused

\* handleInbound up to its first await.
Received(m) ==
  IF ~SenderAllowed(m) THEN Refused
  ELSE IF ~m.blocked THEN Hook(m)
  ELSE IF config.approval THEN "asking" ELSE Refused

\* A published message, and the handler it starts when the client is there.
Logged(l, m) ==
  Append(l, [m EXCEPT !.stage = IF client = "online" THEN Received(m) ELSE "missed"])

Message(u, blocked) ==
  [conv |-> u, from |-> u, blocked |-> blocked, re |-> 0, stage |-> "missed"]

\* The reply carries the bot's id; the denied reply has no botId in its
\* metadata and is from "default".
Answer(i, from) ==
  [conv |-> log[i].conv, from |-> from, blocked |-> FALSE, re |-> i, stage |-> "missed"]

Answers == Cardinality({i \in Ids : log[i].from \in Users \cup {Bot}})
Expected == Cardinality({i \in Ids : log[i].stage = "replying"})
              + Cardinality({s \in Slots : recovery[s].at = "replying"})
Denials == Cardinality({i \in Ids : log[i].from = Default})

AtStage(i, stage) == i \in Ids /\ log[i].stage = stage
To(i, stage) == [log EXCEPT ![i].stage = stage]

-----------------------------------------------------------------------------
\* A user writes in the dialog with the bot.
Publish(u, blocked) ==
  /\ Cardinality({i \in Ids : log[i].from \in Users}) < config.messages
  /\ Answers + Expected < MaxLog
  /\ log' = Logged(log, Message(u, blocked))
  /\ UNCHANGED <<connection, memory, recovery, handled, recovered, faults>>

\* approver.approve: no timeout is set, so an answer may never come.
Approve(i) ==
  /\ AtStage(i, "asking")
  /\ \/ log' = To(i, Hook(log[i])) /\ UNCHANGED faults
     \/ log' = To(i, Refused) /\ UNCHANGED faults
     \/ log' = To(i, "failed") /\ Fault
  /\ UNCHANGED <<connection, memory, recovery, handled, recovered>>

\* sendToChannel of the denied reply.
SendDenial(i) ==
  /\ AtStage(i, "refusing")
  /\ \/ client = "none" /\ log' = To(i, "failed") /\ UNCHANGED faults
     \/ client = "online" /\ Denials < MaxDenials
          /\ log' = Logged(To(i, "denied"), Answer(i, Default)) /\ UNCHANGED faults
     \/ client # "none" /\ log' = To(i, "failed") /\ Fault
  /\ UNCHANGED <<connection, memory, recovery, handled, recovered>>

\* Mutant: an error of the dispatcher is swallowed.
FaultyDispatched(i) ==
  /\ AtStage(i, "agent")
  /\ \/ log' = To(i, "replying") /\ client # "none" /\ UNCHANGED <<handled, faults>>
     \/ log' = To(i, "hooked") /\ Fault /\ UNCHANGED handled
  /\ UNCHANGED <<connection, memory, recovery, recovered>>

\* Mutant: a reply without a client waits for one.
WaitingDispatched(i) ==
  /\ AtStage(i, "agent")
  /\ log' = To(i, "replying")
  /\ UNCHANGED <<connection, memory, recovery, handled, recovered, faults>>

\* The dispatcher returns: with text (all chunks merged into one reply), with
\* nothing to say, or with an error.  Without a client the reply throws.
Dispatched(i) ==
  /\ AtStage(i, "agent")
  /\ \/ Answers + Expected < MaxLog /\ UNCHANGED <<handled, faults>>
          /\ log' = To(i, IF client = "none" THEN "failed" ELSE "replying")
     \/ log' = To(i, "hooked") /\ handled' = handled \cup {i} /\ UNCHANGED faults
     \/ log' = To(i, "failed") /\ Fault /\ UNCHANGED handled
  /\ UNCHANGED <<connection, memory, recovery, recovered>>

\* The reply is published once the client is connected.
Reply(i) ==
  /\ AtStage(i, "replying")
  /\ \/ client = "online" /\ handled' = handled \cup {i} /\ UNCHANGED faults
          /\ log' = Logged(To(i, "hooked"), Answer(i, Bot))
     \/ log' = To(i, "failed") /\ Fault /\ UNCHANGED handled
  /\ UNCHANGED <<connection, memory, recovery, recovered>>

\* flushState: mkdir, the text of the map as it then is, writeFile; opening
\* the file empties it.
Opens(by, map) ==
  /\ writing' = writing \cup {[by |-> by, map |-> map]}
  /\ file' = {}
  /\ overlapped' = (overlapped \/ writing # {})

\* Mutant: the file is written with the map before the change.
FaultyMark(i) ==
  /\ AtStage(i, "hooked")
  /\ marks' = [marks EXCEPT ![log[i].conv] = i]
  /\ Opens(i, marks)
  /\ log' = To(i, "writing")
  /\ handled' = IF log[i].from \in Users THEN handled ELSE handled \cup {i}
  /\ UNCHANGED <<connection, recovery, recovered, faults>>

\* acceptInboundMessage after its hook (which returns at once for a message of
\* a bot): the checkpoint, then flushState.
Mark(i) ==
  /\ AtStage(i, "hooked")
  /\ marks' = [marks EXCEPT ![log[i].conv] = i]
  /\ Opens(i, marks')
  /\ log' = To(i, "writing")
  /\ handled' = IF log[i].from \in Users THEN handled ELSE handled \cup {i}
  /\ UNCHANGED <<connection, recovery, recovered, faults>>

\* Mutant: the text is appended to what is there.
FaultyWrites(by) ==
  \E w \in writing :
    /\ w.by = by
    /\ writing' = writing \ {w}
    /\ file' = file \cup {w.map}
    /\ UNCHANGED <<marks, overlapped>>

\* A text written over a longer one leaves its tail: not JSON any more.
Writes(by) ==
  \E w \in writing :
    /\ w.by = by
    /\ writing' = writing \ {w}
    /\ file' \in {{w.map}} \cup (IF file \in {{}, {w.map}} THEN {} ELSE {{}})
    /\ UNCHANGED <<marks, overlapped>>

FlushWrites(i) ==
  /\ AtStage(i, "writing")
  /\ Writes(i)
  /\ log' = To(i, "done")
  /\ UNCHANGED <<connection, recovery, handled, recovered, faults>>

-----------------------------------------------------------------------------
\* recoverHistory: nothing to do without a checkpoint.
Recovering(m) == IF m = NoMarks THEN Idle ELSE [Idle EXCEPT !.at = "next"]

\* The history endpoint.  A live message has no seq, so no checkpoint has a
\* lastSeq, and the request without after_seq gets the latest page of what the
\* backend has stored.  fetchConversationMessages reads an array in `data'.
Page(u) ==
  IF ~DataIsArray THEN {}
  ELSE LET stored == {i \in Ids : log[i].conv = u /\ log[i].from # Default}
       IN {i \in stored : Cardinality({j \in stored : j > i}) < Limit}

\* The messages of a page are taken in the order of their seqs.
Current(s) == CHOOSE i \in recovery[s].queue : \A j \in recovery[s].queue : i <= j

\* The loop over the map of checkpoints, which also meets entries added
\* meanwhile.  An answer that is not ok is an empty page; a request that fails
\* ends the recovery with an error.
RecoverFetch(s) ==
  /\ recovery[s].at = "next" /\ recovery[s].queue = {}
  /\ \E u \in Users \ recovery[s].seen :
       /\ marks[u] # 0
       /\ \/ recovery' = [recovery EXCEPT ![s].seen = @ \cup {u}, ![s].queue = Page(u)]
               /\ UNCHANGED <<gateway, faults>>
          \/ recovery' = [recovery EXCEPT ![s].seen = @ \cup {u}] /\ Fault /\ UNCHANGED gateway
          \/ recovery' = [recovery EXCEPT ![s] = Idle] /\ Fault
               /\ gateway' = IF s = "start" THEN "failed" ELSE gateway
  /\ UNCHANGED <<config, started, loaded, tries, client, log, memory, handled, recovered>>

\* All checkpoints are visited; start() returns after its own recovery.
RecoverEnds(s) ==
  /\ recovery[s].at = "next" /\ recovery[s].queue = {}
  /\ \A u \in Users \ recovery[s].seen : marks[u] = 0
  /\ recovery' = [recovery EXCEPT ![s] = Idle]
  /\ gateway' = IF s = "start" THEN "running" ELSE gateway
  /\ UNCHANGED <<config, started, loaded, tries, client, log, memory, handled, recovered, faults>>

\* The hook for the next message of the page: no access check, no look at
\* what a handler has done or is doing.
RecoverNext(s) ==
  /\ recovery[s].at = "next" /\ recovery[s].queue # {}
  /\ LET i == Current(s) IN
       /\ recovered' = recovered \cup {i}
       /\ IF Hook(log[i]) = "agent"
          THEN recovery' = [recovery EXCEPT ![s].at = "agent"] /\ UNCHANGED handled
          ELSE recovery' = [recovery EXCEPT ![s].queue = @ \ {Current(s)}] /\ handled' = handled \cup {i}
  /\ UNCHANGED <<connection, log, memory, faults>>

\* What a rejected hook of a recovery does: start() rejects with it.
RecoveryFails(s) ==
  /\ recovery' = [recovery EXCEPT ![s] = Idle]
  /\ gateway' = IF s = "start" THEN "failed" ELSE gateway
  /\ UNCHANGED <<log, handled>>

RecoverDispatched(s) ==
  /\ recovery[s].at = "agent"
  /\ \/ /\ Answers + Expected < MaxLog
        /\ IF client = "none" THEN RecoveryFails(s)
           ELSE recovery' = [recovery EXCEPT ![s].at = "replying"] /\ UNCHANGED <<gateway, log, handled>>
        /\ UNCHANGED faults
     \/ /\ recovery' = [recovery EXCEPT ![s].at = "next", ![s].queue = @ \ {Current(s)}]
        /\ handled' = handled \cup {Current(s)}
        /\ UNCHANGED <<gateway, log, faults>>
     \/ RecoveryFails(s) /\ Fault
  /\ UNCHANGED <<config, started, loaded, tries, client, memory, recovered>>

RecoverReply(s) ==
  /\ recovery[s].at = "replying"
  /\ \/ /\ client = "online"
        /\ log' = Logged(log, Answer(Current(s), Bot))
        /\ recovery' = [recovery EXCEPT ![s].at = "next", ![s].queue = @ \ {Current(s)}]
        /\ handled' = handled \cup {Current(s)}
        /\ UNCHANGED <<gateway, faults>>
     \/ RecoveryFails(s) /\ Fault
  /\ UNCHANGED <<config, started, loaded, tries, client, memory, recovered>>

-----------------------------------------------------------------------------
\* startAccount: start() returns at once when the flag is up, also after a
\* start that failed, and the account is then reported as connected.
StartAccount ==
  /\ gateway \in {"idle", "failed"}
  /\ IF started THEN gateway' = "running" /\ UNCHANGED <<started, tries>>
     ELSE gateway' = "booting" /\ started' = TRUE /\ tries' = 0
  /\ UNCHANGED <<config, loaded, client, log, memory, recovery, handled, recovered, faults>>

\* A bootstrap attempt fails; the last one makes start() fail, and so does at
\* once an approver that cannot be imported or a missing key, URL or broker.
BootFails ==
  /\ gateway = "booting"
  /\ tries' = tries + 1
  /\ gateway' \in {"failed"} \cup (IF tries' < Attempts THEN {"booting"} ELSE {})
  /\ UNCHANGED <<config, started, loaded, client, log, memory, recovery, handled, recovered, faults>>

\* loadState puts the entries of the file into the map it has.
Loaded ==
  [u \in Users |-> IF \E m \in file : m[u] # 0 THEN (CHOOSE m \in file : TRUE)[u] ELSE marks[u]]

\* The bootstrap answers: read the state, make the client, recover.
Boot ==
  /\ gateway = "booting"
  /\ loaded' = TRUE
  /\ marks' = Loaded
  /\ client' = "offline"
  /\ recovery' = [recovery EXCEPT !["start"] = Recovering(Loaded)]
  /\ gateway' = IF Loaded = NoMarks THEN "running" ELSE "recovering"
  /\ UNCHANGED <<config, started, tries, log, writing, file, overlapped, handled, recovered, faults>>

\* The connect handler subscribes and recovers.  The bound: two recoveries of
\* this kind at a time.
Connected ==
  /\ client = "offline"
  /\ client' = "online"
  /\ LET free == {s \in Slots \ {"start"} : recovery[s] = Idle} IN
       /\ free # {}
       /\ recovery' = [recovery EXCEPT ![CHOOSE s \in free : TRUE] = Recovering(marks)]
  /\ UNCHANGED <<config, gateway, started, loaded, tries, log, memory, handled, recovered, faults>>

Drop ==
  /\ client = "online"
  /\ Fault
  /\ client' = "offline"
  /\ UNCHANGED <<config, gateway, started, loaded, tries, log, memory, recovery, handled, recovered>>

\* The account is aborted: stop() ends the client; what was being published
\* with it gets no answer any more.
Stop ==
  /\ gateway = "running"
  /\ Fault
  /\ started' = FALSE
  /\ gateway' = "stopping"
  /\ UNCHANGED <<config, loaded, tries, client, log, memory, recovery, handled, recovered>>

ClientEnded ==
  /\ gateway = "stopping"
  /\ client' = "none"
  /\ IF loaded THEN gateway' = "writing" /\ Opens(0, marks)
     ELSE gateway' = "idle" /\ UNCHANGED <<writing, file, overlapped>>
  /\ log' = [i \in Ids |-> IF log[i].stage \in {"replying", "refusing"} /\ client # "none"
                           THEN [log[i] EXCEPT !.stage = "failed"] ELSE log[i]]
  /\ recovery' = [s \in Slots |-> IF recovery[s].at = "replying" THEN Idle ELSE recovery[s]]
  /\ UNCHANGED <<config, started, loaded, tries, marks, handled, recovered, faults>>

StopWrites ==
  /\ gateway = "writing" /\ gateway' = "idle"
  /\ Writes(0)
  /\ UNCHANGED <<config, started, loaded, tries, client, log, recovery, handled, recovered, faults>>

\* The process dies; the file stays as it is, empty if it was being written.
Die ==
  /\ Fault
  /\ gateway # "idle" \/ \E i \in Ids : log[i].stage \notin Over
  /\ gateway' = "idle" /\ started' = FALSE /\ loaded' = FALSE /\ tries' = 0
  /\ client' = "none" /\ marks' = NoMarks /\ writing' = {}
  /\ recovery' = [s \in Slots |-> Idle]
  /\ log' = [i \in Ids |-> IF log[i].stage \in Over THEN log[i]
                           ELSE [log[i] EXCEPT !.stage = "lost"]]
  /\ UNCHANGED <<config, file, overlapped, handled, recovered>>

-----------------------------------------------------------------------------
\* Nothing was ever written, or an earlier process has handled a message and
\* saved its checkpoint.
Init ==
  /\ config \in Configs
  /\ gateway = "idle" /\ started = FALSE /\ loaded = FALSE /\ tries = 0 /\ client = "none"
  /\ \/ log = <<>> /\ file = {} /\ handled = {}
     \/ \E x \in Inputs :
          /\ Received(Message(x[1], x[2])) = "agent"
          /\ log = <<[Message(x[1], x[2]) EXCEPT !.stage = "done"]>>
          /\ file = {[NoMarks EXCEPT ![x[1]] = 1]} /\ handled = {1}
  /\ marks = NoMarks /\ writing = {}
  /\ recovery = [s \in Slots |-> Idle]
  /\ recovered = {} /\ overlapped = FALSE
  /\ faults = 0

Handler(i) ==
  \/ SendDenial(i) \/ Dispatched(i) \/ Reply(i) \/ Mark(i) \/ FlushWrites(i)

Recover(s) ==
  \/ RecoverFetch(s) \/ RecoverEnds(s) \/ RecoverNext(s) \/ RecoverDispatched(s) \/ RecoverReply(s)

Stopping == ClientEnded \/ StopWrites

Next ==
  \/ \E x \in Inputs : Publish(x[1], x[2])
  \/ \E i \in Ids : Approve(i) \/ Handler(i)
  \/ \E s \in Slots : Recover(s)
  \/ StartAccount \/ BootFails \/ Boot \/ Connected \/ Drop \/ Stop \/ Stopping \/ Die

Spec == Init /\ [][Next]_vars

MaxIds == MaxLog + MaxDenials

\* The runtime's own steps are taken; the agent returns, the broker takes a
\* client back.  Not fair: the users, the approver (permissionApprovalTimeoutMs
\* is never used), the gateway, failures.
Fairness ==
  /\ WF_vars(\E i \in Ids : Handler(i)) /\ WF_vars(\E s \in Slots : Recover(s))
  /\ WF_vars(Boot) /\ WF_vars(Connected) /\ WF_vars(Stopping)

FairSpec == Spec /\ Fairness

-----------------------------------------------------------------------------
Maps == [Users -> 0 .. MaxIds]

(* Type invariant.                                                         *)
TypeOK ==
  /\ config \in Configs
  /\ gateway \in {"idle", "booting", "recovering", "running", "failed", "stopping", "writing"}
  /\ {started, loaded, overlapped} \subseteq BOOLEAN
  /\ tries \in 0 .. Attempts /\ client \in {"none", "offline", "online"}
  /\ Len(log) <= MaxIds
  /\ \A i \in Ids : log[i] \in [conv : Users, from : Senders, blocked : BOOLEAN,
                                 re : 0 .. i - 1, stage : Stages]
  /\ marks \in Maps /\ file \subseteq Maps /\ Cardinality(file) <= 1
  /\ writing \subseteq [by : 0 .. MaxIds, map : Maps]
  /\ \A s \in Slots : /\ recovery[s].at \in {"idle", "next", "agent", "replying"}
                      /\ recovery[s].seen \subseteq Users
                      /\ recovery[s].queue \subseteq Ids
  /\ handled \subseteq Ids /\ recovered \subseteq Ids

(* The agent answers people only: the bot's replies come back through its  *)
(* subscription and through the history, and none of them starts another.  *)
BotNeverAnswered ==
  \A i \in Ids : log[i].from = Bot => log[log[i].re].from \in Users

(* Who is not in allowFrom gets no answer of the agent, and a blocked      *)
(* message gets one only where an approver could let it pass; the one way  *)
(* round this gate is the recovery, which looks at neither.                *)
GateHolds ==
  \A i \in Ids :
    log[i].from = Bot =>
      LET m == log[i].re IN
        m \in recovered \/ (SenderAllowed(log[m]) /\ (log[m].blocked => config.approval))

(* A checkpoint, in memory or in the file a restart will read, is at a     *)
(* message of its conversation whose hook has returned: what a death cuts  *)
(* off is never behind it as the last message.                             *)
CheckpointIsHandled ==
  \A m \in {marks} \cup file \cup {w.map : w \in writing} : \A u \in Users :
    m[u] # 0 => m[u] \in handled /\ log[m[u]].conv = u

(* Between flushes the file says what the memory says, as long as no two   *)
(* writes of it have been open together (then it may be an older map, or   *)
(* no JSON at all, and the checkpoints are gone at the next start).        *)
FileCurrent ==
  loaded /\ ~overlapped /\ writing = {} =>
    \A u \in Users : marks[u] = (IF file = {} THEN 0 ELSE (CHOOSE m \in file : TRUE)[u])

(* Users and faults being bounded, every handler and every recovery comes  *)
(* to an end: handled and saved, denied, or given up, however the          *)
(* connection drops and returns.  A handler whose approver is silent stays.*)
EverythingEnds ==
  <>[](/\ \A i \in Ids : log[i].stage \in Over \cup {"asking"}
       /\ \A s \in Slots : recovery[s] = Idle)

(* A denied reply is written back to a user whose message was refused      *)
(* (README.md: permissionDeniedReply).                                     *)
DenialAnswersUser ==
  \A i \in Ids : log[i].from = Default => log[log[i].re].from \in Users
=============================================================================
