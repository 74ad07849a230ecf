----------------------------- MODULE BotRuntime -----------------------------
(***************************************************************************)
(* The bot plugin's runtime (ManagedBotRuntime): bootstrap, subscriptions, *)
(* live messages, catch-up from history after a start or a reconnect, the  *)
(* per-dialog queues, checkpoints and the cache of processed ids.          *)
(*                                                                         *)
(* The backend is the log of each dialog (MessageLog, which MessageStore   *)
(* implements); it stores what the broker took with a delay.  The broker   *)
(* delivers live messages in order while the topic is subscribed; the      *)
(* client connects with clean: true, so what is undelivered when the       *)
(* connection drops is gone.  Live messages carry no seq.                  *)
(*                                                                         *)
(* An exception in a task, in a recovery or in start() ends the process    *)
(* (a rejection nobody handles, or main().catch): Crash stands for all of  *)
(* them and for stop().  Checkpoints are written to memory and to the file *)
(* in one step here; StateFile models how the file is written.  A          *)
(* connection lost inside start()'s subscription loop counts as a crash.   *)
(***************************************************************************)
EXTENDS Naturals, Sequences, FiniteSets, SequencesExt

CONSTANTS Dialogs,
          Messages,      \* what clients publish to the dialogs of the bot
          DialogOf,
          Addressed,     \* messages shouldProcessMessage accepts
          Permitted,     \* messages the bot's permissions allow
          UuidMessages,  \* messages whose id the backend keeps
          InitialLog,    \* what the dialogs hold before the bot first starts
          None,
          CacheSize,     \* RECENT_MESSAGE_CACHE_SIZE
          BatchLimit,    \* history.max_catchup_batch
          MaxPublishes,  \* bound: publications
          MaxStarts,     \* bound: incarnations of the runtime
          MaxDrops       \* bound: lost connections

\* A message as the plugin knows it: the id the client chose, or the one the
\* backend gave to a row whose message had no proper id.
Ids == Messages \X {"client", "backend"}

Recoveries == 1 .. (MaxStarts + MaxDrops)
Live == 0        \* a task that no recovery waits for

ASSUME RuntimeAssumption ==
  /\ DialogOf \in [Messages -> Dialogs]
  /\ Addressed \subseteq Messages /\ Permitted \subseteq Messages
  /\ UuidMessages \subseteq Messages
  /\ InitialLog \in [Dialogs -> Seq(Messages)]
  /\ None \notin Dialogs
  /\ CacheSize \in Nat \ {0} /\ BatchLimit \in Nat \ {0}
  /\ MaxPublishes \in Nat /\ MaxStarts \in Nat /\ MaxDrops \in Nat

VARIABLES log,        \* dialog -> messages, stored; position = seq
          unsaved,    \* published and not yet stored
          inbox,      \* live messages on their way to the runtime
          published,  \* number of publications
          phase,      \* where start() is
          online,     \* the MQTT connection is up
          subs,       \* dialogs whose topic is subscribed on it
          ckpt,       \* CheckpointStore: dialog -> [seq, id]; seq 0: absent
          processed,  \* processedMessages, the oldest first
          queue,      \* dialogQueues: dialog -> tasks, the first one running
          step,       \* where the first task of each dialog is
          recs,       \* the runs of recoverPendingMessages
          starts, drops,
          replies,    \* message -> replies published by this incarnation
          handled,    \* messages any incarnation has marked processed
          missed      \* messages published while a started runtime was down or
                      \* its subscription was gone

environment == <<log, unsaved, published>>
connection == <<phase, online, subs, starts, drops, missed>>
tasks == <<queue, step>>
vars == <<environment, inbox, connection, ckpt, processed, tasks, recs,
          replies, handled>>

-----------------------------------------------------------------------------
(* Data *)

NoCkpt == [seq |-> 0, id |-> None]

\* Faulty: the database id of the row instead of its message id.
FaultyStoredId(m) == m

\* The id a history query returns for a stored message.
StoredId(m) == <<m, IF m \in UuidMessages THEN "client" ELSE "backend">>

Task == [msg : Messages, id : Ids, seq : Nat, by : Recoveries \cup {Live}]

Idle == [state |-> "off", after |-> "start", todo |-> {}, dialog |-> None, from |-> NoCkpt,
         batch |-> {}, promised |-> {}, owed |-> {}]

IsProcessed(id) == \E i \in DOMAIN processed : processed[i] = id

Stored == {m \in Messages : \E d \in Dialogs : m \in ToSet(log[d])}

InFlight ==
  ToSet(inbox) \cup
  {m \in Messages : \E d \in Dialogs : \E i \in DOMAIN queue[d] :
                      queue[d][i].msg = m}

\* A recovery waits for the task it has queued.
Waiting(r) == \E d \in Dialogs : \E i \in DOMAIN queue[d] : queue[d][i].by = r

\* The newest BatchLimit positions of a log.
Newest(d) == {k \in DOMAIN log[d] : k + BatchLimit > Len(log[d])}

\* The positions recoverDialog replays: those after last_seq, the lowest
\* first; or, without one, the newest, cut after last_message_id if it is
\* among them.
Replayed(d, from) ==
  IF from.seq # 0
  THEN {k \in DOMAIN log[d] : from.seq < k /\ k <= from.seq + BatchLimit}
  ELSE {k \in Newest(d) :
          \A j \in Newest(d) : StoredId(log[d][j]) = from.id => j < k}

\* The message of a replayed position, as recovery r hands it on.
HistoryTask(r, k) ==
  LET m == log[recs[r].dialog][k] IN
  [msg |-> m, id |-> StoredId(m), seq |-> k, by |-> r]

-----------------------------------------------------------------------------
(* Clients, broker and backend *)

Publish(m) ==
  /\ published < MaxPublishes
  /\ published' = published + 1
  /\ unsaved' = Append(unsaved, m)
  /\ inbox' = IF DialogOf[m] \in subs THEN Append(inbox, m) ELSE inbox
  /\ missed' = IF starts > 0 /\ phase \in {"down", "running"}
                    /\ DialogOf[m] \notin subs /\ m \notin Stored
               THEN missed \cup {m} ELSE missed
  /\ UNCHANGED <<log, phase, online, subs, starts, drops, ckpt, processed,
                 tasks, recs, replies, handled>>

\* The backend stores the next publication, unless it already has it.
Persist ==
  LET m == Head(unsaved)  d == DialogOf[m] IN
  /\ unsaved # << >>
  /\ unsaved' = Tail(unsaved)
  /\ log' = IF m \in UuidMessages \cap ToSet(log[d]) THEN log
            ELSE [log EXCEPT ![d] = Append(@, m)]
  /\ UNCHANGED <<published, inbox, connection, ckpt, processed, tasks, recs,
                 replies, handled>>

-----------------------------------------------------------------------------
(* Starting, connecting, stopping *)

\* start(): load, bootstrap, and merge of the bootstrap's last messages.
Start ==
  /\ phase = "down"
  /\ starts < MaxStarts
  /\ starts' = starts + 1
  /\ phase' = "bootstrapped"
  /\ ckpt' = [d \in Dialogs |->
                IF Len(log[d]) > ckpt[d].seq
                THEN [seq |-> Len(log[d]), id |-> StoredId(Last(log[d]))]
                ELSE ckpt[d]]
  /\ UNCHANGED <<environment, inbox, online, subs, drops, missed, processed,
                 tasks, recs, replies, handled>>

Connect ==
  /\ phase = "bootstrapped"
  /\ phase' = "subscribing"
  /\ online' = TRUE
  /\ UNCHANGED <<environment, inbox, subs, starts, drops, missed, ckpt, processed,
                 tasks, recs, replies, handled>>

\* The broker grants a subscription, of start()'s loop or of resubscribeAll.
Subscribe(d) ==
  /\ online
  /\ d \notin subs
  /\ subs' = subs \cup {d}
  /\ UNCHANGED <<environment, inbox, phase, online, starts, drops, missed, ckpt,
                 processed, tasks, recs, replies, handled>>

\* recoverDialog reads the checkpoint of the next dialog and sends the history
\* request; when no dialog is left, recoverPendingMessages ends.
NextDialog(rec) ==
  IF rec.todo = {}
  THEN {[rec EXCEPT !.state = "done", !.dialog = None, !.from = NoCkpt]}
  ELSE {[rec EXCEPT !.state = "fetching", !.dialog = d, !.todo = @ \ {d},
                    !.from = ckpt[d]] : d \in rec.todo}

\* recoverPendingMessages begins and goes on to its first request: it visits
\* every dialog that has a checkpoint (those of the bootstrap all have one).
\* owed is what the catch-up is for: missed, stored, unhandled and not on its
\* way already.
BeginRecovery(after) ==
  \E rec \in NextDialog(
       [Idle EXCEPT !.after = after,
                    !.todo = {d \in Dialogs : ckpt[d] # NoCkpt},
                    !.owed = (Stored \cap Addressed \cap missed)
                               \ (handled \cup InFlight)]) :
    recs' = [recs EXCEPT ![starts + drops] = rec]

RecoverAtStart ==
  /\ phase = "subscribing"
  /\ subs = Dialogs
  /\ phase' = "running"
  /\ UNCHANGED <<environment, inbox, online, subs, starts, drops, missed, ckpt,
                 processed, tasks, replies, handled>>
  /\ BeginRecovery("start")

ConnectionLost ==
  /\ phase = "running"
  /\ online
  /\ drops < MaxDrops
  /\ drops' = drops + 1
  /\ online' = FALSE
  /\ subs' = {}
  /\ inbox' = << >>
  /\ UNCHANGED <<environment, phase, starts, missed, ckpt, processed, tasks,
                 recs, replies, handled>>

\* onConnect: resubscribeAll sends the subscriptions and does not wait for
\* them; onReconnect starts a recovery, whatever other recovery still runs.
Reconnect ==
  /\ phase = "running"
  /\ ~ online
  /\ online' = TRUE
  /\ UNCHANGED <<environment, inbox, phase, subs, starts, drops, missed, ckpt,
                 processed, tasks, replies, handled>>
  /\ BeginRecovery("reconnect")

\* What lives in memory goes with the process.
GoDown ==
  /\ phase' = "down"
  /\ online' = FALSE
  /\ subs' = {}
  /\ inbox' = << >>
  /\ processed' = << >>
  /\ queue' = [d \in Dialogs |-> << >>]
  /\ step' = [d \in Dialogs |-> "idle"]
  /\ recs' = [r \in Recoveries |-> Idle]
  /\ replies' = [m \in Messages |-> 0]
  /\ UNCHANGED <<environment, starts, drops, missed, ckpt, handled>>

Crash ==
  /\ phase # "down"
  /\ GoDown

-----------------------------------------------------------------------------
(* A message, live or recovered, and its task *)

\* Faulty: a message whose other copy is queued counts as processed.
FaultySkips(task) ==
  \/ task.msg \notin Addressed
  \/ IsProcessed(task.id)
  \/ \E i \in DOMAIN queue[DialogOf[task.msg]] :
       queue[DialogOf[task.msg]][i].id = task.id

\* handleIncomingMessage: filter, first look at the cache, enqueueByDialog.
Skips(task) == task.msg \notin Addressed \/ IsProcessed(task.id)

HandleIncoming(task) ==
  queue' = IF Skips(task) THEN queue
           ELSE [queue EXCEPT ![DialogOf[task.msg]] = Append(@, task)]

\* Faulty: live messages are ignored while a recovery runs.
FaultyDeliver ==
  /\ inbox # << >>
  /\ IF \E r \in Recoveries : recs[r].state \in {"fetching", "replaying"}
     THEN UNCHANGED queue
     ELSE HandleIncoming([msg |-> Head(inbox), id |-> <<Head(inbox), "client">>,
                          seq |-> 0, by |-> Live])
  /\ inbox' = Tail(inbox)
  /\ UNCHANGED <<environment, connection, ckpt, processed, step, recs, replies,
                 handled>>

Deliver ==
  /\ inbox # << >>
  /\ HandleIncoming([msg |-> Head(inbox), id |-> <<Head(inbox), "client">>,
                     seq |-> 0, by |-> Live])
  /\ inbox' = Tail(inbox)
  /\ UNCHANGED <<environment, connection, ckpt, processed, step, recs, replies,
                 handled>>

\* The task's promise settles and the next task of the dialog may run.
Finish(d) ==
  /\ queue' = [queue EXCEPT ![d] = Tail(@)]
  /\ step' = [step EXCEPT ![d] = "idle"]

\* Faulty: no second look at the cache, inside the queue.
FaultyBegin(d) ==
  /\ queue[d] # << >>
  /\ step[d] = "idle"
  /\ \E next \in IF Head(queue[d]).msg \in Permitted THEN {"asking"}
                 ELSE {"publishing", "saving"} :
       step' = [step EXCEPT ![d] = next]
  /\ UNCHANGED <<environment, inbox, connection, ckpt, processed, queue, recs,
                 replies, handled>>

\* Faulty: the promise of a task that finds its message processed stays open.
FaultyBeginStuck(d) ==
  /\ queue[d] # << >>
  /\ step[d] = "idle"
  /\ ~ IsProcessed(Head(queue[d]).id)
  /\ \E next \in IF Head(queue[d]).msg \in Permitted THEN {"asking"}
                 ELSE {"publishing", "saving"} :
       step' = [step EXCEPT ![d] = next]
  /\ UNCHANGED <<environment, inbox, connection, ckpt, processed, queue, recs,
                 replies, handled>>

\* The second look at the cache, then the permission check.  A refusal sends a
\* notice or nothing.
Begin(d) ==
  /\ queue[d] # << >>
  /\ step[d] = "idle"
  /\ LET task == Head(queue[d]) IN
     \/ IsProcessed(task.id) /\ Finish(d)
     \/ /\ ~ IsProcessed(task.id)
        /\ \E next \in IF task.msg \in Permitted THEN {"asking"}
                       ELSE {"publishing", "saving"} :
             step' = [step EXCEPT ![d] = next]
        /\ UNCHANGED queue
  /\ UNCHANGED <<environment, inbox, connection, ckpt, processed, recs,
                 replies, handled>>

\* agent.respond returns, with a reply or with an empty one.
Respond(d) ==
  /\ step[d] = "asking"
  /\ \E next \in {"publishing", "saving"} : step' = [step EXCEPT ![d] = next]
  /\ UNCHANGED <<environment, inbox, connection, ckpt, processed, queue, recs,
                 replies, handled>>

\* dispatchReply; publishing on a closed connection throws.
DispatchReply(d) ==
  /\ step[d] = "publishing"
  /\ \/ /\ online
        /\ replies' = [replies EXCEPT ![Head(queue[d]).msg] = @ + 1]
        /\ step' = [step EXCEPT ![d] = "saving"]
        /\ UNCHANGED <<environment, inbox, connection, ckpt, processed, queue,
                       recs, handled>>
     \/ ~ online /\ GoDown

\* saveCheckpoint replaces the dialog's checkpoint, whatever it was.
SaveCheckpoint(d) ==
  /\ step[d] = "saving"
  /\ ckpt' = [ckpt EXCEPT ![d] = [seq |-> Head(queue[d]).seq,
                                  id |-> Head(queue[d]).id]]
  /\ step' = [step EXCEPT ![d] = "marking"]
  /\ UNCHANGED <<environment, inbox, connection, processed, queue, recs,
                 replies, handled>>

\* markMessageProcessed, with its eviction, and the end of the task.
Mark(d) ==
  LET marked == Append(processed, Head(queue[d]).id) IN
  /\ step[d] = "marking"
  /\ processed' = IF Len(marked) <= CacheSize THEN marked ELSE Tail(marked)
  /\ handled' = handled \cup {Head(queue[d]).msg}
  /\ Finish(d)
  /\ UNCHANGED <<environment, inbox, connection, ckpt, recs, replies>>

-----------------------------------------------------------------------------
(* Recovery *)

\* The answer.  promised: what lies beyond the checkpoint, up to the batch
\* limit; all of it when the checkpoint has no seq and names no stored row.
Fetch(r) ==
  LET d == recs[r].dialog  from == recs[r].from IN
  /\ recs[r].state = "fetching"
  /\ recs' = [recs EXCEPT
       ![r].state = "replaying",
       ![r].batch = Replayed(d, from),
       ![r].promised = @ \cup {log[d][k] : k \in Replayed(d, from)}]
  /\ UNCHANGED <<environment, inbox, connection, ckpt, processed, tasks,
                 replies, handled>>

\* The loop takes the messages in the order of their seq and awaits the task of
\* each before it takes the next one.
Replay(r) ==
  /\ recs[r].state = "replaying"
  /\ ~ Waiting(r)
  /\ \E k \in recs[r].batch :
       /\ \A j \in recs[r].batch : k <= j
       /\ HandleIncoming(HistoryTask(r, k))
       /\ recs' = [recs EXCEPT ![r].batch = @ \ {k}]
  /\ UNCHANGED <<environment, inbox, connection, ckpt, processed, step,
                 replies, handled>>

EndDialog(r) ==
  /\ recs[r].state = "replaying"
  /\ recs[r].batch = {}
  /\ ~ Waiting(r)
  /\ \E rec \in NextDialog(recs[r]) : recs' = [recs EXCEPT ![r] = rec]
  /\ UNCHANGED <<environment, inbox, connection, ckpt, processed, tasks,
                 replies, handled>>

-----------------------------------------------------------------------------
Init ==
  /\ log = InitialLog
  /\ unsaved = << >>
  /\ inbox = << >>
  /\ published = 0
  /\ phase = "down"
  /\ online = FALSE
  /\ subs = {}
  /\ ckpt = [d \in Dialogs |-> NoCkpt]
  /\ processed = << >>
  /\ queue = [d \in Dialogs |-> << >>]
  /\ step = [d \in Dialogs |-> "idle"]
  /\ recs = [r \in Recoveries |-> Idle]
  /\ starts = 0
  /\ drops = 0
  /\ replies = [m \in Messages |-> 0]
  /\ handled = {}
  /\ missed = {}

TaskStep(d) ==
  Begin(d) \/ Respond(d) \/ DispatchReply(d) \/ SaveCheckpoint(d) \/ Mark(d)

RecoveryStep(r) == Fetch(r) \/ Replay(r) \/ EndDialog(r)

Next ==
  \/ \E m \in Messages : Publish(m)
  \/ Persist \/ Deliver
  \/ Start \/ Connect \/ RecoverAtStart
  \/ \E d \in Dialogs : Subscribe(d)
  \/ ConnectionLost \/ Reconnect \/ Crash
  \/ \E d \in Dialogs : TaskStep(d)
  \/ \E r \in Recoveries : RecoveryStep(r)

Spec == Init /\ [][Next]_vars

\* The event loop does not stand still while something is ready: the agent and
\* the file system answer, and HTTP requests end within their timeout.
EventLoopStep ==
  \/ Deliver
  \/ \E d \in Dialogs : TaskStep(d)
  \/ \E r \in Recoveries : RecoveryStep(r)

Fairness == WF_vars(EventLoopStep)

FairSpec == Spec /\ Fairness

-----------------------------------------------------------------------------
(* Properties *)

\* Every variable has its type.
TypeOK ==
  /\ \A d \in Dialogs :
       /\ log[d] \in Seq(Messages)
       /\ queue[d] \in Seq(Task)
       /\ step[d] \in {"idle", "asking", "publishing", "saving", "marking"}
       /\ ckpt[d] \in [seq : Nat, id : Ids \cup {None}]
  /\ unsaved \in Seq(Messages) /\ inbox \in Seq(Messages)
  /\ phase \in {"down", "bootstrapped", "subscribing", "running"}
  /\ online \in BOOLEAN
  /\ subs \subseteq Dialogs
  /\ processed \in Seq(Ids) /\ Len(processed) <= CacheSize
  /\ \A r \in Recoveries :
       /\ recs[r].after \in {"start", "reconnect"}
       /\ recs[r].state \in {"off", "fetching", "replaying", "done"}
       /\ recs[r].todo \subseteq Dialogs
       /\ recs[r].batch \subseteq Nat
  /\ replies \in [Messages -> Nat]
  /\ handled \subseteq Messages /\ missed \subseteq Messages

\* One incarnation answers a message with a proper id at most once, although
\* it may arrive live twice, from the recovery of start() and from those of
\* several reconnects (the cache is looked at before and inside the queue).
NoDoubleReply == \A m \in UuidMessages : replies[m] <= 1

\* When a recovery has ended, every message its history requests covered has
\* been handled, by the recovery or by a live task it did not overtake.
RecoveryCovers ==
  \A r \in Recoveries :
    recs[r].state = "done" => recs[r].promised \cap Addressed \subseteq handled

\* What a recovery has left out when it and all the others have ended: missed
\* and stored when it began, and still neither handled nor on its way.
LeftOut(r) ==
  {m \in recs[r].owed \ (handled \cup InFlight) :
     \A q \in Recoveries : recs[q].state \in {"off", "done"}}

\* The catch-up after a restart brings the messages stored while the runtime
\* was down (the recovery at the end of start()).
RestartCatchesUp ==
  \A r \in Recoveries : recs[r].after = "start" => LeftOut(r) = {}

\* A live message that reached the connection is handled, unless the
\* connection or the process is lost first.
LiveHandled ==
  \A m \in Addressed :
    m \in ToSet(inbox) ~> (m \in handled \/ ~ online)

\* A recovery never waits for ever: not for a task of a queue it shares with
\* live messages and other recoveries.
RecoveryEnds ==
  \A r \in Recoveries :
    recs[r].state = "fetching" ~> recs[r].state \in {"done", "off"}
=============================================================================
