-------------------------- MODULE BotRuntime_proofs --------------------------
(***************************************************************************)
(* Proofs about BotRuntime, for any dialogs, messages, cache and batch     *)
(* sizes, and any number of restarts and lost connections.                 *)
(*                                                                         *)
(* NoDoubleReply holds as long as the cache of processed ids has not been  *)
(* full: a message that was answered is at the head of its queue, saving   *)
(* or marking, or its id is in the cache (AnswerInv).  RecoveryCovers: what *)
(* a recovery has promised is handled, still in its batch, or in a queue   *)
(* with the recovery waiting for it (CoverInv).                            *)
(***************************************************************************)
EXTENDS BotRuntime, TLAPS

Steps == {"idle", "asking", "publishing", "saving", "marking"}
Ckpt == [seq : Nat, id : Ids \cup {None}]
Recovery ==
  [state : {"off", "fetching", "replaying", "done"}, after : {"start", "reconnect"},
   todo : SUBSET Dialogs, dialog : Dialogs \cup {None}, from : Ckpt,
   batch : SUBSET Nat, promised : SUBSET Messages, owed : SUBSET Messages]

Types ==
  /\ log \in [Dialogs -> Seq(Messages)]
  /\ unsaved \in Seq(Messages) /\ inbox \in Seq(Messages)
  /\ phase \in {"down", "bootstrapped", "subscribing", "running"}
  /\ online \in BOOLEAN /\ subs \subseteq Dialogs
  /\ ckpt \in [Dialogs -> Ckpt]
  /\ processed \in Seq(Ids) /\ Len(processed) <= CacheSize
  /\ queue \in [Dialogs -> Seq(Task)] /\ step \in [Dialogs -> Steps]
  /\ recs \in [Recoveries -> Recovery]
  /\ replies \in [Messages -> Nat]
  /\ handled \subseteq Messages /\ missed \subseteq Messages

\* A queue holds tasks of its own dialog, with the id of their message.
TaskOf(d, task) ==
  /\ DialogOf[task.msg] = d /\ task.id[1] = task.msg
  /\ task.msg \in UuidMessages => task.id = <<task.msg, "client">>

QueueInv ==
  \A d \in Dialogs :
    /\ \A i \in DOMAIN queue[d] : TaskOf(d, queue[d][i])
    /\ step[d] # "idle" => queue[d] # << >>

\* The two looks at the cache leave no message to be answered again.
AnswerInv ==
  Len(processed) < CacheSize =>
    \A m \in UuidMessages : LET d == DialogOf[m] IN
      /\ replies[m] <= 1
      /\ replies[m] = 1 =>
           \/ IsProcessed(<<m, "client">>)
           \/ step[d] \in {"saving", "marking"} /\ Head(queue[d]).msg = m
      /\ step[d] \in {"asking", "publishing"} /\ Head(queue[d]).msg = m => replies[m] = 0

Queued(r, m) ==
  \E d \in Dialogs : \E i \in DOMAIN queue[d] : queue[d][i].by = r /\ queue[d][i].msg = m

\* What has become of a message that recovery r has promised.
Covered(r, m) ==
  \/ m \in handled
  \/ /\ recs[r].state = "replaying"
     /\ \/ \E k \in recs[r].batch : log[recs[r].dialog][k] = m
        \/ Queued(r, m)

CoverInv ==
  /\ \A i \in DOMAIN processed : processed[i][1] \in handled
  /\ \A r \in Recoveries :
       /\ recs[r].state \in {"fetching", "replaying"} => recs[r].dialog \in Dialogs
       /\ recs[r].state = "replaying" => recs[r].batch \subseteq DOMAIN log[recs[r].dialog]
       /\ \A m \in recs[r].promised \cap Addressed : Covered(r, m)

IInv == Types /\ QueueInv /\ AnswerInv /\ CoverInv

-----------------------------------------------------------------------------
(* Tasks *)

\* A message that comes live, or from the log, makes a task of its dialog.
LEMMA LiveTask ==
  ASSUME NEW m \in Messages,
         NEW t, t = [msg |-> m, id |-> <<m, "client">>, seq |-> 0, by |-> Live]
  PROVE  t \in Task /\ DialogOf[m] \in Dialogs /\ TaskOf(DialogOf[m], t) /\ t.msg = m
BY RuntimeAssumption DEF Task, Ids, TaskOf, Live

LEMMA RecoveredTask ==
  ASSUME Types, NEW r \in Recoveries, recs[r].dialog \in Dialogs,
         NEW k \in DOMAIN log[recs[r].dialog], NEW t, t = HistoryTask(r, k)
  PROVE  /\ t \in Task /\ DialogOf[t.msg] \in Dialogs /\ TaskOf(DialogOf[t.msg], t)
         /\ t.msg = log[recs[r].dialog][k] /\ t.by = r
<1>1. PICK d \in Dialogs : d = recs[r].dialog
  OBVIOUS
<1>2. log[d] \in Seq(Messages)
  BY DEF Types
<1>3. PICK m \in Messages : m = log[d][k] /\ k \in Nat
  BY <1>1, <1>2
<1>4. StoredId(m) \in Ids /\ StoredId(m)[1] = m
      /\ (m \in UuidMessages => StoredId(m) = <<m, "client">>)
  BY DEF StoredId, Ids
<1>5. t = [msg |-> m, id |-> StoredId(m), seq |-> k, by |-> r]
  BY <1>1, <1>3 DEF HistoryTask
<1> HIDE DEF Recoveries, Live
<1> QED
  BY <1>1, <1>3, <1>4, <1>5, RuntimeAssumption DEF Task, TaskOf

\* What a message does to the queues.
LEMMA Handles ==
  ASSUME Types, NEW t \in Task, DialogOf[t.msg] \in Dialogs, HandleIncoming(t)
  PROVE  /\ queue' \in [Dialogs -> Seq(Task)]
         /\ \A d \in Dialogs :
              \/ queue'[d] = queue[d]
              \/ /\ d = DialogOf[t.msg] /\ queue'[d] = Append(queue[d], t)
                 /\ ~ Skips(t)
         /\ ~ Skips(t) => queue'[DialogOf[t.msg]] = Append(queue[DialogOf[t.msg]], t)
BY DEF Types, HandleIncoming

LEMMA Finishes ==
  ASSUME Types, NEW d \in Dialogs, queue[d] # << >>, Finish(d)
  PROVE  /\ queue' \in [Dialogs -> Seq(Task)] /\ step' \in [Dialogs -> Steps]
         /\ queue'[d] = Tail(queue[d]) /\ step'[d] = "idle"
         /\ \A c \in Dialogs \ {d} : queue'[c] = queue[c] /\ step'[c] = step[c]
BY DEF Types, Finish, Steps

-----------------------------------------------------------------------------
(* Types *)

LEMMA InitTypes == Init => Types
<1> SUFFICES ASSUME Init PROVE Types
  OBVIOUS
<1>1. Idle \in Recovery
  BY DEF Idle, Recovery, NoCkpt, Ckpt
<1>2. NoCkpt \in Ckpt
  BY DEF NoCkpt, Ckpt
<1>3. /\ << >> \in Seq(Messages) /\ << >> \in Seq(Task) /\ << >> \in Seq(Ids)
      /\ Len(<< >>) <= CacheSize
  BY RuntimeAssumption
<1>4. /\ unsaved \in Seq(Messages) /\ inbox \in Seq(Messages)
      /\ processed \in Seq(Ids) /\ Len(processed) <= CacheSize
  BY <1>3 DEF Init
<1>5. queue \in [Dialogs -> Seq(Task)] /\ step \in [Dialogs -> Steps]
  BY <1>3 DEF Init, Steps
<1>6. log \in [Dialogs -> Seq(Messages)]
  BY RuntimeAssumption DEF Init
<1>7. online \in BOOLEAN
  BY DEF Init
<1>8. /\ ckpt \in [Dialogs -> Ckpt] /\ recs \in [Recoveries -> Recovery]
      /\ replies \in [Messages -> Nat]
  BY <1>1, <1>2 DEF Init
<1> QED
  BY <1>4, <1>5, <1>6, <1>7, <1>8 DEF Init, Types

\* The next dialog of a recovery, or its end.
LEMMA NextDialogType ==
  ASSUME Types, NEW rec \in Recovery, NEW q \in NextDialog(rec)
  PROVE  /\ q \in Recovery /\ q.promised = rec.promised /\ q.owed = rec.owed
         /\ q.state \in {"fetching", "done"}
         /\ q.state = "fetching" => q.dialog \in Dialogs
<1>1. CASE rec.todo = {}
  <2>1. q = [rec EXCEPT !.state = "done", !.dialog = None, !.from = NoCkpt]
    BY <1>1 DEF NextDialog
  <2>2. NoCkpt \in Ckpt
    BY DEF NoCkpt, Ckpt
  <2> QED
    BY <2>1, <2>2 DEF Recovery
<1>2. CASE rec.todo # {}
  <2>1. PICK d \in rec.todo :
          q = [rec EXCEPT !.state = "fetching", !.dialog = d, !.todo = @ \ {d}, !.from = ckpt[d]]
    BY <1>2 DEF NextDialog
  <2>2. d \in Dialogs /\ ckpt[d] \in Ckpt
    BY <2>1 DEF Recovery, Types
  <2> QED
    BY <2>1, <2>2 DEF Recovery
<1> QED
  BY <1>1, <1>2

LEMMA BeginRecoveryType ==
  ASSUME Types, NEW after \in {"start", "reconnect"}, BeginRecovery(after)
  PROVE  \E q \in Recovery : /\ q.promised = {} /\ q.state \in {"fetching", "done"}
                             /\ q.state = "fetching" => q.dialog \in Dialogs
                             /\ recs' = [recs EXCEPT ![starts + drops] = q]
<1>1. PICK rec : rec = [Idle EXCEPT !.after = after,
                    !.todo = {d \in Dialogs : ckpt[d] # NoCkpt},
                    !.owed = (Stored \cap Addressed \cap missed) \ (handled \cup InFlight)]
  OBVIOUS
<1>2. rec \in Recovery /\ rec.promised = {}
  BY <1>1 DEF Idle, Recovery, NoCkpt, Ckpt, Stored
<1>3. PICK q \in NextDialog(rec) : recs' = [recs EXCEPT ![starts + drops] = q]
  BY <1>1 DEF BeginRecovery
<1> QED
  BY <1>2, <1>3, NextDialogType

LEMMA EnvironmentTypes ==
  ASSUME Types, (\E m \in Messages : Publish(m)) \/ Persist \/ Deliver
  PROVE  Types'
<1>1. ASSUME NEW m \in Messages, Publish(m) PROVE Types'
  <2>1. unsaved' \in Seq(Messages) /\ inbox' \in Seq(Messages) /\ missed' \subseteq Messages
    BY <1>1 DEF Types, Publish
  <2> QED
    BY <1>1, <2>1 DEF Types, Publish, tasks
<1>2. CASE Persist
  <2>1. PICK m \in Messages : m = Head(unsaved)
    BY <1>2 DEF Persist, Types
  <2>2. DialogOf[m] \in Dialogs
    BY RuntimeAssumption
  <2>3. log' \in [Dialogs -> Seq(Messages)] /\ unsaved' \in Seq(Messages)
    BY <1>2, <2>1, <2>2 DEF Persist, Types
  <2> QED
    BY <1>2, <2>3 DEF Types, Persist, connection, tasks
<1>3. CASE Deliver
  <2>1. PICK t : t = [msg |-> Head(inbox), id |-> <<Head(inbox), "client">>,
                      seq |-> 0, by |-> Live]
    OBVIOUS
  <2>2. Head(inbox) \in Messages /\ inbox' \in Seq(Messages)
    BY <1>3 DEF Deliver, Types
  <2>3. t \in Task /\ DialogOf[t.msg] \in Dialogs
    BY <2>1, <2>2, LiveTask
  <2>4. queue' \in [Dialogs -> Seq(Task)]
    BY <1>3, <2>1, <2>3, Handles DEF Deliver
  <2> QED
    BY <1>3, <2>2, <2>4 DEF Types, Deliver, environment, connection
<1> QED
  BY <1>1, <1>2, <1>3

LEMMA ConnectionTypes ==
  ASSUME Types, \/ Start \/ Connect \/ RecoverAtStart \/ ConnectionLost \/ Reconnect
                \/ \E d \in Dialogs : Subscribe(d)
  PROVE  Types'
<1>1. CASE Start
  <2>1. ASSUME NEW d \in Dialogs, Len(log[d]) > ckpt[d].seq
        PROVE  [seq |-> Len(log[d]), id |-> StoredId(Last(log[d]))] \in Ckpt
    <3>1. Len(log[d]) \in Nat /\ ckpt[d].seq \in Nat /\ log[d] \in Seq(Messages)
      BY DEF Types, Ckpt
    <3>2. Len(log[d]) \in DOMAIN log[d]
      BY <2>1, <3>1
    <3>3. Last(log[d]) \in Messages
      BY <3>1, <3>2 DEF Last
    <3> QED
      BY <3>1, <3>3 DEF Ckpt, StoredId, Ids
  <2>2. ckpt' \in [Dialogs -> Ckpt]
    BY <1>1, <2>1 DEF Start, Types
  <2> QED
    BY <1>1, <2>2 DEF Types, Start, environment, tasks
<1>2. CASE Connect
  BY <1>2 DEF Types, Connect, environment, tasks
<1>3. ASSUME NEW d \in Dialogs, Subscribe(d) PROVE Types'
  BY <1>3 DEF Types, Subscribe, environment, tasks
<1>4. CASE ConnectionLost
  <2>1. inbox' \in Seq(Messages)
    BY <1>4 DEF ConnectionLost
  <2>2. online' \in BOOLEAN /\ subs' \subseteq Dialogs
    BY <1>4 DEF ConnectionLost
  <2> QED
    BY <1>4, <2>1, <2>2 DEF Types, ConnectionLost, environment, tasks
<1>5. CASE RecoverAtStart \/ Reconnect
  <2>1. \E after \in {"start", "reconnect"} : BeginRecovery(after)
    BY <1>5 DEF RecoverAtStart, Reconnect
  <2>2. recs' \in [Recoveries -> Recovery]
    BY <2>1, BeginRecoveryType DEF Types
  <2> QED
    BY <1>5, <2>2 DEF Types, RecoverAtStart, Reconnect, environment, tasks
<1> QED
  BY <1>1, <1>2, <1>3, <1>4, <1>5

LEMMA GoDownTypes ==
  ASSUME Types, GoDown
  PROVE  Types'
<1>1. Idle \in Recovery
  BY DEF Idle, Recovery, NoCkpt, Ckpt
<1>2. /\ << >> \in Seq(Messages) /\ << >> \in Seq(Task) /\ << >> \in Seq(Ids)
      /\ Len(<< >>) <= CacheSize
  BY RuntimeAssumption
<1>3. inbox' \in Seq(Messages) /\ processed' \in Seq(Ids) /\ Len(processed') <= CacheSize
  BY <1>2 DEF GoDown
<1>4. queue' \in [Dialogs -> Seq(Task)] /\ step' \in [Dialogs -> Steps]
  BY <1>2 DEF GoDown, Steps
<1>5. recs' \in [Recoveries -> Recovery] /\ replies' \in [Messages -> Nat]
  BY <1>1 DEF GoDown
<1>6. online' \in BOOLEAN /\ subs' \subseteq Dialogs /\ phase' = "down"
  BY DEF GoDown
<1> QED
  BY <1>3, <1>4, <1>5, <1>6 DEF GoDown, Types, environment

LEMMA TaskTypes ==
  ASSUME Types, QueueInv, NEW d \in Dialogs, TaskStep(d)
  PROVE  Types'
<1>1. CASE Begin(d)
  <2>1. queue' \in [Dialogs -> Seq(Task)] /\ step' \in [Dialogs -> Steps]
    <3>1. CASE Finish(d)
      BY <1>1, <3>1, Finishes DEF Begin
    <3>2. CASE ~ Finish(d)
      BY <1>1, <3>2 DEF Begin, Types, Steps
    <3> QED
      BY <3>1, <3>2
  <2> QED
    BY <1>1, <2>1 DEF Types, Begin, environment, connection
<1>2. CASE Respond(d)
  BY <1>2 DEF Types, Respond, Steps, environment, connection
<1>3. ASSUME step[d] # "idle"
      PROVE  /\ queue[d] # << >> /\ Head(queue[d]) \in Task
             /\ Head(queue[d]).id \in Ids /\ Head(queue[d]).msg \in Messages
             /\ Head(queue[d]).seq \in Nat
  <2>1. queue[d] \in Seq(Task) /\ queue[d] # << >>
    BY <1>3 DEF Types, QueueInv
  <2>2. Head(queue[d]) \in Task
    BY <2>1
  <2> QED
    BY <2>1, <2>2 DEF Task
<1>4. CASE DispatchReply(d) /\ online
  <2>1. Head(queue[d]).msg \in Messages
    BY <1>3, <1>4 DEF DispatchReply
  <2>2. PICK m \in Messages : m = Head(queue[d]).msg
    BY <2>1
  <2>3. /\ replies' = [replies EXCEPT ![m] = @ + 1]
        /\ step' = [step EXCEPT ![d] = "saving"]
    BY <1>4, <2>2 DEF DispatchReply
  <2>4. replies' \in [Messages -> Nat]
    BY <2>3 DEF Types
  <2>5. step' \in [Dialogs -> Steps]
    BY <2>3 DEF Types, Steps
  <2> QED
    BY <1>4, <2>4, <2>5 DEF DispatchReply, Types, environment, connection
<1>5. CASE DispatchReply(d) /\ ~ online
  BY <1>5, GoDownTypes DEF DispatchReply
<1>6. CASE SaveCheckpoint(d)
  <2>1. [seq |-> Head(queue[d]).seq, id |-> Head(queue[d]).id] \in Ckpt
    BY <1>3, <1>6 DEF SaveCheckpoint, Ckpt
  <2>2. ckpt' \in [Dialogs -> Ckpt] /\ step' \in [Dialogs -> Steps]
    BY <1>6, <2>1 DEF SaveCheckpoint, Types, Steps
  <2> QED
    BY <1>6, <2>2 DEF SaveCheckpoint, Types, environment, connection
<1>7. CASE Mark(d)
  <2>1. queue[d] # << >> /\ Head(queue[d]).id \in Ids /\ Head(queue[d]).msg \in Messages
    BY <1>3, <1>7 DEF Mark
  <2>2. PICK marked \in Seq(Ids) : /\ marked = Append(processed, Head(queue[d]).id)
                                   /\ Len(marked) = Len(processed) + 1
    <3>1. PICK id \in Ids : id = Head(queue[d]).id
      BY <2>1
    <3>2. processed \in Seq(Ids)
      BY DEF Types
    <3>3. Append(processed, id) \in Seq(Ids) /\ Len(Append(processed, id)) = Len(processed) + 1
      BY <3>2
    <3> QED
      BY <3>1, <3>3
  <2>3. processed' = IF Len(marked) <= CacheSize THEN marked ELSE Tail(marked)
    BY <1>7, <2>2 DEF Mark
  <2>4. marked # << >> /\ Len(Tail(marked)) = Len(marked) - 1 /\ Tail(marked) \in Seq(Ids)
    <3>1. Len(processed) \in Nat
      BY DEF Types
    <3> QED
      BY <2>2, <3>1
  <2>5. processed' \in Seq(Ids) /\ Len(processed') <= CacheSize
    BY <2>2, <2>3, <2>4, RuntimeAssumption DEF Types
  <2>6. queue' \in [Dialogs -> Seq(Task)] /\ step' \in [Dialogs -> Steps]
    BY <1>7, <2>1, Finishes DEF Mark
  <2> QED
    BY <1>7, <2>1, <2>5, <2>6 DEF Mark, Types, environment, connection
<1> QED
  BY <1>1, <1>2, <1>4, <1>5, <1>6, <1>7 DEF TaskStep

LEMMA ReplayedPositions ==
  ASSUME Types, NEW d \in Dialogs, NEW from \in Ckpt
  PROVE  Replayed(d, from) \subseteq DOMAIN log[d] /\ DOMAIN log[d] \subseteq Nat
<1>1. log[d] \in Seq(Messages)
  BY DEF Types
<1> QED
  BY <1>1 DEF Replayed, Newest

\* An answer of the history makes the promise and the batch.
LEMMA Fetches ==
  ASSUME Types, CoverInv, NEW r \in Recoveries, Fetch(r)
  PROVE  /\ recs[r].dialog \in Dialogs
         /\ \E q \in Recovery :
              /\ recs' = [recs EXCEPT ![r] = q]
              /\ q.state = "replaying" /\ q.dialog = recs[r].dialog
              /\ q.batch \subseteq DOMAIN log[recs[r].dialog]
              /\ q.promised = recs[r].promised \cup {log[recs[r].dialog][k] : k \in q.batch}
<1>1. recs[r] \in Recovery /\ recs[r].dialog \in Dialogs
  BY DEF Types, CoverInv, Fetch
<1>2. PICK d \in Dialogs, from \in Ckpt : d = recs[r].dialog /\ from = recs[r].from
  BY <1>1 DEF Recovery
<1>3. PICK b : b = Replayed(d, from)
  OBVIOUS
<1>4. b \subseteq DOMAIN log[d] /\ b \subseteq Nat
  BY <1>3, ReplayedPositions
<1>5. PICK p : p = {log[d][k] : k \in b}
  OBVIOUS
<1>6. log[d] \in Seq(Messages)
  BY DEF Types
<1>7. p \subseteq Messages
  BY <1>4, <1>5, <1>6
<1>8. PICK q : q = [recs[r] EXCEPT !.state = "replaying", !.batch = b, !.promised = @ \cup p]
  OBVIOUS
<1>9. /\ q \in Recovery /\ q.state = "replaying" /\ q.dialog = d
      /\ q.batch = b /\ q.promised = recs[r].promised \cup p
  BY <1>1, <1>2, <1>4, <1>7, <1>8 DEF Recovery
<1>10. recs' = [recs EXCEPT ![r].state = "replaying", ![r].batch = b, ![r].promised = @ \cup p]
  BY <1>2, <1>3, <1>5 DEF Fetch
<1>11. recs' = [recs EXCEPT ![r] = q]
  BY <1>8, <1>10 DEF Types
<1>12. q.promised = recs[r].promised \cup {log[recs[r].dialog][k] : k \in q.batch}
  BY <1>2, <1>5, <1>9
<1>13. q.batch \subseteq DOMAIN log[recs[r].dialog] /\ q.dialog = recs[r].dialog
  BY <1>2, <1>4, <1>9
<1>14. q \in Recovery /\ q.state = "replaying"
  BY <1>9
<1> QED
  BY <1>1, <1>11, <1>12, <1>13, <1>14

\* What one step of the loop takes from the batch, and the task it makes.
LEMMA Replays ==
  ASSUME Types, CoverInv, NEW r \in Recoveries, Replay(r)
  PROVE  \E k \in recs[r].batch, q \in Recovery, t \in Task :
           /\ recs[r].dialog \in Dialogs /\ k \in DOMAIN log[recs[r].dialog]
           /\ recs' = [recs EXCEPT ![r] = q]
           /\ q.state = "replaying" /\ q.dialog = recs[r].dialog
           /\ q.batch = recs[r].batch \ {k} /\ q.promised = recs[r].promised
           /\ HandleIncoming(t) /\ DialogOf[t.msg] \in Dialogs
           /\ TaskOf(DialogOf[t.msg], t)
           /\ t.msg = log[recs[r].dialog][k] /\ t.by = r
<1>1. recs[r] \in Recovery /\ recs[r].dialog \in Dialogs
      /\ recs[r].batch \subseteq DOMAIN log[recs[r].dialog] /\ recs[r].state = "replaying"
  BY DEF Types, CoverInv, Replay
<1>2. PICK k \in recs[r].batch : /\ HandleIncoming(HistoryTask(r, k))
                                 /\ recs' = [recs EXCEPT ![r].batch = @ \ {k}]
  BY DEF Replay
<1>3. PICK t : t = HistoryTask(r, k)
  OBVIOUS
<1>4. /\ t \in Task /\ DialogOf[t.msg] \in Dialogs /\ TaskOf(DialogOf[t.msg], t)
      /\ t.msg = log[recs[r].dialog][k] /\ t.by = r
  BY <1>1, <1>2, <1>3, RecoveredTask
<1>5. PICK q : q = [recs[r] EXCEPT !.batch = @ \ {k}]
  OBVIOUS
<1>6. /\ q \in Recovery /\ q.state = "replaying" /\ q.dialog = recs[r].dialog
      /\ q.batch = recs[r].batch \ {k} /\ q.promised = recs[r].promised
  BY <1>1, <1>5 DEF Recovery
<1>7. recs' = [recs EXCEPT ![r] = q]
  BY <1>2, <1>5 DEF Types
<1> QED
  BY <1>1, <1>2, <1>3, <1>4, <1>6, <1>7

LEMMA Ends ==
  ASSUME Types, NEW r \in Recoveries, EndDialog(r)
  PROVE  \E q \in Recovery : /\ q.promised = recs[r].promised
                             /\ q.state \in {"fetching", "done"}
                             /\ q.state = "fetching" => q.dialog \in Dialogs
                             /\ recs' = [recs EXCEPT ![r] = q]
<1>1. recs[r] \in Recovery
  BY DEF Types
<1>2. PICK q \in NextDialog(recs[r]) : recs' = [recs EXCEPT ![r] = q]
  BY DEF EndDialog
<1> QED
  BY <1>1, <1>2, NextDialogType

LEMMA RecoveryTypes ==
  ASSUME Types, CoverInv, NEW r \in Recoveries, RecoveryStep(r)
  PROVE  Types'
<1>1. recs' \in [Recoveries -> Recovery] /\ queue' \in [Dialogs -> Seq(Task)]
  <2>1. CASE Fetch(r)
    <3>1. PICK q \in Recovery : recs' = [recs EXCEPT ![r] = q]
      BY <2>1, Fetches
    <3> QED
      BY <2>1, <3>1, ZenonT(60) DEF Types, Fetch, tasks
  <2>2. CASE Replay(r)
    <3>1. PICK q \in Recovery, t \in Task : /\ recs' = [recs EXCEPT ![r] = q]
                                            /\ HandleIncoming(t) /\ DialogOf[t.msg] \in Dialogs
      BY <2>2, Replays
    <3> QED
      BY <3>1, Handles DEF Types
  <2>3. CASE EndDialog(r)
    <3>1. PICK q \in Recovery : recs' = [recs EXCEPT ![r] = q]
      BY <2>3, Ends
    <3> QED
      BY <2>3, <3>1 DEF Types, EndDialog, tasks
  <2> QED
    BY <2>1, <2>2, <2>3 DEF RecoveryStep
<1>2. UNCHANGED <<environment, inbox, connection, ckpt, processed, step, replies, handled>>
  BY DEF RecoveryStep, Fetch, Replay, EndDialog, tasks
<1> QED
  BY <1>1, <1>2 DEF Types, environment, connection

LEMMA TypesNext ==
  ASSUME IInv, [Next]_vars
  PROVE  Types'
<1>1. CASE UNCHANGED vars
  BY <1>1 DEF IInv, Types, vars, environment, connection, tasks
<1>2. CASE Crash
  BY <1>2, GoDownTypes DEF IInv, Crash
<1>3. ASSUME NEW d \in Dialogs, TaskStep(d) PROVE Types'
  BY <1>3, TaskTypes DEF IInv
<1>4. ASSUME NEW r \in Recoveries, RecoveryStep(r) PROVE Types'
  BY <1>4, RecoveryTypes DEF IInv
<1>5. CASE \/ Start \/ Connect \/ RecoverAtStart \/ ConnectionLost \/ Reconnect
           \/ \E d \in Dialogs : Subscribe(d)
  BY <1>5, ConnectionTypes DEF IInv
<1>6. CASE (\E m \in Messages : Publish(m)) \/ Persist \/ Deliver
  BY <1>6, EnvironmentTypes DEF IInv
<1> QED
  BY <1>1, <1>2, <1>3, <1>4, <1>5, <1>6 DEF Next

-----------------------------------------------------------------------------
(* The queues *)

\* A finished task was handled before, or is now.
Ended(d) ==
  /\ queue[d] # << >> /\ queue'[d] = Tail(queue[d]) /\ step'[d] = "idle"
  /\ Head(queue[d]).msg \in handled'

Appended(d) ==
  /\ \E t \in Task : queue'[d] = Append(queue[d], t) /\ TaskOf(d, t)
  /\ step'[d] = step[d]

\* The head of a queue is a task of the dialog.
LEMMA HeadTask ==
  ASSUME Types, QueueInv, NEW d \in Dialogs, queue[d] # << >>
  PROVE  /\ Head(queue[d]) \in Task /\ TaskOf(d, Head(queue[d]))
         /\ Head(queue[d]).msg \in Messages /\ Head(queue[d]).id \in Ids
<1>1. queue[d] \in Seq(Task)
  BY DEF Types
<1>2. 1 \in DOMAIN queue[d] /\ queue[d][1] = Head(queue[d]) /\ Head(queue[d]) \in Task
  BY <1>1
<1>3. TaskOf(d, Head(queue[d]))
  BY <1>2 DEF QueueInv
<1> QED
  BY <1>2, <1>3 DEF Task

\* What a step does to the queue of one dialog.
LEMMA HandleSteps ==
  ASSUME Types, NEW t \in Task, DialogOf[t.msg] \in Dialogs, TaskOf(DialogOf[t.msg], t),
         HandleIncoming(t), step' = step, NEW d \in Dialogs
  PROVE  (queue'[d] = queue[d] /\ step'[d] = step[d]) \/ Appended(d)
<1>1. CASE queue'[d] = queue[d]
  BY <1>1
<1>2. CASE queue'[d] # queue[d]
  <2>1. d = DialogOf[t.msg] /\ queue'[d] = Append(queue[d], t)
    BY <1>2, Handles
  <2> QED
    BY <2>1 DEF Appended
<1> QED
  BY <1>1, <1>2

LEMMA TaskSteps ==
  ASSUME Types, QueueInv, CoverInv, NEW c \in Dialogs, TaskStep(c), NEW d \in Dialogs
  PROVE  \/ GoDown
         \/ queue'[d] = queue[d] /\ (step'[d] = step[d] \/ queue[d] # << >>)
         \/ Ended(d)
<1>1. CASE Begin(c) /\ Finish(c) /\ IsProcessed(Head(queue[c]).id)
  <2>1. queue[c] # << >> /\ handled' = handled
    BY <1>1 DEF Begin
  <2>2. Head(queue[c]).msg \in handled
    <3>1. PICK i \in DOMAIN processed : processed[i] = Head(queue[c]).id
      BY <1>1 DEF IsProcessed
    <3>2. processed[i][1] \in handled
      BY DEF CoverInv
    <3> QED
      BY <2>1, <3>1, <3>2, HeadTask DEF TaskOf
  <2>3. /\ queue'[c] = Tail(queue[c]) /\ step'[c] = "idle"
        /\ \A e \in Dialogs \ {c} : queue'[e] = queue[e] /\ step'[e] = step[e]
    BY <1>1, <2>1, Finishes
  <2> QED
    BY <2>1, <2>2, <2>3 DEF Ended
<1>2. CASE Begin(c) /\ ~ (Finish(c) /\ IsProcessed(Head(queue[c]).id))
  BY <1>2 DEF Begin, Types
<1>3. CASE Respond(c)
  BY <1>3 DEF Respond, Types, QueueInv
<1>4. CASE DispatchReply(c)
  BY <1>4 DEF DispatchReply, Types, QueueInv
<1>5. CASE SaveCheckpoint(c)
  BY <1>5 DEF SaveCheckpoint, Types, QueueInv
<1>6. CASE Mark(c)
  <2>1. queue[c] # << >>
    BY <1>6 DEF Mark, QueueInv
  <2>2. /\ queue'[c] = Tail(queue[c]) /\ step'[c] = "idle"
        /\ \A e \in Dialogs \ {c} : queue'[e] = queue[e] /\ step'[e] = step[e]
    BY <1>6, <2>1, Finishes DEF Mark
  <2>3. Head(queue[c]).msg \in handled'
    BY <1>6 DEF Mark
  <2> QED
    BY <2>1, <2>2, <2>3 DEF Ended
<1> QED
  BY <1>1, <1>2, <1>3, <1>4, <1>5, <1>6 DEF TaskStep

LEMMA OtherSteps ==
  ASSUME IInv, [Next]_vars, ~ Crash, ~ \E c \in Dialogs : TaskStep(c), NEW d \in Dialogs
  PROVE  (queue'[d] = queue[d] /\ step'[d] = step[d]) \/ Appended(d)
<1> USE DEF IInv
<1>1. CASE UNCHANGED tasks
  BY <1>1 DEF tasks
<1>2. ASSUME NEW r \in Recoveries, Replay(r)
      PROVE  (queue'[d] = queue[d] /\ step'[d] = step[d]) \/ Appended(d)
  <2>1. PICK t \in Task : /\ HandleIncoming(t) /\ DialogOf[t.msg] \in Dialogs
                          /\ TaskOf(DialogOf[t.msg], t)
    BY <1>2, Replays
  <2>2. step' = step
    BY <1>2 DEF Replay
  <2> QED
    BY <2>1, <2>2, HandleSteps
<1>3. CASE Deliver
  <2>1. PICK m : m = Head(inbox)
    OBVIOUS
  <2>2. m \in Messages /\ step' = step
    BY <1>3, <2>1 DEF Deliver, Types
  <2>3. PICK t : t = [msg |-> m, id |-> <<m, "client">>, seq |-> 0, by |-> Live]
    OBVIOUS
  <2>4. t \in Task /\ DialogOf[t.msg] \in Dialogs /\ TaskOf(DialogOf[t.msg], t)
    BY <2>2, <2>3, LiveTask
  <2>5. HandleIncoming(t)
    BY <1>3, <2>1, <2>3 DEF Deliver
  <2> QED
    BY <2>2, <2>4, <2>5, HandleSteps
<1>4. CASE \/ Persist \/ Start \/ Connect \/ RecoverAtStart \/ ConnectionLost \/ Reconnect
           \/ (\E m \in Messages : Publish(m)) \/ (\E c \in Dialogs : Subscribe(c))
           \/ \E r \in Recoveries : Fetch(r) \/ EndDialog(r)
  <2>1. UNCHANGED tasks
    BY <1>4 DEF Persist, Start, Connect, RecoverAtStart, ConnectionLost, Reconnect,
                Publish, Subscribe, Fetch, EndDialog, tasks
  <2> QED
    BY <1>1, <2>1
<1> QED
  BY <1>1, <1>2, <1>3, <1>4 DEF Next, RecoveryStep, vars

LEMMA QueueSteps ==
  ASSUME IInv, [Next]_vars, NEW d \in Dialogs
  PROVE  \/ GoDown
         \/ queue'[d] = queue[d] /\ (step'[d] = step[d] \/ queue[d] # << >>)
         \/ Appended(d) \/ Ended(d)
<1>1. CASE Crash
  BY <1>1 DEF Crash
<1>2. ASSUME NEW c \in Dialogs, TaskStep(c)
      PROVE  GoDown \/ (queue'[d] = queue[d] /\ (step'[d] = step[d] \/ queue[d] # << >>)) \/ Ended(d)
  BY <1>2, TaskSteps DEF IInv
<1> QED
  BY <1>1, <1>2, OtherSteps

LEMMA QueueNext ==
  ASSUME IInv, [Next]_vars
  PROVE  QueueInv'
<1> SUFFICES ASSUME NEW d \in Dialogs
             PROVE  /\ \A i \in DOMAIN queue'[d] : TaskOf(d, queue'[d][i])
                    /\ step'[d] # "idle" => queue'[d] # << >>
  BY DEF QueueInv, TaskOf
<1>1. /\ queue[d] \in Seq(Task) /\ \A i \in DOMAIN queue[d] : TaskOf(d, queue[d][i])
      /\ step[d] # "idle" => queue[d] # << >>
  BY DEF IInv, Types, QueueInv
<1>2. CASE GoDown
  BY <1>2 DEF GoDown
<1>3. CASE queue'[d] = queue[d] /\ (step'[d] = step[d] \/ queue[d] # << >>)
  BY <1>1, <1>3
<1>4. CASE Appended(d)
  <2>1. PICK t \in Task : queue'[d] = Append(queue[d], t) /\ TaskOf(d, t)
    BY <1>4 DEF Appended
  <2>2. PICK q \in Seq(Task) : q = queue[d]
    BY <1>1
  <2>3. \A i \in DOMAIN Append(q, t) : Append(q, t)[i] = t \/ (i \in DOMAIN q /\ Append(q, t)[i] = q[i])
    BY <2>2
  <2>4. Append(q, t) # << >>
    BY <2>2
  <2> QED
    BY <1>1, <2>1, <2>2, <2>3, <2>4
<1>5. CASE Ended(d)
  <2>1. PICK q \in Seq(Task) : q = queue[d] /\ q # << >>
    BY <1>1, <1>5 DEF Ended
  <2>2. \A i \in DOMAIN Tail(q) : i + 1 \in DOMAIN q /\ Tail(q)[i] = q[i + 1]
    BY <2>1
  <2> QED
    BY <1>1, <1>5, <2>1, <2>2 DEF Ended
<1> QED
  BY <1>2, <1>3, <1>4, <1>5, QueueSteps

-----------------------------------------------------------------------------
(* Answers *)

Answered(m) ==
  LET d == DialogOf[m] IN
  /\ replies[m] <= 1
  /\ replies[m] = 1 =>
       \/ IsProcessed(<<m, "client">>)
       \/ step[d] \in {"saving", "marking"} /\ Head(queue[d]).msg = m
  /\ step[d] \in {"asking", "publishing"} /\ Head(queue[d]).msg = m => replies[m] = 0

LEMMA AnswersApart ==
  AnswerInv <=> (Len(processed) < CacheSize => \A m \in UuidMessages : Answered(m))
BY DEF AnswerInv, Answered

\* The head of a queue that holds a task stays when a task is appended.
LEMMA HeadKept ==
  ASSUME Types, QueueInv, NEW d \in Dialogs, Appended(d), step[d] # "idle"
  PROVE  Head(queue'[d]) = Head(queue[d])
<1>1. PICK t \in Task : queue'[d] = Append(queue[d], t)
  BY DEF Appended
<1>2. PICK q \in Seq(Task) : q = queue[d] /\ q # << >>
  BY DEF Types, QueueInv
<1>3. Head(Append(q, t)) = Head(q)
  BY <1>2
<1> QED
  BY <1>1, <1>2, <1>3

\* Nothing but a task that goes on concerns the answers.
LEMMA AnswersKept ==
  ASSUME Types, QueueInv, AnswerInv, processed' = processed, replies' = replies,
         \A d \in Dialogs : (queue'[d] = queue[d] /\ step'[d] = step[d]) \/ Appended(d)
  PROVE  AnswerInv'
<1> SUFFICES ASSUME Len(processed) < CacheSize, NEW m \in UuidMessages PROVE Answered(m)'
  BY DEF AnswerInv, Answered
<1>1. Answered(m)
  BY AnswersApart
<1>2. PICK d \in Dialogs : d = DialogOf[m]
  BY RuntimeAssumption
<1>3. step'[d] = step[d] /\ (step[d] # "idle" => Head(queue'[d]) = Head(queue[d]))
  BY HeadKept DEF Appended
<1> QED
  BY <1>1, <1>2, <1>3 DEF Answered, IsProcessed

LEMMA AnswersLost ==
  ASSUME GoDown
  PROVE  AnswerInv'
<1> SUFFICES ASSUME NEW m \in UuidMessages PROVE Answered(m)'
  BY DEF AnswerInv, Answered
<1>1. m \in Messages /\ DialogOf[m] \in Dialogs
  BY RuntimeAssumption
<1> QED
  BY <1>1 DEF GoDown, Answered

LEMMA AnswersOfTask ==
  ASSUME IInv, NEW c \in Dialogs, TaskStep(c)
  PROVE  AnswerInv'
<1> SUFFICES ASSUME Len(processed') < CacheSize, ~ GoDown, NEW m \in UuidMessages
             PROVE  Answered(m)'
  BY AnswersLost DEF AnswerInv, Answered
<1>1. /\ Types /\ QueueInv /\ AnswerInv /\ processed \in Seq(Ids)
      /\ replies \in [Messages -> Nat] /\ step \in [Dialogs -> Steps]
      /\ m \in Messages /\ Len(processed) <= CacheSize
  BY RuntimeAssumption DEF IInv, Types
<1>2. PICK d \in Dialogs : d = DialogOf[m]
  BY RuntimeAssumption
<1>3. PICK id : id = <<m, "client">>
  OBVIOUS
<1>4. Len(processed) < CacheSize => Answered(m)
  BY <1>1, AnswersApart
<1>5. ASSUME queue[d] # << >>, Head(queue[d]).msg = m PROVE Head(queue[d]).id = id
  BY <1>1, <1>3, <1>5, HeadTask DEF TaskOf
<1>6. SUFFICES /\ replies'[m] <= 1
               /\ replies'[m] = 1 => \/ \E i \in DOMAIN processed' : processed'[i] = id
                                     \/ step'[d] \in {"saving", "marking"} /\ Head(queue'[d]).msg = m
               /\ step'[d] \in {"asking", "publishing"} /\ Head(queue'[d]).msg = m => replies'[m] = 0
  BY <1>2, <1>3 DEF Answered, IsProcessed
<1>7. Len(processed) < CacheSize =>
        /\ replies[m] <= 1
        /\ replies[m] = 1 => \/ \E i \in DOMAIN processed : processed[i] = id
                             \/ step[d] \in {"saving", "marking"} /\ Head(queue[d]).msg = m
        /\ step[d] \in {"asking", "publishing"} /\ Head(queue[d]).msg = m => replies[m] = 0
  BY <1>2, <1>3, <1>4 DEF Answered, IsProcessed
<1>8. CASE Begin(c)
  <2>1. processed' = processed /\ replies' = replies /\ queue[c] # << >> /\ step[c] = "idle"
    BY <1>8 DEF Begin
  <2>2. CASE d # c
    <3>1. queue'[d] = queue[d] /\ step'[d] = step[d]
      BY <1>1, <1>8, <2>1, <2>2, Finishes DEF Begin, Types
    <3> QED
      BY <1>7, <2>1, <3>1
  <2>3. CASE d = c /\ Finish(c)
    <3>1. step'[d] = "idle"
      BY <1>1, <2>1, <2>3, Finishes
    <3> QED
      BY <1>7, <2>1, <2>3, <3>1
  <2>4. CASE d = c /\ ~ Finish(c)
    <3>1. queue' = queue /\ ~ IsProcessed(Head(queue[c]).id)
      BY <1>8, <2>4 DEF Begin
    <3>2. Head(queue[d]).msg = m => ~ \E i \in DOMAIN processed : processed[i] = id
      BY <1>5, <2>1, <2>4, <3>1 DEF IsProcessed
    <3>3. replies[m] \in Nat
      BY <1>1
    <3> QED
      BY <1>7, <2>1, <2>4, <3>1, <3>2, <3>3
  <2> QED
    BY <2>2, <2>3, <2>4
<1>9. CASE Respond(c)
  <2>1. /\ processed' = processed /\ replies' = replies /\ queue' = queue
        /\ step[c] = "asking" /\ step'[c] \in {"publishing", "saving"}
        /\ (d # c => step'[d] = step[d])
    BY <1>1, <1>9 DEF Respond
  <2> QED
    BY <1>7, <2>1
<1>10. CASE DispatchReply(c)
  <2>1. /\ processed' = processed /\ queue' = queue
        /\ replies' = [replies EXCEPT ![Head(queue[c]).msg] = @ + 1]
        /\ step[c] = "publishing" /\ step'[c] = "saving"
        /\ (d # c => step'[d] = step[d])
    BY <1>1, <1>10 DEF DispatchReply
  <2>2. queue[c] # << >>
    BY <1>1, <2>1 DEF QueueInv
  <2>3. TaskOf(c, Head(queue[c]))
    BY <1>1, <2>2, HeadTask
  <2>4. CASE Head(queue[c]).msg = m
    <3>1. d = c
      BY <1>2, <2>3, <2>4 DEF TaskOf
    <3>2. replies'[m] = replies[m] + 1
      BY <1>1, <2>1, <2>4
    <3> QED
      BY <1>7, <2>1, <2>4, <3>1, <3>2
  <2>5. CASE Head(queue[c]).msg # m
    <3>1. replies'[m] = replies[m]
      BY <1>1, <2>1, <2>5
    <3> QED
      BY <1>7, <2>1, <2>5, <3>1
  <2> QED
    BY <2>4, <2>5
<1>11. CASE SaveCheckpoint(c)
  <2>1. /\ processed' = processed /\ replies' = replies /\ queue' = queue
        /\ step[c] = "saving" /\ step'[c] = "marking"
        /\ (d # c => step'[d] = step[d])
    BY <1>1, <1>11 DEF SaveCheckpoint
  <2> QED
    BY <1>7, <2>1
<1>12. CASE Mark(c)
  <2>1. replies' = replies /\ step[c] = "marking" /\ Finish(c)
    BY <1>12 DEF Mark
  <2>2. queue[c] # << >>
    BY <1>1, <2>1 DEF QueueInv
  <2>3. /\ step'[c] = "idle"
        /\ d # c => queue'[d] = queue[d] /\ step'[d] = step[d]
    BY <1>1, <2>1, <2>2, Finishes
  <2>4. PICK h \in Ids : h = Head(queue[c]).id
    BY <1>1, <2>2, HeadTask
  <2>5. PICK p \in Seq(Ids) : p = processed
    BY <1>1
  <2>6. PICK a : a = Append(p, h)
    OBVIOUS
  <2>7. processed' = IF Len(a) <= CacheSize THEN a ELSE Tail(a)
    BY <1>12, <2>4, <2>5, <2>6 DEF Mark
  <2>8. /\ Len(a) = Len(p) + 1 /\ Len(Tail(a)) = Len(p) /\ Len(p) \in Nat
        /\ \A i \in DOMAIN p : i \in DOMAIN a /\ a[i] = p[i]
        /\ Len(p) + 1 \in DOMAIN a /\ a[Len(p) + 1] = h
    BY <2>5, <2>6
  <2>9. Len(p) <= CacheSize /\ CacheSize \in Nat
    BY <1>1, <2>5, RuntimeAssumption
  <2>10. processed' = a /\ Len(p) < CacheSize
    <3>1. CASE Len(a) <= CacheSize
      BY <2>7, <2>8, <2>9, <3>1
    <3>2. CASE ~ (Len(a) <= CacheSize)
      <4>1. Len(p) < CacheSize
        BY <2>7, <2>8, <3>2
      <4> QED
        BY <2>8, <2>9, <3>2, <4>1
    <3> QED
      BY <3>1, <3>2
  <2>11. CASE d # c
    BY <1>7, <2>1, <2>3, <2>5, <2>8, <2>10, <2>11
  <2>12. CASE d = c
    <3>1. CASE Head(queue[c]).msg = m
      <4>1. h = id
        BY <1>5, <2>2, <2>4, <2>12, <3>1
      <4> QED
        BY <1>7, <2>1, <2>3, <2>5, <2>8, <2>10, <2>12, <4>1
    <3>2. CASE Head(queue[c]).msg # m
      BY <1>7, <2>1, <2>3, <2>5, <2>8, <2>10, <2>12, <3>2
    <3> QED
      BY <3>1, <3>2
  <2> QED
    BY <2>11, <2>12
<1> QED
  BY <1>8, <1>9, <1>10, <1>11, <1>12 DEF TaskStep

LEMMA AnswersNext ==
  ASSUME IInv, [Next]_vars
  PROVE  AnswerInv'
<1>1. CASE Crash
  BY <1>1, AnswersLost DEF Crash
<1>2. ASSUME NEW c \in Dialogs, TaskStep(c) PROVE AnswerInv'
  BY <1>2, AnswersOfTask
<1>3. CASE ~ Crash /\ ~ \E c \in Dialogs : TaskStep(c)
  <2>1. processed' = processed /\ replies' = replies /\ step' = step
    BY <1>3 DEF Next, RecoveryStep, vars, tasks, Publish, Persist, Deliver, Start, Connect,
                RecoverAtStart, Subscribe, ConnectionLost, Reconnect, Fetch, Replay, EndDialog
  <2>2. \A d \in Dialogs : (queue'[d] = queue[d] /\ step'[d] = step[d]) \/ Appended(d)
    BY <1>3, OtherSteps
  <2> QED
    BY <2>1, <2>2, AnswersKept DEF IInv
<1> QED
  BY <1>1, <1>2, <1>3

-----------------------------------------------------------------------------
(* Promises *)

LEMMA HandledGrows ==
  ASSUME [Next]_vars
  PROVE  handled \subseteq handled'
BY DEF Next, TaskStep, RecoveryStep, vars, Publish, Persist, Deliver, Start, Connect,
       RecoverAtStart, Subscribe, ConnectionLost, Reconnect, Crash, GoDown, Begin, Respond,
       DispatchReply, SaveCheckpoint, Mark, Fetch, Replay, EndDialog

LEMMA LogGrows ==
  ASSUME Types, [Next]_vars, NEW d \in Dialogs, NEW k \in DOMAIN log[d]
  PROVE  k \in DOMAIN log'[d] /\ log'[d][k] = log[d][k]
<1>1. CASE Persist
  <2>1. PICK m \in Messages : m = Head(unsaved)
    BY <1>1 DEF Persist, Types
  <2>2. PICK c \in Dialogs : c = DialogOf[m]
    BY RuntimeAssumption
  <2>3. log' = log \/ log' = [log EXCEPT ![c] = Append(@, m)]
    BY <1>1, <2>1, <2>2 DEF Persist
  <2>4. PICK s \in Seq(Messages) : s = log[d]
    BY DEF Types
  <2>5. k \in DOMAIN Append(s, m) /\ Append(s, m)[k] = s[k]
    BY <2>4
  <2>6. log'[d] = s \/ log'[d] = Append(s, m)
    BY <2>3, <2>4 DEF Types
  <2> QED
    BY <2>4, <2>5, <2>6
<1>2. CASE ~ Persist
  <2>1. log' = log
    BY <1>2 DEF Next, TaskStep, RecoveryStep, vars, environment, Publish, Deliver, Start,
       Connect, RecoverAtStart, Subscribe, ConnectionLost, Reconnect, Crash, GoDown, Begin,
       Respond, DispatchReply, SaveCheckpoint, Mark, Fetch, Replay, EndDialog
  <2> QED
    BY <2>1
<1> QED
  BY <1>1, <1>2

\* What is queued stays queued until it is handled.
LEMMA QueuedKept ==
  ASSUME IInv, [Next]_vars, ~ GoDown, NEW r, NEW m, Queued(r, m)
  PROVE  Queued(r, m)' \/ m \in handled'
<1>1. PICK d \in Dialogs : \E i \in DOMAIN queue[d] : queue[d][i].by = r /\ queue[d][i].msg = m
  BY DEF Queued
<1>2. PICK q \in Seq(Task) : q = queue[d]
  BY DEF IInv, Types
<1>3. PICK i \in DOMAIN q : q[i].by = r /\ q[i].msg = m
  BY <1>1, <1>2
<1>4. CASE queue'[d] = queue[d]
  BY <1>2, <1>3, <1>4 DEF Queued
<1>5. CASE Appended(d)
  <2>1. PICK t \in Task : queue'[d] = Append(q, t)
    BY <1>2, <1>5 DEF Appended
  <2>2. i \in DOMAIN Append(q, t) /\ Append(q, t)[i] = q[i]
    BY <1>2, <1>3
  <2> QED
    BY <1>3, <2>1, <2>2 DEF Queued
<1>6. CASE Ended(d)
  <2>1. CASE i = 1
    <3>1. Head(q) = q[1]
      BY <1>2
    <3> QED
      BY <1>2, <1>3, <1>6, <2>1, <3>1 DEF Ended
  <2>2. CASE i # 1
    <3>1. i - 1 \in DOMAIN Tail(q) /\ Tail(q)[i - 1] = q[i]
      BY <1>2, <1>3, <2>2
    <3> QED
      BY <1>2, <1>3, <1>6, <3>1 DEF Ended, Queued
  <2> QED
    BY <2>1, <2>2
<1> QED
  BY <1>4, <1>5, <1>6, QueueSteps

\* What is processed has been handled.
LEMMA ProcessedNext ==
  ASSUME IInv, [Next]_vars
  PROVE  \A i \in DOMAIN processed' : processed'[i][1] \in handled'
<1>1. /\ processed \in Seq(Ids) /\ handled \subseteq handled'
      /\ \A i \in DOMAIN processed : processed[i][1] \in handled
  BY HandledGrows DEF IInv, Types, CoverInv
<1>2. CASE GoDown
  BY <1>2 DEF GoDown
<1>3. ASSUME NEW c \in Dialogs, Mark(c)
      PROVE  \A i \in DOMAIN processed' : processed'[i][1] \in handled'
  <2>1. queue[c] # << >>
    BY <1>3 DEF Mark, IInv, QueueInv
  <2>2. PICK h \in Ids : h = Head(queue[c]).id /\ h[1] = Head(queue[c]).msg
    BY <2>1, HeadTask DEF IInv, TaskOf
  <2>3. h[1] \in handled'
    BY <1>3, <2>2 DEF Mark
  <2>4. PICK p \in Seq(Ids) : p = processed
    BY <1>1
  <2>5. PICK a : a = Append(p, h)
    OBVIOUS
  <2>6. processed' = a \/ processed' = Tail(a)
    BY <1>3, <2>2, <2>4, <2>5 DEF Mark
  <2>7. /\ a \in Seq(Ids) /\ a # << >>
        /\ \A i \in DOMAIN a : a[i] = h \/ (i \in DOMAIN p /\ a[i] = p[i])
    BY <2>4, <2>5
  <2>8. \A i \in DOMAIN a : a[i][1] \in handled'
    BY <1>1, <2>3, <2>4, <2>7
  <2>9. \A i \in DOMAIN Tail(a) : i + 1 \in DOMAIN a /\ Tail(a)[i] = a[i + 1]
    BY <2>7
  <2> QED
    BY <2>6, <2>8, <2>9
<1>4. CASE ~ GoDown /\ ~ \E c \in Dialogs : Mark(c)
  <2>1. processed' = processed
    BY <1>4 DEF Next, TaskStep, RecoveryStep, vars, Publish, Persist, Deliver, Start, Connect,
       RecoverAtStart, Subscribe, ConnectionLost, Reconnect, Crash, Begin, Respond,
       DispatchReply, SaveCheckpoint, Fetch, Replay, EndDialog
  <2> QED
    BY <1>1, <2>1
<1> QED
  BY <1>2, <1>3, <1>4

Promise(r) ==
  /\ recs[r].state \in {"fetching", "replaying"} => recs[r].dialog \in Dialogs
  /\ recs[r].state = "replaying" => recs[r].batch \subseteq DOMAIN log[recs[r].dialog]
  /\ \A m \in recs[r].promised \cap Addressed : Covered(r, m)

\* A recovery that a step does not concern.
LEMMA PromiseKept ==
  ASSUME IInv, [Next]_vars, ~ GoDown, NEW r \in Recoveries, recs'[r] = recs[r]
  PROVE  Promise(r)'
<1>1. Promise(r)
  BY DEF IInv, CoverInv, Promise
<1>2. ASSUME NEW m, Covered(r, m) PROVE Covered(r, m)'
  <2>1. CASE m \in handled
    BY <2>1, HandledGrows DEF Covered
  <2>2. CASE recs[r].state = "replaying" /\ \E k \in recs[r].batch : log[recs[r].dialog][k] = m
    <3>1. PICK k \in recs[r].batch : log[recs[r].dialog][k] = m
      BY <2>2
    <3>2. PICK d \in Dialogs : d = recs[r].dialog /\ k \in DOMAIN log[d] /\ log[d][k] = m
      BY <1>1, <2>2, <3>1 DEF Promise
    <3>3. log'[d][k] = m
      BY <3>2, LogGrows DEF IInv
    <3> QED
      BY <2>2, <3>1, <3>2, <3>3 DEF Covered
  <2>3. CASE recs[r].state = "replaying" /\ Queued(r, m)
    BY <2>3, QueuedKept DEF Covered
  <2> QED
    BY <1>2, <2>1, <2>2, <2>3 DEF Covered
<1>3. ASSUME recs[r].state = "replaying"
      PROVE  recs[r].batch \subseteq DOMAIN log'[recs[r].dialog]
  <2>1. PICK d \in Dialogs : d = recs[r].dialog
    BY <1>1, <1>3 DEF Promise
  <2> QED
    BY <1>1, <1>3, <2>1, LogGrows DEF Promise, IInv
<1> QED
  BY <1>1, <1>2, <1>3 DEF Promise

\* A recovery that begins, or goes on to its next dialog, owes nothing yet
\* undone; one that ends has seen everything handled.
LEMMA PromiseOfFetch ==
  ASSUME IInv, [Next]_vars, NEW r \in Recoveries, Fetch(r)
  PROVE  Promise(r)'
<1>1. /\ Types /\ CoverInv /\ recs \in [Recoveries -> Recovery] /\ recs[r].state = "fetching"
      /\ log' = log
  BY DEF IInv, Types, Fetch, environment
<1>2. PICK q \in Recovery :
        /\ recs' = [recs EXCEPT ![r] = q]
        /\ q.state = "replaying" /\ q.dialog = recs[r].dialog
        /\ q.batch \subseteq DOMAIN log[recs[r].dialog]
        /\ q.promised = recs[r].promised \cup {log[recs[r].dialog][k] : k \in q.batch}
  BY <1>1, Fetches
<1>3. recs'[r] = q /\ recs[r].dialog \in Dialogs
  BY <1>1, <1>2, Fetches
<1>4. ASSUME NEW m \in q.promised \cap Addressed PROVE Covered(r, m)'
  <2>1. CASE m \in recs[r].promised
    <3>1. Covered(r, m)
      BY <1>1, <1>4, <2>1 DEF CoverInv
    <3>2. m \in handled
      BY <1>1, <3>1 DEF Covered
    <3> QED
      BY <3>2, HandledGrows DEF Covered
  <2>2. CASE m \notin recs[r].promised
    <3>1. PICK k \in q.batch : log[recs[r].dialog][k] = m
      BY <1>2, <1>4, <2>2
    <3> QED
      BY <1>1, <1>2, <1>3, <3>1 DEF Covered
  <2> QED
    BY <2>1, <2>2
<1> QED
  BY <1>1, <1>2, <1>3, <1>4 DEF Promise

LEMMA PromiseOfReplay ==
  ASSUME IInv, [Next]_vars, NEW r \in Recoveries, Replay(r)
  PROVE  Promise(r)'
<1>1. /\ Types /\ CoverInv /\ recs \in [Recoveries -> Recovery] /\ recs[r].state = "replaying"
      /\ log' = log /\ recs[r].dialog \in Dialogs
      /\ recs[r].batch \subseteq DOMAIN log[recs[r].dialog]
  BY DEF IInv, Types, CoverInv, Replay, environment
<1>2. PICK k \in recs[r].batch, q \in Recovery, t \in Task :
        /\ recs' = [recs EXCEPT ![r] = q]
        /\ q.state = "replaying" /\ q.dialog = recs[r].dialog
        /\ q.batch = recs[r].batch \ {k} /\ q.promised = recs[r].promised
        /\ HandleIncoming(t) /\ DialogOf[t.msg] \in Dialogs
        /\ TaskOf(DialogOf[t.msg], t)
        /\ t.msg = log[recs[r].dialog][k] /\ t.by = r
  BY <1>1, Replays
<1>3. recs'[r] = q
  BY <1>1, <1>2
<1>4. ASSUME NEW m \in Addressed, m = t.msg PROVE Covered(r, m)'
  <2>1. CASE IsProcessed(t.id)
    <3>1. PICK i \in DOMAIN processed : processed[i] = t.id
      BY <2>1 DEF IsProcessed
    <3>2. m \in handled
      BY <1>1, <1>2, <1>4, <3>1 DEF CoverInv, TaskOf
    <3> QED
      BY <3>2, HandledGrows DEF Covered
  <2>2. CASE ~ IsProcessed(t.id)
    <3>1. PICK d \in Dialogs : d = DialogOf[t.msg]
      BY <1>2
    <3>2. PICK s \in Seq(Task) : s = queue[d]
      BY <1>1 DEF Types
    <3>3. ~ Skips(t)
      BY <1>4, <2>2 DEF Skips
    <3>4. queue'[d] = Append(s, t)
      BY <1>1, <1>2, <3>1, <3>2, <3>3, Handles
    <3>5. Len(s) + 1 \in DOMAIN Append(s, t) /\ Append(s, t)[Len(s) + 1] = t
      BY <3>2
    <3>6. Queued(r, m)'
      BY <1>2, <1>4, <3>4, <3>5 DEF Queued
    <3> QED
      BY <1>2, <1>3, <3>6 DEF Covered
  <2> QED
    BY <2>1, <2>2
<1>5. ASSUME NEW m \in recs[r].promised \cap Addressed PROVE Covered(r, m)'
  <2>1. Covered(r, m)
    BY <1>1, <1>5 DEF CoverInv
  <2>2. CASE m \in handled
    BY <2>2, HandledGrows DEF Covered
  <2>3. CASE Queued(r, m)
    <3>1. ~ GoDown
      <4>1. CASE GoDown
        <5>1. recs'[r] = Idle
          BY <4>1 DEF GoDown
        <5> QED
          BY <1>2, <1>3, <5>1 DEF Idle
      <4> QED
        BY <4>1
    <3>2. Queued(r, m)' \/ m \in handled'
      BY <2>3, <3>1, QueuedKept
    <3> QED
      BY <1>2, <1>3, <3>2 DEF Covered
  <2>4. CASE \E j \in recs[r].batch : log[recs[r].dialog][j] = m
    <3>1. PICK j \in recs[r].batch : log[recs[r].dialog][j] = m
      BY <2>4
    <3>2. CASE j = k
      BY <1>2, <1>4, <1>5, <3>1, <3>2
    <3>3. CASE j # k
      BY <1>1, <1>2, <1>3, <3>1, <3>3 DEF Covered
    <3> QED
      BY <3>2, <3>3
  <2> QED
    BY <2>1, <2>2, <2>3, <2>4 DEF Covered
<1> QED
  BY <1>1, <1>2, <1>3, <1>5 DEF Promise

LEMMA PromiseOfEnd ==
  ASSUME IInv, [Next]_vars, NEW r \in Recoveries, EndDialog(r)
  PROVE  Promise(r)'
<1>1. /\ Types /\ CoverInv /\ recs \in [Recoveries -> Recovery]
      /\ recs[r].batch = {} /\ ~ Waiting(r)
  BY DEF IInv, Types, EndDialog
<1>2. PICK q \in Recovery : /\ q.promised = recs[r].promised
                            /\ q.state \in {"fetching", "done"}
                            /\ q.state = "fetching" => q.dialog \in Dialogs
                            /\ recs' = [recs EXCEPT ![r] = q]
  BY <1>1, Ends
<1>3. recs'[r] = q
  BY <1>1, <1>2
<1>4. ASSUME NEW m \in recs[r].promised \cap Addressed PROVE m \in handled'
  <2>1. Covered(r, m)
    BY <1>1, <1>4 DEF CoverInv
  <2>2. ~ Queued(r, m)
    BY <1>1 DEF Waiting, Queued
  <2> QED
    BY <1>1, <2>1, <2>2, HandledGrows DEF Covered
<1> QED
  BY <1>2, <1>3, <1>4 DEF Promise, Covered

LEMMA PromiseOfBegin ==
  ASSUME IInv, NEW r \in Recoveries, RecoverAtStart \/ Reconnect, recs'[r] # recs[r]
  PROVE  Promise(r)'
<1>1. Types /\ recs \in [Recoveries -> Recovery]
  BY DEF IInv, Types
<1>2. PICK after \in {"start", "reconnect"} : BeginRecovery(after)
  BY DEF RecoverAtStart, Reconnect
<1>3. PICK q \in Recovery : /\ q.promised = {} /\ q.state \in {"fetching", "done"}
                            /\ q.state = "fetching" => q.dialog \in Dialogs
                            /\ recs' = [recs EXCEPT ![starts + drops] = q]
  BY <1>1, <1>2, BeginRecoveryType
<1>4. recs'[r] = q
  BY <1>1, <1>3
<1> QED
  BY <1>3, <1>4 DEF Promise

LEMMA PromiseOfDown ==
  ASSUME GoDown, NEW r \in Recoveries
  PROVE  Promise(r)'
<1>1. recs'[r] = Idle
  BY DEF GoDown
<1>2. Idle.state = "off" /\ Idle.promised = {}
  BY DEF Idle
<1> QED
  BY <1>1, <1>2 DEF Promise

LEMMA PromisesNext ==
  ASSUME IInv, [Next]_vars, NEW r \in Recoveries
  PROVE  Promise(r)'
<1>1. recs \in [Recoveries -> Recovery]
  BY DEF IInv, Types
<1>2. CASE GoDown
  BY <1>2, PromiseOfDown
<1>3. CASE ~ GoDown /\ recs'[r] = recs[r]
  BY <1>3, PromiseKept
<1>4. CASE ~ GoDown /\ recs'[r] # recs[r]
  <2>1. CASE RecoverAtStart \/ Reconnect
    BY <1>4, <2>1, PromiseOfBegin
  <2>2. CASE ~ (RecoverAtStart \/ Reconnect)
    <3>1. PICK c \in Recoveries : RecoveryStep(c)
      BY <1>4, <2>2 DEF Next, TaskStep, vars, Publish, Persist, Deliver, Start, Connect,
         Subscribe, ConnectionLost, Crash, Begin, Respond, DispatchReply, SaveCheckpoint, Mark
    <3>2. \E q : recs' = [recs EXCEPT ![c] = q]
      <4>1. CASE Fetch(c)
        BY <4>1, Fetches DEF IInv
      <4>2. CASE Replay(c)
        BY <4>2, Replays DEF IInv
      <4>3. CASE EndDialog(c)
        BY <4>3 DEF EndDialog
      <4> QED
        BY <3>1, <4>1, <4>2, <4>3 DEF RecoveryStep
    <3>3. c = r
      BY <1>1, <1>4, <3>2
    <3> QED
      BY <3>1, <3>3, PromiseOfFetch, PromiseOfReplay, PromiseOfEnd DEF RecoveryStep
  <2> QED
    BY <2>1, <2>2
<1> QED
  BY <1>2, <1>3, <1>4

LEMMA CoverNext ==
  ASSUME IInv, [Next]_vars
  PROVE  CoverInv'
BY ProcessedNext, PromisesNext DEF CoverInv, Promise

-----------------------------------------------------------------------------
(* Theorems *)

LEMMA InitHolds == Init => IInv
<1> SUFFICES ASSUME Init PROVE IInv
  OBVIOUS
<1>1. Types
  BY InitTypes
<1>2. QueueInv
  BY DEF Init, QueueInv
<1>3. AnswerInv
  <2>1. ASSUME NEW m \in UuidMessages
        PROVE  m \in Messages /\ DialogOf[m] \in Dialogs /\ replies[m] = 0
    BY RuntimeAssumption DEF Init
  <2> QED
    BY <2>1 DEF Init, AnswerInv
<1>4. CoverInv
  <2>1. ASSUME NEW r \in Recoveries PROVE recs[r].state = "off" /\ recs[r].promised = {}
    BY DEF Init, Idle
  <2>2. DOMAIN processed = {}
    BY DEF Init
  <2> QED
    BY <2>1, <2>2 DEF CoverInv
<1> QED
  BY <1>1, <1>2, <1>3, <1>4 DEF IInv

LEMMA IInvHolds == Spec => []IInv
<1>1. Init => IInv
  BY InitHolds
<1>2. IInv /\ [Next]_vars => IInv'
  BY TypesNext, QueueNext, AnswersNext, CoverNext DEF IInv
<1> QED
  BY <1>1, <1>2, PTL DEF Spec

\* Every variable has its type, whatever the sizes of the instance.
THEOREM TypeCorrect == Spec => []TypeOK
<1>1. IInv => TypeOK
  BY DEF IInv, Types, TypeOK, Steps, Ckpt, Recovery
<1> QED
  BY <1>1, IInvHolds, PTL

\* Until the cache of processed ids is full (isMessageProcessed and
\* markMessageProcessed), one incarnation answers a message with a proper id
\* at most once, in whatever order live copies, recoveries and reconnects
\* bring it.
THEOREM NoDoubleReplyUntilFull == Spec => [](Len(processed) < CacheSize => NoDoubleReply)
<1>1. IInv => (Len(processed) < CacheSize => NoDoubleReply)
  BY DEF IInv, AnswerInv, NoDoubleReply
<1> QED
  BY <1>1, IInvHolds, PTL

\* A recovery that has ended (recoverPendingMessages) leaves no message its
\* history requests covered unhandled, even when the cache evicts ids.
THEOREM RecoveryCoversAlways == Spec => []RecoveryCovers
<1>1. IInv => RecoveryCovers
  <2> SUFFICES ASSUME IInv, NEW r \in Recoveries, recs[r].state = "done",
                      NEW m \in recs[r].promised \cap Addressed
               PROVE  m \in handled
    BY DEF RecoveryCovers
  <2>1. Covered(r, m)
    BY DEF IInv, CoverInv
  <2> QED
    BY <2>1 DEF Covered
<1> QED
  BY <1>1, IInvHolds, PTL
=============================================================================
