---------------------------- MODULE MessageStore ----------------------------
(***************************************************************************)
(* The backend's persistence path, from the broker's persistent session    *)
(* (QoS 1, CleanSession(false), one configured client id) through          *)
(* MessageService.HandleIncomingMessage to the database transaction of     *)
(* MessageRepository.CreateWithNextSeq.                                    *)
(*                                                                         *)
(* Several backend processes may overlap (a restart, a second replica with *)
(* the same client id): the broker lets the last one to connect take the   *)
(* session over, while the handler the old one is running goes on to the   *)
(* end of its transaction.  paho calls the handler for one message at a    *)
(* time and acknowledges a message after its handler has returned, so a    *)
(* process works on the head of the session and the head leaves the        *)
(* session only if its connection is still the current one.                *)
(*                                                                         *)
(* The transaction is split at every statement.  It runs READ COMMITTED:   *)
(* each statement sees the rows committed before it.  The row lock that    *)
(* GetNextSeq takes (FOR UPDATE) is left out: only CreateWithNextSeq       *)
(* writes messages, and it already holds the advisory lock.                *)
(***************************************************************************)
EXTENDS Naturals, Sequences, FiniteSets

CONSTANTS Processes,      \* backend processes
          Conversations,  \* conversation ids (MQTT topics)
          Messages,       \* payloads clients publish
          ConvOf,         \* the topic each payload is published to
          UuidMessages,   \* payloads whose id uuid.Parse accepts
          ValidMessages,  \* payloads that decode, match their topic, validate
          LockKeys,       \* values of hashtext
          HashText,       \* hashtext: conversations may share a lock key
          None,
          MaxMinted,      \* bound: uuid.New() calls
          MaxPublishes,   \* bound: publications, retransmissions included
          MaxFailures,    \* bound: handlers that end in an error
          MaxOutages      \* bound: lost connections and crashes

\* Message ids: the one the client chose (0), or one that uuid.New() returned.
Ids == Messages \X (0 .. MaxMinted)

ASSUME StoreAssumption ==
  /\ ConvOf \in [Messages -> Conversations]
  /\ UuidMessages \subseteq Messages
  /\ ValidMessages \subseteq Messages
  /\ HashText \in [Conversations -> LockKeys]
  /\ None \notin Processes \cup Messages \cup Ids
  /\ MaxMinted \in Nat
  /\ MaxPublishes \in Nat /\ MaxFailures \in Nat /\ MaxOutages \in Nat

VARIABLES session,    \* the broker's session: unacknowledged payloads, in order
          owner,      \* the process whose connection holds the session
          pc,         \* where each process is in its handler
          task,       \* the payload it handles
          msgID,      \* model.Message.MessageID
          seq,        \* model.Message.Seq
          lock,       \* pg_advisory_xact_lock: key -> transaction
          rows,       \* the committed rows of table messages
          minted,     \* uuid.New() calls so far
          published, failures, outages,   \* the bounded counters
          dropped,    \* payloads whose handler returned an error
          acked       \* payloads acknowledged to the broker

broker == <<session, owner, published, outages>>
vars == <<session, owner, pc, task, msgID, seq, lock, rows, minted,
          published, failures, outages, dropped, acked>>

-----------------------------------------------------------------------------
(* Data *)

Row == [conv : Conversations, id : Ids, seq : Nat, msg : Messages]

RowsOf(c) == {r \in rows : r.conv = c}

Steps == {"idle", "handling", "locking", "checking", "numbering", "inserting",
          "committing", "returning"}

\* The steps at which the transaction holds its advisory lock.
InTransaction == {"checking", "numbering", "inserting", "committing"}

Conv(p) == ConvOf[task[p]]

\* ExistsByConversationAndMessageID
Exists(c, id) == \E r \in RowsOf(c) : r.id = id

\* Faulty: the first message of a conversation gets seq 0.
FaultyNextSeq(c) ==
  IF RowsOf(c) = {} THEN 0 ELSE Cardinality(RowsOf(c))

\* GetNextSeq: one more than the highest seq, 1 in an empty conversation.
NextSeq(c) ==
  IF RowsOf(c) = {} THEN 1
  ELSE (CHOOSE n \in {r.seq : r \in RowsOf(c)} :
          \A r \in RowsOf(c) : r.seq <= n) + 1

\* The primary key of the table is not modelled; (conversation_id, seq) is
\* the unique index an insert has to satisfy.
UniqueViolation(c, n) == \E r \in RowsOf(c) : r.seq = n

-----------------------------------------------------------------------------
(* The broker and the connection *)

\* A client publishes; with QoS 1 it may publish the same payload again when
\* the acknowledgement was lost.
Publish(m) ==
  /\ published < MaxPublishes
  /\ published' = published + 1
  /\ session' = Append(session, m)
  /\ UNCHANGED <<owner, pc, task, msgID, seq, lock, rows, minted, failures,
                 outages, dropped, acked>>

\* Connect / reconnect: the broker resumes the session on this connection.  A
\* process reconnects only when its handler has returned.
Connect(p) ==
  /\ pc[p] = "idle"
  /\ owner = None
  /\ owner' = p
  /\ UNCHANGED <<session, pc, task, msgID, seq, lock, rows, minted, published,
                 failures, outages, dropped, acked>>

\* Another process connects with the same client id: the broker closes the
\* older connection and delivers what was not acknowledged to the new one.
TakeOver(p) ==
  /\ pc[p] = "idle"
  /\ owner \notin {None, p}
  /\ outages < MaxOutages
  /\ outages' = outages + 1
  /\ owner' = p
  /\ UNCHANGED <<session, pc, task, msgID, seq, lock, rows, minted, published,
                 failures, dropped, acked>>

ConnectionLost ==
  /\ owner # None
  /\ outages < MaxOutages
  /\ outages' = outages + 1
  /\ owner' = None
  /\ UNCHANGED <<session, pc, task, msgID, seq, lock, rows, minted, published,
                 failures, dropped, acked>>

\* The handler's frame is gone.
Release(p) ==
  /\ pc' = [pc EXCEPT ![p] = "idle"]
  /\ task' = [task EXCEPT ![p] = None]
  /\ msgID' = [msgID EXCEPT ![p] = None]
  /\ seq' = [seq EXCEPT ![p] = 0]

\* The process dies: its transaction is rolled back and its lock released.
Crash(p) ==
  /\ pc[p] # "idle"
  /\ outages < MaxOutages
  /\ outages' = outages + 1
  /\ Release(p)
  /\ owner' = IF owner = p THEN None ELSE owner
  /\ lock' = [k \in LockKeys |-> IF lock[k] = p THEN None ELSE lock[k]]
  /\ UNCHANGED <<session, rows, minted, published, failures, dropped, acked>>

-----------------------------------------------------------------------------
(* The handler *)

\* Faulty: the message is acknowledged before its handler runs.
FaultyReceive(p) ==
  /\ owner = p
  /\ pc[p] = "idle"
  /\ session # << >>
  /\ task' = [task EXCEPT ![p] = Head(session)]
  /\ acked' = acked \cup {Head(session)}
  /\ pc' = [pc EXCEPT ![p] = "handling"]
  /\ UNCHANGED <<broker, msgID, seq, lock, rows, minted, failures, dropped>>

\* mqtt.Client.handleMessage is called with the oldest unacknowledged payload.
Receive(p) ==
  /\ owner = p
  /\ pc[p] = "idle"
  /\ session # << >>
  /\ task' = [task EXCEPT ![p] = Head(session)]
  /\ pc' = [pc EXCEPT ![p] = "handling"]
  /\ UNCHANGED <<broker, msgID, seq, lock, rows, minted, failures, dropped,
                 acked>>

\* Faulty: an error return without a rollback, the lock stays.
FaultyFailTask(p) ==
  /\ pc' = [pc EXCEPT ![p] = "returning"]
  /\ dropped' = dropped \cup {task[p]}
  /\ UNCHANGED <<broker, task, msgID, seq, lock, rows, minted, acked>>

\* An error return: deferred rollback, the error is logged and nothing else.
FailTask(p) ==
  /\ pc' = [pc EXCEPT ![p] = "returning"]
  /\ dropped' = dropped \cup {task[p]}
  /\ lock' = [k \in LockKeys |-> IF lock[k] = p THEN None ELSE lock[k]]
  /\ UNCHANGED <<broker, task, msgID, seq, rows, minted, acked>>

\* Unmarshal, topic check, validateNormalizedMessage.
Reject(p) ==
  /\ pc[p] = "handling"
  /\ task[p] \notin ValidMessages
  /\ FailTask(p)
  /\ UNCHANGED failures

\* Faulty: the row keeps the client's id unparsed.
FaultyBuildMessage(p) ==
  /\ pc[p] = "handling"
  /\ task[p] \in ValidMessages
  /\ pc' = [pc EXCEPT ![p] = "locking"]
  /\ msgID' = [msgID EXCEPT ![p] = task[p]]
  /\ UNCHANGED <<broker, task, seq, lock, rows, minted, failures, dropped,
                 acked>>

\* Normalise and build the row; an id that is no UUID is replaced by a new one.
BuildMessage(p) ==
  LET keeps == task[p] \in UuidMessages IN
  /\ pc[p] = "handling"
  /\ task[p] \in ValidMessages
  /\ keeps \/ minted < MaxMinted
  /\ pc' = [pc EXCEPT ![p] = "locking"]
  /\ msgID' = [msgID EXCEPT ![p] =
                 <<task[p], IF keeps THEN 0 ELSE minted + 1>>]
  /\ minted' = IF keeps THEN minted ELSE minted + 1
  /\ UNCHANGED <<broker, task, seq, lock, rows, failures, dropped, acked>>

\* Faulty: a shared lock, which others may hold as well.
FaultyAcquireLock(p) ==
  /\ pc[p] = "locking"
  /\ lock' = [lock EXCEPT ![HashText[Conv(p)]] = p]
  /\ pc' = [pc EXCEPT ![p] = "checking"]
  /\ UNCHANGED <<broker, task, msgID, seq, rows, minted, failures, dropped,
                 acked>>

\* SELECT pg_advisory_xact_lock(hashtext(conversation_id)) waits for the lock.
AcquireLock(p) ==
  /\ pc[p] = "locking"
  /\ lock[HashText[Conv(p)]] = None
  /\ lock' = [lock EXCEPT ![HashText[Conv(p)]] = p]
  /\ pc' = [pc EXCEPT ![p] = "checking"]
  /\ UNCHANGED <<broker, task, msgID, seq, rows, minted, failures, dropped,
                 acked>>

\* Faulty: the id is not looked up.
FaultyCheckExists(p) ==
  /\ pc[p] = "checking"
  /\ pc' = [pc EXCEPT ![p] = "numbering"]
  /\ UNCHANGED <<broker, task, msgID, seq, lock, rows, minted, failures,
                 dropped, acked>>

\* A message already stored ends the transaction without an error.
CheckExists(p) ==
  /\ pc[p] = "checking"
  /\ IF Exists(Conv(p), msgID[p])
     THEN /\ pc' = [pc EXCEPT ![p] = "returning"]
          /\ lock' = [lock EXCEPT ![HashText[Conv(p)]] = None]
     ELSE /\ pc' = [pc EXCEPT ![p] = "numbering"]
          /\ UNCHANGED lock
  /\ UNCHANGED <<broker, task, msgID, seq, rows, minted, failures, dropped,
                 acked>>

ReadNextSeq(p) ==
  /\ pc[p] = "numbering"
  /\ seq' = [seq EXCEPT ![p] = NextSeq(Conv(p))]
  /\ pc' = [pc EXCEPT ![p] = "inserting"]
  /\ UNCHANGED <<broker, task, msgID, lock, rows, minted, failures, dropped,
                 acked>>

\* INSERT waits for a transaction that inserted the same (conversation, seq)
\* and fails on the unique index if that one has committed.
Insert(p) ==
  /\ pc[p] = "inserting"
  /\ \A q \in Processes \ {p} :
       ~ (pc[q] = "committing" /\ Conv(q) = Conv(p) /\ seq[q] = seq[p])
  /\ IF UniqueViolation(Conv(p), seq[p])
     THEN FailTask(p) /\ UNCHANGED failures
     ELSE /\ pc' = [pc EXCEPT ![p] = "committing"]
          /\ UNCHANGED <<broker, task, msgID, seq, lock, rows, minted,
                         failures, dropped, acked>>

\* COMMIT publishes the row and releases the advisory lock.
Commit(p) ==
  /\ pc[p] = "committing"
  /\ rows' = rows \cup {[conv |-> Conv(p), id |-> msgID[p], seq |-> seq[p],
                         msg |-> task[p]]}
  /\ lock' = [lock EXCEPT ![HashText[Conv(p)]] = None]
  /\ pc' = [pc EXCEPT ![p] = "returning"]
  /\ UNCHANGED <<broker, task, msgID, seq, minted, failures, dropped, acked>>

\* A statement fails or the handler's five second deadline passes.
DatabaseError(p) ==
  /\ pc[p] \in {"handling", "locking"} \cup InTransaction
  /\ failures < MaxFailures
  /\ failures' = failures + 1
  /\ FailTask(p)

\* The handler has returned, with or without an error; paho acknowledges the
\* payload if the connection it came from is still there.
Return(p) ==
  /\ pc[p] = "returning"
  /\ Release(p)
  /\ IF owner = p
     THEN session' = Tail(session) /\ acked' = acked \cup {task[p]}
     ELSE UNCHANGED <<session, acked>>
  /\ UNCHANGED <<owner, lock, rows, minted, published, failures, outages,
                 dropped>>

-----------------------------------------------------------------------------
Init ==
  /\ session = << >>
  /\ owner = None
  /\ pc = [p \in Processes |-> "idle"]
  /\ task = [p \in Processes |-> None]
  /\ msgID = [p \in Processes |-> None]
  /\ seq = [p \in Processes |-> 0]
  /\ lock = [k \in LockKeys |-> None]
  /\ rows = {}
  /\ minted = 0
  /\ published = 0
  /\ failures = 0
  /\ outages = 0
  /\ dropped = {}
  /\ acked = {}

HandlerStep(p) ==
  \/ Receive(p) \/ Reject(p) \/ BuildMessage(p) \/ AcquireLock(p)
  \/ CheckExists(p) \/ ReadNextSeq(p) \/ Insert(p) \/ Commit(p) \/ Return(p)

Next ==
  \/ \E m \in Messages : Publish(m)
  \/ ConnectionLost
  \/ \E p \in Processes :
       \/ Connect(p) \/ TakeOver(p) \/ Crash(p) \/ DatabaseError(p)
       \/ HandlerStep(p)

Spec == Init /\ [][Next]_vars

\* Processes run and reconnect; statements return (or fail at the deadline).
Fairness ==
  /\ WF_vars(\E p \in Processes : Connect(p))
  /\ \A p \in Processes : WF_vars(HandlerStep(p))

FairSpec == Spec /\ Fairness

-----------------------------------------------------------------------------
(* Properties *)

\* Every variable has its type.
TypeOK ==
  /\ session \in Seq(Messages)
  /\ owner \in Processes \cup {None}
  /\ pc \in [Processes -> Steps]
  /\ task \in [Processes -> Messages \cup {None}]
  /\ msgID \in [Processes -> Ids \cup {None}]
  /\ seq \in [Processes -> Nat]
  /\ lock \in [LockKeys -> Processes \cup {None}]
  /\ rows \subseteq Row
  /\ minted \in 0 .. MaxMinted
  /\ published \in Nat /\ failures \in Nat /\ outages \in Nat
  /\ dropped \subseteq Messages
  /\ acked \subseteq Messages

\* The seqs of a conversation are 1, 2, ... without a gap or a repetition, in
\* spite of concurrent transactions, rollbacks and crashes: paging by seq is
\* sound only because of this (CreateWithNextSeq).
SeqGapFree ==
  \A c \in Conversations :
    {r.seq : r \in RowsOf(c)} = 1 .. Cardinality(RowsOf(c))

\* A payload with a proper message id is stored at most once, however often
\* the broker redelivers it and whichever processes handle the copies
\* (ExistsByConversationAndMessageID under the advisory lock).
StoredOnce ==
  \A r, s \in rows : r.msg = s.msg /\ r.msg \in UuidMessages => r = s

\* The broker forgets a payload only when it is stored or when its handler
\* returned an error (handleMessage logs that error and nothing else).
AckedIsStored ==
  \A m \in acked : m \in dropped \/ \E r \in rows : r.msg = m

\* The rows, read in seq order, are the log the readers are promised.
Log ==
  [c \in Conversations |->
     [n \in {r.seq : r \in RowsOf(c)} |->
        (CHOOSE r \in RowsOf(c) : r.seq = n).id]]

Abstract == INSTANCE MessageLog WITH log <- Log

\* The transactions of all processes together behave as one appender.
ImplementsLog == Abstract!Spec

\* Every payload the broker took is eventually stored or given up with an
\* error; no lock, dead process or lost connection holds it up for ever.
EventuallySettled ==
  \A m \in Messages :
    (\E i \in DOMAIN session : session[i] = m)
      ~> (m \in dropped \/ \E r \in rows : r.msg = m)
=============================================================================
