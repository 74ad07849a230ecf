------------------------ MODULE HistoryReader_proofs ------------------------
(***************************************************************************)
(* Proofs about MessageStore and about HistoryReader, which runs over it,  *)
(* for any number of processes, conversations, payloads and lock keys and  *)
(* any page size.                                                          *)
(*                                                                         *)
(* First the store: its rows are numbered 1..n and stored once, what is    *)
(* acknowledged is stored, and it implements an append-only log.  Then the *)
(* reader: what the client holds is always one interval of its             *)
(* conversation, and an empty page is the end.  A page by seq is closed    *)
(* downwards (after_seq) or upwards (before_seq) in what it is taken from, *)
(* so joined to an interval it gives an interval; and a new row gets       *)
(* n + 1, above every cursor.                                              *)
(***************************************************************************)
EXTENDS HistoryReader, FiniteSetTheorems, SequenceTheorems, WellFoundedInduction, TLAPS

-----------------------------------------------------------------------------
(* The inductive invariant *)

\* A running handler has a payload, and from BuildMessage on an id made of it.
TaskInv ==
  \A p \in Processes :
    /\ pc[p] # "idle" => task[p] \in Messages
    /\ pc[p] \in {"locking"} \cup InTransaction =>
         /\ msgID[p] \in Ids
         /\ msgID[p][1] = task[p]
         /\ task[p] \in UuidMessages => msgID[p] = <<task[p], 0>>

\* The payload handled on the current connection is the head of the session.
SessionInv ==
  \A p \in Processes :
    owner = p /\ pc[p] # "idle" => session # << >> /\ Head(session) = task[p]

\* Mutual exclusion: an open transaction holds the lock of its conversation.
LockInv ==
  \A p \in Processes :
    pc[p] \in InTransaction => lock[HashText[Conv(p)]] = p

\* What a transaction has read stays true until it ends.
ReadsInv ==
  \A p \in Processes :
    /\ pc[p] \in {"numbering", "inserting", "committing"} =>
         ~ Exists(Conv(p), msgID[p])
    /\ pc[p] \in {"inserting", "committing"} =>
         seq[p] = Cardinality(RowsOf(Conv(p))) + 1

\* Where the columns of a stored row come from.
RowInv ==
  /\ IsFiniteSet(rows)
  /\ \A r \in rows :
       /\ r.conv = ConvOf[r.msg]
       /\ r.id[1] = r.msg
       /\ r.msg \in UuidMessages => r.id = <<r.msg, 0>>
  /\ \A r, s \in rows : r.conv = s.conv /\ r.id = s.id => r = s
  /\ \A r, s \in rows : r.conv = s.conv /\ r.seq = s.seq => r = s

\* A handler that has returned stored its payload or reported an error.
ReturnInv ==
  \A p \in Processes :
    pc[p] = "returning" =>
      task[p] \in dropped \/ \E r \in rows : r.msg = task[p]

StoreInv ==
  /\ TypeOK /\ TaskInv /\ SessionInv /\ LockInv /\ ReadsInv /\ RowInv /\ SeqGapFree
  /\ ReturnInv /\ AckedIsStored

-----------------------------------------------------------------------------
(* What GetNextSeq returns *)

LEMMA RowsOfFinite ==
  ASSUME RowInv, NEW c
  PROVE  IsFiniteSet(RowsOf(c)) /\ Cardinality(RowsOf(c)) \in Nat
<1>1. RowsOf(c) \in SUBSET rows
  BY DEF RowsOf
<1>2. IsFiniteSet(RowsOf(c))
  BY <1>1, FS_Subset DEF RowInv
<1> QED
  BY <1>2, FS_CardinalityType

\* In a gap-free conversation the next seq is one more than the number of rows.
LEMMA NextSeqValue ==
  ASSUME RowInv, SeqGapFree, NEW c \in Conversations
  PROVE  NextSeq(c) = Cardinality(RowsOf(c)) + 1
<1> DEFINE n == Cardinality(RowsOf(c))
           seqs == {r.seq : r \in RowsOf(c)}
<1>1. IsFiniteSet(RowsOf(c)) /\ n \in Nat
  BY RowsOfFinite
<1>2. seqs = 1 .. n
  BY DEF SeqGapFree
<1>3. CASE RowsOf(c) = {}
  BY <1>3, FS_EmptySet DEF NextSeq
<1>4. CASE RowsOf(c) # {}
  <2>1. n # 0
    BY <1>1, <1>4, FS_EmptySet
  <2>2. n \in seqs
    BY <1>1, <1>2, <2>1
  <2>3. \A r \in RowsOf(c) : r.seq \in 1 .. n
    BY <1>2
  <2>4. \A k \in seqs : (\A r \in RowsOf(c) : r.seq <= k) <=> k = n
    <3>1. ASSUME NEW k \in seqs, \A r \in RowsOf(c) : r.seq <= k PROVE k = n
      <4>1. n <= k
        BY <2>2, <3>1
      <4>2. k \in 1 .. n
        BY <1>2, <3>1
      <4> QED
        BY <1>1, <4>1, <4>2
    <3> QED
      BY <1>1, <2>3, <3>1
  <2>5. (CHOOSE k \in seqs : \A r \in RowsOf(c) : r.seq <= k) = n
    BY <2>2, <2>4
  <2> QED
    BY <1>4, <2>5 DEF NextSeq
<1> QED
  BY <1>3, <1>4

-----------------------------------------------------------------------------
(* Types *)

LEMMA TypeInit == Init => TypeOK
  BY StoreAssumption DEF Init, TypeOK, Steps

LEMMA TypeStep ==
  ASSUME TypeOK, TaskInv, SessionInv, RowInv, SeqGapFree, [Next]_vars
  PROVE  TypeOK'
<1> USE StoreAssumption DEF TypeOK
<1>1. ASSUME NEW m \in Messages, Publish(m) PROVE TypeOK'
  BY <1>1 DEF Publish
<1>2. CASE ConnectionLost
  BY <1>2 DEF ConnectionLost
<1>3. ASSUME NEW p \in Processes, Connect(p) \/ TakeOver(p) PROVE TypeOK'
  BY <1>3 DEF Connect, TakeOver
<1>4. ASSUME NEW p \in Processes, Crash(p) PROVE TypeOK'
  BY <1>4 DEF Crash, Release, Steps
<1>5. ASSUME NEW p \in Processes, Receive(p) PROVE TypeOK'
  BY <1>5 DEF Receive, Steps, broker
<1>6. ASSUME NEW p \in Processes, Reject(p) \/ DatabaseError(p) PROVE TypeOK'
  <2>1. pc[p] # "idle"
    BY <1>6 DEF Reject, DatabaseError, InTransaction
  <2> QED
    <3>1. dropped' \subseteq Messages
      BY <1>6, <2>1 DEF Reject, DatabaseError, FailTask, TaskInv
    <3>2. failures' \in Nat
      BY <1>6 DEF Reject, DatabaseError
    <3>3. FailTask(p)
      BY <1>6 DEF Reject, DatabaseError
    <3> QED
      BY <3>1, <3>2, <3>3 DEF FailTask, Steps, broker
<1>7. ASSUME NEW p \in Processes, BuildMessage(p) PROVE TypeOK'
  <2>1. msgID' \in [Processes -> Ids \cup {None}]
    BY <1>7 DEF BuildMessage, TaskInv, Ids
  <2> QED
    BY <1>7, <2>1 DEF BuildMessage, Steps, broker
<1>8. ASSUME NEW p \in Processes, AcquireLock(p) PROVE TypeOK'
  BY <1>8 DEF AcquireLock, Steps, broker
<1>9. ASSUME NEW p \in Processes, CheckExists(p) PROVE TypeOK'
  BY <1>9 DEF CheckExists, Steps, broker
<1>10. ASSUME NEW p \in Processes, ReadNextSeq(p) PROVE TypeOK'
  <2>1. Conv(p) \in Conversations
    BY <1>10 DEF ReadNextSeq, TaskInv, Conv
  <2>2. NextSeq(Conv(p)) \in Nat
    BY <2>1, NextSeqValue, RowsOfFinite
  <2>3. seq' \in [Processes -> Nat]
    BY <1>10, <2>2 DEF ReadNextSeq
  <2> QED
    BY <1>10, <2>3 DEF ReadNextSeq, Steps, broker
<1>11. ASSUME NEW p \in Processes, Insert(p) PROVE TypeOK'
  <2>1. CASE FailTask(p) /\ UNCHANGED failures
    BY <1>11, <2>1 DEF Insert, FailTask, TaskInv, Steps, broker
  <2>2. CASE ~ UniqueViolation(Conv(p), seq[p])
    BY <1>11, <2>2 DEF Insert, Steps, broker
  <2> QED
    BY <1>11, <2>1, <2>2 DEF Insert
<1>12. ASSUME NEW p \in Processes, Commit(p) PROVE TypeOK'
  <2>1. /\ task[p] \in Messages
        /\ msgID[p] \in Ids
        /\ seq[p] \in Nat
        /\ ConvOf[task[p]] \in Conversations
    BY <1>12 DEF Commit, TaskInv, InTransaction
  <2> QED
    BY <1>12, <2>1 DEF Commit, Steps, broker, Row, Conv
<1>13. ASSUME NEW p \in Processes, Return(p) PROVE TypeOK'
  <2>1. task[p] \in Messages
    BY <1>13 DEF Return, TaskInv
  <2>2. session' \in Seq(Messages)
    <3>1. CASE owner = p
      <4>1. session # << >>
        BY <1>13, <3>1 DEF Return, SessionInv
      <4>2. Tail(session) \in Seq(Messages)
        BY <4>1, HeadTailProperties
      <4> QED
        BY <1>13, <3>1, <4>2 DEF Return
    <3> QED
      BY <1>13, <3>1 DEF Return
  <2> QED
    <3>1. acked' \subseteq Messages
      BY <1>13, <2>1 DEF Return
    <3> QED
      BY <1>13, <2>2, <3>1 DEF Return, Release, Steps
<1>14. CASE UNCHANGED vars
  BY <1>14 DEF vars
<1> QED
  BY <1>1, <1>2, <1>3, <1>4, <1>5, <1>6, <1>7, <1>8, <1>9, <1>10, <1>11,
     <1>12, <1>13, <1>14 DEF Next, HandlerStep

-----------------------------------------------------------------------------
(* The handlers *)

LEMMA TaskStep ==
  ASSUME TypeOK, TaskInv, [Next]_vars
  PROVE  TaskInv'
<1> USE StoreAssumption DEF TypeOK, TaskInv, InTransaction
<1>1. ASSUME NEW m \in Messages, Publish(m) PROVE TaskInv'
  BY <1>1 DEF Publish
<1>2. CASE ConnectionLost
  BY <1>2 DEF ConnectionLost
<1>3. ASSUME NEW p \in Processes, Connect(p) \/ TakeOver(p) PROVE TaskInv'
  BY <1>3 DEF Connect, TakeOver
<1>4. ASSUME NEW p \in Processes, Crash(p) PROVE TaskInv'
  BY <1>4 DEF Crash, Release
<1>5. ASSUME NEW p \in Processes, Receive(p) PROVE TaskInv'
  <2>1. Head(session) \in Messages
    BY <1>5, HeadTailProperties DEF Receive
  <2> QED
    BY <1>5, <2>1 DEF Receive
<1>6. ASSUME NEW p \in Processes, Reject(p) \/ DatabaseError(p) PROVE TaskInv'
  BY <1>6 DEF Reject, DatabaseError, FailTask
<1>7. ASSUME NEW p \in Processes, BuildMessage(p) PROVE TaskInv'
  BY <1>7 DEF BuildMessage, Ids
<1>8. ASSUME NEW p \in Processes, AcquireLock(p) PROVE TaskInv'
  BY <1>8 DEF AcquireLock
<1>9. ASSUME NEW p \in Processes, CheckExists(p) PROVE TaskInv'
  BY <1>9 DEF CheckExists
<1>10. ASSUME NEW p \in Processes, ReadNextSeq(p) PROVE TaskInv'
  BY <1>10 DEF ReadNextSeq
<1>11. ASSUME NEW p \in Processes, Insert(p) PROVE TaskInv'
  BY <1>11 DEF Insert, FailTask
<1>12. ASSUME NEW p \in Processes, Commit(p) PROVE TaskInv'
  BY <1>12 DEF Commit
<1>13. ASSUME NEW p \in Processes, Return(p) PROVE TaskInv'
  BY <1>13 DEF Return, Release
<1>14. CASE UNCHANGED vars
  BY <1>14 DEF vars
<1> QED
  BY <1>1, <1>2, <1>3, <1>4, <1>5, <1>6, <1>7, <1>8, <1>9, <1>10, <1>11,
     <1>12, <1>13, <1>14 DEF Next, HandlerStep

LEMMA SessionStep ==
  ASSUME TypeOK, TaskInv, SessionInv, [Next]_vars
  PROVE  SessionInv'
<1> USE StoreAssumption DEF TypeOK, SessionInv
<1>1. ASSUME NEW m \in Messages, Publish(m) PROVE SessionInv'
  <2>1. Append(session, m) # << >>
    BY AppendProperties
  <2>3. Head(Append(session, m)) =
          IF session = << >> THEN m ELSE Head(session)
    BY HeadTailAppend, Zenon
  <2>2. session' = Append(session, m)
    BY <1>1 DEF Publish
  <2> QED
    BY <1>1, <2>1, <2>2, <2>3 DEF Publish
<1>2. CASE ConnectionLost
  BY <1>2 DEF ConnectionLost
<1>3. ASSUME NEW p \in Processes, Connect(p) \/ TakeOver(p) PROVE SessionInv'
  BY <1>3 DEF Connect, TakeOver
<1>4. ASSUME NEW p \in Processes, Crash(p) PROVE SessionInv'
  BY <1>4 DEF Crash, Release
<1>5. ASSUME NEW p \in Processes, Receive(p) PROVE SessionInv'
  BY <1>5 DEF Receive, broker
<1>6. ASSUME NEW p \in Processes, Reject(p) \/ DatabaseError(p) PROVE SessionInv'
  BY <1>6 DEF Reject, DatabaseError, FailTask, broker, InTransaction
<1>7. ASSUME NEW p \in Processes, BuildMessage(p) PROVE SessionInv'
  BY <1>7 DEF BuildMessage, broker
<1>8. ASSUME NEW p \in Processes, AcquireLock(p) PROVE SessionInv'
  BY <1>8 DEF AcquireLock, broker
<1>9. ASSUME NEW p \in Processes, CheckExists(p) PROVE SessionInv'
  BY <1>9 DEF CheckExists, broker
<1>10. ASSUME NEW p \in Processes, ReadNextSeq(p) PROVE SessionInv'
  BY <1>10 DEF ReadNextSeq, broker
<1>11. ASSUME NEW p \in Processes, Insert(p) PROVE SessionInv'
  BY <1>11 DEF Insert, FailTask, broker
<1>12. ASSUME NEW p \in Processes, Commit(p) PROVE SessionInv'
  BY <1>12 DEF Commit, broker
<1>13. ASSUME NEW p \in Processes, Return(p) PROVE SessionInv'
  BY <1>13 DEF Return, Release
<1>14. CASE UNCHANGED vars
  BY <1>14 DEF vars
<1> QED
  BY <1>1, <1>2, <1>3, <1>4, <1>5, <1>6, <1>7, <1>8, <1>9, <1>10, <1>11,
     <1>12, <1>13, <1>14 DEF Next, HandlerStep

-----------------------------------------------------------------------------
(* The lock *)

LEMMA LockStep ==
  ASSUME TypeOK, TaskInv, LockInv, [Next]_vars
  PROVE  LockInv'
<1> USE StoreAssumption DEF TypeOK, LockInv, InTransaction, Conv
<1>1. ASSUME NEW m \in Messages, Publish(m) PROVE LockInv'
  BY <1>1 DEF Publish
<1>2. CASE ConnectionLost
  BY <1>2 DEF ConnectionLost
<1>3. ASSUME NEW p \in Processes, Connect(p) \/ TakeOver(p) PROVE LockInv'
  BY <1>3 DEF Connect, TakeOver
<1>4. ASSUME NEW p \in Processes, Crash(p) PROVE LockInv'
  BY <1>4 DEF Crash, Release, TaskInv
<1>5. ASSUME NEW p \in Processes, Receive(p) PROVE LockInv'
  BY <1>5 DEF Receive
<1>6. ASSUME NEW p \in Processes, FailTask(p) PROVE LockInv'
  BY <1>6 DEF FailTask, TaskInv
<1>7. ASSUME NEW p \in Processes, BuildMessage(p) PROVE LockInv'
  BY <1>7 DEF BuildMessage
<1>8. ASSUME NEW p \in Processes, AcquireLock(p) PROVE LockInv'
  BY <1>8 DEF AcquireLock, TaskInv
<1>9. ASSUME NEW p \in Processes, CheckExists(p) PROVE LockInv'
  <2> SUFFICES ASSUME NEW q \in Processes, (pc[q] \in InTransaction)'
               PROVE  (lock[HashText[Conv(q)]] = q)'
    BY Zenon
  <2>1. pc[p] = "checking" /\ task' = task /\ lock[HashText[Conv(p)]] = p
    BY <1>9 DEF CheckExists
  <2>2. HashText[Conv(q)] \in LockKeys /\ HashText[Conv(p)] \in LockKeys
    <3>1. pc[q] # "idle" /\ pc[p] # "idle"
      BY <1>9 DEF CheckExists
    <3> QED
      BY <3>1 DEF TaskInv
  <2>3. pc[q] \in InTransaction /\ lock[HashText[Conv(q)]] = q
    BY <1>9 DEF CheckExists
  <2>4. CASE lock' = lock
    BY <2>1, <2>3, <2>4
  <2>5. CASE /\ pc' = [pc EXCEPT ![p] = "returning"]
             /\ lock' = [lock EXCEPT ![HashText[Conv(p)]] = None]
    <3>1. q # p
      BY <2>5
    <3>2. HashText[Conv(q)] # HashText[Conv(p)]
      BY <2>1, <2>3, <3>1, Zenon
    <3> QED
      BY <2>1, <2>2, <2>3, <2>5, <3>2
  <2> QED
    BY <1>9, <2>4, <2>5 DEF CheckExists
<1>10. ASSUME NEW p \in Processes, ReadNextSeq(p) PROVE LockInv'
  BY <1>10 DEF ReadNextSeq
<1>11. ASSUME NEW p \in Processes, Insert(p) PROVE LockInv'
  BY <1>6, <1>11 DEF Insert
<1>12. ASSUME NEW p \in Processes, Commit(p) PROVE LockInv'
  <2> SUFFICES ASSUME NEW q \in Processes, (pc[q] \in InTransaction)'
               PROVE  (lock[HashText[Conv(q)]] = q)'
    BY Zenon
  <2>1. /\ task' = task
        /\ pc[p] = "committing"
        /\ pc' = [pc EXCEPT ![p] = "returning"]
        /\ lock' = [lock EXCEPT ![HashText[Conv(p)]] = None]
    BY <1>12 DEF Commit
  <2>2. q # p /\ pc[q] \in InTransaction
    BY <2>1
  <2>3. lock[HashText[Conv(q)]] = q /\ lock[HashText[Conv(p)]] = p
    BY <2>1, <2>2
  <2>4. HashText[Conv(q)] # HashText[Conv(p)]
    BY <2>2, <2>3, Zenon
  <2>5. HashText[Conv(q)] \in LockKeys
    <3>1. pc[q] # "idle"
      BY <2>2
    <3> QED
      BY <3>1 DEF TaskInv
  <2> QED
    BY <2>1, <2>3, <2>4, <2>5
<1>13. ASSUME NEW p \in Processes, Return(p) PROVE LockInv'
  BY <1>13 DEF Return, Release
<1>14. CASE UNCHANGED vars
  BY <1>14 DEF vars
<1> QED
  BY <1>1, <1>2, <1>3, <1>4, <1>5, <1>6, <1>7, <1>8, <1>9, <1>10, <1>11,
     <1>12, <1>13, <1>14 DEF Next, HandlerStep, Reject, DatabaseError

-----------------------------------------------------------------------------
(* The rows *)

\* Two open transactions never belong to the same conversation.
LEMMA Exclusion ==
  ASSUME TypeOK, TaskInv, LockInv,
         NEW p \in Processes, NEW q \in Processes, p # q,
         pc[p] \in InTransaction, pc[q] \in InTransaction
  PROVE  Conv(p) # Conv(q)
  BY DEF LockInv

\* Everything said of the rows survives a step that leaves them alone, for the
\* transactions that go on and do not read.
LEMMA SameRows ==
  ASSUME RowInv, SeqGapFree, rows' = rows
  PROVE  RowInv' /\ SeqGapFree' /\ \A c : RowsOf(c)' = RowsOf(c)
<1>1. \A c : RowsOf(c)' = RowsOf(c)
  BY DEF RowsOf
<1>2. RowInv'
  BY DEF RowInv
<1>3. SeqGapFree'
  BY <1>1 DEF SeqGapFree
<1> QED
  BY <1>1, <1>2, <1>3

\* COMMIT: the new row is the next one of its conversation and its id is new.
LEMMA CommitRows ==
  ASSUME StoreInv, NEW p \in Processes, Commit(p)
  PROVE  /\ RowInv' /\ SeqGapFree'
         /\ \A c \in Conversations \ {Conv(p)} : RowsOf(c)' = RowsOf(c)
         /\ \A c : c = Conv(p) =>
              \E r : /\ r.conv = c /\ r.id = msgID[p]
                     /\ r.seq = Cardinality(RowsOf(c)) + 1
                     /\ RowsOf(c)' = RowsOf(c) \cup {r}
<1>0. PICK c0, n, new :
        /\ c0 = Conv(p)
        /\ n = Cardinality(RowsOf(c0))
        /\ new = [conv |-> c0, id |-> msgID[p], seq |-> seq[p], msg |-> task[p]]
  OBVIOUS
<1>1. /\ task[p] \in Messages /\ c0 \in Conversations
      /\ c0 = ConvOf[task[p]]
      /\ msgID[p][1] = task[p]
      /\ task[p] \in UuidMessages => msgID[p] = <<task[p], 0>>
      /\ ~ Exists(c0, msgID[p])
      /\ seq[p] = n + 1
  BY <1>0, StoreAssumption
     DEF StoreInv, Commit, TaskInv, ReadsInv, InTransaction, Conv
<1>a. /\ new.conv = c0 /\ new.id = msgID[p] /\ new.seq = n + 1
      /\ new.msg = task[p]
  BY <1>0, <1>1
<1>2. rows' = rows \cup {new}
  BY <1>0 DEF Commit
<1>3. IsFiniteSet(RowsOf(c0)) /\ n \in Nat
  BY <1>0, RowsOfFinite DEF StoreInv
<1>4. {r.seq : r \in RowsOf(c0)} = 1 .. n
  BY <1>0, <1>1 DEF StoreInv, SeqGapFree
<1>5. new \notin RowsOf(c0)
  BY <1>3, <1>4, <1>a
<1>6. RowsOf(c0)' = RowsOf(c0) \cup {new}
  BY <1>2, <1>a DEF RowsOf
<1>7. \A c \in Conversations \ {c0} : RowsOf(c)' = RowsOf(c)
  BY <1>2, <1>a DEF RowsOf
<1>8. RowInv'
  <2>1. IsFiniteSet(rows')
    BY <1>2, FS_AddElement DEF StoreInv, RowInv
  <2>2. \A r \in rows' :
          /\ r.conv = ConvOf[r.msg]
          /\ r.id[1] = r.msg
          /\ r.msg \in UuidMessages => r.id = <<r.msg, 0>>
    BY <1>1, <1>a, <1>2 DEF StoreInv, RowInv
  <2>3. \A r \in rows : r.conv = new.conv => r.id # new.id
    BY <1>1, <1>a DEF Exists, RowsOf
  <2>4. \A r, s \in rows' : r.conv = s.conv /\ r.id = s.id => r = s
    BY <1>2, <2>3 DEF StoreInv, RowInv
  <2>5. \A r \in rows : r.conv = new.conv => r.seq # new.seq
    BY <1>3, <1>4, <1>a DEF RowsOf
  <2>6. \A r, s \in rows' : r.conv = s.conv /\ r.seq = s.seq => r = s
    BY <1>2, <2>5 DEF StoreInv, RowInv
  <2> QED
    BY <2>1, <2>2, <2>4, <2>6 DEF RowInv
<1>9. SeqGapFree'
  <2>1. Cardinality(RowsOf(c0)') = n + 1
    <3>1. Cardinality(RowsOf(c0) \cup {new}) = Cardinality(RowsOf(c0)) + 1
      BY <1>3, <1>5, FS_AddElement
    <3> QED
      BY <1>0, <1>6, <3>1
  <2>2. {r.seq : r \in RowsOf(c0)'} = {r.seq : r \in RowsOf(c0)} \cup {n + 1}
    BY <1>a, <1>6
  <2>3. {r.seq : r \in RowsOf(c0)'} = 1 .. (n + 1)
    BY <1>3, <1>4, <2>2
  <2>4. \A c \in Conversations \ {c0} :
          {r.seq : r \in RowsOf(c)'} = 1 .. Cardinality(RowsOf(c)')
    BY <1>7 DEF StoreInv, SeqGapFree
  <2> QED
    BY <2>1, <2>3, <2>4 DEF SeqGapFree
<1> QED
  BY <1>0, <1>a, <1>6, <1>7, <1>8, <1>9

LEMMA OnlyCommitWrites ==
  ASSUME [Next]_vars
  PROVE  (\A p \in Processes : ~ Commit(p)) => rows' = rows
  BY DEF Next, HandlerStep, Publish, ConnectionLost, Connect, TakeOver, Crash,
         Receive, Reject, DatabaseError, FailTask, BuildMessage, AcquireLock,
         CheckExists, ReadNextSeq, Insert, Return, vars

\* The rows stay in order: only COMMIT touches them.
LEMMA RowsStep ==
  ASSUME StoreInv, [Next]_vars
  PROVE  RowInv' /\ SeqGapFree'
<1>1. ASSUME NEW p \in Processes, Commit(p) PROVE RowInv' /\ SeqGapFree'
  BY <1>1, CommitRows
<1>2. (\A p \in Processes : ~ Commit(p)) => rows' = rows
  BY OnlyCommitWrites
<1> QED
  BY <1>1, <1>2, SameRows DEF StoreInv

\* A step that leaves the rows and the frame of q alone, and does not move q
\* further into its transaction, leaves what q has read true.
LEMMA ReadsKept ==
  ASSUME StoreInv, rows' = rows, NEW q \in Processes,
         task'[q] = task[q], msgID'[q] = msgID[q], seq'[q] = seq[q],
         \/ pc'[q] = pc[q]
         \/ pc[q] = "inserting" /\ pc'[q] = "committing"
         \/ pc'[q] \notin {"numbering", "inserting", "committing"}
  PROVE  /\ pc'[q] \in {"numbering", "inserting", "committing"} =>
              ~ Exists(Conv(q), msgID[q])'
         /\ pc'[q] \in {"inserting", "committing"} =>
              seq'[q] = Cardinality(RowsOf(Conv(q)))' + 1
<1>1. Conv(q)' = Conv(q)
  BY DEF Conv
<1>2. RowsOf(Conv(q))' = RowsOf(Conv(q))
  BY <1>1 DEF RowsOf
<1>3. Exists(Conv(q), msgID[q])' <=> Exists(Conv(q), msgID[q])
  BY <1>2 DEF Exists
<1>4. Cardinality(RowsOf(Conv(q)))' = Cardinality(RowsOf(Conv(q)))
  BY <1>2
<1> QED
  BY <1>3, <1>4 DEF StoreInv, ReadsInv

LEMMA ReadsStep ==
  ASSUME StoreInv, [Next]_vars
  PROVE  ReadsInv'
<1> DEFINE Reads(q) ==
       /\ pc[q] \in {"numbering", "inserting", "committing"} =>
            ~ Exists(Conv(q), msgID[q])
       /\ pc[q] \in {"inserting", "committing"} =>
            seq[q] = Cardinality(RowsOf(Conv(q))) + 1
<1>0. SUFFICES ASSUME NEW q \in Processes PROVE Reads(q)'
  BY DEF ReadsInv
<1> USE DEF StoreInv, TypeOK
<1>1. ASSUME NEW m \in Messages, Publish(m) PROVE Reads(q)'
  BY <1>1, ReadsKept DEF Publish
<1>2. CASE ConnectionLost
  BY <1>2, ReadsKept DEF ConnectionLost
<1>3. ASSUME NEW p \in Processes, Connect(p) \/ TakeOver(p) PROVE Reads(q)'
  BY <1>3, ReadsKept DEF Connect, TakeOver
<1>4. ASSUME NEW p \in Processes, Crash(p) \/ Return(p) PROVE Reads(q)'
  <2>1. CASE p = q
    BY <1>4, <2>1 DEF Crash, Return, Release
  <2>2. CASE p # q
    BY <1>4, <2>2, ReadsKept DEF Crash, Return, Release
  <2> QED
    BY <2>1, <2>2
<1>5. ASSUME NEW p \in Processes, Receive(p) PROVE Reads(q)'
  <2>1. CASE p = q
    BY <1>5, <2>1 DEF Receive
  <2>2. CASE p # q
    BY <1>5, <2>2, ReadsKept DEF Receive
  <2> QED
    BY <2>1, <2>2
<1>6. ASSUME NEW p \in Processes, FailTask(p) PROVE Reads(q)'
  BY <1>6, ReadsKept DEF FailTask
<1>7. ASSUME NEW p \in Processes, BuildMessage(p) PROVE Reads(q)'
  <2>1. CASE p = q
    BY <1>7, <2>1 DEF BuildMessage
  <2>2. CASE p # q
    BY <1>7, <2>2, ReadsKept DEF BuildMessage
  <2> QED
    BY <2>1, <2>2
<1>8. ASSUME NEW p \in Processes, AcquireLock(p) PROVE Reads(q)'
  BY <1>8, ReadsKept DEF AcquireLock
<1>9. ASSUME NEW p \in Processes, CheckExists(p) PROVE Reads(q)'
  <2>1. CASE p = q /\ ~ Exists(Conv(p), msgID[p])
    <3>1. Conv(q)' = Conv(q) /\ msgID' = msgID /\ pc'[q] = "numbering"
      BY <1>9, <2>1 DEF CheckExists, Conv
    <3>2. ~ Exists(Conv(q), msgID[q])'
      BY <1>9, <2>1, <3>1 DEF CheckExists, Exists, RowsOf
    <3> QED
      BY <3>1, <3>2
  <2>2. CASE p = q /\ Exists(Conv(p), msgID[p])
    BY <1>9, <2>2 DEF CheckExists
  <2>3. CASE p # q
    BY <1>9, <2>3, ReadsKept DEF CheckExists
  <2> QED
    BY <2>1, <2>2, <2>3
<1>10. ASSUME NEW p \in Processes, ReadNextSeq(p) PROVE Reads(q)'
  <2>1. CASE p = q
    <3>1. Conv(q) \in Conversations
      BY <1>10, <2>1, StoreAssumption DEF ReadNextSeq, TaskInv, Conv
    <3>2. NextSeq(Conv(q)) = Cardinality(RowsOf(Conv(q))) + 1
      BY <3>1, NextSeqValue
    <3>3. /\ Conv(q)' = Conv(q) /\ msgID'[q] = msgID[q] /\ rows' = rows
          /\ seq'[q] = NextSeq(Conv(q))
      BY <1>10, <2>1 DEF ReadNextSeq, Conv
    <3>4. ~ Exists(Conv(q), msgID[q])
      BY <1>10, <2>1 DEF ReadNextSeq, ReadsInv
    <3>5. RowsOf(Conv(q))' = RowsOf(Conv(q))
      BY <3>3 DEF RowsOf
    <3>6. ~ Exists(Conv(q), msgID[q])'
      BY <3>3, <3>4, <3>5 DEF Exists
    <3> QED
      BY <3>2, <3>3, <3>5, <3>6
  <2>2. CASE p # q
    BY <1>10, <2>2, ReadsKept DEF ReadNextSeq
  <2> QED
    BY <2>1, <2>2
<1>11. ASSUME NEW p \in Processes, Insert(p) PROVE Reads(q)'
  BY <1>6, <1>11, ReadsKept DEF Insert
<1>12. ASSUME NEW p \in Processes, Commit(p) PROVE Reads(q)'
  <2>1. CASE pc'[q] \notin {"numbering", "inserting", "committing"}
    BY <2>1
  <2>2. CASE pc'[q] \in {"numbering", "inserting", "committing"}
    <3>1. p # q /\ pc[q] = pc'[q]
      BY <1>12, <2>2 DEF Commit
    <3>2. Conv(q) # Conv(p) /\ Conv(q) \in Conversations
      <4>1. pc[p] \in InTransaction /\ pc[q] \in InTransaction
        BY <1>12, <2>2, <3>1 DEF Commit, InTransaction
      <4>2. Conv(q) \in Conversations
        BY <4>1, StoreAssumption DEF InTransaction, TaskInv, Conv
      <4> QED
        BY <3>1, <4>1, <4>2, Exclusion
    <3>3. /\ Conv(q)' = Conv(q) /\ msgID'[q] = msgID[q] /\ seq'[q] = seq[q]
      BY <1>12 DEF Commit, Conv
    <3>4. PICK c \in Conversations : c = Conv(q)
      BY <3>2
    <3>5. RowsOf(c)' = RowsOf(c)
      BY <1>12, <3>2, <3>4, CommitRows
    <3>6. RowsOf(Conv(q))' = RowsOf(Conv(q))
      BY <3>3, <3>4, <3>5 DEF RowsOf
    <3>7. Exists(Conv(q), msgID[q])' <=> Exists(Conv(q), msgID[q])
      BY <3>3, <3>6 DEF Exists
    <3> QED
      BY <3>1, <3>3, <3>6, <3>7 DEF ReadsInv
  <2> QED
    BY <2>1, <2>2
<1>14. CASE UNCHANGED vars
  BY <1>14, ReadsKept DEF vars
<1> QED
  BY <1>1, <1>2, <1>3, <1>4, <1>5, <1>6, <1>7, <1>8, <1>9, <1>10, <1>11,
     <1>12, <1>14 DEF Next, HandlerStep, Reject, DatabaseError

-----------------------------------------------------------------------------
(* The acknowledgements *)

LEMMA ReturnStep ==
  ASSUME StoreInv, [Next]_vars
  PROVE  ReturnInv' /\ AckedIsStored'
<1> DEFINE Settled(m) == m \in dropped \/ \E r \in rows : r.msg = m
<1> USE DEF StoreInv, TypeOK, ReturnInv, AckedIsStored
<1>1. ASSUME NEW m \in Messages, Publish(m) PROVE ReturnInv' /\ AckedIsStored'
  BY <1>1 DEF Publish
<1>2. CASE ConnectionLost
  BY <1>2 DEF ConnectionLost
<1>3. ASSUME NEW p \in Processes, Connect(p) \/ TakeOver(p)
      PROVE  ReturnInv' /\ AckedIsStored'
  BY <1>3 DEF Connect, TakeOver
<1>4. ASSUME NEW p \in Processes, Crash(p) PROVE ReturnInv' /\ AckedIsStored'
  BY <1>4 DEF Crash, Release
<1>5. ASSUME NEW p \in Processes, Receive(p) PROVE ReturnInv' /\ AckedIsStored'
  BY <1>5 DEF Receive
<1>6. ASSUME NEW p \in Processes, FailTask(p) PROVE ReturnInv' /\ AckedIsStored'
  BY <1>6 DEF FailTask
<1>7. ASSUME NEW p \in Processes,
             BuildMessage(p) \/ AcquireLock(p) \/ ReadNextSeq(p)
      PROVE  ReturnInv' /\ AckedIsStored'
  BY <1>7 DEF BuildMessage, AcquireLock, ReadNextSeq
<1>9. ASSUME NEW p \in Processes, CheckExists(p)
      PROVE  ReturnInv' /\ AckedIsStored'
  <2>1. ASSUME Exists(Conv(p), msgID[p]) PROVE \E r \in rows : r.msg = task[p]
    <3>1. PICK r \in rows : r.id = msgID[p]
      BY <2>1 DEF Exists, RowsOf
    <3>2. r.id[1] = r.msg /\ msgID[p][1] = task[p]
      BY <1>9, <3>1 DEF CheckExists, RowInv, TaskInv, InTransaction
    <3> QED
      BY <3>1, <3>2
  <2> QED
    BY <1>9, <2>1 DEF CheckExists
<1>11. ASSUME NEW p \in Processes, Insert(p) PROVE ReturnInv' /\ AckedIsStored'
  BY <1>6, <1>11 DEF Insert
<1>12. ASSUME NEW p \in Processes, Commit(p) PROVE ReturnInv' /\ AckedIsStored'
  <2>1. \E r \in rows' : r.msg = task[p]
    <3>1. PICK new : new = [conv |-> Conv(p), id |-> msgID[p], seq |-> seq[p],
                            msg |-> task[p]]
      OBVIOUS
    <3>2. new \in rows' /\ new.msg = task[p]
      BY <1>12, <3>1 DEF Commit
    <3> QED
      BY <3>2
  <2>2. rows \subseteq rows'
    BY <1>12 DEF Commit
  <2> QED
    BY <1>12, <2>1, <2>2 DEF Commit
<1>13. ASSUME NEW p \in Processes, Return(p) PROVE ReturnInv' /\ AckedIsStored'
  BY <1>13 DEF Return, Release
<1>14. CASE UNCHANGED vars
  BY <1>14 DEF vars
<1> QED
  BY <1>1, <1>2, <1>3, <1>4, <1>5, <1>6, <1>7, <1>9, <1>11, <1>12, <1>13,
     <1>14 DEF Next, HandlerStep, Reject, DatabaseError

-----------------------------------------------------------------------------
(* The theorems *)

LEMMA StoreInvInit == Init => StoreInv
<1> SUFFICES ASSUME Init PROVE StoreInv
  OBVIOUS
<1>1. TypeOK
  BY TypeInit
<1>2. TaskInv /\ SessionInv /\ LockInv /\ ReadsInv /\ ReturnInv /\ AckedIsStored
  BY DEF Init, TaskInv, SessionInv, LockInv, ReadsInv, ReturnInv,
         AckedIsStored, InTransaction
<1>3. RowInv
  BY FS_EmptySet DEF Init, RowInv
<1>4. \A c : RowsOf(c) = {}
  BY DEF Init, RowsOf
<1>5. SeqGapFree
  BY <1>4, FS_EmptySet DEF SeqGapFree
<1> QED
  BY <1>1, <1>2, <1>3, <1>5 DEF StoreInv

LEMMA StoreInvStep == StoreInv /\ [Next]_vars => StoreInv'
<1> SUFFICES ASSUME StoreInv, [Next]_vars PROVE StoreInv'
  OBVIOUS
<1>1. TypeOK' /\ TaskInv' /\ SessionInv' /\ LockInv'
  BY TypeStep, TaskStep, SessionStep, LockStep DEF StoreInv
<1>2. RowInv' /\ SeqGapFree' /\ ReadsInv'
  BY RowsStep, ReadsStep
<1>3. ReturnInv' /\ AckedIsStored'
  BY ReturnStep
<1> QED
  BY <1>1, <1>2, <1>3 DEF StoreInv

\* The strengthening holds throughout every behaviour of the backend.
THEOREM StoreInvariant == Spec => []StoreInv
  BY StoreInvInit, StoreInvStep, PTL DEF Spec

\* Type correctness of the persistence path (HandleIncomingMessage and
\* CreateWithNextSeq) for any number of processes and conversations.
THEOREM TypeCorrect == Spec => []TypeOK
<1>1. StoreInv => TypeOK
  BY DEF StoreInv
<1> QED
  BY <1>1, StoreInvariant, PTL

\* CreateWithNextSeq numbers every conversation 1, 2, ... without a gap or a
\* repetition, whatever the processes, crashes, errors and hash collisions.
THEOREM SeqGapFreeAlways == Spec => []SeqGapFree
<1>1. StoreInv => SeqGapFree
  BY DEF StoreInv
<1> QED
  BY <1>1, StoreInvariant, PTL

\* Redelivery never stores a payload with a proper message id twice: the id
\* check of CreateWithNextSeq is made under the conversation's lock.
THEOREM StoredOnceAlways == Spec => []StoredOnce
<1>1. StoreInv => StoredOnce
  <2> SUFFICES ASSUME StoreInv, NEW r \in rows, NEW s \in rows,
                      r.msg = s.msg, r.msg \in UuidMessages
               PROVE  r = s
    BY DEF StoredOnce
  <2>1. r.id = s.id /\ r.conv = s.conv
    BY DEF StoreInv, RowInv
  <2> QED
    BY <2>1 DEF StoreInv, RowInv
<1> QED
  BY <1>1, StoreInvariant, PTL

\* What handleMessage lets the broker forget is stored or was reported as an
\* error.
THEOREM AckedIsStoredAlways == Spec => []AckedIsStored
<1>1. StoreInv => AckedIsStored
  BY DEF StoreInv
<1> QED
  BY <1>1, StoreInvariant, PTL

-----------------------------------------------------------------------------
(* The backend implements the abstract log *)

\* Log[c] is a sequence of ids as long as the conversation has rows, and its
\* entry n is the id of the row numbered n.
LEMMA LogIsSeq ==
  ASSUME StoreInv, NEW c \in Conversations
  PROVE  /\ Log[c] \in Seq(Ids)
         /\ Len(Log[c]) = Cardinality(RowsOf(c))
         /\ DOMAIN Log[c] = 1 .. Cardinality(RowsOf(c))
         /\ \A r \in RowsOf(c) : Log[c][r.seq] = r.id
<1>0. PICK n : n = Cardinality(RowsOf(c))
  OBVIOUS
<1>1. n \in Nat /\ {r.seq : r \in RowsOf(c)} = 1 .. n
  BY <1>0, RowsOfFinite DEF StoreInv, SeqGapFree
<1>2. Log[c] = [k \in 1 .. n |-> (CHOOSE r \in RowsOf(c) : r.seq = k).id]
  BY <1>1 DEF Log
<1>3. \A r \in RowsOf(c) : (CHOOSE s \in RowsOf(c) : s.seq = r.seq) = r
  BY DEF StoreInv, RowInv, RowsOf
<1>4. \A r \in RowsOf(c) : r.seq \in 1 .. n /\ Log[c][r.seq] = r.id
  <2> SUFFICES ASSUME NEW r \in RowsOf(c)
               PROVE  r.seq \in 1 .. n /\ Log[c][r.seq] = r.id
    OBVIOUS
  <2>1. r.seq \in 1 .. n
    BY <1>1
  <2>2. Log[c][r.seq] = (CHOOSE s \in RowsOf(c) : s.seq = r.seq).id
    BY <1>2, <2>1
  <2> QED
    BY <1>3, <2>1, <2>2, Zenon
<1>5. \A k \in 1 .. n : \E r \in RowsOf(c) : r.seq = k
  BY <1>1
<1>6. \A r \in RowsOf(c) : r.id \in Ids
  BY DEF StoreInv, TypeOK, RowsOf, Row
<1>7. \A k \in 1 .. n : Log[c][k] \in Ids
  BY <1>4, <1>5, <1>6
<1>8. Log[c] \in [1 .. n -> Ids]
  BY <1>2, <1>7
<1> QED
  BY <1>0, <1>1, <1>4, <1>8

LogShape ==
  \A c \in Conversations :
    /\ Log[c] \in Seq(Ids)
    /\ DOMAIN Log[c] = 1 .. Cardinality(RowsOf(c))
    /\ \A r \in RowsOf(c) : Log[c][r.seq] = r.id

LEMMA LogShapeHolds == StoreInv => LogShape
  BY LogIsSeq DEF LogShape

LEMMA LogShapeNext == StoreInv' => LogShape'
  BY LogShapeHolds, PTL

\* A COMMIT appends one new id to the log of its conversation.
LEMMA CommitAppends ==
  ASSUME StoreInv, StoreInv', NEW p \in Processes, Commit(p)
  PROVE  Abstract!Next
<1>0. PICK c, id : c = Conv(p) /\ id = msgID[p]
  OBVIOUS
<1>1. c \in Conversations /\ id \in Ids /\ ~ Exists(c, id)
  BY <1>0, StoreAssumption
     DEF StoreInv, Commit, TaskInv, ReadsInv, InTransaction, Conv
<1>2. PICK n : n = Cardinality(RowsOf(c))
  OBVIOUS
<1>3. PICK new : /\ new.conv = c /\ new.id = id /\ new.seq = n + 1
                 /\ RowsOf(c)' = RowsOf(c) \cup {new}
  BY <1>0, <1>2, CommitRows
<1>4. /\ Log[c] \in Seq(Ids) /\ Len(Log[c]) = n /\ DOMAIN Log[c] = 1 .. n
      /\ \A r \in RowsOf(c) : Log[c][r.seq] = r.id
  BY <1>1, <1>2, LogIsSeq
<1>5. /\ n \in Nat
      /\ \A k \in 1 .. n : \E r \in RowsOf(c) : r.seq = k
  BY <1>1, <1>2, RowsOfFinite DEF StoreInv, SeqGapFree
<1>6. /\ DOMAIN Log'[c] = 1 .. (n + 1)
      /\ \A r \in RowsOf(c) \cup {new} : Log'[c][r.seq] = r.id
      /\ Log'[c] \in Seq(Ids)
  <2>1. LogShape'
    BY LogShapeNext
  <2>2. /\ Log'[c] \in Seq(Ids)
        /\ DOMAIN Log'[c] = 1 .. Cardinality(RowsOf(c)')
        /\ \A r \in RowsOf(c)' : Log'[c][r.seq] = r.id
    BY <1>1, <2>1 DEF LogShape
  <2>3. Cardinality(RowsOf(c)') = n + 1
    <3>1. new \notin RowsOf(c)
      BY <1>1, <1>2, <1>3, <1>5 DEF StoreInv, SeqGapFree
    <3>2. IsFiniteSet(RowsOf(c))
      BY RowsOfFinite DEF StoreInv
    <3>3. Cardinality(RowsOf(c) \cup {new}) = Cardinality(RowsOf(c)) + 1
      BY <3>1, <3>2, FS_AddElement
    <3> QED
      BY <1>2, <1>3, <3>3
  <2> QED
    BY <1>3, <2>2, <2>3
<1>7. Log'[c] = Append(Log[c], id)
  <2>1. \A k \in 1 .. n : Log'[c][k] = Log[c][k]
    BY <1>4, <1>5, <1>6
  <2>2. Log'[c][n + 1] = id
    BY <1>3, <1>6
  <2>3. /\ Append(Log[c], id) \in Seq(Ids)
        /\ Len(Append(Log[c], id)) = n + 1
        /\ \A k \in 1 .. n : Append(Log[c], id)[k] = Log[c][k]
        /\ Append(Log[c], id)[n + 1] = id
    BY <1>1, <1>4, AppendProperties
  <2>4. Len(Log'[c]) = n + 1
    BY <1>5, <1>6, LenProperties
  <2>5. \A k \in 1 .. (n + 1) : Log'[c][k] = Append(Log[c], id)[k]
    BY <1>5, <2>1, <2>2, <2>3
  <2> QED
    BY <1>6, <2>3, <2>4, <2>5, SeqEqual
<1>8. \A d \in Conversations \ {c} : Log'[d] = Log[d]
  <2> SUFFICES ASSUME NEW d \in Conversations \ {c} PROVE Log'[d] = Log[d]
    OBVIOUS
  <2>1. RowsOf(d)' = RowsOf(d)
    BY <1>0, CommitRows
  <2> QED
    BY <2>1 DEF Log
<1>9. Log' = [Log EXCEPT ![c] = Append(Log[c], id)]
  BY <1>1, <1>7, <1>8 DEF Log
<1>10. ~ Abstract!Holds(c, id)
  BY <1>1, <1>4, <1>5 DEF Abstract!Holds, Exists
<1> QED
  BY <1>1, <1>9, <1>10 DEF Abstract!Next, Abstract!Append1

\* Every behaviour of the backend is one of the append-only, deduplicated log
\* that the history queries promise.
THEOREM StoreImplementsLog == Spec => ImplementsLog
<1>1. Init => Abstract!Init
  <2> SUFFICES ASSUME Init PROVE Abstract!Init
    OBVIOUS
  <2>1. \A c : RowsOf(c) = {}
    BY DEF Init, RowsOf
  <2>2. \A c \in Conversations : Log[c] = << >>
    BY <2>1 DEF Log
  <2> QED
    BY <2>2 DEF Abstract!Init, Log
<1>2. StoreInv /\ StoreInv' /\ [Next]_vars => [Abstract!Next]_Log
  <2> SUFFICES ASSUME StoreInv, StoreInv', [Next]_vars
               PROVE  [Abstract!Next]_Log
    OBVIOUS
  <2>1. ASSUME NEW p \in Processes, Commit(p) PROVE Abstract!Next
    BY <2>1, CommitAppends
  <2>2. (\A p \in Processes : ~ Commit(p)) => rows' = rows
    BY OnlyCommitWrites
  <2>3. rows' = rows => Log' = Log
    BY DEF Log, RowsOf
  <2> QED
    BY <2>1, <2>2, <2>3
<1> QED
  BY <1>1, <1>2, StoreInvariant, PTL DEF Spec, ImplementsLog, Abstract!Spec

-----------------------------------------------------------------------------
(* Pages *)

\* A set of numbers up to n that is not empty has a least and a greatest one.
LEMMA EndsExist ==
  ASSUME NEW n \in Nat, NEW T, T \subseteq 1 .. n, T # {}
  PROVE  (\E m \in T : \A k \in T : m <= k) /\ (\E m \in T : \A k \in T : m >= k)
<1>1. ASSUME NEW S, S \subseteq Nat, S # {} PROVE \E m \in S : \A k \in S : m <= k
  <2>1. \E m \in S : \A k \in S : ~ (<<k, m>> \in OpToRel(<, Nat))
    BY <1>1, WFMin, NatLessThanWellFounded
  <2>2. \A m, k \in Nat : ~ (<<k, m>> \in OpToRel(<, Nat)) => m <= k
    BY DEF OpToRel
  <2> QED
    BY <1>1, <2>1, <2>2
<1> DEFINE mirrored == {n - k : k \in T}
<1>2. mirrored \subseteq Nat /\ mirrored # {}
  <2>1. \A k \in T : n - k \in Nat
    OBVIOUS
  <2> QED
    BY <2>1
<1>3. PICK d \in mirrored : \A e \in mirrored : d <= e
  <2> HIDE DEF mirrored
  <2> QED
    BY <1>1, <1>2
<1>4. PICK m \in T : d = n - m
  OBVIOUS
<1>5. ASSUME NEW k \in T PROVE m >= k
  <2>1. n - m <= n - k
    BY <1>3, <1>4
  <2> QED
    BY <2>1
<1>6. T \subseteq Nat
  OBVIOUS
<1> QED
  BY <1>1, <1>5, <1>6

-----------------------------------------------------------------------------
(* Rows and pages *)

\* Every number up to the count of rows is the seq of one row, and no other is.
LEMMA Numbered ==
  ASSUME StoreInv, NEW c \in Conversations
  PROVE  LET n == Cardinality(RowsOf(c)) IN
         /\ n \in Nat /\ IsFiniteSet(RowsOf(c))
         /\ \A r \in RowsOf(c) : r.seq \in 1 .. n
         /\ \A k \in 1 .. n : \E r \in RowsOf(c) : r.seq = k
         /\ \A r, s \in RowsOf(c) : r.seq = s.seq => r = s
<1>1. Cardinality(RowsOf(c)) \in Nat /\ IsFiniteSet(RowsOf(c))
  BY RowsOfFinite DEF StoreInv
<1>2. {r.seq : r \in RowsOf(c)} = 1 .. Cardinality(RowsOf(c))
  BY DEF StoreInv, SeqGapFree
<1>3. \A r, s \in RowsOf(c) : r.seq = s.seq => r = s
  BY DEF StoreInv, RowInv, RowsOf
<1> QED
  BY <1>1, <1>2, <1>3

\* A page of the lowest (highest) seqs has, with a row, every lower (higher) one.
LEMMA PageClosed ==
  ASSUME NEW S, IsFiniteSet(S), \A s \in S : s.seq \in Nat,
         NEW n \in Nat, NEW r \in S, NEW q \in S
  PROVE  /\ r \in LowestSeqs(S, n) /\ q.seq < r.seq => q \in LowestSeqs(S, n)
         /\ r \in HighestSeqs(S, n) /\ q.seq > r.seq => q \in HighestSeqs(S, n)
<1> DEFINE Lower(x) == {p \in S : p.seq < x.seq}
           Higher(x) == {p \in S : p.seq > x.seq}
<1>1. \A x \in S : /\ IsFiniteSet(Lower(x)) /\ Cardinality(Lower(x)) \in Nat
                   /\ IsFiniteSet(Higher(x)) /\ Cardinality(Higher(x)) \in Nat
  <2>1. ASSUME NEW x \in S
        PROVE  IsFiniteSet(Lower(x)) /\ IsFiniteSet(Higher(x))
    <3>1. Lower(x) \in SUBSET S /\ Higher(x) \in SUBSET S
      OBVIOUS
    <3> QED
      BY <3>1, FS_Subset
  <2> QED
    BY <2>1, FS_CardinalityType
<1>2. q.seq < r.seq => Cardinality(Lower(q)) <= Cardinality(Lower(r))
  <2>1. q.seq < r.seq => Lower(q) \in SUBSET Lower(r)
    OBVIOUS
  <2> HIDE DEF Lower, Higher
  <2> QED
    BY <1>1, <2>1, FS_Subset
<1>3. q.seq > r.seq => Cardinality(Higher(q)) <= Cardinality(Higher(r))
  <2>1. q.seq > r.seq => Higher(q) \in SUBSET Higher(r)
    OBVIOUS
  <2> HIDE DEF Lower, Higher
  <2> QED
    BY <1>1, <2>1, FS_Subset
<1>4. \A x \in S : /\ x \in LowestSeqs(S, n) <=> Cardinality(Lower(x)) < n
                   /\ x \in HighestSeqs(S, n) <=> Cardinality(Higher(x)) < n
  BY DEF LowestSeqs, HighestSeqs
<1> HIDE DEF Lower, Higher
<1> QED
  BY <1>1, <1>2, <1>3, <1>4

\* What Keep makes of rows without a gap: the interval between the new cursors.
Convex(c, A) ==
  \A a, b \in A : \A r \in RowsOf(c) : a.seq <= r.seq /\ r.seq <= b.seq => r \in A

LEMMA ConvexIsInterval ==
  ASSUME StoreInv, NEW c \in Conversations,
         NEW A, A \subseteq RowsOf(c), A # {}, Convex(c, A)
  PROVE  LET seqs == {a.seq : a \in A} IN
         /\ Least(seqs) \in 1 .. Cardinality(RowsOf(c))
         /\ Greatest(seqs) \in 1 .. Cardinality(RowsOf(c))
         /\ Least(seqs) <= Greatest(seqs)
         /\ A = {r \in RowsOf(c) : Least(seqs) <= r.seq /\ r.seq <= Greatest(seqs)}
<1> DEFINE seqs == {a.seq : a \in A}
           n == Cardinality(RowsOf(c))
<1>1. /\ n \in Nat /\ seqs \subseteq 1 .. n /\ seqs # {}
      /\ \A r \in RowsOf(c) : r.seq \in 1 .. n
  BY Numbered
<1>2. (\E m \in seqs : \A k \in seqs : m <= k) /\ (\E m \in seqs : \A k \in seqs : m >= k)
  <2> HIDE DEF seqs, n
  <2> QED
    BY <1>1, EndsExist
<1>4. /\ Greatest(seqs) \in seqs /\ \A k \in seqs : Greatest(seqs) >= k
      /\ Least(seqs) \in seqs /\ \A k \in seqs : Least(seqs) <= k
  <2> HIDE DEF seqs
  <2> QED
    BY <1>2 DEF Greatest, Least
<1>5. \E a, b \in A : a.seq = Least(seqs) /\ b.seq = Greatest(seqs)
  BY <1>4
<1>6. A = {r \in RowsOf(c) : Least(seqs) <= r.seq /\ r.seq <= Greatest(seqs)}
  BY <1>4, <1>5 DEF Convex
<1> QED
  BY <1>1, <1>4, <1>6

-----------------------------------------------------------------------------
(* The reader *)

\* The client holds the rows from oldest to newest, or nothing yet.
Within ==
  LET n == Cardinality(RowsOf(conversation)) IN
  /\ oldest \in 1 .. n /\ newest \in 1 .. n /\ oldest <= newest
  /\ got = {r \in RowsOf(conversation) : oldest <= r.seq /\ r.seq <= newest}

Nothing == got = {} /\ oldest = 0 /\ newest = 0

ReaderInv ==
  /\ conversation \in Conversations \cup {None}
  /\ Nothing \/ (conversation # None /\ Within)

\* An interval and a page next to it are an interval.
LEMMA KeepStep ==
  ASSUME StoreInv, UNCHANGED vars, conversation' \in Conversations,
         NEW page, Keep(page), got \cup page \subseteq RowsOf(conversation'),
         Convex(conversation', got \cup page)
  PROVE  ReaderInv'
<1> DEFINE A == got \cup page
           c == conversation'
           seqs == {r.seq : r \in A}
<1>1. \A d : RowsOf(d)' = RowsOf(d)
  BY DEF vars, RowsOf
<1>2. /\ got' = A
      /\ oldest' = IF seqs = {} THEN 0 ELSE Least(seqs)
      /\ newest' = IF seqs = {} THEN 0 ELSE Greatest(seqs)
  BY DEF Keep
<1>3. CASE A = {}
  <2>1. Nothing'
    BY <1>2, <1>3 DEF Nothing
  <2> QED
    BY <2>1 DEF ReaderInv
<1>4. CASE A # {}
  <2>1. seqs # {}
    BY <1>4
  <2>2. /\ Least(seqs) \in 1 .. Cardinality(RowsOf(c))
        /\ Greatest(seqs) \in 1 .. Cardinality(RowsOf(c))
        /\ Least(seqs) <= Greatest(seqs)
        /\ A = {r \in RowsOf(c) : Least(seqs) <= r.seq /\ r.seq <= Greatest(seqs)}
    <3> HIDE DEF A, c
    <3>1. c \in Conversations /\ A \subseteq RowsOf(c) /\ Convex(c, A)
      BY DEF A, c
    <3> QED
      BY <1>4, <3>1, ConvexIsInterval
  <2>3. Within'
    <3>1. RowsOf(conversation)' = RowsOf(c)
      BY <1>1 DEF RowsOf, vars
    <3> HIDE DEF A, seqs
    <3> QED
      BY <1>2, <2>1, <2>2, <3>1 DEF Within
  <2>4. conversation' # None
    BY LimitAssumption
  <2> QED
    BY <2>3, <2>4 DEF ReaderInv
<1> QED
  BY <1>3, <1>4

\* What a page is taken from.
LEMMA PageSource ==
  ASSUME StoreInv, NEW c \in Conversations, NEW S, S \subseteq RowsOf(c)
  PROVE  IsFiniteSet(S) /\ \A s \in S : s.seq \in Nat
<1>1. IsFiniteSet(RowsOf(c)) /\ Cardinality(RowsOf(c)) \in Nat
      /\ \A r \in RowsOf(c) : r.seq \in 1 .. Cardinality(RowsOf(c))
  BY Numbered
<1>2. IsFiniteSet(S)
  BY <1>1, FS_Subset
<1> QED
  BY <1>1, <1>2

\* The two queries, with the cursors the client sends.
LEMMA Pages ==
  ASSUME NEW c, NEW k \in Nat
  PROVE  /\ LoadMessages(c, 0, 0) = HighestSeqs(RowsOf(c), Limit)
         /\ k > 0 => LoadMessages(c, 0, k) =
                       LowestSeqs({r \in RowsOf(c) : r.seq > k}, Limit)
         /\ k > 0 => LoadMessages(c, k, 0) =
                       HighestSeqs({r \in RowsOf(c) : r.seq < k}, Limit)
<1>1. {r \in RowsOf(c) : 0 > 0 => r.seq < 0} = RowsOf(c)
  OBVIOUS
<1>2. k > 0 => {r \in RowsOf(c) : k > 0 => r.seq > k} = {r \in RowsOf(c) : r.seq > k}
  OBVIOUS
<1>3. k > 0 => {r \in RowsOf(c) : k > 0 => r.seq < k} = {r \in RowsOf(c) : r.seq < k}
  OBVIOUS
<1>4. LoadMessages(c, 0, 0) = HighestSeqs(RowsOf(c), Limit)
  BY <1>1 DEF LoadMessages, GetByConversationID
<1>5. k > 0 => LoadMessages(c, 0, k) =
                 LowestSeqs({r \in RowsOf(c) : r.seq > k}, Limit)
  BY <1>2 DEF LoadMessages, GetByConversationIDAfterSeq
<1>6. k > 0 => LoadMessages(c, k, 0) =
                 HighestSeqs({r \in RowsOf(c) : r.seq < k}, Limit)
  BY <1>3 DEF LoadMessages, GetByConversationID
<1> QED
  BY <1>4, <1>5, <1>6

\* The latest page of a conversation that has just been opened.
LEMMA OpenStep ==
  ASSUME StoreInv, ReaderInv, UNCHANGED vars, NEW c \in Conversations, Open(c)
  PROVE  ReaderInv'
<1> DEFINE page == HighestSeqs(RowsOf(c), Limit)
<1>1. got = {} /\ conversation' = c /\ Keep(page)
  BY Pages DEF Open, ReaderInv, Nothing
<1>2. page \subseteq RowsOf(c)
  BY DEF HighestSeqs
<1>3. Convex(c, page)
  <2> SUFFICES ASSUME NEW a \in page, NEW b \in page, NEW r \in RowsOf(c),
                      a.seq <= r.seq, r.seq <= b.seq
               PROVE  r \in page
    BY DEF Convex
  <2>1. a \in RowsOf(c) /\ a.seq \in Nat /\ r.seq \in Nat
    BY <1>2, PageSource
  <2>2. CASE a.seq = r.seq
    BY <2>1, <2>2, Numbered
  <2>3. CASE r.seq > a.seq
    BY <2>1, <2>3, PageSource, PageClosed, LimitAssumption
  <2> QED
    BY <2>1, <2>2, <2>3
<1>4. got \cup page = page
  BY <1>1
<1> HIDE DEF page
<1> QED
  BY <1>1, <1>2, <1>3, <1>4, KeepStep

\* after_seq: the page joins what the client has at its upper end.
LEMMA CatchUpStep ==
  ASSUME StoreInv, ReaderInv, UNCHANGED vars, CatchUp
  PROVE  ReaderInv' /\ UNCHANGED conversation
<1> DEFINE c == conversation
           S == {r \in RowsOf(c) : r.seq > newest}
           page == LowestSeqs(S, Limit)
<1>1. c \in Conversations /\ Within /\ conversation' = c
  BY DEF CatchUp, ReaderInv, Nothing
<1>2. newest \in Nat /\ oldest \in Nat /\ oldest <= newest /\ newest > 0
  BY <1>1, Numbered DEF Within, CatchUp
<1>3. Keep(page)
  BY <1>2, Pages DEF CatchUp
<1>4. page \subseteq S /\ got \subseteq RowsOf(c)
  BY <1>1 DEF LowestSeqs, Within
<1>5. Convex(c, got \cup page)
  <2> SUFFICES ASSUME NEW a \in got \cup page, NEW b \in got \cup page,
                      NEW r \in RowsOf(c), a.seq <= r.seq, r.seq <= b.seq
               PROVE  r \in got \cup page
    BY DEF Convex
  <2>1. /\ a \in RowsOf(c) /\ b \in RowsOf(c)
        /\ a.seq \in Nat /\ b.seq \in Nat /\ r.seq \in Nat
    BY <1>1, <1>4, PageSource
  <2>2. CASE r.seq <= newest
    <3>1. oldest <= a.seq
      BY <1>1, <1>2, <1>4, <2>1 DEF Within
    <3> QED
      BY <1>1, <1>2, <2>1, <2>2, <3>1 DEF Within
  <2>3. CASE r.seq > newest
    <3>1. b \in page /\ r \in S
      BY <1>1, <1>2, <2>1, <2>3 DEF Within
    <3>2. CASE b.seq = r.seq
      BY <1>1, <2>1, <3>1, <3>2, Numbered
    <3>3. CASE r.seq < b.seq
      <4>1. IsFiniteSet(S) /\ \A s \in S : s.seq \in Nat
        BY <1>1, PageSource
      <4>2. b \in S
        BY <1>4, <3>1
      <4> HIDE DEF S
      <4> QED
        BY <3>1, <3>3, <4>1, <4>2, PageClosed, LimitAssumption
    <3> QED
      BY <2>1, <3>2, <3>3
  <2> QED
    BY <1>2, <2>1, <2>2, <2>3
<1>6. got \cup page \subseteq RowsOf(conversation')
  BY <1>1, <1>4
<1> HIDE DEF page
<1> QED
  BY <1>1, <1>3, <1>5, <1>6, KeepStep

\* before_seq: the page joins what the client has at its lower end.
LEMMA ScrollBackStep ==
  ASSUME StoreInv, ReaderInv, UNCHANGED vars, ScrollBack
  PROVE  ReaderInv' /\ UNCHANGED conversation
<1> DEFINE c == conversation
           S == {r \in RowsOf(c) : r.seq < oldest}
           page == HighestSeqs(S, Limit)
<1>1. c \in Conversations /\ Within /\ conversation' = c
  BY DEF ScrollBack, ReaderInv, Nothing
<1>2. newest \in Nat /\ oldest \in Nat /\ oldest <= newest /\ oldest > 0
  BY <1>1, Numbered DEF Within, ScrollBack
<1>3. Keep(page)
  BY <1>2, Pages DEF ScrollBack
<1>4. page \subseteq S /\ got \subseteq RowsOf(c)
  BY <1>1 DEF HighestSeqs, Within
<1>5. Convex(c, got \cup page)
  <2> SUFFICES ASSUME NEW a \in got \cup page, NEW b \in got \cup page,
                      NEW r \in RowsOf(c), a.seq <= r.seq, r.seq <= b.seq
               PROVE  r \in got \cup page
    BY DEF Convex
  <2>1. /\ a \in RowsOf(c) /\ b \in RowsOf(c)
        /\ a.seq \in Nat /\ b.seq \in Nat /\ r.seq \in Nat
    BY <1>1, <1>4, PageSource
  <2>2. CASE r.seq >= oldest
    <3>1. b.seq <= newest
      BY <1>1, <1>2, <1>4, <2>1 DEF Within
    <3> QED
      BY <1>1, <1>2, <2>1, <2>2, <3>1 DEF Within
  <2>3. CASE r.seq < oldest
    <3>1. a \in page /\ r \in S
      BY <1>1, <1>2, <2>1, <2>3 DEF Within
    <3>2. CASE a.seq = r.seq
      BY <1>1, <2>1, <3>1, <3>2, Numbered
    <3>3. CASE r.seq > a.seq
      <4>1. IsFiniteSet(S) /\ \A s \in S : s.seq \in Nat
        BY <1>1, PageSource
      <4>2. a \in S
        BY <1>4, <3>1
      <4> HIDE DEF S
      <4> QED
        BY <3>1, <3>3, <4>1, <4>2, PageClosed, LimitAssumption
    <3> QED
      BY <2>1, <3>2, <3>3
  <2> QED
    BY <1>2, <2>1, <2>2, <2>3
<1>6. got \cup page \subseteq RowsOf(conversation')
  BY <1>1, <1>4
<1> HIDE DEF page
<1> QED
  BY <1>1, <1>3, <1>5, <1>6, KeepStep

\* A commit puts its row above every cursor.
LEMMA StoreStep ==
  ASSUME StoreInv, ReaderInv, [Next]_vars, UNCHANGED reader
  PROVE  ReaderInv'
<1> DEFINE c == conversation
           n == Cardinality(RowsOf(c))
<1>1. UNCHANGED <<conversation, got, oldest, newest>>
  BY DEF reader
<1>2. CASE Nothing
  BY <1>1, <1>2 DEF ReaderInv, Nothing
<1>3. CASE RowsOf(c)' = RowsOf(c)
  BY <1>1, <1>3 DEF ReaderInv, Nothing, Within
<1>4. ASSUME Within, c \in Conversations, NEW p \in Processes, Commit(p), c = Conv(p)
      PROVE  ReaderInv'
  <2>0. PICK d, k : d = c /\ k = n
    OBVIOUS
  <2>a. \E r : r.seq = Cardinality(RowsOf(d)) + 1 /\ RowsOf(d)' = RowsOf(d) \cup {r}
    BY <1>4, <2>0, CommitRows
  <2>1. PICK r : RowsOf(c)' = RowsOf(c) \cup {r} /\ r.seq = n + 1
    BY <1>1, <2>0, <2>a DEF RowsOf
  <2>2. n \in Nat /\ IsFiniteSet(RowsOf(c)) /\ \A q \in RowsOf(c) : q.seq \in 1 .. n
    BY <1>4, Numbered
  <2>3. r \notin RowsOf(c)
    BY <2>1, <2>2
  <2>4. Cardinality(RowsOf(c) \cup {r}) = n + 1
    BY <2>2, <2>3, FS_AddElement
  <2>5. Within'
    <3>1. oldest \in 1 .. n /\ newest \in 1 .. n /\ oldest <= newest
      BY <1>4 DEF Within
    <3>2. got = {q \in RowsOf(c) \cup {r} : oldest <= q.seq /\ q.seq <= newest}
      BY <1>4, <2>1, <2>2, <3>1 DEF Within
    <3>3. RowsOf(conversation)' = RowsOf(c) \cup {r}
      BY <1>1, <2>1
    <3>4. Cardinality(RowsOf(conversation))' = n + 1
      BY <2>4, <3>3
    <3> HIDE DEF n
    <3> QED
      BY <1>1, <2>2, <3>1, <3>2, <3>3, <3>4 DEF Within
  <2> QED
    BY <1>1, <1>4, <2>5, LimitAssumption DEF ReaderInv
<1>5. c # None => c \in Conversations
  BY DEF ReaderInv
<1>6. ASSUME c \in Conversations, NEW p \in Processes, Commit(p), c # Conv(p)
      PROVE  RowsOf(c)' = RowsOf(c)
  <2>1. \A d \in Conversations \ {Conv(p)} : RowsOf(d)' = RowsOf(d)
    BY <1>6, CommitRows
  <2> QED
    BY <1>1, <1>6, <2>1 DEF RowsOf
<1>7. ASSUME \A p \in Processes : ~ Commit(p) PROVE RowsOf(c)' = RowsOf(c)
  BY <1>1, <1>7, OnlyCommitWrites DEF RowsOf
<1> QED
  BY <1>2, <1>3, <1>4, <1>5, <1>6, <1>7 DEF ReaderInv

\* Every step of the store and of the client keeps both invariants.
LEMMA ReaderInvStep ==
  StoreInv /\ ReaderInv /\ [ReaderNext]_<<vars, reader>> => StoreInv' /\ ReaderInv'
<1> SUFFICES ASSUME StoreInv, ReaderInv, [ReaderNext]_<<vars, reader>>
             PROVE  StoreInv' /\ ReaderInv'
  OBVIOUS
<1>1. [Next]_vars
  BY DEF ReaderNext
<1>2. StoreInv'
  BY <1>1, StoreInvStep
<1>3. CASE UNCHANGED reader
  BY <1>1, <1>2, <1>3, StoreStep
<1>4. ASSUME NEW c \in Conversations, Open(c), UNCHANGED vars PROVE ReaderInv'
  BY <1>4, OpenStep
<1>5. CASE CatchUp /\ UNCHANGED vars
  BY <1>2, <1>5, CatchUpStep
<1>6. CASE ScrollBack /\ UNCHANGED vars
  BY <1>2, <1>6, ScrollBackStep
<1> QED
  BY <1>2, <1>3, <1>4, <1>5, <1>6 DEF ReaderNext

LEMMA ReaderInvariant == ReaderSpec => [](StoreInv /\ ReaderInv)
<1>1. ReaderInit => StoreInv /\ ReaderInv
  BY StoreInvInit DEF ReaderInit, ReaderInv, Nothing
<1> QED
  BY <1>1, ReaderInvStep, PTL DEF ReaderSpec

-----------------------------------------------------------------------------
(* What the pages promise *)

\* Opening, catching up and scrolling back never leave a gap in what the client
\* holds, for any page size and any commits between the pages (loadMessages and
\* the queries of MessageRepository).
THEOREM PagesSeamlessAlways == ReaderSpec => []PagesSeamless
<1>1. ASSUME StoreInv, ReaderInv PROVE PagesSeamless
  <2>1. CASE Nothing
    <3>1. conversation # None =>
            \A r \in RowsOf(conversation) : r.seq \in Nat \ {0}
      <4>1. conversation # None => conversation \in Conversations
        BY <1>1 DEF ReaderInv
      <4> QED
        BY <1>1, <4>1, Numbered
    <3> QED
      BY <2>1, <3>1 DEF PagesSeamless, Nothing
  <2>2. CASE Within
    BY <2>2 DEF PagesSeamless, Within
  <2> QED
    BY <1>1, <2>1, <2>2 DEF ReaderInv
<1> QED
  BY <1>1, ReaderInvariant, PTL

\* A query with something to return returns something.
LEMMA PageNotEmpty ==
  ASSUME StoreInv, NEW c \in Conversations, NEW S, S \subseteq RowsOf(c), S # {}
  PROVE  LowestSeqs(S, Limit) # {} /\ HighestSeqs(S, Limit) # {}
<1> DEFINE n == Cardinality(RowsOf(c))
           seqs == {r.seq : r \in S}
<1>1. n \in Nat /\ seqs \subseteq 1 .. n /\ seqs # {}
  BY Numbered
<1>2. (\E m \in seqs : \A k \in seqs : m <= k) /\ (\E m \in seqs : \A k \in seqs : m >= k)
  <2> HIDE DEF seqs, n
  <2> QED
    BY <1>1, EndsExist
<1>3. PICK low \in seqs, high \in seqs : \A k \in seqs : low <= k /\ k <= high
  <2> HIDE DEF seqs
  <2>1. PICK low \in seqs : \A k \in seqs : low <= k
    BY <1>2
  <2>2. PICK high \in seqs : \A k \in seqs : high >= k
    BY <1>2
  <2>3. \A k \in seqs : low <= k /\ k <= high
    <3>1. seqs \subseteq Nat
      BY <1>1
    <3> QED
      BY <2>1, <2>2, <3>1
  <2> QED
    BY <2>3
<1>4. PICK r \in S, q \in S : r.seq = low /\ q.seq = high
  OBVIOUS
<1>5. {p \in S : p.seq < r.seq} = {} /\ {p \in S : p.seq > q.seq} = {}
  <2>1. \A p \in S : p.seq \in 1 .. n /\ p.seq \in seqs
    BY Numbered
  <2> HIDE DEF seqs
  <2> QED
    BY <1>1, <1>3, <1>4, <2>1
<1>6. r \in LowestSeqs(S, Limit) /\ q \in HighestSeqs(S, Limit)
  <2>1. Cardinality({p \in S : p.seq < r.seq}) < Limit
    <3>1. Cardinality({p \in S : p.seq < r.seq}) = Cardinality({})
      BY <1>5, Zenon
    <3>2. Cardinality({}) = 0 /\ 0 < Limit
      BY FS_EmptySet, LimitAssumption
    <3> QED
      BY <3>1, <3>2
  <2>2. Cardinality({p \in S : p.seq > q.seq}) < Limit
    <3>1. Cardinality({p \in S : p.seq > q.seq}) = Cardinality({})
      BY <1>5, Zenon
    <3>2. Cardinality({}) = 0 /\ 0 < Limit
      BY FS_EmptySet, LimitAssumption
    <3> QED
      BY <3>1, <3>2
  <2> QED
    BY <2>1, <2>2 DEF LowestSeqs, HighestSeqs
<1> QED
  BY <1>6

\* A client may stop when a page comes back empty: then, and only then, it is
\* at that end of the conversation.
THEOREM EmptyPageIsEndAlways == ReaderSpec => []EmptyPageIsEnd
<1>1. ASSUME StoreInv, ReaderInv PROVE EmptyPageIsEnd
  <2> SUFFICES ASSUME conversation # None, newest > 0
               PROVE  /\ LoadMessages(conversation, 0, newest) = {}
                           <=> newest = Cardinality(RowsOf(conversation))
                      /\ LoadMessages(conversation, oldest, 0) = {} <=> oldest = 1
    BY DEF EmptyPageIsEnd
  <2> DEFINE c == conversation
             n == Cardinality(RowsOf(c))
             Above == {r \in RowsOf(c) : r.seq > newest}
             Below == {r \in RowsOf(c) : r.seq < oldest}
  <2>1. c \in Conversations /\ Within
    BY <1>1 DEF ReaderInv, Nothing
  <2>2. /\ n \in Nat /\ oldest \in 1 .. n /\ newest \in 1 .. n
        /\ \A r \in RowsOf(c) : r.seq \in 1 .. n
        /\ \A k \in 1 .. n : \E r \in RowsOf(c) : r.seq = k
    BY <1>1, <2>1, Numbered DEF Within
  <2>3. /\ LoadMessages(c, 0, newest) = LowestSeqs(Above, Limit)
        /\ LoadMessages(c, oldest, 0) = HighestSeqs(Below, Limit)
    <3>1. newest \in Nat /\ newest > 0 /\ oldest \in Nat /\ oldest > 0
      BY <2>2
    <3> HIDE DEF c
    <3> QED
      BY <3>1, Pages
  <2>4. /\ LowestSeqs(Above, Limit) = {} <=> Above = {}
        /\ HighestSeqs(Below, Limit) = {} <=> Below = {}
    BY <1>1, <2>1, PageNotEmpty DEF LowestSeqs, HighestSeqs
  <2>5. Above = {} <=> newest = n
    <3>1. newest # n => \E r \in RowsOf(c) : r.seq = n
      BY <2>2
    <3> HIDE DEF n
    <3> QED
      BY <2>2, <3>1
  <2>6. Below = {} <=> oldest = 1
    <3>1. \E r \in RowsOf(c) : r.seq = 1
      BY <2>2
    <3> HIDE DEF n
    <3> QED
      BY <2>2, <3>1
  <2> QED
    BY <2>3, <2>4, <2>5, <2>6
<1> QED
  BY <1>1, ReaderInvariant, PTL
=============================================================================
