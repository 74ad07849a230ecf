------------------------ MODULE ExtensionRuntime_proofs ------------------------
(***************************************************************************)
(* Proofs about ExtensionRuntime, for any users, configurations, page size *)
(* and bounds: whom the agent answers, what a checkpoint stands for, that  *)
(* the state file says what the memory says, and the types.                *)
(*                                                                         *)
(* The argument: what a message is (Same) never changes, only its stage,   *)
(* and a stage tells which gates the message has passed (StageInv).  A     *)
(* recovery is at a message of a user, which it has put into recovered     *)
(* (RecoveryInv).  The bound on the log holds because the agent's text is  *)
(* counted when it is given (Expected), and a step publishes at most one   *)
(* message (Counted).                                                      *)
(***************************************************************************)
EXTENDS ExtensionRuntime, WellFoundedInduction, FiniteSetTheorems, TLAPS

Entry ==
  [conv : Users, from : Senders, blocked : BOOLEAN, re : Nat, stage : Stages]
Same(a, b) ==
  a.conv = b.conv /\ a.from = b.from /\ a.blocked = b.blocked /\ a.re = b.re

\* The gates of handleInbound.
Allowed(m) == SenderAllowed(m) /\ (m.blocked => config.approval)

\* A handler that has not ended belongs to a process that has read the state;
\* its stage says what it has asked.
StageInv(m, i) ==
  /\ m.stage \notin Over => loaded
  /\ m.stage = "asking" => SenderAllowed(m) /\ config.approval
  /\ m.stage \in {"agent", "replying"} => m.from \in Users /\ Allowed(m)
  /\ m.stage = "hooked" /\ m.from \in Users => i \in handled

\* A reply of the bot is to a message of a user that was let in or recovered.
ReplyInv(m) ==
  m.from = Bot => /\ m.re \in Ids /\ log[m.re].from \in Users
                  /\ m.re \in recovered \/ Allowed(log[m.re])

LogInv ==
  /\ log \in Seq(Entry)
  /\ \A i \in Ids : StageInv(log[i], i) /\ ReplyInv(log[i])
  /\ client # "none" => loaded

RecoveryState ==
  [at : {"idle", "next", "agent", "replying"}, seen : SUBSET Users, queue : SUBSET Nat]

RecoveryAt(s) ==
  /\ recovery[s].queue \subseteq Ids
  /\ recovery[s].at \in {"agent", "replying"} =>
       /\ recovery[s].queue # {} /\ Current(s) \in recovered
       /\ log[Current(s)].from \in Users

RecoveryInv ==
  /\ recovery \in [Slots -> RecoveryState]
  /\ \A s \in Slots : RecoveryAt(s)

Marks == [Users -> Nat]

\* The checkpoints in memory, in the file and on their way into it.
AllMarks == {marks} \cup file \cup {w.map : w \in writing}

Handled(m) == \A u \in Users : m[u] # 0 => m[u] \in handled /\ log[m[u]].conv = u

MarksInv ==
  /\ handled \subseteq Ids
  /\ \A m \in AllMarks : m \in Marks /\ Handled(m)

FileSays(u) == IF file = {} THEN 0 ELSE (CHOOSE m \in file : TRUE)[u]

\* There is one write at a time, of what the memory says, until two overlap.
FileInv ==
  /\ file = {} \/ \E m \in file : file = {m}
  /\ ~ loaded => writing = {} /\ marks = NoMarks
  /\ loaded /\ ~ overlapped =>
       \/ writing = {} /\ \A u \in Users : marks[u] = FileSays(u)
       \/ file = {} /\ \E w \in writing : writing = {w} /\ w.map = marks

IInv == LogInv /\ RecoveryInv /\ MarksInv /\ FileInv

-----------------------------------------------------------------------------
(* The log *)

\* Messages keep what they are; the log only grows.
LogKept ==
  /\ log' \in Seq(Entry) /\ Len(log) <= Len(log')
  /\ \A i \in Ids : Same(log'[i], log[i])

\* What a step may do to the log: change stages, and append one message.
LEMMA LogStep ==
  ASSUME LogInv, UNCHANGED config, handled \subseteq handled', recovered \subseteq recovered',
         client' # "none" => loaded',
         NEW l \in Seq(Entry), Len(l) = Len(log),
         \A i \in Ids : Same(l[i], log[i]) /\ StageInv(l[i], i)',
         NEW n, n = Len(log) + 1, log' = l \/ \E m \in Entry :
           /\ log' = Append(l, m)
           /\ StageInv(m, n)'
           /\ m.from = Bot => /\ m.re \in Ids /\ log[m.re].from \in Users
                              /\ m.re \in recovered' \/ Allowed(log[m.re])
  PROVE  LogInv' /\ LogKept
<1>1. log \in Seq(Entry) /\ \A i \in Ids : log[i] \in Entry /\ l[i] \in Entry
  BY DEF LogInv, Ids
<1>2. /\ log' \in Seq(Entry) /\ Len(log) <= Len(log')
      /\ \A i \in Ids : i \in Ids' /\ log'[i] = l[i]
  BY <1>1, SMTT(30) DEF Ids
<1>3. LogKept
  BY <1>2 DEF LogKept
<1>4. \A a, b : Same(a, b) => (Allowed(a)' <=> Allowed(b))
  BY DEF Same, Allowed, SenderAllowed
<1>5. \A k \in Ids : /\ k \in Ids' /\ log'[k].from = log[k].from
                     /\ Allowed(log[k])' <=> Allowed(log[k])
  BY <1>2 DEF Same, Allowed, SenderAllowed
<1>6. ASSUME NEW i \in Ids PROVE StageInv(log[i], i)' /\ ReplyInv(log[i])'
  <2>1. log'[i] = l[i] /\ StageInv(l[i], i)'
    BY <1>2
  <2>2. StageInv(log[i], i)'
    BY <2>1 DEF StageInv, Allowed, SenderAllowed
  <2>3. log'[i].from = log[i].from /\ log'[i].re = log[i].re /\ ReplyInv(log[i])
    BY <1>2 DEF LogInv, Same
  <2>4. ReplyInv(log[i])'
    BY <1>5, <2>3 DEF ReplyInv
  <2> QED
    BY <2>2, <2>4
<1>7. ASSUME NEW i \in Ids', i \notin Ids PROVE StageInv(log[i], i)' /\ ReplyInv(log[i])'
  <2>1. PICK m \in Entry :
          /\ log' = Append(l, m)
          /\ StageInv(m, n)'
          /\ m.from = Bot => /\ m.re \in Ids /\ log[m.re].from \in Users
                             /\ m.re \in recovered' \/ Allowed(log[m.re])
    BY <1>2, <1>7 DEF Ids
  <2>2. i = n /\ log'[i] = m
    BY <1>1, <1>7, <2>1 DEF Ids
  <2>3. StageInv(log[i], i)'
    BY <2>1, <2>2 DEF StageInv, Allowed, SenderAllowed
  <2>4. ReplyInv(log[i])'
    BY <1>5, <2>1, <2>2 DEF ReplyInv
  <2> QED
    BY <2>3, <2>4
<1> QED
  BY <1>2, <1>3, <1>6, <1>7 DEF LogInv

\* A handler moves to another stage.
LEMMA StageStep ==
  ASSUME LogInv, UNCHANGED <<config, loaded>>, handled \subseteq handled',
         NEW i \in Ids, NEW st \in Stages, NEW e, e = [log[i] EXCEPT !.stage = st],
         StageInv(e, i)',
         NEW l, l = To(i, st)
  PROVE  /\ l \in Seq(Entry) /\ Len(l) = Len(log)
         /\ \A k \in Ids : Same(l[k], log[k]) /\ StageInv(l[k], k)'
<1>1. /\ log \in Seq(Entry) /\ \A k \in Ids : log[k] \in Entry /\ StageInv(log[k], k)
  BY DEF LogInv, Ids
<1>2. e \in Entry /\ Same(e, log[i])
  BY <1>1 DEF Entry, Same
<1>3. l \in Seq(Entry) /\ Len(l) = Len(log) /\ \A k \in Ids : l[k] = IF k = i THEN e ELSE log[k]
  BY <1>1, <1>2 DEF To, Ids
<1>4. ASSUME NEW m, NEW k, StageInv(m, k) PROVE StageInv(m, k)'
  BY <1>4 DEF StageInv, Allowed, SenderAllowed
<1>5. ASSUME NEW k \in Ids, k # i PROVE Same(l[k], log[k]) /\ StageInv(l[k], k)'
  <2>1. PICK m : m = log[k]
    OBVIOUS
  <2>2. l[k] = m /\ StageInv(m, k)
    BY <1>1, <1>3, <1>5, <2>1
  <2>3. StageInv(m, k)'
    BY <1>4, <2>2
  <2> QED
    BY <2>1, <2>2, <2>3 DEF Same, StageInv, Allowed, SenderAllowed
<1>6. Same(l[i], log[i]) /\ StageInv(l[i], i)'
  <2>1. l[i] = e
    BY <1>3
  <2> QED
    BY <1>2, <2>1 DEF StageInv, Allowed, SenderAllowed
<1> QED
  BY <1>3, <1>5, <1>6

\* A message published finds no handler, or one that is past the gates.
LEMMA ReceivedStage ==
  ASSUME LogInv, UNCHANGED <<config, loaded>>, NEW m \in Entry, NEW n,
         NEW e, e = [m EXCEPT !.stage = IF client = "online" THEN Received(m) ELSE "missed"]
  PROVE  e \in Entry /\ Same(e, m) /\ StageInv(e, n)'
<1>1. Received(m) \in {"asking", "refusing", "denied", "agent", "hooked"}
  BY DEF Received, Refused, Hook
<1>2. /\ e.stage \notin Over => client = "online" /\ e.stage = Received(m)
      /\ e \in Entry /\ Same(e, m)
  BY <1>1 DEF Entry, Same, Stages, Over
<1>3. /\ Received(m) = "asking" => SenderAllowed(m) /\ config.approval
      /\ Received(m) = "agent" => m.from \in Users /\ Allowed(m)
      /\ Received(m) = "hooked" => m.from \notin Users
      /\ Received(m) # "replying"
  BY DEF Received, Refused, Hook, Allowed
<1>4. SenderAllowed(e) <=> SenderAllowed(m)
  BY <1>2 DEF SenderAllowed, Same
<1>5. Allowed(e) <=> Allowed(m)
  BY <1>2, <1>4 DEF Allowed, Same
<1>6. /\ e.stage \in {"asking", "agent", "replying", "hooked"} => e.stage = Received(m)
      /\ e.stage \notin Over => loaded
  BY <1>2 DEF Over, LogInv
<1>7. StageInv(e, n)
  BY <1>2, <1>3, <1>4, <1>5, <1>6 DEF StageInv, Same
<1> QED
  BY <1>2, <1>6, <1>7, <1>3, <1>4, <1>5 DEF StageInv, Same, Allowed, SenderAllowed

\* A step that only moves a handler.
LEMMA Moved ==
  ASSUME LogInv, UNCHANGED <<config, loaded, client>>,
         handled \subseteq handled', recovered \subseteq recovered',
         NEW i \in Ids, NEW st \in Stages, NEW e, e = [log[i] EXCEPT !.stage = st],
         StageInv(e, i)', log' = To(i, st)
  PROVE  LogInv' /\ LogKept
<1>1. PICK l : l = To(i, st)
  OBVIOUS
<1>2. PICK n : n = Len(log) + 1
  OBVIOUS
<1>3. /\ l \in Seq(Entry) /\ Len(l) = Len(log)
      /\ \A k \in Ids : Same(l[k], log[k]) /\ StageInv(l[k], k)'
  BY <1>1, StageStep
<1>4. client' # "none" => loaded'
  BY DEF LogInv
<1> QED
  BY <1>1, <1>2, <1>3, <1>4, LogStep

\* A step that publishes a message, after it has moved a handler or none.
LEMMA Published ==
  ASSUME LogInv, UNCHANGED <<config, loaded, client>>,
         handled \subseteq handled', recovered \subseteq recovered',
         NEW l \in Seq(Entry), Len(l) = Len(log),
         \A k \in Ids : Same(l[k], log[k]) /\ StageInv(l[k], k)',
         NEW m \in Entry, log' = Logged(l, m),
         m.from = Bot => /\ m.re \in Ids /\ log[m.re].from \in Users
                         /\ m.re \in recovered' \/ Allowed(log[m.re])
  PROVE  LogInv' /\ LogKept
<1>1. PICK n : n = Len(log) + 1
  OBVIOUS
<1>2. PICK e : e = [m EXCEPT !.stage = IF client = "online" THEN Received(m) ELSE "missed"]
  OBVIOUS
<1>3. e \in Entry /\ Same(e, m) /\ StageInv(e, n)'
  BY <1>2, ReceivedStage
<1>4. log' = Append(l, e)
  BY <1>2 DEF Logged
<1>5. e.from = Bot => /\ e.re \in Ids /\ log[e.re].from \in Users
                      /\ e.re \in recovered' \/ Allowed(log[e.re])
  BY <1>3 DEF Same
<1>6. client' # "none" => loaded'
  BY DEF LogInv
<1> QED
  BY <1>1, <1>3, <1>4, <1>5, <1>6, LogStep

\* A message that stays as it is keeps what its stage says.
LEMMA Unmoved ==
  ASSUME LogInv, UNCHANGED config, loaded => loaded', handled \subseteq handled'
  PROVE  /\ log \in Seq(Entry)
         /\ \A k \in Ids : log[k] \in Entry /\ Same(log[k], log[k])
         /\ \A l : l = log => \A k \in Ids : Same(l[k], log[k]) /\ StageInv(l[k], k)'
<1>1. log \in Seq(Entry) /\ \A k \in Ids : log[k] \in Entry /\ StageInv(log[k], k)
  BY DEF LogInv, Ids
<1>2. ASSUME NEW m, NEW k, StageInv(m, k) PROVE StageInv(m, k)'
  BY <1>2 DEF StageInv, Allowed, SenderAllowed
<1>3. ASSUME NEW l, l = log, NEW k \in Ids PROVE Same(l[k], log[k]) /\ StageInv(l[k], k)'
  <2>1. StageInv(l[k], k)
    BY <1>1, <1>3
  <2> QED
    BY <1>2, <1>3, <2>1 DEF Same
<1> QED
  BY <1>1, <1>3 DEF Same

\* A step that leaves the log alone.
LEMMA LogSame ==
  ASSUME LogInv, UNCHANGED <<config, log>>, loaded => loaded', client' # "none" => loaded',
         handled \subseteq handled', recovered \subseteq recovered'
  PROVE  LogInv' /\ LogKept
<1>1. PICK l : l = log
  OBVIOUS
<1>2. PICK n : n = Len(log) + 1
  OBVIOUS
<1>3. /\ l \in Seq(Entry) /\ Len(l) = Len(log)
      /\ \A k \in Ids : Same(l[k], log[k]) /\ StageInv(l[k], k)'
  BY <1>1, Unmoved
<1>4. log' = l
  BY <1>1
<1> QED
  BY <1>2, <1>3, <1>4, LogStep

-----------------------------------------------------------------------------
(* The steps that change the log *)

LEMMA PublishStep ==
  ASSUME LogInv, NEW x \in Inputs, Publish(x[1], x[2])
  PROVE  LogInv' /\ LogKept
<1>1. /\ UNCHANGED <<config, loaded, client, handled, recovered>>
      /\ log' = Logged(log, Message(x[1], x[2]))
  BY DEF Publish, connection
<1>2. PICK m : m = Message(x[1], x[2])
  OBVIOUS
<1>3. m \in Entry /\ m.from # Bot
  BY <1>2, ExtensionAssumption DEF Message, Entry, Senders, Stages, Over
<1>4. PICK l : l = log
  OBVIOUS
<1>5. /\ l \in Seq(Entry) /\ Len(l) = Len(log)
      /\ \A k \in Ids : Same(l[k], log[k]) /\ StageInv(l[k], k)'
  BY <1>1, <1>4, Unmoved
<1>6. log' = Logged(l, m)
  BY <1>1, <1>2, <1>4
<1> QED
  BY <1>1, <1>3, <1>5, <1>6, Published

LEMMA ApproveStep ==
  ASSUME LogInv, NEW i \in Ids, Approve(i)
  PROVE  LogInv' /\ LogKept
<1>1. /\ UNCHANGED <<config, loaded, client, handled, recovered>>
      /\ log[i].stage = "asking" /\ StageInv(log[i], i)
  BY DEF Approve, connection, AtStage, LogInv
<1>2. PICK st \in {Hook(log[i]), Refused, "failed"} : log' = To(i, st)
  BY DEF Approve
<1>3. PICK e : e = [log[i] EXCEPT !.stage = st]
  OBVIOUS
<1>4. log[i] \in Entry
  BY DEF LogInv, Ids
<1>5. /\ st \in Stages /\ st \in {"agent", "hooked", "refusing", "denied", "failed"}
      /\ st = "agent" => log[i].from \in Users
      /\ st = "hooked" => log[i].from \notin Users
  BY <1>2 DEF Hook, Refused, Stages, Over
<1>6. Same(e, log[i]) /\ e.stage = st
  BY <1>3, <1>4, <1>5 DEF Entry, Same
<1>7. SenderAllowed(log[i]) /\ config.approval /\ loaded
  BY <1>1 DEF StageInv, Over
<1>8. StageInv(e, i)'
  BY <1>1, <1>5, <1>6, <1>7 DEF StageInv, Same, Allowed, SenderAllowed
<1> QED
  BY <1>1, <1>2, <1>3, <1>5, <1>8, Moved

\* A handler that has ended, or publishes a reply of what the agent was given.
LEMMA StageAt ==
  ASSUME LogInv, UNCHANGED <<config, loaded>>, NEW i \in Ids,
         NEW st \in {"denied", "failed", "replying", "hooked", "writing", "done"},
         st \in {"replying", "hooked"} => log[i].from \in Users /\ Allowed(log[i]),
         st \in {"replying", "hooked", "writing"} => log[i].stage \notin Over,
         st = "hooked" => i \in handled',
         NEW e, e = [log[i] EXCEPT !.stage = st]
  PROVE  st \in Stages /\ Same(e, log[i]) /\ StageInv(e, i)'
<1>1. log[i] \in Entry /\ StageInv(log[i], i) /\ st \in Stages
  BY DEF LogInv, Ids, Stages, Over
<1>2. Same(e, log[i]) /\ e.stage = st
  BY <1>1 DEF Entry, Same
<1>3. e.stage \notin Over => loaded
  BY <1>1, <1>2 DEF StageInv, Over
<1>4. st = "replying" => e.from \in Users /\ Allowed(e)
  BY <1>2 DEF Same, Allowed, SenderAllowed
<1> QED
  BY <1>1, <1>2, <1>3, <1>4 DEF StageInv, Allowed, SenderAllowed

LEMMA SendDenialStep ==
  ASSUME LogInv, NEW i \in Ids, SendDenial(i)
  PROVE  LogInv' /\ LogKept
<1>1. UNCHANGED <<config, loaded, client, handled, recovered>>
  BY DEF SendDenial, connection
<1>2. CASE log' = To(i, "failed")
  <2>1. PICK e : e = [log[i] EXCEPT !.stage = "failed"]
    OBVIOUS
  <2>2. "failed" \in Stages /\ StageInv(e, i)'
    BY <1>1, <2>1, StageAt
  <2> QED
    BY <1>1, <1>2, <2>1, <2>2, Moved
<1>3. CASE log' = Logged(To(i, "denied"), Answer(i, Default))
  <2>1. PICK e : e = [log[i] EXCEPT !.stage = "denied"]
    OBVIOUS
  <2>2. "denied" \in Stages /\ StageInv(e, i)'
    BY <1>1, <2>1, StageAt
  <2>3. PICK l : l = To(i, "denied")
    OBVIOUS
  <2>4. /\ l \in Seq(Entry) /\ Len(l) = Len(log)
        /\ \A k \in Ids : Same(l[k], log[k]) /\ StageInv(l[k], k)'
    BY <1>1, <2>1, <2>2, <2>3, StageStep
  <2>5. PICK m : m = Answer(i, Default)
    OBVIOUS
  <2>6. m \in Entry /\ m.from # Bot
    <3>1. log[i] \in Entry
      BY DEF LogInv, Ids
    <3> QED
      BY <2>5, <3>1, ExtensionAssumption DEF Answer, Entry, Senders, Stages, Over, Ids
  <2> QED
    BY <1>1, <1>3, <2>3, <2>4, <2>5, <2>6, Published
<1> QED
  BY <1>2, <1>3 DEF SendDenial

LEMMA DispatchedStep ==
  ASSUME LogInv, NEW i \in Ids, Dispatched(i)
  PROVE  LogInv' /\ LogKept
<1>1. /\ UNCHANGED <<config, loaded, client, recovered>>
      /\ handled \subseteq handled' /\ log[i].stage = "agent"
  BY DEF Dispatched, connection, AtStage
<1>2. log[i].from \in Users /\ Allowed(log[i])
  BY <1>1 DEF LogInv, StageInv
<1>3. PICK st \in {"failed", "replying", "hooked"} :
        log' = To(i, st) /\ (st = "hooked" => i \in handled')
  BY DEF Dispatched
<1>4. PICK e : e = [log[i] EXCEPT !.stage = st]
  OBVIOUS
<1>5. st \in Stages /\ StageInv(e, i)'
  BY <1>1, <1>2, <1>3, <1>4, StageAt DEF Over
<1> QED
  BY <1>1, <1>3, <1>4, <1>5, Moved

\* The reply of the agent to message i, which was let in or recovered.
LEMMA AnswerEntry ==
  ASSUME LogInv, NEW i \in Ids, log[i].from \in Users, NEW m, m = Answer(i, Bot)
  PROVE  m \in Entry /\ m.re = i
<1>1. log[i] \in Entry
  BY DEF LogInv, Ids
<1> QED
  BY <1>1 DEF Answer, Entry, Senders, Stages, Over, Ids

LEMMA ReplyStep ==
  ASSUME LogInv, NEW i \in Ids, Reply(i)
  PROVE  LogInv' /\ LogKept
<1>1. /\ UNCHANGED <<config, loaded, client, recovered>>
      /\ handled \subseteq handled' /\ log[i].stage = "replying"
  BY DEF Reply, connection, AtStage
<1>2. log[i].from \in Users /\ Allowed(log[i])
  BY <1>1 DEF LogInv, StageInv
<1>3. CASE log' = To(i, "failed")
  <2>1. PICK e : e = [log[i] EXCEPT !.stage = "failed"]
    OBVIOUS
  <2>2. "failed" \in Stages /\ StageInv(e, i)'
    BY <1>1, <2>1, StageAt
  <2> QED
    BY <1>1, <1>3, <2>1, <2>2, Moved
<1>4. CASE log' = Logged(To(i, "hooked"), Answer(i, Bot)) /\ i \in handled'
  <2>1. PICK e : e = [log[i] EXCEPT !.stage = "hooked"]
    OBVIOUS
  <2>2. "hooked" \in Stages /\ StageInv(e, i)'
    BY <1>1, <1>2, <1>4, <2>1, StageAt DEF Over
  <2>3. PICK l : l = To(i, "hooked")
    OBVIOUS
  <2>4. /\ l \in Seq(Entry) /\ Len(l) = Len(log)
        /\ \A k \in Ids : Same(l[k], log[k]) /\ StageInv(l[k], k)'
    BY <1>1, <2>1, <2>2, <2>3, StageStep
  <2>5. PICK m : m = Answer(i, Bot)
    OBVIOUS
  <2>6. m \in Entry /\ m.re = i
    BY <1>2, <2>5, AnswerEntry
  <2> QED
    BY <1>1, <1>2, <1>4, <2>3, <2>4, <2>5, <2>6, Published
<1> QED
  BY <1>3, <1>4 DEF Reply

LEMMA SavedStep ==
  ASSUME LogInv, NEW i \in Ids, Mark(i) \/ FlushWrites(i)
  PROVE  LogInv' /\ LogKept
<1>1. /\ UNCHANGED <<config, loaded, client, recovered>>
      /\ handled \subseteq handled' /\ log[i].stage \in {"hooked", "writing"}
  BY DEF Mark, FlushWrites, connection, AtStage
<1>2. PICK st \in {"writing", "done"} : log' = To(i, st)
  BY DEF Mark, FlushWrites
<1>3. PICK e : e = [log[i] EXCEPT !.stage = st]
  OBVIOUS
<1>4. st \in Stages /\ StageInv(e, i)'
  BY <1>1, <1>2, <1>3, StageAt DEF Over
<1> QED
  BY <1>1, <1>2, <1>3, <1>4, Moved

\* A set of numbers that is not empty has a least one.
LEMMA LeastExists ==
  ASSUME NEW S, S \subseteq Nat, S # {}
  PROVE  \E m \in S : \A k \in S : m <= k
<1>1. \E m \in S : \A k \in S : ~ (<<k, m>> \in OpToRel(<, Nat))
  BY WFMin, NatLessThanWellFounded
<1>2. \A m, k \in Nat : ~ (<<k, m>> \in OpToRel(<, Nat)) => m <= k
  BY DEF OpToRel
<1> QED
  BY <1>1, <1>2

\* The message a recovery is at is one of its page.
LEMMA CurrentInQueue ==
  ASSUME LogInv, RecoveryInv, NEW s \in Slots, recovery[s].queue # {}
  PROVE  Current(s) \in recovery[s].queue /\ Current(s) \in Ids
<1>1. PICK q : q = recovery[s].queue
  OBVIOUS
<1>2. PICK n \in Nat : n = Len(log)
  BY DEF LogInv
<1>3. q \subseteq 1 .. n
  BY <1>1, <1>2 DEF RecoveryInv, RecoveryAt, Ids
<1>4. q \subseteq Nat
  BY <1>3
<1>5. \E i \in q : \A j \in q : i <= j
  BY <1>1, <1>4, LeastExists
<1>6. Current(s) = CHOOSE i \in q : \A j \in q : i <= j
  BY <1>1 DEF Current
<1> QED
  BY <1>1, <1>2, <1>3, <1>5, <1>6 DEF Ids

LEMMA RecoverReplyStep ==
  ASSUME LogInv, RecoveryInv, NEW s \in Slots, RecoverReply(s)
  PROVE  LogInv' /\ LogKept
<1>1. /\ UNCHANGED <<config, loaded, client, recovered>>
      /\ handled \subseteq handled' /\ recovery[s].at = "replying"
  BY DEF RecoverReply, RecoveryFails
<1>2. CASE UNCHANGED log
  BY <1>1, <1>2, LogSame DEF LogInv
<1>3. CASE log' = Logged(log, Answer(Current(s), Bot))
  <2>1. PICK i : i = Current(s)
    OBVIOUS
  <2>2. i \in Ids /\ i \in recovered /\ log[i].from \in Users
    BY <1>1, <2>1, CurrentInQueue DEF RecoveryInv, RecoveryAt
  <2>3. PICK m : m = Answer(i, Bot)
    OBVIOUS
  <2>4. m \in Entry /\ m.re = i
    BY <2>2, <2>3, AnswerEntry
  <2>5. PICK l : l = log
    OBVIOUS
  <2>6. /\ l \in Seq(Entry) /\ Len(l) = Len(log)
        /\ \A k \in Ids : Same(l[k], log[k]) /\ StageInv(l[k], k)'
    BY <1>1, <2>5, Unmoved
  <2>7. log' = Logged(l, m)
    BY <1>3, <2>1, <2>3, <2>5
  <2> QED
    BY <1>1, <2>2, <2>4, <2>6, <2>7, Published
<1> QED
  BY <1>2, <1>3 DEF RecoverReply, RecoveryFails

\* The steps that end handlers, all or those that wait for the client.
LEMMA Ended ==
  ASSUME LogInv, UNCHANGED <<config, handled, recovered>>, client' # "none" => loaded',
         NEW st \in {"failed", "lost"}, NEW D \in SUBSET Ids,
         log' = [i \in Ids |-> IF i \in D THEN [log[i] EXCEPT !.stage = st] ELSE log[i]],
         \A i \in Ids \ D : log[i].stage \notin Over => loaded'
  PROVE  LogInv' /\ LogKept
<1>1. PICK l : l = [i \in Ids |-> IF i \in D THEN [log[i] EXCEPT !.stage = st] ELSE log[i]]
  OBVIOUS
<1>2. PICK n : n = Len(log) + 1
  OBVIOUS
<1>3. log \in Seq(Entry) /\ \A i \in Ids : log[i] \in Entry /\ StageInv(log[i], i)
  BY DEF LogInv, Ids
<1>4. st \in Stages /\ st \in Over
  BY DEF Stages, Over
<1>5. \A i \in Ids : l[i] \in Entry /\ Same(l[i], log[i])
  BY <1>1, <1>3, <1>4 DEF Entry, Same
<1>6. l \in Seq(Entry) /\ Len(l) = Len(log)
  <2>1. Len(log) \in Nat /\ l \in [1 .. Len(log) -> Entry]
    BY <1>1, <1>3, <1>5 DEF Ids
  <2> QED
    BY <2>1
<1>7. ASSUME NEW k \in Ids PROVE StageInv(l[k], k)'
  <2>1. CASE k \in D
    BY <1>1, <1>3, <1>4, <2>1 DEF StageInv, Over, Entry
  <2>2. CASE k \notin D
    <3>1. l[k] = log[k] /\ StageInv(log[k], k) /\ (l[k].stage \notin Over => loaded')
      BY <1>1, <1>3, <2>2
    <3> QED
      BY <3>1 DEF StageInv, Allowed, SenderAllowed
  <2> QED
    BY <2>1, <2>2
<1>8. log' = l
  BY <1>1
<1> QED
  BY <1>2, <1>5, <1>6, <1>7, <1>8, LogStep

LEMMA ClientEndedStep ==
  ASSUME LogInv, ClientEnded
  PROVE  LogInv' /\ LogKept
<1>1. PICK D \in SUBSET Ids :
        D = {i \in Ids : log[i].stage \in {"replying", "refusing"} /\ client # "none"}
  OBVIOUS
<1>2. /\ UNCHANGED <<config, loaded, handled, recovered>> /\ client' = "none"
      /\ log' = [i \in Ids |-> IF i \in D THEN [log[i] EXCEPT !.stage = "failed"] ELSE log[i]]
  BY <1>1 DEF ClientEnded
<1>3. \A i \in Ids \ D : log[i].stage \notin Over => loaded'
  BY <1>2 DEF LogInv, StageInv
<1> QED
  BY <1>2, <1>3, Ended

LEMMA DieStep ==
  ASSUME LogInv, Die
  PROVE  LogInv' /\ LogKept
<1>1. PICK D \in SUBSET Ids : D = {i \in Ids : log[i].stage \notin Over}
  OBVIOUS
<1>2. /\ UNCHANGED <<config, handled, recovered>> /\ client' = "none"
      /\ log' = [i \in Ids |-> IF i \in D THEN [log[i] EXCEPT !.stage = "lost"] ELSE log[i]]
  BY <1>1 DEF Die
<1>3. \A i \in Ids \ D : log[i].stage \notin Over => loaded'
  BY <1>1
<1> QED
  BY <1>2, <1>3, Ended

LEMMA LogNext ==
  ASSUME LogInv, RecoveryInv, [Next]_vars
  PROVE  LogInv' /\ LogKept
<1>1. ASSUME NEW x \in Inputs, Publish(x[1], x[2]) PROVE LogInv' /\ LogKept
  BY <1>1, PublishStep
<1>2. ASSUME NEW i \in Ids, Approve(i) \/ Handler(i) PROVE LogInv' /\ LogKept
  BY <1>2, ApproveStep, SendDenialStep, DispatchedStep, ReplyStep, SavedStep DEF Handler
<1>3. ASSUME NEW s \in Slots, Recover(s) PROVE LogInv' /\ LogKept
  <2>1. CASE RecoverReply(s)
    BY <2>1, RecoverReplyStep
  <2>2. ASSUME RecoverFetch(s) \/ RecoverEnds(s) \/ RecoverNext(s) \/ RecoverDispatched(s)
        PROVE  /\ UNCHANGED <<config, loaded, client, log>>
               /\ handled \subseteq handled' /\ recovered \subseteq recovered'
    BY <2>2 DEF RecoverFetch, RecoverEnds, RecoverNext, RecoverDispatched, RecoveryFails, connection
  <2>3. CASE RecoverFetch(s) \/ RecoverEnds(s) \/ RecoverNext(s) \/ RecoverDispatched(s)
    <3>1. client' # "none" => loaded'
      BY <2>2, <2>3 DEF LogInv
    <3> QED
      BY <2>2, <2>3, <3>1, LogSame
  <2> QED
    BY <1>3, <2>1, <2>3 DEF Recover
<1>4. CASE StartAccount \/ BootFails \/ Boot \/ Connected \/ Drop \/ Stop \/ StopWrites
  <2>1. UNCHANGED <<config, log, handled, recovered>> /\ (loaded => loaded')
    BY <1>4 DEF StartAccount, BootFails, Boot, Connected, Drop, Stop, StopWrites
  <2>2. client' # "none" => loaded'
    <3>1. CASE Boot
      BY <3>1 DEF Boot
    <3>2. CASE Connected \/ Drop
      BY <3>2 DEF Connected, Drop, LogInv
    <3>3. CASE StartAccount \/ BootFails \/ Stop \/ StopWrites
      <4>1. UNCHANGED <<client, loaded>>
        BY <3>3 DEF StartAccount, BootFails, Stop, StopWrites
      <4> QED
        BY <4>1 DEF LogInv
    <3> QED
      BY <1>4, <3>1, <3>2, <3>3
  <2> QED
    BY <2>1, <2>2, LogSame
<1>5. CASE UNCHANGED vars
  <2>1. UNCHANGED <<config, loaded, client, log, handled, recovered>>
    BY <1>5 DEF vars, connection
  <2>2. client' # "none" => loaded'
    BY <2>1 DEF LogInv
  <2> QED
    BY <2>1, <2>2, LogSame
<1> QED
  BY <1>1, <1>2, <1>3, <1>4, <1>5, ClientEndedStep, DieStep DEF Next, Stopping

-----------------------------------------------------------------------------
(* The recoveries *)

\* A recovery that did not move, or only from the agent to its reply.
LEMMA RecoveryKept ==
  ASSUME LogInv, RecoveryInv, LogKept, recovered \subseteq recovered',
         NEW s \in Slots, recovery'[s].queue = recovery[s].queue,
         recovery'[s].at \in {"agent", "replying"} => recovery[s].at \in {"agent", "replying"}
  PROVE  RecoveryAt(s)'
<1>1. Current(s)' = Current(s)
  BY DEF Current
<1>2. recovery'[s].queue \subseteq Ids'
  BY DEF RecoveryInv, RecoveryAt, LogKept, LogInv, Ids
<1>3. ASSUME recovery'[s].at \in {"agent", "replying"}
      PROVE  /\ recovery'[s].queue # {} /\ Current(s) \in recovered'
             /\ log'[Current(s)].from \in Users
  <2>1. recovery[s].queue # {} /\ Current(s) \in recovered /\ log[Current(s)].from \in Users
    BY <1>3 DEF RecoveryInv, RecoveryAt
  <2>2. Current(s) \in Ids
    BY <2>1, CurrentInQueue
  <2> QED
    BY <2>1, <2>2 DEF LogKept, Same
<1> QED
  BY <1>1, <1>2, <1>3 DEF RecoveryAt

\* A recovery that is between two messages, or idle.
LEMMA RecoveryRests ==
  ASSUME LogInv, LogKept, NEW s \in Slots, recovery'[s].at \in {"idle", "next"},
         recovery'[s].queue \subseteq Ids
  PROVE  RecoveryAt(s)'
<1>1. Ids \subseteq Ids'
  BY DEF LogKept, LogInv, Ids
<1> QED
  BY <1>1 DEF RecoveryAt

\* One recovery moves.
LEMMA RecoveryStep ==
  ASSUME LogInv, RecoveryInv, LogKept, recovered \subseteq recovered',
         NEW s \in Slots,
         NEW r \in RecoveryState,
         recovery' = [recovery EXCEPT ![s] = r],
         RecoveryAt(s)'
  PROVE  RecoveryInv'
<1>1. recovery' \in [Slots -> RecoveryState] /\ \A t \in Slots \ {s} : recovery'[t] = recovery[t]
  BY DEF RecoveryInv
<1>2. \A t \in Slots : RecoveryAt(t)'
  BY <1>1, RecoveryKept
<1> QED
  BY <1>1, <1>2 DEF RecoveryInv

\* The states in which a recovery is not inside a hook.
Resting == [at : {"idle", "next"}, seen : SUBSET Users, queue : SUBSET Ids]

\* A recovery stops, or starts, or goes on to another message.
LEMMA RecoveryIdle ==
  ASSUME LogInv, RecoveryInv, LogKept, recovered \subseteq recovered',
         NEW s \in Slots, NEW r \in Resting,
         recovery' = [recovery EXCEPT ![s] = r]
  PROVE  RecoveryInv'
<1>1. r \in RecoveryState /\ recovery'[s] = r
  BY DEF RecoveryInv, RecoveryState, Resting, Ids
<1>2. RecoveryAt(s)'
  BY <1>1, RecoveryRests DEF Resting
<1> QED
  BY <1>1, <1>2, RecoveryStep

LEMMA RecoverySame ==
  ASSUME LogInv, RecoveryInv, LogKept, UNCHANGED recovery, recovered \subseteq recovered'
  PROVE  RecoveryInv'
<1>1. \A s \in Slots : RecoveryAt(s)'
  BY RecoveryKept
<1> QED
  BY <1>1 DEF RecoveryInv, RecoveryAt

LEMMA Rests ==
  /\ Idle \in Resting
  /\ \A m : Recovering(m) \in Resting
BY DEF Resting, Idle, Recovering

\* The next message of the page: a bot's is passed over, a user's is recovered.
LEMMA RecoverNextStep ==
  ASSUME LogInv, RecoveryInv, LogKept, NEW s \in Slots, RecoverNext(s)
  PROVE  RecoveryInv'
<1>1. /\ recovery[s] \in RecoveryState /\ RecoveryAt(s)
      /\ recovered \subseteq recovered' /\ Current(s) \in recovered'
      /\ UNCHANGED log
  BY DEF RecoverNext, RecoveryInv
<1>2. CASE recovery' = [recovery EXCEPT ![s].queue = @ \ {Current(s)}]
  <2>1. PICK r : r = [recovery[s] EXCEPT !.queue = @ \ {Current(s)}]
    OBVIOUS
  <2>2. recovery' = [recovery EXCEPT ![s] = r]
    BY <1>2, <2>1
  <2>3. recovery[s].at = "next"
    BY DEF RecoverNext
  <2>4. r \in Resting
    BY <1>1, <2>1, <2>3 DEF RecoveryState, RecoveryAt, Resting
  <2> QED
    BY <1>1, <2>2, <2>4, RecoveryIdle
<1>3. CASE Hook(log[Current(s)]) = "agent" /\ recovery' = [recovery EXCEPT ![s].at = "agent"]
  <2>1. PICK r : r = [recovery[s] EXCEPT !.at = "agent"]
    OBVIOUS
  <2>2. recovery' = [recovery EXCEPT ![s] = r] /\ r \in RecoveryState
    BY <1>1, <1>3, <2>1 DEF RecoveryState
  <2>3. recovery'[s].queue = recovery[s].queue /\ recovery[s].queue # {}
    BY <1>1, <2>1, <2>2 DEF RecoveryInv, RecoveryState, RecoverNext
  <2>4. Current(s)' = Current(s)
    BY <2>3 DEF Current
  <2>5. log[Current(s)].from \in Users
    BY <1>3 DEF Hook
  <2>6. recovery'[s].queue \subseteq Ids'
    BY <1>1, <2>3 DEF RecoveryAt, Ids
  <2>7. RecoveryAt(s)'
    BY <1>1, <2>3, <2>4, <2>5, <2>6 DEF RecoveryAt
  <2> QED
    BY <1>1, <2>2, <2>7, RecoveryStep
<1> QED
  BY <1>2, <1>3 DEF RecoverNext

LEMMA RecoverStep ==
  ASSUME LogInv, RecoveryInv, LogKept, NEW s \in Slots, Recover(s)
  PROVE  RecoveryInv'
<1>1. recovery[s] \in RecoveryState /\ RecoveryAt(s) /\ Idle \in Resting
  BY Rests DEF RecoveryInv
<1>2. CASE recovery' = [recovery EXCEPT ![s] = Idle] /\ UNCHANGED recovered
  BY <1>1, <1>2, RecoveryIdle
<1>3. CASE RecoverFetch(s) /\ UNCHANGED recovered
           /\ \E u \in Users :
                \/ recovery' = [recovery EXCEPT ![s].seen = @ \cup {u}, ![s].queue = Page(u)]
                \/ recovery' = [recovery EXCEPT ![s].seen = @ \cup {u}]
  <2>1. PICK u \in Users :
          \/ recovery' = [recovery EXCEPT ![s].seen = @ \cup {u}, ![s].queue = Page(u)]
          \/ recovery' = [recovery EXCEPT ![s].seen = @ \cup {u}]
    BY <1>3
  <2>2. PICK r \in {[recovery[s] EXCEPT !.seen = @ \cup {u}, !.queue = Page(u)],
                    [recovery[s] EXCEPT !.seen = @ \cup {u}]} :
          recovery' = [recovery EXCEPT ![s] = r]
    BY <1>1, <2>1 DEF RecoveryInv, RecoveryState
  <2>3. Page(u) \subseteq Ids
    BY DEF Page
  <2>4. r \in Resting
    <3>1. recovery[s].at = "next"
      BY <1>3 DEF RecoverFetch
    <3>2. CASE r = [recovery[s] EXCEPT !.seen = @ \cup {u}, !.queue = Page(u)]
      BY <1>1, <2>3, <3>1, <3>2 DEF RecoveryState, Resting
    <3>3. CASE r = [recovery[s] EXCEPT !.seen = @ \cup {u}]
      BY <1>1, <3>1, <3>3 DEF RecoveryState, Resting, RecoveryAt
    <3> QED
      BY <2>2, <3>2, <3>3
  <2> QED
    BY <1>3, <2>2, <2>4, RecoveryIdle
<1>4. CASE recovery' = [recovery EXCEPT ![s].at = "next", ![s].queue = @ \ {Current(s)}]
           /\ UNCHANGED recovered
  <2>1. PICK r : r = [recovery[s] EXCEPT !.at = "next", !.queue = @ \ {Current(s)}]
    OBVIOUS
  <2>2. recovery' = [recovery EXCEPT ![s] = r]
    BY <1>1, <1>4, <2>1 DEF RecoveryInv, RecoveryState
  <2>3. r \in Resting
    BY <1>1, <2>1 DEF RecoveryState, RecoveryAt, Resting
  <2> QED
    BY <1>4, <2>2, <2>3, RecoveryIdle
<1>5. CASE recovery' = [recovery EXCEPT ![s].at = "replying"] /\ recovery[s].at = "agent"
           /\ UNCHANGED recovered
  <2>1. PICK r : r = [recovery[s] EXCEPT !.at = "replying"]
    OBVIOUS
  <2>2. recovery' = [recovery EXCEPT ![s] = r] /\ r \in RecoveryState
    BY <1>1, <1>5, <2>1 DEF RecoveryState
  <2>3. recovery'[s].queue = recovery[s].queue
    BY <1>1, <2>1, <2>2 DEF RecoveryInv, RecoveryState
  <2>4. RecoveryAt(s)'
    BY <1>5, <2>3, RecoveryKept
  <2> QED
    BY <1>5, <2>2, <2>4, RecoveryStep
<1> QED
  BY <1>2, <1>3, <1>4, <1>5, RecoverNextStep
     DEF Recover, RecoverFetch, RecoverEnds, RecoverDispatched, RecoverReply, RecoveryFails

LEMMA RecoveryNext ==
  ASSUME LogInv, RecoveryInv, LogKept, [Next]_vars
  PROVE  RecoveryInv'
<1>1. ASSUME NEW s \in Slots, Recover(s) PROVE RecoveryInv'
  BY <1>1, RecoverStep
<1>2. CASE UNCHANGED <<recovery, recovered>>
  BY <1>2, RecoverySame
<1>3. CASE Boot
  <2>1. PICK r \in Resting : r = Recovering(Loaded)
    BY Rests
  <2>2. "start" \in Slots /\ UNCHANGED recovered /\ recovery' = [recovery EXCEPT !["start"] = r]
    BY <1>3, <2>1 DEF Slots, Boot
  <2> QED
    BY <2>2, RecoveryIdle
<1>4. CASE ClientEnded
  <2>1. /\ UNCHANGED recovered
        /\ recovery' = [s \in Slots |-> IF recovery[s].at = "replying" THEN Idle ELSE recovery[s]]
    BY <1>4 DEF ClientEnded
  <2>2. ASSUME NEW s \in Slots PROVE recovery'[s] \in RecoveryState /\ RecoveryAt(s)'
    <3>1. CASE recovery[s].at = "replying"
      <4>1. recovery'[s] = Idle
        BY <2>1, <3>1
      <4> QED
        BY <4>1, RecoveryRests DEF Idle, RecoveryState
    <3>2. CASE recovery[s].at # "replying"
      <4>1. recovery'[s] = recovery[s]
        BY <2>1, <3>2
      <4> QED
        BY <2>1, <4>1, RecoveryKept DEF RecoveryInv
    <3> QED
      BY <3>1, <3>2
  <2> QED
    BY <2>1, <2>2 DEF RecoveryInv
<1>5. CASE Die
  <2>1. recovery' = [s \in Slots |-> Idle]
    BY <1>5 DEF Die
  <2>2. \A s \in Slots : recovery'[s] \in RecoveryState /\ RecoveryAt(s)'
    BY <2>1, RecoveryRests DEF Idle, RecoveryState
  <2> QED
    BY <2>1, <2>2 DEF RecoveryInv
<1>6. CASE Connected
  <2>1. PICK F \in SUBSET Slots : F = {s \in Slots \ {"start"} : recovery[s] = Idle}
    OBVIOUS
  <2>2. F # {} /\ recovery' = [recovery EXCEPT ![CHOOSE s \in F : TRUE] = Recovering(marks)]
    BY <1>6, <2>1 DEF Connected
  <2>3. PICK s \in Slots, r \in Resting : recovery' = [recovery EXCEPT ![s] = r]
    BY <2>2, Rests
  <2> QED
    BY <1>6, <2>3, RecoveryIdle DEF Connected
<1>7. ASSUME NEW x \in Inputs, Publish(x[1], x[2]) PROVE UNCHANGED <<recovery, recovered>>
  BY <1>7 DEF Publish
<1>8. ASSUME NEW i \in Ids, Approve(i) \/ Handler(i) PROVE UNCHANGED <<recovery, recovered>>
  BY <1>8 DEF Approve, Handler, SendDenial, Dispatched, Reply, Mark, FlushWrites
<1>9. ASSUME StartAccount \/ BootFails \/ Drop \/ Stop \/ StopWrites
      PROVE  UNCHANGED <<recovery, recovered>>
  BY <1>9 DEF StartAccount, BootFails, Drop, Stop, StopWrites
<1>10. CASE UNCHANGED vars
  BY <1>2, <1>10 DEF vars
<1> QED
  BY <1>1, <1>2, <1>3, <1>4, <1>5, <1>6, <1>7, <1>8, <1>9, <1>10 DEF Next, Stopping

-----------------------------------------------------------------------------
(* The checkpoints *)

\* A map that appears is one there was, or is of messages handled.
LEMMA MarksStep ==
  ASSUME LogInv, LogKept, MarksInv, handled \subseteq handled', handled' \subseteq Ids',
         \A m \in AllMarks' : m \in AllMarks \/ (m \in Marks /\ Handled(m)')
  PROVE  MarksInv'
<1>1. ASSUME NEW m \in AllMarks PROVE m \in Marks /\ Handled(m)'
  <2>1. m \in Marks /\ \A u \in Users : m[u] # 0 => m[u] \in handled /\ log[m[u]].conv = u
    BY DEF MarksInv, Handled
  <2>2. ASSUME NEW u \in Users, m[u] # 0 PROVE m[u] \in handled' /\ log'[m[u]].conv = u
    BY <2>1, <2>2 DEF MarksInv, LogKept, Same
  <2> QED
    BY <2>1, <2>2 DEF Handled
<1>2. \A m \in AllMarks' : m \in Marks /\ Handled(m)'
  BY <1>1
<1> QED
  BY <1>2 DEF MarksInv, Marks

\* Hooks return; nothing takes that back.
LEMMA HandledGrows ==
  ASSUME LogInv, RecoveryInv, MarksInv, LogKept, [Next]_vars
  PROVE  handled \subseteq handled' /\ handled' \subseteq Ids'
<1>1. Ids \subseteq Ids' /\ handled \subseteq Ids
  BY DEF LogInv, LogKept, Ids, MarksInv
<1>2. ASSUME NEW x \in Inputs, Publish(x[1], x[2]) PROVE UNCHANGED handled
  BY <1>2 DEF Publish
<1>3. ASSUME NEW i \in Ids, Approve(i) \/ Handler(i)
      PROVE  handled' = handled \/ handled' = handled \cup {i}
  BY <1>3 DEF Approve, Handler, SendDenial, Dispatched, Reply, Mark, FlushWrites
<1>4. ASSUME NEW s \in Slots, Recover(s)
      PROVE  \/ handled' = handled
             \/ handled' = handled \cup {Current(s)} /\ Current(s) \in Ids
  <2>1. ASSUME RecoverFetch(s) \/ RecoverEnds(s) PROVE UNCHANGED handled
    BY <2>1 DEF RecoverFetch, RecoverEnds
  <2>2. CASE RecoverNext(s)
    BY <2>2, CurrentInQueue DEF RecoverNext
  <2>3. CASE RecoverDispatched(s) \/ RecoverReply(s)
    <3>1. recovery[s].at \in {"agent", "replying"}
      BY <2>3 DEF RecoverDispatched, RecoverReply
    <3>2. Current(s) \in Ids
      BY <3>1, CurrentInQueue DEF RecoveryInv, RecoveryAt
    <3>3. handled' = handled \/ handled' = handled \cup {Current(s)}
      BY <2>3 DEF RecoverDispatched, RecoverReply, RecoveryFails
    <3> QED
      BY <3>2, <3>3
  <2> QED
    BY <1>4, <2>1, <2>2, <2>3 DEF Recover
<1>5. ASSUME StartAccount \/ BootFails \/ Boot \/ Connected \/ Drop \/ Stop \/ Stopping \/ Die
      PROVE  UNCHANGED handled
  BY <1>5
     DEF StartAccount, BootFails, Boot, Connected, Drop, Stop, Stopping, ClientEnded, StopWrites,
         Die
<1>6. UNCHANGED vars => UNCHANGED handled
  BY DEF vars
<1> QED
  BY <1>1, <1>2, <1>3, <1>4, <1>5, <1>6 DEF Next

LEMMA WritesMarks ==
  ASSUME NEW by, Writes(by)
  PROVE  \A m \in AllMarks' : m \in AllMarks
<1>1. PICK w \in writing :
        /\ writing' = writing \ {w} /\ UNCHANGED marks
        /\ file' \in {{w.map}} \cup (IF file \in {{}, {w.map}} THEN {} ELSE {{}})
  BY DEF Writes
<1>2. file' \subseteq {w.map}
  BY <1>1
<1> QED
  BY <1>1, <1>2 DEF AllMarks

\* The checkpoint of a message is set after its hook.
LEMMA MarkStep ==
  ASSUME LogInv, MarksInv, LogKept, handled \subseteq handled', handled' \subseteq Ids',
         NEW i \in Ids, Mark(i)
  PROVE  MarksInv'
<1>1. /\ log[i].stage = "hooked" /\ log' = To(i, "writing")
      /\ marks' = [marks EXCEPT ![log[i].conv] = i] /\ Opens(i, marks')
  BY DEF Mark, AtStage
<1>2. log[i] \in Entry /\ log[i].conv \in Users /\ marks \in Marks /\ i \in Nat
  <2>1. i \in Nat /\ log[i] \in Entry
    BY DEF LogInv, Ids
  <2>2. marks \in AllMarks
    BY DEF AllMarks
  <2> QED
    BY <2>1, <2>2 DEF MarksInv, Entry
<1>3. marks' \in Marks
  BY <1>1, <1>2 DEF Marks
<1>4. i \in handled'
  BY <1>1 DEF Mark, LogInv, StageInv
<1>5. ASSUME NEW u \in Users, marks'[u] # 0
      PROVE  marks'[u] \in handled' /\ log'[marks'[u]].conv = u
  <2>1. CASE u = log[i].conv
    <3>1. marks'[u] = i
      BY <1>1, <1>2, <2>1 DEF Marks
    <3> QED
      BY <1>4, <2>1, <3>1 DEF LogKept, Same
  <2>2. CASE u # log[i].conv
    <3>1. marks'[u] = marks[u] /\ Handled(marks)
      BY <1>1, <1>2, <2>2 DEF Marks, MarksInv, AllMarks
    <3>2. marks[u] \in handled /\ log[marks[u]].conv = u
      BY <1>5, <3>1 DEF Handled
    <3> QED
      BY <3>1, <3>2 DEF LogKept, Same, MarksInv
  <2> QED
    BY <2>1, <2>2
<1>6. PICK mm : mm = marks'
  OBVIOUS
<1>7. mm \in Marks /\ Handled(mm)'
  BY <1>3, <1>5, <1>6 DEF Handled
<1>8. \A m \in AllMarks' : m \in AllMarks \/ m = mm
  BY <1>1, <1>6 DEF Opens, AllMarks
<1> QED
  BY <1>7, <1>8, MarksStep

\* A start reads the file over the checkpoints it has.
LEMMA BootMarks ==
  ASSUME LogInv, MarksInv, LogKept, handled \subseteq handled', handled' \subseteq Ids',
         Boot
  PROVE  MarksInv'
<1>1. PICK mm : mm = Loaded
  OBVIOUS
<1>2. UNCHANGED <<log, writing, file, handled>> /\ marks' = mm
  BY <1>1 DEF Boot
<1>3. \A m \in AllMarks : m \in Marks /\ Handled(m)
  BY DEF MarksInv
<1>4. marks \in AllMarks /\ \A m \in file : m \in AllMarks
  BY DEF AllMarks
<1>5. \A u \in Users : \E m \in AllMarks : mm[u] = m[u]
  <2>1. file # {} => (CHOOSE m \in file : TRUE) \in file
    OBVIOUS
  <2> QED
    BY <1>1, <1>4, <2>1 DEF Loaded
<1>6. mm \in Marks
  <2>1. mm = [u \in Users |-> mm[u]]
    BY <1>1 DEF Loaded
  <2> QED
    BY <1>3, <1>5, <2>1 DEF Marks
<1>7. Handled(mm)'
  BY <1>2, <1>3, <1>5 DEF Handled
<1>8. \A m \in AllMarks' : m \in AllMarks \/ m = mm
  BY <1>2 DEF AllMarks
<1> QED
  BY <1>6, <1>7, <1>8, MarksStep

LEMMA MarksNext ==
  ASSUME LogInv, RecoveryInv, MarksInv, LogKept, [Next]_vars
  PROVE  MarksInv'
<1>1. handled \subseteq handled' /\ handled' \subseteq Ids'
  BY HandledGrows
<1>2. CASE UNCHANGED <<marks, writing, file>>
  <2>1. \A m \in AllMarks' : m \in AllMarks
    BY <1>2 DEF AllMarks
  <2> QED
    BY <1>1, <2>1, MarksStep
<1>3. CASE \E by : Writes(by)
  <2>1. \A m \in AllMarks' : m \in AllMarks
    BY <1>3, WritesMarks
  <2> QED
    BY <1>1, <2>1, MarksStep
<1>4. CASE UNCHANGED marks /\ Opens(0, marks)
  <2>1. \A m \in AllMarks' : m \in AllMarks
    BY <1>4 DEF Opens, AllMarks
  <2> QED
    BY <1>1, <2>1, MarksStep
<1>5. CASE Die
  <2>1. PICK mm : mm = NoMarks
    OBVIOUS
  <2>2. mm \in Marks /\ Handled(mm)'
    BY <2>1 DEF NoMarks, Marks, Handled
  <2>3. \A m \in AllMarks' : m \in AllMarks \/ m = mm
    BY <1>5, <2>1 DEF Die, AllMarks
  <2> QED
    BY <1>1, <2>2, <2>3, MarksStep
<1>6. ASSUME NEW x \in Inputs, Publish(x[1], x[2]) PROVE UNCHANGED <<marks, writing, file>>
  BY <1>6 DEF Publish, memory
<1>7. ASSUME NEW i \in Ids, Approve(i) \/ Handler(i), ~ Mark(i)
      PROVE  UNCHANGED <<marks, writing, file>> \/ Writes(i)
  BY <1>7 DEF Approve, Handler, SendDenial, Dispatched, Reply, FlushWrites, memory
<1>8. ASSUME NEW s \in Slots, Recover(s) PROVE UNCHANGED <<marks, writing, file>>
  BY <1>8 DEF Recover, RecoverFetch, RecoverEnds, RecoverNext, RecoverDispatched, RecoverReply,
              memory
<1>9. ASSUME StartAccount \/ BootFails \/ Connected \/ Drop \/ Stop
      PROVE  UNCHANGED <<marks, writing, file>>
  BY <1>9 DEF StartAccount, BootFails, Connected, Drop, Stop, memory
<1>10. CASE Stopping
  BY <1>2, <1>3, <1>4, <1>10 DEF Stopping, ClientEnded, StopWrites
<1>11. CASE UNCHANGED vars
  BY <1>2, <1>11 DEF vars, memory
<1> QED
  BY <1>1, <1>2, <1>3, <1>5, <1>6, <1>7, <1>8, <1>9, <1>10, <1>11, MarkStep, BootMarks DEF Next

-----------------------------------------------------------------------------
(* The state file *)

\* A flush of the map in memory opens the file.
LEMMA OpensFile ==
  ASSUME FileInv, loaded', NEW by, Opens(by, marks')
  PROVE  FileInv'
<1>1. file' = {}
  BY DEF Opens
<1>2. ASSUME ~ overlapped' PROVE \E w \in writing' : writing' = {w} /\ w.map = marks'
  <2>1. writing = {}
    BY <1>2 DEF Opens
  <2> QED
    BY <2>1 DEF Opens
<1> QED
  BY <1>1, <1>2 DEF FileInv

\* The text is written: the only one, as long as none overlapped.
LEMMA WritesFile ==
  ASSUME FileInv, UNCHANGED loaded, NEW by, Writes(by)
  PROVE  FileInv'
<1>1. PICK w \in writing :
        /\ writing' = writing \ {w} /\ UNCHANGED <<marks, overlapped>>
        /\ file' \in {{w.map}} \cup (IF file \in {{}, {w.map}} THEN {} ELSE {{}})
  BY DEF Writes
<1>2. loaded /\ loaded'
  BY <1>1 DEF FileInv
<1>3. file' = {} \/ file' = {w.map}
  BY <1>1
<1>4. ASSUME ~ overlapped' PROVE writing' = {} /\ \A u \in Users : marks'[u] = FileSays(u)'
  <2>1. file = {} /\ writing = {w} /\ w.map = marks
    BY <1>1, <1>2, <1>4 DEF FileInv
  <2>2. writing' = {} /\ marks' = w.map /\ file' = {w.map}
    BY <1>1, <2>1
  <2> QED
    BY <2>2 DEF FileSays
<1> QED
  BY <1>2, <1>3, <1>4 DEF FileInv

LEMMA BootFile ==
  ASSUME FileInv, MarksInv, Boot
  PROVE  FileInv'
<1>1. loaded' /\ marks' = Loaded /\ UNCHANGED <<writing, file, overlapped>>
  BY DEF Boot
<1>2. marks \in Marks
  BY DEF MarksInv, AllMarks
<1>3. ASSUME \A u \in Users : marks[u] = FileSays(u)
      PROVE  \A u \in Users : Loaded[u] = FileSays(u)
  BY <1>3 DEF Loaded, FileSays
<1>4. ASSUME ~ loaded PROVE writing' = {} /\ \A u \in Users : marks'[u] = FileSays(u)'
  <2>1. writing = {} /\ \A u \in Users : marks[u] = 0
    BY <1>4 DEF FileInv, NoMarks
  <2>2. \A u \in Users : Loaded[u] = FileSays(u)
    <3>1. CASE file = {}
      BY <2>1, <3>1 DEF Loaded, FileSays
    <3>2. CASE \E m \in file : file = {m}
      <4>1. PICK m \in file : file = {m}
        BY <3>2
      <4>2. m \in Marks /\ (CHOOSE n \in file : TRUE) = m
        BY <4>1 DEF MarksInv, AllMarks
      <4>3. \A u \in Users : m[u] # 0 => Loaded[u] = m[u]
        BY <4>1, <4>2 DEF Loaded
      <4>4. \A u \in Users : m[u] = 0 => Loaded[u] = 0
        BY <2>1, <4>1, <4>2 DEF Loaded
      <4> QED
        BY <4>1, <4>2, <4>3, <4>4 DEF FileSays
    <3> QED
      BY <3>1, <3>2 DEF FileInv
  <2> QED
    BY <1>1, <2>1, <2>2 DEF FileSays
<1>5. ASSUME file = {} PROVE Loaded = marks
  BY <1>2, <1>5 DEF Loaded, Marks
<1>6. ASSUME loaded, ~ overlapped
      PROVE  \/ writing' = {} /\ \A u \in Users : marks'[u] = FileSays(u)'
             \/ file' = {} /\ \E w \in writing' : writing' = {w} /\ w.map = marks'
  <2>1. CASE writing = {} /\ \A u \in Users : marks[u] = FileSays(u)
    BY <1>1, <1>3, <2>1 DEF FileSays
  <2>2. CASE file = {} /\ \E w \in writing : writing = {w} /\ w.map = marks
    BY <1>1, <1>5, <2>2
  <2> QED
    BY <1>6, <2>1, <2>2 DEF FileInv
<1> QED
  BY <1>1, <1>4, <1>6 DEF FileInv

LEMMA FileNext ==
  ASSUME LogInv, MarksInv, FileInv, [Next]_vars
  PROVE  FileInv'
<1>1. CASE UNCHANGED <<loaded, marks, writing, file, overlapped>>
  BY <1>1 DEF FileInv, FileSays
<1>2. CASE UNCHANGED loaded /\ \E by : Writes(by)
  BY <1>2, WritesFile
<1>3. ASSUME NEW i \in Ids, Mark(i) PROVE FileInv'
  <2>1. UNCHANGED loaded /\ log[i].stage = "hooked" /\ Opens(i, marks')
    BY <1>3 DEF Mark, AtStage, connection
  <2>2. loaded
    BY <2>1 DEF LogInv, StageInv, Over
  <2> QED
    BY <2>1, <2>2, OpensFile
<1>4. CASE ClientEnded /\ loaded
  <2>1. UNCHANGED <<loaded, marks>> /\ Opens(0, marks)
    BY <1>4 DEF ClientEnded
  <2>2. loaded' /\ Opens(0, marks')
    BY <1>4, <2>1 DEF Opens
  <2> QED
    BY <2>2, OpensFile
<1>5. CASE Die
  <2>1. ~ loaded' /\ marks' = NoMarks /\ writing' = {} /\ UNCHANGED file
    BY <1>5 DEF Die
  <2> QED
    BY <2>1 DEF FileInv, NoMarks
<1>6. ASSUME NEW x \in Inputs, Publish(x[1], x[2])
      PROVE  UNCHANGED <<loaded, marks, writing, file, overlapped>>
  BY <1>6 DEF Publish, memory, connection
<1>7. ASSUME NEW i \in Ids, Approve(i) \/ Handler(i), ~ Mark(i)
      PROVE  UNCHANGED loaded /\ (UNCHANGED <<marks, writing, file, overlapped>> \/ Writes(i))
  BY <1>7 DEF Approve, Handler, SendDenial, Dispatched, Reply, FlushWrites, memory, connection
<1>8. ASSUME NEW s \in Slots, Recover(s)
      PROVE  UNCHANGED <<loaded, marks, writing, file, overlapped>>
  BY <1>8 DEF Recover, RecoverFetch, RecoverEnds, RecoverNext, RecoverDispatched, RecoverReply,
              memory, connection
<1>9. ASSUME StartAccount \/ BootFails \/ Connected \/ Drop \/ Stop
      PROVE  UNCHANGED <<loaded, marks, writing, file, overlapped>>
  BY <1>9 DEF StartAccount, BootFails, Connected, Drop, Stop, memory
<1>10. CASE Stopping
  BY <1>1, <1>2, <1>4, <1>10 DEF Stopping, ClientEnded, StopWrites
<1>11. CASE UNCHANGED vars
  BY <1>1, <1>11 DEF vars, memory, connection
<1> QED
  BY <1>1, <1>2, <1>3, <1>5, <1>6, <1>7, <1>8, <1>9, <1>10, <1>11, BootFile DEF Next

-----------------------------------------------------------------------------
(* The inductive invariant *)

LEMMA InitHolds ==
  ASSUME Init
  PROVE  IInv
<1>1. PICK h \in {<<>>} \cup {<<[Message(x[1], x[2]) EXCEPT !.stage = "done"]>> : x \in Inputs} :
        log = h
  BY DEF Init
<1>2. \A x \in Inputs : x[1] \in Users /\ x[2] \in BOOLEAN
  BY ExtensionAssumption
<1>3. ASSUME NEW x \in Inputs, NEW e, e = [Message(x[1], x[2]) EXCEPT !.stage = "done"]
      PROVE  e \in Entry /\ e.conv = x[1] /\ e.from = x[1] /\ e.stage = "done"
  BY <1>2, <1>3 DEF Message, Entry, Senders, Stages, Over
<1>4. LogInv
  <2>1. CASE log = <<>>
    BY <2>1 DEF LogInv, Ids, Init
  <2>2. CASE log # <<>>
    <3>1. PICK x \in Inputs : log = <<[Message(x[1], x[2]) EXCEPT !.stage = "done"]>>
      BY <1>1, <2>2
    <3> PICK e : e = [Message(x[1], x[2]) EXCEPT !.stage = "done"]
      OBVIOUS
    <3>2. log = <<e>> /\ e \in Entry /\ e.from \in Users /\ e.stage = "done"
      BY <1>2, <1>3, <3>1
    <3>3. log \in Seq(Entry) /\ \A i \in Ids : log[i] = e
      BY <3>2 DEF Ids
    <3>4. StageInv(e, 1) /\ ReplyInv(e)
      BY <3>2, ExtensionAssumption DEF StageInv, ReplyInv, Over
    <3>5. \A i \in Ids : StageInv(log[i], i) /\ ReplyInv(log[i])
      BY <3>2, <3>3, <3>4 DEF StageInv, Over
    <3> QED
      BY <3>3, <3>5 DEF LogInv, Init
  <2> QED
    BY <2>1, <2>2
<1>5. RecoveryInv
  <2>1. \A s \in Slots : recovery[s] = Idle
    BY DEF Init
  <2>2. \A s \in Slots : RecoveryAt(s)
    BY <2>1 DEF RecoveryAt, Idle
  <2>3. recovery \in [Slots -> RecoveryState]
    BY DEF Init, Idle, RecoveryState
  <2> QED
    BY <2>2, <2>3 DEF RecoveryInv
<1>6. NoMarks \in Marks /\ Handled(NoMarks) /\ marks = NoMarks /\ writing = {}
  BY DEF Init, NoMarks, Marks, Handled
<1>7. MarksInv
  <2>1. CASE file = {} /\ handled = {}
    BY <1>6, <2>1 DEF MarksInv, AllMarks
  <2>2. CASE ~ (file = {} /\ handled = {})
    <3>1. PICK x \in Inputs :
            /\ log = <<[Message(x[1], x[2]) EXCEPT !.stage = "done"]>>
            /\ file = {[NoMarks EXCEPT ![x[1]] = 1]} /\ handled = {1}
      BY <2>2 DEF Init
    <3>2. PICK e, mm : /\ e = [Message(x[1], x[2]) EXCEPT !.stage = "done"]
                       /\ mm = [NoMarks EXCEPT ![x[1]] = 1]
      OBVIOUS
    <3>3. log = <<e>> /\ e.conv = x[1] /\ x[1] \in Users
      BY <1>2, <1>3, <3>1, <3>2
    <3>4. mm \in Marks /\ \A u \in Users : mm[u] = IF u = x[1] THEN 1 ELSE 0
      BY <3>2, <3>3 DEF NoMarks, Marks
    <3>5. Handled(mm) /\ handled \subseteq Ids
      BY <3>1, <3>3, <3>4 DEF Handled, Ids
    <3> QED
      BY <1>6, <3>1, <3>2, <3>4, <3>5 DEF MarksInv, AllMarks
  <2> QED
    BY <2>1, <2>2
<1>8. FileInv
  BY DEF Init, FileInv
<1> QED
  BY <1>4, <1>5, <1>7, <1>8 DEF IInv

LEMMA StepHolds ==
  ASSUME IInv, [Next]_vars
  PROVE  IInv'
<1>1. LogInv' /\ LogKept
  BY LogNext DEF IInv
<1> QED
  BY <1>1, RecoveryNext, MarksNext, FileNext DEF IInv

LEMMA InvariantHolds == Spec => []IInv
BY InitHolds, StepHolds, PTL DEF Spec

-----------------------------------------------------------------------------
(* Types and bounds *)

FlagsInv ==
  /\ config \in Configs
  /\ gateway \in {"idle", "booting", "recovering", "running", "failed", "stopping", "writing"}
  /\ started \in BOOLEAN /\ loaded \in BOOLEAN /\ overlapped \in BOOLEAN
  /\ tries \in 0 .. Attempts /\ (gateway = "booting" => tries < Attempts)
  /\ client \in {"none", "offline", "online"}

\* A message is a reply to an earlier one; recoveries and flushes are of
\* messages that were published.
ReInv ==
  /\ \A i \in Ids : log[i].re < i
  /\ recovered \subseteq Ids
  /\ \A w \in writing : w \in [by : Nat, map : Marks] /\ w.by \in {0} \cup Ids

LEMMA FlagsNext ==
  ASSUME FlagsInv, [Next]_vars
  PROVE  FlagsInv'
<1>1. CASE UNCHANGED <<connection, overlapped>>
  BY <1>1 DEF FlagsInv, connection
<1>2. ASSUME NEW by, NEW map, Opens(by, map) PROVE overlapped' \in BOOLEAN
  BY <1>2 DEF Opens
<1>3. ASSUME NEW x \in Inputs, Publish(x[1], x[2]) PROVE UNCHANGED <<connection, overlapped>>
  BY <1>3 DEF Publish, memory
<1>4. ASSUME NEW i \in Ids, Approve(i) \/ Handler(i)
      PROVE  UNCHANGED connection /\ (UNCHANGED overlapped \/ Opens(i, marks'))
  BY <1>4 DEF Approve, Handler, SendDenial, Dispatched, Reply, Mark, FlushWrites, Writes, memory
<1>5. ASSUME NEW s \in Slots, Recover(s)
      PROVE  /\ UNCHANGED <<config, started, loaded, tries, client, overlapped>>
             /\ gateway' \in {gateway, "failed", "running"}
  BY <1>5 DEF Recover, RecoverFetch, RecoverEnds, RecoverNext, RecoverDispatched, RecoverReply,
              RecoveryFails, memory, connection
<1>6. CASE StartAccount
  <2>1. Attempts \in Nat \ {0}
    BY ExtensionAssumption
  <2>2. CASE started
    BY <1>6, <2>2 DEF StartAccount, FlagsInv, memory
  <2>3. CASE ~ started
    BY <1>6, <2>1, <2>3 DEF StartAccount, FlagsInv, memory
  <2> QED
    BY <2>2, <2>3
<1>7. CASE BootFails
  <2>1. tries \in Nat /\ tries < Attempts /\ Attempts \in Nat
    BY <1>7, ExtensionAssumption DEF BootFails, FlagsInv
  <2>2. tries' \in 0 .. Attempts /\ (gateway' = "booting" => tries' < Attempts)
    BY <1>7, <2>1 DEF BootFails
  <2> QED
    BY <1>7, <2>2 DEF BootFails, FlagsInv, memory
<1>8. CASE Boot
  BY <1>8 DEF Boot, FlagsInv
<1>9. CASE Connected \/ Drop \/ Stop
  BY <1>9 DEF Connected, Drop, Stop, FlagsInv, memory
<1>10. CASE ClientEnded
  BY <1>2, <1>10 DEF ClientEnded, FlagsInv
<1>11. CASE StopWrites
  BY <1>11 DEF StopWrites, Writes, FlagsInv
<1>12. CASE Die
  <2>1. Attempts \in Nat \ {0}
    BY ExtensionAssumption
  <2>2. /\ UNCHANGED <<config, overlapped>> /\ gateway' = "idle" /\ started' = FALSE
        /\ loaded' = FALSE /\ tries' = 0 /\ client' = "none"
    BY <1>12 DEF Die
  <2>3. tries' \in 0 .. Attempts /\ config' \in Configs /\ overlapped' \in BOOLEAN
    BY <2>1, <2>2 DEF FlagsInv
  <2> QED
    BY <2>2, <2>3 DEF FlagsInv
<1>13. CASE \E i \in Ids : Approve(i) \/ Handler(i)
  BY <1>1, <1>2, <1>4, <1>13 DEF FlagsInv, connection
<1>14. CASE \E s \in Slots : Recover(s)
  BY <1>5, <1>14 DEF FlagsInv
<1>15. CASE UNCHANGED vars
  BY <1>1, <1>15 DEF vars, memory
<1> QED
  BY <1>1, <1>3, <1>6, <1>7, <1>8, <1>9, <1>10, <1>11, <1>12, <1>13, <1>14, <1>15 DEF Next, Stopping

\* The message a step publishes, if it publishes one, and whom it answers.
LEMMA NewMessage ==
  ASSUME LogInv, NEW l \in Seq(Entry), Len(l) = Len(log), NEW m \in Entry, log' = Logged(l, m),
         NEW n, n = Len(log) + 1
  PROVE  /\ Len(log') = n /\ Same(log'[n], m) /\ log'[n].stage # "replying"
         /\ \A k \in Ids : log'[k] = l[k]
<1>1. PICK e : e = [m EXCEPT !.stage = IF client = "online" THEN Received(m) ELSE "missed"]
  OBVIOUS
<1>2. Received(m) \in {"asking", "refusing", "denied", "agent", "hooked"}
  BY DEF Received, Refused, Hook
<1>3. e \in Entry /\ Same(e, m) /\ e.stage # "replying"
  BY <1>1, <1>2 DEF Entry, Same, Stages, Over
<1>4. log' = Append(l, e)
  BY <1>1 DEF Logged
<1>5. log \in Seq(Entry) /\ Len(log') = n /\ log'[n] = e /\ \A k \in Ids : log'[k] = l[k]
  BY <1>4, <1>3 DEF LogInv, Ids
<1> QED
  BY <1>3, <1>5

\* Stages set by a step.
LEMMA StagesAre ==
  ASSUME LogInv, NEW i \in Ids, NEW st \in Stages, NEW l, l = To(i, st)
  PROVE  /\ l \in Seq(Entry) /\ Len(l) = Len(log)
         /\ \A k \in Ids : Same(l[k], log[k])
         /\ \A k \in Ids : l[k].stage = IF k = i THEN st ELSE log[k].stage
<1>1. log \in Seq(Entry) /\ \A k \in Ids : log[k] \in Entry
  BY DEF LogInv, Ids
<1>2. PICK e : e = [log[i] EXCEPT !.stage = st]
  OBVIOUS
<1>3. e \in Entry /\ Same(e, log[i]) /\ e.stage = st
  BY <1>1, <1>2 DEF Entry, Same
<1>4. l \in Seq(Entry) /\ Len(l) = Len(log) /\ \A k \in Ids : l[k] = IF k = i THEN e ELSE log[k]
  BY <1>1, <1>2, <1>3 DEF To, Ids
<1> QED
  BY <1>3, <1>4 DEF Same

\* Who awaits the publication of a reply: handlers and recoveries.
RepliesOf(l) == {i \in 1 .. Len(l) : l[i].stage = "replying"}
SlotsOf(r) == {s \in Slots : r[s].at = "replying"}

Room == Answers + Expected < MaxLog
NoNew == Len(log') = Len(log)
OneNew(from) ==
  LET n == Len(log) + 1 IN
    Len(log') = n /\ log'[n].from \in from /\ log'[n].re < n
NoMore ==
  RepliesOf(log') \subseteq RepliesOf(log) /\ SlotsOf(recovery') \subseteq SlotsOf(recovery)

\* What a step does to the counts: nothing; it gives the agent's text to a
\* handler or a recovery to publish; it publishes what a user wrote, the reply
\* somebody waited with, or a denial.
Quiet == NoNew /\ NoMore
HandlerWaits(i) ==
  /\ NoNew /\ Room /\ RepliesOf(log') \subseteq RepliesOf(log) \cup {i}
  /\ SlotsOf(recovery') \subseteq SlotsOf(recovery)
RecoveryWaits(s) ==
  /\ NoNew /\ Room /\ RepliesOf(log') \subseteq RepliesOf(log)
  /\ SlotsOf(recovery') \subseteq SlotsOf(recovery) \cup {s}
UserWrites == OneNew(Users) /\ Room /\ NoMore
HandlerReplies(i) ==
  OneNew({Bot}) /\ NoMore /\ i \in RepliesOf(log) /\ i \notin RepliesOf(log')
RecoveryReplies(s) ==
  OneNew({Bot}) /\ NoMore /\ s \in SlotsOf(recovery) /\ s \notin SlotsOf(recovery')
Denies == OneNew({Default}) /\ Denials < MaxDenials /\ NoMore

Counted ==
  \/ Quiet \/ UserWrites \/ Denies
  \/ \E i \in Ids : HandlerWaits(i) \/ HandlerReplies(i)
  \/ \E s \in Slots : RecoveryWaits(s) \/ RecoveryReplies(s)

\* A handler moves.
LEMMA MovedCount ==
  ASSUME LogInv, NEW i \in Ids, NEW st \in Stages, log' = To(i, st),
         SlotsOf(recovery') \subseteq SlotsOf(recovery)
  PROVE  /\ st # "replying" => Quiet
         /\ Room => HandlerWaits(i)
<1>1. PICK l : l = To(i, st)
  OBVIOUS
<1>2. /\ Len(l) = Len(log) /\ log' = l
      /\ \A k \in Ids : l[k].stage = IF k = i THEN st ELSE log[k].stage
  BY <1>1, StagesAre
<1> QED
  BY <1>2 DEF NoNew, NoMore, Quiet, HandlerWaits, RepliesOf, Ids

\* A message is published, after a handler has moved to a stage that awaits
\* nothing, or none has.
LEMMA PublishedCount ==
  ASSUME LogInv, NEW l \in Seq(Entry), Len(l) = Len(log),
         \A k \in Ids : l[k].stage = "replying" => log[k].stage = "replying",
         NEW m \in Entry, m.re \in {0} \cup Ids, log' = Logged(l, m),
         SlotsOf(recovery') \subseteq SlotsOf(recovery)
  PROVE  /\ OneNew({m.from}) /\ NoMore
         /\ \A k \in Ids : k \in RepliesOf(log') => l[k].stage = "replying"
<1>1. PICK n : n = Len(log) + 1
  OBVIOUS
<1>2. /\ Len(log') = n /\ Same(log'[n], m) /\ log'[n].stage # "replying"
      /\ \A k \in Ids : log'[k] = l[k]
  BY <1>1, NewMessage
<1>3. Len(log) \in Nat
  BY DEF LogInv
<1>4. OneNew({m.from})
  BY <1>1, <1>2, <1>3 DEF OneNew, Same, Ids
<1>5. \A k \in RepliesOf(log') : k \in Ids /\ l[k].stage = "replying"
  BY <1>1, <1>2, <1>3 DEF RepliesOf, Ids
<1> QED
  BY <1>4, <1>5 DEF NoMore, RepliesOf, Ids

LEMMA UserCount ==
  ASSUME LogInv, NEW x \in Inputs, Publish(x[1], x[2])
  PROVE  UserWrites
<1>1. /\ Room /\ log' = Logged(log, Message(x[1], x[2])) /\ UNCHANGED recovery
  BY DEF Publish, Room
<1>2. PICK m : m = Message(x[1], x[2])
  OBVIOUS
<1>3. m \in Entry /\ m.from \in Users /\ m.re = 0
  BY <1>2, ExtensionAssumption DEF Message, Entry, Senders, Stages, Over
<1>4. log \in Seq(Entry) /\ log' = Logged(log, m)
  BY <1>1, <1>2 DEF LogInv
<1>5. OneNew({m.from}) /\ NoMore
  BY <1>1, <1>3, <1>4, PublishedCount
<1> QED
  BY <1>1, <1>3, <1>5 DEF UserWrites, OneNew

LEMMA HandlerCount ==
  ASSUME LogInv, NEW i \in Ids, Approve(i) \/ Handler(i)
  PROVE  Counted
<1> USE DEF Counted
<1>1. UNCHANGED recovery /\ log[i] \in Entry
  BY DEF Approve, Handler, SendDenial, Dispatched, Reply, Mark, FlushWrites, LogInv, Ids
<1>2. ASSUME NEW st \in Stages, st # "replying", log' = To(i, st) PROVE Quiet
  BY <1>1, <1>2, MovedCount
<1>3. CASE \/ Approve(i) \/ Mark(i) \/ FlushWrites(i)
  <2>1. \E st \in Stages : st # "replying" /\ log' = To(i, st)
    BY <1>3 DEF Approve, Mark, FlushWrites, Hook, Refused, Stages, Over
  <2> QED
    BY <1>2, <2>1
<1>4. CASE Dispatched(i)
  <2>1. CASE Room /\ log' = To(i, "replying")
    BY <1>1, <2>1, MovedCount DEF Stages, Over
  <2>2. CASE log' = To(i, "hooked") \/ log' = To(i, "failed")
    BY <1>2, <2>2 DEF Stages, Over
  <2> QED
    BY <1>4, <2>1, <2>2 DEF Dispatched, Room
<1>5. CASE SendDenial(i) \/ Reply(i)
  <2>1. CASE log' = To(i, "failed")
    BY <1>2, <2>1 DEF Stages, Over
  <2>2. ASSUME NEW st \in {"denied", "hooked"}, NEW from \in {Bot, Default},
               log' = Logged(To(i, st), Answer(i, from))
        PROVE  OneNew({from}) /\ NoMore /\ i \notin RepliesOf(log')
    <3>1. PICK l, m : l = To(i, st) /\ m = Answer(i, from)
      OBVIOUS
    <3>2. st \in Stages /\ st # "replying"
      BY DEF Stages, Over
    <3>3. /\ l \in Seq(Entry) /\ Len(l) = Len(log)
          /\ \A k \in Ids : l[k].stage = IF k = i THEN st ELSE log[k].stage
      BY <3>1, <3>2, StagesAre
    <3>4. m \in Entry /\ m.re = i /\ m.from = from
      BY <1>1, <3>1 DEF Answer, Entry, Senders, Stages, Over, Ids
    <3>5. \A k \in Ids : l[k].stage = "replying" => log[k].stage = "replying"
      BY <3>2, <3>3
    <3>6. log' = Logged(l, m) /\ SlotsOf(recovery') \subseteq SlotsOf(recovery)
      BY <1>1, <2>2, <3>1
    <3>7. /\ OneNew({m.from}) /\ NoMore
          /\ \A k \in Ids : k \in RepliesOf(log') => l[k].stage = "replying"
      BY <3>3, <3>4, <3>5, <3>6, PublishedCount
    <3> QED
      BY <3>2, <3>3, <3>4, <3>7
  <2>3. CASE Denials < MaxDenials /\ log' = Logged(To(i, "denied"), Answer(i, Default))
    BY <2>2, <2>3 DEF Denies
  <2>4. CASE log[i].stage = "replying" /\ log' = Logged(To(i, "hooked"), Answer(i, Bot))
    BY <2>2, <2>4 DEF HandlerReplies, RepliesOf, Ids
  <2> QED
    BY <1>5, <2>1, <2>3, <2>4 DEF SendDenial, Reply, AtStage
<1> QED
  BY <1>3, <1>4, <1>5 DEF Handler

LEMMA RecoveryCount ==
  ASSUME LogInv, RecoveryInv, NEW s \in Slots, Recover(s)
  PROVE  Counted
<1>1. \A r \in Slots : recovery[r] \in RecoveryState
  BY DEF RecoveryInv
<1>2. CASE RecoverFetch(s) \/ RecoverEnds(s) \/ RecoverNext(s)
  <2>1. UNCHANGED log /\ \A r \in Slots : recovery'[r].at = "replying" => recovery[r].at = "replying"
    <3>1. UNCHANGED log
      BY <1>2 DEF RecoverFetch, RecoverEnds, RecoverNext
    <3>2. recovery[s].at = "next" /\ \A r \in Slots \ {s} : recovery'[r] = recovery[r]
      BY <1>2 DEF RecoverFetch, RecoverEnds, RecoverNext, RecoveryInv
    <3>3. recovery'[s].at # "replying"
      <4>1. CASE RecoverEnds(s)
        BY <4>1 DEF RecoverEnds, RecoveryInv, Idle
      <4>2. CASE RecoverNext(s)
        BY <1>1, <4>2 DEF RecoverNext, RecoveryInv, RecoveryState
      <4>3. CASE RecoverFetch(s)
        <5>1. PICK u \in Users :
                \/ recovery' = [recovery EXCEPT ![s].seen = @ \cup {u}, ![s].queue = Page(u)]
                \/ recovery' = [recovery EXCEPT ![s].seen = @ \cup {u}]
                \/ recovery' = [recovery EXCEPT ![s] = Idle]
          BY <4>3 DEF RecoverFetch
        <5> QED
          BY <1>1, <3>2, <5>1 DEF RecoveryInv, RecoveryState, Idle
      <4> QED
        BY <1>2, <4>1, <4>2, <4>3
    <3> QED
      BY <3>1, <3>2, <3>3
  <2> QED
    BY <2>1 DEF Counted, Quiet, NoNew, NoMore, RepliesOf, SlotsOf
<1>3. CASE RecoverDispatched(s)
  <2>1. UNCHANGED log /\ \A r \in Slots \ {s} : recovery'[r] = recovery[r]
    BY <1>3 DEF RecoverDispatched, RecoveryFails, RecoveryInv
  <2>2. Room \/ recovery'[s].at # "replying"
    <3>1. CASE Room
      BY <3>1
    <3>2. CASE ~ Room
      <4>1. \/ recovery' = [recovery EXCEPT ![s].at = "next", ![s].queue = @ \ {Current(s)}]
            \/ RecoveryFails(s)
        BY <1>3, <3>2 DEF RecoverDispatched, Room
      <4> QED
        BY <1>1, <4>1 DEF RecoveryFails, RecoveryInv, RecoveryState, Idle
    <3> QED
      BY <3>1, <3>2
  <2>3. CASE Room
    BY <2>1, <2>3 DEF Counted, RecoveryWaits, NoNew, RepliesOf, SlotsOf
  <2>4. CASE recovery'[s].at # "replying"
    BY <2>1, <2>4 DEF Counted, Quiet, NoNew, NoMore, RepliesOf, SlotsOf
  <2> QED
    BY <2>2, <2>3, <2>4
<1>4. CASE RecoverReply(s)
  <2>1. recovery[s].at = "replying" /\ \A r \in Slots \ {s} : recovery'[r] = recovery[r]
    BY <1>4 DEF RecoverReply, RecoveryFails, RecoveryInv
  <2>2. recovery'[s].at # "replying"
    BY <1>1, <1>4 DEF RecoverReply, RecoveryFails, RecoveryInv, RecoveryState, Idle
  <2>3. /\ SlotsOf(recovery') \subseteq SlotsOf(recovery)
        /\ s \in SlotsOf(recovery) /\ s \notin SlotsOf(recovery')
    BY <2>1, <2>2 DEF SlotsOf
  <2>4. CASE UNCHANGED log
    BY <2>3, <2>4 DEF Counted, Quiet, NoNew, NoMore
  <2>5. CASE log' = Logged(log, Answer(Current(s), Bot))
    <3>1. PICK i : i = Current(s)
      OBVIOUS
    <3>2. i \in Ids /\ log[i].from \in Users
      BY <2>1, <3>1, CurrentInQueue DEF RecoveryInv, RecoveryAt
    <3>3. PICK m : m = Answer(i, Bot)
      OBVIOUS
    <3>4. m \in Entry /\ m.re = i /\ m.from = Bot
      BY <3>2, <3>3, AnswerEntry DEF Answer
    <3>5. log \in Seq(Entry) /\ log' = Logged(log, m)
      BY <2>5, <3>1, <3>3 DEF LogInv
    <3>6. OneNew({m.from}) /\ NoMore
      BY <2>3, <3>2, <3>4, <3>5, PublishedCount
    <3> QED
      BY <2>3, <3>4, <3>6 DEF Counted, RecoveryReplies
  <2> QED
    BY <1>4, <2>4, <2>5 DEF RecoverReply, RecoveryFails
<1> QED
  BY <1>2, <1>3, <1>4 DEF Recover

LEMMA NextCounted ==
  ASSUME LogInv, RecoveryInv, [Next]_vars
  PROVE  Counted
<1>1. CASE UNCHANGED <<log, recovery>>
  BY <1>1 DEF Counted, Quiet, NoNew, NoMore
<1>2. CASE StartAccount \/ BootFails \/ Drop \/ Stop \/ StopWrites \/ UNCHANGED vars
  BY <1>1, <1>2 DEF StartAccount, BootFails, Drop, Stop, StopWrites, vars
<1>3. CASE Boot \/ Connected
  <2>1. UNCHANGED log
    BY <1>3 DEF Boot, Connected
  <2>2. \A m : Recovering(m).at # "replying"
    BY DEF Recovering, Idle
  <2>3. \A r \in Slots : recovery'[r] = recovery[r] \/ recovery'[r].at # "replying"
    BY <1>3, <2>2 DEF Boot, Connected, RecoveryInv
  <2> QED
    BY <2>1, <2>3 DEF Counted, Quiet, NoNew, NoMore, SlotsOf
<1>4. CASE ClientEnded \/ Die
  <2>1. PICK n \in Nat : n = Len(log) /\ Ids = 1 .. n
    BY DEF LogInv, Ids
  <2>2. DOMAIN log' = 1 .. n /\ \A i \in Ids : log'[i] = log[i] \/ log'[i].stage # "replying"
    <3>1. \A i \in Ids : log[i] \in Entry
      BY DEF LogInv, Ids
    <3>2. \A i \in Ids : log'[i] = log[i] \/ log'[i].stage # "replying"
      BY <1>4, <3>1 DEF ClientEnded, Die, Over, Entry
    <3> QED
      BY <1>4, <2>1, <3>2 DEF ClientEnded, Die
  <2>3. \A r \in Slots : recovery'[r] = recovery[r] \/ recovery'[r].at # "replying"
    BY <1>4 DEF ClientEnded, Die, Idle
  <2>4. log' \in Seq(Entry)
    BY LogNext DEF LogInv
  <2>5. Len(log') = n
    BY <2>1, <2>2, <2>4
  <2> QED
    BY <2>1, <2>2, <2>3, <2>5 DEF Counted, Quiet, NoNew, NoMore, RepliesOf, SlotsOf, Ids
<1>5. CASE \E x \in Inputs : Publish(x[1], x[2])
  BY <1>5, UserCount DEF Counted
<1>6. CASE \E i \in Ids : Approve(i) \/ Handler(i)
  BY <1>6, HandlerCount
<1>7. CASE \E s \in Slots : Recover(s)
  BY <1>7, RecoveryCount
<1> QED
  BY <1>2, <1>3, <1>4, <1>5, <1>6, <1>7 DEF Next, Stopping

LEMMA ReNext ==
  ASSUME LogInv, RecoveryInv, MarksInv, ReInv, LogKept, [Next]_vars
  PROVE  ReInv'
<1>1. PICK n \in Nat : n = Len(log)
  BY DEF LogInv
<1>2. Ids = 1 .. n /\ Ids \subseteq Ids'
  BY <1>1 DEF LogKept, LogInv, Ids
<1>3. ASSUME NEW i \in Ids' PROVE log'[i].re < i
  <2>1. CASE i \in Ids
    BY <2>1 DEF LogKept, Same, ReInv
  <2>2. CASE i \notin Ids
    <3>1. Counted
      BY NextCounted
    <3>2. NoNew \/ (Len(log') = n + 1 /\ log'[n + 1].re < n + 1)
      BY <1>1, <3>1 DEF Counted, Quiet, UserWrites, Denies, HandlerWaits, HandlerReplies,
                        RecoveryWaits, RecoveryReplies, OneNew
    <3> QED
      BY <1>1, <1>2, <2>2, <3>2 DEF NoNew, Ids
  <2> QED
    BY <2>1, <2>2
<1>4. recovered' \subseteq Ids'
  <2>1. ASSUME NEW s \in Slots, Recover(s)
        PROVE  UNCHANGED recovered \/ recovered' \subseteq recovered \cup Ids
    <3>1. CASE RecoverNext(s)
      BY <3>1, CurrentInQueue DEF RecoverNext
    <3>2. CASE RecoverFetch(s) \/ RecoverEnds(s) \/ RecoverDispatched(s) \/ RecoverReply(s)
      BY <3>2 DEF RecoverFetch, RecoverEnds, RecoverDispatched, RecoverReply
    <3> QED
      BY <2>1, <3>1, <3>2 DEF Recover
  <2>2. ASSUME NEW i \in Ids, Approve(i) \/ Handler(i) PROVE UNCHANGED recovered
    BY <2>2 DEF Approve, Handler, SendDenial, Dispatched, Reply, Mark, FlushWrites
  <2>3. CASE UNCHANGED recovered
    BY <1>2, <2>3 DEF ReInv
  <2>4. ASSUME \/ StartAccount \/ BootFails \/ Boot \/ Connected \/ Drop \/ Stop \/ Stopping \/ Die
               \/ UNCHANGED vars \/ \E x \in Inputs : Publish(x[1], x[2])
        PROVE  UNCHANGED recovered
    BY <2>4 DEF StartAccount, BootFails, Boot, Connected, Drop, Stop, Stopping, ClientEnded,
                StopWrites, Die, vars, Publish
  <2> QED
    BY <1>2, <2>1, <2>2, <2>3, <2>4 DEF Next, ReInv
<1>5. ASSUME NEW w \in writing'
      PROVE  w \in [by : Nat, map : Marks] /\ w.by \in {0} \cup Ids'
  <2>1. marks \in Marks /\ marks' \in Marks
    <3>1. MarksInv'
      BY MarksNext
    <3> QED
      BY <3>1 DEF MarksInv, AllMarks
  <2>2. ASSUME NEW by \in {0} \cup Ids, NEW m \in Marks, Opens(by, m)
        PROVE  w \in writing \/ w = [by |-> by, map |-> m]
    BY <2>2, <1>5 DEF Opens
  <2>3. w \in writing \/ \E by \in {0} \cup Ids, m \in Marks : w = [by |-> by, map |-> m]
    <3>1. CASE UNCHANGED writing \/ \E by : Writes(by)
      BY <1>5, <3>1 DEF Writes
    <3>2. ASSUME NEW i \in Ids, Approve(i) \/ Handler(i), ~ Mark(i)
          PROVE  UNCHANGED writing \/ Writes(i)
      BY <3>2 DEF Approve, Handler, SendDenial, Dispatched, Reply, FlushWrites, memory
    <3>3. ASSUME NEW i \in Ids, Mark(i) PROVE Opens(i, marks')
      BY <3>3 DEF Mark
    <3>4. CASE ClientEnded
      BY <2>1, <2>2, <3>1, <3>4 DEF ClientEnded
    <3>5. ASSUME NEW s \in Slots, Recover(s) PROVE UNCHANGED writing
      BY <3>5 DEF Recover, RecoverFetch, RecoverEnds, RecoverNext, RecoverDispatched, RecoverReply,
                  memory
    <3>6. CASE Die
      BY <1>5, <3>6 DEF Die
    <3>7. ASSUME \/ StartAccount \/ BootFails \/ Boot \/ Connected \/ Drop \/ Stop
                 \/ UNCHANGED vars \/ \E x \in Inputs : Publish(x[1], x[2])
          PROVE  UNCHANGED writing
      BY <3>7 DEF StartAccount, BootFails, Boot, Connected, Drop, Stop, vars, Publish, memory
    <3>8. CASE \E i \in Ids : Mark(i)
      BY <2>1, <2>2, <3>3, <3>8
    <3> QED
      BY <3>1, <3>2, <3>4, <3>5, <3>6, <3>7, <3>8 DEF Next, Stopping, StopWrites
  <2>4. CASE w \in writing
    BY <1>2, <2>4 DEF ReInv
  <2>5. CASE \E by \in {0} \cup Ids, m \in Marks : w = [by |-> by, map |-> m]
    BY <1>2, <2>5
  <2> QED
    BY <2>3, <2>4, <2>5
<1> QED
  BY <1>3, <1>4, <1>5 DEF ReInv

-----------------------------------------------------------------------------
(* The bounds *)

AnswersOf(l) == {i \in 1 .. Len(l) : l[i].from \in Users \cup {Bot}}
DenialsOf(l) == {i \in 1 .. Len(l) : l[i].from = Default}

CountInv == Answers + Expected <= MaxLog /\ Denials <= MaxDenials

LEMMA CountsOf ==
  ASSUME NEW l \in Seq(Entry)
  PROVE  /\ IsFiniteSet(AnswersOf(l)) /\ IsFiniteSet(DenialsOf(l)) /\ IsFiniteSet(RepliesOf(l))
         /\ Len(l) = Cardinality(AnswersOf(l)) + Cardinality(DenialsOf(l))
<1>1. PICK n \in Nat : n = Len(l)
  OBVIOUS
<1>2. IsFiniteSet(1 .. n) /\ Cardinality(1 .. n) = n
  BY FS_Interval
<1>3. AnswersOf(l) \in SUBSET (1 .. n) /\ DenialsOf(l) \in SUBSET (1 .. n)
      /\ RepliesOf(l) \in SUBSET (1 .. n)
  BY <1>1 DEF AnswersOf, DenialsOf, RepliesOf
<1>4. IsFiniteSet(AnswersOf(l)) /\ IsFiniteSet(DenialsOf(l)) /\ IsFiniteSet(RepliesOf(l))
  BY <1>2, <1>3, FS_Subset
<1>5. \A i \in 1 .. n : l[i].from \in Users \cup {Bot, Default}
  <2>1. \A i \in 1 .. n : l[i] \in Entry
    BY <1>1
  <2> QED
    BY <2>1 DEF Entry, Senders
<1>6. DenialsOf(l) = (1 .. n) \ AnswersOf(l) /\ (1 .. n) \cap AnswersOf(l) = AnswersOf(l)
  BY <1>1, <1>3, <1>5, ExtensionAssumption DEF AnswersOf, DenialsOf
<1>7. Cardinality((1 .. n) \ AnswersOf(l)) = Cardinality(1 .. n) - Cardinality((1 .. n) \cap AnswersOf(l))
  BY <1>2, FS_Difference
<1>8. PICK a \in Nat : a = Cardinality(AnswersOf(l))
  BY <1>4, FS_CardinalityType
<1>9. Cardinality(DenialsOf(l)) = n - a
  BY <1>2, <1>6, <1>7, <1>8
<1>10. Len(l) = a + Cardinality(DenialsOf(l))
  BY <1>1, <1>8, <1>9
<1> QED
  BY <1>4, <1>8, <1>10

LEMMA SlotsFinite == \A r : IsFiniteSet(SlotsOf(r))
<1>1. IsFiniteSet({"start"} \cup {"connect"} \cup {"reconnect"})
  BY FS_Singleton, FS_Union
<1>2. Slots = {"start"} \cup {"connect"} \cup {"reconnect"}
  BY DEF Slots
<1>3. ASSUME NEW r PROVE SlotsOf(r) \in SUBSET Slots
  BY DEF SlotsOf
<1> QED
  BY <1>1, <1>2, <1>3, FS_Subset

\* A set with at most one element more, one with one less.
LEMMA Grows ==
  ASSUME NEW S, NEW T, NEW x, IsFiniteSet(S), IsFiniteSet(T), T \subseteq S \cup {x}
  PROVE  /\ Cardinality(S) \in Nat /\ Cardinality(T) \in Nat
         /\ Cardinality(T) <= Cardinality(S) + 1
         /\ T \subseteq S => Cardinality(T) <= Cardinality(S)
         /\ x \in S /\ x \notin T => Cardinality(T) + 1 <= Cardinality(S)
<1>1. Cardinality(S) \in Nat /\ Cardinality(T) \in Nat
  BY FS_CardinalityType
<1>2. IsFiniteSet(S \cup {x}) /\ Cardinality(S \cup {x}) <= Cardinality(S) + 1
  BY <1>1, FS_AddElement
<1>3. Cardinality(T) <= Cardinality(S \cup {x})
  BY <1>2, FS_Subset
<1>4. Cardinality(S \cup {x}) \in Nat
  BY <1>2, FS_CardinalityType
<1>5. T \subseteq S => Cardinality(T) <= Cardinality(S)
  BY FS_Subset
<1>6. ASSUME x \in S, x \notin T PROVE Cardinality(T) + 1 <= Cardinality(S)
  <2>1. IsFiniteSet(S \ {x}) /\ Cardinality(S \ {x}) = Cardinality(S) - 1
    BY <1>6, FS_RemoveElement
  <2>2. T \in SUBSET (S \ {x})
    BY <1>6
  <2>3. Cardinality(T) <= Cardinality(S \ {x})
    BY <2>1, <2>2, FS_Subset
  <2> QED
    BY <1>1, <2>1, <2>3
<1> QED
  BY <1>1, <1>2, <1>3, <1>4, <1>5, <1>6

\* The counts are of the log and the recoveries.
LEMMA CountsAre ==
  /\ Answers = Cardinality(AnswersOf(log)) /\ Denials = Cardinality(DenialsOf(log))
  /\ Expected = Cardinality(RepliesOf(log)) + Cardinality(SlotsOf(recovery))
BY DEF Answers, AnswersOf, Denials, DenialsOf, Expected, RepliesOf, SlotsOf, Ids

\* What a step publishes is an answer or a denial, and nothing else changes.
LEMMA SendersKept ==
  ASSUME LogInv, LogInv', LogKept, NEW n, n = Len(log) + 1
  PROVE  /\ NoNew => AnswersOf(log') = AnswersOf(log) /\ DenialsOf(log') = DenialsOf(log)
         /\ \A from : OneNew(from) /\ from \subseteq Users \cup {Bot} =>
              AnswersOf(log') \subseteq AnswersOf(log) \cup {n} /\ DenialsOf(log') = DenialsOf(log)
         /\ OneNew({Default}) =>
              AnswersOf(log') = AnswersOf(log) /\ DenialsOf(log') \subseteq DenialsOf(log) \cup {n}
<1>1. PICK k \in Nat : k = Len(log)
  BY DEF LogInv
<1>2. \A i \in 1 .. k : log'[i].from = log[i].from
  BY <1>1 DEF LogKept, Same, Ids
<1>3. ASSUME NoNew PROVE AnswersOf(log') = AnswersOf(log) /\ DenialsOf(log') = DenialsOf(log)
  BY <1>1, <1>2, <1>3 DEF NoNew, AnswersOf, DenialsOf
<1>4. Default \notin Users \cup {Bot}
  BY ExtensionAssumption
<1>5. ASSUME NEW from, OneNew(from), from \subseteq Users \cup {Bot}
      PROVE  AnswersOf(log') \subseteq AnswersOf(log) \cup {n} /\ DenialsOf(log') = DenialsOf(log)
  BY <1>1, <1>2, <1>4, <1>5 DEF OneNew, AnswersOf, DenialsOf
<1>6. ASSUME OneNew({Default})
      PROVE  AnswersOf(log') = AnswersOf(log) /\ DenialsOf(log') \subseteq DenialsOf(log) \cup {n}
  BY <1>1, <1>2, <1>4, <1>6 DEF OneNew, AnswersOf, DenialsOf
<1> QED
  BY <1>3, <1>5, <1>6

LEMMA CountNext ==
  ASSUME LogInv, LogInv', LogKept, RecoveryInv, CountInv, [Next]_vars
  PROVE  CountInv'
<1>1. PICK n : n = Len(log) + 1
  OBVIOUS
<1>2. /\ IsFiniteSet(AnswersOf(log)) /\ IsFiniteSet(DenialsOf(log)) /\ IsFiniteSet(RepliesOf(log))
      /\ IsFiniteSet(AnswersOf(log')) /\ IsFiniteSet(DenialsOf(log')) /\ IsFiniteSet(RepliesOf(log'))
      /\ IsFiniteSet(SlotsOf(recovery)) /\ IsFiniteSet(SlotsOf(recovery'))
  BY CountsOf, SlotsFinite DEF LogInv
<1>3. PICK a, d, r, s, a1, d1, r1, s1 \in Nat :
        /\ a = Cardinality(AnswersOf(log)) /\ a1 = Cardinality(AnswersOf(log'))
        /\ d = Cardinality(DenialsOf(log)) /\ d1 = Cardinality(DenialsOf(log'))
        /\ r = Cardinality(RepliesOf(log)) /\ r1 = Cardinality(RepliesOf(log'))
        /\ s = Cardinality(SlotsOf(recovery)) /\ s1 = Cardinality(SlotsOf(recovery'))
  BY <1>2, FS_CardinalityType
<1>4. /\ Answers = a /\ Denials = d /\ Expected = r + s
      /\ Answers' = a1 /\ Denials' = d1 /\ Expected' = r1 + s1
  <2>1. Answers' = Cardinality(AnswersOf(log')) /\ Denials' = Cardinality(DenialsOf(log'))
    BY DEF Answers, AnswersOf, Denials, DenialsOf, Ids
  <2>2. Expected' = Cardinality(RepliesOf(log')) + Cardinality(SlotsOf(recovery'))
    BY DEF Expected, RepliesOf, SlotsOf, Ids
  <2> QED
    BY <1>3, <2>1, <2>2, CountsAre
<1>5. a + (r + s) <= MaxLog /\ d <= MaxDenials /\ MaxLog \in Nat /\ MaxDenials \in Nat
  BY <1>4, ExtensionAssumption DEF CountInv
<1>6. /\ RepliesOf(log') \subseteq RepliesOf(log) => r1 <= r
      /\ \A i : RepliesOf(log') \subseteq RepliesOf(log) \cup {i} => r1 <= r + 1
      /\ SlotsOf(recovery') \subseteq SlotsOf(recovery) => s1 <= s
      /\ \A i : SlotsOf(recovery') \subseteq SlotsOf(recovery) \cup {i} => s1 <= s + 1
  BY <1>2, <1>3, Grows
<1>7. NoNew => a1 = a /\ d1 = d
  BY <1>1, <1>3, SendersKept
<1>8. \A from : OneNew(from) /\ from \subseteq Users \cup {Bot} => a1 <= a + 1 /\ d1 = d
  BY <1>1, <1>2, <1>3, SendersKept, Grows
<1>9. OneNew({Default}) => a1 = a /\ d1 <= d + 1
  BY <1>1, <1>2, <1>3, SendersKept, Grows
<1>10. Room <=> a + (r + s) < MaxLog
  BY <1>4 DEF Room
<1>11. a1 + (r1 + s1) <= MaxLog /\ d1 <= MaxDenials
  <2>1. CASE Quiet
    BY <1>5, <1>6, <1>7, <2>1 DEF Quiet, NoMore
  <2>2. CASE UserWrites
    BY <1>5, <1>6, <1>8, <1>10, <2>2 DEF UserWrites, NoMore
  <2>3. CASE Denies
    BY <1>4, <1>5, <1>6, <1>9, <2>3 DEF Denies, NoMore
  <2>4. CASE \E i \in Ids : HandlerWaits(i)
    BY <1>5, <1>6, <1>7, <1>10, <2>4 DEF HandlerWaits
  <2>5. CASE \E i \in Slots : RecoveryWaits(i)
    BY <1>5, <1>6, <1>7, <1>10, <2>5 DEF RecoveryWaits
  <2>6. ASSUME NEW i \in Ids, HandlerReplies(i) PROVE a1 + (r1 + s1) <= MaxLog /\ d1 <= MaxDenials
    <3>1. r1 + 1 <= r
      BY <1>2, <1>3, <2>6, Grows DEF HandlerReplies, NoMore
    <3> QED
      BY <1>5, <1>6, <1>8, <2>6, <3>1 DEF HandlerReplies, NoMore
  <2>7. ASSUME NEW i \in Slots, RecoveryReplies(i) PROVE a1 + (r1 + s1) <= MaxLog /\ d1 <= MaxDenials
    <3>1. s1 + 1 <= s
      BY <1>2, <1>3, <2>7, Grows DEF RecoveryReplies, NoMore
    <3> QED
      BY <1>5, <1>6, <1>8, <2>7, <3>1 DEF RecoveryReplies, NoMore
  <2> QED
    BY NextCounted, <2>1, <2>2, <2>3, <2>4, <2>5, <2>6, <2>7 DEF Counted
<1> QED
  BY <1>4, <1>11 DEF CountInv

TInv == IInv /\ FlagsInv /\ ReInv /\ CountInv

LEMMA InitTypes ==
  ASSUME Init
  PROVE  TInv
<1>1. IInv
  BY InitHolds
<1>2. FlagsInv
  <2>1. 0 \in 0 .. Attempts
    BY ExtensionAssumption
  <2>2. /\ config \in Configs /\ gateway = "idle" /\ started = FALSE /\ loaded = FALSE
        /\ overlapped = FALSE /\ tries = 0 /\ client = "none"
    BY DEF Init
  <2> QED
    BY <2>1, <2>2 DEF FlagsInv
<1>3. log = <<>> \/ \E e : log = <<e>> /\ e.re = 0
  <2>1. ASSUME NEW x \in Inputs
        PROVE  \E e : e = [Message(x[1], x[2]) EXCEPT !.stage = "done"] /\ e.re = 0
    <3>1. PICK m : m = Message(x[1], x[2])
      OBVIOUS
    <3>2. m.re = 0 /\ m = [conv |-> m.conv, from |-> m.from, blocked |-> m.blocked,
                           re |-> m.re, stage |-> m.stage]
      BY <3>1 DEF Message
    <3>3. [m EXCEPT !.stage = "done"].re = 0
      BY <3>2
    <3> QED
      BY <3>1, <3>3
  <2> QED
    BY <2>1 DEF Init
<1>4. PICK n \in {0, 1} : Len(log) = n /\ \A i \in Ids : log[i].re = 0 /\ i = 1
  BY <1>3 DEF Ids
<1>5. ReInv
  BY <1>4 DEF Init, ReInv
<1>6. CountInv
  <2>1. log \in Seq(Entry) /\ \A i \in Ids : log[i].stage # "replying" /\ log[i].from \in Users
    <3>1. ASSUME NEW x \in Inputs, NEW e, e = [Message(x[1], x[2]) EXCEPT !.stage = "done"]
          PROVE  e.stage = "done" /\ e.from \in Users
      BY <3>1, ExtensionAssumption DEF Message
    <3>2. log = <<>> \/ \E e : log = <<e>> /\ e.stage = "done" /\ e.from \in Users
      BY <3>1 DEF Init
    <3> QED
      BY <1>1, <3>2 DEF IInv, LogInv, Ids
  <2>2. RepliesOf(log) = {} /\ SlotsOf(recovery) = {} /\ DenialsOf(log) = {}
    BY <2>1, ExtensionAssumption DEF Init, Idle, RepliesOf, SlotsOf, DenialsOf, Ids
  <2>3. Cardinality(DenialsOf(log)) = 0 /\ Expected = 0 + 0
    BY <2>2, CountsAre, FS_EmptySet
  <2>4. Len(log) = Cardinality(AnswersOf(log)) + Cardinality(DenialsOf(log))
        /\ Cardinality(AnswersOf(log)) \in Nat
    BY <2>1, CountsOf, FS_CardinalityType
  <2>5. PICK a \in Nat : a = Cardinality(AnswersOf(log))
    BY <2>4
  <2>6. a <= 1 /\ MaxLog \in Nat \ {0} /\ MaxDenials \in Nat
    BY <1>4, <2>3, <2>4, <2>5, ExtensionAssumption
  <2> QED
    BY <2>3, <2>5, <2>6, CountsAre DEF CountInv
<1> QED
  BY <1>1, <1>2, <1>5, <1>6 DEF TInv

LEMMA TypesHold == Spec => []TInv
<1>1. ASSUME TInv, [Next]_vars PROVE TInv'
  <2>1. IInv' /\ LogKept
    BY <1>1, StepHolds, LogNext DEF TInv, IInv
  <2> QED
    BY <1>1, <2>1, FlagsNext, ReNext, CountNext DEF TInv, IInv
<1> QED
  BY <1>1, InitTypes, PTL DEF Spec

\* Everything published is an answer or a denial, and both are bounded.
LEMMA LengthBound ==
  ASSUME TInv
  PROVE  Len(log) \in Nat /\ Len(log) <= MaxIds /\ Ids \subseteq 0 .. MaxIds /\ MaxIds \in Nat
<1>1. log \in Seq(Entry)
  BY DEF TInv, IInv, LogInv
<1>2. PICK a, d, e \in Nat : /\ a = Answers /\ d = Denials /\ e = Expected
                             /\ Len(log) = a + d
  <2>1. /\ IsFiniteSet(AnswersOf(log)) /\ IsFiniteSet(DenialsOf(log)) /\ IsFiniteSet(RepliesOf(log))
        /\ IsFiniteSet(SlotsOf(recovery))
        /\ Len(log) = Cardinality(AnswersOf(log)) + Cardinality(DenialsOf(log))
    BY <1>1, CountsOf, SlotsFinite
  <2> QED
    BY <2>1, CountsAre, FS_CardinalityType
<1>3. a + e <= MaxLog /\ d <= MaxDenials /\ MaxLog \in Nat /\ MaxDenials \in Nat
  BY <1>2, ExtensionAssumption DEF TInv, CountInv
<1> QED
  BY <1>2, <1>3 DEF MaxIds, Ids

-----------------------------------------------------------------------------
(* The theorems *)

(* The agent is never made to answer a message of a bot, its own replies   *)
(* included, on whichever way they come back: acceptInboundMessage and the *)
(* recovery give them to a hook that ignores them.                         *)
THEOREM BotNeverAnsweredAlways == Spec => []BotNeverAnswered
<1>1. IInv => BotNeverAnswered
  BY DEF IInv, LogInv, ReplyInv, BotNeverAnswered
<1> QED
  BY <1>1, InvariantHolds, PTL

(* handleInbound lets nobody past allowFrom, and no blocked message past a *)
(* missing approver; only recoverHistory goes round the two.               *)
THEOREM GateHoldsAlways == Spec => []GateHolds
<1>1. IInv => GateHolds
  BY DEF IInv, LogInv, ReplyInv, Allowed, GateHolds
<1> QED
  BY <1>1, InvariantHolds, PTL

(* A checkpoint, in memory, in the file or on its way there, is at a       *)
(* message of its conversation whose hook has returned, through deaths,    *)
(* overlapping flushes and starts that read the file over the memory.      *)
THEOREM CheckpointIsHandledAlways == Spec => []CheckpointIsHandled
<1>1. IInv => CheckpointIsHandled
  BY DEF IInv, MarksInv, AllMarks, Handled, CheckpointIsHandled
<1> QED
  BY <1>1, InvariantHolds, PTL

(* As long as no two flushState overlap, the state file says what the      *)
(* memory says whenever none is under way.                                 *)
THEOREM FileCurrentAlways == Spec => []FileCurrent
<1>1. IInv => FileCurrent
  BY DEF IInv, FileInv, FileSays, FileCurrent
<1> QED
  BY <1>1, InvariantHolds, PTL

(* Every handler, recovery and flush is of a message that was published,   *)
(* in every state of the gateway; the bounds cap what is published, the    *)
(* replies that are awaited counted when the agent gives them.             *)
THEOREM TypeCorrect == Spec => []TypeOK
<1>1. ASSUME TInv PROVE TypeOK
  <2> USE <1>1
  <2>1. FlagsInv /\ LogInv /\ RecoveryInv /\ MarksInv /\ FileInv /\ ReInv
    BY DEF TInv, IInv
  <2>2. PICK n \in Nat : n = Len(log) /\ n <= MaxIds /\ Ids = 1 .. n /\ Ids \subseteq 0 .. MaxIds
                         /\ MaxIds \in Nat
    BY LengthBound DEF Ids
  <2>3. \A m \in AllMarks : m \in Maps
    <3>1. ASSUME NEW m \in AllMarks, NEW u \in Users PROVE m[u] \in 0 .. MaxIds
      <4>1. m \in Marks /\ (m[u] # 0 => m[u] \in Ids)
        BY <2>1 DEF MarksInv, Handled
      <4>2. m[u] \in Nat /\ 0 \in 0 .. MaxIds
        BY <2>2, <4>1 DEF Marks
      <4> QED
        BY <2>2, <4>1, <4>2
    <3>2. \A m \in AllMarks : m \in Marks
      BY <2>1 DEF MarksInv
    <3> QED
      BY <3>1, <3>2 DEF Maps, Marks
  <2>4. marks \in Maps /\ file \subseteq Maps /\ \A w \in writing : w.map \in Maps
    BY <2>3 DEF AllMarks
  <2>5. \A w \in writing : w \in [by : 0 .. MaxIds, map : Maps]
    BY <2>1, <2>2, <2>4 DEF ReInv
  <2>6. Cardinality(file) <= 1
    <3>1. file = {} \/ \E m : file = {m}
      BY <2>1 DEF FileInv
    <3>2. Cardinality(file) = 0 \/ Cardinality(file) = 1
      BY <3>1, FS_EmptySet, FS_Singleton
    <3> QED
      BY <3>2
  <2>7. ASSUME NEW i \in Ids
        PROVE  log[i] \in [conv : Users, from : Senders, blocked : BOOLEAN,
                            re : 0 .. i - 1, stage : Stages]
    <3>1. log[i] \in Entry /\ log[i].re < i /\ i \in Nat
      BY <2>1, <2>2 DEF LogInv, ReInv, Ids
    <3> QED
      BY <3>1 DEF Entry
  <2>8. \A s \in Slots : /\ recovery[s].at \in {"idle", "next", "agent", "replying"}
                         /\ recovery[s].seen \subseteq Users
                         /\ recovery[s].queue \subseteq Ids
    BY <2>1 DEF RecoveryInv, RecoveryState, RecoveryAt
  <2>9. handled \subseteq Ids /\ recovered \subseteq Ids
    BY <2>1 DEF MarksInv, ReInv
  <2> QED
    BY <2>1, <2>2, <2>4, <2>5, <2>6, <2>7, <2>8, <2>9 DEF TypeOK, FlagsInv
<1> QED
  BY <1>1, TypesHold, PTL
================================================================================
