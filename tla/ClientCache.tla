---------------------------- MODULE ClientCache ----------------------------
(***************************************************************************)
(* The iOS client's copy of one conversation: LocalMessageStore (SQLite),  *)
(* the room on the screen (ChatRoomViewModel) and the live stream          *)
(* (RealtimeService), beside the backend's log.                            *)
(*                                                                         *)
(* A message is named by the seq the backend gives it.  A live message     *)
(* carries no seq and is kept with seq 0 until a history page replaces it. *)
(* Every handler runs on the main actor, so a step is what runs between    *)
(* two awaits; writes and reads of the store are serialised by its queue.  *)
(* A request is answered in one step: the log only grows, so a page read   *)
(* earlier is the page of a state in which fewer messages are stored.      *)
(* A view model lives on while its refresh or its pull is under way, even  *)
(* when its room has left the screen.                                      *)
(***************************************************************************)
EXTENDS Naturals, Sequences, FiniteSets

CONSTANTS Rooms,       \* view models, each opened once
          History,     \* messages stored before the client starts
          MaxLive,     \* bound: messages published afterwards
          MaxMeanwhile,\* bound: messages stored while a refresh is under way
          CreatedAt,   \* the second each message was sent in
          PageSize,    \* ChatRoomViewModel.pageSize
          Batch,       \* historyMaxCatchupBatch
          None

Messages == 1 .. History + MaxLive

ASSUME ClientAssumption ==
  /\ History \in Nat /\ MaxLive \in Nat /\ MaxMeanwhile \in Nat
  /\ CreatedAt \in [Messages -> Nat]
  /\ PageSize \in Nat \ {0} /\ Batch \in Nat \ {0}
  /\ None \notin Rooms

VARIABLES published, stored,  \* how many messages senders and backend are at
          connected,          \* the MQTT connection, with its subscription
          inbox,              \* live messages on their way on it
          cache,              \* table cached_messages
          open,               \* the room on the screen
          view,               \* ChatRoomViewModel.messages
          phase,              \* where the refresh of each room is
          after,              \* after_seq of its catch-up
          caught,             \* the catch-up page it holds
          pulling,            \* before_seq of the older page under way, or 0
          due,                \* history: stored when the refresh started
          overlap             \* history: opened during another room's refresh

log == <<published, stored>>
link == <<connected, inbox>>
room == <<open, phase, after, caught, pulling, due, overlap>>
vars == <<log, link, cache, view, room>>

Row == [msg : Messages, seq : Nat]
Live(m) == [msg |-> m, seq |-> 0]
Fetched(m) == [msg |-> m, seq |-> m]

Shown(S) == {r.msg : r \in S}

-----------------------------------------------------------------------------
(* Rows *)

\* Faulty: the copies of a message are told apart by their seq as well.
FaultyUpsert(S, T) == S \cup T

\* upsertMessagesLocked and mergeMessages: the newcomer replaces the old copy.
Upsert(S, T) == {r \in S : r.msg \notin Shown(T)} \cup T

\* sortMessages; among messages of one second the seq decides, then the id.
Before(q, r) ==
  \/ CreatedAt[q.msg] < CreatedAt[r.msg]
  \/ CreatedAt[q.msg] = CreatedAt[r.msg]
     /\ (q.seq < r.seq \/ (q.seq = r.seq /\ q.msg < r.msg))

\* messages.first?.seq, 0 where there is none.
FirstSeq(S) ==
  IF S = {} THEN 0 ELSE (CHOOSE r \in S : \A q \in S \ {r} : Before(r, q)).seq

\* recentMessages
RecentMessages == {r \in cache : Cardinality({q \in cache : Before(r, q)}) < PageSize}

\* Faulty: ascending order, as for the rows after a seq.
FaultyMessagesBefore(seq) ==
  LET older == {r \in cache : r.seq < seq} IN
  {r \in older : Cardinality({q \in older : Before(q, r)}) < PageSize}

\* messagesBefore: ORDER BY seq DESC LIMIT pageSize; rows that share a seq are
\* in no particular order, which is immaterial as far as they are on screen.
MessagesBefore(seq) ==
  LET older == {r \in cache : r.seq < seq}
      above(r) == {q \in older : q.seq > r.seq \/ (q.seq = r.seq /\ Before(r, q))}
  IN {r \in older : Cardinality(above(r)) < PageSize}

\* highestSequence, 0 where it is nil.
HighestSequence ==
  IF cache = {} THEN 0
  ELSE (CHOOSE r \in cache : \A q \in cache : q.seq <= r.seq).seq

\* The pages of HistoryReader, over the log 1 .. stored.
AfterSeq(seq) == {Fetched(m) : m \in {n \in 1 .. stored : seq < n /\ n <= seq + Batch}}
BeforeSeq(seq) == {Fetched(m) : m \in {n \in 1 .. stored : n < seq /\ n + PageSize >= seq}}
Latest == {Fetched(m) : m \in {n \in 1 .. stored : n + PageSize > stored}}

-----------------------------------------------------------------------------
(* Senders, backend, connection *)

\* A view model is there while its room is open or one of its tasks runs.
Running(r) == phase[r] \in {"starting", "catchup", "latest"} \/ pulling[r] > 0
Alive(r) == open = r \/ Running(r)

\* handleRealtimePayload, and handleIncomingMessage in every view model.
Receive(m) ==
  /\ cache' = Upsert(cache, {Live(m)})
  /\ view' = [r \in Rooms |->
                IF Alive(r) THEN Upsert(view[r], {Live(m)}) ELSE view[r]]

\* Somebody sends a message; the session is clean, so only a connected client
\* will get it.
Publish ==
  /\ published < History + MaxLive
  /\ published' = published + 1
  /\ inbox' = IF connected THEN Append(inbox, published + 1) ELSE inbox
  /\ UNCHANGED <<stored, connected, cache, view, room>>

\* The user sends one: it is in the cache and in the room before it is
\* published, and comes back on the subscription.  The input bar is disabled
\* without a connection.
SendMessage ==
  /\ open # None
  /\ connected
  /\ published < History + MaxLive
  /\ published' = published + 1
  /\ inbox' = Append(inbox, published + 1)
  /\ Receive(published + 1)
  /\ UNCHANGED <<stored, connected, room>>

\* The backend stores the next message.
Persist ==
  /\ stored < published
  /\ \A r \in Rooms :
       phase[r] \in {"catchup", "latest"} => stored < due[r] + MaxMeanwhile
  /\ stored' = stored + 1
  /\ UNCHANGED <<published, link, cache, view, room>>

Deliver ==
  /\ inbox # << >>
  /\ Receive(Head(inbox))
  /\ inbox' = Tail(inbox)
  /\ UNCHANGED <<log, connected, room>>

\* A new connection subscribes again and asks for no history.
Connect ==
  /\ ~ connected
  /\ connected' = TRUE
  /\ UNCHANGED <<log, inbox, cache, view, room>>

ConnectionLost ==
  /\ connected
  /\ connected' = FALSE
  /\ inbox' = << >>
  /\ UNCHANGED <<log, cache, view, room>>

-----------------------------------------------------------------------------
(* The room *)

\* onAppear: fetchMessages shows what is cached and creates the refresh task.
FetchMessages(r) ==
  /\ open = None
  /\ phase[r] = "new"
  /\ open' = r
  /\ view' = [view EXCEPT ![r] = RecentMessages]
  /\ phase' = [phase EXCEPT ![r] = "starting"]
  /\ overlap' = [overlap EXCEPT ![r] = \E q \in Rooms : Running(q)]
  /\ UNCHANGED <<log, link, cache, after, caught, pulling, due>>

\* onDisappear: the tasks of the view model go on.
Leave ==
  /\ open # None
  /\ open' = None
  /\ UNCHANGED <<log, link, cache, view, phase, after, caught, pulling, due,
                 overlap>>

\* Rows from the backend go to the cache and to the view model.
Store(r, rows) ==
  /\ cache' = Upsert(cache, rows)
  /\ view' = [view EXCEPT ![r] = Upsert(@, rows)]

\* With less than a page on the screen refreshLatestMessages asks for the
\* latest page as well; otherwise it is done with what the catch-up gave.
AfterCatchUp(r, rows) ==
  IF Cardinality(view[r]) < PageSize
  THEN /\ phase' = [phase EXCEPT ![r] = "latest"]
       /\ caught' = [caught EXCEPT ![r] = rows]
       /\ UNCHANGED <<cache, view>>
  ELSE /\ phase' = [phase EXCEPT ![r] = "done"]
       /\ Store(r, rows)
       /\ UNCHANGED caught

\* Faulty: the latest page is asked for without a catch-up.
FaultyStartRefresh(r) ==
  /\ phase[r] = "starting"
  /\ due' = [due EXCEPT ![r] = stored]
  /\ phase' = [phase EXCEPT ![r] = "latest"]
  /\ UNCHANGED <<log, link, cache, view, open, after, caught, pulling, overlap>>

\* refreshLatestMessages up to its first request.
StartRefresh(r) ==
  /\ phase[r] = "starting"
  /\ due' = [due EXCEPT ![r] = stored]
  /\ IF HighestSequence > 0
     THEN /\ phase' = [phase EXCEPT ![r] = "catchup"]
          /\ after' = [after EXCEPT ![r] = HighestSequence]
          /\ UNCHANGED <<cache, view, caught>>
     ELSE AfterCatchUp(r, {}) /\ UNCHANGED after
  /\ UNCHANGED <<log, link, open, pulling, overlap>>

CatchUpAnswered(r) ==
  /\ phase[r] = "catchup"
  /\ AfterCatchUp(r, AfterSeq(after[r]))
  /\ UNCHANGED <<log, link, open, after, pulling, due, overlap>>

\* Faulty: the latest page takes the place of the catch-up page.
FaultyLatestAnswered(r) ==
  /\ phase[r] = "latest"
  /\ Store(r, Latest)
  /\ phase' = [phase EXCEPT ![r] = "done"]
  /\ caught' = [caught EXCEPT ![r] = {}]
  /\ UNCHANGED <<log, link, open, after, pulling, due, overlap>>

\* Both pages are kept together.
LatestAnswered(r) ==
  /\ phase[r] = "latest"
  /\ Store(r, Upsert(caught[r], Latest))
  /\ phase' = [phase EXCEPT ![r] = "done"]
  /\ caught' = [caught EXCEPT ![r] = {}]
  /\ UNCHANGED <<log, link, open, after, pulling, due, overlap>>

\* A request fails: what the refresh has fetched so far is lost with it.
RefreshFailed(r) ==
  /\ phase[r] \in {"catchup", "latest"}
  /\ phase' = [phase EXCEPT ![r] = "failed"]
  /\ caught' = [caught EXCEPT ![r] = {}]
  /\ UNCHANGED <<log, link, cache, view, open, after, pulling, due, overlap>>

\* The user pulls: loadOlderMessages shows the older rows of the cache, and
\* asks the backend if they do not make a page.
LoadOlder(r) ==
  LET before == FirstSeq(view[r])
      local == MessagesBefore(before)
  IN /\ open = r
     /\ pulling[r] = 0
     /\ before > 1
     /\ view' = [view EXCEPT ![r] = Upsert(@, local)]
     /\ pulling' = [pulling EXCEPT
          ![r] = IF Cardinality(local) < PageSize THEN before ELSE 0]
     /\ UNCHANGED <<log, link, cache, open, phase, after, caught, due, overlap>>

OlderAnswered(r) ==
  /\ pulling[r] > 0
  /\ Store(r, BeforeSeq(pulling[r]))
  /\ pulling' = [pulling EXCEPT ![r] = 0]
  /\ UNCHANGED <<log, link, open, phase, after, caught, due, overlap>>

OlderFailed(r) ==
  /\ pulling[r] > 0
  /\ pulling' = [pulling EXCEPT ![r] = 0]
  /\ UNCHANGED <<log, link, cache, view, open, phase, after, caught, due,
                 overlap>>

-----------------------------------------------------------------------------
Init ==
  /\ published = History /\ stored = History
  /\ connected = FALSE /\ inbox = << >>
  /\ cache = {}
  /\ open = None
  /\ view = [r \in Rooms |-> {}]
  /\ phase = [r \in Rooms |-> "new"]
  /\ after = [r \in Rooms |-> 0]
  /\ caught = [r \in Rooms |-> {}]
  /\ pulling = [r \in Rooms |-> 0]
  /\ due = [r \in Rooms |-> 0]
  /\ overlap = [r \in Rooms |-> FALSE]

Next ==
  \/ Publish \/ SendMessage \/ Persist
  \/ Connect \/ ConnectionLost \/ Deliver
  \/ Leave
  \/ \E r \in Rooms :
       \/ FetchMessages(r) \/ StartRefresh(r) \/ CatchUpAnswered(r)
       \/ LatestAnswered(r) \/ RefreshFailed(r)
       \/ LoadOlder(r) \/ OlderAnswered(r) \/ OlderFailed(r)

Spec == Init /\ [][Next]_vars

-----------------------------------------------------------------------------
(* Properties *)

\* Every variable has its type; the cache and every view hold one copy of a
\* message (the primary key, the dictionary in mergeMessages).
TypeOK ==
  /\ published \in Messages \cup {0} /\ stored \in 0 .. published
  /\ connected \in BOOLEAN /\ inbox \in Seq(Messages)
  /\ open \in Rooms \cup {None}
  /\ phase \in [Rooms -> {"new", "starting", "catchup", "latest", "done", "failed"}]
  /\ after \in [Rooms -> Nat] /\ pulling \in [Rooms -> Nat]
  /\ due \in [Rooms -> Nat] /\ overlap \in [Rooms -> BOOLEAN]
  /\ \A S \in {cache} \cup {view[r] : r \in Rooms} \cup {caught[r] : r \in Rooms} :
       S \subseteq Row /\ \A q, r \in S : q.msg = r.msg => q = r

\* The cache has no hole that a later catch-up, which starts at its highest
\* seq, would never fill: between two messages that carry a seq every message
\* is cached (refreshLatestMessages, loadOlderMessages).  For this a batch must
\* hold all that was missed, and no more than a page may be stored while a
\* refresh is under way (MaxMeanwhile).
NoHole ==
  \A q, r \in cache : q.seq > 0 /\ r.seq > q.seq =>
    q.seq .. r.seq \subseteq Shown(cache)

\* A room shows what is cached: above a message on the screen that carries a
\* seq no message with a higher one is missing, whatever live messages,
\* refreshes and pulls were interleaved since the room was opened.  (A live copy
\* that comes late, with seq 0, may stand above a gap: it is sorted by its time
\* and brings no neighbours.)  It need not hold for a room opened while the
\* refresh of an earlier one was under way (overlap): its catch-up may begin
\* after rows it does not show.
RoomShowsCache ==
  open # None /\ ~ overlap[open] =>
    \A r \in cache, q \in view[open] :
      0 < q.seq /\ q.seq < r.seq => r.msg \in Shown(view[open])

\* A refresh that found a seq to start from and ended without an error shows
\* everything the backend had stored after it, with what came live meanwhile
\* (refreshLatestMessages).
CatchUpShown ==
  open # None /\ phase[open] = "done" /\ after[open] > 0 =>
    after[open] + 1 .. due[open] \subseteq Shown(view[open])
=============================================================================
