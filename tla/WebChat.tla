------------------------------ MODULE WebChat ------------------------------
(***************************************************************************)
(* The web client: one user, one conversation of the side list, seen from  *)
(* ChatContext (conversation list, messages, cursor of the catch-up), the  *)
(* MQTT client below it, the session of AuthContext and the lock of the    *)
(* composer.  Live messages carry no seq; only pages of the history do.    *)
(*                                                                         *)
(* A page is requested, answered by the server and applied in three steps, *)
(* and any number of things may happen in between, a logout included.      *)
(* The server's side is small: the broker accepts, the backend stores in   *)
(* the order of acceptance, seq is the position in log.                    *)
(* Several conversations are independent of each other (their topics,      *)
(* cursors and pages are separate), so one is enough.                      *)
(***************************************************************************)
EXTENDS Naturals, Sequences, FiniteSets, SequencesExt

CONSTANTS Own, Others,  \* messages of this user in the conversation, and the rest
          PageSize,     \* messages of the latest page (50)
          Batch,        \* max_catchup_batch (200)
          MaxCalls,     \* bound: history requests at one time
          MaxLogins,    \* bound: sessions
          MaxDrops,     \* bound: lost connections and reconnects by hand
          MaxClicks     \* bound: openings of the conversation and list refreshes

ASSUME WebChatAssumption ==
  /\ Own \cap Others = {}
  /\ PageSize \in Nat \ {0} /\ Batch \in Nat \ {0}
  /\ {MaxCalls, MaxLogins, MaxDrops, MaxClicks} \subseteq Nat

VARIABLES
  log, saved,       \* what the broker accepted; how much of it is stored
  session, logins,  \* AuthContext: "out" or "in"; which session it is
  boot,             \* realtimeBootstrap: "none", or whether it lists the topic
  raw, listed,      \* is it in rawConversations ("unknown" before the answer);
                    \* in conversations ("draft" without last_message, else
                    \* "titled")
  current,          \* currentConversation is this one
  link,             \* the MQTT client: "idle", "connecting", "open", "retrying"
  granted,          \* the broker has the subscription of this connection
  arriving,         \* live messages on their way
  everConnected,    \* hasConnectedOnceRef
  view,             \* message -> how the conversation shows it
  cursor,           \* lastSeqByConversationRef, 0 when it has no entry
  calls,            \* history requests on their way; of two equal ones, one
  sending,          \* what the composer is sending, and how far it is
  drops, clicks,
  low, jumped, late, dropped   \* history: first seq of the pages of the
                    \* session, a latest page did not adjoin them, an answer of
                    \* another session was applied, the list lost the room

server == <<log, saved>>
list == <<raw, listed, current, dropped>>
conn == <<link, granted, arriving, everConnected, drops>>
shown == <<view, cursor, low, jumped, late>>
vars == <<log, saved, session, logins, boot, raw, listed, current, link,
          granted, arriving, everConnected, view, cursor, calls, sending,
          drops, clicks, low, jumped, late, dropped>>

Messages == Own \cup Others
Nothing == [msg |-> {}, step |-> "none"]
Latest(n) == {i \in 1 .. saved : i + n > saved}
After(k, n) == {i \in 1 .. saved : i > k /\ i <= k + n}
Low(S) == CHOOSE i \in S : \A j \in S : i <= j
High(S) == CHOOSE i \in S : \A j \in S : i >= j

\* The topics the subscription effect keeps: those of the bootstrap and those
\* of the listed conversations.
Wanted == boot = "with" \/ (boot = "without" /\ listed # "no")

\* The messages an arriving copy or page brings lose pending and failed.
Merged(S) == [m \in Messages |-> IF m \in S THEN "shown" ELSE view[m]]

Titled(l) == IF l = "no" THEN "no" ELSE "titled"

Call(kind, after) ==
  [kind |-> kind, after |-> after, login |-> logins, state |-> "asked", page |-> {}]

-----------------------------------------------------------------------------
(* History requests *)

Ask(kind) ==
  /\ calls' = calls \cup {Call(kind, IF kind = "after" THEN cursor ELSE 0)}
  /\ Cardinality(calls') <= MaxCalls

Answer(c) ==
  /\ c.state = "asked"
  /\ calls' = (calls \ {c}) \cup
       {[c EXCEPT !.state = "answered",
                  !.page = IF c.kind = "latest" THEN Latest(PageSize)
                           ELSE After(c.after, Batch)]}
  /\ UNCHANGED <<server, session, logins, boot, list, conn, shown, sending, clicks>>

\* Faulty: the cursor is the next seq expected.
FaultyNewCursor(c) == High(c.page) + 1

\* The highest seq of the page, whatever the cursor has become since.
NewCursor(c) == High(c.page)

\* The page begins above the cursor, or ends below what the session's pages hold.
Apart(page) == cursor > 0 /\ (Low(page) > cursor + 1 \/ High(page) + 1 < low)

\* The answer is merged into the messages and moves the cursor; nothing looks
\* at the session or at the cursor again.  An empty page changes nothing.
Apply(c) ==
  /\ c.state = "answered"
  /\ calls' = calls \ {c}
  /\ IF c.page = {} THEN UNCHANGED shown
     ELSE /\ view' = Merged({log[i] : i \in c.page})
          /\ cursor' = NewCursor(c)
          /\ low' = IF low = 0 \/ Low(c.page) < low THEN Low(c.page) ELSE low
          /\ jumped' = (jumped \/ (c.kind = "latest" /\ Apart(c.page)))
          /\ late' = (late \/ c.login # logins \/ session = "out")
  /\ UNCHANGED <<server, session, logins, boot, list, conn, sending, clicks>>

-----------------------------------------------------------------------------
(* Conversation list *)

\* Faulty: drafts are not kept.
FaultyRelisted(inRaw) == IF inRaw THEN "titled" ELSE "no"

\* The list is computed anew from rawConversations and the drafts.
Relisted(inRaw) ==
  IF inRaw THEN "titled" ELSE IF listed = "draft" THEN "draft" ELSE "no"

Recompute(r) ==
  /\ raw' = r
  /\ listed' = Relisted(r = "with")
  /\ dropped' = (dropped \/ (listed = "titled" /\ r # "with"))
  /\ granted' = (granted /\ (boot = "with" \/ listed' # "no"))
  /\ UNCHANGED <<current, link, arriving, everConnected, drops>>

\* GET /conversations of the login: what is stored by now.
ConversationsAnswered ==
  /\ session = "in" /\ raw = "unknown"
  /\ Recompute(IF saved > 0 THEN "with" ELSE "without")
  /\ UNCHANGED <<server, session, logins, boot, shown, calls, sending, clicks>>

\* refreshBots() or refreshGroups() of a page: the list is computed from the
\* rawConversations of the login, and the open conversation is read again.
RefreshBots ==
  /\ session = "in"
  /\ clicks < MaxClicks
  /\ clicks' = clicks + 1
  /\ Recompute(raw)
  /\ IF current /\ listed # "no" THEN Ask("latest") ELSE UNCHANGED calls
  /\ UNCHANGED <<server, session, logins, boot, shown, sending>>

\* A click: the conversation joins the list as a draft unless it is there, and
\* the page's effect asks for its messages.  The effect runs before the one
\* that updates conversationsRef, so a new draft is not found and not read.
OpenConversation ==
  /\ session = "in"
  /\ clicks < MaxClicks
  /\ clicks' = clicks + 1
  /\ current' = TRUE
  /\ listed' = IF listed = "no" THEN "draft" ELSE listed
  /\ dropped' = (dropped /\ listed # "no")
  /\ IF listed # "no" /\ ~ current THEN Ask("latest") ELSE UNCHANGED calls
  /\ UNCHANGED <<server, session, logins, boot, raw, conn, shown, sending>>

-----------------------------------------------------------------------------
(* Connection *)

\* Faulty: the client takes a failed publish for a finished one.
FaultyFailing == IF sending.step = "none" THEN view
                 ELSE [m \in Messages |-> IF m \in sending.msg THEN "shown" ELSE view[m]]

\* The publish in the hands of an ended client fails: pending becomes failed.
Failing == IF sending.step = "none" THEN view
           ELSE [m \in Messages |->
                   IF m \in sending.msg /\ view[m] # "absent" THEN "failed" ELSE view[m]]

\* realtimeApi.bootstrap() returns; the effect connects.
Bootstrap ==
  /\ session = "in" /\ boot = "none"
  /\ boot' = IF saved > 0 THEN "with" ELSE "without"
  /\ link' = "connecting"
  /\ UNCHANGED <<server, session, logins, list, granted, arriving, everConnected,
                 drops, shown, calls, sending, clicks>>

\* Faulty: a reconnect asks for nothing.
FaultyConnected ==
  /\ link \in {"connecting", "retrying"}
  /\ link' = "open"
  /\ everConnected' = TRUE
  /\ sending' = [sending EXCEPT !.step = IF @ = "connecting" THEN "waiting" ELSE @]
  /\ UNCHANGED <<server, session, logins, boot, list, granted, arriving, drops,
                 shown, calls, clicks>>

\* 'connect': the state handler catches up (not on the first connection, and
\* only with a cursor); then the topics are subscribed.  A publish that waits
\* for the connection goes on, one in flight is sent again.
Connected ==
  /\ link \in {"connecting", "retrying"}
  /\ link' = "open"
  /\ everConnected' = TRUE
  /\ IF everConnected /\ cursor > 0 /\ listed # "no"
     THEN Ask("after") ELSE UNCHANGED calls
  /\ sending' = [sending EXCEPT !.step = IF @ = "connecting" THEN "waiting" ELSE @]
  /\ UNCHANGED <<server, session, logins, boot, list, granted, arriving, drops,
                 shown, clicks>>

\* The broker has handled SUBSCRIBE.
Subscribed ==
  /\ link = "open" /\ Wanted /\ ~ granted
  /\ granted' = TRUE
  /\ UNCHANGED <<server, session, logins, boot, list, link, arriving,
                 everConnected, drops, shown, calls, sending, clicks>>

\* The client reconnects by itself.  What was arriving is gone, and a publish
\* without its acknowledgement will be sent again.
ConnectionLost ==
  /\ link = "open" /\ drops < MaxDrops
  /\ drops' = drops + 1
  /\ link' = "retrying" /\ granted' = FALSE /\ arriving' = << >>
  /\ sending' = [sending EXCEPT !.step = IF @ = "accepted" THEN "waiting" ELSE @]
  /\ UNCHANGED <<server, session, logins, boot, list, everConnected, shown, calls,
                 clicks>>

\* reconnectNow: the client is ended and a new one made.
ReconnectNow ==
  /\ link # "idle" /\ session = "in" /\ drops < MaxDrops
  /\ drops' = drops + 1
  /\ link' = "connecting" /\ granted' = FALSE /\ arriving' = << >>
  /\ view' = Failing /\ sending' = Nothing
  /\ UNCHANGED <<server, session, logins, boot, list, everConnected, cursor, low,
                 jumped, late, calls, clicks>>

\* The first error of a new client rejects connect(), and with it the publish
\* that waits; the client goes on trying.
ConnectError ==
  /\ link = "connecting" /\ drops < MaxDrops
  /\ drops' = drops + 1
  /\ link' = "retrying"
  /\ IF sending.step = "connecting"
     THEN view' = Failing /\ sending' = Nothing ELSE UNCHANGED <<view, sending>>
  /\ UNCHANGED <<server, session, logins, boot, list, granted, arriving,
                 everConnected, cursor, low, jumped, late, calls, clicks>>

-----------------------------------------------------------------------------
(* Messages *)

Accept(m) ==
  /\ log' = IF m \in ToSet(log) THEN log ELSE Append(log, m)
  /\ arriving' = IF granted THEN Append(arriving, m) ELSE arriving

OtherMessage(m) ==
  /\ m \notin ToSet(log)
  /\ Accept(m)
  /\ UNCHANGED <<saved, session, logins, boot, list, link, granted, everConnected,
                 drops, shown, calls, sending, clicks>>

Persist ==
  /\ saved < Len(log)
  /\ saved' = saved + 1
  /\ UNCHANGED <<log, session, logins, boot, list, conn, shown, calls, sending, clicks>>

\* Faulty: a live message moves the cursor to where it is stored.
FaultyDeliver ==
  /\ arriving # << >>
  /\ arriving' = Tail(arriving)
  /\ IF Wanted
     THEN /\ view' = Merged({Head(arriving)}) /\ listed' = "titled"
          /\ cursor' = High({cursor} \cup {i \in 1 .. saved : log[i] = Head(arriving)})
     ELSE UNCHANGED <<view, listed, cursor>>
  /\ UNCHANGED <<server, session, logins, boot, raw, current, dropped, link,
                 granted, everConnected, drops, low, jumped, late, calls, sending,
                 clicks>>

\* The handler of the topic, if it is still there: an unknown conversation is
\* listed, and the message is its last one.
Deliver ==
  /\ arriving # << >>
  /\ arriving' = Tail(arriving)
  /\ IF Wanted THEN view' = Merged({Head(arriving)}) /\ listed' = "titled"
     ELSE UNCHANGED <<view, listed>>
  /\ UNCHANGED <<server, session, logins, boot, raw, current, dropped, link,
                 granted, everConnected, drops, cursor, low, jumped, late, calls,
                 sending, clicks>>

\* sendMessage: the optimistic copy, then publish(), which connects anew when
\* the client is not connected.  The composer sends one at a time.
Send(m) ==
  /\ session = "in" /\ current /\ boot # "none"
  /\ sending.step = "none" /\ view[m] = "absent" /\ m \notin ToSet(log)
  /\ view' = [view EXCEPT ![m] = "pending"]
  /\ listed' = Titled(listed)
  /\ sending' = [msg |-> {m}, step |-> IF link = "open" THEN "waiting" ELSE "connecting"]
  /\ link' = IF link = "open" THEN "open" ELSE "connecting"
  /\ UNCHANGED <<server, session, logins, boot, raw, current, dropped, granted,
                 arriving, everConnected, drops, cursor, low, jumped, late, calls,
                 clicks>>

\* The broker takes it, after the SUBSCRIBE that went before it.
Accepted ==
  /\ sending.step = "waiting" /\ link = "open" /\ (Wanted => granted)
  /\ \E m \in sending.msg : Accept(m)
  /\ sending' = [sending EXCEPT !.step = "accepted"]
  /\ UNCHANGED <<saved, session, logins, boot, list, link, granted, everConnected,
                 drops, shown, calls, clicks>>

\* PUBACK: publish() returns and the composer is free; the message stays
\* pending until its echo or a page shows it.
Acked ==
  /\ sending.step = "accepted" /\ link = "open"
  /\ sending' = Nothing
  /\ UNCHANGED <<server, session, logins, boot, list, conn, shown, calls, clicks>>

-----------------------------------------------------------------------------
(* Session *)

Login ==
  /\ session = "out" /\ logins < MaxLogins
  /\ session' = "in" /\ logins' = logins + 1
  /\ UNCHANGED <<server, boot, list, conn, shown, calls, sending, clicks>>

\* logout(): the effect empties everything and ends the client; requests on
\* their way are not cancelled.
Logout ==
  /\ session = "in"
  /\ session' = "out"
  /\ boot' = "none" /\ raw' = "unknown" /\ listed' = "no" /\ current' = FALSE
  /\ link' = "idle" /\ granted' = FALSE /\ arriving' = << >> /\ everConnected' = FALSE
  /\ view' = [m \in Messages |-> "absent"]
  /\ cursor' = 0 /\ low' = 0 /\ jumped' = FALSE /\ late' = FALSE /\ dropped' = FALSE
  /\ sending' = Nothing
  /\ UNCHANGED <<server, logins, calls, drops, clicks>>

-----------------------------------------------------------------------------
Init ==
  /\ log = << >> /\ saved = 0
  /\ session = "out" /\ logins = 0 /\ boot = "none"
  /\ raw = "unknown" /\ listed = "no" /\ current = FALSE
  /\ link = "idle" /\ granted = FALSE /\ arriving = << >> /\ everConnected = FALSE
  /\ view = [m \in Messages |-> "absent"]
  /\ cursor = 0 /\ calls = {} /\ sending = Nothing
  /\ drops = 0 /\ clicks = 0
  /\ low = 0 /\ jumped = FALSE /\ late = FALSE /\ dropped = FALSE

Next ==
  \/ \E c \in calls : Answer(c) \/ Apply(c)
  \/ ConversationsAnswered \/ RefreshBots \/ OpenConversation
  \/ Bootstrap \/ Connected \/ Subscribed
  \/ ConnectionLost \/ ReconnectNow \/ ConnectError
  \/ (\E m \in Others : OtherMessage(m)) \/ Persist \/ Deliver
  \/ (\E m \in Own : Send(m)) \/ Accepted \/ Acked
  \/ Login \/ Logout

Spec == Init /\ [][Next]_vars

\* The client retries by itself, the broker answers, requests end.
Fairness ==
  /\ WF_vars(Connected) /\ WF_vars(Subscribed)
  /\ WF_vars(\E c \in calls : Answer(c) \/ Apply(c))

FairSpec == Spec /\ Fairness

-----------------------------------------------------------------------------
(* Properties *)

\* Every variable has its type.
TypeOK ==
  /\ log \in Seq(Messages) /\ saved \in 0 .. Len(log)
  /\ session \in {"out", "in"} /\ logins \in 0 .. MaxLogins
  /\ boot \in {"none", "with", "without"}
  /\ raw \in {"unknown", "with", "without"}
  /\ listed \in {"no", "draft", "titled"}
  /\ link \in {"idle", "connecting", "open", "retrying"}
  /\ {current, granted, everConnected, jumped, late, dropped} \subseteq BOOLEAN
  /\ arriving \in Seq(Messages)
  /\ view \in [Messages -> {"absent", "pending", "failed", "shown"}]
  /\ cursor \in 0 .. saved /\ low \in 0 .. cursor
  /\ sending.step \in {"none", "connecting", "waiting", "accepted"}
  /\ drops \in 0 .. MaxDrops /\ clicks \in 0 .. MaxClicks

\* Between the first page and the cursor nothing is missing, although pages are
\* applied late, out of order and beside live messages: a catch-up that starts
\* at the cursor leaves no hole behind.  Excepted are a latest page that does
\* not adjoin what there is (it begins above the cursor, or was asked long ago
\* and takes the cursor back below the first page), and answers to requests of
\* an earlier session.
NoHole ==
  ~ jumped /\ ~ late /\ low > 0 =>
    \A i \in low .. cursor : view[log[i]] # "absent"

\* A message that is neither pending nor failed has reached the broker.
ShownIsSent == \A m \in Own : view[m] = "shown" => m \in ToSet(log)

\* The open conversation keeps its topic, unless the list has been computed
\* from rawConversations that are older than the conversation.
OpenIsHeard == current /\ boot # "none" /\ ~ dropped => Wanted

\* A message stored above the cursor while the connection is lost, and still
\* pending, is settled by the catch-up that follows.  The exceptions are those of
\* NoHole: a latest page asked before and answered late may take the cursor past
\* the message, and then no catch-up asks for it.
PendingSettles ==
  \A m \in Own :
    (view[m] = "pending" /\ (\E i \in cursor + 1 .. saved : log[i] = m)
       /\ link = "retrying" /\ everConnected /\ cursor > 0 /\ listed # "no")
    ~> (view[m] # "pending" \/ session = "out" \/ listed = "no" \/ jumped \/ late)
=============================================================================
