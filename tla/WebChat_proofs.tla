----------------------------- MODULE WebChat_proofs -----------------------------
(***************************************************************************)
(* Proofs about WebChat, for any messages, page sizes and bounds: what the *)
(* web client shows has been sent, the open conversation is listened to,   *)
(* and no hole opens between its first page and its cursor.                *)
(*                                                                         *)
(* The argument for the hole: a catch-up page begins at the cursor of the  *)
(* time it was asked (PageInv), and up to there everything has been shown  *)
(* since (CallCovered), although the cursor may be elsewhere by now.       *)
(***************************************************************************)
EXTENDS WebChat, WellFoundedInduction, TLAPS

\* The records of sending and calls, whose fields TypeOK does not list.
Sending ==
  [msg : SUBSET Own, step : {"none", "connecting", "waiting", "accepted"}]
Calls ==
  [kind : {"latest", "after"}, after : Nat, login : Nat,
   state : {"asked", "answered"}, page : SUBSET Nat]

Types ==
  /\ TypeOK
  /\ sending \in Sending
  /\ calls \subseteq Calls /\ \A c \in calls : c.login <= logins

NoGap(P) == P \subseteq 1 .. saved /\ \A i, j \in P : \A k \in i .. j : k \in P

\* A page has no gap; that of a catch-up begins right after the cursor it names.
PageInv(c) ==
  /\ NoGap(c.page)
  /\ c.kind = "after" =>
       \A i \in c.page : i > c.after /\ \A k \in c.after + 1 .. i : k \in c.page

\* What is shown, or on its way to be shown, has reached the broker.
Sent ==
  /\ ShownIsSent
  /\ \A i \in DOMAIN arriving : arriving[i] \in ToSet(log)

\* The open conversation is listed until the list drops it.
Heard == current /\ ~ dropped => listed # "no"

Covered(a, b) == \A i \in a .. b : view[log[i]] # "absent"

\* A catch-up of this session asks from where nothing was missing.
CallCovered(c) ==
  c.kind = "after" /\ session = "in" /\ c.login = logins =>
    /\ low > 0
    /\ ~ jumped /\ ~ late =>
         low <= c.after /\ c.after <= saved /\ Covered(low, c.after)

Cover ==
  /\ low = 0 <=> cursor = 0
  /\ NoHole
  /\ \A c \in calls : CallCovered(c)

IInv == Types /\ (\A c \in calls : PageInv(c)) /\ Sent /\ Heard /\ Cover

-----------------------------------------------------------------------------
(* Pages and the log *)

\* A set of numbers up to n that is not empty has a least and a greatest one.
LEMMA EndsExist ==
  ASSUME NEW n \in Nat, NEW T, T \subseteq 1 .. n, T # {}
  PROVE  (\E m \in T : \A k \in T : m <= k) /\ (\E m \in T : \A k \in T : m >= k)
<1>1. ASSUME NEW S, S \subseteq Nat, S # {} PROVE \E m \in S : \A k \in S : m <= k
  <2>1. \E m \in S : \A k \in S : ~ (<<k, m>> \in OpToRel(<, Nat))
    BY <1>1, WFMin, NatLessThanWellFounded
  <2>2. \A m, k \in Nat : ~ (<<k, m>> \in OpToRel(<, Nat)) => m <= k
    BY DEF OpToRel
  <2> QED
    BY <1>1, <2>1, <2>2
<1> DEFINE mirrored == {n - k : k \in T}
<1>2. mirrored \subseteq Nat /\ mirrored # {}
  <2>1. \A k \in T : n - k \in Nat
    OBVIOUS
  <2> QED
    BY <2>1
<1>3. PICK d \in mirrored : \A e \in mirrored : d <= e
  <2> HIDE DEF mirrored
  <2> QED
    BY <1>1, <1>2
<1>4. PICK m \in T : d = n - m
  OBVIOUS
<1>5. ASSUME NEW k \in T PROVE m >= k
  <2>1. n - m <= n - k
    BY <1>3, <1>4
  <2> QED
    BY <2>1
<1>6. T \subseteq Nat
  OBVIOUS
<1> QED
  BY <1>1, <1>5, <1>6

LEMMA Ends ==
  ASSUME NEW n \in Nat, NEW P, P \subseteq 1 .. n, P # {}
  PROVE  /\ Low(P) \in P /\ High(P) \in P
         /\ \A k \in P : Low(P) <= k /\ k <= High(P)
<1>1. (\E m \in P : \A k \in P : m <= k) /\ (\E m \in P : \A k \in P : m >= k)
  BY EndsExist
<1>2. Low(P) \in P /\ \A k \in P : Low(P) <= k
  BY <1>1 DEF Low
<1>3. High(P) \in P /\ \A k \in P : High(P) >= k
  BY <1>1 DEF High
<1>4. P \subseteq Nat
  OBVIOUS
<1> QED
  BY <1>2, <1>3, <1>4

\* What a history query returns is a page in the sense of PageInv.
LEMMA PagesHaveNoGap ==
  ASSUME Types, NEW k \in Nat, NEW n \in Nat
  PROVE  /\ NoGap(Latest(n)) /\ NoGap(After(k, n))
         /\ \A i \in After(k, n) : i > k /\ \A h \in k + 1 .. i : h \in After(k, n)
<1>1. saved \in Nat
  BY DEF Types, TypeOK
<1> QED
  BY <1>1 DEF NoGap, Latest, After

\* The log only grows.
LogGrows ==
  /\ log' \in Seq(Messages) /\ saved' \in 0 .. Len(log') /\ saved <= saved'
  /\ Len(log) <= Len(log') /\ \A i \in 1 .. Len(log) : log'[i] = log[i]

LEMMA AcceptGrows ==
  ASSUME Types, NEW m \in Messages, Accept(m), saved' = saved
  PROVE  /\ LogGrows /\ m \in ToSet(log')
         /\ arriving' \in Seq(Messages)
         /\ \A i \in DOMAIN arriving' : arriving'[i] \in {m} \cup ToSet(arriving)
<1>1. log \in Seq(Messages) /\ saved \in 0 .. Len(log) /\ arriving \in Seq(Messages)
  BY DEF Types, TypeOK
<1>2. LogGrows /\ m \in ToSet(log')
  <2>1. CASE m \in ToSet(log)
    BY <1>1, <2>1 DEF Accept, LogGrows
  <2>2. CASE log' = Append(log, m)
    BY <1>1, <2>2 DEF LogGrows, ToSet
  <2> QED
    BY <2>1, <2>2 DEF Accept
<1>3. /\ arriving' \in Seq(Messages)
      /\ \A i \in DOMAIN arriving' : arriving'[i] \in {m} \cup ToSet(arriving)
  BY <1>1 DEF Accept, ToSet
<1> QED
  BY <1>2, <1>3

-----------------------------------------------------------------------------
(* Types *)

\* A new request is a request, and belongs to a session that has begun.
LEMMA AskTypes ==
  ASSUME Types, NEW kind \in {"latest", "after"}, Ask(kind)
  PROVE  calls' \subseteq Calls /\ \A c \in calls' : c.login <= logins
<1>1. cursor \in Nat /\ logins \in Nat
  BY WebChatAssumption DEF Types, TypeOK
<1>2. Call(kind, IF kind = "after" THEN cursor ELSE 0) \in Calls
  BY <1>1 DEF Call, Calls
<1> QED
  BY <1>1, <1>2 DEF Ask, Call, Types, Calls

LEMMA AnswerTypes ==
  ASSUME Types, NEW c \in calls, Answer(c)
  PROVE  Types'
<1>1. saved \in Nat /\ c.after \in Nat /\ PageSize \in Nat /\ Batch \in Nat
  BY WebChatAssumption DEF Types, Calls, TypeOK
<1>2. Latest(PageSize) \subseteq Nat /\ After(c.after, Batch) \subseteq Nat
  BY <1>1 DEF Latest, After
<1>3. PICK page \in SUBSET Nat :
        calls' = (calls \ {c}) \cup {[c EXCEPT !.state = "answered", !.page = page]}
  BY <1>2 DEF Answer
<1>4. /\ calls' \subseteq Calls
      /\ \A d \in calls' : d.login <= logins
  BY <1>3 DEF Types, Calls
<1>5. UNCHANGED <<server, session, logins, boot, list, conn, shown, sending, clicks>>
  BY DEF Answer
<1> QED
  BY <1>4, <1>5 DEF Types, TypeOK, server, list, conn, shown

LEMMA ApplyTypes ==
  ASSUME Types, NEW c \in calls, PageInv(c), Apply(c)
  PROVE  Types'
<1>1. UNCHANGED <<server, session, logins, boot, list, conn, sending, clicks>>
  BY DEF Apply
<1>2. /\ view' \in [Messages -> {"absent", "pending", "failed", "shown"}]
      /\ cursor' \in 0 .. saved /\ low' \in 0 .. cursor'
      /\ {jumped', late'} \subseteq BOOLEAN
  <2>1. CASE c.page = {}
    BY <2>1 DEF Apply, shown, Types, TypeOK
  <2>2. CASE c.page # {}
    <3>1. saved \in Nat /\ c.page \subseteq 1 .. saved
      BY DEF Types, TypeOK, PageInv, NoGap
    <3>2. /\ Low(c.page) \in c.page /\ High(c.page) \in c.page
          /\ Low(c.page) <= High(c.page)
      BY <2>2, <3>1, Ends
    <3>3. cursor' = High(c.page)
          /\ low' = IF low = 0 \/ Low(c.page) < low THEN Low(c.page) ELSE low
      BY <2>2 DEF Apply, NewCursor
    <3>4. cursor' \in 0 .. saved /\ low' \in 0 .. cursor'
      BY <3>1, <3>2, <3>3 DEF Types, TypeOK
    <3>5. view' \in [Messages -> {"absent", "pending", "failed", "shown"}]
      BY <2>2 DEF Apply, Merged, Types, TypeOK
    <3>6. {jumped', late'} \subseteq BOOLEAN
      BY <2>2 DEF Apply
    <3> QED
      BY <3>4, <3>5, <3>6
  <2> QED
    BY <2>1, <2>2
<1>3. calls' \subseteq calls
  BY DEF Apply
<1> QED
  BY <1>1, <1>2, <1>3 DEF Types, TypeOK, server, list, conn

LEMMA TypesStep ==
  ASSUME Types, \A c \in calls : PageInv(c), [Next]_vars
  PROVE  Types'
<1> USE WebChatAssumption
<1>a. << >> \in Seq(Messages)
  OBVIOUS
<1>1. CASE UNCHANGED vars
  BY <1>1 DEF vars, Types, TypeOK, server, list, conn, shown
<1>2. CASE ConversationsAnswered
  BY <1>2
     DEF ConversationsAnswered, Recompute, Relisted, Types, TypeOK, server,
         list, conn, shown
<1>3. CASE Bootstrap
  BY <1>3 DEF Bootstrap, Types, TypeOK, server, list, conn, shown
<1>4. CASE Subscribed
  BY <1>4 DEF Subscribed, Types, TypeOK, server, list, conn, shown
<1>5. CASE Persist
  BY <1>5 DEF Persist, Types, TypeOK, server, list, conn, shown
<1>6. CASE Deliver
  BY <1>6 DEF Deliver, Merged, Types, TypeOK, server, list, conn, shown
<1>7. CASE Acked
  BY <1>7
     DEF Acked, Nothing, Types, Calls, Sending, TypeOK, server, list, conn,
         shown
<1>8. CASE Login
  BY <1>8 DEF Login, Types, Calls, Sending, TypeOK, server, list, conn, shown
<1>9. CASE RefreshBots
  <2>1. calls' \subseteq Calls /\ \A c \in calls' : c.login <= logins
    BY <1>9, AskTypes DEF RefreshBots, Types
  <2> QED
    BY <1>9, <2>1
       DEF RefreshBots, Recompute, Relisted, Types, TypeOK, server, list, conn,
           shown
<1>10. CASE OpenConversation
  <2>1. calls' \subseteq Calls /\ \A c \in calls' : c.login <= logins
    BY <1>10, AskTypes DEF OpenConversation, Types
  <2> QED
    BY <1>10, <2>1 DEF OpenConversation, Types, TypeOK, server, list, conn, shown
<1>11. CASE Connected
  <2>1. calls' \subseteq Calls /\ \A c \in calls' : c.login <= logins
    BY <1>11, AskTypes DEF Connected, Types
  <2> QED
    BY <1>11, <2>1
       DEF Connected, Types, Calls, Sending, TypeOK, server, list, conn, shown
<1>12. ASSUME NEW m \in Others, OtherMessage(m) PROVE Types'
  <2>1. LogGrows /\ arriving' \in Seq(Messages)
    BY <1>12, AcceptGrows DEF OtherMessage, Messages
  <2> QED
    BY <1>12, <2>1 DEF OtherMessage, LogGrows, Types, TypeOK, list, shown
<1>13. CASE ConnectionLost
  <2>1. /\ view' = view
        /\ sending' = [sending EXCEPT !.step = IF @ = "accepted" THEN "waiting" ELSE @]
    BY <1>13 DEF ConnectionLost, shown
  <2>2. view' \in [Messages -> {"absent", "pending", "failed", "shown"}]
    BY <2>1 DEF Failing, Types, TypeOK
  <2>3. sending' \in Sending
    BY <2>1 DEF Nothing, Types, Sending
  <2>4. /\ UNCHANGED <<log, saved, session, logins, boot, raw, listed, current, dropped,
                      everConnected, cursor, low, jumped, late, calls, clicks>>
        /\ link' = "retrying" /\ granted' = FALSE /\ drops' \in 0 .. MaxDrops
    BY <1>13 DEF ConnectionLost, Types, TypeOK, server, list, shown
  <2>5. arriving' \in Seq(Messages)
    BY <1>a, <1>13 DEF ConnectionLost, Types, TypeOK
  <2> QED
    BY <2>2, <2>3, <2>4, <2>5 DEF Types, Calls, Sending, TypeOK
<1>14. CASE ReconnectNow
  <2>1. view' \in {view, Failing} /\ sending' \in {sending, Nothing}
    BY <1>14 DEF ReconnectNow
  <2>2. view' \in [Messages -> {"absent", "pending", "failed", "shown"}]
    BY <2>1 DEF Failing, Types, TypeOK
  <2>3. sending' \in Sending
    BY <2>1 DEF Nothing, Types, Sending
  <2>4. /\ UNCHANGED <<log, saved, session, logins, boot, raw, listed, current, dropped,
                      everConnected, cursor, low, jumped, late, calls, clicks>>
        /\ link' = "connecting" /\ granted' = FALSE /\ drops' \in 0 .. MaxDrops
    BY <1>14 DEF ReconnectNow, Types, TypeOK, server, list
  <2>5. arriving' \in Seq(Messages)
    BY <1>a, <1>14 DEF ReconnectNow, Types, TypeOK
  <2> QED
    BY <2>2, <2>3, <2>4, <2>5 DEF Types, Calls, Sending, TypeOK
<1>15. CASE ConnectError
  <2>1. view' \in {view, Failing} /\ sending' \in {sending, Nothing}
    BY <1>15 DEF ConnectError
  <2>2. view' \in [Messages -> {"absent", "pending", "failed", "shown"}]
    BY <2>1 DEF Failing, Types, TypeOK
  <2>3. sending' \in Sending
    BY <2>1 DEF Nothing, Types, Sending
  <2>4. /\ UNCHANGED <<log, saved, session, logins, boot, raw, listed, current, dropped,
                      granted, arriving, everConnected, cursor, low, jumped, late,
                      calls, clicks>>
        /\ link' = "retrying" /\ drops' \in 0 .. MaxDrops
    BY <1>15 DEF ConnectError, Types, TypeOK, server, list
  <2>5. arriving' \in Seq(Messages)
    BY <1>a, <1>15 DEF ConnectError, Types, TypeOK
  <2> QED
    BY <2>2, <2>3, <2>4, <2>5 DEF Types, Calls, Sending, TypeOK
<1>16. CASE Logout
  <2>1. view' \in [Messages -> {"absent", "pending", "failed", "shown"}]
    BY <1>16 DEF Logout
  <2>2. sending' \in Sending
    BY <1>16 DEF Logout, Nothing, Sending
  <2>3. /\ UNCHANGED <<log, saved, logins, calls, drops, clicks>>
        /\ session' = "out" /\ boot' = "none" /\ raw' = "unknown" /\ listed' = "no"
        /\ link' = "idle" /\ cursor' = 0 /\ low' = 0
        /\ current' = FALSE /\ granted' = FALSE /\ everConnected' = FALSE
        /\ jumped' = FALSE /\ late' = FALSE /\ dropped' = FALSE
    BY <1>16 DEF Logout, server
  <2>4. arriving' \in Seq(Messages)
    BY <1>a, <1>16 DEF Logout
  <2>5. cursor' \in 0 .. saved' /\ low' \in 0 .. cursor'
    BY <2>3 DEF Types, TypeOK
  <2>6. TypeOK'
    BY <2>1, <2>2, <2>3, <2>4, <2>5 DEF Types, Calls, Sending, TypeOK
  <2> QED
    BY <2>2, <2>3, <2>6 DEF Types
<1>17. CASE Accepted
  <2>1. PICK m \in sending.msg : Accept(m)
    BY <1>17 DEF Accepted
  <2>2. m \in Messages /\ saved' = saved
    BY <1>17 DEF Accepted, Types, Calls, Sending, Messages
  <2>3. LogGrows /\ arriving' \in Seq(Messages)
    BY <2>1, <2>2, AcceptGrows
  <2> QED
    BY <1>17, <2>3
       DEF Accepted, LogGrows, Types, Calls, Sending, TypeOK, list, shown
<1>18. ASSUME NEW m \in Own, Send(m) PROVE Types'
  BY <1>18
     DEF Send, Titled, Messages, Types, Calls, Sending, TypeOK, server, list,
         conn, shown
<1>19. ASSUME NEW c \in calls, Answer(c) \/ Apply(c) PROVE Types'
  BY <1>19, AnswerTypes, ApplyTypes
<1> QED
  BY <1>1, <1>2, <1>3, <1>4, <1>5, <1>6, <1>7, <1>8, <1>9, <1>10, <1>11, <1>12,
     <1>13, <1>14, <1>15, <1>16, <1>17, <1>18, <1>19 DEF Next

-----------------------------------------------------------------------------
(* Kinds of steps *)

\* Most steps leave the cursor and the session alone and make nothing vanish.
Quiet ==
  /\ LogGrows
  /\ UNCHANGED <<session, logins, cursor, low, jumped, late>>
  /\ \A m \in Messages : view[m] # "absent" => view'[m] # "absent"

Asking == calls' = calls \/ Ask("latest") \/ (Ask("after") /\ cursor > 0)

LEMMA Unlogged ==
  ASSUME Types, UNCHANGED server
  PROVE  LogGrows
BY DEF Types, TypeOK, LogGrows, server

LEMMA StepKinds ==
  ASSUME Types, [Next]_vars
  PROVE  \/ \E c \in calls : Answer(c) \/ Apply(c)
         \/ Login \/ Logout
         \/ Quiet /\ Asking
<1>1. CASE UNCHANGED vars
  BY <1>1, Unlogged DEF vars, Quiet, Asking, shown, server
<1>2. CASE ConversationsAnswered
  BY <1>2, Unlogged DEF ConversationsAnswered, Quiet, Asking, shown
<1>3. CASE RefreshBots
  BY <1>3, Unlogged DEF RefreshBots, Quiet, Asking, shown
<1>4. CASE OpenConversation
  BY <1>4, Unlogged DEF OpenConversation, Quiet, Asking, shown
<1>5. CASE Bootstrap
  BY <1>5, Unlogged DEF Bootstrap, Quiet, Asking, shown
<1>6. CASE Connected
  BY <1>6, Unlogged DEF Connected, Quiet, Asking, shown
<1>7. CASE Subscribed
  BY <1>7, Unlogged DEF Subscribed, Quiet, Asking, shown
<1>8. CASE ConnectionLost
  BY <1>8, Unlogged DEF ConnectionLost, Quiet, Asking, shown
<1>9. CASE Acked
  BY <1>9, Unlogged DEF Acked, Quiet, Asking, shown
<1>10. CASE ReconnectNow
  <2>1. view' \in [Messages -> {"absent", "pending", "failed", "shown"}]
        /\ \A m \in Messages : view[m] # "absent" => view'[m] # "absent"
    BY <1>10 DEF ReconnectNow, Failing, Types, TypeOK
  <2> QED
    BY <1>10, <2>1, Unlogged DEF ReconnectNow, Quiet, Asking
<1>11. CASE ConnectError
  <2>1. view' \in [Messages -> {"absent", "pending", "failed", "shown"}]
        /\ \A m \in Messages : view[m] # "absent" => view'[m] # "absent"
    BY <1>11 DEF ConnectError, Failing, Types, TypeOK
  <2> QED
    BY <1>11, <2>1, Unlogged DEF ConnectError, Quiet, Asking
<1>12. CASE Deliver
  <2>1. view' \in [Messages -> {"absent", "pending", "failed", "shown"}]
        /\ \A m \in Messages : view[m] # "absent" => view'[m] # "absent"
    BY <1>12 DEF Deliver, Merged, Types, TypeOK
  <2> QED
    BY <1>12, <2>1, Unlogged DEF Deliver, Quiet, Asking
<1>13. ASSUME NEW m \in Own, Send(m) PROVE Quiet /\ Asking
  <2>1. \A n \in Messages : view[n] # "absent" => view'[n] # "absent"
    BY <1>13 DEF Send, Types, TypeOK
  <2> QED
    BY <1>13, <2>1, Unlogged DEF Send, Quiet, Asking
<1>14. ASSUME NEW m \in Others, OtherMessage(m) PROVE Quiet /\ Asking
  BY <1>14, AcceptGrows DEF OtherMessage, Messages, Quiet, Asking, shown
<1>15. CASE Accepted
  <2>1. PICK m \in sending.msg : Accept(m)
    BY <1>15 DEF Accepted
  <2>2. m \in Messages
    BY DEF Types, Sending, Messages
  <2> QED
    BY <1>15, <2>1, <2>2, AcceptGrows DEF Accepted, Quiet, Asking, shown
<1>16. CASE Persist
  <2>1. LogGrows
    BY <1>16 DEF Persist, LogGrows, Types, TypeOK
  <2> QED
    BY <1>16, <2>1 DEF Persist, Quiet, Asking, shown
<1> QED
  BY <1>1, <1>2, <1>3, <1>4, <1>5, <1>6, <1>7, <1>8, <1>9, <1>10, <1>11, <1>12,
     <1>13, <1>14, <1>15, <1>16 DEF Next

-----------------------------------------------------------------------------
(* Pages *)

LEMMA PageInvStep ==
  ASSUME Types, \A c \in calls : PageInv(c), [Next]_vars
  PROVE  \A c \in calls' : PageInv(c)'
<1>1. ASSUME NEW c \in calls, saved <= saved', saved \in Nat, saved' \in Nat
      PROVE  PageInv(c)'
  BY <1>1 DEF PageInv, NoGap
<1>2. ASSUME UNCHANGED saved, NEW c \in calls, Answer(c)
      PROVE  \A d \in calls' : PageInv(d)'
  <2>1. saved \in Nat /\ c.after \in Nat /\ PageSize \in Nat /\ Batch \in Nat
    BY WebChatAssumption DEF Types, Calls, TypeOK
  <2>2. PICK page : /\ page = IF c.kind = "latest" THEN Latest(PageSize)
                              ELSE After(c.after, Batch)
                    /\ calls' = (calls \ {c}) \cup
                                  {[c EXCEPT !.state = "answered", !.page = page]}
    BY <1>2 DEF Answer
  <2>3. NoGap(page) /\ (c.kind = "after" =>
          \A i \in page : i > c.after /\ \A h \in c.after + 1 .. i : h \in page)
    <3>1. CASE c.kind = "latest"
      <4>1. page = Latest(PageSize)
        BY <2>2, <3>1
      <4> QED
        BY <2>1, <3>1, <4>1, PagesHaveNoGap
    <3>2. CASE c.kind # "latest"
      <4>1. page = After(c.after, Batch)
        BY <2>2, <3>2
      <4> QED
        BY <2>1, <4>1, PagesHaveNoGap
    <3> QED
      BY <3>1, <3>2
  <2>4. PICK d : d = [c EXCEPT !.state = "answered", !.page = page]
    OBVIOUS
  <2>5. d.page = page /\ d.kind = c.kind /\ d.after = c.after
    BY <2>4 DEF Types
  <2>6. PageInv(d)'
    BY <1>2, <2>3, <2>5 DEF PageInv, NoGap
  <2> QED
    BY <1>1, <1>2, <2>1, <2>2, <2>4, <2>6
<1>3. ASSUME NEW kind, UNCHANGED cursor, LogGrows, Ask(kind)
      PROVE  \A d \in calls' : PageInv(d)'
  <2>1. \E d : d.page = {} /\ calls' = calls \cup {d}
    BY <1>3 DEF Ask, Call
  <2>2. saved \in Nat /\ saved' \in Nat /\ saved <= saved'
    BY <1>3 DEF LogGrows, Types, TypeOK
  <2> QED
    BY <1>1, <2>1, <2>2 DEF PageInv, NoGap
<1>4. CASE Quiet /\ Asking
  <2>1. saved \in Nat /\ saved' \in Nat /\ saved <= saved'
    BY <1>4 DEF Quiet, LogGrows, Types, TypeOK
  <2> QED
    BY <1>1, <1>3, <1>4, <2>1 DEF Quiet, Asking
<1>5. ASSUME NEW c \in calls, Apply(c) PROVE \A d \in calls' : PageInv(d)'
  BY <1>1, <1>5 DEF Apply, server, Types, TypeOK
<1>6. CASE Login \/ Logout
  BY <1>1, <1>6 DEF Login, Logout, server, Types, TypeOK
<1> QED
  BY <1>2, <1>4, <1>5, <1>6, StepKinds DEF Answer, server

-----------------------------------------------------------------------------
(* What is shown has been sent *)

LEMMA SentKept ==
  ASSUME Types, Sent, LogGrows,
         \A m \in Own : view'[m] = "shown" => view[m] = "shown" \/ m \in ToSet(log'),
         \A i \in DOMAIN arriving' : arriving'[i] \in ToSet(arriving) \cup ToSet(log')
  PROVE  Sent'
<1>1. ToSet(log) \subseteq ToSet(log')
  BY SMTT(30) DEF LogGrows, Types, TypeOK, ToSet
<1>2. ToSet(arriving) \subseteq ToSet(log)
  BY DEF Sent, ToSet
<1> QED
  BY <1>1, <1>2 DEF Sent, ShownIsSent

LEMMA SentStep ==
  ASSUME Types, \A c \in calls : PageInv(c), Sent, [Next]_vars
  PROVE  Sent'
<1> DEFINE NoneNew == \A m \in Own : view'[m] = "shown" => view[m] = "shown"
           SameOrLess == \A i \in DOMAIN arriving' : arriving'[i] \in ToSet(arriving)
<1>1. UNCHANGED view => NoneNew
  OBVIOUS
<1>2. UNCHANGED arriving \/ arriving' = << >> => SameOrLess
  BY DEF ToSet
<1>a. ASSUME LogGrows, NoneNew, SameOrLess PROVE Sent'
  BY <1>a, SentKept
<1> HIDE DEF NoneNew, SameOrLess
<1>3. CASE UNCHANGED vars
  BY <1>1, <1>2, <1>a, <1>3, Unlogged DEF vars, server
<1>4. CASE ConversationsAnswered \/ RefreshBots \/ OpenConversation
  BY <1>1, <1>2, <1>a, <1>4, Unlogged
     DEF ConversationsAnswered, RefreshBots, OpenConversation, Recompute, conn,
         shown
<1>5. CASE Bootstrap \/ Connected \/ Subscribed \/ ConnectionLost
  BY <1>1, <1>2, <1>a, <1>5, Unlogged
     DEF Bootstrap, Connected, Subscribed, ConnectionLost, shown
<1>6. CASE Acked \/ Login
  BY <1>1, <1>2, <1>a, <1>6, Unlogged DEF Acked, Login, conn, shown
<1>7. CASE \E c \in calls : Answer(c)
  BY <1>1, <1>2, <1>a, <1>7, Unlogged DEF Answer, conn, shown
<1>8. CASE ReconnectNow \/ ConnectError
  <2>1. view' = view \/ view' = Failing
    BY <1>8 DEF ReconnectNow, ConnectError
  <2>2. NoneNew
    BY <2>1 DEF NoneNew, Failing, Messages
  <2> QED
    BY <1>2, <1>a, <1>8, <2>2, Unlogged DEF ReconnectNow, ConnectError
<1>9. CASE Logout
  <2>1. NoneNew
    BY <1>9 DEF Logout, NoneNew, Messages
  <2> QED
    BY <1>2, <1>a, <1>9, <2>1, Unlogged DEF Logout
<1>10. ASSUME NEW m \in Own, Send(m) PROVE Sent'
  <2>1. NoneNew
    BY <1>10 DEF Send, NoneNew, Messages, Types, TypeOK
  <2> QED
    BY <1>2, <1>a, <1>10, <2>1, Unlogged DEF Send
<1>11. ASSUME NEW m \in Messages, Accept(m), UNCHANGED <<saved, view>> PROVE Sent'
  BY <1>11, AcceptGrows, SentKept
<1>12. ASSUME NEW m \in Others, OtherMessage(m) PROVE Sent'
  BY <1>11, <1>12 DEF OtherMessage, Messages, shown
<1>13. CASE Accepted
  <2>1. PICK m \in sending.msg : Accept(m)
    BY <1>13 DEF Accepted
  <2>2. m \in Messages
    BY DEF Types, Sending, Messages
  <2> QED
    BY <1>11, <1>13, <2>1, <2>2 DEF Accepted, shown
<1>14. CASE Persist
  <2>1. LogGrows
    BY <1>14 DEF Persist, LogGrows, Types, TypeOK
  <2> QED
    BY <1>1, <1>2, <1>a, <1>14, <2>1 DEF Persist, conn, shown
<1>15. CASE Deliver
  <2>1. arriving \in Seq(Messages) /\ arriving # << >> /\ arriving' = Tail(arriving)
    BY <1>15 DEF Deliver, Types, TypeOK
  <2>2. SameOrLess
    BY <2>1 DEF SameOrLess, ToSet
  <2>3. Head(arriving) \in ToSet(log)
    BY <2>1 DEF Sent
  <2>4. \A m \in Own : view'[m] = "shown" => view[m] = "shown" \/ m \in ToSet(log)
    BY <1>15, <2>3 DEF Deliver, Merged, Messages
  <2>5. LogGrows /\ log' = log
    BY <1>15, Unlogged DEF Deliver, server
  <2> QED
    BY <2>2, <2>4, <2>5, SentKept DEF SameOrLess
<1>16. ASSUME NEW c \in calls, Apply(c) PROVE Sent'
  <2>1. LogGrows /\ UNCHANGED <<log, arriving>>
    BY <1>16, Unlogged DEF Apply, server, conn
  <2>2. \A k \in c.page : log[k] \in ToSet(log)
    BY DEF PageInv, NoGap, Types, TypeOK, ToSet
  <2>3. \A m \in Own : view'[m] = "shown" => view[m] = "shown" \/ m \in ToSet(log)
    <3>1. CASE c.page = {}
      BY <1>16, <3>1 DEF Apply, shown
    <3>2. CASE c.page # {}
      BY <1>16, <2>2, <3>2 DEF Apply, Merged, Messages
    <3> QED
      BY <3>1, <3>2
  <2>4. SameOrLess
    BY <1>2, <2>1
  <2> QED
    BY <2>1, <2>3, <2>4, SentKept DEF SameOrLess
<1> QED
  BY <1>3, <1>4, <1>5, <1>6, <1>7, <1>8, <1>9, <1>10, <1>11, <1>12, <1>13,
     <1>14, <1>15, <1>16 DEF Next

-----------------------------------------------------------------------------
(* The open conversation *)

LEMMA HeardStep ==
  ASSUME Types, Heard, [Next]_vars
  PROVE  Heard'
<1>1. CASE UNCHANGED list
  BY <1>1 DEF list, Heard
<1>2. CASE ConversationsAnswered \/ RefreshBots
  <2>1. PICK r : Recompute(r)
    BY <1>2 DEF ConversationsAnswered, RefreshBots
  <2> QED
    BY <2>1 DEF Recompute, Relisted, Heard, Types, TypeOK
<1>3. CASE OpenConversation
  BY <1>3 DEF OpenConversation, Heard
<1>4. CASE Deliver \/ Logout
  BY <1>4 DEF Deliver, Logout, Heard
<1>5. ASSUME NEW m \in Own, Send(m) PROVE Heard'
  BY <1>5 DEF Send, Titled, Heard
<1> QED
  BY <1>1, <1>2, <1>3, <1>4, <1>5
     DEF Next, vars, list, Answer, Apply, Bootstrap, Connected, Subscribed,
         ConnectionLost, ReconnectNow, ConnectError, OtherMessage, Persist,
         Accepted, Acked, Login

-----------------------------------------------------------------------------
(* No hole *)

\* What is covered stays covered while nothing vanishes.
LEMMA CoveredKept ==
  ASSUME Types, LogGrows, NEW a \in Nat, NEW b \in 0 .. saved,
         \A m \in Messages : view[m] # "absent" => view'[m] # "absent",
         a > 0, Covered(a, b)
  PROVE  Covered(a, b)'
<1>1. \A k \in a .. b : k \in 1 .. Len(log) /\ log[k] \in Messages /\ log'[k] = log[k]
  BY SMTT(30) DEF LogGrows, Types, TypeOK
<1> QED
  BY <1>1 DEF Covered

LEMMA QuietCover ==
  ASSUME Types, Cover, Quiet, Asking
  PROVE  Cover'
<1>1. /\ low \in Nat /\ cursor \in 0 .. saved /\ saved \in Nat /\ saved' \in Nat
      /\ saved <= saved' /\ low <= cursor
  BY DEF Types, TypeOK, Quiet, LogGrows
<1>2. ASSUME ~ jumped, ~ late, low > 0 PROVE Covered(low, cursor)
  BY <1>2 DEF Cover, NoHole, Covered
<1>3. ASSUME ~ jumped, ~ late, low > 0, NEW b \in 0 .. saved, Covered(low, b)
      PROVE  Covered(low, b)'
  BY <1>1, <1>3, CoveredKept DEF Quiet
<1>4. NoHole'
  BY <1>1, <1>2, <1>3 DEF NoHole, Quiet, Covered
<1>5. ASSUME NEW c \in calls PROVE CallCovered(c)'
  <2> SUFFICES ASSUME c.kind = "after", session = "in", c.login = logins
               PROVE  CallCovered(c)'
    BY DEF CallCovered, Quiet
  <2>1. low > 0 /\ (~ jumped /\ ~ late => low <= c.after /\ c.after <= saved
                                           /\ Covered(low, c.after))
    BY DEF Cover, CallCovered
  <2>2. c.after \in Nat
    BY DEF Types, Calls
  <2>3. ~ jumped /\ ~ late => Covered(low, c.after)'
    BY <1>1, <1>3, <2>1, <2>2
  <2> QED
    BY <1>1, <2>1, <2>2, <2>3 DEF CallCovered, Covered, Quiet
<1>6. ASSUME Ask("after"), cursor > 0, NEW c \in calls' \ calls PROVE CallCovered(c)'
  <2>1. c.after = cursor
    BY <1>6 DEF Ask, Call
  <2>2. low > 0
    BY <1>1, <1>6 DEF Cover
  <2>3. ~ jumped /\ ~ late => Covered(low, c.after)
    BY <1>2, <2>1, <2>2
  <2>4. ~ jumped /\ ~ late => Covered(low, c.after)'
    BY <1>1, <1>3, <2>1, <2>2, <2>3
  <2>5. c.after <= saved' /\ low <= c.after
    BY <1>1, <2>1
  <2> QED
    BY <2>2, <2>4, <2>5 DEF CallCovered, Quiet
<1>7. ASSUME Ask("latest"), NEW c \in calls' \ calls PROVE CallCovered(c)'
  <2>1. c.kind = "latest"
    BY <1>7 DEF Ask, Call
  <2> QED
    BY <2>1 DEF CallCovered
<1>8. \A c \in calls' : CallCovered(c)'
  BY <1>5, <1>6, <1>7 DEF Asking
<1>9. (low = 0 <=> cursor = 0)'
  BY DEF Cover, Quiet
<1> QED
  BY <1>4, <1>8, <1>9 DEF Cover

\* A page of the catch-up begins where everything up to it is covered, a latest
\* page that is not Apart adjoins what is covered.
LEMMA ApplyCover ==
  ASSUME Types, \A d \in calls : PageInv(d), Cover, NEW c \in calls, Apply(c)
  PROVE  Cover'
<1>1. /\ saved \in Nat /\ low \in Nat /\ cursor \in 0 .. saved /\ low <= cursor
      /\ UNCHANGED <<log, saved, session, logins>> /\ calls' = calls \ {c}
      /\ log \in Seq(Messages) /\ saved <= Len(log)
  BY DEF Apply, server, Types, TypeOK
<1>2. CASE c.page = {}
  <2>1. UNCHANGED <<log, saved, session, logins, view, cursor, low, jumped, late>>
    BY <1>1, <1>2 DEF Apply, shown
  <2>2. \A d \in calls : CallCovered(d)'
    BY <2>1 DEF Cover, CallCovered, Covered
  <2>3. NoHole' /\ (low = 0 <=> cursor = 0)'
    BY <2>1 DEF Cover, NoHole
  <2> QED
    BY <1>1, <2>2, <2>3 DEF Cover
<1>3. CASE c.page # {}
  <2>1. PICK L \in c.page, H \in c.page :
          /\ L = Low(c.page) /\ H = High(c.page) /\ \A k \in c.page : L <= k /\ k <= H
    BY <1>1, <1>3, Ends DEF PageInv, NoGap
  <2>2. /\ c.page \subseteq 1 .. saved
        /\ \A k \in L .. H : k \in c.page
    BY DEF PageInv, NoGap
  <2>3. /\ cursor' = H /\ low' = IF low = 0 \/ L < low THEN L ELSE low
        /\ jumped' = (jumped \/ (c.kind = "latest" /\ Apart(c.page)))
        /\ late' = (late \/ c.login # logins \/ session = "out")
        /\ view' = Merged({log[k] : k \in c.page})
    BY <1>3, <2>1 DEF Apply, NewCursor
  <2>4. \A m \in Messages : /\ view[m] # "absent" => view'[m] # "absent"
                            /\ m \in {log[k] : k \in c.page} => view'[m] # "absent"
    BY <2>3 DEF Merged, Types, TypeOK
  <2>5. \A k \in c.page : log[k] \in Messages /\ view'[log'[k]] # "absent"
    BY <1>1, <2>2, <2>4
  <2>6. ASSUME low > 0, NEW b \in 0 .. saved, Covered(low, b)
        PROVE  \A k \in low .. b : view'[log'[k]] # "absent"
    <3>1. \A k \in low .. b : log[k] \in Messages /\ log'[k] = log[k]
      BY <1>1, <2>6
    <3> QED
      BY <2>4, <2>6, <3>1 DEF Covered
  <2>7. (low = 0 <=> cursor = 0)'
    BY <1>1, <2>2, <2>3
  <2>8. CASE jumped' \/ late'
    <3>1. NoHole'
      BY <2>8 DEF NoHole
    <3>2. \A d \in calls' : CallCovered(d)'
      <4>1. \A d \in calls : CallCovered(d)
        BY DEF Cover
      <4>2. low > 0 => low' > 0
        BY <1>1, <2>2, <2>3
      <4> QED
        BY <1>1, <2>8, <4>1, <4>2 DEF CallCovered
    <3> QED
      BY <2>7, <3>1, <3>2 DEF Cover
  <2>9. CASE ~ (jumped' \/ late')
    <3>1. /\ ~ jumped /\ ~ late /\ c.login = logins /\ session = "in"
          /\ c.kind = "latest" => ~ Apart(c.page)
      BY <2>3, <2>9 DEF Types, TypeOK
    <3>2. \A d \in calls : d.kind = "after" /\ d.login = logins =>
            low > 0 /\ low <= d.after /\ d.after <= saved /\ Covered(low, d.after)
      BY <3>1 DEF Cover, CallCovered
    <3>3. low > 0 => Covered(low, cursor)
      BY <3>1 DEF Cover, NoHole, Covered
    <3>4. \A d \in calls : d.after \in Nat /\ d.kind \in {"latest", "after"}
      BY DEF Types, Calls
    <3>5. CASE low = 0
      <4>1. low' = L
        BY <2>3, <3>5
      <4>2. NoHole'
        BY <2>2, <2>3, <2>5, <4>1 DEF NoHole
      <4>3. \A d \in calls : d.kind = "after" => d.login # logins
        BY <3>2, <3>5
      <4>4. \A d \in calls' : CallCovered(d)'
        BY <1>1, <4>3 DEF CallCovered
      <4> QED
        BY <2>7, <4>2, <4>4 DEF Cover
    <3>6. CASE low > 0 /\ c.kind = "after"
      <4>1. /\ low <= c.after /\ c.after \in 0 .. saved /\ Covered(low, c.after)
            /\ L > c.after /\ \A k \in c.after + 1 .. H : k \in c.page
        BY <1>1, <3>1, <3>2, <3>4, <3>6 DEF PageInv, NoGap
      <4>2. low' = low
        BY <1>1, <2>2, <2>3, <3>6, <4>1
      <4>3. \A k \in low .. H : view'[log'[k]] # "absent"
        <5>1. \A k \in low .. c.after : view'[log'[k]] # "absent"
          BY <2>6, <3>6, <4>1
        <5>2. \A k \in low .. H : k \in low .. c.after \/ k \in c.after + 1 .. H
          BY <1>1, <2>2, <4>1
        <5> QED
          BY <2>5, <4>1, <5>1, <5>2
      <4>4. NoHole'
        BY <2>3, <4>2, <4>3 DEF NoHole
      <4>5. \A d \in calls' : CallCovered(d)'
        <5>1. ASSUME NEW d \in calls, d.kind = "after", d.login = logins
              PROVE  \A k \in low .. d.after : view'[log'[k]] # "absent"
          BY <1>1, <2>6, <3>2, <3>4, <3>6, <5>1
        <5> QED
          BY <1>1, <3>2, <4>2, <5>1 DEF CallCovered, Covered
      <4> QED
        BY <2>7, <4>4, <4>5 DEF Cover
    <3>7. CASE low > 0 /\ c.kind = "latest"
      <4>1. cursor > 0 /\ L <= cursor + 1 /\ low <= H + 1
        BY <1>1, <2>1, <2>2, <3>1, <3>7 DEF Apart
      <4>2. low' \in Nat /\ low' > 0 /\ low' <= low /\ low' <= L
            /\ (low' = low \/ low' = L)
        BY <1>1, <2>2, <2>3, <3>7
      <4>3. NoHole'
        <5>1. \A k \in low .. cursor : view'[log'[k]] # "absent"
          BY <1>1, <2>6, <3>3, <3>7
        <5>2. \A k \in low' .. H : k \in L .. H \/ k \in low .. cursor
          BY <1>1, <2>2, <4>1, <4>2
        <5> QED
          BY <2>2, <2>3, <2>5, <5>1, <5>2 DEF NoHole
      <4>4. \A d \in calls' : CallCovered(d)'
        <5>1. ASSUME NEW d \in calls, d.kind = "after", d.login = logins
              PROVE  /\ low' <= d.after /\ d.after <= saved
                     /\ \A k \in low' .. d.after : view'[log'[k]] # "absent"
          <6>1. low <= d.after /\ d.after \in 0 .. saved /\ Covered(low, d.after)
            BY <1>1, <3>2, <3>4, <5>1
          <6>2. \A k \in low .. d.after : view'[log'[k]] # "absent"
            BY <2>6, <3>7, <6>1
          <6>3. \A k \in low' .. d.after : k \in low .. d.after \/ k \in L .. H
            BY <1>1, <2>2, <4>1, <4>2, <6>1
          <6> QED
            BY <1>1, <2>2, <2>5, <4>2, <6>1, <6>2, <6>3
        <5> QED
          BY <1>1, <4>2, <5>1 DEF CallCovered, Covered
      <4> QED
        BY <2>7, <4>3, <4>4 DEF Cover
    <3> QED
      BY <1>1, <3>4, <3>5, <3>6, <3>7
  <2> QED
    BY <2>8, <2>9
<1> QED
  BY <1>2, <1>3

LEMMA CoverStep ==
  ASSUME Types, \A c \in calls : PageInv(c), Cover, [Next]_vars
  PROVE  Cover'
<1>1. ASSUME NEW c \in calls, Answer(c) PROVE Cover'
  <2>1. UNCHANGED <<log, saved, session, logins, view, cursor, low, jumped, late>>
    BY <1>1 DEF Answer, server, shown
  <2>2. NoHole' /\ (low = 0 <=> cursor = 0)'
    BY <2>1 DEF Cover, NoHole
  <2>3. PICK page : calls' = (calls \ {c}) \cup
                               {[c EXCEPT !.state = "answered", !.page = page]}
    BY <1>1 DEF Answer
  <2>4. \A d \in calls' : \E b \in calls :
          d.kind = b.kind /\ d.login = b.login /\ d.after = b.after
    BY <2>3 DEF Types, Calls
  <2>5. \A d \in calls' : CallCovered(d)'
    BY <2>1, <2>4 DEF Cover, CallCovered, Covered
  <2> QED
    BY <2>2, <2>5 DEF Cover
<1>2. CASE Login
  <2>1. /\ UNCHANGED <<log, saved, view, cursor, low, jumped, late, calls>>
        /\ logins \in Nat /\ logins' = logins + 1
    BY <1>2 DEF Login, server, shown, Types, TypeOK
  <2>2. NoHole' /\ (low = 0 <=> cursor = 0)'
    BY <2>1 DEF Cover, NoHole
  <2>3. \A c \in calls : c.login \in Nat /\ c.login # logins'
    BY <2>1 DEF Types, Calls, Sending
  <2> QED
    BY <2>1, <2>2, <2>3 DEF Cover, CallCovered
<1>3. CASE Logout
  BY <1>3 DEF Logout, Cover, NoHole, CallCovered
<1> QED
  BY <1>1, <1>2, <1>3, StepKinds, QuietCover, ApplyCover

-----------------------------------------------------------------------------
(* The theorems *)

LEMMA Invariant == Spec => []IInv
<1>1. Init => IInv
  <2> SUFFICES ASSUME Init PROVE IInv
    OBVIOUS
  <2>1. << >> \in Seq(Messages)
    OBVIOUS
  <2>2. Types
    <3>1. log \in Seq(Messages) /\ arriving \in Seq(Messages) /\ Len(log) = 0
      BY <2>1 DEF Init
    <3>2. sending \in Sending
      BY DEF Init, Nothing, Sending
    <3>3. /\ saved = 0 /\ cursor = 0 /\ low = 0 /\ logins = 0 /\ drops = 0 /\ clicks = 0
          /\ session = "out" /\ boot = "none" /\ raw = "unknown" /\ listed = "no"
          /\ link = "idle" /\ calls = {} /\ view = [m \in Messages |-> "absent"]
      BY DEF Init
    <3>4. {current, granted, everConnected, jumped, late, dropped} \subseteq BOOLEAN
      BY DEF Init
    <3> QED
      BY <3>1, <3>2, <3>3, <3>4, WebChatAssumption
         DEF Types, Calls, Sending, TypeOK
  <2>3. Sent /\ Heard
    BY DEF Init, Sent, ShownIsSent, Heard, Messages
  <2>4. Cover /\ \A c \in calls : PageInv(c)
    BY DEF Init, Cover, NoHole
  <2> QED
    BY <2>2, <2>3, <2>4 DEF IInv
<1>2. IInv /\ [Next]_vars => IInv'
  BY TypesStep, PageInvStep, SentStep, HeardStep, CoverStep DEF IInv
<1> QED
  BY <1>1, <1>2, PTL DEF Spec

\* Every variable has its type.
THEOREM TypeCorrect == Spec => []TypeOK
<1>1. IInv => TypeOK
  BY DEF IInv, Types
<1> QED
  BY <1>1, Invariant, PTL

\* Pages applied late and out of order leave nothing missing between the first
\* page and the cursor, with the exceptions NoHole names (refreshMessages and
\* catchupConversation of ChatContext).
THEOREM NoHoleAlways == Spec => []NoHole
<1>1. IInv => NoHole
  BY DEF IInv, Cover
<1> QED
  BY <1>1, Invariant, PTL

\* The user sees no message as sent that the broker does not have (sendMessage
\* and its failure path).
THEOREM ShownIsSentAlways == Spec => []ShownIsSent
<1>1. IInv => ShownIsSent
  BY DEF IInv, Sent
<1> QED
  BY <1>1, Invariant, PTL

\* The open conversation is among the topics the client keeps subscribed, until
\* the list drops it (the effects over rawConversations and conversations).
THEOREM OpenIsHeardAlways == Spec => []OpenIsHeard
<1>1. IInv => OpenIsHeard
  BY DEF IInv, Heard, OpenIsHeard, Wanted, Types, TypeOK
<1> QED
  BY <1>1, Invariant, PTL
================================================================================
