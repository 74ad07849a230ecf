---------------------------- MODULE HistoryReader ----------------------------
(***************************************************************************)
(* The history endpoints over the running store: a client opens a          *)
(* conversation with the latest page, catches up with after_seq, and       *)
(* scrolls back with before_seq, while backend processes go on committing  *)
(* rows (MessageHandler.loadMessages, BotRuntimeHandler                    *)
(* .GetConversationMessages, MessageRepository queries).  A page is one    *)
(* statement and sees the rows committed before it.                        *)
(***************************************************************************)
EXTENDS MessageStore

CONSTANT Limit            \* rows per page, after the handlers' clamping

ASSUME LimitAssumption == Limit \in Nat \ {0} /\ None \notin Conversations

VARIABLES conversation,   \* the conversation the client has open, or None
          got,            \* the rows it has received
          oldest, newest  \* the cursors it sends as before_seq and after_seq

reader == <<conversation, got, oldest, newest>>

\* ORDER BY seq ASC (DESC) LIMIT n.
LowestSeqs(S, n) == {r \in S : Cardinality({q \in S : q.seq < r.seq}) < n}
HighestSeqs(S, n) == {r \in S : Cardinality({q \in S : q.seq > r.seq}) < n}

\* Faulty: before_seq is inclusive.
FaultyGetByConversationID(c, n, before) ==
  HighestSeqs({r \in RowsOf(c) : before > 0 => r.seq <= before}, n)

GetByConversationID(c, n, before) ==
  HighestSeqs({r \in RowsOf(c) : before > 0 => r.seq < before}, n)

\* Faulty: the catch-up page is ordered like the others, newest first.
FaultyGetByConversationIDAfterSeq(c, n, after) ==
  HighestSeqs({r \in RowsOf(c) : after > 0 => r.seq > after}, n)

GetByConversationIDAfterSeq(c, n, after) ==
  LowestSeqs({r \in RowsOf(c) : after > 0 => r.seq > after}, n)

\* after_seq wins over before_seq; zero means "not given" for both.
LoadMessages(c, before, after) ==
  IF after > 0 THEN GetByConversationIDAfterSeq(c, Limit, after)
               ELSE GetByConversationID(c, Limit, before)

Least(S) == CHOOSE n \in S : \A k \in S : n <= k
Greatest(S) == CHOOSE n \in S : \A k \in S : n >= k

\* The client keeps the page and moves its cursors to the ends of what it has.
Keep(page) ==
  LET seqs == {r.seq : r \in got \cup page} IN
  /\ got' = got \cup page
  /\ oldest' = IF seqs = {} THEN 0 ELSE Least(seqs)
  /\ newest' = IF seqs = {} THEN 0 ELSE Greatest(seqs)

Open(c) ==
  /\ conversation = None
  /\ conversation' = c
  /\ Keep(LoadMessages(c, 0, 0))

CatchUp ==
  /\ conversation # None
  /\ newest > 0
  /\ Keep(LoadMessages(conversation, 0, newest))
  /\ UNCHANGED conversation

ScrollBack ==
  /\ conversation # None
  /\ oldest > 0
  /\ Keep(LoadMessages(conversation, oldest, 0))
  /\ UNCHANGED conversation

ReaderInit ==
  /\ Init
  /\ conversation = None
  /\ got = {}
  /\ oldest = 0 /\ newest = 0

ReaderNext ==
  \/ Next /\ UNCHANGED reader
  \/ (\E c \in Conversations : Open(c)) /\ UNCHANGED vars
  \/ CatchUp /\ UNCHANGED vars
  \/ ScrollBack /\ UNCHANGED vars

ReaderSpec == ReaderInit /\ [][ReaderNext]_<<vars, reader>>

\* The store's processes go on; what the client asks is up to its user.
FairReaderSpec ==
  ReaderSpec /\ WF_<<vars, reader>>(\E p \in Processes : Connect(p) /\ UNCHANGED reader)
             /\ \A p \in Processes : WF_<<vars, reader>>(HandlerStep(p) /\ UNCHANGED reader)

-----------------------------------------------------------------------------
\* Whatever the interleaving of pages and commits, the client holds exactly
\* the rows between its two cursors: no row is ever committed below a cursor
\* that has passed it, and no page skips one.
PagesSeamless ==
  conversation # None =>
    got = {r \in RowsOf(conversation) : oldest <= r.seq /\ r.seq <= newest}

\* A page that comes back empty means there is nothing more on that side.
EmptyPageIsEnd ==
  conversation # None /\ newest > 0 =>
    /\ LoadMessages(conversation, 0, newest) = {}
         <=> newest = Cardinality(RowsOf(conversation))
    /\ LoadMessages(conversation, oldest, 0) = {} <=> oldest = 1
=============================================================================
