---------------------------- MODULE ClientCache_proofs ----------------------------
(***************************************************************************)
(* Proofs about ClientCache.                                               *)
(*                                                                         *)
(* Types and RefreshInv say what the rows and the refreshes are and need   *)
(* no hypothesis.  A catch-up is complete (CatchInv) while a batch holds   *)
(* what it has missed (CatchUpFits).  That the cache has no hole needs to  *)
(* know where the next page can come to lie: every seq from which one is   *)
(* taken (Anchors) reaches every other one, and the point from which a     *)
(* waiting refresh goes on, without a gap (Hull, BaseInv); while the cache *)
(* holds less than a page it begins with message 1, so nobody can pull     *)
(* (FewInv).  What a room shows is proved for a room that is Alone: it     *)
(* shows the cache upwards of its own rows, and enough of it wherever a    *)
(* page is still to come (RoomOK).                                         *)
(***************************************************************************)
EXTENDS ClientCache, FiniteSetTheorems, WellFoundedInduction, TLAPS

-----------------------------------------------------------------------------
(* The invariant *)

\* No copy of a message twice, and a seq is the one the backend gave.
Copies(S, n) ==
  /\ S \subseteq Row
  /\ \A r \in S : r.seq \in {0, r.msg} /\ r.seq <= n
  /\ \A q, r \in S : q.msg = r.msg => q = r

Phases == {"new", "starting", "catchup", "latest", "done", "failed"}

Types ==
  /\ published \in 0 .. History + MaxLive /\ stored \in 0 .. published
  /\ connected \in BOOLEAN /\ inbox \in Seq(Messages)
  /\ open \in Rooms \cup {None}
  /\ phase \in [Rooms -> Phases]
  /\ after \in [Rooms -> Nat] /\ pulling \in [Rooms -> Nat]
  /\ due \in [Rooms -> Nat] /\ overlap \in [Rooms -> BOOLEAN]
  /\ view \in [Rooms -> SUBSET Row] /\ caught \in [Rooms -> SUBSET Row]
  /\ Copies(cache, stored)
  /\ \A r \in Rooms : Copies(view[r], stored) /\ Copies(caught[r], stored)

Waiting(r) == phase[r] \in {"catchup", "latest"}

\* Where a refresh is.
RefreshInv ==
  /\ open # None => phase[open] # "new"
  /\ \A r \in Rooms :
       /\ phase[r] \in {"new", "starting"} => after[r] = 0
       /\ phase[r] = "new" => pulling[r] = 0
       /\ phase[r] = "catchup" => after[r] > 0
       /\ Waiting(r) => /\ due[r] <= stored /\ stored <= due[r] + MaxMeanwhile
                        /\ after[r] <= due[r]
       /\ \A x \in caught[r] : x.seq > after[r]
       /\ phase[r] = "latest" /\ after[r] = 0 => caught[r] = {}
       /\ phase[r] # "latest" => caught[r] = {}
       /\ Shown(view[r]) \subseteq Shown(cache)

\* A batch holds what a refresh has missed.
CatchUpFits == \A r \in Rooms : phase[r] = "catchup" => stored <= after[r] + Batch

\* What a catch-up has given and what it has shown is complete.
CatchInv ==
  \A r \in Rooms : after[r] > 0 =>
    /\ phase[r] = "latest" => after[r] + 1 .. due[r] \subseteq Shown(caught[r])
    /\ phase[r] = "latest" =>
         \A x \in caught[r] : after[r] + 1 .. x.seq \subseteq Shown(caught[r])
    /\ phase[r] = "done" => after[r] + 1 .. due[r] \subseteq Shown(view[r])

\* The senders' clocks agree with the order in which the backend stores.
ClocksAgree == \A m, n \in Messages : m <= n => CreatedAt[m] <= CreatedAt[n]

\* The seqs from which pages may still be taken.
Anchors ==
  ({x.seq : x \in cache} \cup {pulling[r] : r \in Rooms}
    \cup UNION {{x.seq : x \in view[r]} : r \in {q \in Rooms : 1 \notin Shown(view[q])}})
  \ {0}

\* Where the pages of a waiting refresh begin: the catch-up after this seq, or
\* the latest page, which reaches down to it.
Base(r) == IF after[r] > 0 THEN after[r] ELSE due[r]

\* Less than a page is cached.
Few == Cardinality(cache) < PageSize

\* No gap between two anchors, nor between one and a waiting refresh.
Hull == \A a, b \in Anchors : a .. b \subseteq Shown(cache)

BaseInv ==
  \A r \in Rooms : Waiting(r) => \A a \in Anchors : a .. Base(r) \subseteq Shown(cache)

\* Then no pull is under way or possible, and the cache begins with message 1.
FewInv ==
  Few => /\ \A r \in Rooms : pulling[r] = 0
         /\ (\E x \in cache : x.seq > 0) => 1 \in Shown(cache)
         /\ \A r \in Rooms : (\E x \in view[r] : x.seq > 0) => 1 \in Shown(view[r])

\* A refresh about to start shows a page, or every live copy of the cache.
StartInv ==
  \A r \in Rooms : phase[r] = "starting" =>
    \/ Cardinality(view[r]) >= PageSize
    \/ \A x \in cache : x.seq = 0 => x.msg \in Shown(view[r])

PullInv == \A r \in Rooms : pulling[r] <= stored

HoleInv == Hull /\ BaseInv /\ FewInv /\ StartInv /\ PullInv

\* The room on the screen, opened while no other room was busy: none is since,
\* and it shows what is cached above a row of its own, from the row it pulls
\* before, and after the seq it catches up from; all of it, where it shows less
\* than a page or waits for the latest one.
Alone(v) == open = v /\ ~ overlap[v]

RoomOK(v) ==
  /\ \A q \in Rooms \ {v} : ~ Running(q)
  /\ \A r \in cache, q \in view[v] : 0 < q.seq /\ q.seq < r.seq => r.msg \in Shown(view[v])
  /\ pulling[v] > 0 => \A r \in cache : r.seq >= pulling[v] => r.msg \in Shown(view[v])
  /\ phase[v] = "catchup" =>
       \A r \in cache : r.seq > after[v] => r.msg \in Shown(view[v])
  /\ Cardinality(view[v]) < PageSize => Shown(cache) \subseteq Shown(view[v])
  /\ phase[v] = "latest" => Shown(cache) \subseteq Shown(view[v])

RoomInv == \A v \in Rooms : Alone(v) => RoomOK(v)

-----------------------------------------------------------------------------
(* Rows *)

LEMMA ShownUpsert ==
  ASSUME NEW S, NEW T
  PROVE  Shown(Upsert(S, T)) = Shown(S) \cup Shown(T)
<1>1. \A r \in S : r.msg \in Shown(T) \/ r \in Upsert(S, T)
  BY DEF Upsert
<1>2. Upsert(S, T) \subseteq S \cup T /\ T \subseteq Upsert(S, T)
  BY DEF Upsert
<1> QED
  BY <1>1, <1>2 DEF Shown

LEMMA CopiesUpsert ==
  ASSUME NEW S, NEW T, NEW n, Copies(S, n), Copies(T, n)
  PROVE  Copies(Upsert(S, T), n)
<1>1. \A r \in Upsert(S, T) : r \in T \/ (r \in S /\ \A q \in T : q.msg # r.msg)
  BY DEF Upsert, Shown
<1> QED
  BY <1>1 DEF Copies

LEMMA CopiesLater ==
  ASSUME NEW S, NEW n \in Nat, NEW k \in Nat, n <= k, Copies(S, n)
  PROVE  Copies(S, k)
<1>1. \A r \in S : r.seq \in Nat /\ r.seq <= n
  BY DEF Copies, Row
<1> QED
  BY <1>1 DEF Copies

LEMMA LiveRow ==
  ASSUME NEW m \in Messages, NEW n \in Nat
  PROVE  Copies({Live(m)}, n) /\ Shown({Live(m)}) = {m}
<1>1. Live(m) \in Row /\ Live(m).seq = 0 /\ Live(m).msg = m
  BY DEF Live, Row
<1> QED
  BY <1>1 DEF Copies, Shown

LEMMA FetchedRows ==
  ASSUME NEW n \in Nat, n <= History + MaxLive, NEW G \in SUBSET (1 .. n),
         NEW T, T = {Fetched(m) : m \in G}
  PROVE  /\ Copies(T, n) /\ Shown(T) = G
         /\ \A x \in T : x.seq = x.msg /\ x.seq \in G /\ x.seq > 0
         /\ \A m \in G : Fetched(m) \in T /\ Fetched(m).msg = m /\ Fetched(m).seq = m
<1>1. \A m \in G : m \in Messages /\ m \in Nat /\ m > 0 /\ m <= n
  BY ClientAssumption DEF Messages
<1>2. \A m \in G : Fetched(m) \in Row /\ Fetched(m).msg = m /\ Fetched(m).seq = m
  BY <1>1 DEF Fetched, Row
<1>3. \A x \in T : \E m \in G : x = Fetched(m)
  OBVIOUS
<1>4. \A x \in T : x \in Row /\ x.seq = x.msg /\ x.seq \in G /\ x.seq > 0 /\ x.seq <= n
  BY <1>1, <1>2, <1>3
<1>5. \A x, y \in T : x.msg = y.msg => x = y
  BY <1>2, <1>3
<1>6. Shown(T) = G
  BY <1>2, <1>3 DEF Shown
<1>7. Copies(T, n)
  BY <1>4, <1>5 DEF Copies
<1> QED
  BY <1>2, <1>4, <1>6, <1>7

LEMMA MessagesFinite == IsFiniteSet(Messages)
<1>1. History + MaxLive \in Int
  BY ClientAssumption
<1> QED
  BY <1>1, FS_Interval DEF Messages

\* As many rows as messages.
LEMMA CopiesCount ==
  ASSUME NEW S, NEW n, Copies(S, n)
  PROVE  /\ IsFiniteSet(S) /\ Cardinality(S) \in Nat
         /\ IsFiniteSet(Shown(S)) /\ Shown(S) \subseteq Messages
         /\ Cardinality(S) = Cardinality(Shown(S))
<1> DEFINE f == [r \in S |-> r.msg]
<1>1. Shown(S) \subseteq Messages
  BY DEF Copies, Row, Shown
<1>2. IsFiniteSet(Shown(S))
  BY <1>1, MessagesFinite, FS_Subset
<1>3. f \in Surjection(S, Shown(S))
  BY DEF Surjection, Shown
<1>4. f \in Injection(S, Shown(S))
  <2>1. f \in [S -> Shown(S)] /\ \A r \in S : f[r] = r.msg
    BY DEF Shown
  <2>2. \A q, r \in S : f[q] = f[r] => q = r
    BY <2>1 DEF Copies
  <2> QED
    BY <2>1, <2>2 DEF Injection, IsInjective
<1> HIDE DEF f
<1>5. IsFiniteSet(S)
  BY <1>2, <1>4, FS_Injection
<1>6. Cardinality(S) = Cardinality(Shown(S))
  BY <1>2, <1>3, <1>4, FS_Injection
<1> QED
  BY <1>1, <1>2, <1>5, <1>6, FS_CardinalityType

LEMMA MoreShown ==
  ASSUME NEW S, NEW T, NEW n, NEW k, Copies(S, n), Copies(T, k), Shown(S) \subseteq Shown(T)
  PROVE  Cardinality(S) <= Cardinality(T)
<1>1. /\ Cardinality(S) = Cardinality(Shown(S)) /\ Cardinality(T) = Cardinality(Shown(T))
      /\ IsFiniteSet(Shown(T))
  BY CopiesCount
<1>2. Cardinality(Shown(S)) <= Cardinality(Shown(T))
  BY <1>1, FS_Subset
<1> QED
  BY <1>1, <1>2

\* A set of numbers that is not empty has a least one.
LEMMA LeastExists ==
  ASSUME NEW S, S \subseteq Nat, S # {}
  PROVE  \E m \in S : \A k \in S : m <= k
<1>1. \E m \in S : \A k \in S : ~ (<<k, m>> \in OpToRel(<, Nat))
  BY WFMin, NatLessThanWellFounded
<1>2. \A m, k \in Nat : ~ (<<k, m>> \in OpToRel(<, Nat)) => m <= k
  BY DEF OpToRel
<1> QED
  BY <1>1, <1>2

\* Rows of different messages are in one order.
LEMMA BeforeOrders ==
  ASSUME NEW p \in Row, NEW q \in Row, NEW r \in Row
  PROVE  /\ Before(p, q) /\ Before(q, r) => Before(p, r)
         /\ ~ Before(p, p)
         /\ p.msg # q.msg => Before(p, q) \/ Before(q, p)
<1>1. PICK a \in Nat, b \in Nat, c \in Nat :
        a = CreatedAt[p.msg] /\ b = CreatedAt[q.msg] /\ c = CreatedAt[r.msg]
  BY ClientAssumption DEF Row
<1>2. /\ p.msg \in Nat /\ q.msg \in Nat /\ r.msg \in Nat
      /\ p.seq \in Nat /\ q.seq \in Nat /\ r.seq \in Nat
  BY DEF Row, Messages
<1>3. /\ Before(p, q) <=> a < b \/ (a = b /\ (p.seq < q.seq \/ (p.seq = q.seq /\ p.msg < q.msg)))
      /\ Before(q, p) <=> b < a \/ (b = a /\ (q.seq < p.seq \/ (q.seq = p.seq /\ q.msg < p.msg)))
      /\ Before(q, r) <=> b < c \/ (b = c /\ (q.seq < r.seq \/ (q.seq = r.seq /\ q.msg < r.msg)))
      /\ Before(p, r) <=> a < c \/ (a = c /\ (p.seq < r.seq \/ (p.seq = r.seq /\ p.msg < r.msg)))
      /\ Before(p, p) <=> a < a \/ (a = a /\ (p.seq < p.seq \/ (p.seq = p.seq /\ p.msg < p.msg)))
  BY <1>1 DEF Before
<1>4. Before(p, q) /\ Before(q, r) => Before(p, r)
  BY <1>2, <1>3
<1>5. ~ Before(p, p)
  BY <1>2, <1>3
<1>6. p.msg # q.msg => Before(p, q) \/ Before(q, p)
  BY <1>2, <1>3
<1> QED
  BY <1>4, <1>5, <1>6

Ahead(S, r) == {q \in S : Before(r, q)}
Behind(S, r) == {q \in S : Before(q, r)}

LEMMA AheadShrinks ==
  ASSUME NEW S, NEW n, Copies(S, n), NEW r \in S, NEW q \in S, Before(r, q)
  PROVE  /\ Cardinality(Ahead(S, q)) \in Nat /\ Cardinality(Ahead(S, r)) \in Nat
         /\ Cardinality(Ahead(S, q)) < Cardinality(Ahead(S, r))
         /\ Cardinality(Behind(S, q)) \in Nat /\ Cardinality(Behind(S, r)) \in Nat
         /\ Cardinality(Behind(S, r)) < Cardinality(Behind(S, q))
<1>1. S \subseteq Row /\ IsFiniteSet(S)
  BY CopiesCount DEF Copies
<1>2. Ahead(S, q) \subseteq Ahead(S, r) /\ q \in Ahead(S, r) /\ q \notin Ahead(S, q)
  BY <1>1, BeforeOrders DEF Ahead
<1>3. Behind(S, r) \subseteq Behind(S, q) /\ r \in Behind(S, q) /\ r \notin Behind(S, r)
  BY <1>1, BeforeOrders DEF Behind
<1>4. IsFiniteSet(Ahead(S, r)) /\ IsFiniteSet(Behind(S, q))
  BY <1>1, FS_Subset DEF Ahead, Behind
<1>5. /\ Cardinality(Ahead(S, q)) <= Cardinality(Ahead(S, r)) /\ IsFiniteSet(Ahead(S, q))
      /\ Cardinality(Ahead(S, q)) # Cardinality(Ahead(S, r))
  BY <1>2, <1>4, FS_Subset
<1>6. /\ Cardinality(Behind(S, r)) <= Cardinality(Behind(S, q)) /\ IsFiniteSet(Behind(S, r))
      /\ Cardinality(Behind(S, q)) # Cardinality(Behind(S, r))
  BY <1>3, <1>4, FS_Subset
<1>7. /\ Cardinality(Ahead(S, q)) \in Nat /\ Cardinality(Ahead(S, r)) \in Nat
      /\ Cardinality(Behind(S, q)) \in Nat /\ Cardinality(Behind(S, r)) \in Nat
  BY <1>4, <1>5, <1>6, FS_CardinalityType
<1> QED
  BY <1>5, <1>6, <1>7

LEMMA FirstExists ==
  ASSUME NEW S, NEW n, Copies(S, n), S # {}
  PROVE  \E r \in S : \A q \in S \ {r} : Before(r, q)
<1> DEFINE c == {Cardinality(Behind(S, r)) : r \in S}
<1>1. IsFiniteSet(S) /\ S \subseteq Row
  BY CopiesCount DEF Copies
<1>2. \A r \in S : Cardinality(Behind(S, r)) \in Nat
  BY <1>1, FS_Subset, FS_CardinalityType DEF Behind
<1>3. c \subseteq Nat /\ c # {}
  BY <1>2
<1>4. \E m \in c : \A k \in c : m <= k
  <2> HIDE DEF c
  <2> QED
    BY <1>3, LeastExists
<1>5. PICK r \in S : \A q \in S : Cardinality(Behind(S, r)) <= Cardinality(Behind(S, q))
  BY <1>4
<1>6. ASSUME NEW q \in S \ {r} PROVE Before(r, q)
  <2>1. q.msg # r.msg
    BY DEF Copies
  <2>2. ~ Before(q, r)
    <3>1. SUFFICES ASSUME Before(q, r) PROVE FALSE
      OBVIOUS
    <3>2. /\ Cardinality(Behind(S, q)) \in Nat /\ Cardinality(Behind(S, r)) \in Nat
          /\ Cardinality(Behind(S, q)) < Cardinality(Behind(S, r))
      BY <3>1, AheadShrinks
    <3> QED
      BY <1>5, <3>2
  <2> QED
    BY <1>1, <2>1, <2>2, BeforeOrders
<1> QED
  BY <1>6

\* The rows that recentMessages leaves out are not needed for a page.
LEMMA RecentFills ==
  ASSUME NEW n, Copies(cache, n), RecentMessages # cache
  PROVE  Cardinality(RecentMessages) >= PageSize
<1> DEFINE N == cache \ RecentMessages
           c == {Cardinality(Ahead(cache, r)) : r \in N}
<1>1. IsFiniteSet(cache) /\ cache \subseteq Row
  BY CopiesCount DEF Copies
<1>2. \A r \in cache : Cardinality(Ahead(cache, r)) \in Nat
  BY <1>1, FS_Subset, FS_CardinalityType DEF Ahead
<1>3. RecentMessages = {r \in cache : Cardinality(Ahead(cache, r)) < PageSize}
  BY DEF RecentMessages, Ahead
<1>4. c \subseteq Nat /\ c # {}
  BY <1>2, <1>3
<1>5. \E m \in c : \A k \in c : m <= k
  <2> HIDE DEF c
  <2> QED
    BY <1>4, LeastExists
<1>6. PICK r \in N : \A q \in N : Cardinality(Ahead(cache, r)) <= Cardinality(Ahead(cache, q))
  BY <1>5
<1>7. Cardinality(Ahead(cache, r)) >= PageSize
  BY <1>2, <1>3, ClientAssumption
<1>8. ASSUME NEW q \in Ahead(cache, r) PROVE q \in RecentMessages
  <2>1. q \in cache /\ Before(r, q)
    BY DEF Ahead
  <2>2. /\ Cardinality(Ahead(cache, q)) \in Nat /\ Cardinality(Ahead(cache, r)) \in Nat
        /\ Cardinality(Ahead(cache, q)) < Cardinality(Ahead(cache, r))
    BY <2>1, AheadShrinks
  <2>3. q \notin N
    BY <1>6, <2>2
  <2> QED
    BY <2>1, <2>3
<1>9. /\ IsFiniteSet(RecentMessages) /\ Ahead(cache, r) \subseteq RecentMessages
  BY <1>1, <1>3, <1>8, FS_Subset
<1>10. /\ Cardinality(Ahead(cache, r)) <= Cardinality(RecentMessages)
       /\ Cardinality(RecentMessages) \in Nat
  BY <1>9, FS_Subset, FS_CardinalityType
<1>11. Cardinality(Ahead(cache, r)) \in Nat
  BY <1>2
<1> QED
  BY <1>7, <1>10, <1>11, ClientAssumption

LEMMA RecentSubset == RecentMessages \subseteq cache
BY DEF RecentMessages

\* What is on the screen when a room opens, goes on to the newest seq.
LEMMA RecentUpwards ==
  ASSUME ClocksAgree, NEW n, Copies(cache, n),
         NEW q \in RecentMessages, NEW r \in cache, 0 < q.seq, q.seq < r.seq
  PROVE  r \in RecentMessages
<1>1. cache \subseteq Row /\ q \in cache
  BY DEF Copies, RecentMessages
<1>2. q.msg = q.seq /\ r.msg = r.seq
  <2>1. q.seq \in Nat /\ r.seq \in Nat
    BY <1>1 DEF Row
  <2> QED
    BY <1>1, <2>1 DEF Copies
<1>3. q.msg \in Messages /\ r.msg \in Messages
  BY <1>1 DEF Row
<1>4. CreatedAt[q.msg] <= CreatedAt[r.msg] /\ CreatedAt[q.msg] \in Nat /\ CreatedAt[r.msg] \in Nat
  <2>1. q.msg <= r.msg
    BY <1>2, <1>3 DEF Messages
  <2> QED
    BY <1>3, <2>1, ClientAssumption DEF ClocksAgree
<1>5. Before(q, r)
  BY <1>4 DEF Before
<1>6. /\ Cardinality(Ahead(cache, q)) \in Nat /\ Cardinality(Ahead(cache, r)) \in Nat
      /\ Cardinality(Ahead(cache, r)) < Cardinality(Ahead(cache, q))
  BY <1>1, <1>5, AheadShrinks
<1>7. Cardinality(Ahead(cache, q)) < PageSize
  BY DEF RecentMessages, Ahead
<1>8. Cardinality(Ahead(cache, r)) < PageSize
  BY <1>6, <1>7, ClientAssumption
<1> QED
  BY <1>8 DEF RecentMessages, Ahead

\* A pull goes back from a row of the screen, and message 1 is not there yet.
LEMMA PullFrom ==
  ASSUME NEW S, NEW n, Copies(S, n), FirstSeq(S) > 1
  PROVE  \E f \in S : /\ f.seq = FirstSeq(S) /\ f.msg = f.seq /\ f.seq \in Nat
                      /\ ClocksAgree => 1 \notin Shown(S)
<1>1. S # {}
  BY DEF FirstSeq
<1>2. PICK f : f = CHOOSE r \in S : \A q \in S \ {r} : Before(r, q)
  OBVIOUS
<1>3. f \in S /\ \A q \in S \ {f} : Before(f, q)
  <2>1. \E r \in S : \A q \in S \ {r} : Before(r, q)
    BY <1>1, FirstExists
  <2> QED
    BY <1>2, <2>1
<1>4. FirstSeq(S) = f.seq
  BY <1>1, <1>2 DEF FirstSeq
<1>5. f.seq > 1 /\ f.seq \in Nat /\ f.msg \in Messages /\ f.msg = f.seq
  <2>1. f \in Row
    BY <1>3 DEF Copies
  <2>2. f.seq \in Nat /\ f.msg \in Messages /\ f.seq > 1
    BY <1>4, <2>1 DEF Row
  <2>3. f.seq \in {0, f.msg}
    BY <1>3 DEF Copies
  <2> QED
    BY <2>2, <2>3
<1>6. ASSUME ClocksAgree, NEW x \in S, x.msg = 1 PROVE FALSE
  <2>1. x \in Row /\ x.seq \in {0, x.msg}
    BY DEF Copies
  <2>2. x \in S \ {f}
    BY <1>5, <1>6
  <2>3. Before(f, x)
    BY <1>3, <2>2
  <2>4. 1 \in Messages /\ 1 <= f.msg
    BY <1>5, <1>6, <2>1 DEF Row, Messages
  <2>5. PICK a \in Nat, b \in Nat : a = CreatedAt[f.msg] /\ b = CreatedAt[1] /\ b <= a
    BY <1>5, <1>6, <2>4, ClientAssumption DEF ClocksAgree
  <2>6. f.seq < x.seq \/ f.seq = x.seq
    BY <1>6, <2>3, <2>5 DEF Before
  <2>7. x.seq \in {0, 1}
    BY <1>6, <2>1
  <2> QED
    BY <1>5, <2>6, <2>7
<1> QED
  BY <1>3, <1>4, <1>5, <1>6 DEF Shown

LEMMA HighestSeq ==
  ASSUME NEW n \in Nat, Copies(cache, n)
  PROVE  /\ HighestSequence \in Nat /\ HighestSequence <= n
         /\ \A x \in cache : x.seq <= HighestSequence
         /\ HighestSequence > 0 => \E x \in cache : x.seq = HighestSequence
<1>1. CASE cache = {}
  BY <1>1 DEF HighestSequence
<1>2. CASE cache # {}
  <2> DEFINE c == {n - x.seq : x \in cache}
  <2>1. \A x \in cache : x.seq \in Nat /\ x.seq <= n
    BY DEF Copies, Row
  <2>2. c \subseteq Nat /\ c # {}
    BY <1>2, <2>1
  <2>3. \E m \in c : \A k \in c : m <= k
    <3> HIDE DEF c
    <3> QED
      BY <2>2, LeastExists
  <2>4. PICK x \in cache : \A y \in cache : n - x.seq <= n - y.seq
    BY <2>3
  <2>5. \A y \in cache : y.seq <= x.seq
    BY <2>1, <2>4
  <2>6. PICK h : h = CHOOSE r \in cache : \A q \in cache : q.seq <= r.seq
    OBVIOUS
  <2>7. h \in cache /\ \A q \in cache : q.seq <= h.seq
    BY <2>5, <2>6
  <2>8. HighestSequence = h.seq
    BY <1>2, <2>6 DEF HighestSequence
  <2> QED
    BY <2>1, <2>7, <2>8
<1> QED
  BY <1>1, <1>2

AfterSeqs(k) == {n \in 1 .. stored : k < n /\ n <= k + Batch}
BeforeSeqs(k) == {n \in 1 .. stored : n < k /\ n + PageSize >= k}
LatestSeqs == {n \in 1 .. stored : n + PageSize > stored}

\* T is what the backend answers for the seqs of G.
Page(T, G) ==
  /\ Copies(T, stored) /\ Shown(T) = G
  /\ \A x \in T : x.seq = x.msg /\ x.seq \in G /\ x.seq > 0
  /\ \A m \in G : Fetched(m) \in T /\ Fetched(m).msg = m /\ Fetched(m).seq = m

LEMMA PageRows ==
  ASSUME Types
  PROVE  /\ \A k : Page(AfterSeq(k), AfterSeqs(k))
         /\ \A k : Page(BeforeSeq(k), BeforeSeqs(k))
         /\ Page(Latest, LatestSeqs)
<1>1. stored \in Nat /\ stored <= History + MaxLive
  BY ClientAssumption DEF Types
<1>2. ASSUME NEW G \in SUBSET (1 .. stored), NEW T, T = {Fetched(m) : m \in G}
      PROVE  Page(T, G)
  BY <1>1, <1>2, FetchedRows DEF Page
<1>3. \A k : AfterSeqs(k) \in SUBSET (1 .. stored) /\ AfterSeq(k) = {Fetched(m) : m \in AfterSeqs(k)}
  BY DEF AfterSeqs, AfterSeq
<1>4. \A k : BeforeSeqs(k) \in SUBSET (1 .. stored) /\ BeforeSeq(k) = {Fetched(m) : m \in BeforeSeqs(k)}
  BY DEF BeforeSeqs, BeforeSeq
<1>5. LatestSeqs \in SUBSET (1 .. stored) /\ Latest = {Fetched(m) : m \in LatestSeqs}
  BY DEF LatestSeqs, Latest
<1> QED
  BY <1>2, <1>3, <1>4, <1>5

-----------------------------------------------------------------------------
(* What the steps do to the rows *)

\* Rows from the backend.
LEMMA StoreRows ==
  ASSUME Types, NEW r \in Rooms, NEW rows, Copies(rows, stored), Store(r, rows),
         stored' = stored
  PROVE  /\ view' \in [Rooms -> SUBSET Row] /\ Copies(cache', stored')
         /\ \A q \in Rooms : Copies(view'[q], stored')
         /\ cache' = Upsert(cache, rows) /\ view'[r] = Upsert(view[r], rows)
         /\ \A q \in Rooms : q # r => view'[q] = view[q]
         /\ Shown(cache') = Shown(cache) \cup Shown(rows)
         /\ Shown(view'[r]) = Shown(view[r]) \cup Shown(rows)
<1>1. /\ cache' = Upsert(cache, rows) /\ view'[r] = Upsert(view[r], rows)
      /\ \A q \in Rooms : q # r => view'[q] = view[q]
      /\ view' = [view EXCEPT ![r] = Upsert(view[r], rows)]
  BY DEF Store, Types
<1>2. Copies(Upsert(cache, rows), stored) /\ Copies(Upsert(view[r], rows), stored)
  BY CopiesUpsert DEF Types
<1>3. \A q \in Rooms : Copies(view'[q], stored')
  BY <1>1, <1>2 DEF Types
<1>4. Upsert(view[r], rows) \in SUBSET Row
  BY <1>2 DEF Copies
<1>5. view' \in [Rooms -> SUBSET Row]
  BY <1>1, <1>4 DEF Types
<1>6. /\ Shown(cache') = Shown(cache) \cup Shown(rows)
      /\ Shown(view'[r]) = Shown(view[r]) \cup Shown(rows)
  BY <1>1, ShownUpsert
<1> QED
  BY <1>1, <1>2, <1>3, <1>5, <1>6

\* A live message.
LEMMA ReceivedRows ==
  ASSUME Types, NEW m \in Messages, Receive(m), stored' = stored
  PROVE  /\ view' \in [Rooms -> SUBSET Row] /\ Copies(cache', stored')
         /\ \A q \in Rooms : Copies(view'[q], stored')
         /\ Shown(cache') = Shown(cache) \cup {m}
         /\ \A x \in cache' : x \in cache \/ (x.seq = 0 /\ x.msg = m)
         /\ \A q \in Rooms :
              /\ \A x \in view'[q] : x \in view[q] \/ (x.seq = 0 /\ x.msg = m)
              /\ Shown(view'[q]) = IF Alive(q) THEN Shown(view[q]) \cup {m} ELSE Shown(view[q])
<1>1. stored \in Nat
  BY ClientAssumption DEF Types
<1>2. PICK T : T = {Live(m)} /\ Copies(T, stored) /\ Shown(T) = {m}
  BY <1>1, LiveRow
<1>3. /\ cache' = Upsert(cache, T)
      /\ view' = [q \in Rooms |-> IF Alive(q) THEN Upsert(view[q], T) ELSE view[q]]
  BY <1>2 DEF Receive
<1>4. \A S : Shown(Upsert(S, T)) = Shown(S) \cup {m}
  BY <1>2, ShownUpsert
<1>5. \A S : Copies(S, stored) => Copies(Upsert(S, T), stored)
  BY <1>2, CopiesUpsert
<1>6. \A S : \A x \in Upsert(S, T) : x \in S \/ (x.seq = 0 /\ x.msg = m)
  BY <1>2 DEF Upsert, Live
<1>7. Copies(cache', stored') /\ \A q \in Rooms : Copies(view'[q], stored')
  BY <1>3, <1>5 DEF Types
<1>8. view' \in [Rooms -> SUBSET Row]
  <2>1. \A q \in Rooms : view'[q] \subseteq Row
    BY <1>7 DEF Copies
  <2> QED
    BY <1>3, <2>1
<1>9. /\ Shown(cache') = Shown(cache) \cup {m}
      /\ \A x \in cache' : x \in cache \/ (x.seq = 0 /\ x.msg = m)
  BY <1>3, <1>4, <1>6
<1>10. ASSUME NEW q \in Rooms
       PROVE  /\ \A x \in view'[q] : x \in view[q] \/ (x.seq = 0 /\ x.msg = m)
              /\ Shown(view'[q]) = IF Alive(q) THEN Shown(view[q]) \cup {m} ELSE Shown(view[q])
  BY <1>3, <1>4, <1>6
<1> QED
  BY <1>7, <1>8, <1>9, <1>10

-----------------------------------------------------------------------------
(* Types, and where the refreshes are *)

Basic == Types /\ RefreshInv

\* Live messages and publications.
LEMMA BasicReceive ==
  ASSUME Basic, NEW m \in Messages, Receive(m), stored' = stored,
         published' \in 0 .. History + MaxLive, published <= published',
         inbox' \in Seq(Messages), UNCHANGED <<connected, room>>
  PROVE  Basic'
<1>1. Types
  BY DEF Basic
<1>2. /\ view' \in [Rooms -> SUBSET Row] /\ Copies(cache', stored')
      /\ \A q \in Rooms : Copies(view'[q], stored')
      /\ Shown(cache') = Shown(cache) \cup {m}
      /\ \A q \in Rooms :
           Shown(view'[q]) = IF Alive(q) THEN Shown(view[q]) \cup {m} ELSE Shown(view[q])
  BY <1>1, ReceivedRows
<1>3. stored' \in 0 .. published'
  BY ClientAssumption DEF Basic, Types
<1>4. Types'
  BY <1>1, <1>2, <1>3 DEF Types, room
<1>5. \A q \in Rooms : Shown(view'[q]) \subseteq Shown(cache')
  BY <1>2 DEF Basic, RefreshInv
<1>6. RefreshInv'
  BY <1>5 DEF Basic, RefreshInv, Waiting, room
<1> QED
  BY <1>4, <1>6 DEF Basic

LEMMA NextMessage ==
  ASSUME Types, published < History + MaxLive
  PROVE  published + 1 \in Messages /\ published + 1 \in 0 .. History + MaxLive
         /\ published <= published + 1
BY ClientAssumption DEF Types, Messages

LEMMA BasicOutside ==
  ASSUME Basic, Publish \/ SendMessage \/ Deliver \/ Persist \/ Connect \/ ConnectionLost \/ Leave
  PROVE  Basic'
<1>1. Types
  BY DEF Basic
<1>2. CASE Publish
  <2>1. published + 1 \in Messages /\ published' \in 0 .. History + MaxLive /\ published <= published'
    BY <1>1, <1>2, NextMessage DEF Publish
  <2>2. stored' \in 0 .. published'
    BY <1>1, <1>2, <2>1, ClientAssumption DEF Types, Publish
  <2>3. inbox' \in Seq(Messages)
    BY <1>1, <1>2, <2>1 DEF Types, Publish
  <2>4. UNCHANGED <<stored, connected, cache, view, room>>
    BY <1>2 DEF Publish
  <2>5. Types'
    BY <1>1, <2>1, <2>2, <2>3, <2>4 DEF Types, room
  <2>6. RefreshInv'
    BY <2>4 DEF Basic, RefreshInv, Waiting, room
  <2> QED
    BY <2>5, <2>6 DEF Basic
<1>3. CASE SendMessage
  <2>1. published + 1 \in Messages /\ published' \in 0 .. History + MaxLive /\ published <= published'
    BY <1>1, <1>3, NextMessage DEF SendMessage
  <2>2. inbox' \in Seq(Messages)
    BY <1>1, <1>3, <2>1 DEF Types, SendMessage
  <2>3. Receive(published + 1) /\ UNCHANGED <<stored, connected, room>>
    BY <1>3 DEF SendMessage
  <2> QED
    BY <2>1, <2>2, <2>3, BasicReceive
<1>4. CASE Deliver
  <2>1. Head(inbox) \in Messages /\ inbox' \in Seq(Messages)
    BY <1>1, <1>4 DEF Types, Deliver
  <2>2. Receive(Head(inbox)) /\ UNCHANGED <<log, connected, room>>
    BY <1>4 DEF Deliver
  <2>3. published' \in 0 .. History + MaxLive /\ published <= published' /\ stored' = stored
    BY <1>1, <2>2, ClientAssumption DEF Types, log
  <2> QED
    BY <2>1, <2>2, <2>3, BasicReceive
<1>5. CASE Persist
  <2>1. stored \in Nat /\ published \in Nat /\ stored' = stored + 1 /\ stored < published
        /\ UNCHANGED <<published, link, cache, view, room>>
    BY <1>1, <1>5, ClientAssumption DEF Types, Persist
  <2>2. stored' \in 0 .. published' /\ stored' \in Nat /\ stored <= stored'
    BY <2>1
  <2>3. \A S : Copies(S, stored) => Copies(S, stored')
    BY <2>1, <2>2, CopiesLater
  <2>4. Types'
    BY <1>1, <2>1, <2>2, <2>3 DEF Types, room, link
  <2>5. \A r \in Rooms : Waiting(r) => stored' <= due[r] + MaxMeanwhile /\ due[r] <= stored'
    <3>1. \A r \in Rooms : Waiting(r) => stored < due[r] + MaxMeanwhile /\ due[r] <= stored /\ due[r] \in Nat
      BY <1>1, <1>5 DEF Persist, Waiting, Basic, RefreshInv, Types
    <3> QED
      BY <2>1, <3>1, ClientAssumption
  <2>6. RefreshInv'
    BY <2>1, <2>5 DEF Basic, RefreshInv, Waiting, room
  <2> QED
    BY <2>4, <2>6 DEF Basic
<1>6. CASE Connect \/ ConnectionLost
  <2>1. /\ connected' \in BOOLEAN /\ inbox' \in {inbox, << >>}
        /\ UNCHANGED <<log, cache, view, room>>
    BY <1>6 DEF Connect, ConnectionLost
  <2>2. Types'
    <3>1. << >> \in Seq(Messages) /\ inbox \in Seq(Messages)
      BY <1>1 DEF Types
    <3> QED
      BY <1>1, <2>1, <3>1 DEF Types, room, log
  <2>3. RefreshInv'
    BY <2>1 DEF Basic, RefreshInv, Waiting, room, log
  <2> QED
    BY <2>2, <2>3 DEF Basic
<1>7. CASE Leave
  <2>1. open' = None /\ UNCHANGED <<log, link, cache, view, phase, after, caught, pulling, due, overlap>>
    BY <1>7 DEF Leave
  <2>2. Types'
    BY <1>1, <2>1 DEF Types, log, link
  <2>3. RefreshInv'
    BY <2>1 DEF Basic, RefreshInv, Waiting, log
  <2> QED
    BY <2>2, <2>3 DEF Basic
<1> QED
  BY <1>2, <1>3, <1>4, <1>5, <1>6, <1>7

LEMMA BasicFetch ==
  ASSUME Basic, NEW r \in Rooms, FetchMessages(r)
  PROVE  Basic'
<1>1. /\ open = None /\ phase[r] = "new" /\ open' = r
      /\ view' = [view EXCEPT ![r] = RecentMessages]
      /\ phase' = [phase EXCEPT ![r] = "starting"]
      /\ overlap' = [overlap EXCEPT ![r] = \E q \in Rooms : Running(q)]
      /\ UNCHANGED <<log, link, cache, after, caught, pulling, due>>
  BY DEF FetchMessages
<1>2. RecentMessages \in SUBSET Row /\ Copies(RecentMessages, stored)
      /\ Shown(RecentMessages) \subseteq Shown(cache)
  BY RecentSubset DEF Basic, Types, Copies, Shown
<1>3. Types'
  <2>1. overlap' \in [Rooms -> BOOLEAN] /\ phase' \in [Rooms -> Phases]
    BY <1>1 DEF Basic, Types, Phases
  <2>2. view' \in [Rooms -> SUBSET Row] /\ \A q \in Rooms : Copies(view'[q], stored')
    BY <1>1, <1>2 DEF Basic, Types, log
  <2> QED
    BY <1>1, <2>1, <2>2 DEF Basic, Types, log, link
<1>4. RefreshInv'
  <2>1. \A q \in Rooms : /\ phase'[q] = IF q = r THEN "starting" ELSE phase[q]
                         /\ view'[q] = IF q = r THEN RecentMessages ELSE view[q]
    BY <1>1 DEF Basic, Types
  <2> QED
    BY <1>1, <1>2, <2>1 DEF Basic, RefreshInv, Waiting, log
<1> QED
  BY <1>3, <1>4 DEF Basic

\* The end of the catch-up, where rows is what it gave.
LEMMA BasicAfterCatchUp ==
  ASSUME Basic, NEW r \in Rooms, NEW rows, Copies(rows, stored),
         phase[r] \in {"starting", "catchup"},
         due' \in [Rooms -> Nat], \A q \in Rooms : q # r => due'[q] = due[q],
         after[r] <= due'[r], due'[r] <= stored, stored <= due'[r] + MaxMeanwhile,
         \A x \in rows : x.seq > after[r], after[r] = 0 => rows = {},
         AfterCatchUp(r, rows), UNCHANGED <<log, link, open, after, pulling, overlap>>
  PROVE  Basic'
<1>1. Types /\ stored' = stored /\ rows \in SUBSET Row
  BY DEF Basic, log, Copies
<1>2. CASE Cardinality(view[r]) < PageSize
  <2>1. /\ phase' = [phase EXCEPT ![r] = "latest"] /\ caught' = [caught EXCEPT ![r] = rows]
        /\ UNCHANGED <<cache, view>>
    BY <1>2 DEF AfterCatchUp
  <2>2. /\ \A q \in Rooms : /\ phase'[q] = IF q = r THEN "latest" ELSE phase[q]
                            /\ caught'[q] = IF q = r THEN rows ELSE caught[q]
        /\ phase' \in [Rooms -> Phases] /\ caught' \in [Rooms -> SUBSET Row]
    BY <1>1, <2>1 DEF Types, Phases
  <2>3. Types'
    BY <1>1, <2>1, <2>2 DEF Types, log, link
  <2>4. RefreshInv'
    BY <1>1, <2>1, <2>2 DEF Basic, RefreshInv, Waiting, log
  <2> QED
    BY <2>3, <2>4 DEF Basic
<1>3. CASE ~ Cardinality(view[r]) < PageSize
  <2>1. /\ phase' = [phase EXCEPT ![r] = "done"] /\ Store(r, rows) /\ UNCHANGED caught
    BY <1>3 DEF AfterCatchUp
  <2>2. \A q \in Rooms : phase'[q] = IF q = r THEN "done" ELSE phase[q]
    BY <1>1, <2>1 DEF Types
  <2>3. /\ view' \in [Rooms -> SUBSET Row] /\ Copies(cache', stored')
        /\ \A q \in Rooms : Copies(view'[q], stored')
        /\ \A q \in Rooms : q # r => view'[q] = view[q]
        /\ Shown(cache') = Shown(cache) \cup Shown(rows)
        /\ Shown(view'[r]) = Shown(view[r]) \cup Shown(rows)
    BY <1>1, <2>1, StoreRows
  <2>4. Types'
    <3>1. phase' \in [Rooms -> Phases]
      BY <1>1, <2>1 DEF Types, Phases
    <3> QED
      BY <1>1, <2>1, <2>3, <3>1 DEF Types, log, link
  <2>5. RefreshInv'
    BY <1>1, <2>1, <2>2, <2>3 DEF Basic, RefreshInv, Waiting, log
  <2> QED
    BY <2>4, <2>5 DEF Basic
<1> QED
  BY <1>2, <1>3

LEMMA BasicStart ==
  ASSUME Basic, NEW r \in Rooms, StartRefresh(r)
  PROVE  Basic'
<1>1. Types /\ stored \in Nat
  BY ClientAssumption DEF Basic, Types
<1>2. /\ phase[r] = "starting" /\ due' = [due EXCEPT ![r] = stored]
      /\ UNCHANGED <<log, link, open, pulling, overlap>>
  BY DEF StartRefresh
<1>3. due' \in [Rooms -> Nat] /\ due'[r] = stored /\ \A q \in Rooms : q # r => due'[q] = due[q]
  BY <1>1, <1>2 DEF Types
<1>4. HighestSequence \in Nat /\ HighestSequence <= stored
  BY <1>1, HighestSeq DEF Types
<1>5. CASE HighestSequence > 0
  <2>1. /\ phase' = [phase EXCEPT ![r] = "catchup"] /\ after' = [after EXCEPT ![r] = HighestSequence]
        /\ UNCHANGED <<cache, view, caught>>
    BY <1>5 DEF StartRefresh
  <2>2. /\ phase' \in [Rooms -> Phases] /\ after' \in [Rooms -> Nat]
        /\ \A q \in Rooms : /\ phase'[q] = IF q = r THEN "catchup" ELSE phase[q]
                            /\ after'[q] = IF q = r THEN HighestSequence ELSE after[q]
    BY <1>1, <1>4, <2>1 DEF Types, Phases
  <2>3. Types'
    BY <1>1, <1>2, <1>3, <2>1, <2>2 DEF Types, log, link
  <2>4. stored <= stored + MaxMeanwhile
    BY <1>1, ClientAssumption
  <2>5. RefreshInv'
    BY <1>2, <1>3, <1>4, <1>5, <2>1, <2>2, <2>4 DEF Basic, RefreshInv, Waiting, log
  <2> QED
    BY <2>3, <2>5 DEF Basic
<1>6. CASE ~ HighestSequence > 0
  <2>1. AfterCatchUp(r, {}) /\ UNCHANGED after
    BY <1>6 DEF StartRefresh
  <2>2. after[r] = 0
    BY <1>2 DEF Basic, RefreshInv
  <2>3. Copies({}, stored)
    BY DEF Copies
  <2>4. stored <= stored + MaxMeanwhile /\ 0 <= stored
    BY <1>1, ClientAssumption
  <2> QED
    BY <1>2, <1>3, <2>1, <2>2, <2>3, <2>4, BasicAfterCatchUp
<1> QED
  BY <1>5, <1>6

LEMMA BasicCatchUp ==
  ASSUME Basic, NEW r \in Rooms, CatchUpAnswered(r)
  PROVE  Basic'
<1>1. Types /\ after[r] \in Nat
  BY DEF Basic, Types
<1>2. PICK rows : rows = AfterSeq(after[r])
  OBVIOUS
<1>3. /\ phase[r] = "catchup" /\ AfterCatchUp(r, rows)
      /\ UNCHANGED <<log, link, open, after, pulling, due, overlap>>
  BY <1>2 DEF CatchUpAnswered
<1>4. Page(rows, AfterSeqs(after[r]))
  BY <1>1, <1>2, PageRows
<1>5. Copies(rows, stored) /\ \A x \in rows : x.seq > after[r]
  BY <1>4 DEF Page, AfterSeqs
<1>6. /\ due[r] <= stored /\ stored <= due[r] + MaxMeanwhile
      /\ after[r] <= due[r] /\ after[r] > 0
  BY <1>3 DEF Basic, RefreshInv, Waiting
<1>7. due' = due /\ due' \in [Rooms -> Nat] /\ ~ (after[r] = 0)
  BY <1>1, <1>3, <1>6 DEF Types
<1> QED
  BY <1>3, <1>5, <1>6, <1>7, BasicAfterCatchUp

\* Rows of the backend arrive; the room's refresh ends with them or is
\* somewhere else.
LEMMA BasicStore ==
  ASSUME Basic, NEW r \in Rooms, NEW rows, Copies(rows, stored), Store(r, rows),
         \/ /\ phase' = [phase EXCEPT ![r] = "done"] /\ phase[r] = "latest"
            /\ caught' = [caught EXCEPT ![r] = {}] /\ UNCHANGED pulling
         \/ pulling' = [pulling EXCEPT ![r] = 0] /\ UNCHANGED <<phase, caught>>,
         UNCHANGED <<log, link, open, after, due, overlap>>
  PROVE  Basic'
<1>1. Types /\ stored' = stored
  BY DEF Basic, log
<1>2. /\ view' \in [Rooms -> SUBSET Row] /\ Copies(cache', stored')
      /\ \A q \in Rooms : Copies(view'[q], stored')
      /\ \A q \in Rooms : q # r => view'[q] = view[q]
      /\ Shown(cache') = Shown(cache) \cup Shown(rows)
      /\ Shown(view'[r]) = Shown(view[r]) \cup Shown(rows)
  BY <1>1, StoreRows
<1>3. /\ phase' \in [Rooms -> Phases] /\ pulling' \in [Rooms -> Nat]
      /\ caught' \in [Rooms -> SUBSET Row]
      /\ \A q \in Rooms :
           /\ phase'[q] = phase[q] \/ (phase'[q] = "done" /\ phase[q] = "latest" /\ q = r)
           /\ pulling'[q] = pulling[q] \/ pulling'[q] = 0
           /\ \/ caught'[q] = caught[q] /\ phase'[q] = phase[q]
              \/ caught'[q] = {} /\ phase[q] = "latest" /\ phase'[q] = "done"
  <2>1. CASE /\ phase' = [phase EXCEPT ![r] = "done"] /\ phase[r] = "latest"
             /\ caught' = [caught EXCEPT ![r] = {}] /\ UNCHANGED pulling
    BY <1>1, <2>1 DEF Types, Phases
  <2>2. CASE pulling' = [pulling EXCEPT ![r] = 0] /\ UNCHANGED <<phase, caught>>
    BY <1>1, <2>2 DEF Types, Phases
  <2> QED
    BY <2>1, <2>2
<1>4. \A q \in Rooms : Copies(caught'[q], stored')
  <2>1. Copies({}, stored)
    BY DEF Copies
  <2> QED
    BY <1>1, <1>3, <2>1 DEF Types
<1>5. Types'
  BY <1>1, <1>2, <1>3, <1>4 DEF Types, log, link
<1>6. RefreshInv'
  <2>1. ASSUME NEW q \in Rooms
        PROVE  Shown(view'[q]) \subseteq Shown(cache')
    BY <1>2 DEF Basic, RefreshInv
  <2>2. ASSUME NEW q \in Rooms
        PROVE  /\ phase'[q] \in {"new", "starting", "catchup", "latest"} => phase'[q] = phase[q]
               /\ phase'[q] = "new" => pulling'[q] = 0
               /\ phase[q] = "new" => phase'[q] = "new"
    BY <1>3 DEF Basic, RefreshInv
  <2>3. ASSUME NEW q \in Rooms
        PROVE  /\ \A x \in caught'[q] : x.seq > after'[q]
               /\ phase'[q] = "latest" /\ after'[q] = 0 => caught'[q] = {}
               /\ phase'[q] # "latest" => caught'[q] = {}
    BY <1>3 DEF Basic, RefreshInv
  <2>4. open' # None => phase'[open'] # "new"
    <3>1. open # None => open \in Rooms /\ phase[open] # "new"
      BY DEF Basic, Types, RefreshInv
    <3>2. \A q \in Rooms : phase'[q] = "new" => phase[q] = "new"
      BY <1>3
    <3> QED
      BY <3>1, <3>2
  <2> QED
    BY <1>1, <2>1, <2>2, <2>3, <2>4 DEF Basic, RefreshInv, Waiting, log
<1> QED
  BY <1>5, <1>6 DEF Basic

LEMMA BasicLatest ==
  ASSUME Basic, NEW r \in Rooms, LatestAnswered(r)
  PROVE  Basic'
<1>1. PICK rows : rows = Upsert(caught[r], Latest)
  OBVIOUS
<1>2. /\ phase[r] = "latest" /\ Store(r, rows) /\ phase' = [phase EXCEPT ![r] = "done"]
      /\ caught' = [caught EXCEPT ![r] = {}]
      /\ UNCHANGED <<log, link, open, after, pulling, due, overlap>>
  BY <1>1 DEF LatestAnswered
<1>3. Copies(Latest, stored) /\ Copies(caught[r], stored)
  BY PageRows DEF Basic, Types, Page
<1>4. Copies(rows, stored)
  BY <1>1, <1>3, CopiesUpsert
<1> QED
  BY <1>2, <1>4, BasicStore

LEMMA BasicOlder ==
  ASSUME Basic, NEW r \in Rooms, OlderAnswered(r)
  PROVE  Basic'
<1>1. PICK rows : rows = BeforeSeq(pulling[r])
  OBVIOUS
<1>2. /\ Store(r, rows) /\ pulling' = [pulling EXCEPT ![r] = 0]
      /\ UNCHANGED <<log, link, open, phase, after, caught, due, overlap>>
  BY <1>1 DEF OlderAnswered
<1>3. Copies(rows, stored)
  BY <1>1, PageRows DEF Basic, Page
<1> QED
  BY <1>2, <1>3, BasicStore

LEMMA BasicFailed ==
  ASSUME Basic, NEW r \in Rooms, RefreshFailed(r) \/ OlderFailed(r)
  PROVE  Basic'
<1>1. CASE RefreshFailed(r)
  <2>1. /\ phase[r] \in {"catchup", "latest"}
        /\ phase' = [phase EXCEPT ![r] = "failed"] /\ caught' = [caught EXCEPT ![r] = {}]
        /\ UNCHANGED <<log, link, cache, view, open, after, pulling, due, overlap>>
    BY <1>1 DEF RefreshFailed
  <2>2. /\ phase' \in [Rooms -> Phases] /\ caught' \in [Rooms -> SUBSET Row]
        /\ \A q \in Rooms : /\ phase'[q] = IF q = r THEN "failed" ELSE phase[q]
                            /\ caught'[q] = IF q = r THEN {} ELSE caught[q]
    BY <2>1 DEF Basic, Types, Phases
  <2>3. \A q \in Rooms : Copies(caught'[q], stored')
    BY <2>1, <2>2 DEF Basic, Types, Copies, log
  <2>4. Types'
    BY <2>1, <2>2, <2>3 DEF Basic, Types, log, link
  <2>5. RefreshInv'
    BY <2>1, <2>2 DEF Basic, RefreshInv, Waiting, log
  <2> QED
    BY <2>4, <2>5 DEF Basic
<1>2. CASE OlderFailed(r)
  <2>1. /\ pulling' = [pulling EXCEPT ![r] = 0]
        /\ UNCHANGED <<log, link, cache, view, open, phase, after, caught, due, overlap>>
    BY <1>2 DEF OlderFailed
  <2>2. /\ pulling' \in [Rooms -> Nat]
        /\ \A q \in Rooms : pulling'[q] = IF q = r THEN 0 ELSE pulling[q]
    BY <2>1 DEF Basic, Types
  <2>3. Types'
    BY <2>1, <2>2 DEF Basic, Types, log, link
  <2>4. RefreshInv'
    BY <2>1, <2>2 DEF Basic, RefreshInv, Waiting, log
  <2> QED
    BY <2>3, <2>4 DEF Basic
<1> QED
  BY <1>1, <1>2

\* A pull shows older rows of the cache.
LEMMA PullRows ==
  ASSUME Types, NEW r \in Rooms, LoadOlder(r)
  PROVE  \E before \in Nat : \E local \in SUBSET cache :
           /\ before = FirstSeq(view[r]) /\ before > 1 /\ local = MessagesBefore(before)
           /\ open = r /\ pulling[r] = 0
           /\ view'[r] = Upsert(view[r], local)
           /\ Shown(view'[r]) = Shown(view[r]) \cup Shown(local)
           /\ Shown(local) \subseteq Shown(cache)
           /\ \A q \in Rooms : q # r => view'[q] = view[q]
           /\ view' \in [Rooms -> SUBSET Row]
           /\ \A q \in Rooms : Copies(view'[q], stored)
           /\ pulling' \in [Rooms -> Nat] /\ pulling'[r] \in {0, before}
           /\ \A q \in Rooms : q # r => pulling'[q] = pulling[q]
           /\ UNCHANGED <<log, link, cache, open, phase, after, caught, due, overlap>>
<1>1. PICK before : before = FirstSeq(view[r])
  OBVIOUS
<1>2. PICK local : local = MessagesBefore(before)
  OBVIOUS
<1>3. /\ open = r /\ pulling[r] = 0 /\ before > 1
      /\ view' = [view EXCEPT ![r] = Upsert(view[r], local)]
      /\ pulling' = [pulling EXCEPT ![r] = IF Cardinality(local) < PageSize THEN before ELSE 0]
      /\ UNCHANGED <<log, link, cache, open, phase, after, caught, due, overlap>>
  BY <1>1, <1>2 DEF LoadOlder, Types
<1>4. before \in Nat
  <2>1. Copies(view[r], stored) /\ FirstSeq(view[r]) > 1
    BY <1>1, <1>3 DEF Types
  <2> QED
    BY <1>1, <2>1, PullFrom
<1>5. local \in SUBSET cache
  BY <1>2 DEF MessagesBefore
<1>6. Copies(local, stored) /\ Copies(view[r], stored)
  BY <1>5 DEF Types, Copies
<1>7. Copies(Upsert(view[r], local), stored)
  BY <1>6, CopiesUpsert
<1>8. /\ view'[r] = Upsert(view[r], local) /\ \A q \in Rooms : q # r => view'[q] = view[q]
      /\ Shown(view'[r]) = Shown(view[r]) \cup Shown(local)
  BY <1>3, ShownUpsert DEF Types
<1>9. view' \in [Rooms -> SUBSET Row] /\ \A q \in Rooms : Copies(view'[q], stored)
  <2>1. Upsert(view[r], local) \in SUBSET Row
    BY <1>7 DEF Copies
  <2> QED
    BY <1>3, <1>7, <1>8, <2>1 DEF Types
<1>10. /\ pulling' \in [Rooms -> Nat] /\ pulling'[r] \in {0, before}
       /\ \A q \in Rooms : q # r => pulling'[q] = pulling[q]
  BY <1>3, <1>4 DEF Types
<1>11. Shown(local) \subseteq Shown(cache)
  BY <1>5 DEF Shown
<1> QED
  BY <1>1, <1>2, <1>3, <1>4, <1>5, <1>8, <1>9, <1>10, <1>11

LEMMA BasicPull ==
  ASSUME Basic, NEW r \in Rooms, LoadOlder(r)
  PROVE  Basic'
<1>1. PICK local \in SUBSET cache :
           /\ open = r
           /\ Shown(view'[r]) = Shown(view[r]) \cup Shown(local)
           /\ Shown(local) \subseteq Shown(cache)
           /\ \A q \in Rooms : q # r => view'[q] = view[q]
           /\ view' \in [Rooms -> SUBSET Row]
           /\ \A q \in Rooms : Copies(view'[q], stored)
           /\ pulling' \in [Rooms -> Nat]
           /\ \A q \in Rooms : q # r => pulling'[q] = pulling[q]
           /\ UNCHANGED <<log, link, cache, open, phase, after, caught, due, overlap>>
  BY PullRows DEF Basic
<1>2. phase[r] # "new"
  BY <1>1, ClientAssumption DEF Basic, RefreshInv
<1>3. Types'
  BY <1>1 DEF Basic, Types, log, link
<1>4. RefreshInv'
  BY <1>1, <1>2 DEF Basic, RefreshInv, Waiting, log
<1> QED
  BY <1>3, <1>4 DEF Basic

LEMMA BasicStep == Basic /\ [Next]_vars => Basic'
<1> SUFFICES ASSUME Basic, [Next]_vars PROVE Basic'
  OBVIOUS
<1>1. ASSUME NEW r \in Rooms,
             \/ FetchMessages(r) \/ StartRefresh(r) \/ CatchUpAnswered(r)
             \/ LatestAnswered(r) \/ RefreshFailed(r)
             \/ LoadOlder(r) \/ OlderAnswered(r) \/ OlderFailed(r)
      PROVE  Basic'
  BY <1>1, BasicFetch, BasicStart, BasicCatchUp, BasicLatest, BasicFailed, BasicPull, BasicOlder
<1>2. CASE UNCHANGED vars
  <2>1. UNCHANGED <<log, link, cache, view, room>>
    BY <1>2 DEF vars
  <2>2. Types'
    BY <2>1 DEF Basic, Types, log, link, room
  <2>3. RefreshInv'
    BY <2>1 DEF Basic, RefreshInv, Waiting, log, room
  <2> QED
    BY <2>2, <2>3 DEF Basic
<1> QED
  BY <1>1, <1>2, BasicOutside DEF Next

LEMMA BasicInit == Init => Basic
<1> SUFFICES ASSUME Init PROVE Basic
  OBVIOUS
<1>1. \A n : Copies({}, n)
  BY DEF Copies
<1>2. Types
  <2>1. History \in 0 .. History + MaxLive /\ History \in 0 .. History
    BY ClientAssumption
  <2>2. << >> \in Seq(Messages) /\ 0 \in Nat
    OBVIOUS
  <2> QED
    BY <1>1, <2>1, <2>2 DEF Init, Types, Phases
<1>3. RefreshInv
  BY DEF Init, RefreshInv, Waiting
<1> QED
  BY <1>2, <1>3 DEF Basic

-----------------------------------------------------------------------------
(* What a catch-up shows *)

\* The screens keep what they show, but for a room that is opened.
LEMMA ScreensGrow ==
  ASSUME Basic, [Next]_vars, NEW q \in Rooms, phase[q] # "new"
  PROVE  Shown(view[q]) \subseteq Shown(view'[q])
<1>1. Types
  BY DEF Basic
<1>2. ASSUME NEW m \in Messages, Receive(m), stored' = stored
      PROVE  Shown(view[q]) \subseteq Shown(view'[q])
  <2>1. Shown(view'[q]) = IF Alive(q) THEN Shown(view[q]) \cup {m} ELSE Shown(view[q])
    BY <1>1, <1>2, ReceivedRows
  <2> QED
    BY <2>1
<1>3. ASSUME NEW r \in Rooms, NEW rows, Copies(rows, stored), Store(r, rows), stored' = stored
      PROVE  Shown(view[q]) \subseteq Shown(view'[q])
  <2>1. /\ r # q => view'[q] = view[q]
        /\ Shown(view'[r]) = Shown(view[r]) \cup Shown(rows)
    BY <1>1, <1>3, StoreRows
  <2> QED
    BY <2>1
<1>4. CASE SendMessage
  <2>1. Receive(published + 1) /\ stored' = stored /\ published + 1 \in Messages
    BY <1>1, <1>4, NextMessage DEF SendMessage
  <2> QED
    BY <1>2, <2>1
<1>5. CASE Deliver
  <2>1. Receive(Head(inbox)) /\ stored' = stored /\ Head(inbox) \in Messages
    BY <1>1, <1>5 DEF Types, Deliver, log
  <2> QED
    BY <1>2, <2>1
<1>6. CASE Publish \/ Persist \/ Connect \/ ConnectionLost \/ Leave \/ UNCHANGED vars
  BY <1>6 DEF Publish, Persist, Connect, ConnectionLost, Leave, vars
<1>7. ASSUME NEW r \in Rooms, FetchMessages(r) PROVE view'[q] = view[q]
  BY <1>1, <1>7 DEF FetchMessages, Types
<1>8. ASSUME NEW r \in Rooms, NEW rows, Copies(rows, stored), AfterCatchUp(r, rows), stored' = stored
      PROVE  Shown(view[q]) \subseteq Shown(view'[q])
  <2>1. CASE Cardinality(view[r]) < PageSize
    BY <1>8, <2>1 DEF AfterCatchUp
  <2>2. CASE ~ Cardinality(view[r]) < PageSize
    BY <1>3, <1>8, <2>2 DEF AfterCatchUp
  <2> QED
    BY <2>1, <2>2
<1>9. ASSUME NEW r \in Rooms, StartRefresh(r) PROVE Shown(view[q]) \subseteq Shown(view'[q])
  <2>1. stored' = stored /\ Copies({}, stored)
    BY <1>9 DEF StartRefresh, Copies, log
  <2>2. CASE HighestSequence > 0
    BY <1>9, <2>2 DEF StartRefresh
  <2>3. CASE ~ HighestSequence > 0
    BY <1>8, <1>9, <2>1, <2>3 DEF StartRefresh
  <2> QED
    BY <2>2, <2>3
<1>10. ASSUME NEW r \in Rooms, CatchUpAnswered(r) PROVE Shown(view[q]) \subseteq Shown(view'[q])
  <2>1. stored' = stored /\ Copies(AfterSeq(after[r]), stored)
    BY <1>1, <1>10, PageRows DEF CatchUpAnswered, log, Page
  <2> QED
    BY <1>8, <1>10, <2>1 DEF CatchUpAnswered
<1>11. ASSUME NEW r \in Rooms, LatestAnswered(r) PROVE Shown(view[q]) \subseteq Shown(view'[q])
  <2>1. stored' = stored /\ Copies(Upsert(caught[r], Latest), stored)
    BY <1>1, <1>11, PageRows, CopiesUpsert DEF LatestAnswered, log, Page, Types
  <2> QED
    BY <1>3, <1>11, <2>1 DEF LatestAnswered
<1>12. ASSUME NEW r \in Rooms, OlderAnswered(r) PROVE Shown(view[q]) \subseteq Shown(view'[q])
  <2>1. stored' = stored /\ Copies(BeforeSeq(pulling[r]), stored)
    BY <1>1, <1>12, PageRows DEF OlderAnswered, log, Page
  <2> QED
    BY <1>3, <1>12, <2>1 DEF OlderAnswered
<1>13. ASSUME NEW r \in Rooms, LoadOlder(r) PROVE Shown(view[q]) \subseteq Shown(view'[q])
  <2>1. PICK local \in SUBSET cache :
          /\ Shown(view'[r]) = Shown(view[r]) \cup Shown(local)
          /\ \A p \in Rooms : p # r => view'[p] = view[p]
    BY <1>1, <1>13, PullRows
  <2> QED
    BY <2>1
<1>14. ASSUME NEW r \in Rooms, RefreshFailed(r) \/ OlderFailed(r) PROVE view' = view
  BY <1>14 DEF RefreshFailed, OlderFailed
<1> QED
  BY <1>4, <1>5, <1>6, <1>7, <1>9, <1>10, <1>11, <1>12, <1>13, <1>14 DEF Next

LEMMA CatchInit == Init => CatchInv
BY DEF Init, CatchInv

LEMMA CatchStep == Basic /\ CatchUpFits /\ CatchInv /\ [Next]_vars => CatchInv'
<1> SUFFICES ASSUME Basic, CatchUpFits, CatchInv, [Next]_vars PROVE CatchInv'
  OBVIOUS
<1>1. Types
  BY DEF Basic
<1>2. ASSUME NEW q \in Rooms, after[q] > 0,
             after'[q] = after[q], due'[q] = due[q],
             phase'[q] = "failed" \/ (phase'[q] = phase[q] /\ caught'[q] = caught[q])
      PROVE  /\ phase'[q] = "latest" => after'[q] + 1 .. due'[q] \subseteq Shown(caught'[q])
             /\ phase'[q] = "latest" =>
                  \A x \in caught'[q] : after'[q] + 1 .. x.seq \subseteq Shown(caught'[q])
             /\ phase'[q] = "done" => after'[q] + 1 .. due'[q] \subseteq Shown(view'[q])
  <2>1. phase[q] # "new"
    BY <1>2 DEF Basic, RefreshInv
  <2>2. Shown(view[q]) \subseteq Shown(view'[q])
    BY <2>1, ScreensGrow
  <2> QED
    BY <1>2, <2>2 DEF CatchInv
<1>3. CASE Publish \/ SendMessage \/ Persist \/ Connect \/ ConnectionLost \/ Deliver \/ Leave
           \/ UNCHANGED vars
  <2>1. UNCHANGED <<phase, after, caught, due>>
    BY <1>3 DEF Publish, SendMessage, Persist, Connect, ConnectionLost, Deliver, Leave, vars, room
  <2> QED
    BY <1>2, <2>1 DEF CatchInv
<1>4. ASSUME NEW r \in Rooms, RefreshFailed(r) \/ OlderFailed(r) \/ LoadOlder(r)
                              \/ OlderAnswered(r) \/ FetchMessages(r)
      PROVE  CatchInv'
  <2>1. \A q \in Rooms : after'[q] > 0 =>
          /\ after'[q] = after[q] /\ due'[q] = due[q]
          /\ phase'[q] = "failed" \/ (phase'[q] = phase[q] /\ caught'[q] = caught[q])
    BY <1>1, <1>4 DEF RefreshFailed, OlderFailed, LoadOlder, OlderAnswered, FetchMessages,
                      Types, Basic, RefreshInv
  <2> QED
    BY <1>2, <2>1 DEF CatchInv
<1>5. ASSUME NEW r \in Rooms, StartRefresh(r) PROVE CatchInv'
  <2>1. phase[r] = "starting" /\ after[r] = 0
    BY <1>5 DEF StartRefresh, Basic, RefreshInv
  <2>2. \A q \in Rooms \ {r} : /\ after'[q] = after[q] /\ due'[q] = due[q]
                               /\ phase'[q] = phase[q] /\ caught'[q] = caught[q]
    BY <1>1, <1>5 DEF StartRefresh, AfterCatchUp, Types
  <2>3. after'[r] > 0 => phase'[r] = "catchup"
    BY <1>1, <1>5, <2>1 DEF StartRefresh, Types
  <2> QED
    BY <1>2, <2>2, <2>3 DEF CatchInv
<1>6. ASSUME NEW r \in Rooms, CatchUpAnswered(r) PROVE CatchInv'
  <2>1. PICK rows : rows = AfterSeq(after[r])
    OBVIOUS
  <2>2. /\ phase[r] = "catchup" /\ AfterCatchUp(r, rows)
        /\ UNCHANGED <<log, link, open, after, pulling, due, overlap>>
    BY <1>6, <2>1 DEF CatchUpAnswered
  <2>3. /\ after[r] \in Nat /\ due[r] \in Nat /\ stored \in Nat /\ due[r] <= stored
        /\ stored <= after[r] + Batch
    BY <1>1, <2>2, ClientAssumption DEF Types, Basic, RefreshInv, Waiting, CatchUpFits
  <2>4. Page(rows, AfterSeqs(after[r]))
    BY <1>1, <2>1, PageRows
  <2>5. after[r] + 1 .. due[r] \subseteq Shown(rows)
    BY <2>3, <2>4, ClientAssumption DEF Page, AfterSeqs
  <2>6. \A x \in rows : after[r] + 1 .. x.seq \subseteq Shown(rows)
    <3>1. \A x \in rows : x.seq \in Nat /\ x.seq <= stored
      BY <2>4 DEF Page, AfterSeqs
    <3> QED
      BY <2>3, <2>4, <3>1, ClientAssumption DEF Page, AfterSeqs
  <2>7. \A q \in Rooms \ {r} : phase'[q] = phase[q] /\ caught'[q] = caught[q]
    BY <1>1, <2>2 DEF AfterCatchUp, Types
  <2>8. CASE Cardinality(view[r]) < PageSize
    <3>1. phase'[r] = "latest" /\ caught'[r] = rows
      BY <1>1, <2>2, <2>8 DEF AfterCatchUp, Types
    <3> QED
      BY <1>2, <2>2, <2>5, <2>6, <2>7, <3>1 DEF CatchInv
  <2>9. CASE ~ Cardinality(view[r]) < PageSize
    <3>1. phase'[r] = "done" /\ Store(r, rows)
      BY <1>1, <2>2, <2>9 DEF AfterCatchUp, Types
    <3>2. Copies(rows, stored) /\ stored' = stored
      BY <2>2, <2>4 DEF Page, log
    <3>3. Shown(view'[r]) = Shown(view[r]) \cup Shown(rows)
      BY <1>1, <3>1, <3>2, StoreRows
    <3> QED
      BY <1>2, <2>2, <2>5, <2>7, <3>1, <3>3 DEF CatchInv
  <2> QED
    BY <2>8, <2>9
<1>7. ASSUME NEW r \in Rooms, LatestAnswered(r) PROVE CatchInv'
  <2>1. PICK rows : rows = Upsert(caught[r], Latest)
    OBVIOUS
  <2>2. /\ phase[r] = "latest" /\ phase'[r] = "done" /\ Store(r, rows) /\ stored' = stored
        /\ UNCHANGED <<after, due>>
        /\ \A q \in Rooms \ {r} : phase'[q] = phase[q] /\ caught'[q] = caught[q]
    BY <1>1, <1>7, <2>1 DEF LatestAnswered, Types, log
  <2>3. Copies(rows, stored) /\ Shown(caught[r]) \subseteq Shown(rows)
    BY <1>1, <2>1, PageRows, CopiesUpsert, ShownUpsert DEF Page, Types
  <2>4. Shown(view'[r]) = Shown(view[r]) \cup Shown(rows)
    BY <1>1, <2>2, <2>3, StoreRows
  <2> QED
    BY <1>2, <2>2, <2>3, <2>4 DEF CatchInv
<1> QED
  BY <1>3, <1>4, <1>5, <1>6, <1>7 DEF Next

-----------------------------------------------------------------------------
(* No hole in the cache *)

LEMMA AnchorsBelow ==
  ASSUME Basic, PullInv
  PROVE  \A a \in Anchors : a \in Nat /\ a > 0 /\ a <= stored
<1>1. /\ \A x \in cache : x.seq \in Nat /\ x.seq <= stored
      /\ \A r \in Rooms : \A x \in view[r] : x.seq \in Nat /\ x.seq <= stored
      /\ \A r \in Rooms : pulling[r] \in Nat /\ pulling[r] <= stored
  BY DEF Basic, Types, PullInv, Copies, Row
<1>2. \A a \in Anchors : a # 0 /\ a \in Nat /\ a <= stored
  BY <1>1 DEF Anchors
<1> QED
  BY <1>2

LEMMA CacheAnchors ==
  ASSUME NEW x \in cache, x.seq # 0
  PROVE  x.seq \in Anchors
BY DEF Anchors

LEMMA ViewAnchors ==
  ASSUME NEW r \in Rooms, 1 \notin Shown(view[r]), NEW x \in view[r], x.seq # 0
  PROVE  x.seq \in Anchors
BY DEF Anchors

LEMMA PullAnchors ==
  ASSUME NEW r \in Rooms, pulling[r] # 0
  PROVE  pulling[r] \in Anchors
BY DEF Anchors

\* What the anchors of the next state are among.
LEMMA AnchorsWithin ==
  ASSUME NEW A,
         \A x \in cache' : x.seq # 0 => x.seq \in A,
         \A r \in Rooms : pulling'[r] # 0 => pulling'[r] \in A,
         \A r \in Rooms : 1 \notin Shown(view'[r]) => \A x \in view'[r] : x.seq # 0 => x.seq \in A
  PROVE  \A a \in Anchors' : a \in A
BY DEF Anchors

LEMMA HullKept ==
  ASSUME Hull, BaseInv, \A a \in Anchors' : a \in Anchors, Shown(cache) \subseteq Shown(cache'),
         \A r \in Rooms : Waiting(r)' => Waiting(r) /\ Base(r)' = Base(r)
  PROVE  Hull' /\ BaseInv'
<1>1. Hull'
  BY DEF Hull
<1>2. ASSUME NEW r \in Rooms, Waiting(r)', NEW a \in Anchors'
      PROVE  a .. Base(r)' \subseteq Shown(cache')
  BY <1>2 DEF BaseInv
<1> QED
  BY <1>1, <1>2 DEF BaseInv

LEMMA FewBefore ==
  ASSUME Basic, Basic', Shown(cache) \subseteq Shown(cache'), Few'
  PROVE  Few
<1>1. Copies(cache, stored) /\ Copies(cache', stored')
  BY DEF Basic, Types
<1>2. /\ Cardinality(cache) \in Nat /\ Cardinality(cache') \in Nat
      /\ Cardinality(cache) <= Cardinality(cache')
  BY <1>1, CopiesCount, MoreShown
<1>3. Cardinality(cache') < PageSize
  BY DEF Few
<1> QED
  BY <1>2, <1>3, ClientAssumption DEF Few

LEMMA FullerView ==
  ASSUME Basic, Basic', NEW r \in Rooms, Shown(view[r]) \subseteq Shown(view'[r]),
         Cardinality(view[r]) >= PageSize
  PROVE  Cardinality(view'[r]) >= PageSize
<1>1. Copies(view[r], stored) /\ Copies(view'[r], stored')
  BY DEF Basic, Types
<1>2. /\ Cardinality(view[r]) \in Nat /\ Cardinality(view'[r]) \in Nat
      /\ Cardinality(view[r]) <= Cardinality(view'[r])
  BY <1>1, CopiesCount, MoreShown
<1> QED
  BY <1>2, ClientAssumption

LEMMA HoleReceive ==
  ASSUME Basic, Basic', HoleInv, NEW m \in Messages, Receive(m), stored' = stored,
         UNCHANGED <<phase, after, due, pulling>>
  PROVE  HoleInv'
<1>1. /\ Shown(cache') = Shown(cache) \cup {m}
      /\ \A x \in cache' : x \in cache \/ (x.seq = 0 /\ x.msg = m)
      /\ \A q \in Rooms :
           /\ \A x \in view'[q] : x \in view[q] \/ (x.seq = 0 /\ x.msg = m)
           /\ Shown(view'[q]) = IF Alive(q) THEN Shown(view[q]) \cup {m} ELSE Shown(view[q])
  BY ReceivedRows DEF Basic
<1>2. \A q \in Rooms : Shown(view[q]) \subseteq Shown(view'[q])
  BY <1>1
<1>3. \A x \in cache' : x.seq # 0 => x.seq \in Anchors
  BY <1>1, CacheAnchors
<1>4. \A q \in Rooms : pulling'[q] # 0 => pulling'[q] \in Anchors
  BY PullAnchors
<1>5. \A q \in Rooms : 1 \notin Shown(view'[q]) => \A x \in view'[q] : x.seq # 0 => x.seq \in Anchors
  BY <1>1, <1>2, ViewAnchors
<1>6. \A a \in Anchors' : a \in Anchors
  BY <1>3, <1>4, <1>5, AnchorsWithin
<1>7. Hull' /\ BaseInv'
  <2>1. \A r \in Rooms : Waiting(r)' => Waiting(r) /\ Base(r)' = Base(r)
    BY DEF Waiting, Base
  <2> QED
    BY <1>1, <1>6, <2>1, HullKept DEF HoleInv
<1>8. FewInv'
  <2>1. ASSUME Few'
        PROVE  /\ \A q \in Rooms : pulling[q] = 0
               /\ (\E x \in cache : x.seq > 0) => 1 \in Shown(cache)
               /\ \A q \in Rooms : (\E x \in view[q] : x.seq > 0) => 1 \in Shown(view[q])
    <3>1. Few
      BY <1>1, <2>1, FewBefore
    <3> QED
      BY <3>1 DEF HoleInv, FewInv
  <2>2. ASSUME NEW x \in cache', x.seq > 0 PROVE x \in cache
    <3>1. x.seq # 0
      BY <2>2
    <3> QED
      BY <1>1, <3>1
  <2>3. ASSUME NEW q \in Rooms, NEW x \in view'[q], x.seq > 0 PROVE x \in view[q]
    <3>1. x.seq # 0
      BY <2>3
    <3> QED
      BY <1>1, <3>1
  <2>4. ASSUME Few', NEW x \in cache', x.seq > 0 PROVE 1 \in Shown(cache')
    BY <1>1, <2>1, <2>2, <2>4
  <2>5. ASSUME Few', NEW q \in Rooms, NEW x \in view'[q], x.seq > 0 PROVE 1 \in Shown(view'[q])
    BY <1>2, <2>1, <2>3, <2>5
  <2>6. ASSUME Few', NEW q \in Rooms PROVE pulling'[q] = 0
    BY <2>1, <2>6
  <2> QED
    BY <2>4, <2>5, <2>6 DEF FewInv
<1>9. ASSUME NEW q \in Rooms, phase'[q] = "starting"
      PROVE  \/ Cardinality(view'[q]) >= PageSize
             \/ \A x \in cache' : x.seq = 0 => x.msg \in Shown(view'[q])
  <2>1. CASE Cardinality(view[q]) >= PageSize
    BY <1>2, <2>1, FullerView
  <2>2. CASE \A x \in cache : x.seq = 0 => x.msg \in Shown(view[q])
    <3>1. Alive(q)
      BY <1>9 DEF Alive, Running
    <3> QED
      BY <1>1, <2>2, <3>1
  <2> QED
    BY <1>9, <2>1, <2>2 DEF HoleInv, StartInv
<1>10. StartInv'
  BY <1>9 DEF StartInv
<1>11. PullInv'
  BY DEF HoleInv, PullInv
<1> QED
  BY <1>7, <1>8, <1>10, <1>11 DEF HoleInv

\* Nothing moves but the backend and the connection.
LEMMA HoleSame ==
  ASSUME Basic, HoleInv, UNCHANGED <<cache, view, pulling, phase, after, due>>,
         stored' \in Nat, stored <= stored'
  PROVE  HoleInv'
<1>1. Hull' /\ FewInv' /\ StartInv'
  <2>1. Hull'
    <3>1. Anchors' = Anchors
      BY DEF Anchors
    <3> QED
      BY <3>1 DEF HoleInv, Hull
  <2>2. FewInv'
    BY DEF HoleInv, FewInv, Few
  <2>3. StartInv'
    BY DEF HoleInv, StartInv
  <2> QED
    BY <2>1, <2>2, <2>3
<1>2. BaseInv'
  BY DEF HoleInv, BaseInv, Waiting, Base, Anchors
<1>3. PullInv'
  <2>1. \A r \in Rooms : pulling[r] \in Nat /\ pulling[r] <= stored /\ stored \in Nat
    BY ClientAssumption DEF Basic, Types, HoleInv, PullInv
  <2> QED
    BY <2>1 DEF PullInv
<1> QED
  BY <1>1, <1>2, <1>3 DEF HoleInv

LEMMA HoleOutside ==
  ASSUME Basic, Basic', HoleInv,
         \/ Publish \/ SendMessage \/ Deliver \/ Persist \/ Connect \/ ConnectionLost \/ Leave
         \/ UNCHANGED vars
  PROVE  HoleInv'
<1>1. Types /\ stored \in Nat
  <2>1. Types
    BY DEF Basic
  <2> QED
    BY <2>1, ClientAssumption DEF Types
<1>2. CASE SendMessage
  <2>1. Receive(published + 1) /\ stored' = stored /\ published + 1 \in Messages
        /\ UNCHANGED <<phase, after, due, pulling>>
    BY <1>1, <1>2, NextMessage DEF SendMessage, room
  <2> QED
    BY <2>1, HoleReceive
<1>3. CASE Deliver
  <2>1. Receive(Head(inbox)) /\ stored' = stored /\ Head(inbox) \in Messages
        /\ UNCHANGED <<phase, after, due, pulling>>
    BY <1>1, <1>3 DEF Types, Deliver, log, room
  <2> QED
    BY <2>1, HoleReceive
<1>4. CASE Publish \/ Connect \/ ConnectionLost \/ Leave \/ UNCHANGED vars
  <2>1. UNCHANGED <<cache, view, pulling, phase, after, due>> /\ stored' = stored
    BY <1>4 DEF Publish, Connect, ConnectionLost, Leave, vars, log, room
  <2> QED
    BY <1>1, <2>1, HoleSame
<1>5. CASE Persist
  <2>1. UNCHANGED <<cache, view, pulling, phase, after, due>> /\ stored' = stored + 1
    BY <1>5 DEF Persist, room
  <2> QED
    BY <1>1, <2>1, HoleSame
<1> QED
  BY <1>2, <1>3, <1>4, <1>5

LEMMA HoleFailed ==
  ASSUME Basic, Basic', HoleInv, NEW r \in Rooms, RefreshFailed(r) \/ OlderFailed(r)
  PROVE  HoleInv'
<1>1. /\ UNCHANGED <<cache, view, after, due, stored>>
      /\ \A q \in Rooms : pulling'[q] \in {0, pulling[q]}
      /\ \A q \in Rooms : phase'[q] \in {"failed", phase[q]}
  BY DEF RefreshFailed, OlderFailed, Basic, Types, log
<1>2. \A a \in Anchors' : a \in Anchors
  <2>1. \A x \in cache' : x.seq # 0 => x.seq \in Anchors
    BY <1>1, CacheAnchors
  <2>2. \A q \in Rooms : pulling'[q] # 0 => pulling'[q] \in Anchors
    BY <1>1, PullAnchors
  <2>3. \A q \in Rooms : 1 \notin Shown(view'[q]) => \A x \in view'[q] : x.seq # 0 => x.seq \in Anchors
    BY <1>1, ViewAnchors
  <2> QED
    BY <2>1, <2>2, <2>3, AnchorsWithin
<1>3. Hull' /\ BaseInv'
  <2>1. \A q \in Rooms : Waiting(q)' => Waiting(q) /\ Base(q)' = Base(q)
    BY <1>1 DEF Waiting, Base
  <2> QED
    BY <1>1, <1>2, <2>1, HullKept DEF HoleInv
<1>4. FewInv' /\ StartInv' /\ PullInv'
  <2>1. FewInv'
    BY <1>1 DEF HoleInv, FewInv, Few
  <2>2. StartInv'
    BY <1>1 DEF HoleInv, StartInv
  <2>3. PullInv'
    <3>1. 0 <= stored
      BY ClientAssumption DEF Basic, Types
    <3> QED
      BY <1>1, <3>1 DEF HoleInv, PullInv
  <2> QED
    BY <2>1, <2>2, <2>3
<1> QED
  BY <1>3, <1>4 DEF HoleInv

\* A room opens: with less than a page in the cache it shows all of it.
LEMMA HoleFetch ==
  ASSUME Basic, Basic', HoleInv, NEW r \in Rooms, FetchMessages(r)
  PROVE  HoleInv'
<1>1. /\ UNCHANGED <<cache, pulling, after, due, stored>>
      /\ \A q \in Rooms : /\ view'[q] = IF q = r THEN RecentMessages ELSE view[q]
                          /\ phase'[q] = IF q = r THEN "starting" ELSE phase[q]
  BY DEF FetchMessages, Basic, Types, log
<1>2. RecentMessages \subseteq cache
  BY RecentSubset
<1>3. RecentMessages = cache \/ Cardinality(RecentMessages) >= PageSize
  BY RecentFills DEF Basic, Types
<1>4. \A a \in Anchors' : a \in Anchors
  <2>1. \A x \in cache' : x.seq # 0 => x.seq \in Anchors
    BY <1>1, CacheAnchors
  <2>2. \A q \in Rooms : pulling'[q] # 0 => pulling'[q] \in Anchors
    BY <1>1, PullAnchors
  <2>3. \A q \in Rooms : 1 \notin Shown(view'[q]) => \A x \in view'[q] : x.seq # 0 => x.seq \in Anchors
    BY <1>1, <1>2, ViewAnchors, CacheAnchors
  <2> QED
    BY <2>1, <2>2, <2>3, AnchorsWithin
<1>5. Hull' /\ BaseInv'
  <2>1. \A q \in Rooms : Waiting(q)' => Waiting(q) /\ Base(q)' = Base(q)
    BY <1>1 DEF Waiting, Base
  <2> QED
    BY <1>1, <1>4, <2>1, HullKept DEF HoleInv
<1>6. FewInv'
  <2>1. SUFFICES ASSUME Few PROVE
           /\ \A q \in Rooms : pulling[q] = 0
           /\ (\E x \in cache : x.seq > 0) => 1 \in Shown(cache)
           /\ \A q \in Rooms : (\E x \in view'[q] : x.seq > 0) => 1 \in Shown(view'[q])
    BY <1>1 DEF FewInv, Few
  <2>2. RecentMessages = cache
    <3>1. IsFiniteSet(cache) /\ Cardinality(cache) \in Nat
      BY CopiesCount DEF Basic, Types
    <3>2. Cardinality(RecentMessages) <= Cardinality(cache) /\ Cardinality(RecentMessages) \in Nat
      BY <1>2, <3>1, FS_Subset, FS_CardinalityType
    <3> QED
      BY <1>3, <2>1, <3>1, <3>2, ClientAssumption DEF Few
  <2> QED
    BY <1>1, <2>1, <2>2 DEF HoleInv, FewInv
<1>7. StartInv'
  <2>1. \A x \in cache : x.msg \in Shown(cache)
    BY DEF Shown
  <2>2. \/ Cardinality(view'[r]) >= PageSize
        \/ \A x \in cache' : x.seq = 0 => x.msg \in Shown(view'[r])
    BY <1>1, <1>3, <2>1
  <2>3. ASSUME NEW q \in Rooms, q # r, phase'[q] = "starting"
        PROVE  \/ Cardinality(view'[q]) >= PageSize
               \/ \A x \in cache' : x.seq = 0 => x.msg \in Shown(view'[q])
    BY <1>1, <2>3 DEF HoleInv, StartInv
  <2> QED
    BY <2>2, <2>3 DEF StartInv
<1>8. PullInv'
  BY <1>1 DEF HoleInv, PullInv
<1> QED
  BY <1>5, <1>6, <1>7, <1>8 DEF HoleInv

\* Where a stretch of the cache that starts at an anchor may have to reach.
Ends == Anchors \cup {Base(q) : q \in {p \in Rooms : Waiting(p)}}

LEMMA EndsReached ==
  ASSUME Basic, HoleInv
  PROVE  /\ \A a \in Anchors, e \in Ends : a .. e \subseteq Shown(cache)
         /\ \A e \in Ends : e \in Nat /\ e <= stored
<1>1. \A a \in Anchors, e \in Ends : a .. e \subseteq Shown(cache)
  BY DEF HoleInv, Hull, BaseInv, Ends
<1>2. \A a \in Anchors : a \in Nat /\ a <= stored
  BY AnchorsBelow DEF HoleInv
<1>3. ASSUME NEW q \in Rooms, Waiting(q) PROVE Base(q) \in Nat /\ Base(q) <= stored
  <2>1. after[q] \in Nat /\ due[q] \in Nat /\ after[q] <= due[q] /\ due[q] <= stored /\ stored \in Nat
    <3>1. after[q] \in Nat /\ due[q] \in Nat /\ stored \in Nat
      BY ClientAssumption DEF Basic, Types
    <3> QED
      BY <1>3, <3>1 DEF Basic, RefreshInv
  <2> QED
    BY <2>1 DEF Base
<1> QED
  BY <1>1, <1>2, <1>3 DEF Ends

\* Rows of the backend that close up to what may still be built upon.
LEMMA PageStored ==
  ASSUME Basic, Basic', HoleInv, NEW r \in Rooms, NEW rows, Copies(rows, stored), Store(r, rows),
         UNCHANGED <<stored, after, due>>,
         \A q \in Rooms : pulling'[q] \in {0, pulling[q]},
         \A q \in Rooms : phase'[q] \in {"done", phase[q]},
         \A x \in rows : x.seq > 0,
         \A x \in rows : \A e \in Ends : x.seq .. e \subseteq Shown(cache'),
         \A x \in rows : \A a \in Anchors : a .. x.seq \subseteq Shown(cache'),
         \A x, y \in rows : x.seq .. y.seq \subseteq Shown(cache'),
         Few' => rows = {} \/ 1 \in Shown(rows)
  PROVE  HoleInv'
<1>1. /\ cache' = Upsert(cache, rows) /\ view'[r] = Upsert(view[r], rows)
      /\ \A q \in Rooms : q # r => view'[q] = view[q]
      /\ Shown(cache') = Shown(cache) \cup Shown(rows)
      /\ Shown(view'[r]) = Shown(view[r]) \cup Shown(rows)
  BY StoreRows DEF Basic
<1>2. /\ \A x \in cache' : x \in cache \/ x \in rows
      /\ \A q \in Rooms : \A x \in view'[q] : x \in view[q] \/ x \in rows
      /\ \A q \in Rooms : Shown(view[q]) \subseteq Shown(view'[q])
      /\ \A q \in Rooms : Shown(view'[q]) = Shown(view[q]) \/ Shown(rows) \subseteq Shown(view'[q])
  BY <1>1 DEF Upsert
<1>3. PICK A : A = Anchors \cup {x.seq : x \in rows}
  OBVIOUS
<1>4. \A a \in Anchors' : a \in A
  <2>1. \A x \in cache' : x.seq # 0 => x.seq \in A
    BY <1>2, <1>3, CacheAnchors
  <2>2. \A q \in Rooms : pulling'[q] # 0 => pulling'[q] \in A
    BY <1>3, PullAnchors
  <2>3. ASSUME NEW q \in Rooms, 1 \notin Shown(view'[q]), NEW x \in view'[q], x.seq # 0
        PROVE  x.seq \in A
    <3>1. 1 \notin Shown(view[q])
      BY <1>2, <2>3
    <3> QED
      BY <1>2, <1>3, <2>3, <3>1, ViewAnchors
  <2> QED
    BY <2>1, <2>2, <2>3, AnchorsWithin
<1>5. \A a \in Anchors, e \in Ends : a .. e \subseteq Shown(cache')
  BY <1>1, EndsReached
<1>6. \A a \in A, e \in Ends : a .. e \subseteq Shown(cache')
  BY <1>3, <1>5
<1>7. \A a, b \in A : a .. b \subseteq Shown(cache')
  BY <1>3, <1>6 DEF Ends
<1>8. Hull'
  BY <1>4, <1>7 DEF Hull
<1>9. BaseInv'
  <2>1. ASSUME NEW q \in Rooms, Waiting(q)' PROVE Waiting(q) /\ Base(q)' = Base(q)
    BY <2>1 DEF Waiting, Base
  <2>2. ASSUME NEW q \in Rooms, Waiting(q)' PROVE Base(q)' \in Ends
    BY <2>1, <2>2 DEF Ends
  <2> QED
    BY <1>4, <1>6, <2>2 DEF BaseInv
<1>10. FewInv'
  <2>1. ASSUME Few'
        PROVE  /\ \A q \in Rooms : pulling[q] = 0
               /\ (\E x \in cache : x.seq > 0) => 1 \in Shown(cache)
               /\ \A q \in Rooms : (\E x \in view[q] : x.seq > 0) => 1 \in Shown(view[q])
    <3>1. Few
      BY <1>1, <2>1, FewBefore
    <3> QED
      BY <3>1 DEF HoleInv, FewInv
  <2>2. ASSUME Few', NEW x \in cache', x.seq > 0 PROVE 1 \in Shown(cache')
    <3>1. CASE x \in cache
      BY <1>1, <2>1, <2>2, <3>1
    <3>2. CASE x \in rows
      BY <1>1, <2>2, <3>2
    <3> QED
      BY <1>2, <3>1, <3>2
  <2>3. ASSUME Few', NEW q \in Rooms, NEW x \in view'[q], x.seq > 0 PROVE 1 \in Shown(view'[q])
    <3>1. CASE x \in view[q]
      BY <1>2, <2>1, <2>3, <3>1
    <3>2. CASE x \notin view[q]
      <4>1. x \in rows /\ q = r
        BY <1>1, <1>2, <2>3, <3>2
      <4> QED
        BY <1>1, <2>3, <4>1
    <3> QED
      BY <3>1, <3>2
  <2>4. ASSUME Few', NEW q \in Rooms PROVE pulling'[q] = 0
    BY <2>1, <2>4
  <2> QED
    BY <2>2, <2>3, <2>4 DEF FewInv
<1>11. ASSUME NEW q \in Rooms, phase'[q] = "starting"
       PROVE  \/ Cardinality(view'[q]) >= PageSize
              \/ \A x \in cache' : x.seq = 0 => x.msg \in Shown(view'[q])
  <2>1. phase[q] = "starting"
    BY <1>11
  <2>2. CASE Cardinality(view[q]) >= PageSize
    BY <1>2, <2>2, FullerView
  <2>3. CASE \A x \in cache : x.seq = 0 => x.msg \in Shown(view[q])
    <3>1. \A x \in cache' : x.seq = 0 => x \in cache
      BY <1>2
    <3> QED
      BY <1>2, <2>3, <3>1
  <2> QED
    BY <2>1, <2>2, <2>3 DEF HoleInv, StartInv
<1>12. StartInv'
  BY <1>11 DEF StartInv
<1>13. PullInv'
  <2>1. 0 <= stored
    <3>1. stored \in Nat
      BY ClientAssumption DEF Basic, Types
    <3> QED
      BY <3>1
  <2> QED
    BY <2>1 DEF HoleInv, PullInv
<1> QED
  BY <1>8, <1>9, <1>10, <1>12, <1>13 DEF HoleInv

\* The same for rows that go on to the newest message.
LEMMA NewestStored ==
  ASSUME Basic, Basic', HoleInv, NEW r \in Rooms, NEW rows, Copies(rows, stored), Store(r, rows),
         UNCHANGED <<stored, after, due, pulling>>,
         \A q \in Rooms : phase'[q] \in {"done", phase[q]},
         Waiting(r),
         Base(r) + 1 .. stored \subseteq Shown(rows),
         \A x \in rows : x.seq > 0 /\ x.seq .. stored \subseteq Shown(rows),
         Few' => rows = {} \/ 1 \in Shown(rows)
  PROVE  HoleInv'
<1>1. Shown(cache') = Shown(cache) \cup Shown(rows)
  BY StoreRows DEF Basic
<1>2. \A x \in rows : x.seq \in Nat /\ x.seq <= stored
  BY DEF Copies, Row
<1>3. stored \in Nat /\ Base(r) \in Nat /\ Base(r) \in Ends
  <2>1. Base(r) \in Ends
    BY DEF Ends
  <2>2. Base(r) \in Nat
    BY <2>1, EndsReached
  <2>3. Types
    BY DEF Basic
  <2> QED
    BY <2>1, <2>2, <2>3, ClientAssumption DEF Types
<1>4. ASSUME NEW x \in rows, NEW e \in Ends
      PROVE  x.seq .. e \subseteq Shown(cache')
  <2>1. e \in Nat /\ e <= stored
    BY EndsReached
  <2>2. x.seq .. e \subseteq x.seq .. stored
    BY <1>2, <1>3, <2>1
  <2> QED
    BY <1>1, <2>2
<1>5. ASSUME NEW x \in rows, NEW a \in Anchors
      PROVE  a .. x.seq \subseteq Shown(cache')
  <2>1. a .. Base(r) \subseteq Shown(cache)
    BY <1>3, EndsReached
  <2>2. a \in Nat
    BY AnchorsBelow DEF HoleInv
  <2>3. \A k \in a .. x.seq : k \in a .. Base(r) \/ k \in Base(r) + 1 .. stored
    BY <1>2, <1>3, <2>2
  <2> QED
    BY <1>1, <2>1, <2>3
<1>6. ASSUME NEW x \in rows, NEW y \in rows
      PROVE  x.seq .. y.seq \subseteq Shown(cache')
  <2>1. x.seq .. y.seq \subseteq x.seq .. stored
    BY <1>2, <1>3
  <2> QED
    BY <1>1, <2>1
<1>7. \A q \in Rooms : pulling'[q] \in {0, pulling[q]}
  OBVIOUS
<1> QED
  BY <1>4, <1>5, <1>6, <1>7, PageStored

LEMMA HoleOlder ==
  ASSUME Basic, Basic', HoleInv, NEW r \in Rooms, OlderAnswered(r)
  PROVE  HoleInv'
<1>1. PICK p : p = pulling[r]
  OBVIOUS
<1>2. PICK rows : rows = BeforeSeq(p)
  OBVIOUS
<1>3. /\ p > 0 /\ Store(r, rows) /\ UNCHANGED <<stored, phase, after, due>>
      /\ \A q \in Rooms : pulling'[q] \in {0, pulling[q]}
  BY <1>1, <1>2 DEF OlderAnswered, Basic, Types, log
<1>4. Page(rows, BeforeSeqs(p))
  BY <1>2, PageRows DEF Basic
<1>5. Copies(rows, stored)
  BY <1>4 DEF Page
<1>6. p \in Anchors /\ p \in Nat /\ p <= stored
  <2>1. p \in Anchors
    BY <1>1, <1>3, PullAnchors
  <2> QED
    BY <2>1, AnchorsBelow DEF HoleInv
<1>7. stored \in Nat
  <2>1. Types
    BY DEF Basic
  <2> QED
    BY <2>1, ClientAssumption DEF Types
<1>8. \A x \in rows : /\ x.seq \in Nat /\ x.seq > 0 /\ x.seq < p /\ x.seq + PageSize >= p
  BY <1>4, <1>7 DEF Page, BeforeSeqs
<1>9. ASSUME NEW x \in rows, NEW k \in Nat, x.seq <= k, k < p
      PROVE  k \in Shown(rows)
  <2>1. k \in 1 .. stored /\ k + PageSize >= p
    BY <1>6, <1>7, <1>8, <1>9, ClientAssumption
  <2> QED
    BY <1>4, <1>9, <2>1 DEF Page, BeforeSeqs
<1>10. Shown(cache') = Shown(cache) \cup Shown(rows)
  BY <1>3, <1>5, StoreRows DEF Basic
<1>11. ASSUME NEW x \in rows, NEW e \in Ends
       PROVE  x.seq .. e \subseteq Shown(cache')
  <2>1. p .. e \subseteq Shown(cache) /\ e \in Nat
    BY <1>6, EndsReached
  <2>2. ASSUME NEW k \in x.seq .. e PROVE k \in Shown(rows) \/ k \in p .. e
    <3>1. k \in Nat /\ x.seq <= k /\ k <= e
      BY <1>8, <2>1
    <3>2. CASE k < p
      BY <1>9, <3>1, <3>2
    <3>3. CASE ~ k < p
      BY <1>6, <2>1, <3>1, <3>3
    <3> QED
      BY <3>2, <3>3
  <2> QED
    BY <1>10, <2>1, <2>2
<1>12. ASSUME NEW x \in rows, NEW a \in Anchors
       PROVE  a .. x.seq \subseteq Shown(cache')
  <2>1. a .. p \subseteq Shown(cache)
    BY <1>6, EndsReached DEF Ends
  <2>2. a \in Nat
    BY AnchorsBelow DEF HoleInv
  <2>3. a .. x.seq \subseteq a .. p
    BY <1>6, <1>8, <2>2
  <2> QED
    BY <1>10, <2>1, <2>3
<1>13. ASSUME NEW x \in rows, NEW y \in rows
       PROVE  x.seq .. y.seq \subseteq Shown(cache')
  <2>1. \A k \in x.seq .. y.seq : k \in Nat /\ x.seq <= k /\ k < p
    BY <1>6, <1>8
  <2> QED
    BY <1>9, <1>10, <2>1
<1>14. ~ Few'
  <2>1. Few' => Few
    BY <1>10, FewBefore
  <2>2. pulling[r] # 0
    BY <1>1, <1>3
  <2> QED
    BY <2>1, <2>2 DEF HoleInv, FewInv
<1>15. /\ \A q \in Rooms : phase'[q] \in {"done", phase[q]}
       /\ \A x \in rows : x.seq > 0
  BY <1>3, <1>8
<1> QED
  BY <1>3, <1>5, <1>11, <1>12, <1>13, <1>14, <1>15, PageStored

\* A room that can still be pulled has more than a page behind it.
LEMMA HolePull ==
  ASSUME ClocksAgree, Basic, Basic', HoleInv, NEW r \in Rooms, LoadOlder(r)
  PROVE  HoleInv'
<1>1. PICK before \in Nat, local \in SUBSET cache :
           /\ before = FirstSeq(view[r]) /\ before > 1
           /\ view'[r] = Upsert(view[r], local)
           /\ Shown(view'[r]) = Shown(view[r]) \cup Shown(local)
           /\ \A q \in Rooms : q # r => view'[q] = view[q]
           /\ pulling'[r] \in {0, before}
           /\ \A q \in Rooms : q # r => pulling'[q] = pulling[q]
           /\ UNCHANGED <<log, link, cache, open, phase, after, caught, due, overlap>>
  BY PullRows DEF Basic
<1>2. PICK f \in view[r] : f.seq = before /\ 1 \notin Shown(view[r])
  <2>1. Copies(view[r], stored) /\ FirstSeq(view[r]) > 1
    BY <1>1 DEF Basic, Types
  <2> QED
    BY <1>1, <2>1, PullFrom
<1>3. before \in Anchors /\ before <= stored
  <2>1. before # 0
    BY <1>1
  <2>2. before \in Anchors
    BY <1>2, <2>1, ViewAnchors
  <2> QED
    BY <2>2, AnchorsBelow DEF HoleInv
<1>4. UNCHANGED <<stored, cache, phase, after, due>>
  BY <1>1 DEF log
<1>5. ~ Few
  <2>1. f.seq > 0
    BY <1>1, <1>2
  <2> QED
    BY <1>2, <2>1 DEF HoleInv, FewInv
<1>6. \A x \in view'[r] : x \in view[r] \/ x \in cache
  BY <1>1 DEF Upsert
<1>7. \A a \in Anchors' : a \in Anchors
  <2>1. \A x \in cache' : x.seq # 0 => x.seq \in Anchors
    BY <1>4, CacheAnchors
  <2>2. \A q \in Rooms : pulling'[q] # 0 => pulling'[q] \in Anchors
    BY <1>1, <1>3, PullAnchors
  <2>3. \A q \in Rooms : 1 \notin Shown(view'[q]) => \A x \in view'[q] : x.seq # 0 => x.seq \in Anchors
    <3>1. \A x \in view'[r] : x.seq # 0 => x.seq \in Anchors
      BY <1>2, <1>6, ViewAnchors, CacheAnchors
    <3> QED
      BY <1>1, <3>1, ViewAnchors
  <2> QED
    BY <2>1, <2>2, <2>3, AnchorsWithin
<1>8. Hull' /\ BaseInv'
  <2>1. \A q \in Rooms : Waiting(q)' => Waiting(q) /\ Base(q)' = Base(q)
    BY <1>4 DEF Waiting, Base
  <2> QED
    BY <1>4, <1>7, <2>1, HullKept DEF HoleInv
<1>9. FewInv'
  BY <1>4, <1>5 DEF FewInv, Few
<1>10. ASSUME NEW q \in Rooms, phase'[q] = "starting"
       PROVE  \/ Cardinality(view'[q]) >= PageSize
              \/ \A x \in cache' : x.seq = 0 => x.msg \in Shown(view'[q])
  <2>1. phase[q] = "starting" /\ Shown(view[q]) \subseteq Shown(view'[q])
    BY <1>1, <1>4, <1>10
  <2>2. CASE Cardinality(view[q]) >= PageSize
    BY <2>1, <2>2, FullerView
  <2>3. CASE \A x \in cache : x.seq = 0 => x.msg \in Shown(view[q])
    BY <1>4, <2>1, <2>3
  <2> QED
    BY <2>1, <2>2, <2>3 DEF HoleInv, StartInv
<1>11. StartInv'
  BY <1>10 DEF StartInv
<1>12. PullInv'
  <2>1. 0 <= stored
    <3>1. stored \in Nat
      BY ClientAssumption DEF Basic, Types
    <3> QED
      BY <3>1
  <2> QED
    BY <1>1, <1>3, <1>4, <2>1 DEF HoleInv, PullInv
<1> QED
  BY <1>8, <1>9, <1>11, <1>12 DEF HoleInv

LEMMA NothingStored == ASSUME NEW S PROVE Upsert(S, {}) = S
BY DEF Upsert, Shown

LEMMA HoleStart ==
  ASSUME Basic, Basic', HoleInv, NEW r \in Rooms, StartRefresh(r)
  PROVE  HoleInv'
<1>1. /\ phase[r] = "starting" /\ after[r] = 0 /\ due'[r] = stored
      /\ \A q \in Rooms : q # r => due'[q] = due[q]
      /\ UNCHANGED <<stored, pulling>>
  BY DEF StartRefresh, Basic, Types, RefreshInv, log
<1>2. \A x \in cache : x.seq \in Nat
  BY DEF Basic, Types, Copies, Row
<1>3. stored \in Nat
  BY ClientAssumption DEF Basic, Types
<1>4. /\ HighestSequence \in Nat
      /\ \A x \in cache : x.seq <= HighestSequence
      /\ HighestSequence > 0 => \E x \in cache : x.seq = HighestSequence
  BY <1>3, HighestSeq DEF Basic, Types
<1>5. /\ UNCHANGED <<cache, view>>
      /\ phase'[r] \in {"catchup", "latest", "done"}
      /\ phase'[r] = "catchup" => HighestSequence > 0 /\ after'[r] = HighestSequence
      /\ phase'[r] = "latest" => /\ HighestSequence = 0 /\ after'[r] = 0
                                 /\ Cardinality(view[r]) < PageSize
      /\ \A q \in Rooms : q # r => phase'[q] = phase[q] /\ after'[q] = after[q]
  <2>1. CASE HighestSequence > 0
    BY <2>1 DEF StartRefresh, Basic, Types
  <2>2. CASE ~ HighestSequence > 0
    <3>1. AfterCatchUp(r, {}) /\ UNCHANGED after /\ HighestSequence = 0
      BY <1>4, <2>2 DEF StartRefresh
    <3>2. CASE Cardinality(view[r]) < PageSize
      BY <1>1, <3>1, <3>2 DEF AfterCatchUp, Basic, Types
    <3>3. CASE ~ Cardinality(view[r]) < PageSize
      <4>1. Store(r, {}) /\ phase' = [phase EXCEPT ![r] = "done"]
        BY <3>1, <3>3 DEF AfterCatchUp
      <4>2. UNCHANGED <<cache, view>>
        BY <4>1, NothingStored DEF Store, Basic, Types
      <4> QED
        BY <3>1, <4>1, <4>2 DEF Basic, Types
    <3> QED
      BY <3>2, <3>3
  <2> QED
    BY <2>1, <2>2
<1>6. Anchors' = Anchors /\ Few' = Few
  BY <1>1, <1>5 DEF Anchors, Few
<1>7. Hull' /\ FewInv' /\ StartInv' /\ PullInv'
  <2>1. Hull'
    BY <1>5, <1>6 DEF HoleInv, Hull
  <2>2. FewInv'
    BY <1>1, <1>5, <1>6 DEF HoleInv, FewInv
  <2>3. StartInv'
    <3>1. \A q \in Rooms : phase'[q] = "starting" => phase[q] = "starting"
      BY <1>1, <1>5
    <3> QED
      BY <1>5, <3>1 DEF HoleInv, StartInv
  <2>4. PullInv'
    BY <1>1 DEF HoleInv, PullInv
  <2> QED
    BY <2>1, <2>2, <2>3, <2>4
<1>8. phase'[r] = "catchup" => Base(r)' \in Anchors
  <2>1. phase'[r] = "catchup" => Base(r)' = HighestSequence /\ HighestSequence > 0
    BY <1>5 DEF Base
  <2> QED
    BY <1>4, <2>1, CacheAnchors
<1>9. phase'[r] = "latest" => Anchors = {}
  <2>1. SUFFICES ASSUME HighestSequence = 0, Cardinality(view[r]) < PageSize
                 PROVE  Anchors = {}
    BY <1>5
  <2>2. \A x \in cache : x.seq = 0
    BY <1>2, <1>4, <2>1
  <2>3. Few
    <3>1. Copies(view[r], stored) /\ Copies(cache, stored)
      BY DEF Basic, Types
    <3>2. /\ Cardinality(cache) \in Nat /\ Cardinality(view[r]) \in Nat
      BY <3>1, CopiesCount
    <3>3. Shown(cache) \subseteq Shown(view[r])
      BY <1>1, <2>1, <2>2, <3>2, ClientAssumption DEF HoleInv, StartInv, Shown
    <3>4. Cardinality(cache) <= Cardinality(view[r])
      BY <3>1, <3>3, MoreShown
    <3> QED
      BY <2>1, <3>2, <3>4, ClientAssumption DEF Few
  <2>4. \A q \in Rooms : pulling[q] = 0
    BY <2>3 DEF HoleInv, FewInv
  <2>5. ASSUME NEW q \in Rooms, NEW x \in view[q], x.seq # 0 PROVE 1 \in Shown(view[q])
    <3>1. x.seq > 0
      <4>1. x.seq \in Nat
        BY DEF Basic, Types, Copies, Row
      <4> QED
        BY <2>5, <4>1
    <3> QED
      BY <2>3, <3>1 DEF HoleInv, FewInv
  <2> QED
    BY <2>2, <2>4, <2>5 DEF Anchors
<1>10. ASSUME NEW q \in Rooms, Waiting(q)', NEW a \in Anchors
       PROVE  a .. Base(q)' \subseteq Shown(cache)
  <2>1. CASE q = r
    <3>1. phase'[r] = "catchup"
      BY <1>9, <1>10, <2>1 DEF Waiting
    <3> QED
      BY <1>8, <2>1, <3>1 DEF HoleInv, Hull
  <2>2. CASE q # r
    <3>1. Waiting(q) /\ Base(q)' = Base(q)
      BY <1>1, <1>5, <1>10, <2>2 DEF Waiting, Base
    <3> QED
      BY <3>1 DEF HoleInv, BaseInv
  <2> QED
    BY <2>1, <2>2
<1>11. BaseInv'
  BY <1>5, <1>6, <1>10 DEF BaseInv
<1> QED
  BY <1>7, <1>11 DEF HoleInv

LEMMA ShownAll ==
  ASSUME Basic, NEW r \in Rooms, Cardinality(view[r]) >= PageSize
  PROVE  ~ Few
<1>1. Copies(view[r], stored) /\ Copies(cache, stored) /\ Shown(view[r]) \subseteq Shown(cache)
  BY DEF Basic, Types, RefreshInv
<1>2. /\ Cardinality(cache) \in Nat /\ Cardinality(view[r]) \in Nat
      /\ Cardinality(view[r]) <= Cardinality(cache)
  BY <1>1, CopiesCount, MoreShown
<1> QED
  BY <1>2, ClientAssumption DEF Few

LEMMA HoleCatchUp ==
  ASSUME Basic, Basic', CatchUpFits, HoleInv, NEW r \in Rooms, CatchUpAnswered(r)
  PROVE  HoleInv'
<1>1. PICK rows : rows = AfterSeq(after[r])
  OBVIOUS
<1>2. /\ phase[r] = "catchup" /\ AfterCatchUp(r, rows)
      /\ UNCHANGED <<stored, after, due, pulling>>
  BY <1>1 DEF CatchUpAnswered, log
<1>3. Waiting(r) /\ Base(r) = after[r] /\ after[r] \in Nat /\ stored <= after[r] + Batch
  <2>1. after[r] > 0 /\ after[r] \in Nat
    BY <1>2 DEF Basic, Types, RefreshInv
  <2> QED
    BY <1>2, <2>1 DEF Waiting, Base, CatchUpFits
<1>4. Page(rows, AfterSeqs(after[r]))
  BY <1>1, PageRows DEF Basic
<1>5. stored \in Nat
  BY ClientAssumption DEF Basic, Types
<1>6. \A q \in Rooms : phase'[q] = IF q = r THEN phase'[r] ELSE phase[q]
  BY <1>2 DEF AfterCatchUp, Basic, Types
<1>7. CASE Cardinality(view[r]) < PageSize
  <2>1. UNCHANGED <<cache, view>> /\ phase'[r] = "latest"
    BY <1>2, <1>7 DEF AfterCatchUp, Basic, Types
  <2>2. Anchors' = Anchors /\ Few' = Few
    BY <1>2, <2>1 DEF Anchors, Few
  <2>3. Hull' /\ FewInv' /\ PullInv'
    <3>1. Hull'
      BY <2>1, <2>2 DEF HoleInv, Hull
    <3>2. FewInv'
      BY <1>2, <2>1, <2>2 DEF HoleInv, FewInv
    <3>3. PullInv'
      BY <1>2 DEF HoleInv, PullInv
    <3> QED
      BY <3>1, <3>2, <3>3
  <2>4. StartInv'
    <3>1. \A q \in Rooms : phase'[q] = "starting" => phase[q] = "starting"
      BY <1>6, <2>1
    <3> QED
      BY <2>1, <3>1 DEF HoleInv, StartInv
  <2>5. BaseInv'
    <3>1. \A q \in Rooms : Waiting(q)' => Waiting(q) /\ Base(q)' = Base(q)
      BY <1>2, <1>3, <1>6 DEF Waiting, Base
    <3> QED
      BY <2>1, <2>2, <3>1 DEF HoleInv, BaseInv
  <2> QED
    BY <2>3, <2>4, <2>5 DEF HoleInv
<1>8. CASE ~ Cardinality(view[r]) < PageSize
  <2>1. Store(r, rows) /\ phase'[r] = "done"
    BY <1>2, <1>8 DEF AfterCatchUp, Basic, Types
  <2>2. Copies(rows, stored)
    BY <1>4 DEF Page
  <2>3. Base(r) + 1 .. stored \subseteq Shown(rows)
    BY <1>3, <1>4, <1>5, ClientAssumption DEF Page, AfterSeqs
  <2>4. ASSUME NEW x \in rows PROVE x.seq > 0 /\ x.seq .. stored \subseteq Shown(rows)
    <3>1. x.seq > 0 /\ x.seq \in Nat /\ x.seq > after[r]
      BY <1>3, <1>4, <1>5 DEF Page, AfterSeqs
    <3>2. x.seq .. stored \subseteq Base(r) + 1 .. stored
      BY <1>3, <1>5, <3>1
    <3> QED
      BY <2>3, <3>1, <3>2
  <2>5. ~ Few'
    <3>1. Shown(view[r]) \subseteq Shown(view'[r]) /\ Shown(cache) \subseteq Shown(cache')
      BY <1>2, <2>1, <2>2, StoreRows DEF Basic
    <3>2. Cardinality(view[r]) >= PageSize
      <4>1. Cardinality(view[r]) \in Nat
        BY CopiesCount DEF Basic, Types
      <4> QED
        BY <1>8, <4>1, ClientAssumption
    <3>3. ~ Few
      BY <3>2, ShownAll
    <3> QED
      BY <3>1, <3>3, FewBefore
  <2>6. \A q \in Rooms : phase'[q] \in {"done", phase[q]}
    BY <1>6, <2>1
  <2> QED
    BY <1>2, <1>3, <2>1, <2>2, <2>3, <2>4, <2>5, <2>6, NewestStored
<1> QED
  BY <1>7, <1>8

\* A page of the newest messages is a page of the cache.
LEMMA LatestFills ==
  ASSUME Types, NEW S, NEW n, Copies(S, n), LatestSeqs \subseteq Shown(S), stored >= PageSize
  PROVE  Cardinality(S) >= PageSize
<1>1. stored \in Nat /\ PageSize \in Nat /\ PageSize > 0
  BY ClientAssumption DEF Types
<1>2. PICK k \in Int : k = stored - PageSize + 1
  BY <1>1
<1>3. k .. stored \subseteq LatestSeqs
  BY <1>1, <1>2 DEF LatestSeqs
<1>4. IsFiniteSet(k .. stored) /\ Cardinality(k .. stored) = PageSize
  <2>1. /\ IsFiniteSet(k .. stored)
        /\ Cardinality(k .. stored) = IF k > stored THEN 0 ELSE stored - k + 1
    BY <1>1, FS_Interval
  <2> QED
    BY <1>1, <1>2, <2>1
<1>5. IsFiniteSet(Shown(S)) /\ Cardinality(S) = Cardinality(Shown(S))
  BY CopiesCount
<1>6. Cardinality(k .. stored) <= Cardinality(Shown(S))
  <2>1. k .. stored \subseteq Shown(S)
    BY <1>3
  <2> QED
    BY <1>5, <2>1, FS_Subset
<1>7. Cardinality(Shown(S)) \in Nat
  BY <1>5, FS_CardinalityType
<1> QED
  BY <1>1, <1>4, <1>5, <1>6, <1>7

LEMMA HoleLatest ==
  ASSUME MaxMeanwhile <= PageSize, Basic, Basic', CatchInv, HoleInv,
         NEW r \in Rooms, LatestAnswered(r)
  PROVE  HoleInv'
<1>1. PICK rows : rows = Upsert(caught[r], Latest)
  OBVIOUS
<1>2. /\ phase[r] = "latest" /\ Store(r, rows) /\ UNCHANGED <<stored, after, due, pulling>>
      /\ \A q \in Rooms : phase'[q] \in {"done", phase[q]}
  BY <1>1 DEF LatestAnswered, Basic, Types, log
<1>3. Page(Latest, LatestSeqs)
  BY PageRows DEF Basic
<1>4. /\ Copies(rows, stored) /\ Shown(rows) = Shown(caught[r]) \cup LatestSeqs
      /\ \A x \in rows : x \in caught[r] \/ x \in Latest
  BY <1>1, <1>3, CopiesUpsert, ShownUpsert DEF Basic, Types, Page, Upsert
<1>5. /\ stored \in Nat /\ due[r] \in Nat /\ after[r] \in Nat
  BY ClientAssumption DEF Basic, Types
<1>6. /\ Waiting(r) /\ due[r] <= stored /\ stored <= due[r] + MaxMeanwhile /\ after[r] <= due[r]
  BY <1>2 DEF Basic, RefreshInv, Waiting
<1>7. due[r] + 1 .. stored \subseteq LatestSeqs
  <2>1. stored <= due[r] + PageSize
    BY <1>5, <1>6, ClientAssumption
  <2> QED
    BY <1>5, <2>1, ClientAssumption DEF LatestSeqs
<1>8. after[r] > 0 => after[r] + 1 .. due[r] \subseteq Shown(caught[r])
  BY <1>2 DEF CatchInv
<1>9. Base(r) + 1 .. stored \subseteq Shown(rows)
  <2>1. CASE after[r] > 0
    <3>1. Base(r) = after[r]
      BY <2>1 DEF Base
    <3>2. \A k \in after[r] + 1 .. stored : k \in after[r] + 1 .. due[r] \/ k \in due[r] + 1 .. stored
      BY <1>5
    <3> QED
      BY <1>4, <1>7, <1>8, <2>1, <3>1, <3>2
  <2>2. CASE ~ after[r] > 0
    BY <1>4, <1>7, <2>2 DEF Base
  <2> QED
    BY <2>1, <2>2
<1>10. ASSUME NEW x \in rows PROVE x.seq > 0 /\ x.seq .. stored \subseteq Shown(rows)
  <2>1. CASE x \in Latest
    <3>1. x.seq > 0 /\ x.seq \in LatestSeqs
      BY <1>3, <2>1 DEF Page
    <3>2. x.seq .. stored \subseteq LatestSeqs
      BY <1>5, <3>1, ClientAssumption DEF LatestSeqs
    <3> QED
      BY <1>4, <3>1, <3>2
  <2>2. CASE x \in caught[r]
    <3>1. x.seq > after[r] /\ after[r] # 0 /\ x.seq \in Nat
      BY <1>2, <2>2 DEF Basic, Types, RefreshInv, Copies, Row
    <3>2. Base(r) = after[r]
      BY <1>5, <3>1 DEF Base
    <3>3. x.seq .. stored \subseteq Base(r) + 1 .. stored
      BY <1>5, <3>1, <3>2
    <3> QED
      BY <1>5, <1>9, <3>1, <3>3
  <2> QED
    BY <1>4, <2>1, <2>2
<1>11. Few' => rows = {} \/ 1 \in Shown(rows)
  <2>1. CASE stored >= PageSize
    <3>1. Copies(cache', stored')
      BY DEF Basic, Types
    <3>2. LatestSeqs \subseteq Shown(cache')
      BY <1>2, <1>4, StoreRows DEF Basic
    <3>3. Cardinality(cache') >= PageSize
      BY <2>1, <3>1, <3>2, LatestFills DEF Basic
    <3>4. Cardinality(cache') \in Nat
      BY <3>1, CopiesCount
    <3> QED
      BY <3>3, <3>4, ClientAssumption DEF Few
  <2>2. CASE stored < PageSize /\ stored > 0
    <3>1. 1 \in LatestSeqs
      BY <1>5, <2>2, ClientAssumption DEF LatestSeqs
    <3> QED
      BY <1>4, <3>1
  <2>3. CASE stored = 0
    <3>1. \A x \in rows : x.seq \in Nat /\ x.seq <= 0 /\ x.seq > 0
      BY <1>4, <1>10, <2>3 DEF Copies, Row
    <3> QED
      BY <3>1
  <2> QED
    BY <1>5, <2>1, <2>2, <2>3, ClientAssumption
<1> QED
  BY <1>2, <1>4, <1>6, <1>9, <1>10, <1>11, NewestStored

LEMMA HoleInit == Init => HoleInv
<1> SUFFICES ASSUME Init PROVE HoleInv
  OBVIOUS
<1>1. Anchors = {}
  BY DEF Init, Anchors
<1>2. Hull /\ BaseInv
  BY <1>1 DEF Hull, BaseInv
<1>3. FewInv /\ StartInv
  BY DEF Init, FewInv, StartInv
<1>4. PullInv
  BY ClientAssumption DEF Init, PullInv
<1> QED
  BY <1>2, <1>3, <1>4 DEF HoleInv

LEMMA HoleStep ==
  ASSUME ClocksAgree, MaxMeanwhile <= PageSize
  PROVE  Basic /\ CatchUpFits /\ CatchInv /\ HoleInv /\ [Next]_vars => HoleInv'
<1> SUFFICES ASSUME Basic, CatchUpFits, CatchInv, HoleInv, [Next]_vars PROVE HoleInv'
  OBVIOUS
<1>1. Basic'
  BY BasicStep
<1>2. ASSUME NEW r \in Rooms,
             \/ FetchMessages(r) \/ StartRefresh(r) \/ CatchUpAnswered(r)
             \/ LatestAnswered(r) \/ RefreshFailed(r)
             \/ LoadOlder(r) \/ OlderAnswered(r) \/ OlderFailed(r)
      PROVE  HoleInv'
  BY <1>1, <1>2, HoleFetch, HoleStart, HoleCatchUp, HoleLatest, HoleFailed, HolePull, HoleOlder
<1> QED
  BY <1>1, <1>2, HoleOutside DEF Next

LEMMA HoleSuffices == Basic /\ HoleInv => NoHole
<1> SUFFICES ASSUME Basic, HoleInv, NEW q \in cache, NEW r \in cache, q.seq > 0, r.seq > q.seq
             PROVE  q.seq .. r.seq \subseteq Shown(cache)
  BY DEF NoHole
<1>1. q.seq # 0 /\ r.seq # 0
  <2>1. q.seq \in Nat /\ r.seq \in Nat
    BY DEF Basic, Types, Copies, Row
  <2> QED
    BY <2>1
<1> QED
  BY <1>1, CacheAnchors DEF HoleInv, Hull

-----------------------------------------------------------------------------
(* What the room on the screen shows *)

LEMMA ShortView ==
  ASSUME Basic, Basic', NEW v \in Rooms, Shown(view[v]) \subseteq Shown(view'[v]),
         Cardinality(view'[v]) < PageSize
  PROVE  Cardinality(view[v]) < PageSize
<1>1. Copies(view[v], stored) /\ Copies(view'[v], stored')
  BY DEF Basic, Types
<1>2. /\ Cardinality(view[v]) \in Nat /\ Cardinality(view'[v]) \in Nat
      /\ Cardinality(view[v]) <= Cardinality(view'[v])
  BY <1>1, CopiesCount, MoreShown
<1> QED
  BY <1>2, ClientAssumption

\* What is new in the cache is on the screen.
LEMMA RoomGrows ==
  ASSUME Basic, Basic', NEW v \in Rooms, RoomOK(v),
         after'[v] = after[v], pulling'[v] \in {0, pulling[v]},
         phase'[v] \in {phase[v], "done", "failed"},
         \A q \in Rooms \ {v} : Running(q)' => Running(q),
         Shown(view[v]) \subseteq Shown(view'[v]),
         \A x \in cache' : x \in cache \/ x.msg \in Shown(view'[v]),
         \A r \in cache, q \in view'[v] :
           0 < q.seq /\ q.seq < r.seq => r.msg \in Shown(view'[v])
  PROVE  RoomOK(v)'
<1>1. \A q \in Rooms \ {v} : ~ Running(q)'
  BY DEF RoomOK
<1>2. \A r \in cache', q \in view'[v] :
        0 < q.seq /\ q.seq < r.seq => r.msg \in Shown(view'[v])
  OBVIOUS
<1>3. pulling'[v] > 0 => \A r \in cache' : r.seq >= pulling'[v] => r.msg \in Shown(view'[v])
  <2>1. SUFFICES ASSUME pulling'[v] > 0, NEW r \in cache', r.seq >= pulling'[v]
                 PROVE  r.msg \in Shown(view'[v])
    OBVIOUS
  <2>2. pulling'[v] = pulling[v] /\ pulling[v] > 0
    BY <2>1
  <2> QED
    BY <2>1, <2>2 DEF RoomOK
<1>4. phase'[v] = "catchup" =>
        \A r \in cache' : r.seq > after'[v] => r.msg \in Shown(view'[v])
  BY DEF RoomOK
<1>5. ASSUME Shown(cache) \subseteq Shown(view[v]) PROVE Shown(cache') \subseteq Shown(view'[v])
  BY <1>5 DEF Shown
<1>6. Cardinality(view'[v]) < PageSize => Shown(cache') \subseteq Shown(view'[v])
  BY <1>5, ShortView DEF RoomOK
<1>7. phase'[v] = "latest" => Shown(cache') \subseteq Shown(view'[v])
  BY <1>5 DEF RoomOK
<1> QED
  BY <1>1, <1>2, <1>3, <1>4, <1>6, <1>7 DEF RoomOK

LEMMA RoomReceive ==
  ASSUME Basic, Basic', RoomInv, NEW m \in Messages, Receive(m), stored' = stored,
         UNCHANGED <<open, overlap, phase, after, pulling>>
  PROVE  RoomInv'
<1> SUFFICES ASSUME NEW v \in Rooms, Alone(v)' PROVE RoomOK(v)'
  BY DEF RoomInv
<1>1. open = v /\ Alone(v) /\ RoomOK(v) /\ Alive(v)
  BY DEF Alone, RoomInv, Alive
<1>2. /\ \A x \in cache' : x \in cache \/ (x.seq = 0 /\ x.msg = m)
      /\ \A x \in view'[v] : x \in view[v] \/ (x.seq = 0 /\ x.msg = m)
      /\ Shown(view'[v]) = Shown(view[v]) \cup {m}
  BY <1>1, ReceivedRows DEF Basic
<1>3. \A x \in cache' : x \in cache \/ x.msg \in Shown(view'[v])
  BY <1>2
<1>4. ASSUME NEW r \in cache, NEW q \in view'[v], 0 < q.seq, q.seq < r.seq
      PROVE  r.msg \in Shown(view'[v])
  <2>1. q.seq # 0
    BY <1>4
  <2>2. q \in view[v]
    BY <1>2, <2>1
  <2> QED
    BY <1>1, <1>2, <1>4, <2>2 DEF RoomOK
<1>5. \A q \in Rooms \ {v} : Running(q)' => Running(q)
  BY DEF Running
<1> QED
  BY <1>1, <1>2, <1>3, <1>4, <1>5, RoomGrows

\* Neither the rows nor the screen change.
LEMMA RoomSame ==
  ASSUME Basic, Basic', RoomInv, UNCHANGED <<cache, view, after, overlap>>,
         open' \in {open, None},
         \A q \in Rooms : phase'[q] \in {"failed", phase[q]},
         \A q \in Rooms : pulling'[q] \in {0, pulling[q]}
  PROVE  RoomInv'
<1> SUFFICES ASSUME NEW v \in Rooms, Alone(v)' PROVE RoomOK(v)'
  BY DEF RoomInv
<1>1. RoomOK(v)
  BY ClientAssumption DEF Alone, RoomInv
<1>2. \A q \in Rooms : Running(q)' => Running(q)
  BY DEF Running
<1>3. \A r \in cache, q \in view'[v] :
        0 < q.seq /\ q.seq < r.seq => r.msg \in Shown(view'[v])
  BY <1>1 DEF RoomOK
<1> QED
  BY <1>1, <1>2, <1>3, RoomGrows

LEMMA RoomOutside ==
  ASSUME Basic, Basic', RoomInv,
         \/ Publish \/ SendMessage \/ Deliver \/ Persist \/ Connect \/ ConnectionLost \/ Leave
         \/ UNCHANGED vars
  PROVE  RoomInv'
<1>1. Types
  BY DEF Basic
<1>2. CASE SendMessage
  <2>1. Receive(published + 1) /\ stored' = stored /\ published + 1 \in Messages
        /\ UNCHANGED <<open, overlap, phase, after, pulling>>
    BY <1>1, <1>2, NextMessage DEF SendMessage, room
  <2> QED
    BY <2>1, RoomReceive
<1>3. CASE Deliver
  <2>1. Receive(Head(inbox)) /\ stored' = stored /\ Head(inbox) \in Messages
        /\ UNCHANGED <<open, overlap, phase, after, pulling>>
    BY <1>1, <1>3 DEF Types, Deliver, log, room
  <2> QED
    BY <2>1, RoomReceive
<1>4. CASE Publish \/ Persist \/ Connect \/ ConnectionLost \/ Leave \/ UNCHANGED vars
  <2>1. UNCHANGED <<cache, view, after, overlap, phase, pulling>> /\ open' \in {open, None}
    BY <1>4 DEF Publish, Persist, Connect, ConnectionLost, Leave, vars, room
  <2> QED
    BY <2>1, RoomSame
<1> QED
  BY <1>2, <1>3, <1>4

LEMMA RoomFailed ==
  ASSUME Basic, Basic', RoomInv, NEW r \in Rooms, RefreshFailed(r) \/ OlderFailed(r)
  PROVE  RoomInv'
<1>1. /\ UNCHANGED <<cache, view, after, overlap, open>>
      /\ \A q \in Rooms : phase'[q] \in {"failed", phase[q]}
      /\ \A q \in Rooms : pulling'[q] \in {0, pulling[q]}
  BY DEF RefreshFailed, OlderFailed, Basic, Types
<1> QED
  BY <1>1, RoomSame

LEMMA RoomFetch ==
  ASSUME ClocksAgree, Basic, Basic', RoomInv, NEW r \in Rooms, FetchMessages(r)
  PROVE  RoomInv'
<1>1. /\ open' = r /\ UNCHANGED <<cache, pulling, after>>
      /\ phase[r] = "new" /\ phase'[r] = "starting" /\ view'[r] = RecentMessages
      /\ overlap'[r] = (\E q \in Rooms : Running(q))
      /\ \A q \in Rooms : q # r => phase'[q] = phase[q]
  BY DEF FetchMessages, Basic, Types
<1> SUFFICES ASSUME NEW v \in Rooms, Alone(v)' PROVE RoomOK(v)'
  BY DEF RoomInv
<1>2. v = r /\ \A q \in Rooms : ~ Running(q)
  BY <1>1 DEF Alone
<1>3. \A q \in Rooms \ {v} : ~ Running(q)'
  BY <1>1, <1>2 DEF Running
<1>4. Copies(cache, stored)
  BY DEF Basic, Types
<1>5. \A x \in cache', q \in view'[v] : 0 < q.seq /\ q.seq < x.seq => x.msg \in Shown(view'[v])
  <2>1. \A x \in cache, q \in RecentMessages :
          0 < q.seq /\ q.seq < x.seq => x \in RecentMessages
    BY <1>4, RecentUpwards
  <2> QED
    BY <1>1, <1>2, <2>1 DEF Shown
<1>6. pulling'[v] = 0
  BY <1>1, <1>2 DEF Basic, RefreshInv
<1>7. Cardinality(view'[v]) < PageSize => Shown(cache') \subseteq Shown(view'[v])
  <2>1. RecentMessages = cache \/ Cardinality(RecentMessages) >= PageSize
    BY <1>4, RecentFills
  <2>2. Cardinality(RecentMessages) \in Nat
    <3>1. IsFiniteSet(cache)
      BY <1>4, CopiesCount
    <3> QED
      BY <3>1, RecentSubset, FS_Subset, FS_CardinalityType
  <2> QED
    BY <1>1, <1>2, <2>1, <2>2, ClientAssumption
<1> QED
  BY <1>1, <1>2, <1>3, <1>5, <1>6, <1>7 DEF RoomOK

LEMMA RoomStart ==
  ASSUME Basic, Basic', RoomInv, NEW r \in Rooms, StartRefresh(r)
  PROVE  RoomInv'
<1>1. /\ phase[r] = "starting" /\ UNCHANGED <<open, overlap, pulling>>
  BY DEF StartRefresh
<1> SUFFICES ASSUME NEW v \in Rooms, Alone(v)' PROVE RoomOK(v)'
  BY DEF RoomInv
<1>2. RoomOK(v)
  BY <1>1 DEF Alone, RoomInv
<1>3. v = r
  BY <1>1, <1>2 DEF RoomOK, Running
<1>4. CASE HighestSequence > 0
  <2>1. /\ UNCHANGED <<cache, view>> /\ phase'[v] = "catchup" /\ after'[v] = HighestSequence
        /\ \A q \in Rooms : q # v => phase'[q] = phase[q]
    BY <1>3, <1>4 DEF StartRefresh, Basic, Types
  <2>2. \A x \in cache : ~ x.seq > HighestSequence
    <3>1. stored \in Nat /\ Copies(cache, stored)
      BY ClientAssumption DEF Basic, Types
    <3>2. \A x \in cache : x.seq <= HighestSequence /\ x.seq \in Nat /\ HighestSequence \in Nat
      BY <3>1, HighestSeq DEF Copies, Row
    <3> QED
      BY <3>2
  <2>3. \A q \in Rooms \ {v} : ~ Running(q)'
    BY <1>1, <1>2, <2>1 DEF RoomOK, Running
  <2> QED
    BY <1>1, <1>2, <2>1, <2>2, <2>3 DEF RoomOK
<1>5. CASE ~ HighestSequence > 0
  <2>1. AfterCatchUp(v, {}) /\ UNCHANGED after
    BY <1>3, <1>5 DEF StartRefresh
  <2>2. CASE Cardinality(view[v]) < PageSize
    <3>1. /\ UNCHANGED <<cache, view>> /\ phase'[v] = "latest"
          /\ \A q \in Rooms : q # v => phase'[q] = phase[q]
      BY <2>1, <2>2 DEF AfterCatchUp, Basic, Types
    <3>2. \A q \in Rooms \ {v} : ~ Running(q)'
      BY <1>1, <1>2, <3>1 DEF RoomOK, Running
    <3> QED
      BY <1>1, <1>2, <2>1, <2>2, <3>1, <3>2 DEF RoomOK
  <2>3. CASE ~ Cardinality(view[v]) < PageSize
    <3>1. Store(v, {}) /\ phase' = [phase EXCEPT ![v] = "done"]
      BY <2>1, <2>3 DEF AfterCatchUp
    <3>2. UNCHANGED <<cache, view>>
      BY <3>1, NothingStored DEF Store, Basic, Types
    <3>3. phase'[v] = "done" /\ \A q \in Rooms : q # v => phase'[q] = phase[q]
      BY <3>1 DEF Basic, Types
    <3>4. \A q \in Rooms \ {v} : ~ Running(q)'
      BY <1>1, <1>2, <3>3 DEF RoomOK, Running
    <3> QED
      BY <1>1, <1>2, <2>1, <3>2, <3>3, <3>4 DEF RoomOK
  <2> QED
    BY <2>2, <2>3
<1> QED
  BY <1>4, <1>5

\* Rows of the backend that bring nothing below what the room shows.
LEMMA RoomStore ==
  ASSUME Basic, Basic', NEW v \in Rooms, RoomOK(v), NEW rows, Copies(rows, stored),
         Store(v, rows), UNCHANGED <<stored, after>>,
         pulling'[v] \in {0, pulling[v]}, phase'[v] \in {phase[v], "done"},
         \A q \in Rooms \ {v} : Running(q)' => Running(q),
         \A r \in cache, q \in rows : 0 < q.seq /\ q.seq < r.seq => r.msg \in Shown(view'[v])
  PROVE  RoomOK(v)'
<1>1. /\ cache' = Upsert(cache, rows) /\ view'[v] = Upsert(view[v], rows)
      /\ Shown(view'[v]) = Shown(view[v]) \cup Shown(rows)
  BY StoreRows DEF Basic
<1>2. /\ \A x \in cache' : x \in cache \/ x \in rows
      /\ \A x \in view'[v] : x \in view[v] \/ x \in rows
  BY <1>1 DEF Upsert
<1>3. \A x \in cache' : x \in cache \/ x.msg \in Shown(view'[v])
  BY <1>1, <1>2 DEF Shown
<1>4. \A r \in cache, q \in view'[v] : 0 < q.seq /\ q.seq < r.seq => r.msg \in Shown(view'[v])
  BY <1>1, <1>2 DEF RoomOK
<1> QED
  BY <1>1, <1>3, <1>4, RoomGrows

LEMMA RoomCatchUp ==
  ASSUME Basic, Basic', RoomInv, NEW r \in Rooms, CatchUpAnswered(r)
  PROVE  RoomInv'
<1>1. PICK rows : rows = AfterSeq(after[r])
  OBVIOUS
<1>2. /\ phase[r] = "catchup" /\ AfterCatchUp(r, rows)
      /\ UNCHANGED <<stored, after, pulling, open, overlap>>
  BY <1>1 DEF CatchUpAnswered, log
<1> SUFFICES ASSUME NEW v \in Rooms, Alone(v)' PROVE RoomOK(v)'
  BY DEF RoomInv
<1>3. RoomOK(v)
  BY <1>2 DEF Alone, RoomInv
<1>4. v = r
  BY <1>2, <1>3 DEF RoomOK, Running
<1>5. Page(rows, AfterSeqs(after[v]))
  BY <1>1, <1>4, PageRows DEF Basic
<1>6. \A q \in Rooms : q # v => phase'[q] = phase[q]
  BY <1>2, <1>4 DEF AfterCatchUp, Basic, Types
<1>7. \A q \in Rooms \ {v} : Running(q)' => Running(q)
  BY <1>2, <1>6 DEF Running
<1>8. CASE Cardinality(view[v]) < PageSize
  <2>1. UNCHANGED <<cache, view>> /\ phase'[v] = "latest"
    BY <1>2, <1>4, <1>8 DEF AfterCatchUp, Basic, Types
  <2> QED
    BY <1>2, <1>3, <1>7, <1>8, <2>1 DEF RoomOK
<1>9. CASE ~ Cardinality(view[v]) < PageSize
  <2>1. Store(v, rows) /\ phase'[v] = "done"
    BY <1>2, <1>4, <1>9 DEF AfterCatchUp, Basic, Types
  <2>2. Copies(rows, stored)
    BY <1>5 DEF Page
  <2>3. Shown(view[v]) \subseteq Shown(view'[v])
    BY <1>2, <2>1, <2>2, StoreRows DEF Basic
  <2>4. ASSUME NEW x \in cache, NEW q \in rows, 0 < q.seq, q.seq < x.seq
        PROVE  x.msg \in Shown(view'[v])
    <3>1. q.seq \in Nat /\ after[v] < q.seq /\ after[v] \in Nat /\ x.seq \in Nat
      BY <1>5 DEF Page, AfterSeqs, Basic, Types, Copies, Row
    <3>2. x.seq > after[v]
      BY <2>4, <3>1
    <3>3. x.msg \in Shown(view[v])
      BY <1>2, <1>3, <1>4, <3>2 DEF RoomOK
    <3> QED
      BY <2>3, <3>3
  <2> QED
    BY <1>2, <1>3, <1>7, <2>1, <2>2, <2>4, RoomStore
<1> QED
  BY <1>8, <1>9

LEMMA RoomLatest ==
  ASSUME Basic, Basic', RoomInv, NEW r \in Rooms, LatestAnswered(r)
  PROVE  RoomInv'
<1>1. PICK rows : rows = Upsert(caught[r], Latest)
  OBVIOUS
<1>2. /\ phase[r] = "latest" /\ Store(r, rows) /\ UNCHANGED <<stored, after, pulling, open, overlap>>
      /\ \A q \in Rooms : phase'[q] \in {"done", phase[q]}
  BY <1>1 DEF LatestAnswered, Basic, Types, log
<1> SUFFICES ASSUME NEW v \in Rooms, Alone(v)' PROVE RoomOK(v)'
  BY DEF RoomInv
<1>3. RoomOK(v)
  BY <1>2 DEF Alone, RoomInv
<1>4. v = r
  BY <1>2, <1>3 DEF RoomOK, Running
<1>5. Copies(rows, stored)
  BY <1>1, PageRows, CopiesUpsert DEF Basic, Types, Page
<1>6. \A q \in Rooms \ {v} : Running(q)' => Running(q)
  BY <1>2 DEF Running
<1>7. \A x \in cache : x.msg \in Shown(view'[v])
  <2>1. Shown(view[v]) \subseteq Shown(view'[v])
    BY <1>2, <1>4, <1>5, StoreRows DEF Basic
  <2>2. Shown(cache) \subseteq Shown(view[v])
    BY <1>2, <1>3, <1>4 DEF RoomOK
  <2> QED
    BY <2>1, <2>2 DEF Shown
<1> QED
  BY <1>2, <1>3, <1>4, <1>5, <1>6, <1>7, RoomStore

\* A page of the cache is the newest rows below a seq.
LEMMA OlderUpwards ==
  ASSUME NEW n, Copies(cache, n), NEW k \in Nat, NEW q \in MessagesBefore(k),
         NEW x \in cache, q.seq < x.seq, x.seq < k
  PROVE  x \in MessagesBefore(k)
<1> DEFINE older == {r \in cache : r.seq < k}
           above(r) == {p \in older : p.seq > r.seq \/ (p.seq = r.seq /\ Before(r, p))}
<1>1. MessagesBefore(k) = {r \in older : Cardinality(above(r)) < PageSize}
  BY DEF MessagesBefore
<1>2. q \in older /\ x \in older /\ Cardinality(above(q)) < PageSize
  BY <1>1
<1>3. IsFiniteSet(older)
  BY CopiesCount, FS_Subset
<1>4. \A r \in older : r.seq \in Nat
  BY DEF Copies, Row
<1>5. above(x) \subseteq above(q)
  BY <1>2, <1>4
<1>6. IsFiniteSet(above(q)) /\ IsFiniteSet(above(x))
  BY <1>3, FS_Subset
<1>7. Cardinality(above(x)) <= Cardinality(above(q))
  BY <1>5, <1>6, FS_Subset
<1>8. Cardinality(above(x)) \in Nat /\ Cardinality(above(q)) \in Nat
  BY <1>6, FS_CardinalityType
<1>9. Cardinality(above(x)) < PageSize
  BY <1>2, <1>7, <1>8, ClientAssumption
<1> QED
  BY <1>1, <1>2, <1>9

LEMMA RoomPull ==
  ASSUME Basic, Basic', RoomInv, NEW r \in Rooms, LoadOlder(r)
  PROVE  RoomInv'
<1>1. PICK before \in Nat, local \in SUBSET cache :
           /\ before = FirstSeq(view[r]) /\ before > 1 /\ local = MessagesBefore(before)
           /\ open = r
           /\ view'[r] = Upsert(view[r], local)
           /\ Shown(view'[r]) = Shown(view[r]) \cup Shown(local)
           /\ pulling'[r] \in {0, before}
           /\ \A q \in Rooms : q # r => pulling'[q] = pulling[q]
           /\ UNCHANGED <<log, link, cache, open, phase, after, caught, due, overlap>>
  BY PullRows DEF Basic
<1> SUFFICES ASSUME NEW v \in Rooms, Alone(v)' PROVE RoomOK(v)'
  BY DEF RoomInv
<1>2. v = r /\ RoomOK(v)
  BY <1>1 DEF Alone, RoomInv
<1>3. PICK f \in view[v] : f.seq = before /\ f.msg = before
  <2>1. Copies(view[v], stored) /\ FirstSeq(view[v]) > 1
    BY <1>1, <1>2 DEF Basic, Types
  <2> QED
    BY <1>1, <1>2, <2>1, PullFrom
<1>4. \A x \in view[v] : x.msg \in Shown(view'[v])
  BY <1>1, <1>2 DEF Shown
<1>5. Copies(cache, stored)
  BY DEF Basic, Types
<1>6. ASSUME NEW x \in cache, x.seq >= before PROVE x.msg \in Shown(view'[v])
  <2>1. x.seq \in Nat /\ x.seq # 0 /\ x.seq \in {0, x.msg}
    BY <1>1, <1>5, <1>6 DEF Copies, Row
  <2>2. CASE x.seq = before
    BY <1>3, <1>4, <2>1, <2>2
  <2>3. CASE x.seq > before
    <3>1. 0 < f.seq /\ f.seq < x.seq
      BY <1>1, <1>3, <2>3
    <3>2. x.msg \in Shown(view[v])
      BY <1>2, <1>3, <3>1 DEF RoomOK
    <3> QED
      BY <1>1, <1>2, <3>2
  <2> QED
    BY <1>1, <1>6, <2>1, <2>2, <2>3
<1>7. ASSUME NEW x \in cache, NEW q \in view'[v], 0 < q.seq, q.seq < x.seq
      PROVE  x.msg \in Shown(view'[v])
  <2>1. CASE q \in view[v]
    <3>1. x.msg \in Shown(view[v])
      BY <1>2, <1>7, <2>1 DEF RoomOK
    <3> QED
      BY <1>1, <1>2, <3>1
  <2>2. CASE q \in local
    <3>1. CASE x.seq >= before
      BY <1>6, <3>1
    <3>2. CASE x.seq < before
      <4>1. x \in local
        BY <1>1, <1>5, <1>7, <2>2, <3>2, OlderUpwards
      <4> QED
        BY <1>1, <1>2, <4>1 DEF Shown
    <3>3. x.seq \in Nat
      BY <1>5 DEF Copies, Row
    <3> QED
      BY <1>1, <3>1, <3>2, <3>3
  <2>3. q \in view[v] \/ q \in local
    BY <1>1, <1>2 DEF Upsert
  <2> QED
    BY <2>1, <2>2, <2>3
<1>8. Shown(view[v]) \subseteq Shown(view'[v])
  BY <1>1, <1>2
<1>9. \A q \in Rooms \ {v} : ~ Running(q)'
  BY <1>1, <1>2 DEF RoomOK, Running
<1>10. pulling'[v] > 0 => \A x \in cache' : x.seq >= pulling'[v] => x.msg \in Shown(view'[v])
  BY <1>1, <1>2, <1>6
<1>11. Cardinality(view'[v]) < PageSize => Shown(cache') \subseteq Shown(view'[v])
  BY <1>1, <1>2, <1>8, ShortView DEF RoomOK
<1>12. \A x \in cache', q \in view'[v] :
         0 < q.seq /\ q.seq < x.seq => x.msg \in Shown(view'[v])
  BY <1>1, <1>7
<1>13. /\ phase'[v] = "catchup" =>
            \A x \in cache' : x.seq > after'[v] => x.msg \in Shown(view'[v])
       /\ phase'[v] = "latest" => Shown(cache') \subseteq Shown(view'[v])
  BY <1>1, <1>2, <1>8 DEF RoomOK
<1> QED
  BY <1>9, <1>10, <1>11, <1>12, <1>13 DEF RoomOK

LEMMA RoomOlder ==
  ASSUME Basic, Basic', RoomInv, NEW r \in Rooms, OlderAnswered(r)
  PROVE  RoomInv'
<1>1. PICK p : p = pulling[r]
  OBVIOUS
<1>2. PICK rows : rows = BeforeSeq(p)
  OBVIOUS
<1>3. /\ p > 0 /\ Store(r, rows)
      /\ UNCHANGED <<stored, phase, after, open, overlap>>
      /\ \A q \in Rooms : pulling'[q] \in {0, pulling[q]}
  BY <1>1, <1>2 DEF OlderAnswered, Basic, Types, log
<1> SUFFICES ASSUME NEW v \in Rooms, Alone(v)' PROVE RoomOK(v)'
  BY DEF RoomInv
<1>4. RoomOK(v)
  BY <1>3 DEF Alone, RoomInv
<1>5. v = r
  BY <1>1, <1>3, <1>4 DEF RoomOK, Running
<1>6. Page(rows, BeforeSeqs(p))
  BY <1>2, PageRows DEF Basic
<1>7. Copies(rows, stored)
  BY <1>6 DEF Page
<1>8. stored \in Nat /\ p \in Nat
  <2>1. Types
    BY DEF Basic
  <2> QED
    BY <1>1, <2>1, ClientAssumption DEF Types
<1>9. /\ Shown(view[v]) \subseteq Shown(view'[v]) /\ Shown(rows) \subseteq Shown(view'[v])
  BY <1>3, <1>5, <1>7, StoreRows DEF Basic
<1>10. ASSUME NEW x \in cache, NEW q \in rows, 0 < q.seq, q.seq < x.seq
       PROVE  x.msg \in Shown(view'[v])
  <2>1. x.seq \in Nat /\ x.seq \in {0, x.msg} /\ x.seq <= stored
    BY DEF Basic, Types, Copies, Row
  <2>2. q.seq \in Nat /\ q.seq + PageSize >= p
    BY <1>6, <1>8 DEF Page, BeforeSeqs
  <2>3. CASE x.seq >= p
    <3>1. x.msg \in Shown(view[v])
      BY <1>1, <1>3, <1>4, <1>5, <2>3 DEF RoomOK
    <3> QED
      BY <1>9, <3>1
  <2>4. CASE x.seq < p
    <3>1. x.seq \in BeforeSeqs(p) /\ x.seq # 0
      BY <1>8, <1>10, <2>1, <2>2, <2>4, ClientAssumption DEF BeforeSeqs
    <3>2. x.msg \in Shown(rows)
      BY <1>6, <2>1, <3>1 DEF Page
    <3> QED
      BY <1>9, <3>2
  <2> QED
    BY <1>8, <2>1, <2>3, <2>4
<1>11. \A q \in Rooms \ {v} : Running(q)' => Running(q)
  BY <1>3 DEF Running
<1> QED
  BY <1>3, <1>4, <1>5, <1>7, <1>10, <1>11, RoomStore

LEMMA RoomInit == Init => RoomInv
BY ClientAssumption DEF Init, RoomInv, Alone

LEMMA RoomStep ==
  ASSUME ClocksAgree
  PROVE  Basic /\ RoomInv /\ [Next]_vars => RoomInv'
<1> SUFFICES ASSUME Basic, RoomInv, [Next]_vars PROVE RoomInv'
  OBVIOUS
<1>1. Basic'
  BY BasicStep
<1>2. ASSUME NEW r \in Rooms,
             \/ FetchMessages(r) \/ StartRefresh(r) \/ CatchUpAnswered(r)
             \/ LatestAnswered(r) \/ RefreshFailed(r)
             \/ LoadOlder(r) \/ OlderAnswered(r) \/ OlderFailed(r)
      PROVE  RoomInv'
  BY <1>1, <1>2, RoomFetch, RoomStart, RoomCatchUp, RoomLatest, RoomFailed, RoomPull, RoomOlder
<1> QED
  BY <1>1, <1>2, RoomOutside DEF Next

-----------------------------------------------------------------------------
(* The theorems *)

\* In every reachable state the variables have their types, and the cache and
\* every screen hold one copy of a message, whatever live copies and pages of
\* it arrive in whatever order (upsertMessagesLocked, mergeMessages).
THEOREM TypeCorrect == Spec => []TypeOK
<1>1. Basic => TypeOK
  <2> SUFFICES ASSUME Basic PROVE TypeOK
    OBVIOUS
  <2>1. published \in Messages \cup {0} /\ stored \in 0 .. published
    BY ClientAssumption DEF Basic, Types, Messages
  <2>2. \A S \in {cache} \cup {view[r] : r \in Rooms} \cup {caught[r] : r \in Rooms} :
          S \subseteq Row /\ \A q, r \in S : q.msg = r.msg => q = r
    <3>1. \A S : Copies(S, stored) => S \subseteq Row /\ \A q, r \in S : q.msg = r.msg => q = r
      BY DEF Copies
    <3> QED
      BY <3>1 DEF Basic, Types
  <2> QED
    BY <2>1, <2>2 DEF TypeOK, Basic, Types, Phases
<1> QED
  BY <1>1, BasicInit, BasicStep, PTL DEF Spec

\* While a batch holds what a catch-up has missed, a refresh that found a seq to
\* start from and ended without an error shows all that the backend had stored
\* after it, the live copies that came meanwhile included
\* (refreshLatestMessages of ChatRoomViewModel).
THEOREM CatchUpShownAlways == Spec /\ []CatchUpFits => []CatchUpShown
<1>1. Basic /\ CatchInv => CatchUpShown
  BY DEF Basic, Types, CatchInv, CatchUpShown
<1> QED
  BY <1>1, BasicInit, BasicStep, CatchInit, CatchStep, PTL DEF Spec

\* While a batch holds what a catch-up has missed, no more than a page is
\* stored during a refresh, and the senders' clocks agree with the backend's
\* order, the cache has no hole that a later catch-up would never fill: live
\* copies, pages and pulls of any number of rooms in any order
\* (refreshLatestMessages, loadOlderMessages, LocalMessageStore).
THEOREM NoHoleAlways ==
  ASSUME ClocksAgree, MaxMeanwhile <= PageSize
  PROVE  Spec /\ []CatchUpFits => []NoHole
<1>1. Basic /\ CatchUpFits /\ CatchInv /\ HoleInv /\ [Next]_vars => HoleInv'
  BY HoleStep
<1> QED
  BY <1>1, BasicInit, BasicStep, CatchInit, CatchStep, HoleInit, HoleSuffices, PTL DEF Spec

\* While the senders' clocks agree with the backend's order, the room on the
\* screen hides no cached message above a row of its own, unless it was opened
\* during the refresh of another (fetchMessages, refreshLatestMessages,
\* loadOlderMessages, handleIncomingMessage).
THEOREM RoomShowsCacheAlways ==
  ASSUME ClocksAgree
  PROVE  Spec => []RoomShowsCache
<1>1. Basic /\ RoomInv /\ [Next]_vars => RoomInv'
  BY RoomStep
<1>2. Basic /\ RoomInv => RoomShowsCache
  BY DEF Basic, Types, RoomInv, Alone, RoomOK, RoomShowsCache
<1> QED
  BY <1>1, <1>2, BasicInit, BasicStep, RoomInit, PTL DEF Spec
================================================================================
