-------------------------- MODULE AgentHandler_proofs --------------------------
(***************************************************************************)
(* Proofs about AgentHandler, for any sessions, budgets, sizes and tool    *)
(* calls: what a session remembers, what the model is asked, how often,    *)
(* and which files change.                                                 *)
(*                                                                         *)
(* The arguments: every question asked of the model is paid by a round, by *)
(* a compression or by a retry (Bounded); the results of a round stand     *)
(* right behind the message that asked for them, the last one being        *)
(* completed while its tools run (Paired).                                 *)
(***************************************************************************)
EXTENDS AgentHandler, FiniteSetTheorems, WellFoundedInduction, TLAPS

Messages ==
  [role : Roles, size : Nat, turn : Nat, calls : Seq(Nat \X Nat)]
Requests ==
  [at : {"idle", "runtime", "asking", "tools"}, msgs : Seq(Messages), turn : Nat,
   size : Nat, round : Nat, attempt : Nat, compressions : Nat, todo : Seq(Calls),
   done : Nat, local : Nat, remote : Nat, late : BOOLEAN, asked : Nat]

Types ==
  /\ history \in [Sessions -> Seq(Messages)] /\ notes \in [Sessions -> 0 .. MaxNotes]
  /\ answered \in [Sessions -> Seq(Nat)]
  /\ mcp \in {"none", "creating", "ready"}
  /\ file \in [Paths -> [size : Nat, hits : 0 .. 2]]
  /\ req \in [Sessions -> Requests] /\ served \in [Sessions -> 0 .. MaxRequests]

\* What is sent to the model when the window is nearly used.
Fits(msgs) == Size(msgs) <= Target \/ Len(msgs) <= 2

\* The messages of a request that has any begin with the system prompt.
Headed(r) ==
  /\ r.at = "tools" => r.todo # <<>>
  /\ r.at \in {"asking", "tools"} => r.msgs # <<>> /\ r.msgs[1] = SystemPrompt
  /\ r.at = "asking" => Size(r.msgs) < Trigger \/ Fits(r.msgs)

\* The compressions that pay for a question.
Paid(r) == IF r.compressions <= MaxCompressions THEN r.compressions ELSE MaxCompressions

Bounded(r) ==
  /\ r.local <= CallLimit /\ r.remote <= CallLimit
  /\ r.at \in {"idle", "runtime"} => r.asked = 0 /\ r.round = 0
  /\ r.at \in {"asking", "tools"} => r.round <= MaxRounds
  /\ r.at = "asking" =>
       /\ r.attempt <= MaxRetries
       /\ r.asked <= (r.round + Paid(r)) * (MaxRetries + 1) + r.attempt + 1
  /\ r.at = "tools" => r.asked <= (r.round + Paid(r) + 1) * (MaxRetries + 1)

\* The three parts of CallsAnswered.
Question(msgs, turn) == \E i \in DOMAIN msgs : msgs[i].role = "user" /\ msgs[i].turn = turn

Answering(msgs) ==
  \A i \in DOMAIN msgs : msgs[i].role = "tool" =>
    \E j \in 1 .. i - 1 : \E k \in DOMAIN msgs[j].calls :
      j + k = i /\ msgs[j].role = "assistant" /\ msgs[j].calls[k] = msgs[i].calls[1]

Complete(msgs, but) ==
  \A j \in DOMAIN msgs \ but : msgs[j].role = "assistant" =>
    j + Len(msgs[j].calls) <= Len(msgs)

\* The message whose calls are being run.
Asker(r) == Len(r.msgs) - r.done

Paired(r) ==
  r.compressions = 0 =>
    /\ r.at \in {"asking", "tools"} => Question(r.msgs, r.turn) /\ Answering(r.msgs)
    /\ r.at = "asking" => Complete(r.msgs, {})
    /\ r.at = "tools" =>
         /\ Asker(r) \in DOMAIN r.msgs
         /\ r.msgs[Asker(r)].role = "assistant"
         /\ r.msgs[Asker(r)].calls = [i \in 1 .. r.done + Len(r.todo) |-> CallId(r, i)]
         /\ Complete(r.msgs, {Asker(r)})

Good(r) == Headed(r) /\ Bounded(r) /\ Paired(r)

\* Who waits for a runtime waits for one that is there or being made.
ReqInv == \A s \in Sessions : Good(req[s]) /\ (req[s].at = "runtime" => mcp # "none")

\* What is remembered asks for no tools.
Plain(msgs) ==
  \A i \in DOMAIN msgs : msgs[i].role \in {"user", "assistant"} /\ msgs[i].calls = <<>>

\* The questions and answers of the last k answered requests.
Pairs(msgs, turns, k) ==
  /\ Len(msgs) = 2 * k
  /\ \A i \in 1 .. k :
       /\ msgs[2 * i - 1].role = "user" /\ msgs[2 * i].role = "assistant"
       /\ msgs[2 * i - 1].turn = turns[Len(turns) - k + i]
       /\ msgs[2 * i].turn = msgs[2 * i - 1].turn

Newest(n) == IF Turns > 0 /\ Turns <= n THEN Turns ELSE n

MemoryInv ==
  \A s \in Sessions :
    Plain(history[s]) /\ Pairs(history[s], answered[s], Newest(Len(answered[s])))

IInv == Types /\ ReqInv /\ MemoryInv

-----------------------------------------------------------------------------
(* Numbers and positions *)

LEMMA LeastExists ==
  ASSUME NEW S, S \subseteq Nat, S # {}
  PROVE  \E m \in S : \A k \in S : m <= k
<1>1. \E m \in S : \A k \in S : ~ (<<k, m>> \in OpToRel(<, Nat))
  BY WFMin, NatLessThanWellFounded
<1>2. \A m, k \in Nat : ~ (<<k, m>> \in OpToRel(<, Nat)) => m <= k
  BY DEF OpToRel
<1> QED
  BY <1>1, <1>2

LEMMA MinIsLeast ==
  ASSUME NEW S, S \subseteq Nat, S # {}
  PROVE  Min(S) \in S /\ \A k \in S : Min(S) <= k
<1>1. \E m \in S : \A k \in S : m <= k
  BY LeastExists
<1> QED
  BY <1>1 DEF Min

LEMMA MinOfTwo ==
  ASSUME NEW a \in Nat, NEW b \in Nat
  PROVE  Min({a, b}) = IF a <= b THEN a ELSE b
<1>1. PICK S : S = {a, b}
  OBVIOUS
<1>2. Min(S) \in S /\ \A k \in S : Min(S) <= k
  BY <1>1, MinIsLeast
<1> QED
  BY <1>1, <1>2

LEMMA PositionsFinite ==
  ASSUME NEW n \in Nat, NEW S, S \subseteq 1 .. n
  PROVE  IsFiniteSet(S) /\ Cardinality(S) \in Nat
<1>1. IsFiniteSet(1 .. n)
  BY FS_Interval
<1>2. S \in SUBSET (1 .. n)
  OBVIOUS
<1>3. IsFiniteSet(S)
  BY <1>1, <1>2, FS_Subset
<1> QED
  BY <1>3, FS_CardinalityType

\* The k-th of a set of positions exists: ranks are different numbers up to
\* the size of the set, so all of them occur.
LEMMA NthExists ==
  ASSUME NEW n \in Nat, NEW S, S \subseteq 1 .. n, NEW k \in 1 .. Cardinality(S)
  PROVE  Nth(S, k) \in S
<1>1. IsFiniteSet(S) /\ Cardinality(S) \in Nat
  BY PositionsFinite
<1> DEFINE upTo(i) == {j \in S : j <= i}
           rank == [i \in S |-> Cardinality(upTo(i))]
<1>2. ASSUME NEW i \in S
      PROVE  IsFiniteSet(upTo(i)) /\ Cardinality(upTo(i)) \in 1 .. Cardinality(S)
  <2>1. upTo(i) \in SUBSET S /\ upTo(i) # {} /\ i \in Nat
    OBVIOUS
  <2>2. IsFiniteSet(upTo(i)) /\ Cardinality(upTo(i)) <= Cardinality(S)
    BY <1>1, <2>1, FS_Subset
  <2>3. Cardinality(upTo(i)) # 0 /\ Cardinality(upTo(i)) \in Nat
    BY <2>1, <2>2, FS_EmptySet, FS_CardinalityType
  <2> QED
    BY <1>1, <2>2, <2>3
<1>3. ASSUME NEW i \in S, NEW j \in S, i < j
      PROVE  Cardinality(upTo(i)) # Cardinality(upTo(j))
  <2>1. upTo(i) \in SUBSET upTo(j)
    <3>1. \A h \in S : h <= i => h <= j
      BY <1>3
    <3> QED
      BY <3>1
  <2>2. j \in upTo(j) /\ j \notin upTo(i)
    BY <1>3
  <2> HIDE DEF upTo
  <2> QED
    BY <1>2, <2>1, <2>2, FS_Subset
<1>4. rank \in Injection(S, 1 .. Cardinality(S))
  <2>1. rank \in [S -> 1 .. Cardinality(S)]
    BY <1>2
  <2>2. \A i, j \in S : rank[i] = rank[j] => i = j
    <3> SUFFICES ASSUME NEW i \in S, NEW j \in S, i # j PROVE rank[i] # rank[j]
      OBVIOUS
    <3>1. i < j \/ j < i
      OBVIOUS
    <3> QED
      BY <1>3, <3>1
  <2> HIDE DEF rank
  <2> QED
    BY <2>1, <2>2 DEF Injection, IsInjective
<1>5. rank \in Surjection(S, 1 .. Cardinality(S))
  <2>1. IsFiniteSet(1 .. Cardinality(S)) /\ Cardinality(1 .. Cardinality(S)) = Cardinality(S)
    BY <1>1, FS_Interval
  <2> HIDE DEF rank
  <2> QED
    BY <1>4, <2>1, FS_Injection
<1>6. \E i \in S : Cardinality(upTo(i)) = k
  BY <1>5 DEF Surjection
<1> QED
  BY <1>6 DEF Nth

LEMMA SelectType ==
  ASSUME NEW msgs \in Seq(Messages), NEW keep
  PROVE  Select(msgs, keep) \in Seq(Messages)
<1>1. PICK kept : kept = keep \cap DOMAIN msgs
  OBVIOUS
<1>2. kept \subseteq 1 .. Len(msgs) /\ Len(msgs) \in Nat
  BY <1>1
<1>3. Cardinality(kept) \in Nat
  BY <1>2, PositionsFinite
<1>4. \A k \in 1 .. Cardinality(kept) : Nth(kept, k) \in kept
  BY <1>2, NthExists
<1>5. \A k \in 1 .. Cardinality(kept) : msgs[Nth(kept, k)] \in Messages
  <2>1. \A i \in DOMAIN msgs : msgs[i] \in Messages
    OBVIOUS
  <2> QED
    BY <1>1, <1>4, <2>1
<1>6. PICK c \in Nat : c = Cardinality(kept)
  BY <1>3
<1>7. PICK f : f = [k \in 1 .. c |-> msgs[Nth(kept, k)]]
  OBVIOUS
<1>8. f \in [1 .. c -> Messages]
  BY <1>5, <1>6, <1>7
<1>9. f \in Seq(Messages)
  BY <1>8
<1> QED
  BY <1>1, <1>6, <1>7, <1>9 DEF Select

-----------------------------------------------------------------------------
(* Sizes *)

\* A running sum, as Size defines it, exists on every prefix.
IsSum(f, n, w) == f = [i \in 0 .. n |-> IF i = 0 THEN 0 ELSE f[i - 1] + w[i]]

LEMMA SumExists ==
  ASSUME NEW n \in Nat, NEW w \in [1 .. n -> Nat]
  PROVE  \E f : IsSum(f, n, w)
<1> DEFINE bad == {k \in 0 .. n : ~ \E f \in [0 .. k -> Nat] : IsSum(f, k, w)}
<1>1. SUFFICES bad = {}
  <2>1. n \in 0 .. n
    OBVIOUS
  <2> QED
    BY <1>1, <2>1
<1>2. SUFFICES ASSUME bad # {} PROVE FALSE
  OBVIOUS
<1>3. PICK b \in bad : \A k \in bad : b <= k
  <2>1. bad \subseteq Nat
    OBVIOUS
  <2> HIDE DEF bad
  <2> QED
    BY <1>2, <2>1, LeastExists
<1>4. b \in 0 .. n
  OBVIOUS
<1>5. CASE b = 0
  <2>1. IsSum([i \in 0 .. 0 |-> 0], 0, w)
    BY DEF IsSum
  <2>2. [i \in 0 .. 0 |-> 0] \in [0 .. 0 -> Nat]
    OBVIOUS
  <2> QED
    BY <1>5, <2>1, <2>2
<1>6. CASE b # 0
  <2>1. b - 1 \in 0 .. n /\ ~ (b <= b - 1)
    BY <1>4, <1>6
  <2>2. PICK f \in [0 .. b - 1 -> Nat] : IsSum(f, b - 1, w)
    BY <1>3, <2>1
  <2>3. PICK g : g = [i \in 0 .. b |-> IF i = b THEN f[b - 1] + w[b] ELSE f[i]]
    OBVIOUS
  <2>4. g \in [0 .. b -> Nat]
    BY <1>4, <1>6, <2>3
  <2>5. \A i \in 0 .. b - 1 : f[i] = IF i = 0 THEN 0 ELSE f[i - 1] + w[i]
    BY <2>2 DEF IsSum
  <2>6. \A i \in 0 .. b : g[i] = IF i = 0 THEN 0 ELSE g[i - 1] + w[i]
    BY <1>4, <1>6, <2>3, <2>5, SMTT(30)
  <2>7. IsSum(g, b, w)
    BY <2>4, <2>6 DEF IsSum
  <2> QED
    BY <2>4, <2>7
<1> QED
  BY <1>5, <1>6

LEMMA SumType ==
  ASSUME NEW n \in Nat, NEW w \in [1 .. n -> Nat], NEW f, IsSum(f, n, w)
  PROVE  f[n] \in Nat
<1> DEFINE bad == {k \in 0 .. n : f[k] \notin Nat}
<1>1. SUFFICES ASSUME bad # {} PROVE FALSE
  OBVIOUS
<1>2. PICK b \in bad : \A k \in bad : b <= k
  <2>1. bad \subseteq Nat
    OBVIOUS
  <2> HIDE DEF bad
  <2> QED
    BY <1>1, <2>1, LeastExists
<1>3. f[b] = IF b = 0 THEN 0 ELSE f[b - 1] + w[b]
  BY DEF IsSum
<1>4. b # 0 => b - 1 \in 0 .. n /\ ~ (b <= b - 1)
  OBVIOUS
<1>5. b # 0 => f[b - 1] \in Nat
  BY <1>2, <1>4
<1> QED
  BY <1>3, <1>5

LEMMA SizeType ==
  ASSUME NEW msgs \in Seq(Messages)
  PROVE  Size(msgs) \in Nat
<1>1. PICK n \in Nat : n = Len(msgs)
  OBVIOUS
<1>2. PICK w : w = [i \in 1 .. n |-> msgs[i].size]
  OBVIOUS
<1>3. w \in [1 .. n -> Nat]
  <2>1. \A i \in 1 .. n : msgs[i] \in Messages
    BY <1>1
  <2>2. \A i \in 1 .. n : msgs[i].size \in Nat
    BY <2>1 DEF Messages
  <2> QED
    BY <1>2, <2>2
<1> DEFINE sum == CHOOSE f : f = [i \in 0 .. Len(msgs) |->
                      IF i = 0 THEN 0 ELSE f[i - 1] + msgs[i].size]
<1>4. \A f : IsSum(f, n, w) <=>
        f = [i \in 0 .. Len(msgs) |-> IF i = 0 THEN 0 ELSE f[i - 1] + msgs[i].size]
  <2> TAKE f
  <2>1. \A i \in 0 .. n : i # 0 => w[i] = msgs[i].size
    BY <1>2
  <2>2. [i \in 0 .. n |-> IF i = 0 THEN 0 ELSE f[i - 1] + w[i]]
          = [i \in 0 .. n |-> IF i = 0 THEN 0 ELSE f[i - 1] + msgs[i].size]
    BY <2>1
  <2> QED
    BY <1>1, <2>2 DEF IsSum
<1>5. IsSum(sum, n, w)
  BY <1>3, <1>4, SumExists
<1>6. Size(msgs) = sum[n]
  BY <1>1 DEF Size
<1> QED
  BY <1>3, <1>5, <1>6, SumType

-----------------------------------------------------------------------------
(* Compression *)

LEMMA Joined ==
  ASSUME NEW S, NEW a \in Seq(S), NEW b \in Seq(S), NEW c, c = a \o b
  PROVE  /\ c \in Seq(S) /\ Len(c) = Len(a) + Len(b)
         /\ \A i \in 1 .. Len(a) : c[i] = a[i]
         /\ \A i \in 1 .. Len(b) : c[Len(a) + i] = b[i]
         /\ a # <<>> => c # <<>> /\ c[1] = a[1]
OBVIOUS

LEMMA Prefixed ==
  ASSUME NEW S, NEW b \in Seq(S), NEW x \in S, NEW a, a = <<x>> \o b
  PROVE  /\ a \in Seq(S) /\ Len(a) = Len(b) + 1 /\ a[1] = x /\ a # <<>>
         /\ \A i \in 1 .. Len(b) : a[i + 1] = b[i]
<1>1. PICK first \in Seq(S) : first = <<x>> /\ Len(first) = 1 /\ first[1] = x /\ first # <<>>
  <2>1. <<x>> \in Seq(S)
    OBVIOUS
  <2>2. Len(<<x>>) = 1 /\ <<x>>[1] = x /\ <<x>> # <<>>
    OBVIOUS
  <2> QED
    BY <2>1, <2>2
<1>2. /\ a \in Seq(S) /\ Len(a) = Len(first) + Len(b)
      /\ \A i \in 1 .. Len(b) : a[Len(first) + i] = b[i]
      /\ a # <<>> /\ a[1] = first[1]
  BY <1>1, Joined
<1>3. Len(b) \in Nat /\ \A i \in 1 .. Len(b) : 1 + i = i + 1
  OBVIOUS
<1>4. Len(a) = Len(b) + 1 /\ a[1] = x
  BY <1>1, <1>2, <1>3
<1> QED
  BY <1>1, <1>2, <1>3, <1>4

LEMMA Followed ==
  ASSUME NEW S, NEW a \in Seq(S), NEW x \in S, NEW c, c = a \o <<x>>
  PROVE  /\ c \in Seq(S) /\ Len(c) = Len(a) + 1 /\ c[Len(a) + 1] = x
         /\ \A i \in 1 .. Len(a) : c[i] = a[i]
<1>1. PICK last \in Seq(S) : last = <<x>> /\ Len(last) = 1 /\ last[1] = x
  <2>1. <<x>> \in Seq(S)
    OBVIOUS
  <2>2. Len(<<x>>) = 1 /\ <<x>>[1] = x
    OBVIOUS
  <2> QED
    BY <2>1, <2>2
<1>2. /\ c \in Seq(S) /\ Len(c) = Len(a) + Len(last)
      /\ \A i \in 1 .. Len(a) : c[i] = a[i]
      /\ \A i \in 1 .. Len(last) : c[Len(a) + i] = last[i]
  BY <1>1, Joined
<1>3. 1 \in 1 .. Len(last)
  BY <1>1
<1> QED
  BY <1>1, <1>2, <1>3

LEMMA FitResult ==
  ASSUME NEW msgs \in Seq(Messages), NEW head \in 1 .. 2, head <= Len(msgs)
  PROVE  /\ Fit(msgs, head) \in Seq(Messages) /\ Fits(Fit(msgs, head))
         /\ Fit(msgs, head) # <<>> /\ Fit(msgs, head)[1] = msgs[1]
<1> DEFINE Without(n) == SubSeq(msgs, 1, head) \o SubSeq(msgs, head + n + 1, Len(msgs))
           Enough(n)  == Size(Without(n)) <= Target \/ Len(msgs) - n <= 2 \/ Len(msgs) - n <= head
           enough     == {n \in 0 .. Len(msgs) : Enough(n)}
<1>1. Len(msgs) \in enough
  OBVIOUS
<1>2. enough \subseteq Nat /\ enough # {}
  BY <1>1
<1>3. PICK n : n = Min(enough)
  OBVIOUS
<1>4. n \in enough
  <2> HIDE DEF enough
  <2> QED
    BY <1>2, <1>3, MinIsLeast
<1>5. n \in 0 .. Len(msgs) /\ Enough(n)
  BY <1>4
<1>6. Fit(msgs, head) = Without(n)
  BY <1>3 DEF Fit
<1>7. PICK a \in Seq(Messages) : a = SubSeq(msgs, 1, head) /\ Len(a) = head /\ a[1] = msgs[1]
  <2>1. SubSeq(msgs, 1, head) \in Seq(Messages)
    OBVIOUS
  <2>2. Len(SubSeq(msgs, 1, head)) = head /\ SubSeq(msgs, 1, head)[1] = msgs[1]
    OBVIOUS
  <2> QED
    BY <2>1, <2>2
<1>8. PICK b \in Seq(Messages) :
        /\ b = SubSeq(msgs, head + n + 1, Len(msgs))
        /\ Len(b) = IF head + n + 1 <= Len(msgs) THEN Len(msgs) - (head + n) ELSE 0
  <2>1. PICK m \in Nat : m = head + n + 1 /\ m >= 1
    BY <1>5
  <2>2. SubSeq(msgs, m, Len(msgs)) \in Seq(Messages)
    BY <2>1
  <2>3. Len(SubSeq(msgs, m, Len(msgs))) = IF m <= Len(msgs) THEN Len(msgs) - m + 1 ELSE 0
    BY <2>1
  <2>4. head \in Nat /\ n \in Nat /\ Len(msgs) \in Nat
    BY <1>5
  <2>5. PICK b \in Seq(Messages) : b = SubSeq(msgs, m, Len(msgs))
    BY <2>2
  <2>6. Len(b) = IF head + n + 1 <= Len(msgs) THEN Len(msgs) - (head + n) ELSE 0
    BY <2>1, <2>3, <2>4, <2>5
  <2> QED
    BY <2>1, <2>5, <2>6
<1>9. PICK c : c = a \o b
  OBVIOUS
<1>10. c \in Seq(Messages) /\ Len(c) = Len(a) + Len(b) /\ c[1] = a[1] /\ c # <<>>
  <2>1. a # <<>> /\ Len(a) \in Nat /\ Len(b) \in Nat
    BY <1>7
  <2>2. /\ c \in Seq(Messages) /\ Len(c) = Len(a) + Len(b)
        /\ a # <<>> => c # <<>> /\ c[1] = a[1]
    BY <1>9, Joined
  <2> QED
    BY <2>1, <2>2
<1>11. Size(c) <= Target \/ Len(msgs) - n <= 2 \/ Len(msgs) - n <= head
  BY <1>5, <1>7, <1>8, <1>9
<1>12. Len(msgs) - n <= 2 \/ Len(msgs) - n <= head => Len(c) <= 2
  BY <1>5, <1>7, <1>8, <1>10
<1> QED
  BY <1>6, <1>7, <1>8, <1>9, <1>10, <1>11, <1>12 DEF Fits

LEMMA CompressResult ==
  ASSUME NEW msgs \in Seq(Messages), msgs # <<>>
  PROVE  /\ Compress(msgs) \in Seq(Messages) /\ Fits(Compress(msgs))
         /\ Compress(msgs) # <<>> /\ Compress(msgs)[1] = msgs[1]
<1>1. CASE Len(msgs) <= 2
  BY <1>1 DEF Compress, Fits
<1>2. CASE ~ (Len(msgs) <= 2)
  <2>1. PICK body : body = [i \in 1 .. Len(msgs) - 1 |-> Shortened(msgs[i + 1])]
    OBVIOUS
  <2>2. body \in Seq(Messages)
    <3>1. ASSUME NEW m \in Messages PROVE Shortened(m) \in Messages
      BY AgentAssumption DEF Shortened, Messages
    <3>2. PICK n \in Nat : n = Len(msgs) - 1
      BY <1>2
    <3>3. \A i \in 1 .. n : msgs[i + 1] \in Messages
      BY <3>2
    <3>4. body \in [1 .. n -> Messages]
      BY <2>1, <3>1, <3>2, <3>3
    <3> QED
      BY <3>4
  <2>3. PICK archived \in Seq(Messages) : archived = Select(body, DOMAIN body \ Kept(body))
    BY <2>2, SelectType
  <2>4. PICK recent \in Seq(Messages) : recent = Select(body, Kept(body))
    BY <2>2, SelectType
  <2>5. PICK summary : summary = IF archived = <<>> THEN <<>>
                                 ELSE <<Summary(Min({Size(archived), SummaryMax}))>>
    OBVIOUS
  <2>6. summary \in Seq(Messages) /\ Len(summary) \in 0 .. 1
    <3>1. Size(archived) \in Nat /\ SummaryMax \in Nat
      BY SizeType, AgentAssumption
    <3>2. PICK m \in Nat : m = Min({Size(archived), SummaryMax})
      BY <3>1, MinOfTwo
    <3>3. <<>> \in Seq(Nat \X Nat)
      OBVIOUS
    <3>4. Summary(m) \in Messages
      BY <3>3 DEF Summary, Msg, Messages, Roles
    <3> QED
      BY <2>5, <3>2, <3>4
  <2>7. PICK head : head = <<msgs[1]>> \o summary
    OBVIOUS
  <2>8. head \in Seq(Messages) /\ Len(head) \in 1 .. 2 /\ head[1] = msgs[1]
    <3>1. msgs[1] \in Messages
      BY <1>2
    <3>2. PICK first \in Seq(Messages) : /\ first = <<msgs[1]>> /\ Len(first) = 1
                                         /\ first[1] = msgs[1] /\ first # <<>>
      <4>1. PICK m \in Messages : m = msgs[1]
        BY <3>1
      <4>2. <<m>> \in Seq(Messages)
        OBVIOUS
      <4>3. Len(<<m>>) = 1 /\ <<m>>[1] = m /\ <<m>> # <<>>
        OBVIOUS
      <4> QED
        BY <4>1, <4>2, <4>3
    <3>3. /\ head \in Seq(Messages) /\ Len(head) = Len(first) + Len(summary)
          /\ first # <<>> => head[1] = first[1]
      BY <2>6, <2>7, <3>2, Joined
    <3>4. head[1] = msgs[1]
      BY <3>2, <3>3
    <3>5. Len(head) \in 1 .. 2
      <4>1. PICK l \in 0 .. 1 : l = Len(summary)
        BY <2>6
      <4>2. Len(head) = 1 + l
        BY <3>2, <3>3, <4>1
      <4> QED
        BY <4>2
    <3> QED
      BY <3>3, <3>4, <3>5
  <2>9. PICK all : all = head \o recent
    OBVIOUS
  <2>10. all \in Seq(Messages) /\ all[1] = msgs[1] /\ Len(head) <= Len(all)
    BY <2>4, <2>8, <2>9, Joined
  <2>11. Compress(msgs) = Fit(all, Len(head))
    BY <1>2, <2>1, <2>3, <2>4, <2>5, <2>7, <2>9 DEF Compress
  <2>12. PICK h \in 1 .. 2 : h = Len(head) /\ h <= Len(all)
    BY <2>8, <2>10
  <2>13. /\ Fit(all, h) \in Seq(Messages) /\ Fits(Fit(all, h))
         /\ Fit(all, h) # <<>> /\ Fit(all, h)[1] = all[1]
    BY <2>10, <2>12, FitResult
  <2> QED
    BY <2>10, <2>11, <2>12, <2>13
<1> QED
  BY <1>1, <1>2

-----------------------------------------------------------------------------
(* One request *)

LEMMA FreeGood == Free \in Requests /\ Good(Free)
<1>1. <<>> \in Seq(Messages) /\ <<>> \in Seq(Calls)
  OBVIOUS
<1>2. Free \in Requests
  BY <1>1 DEF Free, Requests
<1>3. Headed(Free) /\ Paired(Free)
  BY DEF Free, Headed, Paired
<1>4. Bounded(Free)
  BY AgentAssumption DEF Free, Bounded
<1> QED
  BY <1>2, <1>3, <1>4 DEF Good

LEMMA Products ==
  ASSUME NEW a \in Nat, NEW b \in Nat, NEW w \in Nat
  PROVE  /\ a * w \in Nat /\ (a + 1) * w = a * w + w
         /\ a <= b => a * w <= b * w
<1>1. a * w \in Nat /\ (a + 1) * w = a * w + w
  OBVIOUS
<1>2. ASSUME a <= b PROVE a * w <= b * w
  <2>1. PICK c \in Nat : b = a + c
    <3>1. b - a \in Nat /\ b = a + (b - a)
      BY <1>2
    <3> QED
      BY <3>1
  <2>2. b * w = a * w + c * w /\ c * w \in Nat
    BY <2>1
  <2> QED
    BY <1>1, <2>2
<1> QED
  BY <1>1, <1>2

LEMMA AskedType ==
  ASSUME NEW r \in Requests, NEW n \in Nat, NEW k \in Nat
  PROVE  [r EXCEPT !.at = "asking", !.attempt = k, !.asked = n] \in Requests
<1>1. PICK q : q = [r EXCEPT !.at = "asking", !.attempt = k, !.asked = n]
  OBVIOUS
<1>2. q.at = "asking" /\ q.attempt = k /\ q.asked = n
  BY <1>1 DEF Requests
<1>3. q = [at |-> "asking", msgs |-> r.msgs, turn |-> r.turn, size |-> r.size, round |-> r.round,
           attempt |-> k, compressions |-> r.compressions, todo |-> r.todo, done |-> r.done,
           local |-> r.local, remote |-> r.remote, late |-> r.late, asked |-> n]
  BY <1>1 DEF Requests
<1> QED
  BY <1>1, <1>3 DEF Requests

LEMMA SqueezedResult ==
  ASSUME NEW r \in Requests, r.msgs # <<>>, r.msgs[1] = SystemPrompt,
         NEW q, q = Squeezed(r)
  PROVE  /\ q \in Requests /\ q.msgs # <<>> /\ q.msgs[1] = SystemPrompt
         /\ Size(q.msgs) < Trigger \/ Fits(q.msgs)
         /\ q.round = r.round /\ q.local = r.local /\ q.remote = r.remote
         /\ q.turn = r.turn /\ q.asked = r.asked
         /\ q = r \/ q.compressions = r.compressions + 1
<1>1. CASE Size(r.msgs) < Trigger
  BY <1>1 DEF Squeezed
<1>2. CASE ~ (Size(r.msgs) < Trigger)
  <2>1. PICK m \in Seq(Messages) : m = Compress(r.msgs) /\ Fits(m) /\ m # <<>> /\ m[1] = SystemPrompt
    BY CompressResult DEF Requests
  <2>2. q = [r EXCEPT !.msgs = m, !.compressions = @ + 1]
    BY <1>2, <2>1 DEF Squeezed
  <2>3. r.compressions + 1 \in Nat
    BY DEF Requests
  <2>4. q \in Requests
    BY <2>1, <2>2, <2>3 DEF Requests
  <2>5. /\ q.msgs = m /\ q.compressions = r.compressions + 1
        /\ q.round = r.round /\ q.local = r.local /\ q.remote = r.remote
        /\ q.turn = r.turn /\ q.asked = r.asked
    BY <2>2 DEF Requests
  <2> QED
    BY <2>1, <2>4, <2>5
<1> QED
  BY <1>1, <1>2

\* The head of the loop, from a request whose questions are paid for and whose
\* messages are complete.
LEMMA AskingGood ==
  ASSUME NEW r \in Requests, r.msgs # <<>>, r.msgs[1] = SystemPrompt,
         r.local <= CallLimit, r.remote <= CallLimit,
         r.asked <= (r.round + Paid(r)) * (MaxRetries + 1),
         r.compressions = 0 =>
           Question(r.msgs, r.turn) /\ Answering(r.msgs) /\ Complete(r.msgs, {}),
         NEW q, q = Asking(r)
  PROVE  q \in Requests /\ Good(q) /\ q.at # "runtime"
<1>1. CASE r.round > MaxRounds
  BY <1>1, FreeGood DEF Asking, Free
<1>2. CASE ~ (r.round > MaxRounds)
  <2>1. PICK p : p = Squeezed(r)
    OBVIOUS
  <2>2. /\ p \in Requests /\ p.msgs # <<>> /\ p.msgs[1] = SystemPrompt
        /\ Size(p.msgs) < Trigger \/ Fits(p.msgs)
        /\ p.round = r.round /\ p.local = r.local /\ p.remote = r.remote
        /\ p.turn = r.turn /\ p.asked = r.asked
        /\ p = r \/ p.compressions = r.compressions + 1
    BY <2>1, SqueezedResult
  <2>3. q = [p EXCEPT !.at = "asking", !.attempt = 0, !.asked = @ + 1]
    BY <1>2, <2>1 DEF Asking
  <2>4. /\ q \in Requests /\ q.at = "asking" /\ q.attempt = 0 /\ q.asked = r.asked + 1
        /\ q.msgs = p.msgs /\ q.round = r.round /\ q.local = r.local /\ q.remote = r.remote
        /\ q.turn = r.turn /\ q.compressions = p.compressions
    <3>1. p.asked + 1 \in Nat
      BY <2>2, SMTT(30) DEF Requests
    <3>2. q \in Requests
      <4>1. PICK n \in Nat : n = p.asked + 1
        BY <3>1
      <4>2. q = [p EXCEPT !.at = "asking", !.attempt = 0, !.asked = n]
        BY <2>2, <2>3, <4>1 DEF Requests
      <4>3. p \in Requests /\ 0 \in Nat
        BY <2>2
      <4>4. [p EXCEPT !.at = "asking", !.attempt = 0, !.asked = n] \in Requests
        BY <4>3, AskedType
      <4> QED
        BY <4>2, <4>4
    <3>3. /\ q.at = "asking" /\ q.attempt = 0 /\ q.asked = p.asked + 1
          /\ q.msgs = p.msgs /\ q.round = p.round /\ q.local = p.local /\ q.remote = p.remote
          /\ q.turn = p.turn /\ q.compressions = p.compressions
      BY <2>2, <2>3 DEF Requests
    <3> QED
      BY <2>2, <3>2, <3>3
  <2>5. Headed(q)
    BY <2>2, <2>4 DEF Headed
  <2>6. Paired(q)
    <3>1. r.compressions \in Nat
      BY DEF Requests
    <3>2. q.compressions = 0 => p = r
      BY <2>2, <2>4, <3>1
    <3>3. CASE q.compressions = 0
      <4>1. q.msgs = r.msgs /\ q.turn = r.turn /\ q.at = "asking" /\ r.compressions = 0
        BY <2>4, <3>2, <3>3
      <4> QED
        BY <4>1 DEF Paired
    <3>4. CASE q.compressions # 0
      BY <3>4 DEF Paired
    <3> QED
      BY <3>3, <3>4
  <2>7. Bounded(q)
    <3>1. /\ r.compressions \in Nat /\ r.round \in Nat /\ r.asked \in Nat
          /\ p.compressions \in Nat /\ r.compressions <= p.compressions
      BY <2>2, SMTT(30) DEF Requests
    <3>2. MaxCompressions \in Nat /\ MaxRetries \in Nat /\ MaxRounds \in Nat
      BY AgentAssumption
    <3>3. PICK a \in Nat, b \in Nat, w \in Nat :
            /\ a = r.round + Paid(r) /\ b = r.round + Paid(q) /\ w = MaxRetries + 1 /\ a <= b
      BY <2>4, <3>1, <3>2 DEF Paid
    <3>4. a * w <= b * w /\ a * w \in Nat /\ b * w \in Nat
      BY <3>3, Products
    <3>5. q.asked <= b * w + q.attempt + 1
      <4>1. r.asked <= a * w
        BY <3>3
      <4>2. PICK x \in Nat, y \in Nat : x = a * w /\ y = b * w /\ x <= y
        BY <3>4
      <4> QED
        BY <2>4, <3>1, <4>1, <4>2
    <3>6. q.round <= MaxRounds
      BY <1>2, <2>4, <3>1, <3>2
    <3> QED
      BY <2>4, <3>2, <3>3, <3>5, <3>6 DEF Bounded
  <2> QED
    BY <2>4, <2>5, <2>6, <2>7 DEF Good
<1> QED
  BY <1>1, <1>2

\* The operations on a request.
LEMMA RespondGood ==
  ASSUME NEW turn \in Nat, NEW size \in Nat,
         NEW q, q = [Free EXCEPT !.at = "runtime", !.turn = turn, !.size = size]
  PROVE  q \in Requests /\ Good(q) /\ q.at = "runtime"
<1>1. Free \in Requests
  BY FreeGood
<1>2. q \in Requests
  BY <1>1 DEF Requests
<1>3. /\ q.at = "runtime" /\ q.local = 0 /\ q.remote = 0 /\ q.asked = 0 /\ q.round = 0
  BY DEF Free
<1>4. Headed(q) /\ Paired(q)
  BY <1>3 DEF Headed, Paired
<1>5. Bounded(q)
  <2>1. 0 <= CallLimit
    BY AgentAssumption
  <2> QED
    BY <1>3, <2>1 DEF Bounded
<1> QED
  BY <1>2, <1>3, <1>4, <1>5 DEF Good

LEMMA UserMessage ==
  ASSUME NEW size \in Nat, NEW turn \in Nat, NEW role \in Roles
  PROVE  Msg(role, size, turn, <<>>) \in Messages
<1>1. <<>> \in Seq(Nat \X Nat)
  OBVIOUS
<1> QED
  BY <1>1 DEF Msg, Messages

LEMMA BeginGood ==
  ASSUME NEW r \in Requests, Good(r), r.at = "runtime",
         NEW h \in Seq(Messages), Plain(h),
         NEW q, q = Asking([r EXCEPT !.msgs =
                      <<SystemPrompt>> \o h \o <<Msg("user", r.size, r.turn, <<>>)>>])
  PROVE  q \in Requests /\ Good(q) /\ q.at # "runtime"
<1>1. PICK u \in Messages : u = Msg("user", r.size, r.turn, <<>>)
  <2>1. r.size \in Nat /\ r.turn \in Nat /\ "user" \in Roles
    BY DEF Requests, Roles
  <2> QED
    BY <2>1, UserMessage
<1>2. PICK p \in Messages : p = SystemPrompt /\ p.role = "system"
  <2>1. "system" \in Roles /\ 0 \in Nat /\ 1 \in Nat
    BY DEF Roles
  <2>2. Msg("system", 1, 0, <<>>) \in Messages
    BY <2>1, UserMessage
  <2>3. Msg("system", 1, 0, <<>>).role = "system"
    BY DEF Msg
  <2> QED
    BY <2>2, <2>3 DEF SystemPrompt
<1>3. PICK a \in Seq(Messages) : a = <<p>> \o h /\ Len(a) = Len(h) + 1 /\ a[1] = p
                                 /\ \A i \in 1 .. Len(h) : a[i + 1] = h[i]
  <2>1. PICK a : a = <<p>> \o h
    OBVIOUS
  <2>2. /\ a \in Seq(Messages) /\ Len(a) = Len(h) + 1 /\ a[1] = p
        /\ \A i \in 1 .. Len(h) : a[i + 1] = h[i]
    BY <2>1, Prefixed
  <2> QED
    BY <2>1, <2>2
<1>4. PICK m \in Seq(Messages) : m = a \o <<u>> /\ Len(m) = Len(h) + 2 /\ m[1] = p
                                 /\ m[Len(h) + 2] = u
                                 /\ \A i \in 1 .. Len(h) : m[i + 1] = h[i]
  <2>1. PICK m : m = a \o <<u>>
    OBVIOUS
  <2>2. /\ m \in Seq(Messages) /\ Len(m) = Len(a) + 1 /\ m[Len(a) + 1] = u
        /\ \A i \in 1 .. Len(a) : m[i] = a[i]
    BY <1>1, <2>1, Followed
  <2>3. Len(h) \in Nat /\ Len(a) = Len(h) + 1
    BY <1>3
  <2>4. 1 \in 1 .. Len(a) /\ \A i \in 1 .. Len(h) : i + 1 \in 1 .. Len(a)
    BY <2>3
  <2>5. Len(m) = Len(h) + 2 /\ m[Len(h) + 2] = u
    BY <2>2, <2>3
  <2> QED
    BY <1>3, <2>1, <2>2, <2>4, <2>5, ZenonT(60)
<1>5. PICK r2 : r2 = [r EXCEPT !.msgs = m]
  OBVIOUS
<1>6. q = Asking(r2)
  BY <1>1, <1>2, <1>3, <1>4, <1>5
<1>7. /\ r2 \in Requests /\ r2.msgs = m /\ r2.local = r.local /\ r2.remote = r.remote
      /\ r2.asked = r.asked /\ r2.round = r.round /\ r2.compressions = r.compressions
      /\ r2.turn = r.turn
  BY <1>4, <1>5 DEF Requests
<1>8. \A i \in DOMAIN m : i = 1 \/ i = Len(h) + 2 \/ \E j \in DOMAIN h : m[i] = h[j]
  <2> SUFFICES ASSUME NEW i \in DOMAIN m, i # 1, i # Len(h) + 2
               PROVE  \E j \in DOMAIN h : m[i] = h[j]
    OBVIOUS
  <2>1. PICK n \in Nat : n = Len(h) /\ DOMAIN h = 1 .. n /\ i \in 1 .. n + 2
    <3>1. Len(h) \in Nat /\ DOMAIN h = 1 .. Len(h) /\ DOMAIN m = 1 .. Len(m)
      OBVIOUS
    <3>2. i \in 1 .. Len(h) + 2
      BY <1>4, <3>1
    <3> QED
      BY <3>1, <3>2
  <2>2. PICK j \in 1 .. n : i = j + 1
    <3>1. i - 1 \in 1 .. n /\ i = (i - 1) + 1
      BY <2>1
    <3> QED
      BY <3>1
  <2> QED
    BY <1>4, <2>1, <2>2
<1>9. \A i \in DOMAIN m : m[i].role # "tool" /\ (m[i].role = "assistant" => m[i].calls = <<>>)
  <2>1. u.role = "user" /\ p.role = "system" /\ m[1] = p /\ m[Len(h) + 2] = u
    BY <1>1, <1>2, <1>4 DEF Msg
  <2>2. \A j \in DOMAIN h : h[j].role \in {"user", "assistant"} /\ h[j].calls = <<>>
    BY DEF Plain
  <2> QED
    BY <1>8, <2>1, <2>2
<1>10. Question(m, r.turn)
  <2>1. Len(h) + 2 \in DOMAIN m /\ u.role = "user" /\ u.turn = r.turn
    BY <1>1, <1>4 DEF Msg
  <2> QED
    BY <1>4, <2>1 DEF Question
<1>11. Answering(m) /\ Complete(m, {})
  <2>1. Len(<<>>) = 0
    OBVIOUS
  <2> QED
    BY <1>9, <2>1 DEF Answering, Complete
<1>12. r.asked <= (r2.round + Paid(r2)) * (MaxRetries + 1)
  <2>1. r.asked = 0 /\ r2.round \in Nat /\ r2.compressions \in Nat
    BY <1>7 DEF Good, Bounded, Requests
  <2>2. Paid(r2) \in Nat /\ MaxRetries \in Nat
    BY <2>1, AgentAssumption DEF Paid
  <2>3. PICK c \in Nat, w \in Nat : c = r2.round + Paid(r2) /\ w = MaxRetries + 1
    BY <2>1, <2>2
  <2>4. PICK x \in Nat : x = c * w
    BY <2>3, Products
  <2>5. r.asked <= x
    BY <2>1, <2>4
  <2> QED
    BY <2>3, <2>4, <2>5
<1>13. r2.msgs # <<>> /\ r2.msgs[1] = SystemPrompt
  BY <1>2, <1>4, <1>7
<1>14. r2.local <= CallLimit /\ r2.remote <= CallLimit
  BY <1>7 DEF Good, Bounded
<1> QED
  BY <1>6, <1>7, <1>10, <1>11, <1>12, <1>13, <1>14, AskingGood

LEMMA RetryGood ==
  ASSUME NEW r \in Requests, Good(r), r.at = "asking", r.attempt < MaxRetries,
         NEW q, q = [r EXCEPT !.attempt = @ + 1, !.asked = @ + 1]
  PROVE  q \in Requests /\ Good(q) /\ q.at = "asking"
<1>1. PICK k \in Nat, n \in Nat : k = r.attempt + 1 /\ n = r.asked + 1
  BY DEF Requests
<1>2. q = [r EXCEPT !.at = "asking", !.attempt = k, !.asked = n]
  BY <1>1 DEF Requests
<1>3. q \in Requests
  <2>1. [r EXCEPT !.at = "asking", !.attempt = k, !.asked = n] \in Requests
    BY AskedType
  <2> QED
    BY <1>2, <2>1
<1>4. /\ q.at = "asking" /\ q.attempt = r.attempt + 1 /\ q.asked = r.asked + 1
      /\ q.msgs = r.msgs /\ q.round = r.round /\ q.local = r.local /\ q.remote = r.remote
      /\ q.turn = r.turn /\ q.compressions = r.compressions
  BY <1>1, <1>2 DEF Requests
<1>5. Headed(q) /\ Paired(q)
  BY <1>4 DEF Good, Headed, Paired
<1>6. Bounded(q)
  <2>1. /\ r.asked \in Nat /\ r.attempt \in Nat /\ r.round \in Nat /\ Paid(q) = Paid(r)
        /\ r.compressions \in Nat /\ MaxRetries \in Nat /\ MaxCompressions \in Nat
    BY <1>4, AgentAssumption DEF Requests, Paid
  <2>2. PICK c \in Nat, w \in Nat : c = r.round + Paid(r) /\ w = MaxRetries + 1
    BY <2>1 DEF Paid
  <2>3. PICK x \in Nat : x = c * w
    BY Products
  <2>4. r.asked <= x + r.attempt + 1
    BY <2>2, <2>3 DEF Good, Bounded
  <2>5. q.asked <= x + q.attempt + 1 /\ q.attempt <= MaxRetries
    BY <1>4, <2>1, <2>4
  <2> QED
    BY <1>4, <2>1, <2>2, <2>3, <2>5 DEF Good, Bounded
<1> QED
  BY <1>3, <1>4, <1>5, <1>6 DEF Good

\* The retries of a question fit into what its round pays for.
LEMMA AskedEnough ==
  ASSUME NEW r \in Requests, Good(r), r.at = "asking"
  PROVE  r.asked <= (r.round + Paid(r) + 1) * (MaxRetries + 1)
<1>1. /\ r.asked \in Nat /\ r.attempt \in Nat /\ r.round \in Nat
      /\ r.compressions \in Nat /\ MaxRetries \in Nat /\ MaxCompressions \in Nat
  BY AgentAssumption DEF Requests
<1>2. Paid(r) \in Nat
  BY <1>1 DEF Paid
<1>3. PICK a \in Nat, w \in Nat : a = r.round + Paid(r) /\ w = MaxRetries + 1
  BY <1>1, <1>2
<1>4. PICK x \in Nat, y \in Nat : x = a * w /\ y = (a + 1) * w /\ y = x + w
  BY Products
<1>5. r.asked <= x + r.attempt + 1 /\ r.attempt <= MaxRetries
  BY <1>3, <1>4 DEF Good, Bounded
<1>6. r.asked <= y
  <2>1. PICK k \in Nat, n \in Nat : k = r.attempt /\ n = r.asked
    BY <1>1
  <2>2. n <= x + k + 1 /\ k + 1 <= w
    BY <1>1, <1>3, <1>5, <2>1
  <2> QED
    BY <1>4, <2>1, <2>2
<1> QED
  BY <1>3, <1>4, <1>6

LEMMA OverflowGood ==
  ASSUME NEW r \in Requests, Good(r), r.at = "asking", r.compressions < MaxCompressions,
         NEW q, q = Asking([r EXCEPT !.msgs = Compress(@), !.compressions = @ + 1])
  PROVE  q \in Requests /\ Good(q) /\ q.at # "runtime"
<1>1. r.msgs \in Seq(Messages) /\ r.msgs # <<>> /\ r.msgs[1] = SystemPrompt
  BY DEF Good, Headed, Requests
<1>2. PICK m \in Seq(Messages) : m = Compress(r.msgs) /\ m # <<>> /\ m[1] = SystemPrompt
  BY <1>1, CompressResult
<1>3. PICK c \in Nat : c = r.compressions + 1 /\ c # 0
  BY DEF Requests
<1>4. PICK r2 : r2 = [r EXCEPT !.msgs = m, !.compressions = c]
  OBVIOUS
<1>5. q = Asking(r2)
  BY <1>2, <1>3, <1>4
<1>6. /\ r2 \in Requests /\ r2.msgs = m /\ r2.compressions = c /\ r2.at = r.at
      /\ r2.round = r.round /\ r2.local = r.local /\ r2.remote = r.remote
      /\ r2.turn = r.turn /\ r2.asked = r.asked
  <2>1. r2 \in Requests
    BY <1>4 DEF Requests
  <2>2. /\ r2.msgs = m /\ r2.compressions = c /\ r2.at = r.at
        /\ r2.round = r.round /\ r2.local = r.local /\ r2.remote = r.remote
        /\ r2.turn = r.turn /\ r2.asked = r.asked
    BY <1>4 DEF Requests
  <2> QED
    BY <2>1, <2>2
<1>7. r2.asked <= (r2.round + Paid(r2)) * (MaxRetries + 1)
  <2>1. r.asked <= (r.round + Paid(r) + 1) * (MaxRetries + 1)
    BY AskedEnough
  <2>2. r.round \in Nat /\ r.compressions \in Nat /\ MaxCompressions \in Nat
    BY AgentAssumption DEF Requests
  <2>3. Paid(r) \in Nat /\ Paid(r2) = Paid(r) + 1
    BY <1>3, <1>6, <2>2 DEF Paid
  <2>4. r2.round + Paid(r2) = r.round + Paid(r) + 1
    BY <1>6, <2>2, <2>3
  <2> QED
    BY <1>6, <2>1, <2>4
<1>8. r2.local <= CallLimit /\ r2.remote <= CallLimit
  BY <1>6 DEF Good, Bounded
<1>9. r2.msgs # <<>> /\ r2.msgs[1] = SystemPrompt /\ r2.compressions # 0
  BY <1>2, <1>3, <1>6
<1> QED
  BY <1>5, <1>6, <1>7, <1>8, <1>9, AskingGood

\* One message more.
LEMMA Extended ==
  ASSUME NEW msgs \in Seq(Messages), NEW x \in Messages, NEW c, c = msgs \o <<x>>
  PROVE  /\ \A turn : Question(msgs, turn) => Question(c, turn)
         /\ \A but : Complete(msgs, but) => Complete(c, but \cup {Len(msgs) + 1})
         /\ \A but : Complete(msgs, but) /\ x.role # "assistant" => Complete(c, but)
<1>1. /\ c \in Seq(Messages) /\ Len(c) = Len(msgs) + 1 /\ c[Len(msgs) + 1] = x
      /\ \A i \in 1 .. Len(msgs) : c[i] = msgs[i]
  BY Followed
<1>2. PICK n \in Nat : n = Len(msgs) /\ DOMAIN msgs = 1 .. n
  OBVIOUS
<1>3. /\ DOMAIN c = 1 .. n + 1 /\ Len(c) = n + 1 /\ c[n + 1] = x
      /\ \A i \in 1 .. n : c[i] = msgs[i]
  BY <1>1, <1>2
<1>4. ASSUME NEW turn, Question(msgs, turn) PROVE Question(c, turn)
  <2>1. PICK i \in 1 .. n : msgs[i].role = "user" /\ msgs[i].turn = turn
    BY <1>2, <1>4 DEF Question
  <2>2. i \in DOMAIN c /\ c[i] = msgs[i]
    BY <1>3
  <2> QED
    BY <2>1, <2>2 DEF Question
<1>5. ASSUME NEW but, NEW less, Complete(msgs, but),
             NEW j \in 1 .. n + 1, j \notin less, c[j].role = "assistant",
             j # n + 1 => j \notin but, j # n + 1
      PROVE  j + Len(c[j].calls) <= n + 1
  <2>1. j \in DOMAIN msgs \ but /\ c[j] = msgs[j]
    BY <1>2, <1>3, <1>5
  <2>2. j + Len(msgs[j].calls) <= n
    BY <1>2, <1>5, <2>1 DEF Complete
  <2>3. Len(msgs[j].calls) \in Nat
    <3>1. msgs[j] \in Messages
      BY <2>1
    <3>2. msgs[j].calls \in Seq(Nat \X Nat)
      BY <3>1 DEF Messages
    <3> QED
      BY <3>2
  <2> QED
    BY <2>1, <2>2, <2>3
<1>6. ASSUME NEW but, Complete(msgs, but) PROVE Complete(c, but \cup {n + 1})
  BY <1>3, <1>5, <1>6 DEF Complete
<1>7. ASSUME NEW but, Complete(msgs, but), x.role # "assistant" PROVE Complete(c, but)
  BY <1>3, <1>5, <1>7 DEF Complete
<1> QED
  BY <1>2, <1>4, <1>6, <1>7

LEMMA AnswerJoins ==
  ASSUME NEW msgs \in Seq(Messages), NEW x \in Messages, NEW c, c = msgs \o <<x>>,
         Answering(msgs),
         x.role = "tool" => \E j \in 1 .. Len(msgs) : \E k \in DOMAIN msgs[j].calls :
           j + k = Len(msgs) + 1 /\ msgs[j].role = "assistant" /\ msgs[j].calls[k] = x.calls[1]
  PROVE  Answering(c)
<1>1. /\ c \in Seq(Messages) /\ Len(c) = Len(msgs) + 1 /\ c[Len(msgs) + 1] = x
      /\ \A i \in 1 .. Len(msgs) : c[i] = msgs[i]
  BY Followed
<1>2. PICK n \in Nat : n = Len(msgs) /\ DOMAIN msgs = 1 .. n
  OBVIOUS
<1>3. /\ DOMAIN c = 1 .. n + 1 /\ c[n + 1] = x
      /\ \A i \in 1 .. n : c[i] = msgs[i]
  BY <1>1, <1>2
<1> SUFFICES ASSUME NEW i \in 1 .. n + 1, c[i].role = "tool"
             PROVE  \E j \in 1 .. i - 1 : \E k \in DOMAIN c[j].calls :
                      j + k = i /\ c[j].role = "assistant" /\ c[j].calls[k] = c[i].calls[1]
  BY <1>3 DEF Answering
<1>4. CASE i = n + 1
  <2>1. c[i] = x /\ i - 1 = n
    BY <1>3, <1>4
  <2>2. PICK j \in 1 .. n : \E k \in DOMAIN msgs[j].calls :
          j + k = n + 1 /\ msgs[j].role = "assistant" /\ msgs[j].calls[k] = x.calls[1]
    BY <1>2, <2>1
  <2>3. c[j] = msgs[j] /\ j \in 1 .. i - 1
    BY <1>3, <2>1
  <2> QED
    BY <1>4, <2>1, <2>2, <2>3
<1>5. CASE i # n + 1
  <2>1. i \in 1 .. n
    BY <1>5
  <2>2. c[i] = msgs[i] /\ i \in DOMAIN msgs
    BY <1>2, <1>3, <2>1
  <2>3. PICK j \in 1 .. i - 1 : \E k \in DOMAIN msgs[j].calls :
          j + k = i /\ msgs[j].role = "assistant" /\ msgs[j].calls[k] = msgs[i].calls[1]
    BY <2>2 DEF Answering
  <2>4. j \in 1 .. n
    BY <2>1
  <2>5. c[j] = msgs[j]
    BY <1>3, <2>4
  <2> QED
    BY <2>2, <2>3, <2>5
<1> QED
  BY <1>4, <1>5

LEMMA CallsType ==
  ASSUME NEW r \in Requests, NEW todo \in Seq(Calls), NEW msgs \in Seq(Messages)
  PROVE  [r EXCEPT !.at = "tools", !.todo = todo, !.done = 0, !.msgs = msgs] \in Requests
BY DEF Requests

LEMMA CallsGood ==
  ASSUME NEW r \in Requests, Good(r), r.at = "asking", NEW plan \in Plans,
         NEW q, q = [r EXCEPT !.at = "tools", !.todo = plan, !.done = 0,
                              !.msgs = Append(@, Msg("assistant", 1, r.turn,
                                              [i \in 1 .. Len(plan) |-> CallId(r, i)]))]
  PROVE  q \in Requests /\ Good(q) /\ q.at = "tools"
<1>1. /\ r.msgs \in Seq(Messages) /\ r.msgs # <<>> /\ r.msgs[1] = SystemPrompt
      /\ plan \in Seq(Calls) /\ plan # <<>>
  <2>1. plan \in Seq(Calls) /\ plan # <<>>
    BY AgentAssumption
  <2>2. r.msgs \in Seq(Messages) /\ r.msgs # <<>> /\ r.msgs[1] = SystemPrompt
    BY DEF Good, Headed, Requests
  <2> QED
    BY <2>1, <2>2
<1>2. PICK n \in Nat : n = Len(plan)
  BY <1>1
<1>3. PICK ids : ids = [i \in 1 .. n |-> CallId(r, i)]
  OBVIOUS
<1>4. ids \in Seq(Nat \X Nat)
  <2>1. \A i \in 1 .. n : CallId(r, i) \in Nat \X Nat
    <3>1. r.round \in Nat
      BY DEF Requests
    <3> QED
      BY <3>1 DEF CallId
  <2>2. ids \in [1 .. n -> Nat \X Nat]
    BY <1>3, <2>1
  <2> QED
    BY <2>2
<1>5. PICK x \in Messages : /\ x = Msg("assistant", 1, r.turn, ids)
                            /\ x.role = "assistant" /\ x.calls = ids
  <2>1. r.turn \in Nat
    BY DEF Requests
  <2>2. Msg("assistant", 1, r.turn, ids) \in Messages
    BY <1>4, <2>1 DEF Msg, Messages, Roles
  <2>3. /\ Msg("assistant", 1, r.turn, ids).role = "assistant"
        /\ Msg("assistant", 1, r.turn, ids).calls = ids
    BY DEF Msg
  <2> QED
    BY <2>2, <2>3
<1>6. PICK c : c = r.msgs \o <<x>>
  OBVIOUS
<1>7. /\ c \in Seq(Messages) /\ Len(c) = Len(r.msgs) + 1 /\ c[Len(r.msgs) + 1] = x
      /\ \A i \in 1 .. Len(r.msgs) : c[i] = r.msgs[i]
      /\ \A turn : Question(r.msgs, turn) => Question(c, turn)
      /\ Answering(r.msgs) /\ x.role # "tool" => Answering(c)
      /\ \A but : Complete(r.msgs, but) => Complete(c, but \cup {Len(r.msgs) + 1})
  <2>1. /\ c \in Seq(Messages) /\ Len(c) = Len(r.msgs) + 1 /\ c[Len(r.msgs) + 1] = x
        /\ \A i \in 1 .. Len(r.msgs) : c[i] = r.msgs[i]
    BY <1>1, <1>6, Extended
  <2>2. /\ \A turn : Question(r.msgs, turn) => Question(c, turn)
        /\ Answering(r.msgs) => Answering(c) \/ x.role = "tool"
        /\ \A but : Complete(r.msgs, but) => Complete(c, but \cup {Len(r.msgs) + 1})
    <3>1. PICK m \in Seq(Messages) : m = r.msgs
      BY <1>1
    <3>2. c = m \o <<x>>
      BY <1>6, <3>1
    <3>3. \A turn : Question(m, turn) => Question(c, turn)
      BY <3>2, Extended
    <3>4. Answering(m) => Answering(c) \/ x.role = "tool"
      BY <3>2, AnswerJoins
    <3>5. \A but : Complete(m, but) => Complete(c, but \cup {Len(m) + 1})
      BY <3>2, Extended
    <3> QED
      BY <3>1, <3>3, <3>4, <3>5
  <2> QED
    BY <2>1, <2>2
<1>8. q = [r EXCEPT !.at = "tools", !.todo = plan, !.done = 0, !.msgs = c]
  <2>1. Append(r.msgs, x) = c
    BY <1>1, <1>6
  <2> QED
    BY <1>2, <1>3, <1>5, <2>1
<1>9. q \in Requests
  <2>1. [r EXCEPT !.at = "tools", !.todo = plan, !.done = 0, !.msgs = c] \in Requests
    BY <1>1, <1>7, CallsType
  <2> QED
    BY <1>8, <2>1
<1>10. /\ q.at = "tools" /\ q.todo = plan /\ q.done = 0 /\ q.msgs = c
       /\ q.round = r.round /\ q.local = r.local /\ q.remote = r.remote
       /\ q.turn = r.turn /\ q.asked = r.asked /\ q.compressions = r.compressions
  BY <1>8 DEF Requests
<1>11. PICK l \in Nat : l = Len(r.msgs) /\ 1 \in 1 .. l
  BY <1>1
<1>12. Headed(q)
  <2>1. q.msgs # <<>> /\ q.msgs[1] = SystemPrompt
    BY <1>1, <1>7, <1>10, <1>11
  <2> QED
    BY <1>1, <1>10, <2>1 DEF Headed
<1>13. Bounded(q)
  <2>1. r.asked <= (r.round + Paid(r) + 1) * (MaxRetries + 1)
    BY AskedEnough
  <2>2. Paid(q) = Paid(r)
    BY <1>10 DEF Paid
  <2>3. q.asked <= (q.round + Paid(q) + 1) * (MaxRetries + 1)
    BY <1>10, <2>1, <2>2
  <2>4. q.local <= CallLimit /\ q.remote <= CallLimit /\ q.round <= MaxRounds
    BY <1>10 DEF Good, Bounded
  <2> QED
    BY <1>10, <2>3, <2>4 DEF Bounded
<1>14. Paired(q)
  <2> SUFFICES ASSUME q.compressions = 0
               PROVE  /\ Question(c, q.turn) /\ Answering(c)
                      /\ Asker(q) \in DOMAIN c /\ c[Asker(q)].role = "assistant"
                      /\ c[Asker(q)].calls = [i \in 1 .. q.done + Len(q.todo) |-> CallId(q, i)]
                      /\ Complete(c, {Asker(q)})
    BY <1>10 DEF Paired
  <2>1. Question(r.msgs, r.turn) /\ Answering(r.msgs) /\ Complete(r.msgs, {})
    BY <1>10 DEF Good, Paired
  <2>2. Asker(q) = l + 1 /\ l + 1 \in DOMAIN c
    BY <1>7, <1>10, <1>11 DEF Asker
  <2>3. Question(c, q.turn) /\ Answering(c)
    BY <1>5, <1>7, <1>10, <2>1
  <2>4. Complete(c, {Asker(q)})
    <3>1. Complete(c, {} \cup {l + 1})
      BY <1>7, <1>11, <2>1
    <3>2. {} \cup {l + 1} = {Asker(q)}
      BY <2>2
    <3> QED
      BY <3>1, <3>2
  <2>5. c[Asker(q)] = x
    BY <1>7, <1>11, <2>2
  <2>6. ids = [i \in 1 .. q.done + Len(q.todo) |-> CallId(q, i)]
    <3>1. 0 + n = n /\ q.done + Len(q.todo) = 0 + n
      BY <1>2, <1>10
    <3>2. \A i : CallId(q, i) = CallId(r, i)
      BY <1>10 DEF CallId
    <3> QED
      BY <1>3, <3>1, <3>2
  <2> QED
    BY <1>5, <2>2, <2>3, <2>4, <2>5, <2>6
<1> QED
  BY <1>9, <1>10, <1>12, <1>13, <1>14 DEF Good

LEMMA LateGood ==
  ASSUME NEW r \in Requests, Good(r), r.at = "tools",
         NEW q, q = [r EXCEPT !.late = TRUE]
  PROVE  q \in Requests /\ Good(q) /\ q.at = "tools"
<1>1. q \in Requests
  BY DEF Requests
<1>2. /\ q.at = r.at /\ q.todo = r.todo /\ q.done = r.done /\ q.msgs = r.msgs
      /\ q.round = r.round /\ q.local = r.local /\ q.remote = r.remote
      /\ q.turn = r.turn /\ q.asked = r.asked /\ q.compressions = r.compressions
      /\ q.attempt = r.attempt
  BY DEF Requests
<1>3. Asker(q) = Asker(r) /\ Paid(q) = Paid(r) /\ \A i : CallId(q, i) = CallId(r, i)
  BY <1>2 DEF Asker, Paid, CallId
<1>4. Headed(q) /\ Bounded(q)
  BY <1>2, <1>3 DEF Good, Headed, Bounded
<1>5. Paired(q)
  BY <1>2, <1>3 DEF Good, Paired
<1> QED
  BY <1>1, <1>2, <1>4, <1>5 DEF Good

LEMMA RunType ==
  ASSUME NEW r \in Requests, NEW todo \in Seq(Calls), NEW done \in Nat, NEW l \in Nat,
         NEW e \in Nat, NEW msgs \in Seq(Messages)
  PROVE  [r EXCEPT !.todo = todo, !.done = done, !.local = l, !.remote = e, !.msgs = msgs]
           \in Requests
BY DEF Requests

\* A result joins the messages: it stands where its number says.
LEMMA ResultJoins ==
  ASSUME NEW m \in Seq(Messages), NEW x \in Messages, x.role = "tool",
         NEW a \in 1 .. Len(m), NEW d \in Nat, a + d = Len(m), m[a].role = "assistant",
         d + 1 \in DOMAIN m[a].calls, m[a].calls[d + 1] = x.calls[1],
         NEW turn, Question(m, turn), Answering(m), Complete(m, {a}),
         NEW c, c = m \o <<x>>
  PROVE  /\ Question(c, turn) /\ Answering(c) /\ Complete(c, {a})
         /\ a \in DOMAIN c /\ c[a] = m[a]
<1>1. c \in Seq(Messages) /\ Len(c) = Len(m) + 1
  BY Followed
<1>2. \A i \in 1 .. Len(m) : c[i] = m[i]
  BY Followed
<1>3. Question(c, turn)
  BY Extended
<1>4. Complete(c, {a})
  BY Extended
<1>5. Answering(c)
  <2>1. a + (d + 1) = Len(m) + 1
    OBVIOUS
  <2>2. \E j \in 1 .. Len(m) : \E k \in DOMAIN m[j].calls :
          j + k = Len(m) + 1 /\ m[j].role = "assistant" /\ m[j].calls[k] = x.calls[1]
    BY <2>1
  <2> QED
    BY <2>2, AnswerJoins
<1>6. a \in DOMAIN c /\ c[a] = m[a]
  BY <1>1, <1>2
<1> QED
  BY <1>3, <1>4, <1>5, <1>6

LEMMA ResultType ==
  ASSUME NEW r \in Requests, NEW size \in Nat
  PROVE  \E x \in Messages : /\ Results(r, size) = <<x>> /\ x.role = "tool"
                             /\ x.calls = <<CallId(r, r.done + 1)>>
                             /\ x.calls[1] = CallId(r, r.done + 1)
<1>1. PICK id \in Nat \X Nat : id = CallId(r, r.done + 1)
  <2>1. r.round \in Nat /\ r.done + 1 \in Nat
    BY DEF Requests
  <2> QED
    BY <2>1 DEF CallId
<1>2. PICK ids \in Seq(Nat \X Nat) : ids = <<id>> /\ ids[1] = id
  <2>1. <<id>> \in Seq(Nat \X Nat) /\ <<id>>[1] = id
    OBVIOUS
  <2> QED
    BY <2>1
<1>3. PICK x : x = Msg("tool", size, r.turn, ids)
  OBVIOUS
<1>4. x \in Messages /\ x.role = "tool" /\ x.calls = ids
  <2>1. r.turn \in Nat
    BY DEF Requests
  <2> QED
    BY <1>3, <2>1 DEF Msg, Messages, Roles
<1>5. Results(r, size) = <<x>>
  BY <1>1, <1>2, <1>3 DEF Results
<1> QED
  BY <1>1, <1>2, <1>4, <1>5

\* A request between two tool calls, or behind the last of a round.
Running(r) ==
  /\ r.local <= CallLimit /\ r.remote <= CallLimit /\ r.round <= MaxRounds
  /\ r.asked <= (r.round + Paid(r) + 1) * (MaxRetries + 1)
  /\ r.msgs # <<>> /\ r.msgs[1] = SystemPrompt
  /\ r.compressions = 0 =>
       /\ Question(r.msgs, r.turn) /\ Answering(r.msgs)
       /\ Asker(r) \in DOMAIN r.msgs
       /\ r.msgs[Asker(r)].role = "assistant"
       /\ r.msgs[Asker(r)].calls = [i \in 1 .. r.done + Len(r.todo) |-> CallId(r, i)]
       /\ Complete(r.msgs, {Asker(r)})

After(r, l, e, size) ==
  [r EXCEPT !.todo = Tail(r.todo), !.done = r.done + 1, !.local = l,
            !.remote = e, !.msgs = r.msgs \o Results(r, size)]

LEMMA ToolRun ==
  ASSUME NEW r \in Requests, Good(r), r.at = "tools", NEW size \in Nat,
         NEW l \in Nat, NEW e \in Nat, l <= CallLimit, e <= CallLimit,
         NEW q, q = After(r, l, e, size)
  PROVE  q \in Requests /\ Running(q) /\ q.at = "tools"
<1>1. PICK x \in Messages : /\ Results(r, size) = <<x>> /\ x.role = "tool"
                            /\ x.calls[1] = CallId(r, r.done + 1)
  BY ResultType
<1>2. PICK m \in Seq(Messages), todo \in Seq(Calls), d \in Nat :
        m = r.msgs /\ todo = r.todo /\ d = r.done
  BY DEF Requests
<1>3. /\ m # <<>> /\ m[1] = SystemPrompt /\ todo # <<>>
      /\ r.round <= MaxRounds /\ r.asked <= (r.round + Paid(r) + 1) * (MaxRetries + 1)
  BY <1>2 DEF Good, Headed, Bounded
<1>4. PICK c : c = m \o <<x>>
  OBVIOUS
<1>5. /\ c \in Seq(Messages) /\ Len(c) = Len(m) + 1
      /\ c # <<>> /\ c[1] = SystemPrompt
  <2>1. c \in Seq(Messages) /\ Len(c) = Len(m) + 1
    BY <1>4, Followed
  <2>2. \A i \in 1 .. Len(m) : c[i] = m[i]
    BY <1>4, Followed
  <2>3. 1 \in 1 .. Len(m)
    BY <1>3
  <2>4. c # <<>>
    BY <2>1, <2>3
  <2> QED
    BY <1>3, <2>1, <2>2, <2>3, <2>4
<1>6. PICK t \in Seq(Calls) : t = Tail(todo) /\ Len(t) + 1 = Len(todo)
  <2>1. Tail(todo) \in Seq(Calls) /\ Len(Tail(todo)) + 1 = Len(todo)
    BY <1>3
  <2> QED
    BY <2>1
<1>7. q = [r EXCEPT !.todo = t, !.done = d + 1, !.local = l, !.remote = e, !.msgs = c]
  BY <1>1, <1>2, <1>4, <1>6 DEF After
<1>8. q \in Requests
  <2>1. d + 1 \in Nat
    OBVIOUS
  <2>2. [r EXCEPT !.todo = t, !.done = d + 1, !.local = l, !.remote = e, !.msgs = c]
          \in Requests
    BY <1>5, <2>1, RunType
  <2> QED
    BY <1>7, <2>2
<1>9. /\ q.at = r.at /\ q.todo = t /\ q.done = d + 1 /\ q.local = l /\ q.remote = e
      /\ q.msgs = c /\ q.round = r.round /\ q.turn = r.turn /\ q.asked = r.asked
      /\ q.compressions = r.compressions
  BY <1>7 DEF Requests
<1>10. Paid(q) = Paid(r) /\ \A i : CallId(q, i) = CallId(r, i)
  BY <1>9 DEF Paid, CallId
<1>11. ASSUME r.compressions = 0
       PROVE  /\ Question(c, r.turn) /\ Answering(c)
              /\ Asker(q) \in DOMAIN c /\ c[Asker(q)].role = "assistant"
              /\ c[Asker(q)].calls = [i \in 1 .. q.done + Len(q.todo) |-> CallId(q, i)]
              /\ Complete(c, {Asker(q)})
  <2>1. /\ Question(m, r.turn) /\ Answering(m) /\ Complete(m, {Asker(r)})
        /\ Asker(r) \in DOMAIN m /\ m[Asker(r)].role = "assistant"
        /\ m[Asker(r)].calls = [i \in 1 .. d + Len(todo) |-> CallId(r, i)]
    BY <1>2, <1>11 DEF Good, Paired
  <2>2. PICK a \in 1 .. Len(m) : a = Asker(r) /\ a + d = Len(m)
    <3>1. Len(m) \in Nat /\ Asker(r) = Len(m) - d /\ DOMAIN m = 1 .. Len(m)
      BY <1>2 DEF Asker
    <3>2. PICK n \in Nat : n = Len(m) /\ Asker(r) = n - d /\ Asker(r) \in 1 .. n
      BY <2>1, <3>1
    <3>3. (n - d) + d = n
      OBVIOUS
    <3> QED
      BY <3>2, <3>3
  <2>3. PICK k \in Nat : k = Len(t) /\ Len(todo) = k + 1
    <3>1. Len(t) \in Nat
      OBVIOUS
    <3> QED
      BY <1>6, <3>1
  <2>4. d + 1 \in DOMAIN m[a].calls /\ m[a].calls[d + 1] = x.calls[1]
    <3>1. d + 1 \in 1 .. d + (k + 1)
      OBVIOUS
    <3>2. m[a].calls = [i \in 1 .. d + (k + 1) |-> CallId(r, i)]
      BY <2>1, <2>2, <2>3
    <3> QED
      BY <1>1, <1>2, <3>1, <3>2
  <2>5. /\ Question(c, r.turn) /\ Answering(c) /\ Complete(c, {a})
        /\ a \in DOMAIN c /\ c[a] = m[a]
    <3>1. m[a].role = "assistant" /\ Complete(m, {a})
      BY <2>1, <2>2
    <3>2. m[a].calls = m[Asker(r)].calls /\ a + d = Len(m) /\ c = m \o <<x>> /\ x.role = "tool"
      BY <1>1, <1>4, <2>2
    <3>3. Question(c, r.turn) /\ Answering(c)
      BY <2>1, <2>4, <3>1, <3>2, ResultJoins
    <3>4. Complete(c, {a})
      BY <3>1, <3>2, Extended
    <3>5. a \in DOMAIN c /\ c[a] = m[a]
      <4>1. DOMAIN c = 1 .. Len(m) + 1 /\ Len(m) \in Nat
        BY <1>5
      <4>2. \A i \in 1 .. Len(m) : c[i] = m[i]
        BY <1>4, Followed
      <4> QED
        BY <4>1, <4>2
    <3> QED
      BY <3>3, <3>4, <3>5
  <2>6. Asker(q) = a
    <3>1. Len(m) \in Nat /\ Len(c) = Len(m) + 1
      BY <1>5
    <3>2. Asker(q) = Len(c) - (d + 1)
      BY <1>9 DEF Asker
    <3>3. PICK n \in Nat : n = Len(m) /\ Len(c) = n + 1
      BY <3>1
    <3>4. a + d = n /\ a \in Nat
      BY <2>2, <3>3
    <3>5. (n + 1) - (d + 1) = a
      BY <3>4
    <3>6. Asker(q) = (n + 1) - (d + 1)
      BY <3>2, <3>3
    <3> QED
      BY <3>5, <3>6
  <2>7. q.done + Len(q.todo) = d + Len(todo)
    <3>1. (d + 1) + k = d + (k + 1)
      OBVIOUS
    <3> QED
      BY <1>9, <2>3, <3>1
  <2>8. m[a].calls = [i \in 1 .. q.done + Len(q.todo) |-> CallId(q, i)]
    BY <1>10, <2>1, <2>2, <2>7
  <2> QED
    BY <2>1, <2>2, <2>5, <2>6, <2>8
<1>12. Running(q)
  BY <1>3, <1>5, <1>9, <1>10, <1>11 DEF Running
<1> QED
  BY <1>8, <1>9, <1>12

LEMMA RunningGood ==
  ASSUME NEW r \in Requests, Running(r), r.at = "tools", r.todo # <<>>
  PROVE  Good(r)
<1>1. Headed(r)
  BY DEF Running, Headed
<1>2. Bounded(r)
  BY DEF Running, Bounded
<1>3. Paired(r)
  BY DEF Running, Paired
<1> QED
  BY <1>1, <1>2, <1>3 DEF Good

LEMMA RoundType ==
  ASSUME NEW r \in Requests, NEW n \in Nat
  PROVE  [r EXCEPT !.round = n] \in Requests
BY DEF Requests

\* The last tool of a round has run: all its calls have their results, and the
\* next round is paid for.
LEMMA RoundGood ==
  ASSUME NEW r \in Requests, Running(r), r.todo = <<>>,
         NEW q, q = Asking([Squeezed(r) EXCEPT !.round = @ + 1])
  PROVE  q \in Requests /\ Good(q) /\ q.at # "runtime"
<1>1. PICK p : p = Squeezed(r)
  OBVIOUS
<1>2. r.msgs # <<>> /\ r.msgs[1] = SystemPrompt
  BY DEF Running
<1>3. /\ p \in Requests /\ p.msgs # <<>> /\ p.msgs[1] = SystemPrompt
      /\ p.round = r.round /\ p.local = r.local /\ p.remote = r.remote
      /\ p.turn = r.turn /\ p.asked = r.asked
      /\ p = r \/ p.compressions = r.compressions + 1
  BY <1>1, <1>2, SqueezedResult
<1>4. PICK n \in Nat : n = p.round + 1
  <2>1. p.round \in Nat
    BY <1>3 DEF Requests
  <2>2. \A k \in Nat : k + 1 \in Nat
    OBVIOUS
  <2> QED
    BY <2>1, <2>2
<1>5. PICK r3 : r3 = [p EXCEPT !.round = n]
  OBVIOUS
<1>6. q = Asking(r3)
  BY <1>1, <1>4, <1>5
<1>7. r3 \in Requests
  BY <1>3, <1>5, RoundType
<1>8. /\ r3.msgs = p.msgs /\ r3.local = p.local /\ r3.remote = p.remote /\ r3.round = n
      /\ r3.turn = p.turn /\ r3.asked = p.asked /\ r3.compressions = p.compressions
  BY <1>3, <1>5 DEF Requests
<1>9. /\ r.compressions \in Nat /\ r.round \in Nat /\ r.asked \in Nat /\ p.compressions \in Nat
      /\ MaxCompressions \in Nat /\ MaxRetries \in Nat
  BY <1>3, AgentAssumption DEF Requests
<1>10. r.compressions <= p.compressions
  BY <1>3, <1>9
<1>11. Paid(r) \in Nat /\ Paid(r3) \in Nat /\ Paid(r) <= Paid(r3)
  BY <1>8, <1>9, <1>10 DEF Paid
<1>12. r3.asked <= (r3.round + Paid(r3)) * (MaxRetries + 1)
  <2>1. PICK a \in Nat, b \in Nat, w \in Nat :
          a = r.round + Paid(r) + 1 /\ b = r3.round + Paid(r3) /\ w = MaxRetries + 1
    BY <1>4, <1>8, <1>9, <1>11
  <2>2. a <= b
    <3>1. PICK k \in Nat, l \in Nat, m \in Nat :
            k = Paid(r) /\ l = Paid(r3) /\ m = r.round /\ k <= l
      BY <1>9, <1>11
    <3>2. n = m + 1
      BY <1>3, <1>4, <3>1
    <3>3. a = m + k + 1 /\ b = n + l
      BY <1>8, <2>1, <3>1
    <3> QED
      BY <3>1, <3>2, <3>3
  <2>3. PICK x \in Nat, y \in Nat : x = a * w /\ y = b * w /\ x <= y
    BY <2>2, Products
  <2>4. r.asked <= x
    BY <2>1, <2>3 DEF Running
  <2>5. r.asked <= y
    BY <1>9, <2>3, <2>4
  <2> QED
    BY <1>3, <1>8, <2>1, <2>3, <2>5
<1>13. r3.compressions = 0 =>
         Question(r3.msgs, r3.turn) /\ Answering(r3.msgs) /\ Complete(r3.msgs, {})
  <2> SUFFICES ASSUME r3.compressions = 0
               PROVE  Question(r3.msgs, r3.turn) /\ Answering(r3.msgs) /\ Complete(r3.msgs, {})
    OBVIOUS
  <2>1. p = r /\ r.compressions = 0
    BY <1>3, <1>8, <1>9
  <2>2. r3.msgs = r.msgs /\ r3.turn = r.turn
    BY <1>8, <2>1
  <2>3. /\ Question(r.msgs, r.turn) /\ Answering(r.msgs) /\ Complete(r.msgs, {Asker(r)})
        /\ Asker(r) \in DOMAIN r.msgs
        /\ r.msgs[Asker(r)].calls = [i \in 1 .. r.done + Len(r.todo) |-> CallId(r, i)]
    BY <2>1 DEF Running
  <2>4. PICK m \in Seq(Messages), d \in Nat : m = r.msgs /\ d = r.done
    BY DEF Requests
  <2>5. PICK a \in 1 .. Len(m) : a = Asker(r) /\ a + d = Len(m)
    <3>1. Len(m) \in Nat /\ DOMAIN m = 1 .. Len(m) /\ Asker(r) = Len(m) - d
      BY <2>4 DEF Asker
    <3> QED
      BY <2>3, <2>4, <3>1
  <2>6. Len(m[a].calls) = d
    <3>1. Len(r.todo) = 0 /\ d + 0 = d
      OBVIOUS
    <3>2. m[a].calls = [i \in 1 .. d |-> CallId(r, i)]
      BY <2>3, <2>4, <2>5, <3>1
    <3>3. m[a].calls \in Seq(Nat \X Nat)
      <4>1. m[a] \in Messages
        OBVIOUS
      <4> QED
        BY <4>1 DEF Messages
    <3>4. DOMAIN m[a].calls = 1 .. d
      BY <3>2
    <3> QED
      BY <3>3, <3>4
  <2>7. Complete(m, {})
    <3>1. Complete(m, {a})
      BY <2>3, <2>4, <2>5
    <3>2. a + Len(m[a].calls) <= Len(m)
      BY <2>5, <2>6
    <3> QED
      BY <3>1, <3>2 DEF Complete
  <2> QED
    BY <2>2, <2>3, <2>4, <2>7
<1>14. /\ r3.msgs # <<>> /\ r3.msgs[1] = SystemPrompt
       /\ r3.local <= CallLimit /\ r3.remote <= CallLimit
  BY <1>3, <1>8 DEF Running
<1> QED
  BY <1>6, <1>7, <1>12, <1>13, <1>14, AskingGood

-----------------------------------------------------------------------------
(* The session memory *)

\* A question and its answer join.
Longer(h, turn, size) ==
  h \o <<Msg("user", size, turn, <<>>), Msg("assistant", 1, turn, <<>>)>>

LEMMA PairJoins ==
  ASSUME NEW h \in Seq(Messages), NEW turns \in Seq(Nat), NEW k \in 0 .. Len(turns),
         Plain(h), Pairs(h, turns, k), NEW turn \in Nat, NEW size \in Nat,
         NEW h2, h2 = Longer(h, turn, size), NEW turns2, turns2 = Append(turns, turn)
  PROVE  /\ h2 \in Seq(Messages) /\ Len(h2) = 2 * (k + 1)
         /\ Plain(h2) /\ Pairs(h2, turns2, k + 1)
<1>1. PICK u \in Messages, a \in Messages :
        /\ u = Msg("user", size, turn, <<>>) /\ a = Msg("assistant", 1, turn, <<>>)
        /\ u.role = "user" /\ a.role = "assistant" /\ u.turn = turn /\ a.turn = turn
        /\ u.calls = <<>> /\ a.calls = <<>>
  <2>1. "user" \in Roles /\ "assistant" \in Roles /\ 1 \in Nat
    BY DEF Roles
  <2>2. Msg("user", size, turn, <<>>) \in Messages /\ Msg("assistant", 1, turn, <<>>) \in Messages
    BY <2>1, UserMessage
  <2> QED
    BY <2>2 DEF Msg
<1>2. PICK two \in Seq(Messages) : two = <<u, a>> /\ Len(two) = 2 /\ two[1] = u /\ two[2] = a
  <2>1. <<u, a>> \in Seq(Messages)
    OBVIOUS
  <2>2. Len(<<u, a>>) = 2 /\ <<u, a>>[1] = u /\ <<u, a>>[2] = a
    OBVIOUS
  <2> QED
    BY <2>1, <2>2
<1>3. PICK n \in Nat : n = Len(turns) /\ k <= n /\ k \in Nat
  OBVIOUS
<1>4. Len(h) = 2 * k
  BY DEF Pairs
<1>5. h2 \in Seq(Messages) /\ Len(h2) = 2 * k + 2
  <2>1. h2 \in Seq(Messages) /\ Len(h2) = Len(h) + Len(two)
    BY <1>1, <1>2, Joined DEF Longer
  <2> QED
    BY <1>2, <1>4, <2>1
<1>6. /\ \A i \in 1 .. 2 * k : h2[i] = h[i]
      /\ h2[2 * k + 1] = u /\ h2[2 * k + 2] = a
  <2>1. \A i \in 1 .. Len(h) : h2[i] = h[i]
    BY <1>1, <1>2, Joined DEF Longer
  <2>2. \A i \in 1 .. Len(two) : h2[Len(h) + i] = two[i]
    BY <1>1, <1>2, Joined DEF Longer
  <2>3. 1 \in 1 .. Len(two) /\ 2 \in 1 .. Len(two)
    BY <1>2
  <2> QED
    BY <1>2, <1>4, <2>1, <2>2, <2>3
<1>7. Plain(h2)
  <2>1. \A i \in 1 .. 2 * k : h[i].role \in {"user", "assistant"} /\ h[i].calls = <<>>
    <3>1. DOMAIN h = 1 .. 2 * k
      BY <1>4
    <3> QED
      BY <3>1 DEF Plain
  <2>2. DOMAIN h2 = 1 .. 2 * k + 2
    BY <1>5
  <2>3. \A i \in 1 .. 2 * k + 2 : i \in 1 .. 2 * k \/ i = 2 * k + 1 \/ i = 2 * k + 2
    BY <1>3
  <2> QED
    BY <1>1, <1>6, <2>1, <2>2, <2>3 DEF Plain
<1>8. turns2 \in Seq(Nat) /\ Len(turns2) = n + 1 /\ turns2[n + 1] = turn
  BY <1>3
<1>9. \A i \in 1 .. n : turns2[i] = turns[i]
  BY <1>3
<1>10. ASSUME NEW i \in 1 .. k + 1
      PROVE  /\ h2[2 * i - 1].role = "user" /\ h2[2 * i].role = "assistant"
             /\ h2[2 * i - 1].turn = turns2[(n + 1) - (k + 1) + i]
             /\ h2[2 * i].turn = h2[2 * i - 1].turn
  <2>1. CASE i = k + 1
    <3>1. 2 * i - 1 = 2 * k + 1 /\ 2 * i = 2 * k + 2 /\ (n + 1) - (k + 1) + i = n + 1
      BY <1>3, <2>1
    <3> QED
      BY <1>1, <1>6, <1>8, <3>1
  <2>2. CASE i # k + 1
    <3>1. /\ i \in 1 .. k /\ 2 * i - 1 \in 1 .. 2 * k /\ 2 * i \in 1 .. 2 * k
          /\ (n + 1) - (k + 1) + i = n - k + i /\ n - k + i \in 1 .. n
      BY <1>3, <2>2
    <3>2. /\ h[2 * i - 1].role = "user" /\ h[2 * i].role = "assistant"
          /\ h[2 * i - 1].turn = turns[n - k + i]
          /\ h[2 * i].turn = h[2 * i - 1].turn
      BY <1>3, <3>1 DEF Pairs
    <3>3. h2[2 * i - 1] = h[2 * i - 1] /\ h2[2 * i] = h[2 * i]
      BY <1>6, <3>1
    <3> QED
      BY <1>9, <3>1, <3>2, <3>3
  <2> QED
    BY <2>1, <2>2
<1>11. 2 * k + 2 = 2 * (k + 1)
  BY <1>3
<1> QED
  BY <1>5, <1>7, <1>8, <1>10, <1>11 DEF Pairs

\* The oldest question and its answer leave.
LEMMA PairLeaves ==
  ASSUME NEW h \in Seq(Messages), NEW turns \in Seq(Nat), NEW k \in Nat,
         k + 1 <= Len(turns), Plain(h), Pairs(h, turns, k + 1),
         NEW h2, h2 = SubSeq(h, 3, Len(h))
  PROVE  h2 \in Seq(Messages) /\ Plain(h2) /\ Pairs(h2, turns, k)
<1>1. Len(h) = 2 * (k + 1)
  BY DEF Pairs
<1>2. h2 \in Seq(Messages) /\ Len(h2) = 2 * k /\ \A i \in 1 .. 2 * k : h2[i] = h[i + 2]
  <2>1. PICK l \in Nat : l = Len(h) /\ l = 2 * k + 2
    BY <1>1
  <2>2. h2 \in Seq(Messages)
    <3>1. 3 \in Nat /\ Len(h) \in Nat
      OBVIOUS
    <3>2. \A i \in 3 .. Len(h) : h[i] \in Messages
      OBVIOUS
    <3>3. SubSeq(h, 3, Len(h)) \in Seq(Messages)
      BY <3>1, <3>2
    <3> QED
      BY <3>3
  <2>3. Len(h2) = IF 3 <= l THEN l - 3 + 1 ELSE 0
    BY <2>1
  <2>4. \A i \in 1 .. l - 2 : h2[i] = h[i + 2]
    BY <2>1
  <2>5. l - 2 = 2 * k /\ (IF 3 <= l THEN l - 3 + 1 ELSE 0) = 2 * k
    BY <2>1
  <2> QED
    BY <2>2, <2>3, <2>4, <2>5
<1>3. Plain(h2)
  <2>1. \A i \in 1 .. 2 * k : i + 2 \in DOMAIN h
    BY <1>1
  <2>2. DOMAIN h2 = 1 .. 2 * k
    BY <1>2
  <2> QED
    BY <1>2, <2>1, <2>2 DEF Plain
<1>4. PICK n \in Nat : n = Len(turns) /\ k + 1 <= n
  OBVIOUS
<1>5. ASSUME NEW i \in 1 .. k
      PROVE  /\ h2[2 * i - 1].role = "user" /\ h2[2 * i].role = "assistant"
             /\ h2[2 * i - 1].turn = turns[n - k + i]
             /\ h2[2 * i].turn = h2[2 * i - 1].turn
  <2>1. PICK j \in 1 .. k + 1 : j = i + 1
    OBVIOUS
  <2>2. /\ h[2 * j - 1].role = "user" /\ h[2 * j].role = "assistant"
        /\ h[2 * j - 1].turn = turns[n - (k + 1) + j]
        /\ h[2 * j].turn = h[2 * j - 1].turn
    BY <1>4 DEF Pairs
  <2>3. /\ 2 * j - 1 = (2 * i - 1) + 2 /\ 2 * j = 2 * i + 2 /\ n - (k + 1) + j = n - k + i
        /\ 2 * i - 1 \in 1 .. 2 * k /\ 2 * i \in 1 .. 2 * k
    BY <1>4, <2>1
  <2>4. h2[2 * i - 1] = h[2 * j - 1] /\ h2[2 * i] = h[2 * j]
    BY <1>2, <2>3
  <2> QED
    BY <2>2, <2>3, <2>4
<1> QED
  BY <1>2, <1>3, <1>4, <1>5 DEF Pairs

LEMMA NoPairs == Plain(<<>>) /\ Pairs(<<>>, <<>>, Newest(Len(<<>>)))
<1>1. Len(<<>>) = 0 /\ DOMAIN <<>> = {}
  OBVIOUS
<1>2. Newest(0) = 0
  BY AgentAssumption DEF Newest
<1> QED
  BY <1>1, <1>2 DEF Plain, Pairs

LEMMA RememberedPairs ==
  ASSUME NEW h \in Seq(Messages), NEW turns \in Seq(Nat),
         Plain(h), Pairs(h, turns, Newest(Len(turns))), NEW turn \in Nat, NEW size \in Nat,
         NEW turns2, turns2 = Append(turns, turn),
         NEW g, g = Remembered(h, turn, size)
  PROVE  /\ g \in Seq(Messages) /\ Plain(g)
         /\ turns2 \in Seq(Nat) /\ Pairs(g, turns2, Newest(Len(turns2)))
<1>1. PICK n \in Nat, k \in Nat : n = Len(turns) /\ k = Newest(n) /\ k <= n
  <2>1. Len(turns) \in Nat /\ Turns \in Nat
    BY AgentAssumption
  <2>2. Newest(Len(turns)) \in Nat /\ Newest(Len(turns)) <= Len(turns)
    BY <2>1 DEF Newest
  <2> QED
    BY <2>1, <2>2
<1>2. Turns \in Nat
  BY AgentAssumption
<1>3. PICK h2 : h2 = Longer(h, turn, size)
  OBVIOUS
<1>4. turns2 \in Seq(Nat) /\ Len(turns2) = n + 1
  BY <1>1
<1>5. /\ h2 \in Seq(Messages) /\ Len(h2) = 2 * (k + 1)
      /\ Plain(h2) /\ Pairs(h2, turns2, k + 1)
  <2>1. k \in 0 .. Len(turns) /\ Pairs(h, turns, k)
    BY <1>1
  <2>2. h2 \in Seq(Messages) /\ Len(h2) = 2 * (k + 1)
    BY <1>3, <2>1, PairJoins
  <2>3. Plain(h2)
    BY <1>3, <2>1, PairJoins
  <2>4. Pairs(h2, turns2, k + 1)
    BY <1>3, <2>1, PairJoins
  <2> QED
    BY <2>2, <2>3, <2>4
<1>6. g = IF Turns > 0 /\ Len(h2) > 2 * Turns
          THEN SubSeq(h2, Len(h2) - 2 * Turns + 1, Len(h2)) ELSE h2
  BY <1>3 DEF Remembered, Longer
<1>7. CASE Turns > 0 /\ Len(h2) > 2 * Turns
  <2>1. k = Turns /\ Turns <= n /\ Newest(n + 1) = k
    BY <1>1, <1>2, <1>5, <1>7 DEF Newest
  <2>2. Len(h2) - 2 * Turns + 1 = 3
    BY <1>5, <2>1
  <2>3. g = SubSeq(h2, 3, Len(h2))
    BY <1>6, <1>7, <2>2
  <2>4. k + 1 <= Len(turns2)
    BY <1>1, <1>4
  <2>5. g \in Seq(Messages) /\ Plain(g) /\ Pairs(g, turns2, k)
    BY <1>4, <1>5, <2>3, <2>4, PairLeaves
  <2> QED
    BY <1>4, <2>1, <2>5
<1>8. CASE ~ (Turns > 0 /\ Len(h2) > 2 * Turns)
  <2>1. k = n /\ Newest(n + 1) = n + 1
    BY <1>1, <1>2, <1>5, <1>8 DEF Newest
  <2>2. g = h2
    BY <1>6, <1>8
  <2> QED
    BY <1>4, <1>5, <2>1, <2>2
<1> QED
  BY <1>7, <1>8

-----------------------------------------------------------------------------
(* The files *)

Files == [size : Nat, hits : 0 .. 2]

LEMMA EditedFile ==
  ASSUME NEW f \in Files, NEW tool \in Edits, NEW size \in Nat, NEW expected \in Nat,
         NEW g \in Edited(tool, f, size, expected)
  PROVE  /\ g \in Files
         /\ tool \in {"replace", "replaceAll"} =>
              f.hits - g.hits > 0 /\ expected \in {0, f.hits - g.hits}
<1>1. f.size \in Nat /\ f.hits \in 0 .. 2
  BY DEF Files
<1>2. CASE tool = "write"
  <2>1. Edited(tool, f, size, expected) \subseteq {[size |-> size, hits |-> h] : h \in 0 .. 1}
    BY <1>2 DEF Edited
  <2>2. PICK h \in 0 .. 1 : g = [size |-> size, hits |-> h]
    BY <2>1
  <2> QED
    BY <1>2, <2>2 DEF Files
<1>3. CASE tool = "append"
  <2>1. Edited(tool, f, size, expected) \subseteq {[f EXCEPT !.size = @ + size]}
    BY <1>3 DEF Edited
  <2>2. g = [f EXCEPT !.size = @ + size]
    BY <2>1
  <2>3. f.size + size \in Nat
    BY <1>1
  <2> QED
    BY <1>3, <2>2, <2>3 DEF Files
<1>4. CASE tool \in {"replace", "replaceAll"}
  <2>1. PICK n : n = IF tool = "replaceAll" THEN f.hits ELSE 1
    OBVIOUS
  <2>2. /\ f.hits > 0 /\ expected \in {0, n}
        /\ g = [f EXCEPT !.hits = f.hits - n]
    <3>1. tool # "write" /\ tool # "append"
      BY <1>4
    <3>2. Edited(tool, f, size, expected) =
            IF f.hits > 0 /\ expected \in {0, n} /\ f.size <= MaxWrite
            THEN {[f EXCEPT !.hits = f.hits - n]} ELSE {}
      BY <2>1, <3>1 DEF Edited
    <3> QED
      BY <3>2
  <2>3. n \in 1 .. f.hits
    BY <1>1, <2>1, <2>2
  <2>4. f.hits - n \in 0 .. 2 /\ f.hits - (f.hits - n) = n
    BY <1>1, <2>3
  <2>5. g \in Files /\ g.hits = f.hits - n
    BY <2>2, <2>4 DEF Files
  <2> QED
    BY <2>2, <2>3, <2>4, <2>5
<1> QED
  BY <1>2, <1>3, <1>4 DEF Edits

\* What a call does to the files.
LEMMA LocalFiles ==
  ASSUME file \in [Paths -> Files], NEW call \in Calls, LocalCall(call)
  PROVE  /\ file' \in [Paths -> Files]
         /\ \A p \in Paths : file'[p] # file[p] =>
              /\ p = call.path /\ p \in Writable
              /\ call.tool \in {"replace", "replaceAll"} =>
                   /\ file[p].hits - file'[p].hits > 0
                   /\ call.expected \in {0, file[p].hits - file'[p].hits}
<1>1. call.path \in Paths /\ call.size \in Nat /\ call.expected \in Nat
  BY DEF Calls
<1>2. PICK f \in Files : f = file[call.path]
  BY <1>1
<1>3. PICK after : after = IF call.tool \in Edits /\ Authorized(call.tool, call.path)
                           THEN Edited(call.tool, f, call.size, call.expected) ELSE {}
  OBVIOUS
<1>4. IF after # {} THEN \E g \in after : file' = [file EXCEPT ![call.path] = g]
      ELSE UNCHANGED file
  BY <1>2, <1>3 DEF LocalCall
<1>5. CASE after = {}
  BY <1>4, <1>5
<1>6. CASE after # {}
  <2>1. PICK g \in after : file' = [file EXCEPT ![call.path] = g]
    BY <1>4, <1>6
  <2>2. /\ call.tool \in Edits /\ Authorized(call.tool, call.path)
        /\ g \in Edited(call.tool, f, call.size, call.expected)
    BY <1>3, <1>6
  <2>3. call.path \in Writable
    BY <2>2 DEF Authorized, Edits
  <2>4. /\ g \in Files
        /\ call.tool \in {"replace", "replaceAll"} =>
             f.hits - g.hits > 0 /\ call.expected \in {0, f.hits - g.hits}
    BY <1>1, <2>2, EditedFile
  <2>5. file' \in [Paths -> Files]
    BY <2>1, <2>4
  <2>6. \A p \in Paths : file'[p] # file[p] => p = call.path
    BY <2>1
  <2>7. file'[call.path] = g
    BY <1>1, <2>1
  <2> QED
    BY <1>2, <2>3, <2>4, <2>5, <2>6, <2>7
<1> QED
  BY <1>5, <1>6

LEMMA RemoteFiles ==
  ASSUME file \in [Paths -> Files], NEW call \in Calls, RemoteCall(call)
  PROVE  /\ file' \in [Paths -> Files]
         /\ \A p \in Paths : file'[p] # file[p] =>
              p = call.path /\ p \in RemoteWritable /\ call.tool = "edit"
<1>1. CASE UNCHANGED file
  BY <1>1
<1>2. CASE /\ call.tool = "edit" /\ call.path \in RemoteWritable
           /\ file' = [file EXCEPT ![call.path].hits = 0]
  <2>1. call.path \in Paths
    BY DEF Calls
  <2>2. PICK g : g = [file[call.path] EXCEPT !.hits = 0]
    OBVIOUS
  <2>3. g \in Files
    <3>1. file[call.path] \in Files /\ 0 \in 0 .. 2
      BY <2>1
    <3> QED
      BY <2>2, <3>1 DEF Files
  <2>4. file' = [file EXCEPT ![call.path] = g]
    BY <1>2, <2>2
  <2> QED
    BY <1>2, <2>3, <2>4
<1> QED
  BY <1>1, <1>2 DEF RemoteCall

-----------------------------------------------------------------------------
(* The steps *)

\* A step that gives one request another good state.
LEMMA SetKeeps ==
  ASSUME IInv, NEW s \in Sessions, NEW q \in Requests, Good(q),
         req' = [req EXCEPT ![s] = q],
         mcp # "none" => mcp' # "none", q.at = "runtime" => mcp' # "none"
  PROVE  req' \in [Sessions -> Requests] /\ ReqInv'
<1>1. req \in [Sessions -> Requests]
  BY DEF IInv, Types
<1>2. req' \in [Sessions -> Requests]
  BY <1>1
<1>3. ASSUME NEW t \in Sessions
      PROVE  Good(req'[t]) /\ (req'[t].at = "runtime" => mcp' # "none")
  <2>1. CASE t = s
    BY <1>1, <2>1
  <2>2. CASE t # s
    <3>1. req'[t] = req[t]
      BY <1>1, <2>2
    <3> QED
      BY <3>1 DEF IInv, ReqInv
  <2> QED
    BY <2>1, <2>2
<1> QED
  BY <1>2, <1>3 DEF ReqInv

LEMMA MemoryKept ==
  ASSUME IInv, UNCHANGED <<history, answered>>
  PROVE  MemoryInv'
BY DEF IInv, MemoryInv

LEMMA ServedType ==
  ASSUME IInv, NEW s \in Sessions, served[s] < MaxRequests,
         served' = [served EXCEPT ![s] = @ + 1]
  PROVE  served' \in [Sessions -> 0 .. MaxRequests]
<1>1. served \in [Sessions -> 0 .. MaxRequests] /\ MaxRequests \in Nat
  BY AgentAssumption DEF IInv, Types
<1>2. served[s] + 1 \in 0 .. MaxRequests
  BY <1>1
<1> QED
  BY <1>1, <1>2

LEMMA InvInit == Init => IInv
<1> SUFFICES ASSUME Init PROVE IInv
  OBVIOUS
<1>1. <<>> \in Seq(Messages) /\ <<>> \in Seq(Nat) /\ Len(<<>>) = 0
  OBVIOUS
<1>2. Types
  <2>1. 0 \in 0 .. MaxNotes /\ 0 \in 0 .. MaxRequests
    BY AgentAssumption
  <2>2. history \in [Sessions -> Seq(Messages)] /\ answered \in [Sessions -> Seq(Nat)]
    BY <1>1 DEF Init
  <2>3. notes \in [Sessions -> 0 .. MaxNotes] /\ served \in [Sessions -> 0 .. MaxRequests]
    BY <2>1 DEF Init
  <2>4. file \in [Paths -> [size : Nat, hits : 0 .. 2]] /\ mcp \in {"none", "creating", "ready"}
    BY DEF Init
  <2>5. req \in [Sessions -> Requests]
    BY FreeGood DEF Init
  <2> QED
    BY <2>2, <2>3, <2>4, <2>5 DEF Types
<1>3. ReqInv
  <2>1. \A s \in Sessions : req[s] = Free
    BY DEF Init
  <2>2. Free.at # "runtime"
    BY DEF Free
  <2> QED
    BY <2>1, <2>2, FreeGood DEF ReqInv
<1>4. MemoryInv
  <2>1. \A s \in Sessions : history[s] = <<>> /\ answered[s] = <<>>
    BY DEF Init
  <2> QED
    BY <2>1, NoPairs DEF MemoryInv
<1> QED
  BY <1>2, <1>3, <1>4 DEF IInv

LEMMA InvReset ==
  ASSUME IInv, NEW s \in Sessions, Reset(s)
  PROVE  IInv'
<1>1. history' = [history EXCEPT ![s] = <<>>] /\ answered' = [answered EXCEPT ![s] = <<>>]
  BY DEF Reset
<1>2. Types'
  <2>1. <<>> \in Seq(Messages) /\ <<>> \in Seq(Nat)
    OBVIOUS
  <2>2. history' \in [Sessions -> Seq(Messages)] /\ answered' \in [Sessions -> Seq(Nat)]
    BY <1>1, <2>1 DEF IInv, Types
  <2>3. notes' \in [Sessions -> 0 .. MaxNotes]
    <3>1. 0 \in 0 .. MaxNotes
      BY AgentAssumption
    <3> QED
      BY <3>1 DEF IInv, Types, Reset
  <2>4. served' \in [Sessions -> 0 .. MaxRequests]
    BY ServedType DEF Reset
  <2> QED
    BY <2>2, <2>3, <2>4 DEF IInv, Types, Reset
<1>3. ReqInv'
  BY DEF IInv, ReqInv, Reset
<1>4. MemoryInv'
  <2> SUFFICES ASSUME NEW t \in Sessions
               PROVE  Plain(history'[t]) /\ Pairs(history'[t], answered'[t], Newest(Len(answered'[t])))
    BY DEF MemoryInv
  <2>1. CASE t = s
    <3>1. history'[t] = <<>> /\ answered'[t] = <<>>
      BY <1>1, <2>1 DEF IInv, Types
    <3> QED
      BY <3>1, NoPairs
  <2>2. CASE t # s
    <3>1. history'[t] = history[t] /\ answered'[t] = answered[t]
      BY <1>1, <2>2 DEF IInv, Types
    <3> QED
      BY <3>1 DEF IInv, MemoryInv
  <2> QED
    BY <2>1, <2>2
<1> QED
  BY <1>2, <1>3, <1>4 DEF IInv

LEMMA InvMemory ==
  ASSUME IInv, NEW s \in Sessions, Memory(s)
  PROVE  IInv'
<1>1. PICK n \in {0, Min({notes[s] + 1, MaxNotes})} : notes' = [notes EXCEPT ![s] = n]
  BY DEF Memory
<1>2. n \in 0 .. MaxNotes
  <2>1. notes[s] \in 0 .. MaxNotes /\ MaxNotes \in Nat
    BY AgentAssumption DEF IInv, Types
  <2>2. PICK k \in Nat : k = notes[s] + 1
    BY <2>1
  <2>3. Min({k, MaxNotes}) = IF k <= MaxNotes THEN k ELSE MaxNotes
    BY <2>1, MinOfTwo
  <2> QED
    BY <1>1, <2>1, <2>2, <2>3
<1>3. Types'
  <2>1. notes' \in [Sessions -> 0 .. MaxNotes]
    BY <1>1, <1>2 DEF IInv, Types
  <2>2. served' \in [Sessions -> 0 .. MaxRequests]
    BY ServedType DEF Memory
  <2> QED
    BY <2>1, <2>2 DEF IInv, Types, Memory
<1>4. ReqInv'
  BY DEF IInv, ReqInv, Memory
<1>5. MemoryInv'
  BY MemoryKept DEF Memory
<1> QED
  BY <1>3, <1>4, <1>5 DEF IInv

LEMMA InvRespond ==
  ASSUME IInv, NEW s \in Sessions, Respond(s)
  PROVE  IInv'
<1>1. PICK size \in Sizes :
        req' = [req EXCEPT ![s] = [Free EXCEPT !.at = "runtime", !.turn = served[s] + 1, !.size = size]]
  BY DEF Respond, Set
<1>2. PICK turn \in Nat : turn = served[s] + 1
  BY DEF IInv, Types
<1>3. size \in Nat
  BY AgentAssumption
<1>4. PICK q : q = [Free EXCEPT !.at = "runtime", !.turn = turn, !.size = size]
  OBVIOUS
<1>5. q \in Requests /\ Good(q) /\ q.at = "runtime"
  BY <1>3, <1>4, RespondGood
<1>6. req' = [req EXCEPT ![s] = q]
  BY <1>1, <1>2, <1>4
<1>7. mcp' # "none" /\ mcp' \in {"none", "creating", "ready"}
  BY DEF Respond, IInv, Types
<1>8. req' \in [Sessions -> Requests] /\ ReqInv'
  BY <1>5, <1>6, <1>7, SetKeeps
<1>9. served' \in [Sessions -> 0 .. MaxRequests]
  BY ServedType DEF Respond
<1>10. Types'
  BY <1>7, <1>8, <1>9 DEF IInv, Types, Respond, memory
<1>11. MemoryInv'
  BY MemoryKept DEF Respond, memory
<1> QED
  BY <1>8, <1>10, <1>11 DEF IInv

LEMMA InvRuntimeMade ==
  ASSUME IInv, RuntimeMade
  PROVE  IInv'
<1>1. req \in [Sessions -> Requests]
  BY DEF IInv, Types
<1>2. req' \in [Sessions -> Requests] /\ ReqInv'
  <2>1. CASE mcp' = "ready" /\ UNCHANGED req
    BY <1>1, <2>1 DEF IInv, ReqInv
  <2>2. CASE /\ mcp' = "none"
             /\ req' = [s \in Sessions |-> IF req[s].at = "runtime" THEN Free ELSE req[s]]
    <3>1. Free \in Requests /\ Good(Free) /\ Free.at # "runtime"
      BY FreeGood DEF Free
    <3>2. req' \in [Sessions -> Requests]
      BY <1>1, <2>2, <3>1
    <3>3. \A s \in Sessions : Good(req'[s]) /\ req'[s].at # "runtime"
      BY <2>2, <3>1 DEF IInv, ReqInv
    <3> QED
      BY <3>2, <3>3 DEF ReqInv
  <2> QED
    BY <2>1, <2>2 DEF RuntimeMade
<1>3. mcp' \in {"none", "creating", "ready"}
  BY DEF RuntimeMade
<1>4. Types'
  BY <1>2, <1>3 DEF IInv, Types, RuntimeMade, memory
<1>5. MemoryInv'
  BY MemoryKept DEF RuntimeMade, memory
<1> QED
  BY <1>2, <1>4, <1>5 DEF IInv

\* A step of a request that is not waiting for the runtime afterwards.
LEMMA RequestSteps ==
  ASSUME IInv, NEW s \in Sessions, NEW q \in Requests, Good(q), q.at # "runtime",
         Set(s, q), UNCHANGED <<memory, mcp, served>>, file' \in [Paths -> Files]
  PROVE  IInv'
<1>1. req' \in [Sessions -> Requests] /\ ReqInv'
  BY SetKeeps DEF Set
<1>2. Types'
  BY <1>1 DEF IInv, Types, Files, memory
<1>3. MemoryInv'
  BY MemoryKept DEF memory
<1> QED
  BY <1>1, <1>2, <1>3 DEF IInv

LEMMA FilesKept ==
  ASSUME IInv, UNCHANGED file
  PROVE  file' \in [Paths -> Files]
BY DEF IInv, Types, Files

LEMMA RequestOf ==
  ASSUME IInv, NEW s \in Sessions
  PROVE  req[s] \in Requests /\ Good(req[s])
BY DEF IInv, Types, ReqInv

LEMMA InvBegin ==
  ASSUME IInv, NEW s \in Sessions, Begin(s)
  PROVE  IInv'
<1>1. PICK r \in Requests : r = req[s] /\ Good(r) /\ r.at = "runtime"
  BY RequestOf DEF Begin
<1>2. PICK h \in Seq(Messages) : h = history[s] /\ Plain(h)
  BY DEF IInv, Types, MemoryInv
<1>3. PICK q : q = Asking([r EXCEPT
        !.msgs = <<SystemPrompt>> \o h \o <<Msg("user", r.size, r.turn, <<>>)>>])
  OBVIOUS
<1>4. q \in Requests /\ Good(q) /\ q.at # "runtime"
  BY <1>1, <1>2, <1>3, BeginGood
<1>5. Set(s, q)
  BY <1>1, <1>2, <1>3 DEF Begin
<1> QED
  BY <1>4, <1>5, FilesKept, RequestSteps DEF Begin

LEMMA InvModelRetry ==
  ASSUME IInv, NEW s \in Sessions, ModelRetry(s)
  PROVE  IInv'
<1>1. PICK r \in Requests : r = req[s] /\ Good(r) /\ r.at = "asking"
  BY RequestOf DEF ModelRetry
<1>2. PICK q : q = IF r.attempt < MaxRetries
                   THEN [r EXCEPT !.attempt = @ + 1, !.asked = @ + 1] ELSE Free
  OBVIOUS
<1>3. q \in Requests /\ Good(q) /\ q.at # "runtime"
  <2>1. CASE r.attempt < MaxRetries
    <3>1. q = [r EXCEPT !.attempt = @ + 1, !.asked = @ + 1]
      BY <1>2, <2>1
    <3>2. q \in Requests /\ Good(q) /\ q.at = "asking"
      BY <1>1, <2>1, <3>1, RetryGood
    <3> QED
      BY <3>2
  <2>2. CASE ~ (r.attempt < MaxRetries)
    BY <1>2, <2>2, FreeGood DEF Free
  <2> QED
    BY <2>1, <2>2
<1>4. Set(s, q)
  BY <1>1, <1>2 DEF ModelRetry
<1> QED
  BY <1>3, <1>4, FilesKept, RequestSteps DEF ModelRetry

LEMMA InvOverflow ==
  ASSUME IInv, NEW s \in Sessions, Overflow(s)
  PROVE  IInv'
<1>1. PICK r \in Requests : r = req[s] /\ Good(r) /\ r.at = "asking"
  BY RequestOf DEF Overflow
<1>2. PICK q : q = IF r.compressions < MaxCompressions
                   THEN Asking([r EXCEPT !.msgs = Compress(@), !.compressions = @ + 1])
                   ELSE Free
  OBVIOUS
<1>3. q \in Requests /\ Good(q) /\ q.at # "runtime"
  <2>1. CASE r.compressions < MaxCompressions
    <3>1. q = Asking([r EXCEPT !.msgs = Compress(@), !.compressions = @ + 1])
      BY <1>2, <2>1
    <3> QED
      BY <1>1, <2>1, <3>1, OverflowGood
  <2>2. CASE ~ (r.compressions < MaxCompressions)
    BY <1>2, <2>2, FreeGood DEF Free
  <2> QED
    BY <2>1, <2>2
<1>4. Set(s, q)
  BY <1>1, <1>2 DEF Overflow
<1> QED
  BY <1>3, <1>4, FilesKept, RequestSteps DEF Overflow

LEMMA InvModelFails ==
  ASSUME IInv, NEW s \in Sessions, ModelFails(s)
  PROVE  IInv'
<1>1. Free \in Requests /\ Good(Free) /\ Free.at # "runtime"
  BY FreeGood DEF Free
<1> QED
  BY <1>1, FilesKept, RequestSteps DEF ModelFails

LEMMA InvToolCalls ==
  ASSUME IInv, NEW s \in Sessions, ToolCalls(s)
  PROVE  IInv'
<1>1. PICK r \in Requests : r = req[s] /\ Good(r) /\ r.at = "asking"
  BY RequestOf DEF ToolCalls
<1>2. PICK plan \in Plans :
        Set(s, [r EXCEPT !.at = "tools", !.todo = plan, !.done = 0,
                         !.msgs = Append(@, Msg("assistant", 1, r.turn,
                                                [i \in 1 .. Len(plan) |-> CallId(r, i)]))])
  BY <1>1 DEF ToolCalls
<1>3. PICK q : q = [r EXCEPT !.at = "tools", !.todo = plan, !.done = 0,
                             !.msgs = Append(@, Msg("assistant", 1, r.turn,
                                                    [i \in 1 .. Len(plan) |-> CallId(r, i)]))]
  OBVIOUS
<1>4. q \in Requests /\ Good(q) /\ q.at = "tools"
  BY <1>1, <1>3, CallsGood
<1>5. Set(s, q)
  BY <1>2, <1>3
<1> QED
  BY <1>4, <1>5, FilesKept, RequestSteps DEF ToolCalls

LEMMA InvLate ==
  ASSUME IInv, NEW s \in Sessions, Late(s)
  PROVE  IInv'
<1>1. PICK r \in Requests : r = req[s] /\ Good(r) /\ r.at = "tools"
  BY RequestOf DEF Late
<1>2. PICK q : q = [r EXCEPT !.late = TRUE]
  OBVIOUS
<1>3. q \in Requests /\ Good(q) /\ q.at = "tools"
  BY <1>1, <1>2, LateGood
<1>4. Set(s, q)
  BY <1>1, <1>2 DEF Late
<1> QED
  BY <1>3, <1>4, FilesKept, RequestSteps DEF Late

LEMMA InvAnswered ==
  ASSUME IInv, NEW s \in Sessions, Answered(s)
  PROVE  IInv'
<1>1. PICK r \in Requests : r = req[s]
  BY RequestOf
<1>2. PICK h \in Seq(Messages), turns \in Seq(Nat) :
        /\ h = history[s] /\ turns = answered[s]
        /\ Plain(h) /\ Pairs(h, turns, Newest(Len(turns)))
  BY DEF IInv, Types, MemoryInv
<1>3. PICK g, turns2 : g = Remembered(h, r.turn, r.size) /\ turns2 = Append(turns, r.turn)
  OBVIOUS
<1>4. /\ g \in Seq(Messages) /\ Plain(g)
      /\ turns2 \in Seq(Nat) /\ Pairs(g, turns2, Newest(Len(turns2)))
  <2>1. r.turn \in Nat /\ r.size \in Nat
    BY DEF Requests
  <2> QED
    <3>1. PICK turn \in Nat, size \in Nat : turn = r.turn /\ size = r.size
      BY <2>1
    <3>2. g = Remembered(h, turn, size) /\ turns2 = Append(turns, turn)
      BY <1>3, <3>1
    <3>3. g \in Seq(Messages) /\ turns2 \in Seq(Nat)
      BY <1>2, <3>2, RememberedPairs
    <3>4. Plain(g)
      BY <1>2, <3>2, RememberedPairs
    <3>5. Pairs(g, turns2, Newest(Len(turns2)))
      BY <1>2, <3>2, RememberedPairs
    <3> QED
      BY <3>3, <3>4, <3>5
<1>5. history' = [history EXCEPT ![s] = g] /\ answered' = [answered EXCEPT ![s] = turns2]
  BY <1>1, <1>2, <1>3 DEF Answered
<1>6. history \in [Sessions -> Seq(Messages)] /\ answered \in [Sessions -> Seq(Nat)]
  BY DEF IInv, Types
<1>7. history' \in [Sessions -> Seq(Messages)] /\ answered' \in [Sessions -> Seq(Nat)]
  BY <1>4, <1>5, <1>6
<1>8. MemoryInv'
  <2> SUFFICES ASSUME NEW t \in Sessions
               PROVE  Plain(history'[t]) /\ Pairs(history'[t], answered'[t], Newest(Len(answered'[t])))
    BY DEF MemoryInv
  <2>1. CASE t = s
    <3>1. history'[t] = g /\ answered'[t] = turns2
      BY <1>5, <1>6, <2>1
    <3> QED
      BY <1>4, <3>1
  <2>2. CASE t # s
    <3>1. history'[t] = history[t] /\ answered'[t] = answered[t]
      BY <1>5, <1>6, <2>2
    <3> QED
      BY <3>1 DEF IInv, MemoryInv
  <2> QED
    BY <2>1, <2>2
<1>9. req' \in [Sessions -> Requests] /\ ReqInv'
  <2>1. Free \in Requests /\ Good(Free) /\ Free.at # "runtime"
    BY FreeGood DEF Free
  <2> QED
    BY <2>1, SetKeeps DEF Answered, Set
<1>10. Types'
  BY <1>7, <1>9 DEF IInv, Types, Answered
<1> QED
  BY <1>8, <1>9, <1>10 DEF IInv

\* What ToolRuns leaves of the request.
LEMMA ToolRunsRequest ==
  ASSUME IInv, NEW s \in Sessions, ToolRuns(s)
  PROVE  \E q \in Requests : Good(q) /\ q.at # "runtime" /\ Set(s, q)
<1>1. PICK r \in Requests : r = req[s] /\ Good(r) /\ r.at = "tools"
  BY RequestOf DEF ToolRuns
<1>2. PICK kind, runs : kind = Head(r.todo).kind /\ runs = Allowed(r, kind)
  OBVIOUS
<1>3. PICK l \in Nat : /\ l = IF runs /\ kind = "local" THEN r.local + 1 ELSE r.local
                       /\ l <= CallLimit
  <2>1. r.local \in Nat /\ CallLimit \in Nat /\ r.local <= CallLimit
    BY <1>1, AgentAssumption DEF Requests, Good, Bounded
  <2>2. runs /\ kind = "local" => r.local < CallLimit
    BY <1>2 DEF Allowed
  <2> QED
    BY <2>1, <2>2
<1>4. PICK e \in Nat : /\ e = IF runs /\ kind = "remote" THEN r.remote + 1 ELSE r.remote
                       /\ e <= CallLimit
  <2>1. r.remote \in Nat /\ CallLimit \in Nat /\ r.remote <= CallLimit
    BY <1>1, AgentAssumption DEF Requests, Good, Bounded
  <2>2. runs /\ kind = "remote" => r.remote < CallLimit
    BY <1>2 DEF Allowed
  <2> QED
    BY <2>1, <2>2
<1> DEFINE Left(size) == After(r, l, e, size)
<1>5. PICK size \in Sizes :
        Set(s, IF Left(size).todo # <<>> THEN Left(size)
               ELSE Asking([Squeezed(Left(size)) EXCEPT !.round = @ + 1]))
  <2>1. \A size : [r EXCEPT !.todo = Tail(@), !.done = @ + 1,
                     !.local = IF runs /\ kind = "local" THEN @ + 1 ELSE @,
                     !.remote = IF runs /\ kind = "remote" THEN @ + 1 ELSE @,
                     !.msgs = @ \o Results(r, size)] = Left(size)
    BY <1>3, <1>4 DEF After
  <2> HIDE DEF Left
  <2> QED
    BY <1>1, <1>2, <2>1, ZenonT(60) DEF ToolRuns
<1>6. PICK r2 : r2 = After(r, l, e, size) /\ r2 = Left(size)
  OBVIOUS
<1> HIDE DEF Left
<1>7. r2 \in Requests /\ Running(r2) /\ r2.at = "tools"
  <2>1. size \in Nat
    BY AgentAssumption
  <2> QED
    <3>1. /\ r \in Requests /\ Good(r) /\ r.at = "tools" /\ size \in Nat
          /\ l \in Nat /\ e \in Nat /\ l <= CallLimit /\ e <= CallLimit
      BY <1>1, <1>3, <1>4, <2>1
    <3>2. r2 = After(r, l, e, size)
      BY <1>6
    <3>3. r2 \in Requests
      BY <3>1, <3>2, ToolRun
    <3>4. Running(r2)
      BY <3>1, <3>2, ToolRun
    <3>5. r2.at = "tools"
      BY <3>1, <3>2, ToolRun
    <3> QED
      BY <3>3, <3>4, <3>5
<1>8. CASE r2.todo # <<>>
  <2>1. Set(s, r2)
    BY <1>5, <1>6, <1>8
  <2>2. Good(r2)
    BY <1>7, <1>8, RunningGood
  <2> QED
    BY <1>7, <2>1, <2>2
<1>9. CASE r2.todo = <<>>
  <2>1. PICK q : q = Asking([Squeezed(r2) EXCEPT !.round = @ + 1])
    OBVIOUS
  <2>2. q \in Requests /\ Good(q) /\ q.at # "runtime"
    BY <1>7, <1>9, <2>1, RoundGood
  <2>3. Set(s, q)
    BY <1>5, <1>6, <1>9, <2>1
  <2> QED
    BY <2>2, <2>3
<1> QED
  BY <1>8, <1>9

\* What it does to the files.
LEMMA ToolRunsFiles ==
  ASSUME IInv, NEW s \in Sessions, ToolRuns(s), NEW call, call = Head(req[s].todo)
  PROVE  /\ file' \in [Paths -> Files] /\ req[s].at = "tools"
         /\ \A p \in Paths : file'[p] # file[p] =>
              /\ call.path = p
              /\ p \in IF call.kind = "local" THEN Writable ELSE RemoteWritable
              /\ call.tool \in {"replace", "replaceAll"} =>
                   /\ file[p].hits - file'[p].hits > 0
                   /\ call.expected \in {0, file[p].hits - file'[p].hits}
<1>1. PICK r \in Requests : r = req[s] /\ Good(r) /\ r.at = "tools"
  BY RequestOf DEF ToolRuns
<1>2. call \in Calls
  <2>1. r.todo \in Seq(Calls) /\ r.todo # <<>>
    BY <1>1 DEF Requests, Good, Headed
  <2>2. Head(r.todo) \in Calls
    BY <2>1
  <2> QED
    BY <1>1, <2>2
<1>3. file \in [Paths -> Files]
  BY DEF IInv, Types, Files
<1>4. \/ call.kind = "local" /\ LocalCall(call)
      \/ call.kind = "remote" /\ RemoteCall(call)
      \/ UNCHANGED file
  BY DEF ToolRuns
<1>5. CASE call.kind = "local" /\ LocalCall(call)
  BY <1>1, <1>2, <1>3, <1>5, LocalFiles
<1>6. CASE call.kind = "remote" /\ RemoteCall(call)
  <2>1. /\ file' \in [Paths -> Files]
        /\ \A p \in Paths : file'[p] # file[p] =>
             p = call.path /\ p \in RemoteWritable /\ call.tool = "edit"
    BY <1>2, <1>3, <1>6, RemoteFiles
  <2> QED
    BY <1>1, <1>6, <2>1
<1>7. CASE UNCHANGED file
  BY <1>1, <1>3, <1>7
<1> QED
  BY <1>4, <1>5, <1>6, <1>7

LEMMA InvToolRuns ==
  ASSUME IInv, NEW s \in Sessions, ToolRuns(s)
  PROVE  IInv'
<1>1. PICK q \in Requests : Good(q) /\ q.at # "runtime" /\ Set(s, q)
  BY ToolRunsRequest
<1>2. file' \in [Paths -> Files]
  BY ToolRunsFiles
<1> QED
  BY <1>1, <1>2, RequestSteps DEF ToolRuns

LEMMA InvStep == IInv /\ [Next]_vars => IInv'
<1> SUFFICES ASSUME IInv, [Next]_vars PROVE IInv'
  OBVIOUS
<1>1. CASE UNCHANGED vars
  BY <1>1 DEF IInv, Types, ReqInv, MemoryInv, vars, memory
<1>2. CASE Next
  BY <1>2, InvRuntimeMade, InvReset, InvMemory, InvRespond, InvBegin, InvModelRetry, InvOverflow,
     InvModelFails, InvAnswered, InvToolCalls, InvLate, InvToolRuns DEF Next
<1> QED
  BY <1>1, <1>2

LEMMA IInvAlways == Spec => []IInv
<1> QED
  BY InvInit, InvStep, PTL DEF Spec

-----------------------------------------------------------------------------
(* The properties *)

\* Type correctness: also of the messages of every request, which begin with
\* the system prompt, and who waits for the MCP runtime waits for one that is
\* there or being made.
THEOREM TypeCorrect == Spec => []TypeOK
<1>1. ASSUME IInv PROVE TypeOK
  <2>1. mcp \in {"none", "creating", "ready"}
    BY <1>1 DEF IInv, Types
  <2>2. \A p \in Paths : file[p].size \in Nat /\ file[p].hits \in 0 .. 2
    <3>1. \A p \in Paths : file[p] \in [size : Nat, hits : 0 .. 2]
      BY <1>1 DEF IInv, Types
    <3> QED
      BY <3>1
  <2>3. ASSUME NEW s \in Sessions
        PROVE  /\ notes[s] \in 0 .. MaxNotes /\ served[s] \in 0 .. MaxRequests
               /\ req[s].at \in {"idle", "runtime", "asking", "tools"}
               /\ req[s].at = "runtime" => mcp # "none"
               /\ req[s].at = "tools" => req[s].todo # <<>>
               /\ req[s].at \in {"asking", "tools"} =>
                    /\ req[s].msgs # <<>> /\ req[s].msgs[1] = SystemPrompt
                    /\ \A i \in DOMAIN req[s].msgs : req[s].msgs[i].role \in Roles
    <3>1. notes[s] \in 0 .. MaxNotes /\ served[s] \in 0 .. MaxRequests
      BY <1>1 DEF IInv, Types
    <3>2. PICK r \in Requests : r = req[s] /\ Good(r)
      BY <1>1, RequestOf
    <3>3. r.at = "runtime" => mcp # "none"
      BY <1>1, <3>2 DEF IInv, ReqInv
    <3>4. /\ r.at = "tools" => r.todo # <<>>
          /\ r.at \in {"asking", "tools"} => r.msgs # <<>> /\ r.msgs[1] = SystemPrompt
      BY <3>2 DEF Good, Headed
    <3>5. r.at \in {"idle", "runtime", "asking", "tools"}
      BY DEF Requests
    <3>6. \A i \in DOMAIN r.msgs : r.msgs[i].role \in Roles
      <4>1. PICK m \in Seq(Messages) : m = r.msgs
        BY DEF Requests
      <4>2. \A i \in DOMAIN m : m[i] \in Messages
        OBVIOUS
      <4> QED
        BY <4>1, <4>2 DEF Messages
    <3> QED
      BY <3>1, <3>2, <3>3, <3>4, <3>5, <3>6
  <2> QED
    BY <2>1, <2>2, <2>3 DEF TypeOK
<1> QED
  BY <1>1, IInvAlways, PTL

\* A session remembers exactly its newest answered requests, whatever Turns is
\* and however many requests failed between them: the two turns join and leave
\* together.
THEOREM HistoryIsAnswersAlways == Spec => []HistoryIsAnswers
<1>1. ASSUME IInv PROVE HistoryIsAnswers
  <2> SUFFICES ASSUME NEW s \in Sessions
               PROVE  LET n == Len(answered[s])
                          k == IF Turns > 0 THEN Min({n, Turns}) ELSE n IN
                      /\ Len(history[s]) = 2 * k
                      /\ \A i \in 1 .. k :
                           LET q == history[s][2 * i - 1]
                               a == history[s][2 * i] IN
                           /\ q.role = "user" /\ a.role = "assistant"
                           /\ q.turn = answered[s][n - k + i] /\ a.turn = q.turn
    BY DEF HistoryIsAnswers
  <2>1. PICK n : n = Len(answered[s])
    OBVIOUS
  <2>2. PICK k : k = IF Turns > 0 THEN Min({n, Turns}) ELSE n
    OBVIOUS
  <2>3. /\ Len(history[s]) = 2 * k
        /\ \A i \in 1 .. k :
             /\ history[s][2 * i - 1].role = "user" /\ history[s][2 * i].role = "assistant"
             /\ history[s][2 * i - 1].turn = answered[s][n - k + i]
             /\ history[s][2 * i].turn = history[s][2 * i - 1].turn
    <3>1. n \in Nat /\ Turns \in Nat
      BY <1>1, <2>1, AgentAssumption DEF IInv, Types
    <3>2. Min({n, Turns}) = IF n <= Turns THEN n ELSE Turns
      BY <3>1, MinOfTwo
    <3>3. k = Newest(n)
      BY <2>2, <3>1, <3>2 DEF Newest
    <3>4. Pairs(history[s], answered[s], k)
      BY <1>1, <2>1, <3>3 DEF IInv, MemoryInv
    <3> QED
      BY <2>1, <3>4 DEF Pairs
  <2> QED
    BY <2>1, <2>2, <2>3
<1> QED
  BY <1>1, IInvAlways, PTL

\* Whatever the messages, what is sent to the model is under the trigger, was
\* cut down to the target, or cannot be cut further.
THEOREM FitsOrMinimalAlways == Spec => []FitsOrMinimal
<1>1. ASSUME IInv PROVE FitsOrMinimal
  BY <1>1 DEF IInv, ReqInv, Good, Headed, Fits, FitsOrMinimal
<1> QED
  BY <1>1, IInvAlways, PTL

\* However many calls the model asks for and whichever of them fail, every
\* call has its result in its place when the model is asked again.
THEOREM CallsAnsweredAlways == Spec => []CallsAnswered
<1>1. ASSUME IInv PROVE CallsAnswered
  <2>1. ASSUME NEW s \in Sessions, req[s].at = "asking", req[s].compressions = 0
        PROVE  /\ Question(req[s].msgs, req[s].turn) /\ Answering(req[s].msgs)
               /\ Complete(req[s].msgs, {})
    BY <1>1, <2>1 DEF IInv, ReqInv, Good, Paired
  <2>2. \A msgs : DOMAIN msgs \ {} = DOMAIN msgs
    OBVIOUS
  <2> QED
    BY <2>1, <2>2 DEF CallsAnswered, Question, Answering, Complete
<1> QED
  BY <1>1, IInvAlways, PTL

\* Whatever the model answers, a request asks it a bounded number of times and
\* keeps to both budgets of tool calls.
THEOREM LoopBoundedAlways == Spec => []LoopBounded
<1>1. ASSUME IInv PROVE LoopBounded
  <2> SUFFICES ASSUME NEW s \in Sessions, NEW r \in Requests, r = req[s], Good(r)
               PROVE  /\ r.asked <= (MaxRounds + 1 + MaxCompressions) * (MaxRetries + 1)
                      /\ r.local <= CallLimit /\ r.remote <= CallLimit
    BY <1>1, RequestOf DEF LoopBounded
  <2>1. /\ r.asked \in Nat /\ r.round \in Nat /\ r.compressions \in Nat
        /\ MaxRounds \in Nat /\ MaxRetries \in Nat /\ MaxCompressions \in Nat
        /\ r.at \in {"idle", "runtime", "asking", "tools"}
    BY AgentAssumption DEF Requests
  <2>2. Paid(r) \in Nat /\ Paid(r) <= MaxCompressions
    BY <2>1 DEF Paid
  <2>3. PICK b \in Nat, w \in Nat : b = MaxRounds + 1 + MaxCompressions /\ w = MaxRetries + 1
    BY <2>1
  <2>4. PICK y \in Nat : y = b * w
    BY Products
  <2>5. CASE r.at \in {"idle", "runtime"}
    <3>1. r.asked = 0
      BY <2>5 DEF Good, Bounded
    <3> QED
      BY <2>3, <2>4, <3>1 DEF Good, Bounded
  <2>6. CASE r.at \in {"asking", "tools"}
    <3>1. r.asked <= (r.round + Paid(r) + 1) * (MaxRetries + 1)
      BY <2>6, AskedEnough DEF Good, Bounded
    <3>2. r.round <= MaxRounds
      BY <2>6 DEF Good, Bounded
    <3>3. PICK a \in Nat : a = r.round + Paid(r) + 1 /\ a <= b
      BY <2>1, <2>2, <2>3, <3>2
    <3>4. PICK x \in Nat : x = a * w /\ x <= y
      BY <2>4, <3>3, Products
    <3>5. r.asked <= y
      BY <2>1, <2>3, <3>1, <3>3, <3>4
    <3> QED
      BY <2>3, <2>4, <3>5 DEF Good, Bounded
  <2> QED
    BY <2>1, <2>5, <2>6
<1> QED
  BY <1>1, IInvAlways, PTL

\* Whatever calls the model asks for, no file changes but by a call that may
\* edit it, and no replacement replaces another number of texts than expected.
THEOREM EditsAuthorizedAlways == Spec => EditsAuthorized
<1> DEFINE Allows(p) == \E s \in Sessions :
             LET call == Head(req[s].todo)
                 n    == file[p].hits - file'[p].hits IN
             /\ req[s].at = "tools" /\ call.path = p
             /\ p \in IF call.kind = "local" THEN Writable ELSE RemoteWritable
             /\ call.tool \in {"replace", "replaceAll"} => n > 0 /\ call.expected \in {0, n}
           Step == \A p \in Paths : file'[p] # file[p] => Allows(p)
<1>1. ASSUME IInv, Next PROVE Step
  <2>1. CASE UNCHANGED file
    BY <2>1
  <2>2. CASE \E s \in Sessions : ToolRuns(s)
    <3>1. PICK s \in Sessions : ToolRuns(s)
      BY <2>2
    <3>2. PICK call : call = Head(req[s].todo)
      OBVIOUS
    <3>3. /\ req[s].at = "tools"
          /\ \A p \in Paths : file'[p] # file[p] =>
               /\ call.path = p
               /\ p \in IF call.kind = "local" THEN Writable ELSE RemoteWritable
               /\ call.tool \in {"replace", "replaceAll"} =>
                    /\ file[p].hits - file'[p].hits > 0
                    /\ call.expected \in {0, file[p].hits - file'[p].hits}
      BY <1>1, <3>1, <3>2, ToolRunsFiles
    <3> QED
      BY <3>2, <3>3
  <2>3. UNCHANGED file \/ \E s \in Sessions : ToolRuns(s)
    BY <1>1 DEF Next, RuntimeMade, Reset, Memory, Respond, Begin, ModelRetry, Overflow,
       ModelFails, Answered, ToolCalls, Late
  <2> QED
    BY <2>1, <2>2, <2>3
<1>2. IInv /\ [Next]_vars => [Step]_vars
  BY <1>1
<1> QED
  BY <1>2, IInvAlways, PTL DEF Spec, EditsAuthorized
================================================================================
