---------------------------- MODULE AgentHandler ----------------------------
(***************************************************************************)
(* The model handler the bot plugin ships as its agent: respond() of       *)
(* openai-compatible-handler.cjs with its session memory, model client,    *)
(* MCP tools and local file tools.  The plugin calls respond() for one     *)
(* message of a dialog at a time, but for several dialogs at once; all of  *)
(* them share the MCP runtime, which the first request creates, and the    *)
(* files.                                                                  *)
(*                                                                         *)
(* Texts are their sizes.  The commands that only answer (/ping, /meta,    *)
(* /help, /tools, an empty text, a skipped mention) change nothing.        *)
(***************************************************************************)
EXTENDS Naturals, Sequences, FiniteSets, SequencesExt

CONSTANTS Sessions, Paths,
          Readable, Writable,  \* paths inside the allowed roots and not hidden
          RemoteWritable,      \* OPENAI_COMPAT_TOOL_EDIT_...: paths MCP tools may edit
          Sizes,               \* sizes of texts of users and of tool results
          Turns,               \* OPENAI_COMPAT_HISTORY_TURNS
          MaxNotes,            \* OPENAI_COMPAT_MEMORY_MAX_NOTES
          MaxRounds,           \* OPENAI_COMPAT_MCP_MAX_TOOL_ROUNDS
          MaxRetries,          \* OPENAI_COMPAT_MAX_RETRIES
          CallLimit,           \* OPENAI_COMPAT_MCP_MAX_TOOLS_PER_REQUEST
          MaxCompressions,     \* OPENAI_COMPAT_CONTEXT_COMPRESSION_MAX_ATTEMPTS
          Trigger,             \* window * trigger ratio: compress from here on
          Target, Recent,      \* ..._TARGET_CHARS and the part of it for recent messages
          SummaryMax, ToolMax, \* ..._SUMMARY_CHARS, ..._TOOL_CHARS
          MaxWrite,            \* OPENAI_COMPAT_FS_MAX_WRITE_BYTES
          Plans,               \* bound: the tool calls a model answer may ask for
          MaxRequests          \* bound: requests of each session

\* A tool call as the handler reads it from the model's answer.
Calls == [kind : {"local", "remote", "unknown"}, tool : STRING, path : Paths,
          size : Nat, expected : Nat]

ASSUME AgentAssumption ==
  /\ {Readable, Writable, RemoteWritable} \subseteq SUBSET Paths /\ Sizes \subseteq Nat \ {0}
  /\ {Turns, MaxRounds, MaxRetries, MaxRequests} \subseteq Nat
  /\ {MaxNotes, CallLimit, MaxCompressions, Trigger, Target, Recent, SummaryMax, ToolMax, MaxWrite}
       \subseteq Nat \ {0}
  /\ Plans \subseteq Seq(Calls) \ {<<>>}

VARIABLES history,   \* conversationHistory: session -> messages
          notes,     \* sessionMemory: session -> how many notes
          mcp,       \* runtimePromise: "none", "creating", "ready"
          file,      \* path -> [size, hits]: hits of the text an edit looks for
          req,       \* session -> the request being answered
          served,    \* session -> requests so far
          answered   \* session -> answered requests since the last /reset

memory == <<history, notes, answered>>
vars == <<memory, mcp, file, req, served>>

-----------------------------------------------------------------------------
(* Messages for the model.  calls: the tool calls an assistant message     *)
(* asks for, or the one a tool message answers; turn: the request a text   *)
(* belongs to.                                                             *)
Msg(role, size, turn, calls) == [role |-> role, size |-> size, turn |-> turn, calls |-> calls]

SystemPrompt == Msg("system", 1, 0, <<>>)
Summary(size) == Msg("summary", size, 0, <<>>)

\* estimateMessagesChars.
Size(msgs) ==
  LET sum[n \in 0 .. Len(msgs)] == IF n = 0 THEN 0 ELSE sum[n - 1] + msgs[n].size
  IN sum[Len(msgs)]

\* truncateMessageForCompression: answers and tool results are shortened.
Shortened(m) ==
  IF m.role \in {"assistant", "tool"} /\ m.size > ToolMax THEN [m EXCEPT !.size = ToolMax] ELSE m

\* From the newest to the oldest: what still fits is recent, the newest always;
\* an older message may fit where a newer one did not.
Kept(body) ==
  LET n == Len(body)
      from[i \in 1 .. n + 1] ==
        IF i = n + 1 THEN [used |-> 0, keep |-> {}]
        ELSE LET used == from[i + 1].used + body[i].size IN
             IF used <= Recent \/ i = n THEN [used |-> used, keep |-> from[i + 1].keep \cup {i}]
             ELSE from[i + 1]
  IN from[1].keep

\* The k-th position of a set of them.
Nth(S, k) == CHOOSE i \in S : Cardinality({j \in S : j <= i}) = k

Select(msgs, keep) ==
  LET kept == keep \cap DOMAIN msgs
  IN [k \in 1 .. Cardinality(kept) |-> msgs[Nth(kept, k)]]

\* Mutant: the result is not cut to the target.
NoFit(msgs, head) == msgs

\* Messages leave after the head until the target or two messages are left.
Fit(msgs, head) ==
  LET Without(n) == SubSeq(msgs, 1, head) \o SubSeq(msgs, head + n + 1, Len(msgs))
      Enough(n)  == Size(Without(n)) <= Target \/ Len(msgs) - n <= 2 \/ Len(msgs) - n <= head
  IN Without(Min({n \in 0 .. Len(msgs) : Enough(n)}))

\* compressMessagesForContextWindow: the system prompt, a summary of what is
\* archived, what is recent.
Compress(msgs) ==
  IF Len(msgs) <= 2 THEN msgs
  ELSE LET body     == [i \in 1 .. Len(msgs) - 1 |-> Shortened(msgs[i + 1])]
           keep     == Kept(body)
           archived == Select(body, DOMAIN body \ keep)
           summary  == IF archived = <<>> THEN <<>>
                       ELSE <<Summary(Min({Size(archived), SummaryMax}))>>
           head     == <<msgs[1]>> \o summary
       IN Fit(head \o Select(body, keep), Len(head))

-----------------------------------------------------------------------------
(* The session memory.                                                     *)
\* Mutant: trimmed one message too short.
FaultyRemembered(h, turn, size) ==
  LET h2 == h \o <<Msg("user", size, turn, <<>>), Msg("assistant", 1, turn, <<>>)>>
  IN IF Turns > 0 /\ Len(h2) >= 2 * Turns THEN SubSeq(h2, Len(h2) - 2 * Turns + 2, Len(h2)) ELSE h2

\* Two turns appended at once, then trimmed to the last Turns pairs; with
\* Turns = 0 nothing is trimmed.
Remembered(h, turn, size) ==
  LET h2 == h \o <<Msg("user", size, turn, <<>>), Msg("assistant", 1, turn, <<>>)>>
  IN IF Turns > 0 /\ Len(h2) > 2 * Turns THEN SubSeq(h2, Len(h2) - 2 * Turns + 1, Len(h2)) ELSE h2

-----------------------------------------------------------------------------
(* The local tools.  They run to their end in one step of the event loop;  *)
(* [file, ok] is what a call leaves and whether it succeeds.               *)
\* Mutant: the edits are checked against the roots for reading.
FaultyAuthorized(tool, p) == p \in Readable

\* resolveAndAuthorizePath with the roots of the tool.
Authorized(tool, p) == p \in IF tool \in {"write", "append", "replace", "replaceAll"} THEN Writable ELSE Readable

\* The file after fs_write_text and fs_replace_text; expected = 0: not given.
\* hits of a text written are not known.
Edited(tool, f, size, expected) ==
  LET n == IF tool = "replaceAll" THEN f.hits ELSE 1 IN
  CASE tool = "write"  -> IF size <= MaxWrite THEN {[size |-> size, hits |-> h] : h \in 0 .. 1} ELSE {}
    [] tool = "append" -> IF size <= MaxWrite THEN {[f EXCEPT !.size = @ + size]} ELSE {}
    [] OTHER -> IF f.hits > 0 /\ expected \in {0, n} /\ f.size <= MaxWrite
                THEN {[f EXCEPT !.hits = @ - n]} ELSE {}

Edits == {"write", "append", "replace", "replaceAll"}

\* A call: [tool, path, size, expected]; an edit that is not authorised or has
\* no result fails and leaves the files alone.
LocalCall(call) ==
  LET after == IF call.tool \in Edits /\ Authorized(call.tool, call.path)
               THEN Edited(call.tool, file[call.path], call.size, call.expected) ELSE {}
  IN IF after # {} THEN \E f \in after : file' = [file EXCEPT ![call.path] = f]
     ELSE UNCHANGED file

\* enforceToolPermissions: an MCP tool whose name is one of an editor is called
\* only for paths it may edit.  What the server then does is its own affair.
RemoteCall(call) ==
  \/ UNCHANGED file
  \/ /\ call.tool = "edit" /\ call.path \in RemoteWritable
     /\ file' = [file EXCEPT ![call.path].hits = 0]

-----------------------------------------------------------------------------
Free == [at |-> "idle", msgs |-> <<>>, turn |-> 0, size |-> 0, round |-> 0, attempt |-> 0,
         compressions |-> 0, todo |-> <<>>, done |-> 0, local |-> 0, remote |-> 0,
         late |-> FALSE, asked |-> 0]

Set(s, r) == req' = [req EXCEPT ![s] = r]

\* tryCompressByWindowUsage.
Squeezed(r) ==
  IF Size(r.msgs) < Trigger THEN r
  ELSE [r EXCEPT !.msgs = Compress(@), !.compressions = @ + 1]

\* The head of the loop: a round within the limit is compressed and asked.
Asking(r) ==
  IF r.round > MaxRounds THEN Free
  ELSE [Squeezed(r) EXCEPT !.at = "asking", !.attempt = 0, !.asked = @ + 1]

-----------------------------------------------------------------------------
(* Commands.                                                               *)
Reset(s) ==
  /\ req[s].at = "idle" /\ served[s] < MaxRequests
  /\ served' = [served EXCEPT ![s] = @ + 1]
  /\ history' = [history EXCEPT ![s] = <<>>] /\ notes' = [notes EXCEPT ![s] = 0]
  /\ answered' = [answered EXCEPT ![s] = <<>>]
  /\ UNCHANGED <<mcp, file, req>>

Memory(s) ==
  /\ req[s].at = "idle" /\ served[s] < MaxRequests
  /\ served' = [served EXCEPT ![s] = @ + 1]
  /\ \E n \in {0, Min({notes[s] + 1, MaxNotes})} : notes' = [notes EXCEPT ![s] = n]
  /\ UNCHANGED <<history, answered, mcp, file, req>>

\* A message for the model: wait for the MCP runtime, made if there is none.
Respond(s) ==
  /\ req[s].at = "idle" /\ served[s] < MaxRequests
  /\ served' = [served EXCEPT ![s] = @ + 1]
  /\ \E size \in Sizes :
       Set(s, [Free EXCEPT !.at = "runtime", !.turn = served[s] + 1, !.size = size])
  /\ mcp' = IF mcp = "none" THEN "creating" ELSE mcp
  /\ UNCHANGED <<memory, file>>

\* Mutant: who waits for a failed runtime goes on waiting.
FaultyRuntimeMade ==
  /\ mcp = "creating"
  /\ mcp' \in {"none", "ready"} /\ UNCHANGED req
  /\ UNCHANGED <<memory, file, served>>

\* createRuntime: a failure forgets the promise and fails all who wait for it.
RuntimeMade ==
  /\ mcp = "creating"
  /\ \/ mcp' = "ready" /\ UNCHANGED req
     \/ mcp' = "none"
          /\ req' = [s \in Sessions |-> IF req[s].at = "runtime" THEN Free ELSE req[s]]
  /\ UNCHANGED <<memory, file, served>>

\* buildRequestState and the first round.
Begin(s) ==
  /\ req[s].at = "runtime" /\ mcp = "ready"
  /\ Set(s, Asking([req[s] EXCEPT
       !.msgs = <<SystemPrompt>> \o history[s] \o <<Msg("user", req[s].size, req[s].turn, <<>>)>>]))
  /\ UNCHANGED <<memory, mcp, file, served>>

\* The transport fails, or 429, or 5xx: the same payload again, a few times.
ModelRetry(s) ==
  /\ req[s].at = "asking"
  /\ Set(s, IF req[s].attempt < MaxRetries
            THEN [req[s] EXCEPT !.attempt = @ + 1, !.asked = @ + 1] ELSE Free)
  /\ UNCHANGED <<memory, mcp, file, served>>

\* Too long for the model: compressed, and the round begins again.
Overflow(s) ==
  /\ req[s].at = "asking"
  /\ Set(s, IF req[s].compressions < MaxCompressions
            THEN Asking([req[s] EXCEPT !.msgs = Compress(@), !.compressions = @ + 1])
            ELSE Free)
  /\ UNCHANGED <<memory, mcp, file, served>>

\* Any other error, no message in the answer, no text in it.
ModelFails(s) ==
  /\ req[s].at = "asking"
  /\ Set(s, Free)
  /\ UNCHANGED <<memory, mcp, file, served>>

\* A text: both turns are remembered, at once and only now.
Answered(s) ==
  /\ req[s].at = "asking"
  /\ history' = [history EXCEPT ![s] = Remembered(@, req[s].turn, req[s].size)]
  /\ answered' = [answered EXCEPT ![s] = Append(@, req[s].turn)]
  /\ Set(s, Free)
  /\ UNCHANGED <<notes, mcp, file, served>>

CallId(r, i) == <<r.round, i>>

\* Tool calls: the assistant message joins the messages.
ToolCalls(s) ==
  /\ req[s].at = "asking"
  /\ \E plan \in Plans :
       LET r == req[s] IN
       Set(s, [r EXCEPT !.at = "tools", !.todo = plan, !.done = 0,
                        !.msgs = Append(@, Msg("assistant", 1, r.turn,
                                               [i \in 1 .. Len(plan) |-> CallId(r, i)]))])
  /\ UNCHANGED <<memory, mcp, file, served>>

\* The total time for tools is over.
Late(s) ==
  /\ req[s].at = "tools" /\ ~req[s].late
  /\ Set(s, [req[s] EXCEPT !.late = TRUE])
  /\ UNCHANGED <<memory, mcp, file, served>>

\* Mutant: one call too many.
FaultyAllowed(r, kind) ==
  /\ ~r.late
  /\ kind = "local" => r.local <= CallLimit
  /\ kind = "remote" => r.remote <= CallLimit

\* What the budgets allow: each kind of tool has one of its own.
Allowed(r, kind) ==
  /\ ~r.late
  /\ kind = "local" => r.local < CallLimit
  /\ kind = "remote" => r.remote < CallLimit

\* Mutant: a call over the budget leaves no message.
FaultyResults(r, size) ==
  IF Allowed(r, Head(r.todo).kind) THEN <<Msg("tool", size, r.turn, <<CallId(r, r.done + 1)>>)>> ELSE <<>>

\* The message a call leaves: its result, or the text of its error.
Results(r, size) == <<Msg("tool", size, r.turn, <<CallId(r, r.done + 1)>>)>>

\* executeToolCalls: the next call, one after the other.  It is local, or of an
\* MCP server (which may time out), or unknown; each gets one result, be it
\* the text of an error.  After the last the messages are squeezed and the
\* next round begins.
ToolRuns(s) ==
  LET r    == req[s]
      call == Head(r.todo)
      runs == Allowed(r, call.kind)
  IN
  /\ r.at = "tools"
  /\ \E size \in Sizes :
       LET r2 == [r EXCEPT !.todo = Tail(@), !.done = @ + 1,
                           !.local = IF runs /\ call.kind = "local" THEN @ + 1 ELSE @,
                           !.remote = IF runs /\ call.kind = "remote" THEN @ + 1 ELSE @,
                           !.msgs = @ \o Results(r, size)]
       IN Set(s, IF r2.todo # <<>> THEN r2 ELSE Asking([Squeezed(r2) EXCEPT !.round = @ + 1]))
  /\ CASE runs /\ call.kind = "local"  -> LocalCall(call)
       [] runs /\ call.kind = "remote" -> RemoteCall(call)
       [] OTHER                        -> UNCHANGED file
  /\ UNCHANGED <<memory, mcp, served>>

-----------------------------------------------------------------------------
Init ==
  /\ history = [s \in Sessions |-> <<>>] /\ notes = [s \in Sessions |-> 0]
  /\ answered = [s \in Sessions |-> <<>>]
  /\ mcp = "none"
  /\ file = [p \in Paths |-> [size |-> 1, hits |-> 2]]
  /\ req = [s \in Sessions |-> Free]
  /\ served = [s \in Sessions |-> 0]

Next ==
  \/ RuntimeMade
  \/ \E s \in Sessions :
       \/ Reset(s) \/ Memory(s) \/ Respond(s) \/ Begin(s)
       \/ ModelRetry(s) \/ Overflow(s) \/ ModelFails(s) \/ Answered(s)
       \/ ToolCalls(s) \/ Late(s) \/ ToolRuns(s)

Spec == Init /\ [][Next]_vars

-----------------------------------------------------------------------------
Roles == {"system", "summary", "user", "assistant", "tool"}

(* Type invariant.                                                         *)
TypeOK ==
  /\ mcp \in {"none", "creating", "ready"}
  /\ \A p \in Paths : file[p].size \in Nat /\ file[p].hits \in 0 .. 2
  /\ \A s \in Sessions :
       /\ notes[s] \in 0 .. MaxNotes /\ served[s] \in 0 .. MaxRequests
       /\ req[s].at \in {"idle", "runtime", "asking", "tools"}
       /\ req[s].at = "runtime" => mcp # "none"
       /\ req[s].at = "tools" => req[s].todo # <<>>
       /\ req[s].at \in {"asking", "tools"} =>
            /\ req[s].msgs # <<>> /\ req[s].msgs[1] = SystemPrompt
            /\ \A i \in DOMAIN req[s].msgs : req[s].msgs[i].role \in Roles

(* What a session remembers is its answered requests since the last reset, *)
(* question and answer together and in order, the newest Turns of them; a  *)
(* request that failed leaves nothing.                                     *)
HistoryIsAnswers ==
  \A s \in Sessions :
    LET n == Len(answered[s])
        k == IF Turns > 0 THEN Min({n, Turns}) ELSE n IN
    /\ Len(history[s]) = 2 * k
    /\ \A i \in 1 .. k :
         LET q == history[s][2 * i - 1]
             a == history[s][2 * i] IN
         /\ q.role = "user" /\ a.role = "assistant"
         /\ q.turn = answered[s][n - k + i] /\ a.turn = q.turn

(* What is sent to the model is under the trigger, or was cut down to the  *)
(* target, or is only a head and one message more.                         *)
FitsOrMinimal ==
  \A s \in Sessions :
    req[s].at = "asking" =>
      LET msgs == req[s].msgs IN
      Size(msgs) < Trigger \/ Size(msgs) <= Target \/ Len(msgs) <= 2

(* Unless messages were compressed, the model sees the question and, right *)
(* behind every message with tool calls, one result for each of them in    *)
(* their order, also for the calls that failed.                            *)
CallsAnswered ==
  \A s \in Sessions :
    (req[s].at = "asking" /\ req[s].compressions = 0) =>
      LET msgs == req[s].msgs IN
      /\ \E i \in DOMAIN msgs : msgs[i].role = "user" /\ msgs[i].turn = req[s].turn
      /\ \A i \in DOMAIN msgs : msgs[i].role = "tool" =>
           \E j \in 1 .. i - 1 : \E k \in DOMAIN msgs[j].calls :
             j + k = i /\ msgs[j].role = "assistant" /\ msgs[j].calls[k] = msgs[i].calls[1]
      /\ \A j \in DOMAIN msgs : msgs[j].role = "assistant" =>
           j + Len(msgs[j].calls) <= Len(msgs)

(* However the model answers, one request asks it a bounded number of      *)
(* times (a round taken back for an overflow is paid with a compression)   *)
(* and runs at most the limit of calls of each kind of tools.              *)
LoopBounded ==
  \A s \in Sessions :
    /\ req[s].asked <= (MaxRounds + 1 + MaxCompressions) * (MaxRetries + 1)
    /\ req[s].local <= CallLimit /\ req[s].remote <= CallLimit

(* A file changes only by a call of a running request, at a path that kind *)
(* of tool may edit, and never by a replacement that found the text another*)
(* number of times than the call expects.                                  *)
EditsAuthorized ==
  [][\A p \in Paths : file'[p] # file[p] =>
       \E s \in Sessions :
         LET call == Head(req[s].todo)
             n    == file[p].hits - file'[p].hits IN
         /\ req[s].at = "tools" /\ call.path = p
         /\ p \in IF call.kind = "local" THEN Writable ELSE RemoteWritable
         /\ call.tool \in {"replace", "replaceAll"} => n > 0 /\ call.expected \in {0, n}]_vars
=============================================================================
