------------------------------ MODULE Pipeline ------------------------------
(***************************************************************************)
(* The agent execution pipeline (internal/burrow/pipeline.go): every        *)
(* request runs the stages in a goroutine of its own and streams chunks to  *)
(* its consumer over a bounded channel; requests share the sessions and     *)
(* messages tables.  WorkspaceLoader, ModelSelector and ToolPolicyFilter    *)
(* never fail and only fill in prompt data, so they have no action here.    *)
(***************************************************************************)
EXTENDS Integers, Sequences, FiniteSets, ToolProtocol

CONSTANTS
  Requests,        \* requests handed to Pipeline.Execute
  Keys,            \* session keys of one agent
  KeyOf,           \* the session key each request names
  ClientRoles,     \* roles clients give their last message, which nothing checks
  Tools,           \* tool_use ids the model may produce (Gemini, Ollama: the tool name)
  MaxIter,         \* maxToolIterations, 10 by default
  HistoryLimit,    \* rows loaded by PromptBuilder, 20 in the code
  ChanCap,         \* capacity of the output channel, 64 in the code
  EarlierTurns,    \* how many finished turns a session may start with
  MaxChunks,       \* bound: text and tool_call chunks per LLM stream
  UsageReports     \* bound: usage chunks per LLM stream

ASSUME PipelineAssumption ==
  /\ KeyOf \in [Requests -> Keys]
  /\ MaxIter \in Nat \ {0}
  /\ HistoryLimit \in Nat \ {0}
  /\ ChanCap \in Nat \ {0}
  /\ EarlierTurns \subseteq Nat
  /\ MaxChunks \in Nat
  /\ UsageReports \in Nat
  /\ Requests \cap Nat = {}

VARIABLES
  pc,          \* the stage each request's goroutine is in
  cancelled,   \* the request's context is done
  msgs,        \* req.Messages
  sys,         \* req.SystemPrompt # ""
  sent,        \* messages of the latest LLM request
  calls,       \* req.ToolCalls
  results,     \* toolResults of the current iteration
  content,     \* text chunks in AssistantContent
  usage,       \* req.Usage (0: nil)
  iter,        \* tool-loop iterations begun
  got,         \* [text, reports]: chunks received from the current LLM stream
  out,         \* chunk types buffered in OutputCh
  delivered,   \* chunk types the consumer has taken from OutputCh
  rows,        \* messages table, per session, in created_at order
  tokens,      \* sessions.total_*_tokens
  spent,       \* tokens the provider has charged each request (history variable)
  extracted    \* requests handed to the memory extractor

reqVars == <<msgs, sys, sent, calls, results, content, usage, iter, got>>
chanVars == <<out, delivered>>
dbVars == <<rows, tokens, extracted>>
vars == <<pc, cancelled, reqVars, chanVars, dbVars, spent>>

Stages == {"idle", "session_resolver", "prompt_builder", "llm_invoker", "compacting",
           "llm_stream", "tool_executor", "executing", "loop_stream", "persist_user",
           "persist_assistant", "update_tokens", "finished", "failed", "closing", "closed"}

Chunks == {"text", "tool_result", "done", "error"}

Message == [role : {"system", "user", "assistant", "tool"} \cup ClientRoles,
            turn : Requests \cup Nat,
            calls : Seq(Tools),
            results : Seq(Tools)]

Row == [role : {"user", "assistant"}, turn : Requests \cup Nat, text : Nat]

Plain(role, turn) == [role |-> role, turn |-> turn, calls |-> <<>>, results |-> <<>>]

\* Rows of turns 1..n, answered before the model starts.
Answered(n) ==
  [i \in 1..(2 * n) |-> [role |-> IF i % 2 = 1 THEN "user" ELSE "assistant",
                         turn |-> (i + 1) \div 2, text |-> 1]]

Init ==
  /\ pc = [r \in Requests |-> "idle"]
  /\ cancelled = [r \in Requests |-> FALSE]
  /\ msgs = [r \in Requests |-> <<>>]
  /\ sys = [r \in Requests |-> FALSE]
  /\ sent = [r \in Requests |-> <<>>]
  /\ calls = [r \in Requests |-> <<>>]
  /\ results = [r \in Requests |-> <<>>]
  /\ content = [r \in Requests |-> 0]
  /\ usage = [r \in Requests |-> 0]
  /\ iter = [r \in Requests |-> 0]
  /\ got = [r \in Requests |-> [data |-> 0, reports |-> 0]]
  /\ out = [r \in Requests |-> <<>>]
  /\ delivered = [r \in Requests |-> <<>>]
  /\ rows \in [Keys -> {Answered(n) : n \in EarlierTurns}]
  /\ tokens = [k \in Keys |-> 0]
  /\ spent = [r \in Requests |-> 0]
  /\ extracted = {}

-----------------------------------------------------------------------------
Goto(r, from, to) ==
  /\ pc[r] = from
  /\ pc' = [pc EXCEPT ![r] = to]

\* Fault: a send that ignores the capacity.
UnboundedEmit(r, chunk) ==
  /\ out' = [out EXCEPT ![r] = Append(@, chunk)]
  /\ UNCHANGED delivered

\* A send on OutputCh blocks while the buffer is full.
Emit(r, chunk) ==
  /\ Len(out[r]) < ChanCap
  /\ out' = [out EXCEPT ![r] = Append(@, chunk)]
  /\ UNCHANGED delivered

Execute(r) ==
  /\ Goto(r, "idle", "session_resolver")
  /\ UNCHANGED <<cancelled, reqVars, chanVars, dbVars, spent>>

\* GetOrCreate is one upsert; with a done context, or a database error, it fails.
ResolveSession(r) ==
  /\ \/ ~cancelled[r] /\ Goto(r, "session_resolver", "prompt_builder")
     \/ Goto(r, "session_resolver", "failed")
  /\ UNCHANGED <<cancelled, reqVars, chanVars, dbVars, spent>>

\* ListBySession: ORDER BY created_at ASC LIMIT 20 OFFSET 0.
History(k) ==
  LET n == IF Len(rows[k]) < HistoryLimit THEN Len(rows[k]) ELSE HistoryLimit
  IN  [i \in 1..n |-> Plain(rows[k][i].role, rows[k][i].turn)]

\* A failed history query is only logged: the prompt then has no history.  The
\* request's message keeps the role its client gave it: the chat handler says
\* "user", the completions handler passes on whatever it was sent.
BuildPrompt(r) ==
  /\ Goto(r, "prompt_builder", "llm_invoker")
  /\ sys' \in {[sys EXCEPT ![r] = b] : b \in BOOLEAN}
  /\ \E role \in ClientRoles :
       \/ /\ ~cancelled[r]
          /\ msgs' = [msgs EXCEPT ![r] = Append(History(KeyOf[r]), Plain(role, r))]
       \/ msgs' = [msgs EXCEPT ![r] = <<Plain(role, r)>>]
  /\ UNCHANGED <<cancelled, sent, calls, results, content, usage, iter, got,
                 chanVars, dbVars, spent>>

-----------------------------------------------------------------------------
WithSystem(r, m) == IF sys[r] THEN <<Plain("system", r)>> \o m ELSE m

\* Fault: keeps the oldest messages instead of the recent ones.
CompactedToOldest(m, r) == <<m[1], Plain("user", r)>> \o SubSeq(m, 2, 5)

\* compactMessages: the first message, the summary, the last four.
Compacted(m, r) ==
  <<m[1], Plain("user", r)>> \o SubSeq(m, Len(m) - 3, Len(m))

\* client.Stream either fails at once or opens a stream.
OpenStream(r, from, m, stream) ==
  \/ /\ ~cancelled[r]
     /\ Goto(r, from, stream)
     /\ sent' = [sent EXCEPT ![r] = m]
     /\ got' = [got EXCEPT ![r] = [data |-> 0, reports |-> 0]]
     /\ content' = [content EXCEPT ![r] = 0]
  \/ /\ Goto(r, from, "failed")
     /\ UNCHANGED <<sent, got, content>>

InvokeLLM(r) ==
  /\ OpenStream(r, "llm_invoker", WithSystem(r, msgs[r]), "llm_stream")
  /\ UNCHANGED <<cancelled, msgs, sys, calls, results, usage, iter, chanVars, dbVars, spent>>

\* The estimate exceeds the threshold: the stage starts the summarizer
\* goroutine and waits for its result.
StartCompaction(r) ==
  /\ Len(WithSystem(r, msgs[r])) > 5
  /\ Goto(r, "llm_invoker", "compacting")
  /\ UNCHANGED <<cancelled, reqVars, chanVars, dbVars, spent>>

\* The summary arrives, or its failure: then the original messages are sent.
\* req.Messages keeps the full history either way.
Summarized(r) ==
  /\ LET all == WithSystem(r, msgs[r])
     IN  \/ OpenStream(r, "compacting", Compacted(all, r), "llm_stream")
         \/ OpenStream(r, "compacting", all, "llm_stream")
  /\ UNCHANGED <<cancelled, msgs, sys, calls, results, usage, iter, chanVars, dbVars, spent>>

-----------------------------------------------------------------------------
Streaming(r) == pc[r] \in {"llm_stream", "loop_stream"}

\* Fault: "=" instead of "+=".
LastTextOnly(r) == 1

\* assistantContent += chunk.Content
TextSoFar(r) == content[r] + 1

RecvText(r) ==
  /\ Streaming(r)
  /\ got[r].data < MaxChunks
  /\ got' = [got EXCEPT ![r].data = @ + 1]
  /\ Emit(r, "text")
  /\ content' = [content EXCEPT ![r] = TextSoFar(r)]
  /\ UNCHANGED <<pc, cancelled, msgs, sys, sent, calls, results, usage, iter, dbVars, spent>>

RecvToolCall(r) ==
  /\ Streaming(r)
  /\ got[r].data < MaxChunks
  /\ got' = [got EXCEPT ![r].data = @ + 1]
  /\ \E id \in Tools : calls' = [calls EXCEPT ![r] = Append(@, id)]
  /\ UNCHANGED <<pc, cancelled, msgs, sys, sent, results, content, usage, iter,
                 chanVars, dbVars, spent>>

\* Fault: the tool loop keeps its last report like LLMInvoker does.
LastReportOnly(r, report) == report

\* LLMInvoker keeps the last report, the tool loop adds every report.
UsageWith(r, report) == IF pc[r] = "llm_stream" THEN report ELSE usage[r] + report

\* A report carries the tokens its stream has used so far.
RecvUsage(r) ==
  LET report == got[r].reports + 1
  IN  /\ Streaming(r)
      /\ got[r].reports < UsageReports
      /\ got' = [got EXCEPT ![r].reports = report]
      /\ spent' = [spent EXCEPT ![r] = @ + 1]
      /\ usage' = [usage EXCEPT ![r] = UsageWith(r, report)]
      /\ UNCHANGED <<pc, cancelled, msgs, sys, sent, calls, results, content, iter,
                     chanVars, dbVars>>

\* Fault: the error chunk is forwarded and the stage goes on.
ForwardError(r) ==
  /\ Goto(r, "llm_stream", "tool_executor")
  /\ Emit(r, "error")
  /\ UNCHANGED <<cancelled, reqVars, dbVars, spent>>

RecvError(r) ==
  /\ \/ Goto(r, "llm_stream", "failed")
     \/ Goto(r, "loop_stream", "failed")
  /\ UNCHANGED <<cancelled, reqVars, chanVars, dbVars, spent>>

\* The chunk channel is closed: a complete answer, a truncated one (EOF) and a
\* cancelled one look the same.
StreamEnd(r) ==
  /\ \/ Goto(r, "llm_stream", "tool_executor")
     \/ Goto(r, "loop_stream", "tool_executor")
  /\ UNCHANGED <<cancelled, reqVars, chanVars, dbVars, spent>>

-----------------------------------------------------------------------------
LoopEnds(r) == calls[r] = <<>> \/ iter[r] = MaxIter

\* Fault: one message per tool_use block, and only the first is kept.
FirstToolUse(r) ==
  [role |-> "assistant", turn |-> r, calls |-> <<Head(calls[r])>>, results |-> <<>>]

ToolUseMessage(r) ==
  [role |-> "assistant", turn |-> r, calls |-> calls[r], results |-> <<>>]

\* One assistant message holds all the tool_use blocks of the iteration.
BeginIteration(r) ==
  /\ ~LoopEnds(r)
  /\ Goto(r, "tool_executor", "executing")
  /\ msgs' = [msgs EXCEPT ![r] = Append(@, ToolUseMessage(r))]
  /\ content' = [content EXCEPT ![r] = 0]
  /\ results' = [results EXCEPT ![r] = <<>>]
  /\ iter' = [iter EXCEPT ![r] = @ + 1]
  /\ UNCHANGED <<cancelled, sys, sent, calls, usage, got, chanVars, dbVars, spent>>

\* Tool calls that are still pending at the iteration limit are dropped.
LeaveToolLoop(r) ==
  /\ LoopEnds(r)
  /\ Goto(r, "tool_executor", "persist_user")
  /\ UNCHANGED <<cancelled, reqVars, chanVars, dbVars, spent>>

\* An unknown tool or a failed one yields an "Error: ..." result, never a stage error.
ExecuteTool(r) ==
  /\ pc[r] = "executing"
  /\ Len(results[r]) < Len(calls[r])
  /\ Emit(r, "tool_result")
  /\ results' = [results EXCEPT ![r] = Append(@, calls[r][Len(@) + 1])]
  /\ UNCHANGED <<pc, cancelled, msgs, sys, sent, calls, content, usage, iter, got,
                 dbVars, spent>>

\* One tool message holds all the results; the model is called again with the
\* whole of req.Messages, which is not compacted here.
ReturnResults(r) ==
  LET m == Append(msgs[r], [role |-> "tool", turn |-> r,
                            calls |-> <<>>, results |-> results[r]])
  IN  /\ pc[r] = "executing"
      /\ Len(results[r]) = Len(calls[r])
      /\ msgs' = [msgs EXCEPT ![r] = m]
      /\ calls' = [calls EXCEPT ![r] = <<>>]
      /\ OpenStream(r, "executing", WithSystem(r, m), "loop_stream")
      /\ UNCHANGED <<cancelled, sys, results, usage, iter, chanVars, dbVars, spent>>

-----------------------------------------------------------------------------
\* messageRepo.Append: an insert that may fail, and does on a done context.
Insert(r, row) ==
  \/ /\ ~cancelled[r]
     /\ rows' = [rows EXCEPT ![KeyOf[r]] = Append(@, row)]
  \/ UNCHANGED rows

PersistUser(r) ==
  /\ Goto(r, "persist_user", "persist_assistant")
  /\ Insert(r, [role |-> "user", turn |-> r, text |-> 1])
  /\ UNCHANGED <<cancelled, reqVars, chanVars, tokens, extracted, spent>>

PersistAssistant(r) ==
  /\ Goto(r, "persist_assistant", "update_tokens")
  /\ IF content[r] > 0
       THEN Insert(r, [role |-> "assistant", turn |-> r, text |-> content[r]])
       ELSE UNCHANGED rows
  /\ UNCHANGED <<cancelled, reqVars, chanVars, tokens, extracted, spent>>

\* UpdateTokenCounts increments in SQL; ExtractAsync is called last.
UpdateTokens(r) ==
  /\ Goto(r, "update_tokens", "finished")
  /\ \/ ~cancelled[r] /\ tokens' = [tokens EXCEPT ![KeyOf[r]] = @ + usage[r]]
     \/ UNCHANGED tokens
  /\ extracted' = IF content[r] > 0 THEN extracted \cup {r} ELSE extracted
  /\ UNCHANGED <<cancelled, reqVars, chanVars, rows, spent>>

-----------------------------------------------------------------------------
SendDone(r) ==
  /\ Goto(r, "finished", "closing")
  /\ Emit(r, "done")
  /\ UNCHANGED <<cancelled, reqVars, dbVars, spent>>

SendError(r) ==
  /\ Goto(r, "failed", "closing")
  /\ Emit(r, "error")
  /\ UNCHANGED <<cancelled, reqVars, dbVars, spent>>

\* Fault: the deferred close is missing.
NeverClose(r) == pc[r] = "closing" /\ UNCHANGED vars

CloseOutput(r) ==
  /\ Goto(r, "closing", "closed")
  /\ UNCHANGED <<cancelled, reqVars, chanVars, dbVars, spent>>

Consume(r) ==
  /\ out[r] # <<>>
  /\ delivered' = [delivered EXCEPT ![r] = Append(@, Head(out[r]))]
  /\ out' = [out EXCEPT ![r] = Tail(@)]
  /\ UNCHANGED <<pc, cancelled, reqVars, dbVars, spent>>

\* chat.cancel, or the HTTP client going away.
Cancel(r) ==
  /\ pc[r] \notin {"idle", "closed"}
  /\ ~cancelled[r]
  /\ cancelled' = [cancelled EXCEPT ![r] = TRUE]
  /\ UNCHANGED <<pc, reqVars, chanVars, dbVars, spent>>

\* What the request's goroutine does by itself.
Run(r) ==
  \/ ResolveSession(r) \/ BuildPrompt(r) \/ InvokeLLM(r) \/ StartCompaction(r)
  \/ RecvText(r) \/ RecvToolCall(r) \/ RecvUsage(r) \/ RecvError(r) \/ StreamEnd(r)
  \/ BeginIteration(r) \/ LeaveToolLoop(r) \/ ExecuteTool(r) \/ ReturnResults(r)
  \/ PersistUser(r) \/ PersistAssistant(r) \/ UpdateTokens(r)
  \/ SendDone(r) \/ SendError(r) \/ CloseOutput(r)

Next == \E r \in Requests :
  Execute(r) \/ Run(r) \/ Summarized(r) \/ Consume(r) \/ Cancel(r)

Spec == Init /\ [][Next]_vars

\* The Go scheduler runs every goroutine; the consumer ranges over the channel
\* until it is closed.
Schedule == \A r \in Requests : WF_vars(Run(r)) /\ WF_vars(Consume(r))

\* Providers end their streams: the HTTP clients set no timeout of their own.
FairSpec == Spec /\ Schedule /\ \A r \in Requests : WF_vars(Summarized(r))

\* The same, but the summary model may never answer.
SilentSummarizerSpec == Spec /\ Schedule

-----------------------------------------------------------------------------
TypeOK ==
  /\ pc \in [Requests -> Stages]
  /\ cancelled \in [Requests -> BOOLEAN]
  /\ msgs \in [Requests -> Seq(Message)]
  /\ sys \in [Requests -> BOOLEAN]
  /\ sent \in [Requests -> Seq(Message)]
  /\ calls \in [Requests -> Seq(Tools)]
  /\ results \in [Requests -> Seq(Tools)]
  /\ content \in [Requests -> Nat]
  /\ usage \in [Requests -> Nat]
  /\ iter \in [Requests -> 0..MaxIter]
  /\ got \in [Requests -> [data : 0..MaxChunks, reports : 0..UsageReports]]
  /\ out \in [Requests -> Seq(Chunks)]
  /\ \A r \in Requests : Len(out[r]) <= ChanCap
  /\ delivered \in [Requests -> Seq(Chunks)]
  /\ rows \in [Keys -> Seq(Row)]
  /\ tokens \in [Keys -> Nat]
  /\ spent \in [Requests -> Nat]
  /\ extracted \subseteq Requests

-----------------------------------------------------------------------------
(* The tool protocol *)

\* A tool message gives results, unless it is the request's own message and its client
\* said "tool".
ToolMessagesAnswer(m, r) == \A i \in 1..Len(m) :
  m[i].role = "tool" =>
    \/ m[i].results # <<>>
    \/ "tool" \in ClientRoles /\ m[i] = Plain("tool", r)

\* Every LLM request pairs each assistant message that has tool_use blocks with
\* one tool message, right after it, answering the same ids in the same order,
\* across history, compaction and iterations ("Anthropic API requires all
\* tool_use in a single assistant message", ToolExecutor.Process).  The one tool
\* message with no tool_use before it is the client's own question under that
\* role, which PromptBuilder does not check; it carries no results.
ToolUsePaired == \A r \in Requests :
  Paired(sent[r]) /\ ToolMessagesAnswer(sent[r], r)

-----------------------------------------------------------------------------
(* The prompt *)

\* The first request of a turn ends with the message its client sent, under the role
\* the client gave it, compacted or not, and holds at most the loaded history,
\* the system prompt and that message.
PromptEndsWithQuestion == \A r \in Requests :
  pc[r] = "llm_stream" =>
    /\ sent[r][Len(sent[r])] \in {Plain(role, r) : role \in ClientRoles}
    /\ sent[r][Len(sent[r])] = msgs[r][Len(msgs[r])]
    /\ Len(sent[r]) <= HistoryLimit + 2
    /\ sys[r] => sent[r][1].role = "system"

\* The turn before this one is part of the prompt: when the history is loaded,
\* its last message is the session's latest row.
LatestRowLoaded == [][\A r \in Requests :
  LET k == KeyOf[r] IN
  (pc[r] = "prompt_builder" /\ pc'[r] # pc[r] /\ Len(msgs'[r]) > 1) =>
    LET last == rows[k][Len(rows[k])] IN
    msgs'[r][Len(msgs'[r]) - 1] = Plain(last.role, last.turn)]_vars

-----------------------------------------------------------------------------
(* The stored conversation against the streamed one *)

Stream(r) == delivered[r] \o out[r]

RowsOf(r, role) ==
  {i \in DOMAIN rows[KeyOf[r]] : rows[KeyOf[r]][i].turn = r /\ rows[KeyOf[r]][i].role = role}

\* Text chunks of the stream that follow its last tool result.
FinalText(r) ==
  {i \in DOMAIN Stream(r) : Stream(r)[i] = "text"
     /\ \A j \in DOMAIN Stream(r) : j > i => Stream(r)[j] # "tool_result"}

\* The stored answer is what the consumer was shown after the last tool result,
\* no more (text of earlier iterations) and no less (SessionPersister stores
\* AssistantContent, the loops forward every chunk).
AnswerIsFinalText == \A r \in Requests : \A i \in RowsOf(r, "assistant") :
  rows[KeyOf[r]][i].text = Cardinality(FinalText(r))

\* A turn that completes has counted every LLM call it made once: the first by
\* LLMInvoker, the others by the tool loop (one usage report per stream).
UsageIsSpent == \A r \in Requests :
  pc[r] \in {"persist_user", "persist_assistant", "update_tokens"} => usage[r] = spent[r]

-----------------------------------------------------------------------------
(* The turn as its consumer sees it *)

TurnPhase(r) ==
  CASE pc[r] = "idle" -> "waiting"
    [] pc[r] \in {"persist_user", "persist_assistant", "update_tokens", "finished"} -> "saving"
    [] pc[r] = "closing" /\ Stream(r)[Len(Stream(r))] = "done" -> "completed"
    [] pc[r] = "closing" /\ Stream(r)[Len(Stream(r))] # "done" -> "abandoned"
    [] pc[r] = "closed" -> "closed"
    [] OTHER -> "answering"

T == INSTANCE Turn WITH
  Turns <- Requests,
  phase <- [r \in Requests |-> TurnPhase(r)],
  shown <- [r \in Requests |-> Stream(r)],
  saved <- [r \in Requests |-> [user |-> Cardinality(RowsOf(r, "user")),
                                 assistant |-> Cardinality(RowsOf(r, "assistant"))]]

\* Every request is a Turn, however requests interleave on a session and
\* wherever they are cancelled: one terminal chunk, nothing after it, rows only
\* for turns that end with "done" and only before that chunk.
TurnSafety == T!SafetySpec

\* Under FairSpec every turn that began also ends and closes its channel.
TurnLiveness == T!Spec

\* A turn does not wait for the summarizer: once compaction has started, the turn
\* goes on even if the summary never arrives.
CompactionInBackground == \A r \in Requests :
  pc[r] = "compacting" ~> pc[r] # "compacting"
=============================================================================
