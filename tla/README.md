# A verification project for CapyClaw

CapyClaw is a multi-tenant gateway for LLM agents, written in Go. A gateway
process accepts requests over HTTP and WebSocket, runs each as a turn of an
agent (a pipeline of stages that calls a model and tools), stores the
conversation in PostgreSQL, and uses Redis for rate limits and for the queue of
scheduled prompts. Several replicas of the gateway share one database and one
Redis (`deploy/k8s`, `deploy/docker`).

The project holds TLA+ modules that model the concurrent and stateful parts of
the gateway, TLC configurations that check them on small instances, and proofs
for TLAPS of the properties that matter most. `PROJECT.json` lists the
components, the runs, the source lines each definition models, the hazards of the
code, and the proved theorems. All paths below are relative to `src/`.

Contents: 1 inventory, 2 the modules, 3 the runs, 4 fairness, 5 the proofs,
6 findings, 7 what is not modelled, 8 the plan.

## 1. Inventory

For each component: the state it keeps, its operations, who it interacts with,
what is hard about it, and what makes it correct.

### Agent pipeline — `internal/burrow/pipeline.go`, `agent.go`, `session.go`

- State: one `PipelineRequest` per turn (messages, tool calls, assistant content,
  usage, an output channel of 64 chunks). Shared: tables `sessions`, `messages`,
  the tool registry, the LLM client.
- Operations: `Execute` starts one goroutine per turn that runs
  WorkspaceLoader, SessionResolver, PromptBuilder, ToolPolicyFilter,
  ModelSelector, LLMInvoker, ToolExecutor (the tool loop) and SessionPersister,
  sends `done` or `error` and closes the channel. `ExecuteSync` drains it.
- Interacts with: the HTTP and WebSocket handlers and the cron worker (consumers
  of the channel), LLM providers, tools, repositories, the memory extractor.
- Hard: turns of one session are not serialised; a turn can be cancelled
  anywhere; each stage may fail; sends block on a full channel; the message list
  is cut, extended and resent by position.
- Correct when: one terminal chunk ends each turn and nothing follows it; rows are
  stored only for turns that end with `done`; each `tool_use` is answered in the
  next message; the stored answer is the streamed one; tokens are counted once.

### Context management — `internal/burrow/instinct`

- State: none between calls. `compactMessages` starts a summarizer goroutine and
  waits for it.
- Hard: the summary may fail or never come; the cut must keep the question and
  the tool protocol.

### Session and message store — `internal/pond/pebble`

- State: `sessions` (status, token totals), `messages` in `created_at` order.
- Operations: upsert, list with limit and offset, append, add to totals, archive,
  replace a session's messages by a summary (`POST /sessions/{id}/compact`).
- Hard: several statements of one turn are not one transaction; a manual
  compaction deletes rows while a turn appends.

### WebSocket connection — `internal/riverbank/ws`

- State per connection: a hub with one client, its send channel of 256 frames, the
  two pumps, `activeStreams` (session key to cancel function), the event counter.
- Operations: read pump (one goroutine per request), write pump,
  `HandleChatSend`, `HandleChatCancel`, queries, ping, close.
- Interacts with: the pipeline (whose context is `context.Background()`, so a
  disconnect does not cancel a turn).
- Hard: streams of one session share a key; frames are dropped when the client is
  slow; goroutines outlive the connection whose channel they write to.
- Correct when: a cancel hits a stream that is in progress, exactly one, of its
  own session; events keep their order; streams end although nobody reads; no
  send reaches a closed channel.

### Cron scheduler and worker — `internal/lodge/drift`, cron handlers, `tools_cron.go`

- State: table `cron_jobs` (shared), Redis task queue (shared), per replica an
  asynq scheduler with its entries and the map `entryIDs`.
- Operations: load at start, create, enable, disable, delete (each a statement
  followed by calls on the scheduler), tick, run a task, retry.
- Hard: two sources of truth, unguarded map, read-then-act in `UnscheduleJob` and in
  the enable handler, crashes between steps, replicas that do not tell each other.
- Correct when: the map names live entries; a job fires from one entry per
  replica; a disabled or deleted job stops; every task leaves the queue.

### Tool registry, policy and executor — `internal/burrow/nibble`

- State: the registry (name to tool and handler, one lock), lazily created
  sandboxes per tier, allow and deny lists of an agent.
- Operations: register (by builtins, a workspace's skills, MCP servers, herd),
  unregister, list by policy, execute, close.
- Hard: one registry for all agents, rewritten while turns list and run; policy is
  applied when tools are offered and not when they run; `Close` against a running
  execution.
- Correct when: a tool that was offered is there when it is called; one sandbox per
  tier is created, and no other is left open.

The built-in tools themselves (files, exec, web, memory, sessions, cron, messages)
are single calls without shared state of several steps.

### LLM client, failover, streaming, providers — `internal/burrow/llm`

- State: provider table, circuit breakers, per stream the accumulated deltas of
  tool calls.
- Operations: route by model prefix, complete, stream, fail over, parse the wire
  format of five providers into chunks.
- Hard: a stream that fails after it began; deltas of several calls interleaved;
  truncation before the final event; usage reported cumulatively or twice.
- Correct when: each provider is tried at most once per request; a tool call is
  emitted once, whole, and only if the response completed; usage is counted once.

### Multi-agent herd — `internal/burrow/herd`

- State: agents, their runners and result channels, parent and children.
- Operations: spawn, stop, delegate, send; sequential, parallel and supervisor
  workflows.
- Hard: find-or-spawn in two steps, `Stop` during a delegation, workers that fail
  among others that succeed.
- Correct when: a workflow ends with one result or error per task, in its place; a
  parent has one child per slug; no running child is lost from the manager.

### MCP client, transports, connection manager — `pkg/mcp`, `internal/burrow/mcp_manager.go`

- State: pending calls by id, one receive goroutine, channel `recv`; the manager's
  list of connections and the tools each registered.
- Operations: handshake, call, notify, close; connect, disconnect, call, list.
- Hard: close while calls wait; reads that split or merge messages; two connects of
  one server; a slice shifted in place while another goroutine iterates.
- Correct when: each call ends with its own answer or an error; no send on a
  closed channel; every process that was started is closed; the registry has the
  tools of live connections and no other.

### Sandboxes — `internal/burrow/mudbath`

- State: per call an external process; for Firecracker a VM with a socket
  directory, a vsock id and a rootfs copy.
- Hard: cleanup after each failing step, timeouts against late answers.
- Correct when: every VM that was started is stopped and its files removed.

### Memory and vector search — `internal/pond/memory`, `internal/pond/ripple`

- State: table `memories` with embeddings, access counts and importance.
- Operations: extract after a turn (asynchronously, embedding later), recall
  (counts accesses), consolidate (decay, merge, prune) from a snapshot.
- Hard: the merge writes values read before; a merge that fails half way; an
  embedding that arrives for a row that was merged away.
- Correct when: accesses are counted once and survive a merge; no memory is lost
  except as a duplicate or as decayed.

### Database and migrations — `internal/pond/migrate.go`, `db.go`

- State: `schema_migrations`. Hard: replicas start together, no advisory lock; a
  failure in the middle of several statements.
- Correct when: each migration runs once and every replica starts. Nothing in the
  repository calls the migrator.

### HTTP gateway, authentication, rate limits — `internal/riverbank`

- State: Redis counters and device pairings; routers and handlers.
- Operations: completions (streamed and not), agents, sessions, cron, memory,
  device pairing, webhooks; token checks; two rate-limit windows.
- Hard: `INCR` and `EXPIRE` apart; approval of a pairing read and written back.
- Correct when: a counter expires; a pairing is approved once and never revived;
  a turn that failed is not answered as a success.

### Channel adapters — `internal/riverbank/adapters`

- State: running adapters per manager. Start, stop, dispatch of incoming messages to
  a handler.

### Governance — `internal/wetland`

- Audit log and exporter: cursor in memory over a growing table. Quota: check
  first, record later. Billing, tenants, roles: single statements and tables. Secrets
  rotation, health, metrics: no state shared with the rest.

### Others

Configuration, protocol types, skills loader, presence, cache and pub/sub, durable
workflows (placeholders in this commit), web console, deployment. See
`PROJECT.json` for each and for the reason it is left out.

### How they interact

    client -> HTTP gateway -> Pipeline.Execute -> output channel -> SSE / JSON
    client -> ws connection -> Pipeline.Execute -> output channel -> send channel
    cron scheduler -> Redis queue -> worker -> ExecuteSync -> session cron:<job>
    pipeline -> LLM client -> provider        (stream of chunks)
    pipeline -> tool registry -> builtin | MCP connection | herd | sandbox
    pipeline -> sessions, messages;  pipeline -> memory extractor (asynchronous)

## 2. The modules

| module | models | role |
|---|---|---|
| `Turn` | what a turn promises its consumer and the message table | abstract specification |
| `Pipeline` | `pipeline.go` from `Execute` to the closed channel, with the store calls it makes | implements `Turn` |
| `ToolProtocol` | the order of tool calls and results in a request: what `Pipeline` guarantees of what it sends and `LLMClient` assumes of what it gets | shared predicate |
| `ChatStream` | one WebSocket connection; its pipelines are `Turn`s reduced to chunks and an end | component |
| `CronScheduler` | `drift/cron.go`, `drift/worker.go`, cron handlers of `handlers.go`, `tools_cron.go` over several replicas | component |
| `Reply` | what a streamed model call promises the stage that reads it | abstract specification |
| `LLMClient` | `burrow/llm`: one call of the failover client and its stream, in four wire formats | implements `Reply` |
| `MCPClient` | `pkg/mcp`: one client on one transport | component |
| `ToolRegistry` | `nibble/registry.go`, `WorkspaceLoader`, skill handlers, `mcp_manager.go` | component |
| `Sandboxes` | `nibble/executor.go`, `tools_exec.go`, `mudbath` and its guest agent | component |
| `Herd` | `burrow/herd`: manager, router, workflows | component |
| `Memory` | `pond/memory`, the embedding calls of `ripple` and of the worker, memory handlers | component |
| `DevicePairing` | the three pairing handlers of `handlers.go` | component |
| `RateLimit` | `middleware/ratelimit.go` | component |
| `AuditExport` | `wetland/footprint`, `middleware/audit.go` | component |
| `PipelineProofs` | theorems on `Pipeline`, which implements `Turn` | proofs |
| `ChatStreamProofs`, `CronProofs`, `HerdProofs` | theorems on the module of that name | proofs |
| `ToolsProofs` | theorems on `MCPClient`, `ToolRegistry` and `Sandboxes`, and on their composition in `MCTools` | proofs |
| `ServicesProofs` | theorems on `Memory`, `DevicePairing`, `RateLimit` and `AuditExport`, and on `MCServices` | proofs |
| `LLMProofs` | theorems on `LLMClient`, which implements `Reply` | proofs |
| `Sums` | induction over a set of numbers, sums over finite sets; for `ServicesProofs` and `LLMProofs` | proofs |
| `MCPipeline`, `MCChatStream`, `MCCronScheduler`, `MCLLMClient` | values of the constants for TLC | model checking |
| `MCTools` | `MCPClient`, `ToolRegistry` and `Sandboxes` in one run | model checking |
| `MCServices` | `Herd`, `Memory`, `DevicePairing`, `RateLimit` and `AuditExport` in one run | model checking |

`MCTools` and `MCServices` put components that share no state into one run: a variable
`focus` chooses in the initial state which of them takes steps, and the others stay in
an initial state. Their states add up, they do not multiply. Variables and operators
of these modules carry a prefix of the component (`mcp`, `reg`, `box`, `herd`, `mem`,
`dev`, `rate`, `aud`).

Operators whose comment begins with `Fault:` are not part of a specification.
Each is a plausible bug in the definition below it; a property is kept only if
TLC finds it violated when some definition is replaced by such a fault.

### Pipeline

A request's goroutine is at `pc[r]`, one value per stage and per point inside a
stage where another goroutine can be observed. `msgs`, `sys`, `calls`, `content`,
`usage` are the fields of `PipelineRequest`; `sent` is the message list of the latest
`LLMRequest`; `out` is `OutputCh`. `rows` and `tokens` are the tables.

| code | action |
|---|---|
| `Execute` | `Execute` |
| `SessionResolver.Process` | `ResolveSession` |
| `PromptBuilder.Process` and `ListBySession` | `BuildPrompt`, `History` |
| `LLMInvoker.Process` | `InvokeLLM`, `RecvText`, `RecvToolCall`, `RecvUsage`, `RecvError`, `StreamEnd` |
| `compactMessages`, `CompactAsync` | `StartCompaction`, `Summarized`, `Compacted` |
| `ToolExecutor.Process` | `BeginIteration`, `ExecuteTool`, `ReturnResults`, `LeaveToolLoop`, and the stream actions |
| `SessionPersister.Process` | `PersistUser`, `PersistAssistant`, `UpdateTokens` |
| the deferred `close` and the final chunk | `SendDone`, `SendError`, `CloseOutput` |
| a consumer's receive; its cancel | `Consume`; `Cancel` |

Messages keep their role, the turn they come from and the tool ids they carry; text
is counted in chunks. Whether the estimate passes the compaction threshold, what the
model answers, which calls fail, and when a context is cancelled are
nondeterministic. The message of a request has any of the roles in `ClientRoles`, since the
handlers pass on what the client sent (`handlers.go:209`, `pipeline.go:397`); a client's
`tool` message carries no tool id that the turn knows. `ToolUsePaired` therefore has two
parts: calls and results are `Paired`, where such a message answers nothing, and every
other tool message answers a call. An operation that takes the context fails on a cancelled
one, and may fail at any other time. WorkspaceLoader, ModelSelector and ToolPolicyFilter
always succeed and only fill in prompt data.

### ChatStream

`link`, `pumps`, `registered` and `send` are the connection, its pump goroutines, its
membership in the hub (which is the same as the channel being open) and
`Client.send`. `active` is `activeStreams`, `seq` the event counter, `pc` and
`pending` the goroutine of each request. Taking the next number and sending the
frame are two actions, because `nextSeq` and `Send` are two steps in the code.
`crashed` is the outcome of a send on the closed channel: the goroutine has no
`recover`, so the process ends.

### CronScheduler

`row` and `lastStatus` are the table, `tasks` the queue in Redis; `entries`,
`entryIDs` and `lastID` are a replica's memory and are lost in a crash. A call is
at `stage[c]`: the SQL statement (`Change`), the second query of the enable path
(`Reread`), `scheduler.Register`, the write of the map, and for
`UnscheduleJob` the lookup, `scheduler.Unregister` and the delete are separate
actions, since no lock spans them. Entry ids are numbers given out once, as asynq's
UUIDs are. `Take`, `ExecutePrompt` and `Finish` are the worker's `handleCronExecute`;
`Retried` and `Recovered` are asynq's retry and its recovery of tasks whose worker
is gone, as the code relies on them.

Go's runtime may abort the process when two goroutines touch `entryIDs` at the same
time; `Crash` covers that outcome. A graceful shutdown has the effects of a crash
on this state. `changedAt`, `overlapped` and `reenabled` are history variables: no
guard reads them.

### LLMClient

One call of `FailoverClient.Stream`, from the choice of a provider to the end of the
goroutine that reads the response. The provider (external) says text, tool calls in
fragments and usage in the order its format allows (`said`, `stage`), and may refuse,
break off or stay silent. `feed` and `events` are the body and the parser, `acc` the tool
calls under construction, `worker` the provider's goroutine, `chunks` the channel, `got`
what the reading stage (LLMInvoker or the tool loop) has added up.

| code | action |
|---|---|
| `FailoverClient.Stream` | `TryRouted`, `TryNext`, `GiveUp` |
| the message loops of the providers' requests | `Wire`, which joins what each message becomes (`Converted`) |
| the goroutines of `Stream` of each provider | `TakeEvent` (`TakeAnthropic`, `TakeChat`, `TakeGemini`, `TakeOllama`), `SendChunk`, `CloseChunks` |
| `SSEParser.Parse`, `bufio.Scanner` | `BodyEnds`, `BodyBreaks`, `StopParsing` |
| the stages' loops over the channel | `Receive`, `EndReading` |

`Reply` knows none of this: the model speaks, the stage hears a piece of text or a whole call
that was said and not yet heard, and there is one end. `ReplySafety` says that every step of
`LLMClient` is a step of `Reply` or none. `Status` is where the call is for the stage, `Spoken`
what the model has said with the calls it has said to the end, `Heard` is `got` without its
usage, `CutOff` holds of a request that is cancelled and of a body that ended before the
response was complete. Parser, accumulator, goroutine and channel are its inner state.

### MCPClient, ToolRegistry, Sandboxes

*MCPClient*. `mcpAt[c]` is where `call` is; `mcpPending`, `mcpBox` are the map of waiting
calls and their channels; `mcpPipe`, `mcpHand`, `mcpRecv` lead from the server to the receive
loop. A `Read` of the pipe yields a message, or part of one or several that the loop
cannot parse and skips. A send on, or a second close of, a closed channel is `mcpPanic`.

*ToolRegistry*. `regTools` are the registered names, `regTurn` and `regOffered` a turn of each
agent between WorkspaceLoader, ToolPolicyFilter and a call. The connection manager's
slices are pairs of a backing array and a length (`regArrays`, `regList`), because `Disconnect`
shifts the cells that `CallTool` may be scanning without the lock.

*Sandboxes*. `boxAt[c]` is where an execution is, `boxLeft[c]` what it has put on the host and
`boxDefers[c]` what will be removed when it returns; `boxOpen` is the executor's table. A
process is killed when its context is done, unless it was started without one; only the
process, and not the children (`boxKids`) its command has started. A child is `piped`, and
then `Run` does not return before it ends, or `detached`, with its output redirected, and then
it may outlive the execution. In a container or a VM a command's children end with it
(`BoxChildren`); on the host itself (exec, bash, the fallbacks) both kinds are possible.

### Herd, Memory, DevicePairing, RateLimit, AuditExport

*Herd*. A task of a workflow is at `herdAt[i]`: `Due` says when the executor starts it, `Quoted`
whose output its prompt has. `HerdDelegate` is the lookup of `Delegate`, `HerdSpawn`, `HerdSend`,
`HerdCollect` what follows, `HerdRecord` the write of its result. `HerdStop` and `HerdStopAll`
with `HerdShutOne` are the manager's; `StopAll` shuts runners down after it has let the lock go.

*Memory*. Rows of one agent: `memLive`, `memCount`, `memEmbedded`. A pass of a replica reads the
similar pairs (`MemSnapshot`), then for each pair writes the keeper (`MemUpdate`) and deletes the
other row (`MemDelete`), prunes (`MemPrune`), counts (`MemCountRows`) and cuts (`MemCut`): each a
statement of its own, between which the other replica, recalls (`MemRecall`) and users
(`MemCreate`, `MemForget`) change the table. `MemEmbed` is an embedding that arrives later.
The rows are 1 to n, the pairs that `FindSimilarPairs` may return are the sequence `MemAlike`, and
what a pass has left of them (`todo`) is a set of places in it: a pass takes them in that order.
History variables follow the accesses: `memOwed[i]` is what row i was accessed and what the rows
merged into it were owed; `touched` of a pass are rows whose count changed, or which another
deleted, since the pass read them, `taken` those that another deleted; `memSpoiled` are the rows
that a merge gave another count than they are owed.

*DevicePairing*. `devPair` and `devCode` are the two keys; each handler is one action per Redis
command. `devRaced` are the handlers that acted on a pair that had gone: polls that answered
without having taken a pair away, decisions whose `Set` brought one back. *RateLimit*. `rateCount` and `rateTtl` are the keys of the two windows; `RateIncr` and
`RateExpire` are two commands. *AuditExport*. `AudBegin` takes an id, `AudEnd` commits or fails;
`AudQuery` and `AudPost` are the two halves of `export`.

## 3. The runs

| run | instance | checks |
|---|---|---|
| `pipeline_tools` | one turn, whose message is a user's or a tool's; two iterations; sessions of two turns; channel of one chunk; two data chunks and one usage report per stream | `TypeOK`, `ToolUsePaired`, `PromptEndsWithQuestion`, `AnswerIsFinalText`, `UsageIsSpent`, `TurnLiveness` |
| `pipeline_shared` | two turns of one session, one iteration | `TurnSafety` |
| `pipeline_history` | a history limit of two, sessions of up to two turns | `LatestRowLoaded` is violated |
| `pipeline_compaction` | a summarizer that never answers | `CompactionInBackground` is violated |
| `chat_turns` | two turns and a cancel of one session, send buffer of two | `TypeOK`, `NoStaleCancel`, `CancellableUnlessShared`, `OneStreamPerCancel`, `StreamInOrder`, `StreamsEnd` |
| `chat_cancel` | the same | `Cancellable` is violated |
| `chat_close` | one request of each method | `SendNeverPanics` is violated |
| `cron_replicas` | two replicas, one job, two calls, one crash, one task with one retry | `TypeOK`, `MappedEntryLive`, `OneEntryUnlessDisturbed`, `StopsUnlessDisturbed`, `TasksEnd` |
| `cron_stop` | one replica, one job, two calls, no crash | `Stops` is violated |
| `llm_stream` | a provider of each format; a first request, one of the tool loop, and one whose question is under the client's role; one piece of text, two calls of two fragments; channel of one chunk | `TypeOK`, `FailoverInOrder`, `WirePaired`, `CallsWhole`, `UsageCountedOnce`, `BreakIsReported`, `ReplySafety`, `StreamReleased` |
| `tools` | three calls of an MCP client, three messages of the server, `recv` of one; two agents with two skills of one tool, three connects of two servers; two executions of any tier | `ToolsTypeOK`, `McpAnswersMatch`, `McpLoopNeverWaits`, `RegToolsFollowServers`, `RegCallsReach`, `BoxNothingLeaks`, `BoxEnds` |
| `services` | workflows of three tasks of two agents, one stop; three rows, two replicas, one recall or deletion; two polls and two decisions; four requests, limits of one and two; four events, a query limit of two, one restart | `ServicesTypeOK`, `HerdResults`, `HerdChildren`, `MemNothingLost`, `GatewayKeys`, `AudDelivered` |

What the passing runs show:

- *pipeline_tools*. Wherever the turn fails, is cancelled or compacts, each request
  to the model has its tool uses answered in the next message, and no tool message that
  answers nothing but the client's own; it ends with the
  client's message, a user's or a tool's here, of any role in the theorem; the stored answer is the text streamed after the last
  tool result; usage is the sum over the calls; the turn implements `Turn` and
  ends. The bounds reach the limit (`MaxIter = 2`), the cut of compaction
  (sessions of four rows make six messages with the question and a system prompt,
  the list that compaction cuts), a full channel (`ChanCap = 1` blocks at the second
  send), an iteration with two calls and one with text and a call.
- *pipeline_shared*. What a turn promises is kept when another turn of its session
  reads and writes in between. Every pair of stages overlaps in some behaviour. The
  two turns are interchangeable, so the run uses symmetry; it checks safety only.
- *chat_turns*. Two streams and a cancel that share one key reach all orders of
  store, cancel and delete; a buffer of two with up to three frames per stream
  drops frames of each kind; the connection may break at any point.
- *cron_replicas*. Two calls reach every overlap of two handlers on one replica and
  every order over two replicas; one crash loses a call in any stage or a task in any
  state. Entries of different jobs share nothing but the id counter, which is why one
  job is enough here; `CronProofs` shows the same for any number of jobs and calls.

- *llm_stream*. Each format is cut off, refused or cancelled at every point; two calls of
  two fragments are the least that can be interleaved or exchanged. In all of it the stream is
  a `Reply`: in particular a stage that has read to the end of a complete response has
  all its text and every call (`CompleteResponseRead`, a theorem). What holds is stated
  for the formats of which it holds: the chat and Ollama readers drop a read error, and
  the tool loop adds Gemini's cumulative reports, so `BreakIsReported` and
  `UsageCountedOnce` leave those out.
- *tools*. Three calls with one slot in `recv` reach a full channel, answers that are
  repeated, lost or late for a call that gave up, and a close in any state. Three
  connects reach two connections of one server and a shift of two cells under a scan.
  Two executions race for a sandbox and with `Close`; the second is pinned to one tier.
  A server that repeats answers, and callers that give up, are what could make the receive
  loop wait for ever on a full channel; it does not, because an id leaves the map with the
  first answer. A piped and a detached child reach both of what a command can leave behind.
- *services*. Three tasks of which two have one slug reach a race of two spawns and a child
  that is found; one stop meets every step. Three alike rows of which a query returns
  two pairs are the least that chain: the keeper of one merge is in the next. The two
  replicas are interchangeable, so the run uses symmetry over them; it checks safety
  only. Two polls and two decisions reach every overlap of the handlers' commands with
  an expiry. Four requests pass both limits. A limit of two of four events reaches
  the burst, and ids that commit in any order reach the late commit.

The properties of these runs name their exceptions in the state, by history variables:
what a concurrent change can break is excused where it happened and nowhere else.
`MemCountsKept` is stated row by row: a row has what it is owed unless it is spoiled, and it is
spoiled only by a merge of its own that wrote the sum of counts which had changed since the
pass read them or which another merge was at, that deleted a row which had changed since,
or whose `DELETE` failed; every other row is checked also while such merges go on around it.
`MemKeeperStays` excuses only a keeper that somebody else deleted. `DevOnce` counts: the
answers to a device, and the pair if it is still there, are at most one and the handlers in
`devRaced`. TLC finds each excuse of `MemCountsKept` needed: without any one of them it is
violated. `BoxNothingLeaks` leaves a detached child of a command on the host, and no other;
`RateCounted` holds unless an `EXPIRE` was lost, `AudDelivered` except for events that a query missed because of its limit or because they
committed after younger ones; `HerdOneChild` except for slugs that two delegations were
spawning at once.

Deadlock is not checked: every system here may stop (all requests closed, all frames
handled, no call left).

Bounds that appear in guards, by name: `MaxChunks`, `UsageReports`, `EarlierTurns`
(Pipeline); `MaxChunks` and the set `Requests` (ChatStream); `Calls`,
`TaskIDs`, `MaxCrashes` (CronScheduler); `MaxText`, `MaxCalls` (LLMClient); `McpTalk`
(MCPClient); `HerdStopMax` (Herd); `MemUseMax` (Memory); `AudEvents`, `AudRestartMax`
(AuditExport); and the sets of callers of each module. `MaxIter`, `HistoryLimit`, `ChanCap`,
`SendCap`, `MaxRetry`, `McpRecvCap`, `MemLimit`, `MemCap`, `RateLimits` and `AudLimit` are limits
of the code with smaller values.

`UsageIsSpent` is checked with one usage report per stream, which is what the code
assumes; with several cumulative reports the tool loop counts more than was spent
(see the hazard at `pipeline.go:711`): `LLMClient` shows that only Gemini sends several.

## 4. Fairness

- Pipeline: weak fairness of `Run(r)` (the Go scheduler runs the turn's goroutine)
  and of `Consume(r)` (every consumer in the repository ranges over the
  channel until it is closed), and of `Summarized(r)` in `FairSpec`. That a
  provider ends its stream is assumed by `MaxChunks`; the HTTP clients set no
  timeout, so a silent provider is an outcome outside `FairSpec`.
  `SilentSummarizerSpec` drops the assumption for the summarizer.
- ChatStream: weak fairness of what the goroutines do by themselves (`Handle`, the
  end of a pump, `Unregister`). None for `Write`, `Receive` or `Break`: the client
  may stop reading and the network may stay up for ever. That a pipeline produces
  its chunks and its end is `Turn`'s liveness, checked by `pipeline_tools`.
- CronScheduler: weak fairness of `Boot` (an orchestrator restarts a replica),
  of each call's next step, and of the work on each task. None for ticks, which may be
  missed.

- LLMClient: weak fairness of the provider's goroutine, of the reading stage and of the
  parser, and of a server that closes a body it has completed. None for what a provider
  says: it may stay silent, and `StreamReleased` speaks of streams that are over or cancelled.
- Sandboxes: weak fairness, per execution, of the gateway's own steps, of the context's end,
  of the kill that follows, and of the errors of a dead VM. None for processes and guests.
- MCPClient, ToolRegistry, Herd, Memory, DevicePairing, RateLimit and AuditExport are checked
  for safety only. That an MCP call ends is its `select` on the context; the handshake's
  `initialize` and `tools/list` run on the caller's context without a deadline of their own
  (`mcp_manager.go:87`, `96`), so with a silent server they wait as long as their caller does.

## 5. The proofs

All theorems hold for every value of the constants that satisfies the module's named
assumption (`PipelineAssumption`, `ChatAssumption`, `CronAssumption`, `LLMAssumption`,
`HerdAssumption`, `McpAssumption`, `RegAssumption`, `BoxAssumption`, `MemAssumption`,
`DevAssumption`, `RateAssumption`, `AudAssumption`, and `PromptAssumption` of `LLMClient`); TLC
evaluates these assumptions in the runs. `PromptAssumption` is `Paired` of every request, which
is what `ToolUsePairedHolds` proves of `Pipeline`: one component's theorem is the other's
assumption. A theorem that needs more states it as a hypothesis: that a set of calls or requests
is finite (a counter is compared with its cardinality), that a set is not empty (the initial
scan of `ToolRegistry` names an agent and a server), or that a stream reports its usage at
most once (`UsageIsSpentHolds`). A theorem about a component of a composed run is stated of
the component's own behaviours, `Init /\ [][Next]_vars`, and the composition's theorems
follow from `ToolsSteps` and `ServicesSteps`: each step of the composition is a step of one
component or of none. Unless said otherwise, the invariant named is the inductive one, with
one lemma per action.

### Pipeline

- `PipelineProofs!TypeCorrect`: `Spec => []TypeOK`. The invariant `TypeInv` adds what the
  types need: a tool result is only taken while there is a call left, a compaction only
  starts on a list longer than five.
- `PipelineProofs!ToolUsePairedHolds`. `Paired(sent[r])` (`Paired` is in `ToolProtocol`) is not inductive: the next `sent`
  is made from `msgs`, which is unpaired while tools run. `PairInv` says that `msgs` is
  paired outside `executing`, that in `executing` it is a paired list followed by the
  assistant message of `calls`, that `results` is a prefix of `calls`, and that before the
  first LLM call `msgs` has no tool messages but the client's own, which carry no calls and
  answer none (so compaction may cut it anywhere). It holds for every set `ClientRoles`.
  Lemmas state that pairing is kept when a system message is put in front, when a plain
  message is appended, and when a whole exchange is appended.
- `PipelineProofs!PromptEndsWithQuestionHolds`. `PromptInv` follows `msgs` from
  PromptBuilder on: they end with the client's message, under the role it came with, and fit
  the history limit, and compaction keeps the tail.
- `PipelineProofs!UsageIsSpentHolds`, for `UsageReports <= 1`. `UsageInv`: what LLMInvoker
  keeps is all that its stream was charged, and the tool loop adds to that.
- `PipelineProofs!AnswerIsFinalTextHolds`. `AnswerInv`: `AssistantContent` counts the text
  chunks of the stream since its last tool result (`FinalOf`), and nothing of the turn is
  stored before its persister runs. A chunk in `out` and a delivered one are one stream
  (`EmitStream`, `ConsumeStream`), and a row of another turn of the session moves none of
  this turn's rows (`InsertRows`).
- `PipelineProofs!TurnSafetyHolds`: `Spec => TurnSafety`, the refinement of `Turn`.
  `TurnInitRefined` maps the initial states; `TurnStepRefined` maps each action of a request
  to an action of `Turn` or to a stutter, under `TurnInv` (`TypeInv`, `PairInv` and
  `AnswerInv`). That the saving phase writes the question before the answer, and each once,
  is what `AnswerInv` says of the rows.

### ChatStream

- `ChatStreamProofs!TypeCorrect`: `Spec => []TypeOK`.
- `ChatStreamProofs!NoStaleCancelHolds`, `CancellableUnlessSharedHolds`: from `CancelInv`,
  which adds `Honest` (an answer to a stream's request is one of the stream's frames exactly
  when the stream was started), needed because whether a stream is in progress is read from
  its last frame.
- `ChatStreamProofs!StreamInOrderHolds`. `OrderInv` adds whose frame a goroutine holds
  (`OwnFrame`), that a frame in the buffer has been sent and the goroutine's next is later
  (`BufferedSent`, `LastIsLatest`), and that two requests never hold the same number
  (`SeqsDistinct`).
- `ChatStreamProofs!OneStreamPerCancelHolds`. `OneInv` adds that a cancelled stream has left
  the map for good (`CancelledLeft`), so that a cancel that answers `cancelled` adds one
  stream to the cancelled ones and itself to the answers (`AsManyStreams`).

### CronScheduler

- `CronProofs!TypeCorrect`: `Spec => []TypeOK`, from `TypeInv`, which adds that a call being
  served has a replica. It needs the set of jobs to be finite (the rows of a table), because
  a start gives out as many entry ids as it loads rows.
- `CronProofs!MappedEntryLiveHolds`, for any number of replicas, jobs, overlapping calls and
  crashes. The invariant `MapInv` says who may hold which entry id: ids in memory were given
  out (`IdsGiven`), entries and keys do not share them (`UniqueIds`, `DistinctKeys`), nobody
  but its call knows the id about to be mapped (`MappingOwns`), the id a call removes
  belongs to the call's job (`RemovesOwn`), and a replica that is down holds nothing
  (`DownIsEmpty`). Without `RemovesOwn`, an `UnscheduleJob` could remove another job's
  entry; without `MappingOwns`, it could remove an entry between `Register` and the write of
  the map. One lemma per action.
- `CronProofs!OneEntryHolds`, `StopsHolds`: from `MapInv` and `CalmInv`, which says of an
  undisturbed job at a replica that at most one call is about it (`OneCall`), that its
  entries have the id in the map or the one about to be written (`EntriesKnown`), and that
  after a disable or delete its key is 0 or about to go (`Stopping`). `CalmElsewhere` shows
  once for all actions that a call disturbs neither other jobs nor other replicas;
  `CalmHere` treats the call's own job, one case per action.

The invariants `MapInv` and `CalmInv` were also checked by TLC on two replicas with three
calls, and on two jobs with three calls.

### LLMClient

Each invariant says where a thing is that must not be lost or doubled on its way from the
provider to the stage: in `events`, in the accumulator, in `toSend`, in `chunks` or in
`got`. `Count(s, G)` is how many elements of the sequence `s` are in the set `G`. `Opening`
and `Streaming` split a step into one before the stream is open and one after.

- `LLMProofs!FailoverInOrderHolds`. `Choosing`: the sequential loop is at a provider after
  all those before it have refused.
- `LLMProofs!LLMTypeCorrect`. That `got.text` stays within the bound is not inductive:
  `TextSum` counts the pieces of text in the three queues and the stage, and they are those
  the provider has said. `Typed` is the rest of the types.
- `LLMProofs!BreakIsReportedHolds`. `Breaking`: from the break to the end of the turn an
  error is among the events of a goroutine that still reads, among the chunks, or taken by
  the stage. `Closing`: the goroutine closes the channel after its last chunk, and the stage
  ends after the last one in the channel.
- `LLMProofs!CallsWholeHolds` and `CompleteResponseReadHolds`, from `Flow`:
  - `Ordered`: which events a format has, at which stage, and in which order. Without it a
    fragment might follow the finish, and be lost with the accumulator.
  - `Leaving`: a goroutine leaves when its input is over, after the last event of a complete
    response, or on an error or a cancel.
  - `AllWhole`: a call that has left the accumulator is whole.
  - Where the fragments of each call are. `PieceCalls` (Gemini, Ollama): a call is one
    event. `ChatCalls`: the accumulator has the first fragments of each call and the queue
    the others in order, among those of any other call (`Window`). `BlockCalls` (Anthropic):
    the accumulator has one call, and the queue the rest of it before anything of the next.
- `LLMProofs!UsageCountedOnceHolds`. `Counting` adds where the report is: once in the queues
  or booked, and worth the same there as when it was made (`OneReport`), for the formats
  that report each number once; for Gemini read by LLMInvoker, which keeps the last of
  several cumulative reports, that the finish has the whole usage and that nothing after it
  has any (`LastReported`). Gemini read by the tool loop is excluded by the property: there
  the reports are added up.

- `LLMProofs!WirePairedHolds`: for every request that satisfies `PromptAssumption`, of any
  length. `Wired`: an open stream's request is on the wire as `Wire` makes it. `PairedOnWire`
  is about the conversion alone: what a message with calls becomes is one message, and what
  the next one becomes are its results, or one message that has them all (`ConvertedIs`). It
  rests on `Flattened`, which says of the join of any sequences where each element comes from
  and where it goes (`Offset`). The join is a recursive function; that it exists and what it
  computes are shown by induction on the number of pieces with `Sums!Inductive`, which takes
  the set of numbers for which a claim holds where the library's theorem takes a predicate.
- `LLMProofs!ReplySafetyHolds`: `Spec => ReplySafety`, the refinement of `Reply`. One lemma for
  each kind of step: `OpeningRefined` (providers are tried), `RespondRefined` (the model
  speaks), `InterruptRefined` (the body ends, breaks or is cancelled), `ReceiveRefined` and
  `EndRefined` (the stage reads). What the goroutine does between is a stutter. The invariant
  is `Replying`: `Streamed`, which has `Flow` and the counts above, with `Alarmed`, an error
  is among events or chunks only if the reply was cut, and `InOnePiece`, Gemini and Ollama
  say a call in one event. A call that is read was said to the end because it has left
  the accumulator (`SaidToTheEnd`), and was not read before because no call is there twice
  (`CallsAreWhole`); an end that was not cut has read everything (`ResponseIsRead`).

### MCPClient, ToolRegistry, Sandboxes

- `ToolsProofs!McpAnswersMatchHolds`. `McpInv`: a call's id is its own and was counted
  (`McpIds`), the channel in the map under an id is that of the call with the id, every
  message on its way that carries an id answers the request of that id (`McpWire`), and so
  do the loop's message, the channels and the results (`McpAnswers`).
- `ToolsProofs!McpLoopNeverWaitsHolds`, for finitely many calls. `McpOnce`: the channel of a call
  is in the map under its id only as long as nothing was delivered to the call, and the loop
  holds the channel of a call only after the id has left the map, so no call is handed two
  answers.
- `ToolsProofs!RegToolsFollowServersHolds`, `RegCallsReachHolds`. `RegInv`: an agent's slice
  lies inside its array, no two agents have one array, and the slice holds exactly the
  agent's open connections, each once (`RegSlices`); two live connections of a server make
  it a shared one (`RegLive`); what a scan has yet to read of a steady server is in cells
  that no append and no other agent's `Disconnect` writes (`RegScanning`); what was offered
  is still registered (`RegOffers`).
- `ToolsProofs!BoxNothingLeaksHolds`. `BoxInv`: what is deferred follows from where the
  execution is, and is exactly what it has left on the host (`BoxDefersInv`); a process runs
  only where the execution waits for it or will kill it (`BoxHostInv`); a child with the pipe is
  there only while the execution waits, and a detached one only where commands run on the
  host (`BoxKidsInv`); the tiers' sandboxes
  and the closed ones are all that were made.
- `ToolsProofs!ToolsTypeCorrect`, from `McpTypeCorrect`, `RegTypeCorrect` and
  `BoxTypeCorrect`. The bounds are not inductive: no more sandboxes are made than there are
  calls past their creation (`MadeByCalls`), and a slice has no more cells than there are
  connects because no connection is in it twice (`SliceBound`).

### Herd, Memory, DevicePairing, RateLimit, AuditExport

- `HerdProofs!HerdChildrenHolds`: `HerdSpec => []HerdChildren`. That a slug has one child is
  not inductive: `ChildInv` adds, of every slug that was not raced, that one task at most is
  between its lookup and its spawn, and that while one is, the map has no agent of the slug
  (`OneSpawner`).
- `HerdProofs!HerdResultsHolds`. `FlowInv`: a task that has begun was due and was told what
  it quotes, both for good (`FlowDue`), and the results so far, per kind of workflow, are
  those of the recorded tasks (`FlowResults`). `HerdTypeCorrect` adds that no task spawns
  two agents.
- `ServicesProofs!MemNothingLostHolds`. `MemInv` says of each pass (`PassOK`) that the rows of
  the pairs it has left are in the table, or were deleted by it or taken by others, and that
  the counts it read stand but for the rows touched since. Between the two statements of a
  merge the keeper has a sum that it is not owed yet: `MemBalance` says that it is what the
  keeper and the row about to be deleted are owed together, and that every row that is neither
  spoiled nor kept has what it is owed. `EvenStep` carries this over a step that tells the
  other passes of what it changed (`MemTold`), `MemMergeStep` and `MergeEnds` are the two
  statements of a merge.
- `ServicesProofs!AudDeliveredHolds`. `AudInv`: what the cursor has passed was received, was
  missed by a query or never became a row (`AudPassed`), and so will be what the batch under
  way lets it pass (`AudAhead`); what the receiver has beyond the cursor will come again
  (`AudKnown`).
- `ServicesProofs!GatewayKeysHolds`, from `DevOnceHolds` and `RateCountedHolds`. `DevInv`: the pair a
  decision has read is still there while the decision is in `devCurrent` (`DevReads`), and the
  polls past the `Del` of the pair, with the pair if it is there, are at most one and the raced
  handlers (`DevCounted`): each poll took the pair away or is in a race, and each pair was the
  first one, replaced one that was there, or was brought back by a decision in a race. `RateInv`
  says of each window that one request at most is between its `INCR` and its `EXPIRE`, that
  its counter then has no TTL (`OneExpires`), that what was let through is at most the count
  and leaves room for that request, which is compared with the limit by the 1 it read and
  not by the count of now (`Room`), and that a TTL belongs to a counter (`Restarts`).
- `ServicesProofs!ServicesTypeCorrect`, from the five type theorems.

### What is only model-checked

- All liveness (`StreamsEnd`, `TasksEnd`, `TurnLiveness`, `StreamReleased`, `BoxEnds`): liveness under fairness and `ENABLED` are out of the prover's reach.
- Nothing else. Where a proof needs induction, it uses lemmas of `Sums` that take a set where
  the library's theorems take a predicate (`Inductive`, `SmallestSubset`), for the recursive
  function inside `FlattenSeq` and for sums over sets. No module here declares a RECURSIVE
  operator.

## 6. Findings

Five statements of the repository do not hold of the code; each has a run with
expectation `violation`, and `PROJECT.json` quotes the statement.

1. `LatestRowLoaded` (`pipeline.go:378`). "Reuse the same session for each cron job so
   history accumulates" (`drift/worker.go:139`): the prompt is built from the 20
   oldest rows of a session, so a session with more rows never shows the model its
   newer turns.
2. `CompactionInBackground` (`pipeline.go:861`). Compaction is documented as running in
   the background "while the agent continues" (`instinct/compaction.go:27`): the stage
   receives the summary right after starting the goroutine, and waits for it.
3. `Cancellable` (`chat_handler.go:98`). "activeStreams tracks cancel functions for
   in-progress chat streams" (line 29): a second stream of a session replaces the
   first one's function, and the first one's end deletes the second's.
   `CancellableUnlessShared` states what does hold, and is proved.
4. `SendNeverPanics` (`hub.go:31`). A chat goroutine outlives the pumps and sends its stream's
   events on the channel that `Unregister` closed. The property is an action property: no
   `Send` of an event of a stream (a chunk or its end) panics. In the trace the connection
   breaks while a stream is under way, both pumps end, `Unregister` closes the channel, and
   the stream's next chunk crashes the process.
5. `Stops` (`cron.go:112`). "UnscheduleJob removes a cron job from the scheduler" (line
   122): enabling a job that is scheduled overwrites its entry id, and the first entry
   keeps firing. `StopsUnlessDisturbed` states what does hold, and is proved.

Observations made while modelling, which no document of the repository contradicts (or
which concern code without a caller):

- A semantic memory that a user creates gets no embedding, so it is listed and never
  recalled: the semantic store leaves the embedding to the extractor
  (`semantic.go:78`), and the worker's embedding task has no producer (`Memory!MemCreate`).
- A row that is kept twice in a pass loses the accesses of the first merge, because the
  second writes the sum of what the pass read at first (`consolidator.go:171`).
- Two replicas that both counted before either cut leave fewer rows than the cap.
- The audit middleware passes `RemoteAddr` with its port to an `INET` column and drops the
  error (`audit.go:74`), while `logAudit` strips the port for that reason (`handlers.go:2255`).
- The chat and Ollama readers end a stream that broke off as if it were complete.
  Gemini's and Ollama's requests leave out tool calls and their results.
- The routed provider is tried again by the sequential loop. No call goes through the
  circuit breakers.
- An execution does not return at its deadline while a child of its process holds the
  output pipe, and a child whose output is redirected outlives it: `CommandContext` kills the
  shell alone (`tools_exec.go:84`, `gvisor.go:201`, `firecracker.go:378`).
- The role of a client's last message is not checked (`handlers.go:209`): the prompt may end
  with a tool, assistant or system message of the client's.
- The executor sets no Stdin, so the WASM tier never runs a module.
- `AgentAssignment.DependsOn` is not read by any workflow.
- No other package calls: the MCP connection manager, the herd, the audit exporter, the
  migrator, `QuotaManager.CheckQuota`, the billing tracker, `tide`, `canopy`.

## 7. What is not modelled

`PROJECT.json` gives the status of every component. Inside the modelled ones:

- text chunks with empty content (the finish chunks of the OpenAI and Anthropic
  formats are forwarded with one): they add nothing to an answer;
- the wording of prompts, token estimates (a nondeterministic choice), JSON, ids, times;
- in `Pipeline`, the registration of a workspace's skills during a turn, which is
  `ToolRegistry`'s;
- `Hub.Broadcast`, `Hub.SendTo` and the handshake, which have no caller;
- one WebSocket connection only: connections share no state, each has a hub and
  handler of its own;
- each replica fires every job it has scheduled, so with three replicas a job runs
  three times per tick; the properties of `CronScheduler` are per replica, and no text in the
  repository promises one run over all replicas;
- archiving a session and its manual compaction while a turn runs (see the plan);
- the requests and non-streaming calls of the providers, apart from the order of the
  messages on the wire: conversions of data;
- importance and similarity of memories, which are floats: which row scores higher or has
  decayed is a choice in `Memory`;
- the migrator, quotas and billing: nothing in the repository calls them, so no behaviour
  of the program reaches them;
- `Broadcast` and `Send` of the herd's router, which are `SendMessage` without an answer.

Stateless wrappers (presence, secrets, telemetry, configuration,
most handlers) are single statements or calls with no state that several steps
share, and are left out for good.

## 8. Plan

What is left, in order of importance:

1. Sessions: archive and manual compaction against running turns, as an extension of
   `Pipeline`'s tables.
2. The channel adapters, and the web client's reconnects over `ChatStream`.
