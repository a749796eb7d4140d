------------------------------ MODULE LLMClient ------------------------------
(***************************************************************************)
(* One call of llm.Client.Stream (internal/burrow/llm): the failover client *)
(* picks a provider, the provider's goroutine turns the response body into  *)
(* chunks, and a stage of the pipeline reads them.  Providers speak one of  *)
(* four formats: "anthropic", "chat" (OpenAI and Volcengine), "gemini" and  *)
(* "ollama".  Text is counted in pieces; a tool call is a number whose      *)
(* arguments arrive in Parts fragments.  Gemini's and Ollama's calls have    *)
(* no id: the number stands for the tool's name, taken to differ.           *)
(***************************************************************************)
EXTENDS Integers, Sequences, FiniteSets, SequencesExt, ToolProtocol

CONSTANTS
  Providers,   \* configured providers, in the order of buildLLMClient
  FormatOf,    \* wire format of each
  Prompts,     \* message lists the pipeline may send
  ChanCap,     \* capacity of the chunk channel, 64 in the code
  MaxText,     \* bound: pieces of text in a response
  MaxCalls,    \* bound: tool calls in a response
  Parts        \* fragments of each call's arguments

Formats == {"anthropic", "chat", "gemini", "ollama"}
Calls == 1..MaxCalls

ASSUME LLMAssumption ==
  /\ Providers \in Seq(DOMAIN FormatOf)
  /\ FormatOf \in [DOMAIN FormatOf -> Formats]
  /\ ChanCap \in Nat \ {0}
  /\ MaxText \in Nat
  /\ MaxCalls \in Nat
  /\ Parts \in Nat \ {0}

\* A message has a role, the tool calls it makes and the ids of those whose results it
\* has.  "other" is any role a client may give its message that no provider knows.
Message == [role : {"system", "user", "assistant", "tool", "other"}, calls : Seq(Nat), results : Seq(Nat)]

\* What the pipeline guarantees of its requests (ToolUsePaired of module Pipeline).
ASSUME PromptAssumption == \A m \in Prompts : m \in Seq(Message) /\ Paired(m)

VARIABLES
  prompt,     \* req.Messages
  reader,     \* the stage that reads the chunks: "invoker" or "tool_loop"
  phase,      \* where FailoverClient.Stream is
  routed,     \* index modelToIndex gives for req.Model, 0 if none
  next,       \* the provider the sequential loop tries next
  failed,     \* indices of the providers that returned an error, in order
  using,      \* index of the provider whose stream is open, 0 if none
  wire,       \* messages of the latest HTTP request
  cancelled,  \* the request's context is done
  stage,      \* how far the provider's response has come
  said,       \* [text, parts, block, reported]: what it has sent; block is an open
              \* tool_use block, reported: it has given the whole usage
  feed,       \* the response body: "live", "eof" or "broken"
  faulty,     \* the response broke off with an error (history variable)
  events,     \* parsed events the goroutine has not taken
  acc,        \* tool calls under construction, by index (anthropic: index 0)
  toSend,     \* chunks of the current event not sent yet
  worker,     \* the provider's goroutine: "idle", "reading", "leaving", "closed"
  chunks,     \* the chunk channel
  got,        \* [text, calls, in, out] of the reading stage
  consumer    \* the reading stage: "reading", "ended", "error"

askVars == <<prompt, reader, routed>>
failoverVars == <<phase, next, failed, using, wire>>
serverVars == <<stage, said, faulty>>
workerVars == <<acc, toSend, worker>>
readVars == <<got, consumer>>
vars == <<askVars, failoverVars, cancelled, serverVars, feed, events, workerVars, chunks, readVars>>

NoCall == [id |-> 0, parts |-> <<>>]
Zero == [in |-> 0, out |-> 0]

\* What the stage has before it reads: the tool loop adds to the usage of the turn.
Before == IF reader = "tool_loop" THEN [in |-> 1, out |-> 1] ELSE Zero

Init ==
  /\ prompt \in Prompts
  /\ reader \in {"invoker", "tool_loop"}
  /\ routed \in 0..Len(Providers)
  /\ phase = IF routed # 0 THEN "routed" ELSE "sequence"
  /\ next = 1
  /\ failed = <<>>
  /\ using = 0
  /\ wire = <<>>
  /\ cancelled = FALSE
  /\ stage = "none"
  /\ said = [text |-> 0, parts |-> [c \in Calls |-> 0], block |-> 0,
             reported |-> FALSE]
  /\ feed = "live"
  /\ faulty = FALSE
  /\ events = <<>>
  /\ acc = [i \in 0..MaxCalls |-> NoCall]
  /\ toSend = <<>>
  /\ worker = "idle"
  /\ chunks = <<>>
  /\ got = [text |-> 0, calls |-> <<>>, in |-> Before.in, out |-> Before.out]
  /\ consumer = "reading"

-----------------------------------------------------------------------------
(* The request on the wire: the providers' loops over req.Messages *)

Asks(x) == x.role = "assistant" /\ x.calls # <<>>
Answers(x) == x.role = "tool" /\ x.results # <<>>

\* Any other message is its role and its text.
TextOnly(x) == [x EXCEPT !.calls = <<>>, !.results = <<>>]

\* Fault: the results of one iteration are sent last to first.
LastToFirst(x) == [i \in 1..Len(x.results) |->
  [x EXCEPT !.calls = <<>>, !.results = <<x.results[Len(x.results) + 1 - i]>>]]

\* OpenAI and Volcengine: one message per tool result.
OneByOne(x) == [i \in 1..Len(x.results) |->
  [x EXCEPT !.calls = <<>>, !.results = <<x.results[i]>>]]

ChatMessages(x) ==
  CASE Asks(x) -> <<[x EXCEPT !.results = <<>>]>>
    [] Answers(x) -> OneByOne(x)
    [] OTHER -> <<TextOnly(x)>>

\* Anthropic: tool results are one user message; the system prompt is a field.
AnthropicMessages(x) ==
  CASE x.role = "system" -> <<>>
    [] Asks(x) -> <<[x EXCEPT !.results = <<>>]>>
    [] Answers(x) -> <<[x EXCEPT !.role = "user", !.calls = <<>>]>>
    [] OTHER -> <<TextOnly(x)>>

\* Gemini and Ollama convert the role and the text of a message, nothing else.
GeminiMessages(x) ==
  IF x.role = "system" THEN <<>>
  ELSE <<[TextOnly(x) EXCEPT !.role = IF @ = "assistant" THEN "model" ELSE @]>>
OllamaMessages(x) == <<TextOnly(x)>>

Converted(format, x) ==
  CASE format = "anthropic" -> AnthropicMessages(x)
    [] format = "chat" -> ChatMessages(x)
    [] format = "gemini" -> GeminiMessages(x)
    [] format = "ollama" -> OllamaMessages(x)

\* Each message of the request in turn.
Wire(format, m) == FlattenSeq([i \in 1..Len(m) |-> Converted(format, m[i])])

-----------------------------------------------------------------------------
(* FailoverClient.Stream.  No call goes through a breaker's Execute, so every *)
(* breaker stays closed and its State() never skips a provider.               *)

\* The provider's Stream returns a channel and starts its goroutine.
Opens(p) ==
  /\ ~cancelled
  /\ wire' = Wire(FormatOf[Providers[p]], prompt)
  /\ using' = p
  /\ phase' = "open"
  /\ stage' = IF FormatOf[Providers[p]] = "anthropic" THEN "start" ELSE "body"
  /\ worker' = "reading"
  /\ UNCHANGED <<failed, said, faulty, acc, toSend>>

\* The request cannot be sent, or the status is not 200.
Refuses(p) ==
  /\ wire' = Wire(FormatOf[Providers[p]], prompt)
  /\ failed' = Append(failed, p)
  /\ UNCHANGED <<using, serverVars, workerVars>>

TryRouted ==
  /\ phase = "routed"
  /\ \/ Opens(routed)
     \/ Refuses(routed) /\ phase' = "sequence"
  /\ UNCHANGED <<askVars, next, cancelled, feed, events, chunks, readVars>>

\* Fault: an index that is counted twice.
SkipToNext == next + 2
NextProvider == next + 1

\* Every provider once, in order, the routed one included.
TryNext ==
  /\ phase = "sequence"
  /\ next <= Len(Providers)
  /\ \/ Opens(next) /\ UNCHANGED next
     \/ Refuses(next) /\ next' = NextProvider /\ UNCHANGED phase
  /\ UNCHANGED <<askVars, cancelled, feed, events, chunks, readVars>>

GiveUp ==
  /\ phase = "sequence"
  /\ next > Len(Providers)
  /\ phase' = "failed"
  /\ UNCHANGED <<askVars, next, failed, using, wire, cancelled, serverVars, feed, events,
                 workerVars, chunks, readVars>>

-----------------------------------------------------------------------------
(* The provider's response, as the code expects it of each format *)

Format == FormatOf[Providers[using]]
SSE == Format # "ollama"

Output == said.text + FoldFunction(+, 0, said.parts)
Event(kind, call, part, report) ==
  [kind |-> kind, call |-> call, part |-> part, report |-> report]

Say(e) ==
  /\ phase = "open" /\ feed = "live"
  /\ events' = Append(events, e)
  /\ UNCHANGED <<askVars, failoverVars, cancelled, feed, faulty, workerVars, chunks, readVars>>

\* message_start reports the input tokens.
SayStart ==
  /\ stage = "start"
  /\ stage' = "body"
  /\ Say(Event("start", 0, 0, [in |-> 1, out |-> 0]))
  /\ UNCHANGED said

\* Gemini may add the usage so far to any event.
Reports(out) ==
  {Zero} \cup (IF Format = "gemini" THEN {[in |-> 1, out |-> out]} ELSE {})

SayText ==
  /\ stage = "body" /\ said.text < MaxText /\ said.block = 0
  /\ said' = [said EXCEPT !.text = @ + 1]
  /\ \E report \in Reports(Output + 1) : Say(Event("text", 0, 0, report))
  /\ UNCHANGED stage

\* Calls are begun in order of their index.
Begins(c) == said.parts[c] = 0 /\ \A d \in 1..(c - 1) : said.parts[d] # 0

\* Gemini and Ollama send a call in one piece.
SayCall(c) ==
  /\ stage = "body" /\ Begins(c) /\ Format \in {"gemini", "ollama"}
  /\ said' = [said EXCEPT !.parts[c] = Parts]
  /\ \E report \in Reports(Output + Parts) : Say(Event("call", c, Parts, report))
  /\ UNCHANGED stage

\* Anthropic opens a content block for each call, one at a time.
SayBlock(c) ==
  /\ stage = "body" /\ Begins(c) /\ Format = "anthropic" /\ said.block = 0
  /\ said' = [said EXCEPT !.block = c]
  /\ Say(Event("block_start", c, 0, Zero))
  /\ UNCHANGED stage

\* The next fragment; the chat format may interleave calls and names the id in the first.
SayPart(c) ==
  /\ stage = "body" /\ said.parts[c] < Parts
  /\ \/ Format = "anthropic" /\ said.block = c
     \/ Format = "chat" /\ (said.parts[c] # 0 \/ Begins(c))
  /\ said' = [said EXCEPT !.parts[c] = @ + 1]
  /\ Say(Event("part", c, said.parts[c] + 1, Zero))
  /\ UNCHANGED stage

SayBlockStop(c) ==
  /\ said.block = c /\ said.parts[c] = Parts
  /\ said' = [said EXCEPT !.block = 0]
  /\ Say(Event("block_stop", c, 0, Zero))
  /\ UNCHANGED stage

Whole == [in |-> IF Format = "anthropic" THEN 0 ELSE 1, out |-> Output]

\* message_delta; finish_reason; finishReason STOP; done: true.  Gemini's and
\* Ollama's is the last event.  In the chat format the usage may come with it,
\* after it, or not at all (or under names that Usage does not read).
SayFinish ==
  /\ stage = "body" /\ said.block = 0
  /\ \A c \in Calls : said.parts[c] \in {0, Parts}
  /\ stage' = IF Format \in {"anthropic", "chat"} THEN "trailer" ELSE "complete"
  /\ \E b \in (IF Format = "chat" THEN BOOLEAN ELSE {TRUE}) :
       /\ said' = [said EXCEPT !.reported = b]
       /\ Say(Event("finish", 0, 0, IF b THEN Whole ELSE Zero))

SayUsage ==
  /\ stage = "trailer" /\ Format = "chat" /\ ~said.reported
  /\ said' = [said EXCEPT !.reported = TRUE]
  /\ Say(Event("usage", 0, 0, Whole))
  /\ UNCHANGED stage

\* message_stop, [DONE].
SayEnd ==
  /\ stage = "trailer"
  /\ stage' = "complete"
  /\ Say(Event("end", 0, 0, Zero))
  /\ UNCHANGED said

\* Anthropic's error event is the last of its stream.
SayError ==
  /\ phase = "open" /\ feed = "live" /\ Format = "anthropic" /\ stage # "complete"
  /\ events' = Append(events, Event("error", 0, 0, Zero))
  /\ feed' = "eof"
  /\ faulty' = TRUE
  /\ UNCHANGED <<askVars, failoverVars, cancelled, stage, said, workerVars, chunks, readVars>>

\* The body ends after a complete response, or too early but cleanly.
BodyEnds ==
  /\ phase = "open" /\ feed = "live"
  /\ feed' = "eof"
  /\ UNCHANGED <<askVars, failoverVars, cancelled, serverVars, events, workerVars, chunks, readVars>>

\* Fault: every read error is taken for the end of the body.
EndQuietly == feed' = "broken" /\ UNCHANGED events

\* A read fails: the SSE parser turns the error into an event, the scanner just ends.
ReadFails ==
  /\ feed' = "broken"
  /\ events' = IF SSE THEN Append(events, Event("error", 0, 0, Zero)) ELSE events

BodyBreaks ==
  /\ phase = "open" /\ feed = "live" /\ stage # "complete"
  /\ ReadFails
  /\ faulty' = TRUE
  /\ UNCHANGED <<askVars, failoverVars, cancelled, stage, said, workerVars, chunks, readVars>>

Cancel ==
  /\ ~cancelled /\ phase # "failed" /\ consumer = "reading"
  /\ cancelled' = TRUE
  /\ UNCHANGED <<askVars, failoverVars, serverVars, feed, events, workerVars, chunks, readVars>>

\* A done context fails the read, or is seen before the next one.
StopParsing ==
  /\ phase = "open" /\ feed = "live" /\ cancelled
  /\ \/ ReadFails
     \/ feed' = "eof" /\ UNCHANGED events
  /\ UNCHANGED <<askVars, failoverVars, cancelled, serverVars, workerVars, chunks, readVars>>

-----------------------------------------------------------------------------
(* The provider's goroutine *)

Chunk(type, size, call, usage) ==
  [type |-> type, size |-> size, call |-> call, in |-> usage.in, out |-> usage.out]
Plain(type) == Chunk(type, 0, NoCall, Zero)
TextChunk == Chunk("text", 1, NoCall, Zero)
CallChunk(call) == Chunk("tool_call", 0, call, Zero)
UsageChunk(report) == Chunk("usage", 0, NoCall, report)

\* toolInput += partial_json; existing.Input += arguments
Grown(call, part) == [call EXCEPT !.parts = Append(@, part)]

\* parseAnthropicEvent
TakeAnthropic(e) ==
  \/ /\ e.kind = "start"
     /\ toSend' = <<UsageChunk(e.report)>> /\ UNCHANGED acc
  \/ /\ e.kind = "text"
     /\ toSend' = <<TextChunk>> /\ UNCHANGED acc
  \/ /\ e.kind = "block_start"
     /\ acc' = [acc EXCEPT ![0] = [id |-> e.call, parts |-> <<>>]]
     /\ UNCHANGED toSend
  \/ /\ e.kind = "part"
     /\ acc' = [acc EXCEPT ![0] = Grown(@, e.part)]
     /\ UNCHANGED toSend
  \/ /\ e.kind = "block_stop"
     /\ toSend' = IF acc[0].id # 0 THEN <<CallChunk(acc[0])>> ELSE <<>>
     /\ acc' = [acc EXCEPT ![0] = NoCall]
  \/ /\ e.kind = "finish"
     /\ toSend' = <<Chunk("text", 0, NoCall, e.report)>> /\ UNCHANGED acc
  \/ /\ e.kind = "end"
     /\ toSend' = <<Plain("done")>> /\ UNCHANGED acc
  \/ /\ e.kind = "error"
     /\ toSend' = <<Plain("error")>> /\ UNCHANGED acc

\* Fault: the id and the arguments are taken from the latest delta.
LatestDelta(call, e) == [id |-> IF e.part = 1 THEN e.call ELSE call.id, parts |-> <<e.part>>]
\* Only the first delta of a call names its id.
Accumulated(call, e) ==
  Grown(IF e.part = 1 THEN [call EXCEPT !.id = e.call] ELSE call, e.part)

\* OpenAIStreamAccumulator.ParseChunk: the calls leave the map in any order.  A
\* read error is no JSON and is skipped.
TakeChat(e) ==
  \/ /\ e.kind = "text"
     /\ toSend' = <<TextChunk>> /\ UNCHANGED acc
  \/ /\ e.kind = "part"
     /\ acc' = [acc EXCEPT ![e.call] = Accumulated(@, e)]
     /\ UNCHANGED toSend
  \/ /\ e.kind = "finish"
     /\ \E order \in SetToSeqs({c \in Calls : acc[c] # NoCall}) :
          toSend' = Append([i \in 1..Len(order) |-> CallChunk(acc[order[i]])],
                           Chunk("text", 0, NoCall, e.report))
     /\ acc' = [i \in 0..MaxCalls |-> NoCall]
  \/ /\ e.kind = "usage"
     /\ toSend' = <<UsageChunk(e.report)>> /\ UNCHANGED acc
  \/ /\ e.kind = "end"
     /\ toSend' = <<Plain("done")>> /\ UNCHANGED acc
  \/ /\ e.kind = "error"
     /\ UNCHANGED <<toSend, acc>>

Reported(report) == IF report = Zero THEN <<>> ELSE <<UsageChunk(report)>>
WholeCall(e) == [id |-> e.call, parts |-> [i \in 1..e.part |-> i]]

\* parseGeminiEvent, and the check for an error before it.
TakeGemini(e) ==
  /\ \/ /\ e.kind = "text"
        /\ toSend' = <<TextChunk>> \o Reported(e.report)
     \/ /\ e.kind = "call"
        /\ toSend' = <<CallChunk(WholeCall(e))>> \o Reported(e.report)
     \/ /\ e.kind = "finish"
        /\ toSend' = Reported(e.report) \o <<Plain("done")>>
     \/ /\ e.kind = "error"
        /\ toSend' = <<Plain("error")>>
  /\ UNCHANGED acc

TakeOllama(e) ==
  /\ \/ /\ e.kind = "text"
        /\ toSend' = <<TextChunk>>
     \/ /\ e.kind = "call"
        /\ toSend' = <<CallChunk(WholeCall(e))>>
     \/ /\ e.kind = "finish"
        /\ toSend' = <<UsageChunk(e.report), Plain("done")>>
  /\ UNCHANGED acc

\* The events after which the goroutine returns without looking for more.
Returns(e) ==
  \/ Format = "chat" /\ e.kind = "end"
  \/ Format = "gemini" /\ e.kind = "error"
  \/ Format = "ollama" /\ e.kind = "finish"

TakeEvent ==
  /\ worker = "reading" /\ toSend = <<>> /\ events # <<>>
  /\ LET e == Head(events)
     IN  /\ \/ Format = "anthropic" /\ TakeAnthropic(e)
            \/ Format = "chat" /\ TakeChat(e)
            \/ Format = "gemini" /\ TakeGemini(e)
            \/ Format = "ollama" /\ TakeOllama(e)
         /\ worker' = IF Returns(e) THEN "leaving" ELSE worker
  /\ events' = Tail(events)
  /\ UNCHANGED <<askVars, failoverVars, cancelled, serverVars, feed, chunks, readVars>>

\* Fault: a send that does not wait for room in the channel.
SendUnbounded ==
  /\ toSend # <<>>
  /\ chunks' = Append(chunks, Head(toSend))
  /\ toSend' = Tail(toSend)
  /\ UNCHANGED <<askVars, failoverVars, cancelled, serverVars, feed, events, acc, worker, readVars>>

SendChunk ==
  /\ toSend # <<>> /\ Len(chunks) < ChanCap
  /\ chunks' = Append(chunks, Head(toSend))
  /\ toSend' = Tail(toSend)
  /\ UNCHANGED <<askVars, failoverVars, cancelled, serverVars, feed, events, acc, worker, readVars>>

\* Fault: the channel is closed after the loop, not by a deferred call.
CloseAfterLoop ==
  /\ toSend = <<>> /\ worker = "reading" /\ events = <<>> /\ feed # "live"
  /\ worker' = "closed"
  /\ UNCHANGED <<askVars, failoverVars, cancelled, serverVars, feed, events, acc, toSend,
                 chunks, readVars>>

\* Ollama's loop also returns when it sees a done context.
CloseChunks ==
  /\ toSend = <<>>
  /\ \/ worker = "leaving"
     \/ worker = "reading" /\ events = <<>> /\ feed # "live"
     \/ worker = "reading" /\ cancelled /\ ~SSE
  /\ worker' = "closed"
  /\ UNCHANGED <<askVars, failoverVars, cancelled, serverVars, feed, events, acc, toSend,
                 chunks, readVars>>

-----------------------------------------------------------------------------
(* The stage of the pipeline that ranges over the chunks *)

\* Fault: LLMInvoker keeps the last report whole.
LastReport(old, new) == new
\* LLMInvoker keeps the last value above zero, the tool loop adds it.
Counted(old, new) ==
  IF reader = "tool_loop" THEN old + new ELSE IF new > 0 THEN new ELSE old

\* Fault: each call replaces the one before.
LastCall(calls, call) == <<call>>
\* req.ToolCalls = append(req.ToolCalls, ...)
Collected(calls, call) == Append(calls, call)

Receive ==
  /\ consumer = "reading" /\ chunks # <<>>
  /\ LET c == Head(chunks)
     IN  \/ /\ c.type = "error"
            /\ consumer' = "error" /\ UNCHANGED got
         \/ /\ c.type # "error"
            /\ got' = [text |-> got.text + c.size,
                       calls |-> IF c.type = "tool_call" THEN Collected(got.calls, c.call)
                                 ELSE got.calls,
                       in |-> Counted(got.in, c.in),
                       out |-> Counted(got.out, c.out)]
            /\ UNCHANGED consumer
  /\ chunks' = Tail(chunks)
  /\ UNCHANGED <<askVars, failoverVars, cancelled, serverVars, feed, events, workerVars>>

EndReading ==
  /\ consumer = "reading" /\ chunks = <<>> /\ worker = "closed"
  /\ consumer' = "ended"
  /\ UNCHANGED <<askVars, failoverVars, cancelled, serverVars, feed, events, workerVars, chunks, got>>

-----------------------------------------------------------------------------
Failover == TryRouted \/ TryNext \/ GiveUp
Respond ==
  \/ SayStart \/ SayText \/ SayFinish \/ SayUsage \/ SayEnd
  \/ \E c \in Calls : SayCall(c) \/ SayBlock(c) \/ SayPart(c) \/ SayBlockStop(c)
Work == TakeEvent \/ SendChunk \/ CloseChunks
Read == Receive \/ EndReading

Next ==
  Failover \/ Respond \/ SayError \/ BodyEnds \/ BodyBreaks \/ Cancel \/ StopParsing \/ Work \/ Read

\* The scheduler runs both goroutines and the parser; a provider closes the body of
\* a response it has completed.  A provider may stay silent: the clients have no timeout.
Spec ==
  /\ Init /\ [][Next]_vars
  /\ WF_vars(Work) /\ WF_vars(Read) /\ WF_vars(StopParsing)
  /\ WF_vars(stage = "complete" /\ BodyEnds)
-----------------------------------------------------------------------------
CallType == [id : 0..MaxCalls, parts : Seq(1..Parts)]
Tokens == Nat
EventType == [kind : {"start", "text", "call", "block_start", "part", "block_stop", "finish",
                      "usage", "end", "error"},
              call : 0..MaxCalls, part : 0..Parts, report : [in : Tokens, out : Tokens]]
ChunkType == [type : {"text", "tool_call", "usage", "done", "error"}, size : {0, 1},
              call : CallType, in : Tokens, out : Tokens]

TypeOK ==
  /\ prompt \in Prompts
  /\ reader \in {"invoker", "tool_loop"}
  /\ phase \in {"routed", "sequence", "open", "failed"}
  /\ routed \in 0..Len(Providers)
  /\ next \in 1..(Len(Providers) + 1)
  /\ failed \in Seq(1..Len(Providers))
  /\ using \in 0..Len(Providers)
  /\ using # 0 <=> phase = "open"
  /\ cancelled \in BOOLEAN
  /\ stage \in {"none", "start", "body", "trailer", "complete"}
  /\ said \in [text : 0..MaxText, parts : [Calls -> 0..Parts], block : 0..MaxCalls,
              reported : BOOLEAN]
  /\ feed \in {"live", "eof", "broken"}
  /\ faulty \in BOOLEAN
  /\ events \in Seq(EventType)
  /\ acc \in [0..MaxCalls -> CallType]
  /\ toSend \in Seq(ChunkType)
  /\ worker \in {"idle", "reading", "leaving", "closed"}
  /\ chunks \in Seq(ChunkType)
  /\ Len(chunks) <= ChanCap
  /\ got \in [text : 0..MaxText, calls : Seq(CallType), in : Tokens, out : Tokens]
  /\ consumer \in {"reading", "ended", "error"}

-----------------------------------------------------------------------------
\* The providers that come before p in the configuration.
Earlier(p) == 1..(p - 1)

\* A request fails only after every configured provider has refused it, and a
\* provider that was not routed to is used only when all those configured before
\* it have refused (FailoverClient.Stream "falls back to sequential failover").
FailoverInOrder ==
  /\ phase = "failed" => 1..Len(Providers) \subseteq ToSet(failed)
  /\ phase = "open" /\ failed # <<>> => Earlier(using) \subseteq ToSet(failed)
  /\ phase = "open" /\ failed = <<>> => using = IF routed # 0 THEN routed ELSE 1

\* Formats that carry tool calls: on the wire, the answers to the calls of a message
\* follow it at once, each call answered once and in order, whether the results
\* are merged into one message or split into one each, and no answer stands
\* alone (the message loops of the Anthropic, OpenAI and Volcengine clients).
AnsweredAt(i) ==
  \/ i < Len(wire) /\ wire[i + 1].results = wire[i].calls
  \/ \A k \in 1..Len(wire[i].calls) :
       i + k <= Len(wire) /\ wire[i + k].results = <<wire[i].calls[k]>>
WirePaired ==
  (phase = "open" /\ Format \in {"anthropic", "chat"}) =>
    \A i \in 1..Len(wire) :
      /\ wire[i].calls # <<>> => AnsweredAt(i)
      /\ wire[i].results # <<>> =>
           \E j \in 1..(i - 1) : wire[j].calls # <<>> /\ \A k \in (j + 1)..i : wire[k].results # <<>>

\* However a response is cut into events, interleaved, cut off or cancelled, a tool
\* call that reaches the pipeline has its id and all its arguments in order, and
\* reaches it once (currentToolInput and OpenAIStreamAccumulator).
CallsWhole ==
  /\ \A i \in DOMAIN got.calls :
       /\ got.calls[i].id \in Calls
       /\ got.calls[i].parts = [k \in 1..Parts |-> k]
  /\ \A i, j \in DOMAIN got.calls : got.calls[i].id = got.calls[j].id => i = j

\* When the provider has completed its response and the request is not cancelled, the
\* stage that has read to the end of the channel has all of its text and calls:
\* no goroutine returns before it has sent what it had read.
CompleteResponseRead ==
  (consumer = "ended" /\ stage = "complete" /\ ~cancelled) =>
    /\ got.text = said.text
    /\ {got.calls[i].id : i \in DOMAIN got.calls} = {c \in Calls : said.parts[c] # 0}

\* The usage a provider has reported of a complete response is counted once.  Not for
\* Gemini in the tool loop, which adds each of its cumulative reports
\* (LLMInvoker, ToolExecutor).
UsageCountedOnce ==
  (consumer = "ended" /\ stage = "complete" /\ ~cancelled
    /\ said.reported /\ ~(Format = "gemini" /\ reader = "tool_loop")) =>
    /\ got.in = Before.in + 1
    /\ Output > 0 => got.out = Before.out + Output

\* A response that broke off, or that the provider ended with an error event, ends
\* the turn with an error instead of passing for a whole answer.  Only Anthropic
\* and Gemini: the chat accumulator and the Ollama scanner drop a read error
\* (SSEParser.Parse, the goroutines' loops).
BreakIsReported ==
  (faulty /\ Format \in {"anthropic", "gemini"}) => consumer # "ended"

\* A provider's goroutine closes its channel once its response is over or its request
\* is cancelled, also when the stage has left on an error.
StreamReleased ==
  (phase = "open" /\ (cancelled \/ feed # "live" \/ stage = "complete")) ~> worker = "closed"
-----------------------------------------------------------------------------
(* What the stage makes of the stream, as module Reply *)

TheCall(c) == [id |-> c, parts |-> [k \in 1..Parts |-> k]]
WholeCalls == {TheCall(c) : c \in Calls}

\* Where the call is for the stage that waits for it.
Status ==
  CASE phase = "failed" -> "refused"
    [] phase \in {"routed", "sequence"} -> "asking"
    [] phase = "open" /\ consumer = "reading" -> "streaming"
    [] phase = "open" /\ consumer = "ended" -> "ended"
    [] phase = "open" /\ consumer = "error" -> "failed"

Spoken == [text |-> said.text, calls |-> {TheCall(c) : c \in {d \in Calls : said.parts[d] = Parts}}]
Heard == [text |-> got.text, calls |-> got.calls]
CutOff == cancelled \/ (feed # "live" /\ stage # "complete")

R == INSTANCE Reply WITH
  Calls <- WholeCalls,
  status <- Status,
  spoken <- Spoken,
  over <- stage = "complete",
  cut <- CutOff,
  heard <- Heard

\* Each format's stream is a Reply to the stage that reads it: the text and the whole calls
\* the model has said, each once, an error only if the reply was cut, and an end
\* only of a reply that was cut or is all read (the goroutines of the five clients).
ReplySafety == R!SafetySpec
=============================================================================
