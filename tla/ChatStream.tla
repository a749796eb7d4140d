----------------------------- MODULE ChatStream -----------------------------
(***************************************************************************)
(* One WebSocket connection (internal/riverbank/ws, handleWebSocket).       *)
(* Every connection has a Handler, a Hub, a sequence counter and a map of   *)
(* active streams of its own.  The read pump starts a goroutine per request *)
(* and the goroutines reply through the connection's bounded send channel,  *)
(* which the write pump drains.  A chat.send goroutine outlives the pumps.  *)
(* The pipeline's stream is what module Turn promises: some chunks, one     *)
(* terminal chunk, then the channel is closed.                              *)
(***************************************************************************)
EXTENDS Integers, Sequences, FiniteSets

CONSTANTS
  Requests,    \* frames the client may send, each once and in any order
  Keys,        \* session keys
  MethodOf,    \* "chat.send", "chat.cancel", "query" or "ping"
  KeyOf,       \* the session key a request names
  NoStream,    \* no entry in activeStreams
  SendCap,     \* capacity of Client.send, 256 in the code
  MaxChunks    \* bound: text chunks per stream

Sends == {q \in Requests : MethodOf[q] = "chat.send"}
Cancels == {q \in Requests : MethodOf[q] = "chat.cancel"}

ASSUME ChatAssumption ==
  /\ MethodOf \in [Requests -> {"chat.send", "chat.cancel", "query", "ping"}]
  /\ KeyOf \in [Requests -> Keys]
  /\ NoStream \notin Requests
  /\ SendCap \in Nat \ {0}
  /\ MaxChunks \in Nat

VARIABLES
  link,        \* the network connection: "up" or "down"
  pumps,       \* pump goroutines that are running
  registered,  \* the client is in the hub (its send channel is open)
  send,        \* frames buffered in Client.send
  pc,          \* where each request's goroutine is
  pending,     \* the frame each goroutine is about to Send, or its last one
  chunks,      \* text chunks each stream has produced
  active,      \* WSHandler.activeStreams: the stream a key would cancel
  cancelled,   \* streams whose context was cancelled
  seq,         \* WSHandler.seq
  crashed      \* a goroutine sent on the closed channel: the process is gone

connVars == <<link, pumps, registered>>
vars == <<connVars, send, pc, pending, chunks, active, cancelled, seq, crashed>>

Kinds == {"result", "rejected", "cancelled", "no_active_stream",
          "ack", "chunk", "end"}

Frame == [req : Requests, kind : Kinds, seq : Nat]

Init ==
  /\ link = "up"
  /\ pumps = {"read", "write"}
  /\ registered = TRUE
  /\ send = <<>>
  /\ pc = [q \in Requests |-> "unsent"]
  /\ pending = [q \in Requests |-> [req |-> q, kind |-> "result", seq |-> 0]]
  /\ chunks = [q \in Requests |-> 0]
  /\ active = [k \in Keys |-> NoStream]
  /\ cancelled = {}
  /\ seq = 0
  /\ crashed = FALSE

-----------------------------------------------------------------------------
(* A crash stops every goroutine. *)

At(q, stage) == ~crashed /\ pc[q] = stage

Running(pump) == ~crashed /\ pump \in pumps

-----------------------------------------------------------------------------
(* Client.Send *)

\* Fault: a blocking send.
BlockingEnqueue(frame) ==
  /\ Len(send) < SendCap
  /\ send' = Append(send, frame)
  /\ UNCHANGED crashed

\* Fault: the buffer grows.
UnboundedEnqueue(frame) ==
  /\ crashed' = ~registered
  /\ send' = IF registered THEN Append(send, frame) ELSE send

\* A full buffer drops the frame; a closed channel panics, select or not.
Enqueue(frame) ==
  /\ crashed' = ~registered
  /\ send' = IF registered /\ Len(send) < SendCap THEN Append(send, frame) ELSE send

Reply(q, kind) ==
  /\ pc' = [pc EXCEPT ![q] = "sending"]
  /\ pending' = [pending EXCEPT ![q] = [req |-> q, kind |-> kind, seq |-> 0]]

-----------------------------------------------------------------------------
(* readPump *)

\* A ping, and a frame that is no valid request, is answered by the pump
\* itself; every method has a goroutine of its own.
Receive(q) ==
  /\ Running("read") /\ link = "up"
  /\ At(q, "unsent")
  /\ IF MethodOf[q] = "ping"
       THEN pc' = [pc EXCEPT ![q] = "finished"] /\ Enqueue(pending[q])
       ELSE pc' = [pc EXCEPT ![q] = "handling"] /\ UNCHANGED <<send, crashed>>
  /\ UNCHANGED <<connVars, pending, chunks, active, cancelled, seq>>

\* sessions.get, sessions.list, agents.list and agents.get; any method may be
\* refused: bad parameters, an unknown agent, a failed query.
Answer(q) ==
  /\ At(q, "handling")
  /\ \E kind \in {"result", "rejected"} :
       (kind = "result" => MethodOf[q] = "query") /\ Reply(q, kind)
  /\ UNCHANGED <<connVars, send, chunks, active, cancelled, seq, crashed>>

-----------------------------------------------------------------------------
(* HandleChatSend *)

\* activeStreams.Store, then Execute, which starts the pipeline and never fails.
StartStream(q) ==
  /\ At(q, "handling") /\ MethodOf[q] = "chat.send"
  /\ active' = [active EXCEPT ![KeyOf[q]] = q]
  /\ Reply(q, "ack")
  /\ UNCHANGED <<connVars, send, chunks, cancelled, seq, crashed>>

\* Fault: events carry the counter's value before Add.
LoadedSeq == seq

NextSeq == seq + 1

\* The next chunk of the pipeline becomes an event; its number is taken before
\* it is sent.  Tool results are not forwarded; "end" is message.done or agent.error.
NextChunk(q) ==
  /\ At(q, "streaming")
  /\ \E kind \in {"chunk", "end"} :
       /\ kind = "chunk" => chunks[q] < MaxChunks
       /\ chunks' = IF kind = "chunk" THEN [chunks EXCEPT ![q] = @ + 1] ELSE chunks
       /\ pending' = [pending EXCEPT ![q] = [req |-> q, kind |-> kind, seq |-> NextSeq]]
  /\ seq' = seq + 1
  /\ pc' = [pc EXCEPT ![q] = "sending"]
  /\ UNCHANGED <<connVars, send, active, cancelled, crashed>>

AfterSend(kind) ==
  CASE kind \in {"ack", "chunk"} -> "streaming"
    [] kind = "end" -> "drained"
    [] OTHER -> "finished"

SendPending(q) ==
  /\ At(q, "sending")
  /\ Enqueue(pending[q])
  /\ pc' = [pc EXCEPT ![q] = AfterSend(pending[q].kind)]
  /\ UNCHANGED <<connVars, pending, chunks, active, cancelled, seq>>

\* Fault: the entry is left behind.
KeepEntry(q) == active

\* activeStreams.Delete removes whatever the key holds.
WithoutEntry(q) == [active EXCEPT ![KeyOf[q]] = NoStream]

EndStream(q) ==
  /\ At(q, "drained")
  /\ active' = WithoutEntry(q)
  /\ pc' = [pc EXCEPT ![q] = "finished"]
  /\ UNCHANGED <<connVars, send, pending, chunks, cancelled, seq, crashed>>

-----------------------------------------------------------------------------
(* HandleChatCancel *)

\* Fault: the function that was loaded is never called.
DeleteOnly(q) ==
  /\ At(q, "handling") /\ MethodOf[q] = "chat.cancel"
  /\ Reply(q, IF active[KeyOf[q]] = NoStream THEN "no_active_stream" ELSE "cancelled")
  /\ active' = [active EXCEPT ![KeyOf[q]] = NoStream]
  /\ UNCHANGED <<connVars, send, chunks, cancelled, seq, crashed>>

\* Fault: every stream of the session is cancelled.
CancelSession(q) ==
  /\ At(q, "handling") /\ MethodOf[q] = "chat.cancel"
  /\ LET s == active[KeyOf[q]] IN
       IF s = NoStream THEN Reply(q, "no_active_stream") /\ UNCHANGED <<active, cancelled>>
       ELSE /\ Reply(q, "cancelled")
            /\ active' = [active EXCEPT ![KeyOf[q]] = NoStream]
            /\ cancelled' = cancelled \cup {r \in Sends : pc[r] = "streaming"}
  /\ UNCHANGED <<connVars, send, chunks, seq, crashed>>

\* LoadAndDelete, then the cancel function.
HandleCancel(q) ==
  /\ At(q, "handling") /\ MethodOf[q] = "chat.cancel"
  /\ LET s == active[KeyOf[q]] IN
       IF s = NoStream THEN Reply(q, "no_active_stream") /\ UNCHANGED <<active, cancelled>>
       ELSE /\ Reply(q, "cancelled")
            /\ active' = [active EXCEPT ![KeyOf[q]] = NoStream]
            /\ cancelled' = cancelled \cup {s}
  /\ UNCHANGED <<connVars, send, chunks, seq, crashed>>

-----------------------------------------------------------------------------
(* The connection *)

\* The client leaves or the network fails.
Break ==
  /\ ~crashed /\ link = "up"
  /\ link' = "down"
  /\ UNCHANGED <<pumps, registered, send, pc, pending, chunks, active, cancelled,
                 seq, crashed>>

\* conn.Read fails, and cancels the context of the pumps.
StopReading ==
  /\ Running("read") /\ link = "down"
  /\ pumps' = pumps \ {"read"}
  /\ UNCHANGED <<link, registered, send, pc, pending, chunks, active, cancelled,
                 seq, crashed>>

Write ==
  /\ Running("write") /\ link = "up"
  /\ send # <<>>
  /\ send' = Tail(send)
  /\ UNCHANGED <<link, pumps, registered, pc, pending, chunks, active, cancelled,
                 seq, crashed>>

\* Fault: the context is not cancelled, so an idle writer waits forever.
StopOnError ==
  /\ Running("write")
  /\ link = "down" /\ send # <<>> /\ send' = Tail(send)
  /\ pumps' = pumps \ {"write"}
  /\ UNCHANGED <<link, registered, pc, pending, chunks, active, cancelled, seq, crashed>>

\* conn.Write fails on the frame it took, or the context is done.
StopWriting ==
  /\ Running("write")
  /\ \/ link = "down" /\ send # <<>> /\ send' = Tail(send)
     \/ "read" \notin pumps /\ UNCHANGED send
  /\ pumps' = pumps \ {"write"}
  /\ UNCHANGED <<link, registered, pc, pending, chunks, active, cancelled,
                 seq, crashed>>

\* After wg.Wait the deferred Unregister closes the send channel.
Unregister ==
  /\ ~crashed /\ registered /\ pumps = {}
  /\ registered' = FALSE
  /\ UNCHANGED <<link, pumps, send, pc, pending, chunks, active, cancelled,
                 seq, crashed>>

\* What goroutines do by themselves.
Handle(q) ==
  \/ Answer(q) \/ HandleCancel(q)
  \/ StartStream(q) \/ NextChunk(q) \/ SendPending(q) \/ EndStream(q)

Next ==
  \/ \E q \in Requests : Receive(q) \/ Handle(q)
  \/ Break \/ StopReading \/ Write \/ StopWriting \/ Unregister

\* The scheduler runs every goroutine; the client need not read (no fairness for
\* Write), and the pipeline ends its stream (module Pipeline, TurnLiveness).
Spec ==
  /\ Init /\ [][Next]_vars
  /\ \A q \in Requests : WF_vars(Handle(q))
  /\ WF_vars(StopReading \/ StopWriting)
  /\ WF_vars(Unregister)

-----------------------------------------------------------------------------
TypeOK ==
  /\ link \in {"up", "down"}
  /\ pumps \subseteq {"read", "write"}
  /\ registered \in BOOLEAN
  /\ send \in Seq(Frame) /\ Len(send) <= SendCap
  /\ pc \in [Requests -> {"unsent", "handling", "sending", "streaming", "drained", "finished"}]
  /\ pending \in [Requests -> Frame]
  /\ chunks \in [Requests -> 0..MaxChunks]
  /\ active \in [Keys -> Requests \cup {NoStream}]
  /\ cancelled \subseteq Requests
  /\ seq \in Nat
  /\ crashed \in BOOLEAN

\* activeStreams.Store has run and Delete has not.
InProgress(q) ==
  /\ q \in Sends
  /\ \/ pc[q] \in {"streaming", "drained"}
     \/ pc[q] = "sending" /\ pending[q].kind \in {"ack", "chunk", "end"}

Started(q) == InProgress(q) \/ (pc[q] = "finished" /\ pending[q].kind = "end")

\* A cancel function in activeStreams always belongs to a stream of its key that
\* is still in progress: chat.cancel never answers "cancelled" for a turn that
\* is over (HandleChatSend's Store and Delete around the stream).
NoStaleCancel == \A k \in Keys : active[k] # NoStream =>
  InProgress(active[k]) /\ KeyOf[active[k]] = k

\* While no other chat.send of the same session has started, a stream in progress
\* can be cancelled, until it has been (activeStreams).
CancellableUnlessShared == \A q \in Sends :
  (InProgress(q) /\ \A s \in Sends \ {q} : KeyOf[s] = KeyOf[q] => ~Started(s)) =>
    active[KeyOf[q]] = q \/ q \in cancelled

\* Every stream in progress can be cancelled, until it has been
\* (activeStreams "tracks cancel functions for in-progress chat streams").
Cancellable == \A q \in Sends :
  InProgress(q) => active[KeyOf[q]] = q \/ q \in cancelled

\* Every "cancelled" answer stands for one stream of its session that was cancelled
\* and for no other answer (LoadAndDelete in HandleChatCancel).
OneStreamPerCancel == \A k \in Keys :
  Cardinality({s \in cancelled : KeyOf[s] = k}) =
  Cardinality({q \in Cancels : KeyOf[q] = k /\ pending[q].kind = "cancelled"})

\* Whatever is dropped, the events of a stream leave in the order of the stream:
\* the acknowledgement first, then by increasing seq, the terminal event last; and
\* no two streams share a seq (nextSeq and Send in HandleChatSend).
StreamInOrder ==
  /\ \A i, j \in DOMAIN send : i < j /\ send[i].req = send[j].req =>
       send[i].seq < send[j].seq /\ send[i].kind # "end"
  /\ \A i \in DOMAIN send : LET last == pending[send[i].req] IN
       last # send[i] => send[i].seq < last.seq /\ send[i].kind # "end"
  /\ \A q, s \in Sends : q # s /\ pending[q].seq = pending[s].seq => pending[q].seq = 0

\* A stream runs to its end and frees its entry although its client does not read
\* or has gone (Client.Send never blocks).
StreamsEnd == \A q \in Sends : InProgress(q) ~> (pc[q] = "finished" \/ crashed)

\* An event of a stream is delivered, or dropped when the buffer is full; sending it
\* never takes the process down, also when the client has left during the stream
\* (Client.Send: "enqueues a message for delivery to the client").
SendNeverPanics == [][\A q \in Sends :
  (pending[q].kind \in {"chunk", "end"} /\ pc[q] = "sending" /\ pc'[q] # "sending") => ~crashed']_vars
=============================================================================
