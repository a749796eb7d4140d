------------------------------ MODULE MCPClient ------------------------------
(***************************************************************************)
(* pkg/mcp: one Client on one transport.  Every call takes an id from the    *)
(* counter, leaves a channel of capacity one in `pending', sends, and waits  *)
(* for the receive loop or its context.  The first call is the handshake of  *)
(* NewClient.  A message of the server is [id, of]: the id it carries, 0 for *)
(* one the loop skips (a notification, or bytes that are not one JSON text), *)
(* and the call whose request it answers, McpNobody for none.                *)
(***************************************************************************)
EXTENDS Integers, Sequences, FiniteSets, SequencesExt

CONSTANTS
  McpCalls,      \* callers of the client, one call each
  McpHandshake,  \* the one that makes the initialize call
  McpNobody,
  McpRecvCap,    \* capacity of recv, 64 in the code
  McpTalk        \* bound: messages the server writes

ASSUME McpAssumption ==
  /\ McpHandshake \in McpCalls
  /\ McpNobody \notin McpCalls
  /\ McpRecvCap \in Nat \ {0}
  /\ McpTalk \in Nat

VARIABLES
  mcpKind,     \* "stdio" or "sse"
  mcpNextID,   \* Client.nextID
  mcpAt,       \* where call() is: "idle", "sending", "waiting", "leaving", or over:
               \* "answered", "sendFailed", "expired"
  mcpId,       \* id of each call, 0 before it has one
  mcpPending,  \* Client.pending: ids to the call whose channel it holds
  mcpBox,      \* the channel of each call
  mcpResult,   \* the message call() returned, McpNothing before
  mcpLoop,     \* receiveLoop: McpNothing, or the message and the call it was popped for
  mcpServer,   \* requests the server has read: a set of [id, of]
  mcpWrote,    \* messages it has written
  mcpPipe,     \* its output that the reader has not read
  mcpHand,     \* what readLoop or readSSELoop holds, McpNothing if it reads
  mcpRecv,     \* the recv channel
  mcpClosed,   \* recv is closed
  mcpPanic     \* a send on, or a second close of, a closed channel ended the process

mcpCallVars == <<mcpNextID, mcpAt, mcpId, mcpResult>>
mcpServerVars == <<mcpServer, mcpWrote, mcpPipe>>
mcpVars == <<mcpKind, mcpCallVars, mcpPending, mcpBox, mcpLoop, mcpServerVars, mcpHand,
             mcpRecv, mcpClosed, mcpPanic>>

McpNothing == [id |-> -1, of |-> McpNobody]
McpSkipped == [id |-> 0, of |-> McpNobody]
McpOver == {"answered", "sendFailed", "expired"}
McpAllCalls == McpCalls \union {McpNobody}

McpInit ==
  /\ mcpKind \in {"stdio", "sse"}
  /\ mcpNextID = 0
  /\ mcpAt = [c \in McpCalls |-> "idle"]
  /\ mcpId = [c \in McpCalls |-> 0]
  /\ mcpPending = [i \in 1..Cardinality(McpCalls) |-> McpNobody]
  /\ mcpBox = [c \in McpCalls |-> <<>>]
  /\ mcpResult = [c \in McpCalls |-> McpNothing]
  /\ mcpLoop = [msg |-> McpNothing, call |-> McpNobody]
  /\ mcpServer = {}
  /\ mcpWrote = 0
  /\ mcpPipe = <<>>
  /\ mcpHand = McpNothing
  /\ mcpRecv = <<>>
  /\ mcpClosed = FALSE
  /\ mcpPanic = FALSE

-----------------------------------------------------------------------------
(* Client.call *)

\* Fault: ids are numbered by the calls in progress.
McpReusedID == Cardinality({i \in DOMAIN mcpPending : mcpPending[i] # McpNobody}) + 1

McpFreshID == mcpNextID + 1

\* NewClient returns the client to its callers when the handshake is answered.
McpCall(c) ==
  /\ mcpAt[c] = "idle"
  /\ c # McpHandshake => mcpAt[McpHandshake] = "answered"
  /\ mcpNextID' = mcpNextID + 1
  /\ mcpId' = [mcpId EXCEPT ![c] = McpFreshID]
  /\ mcpPending' = [mcpPending EXCEPT ![McpFreshID] = c]
  /\ mcpAt' = [mcpAt EXCEPT ![c] = "sending"]
  /\ UNCHANGED <<mcpKind, mcpBox, mcpResult, mcpLoop, mcpServerVars, mcpHand, mcpRecv,
                 mcpClosed, mcpPanic>>

McpForget(c) == mcpPending' = [mcpPending EXCEPT ![mcpId[c]] = McpNobody]

McpArrives(c) == mcpServer' = mcpServer \union {[id |-> mcpId[c], of |-> c]}

\* A POST that fails, by its answer or without one, may have reached the server all the
\* same.
McpFailedSend(c) == UNCHANGED mcpServer \/ (mcpKind = "sse" /\ McpArrives(c))

McpSend(c) ==
  /\ mcpAt[c] = "sending"
  /\ \/ /\ McpArrives(c)
        /\ mcpAt' = [mcpAt EXCEPT ![c] = "waiting"]
        /\ UNCHANGED mcpPending
     \/ /\ McpFailedSend(c)
        /\ mcpAt' = [mcpAt EXCEPT ![c] = "sendFailed"]
        /\ McpForget(c)
  /\ UNCHANGED <<mcpKind, mcpNextID, mcpId, mcpResult, mcpBox, mcpLoop, mcpWrote, mcpPipe,
                 mcpHand, mcpRecv, mcpClosed, mcpPanic>>

\* case <-ctx.Done(): the entry is deleted after the select, under the mutex.
McpExpire(c) ==
  /\ mcpAt[c] = "waiting"
  /\ mcpAt' = [mcpAt EXCEPT ![c] = "leaving"]
  /\ UNCHANGED <<mcpKind, mcpNextID, mcpId, mcpResult, mcpPending, mcpBox, mcpLoop,
                 mcpServerVars, mcpHand, mcpRecv, mcpClosed, mcpPanic>>

McpLeave(c) ==
  /\ mcpAt[c] = "leaving"
  /\ McpForget(c)
  /\ mcpAt' = [mcpAt EXCEPT ![c] = "expired"]
  /\ UNCHANGED <<mcpKind, mcpNextID, mcpId, mcpResult, mcpBox, mcpLoop, mcpServerVars,
                 mcpHand, mcpRecv, mcpClosed, mcpPanic>>

\* case raw := <-ch
McpTake(c) ==
  /\ mcpAt[c] = "waiting"
  /\ mcpBox[c] # <<>>
  /\ mcpResult' = [mcpResult EXCEPT ![c] = Head(mcpBox[c])]
  /\ mcpBox' = [mcpBox EXCEPT ![c] = Tail(@)]
  /\ mcpAt' = [mcpAt EXCEPT ![c] = "answered"]
  /\ UNCHANGED <<mcpKind, mcpNextID, mcpId, mcpPending, mcpLoop, mcpServerVars, mcpHand,
                 mcpRecv, mcpClosed, mcpPanic>>

-----------------------------------------------------------------------------
(* The server: it answers what it has read, in any order and more than once, *)
(* and sends notifications.                                                  *)

McpServe ==
  /\ mcpWrote < McpTalk
  /\ \E m \in mcpServer \union {McpSkipped} : mcpPipe' = Append(mcpPipe, m)
  /\ mcpWrote' = mcpWrote + 1
  /\ UNCHANGED <<mcpKind, mcpCallVars, mcpPending, mcpBox, mcpLoop, mcpServer, mcpHand,
                 mcpRecv, mcpClosed, mcpPanic>>

-----------------------------------------------------------------------------
(* The transport's reader *)

\* StdioTransport: one Read is one message, whatever it held: two messages, or
\* the first part of one, whose rest is read next.
McpReadPipe ==
  /\ mcpKind = "stdio"
  /\ \/ mcpHand' = Head(mcpPipe) /\ mcpPipe' = Tail(mcpPipe)
     \/ /\ Len(mcpPipe) > 1
        /\ mcpHand' = McpSkipped
        /\ mcpPipe' = Tail(Tail(mcpPipe))
     \/ /\ mcpHand' = McpSkipped
        /\ Head(mcpPipe).id # 0
        /\ mcpPipe' = <<McpSkipped>> \o Tail(mcpPipe)

\* SSETransport: an event is one message.
McpReadEvent ==
  /\ mcpKind = "sse"
  /\ ~mcpClosed
  /\ mcpHand' = Head(mcpPipe)
  /\ mcpPipe' = Tail(mcpPipe)

McpRead ==
  /\ mcpHand = McpNothing
  /\ mcpPipe # <<>>
  /\ McpReadPipe \/ McpReadEvent
  /\ UNCHANGED <<mcpKind, mcpCallVars, mcpPending, mcpBox, mcpLoop, mcpServer, mcpWrote,
                 mcpRecv, mcpClosed, mcpPanic>>

\* Fault: an unbounded queue.
McpNoBound == TRUE

McpRoom == Len(mcpRecv) < McpRecvCap

\* recv <- msg.  On a closed channel it panics; the SSE reader selects between
\* that and its context, which Close has cancelled.
McpForward ==
  /\ mcpHand # McpNothing
  /\ \/ /\ ~mcpClosed
        /\ McpRoom
        /\ mcpRecv' = Append(mcpRecv, mcpHand)
        /\ UNCHANGED mcpPanic
     \/ mcpClosed /\ mcpPanic' = TRUE /\ UNCHANGED mcpRecv
     \/ mcpClosed /\ mcpKind = "sse" /\ UNCHANGED <<mcpPanic, mcpRecv>>
  /\ mcpHand' = McpNothing
  /\ UNCHANGED <<mcpKind, mcpCallVars, mcpPending, mcpBox, mcpLoop, mcpServerVars, mcpClosed>>

-----------------------------------------------------------------------------
(* Client.receiveLoop *)

\* Fault: the channel stays in pending until the call returns.
McpKeep(m) == UNCHANGED mcpPending

McpPop(m) == mcpPending' = [mcpPending EXCEPT ![m.id] = McpNobody]

\* The channel is looked up and removed under the mutex.
McpReceive ==
  /\ mcpLoop.call = McpNobody
  /\ mcpRecv # <<>>
  /\ mcpRecv' = Tail(mcpRecv)
  /\ LET m == Head(mcpRecv) IN
       IF m.id = 0 \/ (m.id # 0 /\ mcpPending[m.id] = McpNobody)
       THEN UNCHANGED <<mcpLoop, mcpPending>>
       ELSE mcpLoop' = [msg |-> m, call |-> mcpPending[m.id]] /\ McpPop(m)
  /\ UNCHANGED <<mcpKind, mcpCallVars, mcpBox, mcpServerVars, mcpHand, mcpClosed, mcpPanic>>

\* ch <- resp.Result, outside the mutex.
McpDeliver ==
  /\ mcpLoop.call # McpNobody
  /\ mcpBox[mcpLoop.call] = <<>>
  /\ mcpBox' = [mcpBox EXCEPT ![mcpLoop.call] = <<mcpLoop.msg>>]
  /\ mcpLoop' = [msg |-> McpNothing, call |-> McpNobody]
  /\ UNCHANGED <<mcpKind, mcpCallVars, mcpPending, mcpServerVars, mcpHand, mcpRecv,
                 mcpClosed, mcpPanic>>

\* SSETransport closes its channel at most once.
McpCloseAgain == mcpPanic' = (mcpClosed /\ mcpKind = "stdio")

\* Client.Close, once the handshake is over.
McpClose ==
  /\ mcpAt[McpHandshake] \in McpOver
  /\ mcpClosed' = TRUE
  /\ McpCloseAgain
  /\ UNCHANGED <<mcpKind, mcpCallVars, mcpPending, mcpBox, mcpLoop, mcpServerVars, mcpHand,
                 mcpRecv>>

\* A panic in any goroutine ends the gateway.
McpNext ==
  /\ ~mcpPanic
  /\ \/ \E c \in McpCalls :
          McpCall(c) \/ McpSend(c) \/ McpExpire(c) \/ McpLeave(c) \/ McpTake(c)
     \/ McpServe \/ McpRead \/ McpForward \/ McpReceive \/ McpDeliver \/ McpClose

-----------------------------------------------------------------------------
(* Correctness *)

McpMessage == [id : 0..Cardinality(McpCalls), of : McpAllCalls]

McpTypeOK ==
  /\ mcpKind \in {"stdio", "sse"}
  /\ mcpNextID \in 0..Cardinality(McpCalls)
  /\ mcpAt \in [McpCalls -> {"idle", "sending", "waiting", "leaving"} \union McpOver]
  /\ mcpId \in [McpCalls -> 0..Cardinality(McpCalls)]
  /\ mcpPending \in [1..Cardinality(McpCalls) -> McpAllCalls]
  /\ mcpBox \in [McpCalls -> Seq(McpMessage)]
  /\ mcpResult \in [McpCalls -> McpMessage \union {McpNothing}]
  /\ mcpLoop \in [msg : McpMessage \union {McpNothing}, call : McpAllCalls]
  /\ mcpServer \subseteq McpMessage
  /\ mcpWrote \in 0..McpTalk
  /\ mcpPipe \in Seq(McpMessage)
  /\ mcpHand \in McpMessage \union {McpNothing}
  /\ mcpRecv \in Seq(McpMessage) /\ Len(mcpRecv) <= McpRecvCap
  /\ mcpClosed \in BOOLEAN /\ mcpPanic \in BOOLEAN

\* What a call returns is the answer to its own request, whatever answers are
\* repeated, late for a call that gave up, or lost in the pipe (call, receiveLoop).
McpAnswersMatch == \A c \in McpCalls : mcpAt[c] = "answered" => mcpResult[c].of = c

\* The receive loop, which every call of the client depends on, never waits to hand over
\* an answer: the channel it is about to send on is empty, though servers repeat
\* answers and callers have given up and read no more (receiveLoop, call).
McpLoopNeverWaits == \A c \in McpCalls : mcpLoop.call = c => mcpBox[c] = <<>>
=============================================================================
