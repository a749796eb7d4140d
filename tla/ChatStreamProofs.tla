-------------------------- MODULE ChatStreamProofs --------------------------
(***************************************************************************)
(* Theorems about module ChatStream: any number of requests and sessions on *)
(* one connection, any buffer.                                              *)
(***************************************************************************)
EXTENDS ChatStream, SequenceTheorems, FiniteSetTheorems, TLAPS

-----------------------------------------------------------------------------
(* Type correctness *)

LEMMA EnqueueType ==
  ASSUME TypeOK, NEW frame \in Frame, Enqueue(frame)
  PROVE  send' \in Seq(Frame) /\ Len(send') <= SendCap /\ crashed' \in BOOLEAN
<1>1. Append(send, frame) \in Seq(Frame) /\ Len(Append(send, frame)) = Len(send) + 1
  BY DEF TypeOK
<1>2. Len(send) \in Nat /\ SendCap \in Nat
  BY ChatAssumption DEF TypeOK
<1> QED BY <1>1, <1>2 DEF Enqueue, TypeOK

LEMMA ReplyType ==
  ASSUME TypeOK, NEW q \in Requests, NEW kind \in Kinds, Reply(q, kind)
  PROVE  /\ pc' \in [Requests -> {"unsent", "handling", "sending", "streaming", "drained", "finished"}]
         /\ pending' \in [Requests -> Frame]
<1>1. [req |-> q, kind |-> kind, seq |-> 0] \in Frame
  BY DEF Frame
<1> QED BY <1>1 DEF Reply, TypeOK

LEMMA TypeInit == Init => TypeOK
<1> SUFFICES ASSUME Init PROVE TypeOK
  OBVIOUS
<1>1. pending \in [Requests -> Frame]
  BY DEF Init, Frame, Kinds
<1>2. send \in Seq(Frame) /\ Len(send) <= SendCap
  BY EmptySeq, ChatAssumption DEF Init
<1>3. chunks \in [Requests -> 0..MaxChunks] /\ seq \in Nat
  BY ChatAssumption DEF Init
<1>4. pc \in [Requests -> {"unsent", "handling", "sending", "streaming", "drained", "finished"}]
  BY DEF Init
<1>5. active \in [Keys -> Requests \cup {NoStream}] /\ cancelled \subseteq Requests
  BY DEF Init
<1>6. link \in {"up", "down"} /\ pumps \subseteq {"read", "write"}
  BY DEF Init
<1>7. registered \in BOOLEAN /\ crashed \in BOOLEAN
  BY DEF Init
<1> QED BY <1>1, <1>2, <1>3, <1>4, <1>5, <1>6, <1>7 DEF TypeOK

LEMMA TypeStep == TypeOK /\ [Next]_vars => TypeOK'
<1> SUFFICES ASSUME TypeOK, [Next]_vars PROVE TypeOK'
  OBVIOUS
<1> USE ChatAssumption
<1>1. ASSUME NEW q \in Requests, Receive(q) PROVE TypeOK'
  <2>1. pending[q] \in Frame
    BY DEF TypeOK
  <2>2. CASE MethodOf[q] = "ping"
    BY <1>1, <2>1, <2>2, EnqueueType DEF Receive, TypeOK, connVars
  <2>3. CASE MethodOf[q] # "ping"
    BY <1>1, <2>3 DEF Receive, TypeOK, connVars
  <2> QED BY <2>2, <2>3
<1>2. ASSUME NEW q \in Requests, Answer(q) PROVE TypeOK'
  <2>1. \E kind \in Kinds : Reply(q, kind)
    BY <1>2 DEF Answer, Kinds
  <2> QED BY <1>2, <2>1, ReplyType DEF Answer, TypeOK, connVars
<1>3. ASSUME NEW q \in Requests, StartStream(q) PROVE TypeOK'
  <2>1. Reply(q, "ack") /\ "ack" \in Kinds
    BY <1>3 DEF StartStream, Kinds
  <2>2. active' \in [Keys -> Requests \cup {NoStream}]
    BY <1>3 DEF StartStream, TypeOK
  <2> QED BY <1>3, <2>1, <2>2, ReplyType DEF StartStream, TypeOK, connVars
<1>4. ASSUME NEW q \in Requests, NextChunk(q) PROVE TypeOK'
  <2>1. PICK kind \in {"chunk", "end"} :
          /\ kind = "chunk" => chunks[q] < MaxChunks
          /\ chunks' = IF kind = "chunk" THEN [chunks EXCEPT ![q] = chunks[q] + 1] ELSE chunks
          /\ pending' = [pending EXCEPT ![q] = [req |-> q, kind |-> kind, seq |-> NextSeq]]
    BY <1>4 DEF NextChunk
  <2>2. [req |-> q, kind |-> kind, seq |-> NextSeq] \in Frame
    BY DEF Frame, Kinds, NextSeq, TypeOK
  <2>3. pending' \in [Requests -> Frame]
    BY <2>1, <2>2 DEF TypeOK
  <2>4. chunks' \in [Requests -> 0..MaxChunks]
    BY <2>1 DEF TypeOK
  <2> QED BY <1>4, <2>3, <2>4 DEF NextChunk, TypeOK, connVars
<1>5. ASSUME NEW q \in Requests, SendPending(q) PROVE TypeOK'
  <2>1. pending[q] \in Frame
    BY DEF TypeOK
  <2>2. AfterSend(pending[q].kind) \in {"streaming", "drained", "finished"}
    BY DEF AfterSend
  <2>3. pc' = [pc EXCEPT ![q] = AfterSend(pending[q].kind)]
    BY <1>5 DEF SendPending
  <2>4. pc' \in [Requests -> {"unsent", "handling", "sending", "streaming", "drained", "finished"}]
    BY <2>2, <2>3 DEF TypeOK
  <2> QED BY <1>5, <2>1, <2>4, EnqueueType DEF SendPending, TypeOK, connVars
<1>6. ASSUME NEW q \in Requests, EndStream(q) PROVE TypeOK'
  BY <1>6 DEF EndStream, WithoutEntry, TypeOK, connVars
<1>7. ASSUME NEW q \in Requests, HandleCancel(q) PROVE TypeOK'
  <2> DEFINE s == active[KeyOf[q]]
  <2>1. \E kind \in Kinds : Reply(q, kind)
    BY <1>7 DEF HandleCancel, Kinds
  <2>2. s \in Requests \cup {NoStream}
    BY DEF TypeOK
  <2>3. active' \in [Keys -> Requests \cup {NoStream}]
    BY <1>7 DEF HandleCancel, TypeOK
  <2>4. cancelled' \subseteq Requests
    BY <1>7, <2>2 DEF HandleCancel, TypeOK
  <2> QED BY <1>7, <2>1, <2>3, <2>4, ReplyType DEF HandleCancel, TypeOK, connVars
<1>8. ASSUME Write \/ StopWriting PROVE TypeOK'
  <2>1. send' = send \/ (send # <<>> /\ send' = Tail(send))
    BY <1>8 DEF Write, StopWriting
  <2>2. send' \in Seq(Frame) /\ Len(send') <= SendCap
    <3>1. CASE send' = send
      BY <3>1 DEF TypeOK
    <3>2. CASE send # <<>> /\ send' = Tail(send)
      <4>1. /\ Tail(send) \in Seq(Frame) /\ Len(Tail(send)) = Len(send) - 1
            /\ Len(send) \in Nat /\ Len(send) <= SendCap
        BY <3>2, HeadTailProperties DEF TypeOK
      <4> QED BY <3>2, <4>1
    <3> QED BY <2>1, <3>1, <3>2
  <2>3. pumps' \subseteq {"read", "write"}
    BY <1>8 DEF Write, StopWriting, TypeOK
  <2> QED BY <1>8, <2>2, <2>3 DEF Write, StopWriting, TypeOK
<1>9. ASSUME Break \/ StopReading \/ Unregister PROVE TypeOK'
  BY <1>9 DEF Break, StopReading, Unregister, TypeOK
<1>10. CASE UNCHANGED vars
  BY <1>10 DEF vars, connVars, TypeOK
<1> QED BY <1>1, <1>2, <1>3, <1>4, <1>5, <1>6, <1>7, <1>8, <1>9, <1>10 DEF Next, Handle

\* The send buffer stays within its capacity and everything else within its type,
\* whatever the client sends and whenever it leaves (Client.Send, handler.go).
THEOREM TypeCorrect == Spec => []TypeOK
BY TypeInit, TypeStep, PTL DEF Spec

-----------------------------------------------------------------------------
(* Cancelling *)

\* What a request's own frame says about where its goroutine is.
Honest == \A q \in Requests :
  /\ pc[q] \in {"streaming", "drained"} => q \in Sends
  /\ pc[q] = "sending" /\ pending[q].kind \in {"ack", "chunk", "end"} => q \in Sends
  /\ pc[q] = "drained" => pending[q].kind = "end"
  /\ pc[q] = "streaming" => pending[q].kind \in {"ack", "chunk"}
  /\ pc[q] \in {"unsent", "handling"} => pending[q].kind = "result"

LEMMA HonestInit == Init => Honest
BY DEF Init, Honest

\* Honest is inductive with the types alone.
LEMMA HonestStep == TypeOK /\ Honest /\ [Next]_vars => Honest'
<1> SUFFICES ASSUME TypeOK, Honest, [Next]_vars PROVE Honest'
  OBVIOUS
<1>1. ASSUME NEW q \in Requests, Receive(q) PROVE Honest'
  BY <1>1 DEF Receive, At, TypeOK, Honest, Sends
<1>2. ASSUME NEW q \in Requests, Answer(q) PROVE Honest'
  BY <1>2 DEF Answer, At, Reply, TypeOK, Honest, Sends
<1>3. ASSUME NEW q \in Requests, StartStream(q) PROVE Honest'
  BY <1>3 DEF StartStream, At, Reply, TypeOK, Honest, Sends
<1>4. ASSUME NEW q \in Requests, NextChunk(q) PROVE Honest'
  BY <1>4 DEF NextChunk, At, TypeOK, Honest, Sends
<1>5. ASSUME NEW q \in Requests, SendPending(q) PROVE Honest'
  BY <1>5 DEF SendPending, At, AfterSend, TypeOK, Honest, Sends
<1>6. ASSUME NEW q \in Requests, EndStream(q) PROVE Honest'
  BY <1>6 DEF EndStream, At, TypeOK, Honest, Sends
<1>7. ASSUME NEW q \in Requests, HandleCancel(q) PROVE Honest'
  BY <1>7 DEF HandleCancel, At, Reply, TypeOK, Honest, Sends
<1>8. ASSUME Write \/ StopWriting \/ Break \/ StopReading \/ Unregister PROVE Honest'
  BY <1>8 DEF Write, StopWriting, Break, StopReading, Unregister, Honest
<1>9. CASE UNCHANGED vars
  BY <1>9 DEF vars, Honest
<1> QED BY <1>1, <1>2, <1>3, <1>4, <1>5, <1>6, <1>7, <1>8, <1>9 DEF Next, Handle

\* CancellableUnlessShared, with what makes it inductive.
CancelInv == TypeOK /\ Honest /\ NoStaleCancel /\ CancellableUnlessShared

\* The requests that take no part in a step stay where they are, and so does
\* the map, unless the step says otherwise.
LEMMA CancelFrame ==
  ASSUME CancelInv, UNCHANGED <<pc, pending, active, cancelled>>
  PROVE  (Honest /\ NoStaleCancel /\ CancellableUnlessShared)'
BY DEF CancelInv, Honest, NoStaleCancel, CancellableUnlessShared, InProgress, Started

LEMMA CancelStep == CancelInv /\ [Next]_vars => (Honest /\ NoStaleCancel /\ CancellableUnlessShared)'
<1> SUFFICES ASSUME CancelInv, [Next]_vars
             PROVE  (Honest /\ NoStaleCancel /\ CancellableUnlessShared)'
  OBVIOUS
<1> DEFINE Goal == (Honest /\ NoStaleCancel /\ CancellableUnlessShared)'
<1> USE ChatAssumption
<1>0. TypeOK /\ Honest /\ NoStaleCancel /\ CancellableUnlessShared
  BY DEF CancelInv
<1>h. Honest'
  BY <1>0, HonestStep
<1>1. ASSUME NEW q \in Requests, Receive(q) PROVE Goal
  <2>2. NoStaleCancel'
    BY <1>0, <1>1 DEF Receive, At, TypeOK, Honest, NoStaleCancel, InProgress, Sends
  <2>1. ASSUME NEW s \in Requests
        PROVE  (InProgress(s)' <=> InProgress(s)) /\ (Started(s)' <=> Started(s))
    BY <1>0, <1>1 DEF Receive, At, TypeOK, Honest, InProgress, Started, Sends
  <2>3. CancellableUnlessShared'
    BY <1>0, <1>1, <2>1 DEF Receive, CancellableUnlessShared, Sends
  <2> QED BY <1>h, <2>2, <2>3
<1>2. ASSUME NEW q \in Requests, Answer(q) PROVE Goal
  <2>2. NoStaleCancel'
    BY <1>0, <1>2 DEF Answer, At, Reply, TypeOK, Honest, NoStaleCancel, InProgress, Sends
  <2>3. CancellableUnlessShared'
    BY <1>0, <1>2, SMTT(30) DEF Answer, At, Reply, TypeOK, Honest, NoStaleCancel, CancellableUnlessShared, InProgress, Started, Sends
  <2> QED BY <1>h, <2>2, <2>3
<1>3. ASSUME NEW q \in Requests, StartStream(q) PROVE Goal
  <2>2. NoStaleCancel'
    BY <1>0, <1>3 DEF StartStream, At, Reply, TypeOK, Honest, NoStaleCancel, InProgress, Sends
  <2>3. CancellableUnlessShared'
    BY <1>0, <1>3, SMTT(30) DEF StartStream, At, Reply, TypeOK, Honest, NoStaleCancel, CancellableUnlessShared, InProgress, Started, Sends
  <2> QED BY <1>h, <2>2, <2>3
<1>4. ASSUME NEW q \in Requests, NextChunk(q) PROVE Goal
  <2>2. NoStaleCancel'
    BY <1>0, <1>4 DEF NextChunk, At, TypeOK, Honest, NoStaleCancel, InProgress, Sends
  <2>3. CancellableUnlessShared'
    BY <1>0, <1>4, SMTT(30) DEF NextChunk, At, TypeOK, Honest, NoStaleCancel, CancellableUnlessShared, InProgress, Started, Sends
  <2> QED BY <1>h, <2>2, <2>3
<1>5. ASSUME NEW q \in Requests, SendPending(q) PROVE Goal
  <2>2. NoStaleCancel'
    BY <1>0, <1>5 DEF SendPending, At, AfterSend, TypeOK, Honest, NoStaleCancel, InProgress, Sends
  <2>3. CancellableUnlessShared'
    BY <1>0, <1>5, SMTT(30) DEF SendPending, At, AfterSend, TypeOK, Honest, NoStaleCancel, CancellableUnlessShared, InProgress, Started, Sends
  <2> QED BY <1>h, <2>2, <2>3
<1>6. ASSUME NEW q \in Requests, EndStream(q) PROVE Goal
  <2>2. NoStaleCancel'
    BY <1>0, <1>6 DEF EndStream, At, WithoutEntry, TypeOK, Honest, NoStaleCancel, InProgress, Sends
  <2>3. CancellableUnlessShared'
    BY <1>0, <1>6, SMTT(30) DEF EndStream, At, WithoutEntry, TypeOK, Honest, NoStaleCancel, CancellableUnlessShared, InProgress, Started, Sends
  <2> QED BY <1>h, <2>2, <2>3
<1>7. ASSUME NEW q \in Requests, HandleCancel(q) PROVE Goal
  <2>2. NoStaleCancel'
    BY <1>0, <1>7 DEF HandleCancel, At, Reply, TypeOK, Honest, NoStaleCancel, InProgress, Sends
  <2>3. CancellableUnlessShared'
    <3>1. q \notin Sends
      BY <1>7 DEF HandleCancel, Sends
    <3>2. ASSUME NEW s \in Sends
          PROVE  /\ InProgress(s)' <=> InProgress(s)
                 /\ Started(s)' <=> Started(s)
      BY <1>0, <1>7, <3>1 DEF HandleCancel, Reply, TypeOK, InProgress, Started, Sends
    <3>3. ASSUME NEW s \in Sends, active[KeyOf[s]] = s \/ s \in cancelled
          PROVE  active'[KeyOf[s]] = s \/ s \in cancelled'
      <4>1. s \in Requests /\ KeyOf[s] \in Keys /\ KeyOf[q] \in Keys /\ s # NoStream
        BY DEF Sends
      <4>2. cancelled \subseteq cancelled'
        BY <1>7 DEF HandleCancel
      <4>3. CASE active[KeyOf[s]] = s /\ KeyOf[q] = KeyOf[s]
        BY <1>7, <4>1, <4>3 DEF HandleCancel
      <4>4. CASE active[KeyOf[s]] = s /\ KeyOf[q] # KeyOf[s]
        BY <1>0, <1>7, <4>1, <4>4 DEF HandleCancel, TypeOK
      <4> QED BY <3>3, <4>2, <4>3, <4>4
    <3> QED BY <1>0, <3>2, <3>3 DEF CancellableUnlessShared
  <2> QED BY <1>h, <2>2, <2>3
<1>8. ASSUME Write \/ StopWriting \/ Break \/ StopReading \/ Unregister PROVE Goal
  BY <1>8, CancelFrame DEF Write, StopWriting, Break, StopReading, Unregister
<1>9. CASE UNCHANGED vars
  BY <1>9, CancelFrame DEF vars
<1> QED BY <1>1, <1>2, <1>3, <1>4, <1>5, <1>6, <1>7, <1>8, <1>9 DEF Next, Handle

LEMMA CancelInvHolds == Spec => []CancelInv
<1>1. Init => CancelInv
  <2> SUFFICES ASSUME Init PROVE CancelInv
    OBVIOUS
  <2>1. TypeOK
    BY TypeInit
  <2>2. Honest /\ NoStaleCancel /\ CancellableUnlessShared
    BY DEF Init, Honest, NoStaleCancel, CancellableUnlessShared, InProgress, Sends
  <2> QED BY <2>1, <2>2 DEF CancelInv
<1>2. CancelInv /\ [Next]_vars => CancelInv'
  BY CancelStep, TypeStep DEF CancelInv
<1> QED BY <1>1, <1>2, PTL DEF Spec

\* chat.cancel never answers "cancelled" for a turn that is over: activeStreams
\* holds the function of a stream of its session that is in progress, or nothing.
THEOREM NoStaleCancelHolds == Spec => []NoStaleCancel
<1>1. CancelInv => NoStaleCancel
  BY DEF CancelInv
<1> QED BY <1>1, CancelInvHolds, PTL

\* A stream in progress that shares its session with no other can be cancelled,
\* until it has been (HandleChatSend, HandleChatCancel).
THEOREM CancellableUnlessSharedHolds == Spec => []CancellableUnlessShared
<1>1. CancelInv => CancellableUnlessShared
  BY DEF CancelInv
<1> QED BY <1>1, CancelInvHolds, PTL

-----------------------------------------------------------------------------
(* Order *)

OwnFrame == \A q \in Requests : pending[q].req = q /\ pending[q].seq <= seq

\* A frame in the buffer has been sent: it is the last one of its request, or an
\* earlier one, and a goroutine that is about to send still has a later one.
BufferedSent == \A i \in DOMAIN send :
  /\ pc[send[i].req] \notin {"unsent", "handling"}
  /\ pc[send[i].req] = "sending" => send[i] # pending[send[i].req]

BufferOrdered ==
  \A i, j \in DOMAIN send : i < j /\ send[i].req = send[j].req =>
    send[i].seq < send[j].seq /\ send[i].kind # "end"

LastIsLatest ==
  \A i \in DOMAIN send : LET last == pending[send[i].req] IN
    last # send[i] => send[i].seq < last.seq /\ send[i].kind # "end"

SeqsDistinct ==
  \A q, s \in Sends : q # s /\ pending[q].seq = pending[s].seq => pending[q].seq = 0

\* StreamInOrder, with what makes it inductive.
OrderParts == OwnFrame /\ BufferedSent /\ BufferOrdered /\ LastIsLatest /\ SeqsDistinct
OrderInv == TypeOK /\ Honest /\ OrderParts

LEMMA BufferedType ==
  ASSUME TypeOK, NEW i \in DOMAIN send
  PROVE  /\ i \in Nat /\ send[i] \in Frame
         /\ send[i].req \in Requests /\ send[i].seq \in Nat
         /\ pending[send[i].req] \in Frame /\ pending[send[i].req].seq \in Nat
<1>1. DOMAIN send = 1..Len(send) /\ Len(send) \in Nat
  BY LenProperties DEF TypeOK
<1>2. send[i] \in Frame
  BY <1>1, ElementOfSeq DEF TypeOK
<1> QED BY <1>1, <1>2 DEF Frame, TypeOK

\* Enqueue keeps every frame where it is and adds at most its own, at the end.
LEMMA EnqueueAtEnd ==
  ASSUME TypeOK, NEW frame \in Frame, Enqueue(frame)
  PROVE  \/ send' = send
         \/ /\ DOMAIN send' = (DOMAIN send) \cup {Len(send) + 1}
            /\ \A i \in DOMAIN send : i < Len(send) + 1 /\ send'[i] = send[i]
            /\ send'[Len(send) + 1] = frame
            /\ Len(send) + 1 \notin DOMAIN send
<1>1. DOMAIN send = 1..Len(send) /\ Len(send) \in Nat
  BY LenProperties DEF TypeOK
<1>2. CASE send' = Append(send, frame)
  <2>1. /\ Append(send, frame) \in Seq(Frame)
        /\ Len(Append(send, frame)) = Len(send) + 1
        /\ \A i \in 1..Len(send) : Append(send, frame)[i] = send[i]
        /\ Append(send, frame)[Len(send) + 1] = frame
    BY AppendProperties DEF TypeOK
  <2>2. DOMAIN send' = 1..(Len(send) + 1)
    BY <1>2, <2>1, LenProperties
  <2>3. DOMAIN send' = (DOMAIN send) \cup {Len(send) + 1}
    BY <1>1, <2>2
  <2>4. Len(send) + 1 \notin DOMAIN send /\ \A i \in DOMAIN send : i < Len(send) + 1
    BY <1>1
  <2>5. \A i \in DOMAIN send : send'[i] = send[i]
    BY <1>1, <1>2, <2>1
  <2> QED BY <1>2, <2>1, <2>3, <2>4, <2>5
<1> QED BY <1>2 DEF Enqueue

\* Taking the first frame keeps the others in their order.
LEMMA TailShifts ==
  ASSUME TypeOK, send # <<>>, send' = Tail(send)
  PROVE  \A i \in DOMAIN send' : /\ i \in Nat /\ i + 1 \in DOMAIN send
                                 /\ send'[i] = send[i + 1]
<1>1. /\ Tail(send) \in Seq(Frame) /\ Len(Tail(send)) = Len(send) - 1
      /\ \A i \in 1..Len(Tail(send)) : Tail(send)[i] = send[i + 1]
  BY HeadTailProperties DEF TypeOK
<1>2. DOMAIN send = 1..Len(send) /\ Len(send) \in Nat
  BY LenProperties DEF TypeOK
<1>3. DOMAIN send' = 1..Len(send')
  BY <1>1, LenProperties
<1> QED BY <1>1, <1>2, <1>3

\* The write pump takes frames and changes nothing else.
LEMMA OrderTaken ==
  ASSUME OrderInv, UNCHANGED <<pc, pending, seq>>,
         \/ UNCHANGED send
         \/ send # <<>> /\ send' = Tail(send)
  PROVE  OrderParts'
<1>1. CASE UNCHANGED send
  BY <1>1 DEF OrderInv, OrderParts, OwnFrame, BufferedSent, BufferOrdered, LastIsLatest, SeqsDistinct
<1>2. CASE send # <<>> /\ send' = Tail(send)
  <2>1. \A i \in DOMAIN send' : i \in Nat /\ i + 1 \in DOMAIN send /\ send'[i] = send[i + 1]
    BY <1>2, TailShifts DEF OrderInv
  <2>2. OwnFrame' /\ SeqsDistinct'
    BY DEF OrderInv, OrderParts, OwnFrame, SeqsDistinct
  <2>3. BufferedSent'
    BY <2>1 DEF OrderInv, OrderParts, BufferedSent
  <2>4. LastIsLatest'
    BY <2>1 DEF OrderInv, OrderParts, LastIsLatest
  <2>5. BufferOrdered'
    <3> SUFFICES ASSUME NEW i \in DOMAIN send', NEW j \in DOMAIN send', i < j,
                        send'[i].req = send'[j].req
                 PROVE  send'[i].seq < send'[j].seq /\ send'[i].kind # "end"
      BY DEF BufferOrdered
    <3>1. i + 1 \in DOMAIN send /\ j + 1 \in DOMAIN send /\ i + 1 < j + 1
      BY <2>1
    <3>2. send'[i] = send[i + 1] /\ send'[j] = send[j + 1]
      BY <2>1
    <3> QED BY <3>1, <3>2 DEF OrderInv, OrderParts, BufferOrdered
  <2> QED BY <2>2, <2>3, <2>4, <2>5 DEF OrderParts
<1> QED BY <1>1, <1>2

\* A goroutine's first reply: nothing of its request is in the buffer yet.
LEMMA OrderReply ==
  ASSUME OrderInv, NEW q \in Requests, NEW kind \in Kinds, At(q, "handling"),
         Reply(q, kind), UNCHANGED <<send, seq>>
  PROVE  OrderParts'
<1> USE DEF OrderInv
<1>0. pc[q] = "handling" /\ pc' = [pc EXCEPT ![q] = "sending"]
  BY DEF At, Reply
<1>1. \A i \in DOMAIN send : send[i].req # q
  BY <1>0 DEF OrderParts, BufferedSent
<1>2. \A s \in Requests : s # q => pending'[s] = pending[s] /\ pc'[s] = pc[s]
  BY DEF Reply, TypeOK
<1>3. pending'[q] = [req |-> q, kind |-> kind, seq |-> 0]
  BY DEF Reply, TypeOK
<1>4. OwnFrame'
  BY <1>2, <1>3 DEF OrderParts, OwnFrame, TypeOK
<1>5. BufferedSent'
  BY <1>1, <1>2, BufferedType DEF OrderParts, BufferedSent
<1>6. BufferOrdered'
  BY DEF OrderParts, BufferOrdered
<1>7. LastIsLatest'
  BY <1>1, <1>2, BufferedType DEF OrderParts, LastIsLatest
<1>8. SeqsDistinct'
  BY <1>2, <1>3 DEF OrderParts, SeqsDistinct, Sends
<1> QED BY <1>4, <1>5, <1>6, <1>7, <1>8 DEF OrderParts

\* A frame that is sent is later than what the buffer holds of its request.
LEMMA OrderSent ==
  ASSUME OrderInv, NEW q \in Requests,
         pc[q] = "sending" \/ pc[q] = "unsent",
         NEW stage \in {"streaming", "drained", "finished"},
         pc' = [pc EXCEPT ![q] = stage],
         Enqueue(pending[q]), UNCHANGED <<pending, seq>>
  PROVE  OrderParts'
<1> USE DEF OrderInv
<1> DEFINE n == Len(send) + 1
<1>0. pending[q] \in Frame /\ pending[q].req = q
  BY DEF OrderParts, OwnFrame, TypeOK
<1>1. \A s \in Requests : pc'[s] = IF s = q THEN stage ELSE pc[s]
  BY DEF TypeOK
<1>2. OwnFrame' /\ SeqsDistinct'
  BY DEF OrderParts, OwnFrame, SeqsDistinct
<1>3. \A i \in DOMAIN send : send[i].req = q =>
         send[i].seq < pending[q].seq /\ send[i].kind # "end"
  BY DEF OrderParts, BufferedSent, LastIsLatest
<1>4. CASE send' = send
  <2>1. BufferedSent'
    BY <1>1, <1>4, BufferedType DEF OrderParts, BufferedSent
  <2>2. BufferOrdered' /\ LastIsLatest'
    BY <1>4 DEF OrderParts, BufferOrdered, LastIsLatest
  <2> QED BY <1>2, <2>1, <2>2 DEF OrderParts
<1>5. CASE /\ DOMAIN send' = (DOMAIN send) \cup {n}
           /\ \A i \in DOMAIN send : i < n /\ send'[i] = send[i]
           /\ send'[n] = pending[q]
           /\ n \notin DOMAIN send
  <2>0. \A i \in DOMAIN send : i \in Nat /\ send[i].req \in Requests
    BY BufferedType
  <2>n. n \in Nat
    BY LenProperties DEF TypeOK
  <2>1. BufferedSent'
    <3> SUFFICES ASSUME NEW i \in DOMAIN send'
                 PROVE  /\ pc'[send'[i].req] \notin {"unsent", "handling"}
                        /\ pc'[send'[i].req] = "sending" => send'[i] # pending[send'[i].req]
      BY DEF BufferedSent
    <3>1. CASE i = n
      BY <1>0, <1>1, <1>5, <3>1
    <3>2. CASE i \in DOMAIN send
      BY <1>1, <1>5, <2>0, <3>2 DEF OrderParts, BufferedSent
    <3> QED BY <1>5, <3>1, <3>2
  <2>2. LastIsLatest'
    <3> SUFFICES ASSUME NEW i \in DOMAIN send', pending[send'[i].req] # send'[i]
                 PROVE  send'[i].seq < pending[send'[i].req].seq /\ send'[i].kind # "end"
      BY DEF LastIsLatest
    <3>1. i # n
      BY <1>0, <1>5
    <3> QED BY <1>5, <3>1 DEF OrderParts, LastIsLatest
  <2>3. BufferOrdered'
    <3> SUFFICES ASSUME NEW i \in DOMAIN send', NEW j \in DOMAIN send', i < j,
                        send'[i].req = send'[j].req
                 PROVE  send'[i].seq < send'[j].seq /\ send'[i].kind # "end"
      BY DEF BufferOrdered
    <3>1. i \in DOMAIN send /\ send'[i] = send[i]
      BY <1>5, <2>0, <2>n
    <3>2. CASE j = n
      BY <1>0, <1>3, <1>5, <3>1, <3>2
    <3>3. CASE j \in DOMAIN send
      BY <1>5, <3>1, <3>3 DEF OrderParts, BufferOrdered
    <3> QED BY <1>5, <3>2, <3>3
  <2> QED BY <1>2, <2>1, <2>2, <2>3 DEF OrderParts
<1> QED BY <1>0, <1>4, <1>5, EnqueueAtEnd

\* The number of a new event is larger than every number in use.
LEMMA OrderNumbered ==
  ASSUME OrderInv, NEW q \in Requests, NextChunk(q)
  PROVE  OrderParts'
<1> USE DEF OrderInv
<1>0. /\ pc[q] = "streaming" /\ pc' = [pc EXCEPT ![q] = "sending"]
      /\ send' = send /\ seq' = seq + 1 /\ seq \in Nat
  BY DEF NextChunk, At, TypeOK
<1>1. PICK kind \in {"chunk", "end"} :
        pending' = [pending EXCEPT ![q] = [req |-> q, kind |-> kind, seq |-> seq + 1]]
  BY DEF NextChunk, NextSeq
<1>2. \A s \in Requests : s # q => pending'[s] = pending[s] /\ pc'[s] = pc[s]
  BY <1>0, <1>1 DEF TypeOK
<1>3. pending'[q].req = q /\ pending'[q].seq = seq + 1
  BY <1>1 DEF TypeOK
<1>4. \A s \in Requests : pending[s].seq \in Nat /\ pending[s].seq <= seq
  BY DEF OrderParts, OwnFrame, TypeOK, Frame
<1>5. OwnFrame'
  BY <1>0, <1>2, <1>3, <1>4 DEF OrderParts, OwnFrame
<1>6. \A i \in DOMAIN send : send[i].req = q => send[i].seq <= seq /\ send[i].kind # "end"
  <2> SUFFICES ASSUME NEW i \in DOMAIN send, send[i].req = q
               PROVE  send[i].seq <= seq /\ send[i].kind # "end"
    OBVIOUS
  <2>1. CASE send[i] = pending[q]
    BY <1>0, <1>4, <2>1 DEF Honest
  <2>2. CASE send[i] # pending[q]
    <3>1. send[i].seq < pending[q].seq /\ send[i].kind # "end"
      BY <2>2 DEF OrderParts, LastIsLatest
    <3> QED BY <1>0, <1>4, <3>1, BufferedType
  <2> QED BY <2>1, <2>2
<1>7. \A i \in DOMAIN send : send[i].req = q => send[i].seq < pending'[q].seq
  BY <1>0, <1>3, <1>6, BufferedType
<1>8. BufferedSent'
  <2> SUFFICES ASSUME NEW i \in DOMAIN send
               PROVE  /\ pc'[send[i].req] \notin {"unsent", "handling"}
                      /\ pc'[send[i].req] = "sending" => send[i] # pending'[send[i].req]
    BY <1>0 DEF BufferedSent
  <2>1. CASE send[i].req = q
    <3>1. send[i].seq < pending'[q].seq /\ send[i].seq \in Nat
      BY <1>7, <2>1, BufferedType
    <3>2. pc'[q] = "sending"
      BY <1>0 DEF TypeOK
    <3>3. send[i] # pending'[q]
      BY <1>0, <1>3, <3>1
    <3> QED BY <2>1, <3>2, <3>3
  <2>2. CASE send[i].req # q
    BY <1>2, <2>2, BufferedType DEF OrderParts, BufferedSent
  <2> QED BY <2>1, <2>2
<1>9. BufferOrdered'
  BY <1>0 DEF OrderParts, BufferOrdered
<1>10. LastIsLatest'
  BY <1>0, <1>2, <1>6, <1>7, BufferedType DEF OrderParts, LastIsLatest
<1>11. SeqsDistinct'
  <2> SUFFICES ASSUME NEW r \in Sends, NEW s \in Sends, r # s,
                      pending'[r].seq = pending'[s].seq
               PROVE  pending'[r].seq = 0
    BY DEF SeqsDistinct
  <2>1. r \in Requests /\ s \in Requests
    BY DEF Sends
  <2>2. r # q /\ s # q
    BY <1>0, <1>2, <1>3, <1>4, <2>1
  <2> QED BY <1>2, <2>1, <2>2 DEF OrderParts, SeqsDistinct
<1> QED BY <1>5, <1>8, <1>9, <1>10, <1>11 DEF OrderParts

LEMMA OrderInit == Init => OrderInv
<1> SUFFICES ASSUME Init PROVE OrderInv
  OBVIOUS
<1>1. DOMAIN send = {}
  BY LenProperties, EmptySeq DEF Init
<1>2. OwnFrame /\ SeqsDistinct
  BY DEF Init, OwnFrame, SeqsDistinct, Sends
<1>3. BufferedSent /\ BufferOrdered /\ LastIsLatest
  BY <1>1 DEF BufferedSent, BufferOrdered, LastIsLatest
<1> QED BY <1>2, <1>3, TypeInit, HonestInit DEF OrderInv, OrderParts

LEMMA OrderStep == OrderInv /\ [Next]_vars => OrderParts'
<1> SUFFICES ASSUME OrderInv, [Next]_vars PROVE OrderParts'
  OBVIOUS
<1>0. TypeOK /\ Honest /\ OrderParts
  BY DEF OrderInv
<1>1. ASSUME NEW q \in Requests, Receive(q) PROVE OrderParts'
  <2>1. CASE MethodOf[q] = "ping"
    BY <1>1, <2>1, OrderSent DEF Receive, At
  <2>2. CASE MethodOf[q] # "ping"
    <3>1. pc' = [pc EXCEPT ![q] = "handling"] /\ UNCHANGED <<send, pending, seq>> /\ pc[q] = "unsent"
      BY <1>1, <2>2 DEF Receive, At
    <3>2. BufferedSent'
      BY <1>0, <3>1, BufferedType DEF OrderParts, BufferedSent, TypeOK
    <3> QED BY <1>0, <3>1, <3>2 DEF OrderParts, OwnFrame, BufferOrdered, LastIsLatest, SeqsDistinct
  <2> QED BY <2>1, <2>2
<1>2. ASSUME NEW q \in Requests, Answer(q) PROVE OrderParts'
  BY <1>2, OrderReply DEF Answer, Kinds
<1>3. ASSUME NEW q \in Requests, StartStream(q) PROVE OrderParts'
  BY <1>3, OrderReply DEF StartStream, Kinds
<1>4. ASSUME NEW q \in Requests, NextChunk(q) PROVE OrderParts'
  BY <1>4, OrderNumbered
<1>5. ASSUME NEW q \in Requests, SendPending(q) PROVE OrderParts'
  <2>1. AfterSend(pending[q].kind) \in {"streaming", "drained", "finished"}
    BY DEF AfterSend
  <2> QED BY <1>5, <2>1, OrderSent DEF SendPending, At
<1>6. ASSUME NEW q \in Requests, EndStream(q) PROVE OrderParts'
  <2>1. pc' = [pc EXCEPT ![q] = "finished"] /\ UNCHANGED <<send, pending, seq>>
    BY <1>6 DEF EndStream
  <2>2. BufferedSent'
    BY <1>0, <2>1, BufferedType DEF OrderParts, BufferedSent, TypeOK
  <2> QED BY <1>0, <2>1, <2>2 DEF OrderParts, OwnFrame, BufferOrdered, LastIsLatest, SeqsDistinct
<1>7. ASSUME NEW q \in Requests, HandleCancel(q) PROVE OrderParts'
  <2>1. \E kind \in Kinds : Reply(q, kind)
    BY <1>7 DEF HandleCancel, Kinds
  <2> QED BY <1>7, <2>1, OrderReply DEF HandleCancel
<1>8. ASSUME Write \/ StopWriting \/ Break \/ StopReading \/ Unregister PROVE OrderParts'
  BY <1>8, OrderTaken DEF Write, StopWriting, Break, StopReading, Unregister
<1>9. CASE UNCHANGED vars
  BY <1>9, OrderTaken DEF vars
<1> QED BY <1>1, <1>2, <1>3, <1>4, <1>5, <1>6, <1>7, <1>8, <1>9 DEF Next, Handle

\* However many streams share the connection and whatever the full buffer drops,
\* each stream's events leave in its order and under a number no other stream has
\* (nextSeq and Send in HandleChatSend).
THEOREM StreamInOrderHolds == Spec => []StreamInOrder
<1>1. OrderInv /\ [Next]_vars => OrderInv'
  BY OrderStep, HonestStep, TypeStep DEF OrderInv
<1>2. OrderInv => StreamInOrder
  BY DEF OrderInv, OrderParts, StreamInOrder, BufferOrdered, LastIsLatest, SeqsDistinct
<1> QED BY <1>1, <1>2, OrderInit, PTL DEF Spec

-----------------------------------------------------------------------------
(* One stream per cancel *)

CancelledOf(k) == {s \in cancelled : KeyOf[s] = k}
CancelAnswers(k) == {q \in Cancels : KeyOf[q] = k /\ pending[q].kind = "cancelled"}

\* A stream that was cancelled has left the map for good.
CancelledLeft == \A s \in cancelled :
  pc[s] \notin {"unsent", "handling"} /\ active[KeyOf[s]] # s

AsManyStreams == \A k \in Keys :
  /\ IsFiniteSet(CancelledOf(k)) /\ IsFiniteSet(CancelAnswers(k))
  /\ Cardinality(CancelledOf(k)) = Cardinality(CancelAnswers(k))

\* OneStreamPerCancel, with what makes it inductive.
OneInv == CancelInv /\ CancelledLeft /\ AsManyStreams

LEMMA AsManyUnchanged ==
  ASSUME AsManyStreams, UNCHANGED cancelled,
         \A q \in Cancels : pending'[q].kind = "cancelled" <=> pending[q].kind = "cancelled"
  PROVE  AsManyStreams'
<1>1. \A k \in Keys : CancelledOf(k)' = CancelledOf(k) /\ CancelAnswers(k)' = CancelAnswers(k)
  BY DEF CancelledOf, CancelAnswers
<1> QED BY <1>1 DEF AsManyStreams

\* A cancel that finds a stream adds one answer and one stream, of one key.
LEMMA AsManyCancelled ==
  ASSUME OneInv, NEW q \in Requests, HandleCancel(q), active[KeyOf[q]] # NoStream
  PROVE  AsManyStreams'
<1> DEFINE k0 == KeyOf[q]
<1>0. TypeOK /\ Honest /\ NoStaleCancel /\ CancelledLeft /\ AsManyStreams
  BY DEF OneInv, CancelInv
<1>1. PICK s \in Requests : s = active[k0]
  BY <1>0, ChatAssumption DEF TypeOK
<1>2. KeyOf[s] = k0 /\ s \notin cancelled
  BY <1>0, <1>1, ChatAssumption DEF NoStaleCancel, CancelledLeft
<1>3. cancelled' = cancelled \cup {s}
  BY <1>1, ChatAssumption DEF HandleCancel
<1>4. q \in Cancels /\ pending[q].kind = "result"
  BY <1>0 DEF HandleCancel, At, Honest, Cancels
<1>5. pending'[q].kind = "cancelled" /\ \A r \in Requests : r # q => pending'[r] = pending[r]
  BY <1>0 DEF HandleCancel, Reply, TypeOK
<1> SUFFICES ASSUME NEW k \in Keys
             PROVE  /\ IsFiniteSet(CancelledOf(k)') /\ IsFiniteSet(CancelAnswers(k)')
                    /\ Cardinality(CancelledOf(k)') = Cardinality(CancelAnswers(k)')
  BY DEF AsManyStreams
<1>6. /\ IsFiniteSet(CancelledOf(k)) /\ IsFiniteSet(CancelAnswers(k))
      /\ Cardinality(CancelledOf(k)) = Cardinality(CancelAnswers(k))
  BY <1>0 DEF AsManyStreams
<1>7. CASE k = k0
  <2>1. CancelledOf(k)' = CancelledOf(k) \cup {s} /\ s \notin CancelledOf(k)
    BY <1>2, <1>3, <1>7 DEF CancelledOf
  <2>2. CancelAnswers(k)' = CancelAnswers(k) \cup {q} /\ q \notin CancelAnswers(k)
    BY <1>4, <1>5, <1>7 DEF CancelAnswers, Cancels
  <2>3. /\ IsFiniteSet(CancelledOf(k) \cup {s})
        /\ Cardinality(CancelledOf(k) \cup {s}) = Cardinality(CancelledOf(k)) + 1
    BY <1>6, <2>1, FS_AddElement
  <2>4. /\ IsFiniteSet(CancelAnswers(k) \cup {q})
        /\ Cardinality(CancelAnswers(k) \cup {q}) = Cardinality(CancelAnswers(k)) + 1
    BY <1>6, <2>2, FS_AddElement
  <2> QED BY <1>6, <2>1, <2>2, <2>3, <2>4
<1>8. CASE k # k0
  <2>1. CancelledOf(k)' = CancelledOf(k)
    BY <1>2, <1>3, <1>8 DEF CancelledOf
  <2>2. CancelAnswers(k)' = CancelAnswers(k)
    BY <1>5, <1>8 DEF CancelAnswers, Cancels
  <2> QED BY <1>6, <2>1, <2>2
<1> QED BY <1>7, <1>8

LEMMA OneStep == OneInv /\ [Next]_vars => CancelledLeft' /\ AsManyStreams'
<1> SUFFICES ASSUME OneInv, [Next]_vars PROVE CancelledLeft' /\ AsManyStreams'
  OBVIOUS
<1> USE ChatAssumption
<1>0. /\ TypeOK /\ Honest /\ NoStaleCancel /\ CancelledLeft /\ AsManyStreams
      /\ \A s \in cancelled : s \in Requests
  BY DEF OneInv, CancelInv, TypeOK
<1>1. ASSUME NEW q \in Requests, Receive(q) PROVE CancelledLeft' /\ AsManyStreams'
  <2>1. CancelledLeft'
    BY <1>0, <1>1 DEF Receive, At, TypeOK, CancelledLeft
  <2>2. UNCHANGED <<cancelled, pending>>
    BY <1>1 DEF Receive
  <2> QED BY <1>0, <2>1, <2>2, AsManyUnchanged
<1>2. ASSUME NEW q \in Requests, Answer(q) PROVE CancelledLeft' /\ AsManyStreams'
  <2>1. CancelledLeft'
    BY <1>0, <1>2 DEF Answer, At, Reply, TypeOK, CancelledLeft
  <2>2. \A r \in Cancels : pending'[r].kind = "cancelled" <=> pending[r].kind = "cancelled"
    BY <1>0, <1>2 DEF Answer, At, Reply, TypeOK, Honest, Cancels
  <2> QED BY <1>0, <1>2, <2>1, <2>2, AsManyUnchanged DEF Answer
<1>3. ASSUME NEW q \in Requests, StartStream(q) PROVE CancelledLeft' /\ AsManyStreams'
  <2>0. pc[q] = "handling" /\ q \notin Cancels /\ UNCHANGED cancelled
    BY <1>3 DEF StartStream, At, Cancels
  <2>1. CancelledLeft'
    BY <1>0, <1>3, <2>0 DEF StartStream, Reply, TypeOK, CancelledLeft
  <2>2. \A r \in Cancels : pending'[r] = pending[r]
    BY <1>0, <1>3, <2>0 DEF StartStream, Reply, TypeOK, Cancels
  <2> QED BY <1>0, <2>0, <2>1, <2>2, AsManyUnchanged
<1>4. ASSUME NEW q \in Requests, NextChunk(q) PROVE CancelledLeft' /\ AsManyStreams'
  <2>0. q \notin Cancels /\ UNCHANGED <<active, cancelled>>
    BY <1>0, <1>4 DEF NextChunk, At, Honest, Cancels, Sends
  <2>1. CancelledLeft'
    BY <1>0, <1>4, <2>0 DEF NextChunk, TypeOK, CancelledLeft
  <2>2. \A r \in Cancels : pending'[r] = pending[r]
    BY <1>0, <1>4, <2>0 DEF NextChunk, TypeOK, Cancels
  <2> QED BY <1>0, <2>0, <2>1, <2>2, AsManyUnchanged
<1>5. ASSUME NEW q \in Requests, SendPending(q) PROVE CancelledLeft' /\ AsManyStreams'
  <2>0. UNCHANGED <<active, cancelled, pending>>
    BY <1>5 DEF SendPending
  <2>1. AfterSend(pending[q].kind) \in {"streaming", "drained", "finished"}
    BY DEF AfterSend
  <2>2. pc' = [pc EXCEPT ![q] = AfterSend(pending[q].kind)]
    BY <1>5 DEF SendPending
  <2>3. CancelledLeft'
    BY <1>0, <2>0, <2>1, <2>2 DEF TypeOK, CancelledLeft
  <2> QED BY <1>0, <2>0, <2>3, AsManyUnchanged
<1>6. ASSUME NEW q \in Requests, EndStream(q) PROVE CancelledLeft' /\ AsManyStreams'
  <2>1. CancelledLeft'
    BY <1>0, <1>6 DEF EndStream, WithoutEntry, TypeOK, CancelledLeft
  <2> QED BY <1>0, <1>6, <2>1, AsManyUnchanged DEF EndStream
<1>7. ASSUME NEW q \in Requests, HandleCancel(q) PROVE CancelledLeft' /\ AsManyStreams'
  <2> DEFINE k0 == KeyOf[q]
  <2>1. CASE active[k0] = NoStream
    <3>1. CancelledLeft'
      BY <1>0, <1>7, <2>1 DEF HandleCancel, At, Reply, TypeOK, CancelledLeft
    <3>2. UNCHANGED cancelled
      BY <1>7, <2>1 DEF HandleCancel
    <3>3. \A r \in Cancels : pending'[r].kind = "cancelled" <=> pending[r].kind = "cancelled"
      <4>1. pending[q].kind = "result"
        BY <1>0, <1>7 DEF HandleCancel, At, Honest
      <4>2. pending' = [pending EXCEPT ![q] = [req |-> q, kind |-> "no_active_stream", seq |-> 0]]
        BY <1>7, <2>1 DEF HandleCancel, Reply
      <4> QED BY <1>0, <4>1, <4>2 DEF TypeOK, Cancels
    <3> QED BY <1>0, <3>1, <3>2, <3>3, AsManyUnchanged
  <2>2. CASE active[k0] # NoStream
    <3>1. PICK s \in Requests : s = active[k0]
      BY <1>0, <2>2 DEF TypeOK
    <3>2. KeyOf[s] = k0 /\ pc[s] \notin {"unsent", "handling"}
      BY <1>0, <2>2, <3>1 DEF NoStaleCancel, InProgress
    <3>3. /\ cancelled' = cancelled \cup {s} /\ active' = [active EXCEPT ![k0] = NoStream]
          /\ pc' = [pc EXCEPT ![q] = "sending"]
      BY <1>7, <2>2, <3>1 DEF HandleCancel, Reply
    <3>4. CancelledLeft'
      <4> SUFFICES ASSUME NEW r \in cancelled'
                   PROVE  pc'[r] \notin {"unsent", "handling"} /\ active'[KeyOf[r]] # r
        BY DEF CancelledLeft
      <4>1. r \in Requests /\ pc[r] \notin {"unsent", "handling"} /\ (r # s => active[KeyOf[r]] # r)
        BY <1>0, <3>2, <3>3 DEF CancelledLeft
      <4>2. pc'[r] \notin {"unsent", "handling"}
        BY <1>0, <3>3, <4>1 DEF TypeOK
      <4>3. active'[KeyOf[r]] # r
        BY <1>0, <3>2, <3>3, <4>1 DEF TypeOK
      <4> QED BY <4>2, <4>3
    <3> QED BY <1>7, <2>2, <3>4, AsManyCancelled
  <2> QED BY <2>1, <2>2
<1>8. ASSUME Write \/ StopWriting \/ Break \/ StopReading \/ Unregister
      PROVE  CancelledLeft' /\ AsManyStreams'
  <2>1. UNCHANGED <<pc, pending, active, cancelled>>
    BY <1>8 DEF Write, StopWriting, Break, StopReading, Unregister
  <2> QED BY <1>0, <2>1, AsManyUnchanged DEF CancelledLeft
<1>9. CASE UNCHANGED vars
  BY <1>0, <1>9, AsManyUnchanged DEF vars, CancelledLeft
<1> QED BY <1>1, <1>2, <1>3, <1>4, <1>5, <1>6, <1>7, <1>8, <1>9 DEF Next, Handle

LEMMA OneInit == Init => CancelledLeft /\ AsManyStreams
<1> SUFFICES ASSUME Init PROVE CancelledLeft /\ AsManyStreams
  OBVIOUS
<1>1. CancelledLeft
  BY DEF Init, CancelledLeft
<1>2. \A k \in Keys : CancelledOf(k) = {} /\ CancelAnswers(k) = {}
  BY DEF Init, CancelledOf, CancelAnswers, Cancels
<1>3. AsManyStreams
  BY <1>2, FS_EmptySet DEF AsManyStreams
<1> QED BY <1>1, <1>3

\* Every "cancelled" answer stands for one stream of its session that was cancelled,
\* and for no other answer, however cancels and streams overlap (LoadAndDelete in
\* HandleChatCancel).
THEOREM OneStreamPerCancelHolds == Spec => []OneStreamPerCancel
<1>1. Init => CancelledLeft /\ AsManyStreams
  BY OneInit
<1>2. CancelInv /\ CancelInv' /\ CancelledLeft /\ AsManyStreams /\ [Next]_vars
        => (CancelledLeft /\ AsManyStreams)'
  BY OneStep DEF OneInv
<1>3. AsManyStreams => OneStreamPerCancel
  BY DEF AsManyStreams, OneStreamPerCancel, CancelledOf, CancelAnswers
<1> QED BY <1>1, <1>2, <1>3, CancelInvHolds, PTL DEF Spec
=============================================================================
