------------------------------ MODULE LLMProofs ------------------------------
(***************************************************************************)
(* Theorems about module LLMClient, for any providers, formats, prompts and *)
(* channel, and any number of pieces, calls and fragments.                  *)
(***************************************************************************)
EXTENDS LLMClient, Sums, SequenceTheorems

-----------------------------------------------------------------------------
(* The constants *)

LEMMA Constants ==
  /\ MaxText \in Nat /\ MaxCalls \in Nat /\ Parts \in Nat /\ Parts > 0
  /\ ChanCap \in Nat /\ ChanCap > 0
  /\ Calls = 1..MaxCalls /\ 0 \in 0..MaxCalls /\ \A c \in Calls : c \in 0..MaxCalls /\ c # 0
  /\ Len(Providers) \in Nat
BY LLMAssumption, LenProperties DEF LLMAssumption, Calls

LEMMA FormatIs == \A p \in 1..Len(Providers) : FormatOf[Providers[p]] \in Formats
<1> SUFFICES ASSUME NEW p \in 1..Len(Providers) PROVE FormatOf[Providers[p]] \in Formats
  OBVIOUS
<1>1. Providers[p] \in DOMAIN FormatOf
  BY LLMAssumption, ElementOfSeq DEF LLMAssumption
<1> QED BY <1>1, LLMAssumption DEF LLMAssumption

-----------------------------------------------------------------------------
(* FailoverClient.Stream *)

\* FailoverInOrder, with what makes it inductive: the sequential loop is at a provider
\* after all those before it refused.
Choosing ==
  /\ phase \in {"routed", "sequence", "open", "failed"}
  /\ routed \in 0..Len(Providers) /\ using \in 0..Len(Providers)
  /\ next \in 1..(Len(Providers) + 1)
  /\ failed \in Seq(1..Len(Providers))
  /\ using # 0 <=> phase = "open"
  /\ phase = "routed" => routed # 0 /\ failed = <<>> /\ next = 1
  /\ phase = "sequence" =>
       /\ Earlier(next) \subseteq ToSet(failed)
       /\ failed = <<>> => routed = 0 /\ next = 1
  /\ FailoverInOrder

LEMMA ToSetAppend ==
  ASSUME NEW S, NEW s \in Seq(S), NEW e \in S
  PROVE  ToSet(Append(s, e)) = ToSet(s) \union {e} /\ Append(s, e) # <<>>
<1>1. /\ Append(s, e) \in Seq(S) /\ Len(s) \in Nat /\ Len(Append(s, e)) = Len(s) + 1
      /\ \A i \in 1..Len(s) : Append(s, e)[i] = s[i]
      /\ Append(s, e)[Len(s) + 1] = e
  BY AppendProperties, LenProperties
<1>2. DOMAIN s = 1..Len(s) /\ DOMAIN Append(s, e) = 1..(Len(s) + 1)
  BY <1>1, LenProperties
<1>3. ASSUME NEW x \in ToSet(Append(s, e)) PROVE x \in ToSet(s) \union {e}
  <2>1. PICK i \in 1..(Len(s) + 1) : x = Append(s, e)[i]
    BY <1>2 DEF ToSet
  <2>2. i \in 1..Len(s) \/ i = Len(s) + 1
    BY <1>1
  <2> QED BY <1>1, <1>2, <2>1, <2>2 DEF ToSet
<1>4. ASSUME NEW x \in ToSet(s) PROVE x \in ToSet(Append(s, e))
  <2>1. PICK i \in 1..Len(s) : x = s[i]
    BY <1>2 DEF ToSet
  <2>2. i \in 1..(Len(s) + 1)
    BY <1>1
  <2> QED BY <1>1, <1>2, <2>1, <2>2 DEF ToSet
<1>5. e \in ToSet(Append(s, e))
  <2>1. Len(s) + 1 \in 1..(Len(s) + 1)
    BY <1>1
  <2> QED BY <1>1, <1>2, <2>1 DEF ToSet
<1>6. Append(s, e) # <<>>
  BY <1>1, LenProperties
<1> QED BY <1>3, <1>4, <1>5, <1>6

LEMMA ChoosingInit == Init => Choosing
<1> SUFFICES ASSUME Init PROVE Choosing
  OBVIOUS
<1>1. failed = <<>> /\ failed \in Seq(1..Len(Providers))
  BY EmptySeq DEF Init
<1>2. next = 1 /\ using = 0 /\ routed \in 0..Len(Providers)
      /\ phase = IF routed # 0 THEN "routed" ELSE "sequence"
  BY DEF Init
<1>3. next \in 1..(Len(Providers) + 1) /\ Earlier(next) = {}
  BY <1>2, Constants DEF Earlier
<1> QED BY <1>1, <1>2, <1>3, Constants DEF Choosing, FailoverInOrder

LEMMA ChoosingOpens ==
  ASSUME Choosing, NEW p \in 1..Len(Providers), Opens(p), UNCHANGED <<routed, next>>,
         failed # <<>> => Earlier(p) \subseteq ToSet(failed),
         failed = <<>> => p = IF routed # 0 THEN routed ELSE 1
  PROVE  Choosing'
BY Constants DEF Choosing, FailoverInOrder, Opens, Earlier

LEMMA ChoosingRefuses ==
  ASSUME Choosing, NEW p \in 1..Len(Providers), Refuses(p), UNCHANGED routed,
         phase' = "sequence", next' \in 1..(Len(Providers) + 1), phase \in {"routed", "sequence"},
         Earlier(next') \subseteq ToSet(failed) \union {p}
  PROVE  Choosing'
<1>1. failed' = Append(failed, p) /\ failed \in Seq(1..Len(Providers)) /\ using' = using
  BY DEF Choosing, Refuses
<1>2. failed' # <<>> /\ ToSet(failed') = ToSet(failed) \union {p}
  <2>1. PICK s \in Seq(1..Len(Providers)) : s = failed
    BY <1>1
  <2>2. Append(s, p) # <<>> /\ ToSet(Append(s, p)) = ToSet(s) \union {p}
    BY ToSetAppend
  <2> QED BY <1>1, <2>1, <2>2
<1>3. failed' \in Seq(1..Len(Providers))
  BY <1>1, AppendProperties
<1> QED BY <1>1, <1>2, <1>3 DEF Choosing, FailoverInOrder, Earlier

LEMMA ChoosingStep == Choosing /\ [Next]_vars => Choosing'
<1> SUFFICES ASSUME Choosing, [Next]_vars PROVE Choosing'
  OBVIOUS
<1>1. CASE TryRouted
  <2>1. routed \in 1..Len(Providers) /\ failed = <<>> /\ next \in 1..(Len(Providers) + 1)
    BY <1>1, Constants DEF TryRouted, Choosing
  <2>2. CASE Opens(routed)
    BY <1>1, <2>1, <2>2, ChoosingOpens DEF TryRouted, askVars
  <2>3. CASE Refuses(routed) /\ phase' = "sequence"
    <3>1. Earlier(next) = {} /\ next' = next
      BY <1>1, <2>3 DEF TryRouted, Choosing, Earlier
    <3> QED BY <1>1, <2>1, <2>3, <3>1, ChoosingRefuses DEF TryRouted, askVars
  <2> QED BY <1>1, <2>2, <2>3 DEF TryRouted
<1>2. CASE TryNext
  <2>1. /\ phase = "sequence" /\ next \in 1..Len(Providers) /\ Earlier(next) \subseteq ToSet(failed)
        /\ failed = <<>> => routed = 0 /\ next = 1
    BY <1>2, Constants DEF TryNext, Choosing
  <2>2. CASE Opens(next) /\ UNCHANGED next
    BY <1>2, <2>1, <2>2, ChoosingOpens DEF TryNext, askVars
  <2>3. CASE Refuses(next) /\ next' = NextProvider /\ UNCHANGED phase
    <3>1. next' = next + 1 /\ next' \in 1..(Len(Providers) + 1)
      BY <2>1, <2>3, Constants DEF NextProvider
    <3>2. Earlier(next') \subseteq ToSet(failed) \union {next}
      BY <2>1, <3>1 DEF Earlier
    <3> QED BY <1>2, <2>1, <2>3, <3>1, <3>2, ChoosingRefuses DEF TryNext, askVars
  <2> QED BY <1>2, <2>2, <2>3 DEF TryNext
<1>3. CASE GiveUp
  <2>1. Earlier(next) \subseteq ToSet(failed) /\ next = Len(Providers) + 1
    BY <1>3, Constants DEF GiveUp, Choosing
  <2>2. 1..Len(Providers) \subseteq ToSet(failed)
    BY <2>1, Constants DEF Earlier
  <2> QED BY <1>3, <2>2 DEF GiveUp, Choosing, FailoverInOrder, askVars
<1>4. CASE UNCHANGED <<routed, phase, next, failed, using>>
  BY <1>4 DEF Choosing, FailoverInOrder, Earlier
<1>5. \/ UNCHANGED vars
      \/ Respond \/ SayError \/ BodyEnds \/ BodyBreaks \/ Cancel \/ StopParsing \/ Work \/ Read
      => UNCHANGED <<routed, phase, next, failed, using>>
  BY DEF vars, askVars, failoverVars, Respond, SayStart, SayText, SayFinish, SayUsage, SayEnd,
         SayCall, SayBlock, SayPart, SayBlockStop, Say, SayError, BodyEnds, BodyBreaks, Cancel,
         StopParsing, Work, TakeEvent, SendChunk, CloseChunks, Read, Receive, EndReading
<1> QED BY <1>1, <1>2, <1>3, <1>4, <1>5 DEF Next, Failover

\* A call fails only when every provider has refused, and a provider that was not routed
\* to is used only after those before it, for any number of providers and any refusals
\* (FailoverClient.Stream).
THEOREM FailoverInOrderHolds == Spec => []FailoverInOrder
<1>1. Choosing => FailoverInOrder
  BY DEF Choosing
<1> QED BY <1>1, ChoosingInit, ChoosingStep, PTL DEF Spec

-----------------------------------------------------------------------------
(* Types *)

\* What the goroutine relies on in an event: its call, and its fragment.
GoodEvents == {e \in EventType :
  /\ e.kind \in {"call", "block_start", "part", "block_stop"} => e.call \in Calls
  /\ e.kind = "part" => e.part # 0
  /\ e.kind = "call" => e.part = Parts}
GoodChunks == {h \in ChunkType : h.size = 1 => h.type = "text"}

SaidType == [text : 0..MaxText, parts : [Calls -> 0..Parts], block : 0..MaxCalls, reported : BOOLEAN]
GotType == [text : Nat, calls : Seq(CallType), in : Tokens, out : Tokens]

\* The types, but for how much text there is.
Typed ==
  /\ prompt \in Prompts
  /\ reader \in {"invoker", "tool_loop"}
  /\ cancelled \in BOOLEAN
  /\ stage \in {"none", "start", "body", "trailer", "complete"}
  /\ said \in SaidType
  /\ feed \in {"live", "eof", "broken"}
  /\ faulty \in BOOLEAN
  /\ events \in Seq(GoodEvents)
  /\ acc \in [0..MaxCalls -> CallType]
  /\ toSend \in Seq(GoodChunks)
  /\ worker \in {"idle", "reading", "leaving", "closed"}
  /\ chunks \in Seq(GoodChunks)
  /\ Len(chunks) <= ChanCap
  /\ got \in GotType
  /\ consumer \in {"reading", "ended", "error"}

LEMMA OutputIs ==
  ASSUME Typed
  PROVE  /\ Output = said.text + SumOver(said.parts, Calls)
         /\ IsFiniteSet(Calls) /\ Counts(said.parts, Calls)
         /\ SumOver(said.parts, Calls) \in Nat /\ Output \in Nat
<1>1. said.parts \in [Calls -> 0..Parts] /\ said.text \in Nat
  BY Constants DEF Typed, SaidType
<1>2. Output = said.text + SumOver(said.parts, Calls)
  <2>1. FoldFunction(+, 0, said.parts) = SumOver(said.parts, DOMAIN said.parts)
    BY DEF FoldFunction, FoldFunctionOnSet, MapThenFoldSet, SumOver, MapThenSumSet
  <2>2. DOMAIN said.parts = Calls
    BY <1>1
  <2> QED BY <2>1, <2>2 DEF Output
<1>3. IsFiniteSet(Calls)
  BY Constants, FS_Interval
<1>4. Counts(said.parts, Calls)
  BY <1>1, Constants DEF Counts
<1>5. SumOver(said.parts, Calls) \in Nat
  BY <1>3, <1>4, SumNat
<1> QED BY <1>1, <1>2, <1>3, <1>4, <1>5

LEMMA TypedInit == Init => Typed
<1> SUFFICES ASSUME Init PROVE Typed
  OBVIOUS
<1>1. NoCall \in CallType
  BY Constants, EmptySeq DEF NoCall, CallType
<1>2. said \in SaidType
  BY Constants DEF Init, SaidType
<1>3. got \in GotType
  BY EmptySeq DEF Init, GotType, Tokens, Before, Zero
<1>4. Len(chunks) <= ChanCap
  BY Constants DEF Init
<1>5. acc \in [0..MaxCalls -> CallType]
  BY <1>1 DEF Init
<1> QED BY <1>2, <1>3, <1>4, <1>5, EmptySeq DEF Init, Typed

SaidEvents == {"start", "text", "call", "block_start", "part", "block_stop", "finish", "usage", "end",
               "error"}

LEMMA EventIs ==
  ASSUME NEW kind \in SaidEvents, NEW call \in 0..MaxCalls, NEW part \in 0..Parts,
         NEW report \in [in : Nat, out : Nat],
         kind \in {"call", "block_start", "part", "block_stop"} => call \in Calls,
         kind = "part" => part # 0, kind = "call" => part = Parts
  PROVE  Event(kind, call, part, report) \in GoodEvents
BY DEF Event, GoodEvents, EventType, Tokens, SaidEvents

LEMMA ZeroIs == Zero \in [in : Nat, out : Nat] /\ 0 \in 0..Parts
BY Constants DEF Zero

LEMMA TypedSay ==
  ASSUME Typed, NEW e \in GoodEvents, Say(e), said' \in SaidType,
         stage' \in {"none", "start", "body", "trailer", "complete"}
  PROVE  Typed'
<1>1. events' \in Seq(GoodEvents)
  BY AppendProperties DEF Say, Typed
<1> QED BY <1>1 DEF Say, Typed, askVars, workerVars, readVars

\* The provider sends the event e.
Spoke(e) ==
  /\ Say(e) /\ said' \in SaidType
  /\ stage' \in {"none", "start", "body", "trailer", "complete"}
  /\ \/ e.kind = "start" /\ SayStart /\ e.report = [in |-> 1, out |-> 0]
     \/ e.kind = "text" /\ SayText /\ e.report \in Reports(Output + 1)
     \/ e.kind = "call" /\ SayCall(e.call) /\ e.report \in Reports(Output + Parts)
     \/ e.kind = "block_start" /\ SayBlock(e.call) /\ e.report = Zero
     \/ e.kind = "part" /\ SayPart(e.call) /\ e.part = said.parts[e.call] + 1 /\ e.report = Zero
     \/ e.kind = "block_stop" /\ SayBlockStop(e.call) /\ e.report = Zero
     \/ e.kind = "finish" /\ SayFinish /\ e.report = IF said'.reported THEN Whole ELSE Zero
     \/ e.kind = "usage" /\ SayUsage /\ e.report = Whole
     \/ e.kind = "end" /\ SayEnd /\ e.report = Zero

LEMMA Speaks ==
  ASSUME Typed, Respond
  PROVE  \E e \in GoodEvents : Spoke(e)
<1> USE ZeroIs, Constants
<1>1. Output \in Nat
  BY OutputIs
<1>2. CASE SayStart
  <2>1. PICK e \in GoodEvents : e = Event("start", 0, 0, [in |-> 1, out |-> 0])
    BY EventIs DEF SaidEvents
  <2>2. e.kind = "start" /\ e.report = [in |-> 1, out |-> 0]
    BY <2>1 DEF Event
  <2> QED BY <1>2, <2>1, <2>2 DEF Spoke, SayStart, Typed
<1>3. CASE SayText
  <2>1. PICK report \in Reports(Output + 1) : Say(Event("text", 0, 0, report))
    BY <1>3 DEF SayText
  <2>2. report \in [in : Nat, out : Nat]
    BY <1>1 DEF Reports, Zero
  <2>3. PICK e \in GoodEvents : e = Event("text", 0, 0, report)
    BY <2>2, EventIs DEF SaidEvents
  <2>4. said' \in SaidType /\ stage' = stage
    <3>1. said.text + 1 \in 0..MaxText
      BY <1>3 DEF SayText, Typed, SaidType
    <3>2. said' = [said EXCEPT !.text = said.text + 1] /\ stage' = stage /\ said \in SaidType
      BY <1>3 DEF SayText, Typed
    <3> QED BY <3>1, <3>2 DEF SaidType
  <2>5. e.kind = "text" /\ e.report = report
    BY <2>3 DEF Event
  <2> QED BY <1>3, <2>1, <2>3, <2>4, <2>5 DEF Spoke, Typed
<1>4. CASE SayFinish
  <2>1. PICK b \in BOOLEAN : /\ said' = [said EXCEPT !.reported = b]
                             /\ Say(Event("finish", 0, 0, IF b THEN Whole ELSE Zero))
    BY <1>4 DEF SayFinish
  <2>2. Whole \in [in : Nat, out : Nat]
    BY <1>1 DEF Whole
  <2>3. PICK e \in GoodEvents : e = Event("finish", 0, 0, IF b THEN Whole ELSE Zero)
    BY <2>2, EventIs DEF SaidEvents
  <2>4. said' \in SaidType /\ stage' \in {"trailer", "complete"} /\ said'.reported = b
    BY <1>4, <2>1 DEF SayFinish, Typed, SaidType
  <2>5. e.kind = "finish" /\ e.report = IF said'.reported THEN Whole ELSE Zero
    BY <2>3, <2>4 DEF Event
  <2> QED BY <1>4, <2>1, <2>3, <2>4, <2>5 DEF Spoke
<1>5. CASE SayUsage
  <2>1. Whole \in [in : Nat, out : Nat]
    BY <1>1 DEF Whole
  <2>2. PICK e \in GoodEvents : e = Event("usage", 0, 0, Whole)
    BY <2>1, EventIs DEF SaidEvents
  <2>3. said' \in SaidType /\ stage' = stage /\ Say(Event("usage", 0, 0, Whole))
    BY <1>5 DEF SayUsage, Typed, SaidType
  <2>4. e.kind = "usage" /\ e.report = Whole
    BY <2>2 DEF Event
  <2> QED BY <1>5, <2>2, <2>3, <2>4 DEF Spoke, Typed
<1>6. CASE SayEnd
  <2>1. PICK e \in GoodEvents : e = Event("end", 0, 0, Zero)
    BY EventIs DEF SaidEvents
  <2>2. e.kind = "end" /\ e.report = Zero
    BY <2>1 DEF Event
  <2> QED BY <1>6, <2>1, <2>2 DEF Spoke, SayEnd, Typed
<1>7. ASSUME NEW c \in Calls, SayCall(c) PROVE \E e \in GoodEvents : Spoke(e)
  <2>1. PICK report \in Reports(Output + Parts) : Say(Event("call", c, Parts, report))
    BY <1>7 DEF SayCall
  <2>2. report \in [in : Nat, out : Nat]
    BY <1>1 DEF Reports, Zero
  <2>3. PICK e \in GoodEvents : e = Event("call", c, Parts, report)
    BY <2>2, EventIs DEF SaidEvents
  <2>4. said' \in SaidType /\ stage' = stage
    <3>1. said' = [said EXCEPT !.parts[c] = Parts] /\ stage' = stage /\ said \in SaidType
      BY <1>7 DEF SayCall, Typed
    <3>2. Parts \in 0..Parts
      OBVIOUS
    <3> QED BY <3>1, <3>2 DEF SaidType
  <2>5. e.kind = "call" /\ e.call = c /\ e.report = report
    BY <2>3 DEF Event
  <2> QED BY <1>7, <2>1, <2>3, <2>4, <2>5 DEF Spoke, Typed
<1>8. ASSUME NEW c \in Calls, SayBlock(c) PROVE \E e \in GoodEvents : Spoke(e)
  <2>1. PICK e \in GoodEvents : e = Event("block_start", c, 0, Zero)
    BY EventIs DEF SaidEvents
  <2>2. said' \in SaidType /\ stage' = stage /\ Say(e)
    BY <1>8, <2>1 DEF SayBlock, Typed, SaidType
  <2>3. e.kind = "block_start" /\ e.call = c /\ e.report = Zero
    BY <2>1 DEF Event
  <2> QED BY <1>8, <2>2, <2>3 DEF Spoke, Typed
<1>9. ASSUME NEW c \in Calls, SayPart(c) PROVE \E e \in GoodEvents : Spoke(e)
  <2>1. said.parts[c] \in Nat /\ said.parts[c] < Parts
    BY <1>9 DEF SayPart, Typed, SaidType
  <2>2. said.parts[c] + 1 \in 0..Parts /\ said.parts[c] + 1 # 0
    BY <2>1
  <2>3. PICK e \in GoodEvents : e = Event("part", c, said.parts[c] + 1, Zero)
    BY <2>2, EventIs DEF SaidEvents
  <2>4. said' \in SaidType /\ stage' = stage /\ Say(e)
    BY <1>9, <2>2, <2>3 DEF SayPart, Typed, SaidType
  <2>5. e.kind = "part" /\ e.call = c /\ e.part = said.parts[c] + 1 /\ e.report = Zero
    BY <2>3 DEF Event
  <2> QED BY <1>9, <2>4, <2>5 DEF Spoke, Typed
<1>10. ASSUME NEW c \in Calls, SayBlockStop(c) PROVE \E e \in GoodEvents : Spoke(e)
  <2>1. PICK e \in GoodEvents : e = Event("block_stop", c, 0, Zero)
    BY EventIs DEF SaidEvents
  <2>2. said' \in SaidType /\ stage' = stage /\ Say(e)
    BY <1>10, <2>1 DEF SayBlockStop, Typed, SaidType
  <2>3. e.kind = "block_stop" /\ e.call = c /\ e.report = Zero
    BY <2>1 DEF Event
  <2> QED BY <1>10, <2>2, <2>3 DEF Spoke, Typed
<1> QED BY <1>2, <1>3, <1>4, <1>5, <1>6, <1>7, <1>8, <1>9, <1>10 DEF Respond

LEMMA TypedRespond ==
  ASSUME Typed, Respond
  PROVE  Typed'
<1>1. PICK e \in GoodEvents : Spoke(e)
  BY Speaks
<1> QED BY <1>1, TypedSay DEF Spoke

LEMMA NoCallIs == NoCall \in CallType /\ NoCall.id = 0 /\ NoCall.parts = <<>> /\ Len(<<>>) = 0
BY Constants, EmptySeq DEF NoCall, CallType

LEMMA ChunksAre ==
  /\ TextChunk \in GoodChunks /\ TextChunk.size = 1
  /\ \A type \in {"done", "error"} : Plain(type) \in GoodChunks /\ Plain(type).size = 0
  /\ \A report \in [in : Nat, out : Nat] :
       /\ UsageChunk(report) \in GoodChunks /\ UsageChunk(report).size = 0
       /\ Chunk("text", 0, NoCall, report) \in GoodChunks /\ Chunk("text", 0, NoCall, report).size = 0
  /\ \A call \in CallType : CallChunk(call) \in GoodChunks /\ CallChunk(call).size = 0
BY ZeroIs, NoCallIs
   DEF GoodChunks, ChunkType, TextChunk, Plain, UsageChunk, CallChunk, Chunk, Tokens, Zero

LEMMA OneTwo ==
  ASSUME NEW S, NEW x \in S, NEW y \in S
  PROVE  /\ <<x>> \in Seq(S) /\ <<x>> = Append(<<>>, x) /\ Len(<<x>>) = 1 /\ <<x>>[1] = x
         /\ <<x, y>> \in Seq(S) /\ <<x, y>> = Append(<<x>>, y) /\ Len(<<x, y>>) = 2
         /\ <<x, y>>[1] = x /\ <<x, y>>[2] = y
OBVIOUS

LEMMA GrownIs ==
  ASSUME NEW call \in CallType, NEW part \in 1..Parts
  PROVE  Grown(call, part) \in CallType
<1>1. call.parts \in Seq(1..Parts)
  BY DEF CallType
<1>2. Append(call.parts, part) \in Seq(1..Parts)
  BY <1>1, AppendProperties
<1> QED BY <1>2 DEF Grown, CallType

LEMMA WholeCallIs ==
  ASSUME NEW e \in GoodEvents, e.kind = "call"
  PROVE  WholeCall(e) \in CallType
<1>1. e.part = Parts /\ e.call \in 0..MaxCalls
  BY DEF GoodEvents, EventType
<1>2. [i \in 1..Parts |-> i] \in Seq(1..Parts)
  BY Constants, IsASeq
<1> QED BY <1>1, <1>2 DEF WholeCall, CallType

\* The chunks of a finished response in the chat format.
LEMMA FinishedCalls ==
  ASSUME Typed, NEW order \in SetToSeqs({c \in Calls : acc[c] # NoCall})
  PROVE  /\ Len(order) \in Nat
         /\ order \in [1..Len(order) -> {c \in Calls : acc[c] # NoCall}]
         /\ [i \in 1..Len(order) |-> CallChunk(acc[order[i]])] \in Seq(GoodChunks)
<1> DEFINE S == {c \in Calls : acc[c] # NoCall}
<1>1. IsFiniteSet(S)
  <2>1. IsFiniteSet(Calls)
    BY Constants, FS_Interval
  <2> QED BY <2>1, FS_Subset
<1>2. PICK n \in Nat : n = Cardinality(S)
  <2> HIDE DEF S
  <2> QED BY <1>1, FS_CardinalityType
<1>3. order \in [1..n -> S]
  BY <1>2 DEF SetToSeqs
<1>4. order \in Seq(S) /\ Len(order) = n
  <2> HIDE DEF S
  <2>1. order = [i \in 1..n |-> order[i]] /\ \A i \in 1..n : order[i] \in S
    BY <1>3
  <2> QED BY <2>1, IsASeq
<1>5. \A i \in 1..n : CallChunk(acc[order[i]]) \in GoodChunks
  <2>1. \A c \in S : acc[c] \in CallType
    BY Constants DEF Typed
  <2> HIDE DEF S
  <2> QED BY <1>3, <2>1, ChunksAre
<1>6. [i \in 1..n |-> CallChunk(acc[order[i]])] \in Seq(GoodChunks)
  <2> HIDE DEF S
  <2> QED BY <1>5, IsASeq
<1> QED BY <1>3, <1>4, <1>6

\* What a goroutine makes of an event, in each format.
LEMMA TakesTyped ==
  ASSUME Typed, toSend = <<>>, NEW e \in GoodEvents,
         TakeAnthropic(e) \/ TakeChat(e) \/ TakeGemini(e) \/ TakeOllama(e)
  PROVE  toSend' \in Seq(GoodChunks) /\ acc' \in [0..MaxCalls -> CallType]
<1> DEFINE Goal == toSend' \in Seq(GoodChunks) /\ acc' \in [0..MaxCalls -> CallType]
<1>1. /\ e.report \in [in : Nat, out : Nat] /\ e.call \in 0..MaxCalls /\ e.part \in 0..Parts
      /\ e.kind = "part" => e.part \in 1..Parts
  BY Constants DEF GoodEvents, EventType, Tokens
<1>2. toSend \in Seq(GoodChunks) /\ acc \in [0..MaxCalls -> CallType] /\ acc[0] \in CallType
      /\ acc[e.call] \in CallType
  BY <1>1, Constants DEF Typed
<1>3. /\ Reported(e.report) \in Seq(GoodChunks)
      /\ <<UsageChunk(e.report)>> \in Seq(GoodChunks)
      /\ <<Chunk("text", 0, NoCall, e.report)>> \in Seq(GoodChunks)
      /\ <<TextChunk>> \in Seq(GoodChunks) /\ <<Plain("done")>> \in Seq(GoodChunks)
      /\ <<Plain("error")>> \in Seq(GoodChunks)
      /\ <<UsageChunk(e.report), Plain("done")>> \in Seq(GoodChunks)
  BY <1>1, ChunksAre, OneTwo, EmptySeq DEF Reported
<1>4. e.kind = "call" => <<CallChunk(WholeCall(e))>> \in Seq(GoodChunks)
  BY WholeCallIs, ChunksAre, OneTwo
<1>5. CASE TakeAnthropic(e)
  <2>1. e.kind = "part" => [acc EXCEPT ![0] = Grown(@, e.part)] \in [0..MaxCalls -> CallType]
    BY <1>1, <1>2, GrownIs
  <2>2. [acc EXCEPT ![0] = [id |-> e.call, parts |-> <<>>]] \in [0..MaxCalls -> CallType]
    <3>1. [id |-> e.call, parts |-> <<>>] \in CallType
      BY <1>1, EmptySeq DEF CallType
    <3> QED BY <1>2, <3>1
  <2>3. [acc EXCEPT ![0] = NoCall] \in [0..MaxCalls -> CallType]
    BY <1>2, NoCallIs
  <2>4. (IF acc[0].id # 0 THEN <<CallChunk(acc[0])>> ELSE <<>>) \in Seq(GoodChunks)
    BY <1>2, ChunksAre, OneTwo, EmptySeq
  <2>5. CASE e.kind \in {"start", "text", "finish", "end", "error"}
    BY <1>2, <1>3, <1>5, <2>5 DEF TakeAnthropic
  <2>6. CASE e.kind = "block_start"
    BY <1>2, <1>5, <2>2, <2>6 DEF TakeAnthropic
  <2>7. CASE e.kind = "part"
    BY <1>2, <1>5, <2>1, <2>7 DEF TakeAnthropic
  <2>8. CASE e.kind = "block_stop"
    BY <1>2, <1>5, <2>3, <2>4, <2>8 DEF TakeAnthropic
  <2> QED BY <1>5, <2>5, <2>6, <2>7, <2>8 DEF TakeAnthropic
<1>6. CASE TakeChat(e)
  <2>1. e.kind = "part" => [acc EXCEPT ![e.call] = Accumulated(@, e)] \in [0..MaxCalls -> CallType]
    <3> SUFFICES ASSUME e.kind = "part" PROVE Accumulated(acc[e.call], e) \in CallType
      BY <1>1, <1>2
    <3>1. [acc[e.call] EXCEPT !.id = e.call] \in CallType
      BY <1>1, <1>2 DEF CallType
    <3> QED BY <1>1, <1>2, <3>1, GrownIs DEF Accumulated
  <2>2. CASE e.kind = "finish"
    <3>1. PICK order \in SetToSeqs({c \in Calls : acc[c] # NoCall}) :
            toSend' = Append([i \in 1..Len(order) |-> CallChunk(acc[order[i]])],
                             Chunk("text", 0, NoCall, e.report))
      BY <1>6, <2>2 DEF TakeChat
    <3>2. [i \in 1..Len(order) |-> CallChunk(acc[order[i]])] \in Seq(GoodChunks)
      BY <3>1, FinishedCalls
    <3>3. toSend' \in Seq(GoodChunks)
      BY <1>1, <3>1, <3>2, ChunksAre, AppendProperties
    <3>4. [i \in 0..MaxCalls |-> NoCall] \in [0..MaxCalls -> CallType]
      BY NoCallIs
    <3>5. acc' = [i \in 0..MaxCalls |-> NoCall]
      BY <1>6, <2>2 DEF TakeChat
    <3> QED BY <3>3, <3>4, <3>5
  <2>3. CASE e.kind \in {"text", "usage", "end", "error"}
    BY <1>2, <1>3, <1>6, <2>3 DEF TakeChat
  <2>4. CASE e.kind = "part"
    BY <1>2, <1>6, <2>1, <2>4 DEF TakeChat
  <2> QED BY <1>6, <2>2, <2>3, <2>4 DEF TakeChat
<1>7. CASE TakeGemini(e)
  <2>1. CASE e.kind = "text"
    <3>1. toSend' = <<TextChunk>> \o Reported(e.report) /\ acc' = acc
      BY <1>7, <2>1 DEF TakeGemini
    <3> QED BY <1>2, <1>3, <3>1, ConcatProperties
  <2>2. CASE e.kind = "call"
    <3>1. toSend' = <<CallChunk(WholeCall(e))>> \o Reported(e.report) /\ acc' = acc
      BY <1>7, <2>2 DEF TakeGemini
    <3> QED BY <1>2, <1>3, <1>4, <2>2, <3>1, ConcatProperties
  <2>3. CASE e.kind = "finish"
    <3>1. toSend' = Reported(e.report) \o <<Plain("done")>> /\ acc' = acc
      BY <1>7, <2>3 DEF TakeGemini
    <3> QED BY <1>2, <1>3, <3>1, ConcatProperties
  <2>4. CASE e.kind = "error"
    BY <1>2, <1>3, <1>7, <2>4 DEF TakeGemini
  <2> QED BY <1>7, <2>1, <2>2, <2>3, <2>4 DEF TakeGemini
<1>8. CASE TakeOllama(e)
  BY <1>2, <1>3, <1>4, <1>8 DEF TakeOllama
<1> QED BY <1>5, <1>6, <1>7, <1>8

\* The SSE parser, or the scanner, at the end of a body that broke off.
LEMMA TypedReadFails ==
  ASSUME Typed, ReadFails \/ UNCHANGED events
  PROVE  events' \in Seq(GoodEvents)
<1>1. Event("error", 0, 0, Zero) \in GoodEvents
  BY ZeroIs, Constants, EventIs DEF SaidEvents
<1>2. Append(events, Event("error", 0, 0, Zero)) \in Seq(GoodEvents)
  BY <1>1, AppendProperties DEF Typed
<1> QED BY <1>2 DEF ReadFails, Typed

LEMMA HeadTail ==
  ASSUME NEW S, NEW s \in Seq(S), s # <<>>
  PROVE  /\ Head(s) \in S /\ Tail(s) \in Seq(S) /\ Len(s) \in Nat /\ Len(s) > 0
         /\ Len(Tail(s)) = Len(s) - 1 /\ Head(s) = s[1]
         /\ \A i \in 1..(Len(s) - 1) : Tail(s)[i] = s[i + 1]
BY HeadTailProperties, LenProperties, EmptySeq

LEMMA TypedWork ==
  ASSUME Typed, Work
  PROVE  Typed'
<1>1. CASE TakeEvent
  <2>1. PICK e \in GoodEvents : e = Head(events)
    BY <1>1, HeadTail DEF TakeEvent, Typed
  <2>2. toSend' \in Seq(GoodChunks) /\ acc' \in [0..MaxCalls -> CallType]
    BY <1>1, <2>1, TakesTyped DEF TakeEvent
  <2>3. events' \in Seq(GoodEvents)
    BY <1>1, HeadTail DEF TakeEvent, Typed
  <2>4. worker' \in {"idle", "reading", "leaving", "closed"}
    BY <1>1 DEF TakeEvent, Typed
  <2> QED BY <1>1, <2>2, <2>3, <2>4
          DEF TakeEvent, Typed, askVars, failoverVars, serverVars, readVars
<1>2. CASE SendChunk
  <2>1. PICK h \in GoodChunks : h = Head(toSend)
    BY <1>2, HeadTail DEF SendChunk, Typed
  <2>2. toSend' \in Seq(GoodChunks)
    BY <1>2, HeadTail DEF SendChunk, Typed
  <2>3. chunks' = Append(chunks, h) /\ Len(chunks) < ChanCap
    BY <1>2, <2>1 DEF SendChunk
  <2>4. chunks' \in Seq(GoodChunks) /\ Len(chunks') = Len(chunks) + 1
    BY <2>1, <2>3, AppendProperties DEF Typed
  <2>5. Len(chunks') <= ChanCap
    BY <2>3, <2>4, Constants, LenProperties DEF Typed
  <2> QED BY <1>2, <2>2, <2>4, <2>5
          DEF SendChunk, Typed, askVars, failoverVars, serverVars, readVars
<1>3. CASE CloseChunks
  BY <1>3 DEF CloseChunks, Typed, askVars, failoverVars, serverVars, readVars
<1> QED BY <1>1, <1>2, <1>3 DEF Work

LEMMA TypedRead ==
  ASSUME Typed, Read
  PROVE  Typed'
<1>1. CASE Receive
  <2>1. PICK c \in GoodChunks : c = Head(chunks)
    BY <1>1, HeadTail DEF Receive, Typed
  <2>2. /\ c.size \in Nat /\ c.call \in CallType /\ c.in \in Nat /\ c.out \in Nat
    BY <2>1 DEF GoodChunks, ChunkType, Tokens
  <2>3. got.text \in Nat /\ got.calls \in Seq(CallType) /\ got.in \in Nat /\ got.out \in Nat
    BY DEF Typed, GotType, Tokens
  <2>4. Collected(got.calls, c.call) \in Seq(CallType)
    BY <2>2, <2>3, AppendProperties DEF Collected
  <2>5. Counted(got.in, c.in) \in Nat /\ Counted(got.out, c.out) \in Nat
    BY <2>2, <2>3 DEF Counted
  <2>6. got' \in GotType
    <3>1. CASE c.type = "error"
      BY <1>1, <2>1, <3>1 DEF Receive, Typed
    <3>2. CASE c.type # "error"
      <4>1. got' = [text |-> got.text + c.size,
                    calls |-> IF c.type = "tool_call" THEN Collected(got.calls, c.call) ELSE got.calls,
                    in |-> Counted(got.in, c.in), out |-> Counted(got.out, c.out)]
        BY <1>1, <2>1, <3>2 DEF Receive
      <4> QED BY <2>2, <2>3, <2>4, <2>5, <4>1 DEF GotType, Tokens
    <3> QED BY <3>1, <3>2
  <2>7. consumer' \in {"reading", "ended", "error"}
    BY <1>1 DEF Receive, Typed
  <2>8. chunks' \in Seq(GoodChunks) /\ Len(chunks') <= ChanCap
    BY <1>1, HeadTail, Constants DEF Receive, Typed
  <2> QED BY <1>1, <2>6, <2>7, <2>8
          DEF Receive, Typed, askVars, failoverVars, serverVars, workerVars
<1>2. CASE EndReading
  BY <1>2 DEF EndReading, Typed, askVars, failoverVars, serverVars, workerVars
<1> QED BY <1>1, <1>2 DEF Read

LEMMA TypedStep == Typed /\ [Next]_vars => Typed'
<1> SUFFICES ASSUME Typed, [Next]_vars PROVE Typed'
  OBVIOUS
<1>1. CASE Failover
  BY <1>1 DEF Failover, TryRouted, TryNext, GiveUp, Opens, Refuses, Typed, askVars, serverVars,
              workerVars, readVars
<1>2. CASE SayError
  <2>1. Event("error", 0, 0, Zero) \in GoodEvents
    BY ZeroIs, Constants, EventIs DEF SaidEvents
  <2>2. events' \in Seq(GoodEvents)
    BY <1>2, <2>1, AppendProperties DEF SayError, Typed
  <2> QED BY <1>2, <2>2 DEF SayError, Typed, askVars, failoverVars, workerVars, readVars
<1>3. CASE BodyBreaks
  <2>1. events' \in Seq(GoodEvents) /\ feed' = "broken"
    BY <1>3, TypedReadFails DEF BodyBreaks, ReadFails
  <2> QED BY <1>3, <2>1 DEF BodyBreaks, Typed, askVars, failoverVars, workerVars, readVars
<1>4. CASE StopParsing
  <2>1. events' \in Seq(GoodEvents) /\ feed' \in {"eof", "broken"}
    BY <1>4, TypedReadFails DEF StopParsing, ReadFails
  <2> QED BY <1>4, <2>1 DEF StopParsing, Typed, askVars, failoverVars, serverVars, workerVars, readVars
<1>5. CASE BodyEnds \/ Cancel
  BY <1>5 DEF BodyEnds, Cancel, Typed, askVars, failoverVars, serverVars, workerVars, readVars
<1>6. CASE UNCHANGED vars
  BY <1>6 DEF vars, Typed, askVars, failoverVars, serverVars, workerVars, readVars
<1> QED BY <1>1, <1>2, <1>3, <1>4, <1>5, <1>6, TypedRespond, TypedWork, TypedRead DEF Next

-----------------------------------------------------------------------------
(* How many elements of a sequence are in a set *)

Count(s, G) == Cardinality({i \in 1..Len(s) : s[i] \in G})

LEMMA CountFinite ==
  ASSUME NEW S, NEW s \in Seq(S), NEW G
  PROVE  IsFiniteSet({i \in 1..Len(s) : s[i] \in G}) /\ Count(s, G) \in Nat
<1>1. IsFiniteSet(1..Len(s))
  BY LenProperties, FS_Interval
<1> DEFINE I == {i \in 1..Len(s) : s[i] \in G}
<1>2. IsFiniteSet(I)
  <2>1. I \in SUBSET (1..Len(s))
    OBVIOUS
  <2> HIDE DEF I
  <2> QED BY <1>1, <2>1, FS_Subset
<1>3. Cardinality(I) \in Nat
  <2> HIDE DEF I
  <2> QED BY <1>2, FS_CardinalityType
<1> QED BY <1>2, <1>3 DEF Count

LEMMA CountAppend ==
  ASSUME NEW S, NEW s \in Seq(S), NEW e \in S, NEW G
  PROVE  Count(Append(s, e), G) = Count(s, G) + (IF e \in G THEN 1 ELSE 0)
<1>1. /\ Len(s) \in Nat /\ Len(Append(s, e)) = Len(s) + 1
      /\ \A i \in 1..Len(s) : Append(s, e)[i] = s[i]
      /\ Append(s, e)[Len(s) + 1] = e
  BY AppendProperties, LenProperties
<1> DEFINE I == {i \in 1..Len(s) : s[i] \in G}
           J == {i \in 1..(Len(s) + 1) : Append(s, e)[i] \in G}
<1>2. Count(Append(s, e), G) = Cardinality(J) /\ Count(s, G) = Cardinality(I)
  BY <1>1 DEF Count
<1>3. IsFiniteSet(I) /\ Cardinality(I) \in Nat
  BY CountFinite DEF Count
<1>4. Len(s) + 1 \notin I
  BY <1>1
<1>5. CASE e \in G
  <2>1. J = I \union {Len(s) + 1}
    BY <1>1, <1>5
  <2> HIDE DEF I, J
  <2> QED BY <1>2, <1>3, <1>4, <1>5, <2>1, FS_AddElement
<1>6. CASE e \notin G
  <2>1. J = I
    BY <1>1, <1>6
  <2> HIDE DEF I, J
  <2> QED BY <1>2, <1>3, <1>6, <2>1
<1> QED BY <1>5, <1>6

LEMMA CountTail ==
  ASSUME NEW S, NEW s \in Seq(S), s # <<>>, NEW G
  PROVE  Count(s, G) = Count(Tail(s), G) + (IF Head(s) \in G THEN 1 ELSE 0)
<1>1. PICK n \in Nat : n = Len(s) /\ n > 0
  BY HeadTail
<1>2. /\ Tail(s) \in Seq(S) /\ Len(Tail(s)) = n - 1 /\ Head(s) = s[1]
      /\ \A i \in 1..(n - 1) : Tail(s)[i] = s[i + 1]
  BY <1>1, HeadTail
<1> DEFINE I == {i \in 1..(n - 1) : Tail(s)[i] \in G}
           J == {i \in 1..n : s[i] \in G}
           f == [i \in I |-> i + 1]
<1>3. Count(Tail(s), G) = Cardinality(I) /\ Count(s, G) = Cardinality(J)
  BY <1>1, <1>2 DEF Count
<1>4. IsFiniteSet(I) /\ IsFiniteSet(J) /\ Cardinality(I) \in Nat /\ Cardinality(J) \in Nat
  <2>1. IsFiniteSet(I) /\ Cardinality(I) \in Nat
    BY <1>2, CountFinite DEF Count
  <2>2. IsFiniteSet(J) /\ Cardinality(J) \in Nat
    BY <1>1, CountFinite DEF Count
  <2> QED BY <2>1, <2>2
<1>5. f \in Bijection(I, J \ {1})
  <2>1. \A i \in I : f[i] \in J \ {1}
    BY <1>2
  <2>2. \A i, j \in I : f[i] = f[j] => i = j
    BY <1>1
  <2>3. ASSUME NEW j \in J \ {1} PROVE \E i \in I : f[i] = j
    <3>1. j - 1 \in 1..(n - 1) /\ (j - 1) + 1 = j
      BY <1>1, <2>3
    <3>2. j - 1 \in I
      BY <1>2, <2>3, <3>1
    <3> QED BY <3>1, <3>2
  <2> QED BY <2>1, <2>2, <2>3 DEF Bijection, Injection, Surjection, IsInjective
<1>6. Cardinality(J \ {1}) = Cardinality(I)
  <2> HIDE DEF I, J, f
  <2> QED BY <1>4, <1>5, FS_Bijection DEF ExistsBijection
<1>7. 1 \in J <=> Head(s) \in G
  BY <1>1, <1>2
<1>8. Cardinality(J \ {1}) = IF 1 \in J THEN Cardinality(J) - 1 ELSE Cardinality(J)
  <2> HIDE DEF I, J, f
  <2> QED BY <1>4, FS_RemoveElement
<1> QED
  <2> HIDE DEF I, J, f
  <2> QED BY <1>3, <1>4, <1>6, <1>7, <1>8

LEMMA CountZero ==
  ASSUME NEW S, NEW s \in Seq(S), NEW G
  PROVE  Count(s, G) = 0 <=> \A i \in 1..Len(s) : s[i] \notin G
<1> DEFINE I == {i \in 1..Len(s) : s[i] \in G}
<1>1. IsFiniteSet(I) /\ Count(s, G) = Cardinality(I)
  BY CountFinite DEF Count
<1>2. Cardinality(I) = 0 <=> I = {}
  <2> HIDE DEF I
  <2> QED BY <1>1, FS_EmptySet
<1> QED BY <1>1, <1>2

LEMMA CountEmpty == \A G : Count(<<>>, G) = 0
<1> SUFFICES ASSUME NEW G PROVE Count(<<>>, G) = 0
  OBVIOUS
<1>1. <<>> \in Seq({}) /\ 1..Len(<<>>) = {}
  BY EmptySeq
<1> QED BY <1>1, CountZero

LEMMA CountOne ==
  ASSUME NEW S, NEW s \in Seq(S), NEW G, NEW i \in 1..Len(s), s[i] \in G,
         \A j \in 1..Len(s) : s[j] \in G => j = i
  PROVE  Count(s, G) = 1
<1>1. {j \in 1..Len(s) : s[j] \in G} = {i}
  OBVIOUS
<1> QED BY <1>1, FS_Singleton DEF Count

LEMMA CountShort ==
  ASSUME NEW S, NEW x \in S, NEW y \in S, NEW G
  PROVE  /\ Count(<<x>>, G) = IF x \in G THEN 1 ELSE 0
         /\ Count(<<x, y>>, G) = (IF x \in G THEN 1 ELSE 0) + (IF y \in G THEN 1 ELSE 0)
<1>1. <<>> \in Seq(S) /\ <<x>> \in Seq(S) /\ <<x>> = Append(<<>>, x) /\ <<x, y>> = Append(<<x>>, y)
  BY EmptySeq, OneTwo
<1>2. \A s \in Seq(S), z \in S : Count(Append(s, z), G) = Count(s, G) + (IF z \in G THEN 1 ELSE 0)
  BY CountAppend
<1>3. PICK s, t, u : /\ s \in Seq(S) /\ t \in Seq(S) /\ s = <<>>
                     /\ t = Append(s, x) /\ u = Append(t, y) /\ t = <<x>> /\ u = <<x, y>>
  BY <1>1
<1>4. Count(t, G) = Count(s, G) + (IF x \in G THEN 1 ELSE 0)
  BY <1>2, <1>3
<1>5. Count(u, G) = Count(t, G) + (IF y \in G THEN 1 ELSE 0)
  BY <1>2, <1>3
<1>6. Count(s, G) = 0
  BY <1>3, CountEmpty
<1>7. Count(t, G) = (IF x \in G THEN 1 ELSE 0) /\ Count(u, G) = Count(t, G) + (IF y \in G THEN 1 ELSE 0)
  BY <1>4, <1>5, <1>6
<1>8. Count(u, G) = (IF x \in G THEN 1 ELSE 0) + (IF y \in G THEN 1 ELSE 0)
  BY <1>7
<1>9. Count(<<x>>, G) = Count(t, G) /\ Count(<<x, y>>, G) = Count(u, G)
  BY <1>3, Zenon
<1> QED BY <1>7, <1>8, <1>9

LEMMA CountSingle ==
  ASSUME NEW S, NEW x \in S, NEW G
  PROVE  Count(<<x>>, G) = IF x \in G THEN 1 ELSE 0
<1>1. /\ Count(<<x>>, G) = IF x \in G THEN 1 ELSE 0
      /\ Count(<<x, x>>, G) = (IF x \in G THEN 1 ELSE 0) + (IF x \in G THEN 1 ELSE 0)
  BY CountShort
<1> QED BY <1>1

-----------------------------------------------------------------------------
(* The text of the response *)

LEMMA ConcatShort ==
  ASSUME NEW x, NEW y
  PROVE  <<x>> \o <<y>> = <<x, y>> /\ <<x>> \o <<>> = <<x>> /\ <<>> \o <<y>> = <<y>>
<1> DEFINE S == {x, y}
<1>1. <<x>> \in Seq(S) /\ <<y>> \in Seq(S) /\ <<x, y>> \in Seq(S)
  OBVIOUS
<1>2. /\ <<x>> \o <<y>> \in Seq(S) /\ Len(<<x>> \o <<y>>) = 2
      /\ (<<x>> \o <<y>>)[1] = x /\ (<<x>> \o <<y>>)[2] = y
  BY <1>1, ConcatProperties
<1>3. Len(<<x>> \o <<y>>) = Len(<<x, y>>)
      /\ \A i \in 1..Len(<<x>> \o <<y>>) : (<<x>> \o <<y>>)[i] = <<x, y>>[i]
  BY <1>2
<1>4. <<x>> \o <<y>> = <<x, y>>
  BY <1>1, <1>2, <1>3, SeqEqual
<1> QED BY <1>1, <1>4, ConcatEmptySeq

\* What a goroutine sends for an event, apart from the calls of the chat format.
LEMMA Sends ==
  ASSUME toSend = <<>>, NEW e \in GoodEvents,
         TakeAnthropic(e) \/ TakeChat(e) \/ TakeGemini(e) \/ TakeOllama(e)
  PROVE  /\ e.kind = "text" =>
              /\ toSend' = <<TextChunk>> \/ toSend' = <<TextChunk, UsageChunk(e.report)>>
              /\ acc' = acc
         /\ e.kind = "call" =>
              /\ \/ toSend' = <<CallChunk(WholeCall(e))>>
                 \/ toSend' = <<CallChunk(WholeCall(e)), UsageChunk(e.report)>>
              /\ acc' = acc
         /\ e.kind \in {"start", "usage"} => toSend' = <<UsageChunk(e.report)>> /\ acc' = acc
         /\ e.kind \in {"block_start", "part"} => toSend' = <<>>
         /\ e.kind = "block_stop" =>
              /\ toSend' = IF acc[0].id # 0 THEN <<CallChunk(acc[0])>> ELSE <<>>
              /\ acc' = [acc EXCEPT ![0] = NoCall]
         /\ e.kind = "finish" /\ (TakeAnthropic(e) \/ TakeGemini(e) \/ TakeOllama(e)) =>
              /\ \/ toSend' = <<Chunk("text", 0, NoCall, e.report)>>
                 \/ toSend' = <<UsageChunk(e.report), Plain("done")>>
                 \/ toSend' = <<Plain("done")>>
              /\ acc' = acc
         /\ e.kind = "end" => toSend' = <<Plain("done")>> /\ acc' = acc
         /\ e.kind = "error" => (toSend' = <<>> \/ toSend' = <<Plain("error")>>) /\ acc' = acc
<1>1. /\ <<TextChunk>> \o Reported(e.report) \in {<<TextChunk>>, <<TextChunk, UsageChunk(e.report)>>}
      /\ <<CallChunk(WholeCall(e))>> \o Reported(e.report)
           \in {<<CallChunk(WholeCall(e))>>, <<CallChunk(WholeCall(e)), UsageChunk(e.report)>>}
      /\ Reported(e.report) \o <<Plain("done")>>
           \in {<<Plain("done")>>, <<UsageChunk(e.report), Plain("done")>>}
  BY ConcatShort DEF Reported
<1>6. e.kind = "finish" /\ (TakeAnthropic(e) \/ TakeGemini(e) \/ TakeOllama(e)) =>
        /\ \/ toSend' = <<Chunk("text", 0, NoCall, e.report)>>
           \/ toSend' = <<UsageChunk(e.report), Plain("done")>>
           \/ toSend' = <<Plain("done")>>
        /\ acc' = acc
  BY <1>1 DEF TakeAnthropic, TakeGemini, TakeOllama
<1>2. CASE TakeAnthropic(e)
  BY <1>2, <1>6 DEF TakeAnthropic
<1>3. CASE TakeChat(e)
  BY <1>3, <1>6 DEF TakeChat
<1>4. CASE TakeGemini(e)
  BY <1>1, <1>4, <1>6 DEF TakeGemini
<1>5. CASE TakeOllama(e)
  BY <1>5, <1>6 DEF TakeOllama
<1> QED BY <1>2, <1>3, <1>4, <1>5

TextEvents == {e \in GoodEvents : e.kind = "text"}
Pieces == {h \in GoodChunks : h.size = 1}

\* Every piece of text the provider has said is in one place.
TextSum ==
  Count(events, TextEvents) + Count(toSend, Pieces) + Count(chunks, Pieces) + got.text = said.text

LEMMA SendsText ==
  ASSUME Typed, toSend = <<>>, NEW e \in GoodEvents,
         TakeAnthropic(e) \/ TakeChat(e) \/ TakeGemini(e) \/ TakeOllama(e)
  PROVE  Count(toSend', Pieces) = IF e.kind = "text" THEN 1 ELSE 0
<1>a. PICK q : q = toSend'
  OBVIOUS
<1>1. e.report \in [in : Nat, out : Nat] /\ acc[0] \in CallType
  BY Constants DEF GoodEvents, EventType, Tokens, Typed
<1>2. /\ TextChunk \in Pieces
      /\ Plain("done") \in GoodChunks \ Pieces /\ Plain("error") \in GoodChunks \ Pieces
      /\ UsageChunk(e.report) \in GoodChunks \ Pieces
      /\ Chunk("text", 0, NoCall, e.report) \in GoodChunks \ Pieces
      /\ CallChunk(acc[0]) \in GoodChunks \ Pieces
      /\ TextChunk \in GoodChunks
  BY <1>1, ChunksAre DEF Pieces
<1>0. \A x, y \in GoodChunks :
        /\ Count(<<x>>, Pieces) = IF x \in Pieces THEN 1 ELSE 0
        /\ Count(<<x, y>>, Pieces) = (IF x \in Pieces THEN 1 ELSE 0) + (IF y \in Pieces THEN 1 ELSE 0)
  BY CountShort
<1>b. \A x \in GoodChunks, y \in GoodChunks \ Pieces :
        /\ q = <<x>> => Count(q, Pieces) = IF x \in Pieces THEN 1 ELSE 0
        /\ q = <<x, y>> => Count(q, Pieces) = IF x \in Pieces THEN 1 ELSE 0
  <2> SUFFICES ASSUME NEW x \in GoodChunks, NEW y \in GoodChunks \ Pieces
               PROVE  /\ q = <<x>> => Count(q, Pieces) = IF x \in Pieces THEN 1 ELSE 0
                      /\ q = <<x, y>> => Count(q, Pieces) = IF x \in Pieces THEN 1 ELSE 0
    OBVIOUS
  <2>1. /\ Count(<<x>>, Pieces) = IF x \in Pieces THEN 1 ELSE 0
        /\ Count(<<x, y>>, Pieces) = IF x \in Pieces THEN 1 ELSE 0
    BY <1>0
  <2> QED BY <2>1
<1>3. CASE e.kind = "text"
  <2>1. CASE q = <<TextChunk>>
    BY <1>a, <1>b, <1>2, <1>3, <2>1
  <2>2. CASE q = <<TextChunk, UsageChunk(e.report)>>
    BY <1>a, <1>b, <1>2, <1>3, <2>2
  <2> QED BY <1>3, <2>1, <2>2, <1>a, Sends
<1>4. CASE e.kind = "call"
  <2>1. CallChunk(WholeCall(e)) \in GoodChunks \ Pieces
    BY <1>4, WholeCallIs, ChunksAre DEF Pieces
  <2>2. CASE q = <<CallChunk(WholeCall(e))>>
    BY <1>a, <1>b, <1>4, <2>1, <2>2
  <2>3. CASE q = <<CallChunk(WholeCall(e)), UsageChunk(e.report)>>
    BY <1>a, <1>b, <1>2, <1>4, <2>1, <2>3
  <2> QED BY <1>4, <2>2, <2>3, <1>a, Sends
<1>5. CASE e.kind \in {"start", "usage", "block_start", "part", "end", "error"}
  BY <1>a, <1>b, <1>2, <1>5, Sends, CountEmpty
<1>6. CASE e.kind = "block_stop"
  BY <1>a, <1>b, <1>2, <1>6, Sends, CountEmpty
<1>7. CASE e.kind = "finish" /\ (TakeAnthropic(e) \/ TakeGemini(e) \/ TakeOllama(e))
  <2>1. CASE q = <<Chunk("text", 0, NoCall, e.report)>> \/ q = <<Plain("done")>>
    BY <1>a, <1>b, <1>2, <1>7, <2>1
  <2>2. CASE q = <<UsageChunk(e.report), Plain("done")>>
    BY <1>a, <1>b, <1>2, <1>7, <2>2
  <2> QED BY <1>7, <2>1, <2>2, <1>a, Sends
<1>8. CASE e.kind = "finish" /\ TakeChat(e)
  <2>1. PICK order \in SetToSeqs({c \in Calls : acc[c] # NoCall}) :
          toSend' = Append([i \in 1..Len(order) |-> CallChunk(acc[order[i]])],
                           Chunk("text", 0, NoCall, e.report))
    BY <1>8 DEF TakeChat
  <2>2. PICK n \in Nat, s \in Seq(GoodChunks) :
          /\ n = Len(order) /\ s = [i \in 1..Len(order) |-> CallChunk(acc[order[i]])]
          /\ order \in [1..n -> {c \in Calls : acc[c] # NoCall}]
    BY <2>1, FinishedCalls
  <2>3. \A i \in 1..n : acc[order[i]] \in CallType
    BY <2>2, Constants DEF Typed
  <2>4. Len(s) = n /\ \A i \in 1..Len(s) : s[i] \notin Pieces
    BY <2>2, <2>3, ChunksAre DEF Pieces
  <2>5. Count(s, Pieces) = 0
    BY <2>4, CountZero
  <2>6. toSend' = Append(s, Chunk("text", 0, NoCall, e.report))
    BY <2>1, <2>2
  <2> QED BY <1>2, <1>8, <2>5, <2>6, CountAppend
<1>9. e.kind \in SaidEvents
  BY DEF GoodEvents, EventType, SaidEvents
<1> QED BY <1>3, <1>4, <1>5, <1>6, <1>7, <1>8, <1>9 DEF SaidEvents

\* The counts of the three queues, for any sets of events and chunks.
LEMMA CountsAre ==
  ASSUME Typed, NEW G
  PROVE  Count(events, G) \in Nat /\ Count(toSend, G) \in Nat /\ Count(chunks, G) \in Nat
BY CountFinite DEF Typed

LEMMA SayCounts ==
  ASSUME Typed, NEW e \in GoodEvents, events' = Append(events, e), NEW G
  PROVE  Count(events', G) = Count(events, G) + (IF e \in G THEN 1 ELSE 0)
<1>1. PICK s \in Seq(GoodEvents) : s = events
  BY DEF Typed
<1>2. Count(Append(s, e), G) = Count(s, G) + (IF e \in G THEN 1 ELSE 0)
  BY CountAppend
<1> QED BY <1>1, <1>2

LEMMA TakeCounts ==
  ASSUME Typed, TakeEvent, NEW G
  PROVE  Count(events, G) = Count(events', G) + (IF Head(events) \in G THEN 1 ELSE 0)
<1>1. PICK s \in Seq(GoodEvents) : s = events /\ s # <<>>
  BY DEF Typed, TakeEvent
<1>2. Count(s, G) = Count(Tail(s), G) + (IF Head(s) \in G THEN 1 ELSE 0)
  BY <1>1, CountTail
<1> QED BY <1>1, <1>2 DEF TakeEvent

LEMMA SendCounts ==
  ASSUME Typed, SendChunk, NEW G
  PROVE  Count(toSend', G) + Count(chunks', G) = Count(toSend, G) + Count(chunks, G)
<1>1. PICK s \in Seq(GoodChunks), t \in Seq(GoodChunks) : s = toSend /\ s # <<>> /\ t = chunks
  BY DEF Typed, SendChunk
<1>2. PICK h \in GoodChunks : h = Head(s)
  BY <1>1, HeadTail
<1>3. Count(s, G) = Count(Tail(s), G) + (IF h \in G THEN 1 ELSE 0)
  BY <1>1, <1>2, CountTail
<1>4. Count(Append(t, h), G) = Count(t, G) + (IF h \in G THEN 1 ELSE 0)
  BY CountAppend
<1>5. toSend' = Tail(s) /\ chunks' = Append(t, h)
  BY <1>1, <1>2 DEF SendChunk
<1>6. Count(Tail(s), G) \in Nat /\ Count(t, G) \in Nat /\ Count(s, G) \in Nat
  <2>1. Tail(s) \in Seq(GoodChunks)
    BY <1>1, HeadTail
  <2> QED BY <2>1, CountFinite
<1> QED BY <1>1, <1>3, <1>4, <1>5, <1>6

LEMMA ReceiveCounts ==
  ASSUME Typed, Receive, NEW G
  PROVE  Count(chunks, G) = Count(chunks', G) + (IF Head(chunks) \in G THEN 1 ELSE 0)
<1>1. PICK s \in Seq(GoodChunks) : s = chunks /\ s # <<>>
  BY DEF Typed, Receive
<1>2. Count(s, G) = Count(Tail(s), G) + (IF Head(s) \in G THEN 1 ELSE 0)
  BY <1>1, CountTail
<1> QED BY <1>1, <1>2 DEF Receive

\* The steps that only append an error to the events, or nothing.
Interrupts == SayError \/ BodyEnds \/ BodyBreaks \/ Cancel \/ StopParsing
ErrorEvent == Event("error", 0, 0, Zero)

LEMMA Interrupted ==
  ASSUME Typed, Interrupts
  PROVE  /\ UNCHANGED <<failoverVars, stage, said, workerVars, chunks, readVars, reader>>
         /\ events' = events \/ events' = Append(events, ErrorEvent)
         /\ ErrorEvent \in GoodEvents /\ ErrorEvent.kind = "error" /\ ErrorEvent.report = Zero
<1>1. ErrorEvent \in GoodEvents /\ ErrorEvent.kind = "error" /\ ErrorEvent.report = Zero
  BY ZeroIs, Constants, EventIs DEF SaidEvents, ErrorEvent, Event
<1> QED BY <1>1 DEF Interrupts, SayError, BodyEnds, BodyBreaks, Cancel, StopParsing, ReadFails,
              ErrorEvent, askVars, serverVars

LEMMA TextSumStep ==
  ASSUME Typed, TextSum, [Next]_vars
  PROVE  TextSum'
<1>1. PICK ne \in Nat, ns \in Nat, nc \in Nat, gt \in Nat :
        /\ ne = Count(events, TextEvents) /\ ns = Count(toSend, Pieces)
        /\ nc = Count(chunks, Pieces) /\ gt = got.text /\ ne + ns + nc + gt = said.text
  BY CountsAre DEF TextSum, Typed, GotType
<1>2. PICK ne1 \in Nat, ns1 \in Nat, nc1 \in Nat, gt1 \in Nat :
        /\ ne1 = Count(events', TextEvents) /\ ns1 = Count(toSend', Pieces)
        /\ nc1 = Count(chunks', Pieces) /\ gt1 = got'.text
  <2>1. Typed'
    BY TypedStep
  <2>2. Count(events', TextEvents) \in Nat /\ Count(toSend', Pieces) \in Nat
        /\ Count(chunks', Pieces) \in Nat
    BY <2>1, CountFinite DEF Typed
  <2> QED BY <2>1, <2>2 DEF Typed, GotType
<1>3. TextSum' <=> ne1 + ns1 + nc1 + gt1 = said'.text
  BY <1>2 DEF TextSum
<1>4. CASE UNCHANGED <<said, events, toSend, chunks, got>>
  BY <1>1, <1>2, <1>3, <1>4
<1>5. CASE Failover \/ CloseChunks \/ EndReading \/ UNCHANGED vars
  BY <1>4, <1>5 DEF vars, Failover, TryRouted, TryNext, GiveUp, Opens, Refuses, CloseChunks,
                    EndReading, serverVars, workerVars, readVars
<1>6. ASSUME NEW e \in GoodEvents, events' = Append(events, e),
             UNCHANGED <<workerVars, chunks, readVars>>,
             said'.text = said.text + (IF e.kind = "text" THEN 1 ELSE 0)
      PROVE  TextSum'
  <2>1. ne1 = ne + (IF e \in TextEvents THEN 1 ELSE 0)
    BY <1>1, <1>2, <1>6, SayCounts
  <2>2. ns1 = ns /\ nc1 = nc /\ gt1 = gt
    BY <1>1, <1>2, <1>6 DEF workerVars, readVars
  <2>3. PICK d \in {0, 1} : d = IF e.kind = "text" THEN 1 ELSE 0
    OBVIOUS
  <2>4. ne1 = ne + d
    BY <1>6, <2>1, <2>3 DEF TextEvents
  <2>5. said'.text = said.text + d
    BY <1>6, <2>3
  <2> QED BY <1>1, <1>3, <2>2, <2>4, <2>5
<1>7. CASE Interrupts
  <2>1. CASE events' = events
    BY <1>4, <1>7, <2>1, Interrupted DEF workerVars, readVars
  <2>2. CASE events' = Append(events, ErrorEvent)
    <3>1. said'.text = said.text + (IF ErrorEvent.kind = "text" THEN 1 ELSE 0)
      BY <1>7, Interrupted DEF Typed, SaidType
    <3> QED BY <1>6, <1>7, <2>2, <3>1, Interrupted
  <2> QED BY <1>7, <2>1, <2>2, Interrupted
<1>8. CASE TakeEvent
  <2>1. PICK e \in GoodEvents : e = Head(events)
    BY <1>8, HeadTail DEF TakeEvent, Typed
  <2>2. ne = ne1 + (IF e \in TextEvents THEN 1 ELSE 0)
    BY <1>1, <1>2, <1>8, <2>1, TakeCounts
  <2>3. ns = 0 /\ ns1 = IF e.kind = "text" THEN 1 ELSE 0
    BY <1>1, <1>2, <1>8, <2>1, SendsText, CountEmpty DEF TakeEvent
  <2>4. nc1 = nc /\ gt1 = gt /\ said' = said
    BY <1>1, <1>2, <1>8 DEF TakeEvent, readVars, serverVars
  <2>5. e \in TextEvents <=> e.kind = "text"
    BY <2>1 DEF TextEvents
  <2> QED BY <1>1, <1>3, <2>2, <2>3, <2>4, <2>5
<1>9. CASE SendChunk
  <2>1. ns1 + nc1 = ns + nc
    BY <1>1, <1>2, <1>9, SendCounts
  <2>2. ne1 = ne /\ gt1 = gt /\ said' = said
    BY <1>1, <1>2, <1>9 DEF SendChunk, readVars, serverVars
  <2> QED BY <1>1, <1>3, <2>1, <2>2
<1>10. CASE Receive
  <2>1. PICK h \in GoodChunks : h = Head(chunks)
    BY <1>10, HeadTail DEF Receive, Typed
  <2>2. nc = nc1 + (IF h \in Pieces THEN 1 ELSE 0)
    BY <1>1, <1>2, <1>10, <2>1, ReceiveCounts
  <2>3. gt1 = gt + (IF h \in Pieces THEN 1 ELSE 0)
    <3>1. h.size \in {0, 1} /\ (h.size = 1 => h.type = "text")
      BY <2>1 DEF GoodChunks, ChunkType
    <3>2. CASE h.type = "error"
      BY <1>1, <1>2, <1>10, <2>1, <3>1, <3>2 DEF Receive, Pieces
    <3>3. CASE h.type # "error"
      <4>1. gt1 = gt + h.size
        BY <1>1, <1>2, <1>10, <2>1, <3>3 DEF Receive
      <4> QED BY <2>1, <3>1, <4>1 DEF Pieces
    <3> QED BY <3>2, <3>3
  <2>4. ne1 = ne /\ ns1 = ns /\ said' = said
    BY <1>1, <1>2, <1>10 DEF Receive, workerVars, serverVars
  <2> QED BY <1>1, <1>3, <2>2, <2>3, <2>4
<1>11. CASE Respond
  <2>1. PICK e \in GoodEvents : Spoke(e)
    BY <1>11, Speaks
  <2>2. events' = Append(events, e) /\ UNCHANGED <<workerVars, chunks, readVars>>
    BY <2>1 DEF Spoke, Say
  <2>3. said'.text = said.text + (IF e.kind = "text" THEN 1 ELSE 0)
    <3>1. said \in SaidType
      BY DEF Typed
    <3>2. CASE e.kind = "text"
      BY <2>1, <3>1, <3>2 DEF Spoke, SayText, SaidType
    <3>3. CASE e.kind \in {"start", "usage", "end"}
      BY <2>1, <3>1, <3>3 DEF Spoke, SayStart, SayUsage, SayEnd, SaidType
    <3>5. CASE e.kind \in {"block_start", "block_stop"}
      BY <2>1, <3>1, <3>5 DEF Spoke, SayBlock, SayBlockStop, SaidType
    <3>6. CASE e.kind = "finish"
      <4>1. PICK b \in BOOLEAN : said' = [said EXCEPT !.reported = b]
        BY <2>1, <3>6 DEF Spoke, SayFinish
      <4> QED BY <3>1, <3>6, <4>1 DEF SaidType
    <3>4. CASE e.kind \in {"call", "part"}
      BY <2>1, <3>1, <3>4 DEF Spoke, SayCall, SayPart, SaidType
    <3> QED BY <2>1, <3>2, <3>3, <3>4, <3>5, <3>6 DEF Spoke
  <2> QED BY <1>6, <2>2, <2>3
<1> QED BY <1>5, <1>7, <1>8, <1>9, <1>10, <1>11 DEF Next, Interrupts, Work, Read

\* Every variable keeps its type, for any constants; that a stage never has more text
\* than the provider has sent rests on the count of the pieces in the three queues.
THEOREM LLMTypeCorrect == Spec => []TypeOK
<1>1. Init => Choosing /\ Typed /\ TextSum
  <2> SUFFICES ASSUME Init PROVE TextSum
    BY ChoosingInit, TypedInit
  <2> QED BY CountEmpty DEF Init, TextSum
<1>2. Choosing /\ Typed /\ TextSum /\ [Next]_vars => Choosing' /\ Typed' /\ TextSum'
  BY ChoosingStep, TypedStep, TextSumStep
<1>3. Choosing /\ Typed /\ TextSum => TypeOK
  <2> SUFFICES ASSUME Choosing, Typed, TextSum PROVE TypeOK
    OBVIOUS
  <2>1. got.text \in 0..MaxText
    <3>1. PICK ne \in Nat, ns \in Nat, nc \in Nat :
            ne = Count(events, TextEvents) /\ ns = Count(toSend, Pieces) /\ nc = Count(chunks, Pieces)
      BY CountsAre
    <3>2. got.text \in Nat /\ said.text \in 0..MaxText /\ ne + ns + nc + got.text = said.text
      BY <3>1 DEF TextSum, Typed, SaidType, GotType
    <3> QED BY <3>2, Constants
  <2>2. got \in [text : 0..MaxText, calls : Seq(CallType), in : Tokens, out : Tokens]
    BY <2>1 DEF Typed, GotType
  <2>3. events \in Seq(EventType) /\ toSend \in Seq(ChunkType) /\ chunks \in Seq(ChunkType)
    BY ElementOfSeq, IsASeq DEF Typed, GoodEvents, GoodChunks
  <2> QED BY <2>2, <2>3 DEF TypeOK, Typed, Choosing, SaidType
<1> QED BY <1>1, <1>2, <1>3, PTL DEF Spec

-----------------------------------------------------------------------------
(* Before and after a provider's stream is open *)

\* Nothing has happened.
Unopened ==
  /\ worker = "idle" /\ events = <<>> /\ toSend = <<>> /\ chunks = <<>> /\ feed = "live"
  /\ ~faulty /\ stage = "none" /\ consumer = "reading"
  /\ said = [text |-> 0, parts |-> [c \in Calls |-> 0], block |-> 0, reported |-> FALSE]
  /\ acc = [i \in 0..MaxCalls |-> NoCall]
  /\ got = [text |-> 0, calls |-> <<>>, in |-> Before.in, out |-> Before.out]

\* The provider has accepted the request, and nothing else has happened.
Fresh ==
  /\ worker = "reading" /\ events = <<>> /\ toSend = <<>> /\ chunks = <<>> /\ feed = "live"
  /\ ~faulty /\ stage = (IF Format = "anthropic" THEN "start" ELSE "body") /\ consumer = "reading"
  /\ said = [text |-> 0, parts |-> [c \in Calls |-> 0], block |-> 0, reported |-> FALSE]
  /\ acc = [i \in 0..MaxCalls |-> NoCall]
  /\ got = [text |-> 0, calls |-> <<>>, in |-> Before.in, out |-> Before.out]

Opened == Choosing /\ Typed /\ (phase # "open" => Unopened)

LEMMA FormatsAre == ASSUME Opened, phase = "open" PROVE Format \in Formats
<1>1. using \in 1..Len(Providers)
  BY Constants DEF Opened, Choosing
<1> QED BY <1>1, FormatIs DEF Format

\* A step before the stream is open, and the one that opens it.
LEMMA Opening ==
  ASSUME Opened, phase # "open", [Next]_vars
  PROVE  /\ phase' # "open" => Unopened'
         /\ phase' = "open" => Fresh'
<1>1. CASE Failover
  <2>1. /\ UNCHANGED <<said, faulty, acc, toSend, events, chunks, feed, got, consumer, reader>>
        /\ \/ UNCHANGED <<stage, worker>> /\ phase' # "open"
           \/ /\ phase' = "open" /\ worker' = "reading"
              /\ stage' = IF FormatOf[Providers[using']] = "anthropic" THEN "start" ELSE "body"
    BY <1>1 DEF Failover, TryRouted, TryNext, GiveUp, Opens, Refuses, serverVars, workerVars, readVars,
                failoverVars, askVars, Opened
  <2>2. Before' = Before
    BY <2>1 DEF Before
  <2>3. CASE phase' # "open"
    BY <2>1, <2>2, <2>3 DEF Opened, Unopened
  <2>4. CASE phase' = "open"
    BY <2>1, <2>2, <2>4 DEF Opened, Unopened, Fresh, Format
  <2> QED BY <2>3, <2>4
<1>2. CASE Cancel \/ UNCHANGED vars
  <2>1. UNCHANGED <<said, faulty, acc, toSend, events, chunks, feed, got, consumer, reader, stage,
                    worker, phase>>
    BY <1>2 DEF Cancel, vars, serverVars, workerVars, readVars, failoverVars, askVars
  <2> QED BY <2>1 DEF Opened, Unopened, Before
<1>3. ~(SayError \/ BodyEnds \/ BodyBreaks \/ StopParsing \/ Respond)
  BY Speaks DEF SayError, BodyEnds, BodyBreaks, StopParsing, Spoke, Say, Opened
<1>4. ~(Work \/ Read)
  BY DEF Opened, Unopened, Work, TakeEvent, SendChunk, CloseChunks, Read, Receive, EndReading
<1> QED BY <1>1, <1>2, <1>3, <1>4 DEF Next

\* A step of an open stream.
LEMMA Streaming ==
  ASSUME phase = "open", [Next]_vars
  PROVE  /\ phase' = "open" /\ using' = using /\ reader' = reader
         /\ Format' = Format /\ SSE' = SSE /\ Before' = Before
         /\ Respond \/ Interrupts \/ TakeEvent \/ SendChunk \/ CloseChunks \/ Receive \/ EndReading
            \/ UNCHANGED vars
<1>1. ~Failover
  BY DEF Failover, TryRouted, TryNext, GiveUp
<1>2. Respond \/ Interrupts \/ TakeEvent \/ SendChunk \/ CloseChunks \/ Receive \/ EndReading
      \/ UNCHANGED vars
  BY <1>1 DEF Next, Interrupts, Work, Read
<1>3. phase' = "open" /\ using' = using /\ reader' = reader
  BY <1>2 DEF vars, askVars, failoverVars, Respond, SayStart, SayText, SayFinish, SayUsage, SayEnd,
         SayCall, SayBlock, SayPart, SayBlockStop, Say, Interrupts, SayError, BodyEnds, BodyBreaks,
         Cancel, StopParsing, TakeEvent, SendChunk, CloseChunks, Receive, EndReading
<1> QED BY <1>2, <1>3 DEF Format, SSE, Before

LEMMA OpenedInit == Init => Opened
BY ChoosingInit, TypedInit DEF Opened, Init, Unopened

LEMMA OpenedStep == Opened /\ [Next]_vars => Opened'
<1> SUFFICES ASSUME Opened, [Next]_vars PROVE Opened'
  OBVIOUS
<1>1. Choosing' /\ Typed'
  BY ChoosingStep, TypedStep DEF Opened
<1> QED BY <1>1, Opening, Streaming DEF Opened

\* An event at the end of the queue.
LEMMA SaidAt ==
  ASSUME Typed, NEW e \in GoodEvents, events' = Append(events, e)
  PROVE  /\ Len(events) \in Nat /\ Len(events') = Len(events) + 1
         /\ \A i \in 1..Len(events) : events'[i] = events[i] /\ events[i] \in GoodEvents
         /\ events'[Len(events) + 1] = e
<1>1. PICK s \in Seq(GoodEvents) : s = events
  BY DEF Typed
<1>2. /\ Len(s) \in Nat /\ Len(Append(s, e)) = Len(s) + 1
      /\ \A i \in 1..Len(s) : Append(s, e)[i] = s[i] /\ s[i] \in GoodEvents
      /\ Append(s, e)[Len(s) + 1] = e
  BY AppendProperties, LenProperties, ElementOfSeq
<1> QED BY <1>1, <1>2

\* An event taken from the head of the queue.
LEMMA TakenAt ==
  ASSUME Typed, TakeEvent
  PROVE  /\ Len(events) \in Nat /\ Len(events) > 0 /\ Len(events') = Len(events) - 1
         /\ \A i \in 1..(Len(events) - 1) : events'[i] = events[i + 1]
         /\ Head(events) = events[1] /\ events[1] \in GoodEvents
<1>1. PICK s \in Seq(GoodEvents) : s = events /\ s # <<>>
  BY DEF Typed, TakeEvent
<1>2. /\ Head(s) \in GoodEvents /\ Len(s) \in Nat /\ Len(s) > 0
      /\ Len(Tail(s)) = Len(s) - 1 /\ Head(s) = s[1]
      /\ \A i \in 1..(Len(s) - 1) : Tail(s)[i] = s[i + 1]
  BY <1>1, HeadTail
<1> QED BY <1>1, <1>2 DEF TakeEvent

-----------------------------------------------------------------------------
(* A response that breaks off *)

ErrorEvents == {e \in GoodEvents : e.kind = "error"}
ErrorChunks == {h \in GoodChunks : h.type = "error"}

\* The goroutine has sent all it had before it closes the channel, and the stage ends
\* after it has read all of it.
Closing ==
  /\ worker = "closed" => toSend = <<>>
  /\ consumer = "ended" => worker = "closed" /\ chunks = <<>>

\* Formats that report a read error: the parser's error is the last event, the
\* goroutine waits for it, and from then on an error is on its way to the stage.
Breaking ==
  /\ Count(events, ErrorEvents) > 0 => feed # "live"
  /\ Format \in {"anthropic", "gemini"} /\ feed = "live" => worker = "reading"
  /\ faulty /\ Format \in {"anthropic", "gemini"} =>
       \/ worker = "reading" /\ Count(events, ErrorEvents) > 0
       \/ Count(toSend, ErrorChunks) + Count(chunks, ErrorChunks) > 0
       \/ consumer = "error"

LEMMA ClosingStep ==
  ASSUME Opened, Closing, [Next]_vars
  PROVE  Closing'
<1>1. CASE phase # "open"
  BY <1>1, Opening DEF Closing, Unopened, Fresh
<1>2. CASE Respond \/ Interrupts
  BY <1>2, Speaks, Interrupted DEF Opened, Closing, Spoke, Say, workerVars, readVars
<1>3. CASE TakeEvent \/ SendChunk
  BY <1>3 DEF Closing, TakeEvent, SendChunk, readVars
<1>4. CASE CloseChunks
  BY <1>4 DEF Closing, CloseChunks, readVars
<1>5. CASE Receive \/ EndReading
  BY <1>5 DEF Closing, Receive, EndReading, workerVars
<1>6. CASE UNCHANGED vars
  BY <1>6 DEF Closing, vars, workerVars, readVars
<1> QED BY <1>1, <1>2, <1>3, <1>4, <1>5, <1>6, Streaming

LEMMA BreakingStep ==
  ASSUME Opened, phase = "open", Closing, Breaking, [Next]_vars
  PROVE  Breaking'
<1>0. Typed /\ Typed'
  BY OpenedStep DEF Opened
<1>1. PICK ne \in Nat, ns \in Nat, nc \in Nat :
        /\ ne = Count(events, ErrorEvents) /\ ns = Count(toSend, ErrorChunks)
        /\ nc = Count(chunks, ErrorChunks)
  BY <1>0, CountsAre
<1>2. PICK ne1 \in Nat, ns1 \in Nat, nc1 \in Nat :
        /\ ne1 = Count(events', ErrorEvents) /\ ns1 = Count(toSend', ErrorChunks)
        /\ nc1 = Count(chunks', ErrorChunks)
  <2>1. Count(events', ErrorEvents) \in Nat /\ Count(toSend', ErrorChunks) \in Nat
        /\ Count(chunks', ErrorChunks) \in Nat
    BY <1>0, CountFinite DEF Typed
  <2> QED BY <2>1
<1>3. Format' = Format /\ SSE' = SSE
  BY Streaming
<1>4. CASE Respond
  <2>1. PICK e \in GoodEvents : Spoke(e)
    BY <1>0, <1>4, Speaks
  <2>2. e \notin ErrorEvents
    BY <2>1 DEF Spoke, ErrorEvents
  <2>3. ne1 = ne /\ ns1 = ns /\ nc1 = nc
    BY <1>0, <1>1, <1>2, <2>1, <2>2, SayCounts DEF Spoke, Say, workerVars
  <2>4. UNCHANGED <<feed, worker, faulty, consumer>>
    BY <2>1 DEF Spoke, Say, workerVars, readVars
  <2> QED BY <1>1, <1>2, <1>3, <2>3, <2>4 DEF Breaking
<1>5. CASE Interrupts
  <2>1. UNCHANGED <<toSend, worker, chunks, consumer>>
    BY <1>0, <1>5, Interrupted DEF workerVars, readVars
  <2>2. ns1 = ns /\ nc1 = nc
    BY <1>1, <1>2, <2>1
  <2>3. CASE events' = events
    <3>1. /\ ne1 = ne /\ (feed' # "live" \/ feed' = feed)
          /\ (feed' = "live" => feed = "live")
          /\ faulty' /\ Format \in {"anthropic", "gemini"} => faulty
      <4>1. events # Append(events, ErrorEvent)
        BY <1>0, Interrupted, <1>5, AppendProperties, LenProperties DEF Typed
      <4> QED BY <1>1, <1>2, <1>5, <2>3, <4>1
              DEF Interrupts, SayError, BodyEnds, BodyBreaks, Cancel, StopParsing, ReadFails, SSE,
                  serverVars, ErrorEvent
    <3> QED BY <1>1, <1>2, <1>3, <2>1, <2>2, <2>3, <3>1 DEF Breaking
  <2>4. CASE events' = Append(events, ErrorEvent)
    <3>1. ne1 = ne + 1
      <4>1. ErrorEvent \in ErrorEvents /\ ErrorEvent \in GoodEvents
        BY <1>0, <1>5, Interrupted DEF ErrorEvents
      <4> QED BY <1>0, <1>1, <1>2, <2>4, <4>1, SayCounts
    <3>2. feed = "live" /\ feed' # "live"
      <4>1. events # Append(events, ErrorEvent)
        BY <1>0, Interrupted, <1>5, AppendProperties, LenProperties DEF Typed
      <4> QED BY <1>5, <2>4, <4>1 DEF Interrupts, SayError, BodyEnds, BodyBreaks, Cancel, StopParsing,
                ReadFails
    <3> QED BY <1>1, <1>2, <1>3, <2>1, <2>2, <3>1, <3>2 DEF Breaking
  <2> QED BY <1>0, <1>5, <2>3, <2>4, Interrupted
<1>6. CASE TakeEvent
  <2>1. PICK e \in GoodEvents : e = Head(events)
    BY <1>0, <1>6, HeadTail DEF TakeEvent, Typed
  <2>2. ne = ne1 + (IF e \in ErrorEvents THEN 1 ELSE 0)
    BY <1>0, <1>1, <1>2, <1>6, <2>1, TakeCounts
  <2>3. UNCHANGED <<feed, faulty, chunks, consumer>> /\ nc1 = nc /\ ns = 0 /\ worker = "reading"
    BY <1>1, <1>2, <1>6, CountEmpty DEF TakeEvent, serverVars, readVars
  <2>4. Format = "gemini" /\ e.kind # "error" => worker' = "reading"
    BY <1>6, <2>1 DEF TakeEvent, Returns
  <2>5. Format = "anthropic" => worker' = "reading"
    BY <1>6, <2>1 DEF TakeEvent, Returns
  <2>6. CASE e.kind = "error"
    <3>1. ne = ne1 + 1 /\ ne > 0
      BY <2>1, <2>2, <2>6 DEF ErrorEvents
    <3>2. Format \in {"anthropic", "gemini"} => ns1 = 1
      <4>1. Format \in {"anthropic", "gemini"} => toSend' = <<Plain("error")>>
        BY <1>6, <2>1, <2>6 DEF TakeEvent, TakeAnthropic, TakeGemini
      <4>2. Plain("error") \in ErrorChunks
        BY ChunksAre DEF ErrorChunks, Plain, Chunk
      <4>3. Count(<<Plain("error")>>, ErrorChunks) = 1
        BY <4>2, CountSingle
      <4> QED BY <1>2, <4>1, <4>3
    <3> QED BY <1>1, <1>2, <1>3, <2>3, <3>1, <3>2 DEF Breaking
  <2>7. CASE e.kind # "error"
    <3>1. ne = ne1
      BY <2>1, <2>2, <2>7 DEF ErrorEvents
    <3>2. Format \in {"anthropic", "gemini"} => worker' = "reading"
      BY <2>4, <2>5, <2>7
    <3> QED BY <1>1, <1>2, <1>3, <2>3, <3>1, <3>2 DEF Breaking
  <2> QED BY <2>6, <2>7
<1>7. CASE SendChunk
  <2>1. ns1 + nc1 = ns + nc
    BY <1>0, <1>1, <1>2, <1>7, SendCounts
  <2>2. ne1 = ne /\ UNCHANGED <<feed, faulty, worker, consumer>>
    BY <1>1, <1>2, <1>7 DEF SendChunk, readVars, serverVars
  <2> QED BY <1>1, <1>2, <1>3, <2>1, <2>2 DEF Breaking
<1>8. CASE CloseChunks
  <2>1. UNCHANGED <<feed, faulty, events, toSend, chunks, consumer>> /\ worker' = "closed"
    BY <1>8 DEF CloseChunks, serverVars, readVars
  <2>2. ne1 = ne /\ ns1 = ns /\ nc1 = nc
    BY <1>1, <1>2, <2>1
  <2>3. worker = "reading" /\ Format \in {"anthropic", "gemini"} => ne = 0 /\ feed # "live"
    BY <1>1, <1>8, CountEmpty DEF CloseChunks, SSE
  <2>4. worker \in {"reading", "leaving"}
    BY <1>8 DEF CloseChunks
  <2> QED BY <1>1, <1>2, <1>3, <2>1, <2>2, <2>3, <2>4 DEF Breaking
<1>9. CASE Receive
  <2>1. PICK h \in GoodChunks : h = Head(chunks)
    BY <1>0, <1>9, HeadTail DEF Receive, Typed
  <2>2. nc = nc1 + (IF h \in ErrorChunks THEN 1 ELSE 0)
    BY <1>0, <1>1, <1>2, <1>9, <2>1, ReceiveCounts
  <2>3. ne1 = ne /\ ns1 = ns /\ UNCHANGED <<feed, faulty, worker>> /\ consumer = "reading"
    BY <1>1, <1>2, <1>9 DEF Receive, workerVars, serverVars
  <2>4. h \in ErrorChunks => consumer' = "error"
    BY <1>9, <2>1 DEF Receive, ErrorChunks
  <2> QED BY <1>1, <1>2, <1>3, <2>2, <2>3, <2>4 DEF Breaking
<1>10. CASE EndReading
  <2>1. UNCHANGED <<feed, faulty, events, worker, toSend, chunks>> /\ consumer = "reading"
    BY <1>10 DEF EndReading, workerVars, serverVars
  <2> QED BY <1>3, <2>1 DEF Breaking
<1>11. CASE UNCHANGED vars
  BY <1>3, <1>11 DEF Breaking, vars, workerVars, serverVars, readVars
<1> QED BY <1>4, <1>5, <1>6, <1>7, <1>8, <1>9, <1>10, <1>11, Streaming

\* A response that broke off never ends as a whole one in the formats that report a read
\* error: from the break to the end of the turn the error is in exactly one of the
\* places between the parser and the stage (SSEParser.Parse, StreamAnthropic,
\* streamGemini).
THEOREM BreakIsReportedHolds == Spec => []BreakIsReported
<1> DEFINE Inv == Opened /\ Closing /\ (phase = "open" => Breaking)
<1>1. Init => Inv
  <2> SUFFICES ASSUME Init PROVE Closing /\ phase # "open"
    BY OpenedInit
  <2> QED BY DEF Init, Closing
<1>2. Inv /\ [Next]_vars => Inv'
  <2> SUFFICES ASSUME Inv, [Next]_vars PROVE Inv'
    OBVIOUS
  <2>1. CASE phase # "open"
    <3>1. Fresh' => Breaking'
      BY CountEmpty DEF Fresh, Breaking
    <3> QED BY <2>1, <3>1, Opening, OpenedStep, ClosingStep
  <2> QED BY <2>1, BreakingStep, OpenedStep, ClosingStep
<1>3. Inv => BreakIsReported
  <2> SUFFICES ASSUME Inv, faulty, Format \in {"anthropic", "gemini"}, consumer = "ended" PROVE FALSE
    BY DEF BreakIsReported
  <2>1. phase = "open"
    BY DEF Opened, Unopened
  <2>2. Count(toSend, ErrorChunks) = 0 /\ Count(chunks, ErrorChunks) = 0 /\ worker = "closed"
    BY CountEmpty DEF Closing
  <2> QED BY <2>1, <2>2 DEF Breaking
<1> QED BY <1>1, <1>2, <1>3, PTL DEF Spec

-----------------------------------------------------------------------------
(* The order of the events, and when the goroutine leaves *)

Late == {"trailer", "complete"}
Final == {"usage", "end", "error"}

\* The events of each format.
Kinds(f) ==
  CASE f = "anthropic" -> {"start", "text", "block_start", "part", "block_stop", "finish", "end", "error"}
    [] f = "chat" -> {"text", "part", "finish", "usage", "end", "error"}
    [] f = "gemini" -> {"text", "call", "finish", "error"}
    [] f = "ollama" -> {"text", "call", "finish"}

FinishTaken == stage \in Late /\ \A i \in 1..Len(events) : events[i].kind # "finish"

\* How far the provider has come, and what each event in the queue says of it.
Staged ==
  /\ worker # "idle"
  /\ stage \in {"start", "body", "trailer", "complete"}
  /\ stage = "start" => Format = "anthropic"
  /\ stage = "trailer" => Format \in {"anthropic", "chat"}
  /\ said.block # 0 => Format = "anthropic" /\ stage = "body"
  /\ stage \in Late => \A c \in Calls : said.parts[c] \in {0, Parts}
  /\ said.reported => stage \in Late

Placed ==
  \A i \in 1..Len(events) :
    /\ events[i].kind \in Kinds(Format)
    /\ events[i].kind = "finish" => stage \in Late
    /\ events[i].kind = "end" => stage = "complete"
    /\ events[i].kind = "error" => feed # "live" /\ (Format = "gemini" => cancelled \/ stage # "complete")

\* Nothing follows an error, only an error follows the end, and neither text nor calls
\* follow the finish, taken or not.
Sorted ==
  /\ \A i, j \in 1..Len(events) : i < j =>
       /\ events[i].kind # "error"
       /\ events[i].kind = "finish" => events[j].kind \in Final
       /\ events[i].kind = "end" => events[j].kind = "error"
  /\ FinishTaken => \A i \in 1..Len(events) : events[i].kind \in Final

Ordered == Staged /\ Placed /\ Sorted

LEMMA StagedSpeaks ==
  ASSUME Typed, Staged, Format \in Formats, Format' = Format, NEW e \in GoodEvents, Spoke(e)
  PROVE  /\ Staged'
         /\ stage # "complete" /\ feed = "live" /\ feed' = "live"
         /\ e.kind \in Kinds(Format)
         /\ stage \in Late => e.kind \in Final /\ stage' \in Late
         /\ e.kind = "finish" => stage' \in Late
         /\ e.kind = "end" => stage' = "complete"
         /\ e.kind # "error"
         /\ stage' \in Late /\ stage \notin Late => e.kind = "finish"
<1> USE DEF Late, Final
<1>1. said \in SaidType /\ Say(e) /\ worker' = worker /\ feed = "live" /\ feed' = "live"
  BY DEF Typed, Spoke, Say, workerVars
<1>2. CASE e.kind = "start" /\ SayStart
  BY <1>1, <1>2 DEF SayStart, Staged, Kinds, Formats
<1>3. CASE e.kind = "text" /\ SayText
  <2>1. said'.block = said.block /\ said'.parts = said.parts /\ said'.reported = said.reported
    BY <1>1, <1>3 DEF SayText, SaidType
  <2> QED BY <1>1, <1>3, <2>1 DEF SayText, Staged, Kinds, Formats
<1>4. CASE e.kind = "call" /\ SayCall(e.call)
  <2>1. said'.block = said.block /\ said'.reported = said.reported
    BY <1>1, <1>4 DEF SayCall, SaidType
  <2> QED BY <1>1, <1>4, <2>1 DEF SayCall, Staged, Kinds, Formats
<1>5. CASE e.kind = "block_start" /\ SayBlock(e.call)
  <2>1. said'.block = e.call /\ said'.parts = said.parts /\ said'.reported = said.reported
    BY <1>1, <1>5 DEF SayBlock, SaidType
  <2> QED BY <1>1, <1>5, <2>1 DEF SayBlock, Staged, Kinds, Formats
<1>6. CASE e.kind = "part" /\ SayPart(e.call)
  <2>1. said'.block = said.block /\ said'.reported = said.reported
    BY <1>1, <1>6 DEF SayPart, SaidType
  <2> QED BY <1>1, <1>6, <2>1 DEF SayPart, Staged, Kinds, Formats
<1>7. CASE e.kind = "block_stop" /\ SayBlockStop(e.call)
  <2>1. said'.block = 0 /\ said'.parts = said.parts /\ said'.reported = said.reported
    BY <1>1, <1>7 DEF SayBlockStop, SaidType
  <2>2. said.block # 0
    BY <1>7, Constants DEF SayBlockStop, GoodEvents
  <2> QED BY <1>1, <1>7, <2>1, <2>2 DEF SayBlockStop, Staged, Kinds, Formats
<1>8. CASE e.kind = "finish" /\ SayFinish
  <2>1. said'.block = said.block /\ said'.parts = said.parts
    BY <1>1, <1>8 DEF SayFinish, SaidType
  <2> QED BY <1>1, <1>8, <2>1 DEF SayFinish, Staged, Kinds, Formats
<1>9. CASE e.kind = "usage" /\ SayUsage
  <2>1. said'.block = said.block /\ said'.parts = said.parts
    BY <1>1, <1>9 DEF SayUsage, SaidType
  <2> QED BY <1>1, <1>9, <2>1 DEF SayUsage, Staged, Kinds, Formats
<1>10. CASE e.kind = "end" /\ SayEnd
  BY <1>1, <1>10 DEF SayEnd, Staged, Kinds, Formats
<1> QED BY <1>2, <1>3, <1>4, <1>5, <1>6, <1>7, <1>8, <1>9, <1>10 DEF Spoke

LEMMA OrderedSpeaks ==
  ASSUME Typed, Ordered, Format \in Formats, Format' = Format, NEW e \in GoodEvents, Spoke(e)
  PROVE  Ordered'
<1>1. /\ Staged'
      /\ stage # "complete" /\ feed = "live" /\ feed' = "live"
      /\ e.kind \in Kinds(Format)
      /\ stage \in Late => e.kind \in Final /\ stage' \in Late
      /\ e.kind = "finish" => stage' \in Late
      /\ e.kind = "end" => stage' = "complete"
      /\ e.kind # "error"
      /\ stage' \in Late /\ stage \notin Late => e.kind = "finish"
  BY StagedSpeaks DEF Ordered
<1>2. PICK n \in Nat :
        /\ n = Len(events) /\ Len(events') = n + 1
        /\ \A i \in 1..n : events'[i] = events[i] /\ events[i] \in GoodEvents
        /\ events'[n + 1] = e
  BY SaidAt DEF Spoke, Say
<1>3. \A i \in 1..n : events[i].kind # "error" /\ events[i].kind # "end"
  BY <1>1, <1>2 DEF Ordered, Placed
<1>4. \A i \in 1..(n + 1) : i \in 1..n \/ i = n + 1
  OBVIOUS
<1>5. Placed'
  <2> SUFFICES ASSUME NEW i \in 1..(n + 1)
               PROVE  /\ events'[i].kind \in Kinds(Format)
                      /\ events'[i].kind = "finish" => stage' \in Late
                      /\ events'[i].kind = "end" => stage' = "complete"
                      /\ events'[i].kind # "error"
    BY <1>2 DEF Placed
  <2>1. CASE i = n + 1
    BY <1>1, <1>2, <2>1
  <2>2. CASE i \in 1..n
    BY <1>1, <1>2, <1>3, <2>2 DEF Ordered, Placed
  <2> QED BY <1>4, <2>1, <2>2
<1>6. \A i \in 1..n : events[i].kind = "finish" => e.kind \in Final
  BY <1>1, <1>2 DEF Ordered, Placed
<1>7. Sorted'
  <2>1. ASSUME NEW i \in 1..(n + 1), NEW j \in 1..(n + 1), i < j
        PROVE  /\ events'[i].kind # "error"
               /\ events'[i].kind = "finish" => events'[j].kind \in Final
               /\ events'[i].kind = "end" => events'[j].kind = "error"
    <3>1. i \in 1..n
      BY <2>1
    <3>2. CASE j = n + 1
      BY <1>2, <1>3, <1>6, <3>1, <3>2
    <3>3. CASE j \in 1..n
      BY <1>2, <1>3, <2>1, <3>1, <3>3 DEF Ordered, Sorted
    <3> QED BY <1>4, <3>2, <3>3
  <2>2. ASSUME FinishTaken', NEW i \in 1..(n + 1) PROVE events'[i].kind \in Final
    <3>1. stage' \in Late /\ \A k \in 1..(n + 1) : events'[k].kind # "finish"
      BY <1>2, <2>2 DEF FinishTaken
    <3>2. n + 1 \in 1..(n + 1) /\ \A k \in 1..n : k \in 1..(n + 1)
      OBVIOUS
    <3>3. stage \in Late /\ e.kind \in Final
      BY <1>1, <1>2, <3>1, <3>2
    <3>4. FinishTaken
      BY <1>2, <3>1, <3>2, <3>3 DEF FinishTaken
    <3>5. CASE i = n + 1
      BY <1>2, <3>3, <3>5
    <3>6. CASE i \in 1..n
      BY <1>2, <3>4, <3>6 DEF Ordered, Sorted
    <3> QED BY <1>4, <3>5, <3>6
  <2> QED BY <1>2, <2>1, <2>2 DEF Sorted
<1> QED BY <1>1, <1>5, <1>7 DEF Ordered

LEMMA OrderedInterrupts ==
  ASSUME Typed, Ordered, Format \in Formats, Format' = Format, Interrupts
  PROVE  Ordered'
<1>1. UNCHANGED <<stage, said, worker>>
  BY DEF workerVars, Interrupts, SayError, BodyEnds, BodyBreaks, Cancel, StopParsing,
     serverVars
<1>2. Staged'
  BY <1>1 DEF Ordered, Staged
<1>3. CASE events' = events
  <2>1. (feed # "live" => feed' # "live") /\ (cancelled => cancelled')
    BY DEF Interrupts, SayError, BodyEnds, BodyBreaks, Cancel, StopParsing, ReadFails, Typed
  <2>2. Placed'
    BY <1>1, <1>3, <2>1 DEF Ordered, Placed
  <2>3. Sorted'
    BY <1>1, <1>3 DEF Ordered, Sorted, FinishTaken
  <2> QED BY <1>2, <2>2, <2>3 DEF Ordered
<1>4. CASE events' = Append(events, ErrorEvent)
  <2>1. ErrorEvent \in GoodEvents /\ ErrorEvent.kind = "error"
    BY Interrupted
  <2>2. PICK n \in Nat :
          /\ n = Len(events) /\ Len(events') = n + 1
          /\ \A i \in 1..n : events'[i] = events[i] /\ events[i] \in GoodEvents
          /\ events'[n + 1] = ErrorEvent
    BY <1>4, <2>1, SaidAt
  <2>3. /\ feed = "live" /\ feed' # "live" /\ Format # "ollama"
        /\ Format = "gemini" => cancelled' \/ stage' # "complete"
        /\ cancelled' = cancelled
    <3>1. events # Append(events, ErrorEvent)
      BY <1>4, <2>2
    <3> QED BY <1>4, <3>1 DEF Interrupts, SayError, BodyEnds, BodyBreaks, Cancel, StopParsing, ReadFails,
              SSE, serverVars
  <2>4. \A i \in 1..n : events[i].kind # "error"
    BY <2>2, <2>3 DEF Ordered, Placed
  <2>5. \A i \in 1..(n + 1) : i \in 1..n \/ i = n + 1
    OBVIOUS
  <2>6. "error" \in Kinds(Format)
    BY <2>3 DEF Kinds, Formats
  <2>7. Placed'
    <3> SUFFICES ASSUME NEW i \in 1..(n + 1)
                 PROVE  /\ events'[i].kind \in Kinds(Format)
                        /\ events'[i].kind = "finish" => stage \in Late
                        /\ events'[i].kind = "end" => stage = "complete"
                        /\ events'[i].kind = "error" =>
                             feed' # "live" /\ (Format = "gemini" => cancelled' \/ stage # "complete")
      BY <1>1, <2>2 DEF Placed
    <3>1. CASE i = n + 1
      BY <1>1, <2>1, <2>2, <2>3, <2>6, <3>1
    <3>2. CASE i \in 1..n
      BY <2>2, <2>4, <3>2 DEF Ordered, Placed
    <3> QED BY <2>5, <3>1, <3>2
  <2>8. Sorted'
    <3>1. ASSUME NEW i \in 1..(n + 1), NEW j \in 1..(n + 1), i < j
          PROVE  /\ events'[i].kind # "error"
                 /\ events'[i].kind = "finish" => events'[j].kind \in Final
                 /\ events'[i].kind = "end" => events'[j].kind = "error"
      <4>1. i \in 1..n
        BY <3>1
      <4>2. CASE j = n + 1
        BY <2>1, <2>2, <2>4, <4>1, <4>2 DEF Final
      <4>3. CASE j \in 1..n
        BY <2>2, <2>4, <3>1, <4>1, <4>3 DEF Ordered, Sorted
      <4> QED BY <2>5, <4>2, <4>3
    <3>2. ASSUME FinishTaken', NEW i \in 1..(n + 1) PROVE events'[i].kind \in Final
      <4>1. stage \in Late /\ \A k \in 1..(n + 1) : events'[k].kind # "finish"
        BY <1>1, <2>2, <3>2 DEF FinishTaken
      <4>2. \A k \in 1..n : k \in 1..(n + 1)
        OBVIOUS
      <4>3. FinishTaken
        BY <2>2, <4>1, <4>2 DEF FinishTaken
      <4>4. CASE i = n + 1
        BY <2>1, <2>2, <4>4 DEF Final
      <4>5. CASE i \in 1..n
        BY <2>2, <4>3, <4>5 DEF Ordered, Sorted
      <4> QED BY <2>5, <4>4, <4>5
    <3> QED BY <2>2, <3>1, <3>2 DEF Sorted
  <2> QED BY <1>2, <2>7, <2>8 DEF Ordered
<1> QED BY <1>3, <1>4, Interrupted

LEMMA OrderedTakes ==
  ASSUME Typed, Ordered, Format' = Format, TakeEvent
  PROVE  Ordered'
<1>1. UNCHANGED <<stage, said, feed, cancelled>> /\ worker' # "idle"
  BY DEF TakeEvent, serverVars
<1>2. PICK n \in Nat :
        /\ Len(events) = n + 1 /\ Len(events') = n
        /\ \A i \in 1..n : events'[i] = events[i + 1]
  <2>1. /\ Len(events) - 1 \in Nat /\ Len(events) = (Len(events) - 1) + 1
        /\ Len(events') = Len(events) - 1 /\ \A i \in 1..(Len(events) - 1) : events'[i] = events[i + 1]
    BY TakenAt
  <2> QED BY <2>1
<1>3. \A i \in 1..n : i + 1 \in 1..(n + 1) /\ 1 < i + 1
  OBVIOUS
<1>4. 1 \in 1..(n + 1) /\ \A k \in 1..(n + 1) : k = 1 \/ (k - 1 \in 1..n /\ k = (k - 1) + 1)
  OBVIOUS
<1>5. Staged'
  BY <1>1 DEF Ordered, Staged
<1>6. Placed'
  <2> SUFFICES ASSUME NEW i \in 1..n
               PROVE  /\ events'[i].kind \in Kinds(Format)
                      /\ events'[i].kind = "finish" => stage \in Late
                      /\ events'[i].kind = "end" => stage = "complete"
                      /\ events'[i].kind = "error" =>
                           feed # "live" /\ (Format = "gemini" => cancelled \/ stage # "complete")
    BY <1>1, <1>2 DEF Placed
  <2> QED BY <1>2, <1>3 DEF Ordered, Placed
<1>7. ASSUME NEW i \in 1..n, NEW j \in 1..n, i < j
      PROVE  /\ events'[i].kind # "error"
             /\ events'[i].kind = "finish" => events'[j].kind \in Final
             /\ events'[i].kind = "end" => events'[j].kind = "error"
  <2>1. i + 1 < j + 1
    BY <1>7
  <2> QED BY <1>2, <1>3, <2>1 DEF Ordered, Sorted
<1>8. ASSUME FinishTaken', NEW i \in 1..n PROVE events'[i].kind \in Final
  <2>1. stage \in Late /\ \A k \in 1..n : events[k + 1].kind # "finish"
    BY <1>1, <1>2, <1>8 DEF FinishTaken
  <2>2. CASE events[1].kind = "finish"
    BY <1>2, <1>3, <1>4, <2>2 DEF Ordered, Sorted
  <2>3. CASE events[1].kind # "finish"
    <3>1. \A k \in 1..(n + 1) : events[k].kind # "finish"
      BY <1>4, <2>1, <2>3
    <3>2. FinishTaken
      BY <1>2, <2>1, <3>1 DEF FinishTaken
    <3> QED BY <1>2, <1>3, <3>2 DEF Ordered, Sorted
  <2> QED BY <2>2, <2>3
<1>9. Sorted'
  BY <1>2, <1>7, <1>8 DEF Sorted
<1> QED BY <1>5, <1>6, <1>9 DEF Ordered

LEMMA OrderedFresh == Fresh => Ordered
<1> SUFFICES ASSUME Fresh PROVE Ordered
  OBVIOUS
<1>1. 1..Len(events) = {}
  BY EmptySeq DEF Fresh
<1> QED BY <1>1, Constants DEF Fresh, Ordered, Staged, Placed, Sorted, FinishTaken, Late

LEMMA OrderedStep ==
  ASSUME Opened, phase = "open", Ordered, [Next]_vars
  PROVE  Ordered'
<1>1. Typed /\ Format \in Formats /\ Format' = Format
  BY FormatsAre, Streaming DEF Opened
<1>2. CASE Respond
  BY <1>1, <1>2, Speaks, OrderedSpeaks
<1>3. CASE UNCHANGED <<stage, said, feed, cancelled, events>> /\ worker' # "idle"
  BY <1>1, <1>3 DEF Ordered, Staged, Placed, Sorted, FinishTaken
<1>4. CASE SendChunk \/ CloseChunks \/ Receive \/ EndReading \/ UNCHANGED vars
  BY <1>3, <1>4 DEF SendChunk, CloseChunks, Receive, EndReading, vars, serverVars, workerVars, Ordered,
                    Staged
<1> QED BY <1>1, <1>2, <1>4, OrderedInterrupts, OrderedTakes, Streaming

\* Why the goroutine has left: its input is over, or it has seen the last event of a
\* complete response, or a read error or a done context stopped it.
Leaving ==
  worker \in {"leaving", "closed"} =>
    \/ events = <<>> /\ feed # "live"
    \/ Format = "chat" /\ stage = "complete" /\ \A i \in 1..Len(events) : events[i].kind = "error"
    \/ Format = "gemini" /\ feed # "live" /\ (cancelled \/ stage # "complete")
    \/ Format = "ollama" /\ stage = "complete" /\ events = <<>>
    \/ Format = "ollama" /\ cancelled

LEMMA LeavingStep ==
  ASSUME Opened, phase = "open", Ordered, Leaving, [Next]_vars
  PROVE  Leaving'
<1>1. Typed /\ Format \in Formats /\ Format' = Format
  BY FormatsAre, Streaming DEF Opened
<1>2. CASE Respond
  <2>1. PICK e \in GoodEvents : Spoke(e)
    BY <1>1, <1>2, Speaks
  <2>2. stage # "complete" /\ feed = "live" /\ UNCHANGED <<worker, cancelled>>
    BY <1>1, <2>1, StagedSpeaks DEF Ordered, Spoke, Say, workerVars
  <2> QED BY <1>1, <2>2 DEF Leaving
<1>3. CASE Interrupts
  <2>1. UNCHANGED <<stage, worker>>
    BY <1>3 DEF workerVars, Interrupts, SayError, BodyEnds, BodyBreaks, Cancel, StopParsing, serverVars
  <2>2. feed # "live" => events' = events /\ feed' = feed
    BY <1>3 DEF Interrupts, SayError, BodyEnds, BodyBreaks, Cancel, StopParsing
  <2>3. Format = "ollama" => events' = events
    BY <1>3 DEF Interrupts, SayError, BodyEnds, BodyBreaks, Cancel, StopParsing, ReadFails, SSE
  <2>4. cancelled => cancelled'
    BY <1>3 DEF Interrupts, SayError, BodyEnds, BodyBreaks, Cancel, StopParsing
  <2>5. (\A i \in 1..Len(events) : events[i].kind = "error")
          => \A i \in 1..Len(events') : events'[i].kind = "error"
    <3>1. CASE events' = events
      BY <3>1
    <3>2. CASE events' = Append(events, ErrorEvent)
      <4>1. ErrorEvent \in GoodEvents /\ ErrorEvent.kind = "error"
        BY <1>1, <1>3, Interrupted
      <4>2. PICK n \in Nat :
              /\ n = Len(events) /\ Len(events') = n + 1
              /\ \A i \in 1..n : events'[i] = events[i]
              /\ events'[n + 1] = ErrorEvent
        BY <1>1, <3>2, <4>1, SaidAt
      <4>3. \A i \in 1..(n + 1) : i \in 1..n \/ i = n + 1
        OBVIOUS
      <4> QED BY <4>1, <4>2, <4>3
    <3> QED BY <1>1, <1>3, <3>1, <3>2, Interrupted
  <2>6. CASE worker \in {"leaving", "closed"}
    BY <1>1, <2>1, <2>2, <2>3, <2>4, <2>5, <2>6 DEF Leaving
  <2> QED BY <2>1, <2>6 DEF Leaving
<1>4. CASE TakeEvent
  <2>1. PICK e \in GoodEvents : e = Head(events) /\ e = events[1] /\ 1 \in 1..Len(events)
    BY <1>1, <1>4, TakenAt
  <2>2. UNCHANGED <<stage, feed, cancelled>> /\ worker = "reading"
        /\ worker' = IF Returns(e) THEN "leaving" ELSE "reading"
    BY <1>4, <2>1 DEF TakeEvent, serverVars
  <2>3. CASE Format = "chat" /\ e.kind = "end"
    <3>1. stage = "complete" /\ \A j \in 1..Len(events) : 1 < j => events[j].kind = "error"
      BY <2>1, <2>3 DEF Ordered, Placed, Sorted
    <3>2. \A i \in 1..(Len(events) - 1) : i + 1 \in 1..Len(events) /\ 1 < i + 1
      BY <1>1, <1>4, TakenAt
    <3>3. \A i \in 1..Len(events') : events'[i].kind = "error"
      BY <1>1, <1>4, <3>1, <3>2, TakenAt
    <3> QED BY <1>1, <2>2, <2>3, <3>1, <3>3 DEF Leaving
  <2>4. CASE Format = "gemini" /\ e.kind = "error"
    BY <1>1, <2>1, <2>2, <2>4 DEF Ordered, Placed, Leaving
  <2>5. CASE Format = "ollama" /\ e.kind = "finish"
    <3>1. stage = "complete"
      BY <2>1, <2>5 DEF Ordered, Placed, Staged, Late
    <3>2. \A j \in 1..Len(events) : j = 1
      <4>1. \A j \in 1..Len(events) : 1 < j => events[j].kind \in Final
        BY <2>1, <2>5 DEF Ordered, Sorted
      <4>2. \A j \in 1..Len(events) : events[j].kind \in {"text", "call", "finish"}
        BY <2>5 DEF Ordered, Placed, Kinds
      <4> QED BY <4>1, <4>2, <1>1, <1>4, TakenAt DEF Final
    <3>3. Len(events') = 0
      <4>1. Len(events) \in 1..Len(events)
        BY <1>1, <1>4, TakenAt
      <4>2. Len(events) = 1
        BY <3>2, <4>1
      <4> QED BY <1>1, <1>4, <4>2, TakenAt
    <3>4. events' = <<>>
      BY <1>1, <1>4, <3>3, EmptySeq, HeadTail DEF Typed, TakeEvent
    <3> QED BY <1>1, <2>2, <2>5, <3>1, <3>4 DEF Leaving
  <2>6. CASE ~Returns(e)
    BY <2>2, <2>6 DEF Leaving
  <2> QED BY <2>3, <2>4, <2>5, <2>6 DEF Returns
<1>5. CASE CloseChunks
  <2>1. UNCHANGED <<stage, feed, cancelled, events>> /\ worker' = "closed"
        /\ \/ worker = "leaving"
           \/ events = <<>> /\ feed # "live"
           \/ cancelled /\ Format = "ollama"
    BY <1>5 DEF CloseChunks, serverVars, SSE
  <2> QED BY <1>1, <2>1 DEF Leaving
<1>6. CASE SendChunk \/ Receive \/ EndReading \/ UNCHANGED vars
  BY <1>1, <1>6 DEF Leaving, SendChunk, Receive, EndReading, vars, serverVars, workerVars
<1> QED BY <1>2, <1>3, <1>4, <1>5, <1>6, Streaming

-----------------------------------------------------------------------------
(* The pieces of a call on their way *)

\* The events a call is put together from, and the place of each among them: the start
\* of its block, its fragments, the end of its block.
Block(c) == {e \in GoodEvents : e.kind \in {"block_start", "part", "block_stop"} /\ e.call = c}
Pos(e) == IF e.kind = "block_start" THEN 1 ELSE IF e.kind = "part" THEN e.part + 1 ELSE Parts + 2

\* The events of G in s are those with the places after lo up to hi, in order.
Window(s, G, lo, hi) ==
  /\ lo <= hi
  /\ \A i \in 1..Len(s) : s[i] \in G => Pos(s[i]) \in (lo + 1)..hi
  /\ \A i, j \in 1..Len(s) : i < j /\ s[i] \in G /\ s[j] \in G => Pos(s[i]) < Pos(s[j])
  /\ \A k \in (lo + 1)..hi : \E i \in 1..Len(s) : s[i] \in G /\ Pos(s[i]) = k

LEMMA PosIs == \A e \in GoodEvents : Pos(e) \in Nat
BY Constants DEF GoodEvents, EventType, Pos

LEMMA WindowAppend ==
  ASSUME NEW s \in Seq(GoodEvents), NEW G, NEW lo \in Nat, NEW hi \in Nat, Window(s, G, lo, hi),
         NEW e \in GoodEvents
  PROVE  /\ e \in G /\ Pos(e) = hi + 1 => Window(Append(s, e), G, lo, hi + 1)
         /\ e \notin G => Window(Append(s, e), G, lo, hi)
<1> PICK n \in Nat : n = Len(s)
  BY LenProperties
<1> PICK t : t = Append(s, e)
  OBVIOUS
<1>1. /\ n = Len(s) /\ t = Append(s, e) /\ Len(t) = n + 1
      /\ \A i \in 1..n : t[i] = s[i] /\ s[i] \in GoodEvents
      /\ t[n + 1] = e
  BY AppendProperties, LenProperties, ElementOfSeq
<1>2. \A i \in 1..(n + 1) : i \in 1..n \/ i = n + 1
  OBVIOUS
<1>3. n + 1 \in 1..(n + 1) /\ \A i \in 1..n : i \in 1..(n + 1)
  OBVIOUS
<1>4. \A i \in 1..n : Pos(s[i]) \in Nat
  BY <1>1, PosIs
<1>5. /\ lo <= hi
      /\ \A i \in 1..n : s[i] \in G => Pos(s[i]) \in (lo + 1)..hi
      /\ \A i, j \in 1..n : i < j /\ s[i] \in G /\ s[j] \in G => Pos(s[i]) < Pos(s[j])
      /\ \A k \in (lo + 1)..hi : \E i \in 1..n : s[i] \in G /\ Pos(s[i]) = k
  BY <1>1 DEF Window
<1>6. ASSUME e \in G, Pos(e) = hi + 1 PROVE Window(t, G, lo, hi + 1)
  <2>1. \A i \in 1..(n + 1) : t[i] \in G => Pos(t[i]) \in (lo + 1)..(hi + 1)
    <3> SUFFICES ASSUME NEW i \in 1..(n + 1), t[i] \in G PROVE Pos(t[i]) \in (lo + 1)..(hi + 1)
      OBVIOUS
    <3>1. CASE i = n + 1
      BY <1>1, <1>5, <1>6, <3>1
    <3>2. CASE i \in 1..n
      <4>1. Pos(s[i]) \in (lo + 1)..hi
        BY <1>1, <1>5, <3>2
      <4> QED BY <1>1, <3>2, <4>1
    <3> QED BY <1>2, <3>1, <3>2
  <2>2. \A i, j \in 1..(n + 1) : i < j /\ t[i] \in G /\ t[j] \in G => Pos(t[i]) < Pos(t[j])
    <3> SUFFICES ASSUME NEW i \in 1..(n + 1), NEW j \in 1..(n + 1), i < j, t[i] \in G, t[j] \in G
                 PROVE  Pos(t[i]) < Pos(t[j])
      OBVIOUS
    <3>1. i \in 1..n
      OBVIOUS
    <3>2. Pos(s[i]) \in (lo + 1)..hi /\ t[i] = s[i]
      BY <1>1, <1>5, <3>1
    <3>3. CASE j = n + 1
      BY <1>1, <1>6, <3>2, <3>3
    <3>4. CASE j \in 1..n
      BY <1>1, <1>5, <3>1, <3>4
    <3> QED BY <1>2, <3>3, <3>4
  <2>3. \A k \in (lo + 1)..(hi + 1) : \E i \in 1..(n + 1) : t[i] \in G /\ Pos(t[i]) = k
    <3> SUFFICES ASSUME NEW k \in (lo + 1)..(hi + 1)
                 PROVE  \E i \in 1..(n + 1) : t[i] \in G /\ Pos(t[i]) = k
      OBVIOUS
    <3>1. CASE k = hi + 1
      BY <1>1, <1>3, <1>6, <3>1
    <3>2. CASE k \in (lo + 1)..hi
      <4>1. PICK i \in 1..n : s[i] \in G /\ Pos(s[i]) = k
        BY <1>5, <3>2
      <4> QED BY <1>1, <1>3, <4>1
    <3>3. k = hi + 1 \/ k \in (lo + 1)..hi
      OBVIOUS
    <3> QED BY <3>1, <3>2, <3>3
  <2>4. lo <= hi + 1
    BY <1>5
  <2> QED BY <1>1, <2>1, <2>2, <2>3, <2>4 DEF Window
<1>7. ASSUME e \notin G PROVE Window(t, G, lo, hi)
  <2>1. \A i \in 1..(n + 1) : t[i] \in G => i \in 1..n /\ t[i] = s[i]
    BY <1>1, <1>2, <1>7
  <2>2. \A i \in 1..(n + 1) : t[i] \in G => Pos(t[i]) \in (lo + 1)..hi
    BY <1>5, <2>1
  <2>3. \A i, j \in 1..(n + 1) : i < j /\ t[i] \in G /\ t[j] \in G => Pos(t[i]) < Pos(t[j])
    BY <1>5, <2>1
  <2>4. \A k \in (lo + 1)..hi : \E i \in 1..(n + 1) : t[i] \in G /\ Pos(t[i]) = k
    <3> SUFFICES ASSUME NEW k \in (lo + 1)..hi PROVE \E i \in 1..(n + 1) : t[i] \in G /\ Pos(t[i]) = k
      OBVIOUS
    <3>1. PICK i \in 1..n : s[i] \in G /\ Pos(s[i]) = k
      BY <1>5
    <3> QED BY <1>1, <1>3, <3>1
  <2> QED BY <1>1, <1>5, <2>2, <2>3, <2>4 DEF Window
<1> QED BY <1>1, <1>6, <1>7

LEMMA WindowTail ==
  ASSUME NEW s \in Seq(GoodEvents), s # <<>>, NEW G, NEW lo \in Nat, NEW hi \in Nat,
         Window(s, G, lo, hi)
  PROVE  /\ Head(s) \in G => Pos(Head(s)) = lo + 1 /\ lo < hi /\ Window(Tail(s), G, lo + 1, hi)
         /\ Head(s) \notin G => Window(Tail(s), G, lo, hi)
<1> PICK n \in Nat : Len(s) = n + 1
  <2>1. Len(s) \in Nat /\ Len(s) > 0
    BY HeadTail
  <2>2. Len(s) - 1 \in Nat /\ Len(s) = (Len(s) - 1) + 1
    BY <2>1
  <2> QED BY <2>2
<1> PICK t : t = Tail(s)
  OBVIOUS
<1>1. /\ Len(s) = n + 1 /\ t = Tail(s) /\ Len(t) = n /\ Head(s) = s[1]
      /\ \A i \in 1..n : t[i] = s[i + 1]
  BY HeadTail
<1>2. \A i \in 1..n : i + 1 \in 1..(n + 1) /\ 1 < i + 1
  OBVIOUS
<1>3. 1 \in 1..(n + 1) /\ \A k \in 1..(n + 1) : k = 1 \/ (k - 1 \in 1..n /\ k = (k - 1) + 1 /\ 1 < k)
  OBVIOUS
<1>4. \A i \in 1..(n + 1) : Pos(s[i]) \in Nat
  BY <1>1, PosIs, ElementOfSeq
<1>5. /\ lo <= hi
      /\ \A i \in 1..(n + 1) : s[i] \in G => Pos(s[i]) \in (lo + 1)..hi
      /\ \A i, j \in 1..(n + 1) : i < j /\ s[i] \in G /\ s[j] \in G => Pos(s[i]) < Pos(s[j])
      /\ \A k \in (lo + 1)..hi : \E i \in 1..(n + 1) : s[i] \in G /\ Pos(s[i]) = k
  BY <1>1 DEF Window
<1>6. \A i, j \in 1..n : i < j /\ t[i] \in G /\ t[j] \in G => Pos(t[i]) < Pos(t[j])
  <2> SUFFICES ASSUME NEW i \in 1..n, NEW j \in 1..n, i < j, t[i] \in G, t[j] \in G
               PROVE  Pos(t[i]) < Pos(t[j])
    OBVIOUS
  <2>1. i + 1 < j + 1
    OBVIOUS
  <2> QED BY <1>1, <1>2, <1>5, <2>1
<1>7. ASSUME s[1] \in G
      PROVE  Pos(s[1]) = lo + 1 /\ lo < hi /\ Window(t, G, lo + 1, hi)
  <2>1. Pos(s[1]) \in (lo + 1)..hi
    BY <1>3, <1>5, <1>7
  <2>2. lo + 1 \in (lo + 1)..hi
    BY <2>1
  <2>3. PICK i \in 1..(n + 1) : s[i] \in G /\ Pos(s[i]) = lo + 1
    BY <1>5, <2>2
  <2>4. i = 1
    <3>1. ASSUME 1 < i PROVE FALSE
      <4>1. Pos(s[1]) < lo + 1
        BY <1>3, <1>5, <1>7, <2>3, <3>1
      <4> QED BY <2>1, <4>1
    <3> QED BY <1>3, <3>1
  <2>5. Pos(s[1]) = lo + 1 /\ lo < hi
    BY <2>1, <2>3, <2>4
  <2>6. \A j \in 1..n : t[j] \in G => Pos(t[j]) \in (lo + 1 + 1)..hi
    <3> SUFFICES ASSUME NEW j \in 1..n, t[j] \in G PROVE Pos(t[j]) \in (lo + 1 + 1)..hi
      OBVIOUS
    <3>1. Pos(s[j + 1]) \in (lo + 1)..hi /\ Pos(s[1]) < Pos(s[j + 1])
      BY <1>1, <1>2, <1>3, <1>5, <1>7
    <3> QED BY <1>1, <2>5, <3>1
  <2>7. \A k \in (lo + 1 + 1)..hi : \E j \in 1..n : t[j] \in G /\ Pos(t[j]) = k
    <3> SUFFICES ASSUME NEW k \in (lo + 1 + 1)..hi PROVE \E j \in 1..n : t[j] \in G /\ Pos(t[j]) = k
      OBVIOUS
    <3>1. PICK j \in 1..(n + 1) : s[j] \in G /\ Pos(s[j]) = k
      BY <1>5
    <3>2. j # 1
      BY <2>5, <3>1
    <3> QED BY <1>1, <1>3, <3>1, <3>2
  <2>8. lo + 1 <= hi
    BY <2>5
  <2>9. Window(t, G, lo + 1, hi)
    BY <1>1, <1>6, <2>6, <2>7, <2>8, Zenon DEF Window
  <2> QED BY <2>5, <2>9
<1>8. ASSUME s[1] \notin G PROVE Window(t, G, lo, hi)
  <2>1. \A j \in 1..n : t[j] \in G => Pos(t[j]) \in (lo + 1)..hi
    BY <1>1, <1>2, <1>5
  <2>2. \A k \in (lo + 1)..hi : \E j \in 1..n : t[j] \in G /\ Pos(t[j]) = k
    <3> SUFFICES ASSUME NEW k \in (lo + 1)..hi PROVE \E j \in 1..n : t[j] \in G /\ Pos(t[j]) = k
      OBVIOUS
    <3>1. PICK j \in 1..(n + 1) : s[j] \in G /\ Pos(s[j]) = k
      BY <1>5
    <3>2. j # 1
      BY <1>8, <3>1
    <3> QED BY <1>1, <1>3, <3>1, <3>2
  <2> QED BY <1>1, <1>5, <1>6, <2>1, <2>2 DEF Window
<1> QED BY <1>1, <1>7, <1>8

LEMMA WindowEmpty ==
  ASSUME NEW s \in Seq(GoodEvents), NEW G, NEW lo \in Nat, NEW hi \in Nat
  PROVE  /\ (\A i \in 1..Len(s) : s[i] \notin G) /\ Window(s, G, lo, hi) => lo = hi
         /\ s = <<>> => Window(s, G, lo, lo)
<1>1. ASSUME \A i \in 1..Len(s) : s[i] \notin G, Window(s, G, lo, hi), lo # hi PROVE FALSE
  <2>1. lo + 1 \in (lo + 1)..hi
    BY <1>1 DEF Window
  <2> QED BY <1>1, <2>1 DEF Window
<1>2. s = <<>> => Window(s, G, lo, lo)
  BY EmptySeq DEF Window
<1> QED BY <1>1, <1>2

LEMMA ShortIs ==
  ASSUME NEW S, NEW x \in S, NEW y \in S, NEW G, NEW q, q = <<x>> \/ q = <<x, y>>, y \notin G
  PROVE  q \in Seq(S) /\ Count(q, G) = IF x \in G THEN 1 ELSE 0
<1>1. <<x>> \in Seq(S) /\ <<x, y>> \in Seq(S)
  BY OneTwo
<1>2. Count(<<x>>, G) = (IF x \in G THEN 1 ELSE 0)
      /\ Count(<<x, y>>, G) = (IF x \in G THEN 1 ELSE 0) + (IF y \in G THEN 1 ELSE 0)
  BY CountShort
<1>3. Count(<<x, y>>, G) = IF x \in G THEN 1 ELSE 0
  BY <1>2
<1>4. CASE q = <<x>>
  BY <1>1, <1>2, <1>4
<1>5. CASE q = <<x, y>>
  BY <1>1, <1>3, <1>5
<1> QED BY <1>4, <1>5

-----------------------------------------------------------------------------
(* The calls that are whole *)

WholeChunks == {h \in GoodChunks : h.type = "tool_call" => h.call \in WholeCalls}
CallChunks(c) == {h \in GoodChunks : h.type = "tool_call" /\ h.call = TheCall(c)}

\* A call that has left the accumulator is whole.
AllWhole ==
  toSend \in Seq(WholeChunks) /\ chunks \in Seq(WholeChunks) /\ got.calls \in Seq(WholeCalls)

\* How often call c has left it.
Done(c) == Count(toSend, CallChunks(c)) + Count(chunks, CallChunks(c)) + Count(got.calls, {TheCall(c)})

LEMMA TheCallIs ==
  /\ \A c \in Calls : TheCall(c) \in CallType /\ TheCall(c) \in WholeCalls /\ TheCall(c).id = c
                      /\ TheCall(c).parts = [k \in 1..Parts |-> k] /\ TheCall(c) # NoCall
  /\ \A c, d : TheCall(c) = TheCall(d) => c = d
  /\ \A e \in GoodEvents : e.kind = "call" => WholeCall(e) = TheCall(e.call) /\ e.call \in Calls
<1>1. [k \in 1..Parts |-> k] \in Seq(1..Parts)
  BY Constants, IsASeq
<1>2. \A e \in GoodEvents : e.kind = "call" => WholeCall(e) = TheCall(e.call) /\ e.call \in Calls
  BY DEF GoodEvents, WholeCall, TheCall
<1>3. \A c \in Calls : TheCall(c).id = c /\ TheCall(c).parts = [k \in 1..Parts |-> k]
                       /\ TheCall(c) \in WholeCalls
  BY DEF TheCall, WholeCalls
<1>4. \A c \in Calls : TheCall(c) \in CallType
  BY <1>1, Constants DEF TheCall, CallType
<1>5. \A c \in Calls : TheCall(c) # NoCall
  BY <1>3, NoCallIs, Constants
<1>6. \A c, d : TheCall(c) = TheCall(d) => c = d
  <2>1. \A c : TheCall(c).id = c
    BY DEF TheCall
  <2> QED BY <2>1
<1> QED BY <1>2, <1>3, <1>4, <1>5, <1>6

LEMMA WholeChunksAre ==
  /\ TextChunk \in WholeChunks /\ \A c : TextChunk \notin CallChunks(c)
  /\ \A type \in {"done", "error"} : Plain(type) \in WholeChunks /\ \A c : Plain(type) \notin CallChunks(c)
  /\ \A report \in [in : Nat, out : Nat] :
       /\ UsageChunk(report) \in WholeChunks /\ \A c : UsageChunk(report) \notin CallChunks(c)
       /\ Chunk("text", 0, NoCall, report) \in WholeChunks
       /\ \A c : Chunk("text", 0, NoCall, report) \notin CallChunks(c)
  /\ \A d \in Calls : CallChunk(TheCall(d)) \in WholeChunks
  /\ \A d \in Calls : \A c : CallChunk(TheCall(d)) \in CallChunks(c) <=> c = d
<1>1. TextChunk.type = "text" /\ \A type : Plain(type).type = type
      /\ \A report : UsageChunk(report).type = "usage" /\ Chunk("text", 0, NoCall, report).type = "text"
      /\ \A call : CallChunk(call).type = "tool_call" /\ CallChunk(call).call = call
  BY DEF TextChunk, Plain, UsageChunk, CallChunk, Chunk
<1>2. ASSUME NEW d \in Calls PROVE CallChunk(TheCall(d)) \in WholeChunks
  <2>1. PICK call \in CallType : call = TheCall(d) /\ call \in WholeCalls
    BY TheCallIs
  <2>2. CallChunk(call) \in GoodChunks /\ CallChunk(call).call = call
    BY <1>1, ChunksAre
  <2> QED BY <2>1, <2>2 DEF WholeChunks
<1>3. ASSUME NEW c, NEW d \in Calls PROVE CallChunk(TheCall(d)) \in CallChunks(c) <=> c = d
  <2>1. PICK h \in GoodChunks : h = CallChunk(TheCall(d))
    BY <1>2 DEF WholeChunks
  <2>2. h.type = "tool_call" /\ h.call = TheCall(d)
    BY <1>1, <2>1
  <2>3. h \in CallChunks(c) <=> TheCall(d) = TheCall(c)
    BY <2>2 DEF CallChunks
  <2> QED BY <2>1, <2>3, TheCallIs
<1>4. TextChunk \in WholeChunks /\ \A c : TextChunk \notin CallChunks(c)
  BY <1>1, ChunksAre DEF WholeChunks, CallChunks
<1>5. \A type \in {"done", "error"} : Plain(type) \in WholeChunks /\ \A c : Plain(type) \notin CallChunks(c)
  BY <1>1, ChunksAre DEF WholeChunks, CallChunks
<1>6. \A report \in [in : Nat, out : Nat] :
       /\ UsageChunk(report) \in WholeChunks /\ \A c : UsageChunk(report) \notin CallChunks(c)
       /\ Chunk("text", 0, NoCall, report) \in WholeChunks
       /\ \A c : Chunk("text", 0, NoCall, report) \notin CallChunks(c)
  BY <1>1, ChunksAre DEF WholeChunks, CallChunks
<1> QED BY <1>2, <1>3, <1>4, <1>5, <1>6

\* SetToSeqs gives every call in the accumulator one place.
LEMMA FinishedOrder ==
  ASSUME Typed, NEW order \in SetToSeqs({c \in Calls : acc[c] # NoCall})
  PROVE  /\ \A i, j \in 1..Len(order) : order[i] = order[j] => i = j
         /\ \A c \in Calls : acc[c] # NoCall => \E i \in 1..Len(order) : order[i] = c
<1> DEFINE S == {c \in Calls : acc[c] # NoCall}
<1>1. IsFiniteSet(S)
  <2>1. IsFiniteSet(Calls)
    BY Constants, FS_Interval
  <2> QED BY <2>1, FS_Subset
<1>2. PICK n \in Nat : n = Cardinality(S)
  <2> HIDE DEF S
  <2> QED BY <1>1, FS_CardinalityType
<1>3. order \in [1..n -> S] /\ \A i, j \in 1..n : i # j => order[i] # order[j]
  BY <1>2 DEF SetToSeqs
<1>4. Len(order) = n
  <2> HIDE DEF S
  <2>1. order = [i \in 1..n |-> order[i]] /\ \A i \in 1..n : order[i] \in S
    BY <1>3
  <2> QED BY <2>1, IsASeq
<1>5. \A c \in S : \E i \in 1..n : order[i] = c
  <2> HIDE DEF S
  <2>1. order \in Injection(1..n, S)
    BY <1>3 DEF Injection, IsInjective
  <2>2. Cardinality(1..n) = n
    BY FS_Interval
  <2>3. order \in Surjection(1..n, S)
    BY <1>1, <1>2, <2>1, <2>2, FS_Injection
  <2> QED BY <2>3 DEF Surjection
<1> QED BY <1>3, <1>4, <1>5

\* What a goroutine sends for an event holds only whole calls, when those it has under
\* construction are whole when their last event comes.
LEMMA SendsCalls ==
  ASSUME Typed, toSend = <<>>, NEW e \in GoodEvents,
         TakeAnthropic(e) \/ TakeChat(e) \/ TakeGemini(e) \/ TakeOllama(e),
         e.kind = "block_stop" /\ acc[0].id # 0 => acc[0] \in WholeCalls,
         \/ e.kind # "finish" \/ TakeAnthropic(e) \/ TakeGemini(e) \/ TakeOllama(e)
         \/ \A d \in Calls : acc[d] # NoCall => acc[d] = TheCall(d),
         NEW c
  PROVE  /\ toSend' \in Seq(WholeChunks)
         /\ e.kind \notin {"call", "block_stop", "finish"} => Count(toSend', CallChunks(c)) = 0
         /\ e.kind = "call" => Count(toSend', CallChunks(c)) = IF e.call = c THEN 1 ELSE 0
         /\ e.kind = "block_stop" /\ c \in Calls =>
              Count(toSend', CallChunks(c)) = IF acc[0] = TheCall(c) THEN 1 ELSE 0
         /\ e.kind = "finish" /\ (TakeAnthropic(e) \/ TakeGemini(e) \/ TakeOllama(e)) =>
              Count(toSend', CallChunks(c)) = 0
         /\ (/\ e.kind = "finish" /\ TakeChat(e) /\ c \in Calls
             /\ \A d \in Calls : acc[d] # NoCall => acc[d] = TheCall(d)) =>
              Count(toSend', CallChunks(c)) = IF acc[c] # NoCall THEN 1 ELSE 0
<1> PICK q : q = toSend'
  OBVIOUS
<1>1. e.report \in [in : Nat, out : Nat] /\ e.kind \in SaidEvents
  BY DEF GoodEvents, EventType, Tokens, SaidEvents
<1>2. \A x \in WholeChunks, y \in WholeChunks : y \notin CallChunks(c) /\ (q = <<x>> \/ q = <<x, y>>)
        => q \in Seq(WholeChunks) /\ Count(q, CallChunks(c)) = IF x \in CallChunks(c) THEN 1 ELSE 0
  <2> SUFFICES ASSUME NEW x \in WholeChunks, NEW y \in WholeChunks, y \notin CallChunks(c),
                      q = <<x>> \/ q = <<x, y>>
               PROVE  q \in Seq(WholeChunks)
                      /\ Count(q, CallChunks(c)) = IF x \in CallChunks(c) THEN 1 ELSE 0
    OBVIOUS
  <2> QED BY ShortIs
<1>3. q = <<>> => q \in Seq(WholeChunks) /\ Count(q, CallChunks(c)) = 0
  BY CountEmpty, EmptySeq
<1>4. \A x \in WholeChunks, y \in WholeChunks :
        (q = <<x>> \/ q = <<x, y>>) /\ x \notin CallChunks(c) /\ y \notin CallChunks(c)
        => q \in Seq(WholeChunks) /\ Count(q, CallChunks(c)) = 0
  BY <1>2
<1>5. PICK text \in WholeChunks, usage \in WholeChunks, last \in WholeChunks, done \in WholeChunks,
           error \in WholeChunks :
        /\ text = TextChunk /\ usage = UsageChunk(e.report)
        /\ last = Chunk("text", 0, NoCall, e.report)
        /\ done = Plain("done") /\ error = Plain("error")
        /\ text \notin CallChunks(c) /\ usage \notin CallChunks(c) /\ last \notin CallChunks(c)
        /\ done \notin CallChunks(c) /\ error \notin CallChunks(c)
  BY <1>1, WholeChunksAre
<1>6. CASE e.kind = "text"
  <2>1. q = <<text>> \/ q = <<text, usage>>
    BY <1>5, <1>6, Sends
  <2> QED BY <1>4, <1>5, <1>6, <2>1
<1>7. CASE e.kind \in {"start", "usage"}
  <2>1. q = <<usage>>
    BY <1>5, <1>7, Sends
  <2> QED BY <1>4, <1>5, <1>7, <2>1
<1>8. CASE e.kind \in {"block_start", "part"}
  BY <1>3, <1>8, Sends
<1>9. CASE e.kind = "end"
  <2>1. q = <<done>>
    BY <1>5, <1>9, Sends
  <2> QED BY <1>4, <1>5, <1>9, <2>1
<1>10. CASE e.kind = "error"
  <2>1. q = <<>> \/ q = <<error>>
    BY <1>5, <1>10, Sends
  <2> QED BY <1>3, <1>4, <1>5, <1>10, <2>1
<1>11. CASE e.kind = "call"
  <2>1. PICK x \in WholeChunks : x = CallChunk(WholeCall(e)) /\ (x \in CallChunks(c) <=> c = e.call)
    BY <1>11, TheCallIs, WholeChunksAre
  <2>2. q = <<x>> \/ q = <<x, usage>>
    BY <1>5, <1>11, <2>1, Sends
  <2> QED BY <1>2, <1>5, <1>11, <2>1, <2>2
<1>12. CASE e.kind = "block_stop"
  <2>1. CASE acc[0].id = 0
    <3>1. c \in Calls => acc[0] # TheCall(c)
      <4>1. c \in Calls => TheCall(c).id = c /\ c # 0
        BY TheCallIs, Constants
      <4> QED BY <2>1, <4>1
    <3> QED BY <1>3, <1>12, <2>1, <3>1, Sends
  <2>2. CASE acc[0].id # 0
    <3>1. PICK d \in Calls : acc[0] = TheCall(d)
      BY <1>12, <2>2 DEF WholeCalls
    <3>2. PICK x \in WholeChunks : x = CallChunk(acc[0]) /\ (x \in CallChunks(c) <=> c = d)
      BY <3>1, WholeChunksAre
    <3>3. q = <<x>>
      BY <1>12, <2>2, <3>2, Sends
    <3>4. c = d <=> acc[0] = TheCall(c)
      BY <3>1, TheCallIs
    <3> QED BY <1>2, <1>5, <1>12, <3>2, <3>3, <3>4
  <2> QED BY <2>1, <2>2
<1>13. ASSUME e.kind = "finish", TakeAnthropic(e) \/ TakeGemini(e) \/ TakeOllama(e)
       PROVE  q \in Seq(WholeChunks) /\ Count(q, CallChunks(c)) = 0
  <2>1. CASE q = <<last>> \/ q = <<done>>
    BY <1>4, <1>5, <2>1
  <2>2. CASE q = <<usage, done>>
    BY <1>4, <1>5, <2>2
  <2> QED BY <1>5, <1>13, <2>1, <2>2, Sends
<1>14. ASSUME e.kind = "finish", TakeChat(e), \A d \in Calls : acc[d] # NoCall => acc[d] = TheCall(d)
       PROVE  /\ q \in Seq(WholeChunks)
              /\ c \in Calls => Count(q, CallChunks(c)) = IF acc[c] # NoCall THEN 1 ELSE 0
  <2>1. PICK order \in SetToSeqs({d \in Calls : acc[d] # NoCall}) :
          toSend' = Append([i \in 1..Len(order) |-> CallChunk(acc[order[i]])],
                           Chunk("text", 0, NoCall, e.report))
    BY <1>14 DEF TakeChat
  <2>2. /\ Len(order) \in Nat
        /\ order \in [1..Len(order) -> {d \in Calls : acc[d] # NoCall}]
        /\ \A i, j \in 1..Len(order) : order[i] = order[j] => i = j
        /\ \A d \in Calls : acc[d] # NoCall => \E i \in 1..Len(order) : order[i] = d
    BY <2>1, FinishedCalls, FinishedOrder
  <2>3. PICK n \in Nat : n = Len(order)
    BY <2>2
  <2>4. \A i \in 1..n : order[i] \in Calls /\ acc[order[i]] = TheCall(order[i])
    BY <1>14, <2>2, <2>3
  <2>5. \A i \in 1..n : /\ CallChunk(acc[order[i]]) \in WholeChunks
                        /\ CallChunk(acc[order[i]]) \in CallChunks(c) <=> c = order[i]
    BY <2>4, WholeChunksAre
  <2>6. PICK s \in Seq(WholeChunks) :
          s = [i \in 1..n |-> CallChunk(acc[order[i]])] /\ Len(s) = n
    <3>1. [i \in 1..n |-> CallChunk(acc[order[i]])] \in Seq(WholeChunks)
      BY <2>5, IsASeq
    <3>2. Len([i \in 1..n |-> CallChunk(acc[order[i]])]) = n
      BY <2>5, IsASeq
    <3> QED BY <3>1, <3>2
  <2>7. \A i \in 1..n : s[i] \in CallChunks(c) <=> c = order[i]
    BY <2>5, <2>6
  <2>8. ASSUME c \in Calls PROVE Count(s, CallChunks(c)) = IF acc[c] # NoCall THEN 1 ELSE 0
    <3>1. CASE acc[c] # NoCall
      <4>1. PICK i \in 1..n : order[i] = c
        BY <2>2, <2>3, <2>8, <3>1
      <4>2. s[i] \in CallChunks(c) /\ \A j \in 1..n : s[j] \in CallChunks(c) => j = i
        BY <2>2, <2>3, <2>7, <4>1
      <4>3. Count(s, CallChunks(c)) = 1
        BY <2>6, <4>2, CountOne
      <4> QED BY <3>1, <4>3
    <3>2. CASE acc[c] = NoCall
      <4>1. \A i \in 1..n : order[i] # c
        BY <2>2, <2>3, <3>2
      <4>2. \A i \in 1..Len(s) : s[i] \notin CallChunks(c)
        BY <2>6, <2>7, <4>1
      <4>3. Count(s, CallChunks(c)) = 0
        BY <4>2, CountZero
      <4> QED BY <3>2, <4>3
    <3> QED BY <3>1, <3>2
  <2>9. q = Append(s, last)
    BY <1>5, <2>1, <2>3, <2>6
  <2>10. q \in Seq(WholeChunks) /\ Count(q, CallChunks(c)) = Count(s, CallChunks(c))
    <3>1. Count(Append(s, last), CallChunks(c))
            = Count(s, CallChunks(c)) + (IF last \in CallChunks(c) THEN 1 ELSE 0)
      BY CountAppend
    <3>2. Count(s, CallChunks(c)) \in Nat
      BY CountFinite
    <3> QED BY <1>5, <2>9, <3>1, <3>2, AppendProperties
  <2> QED BY <2>8, <2>10
<1>15. CASE e.kind = "finish"
  BY <1>13, <1>14, <1>15
<1> QED BY <1>1, <1>6, <1>7, <1>8, <1>9, <1>10, <1>11, <1>12, <1>15 DEF SaidEvents

LEMMA DoneIs ==
  ASSUME Typed, NEW c
  PROVE  Done(c) \in Nat
<1>1. Count(got.calls, {TheCall(c)}) \in Nat
  BY CountFinite DEF Typed, GotType
<1>2. Count(toSend, CallChunks(c)) \in Nat /\ Count(chunks, CallChunks(c)) \in Nat
  BY CountsAre
<1> QED BY <1>1, <1>2 DEF Done

\* A chunk on its way is not lost, doubled or changed.
LEMMA Moves ==
  ASSUME Typed, AllWhole, SendChunk \/ Receive \/ UNCHANGED <<toSend, chunks, got>>
  PROVE  AllWhole' /\ \A c \in Calls : Done(c)' = Done(c)
<1>1. Typed
  OBVIOUS
<1>2. CASE UNCHANGED <<toSend, chunks, got>>
  BY <1>2 DEF AllWhole, Done
<1>3. CASE SendChunk
  <2>1. Head(toSend) \in WholeChunks /\ Tail(toSend) \in Seq(WholeChunks)
    BY <1>3, HeadTail DEF AllWhole, SendChunk
  <2>2. Append(chunks, Head(toSend)) \in Seq(WholeChunks)
    BY <2>1, AppendProperties DEF AllWhole
  <2>3. AllWhole' /\ got' = got
    BY <1>3, <2>1, <2>2 DEF AllWhole, SendChunk, readVars
  <2>4. ASSUME NEW c \in Calls PROVE Done(c)' = Done(c)
    <3>1. PICK G : G = CallChunks(c)
      OBVIOUS
    <3>2. Count(toSend', G) + Count(chunks', G) = Count(toSend, G) + Count(chunks, G)
      BY <1>3, SendCounts
    <3>3. CallChunks(c)' = CallChunks(c) /\ TheCall(c)' = TheCall(c)
      OBVIOUS
    <3> QED BY <2>3, <3>1, <3>2, <3>3 DEF Done
  <2> QED BY <2>3, <2>4
<1>4. CASE Receive
  <2>1. PICK h \in WholeChunks : h = Head(chunks)
    BY <1>4, HeadTail DEF Receive, AllWhole
  <2>2. Tail(chunks) \in Seq(WholeChunks) /\ toSend' = toSend /\ chunks' = Tail(chunks)
    BY <1>4, HeadTail DEF Receive, AllWhole, workerVars
  <2>3. CASE h.type # "tool_call"
    <3>1. got'.calls = got.calls
      BY <1>4, <2>1, <2>3 DEF Receive
    <3>2. ASSUME NEW c \in Calls PROVE Done(c)' = Done(c)
      <4>0. h \notin CallChunks(c)
        BY <2>3 DEF CallChunks
      <4>1. PICK G : G = CallChunks(c) /\ h \notin G
        BY <4>0
      <4>2. Count(chunks, G) = Count(chunks', G)
        <5>1. Count(chunks, G) = Count(chunks', G) + (IF Head(chunks) \in G THEN 1 ELSE 0)
          BY <1>4, ReceiveCounts
        <5>2. Count(chunks', G) \in Nat
          BY <2>2, CountFinite
        <5> QED BY <2>1, <4>1, <5>1, <5>2
      <4> QED BY <2>2, <3>1, <4>1, <4>2 DEF Done
    <3>3. AllWhole'
      BY <2>2, <3>1 DEF AllWhole
    <3> QED BY <3>2, <3>3
  <2>4. CASE h.type = "tool_call"
    <3>1. PICK d \in Calls : h.call = TheCall(d)
      BY <2>4 DEF WholeChunks, WholeCalls
    <3>2. got'.calls = Append(got.calls, TheCall(d))
      BY <1>4, <2>1, <2>4, <3>1 DEF Receive, Collected
    <3>3. PICK s \in Seq(WholeCalls) : s = got.calls
      BY DEF AllWhole
    <3>4. TheCall(d) \in WholeCalls
      BY TheCallIs
    <3>5. ASSUME NEW c \in Calls PROVE Done(c)' = Done(c)
      <4>1. PICK G, C : G = CallChunks(c) /\ C = {TheCall(c)} /\ (h \in G <=> TheCall(d) \in C)
        BY <2>4, <3>1 DEF CallChunks, WholeChunks
      <4>2. Count(chunks, G) = Count(chunks', G) + (IF h \in G THEN 1 ELSE 0)
        BY <1>4, <2>1, ReceiveCounts
      <4>3. Count(Append(s, TheCall(d)), C) = Count(s, C) + (IF TheCall(d) \in C THEN 1 ELSE 0)
        BY <3>4, CountAppend
      <4>4. Count(chunks', G) \in Nat /\ Count(s, C) \in Nat /\ Count(toSend, G) \in Nat
        BY <2>2, CountFinite, CountsAre
      <4>5. Done(c)' = Count(toSend, G) + Count(chunks', G) + Count(Append(s, TheCall(d)), C)
        BY <2>2, <3>2, <3>3, <4>1 DEF Done
      <4>6. Done(c) = Count(toSend, G) + Count(chunks, G) + Count(s, C)
        BY <3>3, <4>1 DEF Done
      <4> QED BY <4>1, <4>2, <4>3, <4>4, <4>5, <4>6
    <3>6. AllWhole'
      <4>1. Append(s, TheCall(d)) \in Seq(WholeCalls)
        BY <3>4, AppendProperties
      <4> QED BY <2>2, <3>2, <3>3, <4>1 DEF AllWhole
    <3> QED BY <3>5, <3>6
  <2> QED BY <2>3, <2>4
<1> QED BY <1>2, <1>3, <1>4

\* A call leaves the accumulator when the goroutine makes chunks of an event.
LEMMA DoneTakes ==
  ASSUME Typed, AllWhole, TakeEvent, toSend' \in Seq(WholeChunks)
  PROVE  AllWhole' /\ \A c \in Calls : Done(c)' = Done(c) + Count(toSend', CallChunks(c))
<1>1. UNCHANGED <<chunks, got>> /\ toSend = <<>>
  BY DEF TakeEvent, readVars
<1>2. ASSUME NEW c \in Calls PROVE Done(c)' = Done(c) + Count(toSend', CallChunks(c))
  <2>1. PICK G, C : G = CallChunks(c) /\ C = {TheCall(c)}
    OBVIOUS
  <2>2. Count(chunks, G) \in Nat /\ Count(got.calls, C) \in Nat /\ Count(toSend', G) \in Nat
    BY CountsAre, CountFinite DEF Typed, GotType
  <2>3. Count(toSend, G) = 0
    BY <1>1, CountEmpty
  <2>4. Done(c)' = Count(toSend', G) + Count(chunks, G) + Count(got.calls, C)
    BY <1>1, <2>1 DEF Done
  <2>5. Done(c) = Count(toSend, G) + Count(chunks, G) + Count(got.calls, C)
    BY <2>1 DEF Done
  <2> QED BY <2>1, <2>2, <2>3, <2>4, <2>5
<1> QED BY <1>1, <1>2 DEF AllWhole

-----------------------------------------------------------------------------
(* Calls that come in one piece: Gemini and Ollama *)

CallEvents(c) == {e \in GoodEvents : e.kind = "call" /\ e.call = c}

\* A call the provider has sent is once in the queue or has left it once.
PieceCalls ==
  Format \in {"gemini", "ollama"} =>
    \A c \in Calls : Count(events, CallEvents(c)) + Done(c) = IF said.parts[c] # 0 THEN 1 ELSE 0

LEMMA PieceStep ==
  ASSUME Opened, phase = "open", Ordered, AllWhole, PieceCalls, [Next]_vars,
         Format \in {"gemini", "ollama"}, NEW c \in Calls
  PROVE  Count(events', CallEvents(c)) + Done(c)' = IF said'.parts[c] # 0 THEN 1 ELSE 0
<1>1. Typed /\ Typed' /\ Format \in Formats /\ Format' = Format
  BY FormatsAre, Streaming, OpenedStep DEF Opened
<1> PICK G : G = CallEvents(c)
  OBVIOUS
<1>2. PICK m \in Nat, d \in Nat : m = Count(events, G) /\ d = Done(c)
                                  /\ m + d = IF said.parts[c] # 0 THEN 1 ELSE 0
  <2>1. Count(events, G) \in Nat /\ Done(c) \in Nat
    BY <1>1, CountsAre, DoneIs
  <2> QED BY <2>1 DEF PieceCalls
<1>3. CASE Respond
  <2>1. PICK e \in GoodEvents : Spoke(e)
    BY <1>1, <1>3, Speaks
  <2>2. events' = Append(events, e) /\ UNCHANGED <<toSend, chunks, got>>
    BY <2>1 DEF Spoke, Say, workerVars, readVars
  <2>3. Done(c)' = Done(c)
    BY <1>1, <2>2, Moves
  <2>4. Count(events', G) = m + (IF e \in G THEN 1 ELSE 0)
    BY <1>1, <1>2, <2>2, SayCounts
  <2>5. e.kind \in {"text", "call", "finish"}
    BY <1>1, <2>1, StagedSpeaks DEF Ordered, Kinds
  <2>6. said \in SaidType
    BY <1>1 DEF Typed
  <2>7. CASE e.kind = "call"
    <3>1. said.parts[e.call] = 0 /\ said' = [said EXCEPT !.parts[e.call] = Parts] /\ e.call \in Calls
      BY <2>1, <2>7 DEF Spoke, SayCall, Begins, GoodEvents
    <3>2. said'.parts[c] = IF e.call = c THEN Parts ELSE said.parts[c]
      BY <2>6, <3>1 DEF SaidType
    <3>3. e \in G <=> e.call = c
      BY <2>7 DEF CallEvents
    <3> QED BY <1>2, <2>3, <2>4, <3>1, <3>2, <3>3, Constants
  <2>8. CASE e.kind = "text"
    <3>1. said'.parts = said.parts
      BY <2>1, <2>6, <2>8 DEF Spoke, SayText, SaidType
    <3>2. e \notin G
      BY <2>8 DEF CallEvents
    <3> QED BY <1>2, <2>3, <2>4, <3>1, <3>2
  <2>9. CASE e.kind = "finish"
    <3>1. said'.parts = said.parts
      BY <2>1, <2>6, <2>9 DEF Spoke, SayFinish, SaidType
    <3>2. e \notin G
      BY <2>9 DEF CallEvents
    <3> QED BY <1>2, <2>3, <2>4, <3>1, <3>2
  <2> QED BY <2>5, <2>7, <2>8, <2>9
<1>4. CASE Interrupts
  <2>1. UNCHANGED <<toSend, chunks, got, said>>
    BY <1>4 DEF workerVars, readVars, Interrupts, SayError, BodyEnds, BodyBreaks, Cancel, StopParsing,
                serverVars
  <2>2. Done(c)' = Done(c)
    BY <1>1, <2>1, Moves
  <2>3. Count(events', G) = m
    <3>1. ErrorEvent \in GoodEvents /\ ErrorEvent \notin G
      BY <1>1, <1>4, Interrupted DEF CallEvents
    <3>2. CASE events' = events
      BY <1>2, <3>2
    <3>3. CASE events' = Append(events, ErrorEvent)
      BY <1>1, <1>2, <3>1, <3>3, SayCounts
    <3> QED BY <1>1, <1>4, <3>2, <3>3, Interrupted
  <2> QED BY <1>2, <2>1, <2>2, <2>3
<1>5. CASE TakeEvent
  <2>1. PICK e \in GoodEvents : e = Head(events) /\ e = events[1] /\ 1 \in 1..Len(events)
    BY <1>1, <1>5, TakenAt
  <2>2. m = Count(events', G) + (IF e \in G THEN 1 ELSE 0) /\ Count(events', G) \in Nat
    <3>1. Count(events', G) \in Nat
      BY <1>1, CountFinite DEF Typed
    <3> QED BY <1>1, <1>2, <1>5, <2>1, <3>1, TakeCounts
  <2>3. toSend = <<>> /\ said' = said /\ (TakeGemini(e) \/ TakeOllama(e))
    BY <1>5, <2>1 DEF TakeEvent, serverVars
  <2>4. e.kind \in {"text", "call", "finish", "error"}
    <3>1. e.kind \in Kinds(Format)
      BY <2>1 DEF Ordered, Placed
    <3> QED BY <3>1 DEF Kinds
  <2>5. /\ toSend' \in Seq(WholeChunks)
        /\ Count(toSend', CallChunks(c)) = IF e.kind = "call" /\ e.call = c THEN 1 ELSE 0
    BY <1>1, <2>3, <2>4, SendsCalls
  <2>6. Done(c)' = d + Count(toSend', CallChunks(c))
    BY <1>1, <1>2, <1>5, <2>5, DoneTakes
  <2>7. e \in G <=> e.kind = "call" /\ e.call = c
    BY <2>1 DEF CallEvents
  <2> QED BY <1>2, <2>2, <2>3, <2>5, <2>6, <2>7
<1>6. CASE SendChunk \/ Receive \/ CloseChunks \/ EndReading \/ UNCHANGED vars
  <2>1. UNCHANGED <<events, said>> /\ (SendChunk \/ Receive \/ UNCHANGED <<toSend, chunks, got>>)
    BY <1>6 DEF SendChunk, Receive, CloseChunks, EndReading, vars, workerVars, readVars, serverVars
  <2>2. Done(c)' = Done(c)
    BY <1>1, <2>1, Moves
  <2> QED BY <1>2, <2>1, <2>2
<1> QED BY <1>3, <1>4, <1>5, <1>6, Streaming

-----------------------------------------------------------------------------
(* Calls that come in fragments, any of them next: the chat format *)

LEMMA FinishSaid ==
  ASSUME Typed, NEW e \in GoodEvents, events' = Append(events, e)
  PROVE  /\ e.kind = "finish" => ~FinishTaken'
         /\ e.kind # "finish" /\ (stage' \in Late <=> stage \in Late) => (FinishTaken' <=> FinishTaken)
<1>1. PICK n \in Nat :
        /\ n = Len(events) /\ Len(events') = n + 1
        /\ \A i \in 1..n : events'[i] = events[i]
        /\ events'[n + 1] = e
  BY SaidAt
<1>2. n + 1 \in 1..(n + 1) /\ \A i \in 1..n : i \in 1..(n + 1)
  OBVIOUS
<1>3. \A i \in 1..(n + 1) : i \in 1..n \/ i = n + 1
  OBVIOUS
<1>4. (\A i \in 1..(n + 1) : events'[i].kind # "finish")
        <=> e.kind # "finish" /\ \A i \in 1..n : events[i].kind # "finish"
  BY <1>1, <1>2, <1>3
<1> QED BY <1>1, <1>4 DEF FinishTaken

LEMMA FinishHead ==
  ASSUME Typed, TakeEvent, events[1].kind # "finish"
  PROVE  FinishTaken' <=> FinishTaken
<1>1. PICK n \in Nat :
        /\ Len(events) = n + 1 /\ Len(events') = n
        /\ \A i \in 1..n : events'[i] = events[i + 1]
  <2>1. /\ Len(events) - 1 \in Nat /\ Len(events) = (Len(events) - 1) + 1
        /\ Len(events') = Len(events) - 1 /\ \A i \in 1..(Len(events) - 1) : events'[i] = events[i + 1]
    BY TakenAt
  <2> QED BY <2>1
<1>2. \A i \in 1..n : i + 1 \in 1..(n + 1)
  OBVIOUS
<1>3. \A k \in 1..(n + 1) : k = 1 \/ (k - 1 \in 1..n /\ k = (k - 1) + 1)
  OBVIOUS
<1>4. (\A i \in 1..n : events'[i].kind # "finish") <=> \A k \in 1..(n + 1) : events[k].kind # "finish"
  <2>1. ASSUME \A i \in 1..n : events'[i].kind # "finish", NEW k \in 1..(n + 1)
        PROVE  events[k].kind # "finish"
    <3>1. CASE k = 1
      BY <3>1
    <3>2. CASE k - 1 \in 1..n /\ k = (k - 1) + 1
      BY <1>1, <2>1, <3>2
    <3> QED BY <1>3, <3>1, <3>2
  <2>2. ASSUME \A k \in 1..(n + 1) : events[k].kind # "finish", NEW i \in 1..n
        PROVE  events'[i].kind # "finish"
    BY <1>1, <1>2, <2>2
  <2> QED BY <2>1, <2>2
<1>5. stage' = stage
  BY DEF TakeEvent, serverVars
<1> QED BY <1>1, <1>4, <1>5 DEF FinishTaken

\* A call of which the goroutine has the first m fragments.
First(c, m) == [id |-> IF m = 0 THEN 0 ELSE c, parts |-> [k \in 1..m |-> k]]

\* Until its finish is taken, a response's calls are in the accumulator, which has the first
\* fragments of each, and the others are in the queue; after that each has left once.
ChatCall(c) ==
  IF FinishTaken THEN Done(c) = IF said.parts[c] # 0 THEN 1 ELSE 0
  ELSE /\ Done(c) = 0
       /\ \E m \in 0..Parts :
            acc[c] = First(c, m) /\ Window(events, Block(c), m + 1, said.parts[c] + 1)
ChatCalls == Format = "chat" => \A c \in Calls : ChatCall(c)

LEMMA PrefixIs ==
  ASSUME NEW m \in 0..Parts
  PROVE  /\ [k \in 1..m |-> k] \in Seq(Nat) /\ Len([k \in 1..m |-> k]) = m
         /\ Append([k \in 1..m |-> k], m + 1) = [k \in 1..(m + 1) |-> k]
         /\ [k \in 1..0 |-> k] = <<>>
<1>1. \A j \in 0..Parts : [k \in 1..j |-> k] \in Seq(Nat) /\ Len([k \in 1..j |-> k]) = j
  BY Constants, IsASeq
<1>2. PICK s \in Seq(Nat) : s = [k \in 1..m |-> k] /\ Len(s) = m /\ \A i \in 1..m : s[i] = i
  BY <1>1
<1>3. /\ Append(s, m + 1) \in Seq(Nat) /\ Len(Append(s, m + 1)) = m + 1
      /\ \A i \in 1..m : Append(s, m + 1)[i] = s[i]
      /\ Append(s, m + 1)[m + 1] = m + 1
  BY <1>2, AppendProperties, Constants
<1>4. \A i \in 1..(m + 1) : Append(s, m + 1)[i] = i
  <2>1. \A i \in 1..(m + 1) : i \in 1..m \/ i = m + 1
    OBVIOUS
  <2> QED BY <1>2, <1>3, <2>1
<1>5. Append(s, m + 1) = [k \in 1..(m + 1) |-> Append(s, m + 1)[k]]
  BY <1>3, LenProperties
<1>6. [k \in 1..0 |-> k] = <<>>
  <2>1. [k \in 1..0 |-> k] \in Seq(Nat) /\ Len([k \in 1..0 |-> k]) = 0
    BY <1>1, Constants
  <2> QED BY <2>1, EmptySeq
<1> QED BY <1>1, <1>2, <1>4, <1>5, <1>6

LEMMA GrownBy ==
  ASSUME NEW id, NEW parts, NEW part
  PROVE  Grown([id |-> id, parts |-> parts], part) = [id |-> id, parts |-> Append(parts, part)]
<1>1. \A q : [[id |-> id, parts |-> parts] EXCEPT !.parts = q] = [id |-> id, parts |-> q]
  OBVIOUS
<1> QED BY <1>1 DEF Grown

LEMMA FirstIs ==
  ASSUME NEW c \in Calls
  PROVE  /\ First(c, 0) = NoCall /\ First(c, Parts) = TheCall(c)
         /\ \A m \in 0..Parts : Len(First(c, m).parts) = m /\ First(c, m).id = IF m = 0 THEN 0 ELSE c
         /\ \A m \in 0..Parts, e \in GoodEvents :
              e.part = m + 1 /\ e.call = c => Accumulated(First(c, m), e) = First(c, m + 1)
<1>1. \A m \in 0..Parts : [k \in 1..m |-> k] \in Seq(Nat) /\ Len([k \in 1..m |-> k]) = m
  BY PrefixIs
<1>2. First(c, 0) = NoCall
  BY PrefixIs, Constants DEF First, NoCall
<1>3. First(c, Parts) = TheCall(c)
  BY Constants DEF First, TheCall
<1>4. ASSUME NEW m \in 0..Parts, NEW e \in GoodEvents, e.part = m + 1, e.call = c
      PROVE  Accumulated(First(c, m), e) = First(c, m + 1)
  <2>1. Append([k \in 1..m |-> k], m + 1) = [k \in 1..(m + 1) |-> k]
    BY PrefixIs
  <2>2. e.part = 1 <=> m = 0
    BY <1>4, Constants
  <2>3. Grown(IF e.part = 1 THEN [First(c, m) EXCEPT !.id = e.call] ELSE First(c, m), e.part)
          = [id |-> c, parts |-> Append([k \in 1..m |-> k], m + 1)]
    <3> PICK t \in Seq(Nat) : t = [k \in 1..m |-> k]
      BY <1>1
    <3>1. First(c, m) = [id |-> IF m = 0 THEN 0 ELSE c, parts |-> t]
      BY DEF First
    <3>2. (IF e.part = 1 THEN [First(c, m) EXCEPT !.id = e.call] ELSE First(c, m))
            = [id |-> c, parts |-> t]
      BY <1>4, <2>2, <3>1
    <3>3. Grown([id |-> c, parts |-> t], m + 1) = [id |-> c, parts |-> Append(t, m + 1)]
      BY GrownBy
    <3> QED BY <1>4, <3>2, <3>3
  <2>4. m + 1 # 0
    BY Constants
  <2> QED BY <2>1, <2>3, <2>4 DEF Accumulated, First
<1> QED BY <1>1, <1>2, <1>3, <1>4 DEF First

\* AllWhole, when what the goroutine sends next is whole.
LEMMA WholeStep ==
  ASSUME Typed, phase = "open", AllWhole, [Next]_vars, TakeEvent => toSend' \in Seq(WholeChunks)
  PROVE  AllWhole'
<1>1. CASE TakeEvent
  BY <1>1, DoneTakes
<1>2. CASE Respond
  BY <1>2, Speaks, Moves DEF Spoke, Say, workerVars, readVars
<1>3. CASE Interrupts
  BY <1>3, Interrupted, Moves DEF workerVars, readVars
<1>4. CASE SendChunk \/ Receive \/ CloseChunks \/ EndReading \/ UNCHANGED vars
  <2>1. SendChunk \/ Receive \/ UNCHANGED <<toSend, chunks, got>>
    BY <1>4 DEF CloseChunks, EndReading, vars, workerVars, readVars
  <2> QED BY <2>1, Moves
<1> QED BY <1>1, <1>2, <1>3, <1>4, Streaming

LEMMA ChatSpeaks ==
  ASSUME Typed, Ordered, AllWhole, Format = "chat", Format' = Format, NEW e \in GoodEvents, Spoke(e),
         NEW c \in Calls, ChatCall(c)
  PROVE  ChatCall(c)'
<1>1. /\ Format \in Formats /\ events' = Append(events, e) /\ UNCHANGED <<acc, toSend, chunks, got>>
      /\ said \in SaidType
  BY DEF Spoke, Say, workerVars, readVars, Typed, Formats
<1>2. /\ e.kind \in {"text", "part", "finish", "usage", "end"}
      /\ stage \in Late => e.kind \in Final /\ stage' \in Late
      /\ stage' \in Late /\ stage \notin Late => e.kind = "finish"
  BY <1>1, StagedSpeaks DEF Ordered, Kinds
<1>3. Done(c)' = Done(c)
  BY <1>1, Moves
<1>4. Block(c)' = Block(c) /\ \A m : First(c, m)' = First(c, m)
  OBVIOUS
<1>5. /\ e.kind = "finish" => ~FinishTaken' /\ ~FinishTaken
      /\ e.kind # "finish" => (FinishTaken' <=> FinishTaken)
      /\ e.kind = "part" => ~FinishTaken
  BY <1>1, <1>2, FinishSaid DEF FinishTaken, Final
<1>6. CASE ~(e.kind = "part" /\ e.call = c)
  <2>1. said'.parts[c] = said.parts[c]
    <3>1. CASE e.kind = "text"
      BY <1>1, <3>1 DEF Spoke, SayText, SaidType
    <3>2. CASE e.kind = "finish"
      <4>1. PICK b \in BOOLEAN : said' = [said EXCEPT !.reported = b]
        BY <3>2 DEF Spoke, SayFinish
      <4> QED BY <1>1, <4>1 DEF SaidType
    <3>3. CASE e.kind \in {"usage", "end"}
      BY <1>1, <3>3 DEF Spoke, SayUsage, SayEnd, SaidType
    <3>4. CASE e.kind = "part"
      <4>1. e.call \in Calls /\ e.call # c
        BY <1>6, <3>4 DEF GoodEvents
      <4>2. said' = [said EXCEPT !.parts[e.call] = said.parts[e.call] + 1]
        BY <3>4 DEF Spoke, SayPart
      <4> QED BY <1>1, <4>1, <4>2 DEF SaidType
    <3> QED BY <1>2, <3>1, <3>2, <3>3, <3>4
  <2>2. CASE FinishTaken
    BY <1>3, <1>5, <2>1, <2>2 DEF ChatCall
  <2>3. CASE ~FinishTaken
    <3>1. PICK m \in 0..Parts :
            acc[c] = First(c, m) /\ Window(events, Block(c), m + 1, said.parts[c] + 1)
      BY <2>3 DEF ChatCall
    <3>2. PICK s \in Seq(GoodEvents), hi \in Nat, lo \in Nat :
            s = events /\ hi = said.parts[c] + 1 /\ lo = m + 1
      BY <1>1 DEF Typed, SaidType
    <3>3. e \notin Block(c)
      BY <1>2, <1>6 DEF Block
    <3>4. Window(Append(s, e), Block(c), lo, hi)
      BY <3>1, <3>2, <3>3, WindowAppend
    <3>5. Window(events', Block(c), m + 1, said'.parts[c] + 1)
      BY <1>1, <2>1, <3>2, <3>4
    <3>6. acc'[c] = First(c, m) /\ Done(c)' = 0 /\ ~FinishTaken'
      BY <1>1, <1>3, <1>5, <2>3, <3>1 DEF ChatCall
    <3> QED BY <3>5, <3>6 DEF ChatCall
  <2> QED BY <2>2, <2>3
<1>7. CASE e.kind = "part" /\ e.call = c
  <2>1. said'.parts[c] = said.parts[c] + 1 /\ e.part = said.parts[c] + 1
    BY <1>1, <1>7 DEF Spoke, SayPart, SaidType
  <2>2. PICK m \in 0..Parts :
          acc[c] = First(c, m) /\ Window(events, Block(c), m + 1, said.parts[c] + 1)
    BY <1>5, <1>7 DEF ChatCall
  <2>3. PICK s \in Seq(GoodEvents), hi \in Nat, lo \in Nat :
          s = events /\ hi = said.parts[c] + 1 /\ lo = m + 1
    BY <1>1 DEF Typed, SaidType
  <2>4. e \in Block(c) /\ Pos(e) = hi + 1
    BY <1>7, <2>1, <2>3 DEF Block, Pos
  <2>5. Window(Append(s, e), Block(c), lo, hi + 1)
    BY <2>2, <2>3, <2>4, WindowAppend
  <2>6. Window(events', Block(c), m + 1, said'.parts[c] + 1)
    BY <1>1, <2>1, <2>3, <2>5
  <2>7. acc'[c] = First(c, m) /\ Done(c)' = 0 /\ ~FinishTaken'
    BY <1>1, <1>3, <1>5, <1>7, <2>2 DEF ChatCall
  <2> QED BY <2>6, <2>7 DEF ChatCall
<1> QED BY <1>6, <1>7

\* When the goroutine takes the finish, the accumulator has all of every call.
LEMMA ChatFinish ==
  ASSUME Typed, Ordered, ChatCalls, Format = "chat", TakeEvent, events[1].kind = "finish"
  PROVE  /\ FinishTaken' /\ ~FinishTaken
         /\ \A d \in Calls : /\ acc[d] = IF said.parts[d] # 0 THEN TheCall(d) ELSE NoCall
                             /\ acc[d] # NoCall => acc[d] = TheCall(d)
                             /\ Done(d) = 0
<1>1. /\ 1 \in 1..Len(events) /\ Len(events) \in Nat
      /\ Len(events') = Len(events) - 1 /\ \A i \in 1..(Len(events) - 1) : events'[i] = events[i + 1]
  BY TakenAt
<1>2. stage \in Late /\ stage' = stage
  BY <1>1 DEF Ordered, Placed, TakeEvent, serverVars
<1>3. \A j \in 1..Len(events) : 1 < j => events[j].kind \in Final
  BY <1>1 DEF Ordered, Sorted
<1>4. \A i \in 1..(Len(events) - 1) : i + 1 \in 1..Len(events) /\ 1 < i + 1
  BY <1>1
<1>5. FinishTaken' /\ ~FinishTaken
  BY <1>1, <1>2, <1>3, <1>4 DEF FinishTaken, Final
<1>6. ASSUME NEW d \in Calls
      PROVE  /\ acc[d] = IF said.parts[d] # 0 THEN TheCall(d) ELSE NoCall
             /\ acc[d] # NoCall => acc[d] = TheCall(d)
             /\ Done(d) = 0
  <2>1. PICK m \in 0..Parts :
          acc[d] = First(d, m) /\ Window(events, Block(d), m + 1, said.parts[d] + 1)
    BY <1>5 DEF ChatCalls, ChatCall
  <2>2. said.parts[d] \in {0, Parts}
    BY <1>2 DEF Ordered, Staged
  <2>3. \A i \in 1..Len(events) : events[i] \notin Block(d)
    <3>1. \A i \in 1..Len(events) : i = 1 \/ 1 < i
      BY <1>1
    <3> QED BY <1>3, <3>1 DEF Block, Final
  <2>4. m = said.parts[d]
    <3>1. PICK s \in Seq(GoodEvents), hi \in Nat, lo \in Nat :
            s = events /\ hi = said.parts[d] + 1 /\ lo = m + 1
      BY <2>2, Constants DEF Typed
    <3>2. PICK G : G = Block(d)
      OBVIOUS
    <3>3. (\A i \in 1..Len(s) : s[i] \notin G) /\ Window(s, G, lo, hi)
      BY <2>1, <2>3, <3>1, <3>2
    <3>4. lo = hi
      BY <3>3, WindowEmpty
    <3> QED BY <2>2, <3>1, <3>4, Constants
  <2>5. acc[d] = IF said.parts[d] # 0 THEN TheCall(d) ELSE NoCall
    BY <2>1, <2>2, <2>4, FirstIs
  <2>6. Done(d) = 0
    BY <1>5 DEF ChatCalls, ChatCall
  <2> QED BY <2>5, <2>6
<1> QED BY <1>5, <1>6

\* What the goroutine sends is whole, in the formats other than Anthropic's.
LEMMA OthersSend ==
  ASSUME Typed, Ordered, ChatCalls, Format \in {"chat", "gemini", "ollama"}, TakeEvent
  PROVE  toSend' \in Seq(WholeChunks)
<1>1. PICK e \in GoodEvents : e = Head(events) /\ e = events[1] /\ 1 \in 1..Len(events)
  BY TakenAt
<1>2. /\ toSend = <<>>
      /\ Format = "chat" => TakeChat(e)
      /\ Format \in {"gemini", "ollama"} => TakeGemini(e) \/ TakeOllama(e)
  BY <1>1 DEF TakeEvent
<1>3. e.kind # "block_stop"
  BY <1>1 DEF Ordered, Placed, Kinds
<1>4. CASE Format = "chat"
  <2>1. e.kind = "finish" => \A d \in Calls : acc[d] # NoCall => acc[d] = TheCall(d)
    BY <1>1, <1>4, ChatFinish
  <2> QED BY <1>2, <1>3, <1>4, <2>1, SendsCalls
<1>5. CASE Format \in {"gemini", "ollama"}
  BY <1>2, <1>3, <1>5, SendsCalls
<1> QED BY <1>4, <1>5

LEMMA ChatTakes ==
  ASSUME Typed, Ordered, AllWhole, ChatCalls, Format = "chat", TakeEvent, NEW c \in Calls
  PROVE  ChatCall(c)' /\ toSend' \in Seq(WholeChunks)
<1>1. PICK e \in GoodEvents : e = Head(events) /\ e = events[1] /\ 1 \in 1..Len(events)
  BY TakenAt
<1>2. toSend = <<>> /\ said' = said /\ TakeChat(e) /\ events' = Tail(events) /\ events # <<>>
  BY <1>1 DEF TakeEvent, serverVars
<1>3. e.kind \in {"text", "part", "finish", "usage", "end", "error"}
  <2>1. e.kind \in Kinds(Format)
    BY <1>1 DEF Ordered, Placed
  <2> QED BY <2>1 DEF Kinds
<1>4. Done(c) \in Nat /\ said \in SaidType
  BY DoneIs DEF Typed
<1>5. CASE e.kind = "finish"
  <2>1. /\ FinishTaken' /\ Done(c) = 0
        /\ acc[c] = IF said.parts[c] # 0 THEN TheCall(c) ELSE NoCall
        /\ \A d \in Calls : acc[d] # NoCall => acc[d] = TheCall(d)
    BY <1>1, <1>5, ChatFinish
  <2>2. /\ toSend' \in Seq(WholeChunks)
        /\ Count(toSend', CallChunks(c)) = IF acc[c] # NoCall THEN 1 ELSE 0
    BY <1>2, <1>5, <2>1, SendsCalls
  <2>3. Done(c)' = Done(c) + Count(toSend', CallChunks(c))
    BY <2>2, DoneTakes
  <2>4. acc[c] # NoCall <=> said.parts[c] # 0
    BY <2>1, TheCallIs
  <2>5. Done(c)' = IF said.parts[c] # 0 THEN 1 ELSE 0
    BY <2>1, <2>2, <2>3, <2>4
  <2> QED BY <1>2, <2>1, <2>2, <2>5 DEF ChatCall
<1>6. CASE e.kind # "finish"
  <2>1. FinishTaken' <=> FinishTaken
    BY <1>1, <1>6, FinishHead
  <2>2. toSend' \in Seq(WholeChunks) /\ Count(toSend', CallChunks(c)) = 0
    BY <1>2, <1>3, <1>6, SendsCalls
  <2>3. Done(c)' = Done(c)
    <3>1. Done(c)' = Done(c) + Count(toSend', CallChunks(c))
      BY <2>2, DoneTakes
    <3> QED BY <1>4, <2>2, <3>1
  <2>4. CASE FinishTaken
    BY <1>2, <2>1, <2>2, <2>3, <2>4 DEF ChatCalls, ChatCall
  <2>5. CASE ~FinishTaken
    <3>1. PICK m \in 0..Parts :
            acc[c] = First(c, m) /\ Window(events, Block(c), m + 1, said.parts[c] + 1)
      BY <2>5 DEF ChatCalls, ChatCall
    <3>a. said.parts[c] \in 0..Parts
      BY <1>4 DEF SaidType
    <3>b. said.parts[c] + 1 \in Nat /\ m + 1 \in Nat
      BY <3>a, Constants
    <3>c. events \in Seq(GoodEvents) /\ events # <<>> /\ e = Head(events)
      BY <1>1, <1>2 DEF Typed
    <3>2. PICK s \in Seq(GoodEvents), hi \in Nat, lo \in Nat :
            s = events /\ s # <<>> /\ e = Head(s) /\ hi = said.parts[c] + 1 /\ lo = m + 1
      BY <3>b, <3>c
    <3>3. /\ e \in Block(c) => Pos(e) = lo + 1 /\ lo < hi /\ Window(Tail(s), Block(c), lo + 1, hi)
          /\ e \notin Block(c) => Window(Tail(s), Block(c), lo, hi)
      BY <3>1, <3>2, WindowTail
    <3>4. Done(c)' = 0 /\ ~FinishTaken'
      BY <2>1, <2>3, <2>5 DEF ChatCalls, ChatCall
    <3>5. acc \in [0..MaxCalls -> CallType] /\ c \in 0..MaxCalls
      BY Constants DEF Typed
    <3>6. CASE e \in Block(c)
      <4>1. e.kind = "part" /\ e.call = c
        BY <1>3, <3>6 DEF Block
      <4>2. e.part = m + 1 /\ m + 1 \in 0..Parts
        <5>1. Pos(e) = e.part + 1 /\ e.part \in Nat
          BY <4>1 DEF Pos, GoodEvents, EventType
        <5>2. m + 1 < said.parts[c] + 1 /\ said.parts[c] \in 0..Parts
          BY <1>4, <3>2, <3>3, <3>6 DEF SaidType
        <5>3. e.part = m + 1
          BY <3>2, <3>3, <3>6, <5>1
        <5> QED BY <5>2, <5>3, Constants
      <4>3. acc' = [acc EXCEPT ![c] = Accumulated(acc[c], e)]
        BY <1>2, <4>1 DEF TakeChat
      <4>4. acc'[c] = First(c, m + 1)
        BY <3>1, <3>5, <4>1, <4>2, <4>3, FirstIs
      <4>5. Window(events', Block(c), m + 1 + 1, said'.parts[c] + 1)
        BY <1>2, <3>2, <3>3, <3>6
      <4> QED BY <2>2, <3>4, <4>2, <4>4, <4>5 DEF ChatCall
    <3>7. CASE e \notin Block(c)
      <4>1. acc'[c] = acc[c]
        <5>1. CASE e.kind = "part"
          <6>1. e.call # c /\ acc' = [acc EXCEPT ![e.call] = Accumulated(acc[e.call], e)]
            BY <1>2, <3>7, <5>1 DEF TakeChat, Block
          <6> QED BY <3>5, <6>1
        <5>2. CASE e.kind \in {"text", "usage", "end", "error"}
          BY <1>2, <5>2 DEF TakeChat
        <5> QED BY <1>3, <1>6, <5>1, <5>2
      <4>2. Window(events', Block(c), m + 1, said'.parts[c] + 1)
        BY <1>2, <3>2, <3>3, <3>7
      <4> QED BY <2>2, <3>1, <3>4, <4>1, <4>2 DEF ChatCall
    <3> QED BY <3>6, <3>7
  <2> QED BY <2>4, <2>5
<1> QED BY <1>5, <1>6

LEMMA ChatStep ==
  ASSUME Opened, phase = "open", Ordered, AllWhole, ChatCalls, [Next]_vars, Format = "chat",
         NEW c \in Calls
  PROVE  ChatCall(c)'
<1>1. Typed /\ Format' = Format /\ ChatCall(c)
  BY Streaming DEF Opened, ChatCalls
<1>2. CASE Respond
  BY <1>1, <1>2, Speaks, ChatSpeaks
<1>3. CASE Interrupts
  <2>1. UNCHANGED <<toSend, chunks, got, said, stage, acc>>
    BY <1>3 DEF workerVars, readVars, Interrupts, SayError, BodyEnds, BodyBreaks, Cancel, StopParsing,
                serverVars
  <2>2. Done(c)' = Done(c)
    BY <1>1, <2>1, Moves
  <2>3. CASE events' = events
    BY <1>1, <2>1, <2>2, <2>3 DEF ChatCall, FinishTaken
  <2>4. CASE events' = Append(events, ErrorEvent)
    <3>1. PICK e \in GoodEvents : e = ErrorEvent /\ e.kind = "error"
      BY <1>1, <1>3, Interrupted
    <3>2. FinishTaken' <=> FinishTaken
      BY <1>1, <2>1, <2>4, <3>1, FinishSaid
    <3>3. CASE FinishTaken
      BY <1>1, <2>1, <2>2, <3>2, <3>3 DEF ChatCall
    <3>4. CASE ~FinishTaken
      <4>1. PICK m \in 0..Parts :
              acc[c] = First(c, m) /\ Window(events, Block(c), m + 1, said.parts[c] + 1)
        BY <1>1, <3>4 DEF ChatCall
      <4>2. PICK s \in Seq(GoodEvents), hi \in Nat, lo \in Nat :
              s = events /\ hi = said.parts[c] + 1 /\ lo = m + 1
        BY <1>1 DEF Typed, SaidType
      <4>3. e \notin Block(c)
        BY <3>1 DEF Block
      <4>4. Window(Append(s, e), Block(c), lo, hi)
        BY <4>1, <4>2, <4>3, WindowAppend
      <4>5. Window(events', Block(c), m + 1, said'.parts[c] + 1)
        BY <2>1, <2>4, <3>1, <4>2, <4>4
      <4> QED BY <1>1, <2>1, <2>2, <3>2, <3>4, <4>1, <4>5 DEF ChatCall
    <3> QED BY <3>3, <3>4
  <2> QED BY <1>1, <1>3, <2>3, <2>4, Interrupted
<1>4. CASE TakeEvent
  BY <1>1, <1>4, ChatTakes
<1>5. CASE SendChunk \/ Receive \/ CloseChunks \/ EndReading \/ UNCHANGED vars
  <2>1. UNCHANGED <<events, said, stage, acc>>
        /\ (SendChunk \/ Receive \/ UNCHANGED <<toSend, chunks, got>>)
    BY <1>5 DEF SendChunk, Receive, CloseChunks, EndReading, vars, workerVars, readVars, serverVars
  <2>2. Done(c)' = Done(c)
    BY <1>1, <2>1, Moves
  <2> QED BY <1>1, <2>1, <2>2 DEF ChatCall, FinishTaken
<1> QED BY <1>2, <1>3, <1>4, <1>5, Streaming

-----------------------------------------------------------------------------
(* Calls that come in blocks, one at a time: Anthropic *)

Fragments(e) == e.kind \in {"block_start", "part", "block_stop"}

\* How far call c has come in the accumulator, and in what the provider has said.
Taken(c) ==
  IF acc[0].id = c THEN Len(acc[0].parts) + 1 ELSE IF Done(c) > 0 THEN Parts + 2 ELSE 0
SaidPos(c) ==
  IF said.block = c THEN said.parts[c] + 1 ELSE IF said.parts[c] = Parts THEN Parts + 2 ELSE 0

\* The accumulator has the first fragments of one call.
OneBlock == \E m \in 0..Parts : acc[0] = [id |-> acc[0].id, parts |-> [k \in 1..m |-> k]]

\* The blocks are opened in order, each after the one before is closed.
SaidInTurn ==
  \A c \in Calls :
    /\ said.block # c => said.parts[c] \in {0, Parts}
    /\ SaidPos(c) > 0 => \A d \in Calls : d < c => said.parts[d] = Parts /\ said.block # d

QueueInTurn ==
  \A i \in 1..Len(events) : Fragments(events[i]) =>
    /\ acc[0].id <= events[i].call
    /\ \A j \in 1..Len(events) : i < j /\ Fragments(events[j]) => events[i].call <= events[j].call

\* The events of a call that the goroutine has not taken are in the queue, in order.
BlockCall(c) ==
  /\ Done(c) = 0 \/ (Done(c) = 1 /\ acc[0].id # c)
  /\ Window(events, Block(c), Taken(c), SaidPos(c))

Blocks == OneBlock /\ SaidInTurn /\ QueueInTurn /\ \A c \in Calls : BlockCall(c)
BlockCalls == Format = "anthropic" => Blocks

LEMMA OneBlockIs ==
  ASSUME Typed, OneBlock
  PROVE  /\ acc[0].id \in 0..MaxCalls
         /\ Len(acc[0].parts) \in 0..Parts
         /\ acc[0].parts = [k \in 1..Len(acc[0].parts) |-> k]
         /\ acc[0] = [id |-> acc[0].id, parts |-> acc[0].parts]
<1>1. PICK m \in 0..Parts : acc[0] = [id |-> acc[0].id, parts |-> [k \in 1..m |-> k]]
  BY DEF OneBlock
<1>2. acc[0].parts = [k \in 1..m |-> k]
  BY <1>1
<1>3. Len(acc[0].parts) = m
  BY <1>2, PrefixIs
<1>4. acc[0].id \in 0..MaxCalls
  BY Constants DEF Typed, CallType
<1> QED BY <1>1, <1>2, <1>3, <1>4

LEMMA PlacesAre ==
  ASSUME Typed, OneBlock, NEW c \in Calls
  PROVE  /\ Taken(c) \in Nat /\ SaidPos(c) \in Nat /\ Done(c) \in Nat
         /\ said.parts[c] \in 0..Parts /\ said.block \in 0..MaxCalls
         /\ Taken(c) \in 1..(Parts + 1) <=> acc[0].id = c
<1>1. Done(c) \in Nat /\ Len(acc[0].parts) \in 0..Parts
  BY DoneIs, OneBlockIs
<1>2. said.parts[c] \in 0..Parts /\ said.block \in 0..MaxCalls
  BY DEF Typed, SaidType
<1>3. PICK n \in 0..Parts : n = Len(acc[0].parts)
  BY <1>1
<1>4. Taken(c) = IF acc[0].id = c THEN n + 1 ELSE IF Done(c) > 0 THEN Parts + 2 ELSE 0
  BY <1>3 DEF Taken
<1>5. Taken(c) \in Nat /\ (Taken(c) \in 1..(Parts + 1) <=> acc[0].id = c)
  <2>1. CASE acc[0].id = c
    BY <1>4, <2>1, Constants
  <2>2. CASE acc[0].id # c
    BY <1>4, <2>2, Constants
  <2> QED BY <2>1, <2>2
<1>6. SaidPos(c) \in Nat
  BY <1>2, Constants DEF SaidPos
<1> QED BY <1>1, <1>2, <1>5, <1>6

\* An event of another kind, or of another call.
LEMMA NotInBlock ==
  ASSUME NEW e \in GoodEvents, NEW c
  PROVE  /\ ~Fragments(e) => e \notin Block(c)
         /\ e.call # c => e \notin Block(c)
         /\ Fragments(e) => e \in Block(e.call) /\ e.call \in Calls
BY DEF Fragments, Block, GoodEvents

\* A call with an event in the queue has been begun.
LEMMA QueuedIsSaid ==
  ASSUME Typed, Blocks, NEW i \in 1..Len(events), Fragments(events[i])
  PROVE  events[i].call \in Calls /\ SaidPos(events[i].call) > 0
<1>1. events[i] \in GoodEvents
  BY ElementOfSeq DEF Typed
<1> PICK c \in Calls : c = events[i].call
  BY <1>1, NotInBlock
<1>2. events[i] \in Block(c)
  BY <1>1, NotInBlock
<1>3. Window(events, Block(c), Taken(c), SaidPos(c))
  BY DEF Blocks, BlockCall
<1>4. Pos(events[i]) \in (Taken(c) + 1)..SaidPos(c)
  BY <1>2, <1>3 DEF Window
<1>5. Taken(c) \in Nat /\ SaidPos(c) \in Nat
  BY PlacesAre DEF Blocks
<1> QED BY <1>4, <1>5

\* The block events the provider sends belong to the latest call.
LEMMA BlockSaid ==
  ASSUME Typed, Blocks, NEW e \in GoodEvents, Fragments(e), events' = Append(events, e),
         UNCHANGED acc, \A c \in Calls : Done(c)' = Done(c),
         Pos(e) = SaidPos(e.call) + 1, SaidPos(e.call)' = Pos(e),
         \A c \in Calls : c # e.call => SaidPos(c)' = SaidPos(c),
         \A c \in Calls : SaidPos(c) > 0 => c <= e.call,
         SaidInTurn'
  PROVE  Blocks'
<1>1. e.call \in Calls /\ \A c : c # e.call => e \notin Block(c)
  BY NotInBlock
<1>2. PICK n \in Nat :
        /\ n = Len(events) /\ Len(events') = n + 1
        /\ \A i \in 1..n : events'[i] = events[i] /\ events[i] \in GoodEvents
        /\ events'[n + 1] = e
  BY SaidAt
<1>3. \A i \in 1..(n + 1) : i \in 1..n \/ i = n + 1
  OBVIOUS
<1>4. OneBlock' /\ \A c \in Calls : Taken(c)' = Taken(c)
  BY DEF Blocks, OneBlock, Taken
<1>5. ASSUME NEW c \in Calls PROVE BlockCall(c)'
  <2>1. PICK s \in Seq(GoodEvents), lo \in Nat, hi \in Nat :
          s = events /\ lo = Taken(c) /\ hi = SaidPos(c)
    <3>1. events \in Seq(GoodEvents) /\ Taken(c) \in Nat /\ SaidPos(c) \in Nat
      BY PlacesAre DEF Blocks, Typed
    <3> QED BY <3>1
  <2>2. Window(s, Block(c), lo, hi)
    BY <2>1 DEF Blocks, BlockCall
  <2>3. Window(events', Block(c), Taken(c)', SaidPos(c)')
    <3>1. CASE c = e.call
      <4>1. e \in Block(c) /\ Pos(e) = hi + 1
        BY <2>1, <3>1, NotInBlock
      <4>2. Window(Append(s, e), Block(c), lo, hi + 1)
        BY <2>2, <4>1, WindowAppend
      <4> QED BY <1>4, <2>1, <3>1, <4>1, <4>2
    <3>2. CASE c # e.call
      <4>1. Window(Append(s, e), Block(c), lo, hi)
        BY <1>1, <2>2, <3>2, WindowAppend
      <4> QED BY <1>4, <2>1, <3>2, <4>1
    <3> QED BY <3>1, <3>2
  <2>4. Block(c)' = Block(c)
    OBVIOUS
  <2> QED BY <2>3, <2>4 DEF Blocks, BlockCall
<1>6. QueueInTurn'
  <2>1. acc[0].id <= e.call
    <3>1. acc[0].id \in 0..MaxCalls
      BY OneBlockIs DEF Blocks
    <3>2. CASE acc[0].id = 0
      BY <1>1, <3>2, Constants
    <3>3. CASE acc[0].id # 0
      <4>1. PICK c \in Calls : c = acc[0].id
        BY <3>1, <3>3, Constants
      <4>2. Taken(c) <= SaidPos(c) /\ Taken(c) \in 1..(Parts + 1) /\ SaidPos(c) \in Nat
        BY <4>1, PlacesAre DEF Blocks, BlockCall, Window
      <4>3. SaidPos(c) > 0
        BY <4>2
      <4> QED BY <4>1, <4>3
    <3> QED BY <3>2, <3>3
  <2>2. \A i \in 1..n : Fragments(events[i]) => events[i].call <= e.call
    BY <1>2, QueuedIsSaid
  <2>3. ASSUME NEW i \in 1..(n + 1), Fragments(events'[i])
        PROVE  /\ acc[0].id <= events'[i].call
               /\ \A j \in 1..(n + 1) : i < j /\ Fragments(events'[j]) => events'[i].call <= events'[j].call
    <3>1. CASE i = n + 1
      <4>1. \A j \in 1..(n + 1) : ~(i < j)
        BY <3>1
      <4> QED BY <1>2, <2>1, <3>1, <4>1
    <3>2. CASE i \in 1..n
      <4>1. events'[i] = events[i] /\ acc[0].id <= events[i].call
        BY <1>2, <2>3, <3>2 DEF Blocks, QueueInTurn
      <4>2. ASSUME NEW j \in 1..(n + 1), i < j, Fragments(events'[j])
            PROVE  events'[i].call <= events'[j].call
        <5>1. CASE j = n + 1
          BY <1>2, <2>2, <2>3, <3>2, <4>1, <5>1
        <5>2. CASE j \in 1..n
          BY <1>2, <2>3, <3>2, <4>1, <4>2, <5>2 DEF Blocks, QueueInTurn
        <5> QED BY <1>3, <5>1, <5>2
      <4> QED BY <4>1, <4>2
    <3> QED BY <1>3, <3>1, <3>2
  <2> QED BY <1>2, <2>3 DEF QueueInTurn
<1> QED BY <1>4, <1>5, <1>6 DEF Blocks

\* An event of another kind at the end of the queue.
LEMMA BlockOtherSaid ==
  ASSUME Typed, Blocks, NEW e \in GoodEvents, ~Fragments(e), events' = Append(events, e),
         UNCHANGED acc, \A c \in Calls : Done(c)' = Done(c), said'.parts = said.parts,
         said'.block = said.block
  PROVE  Blocks'
<1>1. \A c : e \notin Block(c)
  BY NotInBlock
<1>2. PICK n \in Nat :
        /\ n = Len(events) /\ Len(events') = n + 1
        /\ \A i \in 1..n : events'[i] = events[i] /\ events[i] \in GoodEvents
        /\ events'[n + 1] = e
  BY SaidAt
<1>3. \A i \in 1..(n + 1) : Fragments(events'[i]) => i \in 1..n
  <2>1. \A i \in 1..(n + 1) : i \in 1..n \/ i = n + 1
    OBVIOUS
  <2> QED BY <1>2, <2>1
<1>4. OneBlock' /\ \A c \in Calls : Taken(c)' = Taken(c) /\ SaidPos(c)' = SaidPos(c)
  BY DEF Blocks, OneBlock, Taken, SaidPos
<1>5. ASSUME NEW c \in Calls PROVE BlockCall(c)'
  <2>1. PICK s \in Seq(GoodEvents), lo \in Nat, hi \in Nat :
          s = events /\ lo = Taken(c) /\ hi = SaidPos(c)
    <3>1. events \in Seq(GoodEvents) /\ Taken(c) \in Nat /\ SaidPos(c) \in Nat
      BY PlacesAre DEF Blocks, Typed
    <3> QED BY <3>1
  <2>2. Window(s, Block(c), lo, hi)
    BY <2>1 DEF Blocks, BlockCall
  <2>3. Window(Append(s, e), Block(c), lo, hi)
    BY <1>1, <2>2, WindowAppend
  <2>4. Block(c)' = Block(c)
    OBVIOUS
  <2> QED BY <1>4, <2>1, <2>3, <2>4 DEF Blocks, BlockCall
<1>6. SaidInTurn'
  BY <1>4 DEF Blocks, SaidInTurn
<1>7. QueueInTurn'
  <2>1. ASSUME NEW i \in 1..(n + 1), Fragments(events'[i])
        PROVE  /\ acc[0].id <= events'[i].call
               /\ \A j \in 1..(n + 1) : i < j /\ Fragments(events'[j]) => events'[i].call <= events'[j].call
    BY <1>2, <1>3, <2>1 DEF Blocks, QueueInTurn
  <2> QED BY <1>2, <2>1 DEF QueueInTurn
<1> QED BY <1>4, <1>5, <1>6, <1>7 DEF Blocks

LEMMA BlockSpeaks ==
  ASSUME Typed, Ordered, AllWhole, Blocks, Format = "anthropic", Format' = Format,
         NEW e \in GoodEvents, Spoke(e)
  PROVE  Blocks'
<1>1. /\ Format \in Formats /\ events' = Append(events, e) /\ UNCHANGED <<acc, toSend, chunks, got>>
      /\ said \in SaidType /\ said.block \in 0..MaxCalls
      /\ \A c \in Calls : said.parts[c] \in 0..Parts
  BY DEF Spoke, Say, workerVars, readVars, Typed, Formats, SaidType
<1>2. e.kind \in {"start", "text", "block_start", "part", "block_stop", "finish", "end"}
  BY <1>1, StagedSpeaks DEF Ordered, Kinds
<1>3. \A c \in Calls : Done(c)' = Done(c)
  BY <1>1, Moves
<1>4. ASSUME e.kind \in {"start", "text", "finish", "end"} PROVE Blocks'
  <2>1. said'.parts = said.parts /\ said'.block = said.block
    <3>1. CASE e.kind = "text"
      BY <1>1, <3>1 DEF Spoke, SayText, SaidType
    <3>2. CASE e.kind = "finish"
      <4>1. PICK b \in BOOLEAN : said' = [said EXCEPT !.reported = b]
        BY <3>2 DEF Spoke, SayFinish
      <4> QED BY <1>1, <4>1 DEF SaidType
    <3>3. CASE e.kind \in {"start", "end"}
      BY <3>3 DEF Spoke, SayStart, SayEnd
    <3> QED BY <1>4, <3>1, <3>2, <3>3
  <2>2. ~Fragments(e)
    BY <1>4 DEF Fragments
  <2> QED BY <1>1, <1>3, <2>1, <2>2, BlockOtherSaid
<1>5. ASSUME Fragments(e) PROVE Blocks'
  <2>1. PICK b \in Calls : b = e.call
    BY <1>5, NotInBlock
  <2>2. SaidInTurn
    BY DEF Blocks
  <2>3. /\ Pos(e) = SaidPos(b) + 1 /\ SaidPos(b)' = Pos(e)
        /\ \A c \in Calls : c # b => SaidPos(c)' = SaidPos(c)
        /\ \A c \in Calls : SaidPos(c) > 0 => c <= b
        /\ SaidInTurn'
    <3>0. Parts \in Nat /\ Parts > 0 /\ Calls \subseteq Nat /\ 0 \notin Calls
      BY Constants
    <3>1. CASE e.kind = "block_start"
      <4>1. /\ said.parts[b] = 0 /\ said.block = 0 /\ said'.parts = said.parts /\ said'.block = b
            /\ \A d \in 1..(b - 1) : said.parts[d] # 0
        BY <1>1, <2>1, <3>1 DEF Spoke, SayBlock, Begins, SaidType
      <4>2. \A c \in Calls : said.parts[c] \in {0, Parts} /\ said.block # c
        BY <2>2, <3>0, <4>1 DEF SaidInTurn
      <4>3. \A d \in Calls : d < b => said.parts[d] = Parts
        <5>1. \A d \in Calls : d < b => d \in 1..(b - 1)
          BY Constants
        <5> QED BY <4>1, <4>2, <5>1
      <4>4. SaidPos(b) = 0 /\ SaidPos(b)' = 1 /\ Pos(e) = 1
        BY <3>0, <3>1, <4>1 DEF SaidPos, Pos
      <4>5. \A c \in Calls : c # b => SaidPos(c)' = SaidPos(c)
        BY <4>1, <4>2 DEF SaidPos
      <4>6. ASSUME NEW c \in Calls, SaidPos(c) > 0 PROVE c < b
        <5>1. \A d \in Calls : d < c => said.parts[d] = Parts
          BY <2>2, <4>6 DEF SaidInTurn
        <5>2. ~(b < c) /\ c # b
          BY <3>0, <4>1, <4>4, <4>6, <5>1
        <5> QED BY <3>0, <5>2
      <4>7. SaidInTurn'
        <5> SUFFICES ASSUME NEW c \in Calls
                     PROVE  /\ said'.block # c => said'.parts[c] \in {0, Parts}
                            /\ SaidPos(c)' > 0 => \A d \in Calls : d < c =>
                                 said'.parts[d] = Parts /\ said'.block # d
          BY DEF SaidInTurn
        <5>1. CASE c = b
          BY <3>0, <4>1, <4>2, <4>3, <5>1
        <5>2. CASE c # b
          <6>1. SaidPos(c) > 0 => c < b /\ \A d \in Calls : d < c => said.parts[d] = Parts
            BY <2>2, <4>6 DEF SaidInTurn
          <6> QED BY <3>0, <4>1, <4>2, <4>5, <5>2, <6>1
        <5> QED BY <5>1, <5>2
      <4>8. Pos(e) = SaidPos(b) + 1 /\ SaidPos(b)' = Pos(e)
        BY <4>4
      <4>9. \A c \in Calls : SaidPos(c) > 0 => c <= b
        BY <3>0, <4>6
      <4> QED BY <4>5, <4>7, <4>8, <4>9
    <3>2. ASSUME said.block = b PROVE \A c \in Calls : SaidPos(c) > 0 => c <= b
      <4> SUFFICES ASSUME NEW c \in Calls, SaidPos(c) > 0 PROVE c <= b
        OBVIOUS
      <4>1. \A d \in Calls : d < c => said.block # d
        BY <2>2 DEF SaidInTurn
      <4>2. ~(b < c)
        BY <3>2, <4>1
      <4> QED BY <3>0, <4>2
    <3>3. CASE e.kind = "part"
      <4>1. /\ said.block = b /\ said.parts[b] < Parts /\ e.part = said.parts[b] + 1
            /\ said' = [said EXCEPT !.parts[b] = said.parts[b] + 1]
        BY <2>1, <3>3 DEF Spoke, SayPart
      <4>2. /\ said'.block = b /\ said'.parts[b] = said.parts[b] + 1
            /\ \A c \in Calls : c # b => said'.parts[c] = said.parts[c]
        BY <1>1, <4>1 DEF SaidType
      <4>3. Pos(e) = e.part + 1 /\ SaidPos(b) = said.parts[b] + 1 /\ SaidPos(b)' = said'.parts[b] + 1
        BY <3>3, <4>1, <4>2 DEF Pos, SaidPos
      <4>4. \A c \in Calls : c # b => SaidPos(c)' = SaidPos(c)
        BY <4>1, <4>2 DEF SaidPos
      <4>5. \A c \in Calls : SaidPos(c) > 0 => c <= b
        BY <3>2, <4>1
      <4>6. SaidInTurn'
        <5> SUFFICES ASSUME NEW c \in Calls
                     PROVE  /\ said'.block # c => said'.parts[c] \in {0, Parts}
                            /\ SaidPos(c)' > 0 => \A d \in Calls : d < c =>
                                 said'.parts[d] = Parts /\ said'.block # d
          BY DEF SaidInTurn
        <5>1. said'.block # c => said'.parts[c] \in {0, Parts}
          BY <2>2, <4>1, <4>2 DEF SaidInTurn
        <5>2. SaidPos(b) > 0
          BY <1>1, <4>3
        <5>3. SaidPos(c)' > 0 => SaidPos(c) > 0 /\ c <= b
          BY <3>0, <4>4, <4>5, <5>2
        <5>4. SaidPos(c)' > 0 => \A d \in Calls : d < c => d # b /\ said.parts[d] = Parts
          BY <2>2, <3>0, <5>3 DEF SaidInTurn
        <5> QED BY <4>2, <5>1, <5>4
      <4>7. Pos(e) = SaidPos(b) + 1 /\ SaidPos(b)' = Pos(e)
        BY <4>1, <4>2, <4>3
      <4> QED BY <4>4, <4>5, <4>6, <4>7
    <3>4. CASE e.kind = "block_stop"
      <4>1. /\ said.block = b /\ said.parts[b] = Parts /\ said'.block = 0 /\ said'.parts = said.parts
        BY <1>1, <2>1, <3>4 DEF Spoke, SayBlockStop, SaidType
      <4>2. Pos(e) = Parts + 2 /\ SaidPos(b) = Parts + 1 /\ SaidPos(b)' = Parts + 2
        BY <3>0, <3>4, <4>1 DEF Pos, SaidPos
      <4>3. \A c \in Calls : c # b => SaidPos(c)' = SaidPos(c)
        BY <3>0, <4>1 DEF SaidPos
      <4>4. \A c \in Calls : SaidPos(c) > 0 => c <= b
        BY <3>2, <4>1
      <4>5. SaidInTurn'
        <5> SUFFICES ASSUME NEW c \in Calls
                     PROVE  /\ said'.block # c => said'.parts[c] \in {0, Parts}
                            /\ SaidPos(c)' > 0 => \A d \in Calls : d < c =>
                                 said'.parts[d] = Parts /\ said'.block # d
          BY DEF SaidInTurn
        <5>1. said'.parts[c] \in {0, Parts}
          BY <2>2, <4>1 DEF SaidInTurn
        <5>2. SaidPos(c)' > 0 => SaidPos(c) > 0
          BY <3>0, <4>2, <4>3
        <5> QED BY <2>2, <3>0, <4>1, <5>1, <5>2 DEF SaidInTurn
      <4>6. Pos(e) = SaidPos(b) + 1 /\ SaidPos(b)' = Pos(e)
        BY <3>0, <4>2
      <4> QED BY <4>3, <4>4, <4>5, <4>6
    <3> QED BY <1>5, <3>1, <3>3, <3>4 DEF Fragments
  <2> QED BY <1>1, <1>3, <1>5, <2>1, <2>3, BlockSaid
<1> QED BY <1>2, <1>4, <1>5 DEF Fragments

\* The event the goroutine takes is the next one of its call.
LEMMA BlockNext ==
  ASSUME Typed, Blocks, TakeEvent, NEW e \in GoodEvents, e = Head(events), NEW c \in Calls
  PROVE  /\ e \in Block(c) => /\ Pos(e) = Taken(c) + 1 /\ Taken(c) < SaidPos(c)
                              /\ Window(Tail(events), Block(c), Taken(c) + 1, SaidPos(c))
         /\ e \notin Block(c) => Window(Tail(events), Block(c), Taken(c), SaidPos(c))
<1>1. events \in Seq(GoodEvents) /\ events # <<>> /\ Taken(c) \in Nat /\ SaidPos(c) \in Nat
  BY PlacesAre DEF Typed, TakeEvent, Blocks
<1>2. PICK s \in Seq(GoodEvents), lo \in Nat, hi \in Nat :
        s = events /\ s # <<>> /\ lo = Taken(c) /\ hi = SaidPos(c)
  BY <1>1
<1>3. Window(s, Block(c), lo, hi)
  BY <1>2 DEF Blocks, BlockCall
<1>4. /\ e \in Block(c) => Pos(e) = lo + 1 /\ lo < hi /\ Window(Tail(s), Block(c), lo + 1, hi)
      /\ e \notin Block(c) => Window(Tail(s), Block(c), lo, hi)
  BY <1>2, <1>3, WindowTail
<1> QED BY <1>2, <1>4

\* The order of the queue, when the goroutine has taken an event of call b, or of none.
LEMMA QueueTakes ==
  ASSUME Typed, QueueInTurn, TakeEvent,
         acc[0]'.id \in {0, acc[0].id} \/ (Fragments(events[1]) /\ acc[0]'.id = events[1].call)
  PROVE  QueueInTurn'
<1>1. PICK n \in Nat :
        /\ Len(events) = n + 1 /\ Len(events') = n
        /\ \A i \in 1..n : events'[i] = events[i + 1] /\ events[i + 1] \in GoodEvents
  <2>1. /\ Len(events) - 1 \in Nat /\ Len(events) = (Len(events) - 1) + 1
        /\ Len(events') = Len(events) - 1 /\ \A i \in 1..(Len(events) - 1) : events'[i] = events[i + 1]
    BY TakenAt
  <2>2. \A i \in 1..(Len(events) - 1) : i + 1 \in 1..Len(events)
    BY <2>1
  <2>3. \A i \in 1..Len(events) : events[i] \in GoodEvents
    BY ElementOfSeq DEF Typed
  <2> QED BY <2>1, <2>2, <2>3
<1>2. 1 \in 1..(n + 1) /\ \A i \in 1..n : i + 1 \in 1..(n + 1) /\ 1 < i + 1
  OBVIOUS
<1>3. ASSUME NEW i \in 1..n, Fragments(events'[i])
      PROVE  /\ acc[0]'.id <= events'[i].call
             /\ \A j \in 1..n : i < j /\ Fragments(events'[j]) => events'[i].call <= events'[j].call
  <2>1. Fragments(events[i + 1]) /\ events'[i] = events[i + 1] /\ i + 1 \in 1..(n + 1)
    BY <1>1, <1>2, <1>3
  <2>2. acc[0].id <= events[i + 1].call
    BY <1>1, <2>1 DEF QueueInTurn
  <2>3. Fragments(events[1]) => events[1].call <= events[i + 1].call
    BY <1>1, <1>2, <2>1 DEF QueueInTurn
  <2>4. events[i + 1].call \in Calls
    BY <1>1, <2>1, NotInBlock
  <2>5. acc[0]'.id <= events'[i].call
    <3>1. 0 <= events[i + 1].call
      BY <2>4, Constants
    <3> QED BY <2>1, <2>2, <2>3, <3>1
  <2>6. ASSUME NEW j \in 1..n, i < j, Fragments(events'[j]) PROVE events'[i].call <= events'[j].call
    <3>1. i + 1 < j + 1 /\ j + 1 \in 1..(n + 1) /\ events'[j] = events[j + 1]
      BY <1>1, <1>2, <2>6
    <3> QED BY <1>1, <2>1, <2>6, <3>1 DEF QueueInTurn
  <2> QED BY <2>5, <2>6
<1> QED BY <1>1, <1>3 DEF QueueInTurn

LEMMA BlockTaken ==
  ASSUME Typed, Blocks, TakeEvent, NEW e \in GoodEvents, e = Head(events), e = events[1], Fragments(e),
         OneBlock', acc'[0].id \in {0, e.call}, said' = said,
         Done(e.call)' = 0 \/ (Done(e.call)' = 1 /\ acc'[0].id # e.call),
         Taken(e.call)' = Taken(e.call) + 1,
         \A c \in Calls : c # e.call =>
           Done(c)' = Done(c) /\ Taken(c)' = Taken(c)
  PROVE  Blocks'
<1>1. events' = Tail(events) /\ e.call \in Calls
  BY NotInBlock DEF TakeEvent
<1>2. \A c \in Calls : SaidPos(c)' = SaidPos(c) /\ Block(c)' = Block(c)
  BY DEF SaidPos
<1>3. SaidInTurn'
  BY <1>2 DEF Blocks, SaidInTurn
<1>4. QueueInTurn'
  BY QueueTakes DEF Blocks
<1>5. ASSUME NEW c \in Calls PROVE BlockCall(c)'
  <2>1. /\ e \in Block(c) => Window(events', Block(c), Taken(c) + 1, SaidPos(c))
        /\ e \notin Block(c) => Window(events', Block(c), Taken(c), SaidPos(c))
    BY <1>1, BlockNext
  <2>2. e \in Block(c) <=> c = e.call
    BY NotInBlock
  <2>3. Window(events', Block(c)', Taken(c)', SaidPos(c)')
    BY <1>2, <2>1, <2>2
  <2>4. Done(c)' = 0 \/ (Done(c)' = 1 /\ acc'[0].id # c)
    <3>1. CASE c = e.call
      BY <3>1
    <3>2. CASE c # e.call
      <4>1. Done(c)' = Done(c) /\ acc'[0].id # c
        BY <3>2, Constants
      <4> QED BY <4>1 DEF Blocks, BlockCall
    <3> QED BY <3>1, <3>2
  <2> QED BY <2>3, <2>4 DEF BlockCall
<1> QED BY <1>3, <1>4, <1>5 DEF Blocks

LEMMA BlockTakes ==
  ASSUME Typed, Ordered, AllWhole, Blocks, Format = "anthropic", TakeEvent
  PROVE  Blocks' /\ toSend' \in Seq(WholeChunks)
<1>1. PICK e \in GoodEvents : e = Head(events) /\ e = events[1] /\ 1 \in 1..Len(events)
  BY TakenAt
<1>2. /\ toSend = <<>> /\ said' = said /\ TakeAnthropic(e) /\ events' = Tail(events) /\ events # <<>>
  BY <1>1 DEF TakeEvent, serverVars
<1>3. e.kind \in {"start", "text", "block_start", "part", "block_stop", "finish", "end", "error"}
  <2>1. e.kind \in Kinds(Format)
    BY <1>1 DEF Ordered, Placed
  <2> QED BY <2>1 DEF Kinds
<1>4. /\ OneBlock /\ SaidInTurn /\ QueueInTurn
      /\ \A c \in Calls : BlockCall(c) /\ Done(c) \in Nat
  BY DoneIs DEF Blocks
<1>5. PICK id \in 0..MaxCalls, m \in 0..Parts :
        /\ acc[0].id = id /\ Len(acc[0].parts) = m /\ acc[0].parts = [k \in 1..m |-> k]
        /\ acc[0] = [id |-> id, parts |-> [k \in 1..m |-> k]]
  BY <1>4, OneBlockIs
<1>6. acc \in [0..MaxCalls -> CallType] /\ 0 \in 0..MaxCalls /\ Parts \in Nat /\ Parts > 0
  BY Constants DEF Typed
<1>7. \A c \in Calls : /\ Taken(c) = IF id = c THEN m + 1 ELSE IF Done(c) > 0 THEN Parts + 2 ELSE 0
                       /\ Taken(c) \in Nat /\ SaidPos(c) \in Nat /\ SaidPos(c)' = SaidPos(c)
                       /\ c # 0
  BY <1>2, <1>4, <1>5, PlacesAre, Constants DEF Taken, SaidPos
<1>8. SaidInTurn'
  BY <1>2, <1>4, <1>7 DEF SaidInTurn
<1>9. \A c \in Calls : Block(c)' = Block(c)
  OBVIOUS
<1>10. CASE e.kind \in {"start", "text", "finish", "end", "error"}
  <2>1. acc' = acc /\ ~Fragments(e)
    BY <1>2, <1>10 DEF TakeAnthropic, Fragments
  <2>2. toSend' \in Seq(WholeChunks) /\ \A c \in Calls : Count(toSend', CallChunks(c)) = 0
    BY <1>2, <1>10, SendsCalls
  <2>3. \A c \in Calls : Done(c)' = Done(c)
    BY <1>4, <2>2, DoneTakes
  <2>4. QueueInTurn'
    BY <1>4, <2>1, QueueTakes
  <2>5. OneBlock' /\ \A c \in Calls : Taken(c)' = Taken(c)
    BY <1>4, <2>1, <2>3 DEF OneBlock, Taken
  <2>6. ASSUME NEW c \in Calls PROVE BlockCall(c)'
    <3>1. Window(events', Block(c), Taken(c)', SaidPos(c)')
      BY <1>1, <1>2, <1>7, <2>1, <2>5, BlockNext, NotInBlock
    <3> QED BY <1>4, <2>1, <2>3, <3>1 DEF BlockCall
  <2> QED BY <1>8, <2>2, <2>4, <2>5, <2>6 DEF Blocks
<1>11. ASSUME Fragments(e) PROVE Blocks' /\ toSend' \in Seq(WholeChunks)
  <2>1. PICK b \in Calls : b = e.call
    BY <1>11, NotInBlock
  <2>2. e \in Block(b)
    BY <1>11, <2>1, NotInBlock
  <2>3. Pos(e) = Taken(b) + 1 /\ Taken(b) < SaidPos(b)
    BY <1>1, <2>2, BlockNext
  <2>4. SUFFICES /\ toSend' \in Seq(WholeChunks) /\ OneBlock' /\ acc'[0].id \in {0, b}
                 /\ Done(b)' = 0 \/ (Done(b)' = 1 /\ acc'[0].id # b)
                 /\ Taken(b)' = Taken(b) + 1
                 /\ \A c \in Calls : c # b => /\ Done(c)' = Done(c) /\ Taken(c)' = Taken(c)
    BY <1>1, <1>2, <1>11, <2>1, BlockTaken
  <2>5. CASE e.kind = "block_start"
    <3>1. acc' = [acc EXCEPT ![0] = [id |-> b, parts |-> <<>>]] /\ toSend' = <<>>
      BY <1>2, <2>1, <2>5 DEF TakeAnthropic
    <3>2. acc'[0].id = b /\ Len(acc'[0].parts) = 0 /\ acc'[0] = [id |-> b, parts |-> <<>>]
      BY <1>6, <3>1, NoCallIs
    <3>3. Taken(b) = 0 /\ id # b /\ Done(b) = 0 /\ SaidPos(b) > 0
      <4>1. Taken(b) + 1 = 1
        BY <2>3, <2>5 DEF Pos
      <4> QED BY <1>4, <1>6, <1>7, <2>3, <4>1
    <3>4. id = 0
      <4> SUFFICES ASSUME id # 0 PROVE FALSE
        OBVIOUS
      <4>1. PICK d \in Calls : d = id
        BY Constants
      <4>2. d <= b /\ d # b
        BY <1>1, <1>4, <1>5, <1>11, <2>1, <3>3, <4>1 DEF QueueInTurn
      <4>3. said.parts[d] = Parts /\ said.block # d
        BY <1>4, <3>3, <4>2, Constants DEF SaidInTurn
      <4>4. SaidPos(d) = Parts + 2 /\ Taken(d) = m + 1
        BY <1>7, <4>1, <4>3 DEF SaidPos
      <4>5. PICK i \in 1..Len(events) : events[i] \in Block(d)
        <5>1. m + 2 \in (Taken(d) + 1)..SaidPos(d)
          BY <1>6, <4>4
        <5> QED BY <1>4, <5>1 DEF BlockCall, Window
      <4>6. events[i].call = d /\ Fragments(events[i]) /\ i # 1
        BY <1>1, <2>1, <3>3, <4>1, <4>5 DEF Block, Fragments
      <4>7. b <= d
        <5>1. 1 < i
          BY <4>6
        <5> QED BY <1>1, <1>4, <1>11, <2>1, <4>6, <5>1 DEF QueueInTurn
      <4> QED BY <4>2, <4>7, Constants
    <3>5. toSend' \in Seq(WholeChunks) /\ \A c \in Calls : Done(c)' = Done(c)
      <4>1. toSend' \in Seq(WholeChunks) /\ \A c : Count(toSend', CallChunks(c)) = 0
        BY <3>1, CountEmpty, EmptySeq
      <4> QED BY <1>4, <4>1, DoneTakes
    <3>6. OneBlock'
      <4>1. 0 \in 0..Parts /\ [k \in 1..0 |-> k] = <<>>
        BY <1>6, PrefixIs
      <4> QED BY <3>2, <4>1 DEF OneBlock
    <3>7. \A c \in Calls : Taken(c)' = IF b = c THEN 1 ELSE IF Done(c) > 0 THEN Parts + 2 ELSE 0
      BY <3>2, <3>5 DEF Taken
    <3> QED BY <1>7, <3>2, <3>3, <3>4, <3>5, <3>6, <3>7
  <2>6. CASE e.kind = "part"
    <3>1. id = b /\ e.part = m + 1 /\ m + 1 \in 0..Parts
      <4>1. e.part \in 0..Parts /\ e.part # 0 /\ e.part + 1 = Taken(b) + 1
        BY <2>3, <2>6 DEF Pos, GoodEvents, EventType
      <4>2. Taken(b) \in 1..Parts
        BY <1>6, <1>7, <4>1
      <4> QED BY <1>6, <1>7, <4>1, <4>2
    <3>2. acc' = [acc EXCEPT ![0] = Grown(acc[0], m + 1)] /\ toSend' = <<>>
      BY <1>2, <2>6, <3>1 DEF TakeAnthropic
    <3>3. acc'[0] = [id |-> b, parts |-> [k \in 1..(m + 1) |-> k]]
      <4>1. acc'[0] = Grown([id |-> b, parts |-> [k \in 1..m |-> k]], m + 1)
        BY <1>5, <1>6, <3>1, <3>2
      <4>2. Grown([id |-> b, parts |-> [k \in 1..m |-> k]], m + 1)
              = [id |-> b, parts |-> Append([k \in 1..m |-> k], m + 1)]
        BY GrownBy
      <4>3. Append([k \in 1..m |-> k], m + 1) = [k \in 1..(m + 1) |-> k]
        BY PrefixIs
      <4> QED BY <4>1, <4>2, <4>3
    <3>4. acc'[0].id = b /\ Len(acc'[0].parts) = m + 1
      BY <3>1, <3>3, PrefixIs
    <3>5. toSend' \in Seq(WholeChunks) /\ \A c \in Calls : Done(c)' = Done(c)
      <4>1. toSend' \in Seq(WholeChunks) /\ \A c : Count(toSend', CallChunks(c)) = 0
        BY <3>2, CountEmpty, EmptySeq
      <4> QED BY <1>4, <4>1, DoneTakes
    <3>6. OneBlock'
      BY <3>1, <3>3, <3>4 DEF OneBlock
    <3>7. \A c \in Calls :
            Taken(c)' = IF b = c THEN m + 1 + 1 ELSE IF Done(c) > 0 THEN Parts + 2 ELSE 0
      BY <3>4, <3>5 DEF Taken
    <3>8. Done(b) = 0
      BY <1>4, <1>5, <3>1 DEF BlockCall
    <3> QED BY <1>7, <3>1, <3>4, <3>5, <3>6, <3>7, <3>8
  <2>7. CASE e.kind = "block_stop"
    <3>1. id = b /\ m = Parts /\ Done(b) = 0
      <4>1. Parts + 2 = Taken(b) + 1
        BY <2>3, <2>7 DEF Pos
      <4>2. Taken(b) = Parts + 1
        BY <1>6, <1>7, <4>1
      <4>3. id = b
        BY <1>6, <1>7, <4>2
      <4> QED BY <1>4, <1>5, <1>6, <1>7, <4>2, <4>3 DEF BlockCall
    <3>2. acc[0] = TheCall(b)
      BY <1>5, <3>1 DEF TheCall
    <3>3. /\ toSend' \in Seq(WholeChunks)
          /\ \A c \in Calls : Count(toSend', CallChunks(c)) = IF c = b THEN 1 ELSE 0
      <4>1. acc[0] \in WholeCalls /\ e.kind # "finish"
        BY <2>7, <3>2, TheCallIs
      <4>2. \A c \in Calls : acc[0] = TheCall(c) <=> c = b
        BY <3>2, TheCallIs
      <4>3. \A c \in Calls : /\ toSend' \in Seq(WholeChunks)
                             /\ Count(toSend', CallChunks(c)) = IF acc[0] = TheCall(c) THEN 1 ELSE 0
        BY <1>2, <2>7, <4>1, SendsCalls
      <4> QED BY <2>1, <4>2, <4>3
    <3>4. acc' = [acc EXCEPT ![0] = NoCall]
      BY <1>2, <2>7 DEF TakeAnthropic
    <3>5. acc'[0] = NoCall /\ acc'[0].id = 0
      BY <1>6, <3>4, NoCallIs
    <3>6. \A c \in Calls : Done(c)' = IF c = b THEN 1 ELSE Done(c)
      <4>1. \A c \in Calls : Done(c)' = Done(c) + (IF c = b THEN 1 ELSE 0)
        BY <3>3, DoneTakes
      <4> QED BY <1>4, <3>1, <4>1
    <3>7. OneBlock'
      <4>1. 0 \in 0..Parts /\ [k \in 1..0 |-> k] = <<>>
        BY <1>6, PrefixIs
      <4>2. acc'[0] = [id |-> acc'[0].id, parts |-> [k \in 1..0 |-> k]]
        BY <3>5, <4>1 DEF NoCall
      <4> QED BY <4>1, <4>2 DEF OneBlock
    <3>8. \A c \in Calls : Taken(c)' = IF Done(c)' > 0 THEN Parts + 2 ELSE 0
      BY <1>7, <3>5 DEF Taken
    <3> QED BY <1>6, <1>7, <3>1, <3>3, <3>5, <3>6, <3>7, <3>8
  <2> QED BY <1>11, <2>5, <2>6, <2>7 DEF Fragments
<1> QED BY <1>3, <1>10, <1>11 DEF Fragments

LEMMA BlockStep ==
  ASSUME Opened, phase = "open", Ordered, AllWhole, Blocks, [Next]_vars, Format = "anthropic"
  PROVE  Blocks'
<1>1. Typed /\ Format' = Format
  BY Streaming DEF Opened
<1>2. CASE Respond
  BY <1>1, <1>2, Speaks, BlockSpeaks
<1>3. CASE UNCHANGED <<events, said, acc>> /\ \A c \in Calls : Done(c)' = Done(c)
  <2>1. \A c \in Calls : Taken(c)' = Taken(c) /\ SaidPos(c)' = SaidPos(c) /\ Block(c)' = Block(c)
    BY <1>3 DEF Taken, SaidPos
  <2>2. \A c \in Calls : BlockCall(c)'
    BY <1>3, <2>1 DEF Blocks, BlockCall
  <2> QED BY <1>3, <2>1, <2>2 DEF Blocks, OneBlock, SaidInTurn, QueueInTurn
<1>4. CASE Interrupts
  <2>1. UNCHANGED <<toSend, chunks, got, said, acc>>
    BY <1>4 DEF workerVars, readVars, Interrupts, SayError, BodyEnds, BodyBreaks, Cancel, StopParsing,
                serverVars
  <2>2. \A c \in Calls : Done(c)' = Done(c)
    BY <1>1, <2>1, Moves
  <2>3. CASE events' = events
    BY <1>3, <2>1, <2>2, <2>3
  <2>4. CASE events' = Append(events, ErrorEvent)
    <3>1. ErrorEvent \in GoodEvents /\ ~Fragments(ErrorEvent)
      BY <1>1, <1>4, Interrupted DEF Fragments
    <3> QED BY <1>1, <2>1, <2>2, <2>4, <3>1, BlockOtherSaid
  <2> QED BY <1>1, <1>4, <2>3, <2>4, Interrupted
<1>5. CASE TakeEvent
  BY <1>1, <1>5, BlockTakes
<1>6. CASE SendChunk \/ Receive \/ CloseChunks \/ EndReading \/ UNCHANGED vars
  <2>1. UNCHANGED <<events, said, acc>> /\ (SendChunk \/ Receive \/ UNCHANGED <<toSend, chunks, got>>)
    BY <1>6 DEF SendChunk, Receive, CloseChunks, EndReading, vars, workerVars, readVars, serverVars
  <2>2. \A c \in Calls : Done(c)' = Done(c)
    BY <1>1, <2>1, Moves
  <2> QED BY <1>3, <2>1, <2>2
<1> QED BY <1>2, <1>4, <1>5, <1>6, Streaming

-----------------------------------------------------------------------------
(* What reaches the stage *)

\* The invariant of an open stream.
Flow == Ordered /\ Leaving /\ AllWhole /\ PieceCalls /\ ChatCalls /\ BlockCalls
Streamed == Opened /\ Closing /\ TextSum /\ (phase = "open" => Flow)

LEMMA FlowFresh == ASSUME Typed, Fresh PROVE Flow
<1>1. /\ events = <<>> /\ toSend = <<>> /\ chunks = <<>> /\ got.calls = <<>> /\ 1..Len(events) = {}
      /\ said.block = 0 /\ acc[0] = NoCall
      /\ \A c \in Calls : said.parts[c] = 0 /\ acc[c] = NoCall
  BY Constants, EmptySeq DEF Fresh
<1>2. AllWhole /\ \A c \in Calls : Done(c) = 0
  BY <1>1, CountEmpty, EmptySeq DEF AllWhole, Done
<1>3. Leaving
  BY DEF Fresh, Leaving
<1>4. PieceCalls
  BY <1>1, <1>2, CountEmpty DEF PieceCalls
<1>5. events \in Seq(GoodEvents)
  BY DEF Typed
<1>6. \A c : Window(events, Block(c), 0, 0) /\ Window(events, Block(c), 1, 1)
  <2>1. PICK s \in Seq(GoodEvents) : s = events /\ s = <<>>
    BY <1>1, <1>5
  <2>2. ASSUME NEW G PROVE Window(s, G, 0, 0) /\ Window(s, G, 1, 1)
    BY <2>1, WindowEmpty
  <2> QED BY <2>1, <2>2
<1>7. ChatCalls
  <2>1. ~FinishTaken \/ Format # "chat"
    BY DEF Fresh, FinishTaken, Late
  <2>2. 0 \in 0..Parts /\ 0 + 1 = 1 /\ \A c \in Calls : First(c, 0) = NoCall
    BY Constants, FirstIs
  <2>3. ASSUME NEW c \in Calls
        PROVE  \E m \in 0..Parts :
                 acc[c] = First(c, m) /\ Window(events, Block(c), m + 1, said.parts[c] + 1)
    BY <1>1, <1>6, <2>2
  <2> QED BY <1>2, <2>1, <2>3 DEF ChatCalls, ChatCall
<1>8. BlockCalls
  <2>1. OneBlock
    BY <1>1, PrefixIs, Constants DEF OneBlock, NoCall
  <2>2. \A c \in Calls : Taken(c) = 0 /\ SaidPos(c) = 0
    BY <1>1, <1>2, NoCallIs, Constants DEF Taken, SaidPos
  <2>3. SaidInTurn
    BY <1>1, <2>2 DEF SaidInTurn
  <2>4. QueueInTurn
    BY <1>1 DEF QueueInTurn
  <2>5. \A c \in Calls : BlockCall(c)
    BY <1>2, <1>6, <2>2 DEF BlockCall
  <2> QED BY <2>1, <2>3, <2>4, <2>5 DEF BlockCalls, Blocks
<1> QED BY <1>2, <1>3, <1>4, <1>7, <1>8, OrderedFresh DEF Flow

LEMMA FlowStep ==
  ASSUME Opened, phase = "open", Flow, [Next]_vars
  PROVE  Flow'
<1>1. Typed /\ Format \in Formats /\ Format' = Format
  BY FormatsAre, Streaming DEF Opened
<1>2. Ordered' /\ Leaving'
  BY OrderedStep, LeavingStep DEF Flow
<1>3. TakeEvent => toSend' \in Seq(WholeChunks)
  BY <1>1, OthersSend, BlockTakes DEF Flow, Formats, BlockCalls
<1>4. AllWhole'
  BY <1>1, <1>3, WholeStep DEF Flow
<1>5. PieceCalls'
  BY <1>1, PieceStep DEF Flow, PieceCalls, CallEvents
<1>6. ChatCalls'
  BY <1>1, ChatStep DEF Flow, ChatCalls
<1>7. BlockCalls'
  BY <1>1, BlockStep DEF Flow, BlockCalls
<1> QED BY <1>2, <1>4, <1>5, <1>6, <1>7 DEF Flow

LEMMA StreamedInit == Init => Streamed
<1> SUFFICES ASSUME Init PROVE Closing /\ TextSum /\ phase # "open"
  BY OpenedInit DEF Streamed
<1> QED BY CountEmpty DEF Init, Closing, TextSum

LEMMA StreamedStep == Streamed /\ [Next]_vars => Streamed'
<1> SUFFICES ASSUME Streamed, [Next]_vars PROVE Streamed'
  OBVIOUS
<1>1. Opened' /\ Closing' /\ TextSum'
  BY OpenedStep, ClosingStep, TextSumStep DEF Streamed, Opened
<1>2. CASE phase # "open"
  <2>1. Typed' /\ (phase' = "open" => Fresh')
    BY <1>1, <1>2, Opening DEF Streamed, Opened
  <2>2. Typed' /\ Fresh' => Flow'
    BY FlowFresh, PTL
  <2> QED BY <1>1, <2>1, <2>2 DEF Streamed
<1>3. CASE phase = "open"
  BY <1>1, <1>3, FlowStep DEF Streamed
<1> QED BY <1>2, <1>3

LEMMA WholeCallsAre ==
  \A call \in WholeCalls :
    call.id \in Calls /\ call = TheCall(call.id) /\ call.parts = [k \in 1..Parts |-> k]
BY TheCallIs DEF WholeCalls

\* Two different things make a set of two.
LEMMA PairCard ==
  ASSUME NEW a, NEW b, a # b
  PROVE  Cardinality({a} \union {b}) = 2
<1>1. PICK T : T = {a}
  OBVIOUS
<1>2. IsFiniteSet(T) /\ Cardinality(T) = 1
  BY <1>1, FS_Singleton
<1>3. b \notin T
  BY <1>1
<1>4. Cardinality(T \union {b}) = Cardinality(T) + 1
  BY <1>2, <1>3, FS_AddElement
<1> QED BY <1>1, <1>2, <1>4

LEMMA CountTwice ==
  ASSUME NEW S, NEW s \in Seq(S), NEW G, Count(s, G) <= 1,
         NEW i \in 1..Len(s), NEW j \in 1..Len(s), s[i] \in G, s[j] \in G
  PROVE  i = j
<1> DEFINE I == {k \in 1..Len(s) : s[k] \in G}
<1>1. IsFiniteSet(I) /\ Cardinality(I) \in Nat /\ Cardinality(I) <= 1
  BY CountFinite DEF Count
<1>2. i \in I /\ j \in I
  OBVIOUS
<1>3. PICK J : J = I
  OBVIOUS
<1>4. ASSUME i # j PROVE FALSE
  <2>1. Cardinality({i} \union {j}) = 2 /\ {i} \union {j} \in SUBSET J
    <3> HIDE DEF I
    <3>1. {i} \union {j} \in SUBSET J
      BY <1>2, <1>3, Zenon
    <3> QED BY <1>4, <3>1, PairCard
  <2>2. Cardinality({i} \union {j}) <= Cardinality(J)
    <3> HIDE DEF I
    <3> QED BY <1>1, <1>3, <2>1, FS_Subset
  <2>3. Cardinality(J) \in Nat /\ Cardinality(J) <= 1
    BY <1>1, <1>3, Zenon
  <2>4. PICK two : two = Cardinality({i} \union {j})
    OBVIOUS
  <2>5. two = 2 /\ two <= Cardinality(J)
    BY <2>1, <2>2, <2>4, Zenon
  <2> QED BY <2>3, <2>5
<1> QED BY <1>4

\* No call leaves the accumulator twice.
LEMMA DoneOnce ==
  ASSUME Typed, Format \in Formats, Flow, NEW c \in Calls
  PROVE  Done(c) \in {0, 1} /\ Count(got.calls, {TheCall(c)}) \in {0, 1}
<1>1. Done(c) \in Nat /\ Count(events, CallEvents(c)) \in Nat /\ Count(got.calls, {TheCall(c)}) \in Nat
      /\ Count(toSend, CallChunks(c)) \in Nat /\ Count(chunks, CallChunks(c)) \in Nat
  BY DoneIs, CountsAre, CountFinite DEF Typed, GotType
<1>2. CASE Format \in {"gemini", "ollama"}
  <2>1. Count(events, CallEvents(c)) + Done(c) = IF said.parts[c] # 0 THEN 1 ELSE 0
    BY <1>2 DEF Flow, PieceCalls
  <2>2. Done(c) \in {0, 1}
    BY <1>1, <2>1
  <2> QED BY <1>1, <2>2 DEF Done
<1>3. CASE Format = "chat"
  BY <1>1, <1>3 DEF Flow, ChatCalls, ChatCall, Done
<1>4. CASE Format = "anthropic"
  BY <1>1, <1>4 DEF Flow, BlockCalls, Blocks, BlockCall, Done
<1> QED BY <1>2, <1>3, <1>4 DEF Formats

LEMMA CallsAreWhole == Streamed => CallsWhole
<1> SUFFICES ASSUME Streamed PROVE CallsWhole
  OBVIOUS
<1>1. CASE phase # "open"
  <2>1. got.calls = <<>> /\ DOMAIN got.calls = {}
    BY <1>1 DEF Streamed, Opened, Unopened
  <2> QED BY <2>1 DEF CallsWhole
<1>2. CASE phase = "open"
  <2>1. Typed /\ Flow /\ Format \in Formats
    BY <1>2, FormatsAre DEF Streamed, Opened
  <2>2. PICK s \in Seq(WholeCalls) : s = got.calls
    BY <2>1 DEF Flow, AllWhole
  <2>3. DOMAIN s = 1..Len(s) /\ \A i \in 1..Len(s) : s[i] \in WholeCalls
    BY LenProperties, ElementOfSeq
  <2>4. \A i \in 1..Len(s) : s[i].id \in Calls /\ s[i] = TheCall(s[i].id)
                             /\ s[i].parts = [k \in 1..Parts |-> k]
    BY <2>3, WholeCallsAre
  <2>5. ASSUME NEW i \in 1..Len(s), NEW j \in 1..Len(s), s[i].id = s[j].id PROVE i = j
    <3>1. PICK c \in Calls : c = s[i].id
      BY <2>4
    <3>2. PICK G : G = {TheCall(c)}
      OBVIOUS
    <3>3. s[i] \in G /\ s[j] \in G
      BY <2>4, <2>5, <3>1, <3>2
    <3>4. Count(s, G) <= 1
      BY <2>1, <2>2, <3>2, DoneOnce
    <3> QED BY <3>3, <3>4, CountTwice
  <2> QED BY <2>2, <2>3, <2>4, <2>5 DEF CallsWhole
<1> QED BY <1>1, <1>2

\* Every tool call that reaches the pipeline has its id and all of its arguments in order,
\* and reaches it once: for any number of calls and of fragments, however the chat
\* format interleaves them, wherever the response breaks off or is cancelled
\* (currentToolInput in anthropic.go, OpenAIStreamAccumulator.ParseChunk).
THEOREM CallsWholeHolds == Spec => []CallsWhole
BY CallsAreWhole, StreamedInit, StreamedStep, PTL DEF Spec

\* Once a complete response has been read, each of its calls has left the accumulator.
LEMMA AllDone ==
  ASSUME Typed, Format \in Formats, Flow, stage = "complete",
         \A i \in 1..Len(events) : events[i].kind = "error", NEW c \in Calls
  PROVE  Done(c) > 0 <=> said.parts[c] # 0
<1>1. events \in Seq(GoodEvents) /\ Done(c) \in {0, 1}
  BY DoneOnce DEF Typed
<1>2. said.parts[c] \in {0, Parts} /\ said.block = 0
  BY DEF Flow, Ordered, Staged, Late
<1>3. CASE Format \in {"gemini", "ollama"}
  <2>1. \A i \in 1..Len(events) : events[i] \notin CallEvents(c)
    BY DEF CallEvents
  <2>2. Count(events, CallEvents(c)) = 0
    BY <1>1, <2>1, CountZero
  <2> QED BY <1>1, <1>3, <2>2 DEF Flow, PieceCalls
<1>4. CASE Format = "chat"
  <2>1. FinishTaken
    BY DEF FinishTaken, Late
  <2> QED BY <1>4, <2>1 DEF Flow, ChatCalls, ChatCall
<1>5. CASE Format = "anthropic"
  <2>1. \A i \in 1..Len(events) : events[i] \notin Block(c)
    BY DEF Block
  <2>2. PICK lo \in Nat, hi \in Nat : lo = Taken(c) /\ hi = SaidPos(c)
    BY <1>5, PlacesAre DEF Flow, BlockCalls, Blocks
  <2>3. Window(events, Block(c), lo, hi)
    BY <1>5, <2>2 DEF Flow, BlockCalls, Blocks, BlockCall
  <2>4. Taken(c) = SaidPos(c)
    <3>0. PICK s \in Seq(GoodEvents) : s = events
      BY <1>1
    <3>1. PICK G : G = Block(c)
      OBVIOUS
    <3>2. (\A i \in 1..Len(s) : s[i] \notin G) /\ Window(s, G, lo, hi)
      BY <2>1, <2>3, <3>0, <3>1
    <3> QED BY <2>2, <3>2, WindowEmpty
  <2>5. SaidPos(c) = IF said.parts[c] # 0 THEN Parts + 2 ELSE 0
    BY <1>2, Constants DEF SaidPos
  <2>6. acc[0].id # c
    <3>1. Taken(c) \notin 1..(Parts + 1)
      BY <2>4, <2>5, Constants
    <3> QED BY <1>5, <3>1, PlacesAre DEF Flow, BlockCalls, Blocks
  <2>7. Taken(c) = IF Done(c) > 0 THEN Parts + 2 ELSE 0
    BY <2>6 DEF Taken
  <2> QED BY <1>1, <2>4, <2>5, <2>7, Constants
<1> QED BY <1>3, <1>4, <1>5 DEF Formats

\* What is left when the stage has read to the end of a complete response.
LEMMA Drained ==
  ASSUME Streamed, consumer = "ended", stage = "complete", ~cancelled
  PROVE  /\ phase = "open" /\ Typed /\ Flow /\ Format \in Formats
         /\ toSend = <<>> /\ chunks = <<>> /\ \A i \in 1..Len(events) : events[i].kind = "error"
<1>1. phase = "open"
  BY DEF Streamed, Opened, Unopened
<1>2. Typed /\ Flow /\ Format \in Formats
  BY <1>1, FormatsAre DEF Streamed, Opened
<1>3. worker = "closed" /\ toSend = <<>> /\ chunks = <<>>
  BY DEF Streamed, Closing
<1>4. \A i \in 1..Len(events) : events[i].kind = "error"
  <2>1. events = <<>> => 1..Len(events) = {}
    BY EmptySeq
  <2> QED BY <1>2, <1>3, <2>1 DEF Flow, Leaving
<1> QED BY <1>1, <1>2, <1>3, <1>4

LEMMA ResponseIsRead == Streamed => CompleteResponseRead
<1> SUFFICES ASSUME Streamed, consumer = "ended", stage = "complete", ~cancelled
             PROVE  /\ got.text = said.text
                    /\ {got.calls[i].id : i \in DOMAIN got.calls} = {c \in Calls : said.parts[c] # 0}
  BY DEF CompleteResponseRead
<1>2. Typed /\ Flow /\ Format \in Formats
  BY Drained
<1>3. toSend = <<>> /\ chunks = <<>>
  BY Drained
<1>4. \A i \in 1..Len(events) : events[i].kind = "error"
  BY Drained
<1>5. got.text = said.text
  <2>1. \A i \in 1..Len(events) : events[i] \notin TextEvents
    BY <1>4 DEF TextEvents
  <2>2. Count(events, TextEvents) = 0
    BY <1>2, <2>1, CountZero DEF Typed
  <2>3. Count(toSend, Pieces) = 0 /\ Count(chunks, Pieces) = 0
    BY <1>3, CountEmpty
  <2>4. got.text \in Nat
    BY <1>2 DEF Typed, GotType
  <2> QED BY <2>2, <2>3, <2>4 DEF Streamed, TextSum
<1>6. PICK s \in Seq(WholeCalls) : s = got.calls
  BY <1>2 DEF Flow, AllWhole
<1>7. DOMAIN s = 1..Len(s) /\ \A i \in 1..Len(s) : s[i] \in WholeCalls
  BY LenProperties, ElementOfSeq
<1>8. \A i \in 1..Len(s) : s[i].id \in Calls /\ s[i] = TheCall(s[i].id)
  BY <1>7, WholeCallsAre
<1>9. ASSUME NEW c \in Calls
      PROVE  (\E i \in 1..Len(s) : s[i].id = c) <=> said.parts[c] # 0
  <2>1. Done(c) = Count(s, {TheCall(c)})
    <3>1. Count(toSend, CallChunks(c)) = 0 /\ Count(chunks, CallChunks(c)) = 0
      BY <1>3, CountEmpty
    <3>2. Count(s, {TheCall(c)}) \in Nat
      BY CountFinite
    <3> QED BY <1>6, <3>1, <3>2 DEF Done
  <2>2. Done(c) > 0 <=> said.parts[c] # 0
    BY <1>2, <1>4, AllDone
  <2>3. Count(s, {TheCall(c)}) = 0 <=> \A i \in 1..Len(s) : s[i] # TheCall(c)
    <3>1. PICK G : G = {TheCall(c)}
      OBVIOUS
    <3>2. Count(s, G) = 0 <=> \A i \in 1..Len(s) : s[i] \notin G
      BY CountZero
    <3> QED BY <3>1, <3>2
  <2>4. \A i \in 1..Len(s) : s[i] = TheCall(c) <=> s[i].id = c
    BY <1>8, TheCallIs
  <2>5. Done(c) \in {0, 1}
    BY <1>2, DoneOnce
  <2> QED BY <2>1, <2>2, <2>3, <2>4, <2>5
<1>10. {s[i].id : i \in 1..Len(s)} = {c \in Calls : said.parts[c] # 0}
  BY <1>8, <1>9
<1> QED BY <1>5, <1>6, <1>7, <1>10

\* The stage that has read to the end of the channel of a complete response has all of its
\* text and every one of its calls, unless the request was cancelled: no goroutine
\* leaves before it has sent what it had read, and none leaves text or calls in
\* the response (StreamAnthropic, streamOpenAI, streamGemini, streamOllama).
THEOREM CompleteResponseReadHolds == Spec => []CompleteResponseRead
BY ResponseIsRead, StreamedInit, StreamedStep, PTL DEF Spec

-----------------------------------------------------------------------------
(* The usage of the response *)

\* The input tokens of a report, or its output tokens; a chunk and a stage have both, too.
Amount(r, x) == IF x = "in" THEN r.in ELSE r.out
Reporting(x) == {e \in GoodEvents : Amount(e.report, x) # 0}
Carrying(x) == {h \in GoodChunks : Amount(h, x) # 0}

LEMMA AmountsAre ==
  ASSUME NEW x
  PROVE  /\ Amount(Zero, x) = 0 /\ Amount(TextChunk, x) = 0
         /\ \A type : Amount(Plain(type), x) = 0
         /\ \A call : Amount(CallChunk(call), x) = 0
         /\ \A r : /\ Amount(UsageChunk(r), x) = Amount(r, x)
                   /\ Amount(Chunk("text", 0, NoCall, r), x) = Amount(r, x)
BY DEF Amount, Zero, TextChunk, Plain, CallChunk, UsageChunk, Chunk

\* One chunk with tokens, followed at most by one without.
LEMMA OneCarries ==
  ASSUME NEW x, NEW a \in GoodChunks, NEW b \in GoodChunks, Amount(b, x) = 0, NEW q,
         q = <<a>> \/ q = <<a, b>>, NEW T, a \in T, b \in T
  PROVE  q \in Seq(T) /\ Count(q, Carrying(x)) = IF Amount(a, x) # 0 THEN 1 ELSE 0
<1>1. b \notin Carrying(x) /\ (a \in Carrying(x) <=> Amount(a, x) # 0)
  BY DEF Carrying
<1>2. PICK G : G = Carrying(x)
  OBVIOUS
<1>3. q \in Seq(T) /\ Count(q, G) = IF a \in G THEN 1 ELSE 0
  BY <1>1, <1>2, ShortIs
<1> QED BY <1>1, <1>2, <1>3

\* The events that report something, but for Gemini, which may add a report to any.
Reporters == {"start", "finish", "usage"}

\* The chunks a report may be found in while there is just one.
Fair(x, v) == {h \in GoodChunks : Amount(h, x) \in {0, v}}

\* The goroutine passes on what an event reports, in one chunk.
LEMMA SendsReport ==
  ASSUME Typed, toSend = <<>>, NEW e \in GoodEvents, e.kind \notin Reporters => e.report = Zero,
         TakeAnthropic(e) \/ TakeChat(e) \/ TakeOllama(e), NEW x, NEW v, Amount(e.report, x) \in {0, v}
  PROVE  /\ toSend' \in Seq(Fair(x, v))
         /\ Count(toSend', Carrying(x)) = IF Amount(e.report, x) # 0 THEN 1 ELSE 0
<1> PICK q : q = toSend'
  OBVIOUS
<1>1. e.report \in [in : Nat, out : Nat] /\ e.kind \in SaidEvents /\ acc[0] \in CallType
  BY Constants DEF GoodEvents, EventType, Tokens, SaidEvents, Typed
<1>2. q = <<>> => q \in Seq(Fair(x, v)) /\ Count(q, Carrying(x)) = 0
  BY CountEmpty, EmptySeq
<1>3. PICK text \in GoodChunks, usage \in GoodChunks, last \in GoodChunks, done \in GoodChunks,
           error \in GoodChunks :
        /\ text = TextChunk /\ usage = UsageChunk(e.report)
        /\ last = Chunk("text", 0, NoCall, e.report)
        /\ done = Plain("done") /\ error = Plain("error")
  BY <1>1, ChunksAre
<1>4. /\ Amount(text, x) = 0 /\ Amount(done, x) = 0 /\ Amount(error, x) = 0
      /\ Amount(usage, x) = Amount(e.report, x) /\ Amount(last, x) = Amount(e.report, x)
  BY <1>3, AmountsAre
<1>5. /\ text \in Fair(x, v) /\ usage \in Fair(x, v) /\ last \in Fair(x, v) /\ done \in Fair(x, v)
      /\ error \in Fair(x, v)
  BY <1>4 DEF Fair
<1>6. \A a \in GoodChunks, b \in GoodChunks :
        /\ q = <<a>> \/ q = <<a, b>>
        /\ a \in Fair(x, v) /\ b \in Fair(x, v) /\ Amount(b, x) = 0
        => q \in Seq(Fair(x, v)) /\ Count(q, Carrying(x)) = IF Amount(a, x) # 0 THEN 1 ELSE 0
  <2> SUFFICES ASSUME NEW a \in GoodChunks, NEW b \in GoodChunks, q = <<a>> \/ q = <<a, b>>,
                      a \in Fair(x, v), b \in Fair(x, v), Amount(b, x) = 0
               PROVE  /\ q \in Seq(Fair(x, v))
                      /\ Count(q, Carrying(x)) = IF Amount(a, x) # 0 THEN 1 ELSE 0
    OBVIOUS
  <2>1. PICK T : T = Fair(x, v)
    OBVIOUS
  <2>2. q \in Seq(T) /\ Count(q, Carrying(x)) = IF Amount(a, x) # 0 THEN 1 ELSE 0
    BY <2>1, OneCarries
  <2> QED BY <2>1, <2>2
<1>7. e.kind \notin Reporters => Amount(e.report, x) = 0
  BY AmountsAre
<1>8. CASE e.kind = "text"
  <2>1. q = <<text>> \/ q = <<text, usage>>
    BY <1>3, <1>8, Sends
  <2> QED BY <1>4, <1>5, <1>6, <1>7, <1>8, <2>1 DEF Reporters
<1>9. CASE e.kind \in {"start", "usage"}
  <2>1. q = <<usage>>
    BY <1>3, <1>9, Sends
  <2> QED BY <1>4, <1>5, <1>6, <2>1
<1>10. CASE e.kind \in {"block_start", "part"}
  BY <1>2, <1>7, <1>10, Sends DEF Reporters
<1>11. CASE e.kind = "end"
  <2>1. q = <<done>>
    BY <1>3, <1>11, Sends
  <2> QED BY <1>4, <1>5, <1>6, <1>7, <1>11, <2>1 DEF Reporters
<1>12. CASE e.kind = "error"
  <2>1. q = <<>> \/ q = <<error>>
    BY <1>3, <1>12, Sends
  <2> QED BY <1>2, <1>4, <1>5, <1>6, <1>7, <1>12, <2>1 DEF Reporters
<1>13. CASE e.kind = "call"
  <2>1. PICK a \in GoodChunks : a = CallChunk(WholeCall(e))
    BY <1>13, WholeCallIs, ChunksAre
  <2>2. q = <<a>> \/ q = <<a, usage>>
    BY <1>3, <1>13, <2>1, Sends
  <2>3. Amount(a, x) = 0 /\ a \in Fair(x, v)
    BY <2>1, AmountsAre DEF Fair
  <2> QED BY <1>4, <1>5, <1>6, <1>7, <1>13, <2>2, <2>3 DEF Reporters
<1>14. CASE e.kind = "block_stop"
  <2>1. PICK a \in GoodChunks : a = CallChunk(acc[0])
    BY <1>1, ChunksAre
  <2>2. q = <<>> \/ q = <<a>>
    BY <1>14, <2>1, Sends
  <2>3. Amount(a, x) = 0 /\ a \in Fair(x, v)
    BY <2>1, AmountsAre DEF Fair
  <2> QED BY <1>2, <1>4, <1>5, <1>6, <1>7, <1>14, <2>2, <2>3 DEF Reporters
<1>15. CASE e.kind = "finish" /\ (TakeAnthropic(e) \/ TakeOllama(e))
  <2>1. q = <<last>> \/ q = <<usage, done>>
    BY <1>3, <1>15 DEF TakeAnthropic, TakeOllama
  <2>2. CASE q = <<last>>
    BY <1>4, <1>5, <1>6, <2>2
  <2>3. CASE q = <<usage, done>>
    BY <1>4, <1>5, <1>6, <2>3
  <2> QED BY <2>1, <2>2, <2>3
<1>16. CASE e.kind = "finish" /\ TakeChat(e)
  <2>1. PICK order \in SetToSeqs({d \in Calls : acc[d] # NoCall}) :
          toSend' = Append([i \in 1..Len(order) |-> CallChunk(acc[order[i]])],
                           Chunk("text", 0, NoCall, e.report))
    BY <1>16 DEF TakeChat
  <2>2. PICK n \in Nat :
          /\ n = Len(order)
          /\ order \in [1..n -> {d \in Calls : acc[d] # NoCall}]
    BY <2>1, FinishedCalls
  <2>3. \A i \in 1..n : acc[order[i]] \in CallType
    BY <2>2, Constants DEF Typed
  <2>4. PICK T : T = Fair(x, v)
    OBVIOUS
  <2>5. \A i \in 1..n : CallChunk(acc[order[i]]) \in T /\ CallChunk(acc[order[i]]) \notin Carrying(x)
    BY <2>3, <2>4, ChunksAre, AmountsAre DEF Fair, Carrying
  <2>6. PICK s \in Seq(T) : s = [i \in 1..n |-> CallChunk(acc[order[i]])] /\ Len(s) = n
    <3>1. [i \in 1..n |-> CallChunk(acc[order[i]])] \in Seq(T)
      BY <2>5, IsASeq
    <3>2. Len([i \in 1..n |-> CallChunk(acc[order[i]])]) = n
      BY <2>5, IsASeq
    <3> QED BY <3>1, <3>2
  <2>7. \A i \in 1..Len(s) : s[i] \notin Carrying(x)
    BY <2>5, <2>6
  <2>8. PICK G : G = Carrying(x)
    OBVIOUS
  <2>9. Count(s, G) = 0
    BY <2>7, <2>8, CountZero
  <2>10. last \in T /\ (last \in G <=> Amount(e.report, x) # 0)
    BY <1>4, <1>5, <2>4, <2>8 DEF Carrying
  <2>11. Append(s, last) \in Seq(T) /\ Count(Append(s, last), G) = IF last \in G THEN 1 ELSE 0
    BY <2>9, <2>10, CountAppend, AppendProperties
  <2>12. q = Append(s, last)
    BY <1>3, <2>1, <2>2, <2>6
  <2> QED BY <2>4, <2>8, <2>10, <2>11, <2>12
<1>17. CASE e.kind = "finish" /\ ~(TakeAnthropic(e) \/ TakeChat(e) \/ TakeOllama(e))
  BY <1>17
<1> QED BY <1>1, <1>8, <1>9, <1>10, <1>11, <1>12, <1>13, <1>14, <1>15, <1>16, <1>17 DEF SaidEvents

\* What the usage of the response comes to, and when the provider has reported it.
Worth(x) == IF x = "in" THEN 1 ELSE Output
Given(x) ==
  IF x = "in" THEN (IF Format = "anthropic" THEN stage # "start" ELSE said.reported)
  ELSE said.reported /\ Output > 0
Booked(x) == IF Amount(got, x) = Amount(Before, x) THEN 0 ELSE 1
Told(x) ==
  {e \in GoodEvents : /\ Amount(e.report, x) \in {0, Worth(x)}
                      /\ e.kind \notin Reporters => e.report = Zero}

\* Formats that report each number once: a report is in one place, and worth the same
\* there as when it was made.
OneReport(x) ==
  /\ events \in Seq(Told(x)) /\ toSend \in Seq(Fair(x, Worth(x))) /\ chunks \in Seq(Fair(x, Worth(x)))
  /\ Amount(got, x) \in {Amount(Before, x), Amount(Before, x) + Worth(x)}
  /\ Count(events, Reporting(x)) + Count(toSend, Carrying(x)) + Count(chunks, Carrying(x)) + Booked(x)
       = IF Given(x) THEN 1 ELSE 0

LEMMA WorthIs ==
  ASSUME Typed, NEW x
  PROVE  /\ Worth(x) \in Nat /\ Amount(got, x) \in Nat /\ Amount(Before, x) \in {0, 1}
         /\ reader # "tool_loop" => Amount(Before, x) = 0
         /\ Booked(x) \in {0, 1}
<1>1. Output \in Nat /\ got.in \in Nat /\ got.out \in Nat
  BY OutputIs DEF Typed, GotType, Tokens
<1>2. Amount(Before, x) = IF reader = "tool_loop" THEN 1 ELSE 0
  BY DEF Before, Zero, Amount
<1> QED BY <1>1, <1>2 DEF Worth, Amount, Booked

\* What is nowhere yet may come to anything.
LEMMA Narrow ==
  ASSUME NEW S, NEW s \in Seq(S), NEW T, \A i \in 1..Len(s) : s[i] \in T
  PROVE  s \in Seq(T)
<1>1. Len(s) \in Nat /\ s = [i \in 1..Len(s) |-> s[i]]
  BY LenProperties
<1>2. [i \in 1..Len(s) |-> s[i]] \in Seq(T)
  BY <1>1, IsASeq
<1> QED BY <1>1, <1>2

LEMMA NoneCarried ==
  ASSUME NEW x, NEW v, NEW s \in Seq(GoodChunks), Count(s, Carrying(x)) = 0
  PROVE  s \in Seq(Fair(x, v))
<1>1. PICK G, T : G = Carrying(x) /\ T = Fair(x, v)
  OBVIOUS
<1>2. \A i \in 1..Len(s) : s[i] \in GoodChunks /\ s[i] \notin G
  BY <1>1, CountZero, ElementOfSeq
<1>3. \A i \in 1..Len(s) : s[i] \in T
  BY <1>1, <1>2 DEF Carrying, Fair
<1> QED BY <1>1, <1>3, Narrow

LEMMA OutputSum == Typed => Output \in Nat /\ Output = said.text + SumOver(said.parts, Calls)
BY OutputIs

\* What the formats with one report say of it, and when.
LEMMA SpeaksWorth ==
  ASSUME Typed, Staged, Format \in Formats, Format # "gemini", Format' = Format,
         NEW e \in GoodEvents, Spoke(e), NEW x \in {"in", "out"}
  PROVE  /\ Amount(e.report, x) \in {0, Worth(x)'}
         /\ e.kind \notin Reporters => e.report = Zero
         /\ Given(x) => Given(x)' /\ Worth(x)' = Worth(x) /\ Amount(e.report, x) = 0
         /\ ~Given(x) => (Given(x)' <=> Amount(e.report, x) # 0)
<1>0. /\ Output \in Nat /\ Output = said.text + SumOver(said.parts, Calls)
      /\ Output' \in Nat /\ Output' = said'.text + SumOver(said'.parts, Calls)
  <2>1. Typed'
    BY TypedSay DEF Spoke
  <2>2. Typed' => (Output \in Nat /\ Output = said.text + SumOver(said.parts, Calls))'
    BY OutputSum, PTL
  <2> QED BY <2>1, <2>2, OutputSum
<1>1. said \in SaidType /\ Output \in Nat /\ Output' \in Nat
  BY <1>0 DEF Typed
<1>2. Amount(Zero, x) = 0
  BY AmountsAre
<1>3. \A out : Reports(out) = {Zero}
  BY DEF Reports
<1>4. CASE said'.parts = said.parts /\ said'.text = said.text
  <2>0. Output' = Output /\ Whole' = Whole
    <3>1. Output' = Output
      BY <1>0, <1>4
    <3> QED BY <3>1 DEF Whole
  <2>1. CASE said'.reported = said.reported /\ stage' # "start" /\ (stage = "start" => x = "out")
             /\ e.report = Zero
    BY <1>2, <2>0, <2>1 DEF Worth, Given
  <2>2. CASE e.kind = "start"
    <3>1. stage = "start" /\ stage' = "body" /\ said' = said /\ e.report = [in |-> 1, out |-> 0]
          /\ Format = "anthropic" /\ ~said.reported
      BY <2>2 DEF Spoke, SayStart, Staged, Late
    <3>2. CASE x = "in"
      BY <1>1, <2>0, <2>2, <3>1, <3>2 DEF Worth, Given, Amount, Reporters
    <3>3. CASE x = "out"
      BY <1>1, <2>0, <2>2, <3>1, <3>3 DEF Worth, Given, Amount, Reporters
    <3> QED BY <3>2, <3>3
  <2>3. CASE e.kind = "finish"
    <3>1. /\ stage = "body" /\ stage' # "start" /\ ~said.reported
          /\ e.report = IF said'.reported THEN Whole ELSE Zero
          /\ Format # "chat" => said'.reported
      <4>1. \E b \in (IF Format = "chat" THEN BOOLEAN ELSE {TRUE}) : said' = [said EXCEPT !.reported = b]
        BY <2>3 DEF Spoke, SayFinish
      <4>2. Format # "chat" => said'.reported
        BY <1>1, <4>1 DEF SaidType
      <4>3. stage = "body" /\ e.report = IF said'.reported THEN Whole ELSE Zero
        BY <2>3 DEF Spoke, SayFinish
      <4>4. stage' # "start"
        BY <2>3 DEF Spoke, SayFinish
      <4>5. ~said.reported
        BY <4>3 DEF Staged, Late
      <4> QED BY <4>2, <4>3, <4>4, <4>5, Zenon
    <3>2. Amount(Whole, "in") = (IF Format = "anthropic" THEN 0 ELSE 1) /\ Amount(Whole, "out") = Output
      BY DEF Whole, Amount
    <3>0. e.kind \in Reporters /\ stage # "start" /\ Format' = Format
      BY <2>3, <3>1 DEF Reporters
    <3>3. CASE x = "in" /\ Format = "anthropic"
      <4>1. Amount(e.report, x) = 0
        BY <1>2, <3>1, <3>2, <3>3, Zenon
      <4> QED BY <3>0, <3>1, <3>3, <4>1 DEF Worth, Given
    <3>5. CASE x = "in" /\ Format # "anthropic"
      <4>1. Amount(e.report, x) = IF said'.reported THEN 1 ELSE 0
        <5>1. Amount(Whole, x) = 1
          BY <3>2, <3>5
        <5>2. e.report = IF said'.reported THEN Whole ELSE Zero
          BY <3>1
        <5> QED BY <1>2, <5>1, <5>2, Zenon
      <4> QED BY <3>0, <3>1, <3>5, <4>1 DEF Worth, Given
    <3>4. CASE x = "out"
      <4>1. Amount(e.report, x) = IF said'.reported THEN Output ELSE 0
        <5>1. Amount(Whole, x) = Output
          BY <3>2, <3>4
        <5>2. e.report = IF said'.reported THEN Whole ELSE Zero
          BY <3>1
        <5> QED BY <1>2, <5>1, <5>2, Zenon
      <4> QED BY <1>1, <2>0, <3>0, <3>1, <3>4, <4>1 DEF Worth, Given
    <3> QED BY <3>3, <3>4, <3>5
  <2>4. CASE e.kind = "usage"
    <3>1. /\ stage = "trailer" /\ stage' = stage /\ ~said.reported /\ said'.reported /\ Format = "chat"
          /\ e.report = Whole
      BY <1>1, <2>4 DEF Spoke, SayUsage, SaidType
    <3>2. Amount(Whole, "in") = 1 /\ Amount(Whole, "out") = Output
      BY <3>1 DEF Whole, Amount
    <3>3. CASE x = "in"
      BY <1>1, <1>2, <2>0, <2>4, <3>1, <3>2, <3>3 DEF Worth, Given, Reporters
    <3>4. CASE x = "out"
      BY <1>1, <1>2, <2>0, <2>4, <3>1, <3>2, <3>4 DEF Worth, Given, Reporters
    <3> QED BY <3>3, <3>4
  <2>5. CASE e.kind \in {"block_start", "block_stop", "end"}
    <3>1. said'.reported = said.reported /\ stage' # "start" /\ stage # "start" /\ e.report = Zero
      BY <1>1, <2>5, Constants
         DEF Spoke, SayBlock, SayBlockStop, SayEnd, SaidType, Staged, GoodEvents
    <3> QED BY <2>1, <3>1
  <2>6. CASE e.kind \in {"text", "call", "part"}
    <3>1. e.report = Zero /\ stage = "body" /\ stage' = "body" /\ said'.reported = said.reported
      BY <1>1, <1>3, <2>6 DEF Spoke, SayText, SayCall, SayPart, SaidType, Staged
    <3> QED BY <2>1, <3>1
  <2> QED BY <2>2, <2>3, <2>4, <2>5, <2>6 DEF Spoke
<1>5. CASE e.kind \in {"text", "call", "part"}
  <2>1. e.report = Zero /\ said'.reported = said.reported
    BY <1>1, <1>3, <1>5 DEF Spoke, SayText, SayCall, SayPart, SaidType
  <2>2. stage = "body" /\ stage' = "body"
    BY <1>5 DEF Spoke, SayText, SayCall, SayPart
  <2>3. ~said.reported
    BY <2>2 DEF Staged, Late
  <2> QED BY <1>1, <1>2, <2>1, <2>2, <2>3 DEF Worth, Given
<1>6. CASE e.kind \notin {"text", "call", "part"}
  <2>1. said'.parts = said.parts /\ said'.text = said.text
    <3>1. CASE e.kind \in {"start", "end", "usage"}
      BY <1>1, <3>1 DEF Spoke, SayStart, SayEnd, SayUsage, SaidType
    <3>2. CASE e.kind \in {"block_start", "block_stop"}
      BY <1>1, <3>2 DEF Spoke, SayBlock, SayBlockStop, SaidType
    <3>3. CASE e.kind = "finish"
      <4>1. PICK b \in BOOLEAN : said' = [said EXCEPT !.reported = b]
        BY <3>3 DEF Spoke, SayFinish
      <4> QED BY <1>1, <4>1 DEF SaidType
    <3> QED BY <1>6, <3>1, <3>2, <3>3 DEF Spoke
  <2> QED BY <1>4, <2>1
<1> QED BY <1>5, <1>6

\* A step that leaves the worth of the report alone.
LEMMA SameWorth ==
  ASSUME Typed, Typed', Format' = Format, Before' = Before, UNCHANGED <<said, stage>>
  PROVE  \A x : Worth(x)' = Worth(x) /\ Given(x)' = Given(x) /\ Told(x)' = Told(x)
<1>1. Output' = Output
  <2>1. Typed' => (Output \in Nat /\ Output = said.text + SumOver(said.parts, Calls))'
    BY OutputSum, PTL
  <2> QED BY <2>1, OutputSum
<1> QED BY <1>1 DEF Worth, Given, Told

LEMMA ReportSpeaks ==
  ASSUME Typed, Staged, Format \in Formats, Format # "gemini", Format' = Format, Before' = Before,
         NEW e \in GoodEvents, Spoke(e), NEW x \in {"in", "out"}, OneReport(x)
  PROVE  OneReport(x)'
<1>1. /\ Amount(e.report, x) \in {0, Worth(x)'}
      /\ e.kind \notin Reporters => e.report = Zero
      /\ Given(x) => Given(x)' /\ Worth(x)' = Worth(x) /\ Amount(e.report, x) = 0
      /\ ~Given(x) => (Given(x)' <=> Amount(e.report, x) # 0)
  BY SpeaksWorth
<1>2. events' = Append(events, e) /\ UNCHANGED <<toSend, chunks, got>>
  BY DEF Spoke, Say, workerVars, readVars
<1>3. Booked(x)' = Booked(x)
  BY <1>2 DEF Booked
<1>4. PICK E, C : E = Reporting(x) /\ C = Carrying(x)
  OBVIOUS
<1>5. PICK ne \in Nat, ns \in Nat, nc \in Nat, nb \in Nat :
        /\ ne = Count(events, E) /\ ns = Count(toSend, C) /\ nc = Count(chunks, C) /\ nb = Booked(x)
        /\ Given(x) => ne + ns + nc + nb = 1
        /\ ~Given(x) => ne + ns + nc + nb = 0
  <2>1. Count(events, E) \in Nat /\ Count(toSend, C) \in Nat /\ Count(chunks, C) \in Nat
        /\ Booked(x) \in {0, 1}
    BY CountsAre, WorthIs
  <2>2. Count(events, E) + Count(toSend, C) + Count(chunks, C) + Booked(x) = IF Given(x) THEN 1 ELSE 0
    BY <1>4, Zenon DEF OneReport
  <2>3. /\ Given(x) => Count(events, E) + Count(toSend, C) + Count(chunks, C) + Booked(x) = 1
        /\ ~Given(x) => Count(events, E) + Count(toSend, C) + Count(chunks, C) + Booked(x) = 0
    BY <2>2, Zenon
  <2> QED BY <2>1, <2>3
<1>6. Count(events', E) = ne + (IF Amount(e.report, x) # 0 THEN 1 ELSE 0)
  <2>1. e \in E <=> Amount(e.report, x) # 0
    BY <1>4 DEF Reporting
  <2> QED BY <1>2, <1>5, <2>1, SayCounts
<1>7. Count(events', Reporting(x)) + Count(toSend', Carrying(x)) + Count(chunks', Carrying(x)) + Booked(x)'
        = IF Given(x)' THEN 1 ELSE 0
  <2>1. Count(events', E) + Count(toSend', C) + Count(chunks', C) + nb = IF Given(x)' THEN 1 ELSE 0
    <3>1. CASE Given(x)
      <4>1. ne + ns + nc + nb = 1 /\ Amount(e.report, x) = 0 /\ Count(events', E) = ne
        BY <1>1, <1>5, <1>6, <3>1
      <4>2. Count(events', E) + Count(toSend', C) + Count(chunks', C) + nb = 1
        BY <1>2, <1>5, <4>1
      <4> QED BY <1>1, <3>1, <4>2, Zenon
    <3>2. CASE ~Given(x)
      <4>1. ne + ns + nc + nb = 0
        BY <1>5, <3>2, Zenon
      <4>3. ne = 0 /\ ns = 0 /\ nc = 0 /\ nb = 0
        BY <4>1
      <4>2. Count(events', E) + Count(toSend', C) + Count(chunks', C) + nb
              = IF Amount(e.report, x) # 0 THEN 1 ELSE 0
        BY <1>2, <1>5, <1>6, <4>3
      <4> QED BY <1>1, <3>2, <4>2, Zenon
    <3> QED BY <3>1, <3>2
  <2> QED BY <1>3, <1>4, <1>5, <2>1, Zenon
<1>8. PICK w : w = Worth(x)'
  OBVIOUS
<1>9. \A d \in Told(x) : Given(x) => d \in Told(x)'
  <2>1. Given(x) => Worth(x)' = Worth(x)
    BY <1>1
  <2> QED BY <2>1 DEF Told
<1>10. e \in Told(x)'
  BY <1>1 DEF Told
<1>11. CASE Given(x)
  <2>1. Told(x) = Told(x)' /\ Worth(x)' = Worth(x)
    <3>1. Worth(x)' = Worth(x)
      BY <1>1, <1>11
    <3> QED BY <3>1 DEF Told
  <2>2. events' \in Seq(Told(x)')
    <3>1. PICK T : T = Told(x) /\ T = Told(x)'
      BY <2>1
    <3>2. Append(events, e) \in Seq(T)
      BY <1>10, <3>1, AppendProperties DEF OneReport
    <3> QED BY <1>2, <3>1, <3>2
  <2>3. Amount(got, x) \in {Amount(Before, x), Amount(Before, x) + Worth(x)}
        /\ toSend \in Seq(Fair(x, Worth(x))) /\ chunks \in Seq(Fair(x, Worth(x)))
    BY DEF OneReport
  <2>4. Amount(got, x)' = Amount(got, x) /\ Amount(Before, x)' = Amount(Before, x)
        /\ Fair(x, Worth(x))' = Fair(x, Worth(x))
    BY <1>2, <2>1 DEF Amount, Fair
  <2> QED BY <1>2, <1>7, <2>1, <2>2, <2>3, <2>4 DEF OneReport
<1>12. CASE ~Given(x)
  <2>0. ne + ns + nc + nb = 0
    BY <1>5, <1>12, Zenon
  <2>1. ne = 0 /\ ns = 0 /\ nc = 0 /\ nb = 0
    BY <2>0
  <2>2. toSend \in Seq(Fair(x, w)) /\ chunks \in Seq(Fair(x, w))
    BY <1>4, <1>5, <2>1, NoneCarried DEF Typed
  <2>3. events' \in Seq(Told(x)')
    <3>1. PICK T, s : T = Told(x)' /\ s = events
      OBVIOUS
    <3>2. s \in Seq(GoodEvents) /\ s \in Seq(Told(x))
      BY <3>1 DEF Typed, OneReport
    <3>3. \A i \in 1..Len(s) : s[i] \in Told(x) /\ s[i] \notin E
      BY <1>5, <2>1, <3>1, <3>2, CountZero, ElementOfSeq
    <3>4. \A i \in 1..Len(s) : s[i] \in T
      BY <1>4, <3>1, <3>3 DEF Told, Reporting
    <3>5. s \in Seq(T)
      BY <3>2, <3>4, Narrow
    <3> QED BY <1>2, <1>10, <3>1, <3>5, AppendProperties
  <2>4. Amount(got, x) = Amount(Before, x)
    BY <1>5, <2>1 DEF Booked
  <2>5. Amount(got, x)' = Amount(got, x) /\ Amount(Before, x)' = Amount(Before, x)
        /\ Fair(x, Worth(x))' = Fair(x, w)
    BY <1>2, <1>8 DEF Amount, Fair
  <2> QED BY <1>2, <1>7, <2>2, <2>3, <2>4, <2>5 DEF OneReport
<1> QED BY <1>11, <1>12

LEMMA ReportInterrupts ==
  ASSUME Typed, Typed', Format' = Format, Before' = Before, Interrupts, NEW x, OneReport(x)
  PROVE  OneReport(x)'
<1>1. /\ UNCHANGED <<stage, said, toSend, chunks, got>>
      /\ events' = events \/ events' = Append(events, ErrorEvent)
      /\ ErrorEvent \in GoodEvents /\ ErrorEvent.kind = "error" /\ ErrorEvent.report = Zero
  BY Interrupted DEF workerVars, readVars
<1>2. Worth(x)' = Worth(x) /\ Given(x)' = Given(x) /\ Told(x)' = Told(x)
  BY <1>1, SameWorth
<1>3. Booked(x)' = Booked(x) /\ Amount(got, x)' = Amount(got, x)
  BY <1>1 DEF Booked, Amount
<1>4. CASE events' = events
  BY <1>1, <1>2, <1>3, <1>4 DEF OneReport, Carrying, Reporting, Fair, Amount
<1>5. CASE events' = Append(events, ErrorEvent)
  <2>1. ErrorEvent \in Told(x) /\ ErrorEvent \notin Reporting(x)
    BY <1>1, AmountsAre DEF Told, Reporting
  <2>2. events' \in Seq(Told(x))
    BY <1>5, <2>1, AppendProperties DEF OneReport
  <2>3. Count(events', Reporting(x)) = Count(events, Reporting(x))
    <3>1. PICK G : G = Reporting(x)
      OBVIOUS
    <3>2. Count(events, G) \in Nat
      BY CountsAre
    <3> QED BY <1>1, <1>5, <2>1, <3>1, <3>2, SayCounts
  <2> QED BY <1>1, <1>2, <1>3, <2>2, <2>3 DEF OneReport, Carrying, Reporting, Fair, Amount
<1> QED BY <1>1, <1>4, <1>5

LEMMA ReportTakes ==
  ASSUME Typed, Typed', Format # "gemini", Format' = Format, Before' = Before, TakeEvent,
         NEW x, OneReport(x)
  PROVE  OneReport(x)'
<1>1. UNCHANGED <<said, stage, chunks, got>> /\ toSend = <<>> /\ events # <<>> /\ events' = Tail(events)
  BY DEF TakeEvent, serverVars, readVars
<1>2. Worth(x)' = Worth(x) /\ Given(x)' = Given(x) /\ Told(x)' = Told(x)
  BY <1>1, SameWorth
<1>3. PICK T, F, E, C : T = Told(x) /\ F = Fair(x, Worth(x)) /\ E = Reporting(x) /\ C = Carrying(x)
  OBVIOUS
<1>4. PICK e \in T : e = Head(events) /\ events' \in Seq(T)
  BY <1>1, <1>3, HeadTail DEF OneReport
<1>5. e \in GoodEvents /\ Amount(e.report, x) \in {0, Worth(x)}
      /\ (e.kind \notin Reporters => e.report = Zero) /\ (e \in E <=> Amount(e.report, x) # 0)
  <2>1. e \in Told(x)
    BY <1>3, <1>4
  <2>2. e \in GoodEvents /\ Amount(e.report, x) \in {0, Worth(x)}
        /\ (e.kind \notin Reporters => e.report = Zero)
    <3>1. \A d \in Told(x) : d \in GoodEvents /\ Amount(d.report, x) \in {0, Worth(x)}
                              /\ (d.kind \notin Reporters => d.report = Zero)
      BY Zenon DEF Told
    <3> QED BY <2>1, <3>1, Zenon
  <2>3. e \in E <=> Amount(e.report, x) # 0
    BY <1>3, <2>2 DEF Reporting
  <2> QED BY <2>2, <2>3
<1>6. TakeAnthropic(e) \/ TakeChat(e) \/ TakeOllama(e)
  BY <1>4 DEF TakeEvent
<1>7. toSend' \in Seq(F) /\ Count(toSend', C) = IF e \in E THEN 1 ELSE 0
  BY <1>1, <1>3, <1>5, <1>6, SendsReport
<1>8. Count(events, E) = Count(events', E) + (IF e \in E THEN 1 ELSE 0)
  BY <1>4, TakeCounts
<1>9. Count(toSend, C) = 0 /\ Count(events', E) \in Nat /\ Count(chunks, C) \in Nat
  BY <1>1, CountEmpty, CountFinite, CountsAre DEF Typed
<1>10. Count(events', E) + Count(toSend', C) + Count(chunks', C) = Count(events, E) + Count(toSend, C)
         + Count(chunks, C)
  BY <1>1, <1>7, <1>8, <1>9
<1>11. Booked(x)' = Booked(x) /\ Amount(got, x)' = Amount(got, x) /\ Amount(Before, x)' = Amount(Before, x)
       /\ Fair(x, Worth(x))' = Fair(x, Worth(x)) /\ Carrying(x)' = Carrying(x)
       /\ Reporting(x)' = Reporting(x)
  BY <1>1, <1>2 DEF Booked, Amount, Fair, Carrying, Reporting
<1>12. Count(events', E) + Count(toSend', C) + Count(chunks', C) + Booked(x) = IF Given(x) THEN 1 ELSE 0
  <2>1. Count(events, E) + Count(toSend, C) + Count(chunks, C) + Booked(x) = IF Given(x) THEN 1 ELSE 0
    BY <1>3, Zenon DEF OneReport
  <2> QED BY <1>10, <2>1, Zenon
<1>13. events' \in Seq(Told(x)') /\ toSend' \in Seq(Fair(x, Worth(x))') /\ chunks' \in Seq(Fair(x, Worth(x))')
  BY <1>1, <1>2, <1>3, <1>4, <1>7, <1>11 DEF OneReport
<1>14. Amount(got, x)' \in {Amount(Before, x)', Amount(Before, x)' + Worth(x)'}
  BY <1>2, <1>11 DEF OneReport
<1> QED BY <1>2, <1>3, <1>11, <1>12, <1>13, <1>14, Zenon DEF OneReport

LEMMA ReportSends ==
  ASSUME Typed, Typed', Format' = Format, Before' = Before, SendChunk, NEW x, OneReport(x)
  PROVE  OneReport(x)'
<1>1. UNCHANGED <<said, stage, events, got>> /\ toSend # <<>> /\ toSend' = Tail(toSend)
      /\ chunks' = Append(chunks, Head(toSend))
  BY DEF SendChunk, serverVars, readVars
<1>2. Worth(x)' = Worth(x) /\ Given(x)' = Given(x) /\ Told(x)' = Told(x)
  BY <1>1, SameWorth
<1>3. PICK F, E, C : F = Fair(x, Worth(x)) /\ E = Reporting(x) /\ C = Carrying(x)
  OBVIOUS
<1>4. toSend' \in Seq(F) /\ chunks' \in Seq(F)
  <2>1. Head(toSend) \in F /\ Tail(toSend) \in Seq(F)
    BY <1>1, <1>3, HeadTail DEF OneReport
  <2>2. Append(chunks, Head(toSend)) \in Seq(F)
    BY <1>3, <2>1, AppendProperties DEF OneReport
  <2> QED BY <1>1, <2>1, <2>2
<1>5. Count(events', E) + Count(toSend', C) + Count(chunks', C) = Count(events, E) + Count(toSend, C)
         + Count(chunks, C)
  <2>1. Count(toSend', C) + Count(chunks', C) = Count(toSend, C) + Count(chunks, C)
    BY SendCounts
  <2>2. Count(events, E) \in Nat /\ Count(toSend, C) \in Nat /\ Count(chunks, C) \in Nat
    BY CountsAre
  <2>3. toSend' \in Seq(GoodChunks) /\ chunks' \in Seq(GoodChunks)
    BY DEF Typed
  <2>4. Count(toSend', C) \in Nat /\ Count(chunks', C) \in Nat
    BY <2>3, CountFinite
  <2>5. Count(events', E) = Count(events, E)
    BY <1>1
  <2> QED BY <2>1, <2>2, <2>4, <2>5
<1>6. Booked(x)' = Booked(x) /\ Amount(got, x)' = Amount(got, x) /\ Amount(Before, x)' = Amount(Before, x)
       /\ Fair(x, Worth(x))' = Fair(x, Worth(x)) /\ Carrying(x)' = Carrying(x)
       /\ Reporting(x)' = Reporting(x)
  BY <1>1, <1>2 DEF Booked, Amount, Fair, Carrying, Reporting
<1>7. Count(events', E) + Count(toSend', C) + Count(chunks', C) + Booked(x) = IF Given(x) THEN 1 ELSE 0
  <2>1. Count(events, E) + Count(toSend, C) + Count(chunks, C) + Booked(x) = IF Given(x) THEN 1 ELSE 0
    BY <1>3, Zenon DEF OneReport
  <2> QED BY <1>5, <2>1, Zenon
<1>8. events' \in Seq(Told(x)') /\ toSend' \in Seq(Fair(x, Worth(x))') /\ chunks' \in Seq(Fair(x, Worth(x))')
  BY <1>1, <1>2, <1>3, <1>4, <1>6 DEF OneReport
<1>9. Amount(got, x)' \in {Amount(Before, x)', Amount(Before, x)' + Worth(x)'}
  BY <1>2, <1>6 DEF OneReport
<1> QED BY <1>2, <1>3, <1>6, <1>7, <1>8, <1>9, Zenon DEF OneReport

\* The stage books what a chunk carries: on top of what it has, or in the place of it.
LEMMA ReportReceives ==
  ASSUME Typed, Typed', Format' = Format, Before' = Before, Receive, consumer' # "error",
         NEW x \in {"in", "out"}, OneReport(x)
  PROVE  OneReport(x)'
<1>1. UNCHANGED <<said, stage, events, toSend>> /\ chunks # <<>> /\ chunks' = Tail(chunks)
  BY DEF Receive, serverVars, workerVars
<1>2. Worth(x)' = Worth(x) /\ Given(x)' = Given(x) /\ Told(x)' = Told(x)
  BY <1>1, SameWorth
<1>3. PICK F, E, C : F = Fair(x, Worth(x)) /\ E = Reporting(x) /\ C = Carrying(x)
  OBVIOUS
<1>4. PICK h \in F : h = Head(chunks) /\ chunks' \in Seq(F)
  BY <1>1, <1>3, HeadTail DEF OneReport
<1>5. PICK v \in Nat, g \in Nat, b \in {0, 1}, a \in Nat, g1 \in Nat :
        /\ v = Worth(x) /\ g = Amount(got, x) /\ b = Amount(Before, x) /\ a = Amount(h, x)
        /\ g1 = Amount(got, x)' /\ (reader # "tool_loop" => b = 0)
  <2>1. Amount(h, x) \in Nat
    BY <1>3, <1>4 DEF Fair, GoodChunks, ChunkType, Tokens, Amount
  <2>2. Amount(got, x)' \in Nat
    BY DEF Typed, GotType, Tokens, Amount
  <2> QED BY <2>1, <2>2, WorthIs
<1>6. a \in {0, v} /\ (h \in C <=> a # 0)
  BY <1>3, <1>4, <1>5 DEF Fair, Carrying
<1>7. g1 = Counted(g, a)
  <2>1. got'.in = Counted(got.in, h.in) /\ got'.out = Counted(got.out, h.out)
    BY <1>4 DEF Receive
  <2> QED BY <1>5, <2>1 DEF Amount
<1>8. PICK ne \in Nat, ns \in Nat, nc \in Nat, nc1 \in Nat, nb \in Nat :
        /\ ne = Count(events, E) /\ ns = Count(toSend, C) /\ nc = Count(chunks, C)
        /\ nc1 = Count(chunks', C) /\ nb = Booked(x)
        /\ nc = nc1 + (IF h \in C THEN 1 ELSE 0)
        /\ ne + ns + nc + nb = (IF Given(x) THEN 1 ELSE 0) /\ ne + ns + nc + nb \in {0, 1}
  <2>1. /\ Count(events, E) \in Nat /\ Count(toSend, C) \in Nat /\ Count(chunks, C) \in Nat
        /\ Count(chunks', C) \in Nat /\ Booked(x) \in Nat
    <3>1. Count(events, E) \in Nat /\ Count(toSend, C) \in Nat /\ Count(chunks, C) \in Nat
      BY CountsAre
    <3>2. chunks' \in Seq(GoodChunks)
      BY DEF Typed
    <3>3. Count(chunks', C) \in Nat
      BY <3>2, CountFinite
    <3>4. Booked(x) \in Nat
      BY DEF Booked
    <3> QED BY <3>1, <3>3, <3>4
  <2>2. Count(events, E) + Count(toSend, C) + Count(chunks, C) + Booked(x) = IF Given(x) THEN 1 ELSE 0
    BY <1>3, Zenon DEF OneReport
  <2>3. Count(events, E) + Count(toSend, C) + Count(chunks, C) + Booked(x) \in {0, 1}
    BY <2>2, Zenon
  <2>4. Count(chunks, C) = Count(chunks', C) + (IF h \in C THEN 1 ELSE 0)
    BY <1>4, ReceiveCounts
  <2> QED BY <2>1, <2>2, <2>3, <2>4
<1>9. nb = IF g = b THEN 0 ELSE 1
  BY <1>5, <1>8 DEF Booked
<1>10. g \in {b, b + v}
  BY <1>5 DEF OneReport
<1>11. Booked(x)' = (IF g1 = b THEN 0 ELSE 1) /\ Amount(Before, x)' = b
  BY <1>5 DEF Booked, Amount
<1>12. g1 \in {b, b + v} /\ nc1 + (IF g1 = b THEN 0 ELSE 1) = nc + nb
  <2>1. CASE a = 0
    <3>1. g1 = g
      BY <1>5, <1>7, <2>1 DEF Counted
    <3> QED BY <1>6, <1>8, <1>9, <1>10, <2>1, <3>1
  <2>2. CASE a # 0
    <3>1. a = v /\ nc = nc1 + 1
      BY <1>6, <1>8, <2>2
    <3>2. nb = 0 /\ g = b
      <4>1. nc >= 1 /\ ne + ns + nc + nb <= 1
        BY <1>8, <3>1
      <4> QED BY <1>9, <4>1
    <3>3. g1 = b + v /\ v > 0
      <4>1. CASE reader = "tool_loop"
        BY <1>5, <1>7, <2>2, <3>1, <3>2, <4>1 DEF Counted
      <4>2. CASE reader # "tool_loop"
        BY <1>5, <1>7, <2>2, <3>1, <3>2, <4>2 DEF Counted
      <4> QED BY <4>1, <4>2
    <3> QED BY <3>1, <3>2, <3>3
  <2> QED BY <2>1, <2>2
<1>13. Count(events', E) + Count(toSend', C) + Count(chunks', C) + Booked(x)' = IF Given(x)' THEN 1 ELSE 0
  <2>1. PICK nb1 \in Nat : nb1 = Booked(x)' /\ nc1 + nb1 = nc + nb
    BY <1>11, <1>12
  <2>2. ne + ns + nc1 + nb1 = ne + ns + nc + nb
    BY <2>1
  <2>3. Count(events', E) + Count(toSend', C) + Count(chunks', C) + Booked(x)' = ne + ns + nc1 + nb1
    BY <1>1, <1>8, <2>1
  <2> QED BY <1>2, <1>8, <2>2, <2>3, Zenon
<1>14. Fair(x, Worth(x))' = Fair(x, Worth(x)) /\ Carrying(x)' = Carrying(x) /\ Reporting(x)' = Reporting(x)
  BY <1>2 DEF Fair, Carrying, Reporting, Amount
<1>15. events' \in Seq(Told(x)') /\ toSend' \in Seq(Fair(x, Worth(x))') /\ chunks' \in Seq(Fair(x, Worth(x))')
  BY <1>1, <1>2, <1>3, <1>4, <1>14 DEF OneReport
<1>16. Amount(got, x)' \in {Amount(Before, x)', Amount(Before, x)' + Worth(x)'}
  BY <1>2, <1>5, <1>11, <1>12
<1> QED BY <1>3, <1>13, <1>14, <1>15, <1>16, Zenon DEF OneReport

\* Chunks of which none carries tokens, and chunks of which the last that does is worth v.
Mute == {h \in GoodChunks : h.in = 0 /\ h.out = 0}
Worthy(v) == {h \in GoodChunks : h.in = 1 /\ h.out = v}
Silent(s) == \A i \in 1..Len(s) : s[i] \in Mute
LastOf(s, v) == \E i \in 1..Len(s) : s[i] \in Worthy(v) /\ \A j \in 1..Len(s) : j > i => s[j] \in Mute

LEMMA LastAppend ==
  ASSUME NEW s \in Seq(GoodChunks), NEW h \in GoodChunks, NEW v
  PROVE  /\ h \in Worthy(v) => LastOf(Append(s, h), v)
         /\ h \in Mute /\ LastOf(s, v) => LastOf(Append(s, h), v)
         /\ h \in Mute /\ Silent(s) => Silent(Append(s, h))
<1>0. PICK t : t = Append(s, h)
  OBVIOUS
<1>1. PICK n \in Nat :
        /\ n = Len(s) /\ t = Append(s, h) /\ Len(t) = n + 1
        /\ \A i \in 1..n : t[i] = s[i]
        /\ t[n + 1] = h
  <2>1. /\ Len(s) \in Nat /\ Len(Append(s, h)) = Len(s) + 1
        /\ \A i \in 1..Len(s) : Append(s, h)[i] = s[i]
        /\ Append(s, h)[Len(s) + 1] = h
    BY AppendProperties, LenProperties
  <2> QED BY <1>0, <2>1
<1>2. \A i \in 1..(n + 1) : i \in 1..n \/ i = n + 1
  OBVIOUS
<1>3. \A i \in 1..n : i \in 1..(n + 1)
  OBVIOUS
<1>4. ASSUME h \in Worthy(v) PROVE LastOf(t, v)
  <2>1. n + 1 \in 1..(n + 1) /\ \A j \in 1..(n + 1) : ~(j > n + 1)
    OBVIOUS
  <2> QED BY <1>1, <1>4, <2>1 DEF LastOf
<1>5. ASSUME h \in Mute, LastOf(s, v) PROVE LastOf(t, v)
  <2>1. PICK i \in 1..n : s[i] \in Worthy(v) /\ \A j \in 1..n : j > i => s[j] \in Mute
    BY <1>1, <1>5 DEF LastOf
  <2>2. i \in 1..(n + 1) /\ t[i] \in Worthy(v)
    BY <1>1, <1>3, <2>1
  <2>3. \A j \in 1..(n + 1) : j > i => t[j] \in Mute
    BY <1>1, <1>2, <1>5, <2>1
  <2> QED BY <1>1, <2>2, <2>3 DEF LastOf
<1>6. ASSUME h \in Mute, Silent(s) PROVE Silent(t)
  BY <1>1, <1>2, <1>6 DEF Silent
<1> QED BY <1>1, <1>4, <1>5, <1>6

LEMMA LastTail ==
  ASSUME NEW s \in Seq(GoodChunks), s # <<>>, NEW v
  PROVE  /\ LastOf(s, v) => LastOf(Tail(s), v) \/ (Head(s) \in Worthy(v) /\ Silent(Tail(s)))
         /\ Silent(s) => Silent(Tail(s)) /\ Head(s) \in Mute
<1>0. PICK t : t = Tail(s)
  OBVIOUS
<1>1. PICK n \in Nat :
        /\ n + 1 = Len(s) /\ t = Tail(s) /\ Len(t) = n /\ Head(s) = s[1]
        /\ \A i \in 1..n : t[i] = s[i + 1]
  <2>1. /\ Len(s) - 1 \in Nat /\ (Len(s) - 1) + 1 = Len(s)
        /\ Len(Tail(s)) = Len(s) - 1 /\ Head(s) = s[1]
        /\ \A i \in 1..(Len(s) - 1) : Tail(s)[i] = s[i + 1]
    BY HeadTail
  <2> QED BY <1>0, <2>1
<1>2. 1 \in 1..(n + 1) /\ \A i \in 1..n : i + 1 \in 1..(n + 1) /\ i + 1 > 1
  OBVIOUS
<1>3. ASSUME LastOf(s, v) PROVE LastOf(t, v) \/ (Head(s) \in Worthy(v) /\ Silent(t))
  <2>1. PICK i \in 1..(n + 1) : s[i] \in Worthy(v) /\ \A j \in 1..(n + 1) : j > i => s[j] \in Mute
    BY <1>1, <1>3 DEF LastOf
  <2>2. CASE i = 1
    <3>1. \A j \in 1..n : t[j] \in Mute
      BY <1>1, <1>2, <2>1, <2>2
    <3> QED BY <1>1, <2>1, <2>2, <3>1 DEF Silent
  <2>3. CASE i # 1
    <3>1. PICK k \in 1..n : k + 1 = i
      <4>1. i - 1 \in 1..n /\ (i - 1) + 1 = i
        BY <2>1, <2>3
      <4> QED BY <4>1
    <3>2. t[k] \in Worthy(v)
      BY <1>1, <2>1, <3>1
    <3>3. \A j \in 1..n : j > k => j + 1 > i
      BY <3>1
    <3>4. \A j \in 1..n : j > k => t[j] \in Mute
      BY <1>1, <1>2, <2>1, <3>3
    <3> QED BY <1>1, <3>2, <3>4 DEF LastOf
  <2> QED BY <2>2, <2>3
<1>4. ASSUME Silent(s) PROVE Silent(t) /\ Head(s) \in Mute
  BY <1>1, <1>2, <1>4 DEF Silent
<1> QED BY <1>1, <1>3, <1>4

LEMMA LastEmpty ==
  ASSUME NEW s, s = <<>>
  PROVE  Silent(s) /\ \A v : ~LastOf(s, v)
<1>1. 1..Len(s) = {}
  BY EmptySeq
<1> QED BY <1>1 DEF Silent, LastOf

\* Gemini, whose reports are cumulative, read by a stage that keeps the last: the finish
\* has the whole usage, and once it is taken nothing that follows it has any.
LastWhole ==
  \/ LastOf(toSend, Output)
  \/ Silent(toSend) /\ LastOf(chunks, Output)
  \/ Silent(toSend) /\ Silent(chunks) /\ got.in = 1 /\ (Output > 0 => got.out = Output)
LastReported ==
  /\ \A i \in 1..Len(events) : events[i].kind = "finish" => events[i].report = Whole
  /\ FinishTaken => LastWhole

\* Output, in a step that the provider has no part in.
LEMMA SameOutput ==
  ASSUME Typed, Typed', Format' = Format, said' = said
  PROVE  Output' = Output /\ Whole' = Whole
<1>1. Output' = Output
  <2>1. Typed' => (Output \in Nat /\ Output = said.text + SumOver(said.parts, Calls))'
    BY OutputSum, PTL
  <2> QED BY <2>1, OutputSum
<1> QED BY <1>1 DEF Whole

LEMMA LastSpeaks ==
  ASSUME Typed, Ordered, Format = "gemini", Format' = Format, NEW e \in GoodEvents, Spoke(e), LastReported
  PROVE  LastReported'
<1>1. stage = "body" /\ (stage' \in Late => e.kind = "finish")
  <2>1. stage # "complete" /\ (stage' \in Late /\ stage \notin Late => e.kind = "finish")
    BY StagedSpeaks DEF Ordered, Formats
  <2> QED BY <2>1 DEF Ordered, Staged, Late
<1>2. PICK n \in Nat :
        /\ n = Len(events) /\ Len(events') = n + 1
        /\ \A i \in 1..n : events'[i] = events[i] /\ events[i] \in GoodEvents
        /\ events'[n + 1] = e
  BY SaidAt DEF Spoke, Say
<1>3. n + 1 \in 1..(n + 1) /\ \A i \in 1..(n + 1) : i \in 1..n \/ i = n + 1
  OBVIOUS
<1>4. \A i \in 1..n : events'[i].kind # "finish"
  BY <1>1, <1>2 DEF Ordered, Placed, Late
<1>5. ~FinishTaken'
  BY <1>1, <1>2, <1>3 DEF FinishTaken
<1>6. ASSUME e.kind = "finish" PROVE e.report = Whole'
  <2>1. said' = [said EXCEPT !.reported = TRUE]
    BY <1>6 DEF Spoke, SayFinish
  <2>2. said'.parts = said.parts /\ said'.text = said.text /\ said'.reported
    BY <2>1 DEF Typed, SaidType
  <2>3. e.report = Whole
    BY <1>6, <2>2, Zenon DEF Spoke
  <2>4. Output' = Output
    <3>1. Typed'
      BY TypedSay DEF Spoke
    <3>2. Typed' => (Output \in Nat /\ Output = said.text + SumOver(said.parts, Calls))'
      BY OutputSum, PTL
    <3> QED BY <2>2, <3>1, <3>2, OutputSum
  <2> QED BY <2>3, <2>4 DEF Whole
<1>7. \A i \in 1..(n + 1) : events'[i].kind = "finish" => events'[i].report = Whole'
  BY <1>2, <1>3, <1>4, <1>6
<1> QED BY <1>2, <1>5, <1>7 DEF LastReported

LEMMA LastInterrupts ==
  ASSUME Typed, Typed', Format' = Format, Interrupts, LastReported
  PROVE  LastReported'
<1>1. /\ UNCHANGED <<stage, said, toSend, chunks, got>>
      /\ events' = events \/ events' = Append(events, ErrorEvent)
      /\ ErrorEvent \in GoodEvents /\ ErrorEvent.kind = "error"
  BY Interrupted DEF workerVars, readVars
<1>2. Output' = Output /\ Whole' = Whole
  BY <1>1, SameOutput
<1>3. LastWhole' <=> LastWhole
  BY <1>1, <1>2 DEF LastWhole, LastOf, Silent
<1>4. CASE events' = events
  BY <1>1, <1>2, <1>3, <1>4 DEF LastReported, FinishTaken
<1>5. CASE events' = Append(events, ErrorEvent)
  <2>1. PICK n \in Nat :
          /\ n = Len(events) /\ Len(events') = n + 1
          /\ \A i \in 1..n : events'[i] = events[i]
          /\ events'[n + 1] = ErrorEvent
    BY <1>1, <1>5, SaidAt
  <2>2. (\A i \in 1..n : i \in 1..(n + 1)) /\ \A i \in 1..(n + 1) : i \in 1..n \/ i = n + 1
    OBVIOUS
  <2>3. FinishTaken' => FinishTaken
    BY <1>1, <2>1, <2>2 DEF FinishTaken
  <2>4. \A i \in 1..(n + 1) : events'[i].kind = "finish" => events'[i].report = Whole'
    BY <1>1, <1>2, <2>1, <2>2 DEF LastReported
  <2> QED BY <1>3, <2>1, <2>3, <2>4 DEF LastReported
<1> QED BY <1>1, <1>4, <1>5

LEMMA LastTakes ==
  ASSUME Typed, Typed', Ordered, Format = "gemini", Format' = Format, TakeEvent, LastReported
  PROVE  LastReported'
<1>1. UNCHANGED <<stage, said, chunks, got>> /\ toSend = <<>>
  BY DEF TakeEvent, serverVars, readVars
<1>2. Output' = Output /\ Whole' = Whole /\ Output \in Nat
  BY <1>1, SameOutput, OutputIs
<1>3. PICK n \in Nat :
        /\ Len(events) = n + 1 /\ Len(events') = n
        /\ \A i \in 1..n : events'[i] = events[i + 1]
  <2>1. /\ Len(events) - 1 \in Nat /\ Len(events) = (Len(events) - 1) + 1
        /\ Len(events') = Len(events) - 1 /\ \A i \in 1..(Len(events) - 1) : events'[i] = events[i + 1]
    BY TakenAt
  <2> QED BY <2>1
<1>4. 1 \in 1..(n + 1) /\ (\A i \in 1..n : i + 1 \in 1..(n + 1))
      /\ \A k \in 1..(n + 1) : k = 1 \/ (k - 1 \in 1..n /\ k = (k - 1) + 1)
  OBVIOUS
<1>5. PICK e \in GoodEvents : e = Head(events) /\ e = events[1]
  BY TakenAt
<1>6. TakeGemini(e)
  BY <1>5 DEF TakeEvent
<1>7. \A i \in 1..n : events'[i].kind = "finish" => events'[i].report = Whole'
  BY <1>2, <1>3, <1>4 DEF LastReported
<1>8. ASSUME FinishTaken' PROVE LastWhole'
  <2>1. stage \in Late /\ \A i \in 1..n : events[i + 1].kind # "finish"
    BY <1>1, <1>3, <1>8 DEF FinishTaken
  <2>2. CASE e.kind = "finish"
    <3>1. e.report = Whole /\ Whole.in = 1 /\ Whole.out = Output /\ Whole # Zero
      BY <1>3, <1>4, <1>5, <2>2 DEF LastReported, Whole, Zero
    <3>2. PICK a \in GoodChunks, b \in GoodChunks :
            a = UsageChunk(e.report) /\ b = Plain("done")
      <4>1. e.report \in [in : Nat, out : Nat]
        BY DEF GoodEvents, EventType, Tokens
      <4> QED BY <4>1, ChunksAre
    <3>3. a \in Worthy(Output) /\ b \in Mute
      BY <3>1, <3>2 DEF UsageChunk, Plain, Chunk, Worthy, Mute, Zero
    <3>4. toSend' = <<a, b>>
      <4>1. toSend' = <<a>> \o <<b>>
        BY <1>6, <2>2, <3>1, <3>2 DEF TakeGemini, Reported
      <4> QED BY <4>1, ConcatShort
    <3>5. LastOf(<<a, b>>, Output)
      <4>1. Len(<<a, b>>) = 2 /\ <<a, b>>[1] = a /\ <<a, b>>[2] = b
        OBVIOUS
      <4>2. PICK s : s = <<a, b>> /\ Len(s) = 2 /\ s[1] = a /\ s[2] = b
        BY <4>1
      <4>3. 1 \in 1..2 /\ \A j \in 1..2 : j > 1 => j = 2
        OBVIOUS
      <4> QED BY <3>3, <4>2, <4>3 DEF LastOf
    <3>6. LastOf(toSend', Output')
      BY <1>2, <3>4, <3>5
    <3> QED BY <3>6 DEF LastWhole
  <2>3. CASE e.kind # "finish"
    <3>1. FinishTaken
      BY <1>3, <1>4, <1>5, <2>1, <2>3 DEF FinishTaken
    <3>2. e.kind = "error"
      <4>1. e.kind \in Final /\ e.kind \in Kinds(Format)
        BY <1>3, <1>4, <1>5, <3>1 DEF Ordered, Sorted, Placed
      <4> QED BY <4>1 DEF Final, Kinds
    <3>3. toSend' = <<Plain("error")>>
      BY <1>6, <3>2 DEF TakeGemini
    <3>4. Plain("error") \in Mute
      BY ChunksAre DEF Plain, Chunk, Mute, Zero
    <3>5. Silent(toSend')
      <4>1. PICK s, h : s = toSend' /\ h = Plain("error") /\ s = <<h>> /\ Len(s) = 1 /\ s[1] = h
        BY <3>3
      <4>2. \A i \in 1..1 : i = 1
        OBVIOUS
      <4> QED BY <3>4, <4>1, <4>2 DEF Silent
    <3>6. ~LastOf(toSend, Output)
      BY <1>1, LastEmpty
    <3>7. LastOf(chunks, Output) \/ (Silent(chunks) /\ got.in = 1 /\ (Output > 0 => got.out = Output))
      BY <3>1, <3>6 DEF LastReported, LastWhole
    <3> QED BY <1>1, <1>2, <3>5, <3>7 DEF LastWhole
  <2> QED BY <2>2, <2>3
<1> QED BY <1>3, <1>7, <1>8 DEF LastReported

\* LastWhole is about the chunks on their way and what the stage has.
LEMMA LastMoves ==
  ASSUME Typed, Typed', Format' = Format, LastReported, consumer' # "error", reader = "invoker",
         SendChunk \/ Receive \/ UNCHANGED <<stage, said, events, toSend, chunks, got>>
  PROVE  LastReported'
<1>1. UNCHANGED <<stage, said, events>>
  BY DEF SendChunk, Receive, serverVars
<1>2. Output' = Output /\ Whole' = Whole /\ Output \in Nat
  BY <1>1, SameOutput, OutputIs
<1>3. PICK v \in Nat : v = Output
  BY <1>2
<1>4. (FinishTaken' <=> FinishTaken)
      /\ \A i \in 1..Len(events') : events'[i].kind = "finish" => events'[i].report = Whole'
  BY <1>1, <1>2 DEF FinishTaken, LastReported
<1>5. SUFFICES ASSUME LastWhole PROVE LastWhole'
  BY <1>4 DEF LastReported
<1>6. CASE UNCHANGED <<stage, said, events, toSend, chunks, got>>
  BY <1>2, <1>5, <1>6 DEF LastWhole, LastOf, Silent
<1>7. CASE SendChunk
  <2>1. PICK s \in Seq(GoodChunks), t \in Seq(GoodChunks) : s = toSend /\ t = chunks /\ s # <<>>
    BY <1>7 DEF SendChunk, Typed
  <2>2. PICK h \in GoodChunks : h = Head(s)
    BY <2>1, HeadTail
  <2>3. toSend' = Tail(s) /\ chunks' = Append(t, h) /\ got' = got
    BY <1>7, <2>1, <2>2 DEF SendChunk, readVars
  <2>4. CASE LastOf(s, v)
    <3>1. LastOf(Tail(s), v) \/ (h \in Worthy(v) /\ Silent(Tail(s)))
      BY <2>1, <2>2, <2>4, LastTail
    <3>2. h \in Worthy(v) => LastOf(Append(t, h), v)
      BY LastAppend
    <3> QED BY <1>2, <1>3, <2>3, <3>1, <3>2 DEF LastWhole
  <2>5. CASE Silent(s) /\ LastOf(t, v)
    <3>1. Silent(Tail(s)) /\ h \in Mute
      BY <2>1, <2>2, <2>5, LastTail
    <3>2. LastOf(Append(t, h), v)
      BY <2>5, <3>1, LastAppend
    <3> QED BY <1>2, <1>3, <2>3, <3>1, <3>2 DEF LastWhole
  <2>6. CASE Silent(s) /\ Silent(t) /\ got.in = 1 /\ (v > 0 => got.out = v)
    <3>1. Silent(Tail(s)) /\ h \in Mute
      BY <2>1, <2>2, <2>6, LastTail
    <3>2. Silent(Append(t, h))
      BY <2>6, <3>1, LastAppend
    <3> QED BY <1>2, <1>3, <2>3, <2>6, <3>1, <3>2 DEF LastWhole
  <2> QED BY <1>3, <1>5, <2>1, <2>4, <2>5, <2>6 DEF LastWhole
<1>8. CASE Receive
  <2>1. PICK t \in Seq(GoodChunks) : t = chunks /\ t # <<>>
    BY <1>8 DEF Receive, Typed
  <2>2. PICK h \in GoodChunks : h = Head(t)
    BY <2>1, HeadTail
  <2>3. /\ toSend' = toSend /\ chunks' = Tail(t)
        /\ got'.in = Counted(got.in, h.in) /\ got'.out = Counted(got.out, h.out)
    BY <1>8, <2>1, <2>2 DEF Receive, workerVars
  <2>4. CASE LastOf(toSend, v)
    BY <1>2, <1>3, <2>3, <2>4 DEF LastWhole
  <2>5. CASE Silent(toSend) /\ LastOf(t, v)
    <3>1. LastOf(Tail(t), v) \/ (h \in Worthy(v) /\ Silent(Tail(t)))
      BY <2>1, <2>2, <2>5, LastTail
    <3>2. CASE LastOf(Tail(t), v)
      BY <1>2, <1>3, <2>3, <2>5, <3>2 DEF LastWhole
    <3>3. CASE h \in Worthy(v) /\ Silent(Tail(t))
      <4>1. h.in = 1 /\ h.out = v
        BY <3>3 DEF Worthy
      <4>2. got'.in = 1 /\ (v > 0 => got'.out = v)
        BY <2>3, <4>1 DEF Counted
      <4> QED BY <1>2, <1>3, <2>3, <2>5, <3>3, <4>2 DEF LastWhole
    <3> QED BY <3>1, <3>2, <3>3
  <2>6. CASE Silent(toSend) /\ Silent(t) /\ got.in = 1 /\ (v > 0 => got.out = v)
    <3>1. Silent(Tail(t)) /\ h \in Mute
      BY <2>1, <2>2, <2>6, LastTail
    <3>2. got'.in = got.in /\ got'.out = got.out
      <4>1. h.in = 0 /\ h.out = 0
        BY <3>1 DEF Mute
      <4> QED BY <2>3, <4>1 DEF Counted
    <3> QED BY <1>2, <1>3, <2>3, <2>6, <3>1, <3>2 DEF LastWhole
  <2> QED BY <1>3, <1>5, <2>1, <2>4, <2>5, <2>6 DEF LastWhole
<1> QED BY <1>6, <1>7, <1>8

\* The usage, as long as no error has ended the reading.
UsageKept ==
  consumer # "error" =>
    /\ Format # "gemini" => OneReport("in") /\ OneReport("out")
    /\ Format = "gemini" /\ reader = "invoker" => LastReported
Counting == Streamed /\ (phase = "open" => UsageKept)

LEMMA UsageFresh == ASSUME Typed, Fresh PROVE UsageKept
<1>1. /\ events = <<>> /\ toSend = <<>> /\ chunks = <<>> /\ 1..Len(events) = {} /\ ~said.reported
      /\ stage = (IF Format = "anthropic" THEN "start" ELSE "body")
      /\ got.in = Before.in /\ got.out = Before.out
  BY EmptySeq DEF Fresh
<1>2. ASSUME NEW x \in {"in", "out"} PROVE OneReport(x)
  <2>1. ~Given(x)
    BY <1>1 DEF Given
  <2>2. Amount(got, x) = Amount(Before, x) /\ Booked(x) = 0
    BY <1>1 DEF Amount, Booked
  <2>3. Count(events, Reporting(x)) = 0 /\ Count(toSend, Carrying(x)) = 0 /\ Count(chunks, Carrying(x)) = 0
    BY <1>1, CountEmpty
  <2>4. events \in Seq(Told(x)) /\ toSend \in Seq(Fair(x, Worth(x))) /\ chunks \in Seq(Fair(x, Worth(x)))
    BY <1>1, EmptySeq
  <2>5. Count(events, Reporting(x)) + Count(toSend, Carrying(x)) + Count(chunks, Carrying(x)) + Booked(x)
          = IF Given(x) THEN 1 ELSE 0
    <3>1. Count(events, Reporting(x)) + Count(toSend, Carrying(x)) + Count(chunks, Carrying(x)) + Booked(x)
            = 0
      BY <2>2, <2>3
    <3> QED BY <2>1, <3>1, Zenon
  <2> QED BY <2>2, <2>4, <2>5 DEF OneReport
<1>3. LastReported
  BY <1>1 DEF LastReported, FinishTaken, Late
<1> QED BY <1>2, <1>3 DEF UsageKept

LEMMA UsageStep ==
  ASSUME Streamed, Streamed', phase = "open", UsageKept, [Next]_vars
  PROVE  UsageKept'
<1>1. /\ Typed /\ Typed' /\ Ordered /\ Format \in Formats /\ Format' = Format /\ Before' = Before
      /\ reader' = reader
  BY FormatsAre, Streaming DEF Streamed, Opened, Flow
<1>2. SUFFICES ASSUME consumer' # "error" PROVE UsageKept'
  BY DEF UsageKept
<1>3. Respond \/ Interrupts \/ TakeEvent \/ SendChunk \/ CloseChunks \/ Receive \/ EndReading \/ UNCHANGED vars
  BY Streaming
<1>4. consumer # "error"
  <2>1. CASE Receive \/ EndReading
    BY <2>1 DEF Receive, EndReading
  <2>2. CASE Interrupts
    BY <1>1, <1>2, <2>2, Interrupted DEF readVars
  <2>3. CASE Respond
    BY <1>1, <1>2, <2>3, Speaks DEF Spoke, Say, readVars
  <2>4. CASE TakeEvent \/ SendChunk \/ CloseChunks \/ UNCHANGED vars
    BY <1>2, <2>4 DEF TakeEvent, SendChunk, CloseChunks, vars, readVars
  <2> QED BY <1>3, <2>1, <2>2, <2>3, <2>4
<1>5. CloseChunks \/ EndReading \/ UNCHANGED vars => UNCHANGED <<stage, said, events, toSend, chunks, got>>
  BY DEF CloseChunks, EndReading, vars, serverVars, workerVars, readVars
<1>6. ASSUME Format # "gemini", NEW x \in {"in", "out"} PROVE OneReport(x)'
  <2>1. OneReport(x)
    BY <1>4, <1>6 DEF UsageKept
  <2>2. CASE Respond
    <3>1. PICK e \in GoodEvents : Spoke(e)
      BY <1>1, <2>2, Speaks
    <3> QED BY <1>1, <1>6, <2>1, <3>1, ReportSpeaks DEF Ordered
  <2>3. CASE UNCHANGED <<stage, said, events, toSend, chunks, got>>
    <3>1. Worth(x)' = Worth(x) /\ Given(x)' = Given(x) /\ Told(x)' = Told(x)
      BY <1>1, <2>3, SameWorth
    <3>2. Booked(x)' = Booked(x)
      BY <1>1, <2>3 DEF Booked, Amount
    <3> QED BY <1>1, <2>1, <2>3, <3>1, <3>2 DEF OneReport, Carrying, Reporting, Fair, Amount
  <2>4. Interrupts => OneReport(x)'
    BY <1>1, <2>1, ReportInterrupts
  <2>5. TakeEvent => OneReport(x)'
    BY <1>1, <1>6, <2>1, ReportTakes
  <2>6. SendChunk => OneReport(x)'
    BY <1>1, <2>1, ReportSends
  <2>7. Receive => OneReport(x)'
    BY <1>1, <1>2, <2>1, ReportReceives
  <2> QED BY <1>3, <1>5, <2>2, <2>3, <2>4, <2>5, <2>6, <2>7
<1>7. ASSUME Format = "gemini", reader = "invoker" PROVE LastReported'
  <2>1. LastReported
    BY <1>4, <1>7 DEF UsageKept
  <2>2. Respond => LastReported'
    BY <1>1, <1>7, <2>1, Speaks, LastSpeaks
  <2>3. Interrupts => LastReported'
    BY <1>1, <2>1, LastInterrupts
  <2>4. TakeEvent => LastReported'
    BY <1>1, <1>7, <2>1, LastTakes
  <2>5. SendChunk \/ Receive \/ UNCHANGED <<stage, said, events, toSend, chunks, got>> => LastReported'
    BY <1>1, <1>2, <1>7, <2>1, LastMoves
  <2> QED BY <1>3, <1>5, <2>2, <2>3, <2>4, <2>5
<1>8. Format # "gemini" => OneReport("in")' /\ OneReport("out")'
  BY <1>6
<1> QED BY <1>1, <1>7, <1>8 DEF UsageKept

LEMMA CountingInit == Init => Counting
BY StreamedInit DEF Counting, Init

LEMMA CountingStep == Counting /\ [Next]_vars => Counting'
<1> SUFFICES ASSUME Counting, [Next]_vars PROVE Counting'
  OBVIOUS
<1>1. Streamed'
  BY StreamedStep DEF Counting
<1>2. CASE phase # "open"
  <2>1. Typed' /\ (phase' = "open" => Fresh')
    BY <1>1, <1>2, Opening DEF Counting, Streamed, Opened
  <2>2. Typed' /\ Fresh' => UsageKept'
    BY UsageFresh, PTL
  <2> QED BY <1>1, <2>1, <2>2 DEF Counting
<1>3. CASE phase = "open"
  BY <1>1, <1>3, UsageStep DEF Counting
<1> QED BY <1>2, <1>3

\* The usage a provider has reported of a complete response is counted once, whichever of
\* the four formats it comes in and however the reports and the text are cut: for any
\* number of pieces and calls, and with the counters of the tool loop already above zero.
\* Not for Gemini in the tool loop, which adds cumulative reports (LLMInvoker,
\* ToolExecutor).
THEOREM UsageCountedOnceHolds == Spec => []UsageCountedOnce
<1>1. Counting => UsageCountedOnce
  <2> SUFFICES ASSUME Counting, consumer = "ended", stage = "complete", ~cancelled, said.reported,
                      ~(Format = "gemini" /\ reader = "tool_loop")
               PROVE  got.in = Before.in + 1 /\ (Output > 0 => got.out = Before.out + Output)
    BY DEF UsageCountedOnce
  <2>1. /\ phase = "open" /\ Typed /\ Flow /\ Format \in Formats
        /\ toSend = <<>> /\ chunks = <<>> /\ \A i \in 1..Len(events) : events[i].kind = "error"
    BY Drained DEF Counting
  <2>2. UsageKept
    BY <2>1 DEF Counting
  <2>3. CASE Format # "gemini"
    <3>1. ASSUME NEW x \in {"in", "out"}, Given(x) PROVE Amount(got, x) = Amount(Before, x) + Worth(x)
      <4>1. OneReport(x)
        BY <2>2, <2>3 DEF UsageKept
      <4>2. PICK s \in Seq(Told(x)) : s = events
        BY <4>1 DEF OneReport
      <4>3. \A i \in 1..Len(s) : s[i] \in Told(x) /\ s[i].kind = "error"
        BY <2>1, <4>2, ElementOfSeq
      <4>4. \A i \in 1..Len(s) : s[i].report = Zero
        BY <4>3 DEF Told, Reporters
      <4>5. \A i \in 1..Len(s) : s[i] \notin Reporting(x)
        BY <4>4, AmountsAre DEF Reporting
      <4>6. Count(events, Reporting(x)) = 0
        BY <4>2, <4>5, CountZero
      <4>7. Count(toSend, Carrying(x)) = 0 /\ Count(chunks, Carrying(x)) = 0
        BY <2>1, CountEmpty
      <4>8. Count(events, Reporting(x)) + Count(toSend, Carrying(x)) + Count(chunks, Carrying(x)) + Booked(x)
              = 1
        BY <3>1, <4>1, Zenon DEF OneReport
      <4>9. Booked(x) = 1
        BY <2>1, <4>6, <4>7, <4>8, WorthIs
      <4> QED BY <4>1, <4>9 DEF OneReport, Booked
    <3>2. Given("in") /\ (Output > 0 => Given("out"))
      <4>1. stage # "start"
        OBVIOUS
      <4> QED BY <4>1 DEF Given
    <3>3. Amount(got, "in") = Amount(Before, "in") + Worth("in")
      BY <3>1, <3>2
    <3>4. Output > 0 => Amount(got, "out") = Amount(Before, "out") + Worth("out")
      BY <3>1, <3>2
    <3> QED BY <3>3, <3>4 DEF Amount, Worth
  <2>4. CASE Format = "gemini"
    <3>1. reader = "invoker" /\ Before.in = 0 /\ Before.out = 0
      BY <2>1, <2>4 DEF Typed, Before, Zero
    <3>2. FinishTaken
      BY <2>1 DEF FinishTaken, Late
    <3>3. LastWhole
      BY <2>2, <2>4, <3>1, <3>2 DEF UsageKept, LastReported
    <3>4. ~LastOf(toSend, Output) /\ ~LastOf(chunks, Output)
      BY <2>1, LastEmpty
    <3>5. got.in = 1 /\ (Output > 0 => got.out = Output)
      BY <3>3, <3>4 DEF LastWhole
    <3>6. Output \in Nat
      BY <2>1, OutputIs
    <3> QED BY <3>1, <3>5, <3>6
  <2> QED BY <2>3, <2>4
<1> QED BY <1>1, CountingInit, CountingStep, PTL DEF Spec
-----------------------------------------------------------------------------
(* What FlattenSeq computes *)

\* The pieces before the k-th, in one sequence.
Joins(s, g, k) == IF k = 1 THEN s[k] ELSE g[k - 1] \o s[k]
Flat(s) == CHOOSE g : g = [k \in 1..Len(s) |-> Joins(s, g, k)]

LEMMA FlattenIs ==
  ASSUME NEW s
  PROVE  FlattenSeq(s) = IF Len(s) = 0 THEN s ELSE Flat(s)[Len(s)]
BY DEF FlattenSeq, Flat, Joins

\* The recursive function that FlattenSeq chooses exists.
LEMMA FlatExists ==
  ASSUME NEW S, NEW s \in Seq(Seq(S)), Len(s) # 0
  PROVE  \A k \in 1..Len(s) : Flat(s)[k] = Joins(s, Flat(s), k)
<1> DEFINE Good == {n \in Nat : \E g : g = [k \in 1..n |-> Joins(s, g, k)]}
<1>1. 0 \in Good
  <2>1. PICK g : g = [k \in 1..0 |-> <<>>]
    OBVIOUS
  <2>2. g = [k \in 1..0 |-> Joins(s, g, k)]
    BY <2>1
  <2> QED BY <2>2
<1>2. ASSUME NEW n \in Good PROVE n + 1 \in Good
  <2>1. n \in Nat
    OBVIOUS
  <2>2. PICK g : g = [k \in 1..n |-> Joins(s, g, k)]
    OBVIOUS
  <2>3. PICK h : h = [k \in 1..(n + 1) |-> IF k <= n THEN g[k] ELSE Joins(s, g, k)]
    OBVIOUS
  <2>4. ASSUME NEW k \in 1..(n + 1) PROVE h[k] = Joins(s, h, k)
    <3>1. h[k] = Joins(s, g, k)
      <4>1. CASE k <= n
        <5>1. k \in 1..n /\ h[k] = g[k]
          BY <2>1, <2>3, <4>1
        <5>2. \A j \in 1..n : g[j] = Joins(s, g, j)
          BY <2>2
        <5> QED BY <5>1, <5>2
      <4>2. CASE ~(k <= n)
        BY <2>3, <4>2
      <4> QED BY <4>1, <4>2
    <3>2. k # 1 => h[k - 1] = g[k - 1]
      BY <2>1, <2>3
    <3> QED BY <3>1, <3>2 DEF Joins
  <2>5. h = [k \in 1..(n + 1) |-> Joins(s, h, k)]
    BY <2>3, <2>4
  <2> QED BY <2>1, <2>5
<1>3. Good = Nat
  <2>1. Good \in SUBSET Nat
    OBVIOUS
  <2> HIDE DEF Good
  <2> QED BY <1>1, <1>2, <2>1, Inductive
<1>4. Len(s) \in Good
  <2>1. Len(s) \in Nat
    BY LenProperties
  <2> HIDE DEF Good
  <2> QED BY <1>3, <2>1
<1>5. \E g : g = [k \in 1..Len(s) |-> Joins(s, g, k)]
  BY <1>4
<1>6. Flat(s) = [k \in 1..Len(s) |-> Joins(s, Flat(s), k)]
  BY <1>5 DEF Flat
<1> QED BY <1>6

\* How many elements the pieces before the k-th have.
Offset(s, k) == IF k = 1 THEN 0 ELSE Len(Flat(s)[k - 1])

\* Two sequences one after the other.
LEMMA JoinIs ==
  ASSUME NEW S, NEW a \in Seq(S), NEW b \in Seq(S)
  PROVE  /\ a \o b \in Seq(S) /\ Len(a \o b) = Len(a) + Len(b)
         /\ \A i \in 1..Len(a) : i \in 1..Len(a \o b) /\ (a \o b)[i] = a[i]
         /\ \A p \in 1..Len(b) : Len(a) + p \in 1..Len(a \o b) /\ (a \o b)[Len(a) + p] = b[p]
         /\ \A i \in 1..Len(a \o b) : i \in 1..Len(a) \/ \E p \in 1..Len(b) : i = Len(a) + p
<1>1. Len(a) \in Nat /\ Len(b) \in Nat
  BY LenProperties
<1>2. PICK c : c = a \o b
  OBVIOUS
<1>3. /\ c \in Seq(S) /\ Len(c) = Len(a) + Len(b)
      /\ \A i \in 1..(Len(a) + Len(b)) : c[i] = IF i <= Len(a) THEN a[i] ELSE b[i - Len(a)]
  BY <1>2, ConcatProperties
<1>4. \A i \in 1..Len(a) : i \in 1..Len(c) /\ c[i] = a[i]
  BY <1>1, <1>3
<1>5. \A p \in 1..Len(b) : Len(a) + p \in 1..Len(c) /\ c[Len(a) + p] = b[p]
  BY <1>1, <1>3
<1>6. ASSUME NEW i \in 1..Len(c), i \notin 1..Len(a) PROVE \E p \in 1..Len(b) : i = Len(a) + p
  <2>1. i - Len(a) \in 1..Len(b) /\ i = Len(a) + (i - Len(a))
    BY <1>1, <1>3, <1>6
  <2> QED BY <2>1
<1> QED BY <1>2, <1>3, <1>4, <1>5, <1>6

\* Where each element of w comes from, and where each element of the pieces of s goes.
Laid(s, w) ==
  /\ \A k \in 1..Len(s) : Offset(s, k) \in Nat
  /\ \A k \in 1..Len(s) : \A p \in 1..Len(s[k]) :
       Offset(s, k) + p \in 1..Len(w) /\ w[Offset(s, k) + p] = s[k][p]
  /\ \A k \in 1..Len(s) : k < Len(s) => Offset(s, k + 1) = Offset(s, k) + Len(s[k])
  /\ \A i \in 1..Len(w) : \E k \in 1..Len(s) : \E p \in 1..Len(s[k]) : i = Offset(s, k) + p

\* The pieces one after another: where each element comes from, and where each goes.
LEMMA Flattened ==
  ASSUME NEW S, NEW s \in Seq(Seq(S))
  PROVE  FlattenSeq(s) \in Seq(S) /\ Laid(s, FlattenSeq(s))
<1> USE DEF Laid
<1>1. CASE Len(s) = 0
  <2>1. FlattenSeq(s) = s /\ s = <<>>
    BY <1>1, FlattenIs, EmptySeq
  <2> QED BY <1>1, <2>1, EmptySeq
<1>2. CASE Len(s) # 0
  <2> DEFINE f == Flat(s)
             Holds(n) ==
               /\ f[n] \in Seq(S)
               /\ \A k \in 1..n : Offset(s, k) \in Nat
               /\ \A k \in 1..n : \A p \in 1..Len(s[k]) :
                    Offset(s, k) + p \in 1..Len(f[n]) /\ f[n][Offset(s, k) + p] = s[k][p]
               /\ \A i \in 1..Len(f[n]) : \E k \in 1..n : \E p \in 1..Len(s[k]) : i = Offset(s, k) + p
             Good == {n \in Nat : n + 1 <= Len(s) => Holds(n + 1)}
  <2>1. Len(s) \in Nat /\ \A k \in 1..Len(s) : s[k] \in Seq(S) /\ Len(s[k]) \in Nat
    BY LenProperties, ElementOfSeq
  <2>2. f[1] = s[1] /\ \A k \in 1..Len(s) : k # 1 => f[k] = f[k - 1] \o s[k]
    <3>1. \A k \in 1..Len(s) : f[k] = Joins(s, f, k)
      BY <1>2, FlatExists
    <3>2. 1 \in 1..Len(s)
      BY <1>2, <2>1
    <3> HIDE DEF f
    <3> QED BY <3>1, <3>2 DEF Joins
  <2>3. Holds(1)
    <3>1. 1 \in 1..Len(s) /\ s[1] \in Seq(S) /\ f[1] = s[1]
      BY <1>2, <2>1, <2>2
    <3>2. Offset(s, 1) = 0
      BY DEF Offset
    <3>3. \A k \in 1..1 : k = 1
      OBVIOUS
    <3> HIDE DEF f
    <3>4. \A i \in 1..Len(f[1]) : 1 \in 1..1 /\ i \in 1..Len(s[1]) /\ i = Offset(s, 1) + i
      BY <3>1, <3>2
    <3>5. ASSUME NEW k \in 1..1 PROVE
            /\ Offset(s, k) \in Nat
            /\ \A p \in 1..Len(s[k]) : Offset(s, k) + p \in 1..Len(f[1]) /\ f[1][Offset(s, k) + p] = s[k][p]
      BY <2>1, <3>1, <3>2, <3>3
    <3> QED BY <3>1, <3>4, <3>5
  <2>4. ASSUME NEW n \in Nat, n # 0, n + 1 <= Len(s), Holds(n) PROVE Holds(n + 1)
    <3> HIDE DEF f
    <3>1. /\ n \in 1..Len(s) /\ n + 1 \in 1..Len(s) /\ (n + 1) - 1 = n /\ n + 1 # 1
          /\ 1..n \subseteq 1..Len(s)
      BY <2>1, <2>4
    <3>2. /\ s[n + 1] \in Seq(S) /\ f[n] \in Seq(S) /\ f[n + 1] = f[n] \o s[n + 1]
          /\ Len(f[n]) \in Nat /\ Len(s[n + 1]) \in Nat
      BY <2>1, <2>2, <2>4, <3>1, LenProperties
    <3>3. /\ f[n + 1] \in Seq(S)
          /\ \A i \in 1..Len(f[n]) : i \in 1..Len(f[n + 1]) /\ f[n + 1][i] = f[n][i]
          /\ \A p \in 1..Len(s[n + 1]) :
               Len(f[n]) + p \in 1..Len(f[n + 1]) /\ f[n + 1][Len(f[n]) + p] = s[n + 1][p]
          /\ \A i \in 1..Len(f[n + 1]) :
               i \in 1..Len(f[n]) \/ \E p \in 1..Len(s[n + 1]) : i = Len(f[n]) + p
      <4>1. PICK a \in Seq(S), b \in Seq(S) : a = f[n] /\ b = s[n + 1]
        BY <3>2
      <4>2. f[n + 1] = a \o b
        BY <3>2, <4>1
      <4>3. /\ a \o b \in Seq(S)
            /\ \A i \in 1..Len(a) : i \in 1..Len(a \o b) /\ (a \o b)[i] = a[i]
            /\ \A p \in 1..Len(b) : Len(a) + p \in 1..Len(a \o b) /\ (a \o b)[Len(a) + p] = b[p]
            /\ \A i \in 1..Len(a \o b) : i \in 1..Len(a) \/ \E p \in 1..Len(b) : i = Len(a) + p
        BY JoinIs
      <4> QED BY <4>1, <4>2, <4>3, Zenon
    <3>4. Offset(s, n + 1) = Len(f[n])
      BY <3>1 DEF Offset, f
    <3>5. ASSUME NEW k \in 1..(n + 1) PROVE
            /\ Offset(s, k) \in Nat
            /\ \A p \in 1..Len(s[k]) : Offset(s, k) + p \in 1..Len(f[n + 1]) /\ f[n + 1][Offset(s, k) + p] = s[k][p]
      <4>1. CASE k = n + 1
        <5>1. Offset(s, k) = Len(f[n]) /\ s[k] = s[n + 1]
          BY <3>4, <4>1
        <5> QED BY <3>2, <3>3, <5>1, Zenon
      <4>2. CASE k # n + 1
        <5>1. k \in 1..n /\ Offset(s, k) \in Nat /\ Len(s[k]) \in Nat
          BY <2>1, <2>4, <3>1, <4>2
        <5>2. ASSUME NEW p \in 1..Len(s[k])
              PROVE  Offset(s, k) + p \in 1..Len(f[n + 1]) /\ f[n + 1][Offset(s, k) + p] = s[k][p]
          <6>1. Offset(s, k) + p \in 1..Len(f[n]) /\ f[n][Offset(s, k) + p] = s[k][p]
            BY <2>4, <5>1
          <6> QED BY <3>3, <6>1, Zenon
        <5> QED BY <5>1, <5>2
      <4> QED BY <4>1, <4>2
    <3>6. ASSUME NEW i \in 1..Len(f[n + 1])
          PROVE  \E k \in 1..(n + 1) : \E p \in 1..Len(s[k]) : i = Offset(s, k) + p
      <4>1. CASE i \in 1..Len(f[n])
        <5>1. PICK k \in 1..n : \E p \in 1..Len(s[k]) : i = Offset(s, k) + p
          BY <2>4, <4>1
        <5>2. k \in 1..(n + 1)
          OBVIOUS
        <5> QED BY <5>1, <5>2
      <4>2. CASE i \notin 1..Len(f[n])
        <5>1. PICK p \in 1..Len(s[n + 1]) : i = Offset(s, n + 1) + p
          BY <3>3, <3>4, <4>2, Zenon
        <5>2. n + 1 \in 1..(n + 1)
          OBVIOUS
        <5> QED BY <5>1, <5>2
      <4> QED BY <4>1, <4>2
    <3> QED BY <3>3, <3>5, <3>6
  <2>5. Good = Nat
    <3>1. 0 \in Good
      <4>1. Holds(0 + 1)
        BY <2>3
      <4> HIDE DEF Holds
      <4> QED BY <4>1
    <3>2. ASSUME NEW n \in Good PROVE n + 1 \in Good
      <4>1. n \in Nat /\ (n + 1 <= Len(s) => Holds(n + 1))
        OBVIOUS
      <4> HIDE DEF Holds
      <4>2. n + 2 <= Len(s) => Holds((n + 1) + 1)
        BY <2>1, <2>4, <4>1
      <4> QED BY <4>1, <4>2
    <3>3. Good \in SUBSET Nat
      OBVIOUS
    <3> HIDE DEF Good
    <3> QED BY <3>1, <3>2, <3>3, Inductive
  <2>6. Holds(Len(s))
    <3>1. Len(s) - 1 \in Nat /\ (Len(s) - 1) + 1 = Len(s)
      BY <1>2, <2>1
    <3>2. Len(s) - 1 \in Good
      <4> HIDE DEF Good
      <4> QED BY <2>5, <3>1
    <3> HIDE DEF Holds
    <3> QED BY <2>1, <3>1, <3>2
  <2>7. FlattenSeq(s) = f[Len(s)]
    BY <1>2, FlattenIs
  <2>8. ASSUME NEW k \in 1..Len(s), k < Len(s) PROVE Offset(s, k + 1) = Offset(s, k) + Len(s[k])
    <3>1. Offset(s, k + 1) = Len(f[k])
      BY <2>8 DEF Offset
    <3> HIDE DEF f
    <3>2. \A n \in 1..Len(s) : f[n] \in Seq(S)
      <4>1. ASSUME NEW n \in 1..Len(s) PROVE f[n] \in Seq(S)
        <5>1. n - 1 \in Nat /\ (n - 1) + 1 = n /\ n <= Len(s)
          BY <2>1
        <5>2. n - 1 \in Good
          <6> HIDE DEF Good
          <6> QED BY <2>5, <5>1
        <5>3. Holds((n - 1) + 1)
          <6> HIDE DEF Holds
          <6> QED BY <5>1, <5>2
        <5> QED BY <5>1, <5>3
      <4> QED BY <4>1
    <3>3. CASE k = 1
      BY <2>1, <2>2, <3>1, <3>3 DEF Offset
    <3>4. CASE k # 1
      <4>1. k - 1 \in 1..Len(s)
        BY <2>1, <3>4
      <4>2. f[k - 1] \in Seq(S) /\ s[k] \in Seq(S) /\ f[k] = f[k - 1] \o s[k]
        BY <2>1, <2>2, <3>2, <3>4, <4>1, Zenon
      <4>4. Len(f[k]) = Len(f[k - 1]) + Len(s[k])
        BY <4>2, JoinIs
      <4>3. Offset(s, k) = Len(f[k - 1])
        BY <3>4 DEF Offset, f
      <4> QED BY <3>1, <4>3, <4>4
    <3> QED BY <3>3, <3>4
  <2> HIDE DEF f
  <2> QED BY <2>6, <2>7, <2>8
<1> QED BY <1>1, <1>2, LenProperties
-----------------------------------------------------------------------------
(* The request on the wire *)

LEMMA OneMessage ==
  ASSUME NEW S, NEW y \in S, NEW c, c = <<y>>
  PROVE  c \in Seq(S) /\ Len(c) = 1 /\ c[1] = y /\ \A p \in 1..Len(c) : c[p] = y
OBVIOUS

\* The formats that carry tool calls, and what one message becomes in them.
Pairing == {"anthropic", "chat"}
Becomes(x, c) ==
  /\ Asks(x) => Len(c) = 1 /\ c[1].calls = x.calls /\ c[1].results = <<>>
  /\ ~Asks(x) => \A p \in 1..Len(c) : c[p].calls = <<>>
  /\ Answers(x) => /\ \A p \in 1..Len(c) : c[p].results # <<>>
                   /\ \/ Len(c) = 1 /\ c[1].results = x.results
                      \/ /\ Len(c) = Len(x.results)
                         /\ \A p \in 1..Len(c) : c[p].results = <<x.results[p]>>
  /\ ~Answers(x) => \A p \in 1..Len(c) : c[p].results = <<>>

LEMMA ConvertedIs ==
  ASSUME NEW x \in Message, NEW f \in Pairing, NEW c, c = Converted(f, x)
  PROVE  /\ c \in Seq(Message)
         /\ Becomes(x, c)
<1> USE DEF Becomes
<1>1. x.calls \in Seq(Nat) /\ x.results \in Seq(Nat) /\ Len(x.results) \in Nat /\ <<>> \in Seq(Nat)
  BY LenProperties, EmptySeq DEF Message
<1> DEFINE asking == [x EXCEPT !.results = <<>>]
           answering == [x EXCEPT !.role = "user", !.calls = <<>>]
<1>6. /\ asking \in Message /\ asking.calls = x.calls /\ asking.results = <<>>
      /\ answering \in Message /\ answering.calls = <<>> /\ answering.results = x.results
      /\ TextOnly(x) \in Message /\ TextOnly(x).calls = <<>> /\ TextOnly(x).results = <<>>
  BY <1>1 DEF Message, TextOnly
<1>7. /\ f = "anthropic" => c = AnthropicMessages(x)
      /\ f = "chat" => c = ChatMessages(x)
      /\ f = "anthropic" \/ f = "chat"
  BY DEF Converted, Pairing
<1>8. Asks(x) => ~Answers(x) /\ x.role # "system"
  BY DEF Asks, Answers
<1>9. Answers(x) => x.role # "system" /\ x.results # <<>>
  BY DEF Answers
<1> HIDE DEF asking, answering
<1>2. CASE Asks(x)
  <2>1. c = <<asking>>
    <3>1. CASE f = "anthropic"
      BY <1>2, <1>7, <1>8, <3>1 DEF AnthropicMessages, asking
    <3>2. CASE f = "chat"
      BY <1>2, <1>7, <1>8, <3>2 DEF ChatMessages, asking
    <3> QED BY <1>7, <3>1, <3>2
  <2>2. c \in Seq(Message) /\ Len(c) = 1 /\ c[1] = asking /\ \A p \in 1..Len(c) : c[p] = asking
    BY <1>6, <2>1, OneMessage
  <2> QED BY <1>2, <1>6, <1>8, <2>2
<1>3. CASE ~Asks(x) /\ Answers(x) /\ f = "anthropic"
  <2>1. c = <<answering>>
    BY <1>3, <1>7, <1>9 DEF AnthropicMessages, answering
  <2>2. /\ c \in Seq(Message) /\ Len(c) = 1 /\ c[1] = answering
        /\ \A p \in 1..Len(c) : c[p] = answering
    BY <1>6, <2>1, OneMessage
  <2> QED BY <1>3, <1>6, <1>9, <2>2
<1>4. CASE ~Asks(x) /\ Answers(x) /\ f = "chat"
  <2>1. c = [i \in 1..Len(x.results) |-> [x EXCEPT !.calls = <<>>, !.results = <<x.results[i]>>]]
    BY <1>4, <1>7 DEF ChatMessages, OneByOne
  <2>2. ASSUME NEW i \in 1..Len(x.results)
        PROVE  [x EXCEPT !.calls = <<>>, !.results = <<x.results[i]>>] \in Message
    <3>1. x.results[i] \in Nat
      BY <1>1, ElementOfSeq
    <3>2. <<x.results[i]>> \in Seq(Nat)
      BY <3>1
    <3> QED BY <1>1, <3>2 DEF Message
  <2>3. c \in Seq(Message) /\ Len(c) = Len(x.results)
    <3>1. PICK g : g = [i \in 1..Len(x.results) |-> [x EXCEPT !.calls = <<>>, !.results = <<x.results[i]>>]]
      OBVIOUS
    <3>2. \A i \in 1..Len(x.results) : g[i] \in Message
      BY <2>2, <3>1
    <3>3. g \in [1..Len(x.results) -> Message]
      BY <3>1, <3>2
    <3>4. g \in Seq(Message) /\ Len(g) = Len(x.results)
      <4>1. PICK n \in Nat : n = Len(x.results)
        BY <1>1
      <4>2. g \in [1..n -> Message]
        BY <3>3, <4>1
      <4>3. g \in Seq(Message) /\ Len(g) = n
        BY <4>2
      <4> QED BY <4>1, <4>3
    <3>5. c = g
      BY <2>1, <3>1
    <3> QED BY <3>4, <3>5
  <2>4. ASSUME NEW p \in 1..Len(c)
        PROVE  c[p].calls = <<>> /\ c[p].results = <<x.results[p]>> /\ <<x.results[p]>> # <<>>
    <3>1. c[p] = [x EXCEPT !.calls = <<>>, !.results = <<x.results[p]>>]
      BY <2>1, <2>3
    <3> QED BY <3>1 DEF Message
  <2> QED BY <1>4, <2>3, <2>4
<1>5. CASE ~Asks(x) /\ ~Answers(x)
  <2>1. c = <<>> \/ c = <<TextOnly(x)>>
    <3>1. CASE f = "anthropic"
      BY <1>5, <1>7, <3>1 DEF AnthropicMessages
    <3>2. CASE f = "chat"
      BY <1>5, <1>7, <3>2 DEF ChatMessages
    <3> QED BY <1>7, <3>1, <3>2
  <2>2. CASE c = <<>>
    BY <1>5, <2>2, EmptySeq
  <2>3. CASE c = <<TextOnly(x)>>
    <3>1. c \in Seq(Message) /\ \A p \in 1..Len(c) : c[p] = TextOnly(x)
      BY <1>6, <2>3, OneMessage
    <3> QED BY <1>5, <1>6, <3>1
  <2> QED BY <2>1, <2>2, <2>3
<1> QED BY <1>2, <1>3, <1>4, <1>5, <1>7

\* What WirePaired asks of the i-th message on the wire.
InItsPlace(w, i) ==
  /\ w[i].calls # <<>> =>
       \/ i < Len(w) /\ w[i + 1].results = w[i].calls
       \/ \A k \in 1..Len(w[i].calls) : i + k <= Len(w) /\ w[i + k].results = <<w[i].calls[k]>>
  /\ w[i].results # <<>> =>
       \E j \in 1..(i - 1) : w[j].calls # <<>> /\ \A k \in (j + 1)..i : w[k].results # <<>>

\* A paired list of messages is paired on the wire: the pieces of a message with calls and
\* of the message with their results follow each other.
LEMMA PairedOnWire ==
  ASSUME NEW m \in Seq(Message), Paired(m), NEW f \in Pairing, NEW w, w = Wire(f, m),
         NEW i \in 1..Len(w)
  PROVE  InItsPlace(w, i)
<1> DEFINE s == [k \in 1..Len(m) |-> Converted(f, m[k])]
           At(k) == Offset(s, k)
<1>1. Len(m) \in Nat /\ \A k \in 1..Len(m) : m[k] \in Message
  BY LenProperties, ElementOfSeq
<1>2. /\ s \in Seq(Seq(Message)) /\ Len(s) = Len(m)
      /\ \A k \in 1..Len(m) : s[k] = Converted(f, m[k])
  BY <1>1, ConvertedIs
<1> HIDE DEF s
<1>13. \A k \in 1..Len(m) : Becomes(m[k], s[k])
  BY <1>1, <1>2, ConvertedIs
<1> USE DEF Becomes
<1>3. w = FlattenSeq(s)
  BY DEF Wire, s
<1>4. w \in Seq(Message) /\ Len(w) \in Nat /\ \A k \in 1..Len(m) : Len(s[k]) \in Nat
  BY <1>2, <1>3, Flattened, LenProperties, ElementOfSeq
<1>14. Laid(s, w)
  BY <1>2, <1>3, Flattened
<1>5. \A k \in 1..Len(m) : At(k) \in Nat
  BY <1>2, <1>14, Zenon DEF Laid
<1>6. \A k \in 1..Len(m) : \A p \in 1..Len(s[k]) : At(k) + p \in 1..Len(w) /\ w[At(k) + p] = s[k][p]
  BY <1>2, <1>14, Zenon DEF Laid
<1>7. \A k \in 1..Len(m) : k < Len(m) => At(k + 1) = At(k) + Len(s[k])
  BY <1>2, <1>14, Zenon DEF Laid
<1>8. PICK k \in 1..Len(m) : \E p \in 1..Len(s[k]) : i = At(k) + p
  BY <1>2, <1>14, Zenon DEF Laid
<1>9. PICK p \in 1..Len(s[k]) : i = At(k) + p
  BY <1>8
<1> HIDE DEF At
<1>10. w[i] = s[k][p]
  BY <1>6, <1>9
<1>11. ASSUME w[i].calls # <<>>
       PROVE  \/ i < Len(w) /\ w[i + 1].results = w[i].calls
              \/ \A q \in 1..Len(w[i].calls) : i + q <= Len(w) /\ w[i + q].results = <<w[i].calls[q]>>
  <2>1. Asks(m[k]) /\ Len(s[k]) = 1 /\ s[k][1].calls = m[k].calls
    BY <1>9, <1>10, <1>11, <1>13, Zenon
  <2>2. p = 1 /\ w[i].calls = m[k].calls
    BY <1>9, <1>10, <2>1
  <2>3. k + 1 \in 1..Len(m) /\ k < Len(m) /\ m[k + 1].role = "tool" /\ m[k + 1].results = m[k].calls
    BY <1>1, <2>1 DEF Paired, Asks
  <2>4. Answers(m[k + 1])
    BY <2>1, <2>3 DEF Answers, Asks
  <2>5. At(k + 1) = i
    BY <1>5, <1>7, <1>9, <2>1, <2>2, <2>3
  <2>6. \A q \in 1..Len(s[k + 1]) : i + q \in 1..Len(w) /\ w[i + q] = s[k + 1][q]
    BY <1>6, <2>3, <2>5
  <2>7. \/ Len(s[k + 1]) = 1 /\ s[k + 1][1].results = m[k + 1].results
        \/ /\ Len(s[k + 1]) = Len(m[k + 1].results)
           /\ \A q \in 1..Len(s[k + 1]) : s[k + 1][q].results = <<m[k + 1].results[q]>>
    BY <1>13, <2>3, <2>4, Zenon
  <2>8. CASE Len(s[k + 1]) = 1 /\ s[k + 1][1].results = m[k + 1].results
    <3>1. i + 1 \in 1..Len(w) /\ w[i + 1] = s[k + 1][1]
      BY <2>6, <2>8
    <3> QED BY <1>4, <2>2, <2>3, <2>8, <3>1
  <2>9. CASE /\ Len(s[k + 1]) = Len(m[k + 1].results)
             /\ \A q \in 1..Len(s[k + 1]) : s[k + 1][q].results = <<m[k + 1].results[q]>>
    <3>1. ASSUME NEW q \in 1..Len(w[i].calls)
          PROVE  i + q <= Len(w) /\ w[i + q].results = <<w[i].calls[q]>>
      <4>1. q \in 1..Len(s[k + 1])
        BY <2>2, <2>3, <2>9
      <4>2. i + q \in 1..Len(w) /\ w[i + q] = s[k + 1][q]
        BY <2>6, <4>1
      <4>3. s[k + 1][q].results = <<m[k + 1].results[q]>>
        BY <2>9, <4>1
      <4> QED BY <1>4, <2>2, <2>3, <4>2, <4>3
    <3> QED BY <3>1
  <2> QED BY <2>7, <2>8, <2>9
<1>12. ASSUME w[i].results # <<>>
       PROVE  \E j \in 1..(i - 1) : w[j].calls # <<>> /\ \A q \in (j + 1)..i : w[q].results # <<>>
  <2>1. Answers(m[k]) /\ \A q \in 1..Len(s[k]) : s[k][q].results # <<>>
    BY <1>9, <1>10, <1>12, <1>13, Zenon
  <2>2. k > 1 /\ k - 1 \in 1..Len(m) /\ m[k - 1].calls # <<>> /\ m[k - 1].role = "assistant"
    BY <1>1, <2>1 DEF Paired, Answers
  <2>3. Len(s[k - 1]) = 1 /\ s[k - 1][1].calls # <<>>
    <3>1. Asks(m[k - 1])
      BY <2>2 DEF Asks
    <3>2. Len(s[k - 1]) = 1 /\ s[k - 1][1].calls = m[k - 1].calls
      BY <1>13, <2>2, <3>1, Zenon
    <3> QED BY <2>2, <3>2
  <2>4. (k - 1) + 1 = k /\ k - 1 < Len(m)
    BY <1>1, <2>2
  <2>5. At(k) = At(k - 1) + 1 /\ At(k - 1) \in Nat
    BY <1>5, <1>7, <2>2, <2>3, <2>4
  <2>6. At(k) \in 1..(i - 1)
    BY <1>9, <2>5
  <2>7. w[At(k)].calls # <<>>
    <3>1. 1 \in 1..Len(s[k - 1])
      BY <2>3
    <3>2. w[At(k - 1) + 1] = s[k - 1][1]
      BY <1>6, <2>2, <3>1, Zenon
    <3> QED BY <2>3, <2>5, <3>2
  <2>8. ASSUME NEW q \in (At(k) + 1)..i PROVE w[q].results # <<>>
    <3>1. q - At(k) \in 1..Len(s[k]) /\ q = At(k) + (q - At(k))
      BY <1>4, <1>5, <1>9
    <3>2. w[At(k) + (q - At(k))] = s[k][q - At(k)]
      BY <1>6, <3>1
    <3>3. w[q] = s[k][q - At(k)]
      BY <3>1, <3>2
    <3> QED BY <2>1, <3>1, <3>3
  <2> QED BY <2>6, <2>7, <2>8
<1> QED BY <1>11, <1>12 DEF InItsPlace

\* The request is one the pipeline sends, and on the wire of an open stream is its conversion.
Wired == prompt \in Prompts /\ (phase = "open" => wire = Wire(Format, prompt))

LEMMA WiredStep == Wired /\ [Next]_vars => Wired'
<1> SUFFICES ASSUME Wired, [Next]_vars PROVE Wired'
  OBVIOUS
<1>1. CASE Failover
  <2>1. prompt' = prompt
    BY <1>1 DEF Failover, TryRouted, TryNext, GiveUp, askVars
  <2>2. ASSUME phase' = "open" PROVE wire' = Wire(Format', prompt')
    <3>1. wire' = Wire(FormatOf[Providers[using']], prompt)
      BY <1>1, <2>2 DEF Failover, TryRouted, TryNext, GiveUp, Opens, Refuses
    <3> QED BY <2>1, <3>1 DEF Format
  <2> QED BY <2>1, <2>2 DEF Wired
<1>2. CASE ~Failover
  <2>1. UNCHANGED <<prompt, phase, using, wire>>
    BY <1>2 DEF Next, vars, askVars, failoverVars, Respond, SayStart, SayText, SayFinish, SayUsage,
           SayEnd, SayCall, SayBlock, SayPart, SayBlockStop, Say, SayError, BodyEnds, BodyBreaks,
           Cancel, StopParsing, Work, Read, TakeEvent, SendChunk, CloseChunks, Receive, EndReading
  <2> QED BY <2>1 DEF Wired, Format
<1> QED BY <1>1, <1>2

\* On the wire, the results of a message's calls follow it at once, each call answered once
\* and in order, and no result stands alone: for every request that pairs them, of
\* any length and with any number of calls (the message loops of the Anthropic, OpenAI
\* and Volcengine clients).
THEOREM WirePairedHolds == Spec => []WirePaired
<1>1. Init => Wired
  BY DEF Init, Wired
<1>2. Wired => WirePaired
  <2> SUFFICES ASSUME Wired, phase = "open", Format \in {"anthropic", "chat"},
                      NEW i \in 1..Len(wire)
               PROVE  /\ wire[i].calls # <<>> => AnsweredAt(i)
                      /\ wire[i].results # <<>> =>
                           \E j \in 1..(i - 1) :
                             wire[j].calls # <<>> /\ \A k \in (j + 1)..i : wire[k].results # <<>>
    BY DEF WirePaired
  <2>1. prompt \in Prompts /\ prompt \in Seq(Message) /\ Paired(prompt)
    <3>1. \A m \in Prompts : m \in Seq(Message) /\ Paired(m)
      BY PromptAssumption DEF PromptAssumption
    <3> QED BY <3>1 DEF Wired
  <2>2. wire = Wire(Format, prompt)
    BY DEF Wired
  <2>3. Format \in Pairing
    BY DEF Pairing
  <2>4. InItsPlace(wire, i)
    BY <2>1, <2>2, <2>3, PairedOnWire
  <2> QED BY <2>4 DEF InItsPlace, AnsweredAt
<1> QED BY <1>1, <1>2, WiredStep, PTL DEF Spec
-----------------------------------------------------------------------------
(* A stream is a Reply to the stage that reads it *)

\* An error is on its way to the stage only of a reply that was cut.
Alarmed ==
  Count(events, ErrorEvents) + Count(toSend, ErrorChunks) + Count(chunks, ErrorChunks) > 0 => CutOff

\* A format without fragments has whole calls only.
InOnePiece == Format \in {"gemini", "ollama"} => \A c \in Calls : said.parts[c] \in {0, Parts}

\* A cut reply stays one, and one that is cut off can no longer become complete.
LEMMA CutStays ==
  ASSUME Opened, phase = "open", [Next]_vars
  PROVE  CutOff => CutOff'
<1>1. CASE Respond
  <2>1. PICK e \in GoodEvents : Spoke(e)
    BY <1>1, Speaks DEF Opened
  <2> QED BY <2>1 DEF Spoke, Say, CutOff
<1>2. CASE Interrupts
  BY <1>2 DEF CutOff, Interrupts, SayError, BodyEnds, BodyBreaks, Cancel, StopParsing, ReadFails, serverVars
<1>3. CASE TakeEvent \/ SendChunk \/ CloseChunks \/ Receive \/ EndReading \/ UNCHANGED vars
  BY <1>3 DEF CutOff, TakeEvent, SendChunk, CloseChunks, Receive, EndReading, vars, serverVars
<1> QED BY <1>1, <1>2, <1>3, Streaming

\* The chunks made of an event that is no error have none.
LEMMA SendsNoError ==
  ASSUME Typed, toSend = <<>>, NEW e \in GoodEvents, e.kind # "error",
         TakeAnthropic(e) \/ TakeChat(e) \/ TakeGemini(e) \/ TakeOllama(e)
  PROVE  Count(toSend', ErrorChunks) = 0
<1> DEFINE Quiet == {h \in GoodChunks : h.type # "error"}
<1>1. e.report \in [in : Nat, out : Nat] /\ acc[0] \in CallType
  BY Constants DEF GoodEvents, EventType, Tokens, Typed
<1>2. /\ TextChunk \in Quiet /\ Plain("done") \in Quiet
      /\ UsageChunk(e.report) \in Quiet
      /\ Chunk("text", 0, NoCall, e.report) \in Quiet
      /\ \A call \in CallType : CallChunk(call) \in Quiet
  BY <1>1, ChunksAre DEF TextChunk, Plain, UsageChunk, CallChunk, Chunk
<1>3. toSend' \in Seq(Quiet)
  <2> HIDE DEF Quiet
  <2>0. \A x, y \in Quiet : <<x>> \in Seq(Quiet) /\ <<x, y>> \in Seq(Quiet)
    BY OneTwo
  <2>1. CASE e.kind \in {"text", "start", "usage", "block_start", "part", "end"}
    BY <1>2, <2>0, <2>1, Sends, EmptySeq
  <2>2. CASE e.kind = "call"
    <3>1. PICK h \in Quiet, u \in Quiet : h = CallChunk(WholeCall(e)) /\ u = UsageChunk(e.report)
      BY <1>2, <2>2, WholeCallIs
    <3>2. toSend' = <<h>> \/ toSend' = <<h, u>>
      BY <2>2, <3>1, Sends
    <3> QED BY <2>0, <3>2
  <2>3. CASE e.kind = "block_stop"
    BY <1>1, <1>2, <2>0, <2>3, Sends, EmptySeq
  <2>4. CASE e.kind = "finish" /\ (TakeAnthropic(e) \/ TakeGemini(e) \/ TakeOllama(e))
    BY <1>2, <2>0, <2>4, Sends
  <2>5. CASE e.kind = "finish" /\ TakeChat(e)
    <3>1. PICK order \in SetToSeqs({c \in Calls : acc[c] # NoCall}) :
            toSend' = Append([i \in 1..Len(order) |-> CallChunk(acc[order[i]])],
                             Chunk("text", 0, NoCall, e.report))
      BY <2>5 DEF TakeChat
    <3>2. /\ Len(order) \in Nat /\ order \in [1..Len(order) -> {c \in Calls : acc[c] # NoCall}]
      BY <3>1, FinishedCalls
    <3>3. \A i \in 1..Len(order) : acc[order[i]] \in CallType
      BY <3>2, Constants DEF Typed
    <3>4. \A i \in 1..Len(order) : CallChunk(acc[order[i]]) \in Quiet
      BY <1>2, <3>3
    <3>5. [i \in 1..Len(order) |-> CallChunk(acc[order[i]])] \in Seq(Quiet)
      BY <3>2, <3>4, IsASeq
    <3> QED BY <1>2, <3>1, <3>5, AppendProperties
  <2>6. e.kind \in SaidEvents
    BY DEF GoodEvents, EventType, SaidEvents
  <2> QED BY <2>1, <2>2, <2>3, <2>4, <2>5, <2>6 DEF SaidEvents
<1>4. PICK s \in Seq(Quiet) : s = toSend'
  BY <1>3
<1>5. \A i \in 1..Len(s) : s[i] \notin ErrorChunks
  <2>1. \A i \in 1..Len(s) : s[i] \in Quiet
    <3> HIDE DEF Quiet
    <3> QED BY ElementOfSeq
  <2> QED BY <2>1 DEF ErrorChunks
<1>6. Count(s, ErrorChunks) = 0
  <2> HIDE DEF Quiet
  <2> QED BY <1>5, CountZero
<1> QED BY <1>4, <1>6

LEMMA AlarmedStep ==
  ASSUME Opened, phase = "open", Alarmed, [Next]_vars
  PROVE  Alarmed'
<1>0. Typed /\ Typed' /\ Format \in Formats /\ (CutOff => CutOff')
  BY OpenedStep, FormatsAre, CutStays DEF Opened
<1>1. PICK ne \in Nat, ns \in Nat, nc \in Nat :
        /\ ne = Count(events, ErrorEvents) /\ ns = Count(toSend, ErrorChunks)
        /\ nc = Count(chunks, ErrorChunks)
  BY <1>0, CountsAre
<1>2. PICK ne1 \in Nat, ns1 \in Nat, nc1 \in Nat :
        /\ ne1 = Count(events', ErrorEvents) /\ ns1 = Count(toSend', ErrorChunks)
        /\ nc1 = Count(chunks', ErrorChunks)
  <2>1. Count(events', ErrorEvents) \in Nat /\ Count(toSend', ErrorChunks) \in Nat
        /\ Count(chunks', ErrorChunks) \in Nat
    BY <1>0, CountFinite DEF Typed
  <2> QED BY <2>1
<1>3. SUFFICES (ne1 + ns1 + nc1 > 0 => ne + ns + nc > 0) \/ CutOff'
  BY <1>0, <1>1, <1>2 DEF Alarmed
<1>4. CASE Respond
  <2>1. PICK e \in GoodEvents : Spoke(e)
    BY <1>0, <1>4, Speaks
  <2>2. e \notin ErrorEvents
    BY <2>1 DEF Spoke, ErrorEvents
  <2>3. ne1 = ne /\ ns1 = ns /\ nc1 = nc
    BY <1>0, <1>1, <1>2, <2>1, <2>2, SayCounts DEF Spoke, Say, workerVars
  <2> QED BY <2>3
<1>5. CASE Interrupts
  <2>1. ns1 = ns /\ nc1 = nc
    BY <1>0, <1>1, <1>2, <1>5, Interrupted DEF workerVars
  <2>2. CASE events' = events
    BY <1>1, <1>2, <2>1, <2>2
  <2>3. CASE events' # events
    <3>1. CutOff'
      BY <1>5, <2>3 DEF CutOff, Interrupts, SayError, BodyEnds, BodyBreaks, Cancel, StopParsing,
                        ReadFails, serverVars
    <3> QED BY <3>1
  <2> QED BY <2>2, <2>3
<1>6. CASE TakeEvent
  <2>1. PICK e \in GoodEvents : e = Head(events)
    BY <1>0, <1>6, HeadTail DEF TakeEvent, Typed
  <2>2. ne = ne1 + (IF e \in ErrorEvents THEN 1 ELSE 0)
    BY <1>0, <1>1, <1>2, <1>6, <2>1, TakeCounts
  <2>3. nc1 = nc
    BY <1>1, <1>2, <1>6 DEF TakeEvent
  <2>4. CASE e.kind = "error"
    BY <1>1, <1>2, <2>1, <2>2, <2>4 DEF ErrorEvents
  <2>5. CASE e.kind # "error"
    <3>1. ns1 = 0
      BY <1>0, <1>2, <1>6, <2>1, <2>5, SendsNoError DEF TakeEvent
    <3> QED BY <1>1, <1>2, <2>2, <2>3, <3>1
  <2> QED BY <2>4, <2>5
<1>7. CASE SendChunk
  <2>1. ns1 + nc1 = ns + nc
    BY <1>0, <1>1, <1>2, <1>7, SendCounts
  <2>2. ne1 = ne
    BY <1>1, <1>2, <1>7 DEF SendChunk
  <2> QED BY <2>1, <2>2
<1>8. CASE Receive
  <2>1. PICK x \in {0, 1} : nc = nc1 + x
    <3>1. nc = nc1 + (IF Head(chunks) \in ErrorChunks THEN 1 ELSE 0)
      BY <1>0, <1>1, <1>2, <1>8, ReceiveCounts
    <3> QED BY <3>1
  <2>2. ne1 = ne /\ ns1 = ns
    BY <1>1, <1>2, <1>8 DEF Receive, workerVars
  <2> QED BY <2>1, <2>2
<1>9. CASE CloseChunks \/ EndReading \/ UNCHANGED vars
  BY <1>1, <1>2, <1>9 DEF CloseChunks, EndReading, vars, workerVars
<1> QED BY <1>4, <1>5, <1>6, <1>7, <1>8, <1>9, Streaming

LEMMA InOnePieceStep ==
  ASSUME Opened, phase = "open", InOnePiece, [Next]_vars
  PROVE  InOnePiece'
<1>1. Typed /\ Format' = Format
  BY Streaming DEF Opened
<1>2. CASE Respond
  <2>1. PICK e \in GoodEvents : Spoke(e)
    BY <1>1, <1>2, Speaks
  <2>2. CASE e.kind = "call"
    BY <1>1, <2>1, <2>2 DEF Spoke, SayCall, InOnePiece, Typed, SaidType
  <2>3. CASE e.kind = "part"
    BY <1>1, <2>1, <2>3 DEF Spoke, SayPart, InOnePiece
  <2>4. CASE e.kind \notin {"call", "part"}
    <3>1. said'.parts = said.parts
      BY <1>1, <2>1, <2>4 DEF Spoke, SayStart, SayText, SayBlock, SayBlockStop, SayFinish, SayUsage, SayEnd,
                              Typed, SaidType
    <3> QED BY <1>1, <3>1 DEF InOnePiece
  <2> QED BY <2>2, <2>3, <2>4
<1>3. CASE ~Respond
  <2>1. said' = said
    BY <1>1, <1>3, Streaming, Interrupted DEF TakeEvent, SendChunk, CloseChunks, Receive, EndReading, vars, serverVars
  <2> QED BY <1>1, <2>1 DEF InOnePiece
<1> QED BY <1>2, <1>3

\* What the refinement needs to know of a stream.
Replying == Streamed /\ (phase = "open" => Alarmed /\ InOnePiece)

LEMMA ReplyingInit == Init => Replying
<1> SUFFICES ASSUME Init PROVE phase # "open"
  BY StreamedInit DEF Replying
<1> QED BY DEF Init

LEMMA ReplyingStep == Replying /\ [Next]_vars => Replying'
<1> SUFFICES ASSUME Replying, [Next]_vars PROVE Replying'
  OBVIOUS
<1>1. Streamed' /\ Opened
  BY StreamedStep DEF Replying, Streamed
<1>2. CASE phase # "open"
  <2>1. Fresh' => Alarmed' /\ InOnePiece'
    BY CountEmpty DEF Fresh, Alarmed, InOnePiece
  <2> QED BY <1>1, <1>2, <2>1, Opening DEF Replying
<1>3. CASE phase = "open"
  BY <1>1, <1>3, AlarmedStep, InOnePieceStep DEF Replying
<1> QED BY <1>2, <1>3

\* A call that has left the accumulator is one the model has said to the end.
LEMMA SaidToTheEnd ==
  ASSUME Typed, Format \in Formats, Flow, InOnePiece, NEW c \in Calls, Done(c) > 0
  PROVE  said.parts[c] = Parts
<1>1. Done(c) \in {0, 1} /\ Count(events, CallEvents(c)) \in Nat
  BY DoneOnce, CountsAre
<1>2. CASE Format \in {"gemini", "ollama"}
  <2>1. Count(events, CallEvents(c)) + Done(c) = IF said.parts[c] # 0 THEN 1 ELSE 0
    BY <1>2 DEF Flow, PieceCalls
  <2> QED BY <1>1, <1>2, <2>1 DEF InOnePiece
<1>3. CASE Format = "chat"
  <2>1. FinishTaken /\ said.parts[c] # 0
    BY <1>1, <1>3 DEF Flow, ChatCalls, ChatCall
  <2> QED BY <2>1 DEF FinishTaken, Flow, Ordered, Staged
<1>4. CASE Format = "anthropic"
  <2>1. PICK lo \in Nat, hi \in Nat : lo = Taken(c) /\ hi = SaidPos(c)
    BY <1>4, PlacesAre DEF Flow, BlockCalls, Blocks
  <2>2. lo <= hi
    BY <1>4, <2>1 DEF Flow, BlockCalls, Blocks, BlockCall, Window
  <2>3. lo = Parts + 2
    BY <1>1, <1>4, <2>1 DEF Flow, BlockCalls, Blocks, BlockCall, Taken
  <2>4. said.parts[c] \in 0..Parts
    BY DEF Typed, SaidType
  <2> QED BY <2>1, <2>2, <2>3, <2>4, Constants DEF SaidPos
<1> QED BY <1>2, <1>3, <1>4 DEF Formats

\* The whole calls the model has said.
LEMMA SpokenIs ==
  /\ Spoken.text = said.text
  /\ \A c \in Calls : TheCall(c) \in Spoken.calls <=> said.parts[c] = Parts
  /\ Spoken.calls \subseteq WholeCalls
<1>1. \A c \in Calls : TheCall(c) \in Spoken.calls <=> said.parts[c] = Parts
  BY TheCallIs DEF Spoken
<1> QED BY <1>1 DEF Spoken, WholeCalls

LEMMA SpokenGrows ==
  ASSUME Typed, NEW c \in Calls, said.parts[c] # Parts, said' = [said EXCEPT !.parts[c] = Parts]
  PROVE  /\ TheCall(c) \in WholeCalls \ Spoken.calls
         /\ Spoken' = [Spoken EXCEPT !.calls = @ \cup {TheCall(c)}]
<1>1. TheCall(c) \in WholeCalls /\ TheCall(c) \notin Spoken.calls
  BY TheCallIs, SpokenIs
<1>2. /\ said'.text = said.text
      /\ {d \in Calls : said'.parts[d] = Parts} = {d \in Calls : said.parts[d] = Parts} \cup {c}
  BY DEF Typed, SaidType
<1>3. {TheCall(d) : d \in {b \in Calls : said'.parts[b] = Parts}}
        = {TheCall(d) : d \in {b \in Calls : said.parts[b] = Parts}} \cup {TheCall(c)}
  BY <1>2
<1>4. Spoken' = [text |-> said'.text, calls |-> {TheCall(d) : d \in {b \in Calls : said'.parts[b] = Parts}}]
  BY DEF Spoken, TheCall
<1>5. PICK X : X = {TheCall(d) : d \in {b \in Calls : said.parts[b] = Parts}}
  OBVIOUS
<1>6. Spoken = [text |-> said.text, calls |-> X]
  BY <1>5 DEF Spoken
<1>7. Spoken' = [text |-> said.text, calls |-> X \cup {TheCall(c)}]
  BY <1>2, <1>3, <1>4, <1>5
<1> QED BY <1>1, <1>6, <1>7

LEMMA SpokenSame ==
  ASSUME Typed, said'.text = said.text,
         \A d \in Calls : said'.parts[d] = Parts <=> said.parts[d] = Parts
  PROVE  Spoken' = Spoken
<1>1. {d \in Calls : said'.parts[d] = Parts} = {d \in Calls : said.parts[d] = Parts}
  OBVIOUS
<1>2. Spoken' = [text |-> said'.text, calls |-> {TheCall(d) : d \in {b \in Calls : said'.parts[b] = Parts}}]
  BY DEF Spoken, TheCall
<1> QED BY <1>1, <1>2 DEF Spoken

\* What the provider says, as module Reply.
LEMMA RespondRefined ==
  ASSUME Opened, phase = "open", Respond
  PROVE  R!Speak \/ R!FinishSpeaking \/ UNCHANGED R!vars
<1>0. Typed
  BY DEF Opened
<1>1. PICK e \in GoodEvents : Spoke(e)
  BY <1>0, Speaks
<1>2. /\ UNCHANGED <<phase, consumer, got, cancelled, feed>> /\ feed = "live"
      /\ consumer \in {"reading", "ended", "error"}
  BY <1>0, <1>1 DEF Spoke, Say, failoverVars, readVars, Typed
<1>3. Status' = Status /\ Status \notin {"asking", "refused"} /\ Heard' = Heard /\ CutOff' = CutOff
  BY <1>2 DEF Status, Heard, CutOff
<1>4. CASE e.kind = "text"
  <2>1. stage' = stage /\ stage = "body" /\ said' = [said EXCEPT !.text = @ + 1]
    BY <1>1, <1>4 DEF Spoke, SayText
  <2>2. Spoken' = [Spoken EXCEPT !.text = @ + 1]
    <3>1. said'.text = said.text + 1 /\ said'.parts = said.parts
      BY <1>0, <2>1 DEF Typed, SaidType
    <3>2. PICK X : X = {TheCall(d) : d \in {b \in Calls : said.parts[b] = Parts}}
      OBVIOUS
    <3>3. Spoken = [text |-> said.text, calls |-> X]
      BY <3>2 DEF Spoken
    <3>4. Spoken' = [text |-> said'.text, calls |-> {TheCall(d) : d \in {b \in Calls : said'.parts[b] = Parts}}]
      BY DEF Spoken, TheCall
    <3>5. Spoken' = [text |-> said.text + 1, calls |-> X]
      BY <3>1, <3>2, <3>4
    <3> QED BY <3>3, <3>5
  <2> QED BY <1>3, <2>1, <2>2 DEF R!Speak
<1>5. CASE e.kind \in {"call", "part"}
  <2>1. PICK c \in Calls : /\ stage' = stage /\ stage = "body" /\ said.parts[c] # Parts
                           /\ \/ said' = [said EXCEPT !.parts[c] = Parts]
                              \/ said' = [said EXCEPT !.parts[c] = @ + 1] /\ said.parts[c] + 1 # Parts
    <3>1. CASE e.kind = "call"
      <4>1. e.call \in Calls /\ SayCall(e.call)
        BY <1>1, <3>1 DEF Spoke, GoodEvents
      <4>2. said.parts[e.call] # Parts /\ stage' = stage /\ stage = "body"
            /\ said' = [said EXCEPT !.parts[e.call] = Parts]
        BY <4>1, Constants DEF SayCall, Begins
      <4> QED BY <4>1, <4>2
    <3>2. CASE e.kind = "part"
      <4>1. e.call \in Calls /\ SayPart(e.call)
        BY <1>1, <3>2 DEF Spoke, GoodEvents
      <4>2. said.parts[e.call] \in 0..Parts
        BY <1>0, <4>1 DEF Typed, SaidType
      <4>3. said.parts[e.call] # Parts /\ stage' = stage /\ stage = "body"
            /\ said' = [said EXCEPT !.parts[e.call] = said.parts[e.call] + 1]
        BY <4>1, <4>2, Constants DEF SayPart
      <4> QED BY <4>1, <4>3
    <3> QED BY <1>5, <3>1, <3>2
  <2>2. CASE said' = [said EXCEPT !.parts[c] = Parts]
    <3>1. /\ TheCall(c) \in WholeCalls \ Spoken.calls
          /\ Spoken' = [Spoken EXCEPT !.calls = @ \cup {TheCall(c)}]
      BY <1>0, <2>1, <2>2, SpokenGrows
    <3> QED BY <1>3, <2>1, <3>1 DEF R!Speak
  <2>3. CASE said' = [said EXCEPT !.parts[c] = @ + 1] /\ said.parts[c] + 1 # Parts
    <3>1. said'.text = said.text /\ \A d \in Calls : said'.parts[d] = Parts <=> said.parts[d] = Parts
      BY <1>0, <2>1, <2>3 DEF Typed, SaidType
    <3>2. Spoken' = Spoken
      BY <1>0, <3>1, SpokenSame
    <3> QED BY <1>3, <2>1, <3>2 DEF R!vars
  <2> QED BY <2>1, <2>2, <2>3
<1>6. CASE e.kind \notin {"text", "call", "part"}
  <2>1. said'.text = said.text /\ said'.parts = said.parts
        /\ ((stage' = "complete" /\ stage # "complete") \/ (stage' = "complete" <=> stage = "complete"))
    BY <1>0, <1>1, <1>6 DEF Spoke, SayStart, SayBlock, SayBlockStop, SayFinish, SayUsage, SayEnd, Typed, SaidType
  <2>2. Spoken' = Spoken
    BY <1>0, <2>1, SpokenSame
  <2>3. CASE stage' = "complete" /\ stage # "complete"
    BY <1>3, <2>1, <2>2, <2>3 DEF R!FinishSpeaking
  <2>4. CASE stage' = "complete" <=> stage = "complete"
    BY <1>3, <2>1, <2>2, <2>4 DEF R!vars
  <2> QED BY <2>1, <2>3, <2>4
<1> QED BY <1>4, <1>5, <1>6

\* A step of the parser, of the network or of whoever cancels.
LEMMA InterruptRefined ==
  ASSUME Opened, phase = "open", Interrupts, [Next]_vars
  PROVE  R!CutShort \/ UNCHANGED R!vars
<1>1. UNCHANGED <<phase, consumer, got, said, stage>>
  BY Interrupted DEF Opened, failoverVars, readVars
<1>2. Status' = Status /\ Heard' = Heard /\ Spoken' = Spoken
  BY <1>1 DEF Status, Heard, Spoken, TheCall
<1>3. (stage' = "complete") = (stage = "complete")
  BY <1>1
<1>4. (CutOff => CutOff') /\ CutOff \in BOOLEAN /\ CutOff' \in BOOLEAN
  BY CutStays DEF CutOff
<1>5. CASE CutOff' = CutOff
  BY <1>2, <1>3, <1>5 DEF R!vars
<1>6. CASE ~CutOff /\ CutOff' = TRUE
  BY <1>2, <1>3, <1>6 DEF R!CutShort
<1> QED BY <1>4, <1>5, <1>6

\* The calls the stage has are those of the sequence.
LEMMA HeardCalls ==
  ASSUME NEW s \in Seq(WholeCalls), NEW c \in Calls
  PROVE  /\ TheCall(c) \in ToSet(s) <=> \E i \in 1..Len(s) : s[i].id = c
         /\ ToSet(s) \subseteq WholeCalls
<1>1. DOMAIN s = 1..Len(s) /\ \A i \in 1..Len(s) : s[i] \in WholeCalls
  BY LenProperties, ElementOfSeq
<1>2. ToSet(s) = {s[i] : i \in 1..Len(s)}
  BY <1>1 DEF ToSet
<1>3. \A i \in 1..Len(s) : s[i] = TheCall(c) <=> s[i].id = c
  BY <1>1, WholeCallsAre, TheCallIs
<1> QED BY <1>1, <1>2, <1>3

\* A chunk that the stage receives.
LEMMA ReceiveRefined ==
  ASSUME Replying, phase = "open", Receive, Streamed', phase' = "open"
  PROVE  R!HearText \/ R!HearCall \/ R!Fail \/ UNCHANGED R!vars
<1>1. Typed /\ Typed' /\ Flow /\ Flow' /\ Format \in Formats /\ Alarmed /\ InOnePiece /\ TextSum'
  BY FormatsAre DEF Replying, Streamed, Opened
<1>2. PICK h \in WholeChunks : h = Head(chunks)
  BY <1>1, HeadTail DEF Receive, Flow, AllWhole
<1>3. h \in GoodChunks
  BY DEF WholeChunks
<1>4. /\ UNCHANGED <<phase, said, stage, cancelled, feed>> /\ consumer = "reading"
      /\ \/ h.type = "error" /\ consumer' = "error" /\ got' = got
         \/ /\ h.type # "error" /\ consumer' = consumer
            /\ got'.text = got.text + h.size
            /\ got'.calls = IF h.type = "tool_call" THEN Append(got.calls, h.call) ELSE got.calls
  <2>1. UNCHANGED <<phase, said, stage, cancelled, feed>> /\ consumer = "reading"
    BY DEF Receive, failoverVars, serverVars
  <2>2. CASE h.type = "error"
    BY <1>2, <2>1, <2>2 DEF Receive
  <2>3. CASE h.type # "error"
    <3>1. PICK calls : calls = IF h.type = "tool_call" THEN Append(got.calls, h.call) ELSE got.calls
      OBVIOUS
    <3>2. PICK in, out : got' = [text |-> got.text + h.size, calls |-> calls, in |-> in, out |-> out]
      BY <1>2, <2>3, <3>1 DEF Receive, Collected
    <3>3. consumer' = consumer
      BY <1>2, <2>3 DEF Receive
    <3> QED BY <2>1, <2>3, <3>1, <3>2, <3>3
  <2> QED BY <2>2, <2>3
<1>5. Spoken' = Spoken /\ CutOff' = CutOff /\ Status = "streaming"
  BY <1>4 DEF Spoken, TheCall, CutOff, Status
<1>6. CASE h.type = "error"
  <2>1. Status' = "failed" /\ Heard' = Heard
    BY <1>4, <1>6 DEF Status, Heard
  <2>2. CutOff
    <3>1. PICK ne \in Nat, ns \in Nat, nc \in Nat :
            ne = Count(events, ErrorEvents) /\ ns = Count(toSend, ErrorChunks) /\ nc = Count(chunks, ErrorChunks)
      BY <1>1, CountsAre
    <3>2. nc > 0
      <4>1. h \in ErrorChunks
        BY <1>3, <1>6 DEF ErrorChunks
      <4>2. nc = Count(chunks', ErrorChunks) + 1
        BY <1>1, <1>2, <3>1, <4>1, ReceiveCounts
      <4>3. Count(chunks', ErrorChunks) \in Nat
        BY <1>1, CountFinite DEF Typed
      <4> QED BY <4>2, <4>3
    <3> QED BY <1>1, <3>1, <3>2 DEF Alarmed
  <2> QED BY <1>4, <1>5, <2>1, <2>2 DEF R!Fail
<1>7. CASE h.type = "tool_call"
  <2>1. h.size = 0 /\ consumer' = consumer
    BY <1>3, <1>4, <1>7 DEF GoodChunks, ChunkType
  <2>2. PICK c \in Calls : h.call = TheCall(c)
    BY <1>7 DEF WholeChunks, WholeCalls
  <2>3. PICK s \in Seq(WholeCalls) : s = got.calls
    BY <1>1 DEF Flow, AllWhole
  <2>4. got'.calls = Append(s, TheCall(c)) /\ got'.text = got.text
    BY <1>1, <1>4, <1>7, <2>1, <2>2, <2>3 DEF Typed, GotType
  <2>5. /\ Len(s) \in Nat /\ Len(Append(s, TheCall(c))) = Len(s) + 1
        /\ \A i \in 1..Len(s) : Append(s, TheCall(c))[i] = s[i]
        /\ Append(s, TheCall(c))[Len(s) + 1] = TheCall(c)
        /\ Append(s, TheCall(c)) \in Seq(WholeCalls)
    <3>1. PICK x \in WholeCalls : x = TheCall(c)
      BY TheCallIs
    <3>2. /\ Len(s) \in Nat /\ Len(Append(s, x)) = Len(s) + 1 /\ Append(s, x) \in Seq(WholeCalls)
          /\ \A i \in 1..Len(s) : Append(s, x)[i] = s[i]
          /\ Append(s, x)[Len(s) + 1] = x
      BY AppendProperties, LenProperties
    <3> QED BY <3>1, <3>2
  <2>6. TheCall(c) \notin ToSet(s)
    <3>1. CallsWhole'
      BY CallsAreWhole, PTL
    <3>2. DOMAIN got'.calls = 1..(Len(s) + 1)
      BY <2>4, <2>5, LenProperties
    <3>3. \A i, j \in 1..(Len(s) + 1) : got'.calls[i].id = got'.calls[j].id => i = j
      BY <3>1, <3>2 DEF CallsWhole
    <3>4. ASSUME NEW i \in 1..Len(s), s[i].id = c PROVE FALSE
      <4>1. i \in 1..(Len(s) + 1) /\ Len(s) + 1 \in 1..(Len(s) + 1) /\ i # Len(s) + 1
        BY <2>5
      <4>2. got'.calls[i].id = c /\ got'.calls[Len(s) + 1].id = c
        <5>1. got'.calls[i] = s[i] /\ got'.calls[Len(s) + 1] = TheCall(c)
          BY <2>4, <2>5
        <5>2. TheCall(c).id = c
          BY TheCallIs
        <5> QED BY <3>4, <5>1, <5>2
      <4> QED BY <3>3, <4>1, <4>2
    <3> QED BY <3>4, HeardCalls
  <2>7. said.parts[c] = Parts
    <3>1. PICK G : G = CallChunks(c) /\ h \in G
      BY <1>3, <1>7, <2>2 DEF CallChunks
    <3>2. Count(chunks, G) = Count(chunks', G) + 1 /\ Count(chunks', G) \in Nat
      <4>1. Count(chunks, G) = Count(chunks', G) + (IF Head(chunks) \in G THEN 1 ELSE 0)
        BY <1>1, ReceiveCounts
      <4>2. Count(chunks', G) \in Nat
        BY <1>1, CountFinite DEF Typed
      <4> QED BY <1>2, <3>1, <4>1, <4>2
    <3>3. Count(toSend, G) \in Nat /\ Count(got.calls, {TheCall(c)}) \in Nat
      BY <1>1, CountsAre, CountFinite DEF Typed, GotType
    <3>4. Done(c) > 0
      BY <3>1, <3>2, <3>3 DEF Done
    <3> QED BY <1>1, <3>4, SaidToTheEnd
  <2>8. TheCall(c) \in Spoken.calls \ ToSet(Heard.calls)
    BY <2>3, <2>6, <2>7, SpokenIs DEF Heard
  <2>9. Heard' = [Heard EXCEPT !.calls = Append(@, TheCall(c))]
    <3>1. Heard = [text |-> got.text, calls |-> s]
      BY <2>3 DEF Heard
    <3>2. Heard' = [text |-> got.text, calls |-> Append(s, TheCall(c))]
      BY <2>4 DEF Heard
    <3>3. PICK longer : longer = Append(s, TheCall(c))
      OBVIOUS
    <3>4. Append(Heard.calls, TheCall(c)) = longer
      BY <3>1, <3>3
    <3>5. [Heard EXCEPT !.calls = longer] = [text |-> got.text, calls |-> longer]
      BY <3>1
    <3> QED BY <3>2, <3>3, <3>4, <3>5
  <2>10. Status' = Status
    BY <1>4, <2>1 DEF Status
  <2>11. \E x \in Spoken.calls \ R!ToSet(Heard.calls) : Heard' = [Heard EXCEPT !.calls = Append(@, x)]
    BY <2>8, <2>9 DEF R!ToSet, ToSet
  <2>12. (stage' = "complete") = (stage = "complete") /\ CutOff' = CutOff
    BY <1>4, <1>5
  <2> QED BY <1>5, <2>10, <2>11, <2>12 DEF R!HearCall
<1>8. CASE h.type \notin {"error", "tool_call"}
  <2>1. h.size \in {0, 1} /\ consumer' = consumer /\ got'.calls = got.calls /\ got'.text = got.text + h.size
    BY <1>3, <1>4, <1>8 DEF GoodChunks, ChunkType
  <2>2. Status' = Status /\ got.text \in Nat
    BY <1>1, <1>4, <2>1 DEF Status, Typed, GotType
  <2>3. CASE h.size = 0
    BY <1>4, <1>5, <2>1, <2>2, <2>3 DEF R!vars, Heard
  <2>4. CASE h.size = 1
    <3>1. got'.text <= said'.text
      <4>1. PICK ne \in Nat, ns \in Nat, nc \in Nat :
              /\ ne = Count(events', TextEvents) /\ ns = Count(toSend', Pieces) /\ nc = Count(chunks', Pieces)
        <5>1. Count(events', TextEvents) \in Nat /\ Count(toSend', Pieces) \in Nat /\ Count(chunks', Pieces) \in Nat
          BY <1>1, CountFinite DEF Typed
        <5> QED BY <5>1
      <4>2. ne + ns + nc + got'.text = said'.text /\ got'.text \in Nat
        BY <1>1, <4>1, <2>1, <2>2, <2>4 DEF TextSum
      <4> QED BY <4>2
    <3>2. Heard.text < Spoken.text
      <4>1. said.text \in Nat /\ said' = said /\ got'.text = got.text + 1
        BY <1>1, <1>4, <2>1, <2>4 DEF Typed, SaidType
      <4>2. got.text < said.text
        BY <2>2, <3>1, <4>1
      <4>3. Heard.text = got.text /\ Spoken.text = said.text
        BY SpokenIs DEF Heard
      <4> QED BY <4>2, <4>3
    <3>3. Heard' = [Heard EXCEPT !.text = @ + 1]
      BY <2>1, <2>4 DEF Heard
    <3> QED BY <1>4, <1>5, <2>2, <3>2, <3>3 DEF R!HearText
  <2> QED BY <2>1, <2>3, <2>4
<1> QED BY <1>6, <1>7, <1>8

\* The stage has read to the end of the channel.
LEMMA EndRefined ==
  ASSUME Replying, phase = "open", EndReading, Streamed'
  PROVE  R!End
<1>1. Typed /\ Flow /\ Format \in Formats
  BY FormatsAre DEF Replying, Streamed, Opened
<1>2. /\ UNCHANGED <<phase, said, stage, cancelled, feed, got>>
      /\ consumer = "reading" /\ consumer' = "ended" /\ worker = "closed"
  BY DEF EndReading, failoverVars, serverVars
<1>3. /\ Spoken' = Spoken /\ CutOff' = CutOff /\ Heard' = Heard
      /\ Status = "streaming" /\ Status' = "ended"
  BY <1>2 DEF Spoken, TheCall, CutOff, Status, Heard
<1>4. CutOff \/ (stage = "complete" /\ R!AllHeard)
  <2> SUFFICES ASSUME ~CutOff PROVE stage = "complete" /\ R!AllHeard
    OBVIOUS
  <2>1. ~cancelled /\ stage = "complete"
    BY <1>1, <1>2 DEF CutOff, Flow, Leaving
  <2>2. CompleteResponseRead'
    BY ResponseIsRead, PTL
  <2>3. got.text = said.text /\ {got.calls[i].id : i \in DOMAIN got.calls} = {c \in Calls : said.parts[c] # 0}
    BY <1>2, <2>1, <2>2 DEF CompleteResponseRead
  <2>4. \A c \in Calls : said.parts[c] # 0 <=> said.parts[c] = Parts
    BY <1>1, <2>1, Constants DEF Flow, Ordered, Staged, Late
  <2>5. PICK s \in Seq(WholeCalls) : s = got.calls
    BY <1>1 DEF Flow, AllWhole
  <2>6. DOMAIN s = 1..Len(s)
    BY LenProperties
  <2>7. \A c \in Calls : TheCall(c) \in ToSet(s) <=> TheCall(c) \in Spoken.calls
    BY <2>3, <2>4, <2>5, <2>6, HeardCalls, SpokenIs
  <2>8. ToSet(s) \subseteq WholeCalls /\ Spoken.calls \subseteq WholeCalls
    <3>1. \A x \in ToSet(s) : x \in WholeCalls
      <4>1. \A i \in 1..Len(s) : s[i] \in WholeCalls
        BY ElementOfSeq
      <4> QED BY <2>6, <4>1 DEF ToSet
    <3> QED BY <3>1, SpokenIs
  <2>9. ToSet(s) = Spoken.calls
    <3>1. \A x \in WholeCalls : x \in ToSet(s) <=> x \in Spoken.calls
      <4>1. \A x \in WholeCalls : \E c \in Calls : x = TheCall(c)
        BY DEF WholeCalls
      <4> QED BY <2>7, <4>1
    <3> QED BY <2>8, <3>1
  <2>10. Heard.text = Spoken.text /\ Heard.calls = s
    BY <2>3, <2>5, SpokenIs DEF Heard
  <2> QED BY <2>1, <2>9, <2>10 DEF R!AllHeard, R!ToSet, ToSet
<1> QED BY <1>2, <1>3, <1>4 DEF R!End

\* The steps that choose a provider, and a cancel before one has answered.
LEMMA OpeningRefined ==
  ASSUME Replying, phase # "open", [Next]_vars
  PROVE  R!Answer \/ R!CutShort \/ UNCHANGED R!vars
<1>1. Typed /\ Unopened /\ Choosing
  BY DEF Replying, Streamed, Opened
<1>2. CASE Failover
  <2>1. /\ UNCHANGED <<said, feed, got, cancelled, consumer>>
        /\ phase \in {"routed", "sequence"} /\ phase' \in {"open", "sequence", "failed"}
        /\ stage' = stage \/ stage' \in {"start", "body"}
    BY <1>2 DEF Failover, TryRouted, TryNext, GiveUp, Opens, Refuses, serverVars, readVars, failoverVars
  <2>2. Spoken' = Spoken /\ Heard' = Heard
    BY <2>1 DEF Spoken, TheCall, Heard
  <2>3. feed = "live" /\ consumer = "reading" /\ stage = "none"
    BY <1>1 DEF Unopened
  <2>4. CutOff' = CutOff /\ stage # "complete" /\ stage' # "complete"
    BY <2>1, <2>3 DEF CutOff
  <2>5. Status = "asking" /\ Status' \in {"asking", "streaming", "refused"}
    BY <2>1, <2>3 DEF Status
  <2> QED BY <2>2, <2>4, <2>5 DEF R!Answer, R!vars
<1>3. CASE Cancel
  <2>1. UNCHANGED <<phase, said, stage, feed, got, consumer>> /\ feed = "live" /\ ~cancelled /\ cancelled'
    BY <1>1, <1>3 DEF Cancel, failoverVars, serverVars, readVars, Unopened
  <2>2. Spoken' = Spoken /\ Heard' = Heard /\ Status' = Status /\ ~CutOff /\ CutOff'
    BY <2>1 DEF Spoken, TheCall, Heard, Status, CutOff
  <2> QED BY <2>1, <2>2 DEF R!CutShort
<1>4. CASE UNCHANGED vars
  <2>1. UNCHANGED <<phase, said, stage, feed, got, consumer, cancelled>>
    BY <1>4 DEF vars, failoverVars, serverVars, readVars
  <2> QED BY <2>1 DEF R!vars, Spoken, TheCall, Heard, Status, CutOff
<1>5. ~(SayError \/ BodyEnds \/ BodyBreaks \/ StopParsing \/ Respond)
  BY <1>1, Speaks DEF SayError, BodyEnds, BodyBreaks, StopParsing, Spoke, Say
<1>6. ~(Work \/ Read)
  BY <1>1 DEF Unopened, Work, TakeEvent, SendChunk, CloseChunks, Read, Receive, EndReading
<1> QED BY <1>2, <1>3, <1>4, <1>5, <1>6 DEF Next

LEMMA ReplyInitRefined == Init => R!Init
<1> SUFFICES ASSUME Init PROVE R!Init
  OBVIOUS
<1>1. /\ phase \in {"routed", "sequence"} /\ stage = "none" /\ ~cancelled /\ feed = "live"
      /\ said.text = 0 /\ got.text = 0 /\ got.calls = <<>> /\ \A c \in Calls : said.parts[c] # Parts
  BY Constants DEF Init
<1>2. Spoken = [text |-> 0, calls |-> {}]
  BY <1>1 DEF Spoken
<1> QED BY <1>1, <1>2 DEF R!Init, Heard, Status, CutOff

\* One call of the failover client, with the stream of any of the wire formats, is a Reply to
\* the stage that reads it: what the stage gets is what the model has said, each piece and
\* each whole call once, and it is told of an error, or takes the reply for complete,
\* only where it may (FailoverClient.Stream, the goroutines of the providers'
\* Stream, the loops of LLMInvoker and ToolExecutor).
THEOREM ReplySafetyHolds == Spec => ReplySafety
<1>1. Replying /\ [Next]_vars => [R!Next]_(R!vars)
  <2> SUFFICES ASSUME Replying, [Next]_vars PROVE R!Next \/ UNCHANGED R!vars
    OBVIOUS
  <2>1. CASE phase # "open"
    BY <2>1, OpeningRefined DEF R!Next
  <2>2. CASE phase = "open"
    <3>1. Opened /\ Streamed' /\ phase' = "open"
      BY <2>2, Streaming, StreamedStep DEF Replying, Streamed
    <3>2. CASE Respond
      BY <2>2, <3>1, <3>2, RespondRefined DEF R!Next
    <3>3. CASE Interrupts
      BY <2>2, <3>1, <3>3, InterruptRefined DEF R!Next
    <3>4. CASE TakeEvent \/ SendChunk \/ CloseChunks \/ UNCHANGED vars
      <4>1. UNCHANGED <<phase, said, stage, feed, got, consumer, cancelled>>
        BY <3>4 DEF TakeEvent, SendChunk, CloseChunks, vars, failoverVars, serverVars, readVars
      <4> QED BY <4>1 DEF R!vars, Spoken, TheCall, Heard, Status, CutOff
    <3>5. CASE Receive
      BY <2>2, <3>1, <3>5, ReceiveRefined DEF R!Next
    <3>6. CASE EndReading
      BY <2>2, <3>1, <3>6, EndRefined DEF R!Next
    <3> QED BY <2>2, <3>2, <3>3, <3>4, <3>5, <3>6, Streaming
  <2> QED BY <2>1, <2>2
<1> QED BY <1>1, ReplyInitRefined, ReplyingInit, ReplyingStep, PTL DEF Spec, ReplySafety, R!SafetySpec
=============================================================================
