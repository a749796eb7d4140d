--------------------------- MODULE PipelineProofs ---------------------------
(***************************************************************************)
(* Theorems about module Pipeline, for every set of requests, sessions and  *)
(* tools and every value of the limits: types, tool calls, what a turn      *)
(* sends, stores and counts, and that Pipeline implements Turn.              *)
(***************************************************************************)
EXTENDS Pipeline, SequenceTheorems, FiniteSetTheorems, TLAPS

-----------------------------------------------------------------------------
(* Messages and prompts *)

LEMMA PlainType ==
  ASSUME NEW role \in {"system", "user", "assistant", "tool"} \cup ClientRoles,
         NEW turn \in Requests \cup Nat
  PROVE  Plain(role, turn) \in Message
BY EmptySeq DEF Plain, Message

LEMMA HistoryType ==
  ASSUME TypeOK, NEW k \in Keys
  PROVE  History(k) \in Seq(Message)
<1> DEFINE n == IF Len(rows[k]) < HistoryLimit THEN Len(rows[k]) ELSE HistoryLimit
<1>1. rows[k] \in Seq(Row)
  BY DEF TypeOK
<1>2. n \in Nat /\ n <= Len(rows[k])
  BY <1>1, PipelineAssumption
<1>3. ASSUME NEW i \in 1..n PROVE Plain(rows[k][i].role, rows[k][i].turn) \in Message
  <2>1. rows[k][i] \in Row
    BY <1>1, <1>2
  <2> QED BY <2>1, PlainType DEF Row
<1>4. History(k) \in [1..n -> Message]
  BY <1>3 DEF History
<1> QED BY <1>2, <1>4, SeqDef

LEMMA WithSystemType ==
  ASSUME NEW r \in Requests, NEW m \in Seq(Message)
  PROVE  WithSystem(r, m) \in Seq(Message)
<1>1. <<Plain("system", r)>> \in Seq(Message)
  BY PlainType
<1> QED BY <1>1, ConcatProperties DEF WithSystem

\* compactMessages keeps six messages, whatever it is given.
LEMMA CompactedType ==
  ASSUME NEW r \in Requests, NEW m \in Seq(Message), Len(m) > 5
  PROVE  Compacted(m, r) \in Seq(Message)
<1>1. <<m[1], Plain("user", r)>> \in Seq(Message)
  BY PlainType
<1>2. SubSeq(m, Len(m) - 3, Len(m)) \in Seq(Message)
  BY SubSeqProperties, LenProperties
<1> QED BY <1>1, <1>2, ConcatProperties DEF Compacted
-----------------------------------------------------------------------------
(* Type correctness *)

\* compactMessages is only entered with more than five messages, which its
\* slices rely on.
LongEnough == \A r \in Requests :
  pc[r] = "compacting" => Len(WithSystem(r, msgs[r])) > 5

TypeInv == TypeOK /\ LongEnough

LEMMA TypeInit == Init => TypeInv
<1> SUFFICES ASSUME Init PROVE TypeInv
  OBVIOUS
<1>1. ASSUME NEW n \in Nat PROVE Answered(n) \in Seq(Row)
  <2>1. ASSUME NEW i \in 1..(2 * n) PROVE Answered(n)[i] \in Row
    BY DEF Answered, Row
  <2>2. Answered(n) \in [1..(2 * n) -> Row]
    BY <2>1 DEF Answered
  <2> QED BY <2>2, SeqDef
<1>2. rows \in [Keys -> Seq(Row)]
  BY <1>1, PipelineAssumption DEF Init
<1>3. LongEnough
  BY DEF Init, LongEnough
<1>4. got \in [Requests -> [data : 0..MaxChunks, reports : 0..UsageReports]]
  BY PipelineAssumption DEF Init
<1> QED BY <1>2, <1>3, <1>4, PipelineAssumption DEF Init, TypeInv, TypeOK, Stages

\* What client.Stream leaves behind, opened or refused.
LEMMA OpenStreamType ==
  ASSUME TypeInv, NEW r \in Requests, NEW from, NEW m \in Seq(Message),
         NEW stream \in {"llm_stream", "loop_stream"}, OpenStream(r, from, m, stream)
  PROVE  /\ pc' \in [Requests -> Stages]
         /\ sent' \in [Requests -> Seq(Message)]
         /\ got' \in [Requests -> [data : 0..MaxChunks, reports : 0..UsageReports]]
         /\ content' \in [Requests -> Nat]
         /\ \A q \in Requests : pc'[q] = "compacting" => q # r /\ pc[q] = "compacting"
<1>1. [data |-> 0, reports |-> 0] \in [data : 0..MaxChunks, reports : 0..UsageReports]
  BY PipelineAssumption
<1>2. CASE Goto(r, from, stream)
           /\ sent' = [sent EXCEPT ![r] = m]
           /\ got' = [got EXCEPT ![r] = [data |-> 0, reports |-> 0]]
           /\ content' = [content EXCEPT ![r] = 0]
  BY <1>1, <1>2 DEF Goto, TypeInv, TypeOK, Stages
<1>3. CASE Goto(r, from, "failed") /\ UNCHANGED <<sent, got, content>>
  BY <1>3 DEF Goto, TypeInv, TypeOK, Stages
<1> QED BY <1>2, <1>3 DEF OpenStream

LEMMA EmitType ==
  ASSUME TypeInv, NEW r \in Requests, NEW chunk \in Chunks, Emit(r, chunk)
  PROVE  /\ out' \in [Requests -> Seq(Chunks)]
         /\ \A q \in Requests : Len(out'[q]) <= ChanCap
<1>1. Append(out[r], chunk) \in Seq(Chunks) /\ Len(Append(out[r], chunk)) = Len(out[r]) + 1
  BY DEF TypeInv, TypeOK
<1>2. Len(Append(out[r], chunk)) <= ChanCap
  BY <1>1, PipelineAssumption DEF Emit, TypeInv, TypeOK
<1> QED BY <1>1, <1>2 DEF Emit, TypeInv, TypeOK

LEMMA InsertType ==
  ASSUME TypeInv, NEW r \in Requests, NEW row \in Row, Insert(r, row)
  PROVE  rows' \in [Keys -> Seq(Row)]
<1>1. KeyOf[r] \in Keys
  BY PipelineAssumption
<1>2. rows \in [Keys -> Seq(Row)] /\ Append(rows[KeyOf[r]], row) \in Seq(Row)
  BY <1>1 DEF TypeInv, TypeOK
<1>3. rows' = [rows EXCEPT ![KeyOf[r]] = Append(rows[KeyOf[r]], row)] \/ rows' = rows
  BY DEF Insert
<1> QED BY <1>1, <1>2, <1>3

\* A text or tool_call chunk is counted within its bound.
LEMMA ChunkCounted ==
  ASSUME TypeInv, NEW r \in Requests, got[r].data < MaxChunks,
         got' = [got EXCEPT ![r].data = @ + 1]
  PROVE  got' \in [Requests -> [data : 0..MaxChunks, reports : 0..UsageReports]]
<1>1. got[r] \in [data : 0..MaxChunks, reports : 0..UsageReports]
  BY DEF TypeInv, TypeOK
<1>2. got[r].data + 1 \in 0..MaxChunks
  BY <1>1, PipelineAssumption
<1>3. [got[r] EXCEPT !.data = got[r].data + 1] \in [data : 0..MaxChunks, reports : 0..UsageReports]
  BY <1>1, <1>2
<1>4. got' = [got EXCEPT ![r] = [got[r] EXCEPT !.data = got[r].data + 1]]
  OBVIOUS
<1> QED BY <1>3, <1>4 DEF TypeInv, TypeOK

LEMMA TypeStep == TypeInv /\ [Next]_vars => TypeInv'
<1> SUFFICES ASSUME TypeInv, [Next]_vars PROVE TypeInv'
  OBVIOUS
<1> USE PipelineAssumption
<1>1. ASSUME NEW r \in Requests, Execute(r) PROVE TypeInv'
  BY <1>1 DEF Execute, Goto, TypeInv, TypeOK, LongEnough, WithSystem, Stages, reqVars, chanVars, dbVars
<1>2. ASSUME NEW r \in Requests, ResolveSession(r) PROVE TypeInv'
  BY <1>2 DEF ResolveSession, Goto, TypeInv, TypeOK, LongEnough, WithSystem, Stages, reqVars, chanVars, dbVars
<1>3. ASSUME NEW r \in Requests, StartCompaction(r) PROVE TypeInv'
  BY <1>3 DEF StartCompaction, Goto, TypeInv, TypeOK, LongEnough, WithSystem, Stages, reqVars, chanVars, dbVars
<1>4. ASSUME NEW r \in Requests, RecvError(r) PROVE TypeInv'
  BY <1>4 DEF RecvError, Goto, TypeInv, TypeOK, LongEnough, WithSystem, Stages, reqVars, chanVars, dbVars
<1>5. ASSUME NEW r \in Requests, StreamEnd(r) PROVE TypeInv'
  BY <1>5 DEF StreamEnd, Goto, TypeInv, TypeOK, LongEnough, WithSystem, Stages, reqVars, chanVars, dbVars
<1>6. ASSUME NEW r \in Requests, LeaveToolLoop(r) PROVE TypeInv'
  BY <1>6 DEF LeaveToolLoop, Goto, TypeInv, TypeOK, LongEnough, WithSystem, Stages, reqVars, chanVars, dbVars
<1>7. ASSUME NEW r \in Requests, CloseOutput(r) PROVE TypeInv'
  BY <1>7 DEF CloseOutput, Goto, TypeInv, TypeOK, LongEnough, WithSystem, Stages, reqVars, chanVars, dbVars
<1>8. ASSUME NEW r \in Requests, Cancel(r) PROVE TypeInv'
  BY <1>8 DEF Cancel, Goto, TypeInv, TypeOK, LongEnough, WithSystem, Stages, reqVars, chanVars, dbVars
<1>9. ASSUME NEW r \in Requests, BuildPrompt(r) PROVE TypeInv'
  <2>1. KeyOf[r] \in Keys /\ \A role \in ClientRoles : Plain(role, r) \in Message
    BY PlainType
  <2>2. \A role \in ClientRoles : Append(History(KeyOf[r]), Plain(role, r)) \in Seq(Message)
    BY <2>1, HistoryType DEF TypeInv
  <2>3. \A role \in ClientRoles : <<Plain(role, r)>> \in Seq(Message)
    BY <2>1
  <2>4. PICK m \in Seq(Message) : msgs' = [msgs EXCEPT ![r] = m]
    BY <1>9, <2>2, <2>3 DEF BuildPrompt
  <2>5. PICK b \in BOOLEAN : sys' = [sys EXCEPT ![r] = b]
    BY <1>9 DEF BuildPrompt
  <2>6. pc' = [pc EXCEPT ![r] = "llm_invoker"]
    BY <1>9 DEF BuildPrompt, Goto
  <2>7. LongEnough'
    BY <2>4, <2>5, <2>6 DEF TypeInv, TypeOK, LongEnough, WithSystem
  <2> QED BY <1>9, <2>4, <2>5, <2>6, <2>7
    DEF BuildPrompt, TypeInv, TypeOK, Stages, chanVars, dbVars
<1>10. ASSUME NEW r \in Requests, InvokeLLM(r) PROVE TypeInv'
  <2>1. WithSystem(r, msgs[r]) \in Seq(Message)
    BY WithSystemType DEF TypeInv, TypeOK
  <2>2. OpenStream(r, "llm_invoker", WithSystem(r, msgs[r]), "llm_stream")
    BY <1>10 DEF InvokeLLM
  <2> QED BY <1>10, <2>1, <2>2, OpenStreamType
    DEF InvokeLLM, TypeInv, TypeOK, LongEnough, WithSystem, chanVars, dbVars
<1>11. ASSUME NEW r \in Requests, Summarized(r) PROVE TypeInv'
  <2> DEFINE all == WithSystem(r, msgs[r])
  <2>1. all \in Seq(Message)
    BY WithSystemType DEF TypeInv, TypeOK
  <2>2. pc[r] = "compacting"
    BY <1>11 DEF Summarized, OpenStream, Goto
  <2>3. Compacted(all, r) \in Seq(Message)
    BY <2>1, <2>2, CompactedType DEF TypeInv, LongEnough
  <2>4. \E m \in Seq(Message) : OpenStream(r, "compacting", m, "llm_stream")
    BY <1>11, <2>1, <2>3 DEF Summarized
  <2>5. UNCHANGED <<cancelled, msgs, sys, calls, results, usage, iter, out, delivered,
                    rows, tokens, extracted, spent>>
    BY <1>11 DEF Summarized, chanVars, dbVars
  <2>6. /\ pc' \in [Requests -> Stages] /\ sent' \in [Requests -> Seq(Message)]
        /\ got' \in [Requests -> [data : 0..MaxChunks, reports : 0..UsageReports]]
        /\ content' \in [Requests -> Nat]
        /\ \A q \in Requests : pc'[q] = "compacting" => pc[q] = "compacting"
    BY <2>4, OpenStreamType DEF TypeInv
  <2>7. LongEnough'
    BY <2>5, <2>6 DEF TypeInv, LongEnough, WithSystem
  <2> QED BY <2>5, <2>6, <2>7 DEF TypeInv, TypeOK
<1>12. ASSUME NEW r \in Requests, RecvText(r) PROVE TypeInv'
  <2>1. content' \in [Requests -> Nat]
    <3>1. content \in [Requests -> Nat]
      BY DEF TypeInv, TypeOK
    <3>2. content' = [content EXCEPT ![r] = content[r] + 1]
      BY <1>12 DEF RecvText, TextSoFar
    <3> QED BY <3>1, <3>2
  <2>2. got' \in [Requests -> [data : 0..MaxChunks, reports : 0..UsageReports]]
    BY <1>12, ChunkCounted DEF RecvText
  <2>3. out' \in [Requests -> Seq(Chunks)] /\ \A q \in Requests : Len(out'[q]) <= ChanCap
    BY <1>12, EmitType DEF RecvText, Chunks
  <2>4. pc' \in [Requests -> Stages]
    BY <1>12 DEF RecvText, Goto, TypeInv, TypeOK, Stages
  <2>5. LongEnough'
    BY <1>12 DEF RecvText, Goto, TypeInv, TypeOK, LongEnough, WithSystem, reqVars
  <2> QED BY <1>12, <2>1, <2>2, <2>3, <2>4, <2>5
    DEF RecvText, Emit, TypeInv, TypeOK, reqVars, chanVars, dbVars
<1>13. ASSUME NEW r \in Requests, RecvToolCall(r) PROVE TypeInv'
  <2>1. calls' \in [Requests -> Seq(Tools)]
    BY <1>13 DEF RecvToolCall, TypeInv, TypeOK
  <2>2. got' \in [Requests -> [data : 0..MaxChunks, reports : 0..UsageReports]]
    BY <1>13, ChunkCounted DEF RecvToolCall
  <2>3. pc' \in [Requests -> Stages]
    BY <1>13 DEF RecvToolCall, Goto, TypeInv, TypeOK, Stages
  <2>4. LongEnough'
    BY <1>13 DEF RecvToolCall, Goto, TypeInv, TypeOK, LongEnough, WithSystem, reqVars
  <2>5. UNCHANGED <<cancelled, msgs, sys, sent, results, content, usage, iter, out,
                    delivered, rows, tokens, extracted, spent>>
    BY <1>13 DEF RecvToolCall, chanVars, dbVars
  <2> QED BY <2>1, <2>2, <2>3, <2>4, <2>5 DEF TypeInv, TypeOK
<1>14. ASSUME NEW r \in Requests, RecvUsage(r) PROVE TypeInv'
  <2>1. got[r].reports + 1 \in 0..UsageReports
    <3>1. got[r] \in [data : 0..MaxChunks, reports : 0..UsageReports]
      BY DEF TypeInv, TypeOK
    <3>2. got[r].reports < UsageReports
      BY <1>14 DEF RecvUsage
    <3> QED BY <3>1, <3>2, PipelineAssumption
  <2>2. got' \in [Requests -> [data : 0..MaxChunks, reports : 0..UsageReports]]
    <3>1. got[r] \in [data : 0..MaxChunks, reports : 0..UsageReports]
      BY DEF TypeInv, TypeOK
    <3>2. [got[r] EXCEPT !.reports = got[r].reports + 1]
            \in [data : 0..MaxChunks, reports : 0..UsageReports]
      BY <2>1, <3>1
    <3>3. got' = [got EXCEPT ![r] = [got[r] EXCEPT !.reports = got[r].reports + 1]]
      BY <1>14 DEF RecvUsage
    <3> QED BY <3>2, <3>3 DEF TypeInv, TypeOK
  <2>3. usage' \in [Requests -> Nat] /\ spent' \in [Requests -> Nat]
    <3>1. UsageWith(r, got[r].reports + 1) \in Nat /\ spent[r] + 1 \in Nat
      <4>1. got[r].reports + 1 \in Nat /\ usage[r] \in Nat /\ spent[r] \in Nat
        BY <2>1 DEF TypeInv, TypeOK
      <4> QED BY <4>1 DEF UsageWith
    <3>2. /\ usage' = [usage EXCEPT ![r] = UsageWith(r, got[r].reports + 1)]
          /\ spent' = [spent EXCEPT ![r] = spent[r] + 1]
      BY <1>14 DEF RecvUsage
    <3> QED BY <3>1, <3>2 DEF TypeInv, TypeOK
  <2>4. pc' \in [Requests -> Stages]
    BY <1>14 DEF RecvUsage, Goto, TypeInv, TypeOK, Stages
  <2>5. LongEnough'
    BY <1>14 DEF RecvUsage, Goto, TypeInv, TypeOK, LongEnough, WithSystem, reqVars
  <2>6. UNCHANGED <<cancelled, msgs, sys, sent, calls, results, content, iter, out,
                    delivered, rows, tokens, extracted>>
    BY <1>14 DEF RecvUsage, chanVars, dbVars
  <2> QED BY <2>1, <2>2, <2>3, <2>4, <2>5, <2>6 DEF TypeInv, TypeOK
<1>15. ASSUME NEW r \in Requests, BeginIteration(r) PROVE TypeInv'
  <2>1. ToolUseMessage(r) \in Message
    BY <1>15, EmptySeq DEF ToolUseMessage, Message, TypeInv, TypeOK
  <2>2. msgs' \in [Requests -> Seq(Message)]
    BY <1>15, <2>1 DEF BeginIteration, TypeInv, TypeOK
  <2>3. iter' \in [Requests -> 0..MaxIter]
    <3>1. iter \in [Requests -> 0..MaxIter]
      BY DEF TypeInv, TypeOK
    <3>2. iter[r] # MaxIter /\ iter' = [iter EXCEPT ![r] = iter[r] + 1]
      BY <1>15 DEF BeginIteration, LoopEnds
    <3> QED BY <3>1, <3>2, PipelineAssumption
  <2>4. results' \in [Requests -> Seq(Tools)] /\ content' \in [Requests -> Nat]
    BY <1>15, EmptySeq DEF BeginIteration, TypeInv, TypeOK
  <2>5. pc' \in [Requests -> Stages]
    BY <1>15 DEF BeginIteration, Goto, TypeInv, TypeOK, Stages
  <2>6. LongEnough'
    BY <1>15 DEF BeginIteration, Goto, TypeInv, TypeOK, LongEnough, WithSystem, reqVars
  <2> QED BY <1>15, <2>1, <2>2, <2>3, <2>4, <2>5, <2>6
    DEF BeginIteration, TypeInv, TypeOK, reqVars, chanVars, dbVars
<1>16. ASSUME NEW r \in Requests, ExecuteTool(r) PROVE TypeInv'
  <2>1. results' \in [Requests -> Seq(Tools)]
    BY <1>16 DEF ExecuteTool, TypeInv, TypeOK
  <2>2. out' \in [Requests -> Seq(Chunks)] /\ \A q \in Requests : Len(out'[q]) <= ChanCap
    BY <1>16, EmitType DEF ExecuteTool, Chunks
  <2>3. pc' \in [Requests -> Stages]
    BY <1>16 DEF ExecuteTool, Goto, TypeInv, TypeOK, Stages
  <2>4. LongEnough'
    BY <1>16 DEF ExecuteTool, Goto, TypeInv, TypeOK, LongEnough, WithSystem, reqVars
  <2> QED BY <1>16, <2>1, <2>2, <2>3, <2>4
    DEF ExecuteTool, Emit, TypeInv, TypeOK, reqVars, chanVars, dbVars
<1>17. ASSUME NEW r \in Requests, ReturnResults(r) PROVE TypeInv'
  <2> DEFINE m == Append(msgs[r], [role |-> "tool", turn |-> r,
                                   calls |-> <<>>, results |-> results[r]])
  <2>1. m \in Seq(Message)
    <3>1. [role |-> "tool", turn |-> r, calls |-> <<>>, results |-> results[r]] \in Message
      BY EmptySeq DEF TypeInv, TypeOK, Message
    <3> QED BY <3>1 DEF TypeInv, TypeOK
  <2>2. OpenStream(r, "executing", WithSystem(r, m), "loop_stream")
    BY <1>17 DEF ReturnResults
  <2>3. WithSystem(r, m) \in Seq(Message)
    BY <2>1, WithSystemType
  <2>4. msgs' \in [Requests -> Seq(Message)] /\ calls' \in [Requests -> Seq(Tools)]
    BY <1>17, <2>1, EmptySeq DEF ReturnResults, TypeInv, TypeOK
  <2>5. \A q \in Requests : pc'[q] = "compacting" => q # r /\ pc[q] = "compacting"
    BY <2>2, <2>3, OpenStreamType
  <2>6. LongEnough'
    BY <1>17, <2>5 DEF ReturnResults, TypeInv, TypeOK, LongEnough, WithSystem
  <2> QED BY <1>17, <2>2, <2>3, <2>4, <2>6, OpenStreamType
    DEF ReturnResults, TypeInv, TypeOK, chanVars, dbVars
<1>18. ASSUME NEW r \in Requests, SendDone(r) PROVE TypeInv'
  <2>1. out' \in [Requests -> Seq(Chunks)] /\ \A q \in Requests : Len(out'[q]) <= ChanCap
    BY <1>18, EmitType DEF SendDone, Chunks
  <2>2. pc' \in [Requests -> Stages]
    BY <1>18 DEF SendDone, Goto, TypeInv, TypeOK, Stages
  <2>3. LongEnough'
    BY <1>18 DEF SendDone, Goto, TypeInv, TypeOK, LongEnough, WithSystem, reqVars
  <2> QED BY <1>18, <2>1, <2>2, <2>3
    DEF SendDone, Emit, TypeInv, TypeOK, reqVars, chanVars, dbVars
<1>19. ASSUME NEW r \in Requests, SendError(r) PROVE TypeInv'
  <2>1. out' \in [Requests -> Seq(Chunks)] /\ \A q \in Requests : Len(out'[q]) <= ChanCap
    BY <1>19, EmitType DEF SendError, Chunks
  <2>2. pc' \in [Requests -> Stages]
    BY <1>19 DEF SendError, Goto, TypeInv, TypeOK, Stages
  <2>3. LongEnough'
    BY <1>19 DEF SendError, Goto, TypeInv, TypeOK, LongEnough, WithSystem, reqVars
  <2> QED BY <1>19, <2>1, <2>2, <2>3
    DEF SendError, Emit, TypeInv, TypeOK, reqVars, chanVars, dbVars
<1>20. ASSUME NEW r \in Requests, PersistUser(r) PROVE TypeInv'
  <2>1. rows' \in [Keys -> Seq(Row)]
    <3>1. [role |-> "user", turn |-> r, text |-> 1] \in Row
      BY DEF Row
    <3> QED BY <1>20, <3>1, InsertType DEF PersistUser
  <2>2. pc' \in [Requests -> Stages]
    BY <1>20 DEF PersistUser, Goto, TypeInv, TypeOK, Stages
  <2>3. LongEnough'
    BY <1>20 DEF PersistUser, Goto, TypeInv, TypeOK, LongEnough, WithSystem, reqVars
  <2> QED BY <1>20, <2>1, <2>2, <2>3
    DEF PersistUser, TypeInv, TypeOK, reqVars, chanVars, dbVars
<1>21. ASSUME NEW r \in Requests, PersistAssistant(r) PROVE TypeInv'
  <2>1. rows' \in [Keys -> Seq(Row)]
    <3>1. [role |-> "assistant", turn |-> r, text |-> content[r]] \in Row
      BY DEF Row, TypeInv, TypeOK
    <3> QED BY <1>21, <3>1, InsertType DEF PersistAssistant, TypeInv, TypeOK
  <2>2. pc' \in [Requests -> Stages]
    BY <1>21 DEF PersistAssistant, Goto, TypeInv, TypeOK, Stages
  <2>3. LongEnough'
    BY <1>21 DEF PersistAssistant, Goto, TypeInv, TypeOK, LongEnough, WithSystem, reqVars
  <2> QED BY <1>21, <2>1, <2>2, <2>3
    DEF PersistAssistant, TypeInv, TypeOK, reqVars, chanVars, dbVars
<1>22. ASSUME NEW r \in Requests, UpdateTokens(r) PROVE TypeInv'
  <2>1. tokens' \in [Keys -> Nat]
    <3>0. KeyOf[r] \in Keys /\ tokens \in [Keys -> Nat] /\ usage[r] \in Nat
      BY PipelineAssumption DEF TypeInv, TypeOK
    <3>1. tokens[KeyOf[r]] + usage[r] \in Nat
      BY <3>0
    <3>2. tokens' = [tokens EXCEPT ![KeyOf[r]] = tokens[KeyOf[r]] + usage[r]] \/ tokens' = tokens
      BY <1>22 DEF UpdateTokens
    <3> QED BY <3>0, <3>1, <3>2
  <2>2. extracted' \subseteq Requests
    BY <1>22 DEF UpdateTokens, TypeInv, TypeOK
  <2>3. pc' \in [Requests -> Stages]
    BY <1>22 DEF UpdateTokens, Goto, TypeInv, TypeOK, Stages
  <2>4. LongEnough'
    BY <1>22 DEF UpdateTokens, Goto, TypeInv, TypeOK, LongEnough, WithSystem, reqVars
  <2>5. UNCHANGED <<cancelled, msgs, sys, sent, calls, results, content, usage, iter, got,
                    out, delivered, rows, spent>>
    BY <1>22 DEF UpdateTokens, reqVars, chanVars
  <2> QED BY <2>1, <2>2, <2>3, <2>4, <2>5 DEF TypeInv, TypeOK
<1>23. ASSUME NEW r \in Requests, Consume(r) PROVE TypeInv'
  <2>1. Head(out[r]) \in Chunks /\ Tail(out[r]) \in Seq(Chunks) /\ Len(Tail(out[r])) <= ChanCap
    BY <1>23, HeadTailProperties DEF Consume, TypeInv, TypeOK
  <2>2. delivered' \in [Requests -> Seq(Chunks)]
    BY <1>23, <2>1 DEF Consume, TypeInv, TypeOK
  <2>3. out' \in [Requests -> Seq(Chunks)] /\ \A q \in Requests : Len(out'[q]) <= ChanCap
    BY <1>23, <2>1 DEF Consume, TypeInv, TypeOK
  <2>4. pc' \in [Requests -> Stages]
    BY <1>23 DEF Consume, Goto, TypeInv, TypeOK, Stages
  <2>5. LongEnough'
    BY <1>23 DEF Consume, Goto, TypeInv, TypeOK, LongEnough, WithSystem, reqVars
  <2> QED BY <1>23, <2>1, <2>2, <2>3, <2>4, <2>5
    DEF Consume, TypeInv, TypeOK, reqVars, chanVars, dbVars
<1>24. CASE UNCHANGED vars
  BY <1>24 DEF vars, reqVars, chanVars, dbVars, TypeInv, TypeOK, LongEnough, WithSystem
<1> QED BY <1>1, <1>2, <1>3, <1>4, <1>5, <1>6, <1>7, <1>8, <1>9, <1>10, <1>11, <1>12, <1>13, <1>14, <1>15, <1>16, <1>17, <1>18, <1>19, <1>20, <1>21, <1>22, <1>23, <1>24 DEF Next, Run

\* Every value a run can reach is of its type: no chunk beyond the channel's
\* capacity, no tool iteration beyond maxToolIterations (pipeline.go).
THEOREM TypeCorrect == Spec => []TypeOK
<1>1. Init => TypeInv
  BY TypeInit
<1>2. TypeInv /\ [Next]_vars => TypeInv'
  BY TypeStep
<1>3. TypeInv => TypeOK
  BY DEF TypeInv
<1> QED BY <1>1, <1>2, <1>3, PTL DEF Spec

-----------------------------------------------------------------------------
(* Pairing of tool calls and results *)

\* A conversation without tool use: history, system prompt and question.
Flat(m) == \A i \in 1..Len(m) : m[i].calls = <<>> /\ m[i].results = <<>>

\* A conversation whose last message asks for the calls c, paired up to there.
Asking(m, c) ==
  /\ m # <<>>
  /\ m[Len(m)].calls = c
  /\ m[Len(m)].role = "assistant"
  /\ m[Len(m)].results = <<>>
  /\ Paired(SubSeq(m, 1, Len(m) - 1))

LEMMA FlatPaired ==
  ASSUME NEW m \in Seq(Message), Flat(m)
  PROVE  Paired(m)
BY DEF Flat, Paired

LEMMA FlatSystem ==
  ASSUME NEW r \in Requests, NEW m \in Seq(Message), Flat(m)
  PROVE  Flat(WithSystem(r, m))
<1>1. Plain("system", r) \in Message /\ Plain("system", r).calls = <<>>
      /\ Plain("system", r).results = <<>>
  BY PlainType DEF Plain
<1>2. CASE sys[r]
  <2>1. <<Plain("system", r)>> \in Seq(Message)
    BY <1>1
  <2>2. /\ Len(<<Plain("system", r)>> \o m) = Len(m) + 1
        /\ \A i \in 1..(Len(m) + 1) : (<<Plain("system", r)>> \o m)[i] =
              IF i <= 1 THEN Plain("system", r) ELSE m[i - 1]
    BY <2>1, ConcatProperties
  <2> QED BY <1>1, <1>2, <2>2 DEF WithSystem, Flat
<1>3. CASE ~sys[r]
  BY <1>3 DEF WithSystem
<1> QED BY <1>2, <1>3

LEMMA PairedSystem ==
  ASSUME NEW r \in Requests, NEW m \in Seq(Message), Paired(m)
  PROVE  Paired(WithSystem(r, m))
<1>1. Plain("system", r) \in Message /\ Plain("system", r).calls = <<>>
      /\ Plain("system", r).results = <<>>
  BY PlainType DEF Plain
<1>2. CASE sys[r]
  <2> DEFINE s == <<Plain("system", r)>> \o m
  <2>1. <<Plain("system", r)>> \in Seq(Message)
    BY <1>1
  <2>2. /\ Len(s) = Len(m) + 1
        /\ \A i \in 1..(Len(m) + 1) : s[i] = IF i <= 1 THEN Plain("system", r) ELSE m[i - 1]
    BY <2>1, ConcatProperties
  <2>3. s[1] = Plain("system", r) /\ \A i \in 1..Len(m) : s[i + 1] = m[i]
    BY <2>2
  <2>4. ASSUME NEW i \in 1..Len(s), s[i].calls # <<>>
        PROVE  i < Len(s) /\ s[i + 1].role = "tool" /\ s[i + 1].results = s[i].calls
    <3>1. i - 1 \in 1..Len(m) /\ s[i] = m[i - 1]
      BY <1>1, <2>2, <2>4
    <3>2. i - 1 < Len(m) /\ m[i].role = "tool" /\ m[i].results = m[i - 1].calls
      BY <2>4, <3>1 DEF Paired
    <3> QED BY <2>2, <2>3, <3>1, <3>2
  <2>5. ASSUME NEW i \in 1..Len(s), s[i].results # <<>>
        PROVE  i > 1 /\ s[i - 1].calls # <<>>
    <3>1. i - 1 \in 1..Len(m) /\ s[i] = m[i - 1]
      BY <1>1, <2>2, <2>5
    <3>2. i - 1 > 1 /\ m[i - 2].calls # <<>>
      BY <2>5, <3>1 DEF Paired
    <3> QED BY <2>2, <3>1, <3>2
  <2> QED BY <1>2, <2>4, <2>5 DEF WithSystem, Paired
<1>3. CASE ~sys[r]
  BY <1>3 DEF WithSystem
<1> QED BY <1>2, <1>3

LEMMA CompactedFlat ==
  ASSUME NEW r \in Requests, NEW m \in Seq(Message), Len(m) > 5, Flat(m)
  PROVE  Flat(Compacted(m, r))
<1> DEFINE t == SubSeq(m, Len(m) - 3, Len(m))
           h == <<m[1], Plain("user", r)>>
<1>1. h \in Seq(Message) /\ Len(h) = 2 /\ h[1] = m[1] /\ h[2] = Plain("user", r)
  BY PlainType
<1>2. t \in Seq(Message) /\ Len(t) = 4 /\ \A i \in 1..4 : t[i] = m[Len(m) - 4 + i]
  BY SubSeqProperties, LenProperties
<1>3. /\ Len(h \o t) = 6
      /\ \A i \in 1..6 : (h \o t)[i] = IF i <= 2 THEN h[i] ELSE t[i - 2]
  BY <1>1, <1>2, ConcatProperties
<1>4. Plain("user", r).calls = <<>> /\ Plain("user", r).results = <<>>
  BY DEF Plain
<1>5. ASSUME NEW i \in 1..6 PROVE (h \o t)[i].calls = <<>> /\ (h \o t)[i].results = <<>>
  <2>1. CASE i = 1
    BY <1>1, <1>3, <2>1 DEF Flat
  <2>2. CASE i = 2
    BY <1>1, <1>3, <1>4, <2>2
  <2>3. CASE i > 2
    <3>1. (h \o t)[i] = m[Len(m) - 6 + i]
      BY <1>2, <1>3, <2>3
    <3> QED BY <2>3, <3>1 DEF Flat
  <2> QED BY <2>1, <2>2, <2>3
<1> QED BY <1>3, <1>5 DEF Compacted, Flat

\* The request's message closes a flat prompt.
LEMMA FlatPrompt ==
  ASSUME TypeOK, NEW r \in Requests, NEW role \in ClientRoles
  PROVE  /\ Flat(Append(History(KeyOf[r]), Plain(role, r)))
         /\ Flat(<<Plain(role, r)>>)
<1> DEFINE h == History(KeyOf[r])
<1>1. KeyOf[r] \in Keys
  BY PipelineAssumption
<1>2. h \in Seq(Message)
  BY <1>1, HistoryType
<1>3. rows[KeyOf[r]] \in Seq(Row)
  BY <1>1 DEF TypeOK
<1>4. Plain(role, r).calls = <<>> /\ Plain(role, r).results = <<>>
      /\ Plain(role, r) \in Message
  BY PlainType DEF Plain
<1>5. ASSUME NEW i \in 1..Len(h)
      PROVE  h[i].calls = <<>> /\ h[i].results = <<>> /\ h[i].role # "tool"
  <2> DEFINE n == IF Len(rows[KeyOf[r]]) < HistoryLimit
                    THEN Len(rows[KeyOf[r]]) ELSE HistoryLimit
  <2>1. n \in Nat /\ n <= Len(rows[KeyOf[r]]) /\ DOMAIN h = 1..n
    BY <1>3, PipelineAssumption DEF History
  <2>2. i \in 1..n
    BY <1>2, <2>1, LenProperties
  <2>3. rows[KeyOf[r]][i] \in Row /\ h[i] = Plain(rows[KeyOf[r]][i].role, rows[KeyOf[r]][i].turn)
    BY <1>3, <2>1, <2>2 DEF History
  <2> QED BY <2>3 DEF Plain, Row
<1>6. Flat(Append(h, Plain(role, r)))
  BY <1>2, <1>4, <1>5 DEF Flat
<1> QED BY <1>4, <1>6 DEF Flat

\* One assistant message for all the tool_use blocks of an iteration.
LEMMA AskingAfterUse ==
  ASSUME TypeOK, NEW r \in Requests, Paired(msgs[r])
  PROVE  Asking(Append(msgs[r], ToolUseMessage(r)), calls[r])
<1>1. ToolUseMessage(r) \in Message
  BY EmptySeq DEF ToolUseMessage, Message, TypeOK
<1> DEFINE a == Append(msgs[r], ToolUseMessage(r))
<1>2. msgs[r] \in Seq(Message)
  BY DEF TypeOK
<1>3. a # <<>> /\ Len(a) = Len(msgs[r]) + 1 /\ a[Len(a)] = ToolUseMessage(r)
  BY <1>1, <1>2, AppendProperties
<1>4. SubSeq(a, 1, Len(a) - 1) = msgs[r]
  BY <1>1, <1>2, <1>3
<1>5. ToolUseMessage(r).calls = calls[r] /\ ToolUseMessage(r).role = "assistant"
      /\ ToolUseMessage(r).results = <<>>
  BY DEF ToolUseMessage
<1> QED BY <1>3, <1>4, <1>5 DEF Asking

\* One tool message that answers them all closes the iteration.
LEMMA PairedAfterResults ==
  ASSUME NEW m \in Seq(Message), NEW c, c # <<>>, Asking(m, c),
         NEW t \in Message, t.role = "tool", t.calls = <<>>, t.results = c
  PROVE  Paired(Append(m, t))
<1> DEFINE a == Append(m, t)
           p == SubSeq(m, 1, Len(m) - 1)
<1>1. a \in Seq(Message) /\ Len(a) = Len(m) + 1 /\ a[Len(m) + 1] = t
      /\ \A i \in 1..Len(m) : a[i] = m[i]
  BY AppendProperties
<1>2. Len(m) \in Nat \ {0}
  BY EmptySeq DEF Asking
<1>3. p \in Seq(Message) /\ Len(p) = Len(m) - 1 /\ \A i \in 1..(Len(m) - 1) : p[i] = m[i]
  <2>1. \A i \in 1..(Len(m) - 1) : m[i] \in Message
    BY <1>2, ElementOfSeq
  <2> HIDE DEF p
  <2>2. /\ p \in Seq(Message)
        /\ Len(p) = IF 1 <= Len(m) - 1 THEN Len(m) - 1 - 1 + 1 ELSE 0
        /\ \A i \in 1..(Len(m) - 1 - 1 + 1) : p[i] = m[1 + i - 1]
    BY <1>2, <2>1, SubSeqProperties DEF p
  <2>3. Len(p) = Len(m) - 1
    <3>1. \A x \in Nat \ {0} : (IF 1 <= x - 1 THEN x - 1 - 1 + 1 ELSE 0) = x - 1
      OBVIOUS
    <3> QED BY <1>2, <2>2, <3>1
  <2>4. ASSUME NEW i \in 1..(Len(m) - 1) PROVE p[i] = m[i]
    <3>1. i \in 1..(Len(m) - 1 - 1 + 1) /\ 1 + i - 1 = i
      BY <1>2
    <3> QED BY <2>2, <3>1
  <2> QED BY <2>2, <2>3, <2>4
<1>4. Paired(p) /\ m[Len(m)].calls = c /\ m[Len(m)].role = "assistant" /\ m[Len(m)].results = <<>>
  BY DEF Asking
<1>5. ASSUME NEW i \in 1..Len(a), a[i].calls # <<>>
      PROVE  /\ a[i].role = "assistant"
             /\ i < Len(a) /\ a[i + 1].role = "tool" /\ a[i + 1].results = a[i].calls
  <2>1. CASE i = Len(m) + 1
    BY <1>1, <1>5, <2>1
  <2>2. CASE i = Len(m)
    BY <1>1, <1>2, <1>4, <2>2
  <2>3. CASE i < Len(m)
    <3>1. i \in 1..Len(p) /\ p[i] = a[i]
      BY <1>1, <1>2, <1>3, <2>3
    <3>2. /\ p[i].role = "assistant"
          /\ i < Len(p) /\ p[i + 1].role = "tool" /\ p[i + 1].results = p[i].calls
      BY <1>4, <1>5, <3>1 DEF Paired
    <3>3. p[i + 1] = a[i + 1]
      BY <1>1, <1>2, <1>3, <3>2
    <3> QED BY <1>1, <2>3, <3>1, <3>2, <3>3
  <2> QED BY <1>1, <1>2, <2>1, <2>2, <2>3
<1>6. ASSUME NEW i \in 1..Len(a), a[i].results # <<>>
      PROVE  i > 1 /\ a[i - 1].calls # <<>>
  <2>1. CASE i = Len(m) + 1
    BY <1>1, <1>2, <1>4, <2>1
  <2>2. CASE i = Len(m)
    BY <1>1, <1>2, <1>4, <1>6, <2>2
  <2>3. CASE i < Len(m)
    <3>1. i \in 1..Len(p) /\ p[i] = a[i]
      BY <1>1, <1>2, <1>3, <2>3
    <3>2. i > 1 /\ p[i - 1].calls # <<>>
      BY <1>4, <1>6, <3>1 DEF Paired
    <3>3. p[i - 1] = a[i - 1]
      BY <1>1, <1>2, <1>3, <2>3, <3>2
    <3> QED BY <3>2, <3>3
  <2> QED BY <1>1, <1>2, <2>1, <2>2, <2>3
<1> QED BY <1>5, <1>6 DEF Paired

\* ToolUsePaired is not inductive: the next LLM request is req.Messages, which is
\* paired except while the tools run; until the first request it is flat, so that
\* compaction cannot cut a pair apart; the results answer a prefix of the calls.
PairInvOf(r) ==
  /\ Paired(sent[r])
  /\ pc[r] \in {"llm_invoker", "compacting"} => Flat(msgs[r])
  /\ pc[r] # "executing" => Paired(msgs[r])
  /\ pc[r] = "executing" =>
       /\ calls[r] # <<>> /\ Asking(msgs[r], calls[r])
       /\ Len(results[r]) <= Len(calls[r])
       /\ \A i \in 1..Len(results[r]) : results[r][i] = calls[r][i]

PairInv == \A r \in Requests : PairInvOf(r)

\* Lists that stay the same stay paired.
LEMMA PairedSame ==
  ASSUME NEW r \in Requests, UNCHANGED <<msgs[r], sent[r]>>
  PROVE  /\ Paired(sent[r])' <=> Paired(sent[r])
         /\ Paired(msgs[r])' <=> Paired(msgs[r])
         /\ Flat(msgs[r])' <=> Flat(msgs[r])
<1>1. Paired(sent[r])' <=> Paired(sent[r])
  BY DEF Paired
<1>2. Paired(msgs[r])' <=> Paired(msgs[r])
  BY DEF Paired
<1>3. Flat(msgs[r])' <=> Flat(msgs[r])
  BY DEF Flat
<1> QED BY <1>1, <1>2, <1>3

\* A step has to show it of the request that takes it; the others keep theirs.
LEMMA PairOthers ==
  ASSUME PairInv, NEW r \in Requests, PairInvOf(r)',
         \A q \in Requests \ {r} : UNCHANGED <<pc[q], msgs[q], sent[q], calls[q], results[q]>>
  PROVE  PairInv'
BY DEF PairInv, PairInvOf

\* A stream is opened with a paired request, or the turn fails.
LEMMA PairOpenStream ==
  ASSUME TypeOK, PairInv, NEW r \in Requests, NEW from, NEW m, Paired(m),
         NEW stream \in {"llm_stream", "loop_stream"}, OpenStream(r, from, m, stream)
  PROVE  /\ Paired(sent[r])'
         /\ pc'[r] \in {"llm_stream", "loop_stream", "failed"}
         /\ \A q \in Requests \ {r} : UNCHANGED <<pc[q], sent[q]>>
<1>1. pc' = [pc EXCEPT ![r] = stream] \/ pc' = [pc EXCEPT ![r] = "failed"]
  BY DEF OpenStream, Goto
<1>2. sent' = [sent EXCEPT ![r] = m] \/ sent' = sent
  BY DEF OpenStream
<1>3. sent'[r] = m \/ sent'[r] = sent[r]
  BY <1>2 DEF TypeOK
<1>4. Paired(sent'[r])
  BY <1>3 DEF PairInv, PairInvOf
<1>5. Paired(sent[r])'
  BY <1>4 DEF Paired
<1>6. pc'[r] \in {"llm_stream", "loop_stream", "failed"}
  BY <1>1 DEF TypeOK
<1>7. \A q \in Requests \ {r} : UNCHANGED <<pc[q], sent[q]>>
  BY <1>1, <1>2 DEF TypeOK
<1> QED BY <1>5, <1>6, <1>7

LEMMA PairStep == TypeInv /\ PairInv /\ [Next]_vars => PairInv'
<1> SUFFICES ASSUME TypeInv, PairInv, [Next]_vars PROVE PairInv'
  OBVIOUS
<1>0. TypeOK
  BY DEF TypeInv
<1>1. ASSUME NEW r \in Requests, BuildPrompt(r) PROVE PairInv'
  <2>1. PICK m : msgs' = [msgs EXCEPT ![r] = m] /\ m \in Seq(Message) /\ Flat(m)
    <3>1. \A role \in ClientRoles :
            /\ Append(History(KeyOf[r]), Plain(role, r)) \in Seq(Message)
            /\ <<Plain(role, r)>> \in Seq(Message)
      BY <1>0, HistoryType, PlainType, PipelineAssumption
    <3> QED BY <1>0, <1>1, <3>1, FlatPrompt DEF BuildPrompt
  <2>2. Paired(m)
    BY <2>1, FlatPaired
  <2>3. pc'[r] = "llm_invoker" /\ msgs'[r] = m
    BY <1>0, <1>1, <2>1 DEF BuildPrompt, Goto, TypeOK
  <2>4. UNCHANGED <<sent, calls, results>>
    BY <1>1 DEF BuildPrompt
  <2>5. PairInvOf(r)'
    BY <2>1, <2>2, <2>3, <2>4 DEF PairInv, PairInvOf, Flat, Paired
  <2> QED BY <1>0, <1>1, <2>1, <2>5, PairOthers DEF BuildPrompt, Goto, TypeOK
<1>2. ASSUME NEW r \in Requests, InvokeLLM(r) PROVE PairInv'
  <2> DEFINE m == WithSystem(r, msgs[r])
  <2>1. Paired(msgs[r]) /\ OpenStream(r, "llm_invoker", m, "llm_stream")
    BY <1>2 DEF InvokeLLM, OpenStream, Goto, PairInv, PairInvOf
  <2>2. Paired(m)
    BY <1>0, <2>1, PairedSystem DEF TypeOK
  <2>3. /\ Paired(sent[r])' /\ pc'[r] \in {"llm_stream", "loop_stream", "failed"}
        /\ \A q \in Requests \ {r} : UNCHANGED <<pc[q], sent[q]>>
    BY <1>0, <2>1, <2>2, PairOpenStream
  <2>4. UNCHANGED <<msgs, calls, results>>
    BY <1>2 DEF InvokeLLM
  <2>5. PairInvOf(r)'
    BY <2>1, <2>3, <2>4 DEF PairInvOf, Paired
  <2> QED BY <2>3, <2>4, <2>5, PairOthers
<1>3. ASSUME NEW r \in Requests, Summarized(r) PROVE PairInv'
  <2> DEFINE all == WithSystem(r, msgs[r])
  <2>1. pc[r] = "compacting"
    BY <1>3 DEF Summarized, OpenStream, Goto
  <2>2. Flat(msgs[r]) /\ Paired(msgs[r])
    BY <2>1 DEF PairInv, PairInvOf
  <2>3. all \in Seq(Message) /\ Flat(all) /\ Len(all) > 5
    BY <1>0, <2>1, <2>2, FlatSystem, WithSystemType DEF TypeInv, TypeOK, LongEnough
  <2>4. Paired(all) /\ Paired(Compacted(all, r))
    BY <2>3, FlatPaired, CompactedFlat, CompactedType
  <2>5. PICK m : Paired(m) /\ OpenStream(r, "compacting", m, "llm_stream")
    BY <1>3, <2>4 DEF Summarized
  <2>6. /\ Paired(sent[r])' /\ pc'[r] \in {"llm_stream", "loop_stream", "failed"}
        /\ \A q \in Requests \ {r} : UNCHANGED <<pc[q], sent[q]>>
    BY <1>0, <2>5, PairOpenStream
  <2>7. UNCHANGED <<msgs, calls, results>>
    BY <1>3 DEF Summarized
  <2>8. PairInvOf(r)'
    BY <2>2, <2>6, <2>7 DEF PairInvOf, Paired
  <2> QED BY <2>6, <2>7, <2>8, PairOthers
<1>4. ASSUME NEW r \in Requests, BeginIteration(r) PROVE PairInv'
  <2>1. pc[r] = "tool_executor" /\ calls[r] # <<>>
    BY <1>4 DEF BeginIteration, LoopEnds, Goto
  <2>2. Asking(Append(msgs[r], ToolUseMessage(r)), calls[r])
    BY <1>0, <2>1, AskingAfterUse DEF PairInv, PairInvOf
  <2>3. /\ pc'[r] = "executing" /\ results'[r] = <<>>
        /\ msgs'[r] = Append(msgs[r], ToolUseMessage(r))
    BY <1>0, <1>4 DEF BeginIteration, Goto, TypeOK
  <2>4. UNCHANGED <<sent, calls>>
    BY <1>4 DEF BeginIteration
  <2>5. Asking(msgs'[r], calls'[r])
    BY <2>2, <2>3, <2>4
  <2>6. Len(results'[r]) = 0 /\ Len(calls'[r]) \in Nat
    BY <1>0, <2>3, <2>4, EmptySeq, LenProperties DEF TypeOK
  <2>7. PairInvOf(r)'
    <3>1. Asking(msgs[r], calls[r])'
      BY <2>5 DEF Asking, Paired
    <3>2. Paired(sent[r])'
      BY <2>4 DEF PairInv, PairInvOf, Paired
    <3> QED BY <2>1, <2>3, <2>4, <2>6, <3>1, <3>2 DEF PairInvOf
  <2> QED BY <1>0, <1>4, <2>7, PairOthers DEF BeginIteration, Goto, TypeOK
<1>5. ASSUME NEW r \in Requests, ExecuteTool(r) PROVE PairInv'
  <2>1. pc[r] = "executing" /\ Len(results[r]) < Len(calls[r])
    BY <1>5 DEF ExecuteTool
  <2>2. /\ results[r] \in Seq(Tools) /\ calls[r] \in Seq(Tools)
        /\ Len(results[r]) \in Nat /\ Len(calls[r]) \in Nat
    BY <1>0 DEF TypeOK
  <2>3. results'[r] = Append(results[r], calls[r][Len(results[r]) + 1])
    BY <1>0, <1>5 DEF ExecuteTool, TypeOK
  <2>4. calls[r][Len(results[r]) + 1] \in Tools
    BY <2>1, <2>2, ElementOfSeq
  <2>5. /\ Len(results'[r]) = Len(results[r]) + 1
        /\ \A i \in 1..Len(results'[r]) : results'[r][i] = calls[r][i]
    BY <2>1, <2>2, <2>3, <2>4 DEF PairInv, PairInvOf
  <2>6. UNCHANGED <<pc, msgs, sent, calls>>
    BY <1>5 DEF ExecuteTool
  <2>7. PairInvOf(r)'
    <3>1. Asking(msgs[r], calls[r])' <=> Asking(msgs[r], calls[r])
      BY <2>6 DEF Asking, Paired
    <3> QED BY <2>1, <2>2, <2>5, <2>6, <3>1, PairedSame DEF PairInv, PairInvOf
  <2> QED BY <1>0, <1>5, <2>6, <2>7, PairOthers DEF ExecuteTool, TypeOK
<1>6. ASSUME NEW r \in Requests, ReturnResults(r) PROVE PairInv'
  <2> DEFINE t == [role |-> "tool", turn |-> r, calls |-> <<>>, results |-> results[r]]
             m == Append(msgs[r], t)
  <2>1. pc[r] = "executing" /\ Len(results[r]) = Len(calls[r])
    BY <1>6 DEF ReturnResults
  <2>2. results[r] \in Seq(Tools) /\ calls[r] \in Seq(Tools) /\ msgs[r] \in Seq(Message)
    BY <1>0 DEF TypeOK
  <2>3. calls[r] # <<>> /\ Asking(msgs[r], calls[r]) /\ results[r] = calls[r]
    BY <2>1, <2>2, SeqEqual DEF PairInv, PairInvOf
  <2>4. t \in Message
    BY <2>2, EmptySeq DEF Message
  <2>5. m \in Seq(Message) /\ Paired(m)
    BY <2>2, <2>3, <2>4, PairedAfterResults
  <2>6. Paired(WithSystem(r, m)) /\ OpenStream(r, "executing", WithSystem(r, m), "loop_stream")
    BY <1>6, <2>5, PairedSystem DEF ReturnResults
  <2>7. /\ Paired(sent[r])' /\ pc'[r] \in {"llm_stream", "loop_stream", "failed"}
        /\ \A q \in Requests \ {r} : UNCHANGED <<pc[q], sent[q]>>
    BY <1>0, <2>6, PairOpenStream
  <2>8. msgs' = [msgs EXCEPT ![r] = m] /\ calls' = [calls EXCEPT ![r] = <<>>] /\ UNCHANGED results
    BY <1>6 DEF ReturnResults
  <2>9. msgs'[r] = m
    BY <1>0, <2>8 DEF TypeOK
  <2>10. PairInvOf(r)'
    BY <2>5, <2>7, <2>9 DEF PairInvOf, Paired
  <2> QED BY <1>0, <2>7, <2>8, <2>10, PairOthers DEF TypeOK
<1>7. ASSUME NEW r \in Requests, RecvToolCall(r) PROVE PairInv'
  <2>1. pc[r] \in {"llm_stream", "loop_stream"}
    BY <1>7 DEF RecvToolCall, Streaming
  <2>2. UNCHANGED <<pc, msgs, sent, results>>
    BY <1>7 DEF RecvToolCall
  <2>3. \A q \in Requests \ {r} : UNCHANGED calls[q]
    BY <1>0, <1>7 DEF RecvToolCall, TypeOK
  <2>4. PairInvOf(r)'
    BY <2>1, <2>2 DEF PairInv, PairInvOf, Paired
  <2> QED BY <2>2, <2>3, <2>4, PairOthers
<1>8. ASSUME NEW r \in Requests, StartCompaction(r) PROVE PairInv'
  <2>1. pc[r] = "llm_invoker" /\ pc' = [pc EXCEPT ![r] = "compacting"]
    BY <1>8 DEF StartCompaction, Goto
  <2>2. UNCHANGED <<msgs, sent, calls, results>>
    BY <1>8 DEF StartCompaction, reqVars
  <2>3. PairInvOf(r)'
    BY <1>0, <2>1, <2>2, PairedSame DEF TypeOK, PairInv, PairInvOf
  <2> QED BY <1>0, <2>1, <2>2, <2>3, PairOthers DEF TypeOK
<1>9. ASSUME NEW r \in Requests,
             \/ Execute(r) \/ ResolveSession(r) \/ RecvError(r) \/ StreamEnd(r) \/ LeaveToolLoop(r)
             \/ PersistUser(r) \/ PersistAssistant(r) \/ UpdateTokens(r)
             \/ SendDone(r) \/ SendError(r) \/ CloseOutput(r)
      PROVE  PairInv'
  <2>1. UNCHANGED <<msgs, sent, calls, results>>
    BY <1>9 DEF Execute, ResolveSession, RecvError, StreamEnd, LeaveToolLoop, PersistUser,
                PersistAssistant, UpdateTokens, SendDone, SendError, CloseOutput, reqVars
  <2>2. \E to \in Stages \ {"llm_invoker", "compacting", "executing"} :
          pc' = [pc EXCEPT ![r] = to]
    BY <1>9 DEF Execute, ResolveSession, RecvError, StreamEnd, LeaveToolLoop, PersistUser,
                PersistAssistant, UpdateTokens, SendDone, SendError, CloseOutput, Goto, Stages
  <2>3. pc[r] # "executing"
    BY <1>9 DEF Execute, ResolveSession, RecvError, StreamEnd, LeaveToolLoop, PersistUser,
                PersistAssistant, UpdateTokens, SendDone, SendError, CloseOutput, Goto
  <2>4. PairInvOf(r)'
    BY <1>0, <2>1, <2>2, <2>3, PairedSame DEF TypeOK, PairInv, PairInvOf
  <2> QED BY <1>0, <2>1, <2>2, <2>4, PairOthers DEF TypeOK
<1>10. ASSUME NEW r \in Requests, RecvText(r) \/ RecvUsage(r) \/ Consume(r) \/ Cancel(r)
       PROVE  PairInv'
  <2>1. UNCHANGED <<pc, msgs, sent, calls, results>>
    BY <1>10 DEF RecvText, RecvUsage, Consume, Cancel, reqVars
  <2>2. ASSUME NEW q \in Requests PROVE Asking(msgs[q], calls[q])' <=> Asking(msgs[q], calls[q])
    BY <2>1 DEF Asking, Paired
  <2> QED BY <2>1, <2>2, PairedSame DEF PairInv, PairInvOf
<1>11. CASE UNCHANGED vars
  <2>1. UNCHANGED <<pc, msgs, sent, calls, results>>
    BY <1>11 DEF vars, reqVars
  <2>2. ASSUME NEW q \in Requests PROVE Asking(msgs[q], calls[q])' <=> Asking(msgs[q], calls[q])
    BY <2>1 DEF Asking, Paired
  <2> QED BY <2>1, <2>2, PairedSame DEF PairInv, PairInvOf
<1> QED BY <1>1, <1>2, <1>3, <1>4, <1>5, <1>6, <1>7, <1>8, <1>9, <1>10, <1>11 DEF Next, Run

\* A list made of another one's messages, and of messages that are no tool message,
\* has no tool message of its own.
LEMMA AnswersKept ==
  ASSUME NEW r, NEW m, NEW n, ToolMessagesAnswer(m, r),
         \A i \in 1..Len(n) : n[i].role # "tool" \/ \E j \in 1..Len(m) : n[i] = m[j]
  PROVE  ToolMessagesAnswer(n, r)
BY DEF ToolMessagesAnswer

LEMMA AnswersSystem ==
  ASSUME NEW r \in Requests, NEW m \in Seq(Message), ToolMessagesAnswer(m, r)
  PROVE  ToolMessagesAnswer(WithSystem(r, m), r)
<1> DEFINE p == Plain("system", r)
<1>1. p \in Message /\ <<p>> \in Seq(Message) /\ Len(<<p>>) = 1 /\ <<p>>[1] = p /\ p.role = "system"
  BY PlainType DEF Plain
<1> HIDE DEF p
<1>2. /\ Len(<<p>> \o m) = 1 + Len(m)
      /\ \A i \in 1..(1 + Len(m)) : (<<p>> \o m)[i] = IF i <= 1 THEN <<p>>[i] ELSE m[i - 1]
  BY <1>1, ConcatProperties
<1>3. ASSUME NEW i \in 1..Len(<<p>> \o m)
      PROVE  \/ (<<p>> \o m)[i].role # "tool"
             \/ \E j \in 1..Len(m) : (<<p>> \o m)[i] = m[j]
  <2>1. CASE i <= 1
    BY <1>1, <1>2, <2>1
  <2>2. CASE i > 1
    <3>1. i - 1 \in 1..Len(m) /\ (<<p>> \o m)[i] = m[i - 1]
      BY <1>2, <2>2
    <3> QED BY <3>1
  <2> QED BY <2>1, <2>2
<1>4. ToolMessagesAnswer(<<p>> \o m, r)
  BY <1>3, AnswersKept
<1> QED BY <1>4 DEF WithSystem, p

LEMMA AnswersCompacted ==
  ASSUME NEW r \in Requests, NEW m \in Seq(Message), Len(m) > 5, ToolMessagesAnswer(m, r)
  PROVE  ToolMessagesAnswer(Compacted(m, r), r)
<1> DEFINE t == SubSeq(m, Len(m) - 3, Len(m))
           h == <<m[1], Plain("user", r)>>
<1>1. h \in Seq(Message) /\ Len(h) = 2 /\ h[1] = m[1] /\ h[2] = Plain("user", r)
  BY PlainType
<1>2. t \in Seq(Message) /\ Len(t) = 4 /\ \A i \in 1..4 : t[i] = m[Len(m) - 4 + i]
  BY SubSeqProperties, LenProperties
<1>3. /\ Len(h \o t) = 6
      /\ \A i \in 1..6 : (h \o t)[i] = IF i <= 2 THEN h[i] ELSE t[i - 2]
  BY <1>1, <1>2, ConcatProperties
<1>4. Plain("user", r).role = "user"
  BY DEF Plain
<1>5. ASSUME NEW i \in 1..6
      PROVE  (h \o t)[i].role # "tool" \/ \E j \in 1..Len(m) : (h \o t)[i] = m[j]
  <2>1. CASE i = 1
    <3>1. (h \o t)[i] = m[1] /\ 1 \in 1..Len(m)
      BY <1>1, <1>3, <2>1
    <3> QED BY <3>1
  <2>2. CASE i = 2
    BY <1>1, <1>3, <1>4, <2>2
  <2>3. CASE i > 2
    <3>1. (h \o t)[i] = m[Len(m) - 6 + i] /\ Len(m) - 6 + i \in 1..Len(m)
      BY <1>2, <1>3, <2>3
    <3> QED BY <3>1
  <2> QED BY <2>1, <2>2, <2>3
<1>6. ToolMessagesAnswer(h \o t, r)
  <2> DEFINE n == h \o t
  <2>1. \A i \in 1..Len(n) : n[i].role # "tool" \/ \E j \in 1..Len(m) : n[i] = m[j]
    BY <1>3, <1>5
  <2> HIDE DEF n
  <2>2. ToolMessagesAnswer(n, r)
    BY <2>1, AnswersKept
  <2> QED BY <2>2 DEF n
<1> QED BY <1>6 DEF Compacted

\* A message at the end that is no tool message, gives results, or is the client's own.
LEMMA AnswersAppended ==
  ASSUME NEW r \in Requests, NEW m \in Seq(Message), NEW t \in Message,
         ToolMessagesAnswer(m, r),
         \/ t.role # "tool"
         \/ t.results # <<>>
         \/ "tool" \in ClientRoles /\ t = Plain("tool", r)
  PROVE  ToolMessagesAnswer(Append(m, t), r)
<1>1. /\ Len(Append(m, t)) = Len(m) + 1 /\ Append(m, t)[Len(m) + 1] = t
      /\ \A i \in 1..Len(m) : Append(m, t)[i] = m[i]
  BY AppendProperties
<1> QED BY <1>1 DEF ToolMessagesAnswer

\* The history has no tool message: only questions and answers are stored.
LEMMA AnswersPrompt ==
  ASSUME TypeOK, NEW r \in Requests, NEW role \in ClientRoles
  PROVE  /\ ToolMessagesAnswer(Append(History(KeyOf[r]), Plain(role, r)), r)
         /\ ToolMessagesAnswer(<<Plain(role, r)>>, r)
<1> DEFINE h == History(KeyOf[r])
           q == Plain(role, r)
<1>1. KeyOf[r] \in Keys /\ rows[KeyOf[r]] \in Seq(Row)
  BY PipelineAssumption DEF TypeOK
<1>2. h \in Seq(Message)
  BY <1>1, HistoryType
<1>3. q \in Message /\ (q.role # "tool" \/ ("tool" \in ClientRoles /\ q = Plain("tool", r)))
  BY PlainType DEF Plain
<1>4. ASSUME NEW i \in 1..Len(h) PROVE h[i].role # "tool"
  <2> DEFINE n == IF Len(rows[KeyOf[r]]) < HistoryLimit
                    THEN Len(rows[KeyOf[r]]) ELSE HistoryLimit
  <2>1. n \in Nat /\ n <= Len(rows[KeyOf[r]]) /\ DOMAIN h = 1..n
    BY <1>1, PipelineAssumption DEF History
  <2>2. i \in 1..n
    BY <1>2, <2>1, LenProperties
  <2>3. rows[KeyOf[r]][i] \in Row /\ h[i] = Plain(rows[KeyOf[r]][i].role, rows[KeyOf[r]][i].turn)
    BY <1>1, <2>1, <2>2 DEF History
  <2> QED BY <2>3 DEF Plain, Row
<1> HIDE DEF h, q
<1>5. ToolMessagesAnswer(h, r) /\ ToolMessagesAnswer(<<>>, r)
  BY <1>4 DEF ToolMessagesAnswer
<1>6. ToolMessagesAnswer(Append(h, q), r) /\ ToolMessagesAnswer(Append(<<>>, q), r)
  <2>1. <<>> \in Seq(Message)
    BY EmptySeq
  <2> QED BY <1>2, <1>3, <1>5, <2>1, AnswersAppended
<1>7. Append(<<>>, q) = <<q>>
  OBVIOUS
<1> QED BY <1>6, <1>7 DEF h, q

\* Of req.Messages as of the latest request made of them.
AnswersInv == \A r \in Requests :
  ToolMessagesAnswer(msgs[r], r) /\ ToolMessagesAnswer(sent[r], r)

LEMMA AnswersOpened ==
  ASSUME TypeOK, AnswersInv, NEW r \in Requests, NEW from, NEW m, NEW stream,
         ToolMessagesAnswer(m, r), OpenStream(r, from, m, stream)
  PROVE  \A q \in Requests : ToolMessagesAnswer(sent'[q], q)
<1>1. sent' = [sent EXCEPT ![r] = m] \/ sent' = sent
  BY DEF OpenStream
<1> QED BY <1>1 DEF TypeOK, AnswersInv

LEMMA AnswersGrow ==
  ASSUME TypeOK, AnswersInv, NEW r \in Requests, NEW m,
         ToolMessagesAnswer(m, r), msgs' = [msgs EXCEPT ![r] = m]
  PROVE  \A q \in Requests : ToolMessagesAnswer(msgs'[q], q)
BY DEF TypeOK, AnswersInv

LEMMA AnswersStep == TypeInv /\ PairInv /\ AnswersInv /\ [Next]_vars => AnswersInv'
<1> SUFFICES ASSUME TypeInv, PairInv, AnswersInv, [Next]_vars PROVE AnswersInv'
  OBVIOUS
<1>0. TypeOK
  BY DEF TypeInv
<1>s. SUFFICES \A q \in Requests :
        ToolMessagesAnswer(msgs'[q], q) /\ ToolMessagesAnswer(sent'[q], q)
  BY DEF AnswersInv, ToolMessagesAnswer
<1>1. ASSUME NEW r \in Requests, BuildPrompt(r)
      PROVE  \A q \in Requests : ToolMessagesAnswer(msgs'[q], q) /\ ToolMessagesAnswer(sent'[q], q)
  <2>1. PICK m : ToolMessagesAnswer(m, r) /\ msgs' = [msgs EXCEPT ![r] = m]
    BY <1>0, <1>1, AnswersPrompt DEF BuildPrompt
  <2>2. UNCHANGED sent
    BY <1>1 DEF BuildPrompt
  <2> QED BY <1>0, <2>1, <2>2, AnswersGrow DEF AnswersInv
<1>2. ASSUME NEW r \in Requests, InvokeLLM(r)
      PROVE  \A q \in Requests : ToolMessagesAnswer(msgs'[q], q) /\ ToolMessagesAnswer(sent'[q], q)
  <2>1. ToolMessagesAnswer(WithSystem(r, msgs[r]), r)
    BY <1>0, AnswersSystem DEF TypeOK, AnswersInv
  <2>2. UNCHANGED msgs /\ OpenStream(r, "llm_invoker", WithSystem(r, msgs[r]), "llm_stream")
    BY <1>2 DEF InvokeLLM
  <2> QED BY <1>0, <2>1, <2>2, AnswersOpened DEF AnswersInv
<1>3. ASSUME NEW r \in Requests, Summarized(r)
      PROVE  \A q \in Requests : ToolMessagesAnswer(msgs'[q], q) /\ ToolMessagesAnswer(sent'[q], q)
  <2> DEFINE all == WithSystem(r, msgs[r])
  <2>1. pc[r] = "compacting" /\ msgs[r] \in Seq(Message)
    BY <1>0, <1>3 DEF Summarized, OpenStream, Goto, TypeOK
  <2>2. ToolMessagesAnswer(all, r) /\ all \in Seq(Message) /\ Len(all) > 5
    BY <2>1, AnswersSystem, WithSystemType DEF AnswersInv, TypeInv, LongEnough
  <2>3. ToolMessagesAnswer(Compacted(all, r), r)
    BY <2>2, AnswersCompacted
  <2>4. UNCHANGED msgs
    BY <1>3 DEF Summarized
  <2>5. \/ OpenStream(r, "compacting", Compacted(all, r), "llm_stream")
        \/ OpenStream(r, "compacting", all, "llm_stream")
    BY <1>3 DEF Summarized
  <2> QED BY <1>0, <2>2, <2>3, <2>4, <2>5, AnswersOpened DEF AnswersInv
<1>4. ASSUME NEW r \in Requests, BeginIteration(r)
      PROVE  \A q \in Requests : ToolMessagesAnswer(msgs'[q], q) /\ ToolMessagesAnswer(sent'[q], q)
  <2>1. msgs[r] \in Seq(Message) /\ ToolUseMessage(r) \in Message /\ ToolUseMessage(r).role # "tool"
    BY <1>0, EmptySeq DEF ToolUseMessage, Message, TypeOK
  <2>2. ToolMessagesAnswer(Append(msgs[r], ToolUseMessage(r)), r)
    BY <2>1, AnswersAppended DEF AnswersInv
  <2>3. msgs' = [msgs EXCEPT ![r] = Append(@, ToolUseMessage(r))] /\ UNCHANGED sent
    BY <1>4 DEF BeginIteration
  <2> QED BY <1>0, <2>2, <2>3, AnswersGrow DEF AnswersInv
<1>5. ASSUME NEW r \in Requests, ReturnResults(r)
      PROVE  \A q \in Requests : ToolMessagesAnswer(msgs'[q], q) /\ ToolMessagesAnswer(sent'[q], q)
  <2> DEFINE t == [role |-> "tool", turn |-> r, calls |-> <<>>, results |-> results[r]]
             m == Append(msgs[r], t)
  <2>1. pc[r] = "executing" /\ Len(results[r]) = Len(calls[r])
    BY <1>5 DEF ReturnResults
  <2>2. results[r] \in Seq(Tools) /\ calls[r] \in Seq(Tools) /\ msgs[r] \in Seq(Message)
    BY <1>0 DEF TypeOK
  <2>3. results[r] # <<>>
    <3>1. calls[r] # <<>>
      BY <2>1 DEF PairInv, PairInvOf
    <3> QED BY <2>1, <2>2, <3>1, EmptySeq, LenProperties
  <2>4. t \in Message /\ t.results # <<>>
    BY <2>2, <2>3, EmptySeq DEF Message
  <2> HIDE DEF t
  <2>5. m \in Seq(Message) /\ ToolMessagesAnswer(m, r)
    BY <2>2, <2>4, AnswersAppended, AppendProperties DEF AnswersInv
  <2>6. ToolMessagesAnswer(WithSystem(r, m), r)
    BY <2>5, AnswersSystem
  <2>7. msgs' = [msgs EXCEPT ![r] = m]
    BY <1>5 DEF ReturnResults, t
  <2>8. OpenStream(r, "executing", WithSystem(r, m), "loop_stream")
    BY <1>5 DEF ReturnResults, t
  <2> QED BY <1>0, <2>5, <2>6, <2>7, <2>8, AnswersGrow, AnswersOpened
<1>6. ASSUME NEW r \in Requests,
             \/ Execute(r) \/ ResolveSession(r) \/ StartCompaction(r) \/ RecvText(r)
             \/ RecvToolCall(r) \/ RecvUsage(r) \/ RecvError(r) \/ StreamEnd(r)
             \/ LeaveToolLoop(r) \/ ExecuteTool(r) \/ PersistUser(r) \/ PersistAssistant(r)
             \/ UpdateTokens(r) \/ SendDone(r) \/ SendError(r) \/ CloseOutput(r)
             \/ Consume(r) \/ Cancel(r)
      PROVE  UNCHANGED <<msgs, sent>>
  BY <1>6 DEF Execute, ResolveSession, StartCompaction, RecvText, RecvToolCall, RecvUsage,
              RecvError, StreamEnd, LeaveToolLoop, ExecuteTool, PersistUser, PersistAssistant,
              UpdateTokens, SendDone, SendError, CloseOutput, Consume, Cancel, reqVars
<1>7. CASE UNCHANGED vars
  BY <1>7 DEF vars, reqVars, AnswersInv
<1> QED BY <1>1, <1>2, <1>3, <1>4, <1>5, <1>6, <1>7 DEF Next, Run, AnswersInv

\* Every request to a provider pairs each assistant message that has tool_use
\* blocks with one tool message, right after it, that answers the same ids in the
\* same order, whatever the history, the tools, the limits, the interleaving and
\* the roles clients send; a tool message without results is there only if a
\* client may say "tool", and it is that client's own question
\* (PromptBuilder.Process, ToolExecutor.Process, LLMInvoker.Process, compactMessages).
THEOREM ToolUsePairedHolds == Spec => []ToolUsePaired
<1>1. Init => PairInv /\ AnswersInv
  BY EmptySeq DEF Init, PairInv, PairInvOf, Paired, AnswersInv, ToolMessagesAnswer
<1>2. TypeInv /\ PairInv /\ [Next]_vars => PairInv'
  BY PairStep
<1>3. TypeInv /\ PairInv /\ AnswersInv /\ [Next]_vars => AnswersInv'
  BY AnswersStep
<1>4. PairInv /\ AnswersInv => ToolUsePaired
  BY DEF PairInv, PairInvOf, AnswersInv, ToolUsePaired
<1>5. Spec => []TypeInv
  BY TypeInit, TypeStep, PTL DEF Spec
<1> QED BY <1>1, <1>2, <1>3, <1>4, <1>5, PTL DEF Spec

-----------------------------------------------------------------------------
(* The stream of a request *)

LEMMA AppendToConcat ==
  ASSUME NEW S, NEW d \in Seq(S), NEW o \in Seq(S), NEW e \in S
  PROVE  d \o Append(o, e) = Append(d \o o, e)
<1>1. d \o o \in Seq(S) /\ <<e>> \in Seq(S)
  BY ConcatProperties
<1>2. Append(o, e) = o \o <<e>> /\ Append(d \o o, e) = (d \o o) \o <<e>>
  BY <1>1, AppendIsConcat
<1>3. d \o (o \o <<e>>) = (d \o o) \o <<e>>
  BY <1>1, ConcatAssociative
<1> QED BY <1>2, <1>3

LEMMA ChunkToStream ==
  \A d, o \in Seq(Chunks), e \in Chunks : d \o Append(o, e) = Append(d \o o, e)
BY AppendToConcat

\* A buffer that hands over its first element: nothing is lost or reordered.
LEMMA HeadMovesOver ==
  ASSUME NEW S, NEW d \in Seq(S), NEW o \in Seq(S), o # <<>>
  PROVE  Append(d, Head(o)) \o Tail(o) = d \o o
<1>1. Head(o) \in S /\ Tail(o) \in Seq(S) /\ <<Head(o)>> \in Seq(S)
  BY HeadTailProperties
<1>2. o = <<Head(o)>> \o Tail(o)
  <2>1. Len(o) \in Nat \ {0}
    BY EmptySeq
  <2>2. 1 \in 1..Len(o) /\ Len(o) \in 1..Len(o)
    BY <2>1
  <2>3. SubSeq(o, 1, Len(o)) = <<o[1]>> \o SubSeq(o, 1 + 1, Len(o))
    BY <2>2, SubSeqRecursiveFirst
  <2>4. SubSeq(o, 1, Len(o)) = o /\ Tail(o) = SubSeq(o, 2, Len(o))
    BY SubSeqFull, TailIsSubSeq
  <2>5. Head(o) = o[1]
    OBVIOUS
  <2> QED BY <2>3, <2>4, <2>5
<1>3. Append(d, Head(o)) = d \o <<Head(o)>>
  BY <1>1, AppendIsConcat
<1>4. (d \o <<Head(o)>>) \o Tail(o) = d \o (<<Head(o)>> \o Tail(o))
  BY <1>1, ConcatAssociative
<1> QED BY <1>2, <1>3, <1>4

LEMMA StreamType ==
  ASSUME TypeOK, NEW r \in Requests
  PROVE  Stream(r) \in Seq(Chunks)
BY ConcatProperties DEF Stream, TypeOK

\* A chunk on OutputCh is the next one of the request's stream, and of no other.
LEMMA EmitStream ==
  ASSUME TypeOK, NEW r \in Requests, NEW chunk \in Chunks, Emit(r, chunk)
  PROVE  /\ Stream(r)' = Append(Stream(r), chunk)
         /\ \A q \in Requests \ {r} : Stream(q)' = Stream(q)
<1>1. delivered[r] \in Seq(Chunks) /\ out[r] \in Seq(Chunks)
  BY DEF TypeOK
<1>2. out'[r] = Append(out[r], chunk) /\ delivered'[r] = delivered[r]
  BY DEF Emit, TypeOK
<1>3. delivered[r] \o Append(out[r], chunk) = Append(delivered[r] \o out[r], chunk)
  BY <1>1, ChunkToStream
<1>4. \A q \in Requests \ {r} : out'[q] = out[q] /\ delivered'[q] = delivered[q]
  BY DEF Emit, TypeOK
<1> QED BY <1>2, <1>3, <1>4 DEF Stream

\* The consumer moves a chunk along the stream.
LEMMA ConsumeStream ==
  ASSUME TypeOK, NEW r \in Requests, Consume(r), NEW q \in Requests
  PROVE  Stream(q)' = Stream(q)
<1>1. delivered[r] \in Seq(Chunks) /\ out[r] \in Seq(Chunks) /\ out[r] # <<>>
  BY DEF Consume, TypeOK
<1>2. delivered'[r] = Append(delivered[r], Head(out[r])) /\ out'[r] = Tail(out[r])
  BY DEF Consume, TypeOK
<1>3. Append(delivered[r], Head(out[r])) \o Tail(out[r]) = delivered[r] \o out[r]
  BY <1>1, HeadMovesOver
<1>4. q # r => delivered'[q] = delivered[q] /\ out'[q] = out[q]
  BY DEF Consume, TypeOK
<1> QED BY <1>2, <1>3, <1>4 DEF Stream

-----------------------------------------------------------------------------
(* The rows of a request *)

LEMMA RowsOfFinite ==
  ASSUME TypeOK, NEW r \in Requests, NEW role
  PROVE  IsFiniteSet(RowsOf(r, role)) /\ Cardinality(RowsOf(r, role)) \in Nat
<1>1. rows[KeyOf[r]] \in Seq(Row)
  BY PipelineAssumption DEF TypeOK
<1>2. DOMAIN rows[KeyOf[r]] = 1..Len(rows[KeyOf[r]]) /\ Len(rows[KeyOf[r]]) \in Nat
  BY <1>1, LenProperties
<1>3. IsFiniteSet(1..Len(rows[KeyOf[r]]))
  BY <1>2, FS_Interval
<1>4. RowsOf(r, role) \subseteq 1..Len(rows[KeyOf[r]])
  BY <1>2 DEF RowsOf
<1> QED BY <1>3, <1>4, FS_Subset, FS_CardinalityType

\* An insert that succeeds.
Stores(r, row) == rows' = [rows EXCEPT ![KeyOf[r]] = Append(rows[KeyOf[r]], row)]

\* Appending a row of one turn gives that turn one more row of that role; every
\* other turn of the session keeps its rows where they were.
LEMMA InsertRows ==
  ASSUME TypeOK, NEW r \in Requests, NEW row \in Row, row.turn = r,
         Stores(r, row),
         NEW q \in Requests, NEW role \in {"user", "assistant"},
         NEW n, n = Len(rows[KeyOf[r]]) + 1
  PROVE  /\ RowsOf(q, role)' = IF q = r /\ role = row.role
                               THEN RowsOf(q, role) \cup {n} ELSE RowsOf(q, role)
         /\ n \notin RowsOf(r, role)
         /\ \A i \in RowsOf(q, role) : rows'[KeyOf[q]][i] = rows[KeyOf[q]][i]
         /\ rows'[KeyOf[r]][n] = row
<1> DEFINE k == KeyOf[r]
<1>1. k \in Keys /\ rows[k] \in Seq(Row) /\ \A s \in Requests : KeyOf[s] \in Keys
  BY PipelineAssumption DEF TypeOK
<1>2. /\ rows'[k] = Append(rows[k], row)
      /\ \A j \in Keys : j # k => rows'[j] = rows[j]
  BY <1>1 DEF Stores, TypeOK
<1>3. /\ Append(rows[k], row) \in Seq(Row)
      /\ Len(Append(rows[k], row)) = Len(rows[k]) + 1
      /\ \A i \in 1..Len(rows[k]) : Append(rows[k], row)[i] = rows[k][i]
      /\ Append(rows[k], row)[Len(rows[k]) + 1] = row
  BY <1>1, AppendProperties
<1>4. DOMAIN rows[k] = 1..Len(rows[k]) /\ Len(rows[k]) \in Nat
  BY <1>1, LenProperties
<1>5. DOMAIN rows'[k] = 1..(Len(rows[k]) + 1)
  BY <1>2, <1>3, LenProperties
<1>6. DOMAIN rows'[k] = (DOMAIN rows[k]) \cup {n} /\ n \notin DOMAIN rows[k]
  BY <1>4, <1>5
<1>7. rows'[k][n] = row /\ \A i \in DOMAIN rows[k] : rows'[k][i] = rows[k][i]
  BY <1>2, <1>3, <1>4
<1>8. CASE KeyOf[q] = k
  <2>1. RowsOf(q, role)' = {i \in DOMAIN rows'[k] : rows'[k][i].turn = q /\ rows'[k][i].role = role}
    BY <1>8 DEF RowsOf
  <2>2. RowsOf(q, role) = {i \in DOMAIN rows[k] : rows[k][i].turn = q /\ rows[k][i].role = role}
    BY <1>8 DEF RowsOf
  <2>3. n \notin RowsOf(r, role)
    BY <1>6 DEF RowsOf
  <2> QED BY <1>6, <1>7, <1>8, <2>1, <2>2, <2>3
<1>9. CASE KeyOf[q] # k
  BY <1>1, <1>2, <1>6, <1>7, <1>9 DEF RowsOf
<1> QED BY <1>8, <1>9

-----------------------------------------------------------------------------
(* The prompt *)

EndsWith(m, last) == m # <<>> /\ m[Len(m)] = last

\* What a request's client may have asked.
Questions(r) == {Plain(role, r) : role \in ClientRoles}

\* PromptEndsWithQuestion, with what makes it inductive: req.Messages ends with
\* the question from PromptBuilder on, and compactMessages keeps its tail.
PromptInvOf(r) ==
  /\ pc[r] \in {"llm_invoker", "compacting"} =>
       /\ \E q \in Questions(r) : EndsWith(msgs[r], q)
       /\ Len(msgs[r]) <= HistoryLimit + 1
  /\ pc[r] = "llm_stream" =>
       /\ \E q \in Questions(r) : EndsWith(msgs[r], q) /\ EndsWith(sent[r], q)
       /\ Len(sent[r]) <= HistoryLimit + 2
       /\ sys[r] => sent[r][1].role = "system"

PromptInv == \A r \in Requests : PromptInvOf(r)

LEMMA HistoryLength ==
  ASSUME TypeOK, NEW k \in Keys
  PROVE  History(k) \in Seq(Message) /\ Len(History(k)) <= HistoryLimit
<1> DEFINE n == IF Len(rows[k]) < HistoryLimit THEN Len(rows[k]) ELSE HistoryLimit
<1>1. n \in Nat /\ n <= HistoryLimit
  BY PipelineAssumption, LenProperties DEF TypeOK
<1>2. History(k) \in Seq(Message)
  BY HistoryType
<1>3. DOMAIN History(k) = 1..n
  BY DEF History
<1>4. Len(History(k)) = n
  BY <1>1, <1>2, <1>3, LenProperties
<1> QED BY <1>1, <1>2, <1>4

LEMMA AppendEnds ==
  ASSUME NEW m \in Seq(Message), NEW last \in Message
  PROVE  /\ EndsWith(Append(m, last), last)
         /\ Len(Append(m, last)) = Len(m) + 1
BY AppendProperties DEF EndsWith

\* The system prompt goes in front and adds one message at most.
LEMMA SystemInFront ==
  ASSUME NEW r \in Requests, NEW m \in Seq(Message), NEW last, EndsWith(m, last)
  PROVE  LET all == WithSystem(r, m) IN
         /\ all \in Seq(Message) /\ EndsWith(all, last)
         /\ Len(all) <= Len(m) + 1
         /\ sys[r] => all[1].role = "system"
<1> DEFINE p == Plain("system", r)
           all == WithSystem(r, m)
<1>1. Len(m) \in Nat \ {0}
  BY EmptySeq DEF EndsWith
<1>2. CASE ~sys[r]
  BY <1>1, <1>2 DEF WithSystem
<1>3. CASE sys[r]
  <2>1. p \in Message /\ <<p>> \in Seq(Message) /\ Len(<<p>>) = 1 /\ <<p>>[1] = p /\ p.role = "system"
    BY PlainType DEF Plain
  <2> HIDE DEF p
  <2>2. all = <<p>> \o m
    BY <1>3 DEF WithSystem, p
  <2>3. /\ <<p>> \o m \in Seq(Message) /\ Len(<<p>> \o m) = 1 + Len(m)
        /\ \A i \in 1..(1 + Len(m)) : (<<p>> \o m)[i] = IF i <= 1 THEN <<p>>[i] ELSE m[i - 1]
    BY <2>1, ConcatProperties
  <2>4. (<<p>> \o m)[1] = p
    BY <1>1, <2>1, <2>3
  <2>5. (<<p>> \o m)[1 + Len(m)] = m[Len(m)]
    <3>1. 1 + Len(m) \in 1..(1 + Len(m)) /\ ~(1 + Len(m) <= 1) /\ 1 + Len(m) - 1 = Len(m)
      BY <1>1
    <3> QED BY <2>3, <3>1
  <2>6. <<p>> \o m # <<>>
    BY <1>1, <2>3, EmptySeq
  <2> QED BY <1>1, <2>1, <2>2, <2>3, <2>4, <2>5, <2>6 DEF EndsWith
<1> QED BY <1>2, <1>3

\* compactMessages keeps the first message and the end, in six messages.
LEMMA CompactedEnds ==
  ASSUME NEW r \in Requests, NEW m \in Seq(Message), Len(m) > 5
  PROVE  LET c == Compacted(m, r) IN
         /\ c \in Seq(Message) /\ Len(c) = 6
         /\ c[1] = m[1] /\ EndsWith(c, m[Len(m)])
<1> DEFINE h == <<m[1], Plain("user", r)>>
           t == SubSeq(m, Len(m) - 3, Len(m))
<1>1. h \in Seq(Message) /\ Len(h) = 2 /\ h[1] = m[1]
  <2>1. m[1] \in Message /\ Plain("user", r) \in Message
    BY PlainType, LenProperties, ElementOfSeq
  <2>2. \A a, b \in Message : /\ <<a, b>> \in Seq(Message) /\ Len(<<a, b>>) = 2
                             /\ <<a, b>>[1] = a
    OBVIOUS
  <2> QED BY <2>1, <2>2
<1>2. Len(m) \in Nat /\ \A i \in (Len(m) - 3)..Len(m) : m[i] \in Message
  BY LenProperties
<1>3. t \in Seq(Message) /\ Len(t) = 4 /\ t[4] = m[Len(m)]
  <2> HIDE DEF t
  <2>1. /\ t \in Seq(Message)
        /\ Len(t) = IF Len(m) - 3 <= Len(m) THEN Len(m) - (Len(m) - 3) + 1 ELSE 0
        /\ \A i \in 1..(Len(m) - (Len(m) - 3) + 1) : t[i] = m[Len(m) - 3 + i - 1]
    BY <1>2, SubSeqProperties DEF t
  <2>2. /\ Len(m) - (Len(m) - 3) + 1 = 4 /\ Len(m) - 3 <= Len(m)
        /\ Len(m) - 3 + 4 - 1 = Len(m)
    BY <1>2
  <2>3. 4 \in 1..(Len(m) - (Len(m) - 3) + 1)
    BY <2>2
  <2> QED BY <2>1, <2>2, <2>3
<1> HIDE DEF h, t
<1>4. /\ h \o t \in Seq(Message) /\ Len(h \o t) = Len(h) + Len(t)
      /\ \A i \in 1..(Len(h) + Len(t)) : (h \o t)[i] = IF i <= Len(h) THEN h[i] ELSE t[i - Len(h)]
  BY <1>1, <1>3, ConcatProperties
<1>5. Len(h \o t) = 6 /\ (h \o t)[1] = m[1] /\ (h \o t)[6] = m[Len(m)]
  BY <1>1, <1>3, <1>4
<1>6. h \o t # <<>>
  BY <1>4, <1>5, EmptySeq
<1>7. Compacted(m, r) = h \o t
  BY DEF Compacted, h, t
<1> QED BY <1>4, <1>5, <1>6, <1>7 DEF EndsWith

LEMMA PromptOthers ==
  ASSUME PromptInv, NEW r \in Requests, PromptInvOf(r)',
         \A q \in Requests \ {r} : UNCHANGED <<pc[q], msgs[q], sent[q], sys[q]>>
  PROVE  PromptInv'
BY DEF PromptInv, PromptInvOf, EndsWith

\* The first stream of a turn is opened with a prompt, or the turn fails.
LEMMA PromptOpened ==
  ASSUME TypeOK, PromptInv, NEW r \in Requests, NEW from, NEW m, UNCHANGED <<msgs, sys>>,
         NEW last \in Questions(r), EndsWith(msgs[r], last), EndsWith(m, last), Len(m) <= HistoryLimit + 2,
         sys[r] => m[1].role = "system",
         OpenStream(r, from, m, "llm_stream")
  PROVE  PromptInv'
<1>1. pc' = [pc EXCEPT ![r] = "llm_stream"] \/ pc' = [pc EXCEPT ![r] = "failed"]
  BY DEF OpenStream, Goto
<1>2. sent' = [sent EXCEPT ![r] = m] \/ sent' = sent
  BY DEF OpenStream
<1>3. pc'[r] = "failed" \/ (pc'[r] = "llm_stream" /\ sent'[r] = m)
  BY DEF OpenStream, Goto, TypeOK
<1>4. PromptInvOf(r)'
  BY <1>3 DEF PromptInvOf, EndsWith
<1>5. \A q \in Requests \ {r} : UNCHANGED <<pc[q], msgs[q], sent[q], sys[q]>>
  BY <1>1, <1>2 DEF TypeOK
<1> QED BY <1>4, <1>5, PromptOthers

LEMMA PromptStep == TypeInv /\ PromptInv /\ [Next]_vars => PromptInv'
<1> SUFFICES ASSUME TypeInv, PromptInv, [Next]_vars PROVE PromptInv'
  OBVIOUS
<1> USE PipelineAssumption
<1>0. TypeOK
  BY DEF TypeInv
<1>1. ASSUME NEW r \in Requests, BuildPrompt(r) PROVE PromptInv'
  <2>1. KeyOf[r] \in Keys /\ \A last \in Questions(r) : last \in Message
    BY PlainType DEF Questions
  <2>2. PICK m : /\ msgs' = [msgs EXCEPT ![r] = m]
                 /\ \E last \in Questions(r) : EndsWith(m, last)
                 /\ Len(m) <= HistoryLimit + 1
    <3>1. PICK last \in Questions(r) :
            \/ msgs' = [msgs EXCEPT ![r] = Append(History(KeyOf[r]), last)]
            \/ msgs' = [msgs EXCEPT ![r] = <<last>>]
      BY <1>1 DEF BuildPrompt, Questions
    <3>2. last \in Message
      BY <2>1
    <3>3. CASE msgs' = [msgs EXCEPT ![r] = Append(History(KeyOf[r]), last)]
      <4>1. /\ History(KeyOf[r]) \in Seq(Message)
            /\ Len(History(KeyOf[r])) \in Nat /\ Len(History(KeyOf[r])) <= HistoryLimit
        BY <1>0, <2>1, HistoryLength, LenProperties
      <4>2. /\ EndsWith(Append(History(KeyOf[r]), last), last)
            /\ Len(Append(History(KeyOf[r]), last)) = Len(History(KeyOf[r])) + 1
        BY <3>2, <4>1, AppendEnds
      <4>3. Len(Append(History(KeyOf[r]), last)) <= HistoryLimit + 1
        BY <4>1, <4>2
      <4> QED BY <3>3, <4>2, <4>3
    <3>4. CASE msgs' = [msgs EXCEPT ![r] = <<last>>]
      <4>1. EndsWith(<<last>>, last) /\ Len(<<last>>) = 1
        BY DEF EndsWith
      <4>2. Len(<<last>>) <= HistoryLimit + 1
        BY <4>1
      <4> QED BY <3>4, <4>1, <4>2
    <3> QED BY <3>1, <3>3, <3>4
  <2>3. pc'[r] = "llm_invoker" /\ msgs'[r] = m
    BY <1>0, <1>1, <2>2 DEF BuildPrompt, Goto, TypeOK
  <2>4. PromptInvOf(r)'
    BY <2>2, <2>3 DEF PromptInvOf, EndsWith, Questions
  <2> QED BY <1>0, <1>1, <2>2, <2>4, PromptOthers DEF BuildPrompt, Goto, TypeOK
<1>2. ASSUME NEW r \in Requests, InvokeLLM(r) PROVE PromptInv'
  <2>1. /\ msgs[r] \in Seq(Message) /\ Len(msgs[r]) \in Nat
        /\ Len(msgs[r]) <= HistoryLimit + 1
    BY <1>0, <1>2, LenProperties DEF InvokeLLM, OpenStream, Goto, PromptInv, PromptInvOf, TypeOK
  <2>q. PICK last \in Questions(r) : EndsWith(msgs[r], last)
    BY <1>2 DEF InvokeLLM, OpenStream, Goto, PromptInv, PromptInvOf
  <2> DEFINE all == WithSystem(r, msgs[r])
  <2>2. /\ EndsWith(all, last) /\ Len(all) <= Len(msgs[r]) + 1 /\ Len(all) \in Nat
        /\ sys[r] => all[1].role = "system"
    BY <2>1, <2>q, SystemInFront, LenProperties
  <2> HIDE DEF all
  <2>3. Len(all) <= HistoryLimit + 2
    BY <2>1, <2>2
  <2> QED BY <1>0, <1>2, <2>q, <2>2, <2>3, PromptOpened DEF InvokeLLM, all
<1>3. ASSUME NEW r \in Requests, Summarized(r) PROVE PromptInv'
  <2>0. pc[r] = "compacting"
    BY <1>3 DEF Summarized, OpenStream, Goto
  <2>1. /\ msgs[r] \in Seq(Message) /\ Len(msgs[r]) \in Nat
        /\ Len(msgs[r]) <= HistoryLimit + 1
    BY <1>0, <2>0, LenProperties DEF PromptInv, PromptInvOf, TypeOK
  <2>q. PICK last \in Questions(r) : EndsWith(msgs[r], last)
    BY <2>0 DEF PromptInv, PromptInvOf
  <2> DEFINE all == WithSystem(r, msgs[r])
  <2>2. /\ EndsWith(all, last) /\ Len(all) <= Len(msgs[r]) + 1 /\ Len(all) \in Nat
        /\ sys[r] => all[1].role = "system"
        /\ all \in Seq(Message) /\ Len(all) > 5
    BY <2>0, <2>1, <2>q, SystemInFront, LenProperties DEF TypeInv, LongEnough
  <2> HIDE DEF all
  <2>3. Len(all) <= HistoryLimit + 2
    BY <2>1, <2>2
  <2>4. /\ EndsWith(Compacted(all, r), last) /\ Len(Compacted(all, r)) = 6
        /\ sys[r] => Compacted(all, r)[1].role = "system"
    BY <2>2, CompactedEnds DEF EndsWith
  <2>5. Len(Compacted(all, r)) <= HistoryLimit + 2
    BY <2>2, <2>3, <2>4
  <2>6. UNCHANGED <<msgs, sys>>
    BY <1>3 DEF Summarized
  <2>7. \/ OpenStream(r, "compacting", Compacted(all, r), "llm_stream")
        \/ OpenStream(r, "compacting", all, "llm_stream")
    BY <1>3 DEF Summarized, all
  <2> QED BY <1>0, <2>q, <2>2, <2>3, <2>4, <2>5, <2>6, <2>7, PromptOpened
<1>4. ASSUME NEW r \in Requests, StartCompaction(r) PROVE PromptInv'
  <2>1. /\ pc[r] = "llm_invoker" /\ pc' = [pc EXCEPT ![r] = "compacting"]
        /\ UNCHANGED <<msgs, sent, sys>>
    BY <1>4 DEF StartCompaction, Goto, reqVars
  <2>2. PromptInvOf(r)'
    BY <1>0, <2>1 DEF TypeOK, PromptInv, PromptInvOf, EndsWith
  <2> QED BY <1>0, <2>1, <2>2, PromptOthers DEF TypeOK
<1>5. ASSUME NEW r \in Requests,
             \/ Execute(r) \/ ResolveSession(r) \/ RecvError(r) \/ StreamEnd(r)
             \/ BeginIteration(r) \/ LeaveToolLoop(r) \/ ReturnResults(r)
             \/ PersistUser(r) \/ PersistAssistant(r) \/ UpdateTokens(r)
             \/ SendDone(r) \/ SendError(r) \/ CloseOutput(r)
      PROVE  PromptInv'
  <2>1. \E to \in Stages \ {"llm_invoker", "compacting", "llm_stream"} :
          pc' = [pc EXCEPT ![r] = to]
    BY <1>5 DEF Execute, ResolveSession, RecvError, StreamEnd, BeginIteration, LeaveToolLoop,
                ReturnResults, OpenStream, PersistUser, PersistAssistant, UpdateTokens, SendDone,
                SendError, CloseOutput, Goto, Stages
  <2>2. /\ UNCHANGED sys
        /\ \A q \in Requests \ {r} : UNCHANGED <<msgs[q], sent[q]>>
    BY <1>0, <1>5 DEF Execute, ResolveSession, RecvError, StreamEnd, BeginIteration, LeaveToolLoop,
                ReturnResults, OpenStream, PersistUser, PersistAssistant, UpdateTokens, SendDone,
                SendError, CloseOutput, reqVars, TypeOK
  <2>3. PromptInvOf(r)'
    BY <1>0, <2>1 DEF TypeOK, PromptInvOf
  <2> QED BY <1>0, <2>1, <2>2, <2>3, PromptOthers DEF TypeOK
<1>6. ASSUME NEW r \in Requests,
             \/ RecvText(r) \/ RecvToolCall(r) \/ RecvUsage(r) \/ ExecuteTool(r)
             \/ Consume(r) \/ Cancel(r)
      PROVE  PromptInv'
  <2>1. UNCHANGED <<pc, msgs, sent, sys>>
    BY <1>6 DEF RecvText, RecvToolCall, RecvUsage, ExecuteTool, Consume, Cancel, reqVars
  <2> QED BY <2>1 DEF PromptInv, PromptInvOf, EndsWith
<1>7. CASE UNCHANGED vars
  <2>1. UNCHANGED <<pc, msgs, sent, sys>>
    BY <1>7 DEF vars, reqVars
  <2> QED BY <2>1 DEF PromptInv, PromptInvOf, EndsWith
<1> QED BY <1>1, <1>2, <1>3, <1>4, <1>5, <1>6, <1>7 DEF Next, Run

LEMMA TypeInvHolds == Spec => []TypeInv
BY TypeInit, TypeStep, PTL DEF Spec

\* The first request of a turn ends with the message its client sent, under whatever
\* role, whether it was compacted or not, stays within the loaded history and two
\* messages, and starts with the system prompt when there is one (PromptBuilder,
\* compactMessages).
THEOREM PromptEndsWithQuestionHolds == Spec => []PromptEndsWithQuestion
<1>1. Init => PromptInv
  BY DEF Init, PromptInv, PromptInvOf
<1>2. PromptInv => PromptEndsWithQuestion
  BY DEF PromptInv, PromptInvOf, EndsWith, Questions, PromptEndsWithQuestion
<1> QED BY <1>1, <1>2, PromptStep, TypeInvHolds, PTL DEF Spec

-----------------------------------------------------------------------------
(* Usage *)

BeforeStream == {"idle", "session_resolver", "prompt_builder", "llm_invoker", "compacting"}
AfterStream == {"tool_executor", "executing", "loop_stream",
                "persist_user", "persist_assistant", "update_tokens"}

\* UsageIsSpent, with what makes it inductive: LLMInvoker keeps the last report,
\* which is all its stream was charged; the tool loop adds to that.
UsageInvOf(r) ==
  /\ pc[r] \in BeforeStream => usage[r] = 0 /\ spent[r] = 0
  /\ pc[r] = "llm_stream" => usage[r] = got[r].reports /\ spent[r] = got[r].reports
  /\ pc[r] \in AfterStream => usage[r] = spent[r]

UsageInv == \A r \in Requests : UsageInvOf(r)

LEMMA UsageOthers ==
  ASSUME UsageInv, NEW r \in Requests, UsageInvOf(r)',
         \A q \in Requests \ {r} : UNCHANGED <<pc[q], usage[q], spent[q], got[q]>>
  PROVE  UsageInv'
BY DEF UsageInv, UsageInvOf

LEMMA UsageStep ==
  ASSUME UsageReports <= 1, TypeOK, UsageInv, [Next]_vars
  PROVE  UsageInv'
<1>1. ASSUME NEW r \in Requests, RecvUsage(r) PROVE UsageInv'
  <2>1. got[r] \in [data : 0..MaxChunks, reports : 0..UsageReports] /\ got[r].reports \in Nat
    BY PipelineAssumption DEF TypeOK
  <2>2. /\ got[r].reports < UsageReports
        /\ got' = [got EXCEPT ![r] = [got[r] EXCEPT !.reports = got[r].reports + 1]]
        /\ spent' = [spent EXCEPT ![r] = spent[r] + 1]
        /\ usage' = [usage EXCEPT ![r] = UsageWith(r, got[r].reports + 1)]
        /\ pc' = pc
    BY <1>1 DEF RecvUsage
  <2>3. got[r].reports = 0
    BY <2>1, <2>2, PipelineAssumption
  <2>4. /\ got'[r].reports = 1 /\ spent'[r] = spent[r] + 1
        /\ usage'[r] = UsageWith(r, 1)
    BY <2>1, <2>2, <2>3 DEF TypeOK
  <2>5. CASE pc[r] = "llm_stream"
    <3>1. usage'[r] = 1 /\ spent'[r] = 1
      BY <2>3, <2>4, <2>5 DEF UsageWith, UsageInv, UsageInvOf
    <3>2. UsageInvOf(r)'
      BY <2>2, <2>4, <2>5, <3>1 DEF UsageInvOf, BeforeStream, AfterStream
    <3> QED BY <2>2, <3>2, UsageOthers DEF TypeOK
  <2>6. CASE pc[r] = "loop_stream"
    <3>1. usage'[r] = usage[r] + 1 /\ usage[r] = spent[r]
      BY <2>4, <2>6 DEF UsageWith, UsageInv, UsageInvOf, AfterStream
    <3>2. UsageInvOf(r)'
      BY <2>2, <2>4, <2>6, <3>1 DEF UsageInvOf, BeforeStream, AfterStream
    <3> QED BY <2>2, <3>2, UsageOthers DEF TypeOK
  <2> QED BY <1>1, <2>5, <2>6 DEF RecvUsage, Streaming
<1>2. ASSUME NEW r \in Requests, RecvText(r) \/ RecvToolCall(r) PROVE UsageInv'
  <2>1. UNCHANGED <<pc, usage, spent>>
    BY <1>2 DEF RecvText, RecvToolCall
  <2>2. got' = [got EXCEPT ![r] = [got[r] EXCEPT !.data = got[r].data + 1]]
    BY <1>2 DEF RecvText, RecvToolCall
  <2>3. got'[r].reports = got[r].reports
    BY <2>2 DEF TypeOK
  <2>4. UsageInvOf(r)'
    BY <2>1, <2>3 DEF UsageInv, UsageInvOf
  <2> QED BY <2>1, <2>2, <2>4, UsageOthers DEF TypeOK
<1>3. ASSUME NEW r \in Requests, NEW from, NEW m, NEW stream \in {"llm_stream", "loop_stream"},
             OpenStream(r, from, m, stream), UNCHANGED <<usage, spent>>,
             pc[r] = "executing" <=> stream = "loop_stream",
             pc[r] # "executing" => pc[r] \in BeforeStream
      PROVE  UsageInv'
  <2>1. /\ pc' = [pc EXCEPT ![r] = stream] \/ pc' = [pc EXCEPT ![r] = "failed"]
        /\ got' = [got EXCEPT ![r] = [data |-> 0, reports |-> 0]] \/ got' = got
    BY <1>3 DEF OpenStream, Goto
  <2>2. pc'[r] = "failed" \/ (pc'[r] = stream /\ got'[r].reports = 0)
    BY <1>3 DEF OpenStream, Goto, TypeOK
  <2>3. UsageInvOf(r)'
    BY <1>3, <2>2 DEF UsageInv, UsageInvOf, BeforeStream, AfterStream
  <2> QED BY <1>3, <2>1, <2>3, UsageOthers DEF TypeOK
<1>4. ASSUME NEW r \in Requests, InvokeLLM(r) PROVE UsageInv'
  <2>1. pc[r] = "llm_invoker" /\ UNCHANGED <<usage, spent>>
    BY <1>4 DEF InvokeLLM, OpenStream, Goto
  <2> QED BY <1>3, <1>4, <2>1 DEF InvokeLLM, BeforeStream
<1>5. ASSUME NEW r \in Requests, Summarized(r) PROVE UsageInv'
  <2>1. pc[r] = "compacting" /\ UNCHANGED <<usage, spent>>
    BY <1>5 DEF Summarized, OpenStream, Goto
  <2> QED BY <1>3, <1>5, <2>1 DEF Summarized, BeforeStream
<1>6. ASSUME NEW r \in Requests, ReturnResults(r) PROVE UsageInv'
  <2>1. pc[r] = "executing" /\ UNCHANGED <<usage, spent>>
    BY <1>6 DEF ReturnResults
  <2> QED BY <1>3, <1>6, <2>1 DEF ReturnResults
<1>7. ASSUME NEW r \in Requests,
             \/ Execute(r) \/ ResolveSession(r) \/ BuildPrompt(r) \/ StartCompaction(r)
             \/ RecvError(r) \/ StreamEnd(r) \/ BeginIteration(r) \/ LeaveToolLoop(r)
             \/ PersistUser(r) \/ PersistAssistant(r) \/ UpdateTokens(r)
             \/ SendDone(r) \/ SendError(r) \/ CloseOutput(r)
      PROVE  UsageInv'
  <2>1. UNCHANGED <<usage, spent, got>>
    BY <1>7 DEF Execute, ResolveSession, BuildPrompt, StartCompaction, RecvError, StreamEnd,
                BeginIteration, LeaveToolLoop, PersistUser, PersistAssistant, UpdateTokens,
                SendDone, SendError, CloseOutput, reqVars
  <2>2. \E to \in Stages :
          /\ pc' = [pc EXCEPT ![r] = to]
          /\ to # "llm_stream"
          /\ to \in BeforeStream => pc[r] \in BeforeStream
          /\ to \in AfterStream => pc[r] \in AfterStream \/ pc[r] = "llm_stream"
    BY <1>7 DEF Execute, ResolveSession, BuildPrompt, StartCompaction, RecvError, StreamEnd,
                BeginIteration, LeaveToolLoop, PersistUser, PersistAssistant, UpdateTokens,
                SendDone, SendError, CloseOutput, Goto, Stages, BeforeStream, AfterStream
  <2>3. UsageInvOf(r)'
    BY <2>1, <2>2 DEF TypeOK, UsageInv, UsageInvOf
  <2> QED BY <2>1, <2>2, <2>3, UsageOthers DEF TypeOK
<1>8. ASSUME NEW r \in Requests, ExecuteTool(r) \/ Consume(r) \/ Cancel(r) PROVE UsageInv'
  <2>1. UNCHANGED <<pc, usage, spent, got>>
    BY <1>8 DEF ExecuteTool, Consume, Cancel, reqVars
  <2> QED BY <2>1 DEF UsageInv, UsageInvOf
<1>9. CASE UNCHANGED vars
  BY <1>9 DEF vars, reqVars, UsageInv, UsageInvOf
<1> QED BY <1>1, <1>2, <1>4, <1>5, <1>6, <1>7, <1>8, <1>9 DEF Next, Run

\* When every stream reports its usage once, a turn that reaches the persister has
\* counted exactly what it was charged, over the first call and every iteration
\* (LLMInvoker.Process, ToolExecutor.Process).
THEOREM UsageIsSpentHolds ==
  ASSUME UsageReports <= 1
  PROVE  Spec => []UsageIsSpent
<1>1. Init => UsageInv
  BY DEF Init, UsageInv, UsageInvOf, AfterStream
<1>2. TypeOK /\ UsageInv /\ [Next]_vars => UsageInv'
  BY UsageStep
<1>3. UsageInv => UsageIsSpent
  BY DEF UsageInv, UsageInvOf, AfterStream, UsageIsSpent
<1>4. Spec => []TypeOK
  BY TypeCorrect
<1> QED BY <1>1, <1>2, <1>3, <1>4, PTL DEF Spec

-----------------------------------------------------------------------------
(* The stored answer *)

\* FinalText of any stream.
FinalOf(s) ==
  {i \in DOMAIN s : s[i] = "text" /\ \A j \in DOMAIN s : j > i => s[j] # "tool_result"}

LEMMA FinalFinite ==
  ASSUME NEW s \in Seq(Chunks)
  PROVE  IsFiniteSet(FinalOf(s)) /\ Cardinality(FinalOf(s)) \in Nat
<1>1. DOMAIN s = 1..Len(s) /\ Len(s) \in Nat
  BY LenProperties
<1>2. IsFiniteSet(1..Len(s))
  BY <1>1, FS_Interval
<1>3. FinalOf(s) \subseteq 1..Len(s)
  BY <1>1 DEF FinalOf
<1> QED BY <1>2, <1>3, FS_Subset, FS_CardinalityType

LEMMA FinalEmpty == FinalOf(<<>>) = {} /\ Cardinality({}) = 0
BY FS_EmptySet DEF FinalOf

\* A text chunk belongs to the final text, a tool result makes it start again and
\* a terminal chunk leaves it alone.
LEMMA FinalAppend ==
  ASSUME NEW s \in Seq(Chunks), NEW chunk \in Chunks
  PROVE  /\ chunk = "text" =>
              Cardinality(FinalOf(Append(s, chunk))) = Cardinality(FinalOf(s)) + 1
         /\ chunk = "tool_result" => FinalOf(Append(s, chunk)) = {}
         /\ chunk \in {"done", "error"} => FinalOf(Append(s, chunk)) = FinalOf(s)
<1> DEFINE n == Len(s) + 1
           a == Append(s, chunk)
<1>1. DOMAIN s = 1..Len(s) /\ Len(s) \in Nat
  BY LenProperties
<1>2. /\ a \in Seq(Chunks) /\ Len(a) = n /\ a[n] = chunk
      /\ \A i \in 1..Len(s) : a[i] = s[i]
  BY AppendProperties
<1>3. DOMAIN a = 1..n
  BY <1>2, LenProperties
<1>4. DOMAIN a = (DOMAIN s) \cup {n} /\ n \notin DOMAIN s /\ n \in Nat
  BY <1>1, <1>3
<1>5. \A i \in DOMAIN s : i \in Nat /\ i < n /\ a[i] = s[i]
  BY <1>1, <1>2
<1> HIDE DEF a, n
<1>6. CASE chunk = "text"
  <2>1. FinalOf(a) = FinalOf(s) \cup {n}
    BY <1>2, <1>4, <1>5, <1>6 DEF FinalOf
  <2>2. n \notin FinalOf(s)
    BY <1>4 DEF FinalOf
  <2>3. Cardinality(FinalOf(s) \cup {n}) = Cardinality(FinalOf(s)) + 1
    BY <2>2, FinalFinite, FS_AddElement
  <2> QED BY <1>6, <2>1, <2>3 DEF a
<1>7. CASE chunk = "tool_result"
  <2>1. FinalOf(a) = {}
    BY <1>2, <1>4, <1>5, <1>7 DEF FinalOf
  <2> QED BY <1>7, <2>1 DEF a
<1>8. CASE chunk \in {"done", "error"}
  <2>1. FinalOf(a) = FinalOf(s)
    BY <1>2, <1>4, <1>5, <1>8 DEF FinalOf
  <2> QED BY <1>8, <2>1 DEF a
<1> QED BY <1>6, <1>7, <1>8 DEF Chunks

\* A request's rows and what they say.
RowsKept(q) ==
  \A role \in {"user", "assistant"} :
    /\ RowsOf(q, role)' = RowsOf(q, role)
    /\ \A i \in RowsOf(q, role) : rows'[KeyOf[q]][i] = rows[KeyOf[q]][i]

\* What a step of another request leaves alone.
Untouched(q) ==
  /\ UNCHANGED <<pc[q], content[q], results[q]>>
  /\ Stream(q)' = Stream(q)
  /\ RowsKept(q)

LEMMA StreamsQuiet ==
  ASSUME UNCHANGED chanVars, NEW q \in Requests
  PROVE  Stream(q)' = Stream(q)
BY DEF chanVars, Stream

LEMMA RowsQuiet ==
  ASSUME UNCHANGED rows, NEW q \in Requests
  PROVE  RowsKept(q)
BY DEF RowsKept, RowsOf

\* Rows are appended, so those of the other turns stay.
LEMMA RowsInserted ==
  ASSUME TypeOK, NEW r \in Requests, NEW row \in Row, row.turn = r, Insert(r, row),
         NEW q \in Requests \ {r}
  PROVE  RowsKept(q)
<1>1. CASE UNCHANGED rows
  BY <1>1, RowsQuiet
<1>2. CASE Stores(r, row)
  <2>1. PICK n : n = Len(rows[KeyOf[r]]) + 1
    OBVIOUS
  <2>2. q \in Requests /\ q # r
    OBVIOUS
  <2>3. ASSUME NEW role \in {"user", "assistant"}
        PROVE  /\ RowsOf(q, role)' = RowsOf(q, role)
               /\ \A i \in RowsOf(q, role) : rows'[KeyOf[q]][i] = rows[KeyOf[q]][i]
    BY <1>2, <2>1, <2>2, InsertRows
  <2> QED BY <2>3 DEF RowsKept
<1> QED BY <1>1, <1>2 DEF Insert, Stores

LEMMA OthersUntouched ==
  ASSUME TypeOK, NEW r \in Requests,
         Execute(r) \/ Run(r) \/ Summarized(r) \/ Consume(r) \/ Cancel(r),
         NEW q \in Requests \ {r}
  PROVE  Untouched(q)
<1>1. CASE \/ Execute(r) \/ ResolveSession(r) \/ BuildPrompt(r) \/ InvokeLLM(r)
           \/ StartCompaction(r) \/ Summarized(r) \/ RecvToolCall(r) \/ RecvUsage(r)
           \/ RecvError(r) \/ StreamEnd(r) \/ BeginIteration(r) \/ LeaveToolLoop(r)
           \/ ReturnResults(r) \/ UpdateTokens(r) \/ CloseOutput(r) \/ Cancel(r)
  <2>1. UNCHANGED chanVars /\ UNCHANGED rows
    BY <1>1 DEF Execute, ResolveSession, BuildPrompt, InvokeLLM, StartCompaction, Summarized,
                RecvToolCall, RecvUsage, RecvError, StreamEnd, BeginIteration, LeaveToolLoop,
                ReturnResults, UpdateTokens, CloseOutput, Cancel, chanVars, dbVars
  <2>2. UNCHANGED <<pc[q], content[q], results[q]>>
    BY <1>1 DEF Execute, ResolveSession, BuildPrompt, InvokeLLM, StartCompaction, Summarized,
                RecvToolCall, RecvUsage, RecvError, StreamEnd, BeginIteration, LeaveToolLoop,
                ReturnResults, UpdateTokens, CloseOutput, Cancel, OpenStream, Goto, reqVars, TypeOK
  <2> QED BY <2>1, <2>2, StreamsQuiet, RowsQuiet DEF Untouched
<1>2. CASE RecvText(r) \/ ExecuteTool(r) \/ SendDone(r) \/ SendError(r)
  <2>1. PICK chunk \in Chunks : Emit(r, chunk)
    BY <1>2 DEF RecvText, ExecuteTool, SendDone, SendError, Chunks
  <2>2. Stream(q)' = Stream(q)
    BY <2>1, EmitStream
  <2>3. UNCHANGED rows
    BY <1>2 DEF RecvText, ExecuteTool, SendDone, SendError, dbVars
  <2>4. UNCHANGED <<pc[q], content[q], results[q]>>
    BY <1>2 DEF RecvText, ExecuteTool, SendDone, SendError, Goto, reqVars, TypeOK
  <2> QED BY <2>2, <2>3, <2>4, RowsQuiet DEF Untouched
<1>3. CASE PersistUser(r) \/ PersistAssistant(r)
  <2>1. UNCHANGED chanVars
    BY <1>3 DEF PersistUser, PersistAssistant
  <2>2. UNCHANGED <<pc[q], content[q], results[q]>>
    BY <1>3 DEF PersistUser, PersistAssistant, Goto, reqVars, TypeOK
  <2>3. RowsKept(q)
    <3>1. \A role \in {"user", "assistant"}, text \in Nat :
            [role |-> role, turn |-> r, text |-> text] \in Row
      BY DEF Row
    <3>2. CASE UNCHANGED rows
      BY <3>2, RowsQuiet
    <3>3. CASE PersistUser(r)
      BY <3>1, <3>3, RowsInserted DEF PersistUser
    <3>4. CASE PersistAssistant(r) /\ content[r] > 0
      <4>1. content[r] \in Nat
        BY DEF TypeOK
      <4> QED BY <3>1, <3>4, <4>1, RowsInserted DEF PersistAssistant
    <3> QED BY <1>3, <3>2, <3>3, <3>4 DEF PersistAssistant
  <2> QED BY <2>1, <2>2, <2>3, StreamsQuiet DEF Untouched
<1>4. CASE Consume(r)
  <2>1. UNCHANGED <<pc[q], content[q], results[q], rows>>
    BY <1>4 DEF Consume, reqVars, dbVars
  <2> QED BY <1>4, <2>1, ConsumeStream, RowsQuiet DEF Untouched
<1> QED BY <1>1, <1>2, <1>3, <1>4 DEF Run

Counting == {"llm_stream", "tool_executor", "loop_stream", "persist_user", "persist_assistant"}
Storing == {"persist_assistant", "update_tokens", "finished", "closing", "closed"}
Storing2 == Storing \ {"persist_assistant"}

\* AnswerIsFinalText, with what makes it inductive: AssistantContent counts the
\* text since the last tool result, and nothing of the turn is stored before its
\* persister runs.
AnswerInvOf(r) ==
  /\ pc[r] \in BeforeStream => Stream(r) = <<>> /\ content[r] = 0
  /\ pc[r] \in Counting => content[r] = Cardinality(FinalOf(Stream(r)))
  /\ pc[r] = "executing" =>
       content[r] = 0 /\ (results[r] # <<>> => FinalOf(Stream(r)) = {})
  /\ pc[r] \notin Storing => RowsOf(r, "user") = {}
  /\ pc[r] \notin Storing2 => RowsOf(r, "assistant") = {}
  /\ \A i \in RowsOf(r, "assistant") : rows[KeyOf[r]][i].text = Cardinality(FinalOf(Stream(r)))

AnswerInv == \A r \in Requests : AnswerInvOf(r)

LEMMA AnswerUntouched ==
  ASSUME NEW q \in Requests, AnswerInvOf(q), Untouched(q)
  PROVE  AnswerInvOf(q)'
<1>1. FinalOf(Stream(q))' = FinalOf(Stream(q))
  BY DEF Untouched, FinalOf
<1>2. /\ RowsOf(q, "user")' = RowsOf(q, "user") /\ RowsOf(q, "assistant")' = RowsOf(q, "assistant")
      /\ \A i \in RowsOf(q, "assistant") : rows'[KeyOf[q]][i] = rows[KeyOf[q]][i]
  BY DEF Untouched, RowsKept
<1>3. pc'[q] = pc[q] /\ content'[q] = content[q] /\ results'[q] = results[q]
      /\ Stream(q)' = Stream(q)
  BY DEF Untouched
<1> QED BY <1>1, <1>2, <1>3 DEF AnswerInvOf

\* A step between stages that streams nothing, stores nothing and counts nothing.
LEMMA AnswerMoved ==
  ASSUME NEW r \in Requests, AnswerInvOf(r), Stream(r)' = Stream(r), RowsKept(r),
         content'[r] = content[r],
         pc'[r] \in BeforeStream => pc[r] \in BeforeStream,
         pc'[r] \in Counting => pc[r] \in Counting,
         pc'[r] # "executing",
         pc[r] \in Storing => pc'[r] \in Storing,
         pc[r] \in Storing2 => pc'[r] \in Storing2
  PROVE  AnswerInvOf(r)'
<1>1. FinalOf(Stream(r))' = FinalOf(Stream(r))
  BY DEF FinalOf
<1>2. /\ RowsOf(r, "user")' = RowsOf(r, "user") /\ RowsOf(r, "assistant")' = RowsOf(r, "assistant")
      /\ \A i \in RowsOf(r, "assistant") : rows'[KeyOf[r]][i] = rows[KeyOf[r]][i]
  BY DEF RowsKept
<1> QED BY <1>1, <1>2 DEF AnswerInvOf

\* A stream is opened when no text has been counted since the last tool result.
LEMMA AnswerOpened ==
  ASSUME TypeOK, NEW r \in Requests, AnswerInvOf(r), FinalOf(Stream(r)) = {},
         pc[r] \notin Storing, UNCHANGED chanVars, UNCHANGED rows,
         NEW from, NEW m, NEW stream \in {"llm_stream", "loop_stream"},
         OpenStream(r, from, m, stream)
  PROVE  AnswerInvOf(r)'
<1>1. Stream(r)' = Stream(r) /\ RowsKept(r)
  BY StreamsQuiet, RowsQuiet
<1>2. FinalOf(Stream(r))' = {}
  BY <1>1 DEF FinalOf
<1>3. RowsOf(r, "user")' = {} /\ RowsOf(r, "assistant")' = {}
  BY <1>1 DEF RowsKept, AnswerInvOf, Storing2
<1>4. pc'[r] = "failed" \/ (pc'[r] = stream /\ content'[r] = 0)
  BY DEF OpenStream, Goto, TypeOK
<1>5. Cardinality({}) = 0
  BY FS_EmptySet
<1> QED BY <1>2, <1>3, <1>4, <1>5 DEF AnswerInvOf, BeforeStream, Counting, Storing, Storing2

LEMMA AnswerStep == TypeInv /\ PairInv /\ AnswerInv /\ [Next]_vars => AnswerInv'
<1> SUFFICES ASSUME TypeInv, PairInv, AnswerInv, [Next]_vars PROVE AnswerInv'
  OBVIOUS
<1>0. TypeOK
  BY DEF TypeInv
<1>1. CASE UNCHANGED vars
  <2>1. \A q \in Requests : AnswerInvOf(q) /\ Untouched(q)
    BY <1>1, StreamsQuiet, RowsQuiet DEF vars, reqVars, chanVars, dbVars, Untouched, AnswerInv
  <2> QED BY <2>1, AnswerUntouched DEF AnswerInv
<1>2. ASSUME NEW r \in Requests,
             Execute(r) \/ Run(r) \/ Summarized(r) \/ Consume(r) \/ Cancel(r)
      PROVE  AnswerInv'
  <2> SUFFICES AnswerInvOf(r)'
    <3>1. \A q \in Requests \ {r} : AnswerInvOf(q) /\ Untouched(q)
      BY <1>0, <1>2, OthersUntouched DEF AnswerInv
    <3> QED BY <3>1, AnswerUntouched DEF AnswerInv
  <2>0. AnswerInvOf(r) /\ Stream(r) \in Seq(Chunks)
    BY <1>0, StreamType DEF AnswerInv
  <2>1. CASE \/ Execute(r) \/ ResolveSession(r) \/ BuildPrompt(r) \/ StartCompaction(r)
             \/ RecvError(r) \/ StreamEnd(r) \/ LeaveToolLoop(r) \/ UpdateTokens(r) \/ CloseOutput(r)
    <3>1. UNCHANGED chanVars /\ UNCHANGED rows /\ content'[r] = content[r]
      BY <2>1 DEF Execute, ResolveSession, BuildPrompt, StartCompaction, RecvError, StreamEnd,
                  LeaveToolLoop, UpdateTokens, CloseOutput, chanVars, dbVars, reqVars
    <3>2. \E to \in Stages : /\ pc'[r] = to /\ to # "executing"
                             /\ to \in BeforeStream => pc[r] \in BeforeStream
                             /\ to \in Counting => pc[r] \in Counting
                             /\ pc[r] \in Storing => to \in Storing
                             /\ pc[r] \in Storing2 => to \in Storing2
      BY <1>0, <2>1 DEF Execute, ResolveSession, BuildPrompt, StartCompaction, RecvError, StreamEnd,
                  LeaveToolLoop, UpdateTokens, CloseOutput, Goto, TypeOK, Stages,
                  BeforeStream, Counting, Storing, Storing2
    <3> QED BY <2>0, <3>1, <3>2, StreamsQuiet, RowsQuiet, AnswerMoved
  <2>2. CASE RecvToolCall(r) \/ RecvUsage(r) \/ Cancel(r)
    <3>1. UNCHANGED chanVars /\ UNCHANGED rows /\ UNCHANGED <<pc[r], content[r], results[r]>>
      BY <2>2 DEF RecvToolCall, RecvUsage, Cancel, chanVars, dbVars, reqVars
    <3> QED BY <2>0, <3>1, StreamsQuiet, RowsQuiet, AnswerUntouched DEF Untouched
  <2>3. CASE Consume(r)
    <3>1. UNCHANGED rows /\ UNCHANGED <<pc[r], content[r], results[r]>>
      BY <2>3 DEF Consume, dbVars, reqVars
    <3>2. Stream(r)' = Stream(r)
      BY <1>0, <2>3, ConsumeStream
    <3> QED BY <2>0, <3>1, <3>2, RowsQuiet, AnswerUntouched DEF Untouched
  <2>4. CASE InvokeLLM(r) \/ Summarized(r)
    <3>1. pc[r] \in BeforeStream /\ pc[r] \notin Storing
      BY <2>4 DEF InvokeLLM, Summarized, OpenStream, Goto, BeforeStream, Storing
    <3>2. FinalOf(Stream(r)) = {}
      BY <2>0, <3>1, FinalEmpty DEF AnswerInvOf
    <3>3. UNCHANGED chanVars /\ UNCHANGED rows
      BY <2>4 DEF InvokeLLM, Summarized, dbVars
    <3>4. \E from, m : OpenStream(r, from, m, "llm_stream")
      BY <2>4 DEF InvokeLLM, Summarized
    <3> QED BY <1>0, <2>0, <3>1, <3>2, <3>3, <3>4, AnswerOpened
  <2>5. CASE ReturnResults(r)
    <3>1. pc[r] = "executing" /\ Len(results[r]) = Len(calls[r]) /\ calls[r] # <<>>
      BY <2>5 DEF ReturnResults, PairInv, PairInvOf
    <3>2. calls[r] \in Seq(Tools) /\ results[r] \in Seq(Tools)
      BY <1>0 DEF TypeOK
    <3>3. results[r] # <<>>
      BY <3>1, <3>2, EmptySeq
    <3>4. FinalOf(Stream(r)) = {} /\ pc[r] \notin Storing
      BY <2>0, <3>1, <3>3 DEF AnswerInvOf, Storing
    <3>5. UNCHANGED chanVars /\ UNCHANGED rows
      BY <2>5 DEF ReturnResults, dbVars
    <3>6. \E m : OpenStream(r, "executing", m, "loop_stream")
      BY <2>5 DEF ReturnResults
    <3> QED BY <1>0, <2>0, <3>4, <3>5, <3>6, AnswerOpened
  <2>6. CASE BeginIteration(r)
    <3>1. pc'[r] = "executing" /\ content'[r] = 0 /\ results'[r] = <<>> /\ pc[r] = "tool_executor"
      BY <1>0, <2>6 DEF BeginIteration, Goto, TypeOK
    <3>2. RowsKept(r)
      BY <2>6, RowsQuiet DEF BeginIteration, dbVars
    <3>3. RowsOf(r, "user")' = {} /\ RowsOf(r, "assistant")' = {}
      BY <2>0, <3>1, <3>2 DEF RowsKept, AnswerInvOf, Storing, Storing2
    <3> QED BY <3>1, <3>3 DEF AnswerInvOf, BeforeStream, Counting
  <2>7. CASE RecvText(r)
    <3>1. /\ pc'[r] = pc[r] /\ pc[r] \in {"llm_stream", "loop_stream"}
          /\ content'[r] = content[r] + 1 /\ Emit(r, "text") /\ UNCHANGED rows
      BY <1>0, <2>7 DEF RecvText, Streaming, TextSoFar, TypeOK, dbVars
    <3>2. Stream(r)' = Append(Stream(r), "text")
      BY <1>0, <3>1, EmitStream DEF Chunks
    <3>3. Cardinality(FinalOf(Stream(r)))' = Cardinality(FinalOf(Stream(r))) + 1
      <4>1. Cardinality(FinalOf(Append(Stream(r), "text"))) = Cardinality(FinalOf(Stream(r))) + 1
        BY <2>0, FinalAppend DEF Chunks
      <4>2. FinalOf(Stream(r))' = FinalOf(Append(Stream(r), "text"))
        BY <3>2 DEF FinalOf
      <4> QED BY <4>1, <4>2
    <3>4. RowsOf(r, "user")' = {} /\ RowsOf(r, "assistant")' = {}
      BY <2>0, <3>1, RowsQuiet DEF RowsKept, AnswerInvOf, Storing, Storing2
    <3> QED BY <2>0, <3>1, <3>3, <3>4 DEF AnswerInvOf, BeforeStream, Counting
  <2>8. CASE ExecuteTool(r)
    <3>1. /\ pc'[r] = "executing" /\ pc[r] = "executing" /\ content'[r] = content[r]
          /\ Emit(r, "tool_result") /\ UNCHANGED rows
      BY <2>8 DEF ExecuteTool, dbVars
    <3>2. Stream(r)' = Append(Stream(r), "tool_result")
      BY <1>0, <3>1, EmitStream DEF Chunks
    <3>3. FinalOf(Stream(r))' = {}
      <4>1. FinalOf(Append(Stream(r), "tool_result")) = {}
        BY <2>0, FinalAppend DEF Chunks
      <4>2. FinalOf(Stream(r))' = FinalOf(Append(Stream(r), "tool_result"))
        BY <3>2 DEF FinalOf
      <4> QED BY <4>1, <4>2
    <3>4. RowsOf(r, "user")' = {} /\ RowsOf(r, "assistant")' = {}
      BY <2>0, <3>1, RowsQuiet DEF RowsKept, AnswerInvOf, Storing, Storing2
    <3> QED BY <2>0, <3>1, <3>3, <3>4 DEF AnswerInvOf, BeforeStream, Counting
  <2>9. CASE SendDone(r) \/ SendError(r)
    <3>1. PICK chunk \in {"done", "error"} : Emit(r, chunk)
      BY <2>9 DEF SendDone, SendError
    <3>2. pc'[r] = "closing" /\ UNCHANGED rows
      BY <1>0, <2>9 DEF SendDone, SendError, Goto, TypeOK, dbVars
    <3>3. Stream(r)' = Append(Stream(r), chunk)
      BY <1>0, <3>1, EmitStream DEF Chunks
    <3>4. FinalOf(Stream(r))' = FinalOf(Stream(r))
      <4>1. FinalOf(Append(Stream(r), chunk)) = FinalOf(Stream(r))
        BY <2>0, FinalAppend DEF Chunks
      <4>2. FinalOf(Stream(r))' = FinalOf(Append(Stream(r), chunk))
        BY <3>3 DEF FinalOf
      <4> QED BY <4>1, <4>2
    <3>5. /\ RowsOf(r, "assistant")' = RowsOf(r, "assistant")
          /\ \A i \in RowsOf(r, "assistant") : rows'[KeyOf[r]][i] = rows[KeyOf[r]][i]
      BY <3>2, RowsQuiet DEF RowsKept
    <3> QED BY <2>0, <3>2, <3>4, <3>5
      DEF AnswerInvOf, BeforeStream, Counting, Storing, Storing2
  <2>10. CASE PersistUser(r)
    <3>1. /\ pc[r] = "persist_user" /\ pc'[r] = "persist_assistant" /\ content'[r] = content[r]
          /\ UNCHANGED chanVars
      BY <1>0, <2>10 DEF PersistUser, Goto, TypeOK, reqVars
    <3>2. FinalOf(Stream(r))' = FinalOf(Stream(r))
      BY <3>1, StreamsQuiet DEF FinalOf
    <3>3. RowsOf(r, "assistant")' = {}
      <4>1. RowsOf(r, "assistant") = {}
        BY <2>0, <3>1 DEF AnswerInvOf, Storing, Storing2
      <4> DEFINE row == [role |-> "user", turn |-> r, text |-> 1]
      <4>2. row \in Row /\ row.turn = r /\ row.role = "user"
        BY DEF Row
      <4>3. Stores(r, row) \/ UNCHANGED rows
        BY <2>10 DEF PersistUser, Insert, Stores
      <4> HIDE DEF row
      <4>4. PICK n : n = Len(rows[KeyOf[r]]) + 1
        OBVIOUS
      <4>5. CASE Stores(r, row)
        BY <1>0, <4>1, <4>2, <4>4, <4>5, InsertRows
      <4>6. CASE UNCHANGED rows
        BY <4>1, <4>6, RowsQuiet DEF RowsKept
      <4> QED BY <4>3, <4>5, <4>6
    <3> QED BY <2>0, <3>1, <3>2, <3>3
      DEF AnswerInvOf, BeforeStream, Counting, Storing, Storing2
  <2>11. CASE PersistAssistant(r)
    <3>1. /\ pc[r] = "persist_assistant" /\ pc'[r] = "update_tokens" /\ content'[r] = content[r]
          /\ UNCHANGED chanVars
      BY <1>0, <2>11 DEF PersistAssistant, Goto, TypeOK, reqVars
    <3>2. FinalOf(Stream(r))' = FinalOf(Stream(r))
      BY <3>1, StreamsQuiet DEF FinalOf
    <3>3. content[r] = Cardinality(FinalOf(Stream(r))) /\ RowsOf(r, "assistant") = {}
      BY <2>0, <3>1 DEF AnswerInvOf, Counting, Storing2
    <3>4. \A i \in RowsOf(r, "assistant")' : rows'[KeyOf[r]][i].text = content[r]
      <4> DEFINE row == [role |-> "assistant", turn |-> r, text |-> content[r]]
      <4>1. row \in Row /\ row.turn = r /\ row.role = "assistant" /\ row.text = content[r]
        BY <1>0 DEF Row, TypeOK
      <4>2. Stores(r, row) \/ UNCHANGED rows
        BY <2>11 DEF PersistAssistant, Insert, Stores
      <4> HIDE DEF row
      <4>3. PICK n : n = Len(rows[KeyOf[r]]) + 1
        OBVIOUS
      <4>4. CASE Stores(r, row)
        <5>1. RowsOf(r, "assistant")' = RowsOf(r, "assistant") \cup {n} /\ rows'[KeyOf[r]][n] = row
          BY <1>0, <4>1, <4>3, <4>4, InsertRows
        <5> QED BY <3>3, <4>1, <5>1
      <4>5. CASE UNCHANGED rows
        BY <3>3, <4>5, RowsQuiet DEF RowsKept
      <4> QED BY <4>2, <4>4, <4>5
    <3> QED BY <3>1, <3>2, <3>3, <3>4
      DEF AnswerInvOf, BeforeStream, Counting, Storing, Storing2
  <2> QED BY <1>2, <2>1, <2>2, <2>3, <2>4, <2>5, <2>6, <2>7, <2>8, <2>9, <2>10, <2>11 DEF Run
<1> QED BY <1>1, <1>2 DEF Next

\* No row belongs to a request before it runs: sessions start with turns that are
\* over.
LEMMA NoRowsYet == Init => \A r \in Requests : \A role : RowsOf(r, role) = {}
<1> SUFFICES ASSUME Init, NEW r \in Requests, NEW role PROVE RowsOf(r, role) = {}
  OBVIOUS
<1>1. PICK n \in EarlierTurns : rows[KeyOf[r]] = Answered(n)
  <2>1. KeyOf[r] \in Keys
    BY PipelineAssumption
  <2> QED BY <2>1 DEF Init
<1>2. n \in Nat /\ r \notin Nat
  BY PipelineAssumption
<1>3. ASSUME NEW i \in DOMAIN Answered(n) PROVE Answered(n)[i].turn # r
  <2>1. i \in 1..(2 * n)
    BY DEF Answered
  <2>2. Answered(n)[i].turn = (i + 1) \div 2
    BY <2>1 DEF Answered
  <2>3. (i + 1) \div 2 \in Nat
    BY <1>2, <2>1
  <2> QED BY <1>2, <2>2, <2>3
<1> QED BY <1>1, <1>3 DEF RowsOf

LEMMA AnswerInit == Init => AnswerInv
<1> SUFFICES ASSUME Init, NEW r \in Requests PROVE AnswerInvOf(r)
  BY DEF AnswerInv
<1>1. RowsOf(r, "user") = {} /\ RowsOf(r, "assistant") = {}
  BY NoRowsYet
<1>2. pc[r] = "idle" /\ content[r] = 0 /\ delivered[r] = <<>> /\ out[r] = <<>>
  BY DEF Init
<1>3. Stream(r) = <<>>
  BY <1>2 DEF Stream
<1> QED BY <1>1, <1>2, <1>3 DEF AnswerInvOf, Counting

\* What is known of every reachable state.
TurnInv == TypeInv /\ PairInv /\ AnswerInv

LEMMA TurnInvHolds == Spec => []TurnInv
<1>1. Init => TypeInv /\ PairInv /\ AnswerInv
  <2>1. Init => PairInv
    BY EmptySeq DEF Init, PairInv, PairInvOf, Paired
  <2> QED BY <2>1, TypeInit, AnswerInit
<1>2. (TypeInv /\ PairInv /\ AnswerInv) /\ [Next]_vars => (TypeInv /\ PairInv /\ AnswerInv)'
  BY TypeStep, PairStep, AnswerStep
<1> QED BY <1>1, <1>2, PTL DEF Spec, TurnInv

\* The answer a turn stores is the text its consumer was shown after the last tool
\* result, no more and no less, however turns interleave on a session and wherever
\* they are cancelled (SessionPersister.Process, the stream loops).
THEOREM AnswerIsFinalTextHolds == Spec => []AnswerIsFinalText
<1>1. TurnInv => AnswerIsFinalText
  BY DEF TurnInv, AnswerInv, AnswerInvOf, AnswerIsFinalText, FinalText, FinalOf
<1> QED BY <1>1, TurnInvHolds, PTL

-----------------------------------------------------------------------------
(* Pipeline implements Turn *)

\* TurnPhase of any stage and stream.
PhaseOf(stage, stream) ==
  CASE stage = "idle" -> "waiting"
    [] stage \in {"persist_user", "persist_assistant", "update_tokens", "finished"} -> "saving"
    [] stage = "closing" /\ stream[Len(stream)] = "done" -> "completed"
    [] stage = "closing" /\ stream[Len(stream)] # "done" -> "abandoned"
    [] stage = "closed" -> "closed"
    [] OTHER -> "answering"

LEMMA TurnPhaseIs ==
  ASSUME NEW r \in Requests
  PROVE  /\ TurnPhase(r) = PhaseOf(pc[r], Stream(r))
         /\ TurnPhase(r)' = PhaseOf(pc'[r], Stream(r)')
BY DEF TurnPhase, PhaseOf

Saving == {"persist_user", "persist_assistant", "update_tokens", "finished"}
Answering == Stages \ (Saving \cup {"idle", "closing", "closed"})

LEMMA PhaseValues ==
  ASSUME NEW stage \in Stages, NEW stream
  PROVE  /\ stage = "idle" => PhaseOf(stage, stream) = "waiting"
         /\ stage \in Saving => PhaseOf(stage, stream) = "saving"
         /\ stage = "closing" /\ stream[Len(stream)] = "done" =>
              PhaseOf(stage, stream) = "completed"
         /\ stage = "closing" /\ stream[Len(stream)] # "done" =>
              PhaseOf(stage, stream) = "abandoned"
         /\ stage = "closed" => PhaseOf(stage, stream) = "closed"
         /\ stage \in Answering => PhaseOf(stage, stream) = "answering"
BY DEF PhaseOf, Saving, Answering, Stages

\* The refinement mapping.
Phase == [r \in Requests |-> TurnPhase(r)]
Shown == [r \in Requests |-> Stream(r)]
SavedOf(r) == [user |-> Cardinality(RowsOf(r, "user")),
               assistant |-> Cardinality(RowsOf(r, "assistant"))]
Saved == [r \in Requests |-> SavedOf(r)]

\* A step of one request changes one entry of each abstract variable.
LEMMA OneMapped ==
  ASSUME NEW r \in Requests, \A q \in Requests \ {r} : Untouched(q)
  PROVE  /\ Phase' = [Phase EXCEPT ![r] = PhaseOf(pc'[r], Stream(r)')]
         /\ Shown' = [Shown EXCEPT ![r] = Stream(r)']
         /\ Saved' = [Saved EXCEPT ![r] = SavedOf(r)']
<1>1. \A q \in Requests \ {r} : TurnPhase(q)' = TurnPhase(q) /\ Stream(q)' = Stream(q)
  BY TurnPhaseIs DEF Untouched
<1>2. \A q \in Requests \ {r} : SavedOf(q)' = SavedOf(q)
  BY DEF Untouched, RowsKept, SavedOf
<1>3. TurnPhase(r)' = PhaseOf(pc'[r], Stream(r)')
  BY TurnPhaseIs
<1> QED BY <1>1, <1>2, <1>3 DEF Phase, Shown, Saved

\* A step that its consumer and the messages table do not see.
LEMMA Stutters ==
  ASSUME NEW r \in Requests, \A q \in Requests \ {r} : Untouched(q),
         PhaseOf(pc'[r], Stream(r)') = PhaseOf(pc[r], Stream(r)),
         Stream(r)' = Stream(r), RowsKept(r)
  PROVE  UNCHANGED <<Phase, Shown, Saved>>
<1>1. SavedOf(r)' = SavedOf(r)
  BY DEF RowsKept, SavedOf
<1>2. Phase[r] = PhaseOf(pc[r], Stream(r)) /\ Shown[r] = Stream(r) /\ Saved[r] = SavedOf(r)
  BY TurnPhaseIs DEF Phase, Shown, Saved
<1> QED BY <1>1, <1>2, OneMapped DEF Phase, Shown, Saved

\* The rest of the entries of a step that stores nothing.
LEMMA SavedQuiet ==
  ASSUME NEW r \in Requests, \A q \in Requests \ {r} : Untouched(q), UNCHANGED rows
  PROVE  Saved' = Saved
BY DEF Saved, SavedOf, RowsOf

LEMMA ShownQuiet ==
  ASSUME UNCHANGED chanVars
  PROVE  Shown' = Shown
BY DEF Shown, Stream, chanVars

LEMMA TurnInitRefined == Init => T!Init
<1> SUFFICES ASSUME Init PROVE T!Init
  OBVIOUS
<1>1. \A r \in Requests : TurnPhase(r) = "waiting"
  <2>1. \A r \in Requests : pc[r] = "idle" /\ "idle" \in Stages
    BY DEF Init, Stages
  <2> QED BY <2>1, TurnPhaseIs, PhaseValues
<1>2. \A r \in Requests : Stream(r) = <<>>
  BY DEF Init, Stream
<1>3. \A r \in Requests : Cardinality(RowsOf(r, "user")) = 0 /\ Cardinality(RowsOf(r, "assistant")) = 0
  BY NoRowsYet, FS_EmptySet
<1> QED BY <1>1, <1>2, <1>3 DEF T!Init

\* What a step of one request is in module Turn.
TurnAction(r) ==
  \/ T!Begin(r) \/ T!Show(r) \/ T!StartSaving(r) \/ T!SaveQuestion(r) \/ T!SaveAnswer(r)
  \/ T!Complete(r) \/ T!Abandon(r) \/ T!Close(r)

LEMMA TurnStepRefined ==
  ASSUME TurnInv, NEW r \in Requests,
         Execute(r) \/ Run(r) \/ Summarized(r) \/ Consume(r) \/ Cancel(r)
  PROVE  TurnAction(r) \/ UNCHANGED <<Phase, Shown, Saved>>
<1>0. /\ TypeOK /\ AnswerInvOf(r) /\ PairInv
      /\ \A q \in Requests \ {r} : Untouched(q)
      /\ pc[r] \in Stages /\ Stream(r) \in Seq(Chunks)
  BY OthersUntouched, StreamType DEF TurnInv, TypeInv, AnswerInv, TypeOK
<1> DEFINE s == Stream(r)
<1>p. /\ Phase[r] = PhaseOf(pc[r], s) /\ Shown[r] = s /\ Saved[r] = SavedOf(r)
  BY TurnPhaseIs DEF Phase, Shown, Saved
<1>m. /\ Phase' = [Phase EXCEPT ![r] = PhaseOf(pc'[r], s')]
      /\ Shown' = [Shown EXCEPT ![r] = s']
      /\ Saved' = [Saved EXCEPT ![r] = SavedOf(r)']
  BY <1>0, OneMapped
<1>1. CASE Execute(r)
  <2>1. pc[r] = "idle" /\ pc'[r] = "session_resolver" /\ UNCHANGED chanVars /\ UNCHANGED rows
    BY <1>0, <1>1 DEF Execute, Goto, TypeOK, dbVars
  <2>2. PhaseOf(pc[r], s) = "waiting" /\ PhaseOf(pc'[r], s') = "answering"
    BY <1>0, <2>1, PhaseValues DEF Answering, Saving, Stages
  <2>3. Shown' = Shown /\ Saved' = Saved
    BY <1>0, <2>1, SavedQuiet, ShownQuiet
  <2> QED BY <1>p, <1>m, <2>2, <2>3 DEF TurnAction, T!Begin, T!Move, Phase, Shown, Saved, SavedOf
<1>same. ASSUME PhaseOf(pc'[r], s') = PhaseOf(pc[r], s) PROVE Phase' = Phase
  BY <1>p, <1>m, <1>same DEF Phase
<1>2. CASE \/ ResolveSession(r) \/ BuildPrompt(r) \/ InvokeLLM(r) \/ StartCompaction(r)
           \/ Summarized(r) \/ RecvToolCall(r) \/ RecvUsage(r) \/ RecvError(r)
           \/ BeginIteration(r) \/ ReturnResults(r) \/ StreamEnd(r)
  <2>1. pc[r] \in Answering /\ pc'[r] \in Answering
    <3>1. \/ \E from, to \in Answering : Goto(r, from, to)
          \/ pc[r] \in {"llm_stream", "loop_stream"} /\ UNCHANGED pc
      <4>1. CASE InvokeLLM(r) \/ Summarized(r) \/ ReturnResults(r)
        BY <4>1 DEF InvokeLLM, Summarized, ReturnResults, OpenStream, Answering, Saving, Stages
      <4>2. CASE ResolveSession(r) \/ BuildPrompt(r) \/ StartCompaction(r) \/ BeginIteration(r)
        BY <4>2 DEF ResolveSession, BuildPrompt, StartCompaction, BeginIteration,
                    Answering, Saving, Stages
      <4>3. CASE RecvError(r) \/ StreamEnd(r)
        BY <4>3 DEF RecvError, StreamEnd, Answering, Saving, Stages
      <4>4. CASE RecvToolCall(r) \/ RecvUsage(r)
        BY <4>4 DEF RecvToolCall, RecvUsage, Streaming
      <4> QED BY <1>2, <4>1, <4>2, <4>3, <4>4
    <3> QED BY <1>0, <3>1 DEF Goto, TypeOK, Answering, Saving, Stages
  <2>2. UNCHANGED chanVars /\ UNCHANGED rows
    BY <1>2 DEF ResolveSession, BuildPrompt, InvokeLLM, StartCompaction, Summarized,
       RecvToolCall, RecvUsage, RecvError, BeginIteration, ReturnResults, StreamEnd, dbVars, chanVars
  <2>3. PhaseOf(pc[r], s) = "answering" /\ PhaseOf(pc'[r], s') = "answering"
    BY <2>1, PhaseValues DEF Answering
  <2> QED BY <1>0, <2>2, <2>3, Stutters, StreamsQuiet, RowsQuiet
<1>3. CASE RecvText(r) \/ ExecuteTool(r)
  <2>1. PICK chunk \in {"text", "tool_result"} : Emit(r, chunk)
    BY <1>3 DEF RecvText, ExecuteTool
  <2>2. pc[r] \in Answering /\ pc'[r] = pc[r] /\ UNCHANGED rows
    BY <1>3 DEF RecvText, ExecuteTool, Streaming, Answering, Saving, Stages, dbVars
  <2>3. s' = Append(s, chunk)
    BY <1>0, <2>1, EmitStream DEF Chunks
  <2>4. PhaseOf(pc[r], s) = "answering" /\ PhaseOf(pc'[r], s') = "answering"
    BY <2>2, PhaseValues DEF Answering
  <2>5. Phase' = Phase /\ Saved' = Saved
    BY <1>0, <1>same, <2>2, <2>4, SavedQuiet
  <2> QED BY <1>p, <1>m, <2>3, <2>4, <2>5
    DEF TurnAction, T!Show, T!DataChunks, Phase, Shown, Saved, SavedOf
<1>4. CASE LeaveToolLoop(r)
  <2>1. /\ pc[r] = "tool_executor" /\ pc'[r] = "persist_user"
        /\ UNCHANGED chanVars /\ UNCHANGED rows
    BY <1>0, <1>4 DEF LeaveToolLoop, Goto, TypeOK, dbVars
  <2>2. PhaseOf(pc[r], s) = "answering" /\ PhaseOf(pc'[r], s') = "saving"
    BY <2>1, PhaseValues DEF Answering, Saving, Stages
  <2>3. Shown' = Shown /\ Saved' = Saved
    BY <1>0, <2>1, SavedQuiet, ShownQuiet
  <2> QED BY <1>p, <1>m, <2>2, <2>3
    DEF TurnAction, T!StartSaving, T!Move, Phase, Shown, Saved, SavedOf
<1>5. CASE PersistUser(r)
  <2>1. /\ pc[r] = "persist_user" /\ pc'[r] = "persist_assistant" /\ UNCHANGED chanVars
    BY <1>0, <1>5 DEF PersistUser, Goto, TypeOK
  <2>2. PhaseOf(pc[r], s) = "saving" /\ PhaseOf(pc'[r], s') = "saving"
    BY <2>1, PhaseValues DEF Saving, Stages
  <2>3. RowsOf(r, "user") = {} /\ RowsOf(r, "assistant") = {}
    BY <1>0, <2>1 DEF AnswerInvOf, Storing, Storing2
  <2> DEFINE row == [role |-> "user", turn |-> r, text |-> 1]
  <2>4. row \in Row /\ row.turn = r /\ row.role = "user"
    BY DEF Row
  <2>5. Stores(r, row) \/ UNCHANGED rows
    BY <1>5 DEF PersistUser, Insert, Stores
  <2> HIDE DEF row
  <2>6. CASE UNCHANGED rows
    BY <1>0, <2>1, <2>2, <2>6, Stutters, StreamsQuiet, RowsQuiet
  <2>7. CASE Stores(r, row)
    <3>1. PICK n : n = Len(rows[KeyOf[r]]) + 1
      OBVIOUS
    <3>2. RowsOf(r, "user")' = RowsOf(r, "user") \cup {n}
      BY <1>0, <2>4, <2>7, <3>1, InsertRows
    <3>3. RowsOf(r, "assistant")' = RowsOf(r, "assistant")
      BY <1>0, <2>4, <2>7, <3>1, InsertRows
    <3>4. Cardinality({}) = 0 /\ Cardinality({n}) = 1
      BY FS_EmptySet, FS_Singleton
    <3>5. /\ SavedOf(r) = [user |-> 0, assistant |-> 0]
          /\ SavedOf(r)' = [SavedOf(r) EXCEPT !.user = 1]
      BY <2>3, <3>2, <3>3, <3>4 DEF SavedOf
    <3>6. Phase' = Phase /\ Shown' = Shown
      BY <1>same, <2>1, <2>2, ShownQuiet
    <3>7. Saved' = [Saved EXCEPT ![r].user = 1]
      BY <1>p, <1>m, <3>5
    <3> QED BY <1>p, <2>2, <3>5, <3>6, <3>7
      DEF TurnAction, T!SaveQuestion, Phase, Shown, Saved, SavedOf
  <2> QED BY <2>5, <2>6, <2>7
<1>6. CASE PersistAssistant(r)
  <2>1. /\ pc[r] = "persist_assistant" /\ pc'[r] = "update_tokens" /\ UNCHANGED chanVars
    BY <1>0, <1>6 DEF PersistAssistant, Goto, TypeOK
  <2>2. PhaseOf(pc[r], s) = "saving" /\ PhaseOf(pc'[r], s') = "saving"
    BY <2>1, PhaseValues DEF Saving, Stages
  <2>3. RowsOf(r, "assistant") = {}
    BY <1>0, <2>1 DEF AnswerInvOf, Storing2
  <2> DEFINE row == [role |-> "assistant", turn |-> r, text |-> content[r]]
  <2>4. row \in Row /\ row.turn = r /\ row.role = "assistant"
    BY <1>0 DEF Row, TypeOK
  <2>5. Stores(r, row) \/ UNCHANGED rows
    BY <1>6 DEF PersistAssistant, Insert, Stores
  <2> HIDE DEF row
  <2>6. CASE UNCHANGED rows
    BY <1>0, <2>1, <2>2, <2>6, Stutters, StreamsQuiet, RowsQuiet
  <2>7. CASE Stores(r, row)
    <3>1. PICK n : n = Len(rows[KeyOf[r]]) + 1
      OBVIOUS
    <3>2. RowsOf(r, "assistant")' = RowsOf(r, "assistant") \cup {n}
      BY <1>0, <2>4, <2>7, <3>1, InsertRows
    <3>3. RowsOf(r, "user")' = RowsOf(r, "user")
      BY <1>0, <2>4, <2>7, <3>1, InsertRows
    <3>4. Cardinality({}) = 0 /\ Cardinality({n}) = 1
      BY FS_EmptySet, FS_Singleton
    <3>5. /\ SavedOf(r).assistant = 0
          /\ SavedOf(r)' = [SavedOf(r) EXCEPT !.assistant = 1]
      BY <2>3, <3>2, <3>3, <3>4 DEF SavedOf
    <3>6. Phase' = Phase /\ Shown' = Shown
      BY <1>same, <2>1, <2>2, ShownQuiet
    <3>7. Saved' = [Saved EXCEPT ![r].assistant = 1]
      BY <1>p, <1>m, <3>5
    <3> QED BY <1>p, <2>2, <3>5, <3>6, <3>7
      DEF TurnAction, T!SaveAnswer, Phase, Shown, Saved, SavedOf
  <2> QED BY <2>5, <2>6, <2>7
<1>7. CASE UpdateTokens(r)
  <2>1. /\ pc[r] = "update_tokens" /\ pc'[r] = "finished"
        /\ UNCHANGED chanVars /\ UNCHANGED rows
    BY <1>0, <1>7 DEF UpdateTokens, Goto, TypeOK
  <2>2. PhaseOf(pc[r], s) = "saving" /\ PhaseOf(pc'[r], s') = "saving"
    BY <2>1, PhaseValues DEF Saving, Stages
  <2> QED BY <1>0, <2>1, <2>2, Stutters, StreamsQuiet, RowsQuiet
<1>8. CASE SendDone(r) \/ SendError(r)
  <2>1. PICK chunk \in {"done", "error"} :
          /\ Emit(r, chunk)
          /\ chunk = "done" => pc[r] = "finished"
          /\ chunk = "error" => pc[r] = "failed"
    BY <1>8 DEF SendDone, SendError, Goto
  <2>2. pc'[r] = "closing" /\ UNCHANGED rows
    BY <1>0, <1>8 DEF SendDone, SendError, Goto, TypeOK, dbVars
  <2>3. s' = Append(s, chunk)
    BY <1>0, <2>1, EmitStream DEF Chunks
  <2>4. s'[Len(s')] = chunk
    BY <1>0, <2>3, AppendProperties DEF Chunks
  <2>5. Saved' = Saved
    BY <1>0, <2>2, SavedQuiet
  <2>6. CASE chunk = "done"
    <3>1. PhaseOf(pc[r], s) = "saving" /\ PhaseOf(pc'[r], s') = "completed"
      BY <2>1, <2>2, <2>4, <2>6, PhaseValues DEF Saving, Stages
    <3> QED BY <1>p, <1>m, <2>3, <2>5, <2>6, <3>1
      DEF TurnAction, T!Complete, T!Move, Phase, Shown, Saved, SavedOf
  <2>7. CASE chunk = "error"
    <3>1. PhaseOf(pc[r], s) = "answering" /\ PhaseOf(pc'[r], s') = "abandoned"
      BY <2>1, <2>2, <2>4, <2>7, PhaseValues DEF Answering, Saving, Stages
    <3> QED BY <1>p, <1>m, <2>3, <2>5, <2>7, <3>1
      DEF TurnAction, T!Abandon, T!Move, Phase, Shown, Saved, SavedOf
  <2> QED BY <2>6, <2>7
<1>9. CASE CloseOutput(r)
  <2>1. /\ pc[r] = "closing" /\ pc'[r] = "closed" /\ UNCHANGED chanVars /\ UNCHANGED rows
    BY <1>0, <1>9 DEF CloseOutput, Goto, TypeOK, dbVars
  <2>2. PhaseOf(pc[r], s) \in {"completed", "abandoned"} /\ PhaseOf(pc'[r], s') = "closed"
    BY <2>1, PhaseValues DEF Stages
  <2>3. Shown' = Shown /\ Saved' = Saved
    BY <1>0, <2>1, SavedQuiet, ShownQuiet
  <2> QED BY <1>p, <1>m, <2>2, <2>3
    DEF TurnAction, T!Close, Phase, Shown, Saved, SavedOf
<1>10. CASE Consume(r)
  <2>1. s' = s /\ pc'[r] = pc[r] /\ UNCHANGED rows
    BY <1>0, <1>10, ConsumeStream DEF Consume, dbVars
  <2> QED BY <1>0, <2>1, Stutters, RowsQuiet
<1>11. CASE Cancel(r)
  <2>1. UNCHANGED chanVars /\ pc'[r] = pc[r] /\ UNCHANGED rows
    BY <1>11 DEF Cancel, dbVars
  <2>2. s' = s
    BY <2>1, StreamsQuiet
  <2> QED BY <1>0, <2>1, <2>2, Stutters, RowsQuiet
<1> QED BY <1>1, <1>2, <1>3, <1>4, <1>5, <1>6, <1>7, <1>8, <1>9, <1>10, <1>11 DEF Run

\* Every request is a Turn: whatever requests share its session and wherever it is
\* cancelled or fails, its consumer gets chunks, one terminal chunk and a closed
\* channel, and its rows are stored between the last chunk and "done", the
\* question first (Pipeline.Execute, SessionPersister.Process).
THEOREM TurnSafetyHolds == Spec => TurnSafety
<1>1. Init => T!Init
  BY TurnInitRefined
<1>2. TurnInv /\ [Next]_vars => [T!Next]_(T!vars)
  <2> SUFFICES ASSUME TurnInv, [Next]_vars PROVE T!Next \/ UNCHANGED T!vars
    OBVIOUS
  <2>1. CASE UNCHANGED vars
    <3>1. UNCHANGED <<pc, out, delivered, rows>>
      BY <2>1 DEF vars, chanVars, dbVars
    <3> QED BY <3>1 DEF T!vars, TurnPhase, Stream, RowsOf
  <2>2. CASE Next
    <3>1. PICK r \in Requests : Execute(r) \/ Run(r) \/ Summarized(r) \/ Consume(r) \/ Cancel(r)
      BY <2>2 DEF Next
    <3>2. TurnAction(r) \/ UNCHANGED <<Phase, Shown, Saved>>
      BY <3>1, TurnStepRefined
    <3>3. TurnAction(r) => T!Next
      BY DEF TurnAction, T!Next
    <3>4. UNCHANGED <<Phase, Shown, Saved>> => UNCHANGED T!vars
      BY DEF T!vars, Phase, Shown, Saved, SavedOf
    <3> QED BY <3>2, <3>3, <3>4
  <2> QED BY <2>1, <2>2
<1> QED BY <1>1, <1>2, TurnInvHolds, PTL DEF Spec, TurnSafety, T!SafetySpec
=============================================================================
