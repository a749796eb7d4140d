---------------------------- MODULE ToolProtocol ----------------------------
(***************************************************************************)
(* The order of tool calls and tool results in the messages of an LLM       *)
(* request: what the pipeline guarantees of every request it makes, and     *)
(* what the providers' clients rely on when they write it on the wire.      *)
(***************************************************************************)
EXTENDS Naturals, Sequences

\* The results of an assistant message's calls are in one tool message right after it, and
\* no results stand alone.
Paired(m) ==
  /\ \A i \in 1..Len(m) : m[i].calls # <<>> =>
        /\ m[i].role = "assistant"
        /\ i < Len(m)
        /\ m[i + 1].role = "tool"
        /\ m[i + 1].results = m[i].calls
  /\ \A i \in 1..Len(m) : m[i].results # <<>> =>
        i > 1 /\ m[i - 1].calls # <<>>
=============================================================================
