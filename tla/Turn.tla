-------------------------------- MODULE Turn --------------------------------
(***************************************************************************)
(* What a conversation turn promises to whoever reads its output channel    *)
(* and to whoever later reads the message table: chunks of text and tool    *)
(* results, then exactly one terminal chunk, then the channel is closed.    *)
(* Rows are written only between the last text and the "done" chunk, the    *)
(* user's row before the assistant's, and never for a turn that ends with   *)
(* "error".  Pipeline implements this specification.                        *)
(***************************************************************************)
EXTENDS Naturals, Sequences

CONSTANT Turns          \* the requests that may be executed

VARIABLES phase,        \* where each turn is in its life
          shown,        \* the chunks each turn has put on its channel
          saved         \* how many rows of each role each turn has stored

vars == <<phase, shown, saved>>

Phases == {"waiting", "answering", "saving", "completed", "abandoned", "closed"}
DataChunks == {"text", "tool_result"}

Init ==
  /\ phase = [t \in Turns |-> "waiting"]
  /\ shown = [t \in Turns |-> <<>>]
  /\ saved = [t \in Turns |-> [user |-> 0, assistant |-> 0]]

Move(t, from, to) ==
  /\ phase[t] = from
  /\ phase' = [phase EXCEPT ![t] = to]

Begin(t) ==
  /\ Move(t, "waiting", "answering")
  /\ UNCHANGED <<shown, saved>>

Show(t) ==
  /\ phase[t] = "answering"
  /\ \E chunk \in DataChunks : shown' = [shown EXCEPT ![t] = Append(@, chunk)]
  /\ UNCHANGED <<phase, saved>>

StartSaving(t) ==
  /\ Move(t, "answering", "saving")
  /\ UNCHANGED <<shown, saved>>

SaveQuestion(t) ==
  /\ phase[t] = "saving"
  /\ saved[t] = [user |-> 0, assistant |-> 0]
  /\ saved' = [saved EXCEPT ![t].user = 1]
  /\ UNCHANGED <<phase, shown>>

\* The question may be missing: a failed insert is only logged.
SaveAnswer(t) ==
  /\ phase[t] = "saving"
  /\ saved[t].assistant = 0
  /\ saved' = [saved EXCEPT ![t].assistant = 1]
  /\ UNCHANGED <<phase, shown>>

Complete(t) ==
  /\ Move(t, "saving", "completed")
  /\ shown' = [shown EXCEPT ![t] = Append(@, "done")]
  /\ UNCHANGED saved

Abandon(t) ==
  /\ Move(t, "answering", "abandoned")
  /\ shown' = [shown EXCEPT ![t] = Append(@, "error")]
  /\ UNCHANGED saved

Close(t) ==
  /\ phase[t] \in {"completed", "abandoned"}
  /\ phase' = [phase EXCEPT ![t] = "closed"]
  /\ UNCHANGED <<shown, saved>>

Next == \E t \in Turns :
  \/ Begin(t) \/ Show(t) \/ StartSaving(t) \/ SaveQuestion(t) \/ SaveAnswer(t)
  \/ Complete(t) \/ Abandon(t) \/ Close(t)

SafetySpec == Init /\ [][Next]_vars

\* A turn that began reaches its terminal chunk and is closed.
Spec ==
  /\ SafetySpec
  /\ \A t \in Turns : WF_vars(StartSaving(t) \/ Complete(t) \/ Abandon(t) \/ Close(t))
=============================================================================
