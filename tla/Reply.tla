-------------------------------- MODULE Reply -------------------------------
(***************************************************************************)
(* What a streamed model call promises to the stage of the pipeline that    *)
(* reads it: pieces of text and whole tool calls that the model has said,   *)
(* each once, and then one end.  The stage is told of an error only if the  *)
(* reply was cut short, and takes the reply for complete only if it was     *)
(* cut or if it has read all of it.  LLMClient implements this              *)
(* specification in each of its wire formats.                               *)
(***************************************************************************)
EXTENDS Naturals, Sequences, SequencesExt

CONSTANT Calls          \* the whole tool calls a model may make

VARIABLES
  status,     \* of the call: "asking", "refused", "streaming", "ended", "failed"
  spoken,     \* [text, calls]: what the model has said, its whole calls as a set
  over,       \* the model has said all it has to say
  cut,        \* the reply was cancelled, or broke off before it was over
  heard       \* [text, calls]: what the stage has read, the calls in a sequence

vars == <<status, spoken, over, cut, heard>>

Init ==
  /\ status = "asking"
  /\ spoken = [text |-> 0, calls |-> {}]
  /\ over = FALSE
  /\ cut = FALSE
  /\ heard = [text |-> 0, calls |-> <<>>]

Answer ==
  /\ status = "asking"
  /\ status' \in {"streaming", "refused"}
  /\ UNCHANGED <<spoken, over, cut, heard>>

\* A model does not know whether anybody still listens.
Speak ==
  /\ status \notin {"asking", "refused"} /\ ~over
  /\ \/ spoken' = [spoken EXCEPT !.text = @ + 1]
     \/ \E call \in Calls \ spoken.calls : spoken' = [spoken EXCEPT !.calls = @ \cup {call}]
  /\ UNCHANGED <<status, over, cut, heard>>

FinishSpeaking ==
  /\ status \notin {"asking", "refused"} /\ ~over
  /\ over' = TRUE
  /\ UNCHANGED <<status, spoken, cut, heard>>

CutShort ==
  /\ ~cut
  /\ cut' = TRUE
  /\ UNCHANGED <<status, spoken, over, heard>>

HearText ==
  /\ status = "streaming" /\ heard.text < spoken.text
  /\ heard' = [heard EXCEPT !.text = @ + 1]
  /\ UNCHANGED <<status, spoken, over, cut>>

HearCall ==
  /\ status = "streaming"
  /\ \E call \in spoken.calls \ ToSet(heard.calls) :
       heard' = [heard EXCEPT !.calls = Append(@, call)]
  /\ UNCHANGED <<status, spoken, over, cut>>

AllHeard == heard.text = spoken.text /\ ToSet(heard.calls) = spoken.calls

End ==
  /\ status = "streaming"
  /\ cut \/ (over /\ AllHeard)
  /\ status' = "ended"
  /\ UNCHANGED <<spoken, over, cut, heard>>

Fail ==
  /\ status = "streaming" /\ cut
  /\ status' = "failed"
  /\ UNCHANGED <<spoken, over, cut, heard>>

Next == Answer \/ Speak \/ FinishSpeaking \/ CutShort \/ HearText \/ HearCall \/ End \/ Fail

SafetySpec == Init /\ [][Next]_vars
=============================================================================
