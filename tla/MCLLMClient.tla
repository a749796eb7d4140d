----------------------------- MODULE MCLLMClient -----------------------------
(* Model values and bounds for LLMClient. *)
EXTENDS LLMClient

\* One provider of each format.
FourProviders == <<"anthropic", "openai", "google", "ollama">>
FourFormats == [p \in {"anthropic", "openai", "google", "ollama"} |->
  CASE p = "anthropic" -> "anthropic"
    [] p = "openai" -> "chat"
    [] p = "google" -> "gemini"
    [] p = "ollama" -> "ollama"]

Says(role) == [role |-> role, calls |-> <<>>, results |-> <<>>]
AsksFor(ids) == [Says("assistant") EXCEPT !.calls = ids]
Gives(ids) == [Says("tool") EXCEPT !.results = ids]

\* The first request of a turn, the same from a client that says "tool", and one after
\* two iterations of the tool loop, whose question came under an unknown role.
ThreePrompts == {
  <<Says("system"), Says("user")>>,
  <<Says("system"), Says("tool")>>,
  <<Says("system"), Says("other"), AsksFor(<<1, 2>>), Gives(<<1, 2>>), AsksFor(<<3>>), Gives(<<3>>)>>}
=============================================================================
