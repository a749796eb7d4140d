----------------------------- MODULE MCPipeline -----------------------------
(* Model values and bounds for Pipeline. *)
EXTENDS Pipeline, TLC

CONSTANTS r1, r2, k1, t1, t2

OneRequest == [r \in {r1} |-> k1]
TwoRequests == [r \in {r1, r2} |-> k1]

\* The requests are interchangeable: same session, same behaviour.
RequestSymmetry == Permutations({r1, r2})
=============================================================================
