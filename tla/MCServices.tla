----------------------------- MODULE MCServices -----------------------------
(* Model values and bounds for the services beside the turns: the herd, the     *)
(* memories, and the gateway's device pairing, rate limit and audit log.  They   *)
(* share no state, so each behaviour runs one of them, the focus, and leaves     *)
(* the others in one of their initial states.                                  *)
EXTENDS Herd, Memory, DevicePairing, RateLimit, AuditExport

VARIABLE focus

\* Two tasks of one agent and one of another.
Slugs == <<"x", "y", "x">>
\* Any two of the three rows are alike, and a query returns two pairs.
RowTypes == {[i \in 1..3 |-> type] : type \in {"episodic", "semantic"}}
Alike == <<<<1, 2>>, <<2, 3>>, <<1, 3>>>>
\* A minute's limit below an hour's.
Limits == <<1, 2>>

\* The two replicas are interchangeable.
Interchange == Permutations(MemReplicas)

servicesVars == <<focus, herdVars, memVars, devVars, rateVars, audVars>>

ServicesInit ==
  /\ focus \in {"herd", "memory", "device", "rate", "audit"}
  /\ HerdInit /\ MemInit /\ DevInit /\ RateInit /\ AudInit
  /\ focus # "herd" => herdKind = "parallel"
  /\ focus # "memory" => memType[1] = "episodic"

ServicesNext ==
  \/ focus = "herd" /\ HerdNext /\ UNCHANGED <<focus, memVars, devVars, rateVars, audVars>>
  \/ focus = "memory" /\ MemNext /\ UNCHANGED <<focus, herdVars, devVars, rateVars, audVars>>
  \/ focus = "device" /\ DevNext /\ UNCHANGED <<focus, herdVars, memVars, rateVars, audVars>>
  \/ focus = "rate" /\ RateNext /\ UNCHANGED <<focus, herdVars, memVars, devVars, audVars>>
  \/ focus = "audit" /\ AudNext /\ UNCHANGED <<focus, herdVars, memVars, devVars, rateVars>>

ServicesSpec == ServicesInit /\ [][ServicesNext]_servicesVars

-----------------------------------------------------------------------------
\* Every variable of the five modules keeps its type.
ServicesTypeOK == HerdTypeOK /\ MemTypeOK /\ DevTypeOK /\ RateTypeOK /\ AudTypeOK

\* What is kept in Redis under keys with a TTL: pairings are answered once, and requests are
\* counted (DevicePairing, RateLimit).
GatewayKeys == DevOnce /\ RateCounted
=============================================================================
