----------------------------- MODULE RateLimit -----------------------------
(***************************************************************************)
(* middleware/ratelimit.go: the requests of one user are counted in two      *)
(* Redis keys, one per window.  INCR makes a key, EXPIRE, a command of its    *)
(* own, makes it a window; a request that ends in between leaves a counter    *)
(* that never starts again.                                                  *)
(***************************************************************************)
EXTENDS Naturals, Sequences, FiniteSets

CONSTANTS
  RateReqs,   \* requests of the user, each let through, rejected or failed once
  RateLimits  \* requests per minute and per hour

Windows == DOMAIN RateLimits

ASSUME RateAssumption == RateLimits \in Seq(Nat) /\ Len(RateLimits) = 2

VARIABLES
  rateAt,      \* where each request is: [at, window]
  rateCount,   \* the counter of each window, 0 if there is no key
  rateTtl,     \* windows whose key has a TTL
  ratePassed,  \* requests each window let through on their count since it began
                \* (history variable)
  rateLost     \* windows whose EXPIRE did not take effect (history variable)

rateVars == <<rateAt, rateCount, rateTtl, ratePassed, rateLost>>

RateInit ==
  /\ rateAt = [q \in RateReqs |-> [at |-> "count", window |-> 1]]
  /\ rateCount = [w \in Windows |-> 0]
  /\ rateTtl = {}
  /\ ratePassed = [w \in Windows |-> {}]
  /\ rateLost = {}

RateGo(q, at, w) == rateAt' = [rateAt EXCEPT ![q] = [at |-> at, window |-> w]]

\* Fault: the request over the limit is let through.
RateOverByOne(n, w) == n > RateLimits[w] + 1

RateOver(n, w) == n > RateLimits[w]

\* The comparison with the limit, and on to the next window or the handler.
RateCheck(q, n, w) ==
  IF RateOver(n, w) THEN RateGo(q, "rejected", w) /\ UNCHANGED ratePassed
  ELSE /\ RateGo(q, IF w = 2 THEN "passed" ELSE "count", IF w = 2 THEN 2 ELSE w + 1)
       /\ ratePassed' = [ratePassed EXCEPT ![w] = @ \union {q}]

\* INCR; on an error the request goes through, past the other window too.
RateIncr(q) ==
  LET w == rateAt[q].window n == rateCount[w] + 1 IN
  /\ rateAt[q].at = "count"
  /\ \/ /\ rateCount' = [rateCount EXCEPT ![w] = n]
        /\ IF n = 1 THEN RateGo(q, "expire", w) /\ UNCHANGED ratePassed ELSE RateCheck(q, n, w)
     \/ RateGo(q, "passed", w) /\ UNCHANGED <<rateCount, ratePassed>>
  /\ UNCHANGED <<rateTtl, rateLost>>

\* EXPIRE of the request that counted 1; its error is ignored (Redis, or the request's
\* context, which the client can cancel).
RateExpire(q) ==
  LET w == rateAt[q].window IN
  /\ rateAt[q].at = "expire"
  /\ \/ rateTtl' = rateTtl \union {w} /\ UNCHANGED rateLost
     \/ rateLost' = rateLost \union {w} /\ UNCHANGED rateTtl
  /\ RateCheck(q, 1, w)
  /\ UNCHANGED rateCount

\* The process ends with the requests it serves.
RateCrash(q) ==
  /\ rateAt[q].at \in {"count", "expire"}
  /\ RateGo(q, "failed", rateAt[q].window)
  /\ rateLost' = IF rateAt[q].at = "expire" THEN rateLost \union {rateAt[q].window} ELSE rateLost
  /\ UNCHANGED <<rateCount, rateTtl, ratePassed>>

\* A window ends.
RateLapse(w) ==
  /\ w \in rateTtl
  /\ rateCount' = [rateCount EXCEPT ![w] = 0]
  /\ rateTtl' = rateTtl \ {w}
  /\ ratePassed' = [ratePassed EXCEPT ![w] = {}]
  /\ UNCHANGED <<rateAt, rateLost>>

RateNext ==
  \/ \E q \in RateReqs : RateIncr(q) \/ RateExpire(q) \/ RateCrash(q)
  \/ \E w \in Windows : RateLapse(w)

RateSpec == RateInit /\ [][RateNext]_rateVars

-----------------------------------------------------------------------------
(* Correctness *)

RateTypeOK ==
  /\ rateAt \in [RateReqs -> [at : {"count", "expire", "passed", "rejected", "failed"},
                              window : Windows]]
  /\ rateCount \in [Windows -> 0..Cardinality(RateReqs)]
  /\ rateTtl \subseteq Windows /\ rateLost \subseteq Windows
  /\ ratePassed \in [Windows -> SUBSET RateReqs]

\* No window lets through more requests than its limit on their count; and every counter
\* will start again, because it has a TTL or the one request that made it is about to set
\* one, unless that EXPIRE was lost (RateLimit).
RateCounted ==
  \A w \in Windows :
    /\ Cardinality(ratePassed[w]) <= RateLimits[w]
    /\ rateCount[w] > 0 /\ w \notin rateTtl \union rateLost =>
         \E q \in RateReqs : rateAt[q] = [at |-> "expire", window |-> w]
=============================================================================
