--------------------------- MODULE ServicesProofs ---------------------------
(***************************************************************************)
(* Theorems about the services beside the turns: the rate limit, device      *)
(* pairing, the audit export and the memories, each for every value of its   *)
(* constants.  HerdProofs has those about the herd.                          *)
(***************************************************************************)
EXTENDS MCServices, HerdProofs, Sums, SequenceTheorems, WellFoundedInduction

-----------------------------------------------------------------------------
(* RateLimit *)

RateTyped ==
  /\ rateAt \in [RateReqs -> [at : {"count", "expire", "passed", "rejected", "failed"},
                              window : Windows]]
  /\ rateCount \in [Windows -> Nat]
  /\ rateTtl \subseteq Windows
  /\ ratePassed \in [Windows -> SUBSET RateReqs]

\* The request that counted 1 in a window and has not set its TTL yet.
Expiring(q, w) == rateAt[q] = [at |-> "expire", window |-> w]

\* It is the only one, and the counter it made is there without a TTL.
OneExpires(w) ==
  /\ \A q, p \in RateReqs : Expiring(q, w) /\ Expiring(p, w) => q = p
  /\ \A q \in RateReqs : Expiring(q, w) => rateCount[w] > 0 /\ w \notin rateTtl

\* What was let through was counted, and so will be the one that is about to go on.
Room(w) ==
  /\ IsFiniteSet(ratePassed[w])
  /\ Cardinality(ratePassed[w]) <= rateCount[w]
  /\ Cardinality(ratePassed[w]) <= RateLimits[w]
  /\ \A q \in RateReqs : Expiring(q, w) =>
       /\ Cardinality(ratePassed[w]) < rateCount[w]
       /\ RateLimits[w] > 0 => Cardinality(ratePassed[w]) < RateLimits[w]

\* A TTL belongs to a counter, and a counter without one will have it or has lost it.
Restarts(w) ==
  /\ w \in rateTtl => rateCount[w] > 0
  /\ rateCount[w] > 0 /\ w \notin rateTtl \union rateLost => \E q \in RateReqs : Expiring(q, w)

WindowInv(w) == OneExpires(w) /\ Room(w) /\ Restarts(w)

RateInv == RateTyped /\ \A w \in Windows : WindowInv(w)

-----------------------------------------------------------------------------

LEMMA WindowsAre == Windows = {1, 2} /\ \A w \in Windows : RateLimits[w] \in Nat
<1>1. RateLimits \in [1..2 -> Nat]
  BY RateAssumption, LenProperties
<1>2. 1..2 = {1, 2}
  BY SMT
<1> QED BY <1>1, <1>2 DEF Windows

\* One more request raises the cardinality by one at most.
LEMMA OneMore ==
  ASSUME NEW S, IsFiniteSet(S), NEW q
  PROVE  /\ IsFiniteSet(S \union {q})
         /\ Cardinality(S) \in Nat
         /\ Cardinality(S \union {q}) \in Nat
         /\ Cardinality(S \union {q}) <= Cardinality(S) + 1
<1>1. IsFiniteSet(S \union {q}) /\ Cardinality(S) \in Nat /\ Cardinality(S \union {q}) \in Nat
  BY FS_AddElement, FS_CardinalityType
<1>2. Cardinality(S \union {q}) \in {Cardinality(S), Cardinality(S) + 1}
  BY FS_AddElement
<1> QED BY <1>1, <1>2

LEMMA RateInitInv == RateInit => RateInv
<1> SUFFICES ASSUME RateInit PROVE RateInv
  OBVIOUS
<1>1. RateTyped
  BY WindowsAre DEF RateInit, RateTyped
<1>2. ASSUME NEW w \in Windows PROVE WindowInv(w)
  <2>1. \A q \in RateReqs : ~Expiring(q, w)
    BY DEF RateInit, Expiring
  <2>2. ratePassed[w] = {} /\ rateCount[w] = 0 /\ w \notin rateTtl
    BY <1>2 DEF RateInit
  <2> QED BY <2>1, <2>2, FS_EmptySet, WindowsAre DEF WindowInv, OneExpires, Room, Restarts
<1> QED BY <1>1, <1>2 DEF RateInv

\* A window is left as it is by a step that moves no request into or out of its expire, and
\* leaves its key and what it let through alone.
LEMMA WindowKept ==
  ASSUME NEW w \in Windows, WindowInv(w),
         \A q \in RateReqs : Expiring(q, w)' <=> Expiring(q, w),
         rateCount'[w] = rateCount[w], ratePassed'[w] = ratePassed[w],
         w \in rateTtl' <=> w \in rateTtl,
         w \in rateLost => w \in rateLost'
  PROVE  WindowInv(w)'
BY DEF WindowInv, OneExpires, Room, Restarts

\* What the comparison does to the types, to the requests and to the windows.
LEMMA CheckDoes ==
  ASSUME RateTyped, NEW q \in RateReqs, NEW n \in Nat, NEW w \in Windows, RateCheck(q, n, w)
  PROVE  /\ rateAt' \in [RateReqs -> [at : {"count", "expire", "passed", "rejected", "failed"},
                                      window : Windows]]
         /\ ratePassed' \in [Windows -> SUBSET RateReqs]
         /\ \A v \in Windows : ~Expiring(q, v)'
         /\ \A p \in RateReqs \ {q}, v \in Windows : Expiring(p, v)' <=> Expiring(p, v)
         /\ \A v \in Windows \ {w} : ratePassed'[v] = ratePassed[v]
         /\ \/ ratePassed'[w] = ratePassed[w]
            \/ n <= RateLimits[w] /\ ratePassed'[w] = ratePassed[w] \union {q}
<1>1. CASE RateOver(n, w)
  BY <1>1 DEF RateCheck, RateGo, RateTyped, Expiring
<1>2. CASE ~RateOver(n, w)
  <2>1. /\ RateGo(q, IF w = 2 THEN "passed" ELSE "count", IF w = 2 THEN 2 ELSE w + 1)
        /\ ratePassed' = [ratePassed EXCEPT ![w] = @ \union {q}]
    BY <1>2 DEF RateCheck
  <2>2. n <= RateLimits[w]
    BY <1>2, WindowsAre DEF RateOver
  <2>3. (IF w = 2 THEN 2 ELSE w + 1) \in Windows
    BY WindowsAre
  <2> QED BY <2>1, <2>2, <2>3 DEF RateGo, RateTyped, Expiring
<1> QED BY <1>1, <1>2

LEMMA IncrKeeps ==
  ASSUME RateInv, NEW q \in RateReqs, NEW w \in Windows, rateAt[q].window = w, RateIncr(q)
  PROVE  RateInv'
<1> DEFINE n == rateCount[w] + 1
<1>1. RateTyped /\ rateCount[w] \in Nat /\ n \in Nat /\ rateAt[q].at = "count"
  BY DEF RateInv, RateTyped, RateIncr
<1>2. UNCHANGED <<rateTtl, rateLost>> /\ \A v \in Windows : ~Expiring(q, v)
  BY <1>1 DEF RateIncr, Expiring
<1>3. CASE RateGo(q, "passed", w) /\ UNCHANGED <<rateCount, ratePassed>>
  <2>1. RateTyped'
    BY <1>1, <1>2, <1>3 DEF RateTyped, RateGo
  <2>2. \A p \in RateReqs, v \in Windows : Expiring(p, v)' <=> Expiring(p, v)
    BY <1>1, <1>2, <1>3 DEF RateTyped, RateGo, Expiring
  <2>3. \A v \in Windows : WindowInv(v)'
    BY <1>2, <1>3, <2>2, WindowKept DEF RateInv
  <2> QED BY <2>1, <2>3 DEF RateInv
<1>4. CASE /\ n = 1
           /\ rateCount' = [rateCount EXCEPT ![w] = n]
           /\ RateGo(q, "expire", w) /\ UNCHANGED ratePassed
  <2>1. RateTyped'
    BY <1>1, <1>2, <1>4 DEF RateTyped, RateGo
  <2>2. \A p \in RateReqs, v \in Windows :
          Expiring(p, v)' <=> Expiring(p, v) \/ (p = q /\ v = w)
    BY <1>1, <1>2, <1>4 DEF RateTyped, RateGo, Expiring
  <2>3. ASSUME NEW v \in Windows \ {w} PROVE WindowInv(v)'
    <3>1. rateCount'[v] = rateCount[v] /\ WindowInv(v)
      BY <1>1, <1>4, <2>3 DEF RateTyped, RateInv
    <3> QED BY <1>2, <1>4, <2>2, <2>3, <3>1, WindowKept
  <2>4. WindowInv(w)'
    <3>1. WindowInv(w) /\ rateCount[w] = 0 /\ rateCount'[w] = 1 /\ ratePassed' = ratePassed
      BY <1>1, <1>4 DEF RateTyped, RateInv
    <3>2. \A p \in RateReqs : ~Expiring(p, w)
      BY <3>1 DEF WindowInv, OneExpires
    <3>3. w \notin rateTtl
      BY <3>1 DEF WindowInv, Restarts
    <3>4. Cardinality(ratePassed[w]) = 0
      BY <3>1, FS_CardinalityType DEF WindowInv, Room
    <3>5. OneExpires(w)'
      BY <1>1, <1>2, <2>2, <3>1, <3>2, <3>3 DEF OneExpires
    <3>6. Room(w)'
      BY <1>1, <2>2, <3>1, <3>4, WindowsAre DEF WindowInv, Room
    <3>7. Restarts(w)'
      BY <1>1, <2>2, <3>1 DEF Restarts
    <3> QED BY <3>5, <3>6, <3>7 DEF WindowInv
  <2> QED BY <2>1, <2>3, <2>4 DEF RateInv
<1>5. CASE /\ n # 1
           /\ rateCount' = [rateCount EXCEPT ![w] = n]
           /\ RateCheck(q, n, w)
  <2>1. RateTyped'
    BY <1>1, <1>2, <1>5, CheckDoes DEF RateTyped
  <2>2. \A p \in RateReqs, v \in Windows : Expiring(p, v)' <=> Expiring(p, v)
    BY <1>1, <1>2, <1>5, CheckDoes
  <2>3. ASSUME NEW v \in Windows \ {w} PROVE WindowInv(v)'
    <3>1. rateCount'[v] = rateCount[v] /\ ratePassed'[v] = ratePassed[v] /\ WindowInv(v)
      BY <1>1, <1>5, <2>3, CheckDoes DEF RateTyped, RateInv
    <3> QED BY <1>2, <2>2, <2>3, <3>1, WindowKept
  <2>4. WindowInv(w)'
    <3>1. WindowInv(w) /\ rateCount'[w] = n /\ rateCount[w] > 0
      BY <1>1, <1>5 DEF RateTyped, RateInv
    <3>2. OneExpires(w)' /\ Restarts(w)'
      BY <1>1, <1>2, <2>2, <3>1 DEF WindowInv, OneExpires, Restarts
    <3>3. IsFiniteSet(ratePassed[w]) /\ Cardinality(ratePassed[w]) \in Nat
      BY <3>1, FS_CardinalityType DEF WindowInv, Room
    <3>4. CASE ratePassed'[w] = ratePassed[w]
      BY <1>1, <2>2, <3>1, <3>2, <3>3, <3>4, WindowsAre DEF WindowInv, Room
    <3>5. CASE n <= RateLimits[w] /\ ratePassed'[w] = ratePassed[w] \union {q}
      <4>1. /\ IsFiniteSet(ratePassed'[w]) /\ Cardinality(ratePassed'[w]) \in Nat
            /\ Cardinality(ratePassed'[w]) <= Cardinality(ratePassed[w]) + 1
        <5>1. /\ IsFiniteSet(ratePassed[w] \union {q})
              /\ Cardinality(ratePassed[w] \union {q}) \in Nat
              /\ Cardinality(ratePassed[w] \union {q}) <= Cardinality(ratePassed[w]) + 1
          BY <3>3, OneMore
        <5> QED BY <3>5, <5>1
      <4>2. Cardinality(ratePassed[w]) <= rateCount[w]
        BY <3>1 DEF WindowInv, Room
      <4>3. \A p \in RateReqs : Expiring(p, w)' => Cardinality(ratePassed[w]) < rateCount[w]
        BY <2>2, <3>1 DEF WindowInv, Room
      <4>4. rateCount[w] \in Nat /\ RateLimits[w] \in Nat /\ rateCount'[w] = rateCount[w] + 1
        BY <1>1, <3>1, WindowsAre
      <4>5. rateCount[w] + 1 <= RateLimits[w]
        BY <3>5
      <4>6. /\ Cardinality(ratePassed'[w]) <= rateCount'[w]
            /\ Cardinality(ratePassed'[w]) <= RateLimits[w]
        BY <3>3, <4>1, <4>2, <4>4, <4>5
      <4>7. ASSUME NEW p \in RateReqs, Expiring(p, w)'
            PROVE  /\ Cardinality(ratePassed'[w]) < rateCount'[w]
                   /\ Cardinality(ratePassed'[w]) < RateLimits[w]
        <5>1. Cardinality(ratePassed[w]) < rateCount[w]
          BY <4>3, <4>7
        <5> QED BY <3>3, <4>1, <4>4, <4>5, <5>1
      <4>8. Room(w)'
        BY <4>1, <4>6, <4>7 DEF Room
      <4> QED BY <3>2, <4>8 DEF WindowInv
    <3>6. (ratePassed'[w] = ratePassed[w])
            \/ (n <= RateLimits[w] /\ ratePassed'[w] = ratePassed[w] \union {q})
      BY <1>1, <1>5, CheckDoes
    <3> QED BY <3>2, <3>4, <3>5, <3>6 DEF WindowInv, Room
  <2> QED BY <2>1, <2>3, <2>4 DEF RateInv
<1> QED BY <1>3, <1>4, <1>5 DEF RateIncr

LEMMA ExpireKeeps ==
  ASSUME RateInv, NEW q \in RateReqs, NEW w \in Windows, rateAt[q].window = w, RateExpire(q)
  PROVE  RateInv'
<1>1. RateTyped /\ rateAt[q].at = "expire" /\ RateCheck(q, 1, w)
  BY DEF RateInv, RateTyped, RateExpire
<1>2. Expiring(q, w) /\ \A v \in Windows \ {w} : ~Expiring(q, v)
  BY <1>1 DEF RateTyped, Expiring
<1>3. /\ UNCHANGED rateCount
      /\ \/ rateTtl' = rateTtl \union {w} /\ UNCHANGED rateLost
         \/ rateLost' = rateLost \union {w} /\ UNCHANGED rateTtl
  BY DEF RateExpire
<1>4. RateTyped'
  BY <1>1, <1>3, CheckDoes DEF RateTyped
<1>5. ASSUME NEW v \in Windows \ {w} PROVE WindowInv(v)'
  <2>1. \A p \in RateReqs : Expiring(p, v)' <=> Expiring(p, v)
    BY <1>1, <1>2, <1>5, CheckDoes
  <2>2. ratePassed'[v] = ratePassed[v] /\ WindowInv(v)
    BY <1>1, <1>5, CheckDoes DEF RateInv
  <2>3. (v \in rateTtl' <=> v \in rateTtl) /\ (v \in rateLost => v \in rateLost')
    BY <1>3, <1>5
  <2> QED BY <1>3, <1>5, <2>1, <2>2, <2>3, WindowKept
<1>6. WindowInv(w)'
  <2>1. WindowInv(w) /\ rateCount[w] \in Nat
    BY <1>1 DEF RateInv, RateTyped
  <2>2. \A p \in RateReqs : ~Expiring(p, w)'
    BY <1>1, <1>2, <2>1, CheckDoes DEF WindowInv, OneExpires
  <2>3. OneExpires(w)'
    BY <2>2 DEF OneExpires
  <2>4. Restarts(w)'
    BY <1>2, <1>3, <2>1 DEF Restarts, WindowInv, OneExpires
  <2>5. IsFiniteSet(ratePassed[w]) /\ Cardinality(ratePassed[w]) \in Nat
    BY <2>1, FS_CardinalityType DEF WindowInv, Room
  <2>6. CASE ratePassed'[w] = ratePassed[w]
    BY <1>3, <2>1, <2>2, <2>3, <2>4, <2>6 DEF WindowInv, Room
  <2>7. CASE 1 <= RateLimits[w] /\ ratePassed'[w] = ratePassed[w] \union {q}
    <3>1. /\ IsFiniteSet(ratePassed'[w]) /\ Cardinality(ratePassed'[w]) \in Nat
          /\ Cardinality(ratePassed'[w]) <= Cardinality(ratePassed[w]) + 1
      <4>1. /\ IsFiniteSet(ratePassed[w] \union {q})
            /\ Cardinality(ratePassed[w] \union {q}) \in Nat
            /\ Cardinality(ratePassed[w] \union {q}) <= Cardinality(ratePassed[w]) + 1
        BY <2>5, OneMore
      <4> QED BY <2>7, <4>1
    <3>2. Cardinality(ratePassed[w]) < rateCount[w] /\ Cardinality(ratePassed[w]) < RateLimits[w]
      BY <1>1, <1>2, <2>1, <2>7, WindowsAre DEF WindowInv, Room
    <3>3. Cardinality(ratePassed'[w]) <= rateCount'[w] /\ Cardinality(ratePassed'[w]) <= RateLimits[w]
      BY <1>1, <1>3, <2>1, <2>5, <3>1, <3>2, WindowsAre
    <3>4. Room(w)'
      BY <2>2, <3>1, <3>3 DEF Room
    <3> QED BY <2>3, <2>4, <3>4 DEF WindowInv
  <2> QED BY <1>1, <2>6, <2>7, CheckDoes
<1> QED BY <1>4, <1>5, <1>6 DEF RateInv

\* A request that dies leaves the counts; if it was to set a TTL, that is lost.
LEMMA CrashKeeps ==
  ASSUME RateInv, NEW q \in RateReqs, RateCrash(q)
  PROVE  RateInv'
<1>1. RateTyped /\ rateAt[q].window \in Windows
  BY DEF RateInv, RateTyped
<1>2. UNCHANGED <<rateCount, rateTtl, ratePassed>> /\ rateLost \subseteq rateLost'
  BY DEF RateCrash
<1>3. RateTyped'
  BY <1>1, <1>2 DEF RateCrash, RateGo, RateTyped
<1>4. \A p \in RateReqs, v \in Windows :
        /\ Expiring(p, v)' => Expiring(p, v)
        /\ Expiring(p, v) => Expiring(p, v)' \/ v \in rateLost'
  BY <1>1 DEF RateCrash, RateGo, RateTyped, Expiring
<1>5. ASSUME NEW v \in Windows PROVE WindowInv(v)'
  <2>1. WindowInv(v)
    BY DEF RateInv
  <2>2. OneExpires(v)' /\ Room(v)'
    BY <1>2, <1>4, <2>1 DEF WindowInv, OneExpires, Room
  <2>3. Restarts(v)'
    BY <1>2, <1>4, <2>1 DEF WindowInv, Restarts
  <2> QED BY <2>2, <2>3 DEF WindowInv
<1> QED BY <1>3, <1>5 DEF RateInv

LEMMA LapseKeeps ==
  ASSUME RateInv, NEW w \in Windows, RateLapse(w)
  PROVE  RateInv'
<1>1. RateTyped'
  BY DEF RateInv, RateTyped, RateLapse
<1>2. \A p \in RateReqs, v \in Windows : Expiring(p, v)' <=> Expiring(p, v)
  BY DEF RateLapse, Expiring
<1>3. ASSUME NEW v \in Windows \ {w} PROVE WindowInv(v)'
  <2>1. /\ rateCount'[v] = rateCount[v] /\ ratePassed'[v] = ratePassed[v] /\ WindowInv(v)
        /\ (v \in rateTtl' <=> v \in rateTtl) /\ rateLost' = rateLost
    BY <1>3 DEF RateLapse, RateInv, RateTyped
  <2> QED BY <1>2, <1>3, <2>1, WindowKept
<1>4. WindowInv(w)'
  <2>1. rateCount'[w] = 0 /\ ratePassed'[w] = {} /\ w \notin rateTtl'
    BY DEF RateLapse, RateInv, RateTyped
  <2>2. \A p \in RateReqs : ~Expiring(p, w)'
    BY <1>2 DEF RateLapse, RateInv, WindowInv, OneExpires
  <2> QED BY <2>1, <2>2, FS_EmptySet, WindowsAre DEF WindowInv, OneExpires, Room, Restarts
<1> QED BY <1>1, <1>3, <1>4 DEF RateInv

LEMMA RateStepInv == RateInv /\ [RateNext]_rateVars => RateInv'
<1> SUFFICES ASSUME RateInv, [RateNext]_rateVars PROVE RateInv'
  OBVIOUS
<1>1. CASE RateNext
  <2>1. \A q \in RateReqs : rateAt[q].window \in Windows
    BY DEF RateInv, RateTyped
  <2> QED BY <1>1, <2>1, IncrKeeps, ExpireKeeps, CrashKeeps, LapseKeeps DEF RateNext
<1>2. CASE UNCHANGED rateVars
  BY <1>2 DEF rateVars, RateInv, RateTyped, WindowInv, OneExpires, Room, Restarts, Expiring
<1> QED BY <1>1, <1>2

\* No window lets through more than its limit on its count, and a counter starts again
\* unless its EXPIRE was lost, for any requests, failures and cancellations (RateLimit).
THEOREM RateCountedHolds == RateSpec => []RateCounted
<1>1. RateInv => RateCounted
  BY DEF RateInv, WindowInv, Room, Restarts, Expiring, RateCounted
<1> QED BY <1>1, RateInitInv, RateStepInv, PTL DEF RateSpec

\* Requests whose count in a window is behind them.
Counted(w) == {q \in RateReqs : rateAt[q].window > w \/ (rateAt[q].window = w /\ rateAt[q].at # "count")}

RateBound == \A w \in Windows : rateCount[w] <= Cardinality(Counted(w))

LEMMA RateBoundStep ==
  ASSUME IsFiniteSet(RateReqs), RateInv, RateBound, RateNext
  PROVE  RateBound'
<1> SUFFICES ASSUME NEW w \in Windows PROVE rateCount'[w] <= Cardinality(Counted(w)')
  BY DEF RateBound
<1>0. RateTyped /\ rateCount[w] \in Nat /\ rateCount[w] <= Cardinality(Counted(w))
  BY DEF RateInv, RateTyped, RateBound
<1>1. IsFiniteSet(Counted(w)) /\ IsFiniteSet(Counted(w)')
  <2>1. Counted(w) \in SUBSET RateReqs /\ Counted(w)' \in SUBSET RateReqs
    BY DEF Counted
  <2> QED BY <2>1, FS_Subset
<1>2. Cardinality(Counted(w)) \in Nat /\ Cardinality(Counted(w)') \in Nat
  BY <1>1, FS_CardinalityType
<1>3. ASSUME NEW q \in RateReqs, NEW n, NEW v \in Windows, RateCheck(q, n, v), rateAt[q].window = v
      PROVE  Counted(w) \subseteq Counted(w)' /\ (v = w => q \in Counted(w)')
  BY <1>0, <1>3, WindowsAre DEF RateCheck, RateGo, RateTyped, Counted
<1>4. CASE \E q \in RateReqs : RateIncr(q)
  <2>1. PICK q \in RateReqs : RateIncr(q)
    BY <1>4
  <2>2. PICK v \in Windows : v = rateAt[q].window
    BY <1>0 DEF RateTyped
  <2>3. q \notin Counted(v) /\ rateAt[q].at = "count"
    BY <2>1, <2>2, WindowsAre DEF RateIncr, Counted
  <2>4. Counted(w) \subseteq Counted(w)' /\ (v = w => q \in Counted(w)')
    <3>1. CASE RateGo(q, "expire", v) \/ RateGo(q, "passed", v)
      BY <1>0, <2>2, <3>1, WindowsAre DEF RateGo, RateTyped, Counted
    <3>2. CASE RateCheck(q, rateCount[v] + 1, v)
      BY <1>3, <2>2, <3>2
    <3> QED BY <2>1, <2>2, <3>1, <3>2 DEF RateIncr
  <2>5. rateCount'[w] = rateCount[w] \/ (v = w /\ rateCount'[w] = rateCount[w] + 1)
    BY <1>0, <2>1, <2>2 DEF RateIncr, RateTyped
  <2>6. Cardinality(Counted(w)) <= Cardinality(Counted(w)')
    BY <1>1, <2>4, FS_Subset
  <2>7. CASE v = w
    <3>1. Counted(w) # Counted(w)'
      BY <2>3, <2>4, <2>7
    <3>2. Cardinality(Counted(w)) # Cardinality(Counted(w)')
      BY <1>1, <2>4, <3>1, FS_Subset
    <3> QED BY <1>0, <1>2, <2>5, <2>6, <3>2
  <2> QED BY <1>0, <1>2, <2>5, <2>6, <2>7
<1>5. CASE \E q \in RateReqs : RateExpire(q) \/ RateCrash(q)
  <2>1. PICK q \in RateReqs : RateExpire(q) \/ RateCrash(q)
    BY <1>5
  <2>2. PICK v \in Windows : v = rateAt[q].window
    BY <1>0 DEF RateTyped
  <2>3. Counted(w) \subseteq Counted(w)'
    <3>1. CASE RateExpire(q)
      BY <1>3, <2>2, <3>1 DEF RateExpire
    <3>2. CASE RateCrash(q)
      BY <1>0, <2>2, <3>2, WindowsAre DEF RateCrash, RateGo, RateTyped, Counted
    <3> QED BY <2>1, <3>1, <3>2
  <2>4. rateCount' = rateCount
    BY <2>1 DEF RateExpire, RateCrash
  <2>5. Cardinality(Counted(w)) <= Cardinality(Counted(w)')
    BY <1>1, <2>3, FS_Subset
  <2> QED BY <1>0, <1>2, <2>4, <2>5
<1>6. CASE \E v \in Windows : RateLapse(v)
  <2>1. Counted(w)' = Counted(w) /\ (rateCount'[w] = rateCount[w] \/ rateCount'[w] = 0)
    BY <1>0, <1>6 DEF RateLapse, RateTyped, Counted
  <2> QED BY <1>0, <1>2, <2>1
<1> QED BY <1>4, <1>5, <1>6 DEF RateNext

\* The variables of the rate limit keep their types: a window counts a request once at most
\* (RateLimit).
THEOREM RateTypeCorrect == IsFiniteSet(RateReqs) => (RateSpec => []RateTypeOK)
<1> SUFFICES ASSUME IsFiniteSet(RateReqs) PROVE RateSpec => []RateTypeOK
  OBVIOUS
<1> DEFINE Inv == RateInv /\ RateBound /\ rateLost \subseteq Windows
<1>1. RateInit => Inv
  <2> SUFFICES ASSUME RateInit PROVE RateBound /\ rateLost \subseteq Windows
    BY RateInitInv
  <2>1. \A w \in Windows : IsFiniteSet(Counted(w))
    BY FS_Subset DEF Counted
  <2> QED BY <2>1, FS_CardinalityType DEF RateInit, RateBound
<1>2. Inv /\ [RateNext]_rateVars => Inv'
  <2> SUFFICES ASSUME Inv, [RateNext]_rateVars PROVE Inv'
    OBVIOUS
  <2>1. RateInv'
    BY RateStepInv
  <2>2. RateBound'
    <3>1. CASE RateNext
      BY <3>1, RateBoundStep
    <3>2. CASE UNCHANGED rateVars
      BY <3>2 DEF rateVars, RateBound, Counted
    <3> QED BY <3>1, <3>2
  <2>3. rateLost' \subseteq Windows
    BY DEF RateNext, RateIncr, RateExpire, RateCrash, RateLapse, rateVars, RateInv, RateTyped
  <2> QED BY <2>1, <2>2, <2>3
<1>3. Inv => RateTypeOK
  <2> SUFFICES ASSUME Inv PROVE RateTypeOK
    OBVIOUS
  <2>1. RateTyped /\ RateBound
    BY DEF RateInv
  <2>2. ASSUME NEW w \in Windows PROVE rateCount[w] \in 0..Cardinality(RateReqs)
    <3>1. Counted(w) \in SUBSET RateReqs
      BY DEF Counted
    <3>2. /\ Cardinality(Counted(w)) <= Cardinality(RateReqs)
          /\ Cardinality(Counted(w)) \in Nat /\ Cardinality(RateReqs) \in Nat
      BY <3>1, FS_Subset, FS_CardinalityType
    <3> QED BY <2>1, <3>2 DEF RateTyped, RateBound
  <2>3. rateCount \in [Windows -> 0..Cardinality(RateReqs)]
    BY <2>1, <2>2 DEF RateTyped
  <2> QED BY <2>1, <2>3 DEF RateTyped, RateTypeOK
<1> HIDE DEF Inv
<1> QED BY <1>1, <1>2, <1>3, PTL DEF RateSpec

-----------------------------------------------------------------------------
(* DevicePairing *)

Answered == devGranted \union devRefused

DevTyped ==
  /\ devPair \in {"none", "pending", "approved", "denied"}
  /\ devCode \in BOOLEAN /\ devAsked \in BOOLEAN /\ devRaced \subseteq Handlers
  /\ devAt \in [Handlers -> {"new", "granting", "refusing", "cleaning", "found", "deciding", "over"}]
  /\ devCurrent \subseteq DevDecisions /\ devGranted \subseteq DevPolls /\ devRefused \subseteq DevPolls

\* Polls that are done with the pair: they answer, or have answered.
Settling(h) == devAt[h] = "cleaning" \/ h \in Answered
Settled == {h \in DevPolls : Settling(h)}

\* The pairs there, none or one, and the pairs there ever were without a race.
PairLeft == IF devPair = "none" THEN 0 ELSE 1
PairMade == IF devAsked THEN 1 ELSE 0

\* Before the codes are asked for nothing has happened.
DevBefore == ~devAsked => Answered = {} /\ devPair = "none" /\ \A h \in Handlers : devAt[h] = "new"

\* A decision since whose read the pair has not gone finds it there.
DevReads == \A h \in devCurrent : devAt[h] = "deciding" => devPair # "none"

\* A handler is in a race at its last step on the pair, and polls settle then.
DevLast ==
  /\ \A h \in devRaced : devAt[h] \in {"cleaning", "over"}
  /\ \A h \in Answered : devAt[h] = "over"

\* The polls that have settled and the pair still there are as many as the pair that was
\* made and the handlers that were in a race.
DevCounted ==
  /\ IsFiniteSet(Settled) /\ IsFiniteSet(devRaced)
  /\ Cardinality(Settled) + PairLeft <= PairMade + Cardinality(devRaced)

DevInv == DevTyped /\ DevBefore /\ DevReads /\ DevLast /\ DevCounted

LEMMA DevInitInv == DevInit => DevInv
<1> SUFFICES ASSUME DevInit PROVE DevInv
  OBVIOUS
<1>1. DevTyped /\ DevBefore /\ DevReads /\ DevLast
  BY DEF DevInit, DevTyped, DevBefore, DevReads, DevLast, Answered, Handlers
<1>2. Settled = {} /\ devRaced = {} /\ PairLeft = 0 /\ PairMade = 0
  BY DEF DevInit, Settled, Settling, Answered, Handlers, PairLeft, PairMade
<1>3. DevCounted
  BY <1>2, FS_EmptySet DEF DevCounted
<1> QED BY <1>1, <1>3 DEF DevInv

LEMMA DevTypedStep == ASSUME DevTyped, DevNext PROVE DevTyped'
<1> USE DEF DevTyped, Handlers
<1>1. CASE DevRequest
  BY <1>1 DEF DevRequest
<1>2. CASE DevExpire
  BY <1>2 DEF DevExpire
<1>3. ASSUME NEW h \in DevPolls, DevPoll(h) \/ DevDelete(h) \/ DevGrant(h) PROVE DevTyped'
  BY <1>3 DEF DevPoll, DevDelete, DevGrant, DevClear, DevGo
<1>4. ASSUME NEW h \in DevDecisions, DevLookup(h) \/ DevReread(h) \/ DevDecide(h) PROVE DevTyped'
  BY <1>4 DEF DevLookup, DevReread, DevDecide, DevGo
<1> QED BY <1>1, <1>2, <1>3, <1>4 DEF DevNext

\* What a step leaves of the count: the sets grow by what is named, and the pair goes or stays.
LEMMA DevCountStep ==
  ASSUME DevCounted, devAsked' = devAsked,
         NEW h,
         \/ /\ Settled' = Settled /\ devRaced' = devRaced /\ PairLeft' <= PairLeft
         \/ /\ Settled' = Settled /\ h \notin devRaced /\ devRaced' = devRaced \union {h}
         \/ /\ Settled' = Settled \union {h} /\ devRaced' = devRaced
            /\ devPair # "none" /\ devPair' = "none"
         \/ /\ Settled' = Settled \union {h} /\ h \notin devRaced
            /\ devRaced' = devRaced \union {h} /\ PairLeft' <= PairLeft
  PROVE  DevCounted'
<1>1. /\ PairMade' = PairMade /\ PairMade \in {0, 1} /\ PairLeft \in {0, 1} /\ PairLeft' \in {0, 1}
      /\ devPair # "none" => PairLeft = 1
      /\ devPair' = "none" => PairLeft' = 0
  BY DEF PairMade, PairLeft
<1>2. /\ IsFiniteSet(Settled) /\ Cardinality(Settled) \in Nat
      /\ IsFiniteSet(devRaced) /\ Cardinality(devRaced) \in Nat
      /\ Cardinality(Settled) + PairLeft <= PairMade + Cardinality(devRaced)
  BY FS_CardinalityType DEF DevCounted
<1>3. /\ IsFiniteSet(Settled \union {h}) /\ Cardinality(Settled \union {h}) \in Nat
      /\ Cardinality(Settled \union {h}) <= Cardinality(Settled) + 1
  BY <1>2, OneMore
<1>4. /\ IsFiniteSet(devRaced \union {h})
      /\ h \notin devRaced => Cardinality(devRaced \union {h}) = Cardinality(devRaced) + 1
  BY <1>2, FS_AddElement
<1>5. SUFFICES /\ IsFiniteSet(Settled') /\ IsFiniteSet(devRaced')
               /\ Cardinality(Settled') + PairLeft' <= PairMade + Cardinality(devRaced')
  BY <1>1 DEF DevCounted
<1>6. CASE Settled' = Settled /\ devRaced' = devRaced /\ PairLeft' <= PairLeft
  BY <1>1, <1>2, <1>6
<1>7. CASE Settled' = Settled /\ h \notin devRaced /\ devRaced' = devRaced \union {h}
  BY <1>1, <1>2, <1>4, <1>7
<1>8. CASE /\ Settled' = Settled \union {h} /\ devRaced' = devRaced
           /\ devPair # "none" /\ devPair' = "none"
  BY <1>1, <1>2, <1>3, <1>8
<1>9. CASE /\ Settled' = Settled \union {h} /\ h \notin devRaced
           /\ devRaced' = devRaced \union {h} /\ PairLeft' <= PairLeft
  BY <1>1, <1>2, <1>3, <1>4, <1>9
<1> QED BY <1>6, <1>7, <1>8, <1>9

LEMMA DevPollStep ==
  ASSUME DevInv, NEW h \in DevPolls, DevPoll(h) \/ DevDelete(h) \/ DevGrant(h)
  PROVE  DevBefore' /\ DevReads' /\ DevLast' /\ DevCounted'
<1> USE DEF DevInv
<1>1. /\ h \in Handlers /\ h \notin devCurrent
      /\ \A x \in DevPolls \union devCurrent \union devRaced : x \in Handlers
  BY DevAssumption DEF Handlers, DevTyped
<1>2. CASE DevPoll(h)
  <2>1. /\ devAt' = [devAt EXCEPT ![h] = devAt'[h]] /\ devAt[h] = "new" /\ devAsked
        /\ devAt'[h] \in {"granting", "refusing", "over"}
        /\ UNCHANGED <<devPair, devAsked, devCurrent, devGranted, devRefused, devRaced>>
    BY <1>1, <1>2 DEF DevPoll, DevGo, DevTyped
  <2>2. \A j \in Handlers : j # h => devAt'[j] = devAt[j]
    BY <2>1 DEF DevTyped
  <2>3. DevReads' /\ DevBefore'
    BY <1>1, <2>1, <2>2 DEF DevReads, DevBefore
  <2>4. h \notin Answered /\ h \notin devRaced
    BY <2>1 DEF DevLast
  <2>5. DevLast'
    BY <1>1, <2>1, <2>2, <2>4 DEF DevLast, Answered, DevTyped
  <2>6. \A j \in DevPolls : Settling(j)' <=> Settling(j)
    BY <1>1, <2>1, <2>2 DEF Settling, Answered
  <2>7. Settled' = Settled /\ PairLeft' = PairLeft
    BY <2>1, <2>6 DEF Settled, PairLeft
  <2>8. DevCounted'
    <3>1. PairLeft \in {0, 1}
      BY DEF PairLeft
    <3> QED BY <2>1, <2>7, <3>1, DevCountStep
  <2> QED BY <2>3, <2>5, <2>8
<1>3. CASE DevDelete(h)
  <2>1. /\ devAt[h] \in {"granting", "refusing"}
        /\ \/ devCurrent' = {} /\ devPair' = "none"
           \/ devCurrent' = devCurrent /\ devPair' = devPair
        /\ devGranted' = devGranted /\ devAsked' = devAsked
        /\ \/ devAt' = [devAt EXCEPT ![h] = "cleaning"] /\ devRefused' = devRefused
           \/ devAt' = [devAt EXCEPT ![h] = "over"] /\ devRefused' = devRefused \union {h}
    BY <1>3 DEF DevDelete, DevClear, DevGo
  <2>2. \/ devPair # "none" /\ devPair' = "none" /\ devRaced' = devRaced
        \/ devRaced' = devRaced \union {h} /\ devPair' = devPair
    BY <1>3 DEF DevDelete, DevClear
  <2>3. \A j \in Handlers : j # h => devAt'[j] = devAt[j]
    BY <2>1 DEF DevTyped
  <2>4. /\ devAt'[h] \in {"cleaning", "over"}
        /\ h \in Answered' => devAt'[h] = "over"
    <3>1. h \notin Answered
      BY <2>1 DEF DevLast
    <3> QED BY <1>1, <2>1, <3>1 DEF DevTyped, Answered
  <2>5. devAsked
    BY <1>1, <2>1 DEF DevBefore
  <2>6. DevReads'
    BY <1>1, <2>1, <2>3, <2>4 DEF DevReads
  <2>7. h \notin devRaced
    BY <2>1 DEF DevLast
  <2>8. DevLast'
    <3>1. \A j \in devRaced' : devAt'[j] \in {"cleaning", "over"}
      BY <1>1, <2>2, <2>3, <2>4 DEF DevLast
    <3>2. Answered \subseteq Handlers /\ Answered' \subseteq Answered \union {h}
      BY <2>1 DEF Answered, DevTyped, Handlers
    <3>3. \A j \in Answered' : devAt'[j] = "over"
      BY <2>3, <2>4, <3>2 DEF DevLast
    <3> QED BY <3>1, <3>3 DEF DevLast
  <2>9. Settled' = Settled \union {h}
    <3>1. Settling(h)'
      BY <1>1, <2>1 DEF Settling, Answered, DevTyped
    <3>2. \A j \in DevPolls : j # h => (Settling(j)' <=> Settling(j))
      BY <1>1, <2>1, <2>3 DEF Settling, Answered
    <3> QED BY <3>1, <3>2 DEF Settled
  <2>10. DevCounted'
    <3>1. devPair' = devPair => PairLeft' = PairLeft /\ PairLeft \in {0, 1}
      BY DEF PairLeft
    <3> QED BY <2>1, <2>2, <2>7, <2>9, <3>1, DevCountStep
  <2> QED BY <2>1, <2>5, <2>6, <2>8, <2>10 DEF DevBefore
<1>4. CASE DevGrant(h)
  <2>1. /\ devAt[h] = "cleaning" /\ devGranted' = devGranted \union {h}
        /\ devAt' = [devAt EXCEPT ![h] = "over"]
        /\ UNCHANGED <<devPair, devAsked, devCurrent, devRefused, devRaced>>
    BY <1>4 DEF DevGrant, DevGo
  <2>2. \A j \in Handlers : devAt'[j] = IF j = h THEN "over" ELSE devAt[j]
    BY <2>1 DEF DevTyped
  <2>3. devAsked
    BY <1>1, <2>1 DEF DevBefore
  <2>4. DevReads'
    BY <1>1, <2>1, <2>2 DEF DevReads
  <2>5. DevLast'
    <3>1. Answered \subseteq Handlers /\ Answered' = Answered \union {h}
      BY <2>1 DEF Answered, DevTyped, Handlers
    <3> QED BY <1>1, <2>1, <2>2, <3>1 DEF DevLast
  <2>6. \A j \in DevPolls : Settling(j)' <=> Settling(j)
    BY <1>1, <2>1, <2>2 DEF Settling, Answered
  <2>7. Settled' = Settled /\ PairLeft' = PairLeft /\ PairLeft \in {0, 1}
    BY <2>1, <2>6 DEF Settled, PairLeft
  <2>8. DevCounted'
    BY <2>1, <2>7, DevCountStep
  <2> QED BY <2>1, <2>3, <2>4, <2>5, <2>8 DEF DevBefore
<1> QED BY <1>2, <1>3, <1>4

LEMMA DevDecisionStep ==
  ASSUME DevInv, NEW h \in DevDecisions, DevLookup(h) \/ DevReread(h) \/ DevDecide(h)
  PROVE  DevBefore' /\ DevReads' /\ DevLast' /\ DevCounted'
<1> USE DEF DevInv
<1>1. /\ h \in Handlers /\ h \notin DevPolls
      /\ \A x \in DevPolls \union devCurrent \union devRaced : x \in Handlers
  BY DevAssumption DEF Handlers, DevTyped
<1>2. /\ devAt[h] \in {"new", "found", "deciding"}
      /\ devAt' = [devAt EXCEPT ![h] = devAt'[h]] /\ devAt'[h] \in {"found", "deciding", "over"}
      /\ UNCHANGED <<devAsked, devGranted, devRefused>>
  BY <1>1 DEF DevLookup, DevReread, DevDecide, DevGo, DevTyped
<1>3. \A j \in Handlers : j # h => devAt'[j] = devAt[j]
  BY <1>2 DEF DevTyped
<1>4. devAsked
  <2>1. devAsked \/ devAt[h] # "new"
    BY DEF DevLookup, DevReread, DevDecide
  <2> QED BY <1>1, <2>1 DEF DevBefore
<1>5. Settled' = Settled
  <2>1. \A j \in DevPolls : Settling(j)' <=> Settling(j)
    BY <1>1, <1>2, <1>3 DEF Settling, Answered
  <2> QED BY <2>1 DEF Settled
<1>6. DevReads'
  <2>1. CASE DevLookup(h)
    <3>1. devAt'[h] \in {"found", "over"} /\ UNCHANGED <<devPair, devCurrent>>
      BY <1>1, <2>1 DEF DevLookup, DevGo, DevTyped
    <3> QED BY <1>1, <1>3, <3>1 DEF DevReads
  <2>2. CASE DevReread(h)
    <3>1. /\ devAt'[h] = "deciding" => devPair # "none"
          /\ devCurrent' = devCurrent \union {h} /\ devPair' = devPair
      BY <1>1, <2>2 DEF DevReread, DevThere, DevGo, DevTyped
    <3> QED BY <1>1, <1>3, <3>1 DEF DevReads
  <2>3. CASE DevDecide(h)
    <3>1. /\ devAt'[h] = "over" /\ devCurrent' = devCurrent
          /\ devPair' # "none" \/ devPair' = devPair
      BY <1>1, <2>3 DEF DevDecide, DevGo, DevTyped
    <3> QED BY <1>1, <1>3, <3>1 DEF DevReads
  <2> QED BY <2>1, <2>2, <2>3
<1>7. h \notin devRaced /\ h \notin Answered
  <2>1. Answered \subseteq DevPolls
    BY DEF Answered, DevTyped
  <2> QED BY <1>1, <1>2, <2>1 DEF DevLast
<1>8. DevLast'
  <2>1. devRaced' \subseteq devRaced \union (IF DevDecide(h) THEN {h} ELSE {})
    BY DEF DevLookup, DevReread, DevDecide
  <2>2. DevDecide(h) => devAt'[h] = "over"
    BY <1>1 DEF DevDecide, DevGo, DevTyped
  <2>3. Answered' = Answered /\ Answered \subseteq Handlers
    BY <1>2 DEF Answered, DevTyped, Handlers
  <2> QED BY <1>1, <1>3, <1>7, <2>1, <2>2, <2>3 DEF DevLast
<1>9. \/ devRaced' = devRaced /\ PairLeft' <= PairLeft
      \/ devRaced' = devRaced \union {h}
  <2>1. CASE UNCHANGED <<devPair, devRaced>>
    BY <2>1 DEF PairLeft
  <2>2. CASE devAt[h] = "deciding" /\ devRaced' = IF devPair = "none" /\ h \notin devCurrent
                                                  THEN devRaced \union {h} ELSE devRaced
    <3>1. h \in devCurrent => devPair # "none"
      BY <2>2 DEF DevReads
    <3> QED BY <2>2, <3>1 DEF PairLeft
  <2> QED BY <2>1, <2>2 DEF DevLookup, DevReread, DevDecide
<1>10. DevCounted'
  BY <1>2, <1>5, <1>7, <1>9, DevCountStep
<1> QED BY <1>2, <1>4, <1>6, <1>8, <1>10 DEF DevBefore

LEMMA DevStepInv == DevInv /\ [DevNext]_devVars => DevInv'
<1> SUFFICES ASSUME DevInv, [DevNext]_devVars PROVE DevInv'
  OBVIOUS
<1> USE DEF DevInv
<1>1. CASE DevRequest
  <2>1. DevTyped'
    BY <1>1, DevTypedStep DEF DevNext
  <2>2. ~devAsked /\ devAsked' /\ UNCHANGED <<devAt, devCurrent, devGranted, devRefused, devRaced>>
    BY <1>1 DEF DevRequest, DevTyped
  <2>3. Answered = {} /\ Answered' = {} /\ \A h \in Handlers : devAt[h] = "new" /\ devAt'[h] = "new"
    BY <2>2 DEF DevBefore, Answered
  <2>4. DevReads'
    BY <2>2, <2>3 DEF DevReads, DevTyped, Handlers
  <2>5. DevLast'
    BY <2>2, <2>3 DEF DevLast, DevTyped
  <2>6. Settled = {} /\ Settled' = {}
    BY <2>3 DEF Settled, Settling, Handlers
  <2>7. PairMade' = 1 /\ PairLeft' \in {0, 1}
    BY <2>2 DEF PairMade, PairLeft
  <2>8. IsFiniteSet(devRaced) /\ Cardinality(devRaced) \in Nat
    BY FS_CardinalityType DEF DevCounted
  <2>9. DevCounted'
    <3>1. IsFiniteSet(Settled') /\ Cardinality(Settled') = 0
      BY <2>6, FS_EmptySet
    <3>2. devRaced' = devRaced
      BY <2>2
    <3> QED BY <2>7, <2>8, <3>1, <3>2 DEF DevCounted
  <2> QED BY <2>1, <2>2, <2>4, <2>5, <2>9 DEF DevBefore
<1>2. CASE DevExpire
  <2>1. DevTyped'
    BY <1>2, DevTypedStep DEF DevNext
  <2>2. UNCHANGED <<devAsked, devAt, devGranted, devRefused, devRaced>>
    BY <1>2 DEF DevExpire
  <2>3. \/ devPair' = "none" /\ devCurrent' = {}
        \/ UNCHANGED <<devPair, devCurrent>>
    BY <1>2 DEF DevExpire
  <2>4. Settled' = Settled /\ PairLeft' <= PairLeft
    BY <2>2, <2>3 DEF Settled, Settling, Answered, PairLeft
  <2>5. DevCounted'
    BY <2>2, <2>4, DevCountStep
  <2>6. DevBefore' /\ DevReads' /\ DevLast'
    BY <2>2, <2>3 DEF DevBefore, DevReads, DevLast, Answered
  <2> QED BY <2>1, <2>5, <2>6
<1>3. CASE \E h \in DevPolls : DevPoll(h) \/ DevDelete(h) \/ DevGrant(h)
  BY <1>3, DevTypedStep, DevPollStep DEF DevNext
<1>4. CASE \E h \in DevDecisions : DevLookup(h) \/ DevReread(h) \/ DevDecide(h)
  BY <1>4, DevTypedStep, DevDecisionStep DEF DevNext
<1>5. CASE UNCHANGED devVars
  <2>1. Settled' = Settled /\ PairLeft' = PairLeft /\ PairMade' = PairMade /\ devRaced' = devRaced
    BY <1>5 DEF devVars, Settled, Settling, Answered, PairLeft, PairMade
  <2>2. DevTyped' /\ DevBefore' /\ DevReads' /\ DevLast'
    BY <1>5 DEF devVars, DevTyped, DevBefore, DevReads, DevLast, Answered
  <2> QED BY <2>1, <2>2 DEF DevCounted
<1> QED BY <1>1, <1>2, <1>3, <1>4, <1>5 DEF DevNext

\* A pairing is answered once and is over then, for any polls and decisions and whenever the
\* keys expire, but for one more answer for each handler in a race: the argument counts the
\* polls that are past the Del of the pair, and each took the pair away or is in a race
\* (handleDeviceToken, handleDeviceApprove).
THEOREM DevOnceHolds == DevInit /\ [][DevNext]_devVars => []DevOnce
<1>1. DevInv => DevOnce
  <2> SUFFICES ASSUME DevInv
               PROVE  Cardinality(Answered) + PairLeft <= 1 + Cardinality(devRaced)
    BY DEF DevOnce, Answered, PairLeft
  <2>1. Answered \subseteq Settled
    BY DEF DevInv, DevTyped, Answered, Settled, Settling
  <2>2. /\ IsFiniteSet(Settled) /\ Cardinality(Settled) \in Nat /\ Cardinality(devRaced) \in Nat
        /\ Cardinality(Settled) + PairLeft <= PairMade + Cardinality(devRaced)
    BY FS_CardinalityType DEF DevInv, DevCounted
  <2>3. Cardinality(Answered) \in Nat /\ Cardinality(Answered) <= Cardinality(Settled)
    BY <2>1, <2>2, FS_Subset, FS_CardinalityType
  <2>4. PairLeft \in {0, 1} /\ PairMade \in {0, 1}
    BY DEF PairLeft, PairMade
  <2> QED BY <2>2, <2>3, <2>4
<1> QED BY <1>1, DevInitInv, DevStepInv, PTL

\* The device's variables keep their types.
THEOREM DevTypeCorrect == DevInit /\ [][DevNext]_devVars => []DevTypeOK
<1>1. DevInv => DevTypeOK
  BY DEF DevInv, DevTyped, DevTypeOK
<1> QED BY <1>1, DevInitInv, DevStepInv, PTL

-----------------------------------------------------------------------------
(* AuditExport *)

\* The largest of a set of ids.
LEMMA LargestId ==
  ASSUME NEW n \in Nat, NEW S \in SUBSET (0..n), S # {}
  PROVE  Max(S) \in S /\ \A i \in S : i <= Max(S)
<1> DEFINE Bounds == {b \in Nat : \A i \in S : i <= b}
<1>1. n \in Bounds
  OBVIOUS
<1>2. PICK b \in Bounds : \A c \in Bounds : b <= c
  <2>1. Bounds \in SUBSET Nat /\ Bounds # {}
    BY <1>1
  <2> HIDE DEF Bounds
  <2> QED BY <2>1, SmallestId
<1>3. b \in S
  <2> SUFFICES ASSUME b \notin S PROVE FALSE
    OBVIOUS
  <2>1. \A j \in S : j \in Nat /\ j <= b
    BY <1>2
  <2>2. \A j \in S : j <= b - 1
    BY <1>2, <2>1
  <2>3. PICK j \in S : j \in Nat /\ j <= b - 1
    BY <2>1, <2>2
  <2>4. b - 1 \in Nat
    BY <1>2, <2>3
  <2>5. b - 1 \in Bounds
    BY <2>2, <2>4
  <2> QED BY <1>2, <2>4, <2>5
<1>4. \A i \in S : b >= i
  BY <1>2
<1> QED BY <1>3, <1>4 DEF Max

\* A query returns no more rows than its limit.
LEMMA NewestFew ==
  ASSUME IsFiniteSet(audRows), audRows \subseteq Nat
  PROVE  \A new \in SUBSET Newest : IsFiniteSet(new) /\ Cardinality(new) <= AudLimit
<1>1. Newest \subseteq audRows
  BY DEF Newest
<1>2. IsFiniteSet(Newest)
  BY <1>1, FS_Subset
<1>3. AudLimit \in Nat
  BY AudAssumption
<1>4. Cardinality(Newest) <= AudLimit
  <2>1. CASE Newest = {}
    BY <1>3, <2>1, FS_EmptySet
  <2>2. CASE Newest # {}
    <3>1. PICK m \in Newest : \A i \in Newest : m <= i
      BY <1>1, <2>2, SmallestId
    <3> DEFINE above == {j \in audRows : j > m}
    <3>2. Cardinality(above) < AudLimit
      BY <3>1 DEF Newest
    <3>3. IsFiniteSet(above) /\ Cardinality(above) \in Nat
      BY FS_Subset, FS_CardinalityType
    <3>4. Newest \ {m} \subseteq above
      BY <1>1, <3>1
    <3>5. Cardinality(Newest \ {m}) <= Cardinality(above)
      BY <3>3, <3>4, FS_Subset
    <3>6. /\ Cardinality(Newest \ {m}) = Cardinality(Newest) - 1
          /\ Cardinality(Newest) \in Nat
      BY <1>2, <3>1, FS_RemoveElement, FS_CardinalityType
    <3> HIDE DEF above
    <3> QED BY <1>3, <3>2, <3>3, <3>5, <3>6
  <2> QED BY <2>1, <2>2
<1> QED BY <1>2, <1>3, <1>4, FS_Subset, FS_CardinalityType

AudTyped ==
  /\ audBegun \in 0..AudEvents /\ audLast \in 0..audBegun /\ audRestarts \in 0..AudRestartMax
  /\ audRows \subseteq 1..audBegun /\ audFailed \subseteq 1..audBegun
  /\ audRows \intersect audFailed = {}
  /\ audBatch \subseteq audRows /\ Cardinality(audBatch) <= AudLimit
  /\ audSeen \subseteq audRows /\ audTwice \union audAgain \subseteq audRows
  /\ audMissed \subseteq 1..audBegun

\* What the cursor has passed was received, was missed by a query, or never became a row.
AudPassed == \A i \in 1..audLast : i \in audSeen \union audMissed \union audFailed

\* So will be what the batch under way lets it pass.
AudAhead ==
  audBatch # {} =>
    /\ \A i \in audBatch : i > audLast
    /\ \A i \in 1..Max(audBatch) : i > audLast => i \in audBatch \union audMissed \union audFailed

\* What the receiver has from beyond the cursor is known to be sent again.
AudKnown == \A i \in audSeen : i > audLast => i \in audAgain

AudInv == AudTyped /\ AudPassed /\ AudAhead /\ AudKnown /\ audTwice \subseteq audAgain

LEMMA AudInitInv == AudInit => AudInv
<1> SUFFICES ASSUME AudInit PROVE AudInv
  OBVIOUS
<1>1. AudTyped
  BY AudAssumption, FS_EmptySet DEF AudInit, AudTyped
<1> QED BY <1>1 DEF AudInit, AudInv, AudPassed, AudAhead, AudKnown

LEMMA AudBegunNat ==
  ASSUME AudTyped
  PROVE  /\ audBegun \in Nat /\ audLast \in Nat /\ IsFiniteSet(audRows) /\ audRows \subseteq Nat
         /\ AudLimit \in Nat
<1>1. audBegun \in Nat /\ AudLimit \in Nat
  BY AudAssumption DEF AudTyped
<1>2. IsFiniteSet(audRows)
  <2>1. IsFiniteSet(1..audBegun)
    BY <1>1, FS_Interval
  <2> QED BY <2>1, FS_Subset DEF AudTyped
<1> QED BY <1>1, <1>2 DEF AudTyped

LEMMA AudLogStep ==
  ASSUME AudInv, AudBegin \/ \E i \in 1..AudEvents : AudEnd(i)
  PROVE  AudInv'
<1> USE DEF AudInv
<1>1. /\ audBegun' \in 0..AudEvents /\ audBegun <= audBegun' /\ audBegun \in Nat /\ audBegun' \in Nat
      /\ audRows \subseteq audRows' /\ audFailed \subseteq audFailed'
      /\ audRows' \subseteq 1..audBegun' /\ audFailed' \subseteq 1..audBegun'
      /\ audRows' \intersect audFailed' = {}
      /\ UNCHANGED <<audBatch, audLast, audRestarts, audSeen, audTwice, audMissed, audAgain>>
  <2>1. audBegun \in Nat /\ audBegun <= AudEvents /\ AudEvents \in Nat
    BY AudAssumption DEF AudTyped
  <2>2. CASE AudBegin
    <3>1. audBegun' = audBegun + 1 /\ audBegun < AudEvents /\ UNCHANGED <<audRows, audFailed>>
      BY <2>2 DEF AudBegin
    <3>2. 1..audBegun \subseteq 1..audBegun'
      BY <2>1, <3>1
    <3> QED BY <2>1, <2>2, <3>1, <3>2 DEF AudBegin, AudTyped, audHistoryVars
  <2>3. CASE \E i \in 1..AudEvents : AudEnd(i)
    <3>1. PICK i \in 1..AudEvents : AudEnd(i)
      BY <2>3
    <3>2. i \in 1..audBegun /\ i \notin audRows \union audFailed
      BY <2>1, <3>1 DEF AudEnd
    <3>3. /\ UNCHANGED <<audBegun, audBatch, audLast, audRestarts, audSeen, audTwice, audMissed, audAgain>>
          /\ \/ audRows' = audRows \union {i} /\ audFailed' = audFailed
             \/ audFailed' = audFailed \union {i} /\ audRows' = audRows
      BY <3>1 DEF AudEnd, audHistoryVars
    <3>4. /\ audRows' \subseteq 1..audBegun /\ audFailed' \subseteq 1..audBegun
          /\ audRows \subseteq audRows' /\ audFailed \subseteq audFailed'
          /\ audRows' \intersect audFailed' = {}
      BY <3>2, <3>3 DEF AudTyped
    <3> QED BY <2>1, <3>3, <3>4
  <2> QED BY <2>2, <2>3
<1>2. AudTyped'
  <2>1. audLast' \in 0..audBegun' /\ 1..audBegun \subseteq 1..audBegun'
    BY <1>1 DEF AudTyped
  <2> QED BY <1>1, <2>1 DEF AudTyped
<1>3. AudPassed'
  BY <1>1 DEF AudPassed
<1>4. AudAhead'
  BY <1>1 DEF AudAhead
<1> QED BY <1>1, <1>2, <1>3, <1>4 DEF AudKnown

LEMMA AudQueryStep ==
  ASSUME AudInv, AudQuery
  PROVE  AudInv'
<1> USE DEF AudInv
<1>1. PICK new \in SUBSET audRows :
        /\ new = {i \in Newest : i > audLast} /\ new # {} /\ audBatch' = new
        /\ audMissed' = audMissed \union
             {i \in 1..Max(new) : i > audLast /\ i \notin new \union audFailed}
        /\ UNCHANGED <<audBegun, audRows, audFailed, audLast, audRestarts, audSeen, audTwice, audAgain>>
  BY DEF AudQuery, audLogVars, Newest
<1>2. audBegun \in Nat /\ audLast \in Nat /\ IsFiniteSet(audRows) /\ audRows \subseteq Nat
  BY AudBegunNat
<1>3. Max(new) \in new /\ \A i \in new : i <= Max(new)
  <2>1. audRows \subseteq 0..audBegun
    BY <1>2 DEF AudTyped
  <2>3. new \in SUBSET (0..audBegun)
    BY <2>1
  <2> QED BY <1>1, <1>2, <2>3, LargestId
<1>4. Max(new) \in 1..audBegun
  BY <1>1, <1>3 DEF AudTyped
<1>5. Cardinality(new) <= AudLimit
  <2>1. new \in SUBSET Newest
    BY <1>1
  <2> QED BY <1>2, <2>1, NewestFew
<1>6. audMissed' \subseteq 1..audBegun
  <2>1. PICK top : top = Max(new)
    OBVIOUS
  <2>2. 1..top \subseteq 1..audBegun
    BY <1>2, <1>4, <2>1
  <2>3. audMissed \subseteq 1..audBegun
    BY DEF AudTyped
  <2>4. audMissed' \subseteq audMissed \union 1..top
    BY <1>1, <2>1
  <2> QED BY <2>2, <2>3, <2>4
<1>7. AudTyped'
  BY <1>1, <1>5, <1>6 DEF AudTyped
<1>8. AudPassed'
  BY <1>1 DEF AudPassed
<1>9. AudAhead'
  BY <1>1 DEF AudAhead
<1> QED BY <1>1, <1>7, <1>8, <1>9 DEF AudKnown

LEMMA AudPostStep ==
  ASSUME AudInv, AudPost
  PROVE  AudInv'
<1> USE DEF AudInv
<1>1. PICK arrived \in BOOLEAN, answered \in BOOLEAN :
        /\ answered => arrived
        /\ audSeen' = IF arrived THEN audSeen \union audBatch ELSE audSeen
        /\ audTwice' = IF arrived THEN audTwice \union (audSeen \intersect audBatch) ELSE audTwice
        /\ audLast' = IF answered THEN Max(audBatch \union {audLast}) ELSE audLast
        /\ audAgain' = IF answered THEN audAgain ELSE audAgain \union audBatch
  BY DEF AudPost, AudSent
<1>2. /\ audBatch # {} /\ audBatch' = {}
      /\ UNCHANGED <<audBegun, audRows, audFailed, audRestarts, audMissed>>
  BY DEF AudPost, audLogVars
<1>3. audBegun \in Nat /\ audLast \in Nat /\ AudLimit \in Nat
  BY AudBegunNat
<1>4. PICK top : top = Max(audBatch)
  OBVIOUS
<1>5. top \in audBatch /\ top \in 1..audBegun /\ (\A i \in audBatch : i <= top)
  <2>1. audBatch \in SUBSET (0..audBegun)
    BY <1>3 DEF AudTyped
  <2> QED BY <1>2, <1>3, <1>4, <2>1, LargestId DEF AudTyped
<1>6. top > audLast
  BY <1>2, <1>5 DEF AudAhead
<1>7. Max(audBatch \union {audLast}) = top
  <2>1. audBatch \union {audLast} \in SUBSET (0..audBegun)
    BY <1>3 DEF AudTyped
  <2>2. PICK m : m = Max(audBatch \union {audLast})
    OBVIOUS
  <2>3. m \in audBatch \union {audLast} /\ \A i \in audBatch \union {audLast} : i <= m
    BY <1>3, <2>1, <2>2, LargestId
  <2>4. top <= m /\ m <= top
    BY <1>3, <1>5, <1>6, <2>3
  <2> QED BY <1>3, <1>5, <2>2, <2>3, <2>4
<1>8. audSeen \intersect audBatch \subseteq audAgain
  BY <1>2 DEF AudKnown, AudAhead
<1>9. AudTyped'
  <2>1. Cardinality({}) <= AudLimit
    BY <1>3, FS_EmptySet
  <2>2. audLast' \in 0..audBegun
    BY <1>1, <1>3, <1>5, <1>7 DEF AudTyped
  <2> QED BY <1>1, <1>2, <1>8, <2>1, <2>2 DEF AudTyped
<1>10. AudPassed'
  <2>1. CASE answered
    <3>1. audLast' = top /\ audSeen' = audSeen \union audBatch
      BY <1>1, <1>7, <2>1
    <3>2. \A i \in 1..top : i \in 1..audLast \/ i > audLast
      BY <1>3
    <3> QED BY <1>2, <1>4, <3>1, <3>2 DEF AudPassed, AudAhead
  <2>2. CASE ~answered
    BY <1>1, <1>2, <2>2 DEF AudPassed
  <2> QED BY <2>1, <2>2
<1>11. AudAhead'
  BY <1>2 DEF AudAhead
<1>12. AudKnown'
  <2>1. CASE answered
    <3>1. audLast' = top /\ audSeen' = audSeen \union audBatch /\ audAgain' = audAgain
      BY <1>1, <1>7, <2>1
    <3>2. \A i \in audSeen : i > top => i > audLast
      BY <1>3, <1>5, <1>6 DEF AudTyped
    <3> QED BY <1>3, <1>5, <3>1, <3>2 DEF AudKnown, AudTyped
  <2>2. CASE ~answered
    BY <1>1, <1>2, <2>2 DEF AudKnown
  <2> QED BY <2>1, <2>2
<1>13. audTwice' \subseteq audAgain'
  BY <1>1, <1>8
<1> QED BY <1>9, <1>10, <1>11, <1>12, <1>13

LEMMA AudStepInv == AudInv /\ [AudNext]_audVars => AudInv'
<1> SUFFICES ASSUME AudInv, [AudNext]_audVars PROVE AudInv'
  OBVIOUS
<1>1. CASE AudRestart
  <2>1. /\ audRestarts' \in 0..AudRestartMax /\ audBatch' = {} /\ audLast' = 0
        /\ audAgain' = audAgain \union audSeen
        /\ UNCHANGED <<audBegun, audRows, audFailed, audSeen, audTwice, audMissed>>
    BY <1>1, AudAssumption DEF AudRestart, AudInv, AudTyped, audLogVars
  <2>2. AudLimit \in Nat /\ audBegun \in Nat /\ Cardinality({}) = 0
    BY AudBegunNat, FS_EmptySet DEF AudInv
  <2>3. AudTyped'
    <3>1. audLast' \in 0..audBegun' /\ audBatch' \subseteq audRows'
      BY <2>1, <2>2
    <3>2. Cardinality(audBatch') <= AudLimit
      BY <2>1, <2>2
    <3> QED BY <2>1, <3>1, <3>2 DEF AudInv, AudTyped
  <2> QED BY <2>1, <2>3 DEF AudInv, AudPassed, AudAhead, AudKnown
<1>2. CASE UNCHANGED audVars
  BY <1>2 DEF audVars, audLogVars, audHistoryVars, AudInv, AudTyped, AudPassed, AudAhead, AudKnown
<1> QED BY <1>1, <1>2, AudLogStep, AudQueryStep, AudPostStep DEF AudNext

\* The receiver has what the cursor has passed, less what a query missed, and an event twice
\* only if it was sent without an answer or before a restart, for any number of events,
\* any limit and any restarts (export).
THEOREM AudDeliveredHolds == AudInit /\ [][AudNext]_audVars => []AudDelivered
<1>1. AudInv => AudDelivered
  BY DEF AudInv, AudTyped, AudPassed, AudDelivered
<1> QED BY <1>1, AudInitInv, AudStepInv, PTL

\* The exporter's variables keep their types; a batch holds no more rows than the limit of
\* the query (Logger.Query).
THEOREM AudTypeCorrect == AudInit /\ [][AudNext]_audVars => []AudTypeOK
<1>1. AudInv => AudTypeOK
  BY DEF AudInv, AudTyped, AudTypeOK
<1> QED BY <1>1, AudInitInv, AudStepInv, PTL
-----------------------------------------------------------------------------
(* Memory *)

PassRec ==
  [at : {"idle", "merging", "deleting", "pruning", "counting", "cutting", "over"},
   todo : SUBSET DOMAIN MemAlike, deleted : SUBSET Rows, counts : [Rows -> Nat],
   keep : Rows \union {0}, excess : Nat, touched : SUBSET Rows, taken : SUBSET Rows]

Merging(r) == r.at \in {"merging", "deleting"}
Deleting(p) == memPass[p].at = "deleting"

\* The rows of the pairs a pass has left are in the table, or were deleted by it or by
\* others; the counts it read stand, but for the rows touched since.
PassOK(r, live, gone, count) ==
  /\ r.taken \subseteq r.touched /\ r.deleted \union r.taken \subseteq gone
  /\ r.at = "deleting" => r.todo # {} /\ ~MemSkip(r) /\ r.keep \in PairOf(r)
  /\ Merging(r) => /\ \A k \in r.todo : ToSet(MemAlike[k]) \subseteq live \union r.deleted \union r.taken
                   /\ \A i \in Rows \ r.touched : r.counts[i] = count[i]

\* Rows whose count is to be what the history variable says.
Sane == Rows \ (memGone \union memSpoiled)

\* The row that a pass is about to delete was not touched since the UPDATE of its keeper.
Untouched(p, d) == d \in PairOf(memPass[p]) \ ({memPass[p].keep} \union memPass[p].touched)

\* Between the statements of a merge the keeper also has the accesses of the row that is to
\* be deleted, into which nobody merges; and no other merge has that keeper.
MemBalance ==
  /\ \A i \in Sane \ MemKeeping : memCount[i] = memOwed[i]
  /\ \A p \in MemReplicas : Deleting(p) /\ memPass[p].keep \in Sane =>
       \A d \in Rows : Untouched(p, d) =>
         /\ d \notin MemKeeping
         /\ memCount[memPass[p].keep] = memOwed[memPass[p].keep] + memOwed[d]
  /\ \A p, q \in MemReplicas :
       Deleting(p) /\ Deleting(q) /\ memPass[p].keep = memPass[q].keep /\ memPass[p].keep \in Sane
         => p = q

MemInv ==
  /\ MemTypeOK
  /\ \A p \in MemReplicas : PassOK(memPass[p], memLive, memGone, memCount)
  /\ MemKeeperStays
  /\ MemBalance

LEMMA RowsAre == IsFiniteSet(Rows) /\ Rows \subseteq Nat
BY MemAssumption, FS_CardinalityType

LEMMA PairsAre ==
  ASSUME NEW k \in DOMAIN MemAlike
  PROVE  \E a, b \in Rows : a # b /\ ToSet(MemAlike[k]) = {a, b}
<1>1. MemAlike[k] \in Rows \X Rows /\ MemAlike[k][1] < MemAlike[k][2]
  BY MemAssumption
<1>2. PICK a \in Rows, b \in Rows : MemAlike[k] = <<a, b>>
  BY <1>1
<1>3. a < b /\ a \in Nat /\ b \in Nat
  BY <1>1, <1>2, RowsAre
<1>4. ToSet(<<a, b>>) = {a, b}
  <2>1. DOMAIN <<a, b>> = {1, 2} /\ <<a, b>>[1] = a /\ <<a, b>>[2] = b
    OBVIOUS
  <2> QED BY <2>1 DEF ToSet
<1> QED BY <1>2, <1>3, <1>4

\* The pair at hand has two rows.
LEMMA PassPair ==
  ASSUME NEW r \in PassRec, r.todo # {}
  PROVE  /\ Min(r.todo) \in r.todo
         /\ \E a, b \in Rows : a # b /\ PairOf(r) = {a, b}
<1>1. r.todo \subseteq DOMAIN MemAlike /\ DOMAIN MemAlike \subseteq Nat
  <2>1. DOMAIN MemAlike = 1..Len(MemAlike) /\ Len(MemAlike) \in Nat
    BY MemAssumption, LenProperties
  <2> QED BY <2>1 DEF PassRec
<1>2. PICK m \in r.todo : \A k \in r.todo : m <= k
  BY <1>1, SmallestId
<1>3. Min(r.todo) \in r.todo
  BY <1>2 DEF Min
<1> QED BY <1>1, <1>3, PairsAre DEF PairOf

LEMMA PairSum ==
  ASSUME NEW c, NEW a, NEW b, a # b, c[a] \in Nat, c[b] \in Nat
  PROVE  SumOver(c, {a, b}) = c[a] + c[b]
<1>1. IsFiniteSet({}) /\ IsFiniteSet({b}) /\ IsFiniteSet({a, b})
  <2>1. {a, b} = {b} \union {a}
    OBVIOUS
  <2>2. IsFiniteSet({b}) /\ IsFiniteSet({b} \union {a})
    BY FS_Singleton, FS_AddElement
  <2> QED BY <2>1, <2>2, FS_EmptySet
<1>2. SumOver(c, {a, b}) = c[a] + SumOver(c, {b})
  <2>1. {a, b} \ {a} = {b}
    OBVIOUS
  <2>2. SumOver(c, {a, b}) = c[a] + SumOver(c, {a, b} \ {a})
    BY <1>1, SumRemove DEF Counts
  <2> QED BY <2>1, <2>2
<1>3. SumOver(c, {b}) = c[b] + SumOver(c, {})
  <2>1. {b} \ {b} = {}
    OBVIOUS
  <2>2. SumOver(c, {b}) = c[b] + SumOver(c, {b} \ {b})
    BY <1>1, SumRemove DEF Counts
  <2> QED BY <2>1, <2>2
<1>4. SumOver(c, {}) = 0
  BY <1>1, SumStep
<1> QED BY <1>2, <1>3, <1>4

-----------------------------------------------------------------------------
(* The passes that a step disturbs *)

Disturbed(r, counted, going) ==
  IF Merging(r)
  THEN [r EXCEPT !.touched = @ \union counted \union going, !.taken = @ \union going] ELSE r

LEMMA DisturbIs ==
  ASSUME NEW others, NEW counted, NEW going, NEW q \in MemReplicas
  PROVE  MemDisturb(others, counted, going)[q] =
           IF q \in others THEN Disturbed(memPass[q], counted, going) ELSE memPass[q]
BY DEF MemDisturb, Disturbed, Merging

LEMMA DisturbDomain ==
  \A others, counted, going : DOMAIN MemDisturb(others, counted, going) = MemReplicas
BY DEF MemDisturb

LEMMA DisturbedKeeps ==
  ASSUME NEW r \in PassRec, NEW counted \in SUBSET Rows, NEW going \in SUBSET Rows
  PROVE  /\ Disturbed(r, counted, going) \in PassRec
         /\ Disturbed(r, counted, going).at = r.at
         /\ Disturbed(r, counted, going).todo = r.todo
         /\ Disturbed(r, counted, going).keep = r.keep
         /\ Disturbed(r, counted, going).deleted = r.deleted
         /\ Disturbed(r, counted, going).counts = r.counts
         /\ Merging(r) =>
              /\ Disturbed(r, counted, going).touched = r.touched \union counted \union going
              /\ Disturbed(r, counted, going).taken = r.taken \union going
BY DEF Disturbed, PassRec, Merging

\* What counts is that the rows that change or go are all told.
LEMMA DisturbedOK ==
  ASSUME NEW r \in PassRec, NEW counted \in SUBSET Rows, NEW going \in SUBSET Rows,
         NEW live, NEW gone, NEW count, PassOK(r, live, gone, count),
         NEW live2, NEW gone2, NEW count2, live \ going \subseteq live2,
         gone \union going \subseteq gone2,
         \A i \in Rows \ (counted \union going) : count2[i] = count[i]
  PROVE  PassOK(Disturbed(r, counted, going), live2, gone2, count2)
<1>1. CASE Merging(r)
  <2>1. PICK r2 \in PassRec : r2 = Disturbed(r, counted, going)
    BY DisturbedKeeps
  <2>2. /\ r2.at = r.at /\ r2.todo = r.todo /\ r2.deleted = r.deleted /\ r2.keep = r.keep
        /\ r2.counts = r.counts /\ r2.touched = r.touched \union counted \union going
        /\ r2.taken = r.taken \union going
    BY <1>1, <2>1 DEF Disturbed, PassRec
  <2>3. MemSkip(r2) = MemSkip(r) /\ PairOf(r2) = PairOf(r)
    BY <2>2 DEF MemSkip, PairOf
  <2>4. \A k \in r2.todo : ToSet(MemAlike[k]) \subseteq live2 \union r2.deleted \union r2.taken
    BY <1>1, <2>2 DEF PassOK
  <2>5. \A i \in Rows \ r2.touched : r2.counts[i] = count2[i]
    BY <1>1, <2>2 DEF PassOK
  <2>6. PassOK(r2, live2, gone2, count2)
    BY <1>1, <2>2, <2>3, <2>4, <2>5 DEF PassOK
  <2> QED BY <2>1, <2>6
<1>2. CASE ~Merging(r)
  <2>1. Disturbed(r, counted, going) = r
    BY <1>2 DEF Disturbed
  <2> QED BY <1>2, <2>1 DEF PassOK, Merging
<1> QED BY <1>1, <1>2

LEMMA MemIdleTyped ==
  /\ MemIdle \in PassRec
  /\ \A at \in {"idle", "pruning", "counting", "cutting", "over"}, n \in Nat :
       /\ [MemIdle EXCEPT !.at = at] \in PassRec
       /\ [MemIdle EXCEPT !.at = at, !.excess = n] \in PassRec
  /\ \A at \in {"idle", "pruning", "counting", "cutting", "over"} : \A live, gone, count, n :
       /\ PassOK([MemIdle EXCEPT !.at = at], live, gone, count)
       /\ PassOK([MemIdle EXCEPT !.at = at, !.excess = n], live, gone, count)
  /\ \A live, gone, count : PassOK(MemIdle, live, gone, count)
<1>1. /\ MemIdle \in PassRec
      /\ \A at \in {"idle", "pruning", "counting", "cutting", "over"}, n \in Nat :
           /\ [MemIdle EXCEPT !.at = at] \in PassRec
           /\ [MemIdle EXCEPT !.at = at, !.excess = n] \in PassRec
  BY DEF MemIdle, PassRec
<1>2. \A at \in {"idle", "pruning", "counting", "cutting", "over"} : \A live, gone, count, n :
       /\ PassOK([MemIdle EXCEPT !.at = at], live, gone, count)
       /\ PassOK([MemIdle EXCEPT !.at = at, !.excess = n], live, gone, count)
  BY DEF MemIdle, PassOK, Merging
<1>3. \A live, gone, count : PassOK(MemIdle, live, gone, count)
  BY DEF MemIdle, PassOK, Merging
<1> QED BY <1>1, <1>2, <1>3

LEMMA MemTyped ==
  ASSUME MemTypeOK
  PROVE  /\ memPass \in [MemReplicas -> PassRec]
         /\ memCount \in [Rows -> Nat] /\ memOwed \in [Rows -> Nat]
         /\ memLive \in SUBSET Rows /\ memGone \in SUBSET (Rows \ memLive)
         /\ Cardinality(memLive) \in Nat
<1>1. /\ memPass \in [MemReplicas -> PassRec]
      /\ memCount \in [Rows -> Nat] /\ memOwed \in [Rows -> Nat]
      /\ memLive \in SUBSET Rows /\ memGone \in SUBSET (Rows \ memLive)
  BY DEF MemTypeOK, PassRec
<1>2. Cardinality(memLive) \in Nat
  BY <1>1, RowsAre, FS_Subset, FS_CardinalityType
<1> QED BY <1>1, <1>2

\* Keepers are the rows that passes at their DELETE keep.
LEMMA KeepingIs ==
  \A i : /\ i \in MemKeeping <=> \E p \in MemReplicas : Deleting(p) /\ memPass[p].keep = i
         /\ i \in MemKeeping' <=> \E p \in MemReplicas : Deleting(p)' /\ memPass'[p].keep = i
BY DEF MemKeeping, Deleting

LEMMA MemInitInv == MemInit => MemInv
<1> SUFFICES ASSUME MemInit PROVE MemInv
  OBVIOUS
<1>1. memPass \in [MemReplicas -> PassRec] /\ \A p \in MemReplicas : memPass[p] = MemIdle
  BY MemIdleTyped DEF MemInit
<1>2. memLive \subseteq Rows /\ memCount \in [Rows -> Nat] /\ memUses \in 0..MemUseMax
  BY MemAssumption DEF MemInit
<1>3. MemTypeOK
  BY <1>1, <1>2 DEF MemInit, MemTypeOK, PassRec
<1>4. \A p \in MemReplicas : ~Deleting(p)
  BY <1>1 DEF MemIdle, Deleting
<1>5. MemBalance
  BY <1>4 DEF MemBalance, MemInit, Sane
<1>6. \A p \in MemReplicas : PassOK(memPass[p], memLive, memGone, memCount)
  <2>1. \A live, gone, count : PassOK(MemIdle, live, gone, count)
    BY MemIdleTyped
  <2> QED BY <1>1, <2>1
<1> QED BY <1>3, <1>5, <1>6 DEF MemInv, MemInit, MemKeeperStays

-----------------------------------------------------------------------------
(* Steps that keep the balance *)

\* The passes but p are told of the rows that a step counts on, and of those that it deletes.
MemTold(p, counted, going) ==
  \A q \in MemReplicas \ {p} : memPass'[q] = Disturbed(memPass[q], counted, going)

LEMMA ToldKeeps ==
  ASSUME MemInv, NEW p, NEW counted \in SUBSET Rows, NEW going \in SUBSET Rows,
         MemTold(p, counted, going), memLive \ going \subseteq memLive',
         memGone \union going \subseteq memGone',
         \A i \in Rows \ (counted \union going) : memCount'[i] = memCount[i]
  PROVE  \A q \in MemReplicas \ {p} :
           /\ memPass'[q] \in PassRec /\ PassOK(memPass'[q], memLive', memGone', memCount')
           /\ memPass'[q].keep = memPass[q].keep /\ PairOf(memPass'[q]) = PairOf(memPass[q])
           /\ Deleting(q)' <=> Deleting(q)
           /\ Deleting(q) => memPass'[q].touched = memPass[q].touched \union counted \union going
<1> SUFFICES ASSUME NEW q \in MemReplicas \ {p}
             PROVE  /\ memPass'[q] \in PassRec /\ PassOK(memPass'[q], memLive', memGone', memCount')
                    /\ memPass'[q].keep = memPass[q].keep /\ PairOf(memPass'[q]) = PairOf(memPass[q])
                    /\ Deleting(q)' <=> Deleting(q)
                    /\ Deleting(q) => memPass'[q].touched = memPass[q].touched \union counted \union going
  OBVIOUS
<1>1. PICK r \in PassRec : r = memPass[q] /\ PassOK(r, memLive, memGone, memCount)
  BY MemTyped DEF MemInv
<1>2. PICK r2 : r2 = Disturbed(r, counted, going) /\ r2 = memPass'[q]
  BY <1>1 DEF MemTold
<1>3. /\ r2 \in PassRec /\ r2.at = r.at /\ r2.todo = r.todo /\ r2.keep = r.keep
      /\ Merging(r) => r2.touched = r.touched \union counted \union going
  <2>1. PICK r3 \in PassRec : r3 = Disturbed(r, counted, going)
    BY DisturbedKeeps
  <2>2. /\ r3.at = r.at /\ r3.todo = r.todo /\ r3.keep = r.keep
        /\ Merging(r) => r3.touched = r.touched \union counted \union going
    BY <2>1 DEF Disturbed, PassRec
  <2> QED BY <1>2, <2>1, <2>2
<1>4. PassOK(r2, memLive', memGone', memCount')
  <2>1. PassOK(Disturbed(r, counted, going), memLive', memGone', memCount')
    BY <1>1, DisturbedOK
  <2> QED BY <1>2, <2>1
<1>5. PairOf(r2) = PairOf(r)
  BY <1>3 DEF PairOf
<1> QED BY <1>1, <1>2, <1>3, <1>4, <1>5 DEF Deleting, Merging

\* The balance is kept by steps that begin and end no merge, and add to the count of a row what
\* they add to its accesses, if the passes are told of these rows.
LEMMA EvenStep ==
  ASSUME MemInv, NEW p, NEW S \in SUBSET Rows, NEW G \in SUBSET Rows, MemTold(p, S, G),
         p \in MemReplicas => ~Deleting(p) /\ ~Deleting(p)',
         memLive \ G \subseteq memLive', memGone \union G \subseteq memGone', memSpoiled' = memSpoiled,
         \/ memCount' = memCount /\ memOwed' = memOwed
         \/ /\ memCount' = [i \in Rows |-> IF i \in S THEN memCount[i] + 1 ELSE memCount[i]]
            /\ memOwed' = [i \in Rows |-> IF i \in S THEN memOwed[i] + 1 ELSE memOwed[i]]
  PROVE  MemBalance'
<1>1. \A i \in Rows \ (S \union G) : memCount'[i] = memCount[i] /\ memOwed'[i] = memOwed[i]
  BY MemTyped DEF MemInv
<1>2. \A i \in Rows : \/ memCount'[i] = memCount[i] /\ memOwed'[i] = memOwed[i]
                      \/ memCount'[i] = memCount[i] + 1 /\ memOwed'[i] = memOwed[i] + 1
  BY MemTyped DEF MemInv
<1>3. \A q \in MemReplicas \ {p} :
           /\ memPass'[q].keep = memPass[q].keep /\ PairOf(memPass'[q]) = PairOf(memPass[q])
           /\ Deleting(q)' <=> Deleting(q)
           /\ Deleting(q) => memPass'[q].touched = memPass[q].touched \union S \union G
  BY <1>1, ToldKeeps
<1>4. \A q \in MemReplicas : Deleting(q)' => q # p /\ Deleting(q)
  BY <1>3
<1>5. \A q \in MemReplicas : Deleting(q) => q # p /\ Deleting(q)'
  BY <1>3
<1>6. Sane' \subseteq Sane /\ Sane \subseteq Rows
  BY DEF Sane
<1>7. \A i : i \in MemKeeping <=> \E q \in MemReplicas : Deleting(q) /\ memPass[q].keep = i
  BY KeepingIs
<1>8. \A i : i \in MemKeeping' <=> \E q \in MemReplicas : Deleting(q)' /\ memPass'[q].keep = i
  BY KeepingIs
<1>9. \A i : i \in MemKeeping' <=> i \in MemKeeping
  BY <1>3, <1>4, <1>5, <1>7, <1>8
<1>10. \A i \in Sane' \ MemKeeping' : memCount'[i] = memOwed'[i]
  BY <1>2, <1>6, <1>9 DEF MemInv, MemBalance
<1>11. ASSUME NEW q \in MemReplicas, Deleting(q)', memPass'[q].keep \in Sane',
              NEW d \in Rows, Untouched(q, d)'
       PROVE  /\ d \notin MemKeeping'
              /\ memCount'[memPass'[q].keep] = memOwed'[memPass'[q].keep] + memOwed'[d]
  <2>1. q # p /\ Deleting(q) /\ memPass'[q].keep = memPass[q].keep
    BY <1>3, <1>4, <1>11
  <2>2. Untouched(q, d) /\ d \notin S \union G
    BY <1>3, <1>11, <2>1 DEF Untouched
  <2>3. PICK k \in Sane : k = memPass[q].keep
    BY <1>6, <1>11, <2>1
  <2>4. d \notin MemKeeping /\ memCount[k] = memOwed[k] + memOwed[d]
    BY <2>1, <2>2, <2>3 DEF MemInv, MemBalance
  <2>5. memOwed'[d] = memOwed[d]
    BY <1>1, <2>2
  <2>6. memCount'[k] = memOwed'[k] + memOwed'[d]
    <3>1. k \in Rows /\ memCount[k] \in Nat /\ memOwed[k] \in Nat /\ memOwed[d] \in Nat
      BY <1>6, <2>3, MemTyped DEF MemInv
    <3> QED BY <1>2, <2>4, <2>5, <3>1
  <2> QED BY <1>9, <2>1, <2>3, <2>4, <2>6
<1>12. ASSUME NEW q1 \in MemReplicas, NEW q2 \in MemReplicas, Deleting(q1)', Deleting(q2)',
              memPass'[q1].keep = memPass'[q2].keep, memPass'[q1].keep \in Sane'
       PROVE  q1 = q2
  BY <1>3, <1>4, <1>6, <1>12 DEF MemInv, MemBalance
<1> QED BY <1>10, <1>11, <1>12 DEF MemBalance

\* What a step of pass p tells the others, from its assignment.
LEMMA OthersTold ==
  ASSUME NEW p \in MemReplicas, NEW counted, NEW going, NEW r,
         memPass' = [MemDisturb(MemReplicas \ {p}, counted, going) EXCEPT ![p] = r]
  PROVE  memPass'[p] = r /\ MemTold(p, counted, going)
<1>1. memPass'[p] = r
  BY DisturbDomain
<1>2. \A q \in MemReplicas \ {p} : memPass'[q] = Disturbed(memPass[q], counted, going)
  BY DisturbIs, DisturbDomain
<1> QED BY <1>1, <1>2 DEF MemTold

\* The passes stay records when every one of them does.
LEMMA DisturbTyped ==
  ASSUME NEW p \in MemReplicas, NEW counted, NEW going, NEW r,
         memPass' = [MemDisturb(MemReplicas \ {p}, counted, going) EXCEPT ![p] = r],
         \A q \in MemReplicas : memPass'[q] \in PassRec
  PROVE  memPass' \in [MemReplicas -> PassRec]
<1>1. memPass' = [q \in MemReplicas |-> memPass'[q]]
  BY DEF MemDisturb
<1> QED BY <1>1

\* The same for a step that is of no pass.
LEMMA AllTold ==
  ASSUME NEW counted, NEW going, memPass' = MemDisturb(MemReplicas, counted, going)
  PROVE  /\ \A p : MemTold(p, counted, going)
         /\ (\A q \in MemReplicas : memPass'[q] \in PassRec) => memPass' \in [MemReplicas -> PassRec]
<1>1. \A q \in MemReplicas : memPass'[q] = Disturbed(memPass[q], counted, going)
  BY DisturbIs
<1>2. memPass' = [q \in MemReplicas |-> memPass'[q]]
  BY DEF MemDisturb
<1> QED BY <1>1, <1>2 DEF MemTold

\* A pass that moves on without a statement that changes a row.
LEMMA PassMoves ==
  ASSUME MemInv, NEW p \in MemReplicas, NEW r \in PassRec, MemSet(p, r),
         memPass[p].at # "deleting", r.at # "deleting", PassOK(r, memLive, memGone, memCount),
         UNCHANGED <<memType, memTableVars, memHistoryVars, MemRest>>
  PROVE  MemInv'
<1>1. memPass \in [MemReplicas -> PassRec]
  BY MemTyped DEF MemInv
<1>2. memPass' \in [MemReplicas -> PassRec] /\ memPass'[p] = r
      /\ \A q \in MemReplicas \ {p} : memPass'[q] = memPass[q]
  BY <1>1 DEF MemSet
<1>3. UNCHANGED <<memType, memLive, memGone, memCount, memEmbedded, memEmbedding, memLost, memOwed,
                  memSpoiled, memUses>>
  BY DEF memTableVars, memHistoryVars, MemRest
<1>4. MemTypeOK'
  BY <1>2, <1>3 DEF MemInv, MemTypeOK, PassRec
<1>5. MemKeeperStays'
  BY <1>3 DEF MemInv, MemKeeperStays
<1>6. \A q \in MemReplicas : PassOK(memPass'[q], memLive', memGone', memCount')
  BY <1>2, <1>3 DEF MemInv
<1>7. MemTold(p, {}, {})
  <2>1. \A q \in MemReplicas : Disturbed(memPass[q], {}, {}) = memPass[q]
    <3>1. \A s \in PassRec : Disturbed(s, {}, {}) = s
      BY DEF Disturbed, PassRec
    <3> QED BY <1>1, <3>1
  <2> QED BY <1>2, <2>1 DEF MemTold
<1>8. MemBalance'
  <2>1. ~Deleting(p) /\ ~Deleting(p)'
    BY <1>2 DEF Deleting
  <2> QED BY <1>3, <1>7, <2>1, EvenStep
<1> QED BY <1>4, <1>5, <1>6, <1>8 DEF MemInv

-----------------------------------------------------------------------------
(* The actions *)

LEMMA MemInsertStep ==
  ASSUME MemInv, memType' = memType, NEW i \in Rows, NEW e, MemInsert(i, e)
  PROVE  MemInv'
<1> USE DEF MemInv
<1>1. /\ i \notin memLive \union memGone /\ memLive' = memLive \union {i}
      /\ memEmbedding' \in {memEmbedding, memEmbedding \union {i}}
      /\ UNCHANGED <<memGone, memCount, memEmbedded, memPass, memLost, memOwed, memSpoiled, memUses>>
  BY DEF MemInsert, memHistoryVars
<1>2. MemTypeOK'
  BY <1>1 DEF MemTypeOK
<1>3. MemKeeperStays'
  BY <1>1 DEF MemKeeperStays
<1>4. \A p \in MemReplicas : PassOK(memPass'[p], memLive', memGone', memCount')
  BY <1>1 DEF PassOK
<1>5. MemBalance'
  BY <1>1 DEF MemBalance, Sane, MemKeeping, Deleting, Untouched
<1> QED BY <1>2, <1>3, <1>4, <1>5

LEMMA MemEmbedStep ==
  ASSUME MemInv, memType' = memType, NEW i \in Rows, MemEmbed(i)
  PROVE  MemInv'
<1> USE DEF MemInv
<1>1. /\ memEmbedding' = memEmbedding \ {i} /\ memEmbedded' \in {memEmbedded, memEmbedded \union {i}}
      /\ UNCHANGED <<memLive, memGone, memCount, memPass, memLost, memOwed, memSpoiled, memUses>>
  BY DEF MemEmbed, memHistoryVars
<1>2. MemTypeOK'
  BY <1>1 DEF MemTypeOK
<1>3. MemKeeperStays'
  BY <1>1 DEF MemKeeperStays
<1>4. \A p \in MemReplicas : PassOK(memPass'[p], memLive', memGone', memCount')
  BY <1>1
<1>5. MemBalance'
  BY <1>1 DEF MemBalance, Sane, MemKeeping, Deleting, Untouched
<1> QED BY <1>2, <1>3, <1>4, <1>5

\* Rows deleted for their own sake.
LEMMA DropDoes ==
  ASSUME MemInv, NEW S \in SUBSET memLive, MemDrop(S)
  PROVE  /\ memLive' = memLive \ S /\ memGone' = memGone \union S
         /\ UNCHANGED <<memCount, memEmbedded, memLost, memOwed, memSpoiled>>
         /\ memLive' \subseteq Rows /\ memGone' \subseteq Rows \ memLive' /\ memLost' \subseteq memGone'
         /\ MemKeeperStays'
<1>1. /\ memLive' = memLive \ S /\ memGone' = memGone \union S
      /\ UNCHANGED <<memCount, memEmbedded, memLost, memOwed, memSpoiled>>
  BY DEF MemDrop, memHistoryVars
<1> QED BY <1>1 DEF MemInv, MemTypeOK, MemKeeperStays

LEMMA MemForgetStep ==
  ASSUME MemInv, memType' = memType, NEW i \in Rows, MemForget(i)
  PROVE  MemInv'
<1>1. /\ {i} \in SUBSET memLive /\ MemDrop({i}) /\ memPass' = MemDisturb(MemReplicas, {}, {i})
      /\ memUses < MemUseMax /\ memUses' = memUses + 1 /\ memEmbedding' = memEmbedding
  BY DEF MemForget
<1>2. /\ memLive' = memLive \ {i} /\ memGone' = memGone \union {i}
      /\ UNCHANGED <<memCount, memEmbedded, memLost, memOwed, memSpoiled>>
  BY <1>1, DropDoes
<1>3. PICK p : p \notin MemReplicas
  BY NoSetContainsEverything
<1>4. MemTold(p, {}, {i}) /\ {i} \in SUBSET Rows
  BY <1>1, AllTold
<1>5. \A q \in MemReplicas : /\ memPass'[q] \in PassRec
                             /\ PassOK(memPass'[q], memLive', memGone', memCount')
  <2>1. PICK C \in SUBSET Rows, G \in SUBSET Rows : C = {} /\ G = {i}
    OBVIOUS
  <2>2. /\ MemTold(p, C, G) /\ memLive \ G \subseteq memLive' /\ memGone \union G \subseteq memGone'
        /\ \A j \in Rows \ (C \union G) : memCount'[j] = memCount[j]
    BY <1>2, <1>4, <2>1
  <2>3. \A q \in MemReplicas \ {p} : /\ memPass'[q] \in PassRec
                                     /\ PassOK(memPass'[q], memLive', memGone', memCount')
    BY <2>2, ToldKeeps
  <2> QED BY <1>3, <2>3
<1>6. memUses' \in 0..MemUseMax
  BY <1>1, MemAssumption DEF MemInv, MemTypeOK
<1>7. memPass' \in [MemReplicas -> PassRec]
  BY <1>1, <1>5, AllTold
<1>8. MemTypeOK'
  BY <1>1, <1>2, <1>6, <1>7, DropDoes DEF MemInv, MemTypeOK, PassRec
<1>9. MemBalance'
  BY <1>2, <1>3, <1>4, EvenStep
<1> QED BY <1>1, <1>5, <1>8, <1>9, DropDoes DEF MemInv

LEMMA MemClearStep ==
  ASSUME MemInv, memType' = memType, NEW p \in MemReplicas, NEW S \in SUBSET memLive,
         NEW at \in {"counting", "over"}, MemClear(p, S, at), memPass[p].at # "deleting"
  PROVE  MemInv'
<1>1. PICK r \in PassRec : r = [MemIdle EXCEPT !.at = at]
  BY MemIdleTyped, 0 \in Nat
<1>2. /\ MemDrop(S) /\ memPass' = [MemDisturb(MemReplicas \ {p}, {}, S) EXCEPT ![p] = r]
      /\ memEmbedding' = memEmbedding /\ memUses' = memUses
  BY <1>1 DEF MemClear, MemRest
<1>3. PassOK(r, memLive', memGone', memCount') /\ r.at = at
  BY <1>1, MemIdleTyped DEF MemIdle
<1>4. memPass'[p] = r /\ MemTold(p, {}, S) /\ S \in SUBSET Rows
  BY <1>2, OthersTold, MemTyped DEF MemInv
<1>5. /\ memLive' = memLive \ S /\ memGone' = memGone \union S
      /\ UNCHANGED <<memCount, memEmbedded, memLost, memOwed, memSpoiled>>
  BY <1>2, DropDoes
<1>6. \A q \in MemReplicas : /\ memPass'[q] \in PassRec
                             /\ PassOK(memPass'[q], memLive', memGone', memCount')
  BY <1>3, <1>4, <1>5, ToldKeeps
<1>7. memPass' \in [MemReplicas -> PassRec]
  BY <1>2, <1>6, DisturbTyped
<1>8. MemTypeOK'
  BY <1>2, <1>5, <1>7, DropDoes DEF MemInv, MemTypeOK, PassRec
<1>9. MemBalance'
  <2>1. ~Deleting(p) /\ ~Deleting(p)'
    BY <1>3, <1>4 DEF Deleting
  <2> QED BY <1>4, <1>5, <2>1, EvenStep
<1> QED BY <1>2, <1>6, <1>8, <1>9, DropDoes DEF MemInv

LEMMA MemRecallStep ==
  ASSUME MemInv, memType' = memType, NEW S \in SUBSET Rows, MemRecall(S)
  PROVE  MemInv'
<1>1. /\ memUses < MemUseMax
      /\ memCount' = [i \in Rows |-> IF i \in S THEN memCount[i] + 1 ELSE memCount[i]]
      /\ memOwed' = [i \in Rows |-> IF i \in S THEN memOwed[i] + 1 ELSE memOwed[i]]
      /\ memPass' = MemDisturb(MemReplicas, S, {})
      /\ memUses' = memUses + 1
      /\ UNCHANGED <<memLive, memGone, memEmbedded, memEmbedding, memLost, memSpoiled>>
  BY DEF MemRecall
<1>2. PICK p : p \notin MemReplicas
  BY NoSetContainsEverything
<1>3. MemTold(p, S, {})
  BY <1>1, AllTold
<1>4. \A i \in Rows \ (S \union {}) : memCount'[i] = memCount[i]
  BY <1>1
<1>5. \A q \in MemReplicas : /\ memPass'[q] \in PassRec
                             /\ PassOK(memPass'[q], memLive', memGone', memCount')
  BY <1>1, <1>2, <1>3, <1>4, ToldKeeps
<1>6. memCount' \in [Rows -> Nat] /\ memOwed' \in [Rows -> Nat] /\ memUses' \in 0..MemUseMax
  BY <1>1, MemTyped, MemAssumption DEF MemInv, MemTypeOK
<1>7. memPass' \in [MemReplicas -> PassRec]
  BY <1>1, <1>5, AllTold
<1>8. MemTypeOK'
  BY <1>1, <1>6, <1>7 DEF MemInv, MemTypeOK, PassRec
<1>9. MemBalance'
  BY <1>1, <1>2, <1>3, EvenStep
<1> QED BY <1>1, <1>5, <1>8, <1>9 DEF MemInv, MemKeeperStays

LEMMA TodoNextKept ==
  ASSUME NEW r \in PassRec
  PROVE  TodoNext(r) \in SUBSET r.todo /\ TodoNext(r) \in SUBSET DOMAIN MemAlike
BY DEF TodoNext, PassRec

\* What a pass reads is in the table.
LEMMA MemSnapshotStep ==
  ASSUME MemInv, memType' = memType, NEW p \in MemReplicas, MemSnapshot(p)
  PROVE  MemInv'
<1>1. memPass[p].at = "idle" /\ UNCHANGED <<memType, memTableVars, memHistoryVars, MemRest>>
  BY DEF MemSnapshot
<1>2. PICK todo : todo = {k \in MemSimilar : Cardinality({j \in MemSimilar : j <= k}) <= MemLimit}
  OBVIOUS
<1>3. CASE MemSet(p, [MemIdle EXCEPT !.at = "pruning"])
  <2>1. PICK r \in PassRec : r = [MemIdle EXCEPT !.at = "pruning"]
    BY MemIdleTyped, 0 \in Nat
  <2>2. r.at = "pruning" /\ PassOK(r, memLive, memGone, memCount)
    BY <2>1, MemIdleTyped DEF MemIdle
  <2> QED BY <1>1, <1>3, <2>1, <2>2, PassMoves
<1>4. CASE MemSet(p, [MemIdle EXCEPT !.at = "merging", !.counts = memCount, !.todo = todo])
  <2>1. todo \subseteq DOMAIN MemAlike /\ \A k \in todo : ToSet(MemAlike[k]) \subseteq memLive
    BY <1>2 DEF MemSimilar
  <2>2. memCount \in [Rows -> Nat]
    BY MemTyped DEF MemInv
  <2>3. PICK r : r = [MemIdle EXCEPT !.at = "merging", !.counts = memCount, !.todo = todo]
    OBVIOUS
  <2>4. r \in PassRec
    BY <2>1, <2>2, <2>3 DEF PassRec, MemIdle
  <2>5. /\ r.at = "merging" /\ r.counts = memCount /\ r.todo = todo
        /\ r.touched = {} /\ r.taken = {} /\ r.deleted = {}
    BY <2>3 DEF MemIdle
  <2>6. PassOK(r, memLive, memGone, memCount)
    BY <2>1, <2>5 DEF PassOK, Merging
  <2> QED BY <1>1, <1>4, <2>3, <2>4, <2>5, <2>6, PassMoves
<1> QED BY <1>2, <1>3, <1>4 DEF MemSnapshot

\* A pair that is skipped, or left alone after an error.
LEMMA MemNextPair ==
  ASSUME MemInv, memType' = memType, NEW p \in MemReplicas, memPass[p].at = "merging",
         MemSet(p, [memPass[p] EXCEPT !.todo = TodoNext(memPass[p])]),
         UNCHANGED <<memTableVars, memHistoryVars, MemRest>>
  PROVE  MemInv'
<1>1. PICK r \in PassRec : r = memPass[p]
  BY MemTyped DEF MemInv
<1>2. PICK r2 : r2 = [r EXCEPT !.todo = TodoNext(r)]
  OBVIOUS
<1>3. /\ r2.at = r.at /\ r2.deleted = r.deleted /\ r2.counts = r.counts /\ r2.touched = r.touched
      /\ r2.taken = r.taken /\ r2.todo = TodoNext(r)
  BY <1>2 DEF PassRec
<1>4. r2 \in PassRec
  BY <1>2, TodoNextKept DEF PassRec
<1>5. PassOK(r, memLive, memGone, memCount) /\ r.at = "merging"
  BY <1>1 DEF MemInv
<1>6. PassOK(r2, memLive, memGone, memCount)
  BY <1>3, <1>5, TodoNextKept DEF PassOK, Merging
<1> QED BY <1>1, <1>2, <1>3, <1>4, <1>5, <1>6, PassMoves

LEMMA MemPassOverStep ==
  ASSUME MemInv, memType' = memType, NEW p \in MemReplicas, MemPassOver(p)
  PROVE  MemInv'
<1>1. memPass[p].at = "merging" /\ UNCHANGED <<memType, memTableVars, memHistoryVars, MemRest>>
  BY DEF MemPassOver
<1>2. CASE MemSet(p, [MemIdle EXCEPT !.at = "pruning"])
  <2>1. PICK r \in PassRec : r = [MemIdle EXCEPT !.at = "pruning"]
    BY MemIdleTyped, 0 \in Nat
  <2>2. r.at = "pruning" /\ PassOK(r, memLive, memGone, memCount)
    BY <2>1, MemIdleTyped DEF MemIdle
  <2> QED BY <1>1, <1>2, <2>1, <2>2, PassMoves
<1> QED BY <1>1, <1>2, MemNextPair DEF MemPassOver

LEMMA MemCountRowsStep ==
  ASSUME MemInv, memType' = memType, NEW p \in MemReplicas, MemCountRows(p)
  PROVE  MemInv'
<1>1. memPass[p].at = "counting" /\ UNCHANGED <<memType, memTableVars, memHistoryVars, MemRest>>
  BY DEF MemCountRows
<1>2. PICK n \in Nat : n = Cardinality(memLive)
  BY MemTyped DEF MemInv
<1>3. CASE n > MemCap
  <2>1. n - MemCap \in Nat
    BY <1>3, MemAssumption
  <2>2. PICK r \in PassRec : r = [MemIdle EXCEPT !.at = "cutting", !.excess = n - MemCap]
    BY <2>1, MemIdleTyped
  <2>3. r.at = "cutting" /\ PassOK(r, memLive, memGone, memCount)
    BY <2>2, MemIdleTyped DEF MemIdle
  <2>4. MemSet(p, r)
    BY <1>2, <1>3, <2>2 DEF MemCountRows
  <2> QED BY <1>1, <2>2, <2>3, <2>4, PassMoves
<1>4. CASE ~(n > MemCap)
  <2>1. PICK r \in PassRec : r = [MemIdle EXCEPT !.at = "over"]
    BY MemIdleTyped, 0 \in Nat
  <2>2. r.at = "over" /\ PassOK(r, memLive, memGone, memCount)
    BY <2>1, MemIdleTyped DEF MemIdle
  <2>3. MemSet(p, r)
    BY <1>2, <1>4, <2>1 DEF MemCountRows
  <2> QED BY <1>1, <2>1, <2>2, <2>3, PassMoves
<1> QED BY <1>3, <1>4

-----------------------------------------------------------------------------
(* A merge *)

LEMMA MemSumIs ==
  ASSUME NEW r, NEW k
  PROVE  MemSum(r, k) = SumOver(r.counts, PairOf(r))
BY SumIs DEF MemSum, MapThenSumSet, MapThenFoldSet, Adds, AnyOf, SumFcn

\* The rows of a pair that is not skipped are in the table, unless others deleted them.
LEMMA PairThere ==
  ASSUME NEW r \in PassRec, NEW live, NEW gone, NEW count, PassOK(r, live, gone, count), Merging(r),
         r.todo # {}, ~MemSkip(r)
  PROVE  PairOf(r) \subseteq live \union r.taken
<1>1. PairOf(r) \subseteq live \union r.deleted \union r.taken
  BY PassPair DEF PassOK, PairOf
<1> QED BY <1>1 DEF MemSkip

LEMMA MemMergeStep ==
  ASSUME MemInv, memType' = memType, NEW p \in MemReplicas, NEW r \in PassRec, r = memPass[p],
         r.at = "merging", r.todo # {}, ~MemSkip(r), NEW k \in PairOf(r),
         memCount' = IF k \in memLive THEN [memCount EXCEPT ![k] = MemSum(r, k)] ELSE memCount,
         memSpoiled' = IF PairOf(r) \intersect (r.touched \union memSpoiled \union MemKeeping) # {}
                       THEN memSpoiled \union {k} ELSE memSpoiled,
         memPass' = [MemDisturb(MemReplicas \ {p}, {k}, {}) EXCEPT
                       ![p] = [r EXCEPT !.at = "deleting", !.keep = k, !.touched = @ \union {k}]],
         UNCHANGED <<memLive, memGone, memEmbedded, memLost, memOwed, MemRest>>
  PROVE  MemInv'
<1>1. PICK a \in Rows, b \in Rows : a # b /\ PairOf(r) = {a, b}
  BY PassPair
<1>2. PassOK(r, memLive, memGone, memCount) /\ memCount \in [Rows -> Nat] /\ memLive \in SUBSET Rows
      /\ memOwed \in [Rows -> Nat] /\ memGone \in SUBSET (Rows \ memLive)
  BY MemTyped DEF MemInv
<1>3. PICK r2 : r2 = [r EXCEPT !.at = "deleting", !.keep = k, !.touched = @ \union {k}]
  OBVIOUS
<1>4. /\ r2.at = "deleting" /\ r2.keep = k /\ r2.touched = r.touched \union {k} /\ r2.todo = r.todo
      /\ r2.deleted = r.deleted /\ r2.counts = r.counts /\ r2.taken = r.taken
  BY <1>3 DEF PassRec
<1>5. k \in Rows /\ r2 \in PassRec
  <2>1. k \in Rows
    BY <1>1
  <2> QED BY <1>3, <2>1 DEF PassRec
<1>6. PairOf(r2) = PairOf(r) /\ ~MemSkip(r2)
  BY <1>4 DEF PairOf, MemSkip
<1>7. \A i \in Rows \ {k} : memCount'[i] = memCount[i]
  BY <1>2
<1>8. PassOK(r2, memLive', memGone', memCount')
  <2>1. \A i \in Rows \ r2.touched : r2.counts[i] = memCount'[i]
    BY <1>2, <1>4, <1>7 DEF PassOK, Merging
  <2> QED BY <1>2, <1>4, <1>6, <2>1 DEF PassOK, Merging
<1>9. MemSum(r, k) = r.counts[a] + r.counts[b] /\ MemSum(r, k) \in Nat
  <2>1. r.counts[a] \in Nat /\ r.counts[b] \in Nat
    BY DEF PassRec
  <2>2. SumOver(r.counts, {a, b}) = r.counts[a] + r.counts[b]
    BY <1>1, <2>1, PairSum
  <2>3. MemSum(r, k) = SumOver(r.counts, PairOf(r))
    BY MemSumIs
  <2> QED BY <1>1, <2>1, <2>2, <2>3
<1>10. memCount' \in [Rows -> Nat]
  BY <1>2, <1>9
<1>11. memPass'[p] = r2 /\ MemTold(p, {k}, {})
  <2>1. memPass' = [MemDisturb(MemReplicas \ {p}, {k}, {}) EXCEPT ![p] = r2]
    BY <1>3
  <2> QED BY <2>1, OthersTold
<1>12. \A q \in MemReplicas \ {p} :
           /\ memPass'[q] \in PassRec /\ PassOK(memPass'[q], memLive', memGone', memCount')
           /\ memPass'[q].keep = memPass[q].keep /\ PairOf(memPass'[q]) = PairOf(memPass[q])
           /\ Deleting(q)' <=> Deleting(q)
           /\ Deleting(q) => memPass'[q].touched = memPass[q].touched \union {k} \union {}
  <2>1. \A i \in Rows \ ({k} \union {}) : memCount'[i] = memCount[i]
    BY <1>7
  <2>2. PICK C \in SUBSET Rows, G \in SUBSET Rows : C = {k} /\ G = {}
    BY <1>5
  <2>3. /\ MemTold(p, C, G) /\ memLive \ G \subseteq memLive' /\ memGone \union G \subseteq memGone'
        /\ \A i \in Rows \ (C \union G) : memCount'[i] = memCount[i]
    BY <1>11, <2>1, <2>2
  <2>4. \A q \in MemReplicas \ {p} :
           /\ memPass'[q] \in PassRec /\ PassOK(memPass'[q], memLive', memGone', memCount')
           /\ memPass'[q].keep = memPass[q].keep /\ PairOf(memPass'[q]) = PairOf(memPass[q])
           /\ Deleting(q)' <=> Deleting(q)
           /\ Deleting(q) => memPass'[q].touched = memPass[q].touched \union C \union G
    <3>1. \A q \in MemReplicas \ {p} : memPass'[q].keep = memPass[q].keep
      BY <2>3, ToldKeeps
    <3>2. \A q \in MemReplicas \ {p} : PairOf(memPass'[q]) = PairOf(memPass[q])
      BY <2>3, ToldKeeps
    <3>3. \A q \in MemReplicas \ {p} : Deleting(q)' <=> Deleting(q)
      BY <2>3, ToldKeeps
    <3>4. \A q \in MemReplicas \ {p} :
            Deleting(q) => memPass'[q].touched = memPass[q].touched \union C \union G
      <4>1. \A q \in MemReplicas \ {p} : memPass'[q] = Disturbed(memPass[q], C, G)
        BY <2>3 DEF MemTold
      <4>2. \A s \in PassRec :
              Merging(s) => Disturbed(s, C, G).touched = s.touched \union C \union G
        BY DEF Disturbed, PassRec
      <4>3. \A q \in MemReplicas : memPass[q] \in PassRec
        BY MemTyped DEF MemInv
      <4> QED BY <4>1, <4>2, <4>3 DEF Deleting, Merging
    <3>5. \A q \in MemReplicas \ {p} :
            memPass'[q] \in PassRec /\ PassOK(memPass'[q], memLive', memGone', memCount')
      BY <2>3, ToldKeeps
    <3> QED BY <3>1, <3>2, <3>3, <3>4, <3>5
  <2> QED BY <2>2, <2>4
<1>13. \A q \in MemReplicas : memPass'[q] \in PassRec /\ PassOK(memPass'[q], memLive', memGone', memCount')
  BY <1>5, <1>8, <1>11, <1>12
<1>14. UNCHANGED <<memLive, memGone, memEmbedded, memLost, memOwed, memEmbedding, memUses>>
  BY DEF MemRest
<1>15. MemTypeOK'
  <2>1. memPass' \in [MemReplicas -> PassRec]
    BY <1>13, DisturbTyped
  <2>2. memSpoiled' \subseteq Rows
    BY <1>5 DEF MemInv, MemTypeOK
  <2> QED BY <1>10, <1>14, <2>1, <2>2 DEF MemInv, MemTypeOK, PassRec
<1>16. MemKeeperStays'
  BY <1>14 DEF MemInv, MemKeeperStays
<1>17. Deleting(p)' /\ ~Deleting(p)
  BY <1>4, <1>11 DEF Deleting
<1>18. Sane' \subseteq Sane /\ Sane \subseteq Rows
  BY <1>14 DEF Sane
<1>19. \A i : i \in MemKeeping' <=> i \in MemKeeping \union {k}
  <2>1. \A i : i \in MemKeeping <=> \E q \in MemReplicas : Deleting(q) /\ memPass[q].keep = i
    BY KeepingIs
  <2>2. \A i : i \in MemKeeping' <=> \E q \in MemReplicas : Deleting(q)' /\ memPass'[q].keep = i
    BY KeepingIs
  <2>3. \A q \in MemReplicas \ {p} : /\ Deleting(q)' <=> Deleting(q)
                                     /\ memPass'[q].keep = memPass[q].keep
    BY <1>12
  <2>4. Deleting(p)' /\ ~Deleting(p) /\ memPass'[p].keep = k
    BY <1>4, <1>11, <1>17
  <2>5. ASSUME NEW i, i \in MemKeeping \union {k} PROVE i \in MemKeeping'
    <3>1. \E q \in MemReplicas : Deleting(q)' /\ memPass'[q].keep = i
      <4>1. CASE i = k
        BY <2>4, <4>1
      <4>2. CASE i \in MemKeeping
        <5>1. PICK q \in MemReplicas : Deleting(q) /\ memPass[q].keep = i
          BY <2>1, <4>2
        <5> QED BY <2>3, <2>4, <5>1
      <4> QED BY <2>5, <4>1, <4>2
    <3> QED BY <2>2, <3>1
  <2>6. ASSUME NEW i, i \in MemKeeping' PROVE i \in MemKeeping \union {k}
    <3>1. PICK q \in MemReplicas : Deleting(q)' /\ memPass'[q].keep = i
      BY <2>2, <2>6
    <3>2. CASE q = p
      BY <2>4, <3>1, <3>2
    <3>3. CASE q # p
      <4>1. Deleting(q) /\ memPass[q].keep = i
        BY <2>3, <3>1, <3>3
      <4> QED BY <2>1, <4>1
    <3> QED BY <3>2, <3>3
  <2> QED BY <2>5, <2>6
<1>20. \A i \in Sane' \ MemKeeping' : memCount'[i] = memOwed'[i]
  BY <1>7, <1>14, <1>18, <1>19 DEF MemInv, MemBalance
\* A keeper that is not spoiled had the counts that the pass read.
<1>21. k \in Sane' => /\ k \notin MemKeeping
                      /\ \A d \in PairOf(r) \ {k} : /\ d \notin MemKeeping
                                                    /\ memCount'[k] = memOwed[k] + memOwed[d]
  <2> SUFFICES ASSUME k \in Sane', NEW d \in PairOf(r) \ {k}
               PROVE  /\ k \notin MemKeeping /\ d \notin MemKeeping
                      /\ memCount'[k] = memOwed[k] + memOwed[d]
    BY <1>1, <1>5
  <2>1. PairOf(r) \intersect (r.touched \union memSpoiled \union MemKeeping) = {}
    BY DEF Sane
  <2>2. k \notin r.touched /\ d \notin r.touched /\ d \notin memSpoiled /\ k \notin MemKeeping
        /\ d \notin MemKeeping
    BY <2>1
  <2>3. PairOf(r) \subseteq memLive
    BY <1>2, <2>1, PairThere DEF PassOK, Merging
  <2>4. k \in memLive /\ d \in memLive /\ d \in Sane /\ k \in Sane
    BY <1>2, <1>18, <2>2, <2>3 DEF Sane
  <2>5. r.counts[k] = memCount[k] /\ r.counts[d] = memCount[d]
    BY <1>2, <1>18, <2>2, <2>4 DEF PassOK, Merging
  <2>6. memCount[k] = memOwed[k] /\ memCount[d] = memOwed[d]
    BY <2>2, <2>4 DEF MemInv, MemBalance
  <2>7. memCount'[k] = r.counts[a] + r.counts[b]
    BY <1>2, <1>5, <1>9, <2>4
  <2>8. memCount'[k] = r.counts[k] + r.counts[d]
    <3>1. r.counts[a] \in Nat /\ r.counts[b] \in Nat
      BY DEF PassRec
    <3> QED BY <1>1, <2>7, <3>1
  <2> QED BY <2>2, <2>5, <2>6, <2>8
<1>22. ASSUME NEW q \in MemReplicas, Deleting(q)', memPass'[q].keep \in Sane',
              NEW d \in Rows, Untouched(q, d)'
       PROVE  /\ d \notin MemKeeping'
              /\ memCount'[memPass'[q].keep] = memOwed'[memPass'[q].keep] + memOwed'[d]
  <2>1. CASE q = p
    <3>1. memPass'[q].keep = k /\ d \in PairOf(r) \ {k}
      BY <1>4, <1>6, <1>11, <1>22, <2>1 DEF Untouched
    <3> QED BY <1>14, <1>19, <1>21, <1>22, <3>1
  <2>2. CASE q # p
    <3>1. Deleting(q) /\ memPass'[q].keep = memPass[q].keep
      BY <1>12, <1>22, <2>2
    <3>2. Untouched(q, d) /\ d # k
      BY <1>12, <1>22, <2>2, <3>1 DEF Untouched
    <3>3. PICK j \in Sane : j = memPass[q].keep
      BY <1>18, <1>22, <3>1
    <3>4. d \notin MemKeeping /\ memCount[j] = memOwed[j] + memOwed[d]
      BY <3>1, <3>2, <3>3 DEF MemInv, MemBalance
    <3>5. j \in MemKeeping
      BY <3>1, <3>3, KeepingIs
    <3>6. j # k
      BY <1>21, <1>22, <3>1, <3>3, <3>5
    <3> QED BY <1>7, <1>14, <1>18, <1>19, <3>1, <3>2, <3>3, <3>4, <3>6
  <2> QED BY <2>1, <2>2
<1>23. ASSUME NEW q1 \in MemReplicas, NEW q2 \in MemReplicas, Deleting(q1)', Deleting(q2)',
              memPass'[q1].keep = memPass'[q2].keep, memPass'[q1].keep \in Sane'
       PROVE  q1 = q2
  <2>1. CASE q1 # p /\ q2 # p
    BY <1>12, <1>18, <1>23, <2>1 DEF MemInv, MemBalance
  <2>2. ASSUME NEW q \in MemReplicas \ {p}, Deleting(q)', memPass'[q].keep = k PROVE k \notin Sane'
    <3>1. Deleting(q) /\ memPass[q].keep = k
      BY <1>12, <2>2
    <3>2. k \in MemKeeping
      BY <3>1, KeepingIs
    <3> QED BY <1>21, <3>2
  <2> QED BY <1>4, <1>11, <1>23, <2>1, <2>2
<1>24. MemBalance'
  BY <1>20, <1>22, <1>23 DEF MemBalance
<1> QED BY <1>13, <1>15, <1>16, <1>24 DEF MemInv

LEMMA MemUpdateStep ==
  ASSUME MemInv, memType' = memType, NEW p \in MemReplicas, MemUpdate(p)
  PROVE  MemInv'
<1>1. PICK r \in PassRec : r = memPass[p]
  BY MemTyped DEF MemInv
<1>2. /\ r.at = "merging" /\ r.todo # {} /\ ~MemSkip(r)
      /\ UNCHANGED <<memLive, memGone, memEmbedded, memLost, memOwed, MemRest>>
  BY <1>1 DEF MemUpdate
<1>3. CASE MemSet(p, [r EXCEPT !.todo = TodoNext(r)]) /\ UNCHANGED <<memCount, memSpoiled>>
  BY <1>1, <1>2, <1>3, MemNextPair DEF memTableVars, memHistoryVars
<1>4. CASE \E k \in PairOf(r) :
             /\ memCount' = IF k \in memLive THEN [memCount EXCEPT ![k] = MemSum(r, k)] ELSE memCount
             /\ memSpoiled' = IF PairOf(r) \intersect (r.touched \union memSpoiled \union MemKeeping) # {}
                              THEN memSpoiled \union {k} ELSE memSpoiled
             /\ memPass' = [MemDisturb(MemReplicas \ {p}, {k}, {}) EXCEPT
                              ![p] = [r EXCEPT !.at = "deleting", !.keep = k, !.touched = @ \union {k}]]
  BY <1>1, <1>2, <1>4, MemMergeStep
<1> QED BY <1>1, <1>3, <1>4 DEF MemUpdate

\* The balance when pass p ends a merge, with its keeper spoiled or the accesses moved.
LEMMA MergeEnds ==
  ASSUME MemInv, NEW p \in MemReplicas, NEW k \in Rows, NEW d \in Rows, NEW G \in SUBSET Rows,
         Deleting(p), memPass[p].keep = k, d \in PairOf(memPass[p]) \ {k}, ~Deleting(p)',
         MemTold(p, {}, G), memLive \ G \subseteq memLive', memGone \union G \subseteq memGone',
         memCount' = memCount, memSpoiled \subseteq memSpoiled',
         \/ k \in memSpoiled' /\ memOwed' = memOwed
         \/ /\ k \in memSpoiled' \/ d \notin memPass[p].touched
            /\ memOwed' = [memOwed EXCEPT ![k] = @ + memOwed[d]]
  PROVE  MemBalance'
<1>1. /\ memCount \in [Rows -> Nat] /\ memOwed \in [Rows -> Nat]
      /\ \A i \in Rows \ {k} : memOwed'[i] = memOwed[i]
  BY MemTyped DEF MemInv
<1>2. \A q \in MemReplicas \ {p} :
           /\ memPass'[q].keep = memPass[q].keep /\ PairOf(memPass'[q]) = PairOf(memPass[q])
           /\ Deleting(q)' <=> Deleting(q)
           /\ Deleting(q) => memPass'[q].touched = memPass[q].touched \union {} \union G
  <2>1. PICK C \in SUBSET Rows : C = {}
    OBVIOUS
  <2>2. MemTold(p, C, G) /\ \A i \in Rows \ (C \union G) : memCount'[i] = memCount[i]
    BY <2>1
  <2>3. \A q \in MemReplicas \ {p} :
           /\ memPass'[q].keep = memPass[q].keep /\ PairOf(memPass'[q]) = PairOf(memPass[q])
           /\ Deleting(q)' <=> Deleting(q)
           /\ Deleting(q) => memPass'[q].touched = memPass[q].touched \union C \union G
    <3>1. \A q \in MemReplicas \ {p} : memPass'[q].keep = memPass[q].keep
      BY <2>2, ToldKeeps
    <3>2. \A q \in MemReplicas \ {p} : PairOf(memPass'[q]) = PairOf(memPass[q])
      BY <2>2, ToldKeeps
    <3>3. \A q \in MemReplicas \ {p} : Deleting(q)' <=> Deleting(q)
      BY <2>2, ToldKeeps
    <3>4. \A q \in MemReplicas \ {p} :
            Deleting(q) => memPass'[q].touched = memPass[q].touched \union C \union G
      BY <2>2, ToldKeeps
    <3> QED BY <3>1, <3>2, <3>3, <3>4
  <2> QED BY <2>1, <2>3
<1>3. Sane' \subseteq Sane /\ Sane \subseteq Rows
  BY DEF Sane
<1>4. \A i : i \in MemKeeping <=> \E q \in MemReplicas : Deleting(q) /\ memPass[q].keep = i
  BY KeepingIs
<1>5. \A i : i \in MemKeeping' <=> \E q \in MemReplicas : Deleting(q)' /\ memPass'[q].keep = i
  BY KeepingIs
<1>6. \A i : /\ i \in MemKeeping' => i \in MemKeeping
             /\ i \in MemKeeping /\ i # k => i \in MemKeeping'
  BY <1>2, <1>4, <1>5
<1>7. k \in MemKeeping
  BY <1>4
<1>8. k \in Sane' => memCount'[k] = memOwed'[k]
  <2> SUFFICES ASSUME k \in Sane' PROVE memCount'[k] = memOwed'[k]
    OBVIOUS
  <2>1. k \notin memSpoiled' /\ k \in Sane
    BY <1>3 DEF Sane
  <2>2. Untouched(p, d) /\ memOwed'[k] = memOwed[k] + memOwed[d]
    BY <1>1, <2>1 DEF Untouched
  <2>3. memCount[k] = memOwed[k] + memOwed[d]
    BY <2>1, <2>2 DEF MemInv, MemBalance
  <2> QED BY <2>2, <2>3
<1>9. \A i \in Sane' \ MemKeeping' : memCount'[i] = memOwed'[i]
  <2>1. \A i \in Sane' \ MemKeeping' : i # k => memCount'[i] = memOwed'[i]
    BY <1>1, <1>3, <1>6 DEF MemInv, MemBalance
  <2> QED BY <1>8, <2>1
<1>10. ASSUME NEW q \in MemReplicas, Deleting(q)', memPass'[q].keep \in Sane',
              NEW e \in Rows, Untouched(q, e)'
       PROVE  /\ e \notin MemKeeping'
              /\ memCount'[memPass'[q].keep] = memOwed'[memPass'[q].keep] + memOwed'[e]
  <2>1. q # p /\ Deleting(q) /\ memPass'[q].keep = memPass[q].keep
    BY <1>2, <1>10
  <2>2. Untouched(q, e)
    BY <1>2, <1>10, <2>1 DEF Untouched
  <2>3. PICK j \in Sane : j = memPass[q].keep
    BY <1>3, <1>10, <2>1
  <2>4. e \notin MemKeeping /\ memCount[j] = memOwed[j] + memOwed[e]
    BY <2>1, <2>2, <2>3 DEF MemInv, MemBalance
  <2>5. j # k
    BY <2>1, <2>3 DEF MemInv, MemBalance
  <2>6. e # k
    BY <1>7, <2>4
  <2> QED BY <1>1, <1>3, <1>6, <2>1, <2>3, <2>4, <2>5, <2>6
<1>11. ASSUME NEW q1 \in MemReplicas, NEW q2 \in MemReplicas, Deleting(q1)', Deleting(q2)',
              memPass'[q1].keep = memPass'[q2].keep, memPass'[q1].keep \in Sane'
       PROVE  q1 = q2
  BY <1>2, <1>3, <1>11 DEF MemInv, MemBalance
<1> QED BY <1>9, <1>10, <1>11 DEF MemBalance

\* The second half of a merge, with the row it deletes.
LEMMA MemMergedStep ==
  ASSUME MemInv, memType' = memType, NEW p \in MemReplicas, NEW r \in PassRec, r = memPass[p],
         r.at = "deleting", NEW d \in PairOf(r) \ {r.keep},
         memLive' = memLive \ {d}, memGone' = memGone \union {d},
         memLost' = IF d \in memLive /\ r.keep \notin memLive \union r.taken
                    THEN memLost \union {d} ELSE memLost,
         memOwed' = [memOwed EXCEPT ![r.keep] = @ + memOwed[d]],
         memSpoiled' = IF d \in r.touched THEN memSpoiled \union {r.keep} ELSE memSpoiled,
         memPass' = [MemDisturb(MemReplicas \ {p}, {}, {d}) EXCEPT
                       ![p] = [r EXCEPT !.at = "merging", !.todo = TodoNext(r), !.keep = 0,
                                        !.deleted = @ \union {d}]],
         UNCHANGED <<memCount, memEmbedded, MemRest>>
  PROVE  MemInv'
<1>1. PassOK(r, memLive, memGone, memCount) /\ memCount \in [Rows -> Nat] /\ memLive \in SUBSET Rows
      /\ memOwed \in [Rows -> Nat]
  BY MemTyped DEF MemInv
<1>2. r.todo # {} /\ ~MemSkip(r) /\ r.keep \in PairOf(r)
  BY <1>1 DEF PassOK
<1>3. d \in Rows /\ r.keep \in Rows
  BY <1>2, PassPair
<1>4. PICK r2 : r2 = [r EXCEPT !.at = "merging", !.todo = TodoNext(r), !.keep = 0,
                               !.deleted = @ \union {d}]
  OBVIOUS
<1>5. /\ r2.at = "merging" /\ r2.touched = r.touched /\ r2.todo = TodoNext(r)
      /\ r2.deleted = r.deleted \union {d} /\ r2.counts = r.counts /\ r2.taken = r.taken
  BY <1>4 DEF PassRec
<1>6. r2 \in PassRec
  BY <1>3, <1>4, TodoNextKept DEF PassRec
<1>7. PassOK(r2, memLive', memGone', memCount')
  <2>1. \A k \in r2.todo : ToSet(MemAlike[k]) \subseteq memLive' \union r2.deleted \union r2.taken
    BY <1>1, <1>5, TodoNextKept DEF PassOK, Merging
  <2>2. \A i \in Rows \ r2.touched : r2.counts[i] = memCount'[i]
    BY <1>1, <1>5 DEF PassOK, Merging
  <2> QED BY <1>1, <1>5, <2>1, <2>2 DEF PassOK, Merging
<1>8. memPass'[p] = r2 /\ MemTold(p, {}, {d})
  <2>1. memPass' = [MemDisturb(MemReplicas \ {p}, {}, {d}) EXCEPT ![p] = r2]
    BY <1>4
  <2> QED BY <2>1, OthersTold
<1>9. \A q \in MemReplicas : memPass'[q] \in PassRec /\ PassOK(memPass'[q], memLive', memGone', memCount')
  <2>1. {} \in SUBSET Rows /\ {d} \in SUBSET Rows
    BY <1>3
  <2>2. \A q \in MemReplicas \ {p} :
          memPass'[q] \in PassRec /\ PassOK(memPass'[q], memLive', memGone', memCount')
    BY <1>8, <2>1, ToldKeeps
  <2> QED BY <1>6, <1>7, <1>8, <2>2
<1>10. UNCHANGED <<memCount, memEmbedded, memEmbedding, memUses>>
  BY DEF MemRest
<1>11. memLost' = memLost
  <2>1. r.keep \in memLive \union r.taken
    BY <1>1, <1>2, PairThere DEF Merging
  <2> QED BY <2>1
<1>12. MemTypeOK'
  <2>1. memLive' \subseteq Rows /\ memGone' \subseteq Rows \ memLive' /\ memLost' \subseteq memGone'
    BY <1>3, <1>11 DEF MemInv, MemTypeOK
  <2>2. memSpoiled' \subseteq Rows
    BY <1>3 DEF MemInv, MemTypeOK
  <2>3. memOwed' \in [Rows -> Nat]
    BY <1>1, <1>3
  <2>4. memPass' \in [MemReplicas -> PassRec]
    BY <1>9, DisturbTyped
  <2> QED BY <1>10, <2>1, <2>2, <2>3, <2>4 DEF MemInv, MemTypeOK, PassRec
<1>13. MemKeeperStays'
  BY <1>11 DEF MemInv, MemKeeperStays
<1>14. MemBalance'
  <2>1. Deleting(p) /\ ~Deleting(p)'
    BY <1>5, <1>8 DEF Deleting
  <2>2. {d} \in SUBSET Rows
    BY <1>3
  <2>3. r.keep \in memSpoiled' \/ d \notin r.touched
    OBVIOUS
  <2>4. memSpoiled \subseteq memSpoiled'
    OBVIOUS
  <2> QED BY <1>3, <1>8, <1>10, <2>1, <2>2, <2>3, <2>4, MergeEnds
<1> QED BY <1>9, <1>12, <1>13, <1>14 DEF MemInv

LEMMA MemDeleteStep ==
  ASSUME MemInv, memType' = memType, NEW p \in MemReplicas, MemDelete(p)
  PROVE  MemInv'
<1>1. PICK r \in PassRec : r = memPass[p]
  BY MemTyped DEF MemInv
<1>2. r.at = "deleting" /\ UNCHANGED <<memCount, memEmbedded, MemRest>>
  BY <1>1 DEF MemDelete
<1>3. CASE \E d \in PairOf(r) \ {r.keep} :
             /\ memLive' = memLive \ {d}
             /\ memGone' = memGone \union {d}
             /\ memLost' = IF d \in memLive /\ r.keep \notin memLive \union r.taken
                           THEN memLost \union {d} ELSE memLost
             /\ memOwed' = [memOwed EXCEPT ![r.keep] = @ + memOwed[d]]
             /\ memSpoiled' = IF d \in r.touched THEN memSpoiled \union {r.keep} ELSE memSpoiled
             /\ memPass' = [MemDisturb(MemReplicas \ {p}, {}, {d}) EXCEPT
                              ![p] = [r EXCEPT !.at = "merging", !.todo = TodoNext(r), !.keep = 0,
                                               !.deleted = @ \union {d}]]
  <2>1. PICK d \in PairOf(r) \ {r.keep} :
          /\ memLive' = memLive \ {d}
          /\ memGone' = memGone \union {d}
          /\ memLost' = IF d \in memLive /\ r.keep \notin memLive \union r.taken
                        THEN memLost \union {d} ELSE memLost
          /\ memOwed' = [memOwed EXCEPT ![r.keep] = @ + memOwed[d]]
          /\ memSpoiled' = IF d \in r.touched THEN memSpoiled \union {r.keep} ELSE memSpoiled
          /\ memPass' = [MemDisturb(MemReplicas \ {p}, {}, {d}) EXCEPT
                           ![p] = [r EXCEPT !.at = "merging", !.todo = TodoNext(r), !.keep = 0,
                                            !.deleted = @ \union {d}]]
    BY <1>3
  <2> QED BY <1>1, <1>2, <2>1, MemMergedStep
<1>4. CASE /\ MemSet(p, [r EXCEPT !.at = "merging", !.todo = TodoNext(r), !.keep = 0])
           /\ memSpoiled' = memSpoiled \union {r.keep}
           /\ UNCHANGED <<memLive, memGone, memLost, memOwed>>
  <2>1. PICK r2 : r2 = [r EXCEPT !.at = "merging", !.todo = TodoNext(r), !.keep = 0]
    OBVIOUS
  <2>2. /\ r2.at = "merging" /\ r2.touched = r.touched /\ r2.todo = TodoNext(r)
        /\ r2.deleted = r.deleted /\ r2.counts = r.counts /\ r2.taken = r.taken
    BY <2>1 DEF PassRec
  <2>3. r2 \in PassRec
    BY <2>1, TodoNextKept DEF PassRec
  <2>4. PassOK(r, memLive, memGone, memCount) /\ r.todo # {} /\ r.keep \in PairOf(r)
    BY <1>1, <1>2 DEF MemInv, PassOK
  <2>5. PassOK(r2, memLive, memGone, memCount)
    BY <1>2, <2>2, <2>4, TodoNextKept DEF PassOK, Merging
  <2>6. memPass \in [MemReplicas -> PassRec]
    BY MemTyped DEF MemInv
  <2>7. memPass' \in [MemReplicas -> PassRec] /\ memPass'[p] = r2
        /\ \A q \in MemReplicas \ {p} : memPass'[q] = memPass[q]
    BY <1>4, <2>1, <2>3, <2>6 DEF MemSet
  <2>8. UNCHANGED <<memLive, memGone, memCount, memEmbedded, memEmbedding, memLost, memOwed, memUses>>
    BY <1>2, <1>4 DEF MemRest
  <2>9. PICK d \in Rows : d \in PairOf(r) \ {r.keep}
    BY <2>4, PassPair
  <2>10. r.keep \in Rows
    BY <2>4, PassPair
  <2>11. MemTypeOK'
    BY <1>4, <2>7, <2>8, <2>10 DEF MemInv, MemTypeOK, PassRec
  <2>12. \A q \in MemReplicas : PassOK(memPass'[q], memLive', memGone', memCount')
    BY <2>5, <2>7, <2>8 DEF MemInv
  <2>13. MemTold(p, {}, {})
    <3>1. \A s \in PassRec : Disturbed(s, {}, {}) = s
      BY DEF Disturbed, PassRec
    <3> QED BY <2>6, <2>7, <3>1 DEF MemTold
  <2>14. MemBalance'
    <3>1. Deleting(p) /\ ~Deleting(p)' /\ memPass[p].keep = r.keep /\ r.keep \in memSpoiled'
          /\ memSpoiled \subseteq memSpoiled'
      BY <1>1, <1>2, <1>4, <2>2, <2>7 DEF Deleting
    <3> QED BY <1>1, <2>8, <2>9, <2>10, <2>13, <3>1, MergeEnds
  <2> QED BY <2>8, <2>11, <2>12, <2>14 DEF MemInv, MemKeeperStays
<1> QED BY <1>1, <1>3, <1>4 DEF MemDelete

LEMMA MemStepInv == MemInv /\ [MemNext]_memVars => MemInv'
<1> SUFFICES ASSUME MemInv, [MemNext]_memVars PROVE MemInv'
  OBVIOUS
<1>1. CASE UNCHANGED memVars
  <2>1. UNCHANGED <<memType, memLive, memGone, memCount, memEmbedded, memEmbedding, memPass, memLost,
                    memOwed, memSpoiled, memUses>>
    BY <1>1 DEF memVars, memTableVars, memHistoryVars
  <2>2. MemTypeOK' /\ MemKeeperStays'
    BY <2>1 DEF MemInv, MemTypeOK, MemKeeperStays
  <2>3. MemBalance'
    BY <2>1 DEF MemInv, MemBalance, Sane, MemKeeping, Deleting, Untouched
  <2> QED BY <2>1, <2>2, <2>3 DEF MemInv
<1>2. CASE \E i \in Rows : MemCreate(i) \/ MemExtract(i) \/ MemEmbed(i) \/ MemForget(i)
  <2>1. memType' = memType
    BY <1>1 DEF MemNext, memVars
  <2> QED BY <1>2, <2>1, MemInsertStep, MemEmbedStep, MemForgetStep DEF MemCreate, MemExtract
<1>3. CASE \E S \in SUBSET Rows : MemRecall(S)
  BY <1>1, <1>3, MemRecallStep DEF MemNext, memVars
<1>4. CASE \E p \in MemReplicas : MemPrune(p) \/ MemCut(p)
  <2>1. PICK p \in MemReplicas : MemPrune(p) \/ MemCut(p)
    BY <1>4
  <2>2. PICK S \in SUBSET memLive, at \in {"counting", "over"} :
          MemClear(p, S, at) /\ memPass[p].at # "deleting"
    BY <2>1 DEF MemPrune, MemCut, kSubset
  <2>3. memType' = memType
    BY <1>1 DEF MemNext, memVars
  <2> QED BY <2>2, <2>3, MemClearStep
<1>5. CASE \E p \in MemReplicas : \/ MemSnapshot(p) \/ MemUpdate(p) \/ MemDelete(p) \/ MemPassOver(p)
                                  \/ MemCountRows(p)
  <2>1. memType' = memType
    BY <1>1 DEF MemNext, memVars
  <2> QED BY <1>5, <2>1, MemSnapshotStep, MemUpdateStep, MemDeleteStep, MemPassOverStep,
             MemCountRowsStep
<1> QED BY <1>1, <1>2, <1>3, <1>4, <1>5 DEF MemNext

\* For any rows, replicas, limits, recalls and deletions: a merge leaves its keeper unless
\* another deleted that very row, and each row that no broken merge wrote to has the accesses
\* counted on it and on the rows merged into it, whatever the passes do to other rows
\* (mergeSimilar).  The argument is about one merge: until its DELETE the keeper has the
\* accesses of two rows, and a row touched meanwhile spoils the keeper.
THEOREM MemNothingLostHolds == MemInit /\ [][MemNext]_memVars => []MemNothingLost
<1>1. MemInv => MemNothingLost
  <2> SUFFICES ASSUME MemInv PROVE MemCountsKept
    BY DEF MemInv, MemNothingLost
  <2>1. memLive \ memSpoiled \subseteq Sane
    BY MemTyped DEF MemInv, Sane
  <2> QED BY <2>1 DEF MemInv, MemBalance, MemCountsKept
<1> QED BY <1>1, MemInitInv, MemStepInv, PTL

\* The memories' variables keep their types: no row is both there and deleted, and no count
\* becomes negative.
THEOREM MemTypeCorrect == MemInit /\ [][MemNext]_memVars => []MemTypeOK
<1>1. MemInv => MemTypeOK
  BY DEF MemInv
<1> QED BY <1>1, MemInitInv, MemStepInv, PTL

-----------------------------------------------------------------------------
(* The services side by side *)

\* A step of the services is one of the service in focus, and the others stutter.
LEMMA ServicesSteps ==
  /\ ServicesInit => HerdInit /\ MemInit /\ DevInit /\ RateInit /\ AudInit
  /\ [ServicesNext]_servicesVars =>
       /\ [HerdNext]_herdVars /\ [MemNext]_memVars
       /\ [DevNext]_devVars /\ [RateNext]_rateVars /\ [AudNext]_audVars
BY DEF ServicesInit, ServicesNext, servicesVars

\* What lives in Redis under a TTL, whatever runs beside it: a pairing is answered once, with
\* one key, and a client is let through no more often than a window allows, while the window
\* is counted under one key (PairStatus, PairConfirm, RateLimiter.check).
THEOREM GatewayKeysHolds == ServicesSpec => []GatewayKeys
<1>1. DevInit /\ [][DevNext]_devVars => []DevOnce
  BY DevOnceHolds
<1>2. RateInit /\ [][RateNext]_rateVars => []RateCounted
  BY RateCountedHolds DEF RateSpec
<1>3. DevOnce /\ RateCounted => GatewayKeys
  BY DEF GatewayKeys
<1> QED BY <1>1, <1>2, <1>3, ServicesSteps, PTL DEF ServicesSpec

\* The five services keep their types side by side.
THEOREM ServicesTypeCorrect == IsFiniteSet(RateReqs) => (ServicesSpec => []ServicesTypeOK)
<1> SUFFICES ASSUME IsFiniteSet(RateReqs) PROVE ServicesSpec => []ServicesTypeOK
  OBVIOUS
<1>1. HerdInit /\ [][HerdNext]_herdVars => []HerdTypeOK
  BY HerdTypeCorrect DEF HerdSpec
<1>2. MemInit /\ [][MemNext]_memVars => []MemTypeOK
  BY MemTypeCorrect
<1>3. DevInit /\ [][DevNext]_devVars => []DevTypeOK
  BY DevTypeCorrect
<1>4. RateInit /\ [][RateNext]_rateVars => []RateTypeOK
  BY RateTypeCorrect DEF RateSpec
<1>5. AudInit /\ [][AudNext]_audVars => []AudTypeOK
  BY AudTypeCorrect
<1>6. HerdTypeOK /\ MemTypeOK /\ DevTypeOK /\ RateTypeOK /\ AudTypeOK => ServicesTypeOK
  BY DEF ServicesTypeOK
<1> QED BY <1>1, <1>2, <1>3, <1>4, <1>5, <1>6, ServicesSteps, PTL DEF ServicesSpec
=============================================================================
