------------------------------ MODULE HerdProofs ------------------------------
(***************************************************************************)
(* Theorems about module Herd: any number of tasks and slugs, any number of *)
(* stops.                                                                   *)
(***************************************************************************)
EXTENDS Herd, FiniteSetTheorems, SequenceTheorems, TLAPS

Slug == ToSet(HerdSlugs)

\* The agents are the positions of herdSpawned, and only created agents are in the map.
AgentsKnown ==
  /\ herdSpawned \in Seq(Slug)
  /\ herdAt \in [Tasks -> {"waiting", "spawning", "sending", "collecting", "recording", "recorded"}]
  /\ herdMap \subseteq DOMAIN herdSpawned

Spawning(i, s) == i \in Tasks /\ herdAt[i] = "spawning" /\ HerdSlugs[i] = s

\* Of a slug no two tasks were spawning at once: one task spawns it at most, and only
\* while the map holds no agent of it.
OneSpawner(s) ==
  /\ \A i, j \in Tasks : Spawning(i, s) /\ Spawning(j, s) => i = j
  /\ \A i \in Tasks : Spawning(i, s) => Of(s) = {}

OneOf(s) == \A a, b \in Of(s) : a = b

ChildInv ==
  /\ AgentsKnown
  /\ HerdNoneLost
  /\ \A s \in Slug \ herdRaced : OneSpawner(s) /\ OneOf(s)

-----------------------------------------------------------------------------

LEMMA SlugOfTask == \A i \in Tasks : HerdSlugs[i] \in Slug
BY DEF Tasks, Slug, ToSet

\* An agent is created under the next position, and the others keep theirs.
LEMMA SpawnAppends ==
  ASSUME AgentsKnown, NEW s \in Slug
  PROVE  /\ Append(herdSpawned, s) \in Seq(Slug)
         /\ DOMAIN Append(herdSpawned, s) = DOMAIN herdSpawned \union {Len(herdSpawned) + 1}
         /\ \A a \in DOMAIN herdSpawned : Append(herdSpawned, s)[a] = herdSpawned[a]
         /\ Append(herdSpawned, s)[Len(herdSpawned) + 1] = s
         /\ Len(herdSpawned) + 1 \notin DOMAIN herdSpawned
BY DEF AgentsKnown

LEMMA ChildInit == HerdInit => ChildInv
<1> SUFFICES ASSUME HerdInit PROVE ChildInv
  OBVIOUS
<1>1. AgentsKnown
  BY DEF HerdInit, AgentsKnown
<1>2. HerdNoneLost
  BY DEF HerdInit, HerdNoneLost
<1>3. \A s \in Slug : OneSpawner(s) /\ OneOf(s)
  BY DEF HerdInit, OneSpawner, OneOf, Of, Spawning
<1> QED BY <1>1, <1>2, <1>3 DEF ChildInv

\* A delegation that starts a spawn found no child; where another one was spawning, the
\* slug counts as raced.
LEMMA DelegateKeeps ==
  ASSUME ChildInv, NEW i \in Tasks, HerdDelegate(i)
  PROVE  ChildInv'
<1>1. AgentsKnown' /\ HerdNoneLost'
  BY DEF ChildInv, AgentsKnown, HerdNoneLost, HerdDelegate, HerdSet
<1>2. ASSUME NEW s \in Slug \ herdRaced' PROVE OneSpawner(s)' /\ OneOf(s)'
  <2>1. Of(s)' = Of(s) /\ s \notin herdRaced
    BY <1>2 DEF HerdDelegate, Of
  <2>2. OneSpawner(s) /\ OneOf(s)
    BY <1>2, <2>1 DEF ChildInv
  <2>3. OneOf(s)'
    BY <2>1, <2>2 DEF OneOf
  <2>4. \A j \in Tasks \ {i} : Spawning(j, s)' <=> Spawning(j, s)
    BY DEF HerdDelegate, HerdSet, Spawning, ChildInv, AgentsKnown
  <2>5. CASE Spawning(i, s)'
    <3>1. Of(s) = {} /\ ~Racing(i)
      BY <1>2, <2>5 DEF HerdDelegate, HerdSet, FindBySlug, Spawning, ChildInv, AgentsKnown
    <3>2. \A j \in Tasks \ {i} : ~Spawning(j, s)
      BY <2>5, <3>1 DEF Racing, Spawning
    <3> QED BY <2>1, <2>3, <2>4, <3>1, <3>2 DEF OneSpawner
  <2>6. CASE ~Spawning(i, s)'
    BY <2>1, <2>2, <2>3, <2>4, <2>6 DEF OneSpawner
  <2> QED BY <2>5, <2>6
<1> QED BY <1>1, <1>2 DEF ChildInv

\* What a spawn adds to the map is the first agent of its slug, unless the slug is raced.
LEMMA SpawnKeeps ==
  ASSUME ChildInv, NEW i \in Tasks, HerdSpawn(i)
  PROVE  ChildInv'
<1> DEFINE new == Len(herdSpawned) + 1
<1>1. HerdSlugs[i] \in Slug
  BY SlugOfTask
<1>2. AgentsKnown
  BY DEF ChildInv
<1>3. \A j \in Tasks, s \in Slug : Spawning(j, s)' => Spawning(j, s) /\ j # i
  BY <1>2 DEF HerdSpawn, HerdFail, HerdSet, Spawning, AgentsKnown
<1>4. CASE UNCHANGED <<herdSpawned, herdMap>>
  <2>1. AgentsKnown' /\ HerdNoneLost'
    BY <1>4 DEF ChildInv, AgentsKnown, HerdNoneLost, HerdSpawn, HerdFail, HerdSet
  <2>2. \A s \in Slug : Of(s)' = Of(s)
    BY <1>4 DEF Of
  <2>3. herdRaced' = herdRaced
    BY DEF HerdSpawn
  <2> QED BY <1>3, <2>1, <2>2, <2>3 DEF ChildInv, OneSpawner, OneOf
<1>5. CASE /\ herdSpawned' = Append(herdSpawned, HerdSlugs[i])
           /\ herdMap' = herdMap \union {new}
           /\ herdAt' = HerdSet(herdAt, i, "sending")
  <2>1. AgentsKnown'
    BY <1>1, <1>2, <1>5, SpawnAppends DEF AgentsKnown, HerdSet
  <2>2. HerdNoneLost'
    BY <1>1, <1>2, <1>5, SpawnAppends DEF HerdNoneLost, ChildInv, HerdSpawn
  <2>3. ASSUME NEW s \in Slug \ herdRaced' PROVE OneSpawner(s)' /\ OneOf(s)'
    <3>1. OneSpawner(s) /\ OneOf(s)
      BY <2>3 DEF ChildInv, HerdSpawn
    <3>2. \A a \in herdMap : herdSpawned'[a] = herdSpawned[a]
      BY <1>1, <1>2, <1>5, SpawnAppends DEF AgentsKnown
    <3>3. herdSpawned'[new] = HerdSlugs[i]
      BY <1>1, <1>2, <1>5, SpawnAppends
    <3>4. CASE HerdSlugs[i] = s
      <4>1. Spawning(i, s)
        BY <3>4 DEF Spawning, HerdSpawn
      <4>2. Of(s) = {} /\ \A j \in Tasks \ {i} : ~Spawning(j, s)
        BY <3>1, <4>1 DEF OneSpawner
      <4>3. \A a \in Of(s)' : a = new
        BY <1>5, <3>2, <4>2 DEF Of
      <4> QED BY <1>3, <4>2, <4>3 DEF OneSpawner, OneOf
    <3>5. CASE HerdSlugs[i] # s
      <4>1. Of(s)' = Of(s)
        BY <1>5, <3>2, <3>3, <3>5 DEF Of
      <4> QED BY <1>3, <3>1, <4>1 DEF OneSpawner, OneOf
    <3> QED BY <3>4, <3>5
  <2> QED BY <2>1, <2>2, <2>3 DEF ChildInv
<1> QED BY <1>4, <1>5 DEF HerdSpawn

\* Sending, collecting and recording neither start a spawn nor touch the map.
LEMMA TaskKeeps ==
  ASSUME ChildInv, NEW i \in Tasks, HerdSend(i) \/ HerdCollect(i) \/ HerdRecord(i)
  PROVE  ChildInv'
<1>1. UNCHANGED herdManagerVars
  BY DEF HerdSend, HerdCollect, HerdRecord
<1>2. /\ AgentsKnown'
      /\ \A j \in Tasks, s \in Slug : Spawning(j, s)' => Spawning(j, s)
  BY <1>1 DEF ChildInv, AgentsKnown, herdManagerVars, Spawning, HerdSend, HerdCollect,
     HerdRecord, HerdFail, HerdSet
<1>3. HerdNoneLost'
  BY <1>1 DEF ChildInv, HerdNoneLost, herdManagerVars
<1>4. \A s \in Slug : Of(s)' = Of(s)
  BY <1>1 DEF Of, herdManagerVars
<1> QED BY <1>1, <1>2, <1>3, <1>4 DEF ChildInv, OneSpawner, OneOf, herdManagerVars

\* Stopping takes agents out of the map, to be shut down.
LEMMA StopKeeps ==
  ASSUME ChildInv,
         HerdStopAll \/ \E a \in AgentIds : HerdStop(a) \/ HerdShutOne(a)
  PROVE  ChildInv'
<1>1. UNCHANGED <<herdAt, herdSpawned, herdRaced>> /\ herdMap' \subseteq herdMap
  BY DEF HerdStopAll, HerdStop, HerdShutOne, MapKept, herdTaskVars
<1>2. herdMap \union herdLeaving \union herdShut
        \subseteq herdMap' \union herdLeaving' \union herdShut'
  BY DEF HerdStopAll, HerdStop, HerdShutOne, MapKept
<1>3. AgentsKnown' /\ HerdNoneLost'
  BY <1>1, <1>2 DEF ChildInv, AgentsKnown, HerdNoneLost
<1>4. \A s \in Slug : Of(s)' \subseteq Of(s)
  BY <1>1 DEF Of
<1>5. \A j \in Tasks, s \in Slug : Spawning(j, s)' <=> Spawning(j, s)
  BY <1>1 DEF Spawning
<1> QED BY <1>1, <1>3, <1>4, <1>5 DEF ChildInv, OneSpawner, OneOf

LEMMA ChildStep == ChildInv /\ [HerdNext]_herdVars => ChildInv'
<1> SUFFICES ASSUME ChildInv, [HerdNext]_herdVars PROVE ChildInv'
  OBVIOUS
<1>1. CASE HerdNext
  BY <1>1, DelegateKeeps, SpawnKeeps, TaskKeeps, StopKeeps DEF HerdNext
<1>2. CASE UNCHANGED herdVars
  BY <1>2 DEF herdVars, herdTaskVars, herdManagerVars, ChildInv, AgentsKnown, HerdNoneLost,
     OneSpawner, OneOf, Of, Spawning
<1> QED BY <1>1, <1>2

LEMMA ChildImplies == ChildInv => HerdChildren
<1> SUFFICES ASSUME ChildInv PROVE HerdChildren
  OBVIOUS
<1>1. ASSUME NEW s \in Slug \ herdRaced PROVE Cardinality(Of(s)) <= 1
  <2>1. OneOf(s)
    BY DEF ChildInv
  <2>2. CASE Of(s) = {}
    BY <2>2, FS_EmptySet
  <2>3. CASE Of(s) # {}
    <3>1. PICK a : Of(s) = {a}
      BY <2>1, <2>3 DEF OneOf
    <3>2. Cardinality({a}) = 1
      BY FS_Singleton
    <3> QED BY <3>1, <3>2
  <2> QED BY <2>2, <2>3
<1> QED BY <1>1 DEF HerdChildren, HerdOneChild, ChildInv, Slug

\* No runner that was started is lost, whatever StopAll and Stop do while others are spawned,
\* and a slug no two delegations looked for at once has one child at most (Manager, Delegate).
THEOREM HerdChildrenHolds == HerdSpec => []HerdChildren
<1>1. HerdInit => ChildInv
  BY ChildInit
<1>2. ChildInv /\ [HerdNext]_herdVars => ChildInv'
  BY ChildStep
<1>3. ChildInv => HerdChildren
  BY ChildImplies
<1> QED BY <1>1, <1>2, <1>3, PTL DEF HerdSpec

-----------------------------------------------------------------------------
(* What a workflow returns *)

NTasks == Len(HerdSlugs)

FlowTyped ==
  /\ herdKind \in {"sequential", "parallel", "supervisor"}
  /\ herdAt \in [Tasks -> {"waiting", "spawning", "sending", "collecting", "recording", "recorded"}]
  /\ herdTold \in [Tasks -> SUBSET Tasks]
  /\ herdOut \in [Tasks -> {"none", "empty", "text"}]
  /\ herdFailed \subseteq Tasks
  /\ herdResults \in Seq(Tasks \union {0})

FlowFailed == \A i \in herdFailed : herdAt[i] \in {"recording", "recorded"}

\* A task is delegated when it is due, and told what it quotes then; both stay as they were.
FlowDue == \A i \in Tasks : herdAt[i] # "waiting" => Due(i) /\ herdTold[i] = Quoted(i)

\* The tasks a supervisor's workflow has results of: not its own if it failed.
Reported == {i \in Tasks : herdAt[i] = "recorded" /\ ~(i = 1 /\ i \in herdFailed)}

InParallel == herdResults = [i \in Tasks |-> IF herdAt[i] = "recorded" THEN i ELSE 0]

InSequence ==
  /\ herdResults = [i \in 1..Len(herdResults) |-> i]
  /\ \A i \in Tasks : herdAt[i] = "recorded" <=> i <= Len(herdResults)
  /\ Len(herdResults) <= NTasks

UnderSupervisor ==
  /\ ToSet(herdResults) = Reported
  /\ Len(herdResults) = Cardinality(Reported)
  /\ herdResults # <<>> => Head(herdResults) = 1

FlowResults ==
  /\ herdKind = "parallel" => InParallel
  /\ herdKind = "sequential" => InSequence
  /\ herdKind = "supervisor" => UnderSupervisor

FlowInv == FlowTyped /\ FlowFailed /\ FlowDue /\ FlowResults

LEMMA TasksAre == NTasks \in Nat /\ NTasks > 1 /\ Tasks = 1..NTasks
BY HerdAssumption, LenProperties DEF NTasks, Tasks

LEMMA FlowInit == HerdInit => FlowInv
<1> SUFFICES ASSUME HerdInit PROVE FlowInv
  OBVIOUS
<1>1. FlowTyped
  <2>1. [i \in Tasks |-> 0] \in Seq(Tasks \union {0})
    BY TasksAre, IsASeq
  <2>2. <<>> \in Seq(Tasks \union {0})
    OBVIOUS
  <2> QED BY <2>1, <2>2 DEF HerdInit, FlowTyped
<1>2. FlowFailed /\ FlowDue
  BY DEF HerdInit, FlowFailed, FlowDue
<1>3. Reported = {} /\ \A i \in Tasks : herdAt[i] = "waiting"
  BY DEF HerdInit, Reported
<1>4. herdKind = "parallel" => InParallel
  BY DEF HerdInit, InParallel
<1>5. herdKind # "parallel" => herdResults = <<>> /\ Len(herdResults) = 0 /\ ToSet(herdResults) = {}
  BY DEF HerdInit, ToSet
<1>6. herdKind = "sequential" => InSequence
  BY <1>3, <1>5, TasksAre DEF InSequence
<1>7. herdKind = "supervisor" => UnderSupervisor
  BY <1>3, <1>5, FS_EmptySet DEF UnderSupervisor
<1> QED BY <1>1, <1>2, <1>4, <1>6, <1>7 DEF FlowInv, FlowResults

\* What one task does leaves the others where they are.
OthersStay(i) ==
  \A j \in Tasks \ {i} :
    /\ herdAt'[j] = herdAt[j] /\ herdOut'[j] = herdOut[j] /\ herdTold'[j] = herdTold[j]
    /\ j \in herdFailed' <=> j \in herdFailed

\* A task that is not recorded keeps its place, or it is delegated, when it is due.
LEMMA DueKept ==
  ASSUME FlowTyped, FlowDue, herdKind' = herdKind, NEW i \in Tasks, OthersStay(i),
         herdAt[i] # "recorded",
         herdAt[i] = "waiting" => Due(i) /\ herdTold'[i] = Quoted(i),
         herdAt[i] # "waiting" => herdTold'[i] = herdTold[i]
  PROVE  FlowDue'
<1>1. \A j \in Tasks : Succeeded(j) => Succeeded(j)'
  BY DEF Succeeded, OthersStay
<1>2. \A j \in Tasks : Due(j) => Due(j)'
  <2> SUFFICES ASSUME NEW j \in Tasks, Due(j) PROVE Due(j)'
    OBVIOUS
  <2>1. \A k \in 1..(j - 1) : k \in Tasks
    BY TasksAre
  <2>2. 1 \in Tasks
    BY TasksAre
  <2> QED BY <1>1, <2>1, <2>2 DEF Due, FlowTyped
<1>3. ASSUME NEW j \in Tasks, Due(j) PROVE Quoted(j)' = Quoted(j)
  <2>1. CASE herdKind = "sequential" /\ j > 1
    <3>1. j - 1 \in Tasks /\ j - 1 \in 1..(j - 1) /\ j - 1 # j
      BY <2>1, TasksAre
    <3>2. j - 1 # i
      BY <1>3, <2>1, <3>1 DEF Due, Succeeded
    <3>3. herdOut'[j - 1] = herdOut[j - 1]
      BY <3>1, <3>2 DEF OthersStay
    <3> QED BY <2>1, <3>3 DEF Quoted
  <2>2. CASE ~(herdKind = "sequential" /\ j > 1)
    BY <2>2 DEF Quoted, FlowTyped
  <2> QED BY <2>1, <2>2
<1>4. ASSUME NEW j \in Tasks, herdAt'[j] # "waiting" PROVE Due(j) /\ herdTold'[j] = Quoted(j)
  BY <1>4 DEF FlowDue, OthersStay
<1> QED BY <1>2, <1>3, <1>4 DEF FlowDue

\* A step that records nothing leaves the results what they are.
LEMMA FlowKept ==
  ASSUME FlowInv, UNCHANGED <<herdKind, herdResults>>, NEW i \in Tasks, OthersStay(i),
         herdAt[i] # "recorded", herdAt'[i] # "recorded"
  PROVE  FlowResults'
<1> USE DEF FlowInv
<1>1. \A j \in Tasks : herdAt'[j] = "recorded" <=> herdAt[j] = "recorded"
  BY DEF OthersStay
<1>2. Reported' = Reported
  BY <1>1 DEF Reported, OthersStay
<1>3. herdKind = "parallel" => InParallel'
  BY <1>1 DEF FlowResults, InParallel
<1>4. herdKind = "sequential" => InSequence'
  BY <1>1 DEF FlowResults, InSequence, NTasks
<1>5. herdKind = "supervisor" => UnderSupervisor'
  BY <1>2 DEF FlowResults, UnderSupervisor
<1> QED BY <1>3, <1>4, <1>5 DEF FlowResults

\* Every step of a task but the recording.
LEMMA FlowTaskStep ==
  ASSUME FlowInv, NEW i \in Tasks,
         HerdDelegate(i) \/ HerdSpawn(i) \/ HerdSend(i) \/ HerdCollect(i)
  PROVE  FlowInv'
<1> USE DEF FlowInv
<1>1. PICK at \in {"spawning", "sending", "collecting", "recording"} :
        /\ herdAt' = [herdAt EXCEPT ![i] = at]
        /\ herdFailed' = herdFailed \/ (herdFailed' = herdFailed \union {i} /\ at = "recording")
  BY DEF HerdDelegate, HerdSpawn, HerdSend, HerdCollect, HerdFail, HerdSet
<1>2. /\ herdAt[i] \notin {"recorded", "recording"} /\ UNCHANGED <<herdKind, herdResults>>
      /\ herdOut' = herdOut \/ \E out \in {"empty", "text"} : herdOut' = [herdOut EXCEPT ![i] = out]
  BY DEF HerdDelegate, HerdSpawn, HerdSend, HerdCollect, HerdFail, HerdSet
<1>3. \/ herdAt[i] = "waiting" /\ Due(i) /\ herdTold' = [herdTold EXCEPT ![i] = Quoted(i)]
      \/ herdAt[i] # "waiting" /\ herdTold' = herdTold
  BY DEF HerdDelegate, HerdSpawn, HerdSend, HerdCollect, HerdFail, HerdSet
<1>4. \A j \in Tasks : herdAt'[j] = IF j = i THEN at ELSE herdAt[j]
  BY <1>1 DEF FlowTyped
<1>5. Quoted(i) \in SUBSET Tasks
  <2>1. 1 \in Tasks /\ (i > 1 => i - 1 \in Tasks)
    BY TasksAre
  <2> QED BY <2>1 DEF Quoted, FlowTyped
<1>6. FlowTyped'
  <2>1. herdAt' \in [Tasks -> {"waiting", "spawning", "sending", "collecting", "recording", "recorded"}]
    BY <1>1 DEF FlowTyped
  <2>2. herdTold' \in [Tasks -> SUBSET Tasks]
    BY <1>3, <1>5 DEF FlowTyped
  <2>3. herdOut' \in [Tasks -> {"none", "empty", "text"}]
    BY <1>2 DEF FlowTyped
  <2> QED BY <1>1, <1>2, <2>1, <2>2, <2>3 DEF FlowTyped
<1>7. OthersStay(i)
  BY <1>1, <1>2, <1>3, <1>4 DEF OthersStay, FlowTyped
<1>8. FlowFailed'
  BY <1>1, <1>2, <1>4 DEF FlowFailed, FlowTyped
<1>9. FlowDue'
  <2>1. herdAt[i] = "waiting" => Due(i) /\ herdTold'[i] = Quoted(i)
    BY <1>3 DEF FlowTyped
  <2>2. herdAt[i] # "waiting" => herdTold'[i] = herdTold[i]
    BY <1>3
  <2> QED BY <1>2, <1>7, <2>1, <2>2, DueKept
<1>10. FlowResults'
  BY <1>2, <1>4, <1>7, FlowKept
<1> QED BY <1>6, <1>8, <1>9, <1>10

LEMMA AppendTask ==
  ASSUME FlowTyped, NEW i \in Tasks, herdResults' = Append(herdResults, i)
  PROVE  /\ herdResults' \in Seq(Tasks \union {0})
         /\ Len(herdResults) \in Nat /\ Len(herdResults') = Len(herdResults) + 1
         /\ \A j \in 1..Len(herdResults) : herdResults'[j] = herdResults[j]
         /\ herdResults'[Len(herdResults) + 1] = i
         /\ ToSet(herdResults') = ToSet(herdResults) \union {i}
         /\ Head(herdResults') = IF herdResults = <<>> THEN i ELSE Head(herdResults)
<1>1. /\ herdResults \in Seq(Tasks \union {0}) /\ i \in Tasks \union {0}
      /\ Len(herdResults) \in Nat /\ DOMAIN herdResults = 1..Len(herdResults)
  BY LenProperties DEF FlowTyped
<1>2. /\ herdResults' \in Seq(Tasks \union {0}) /\ Len(herdResults') = Len(herdResults) + 1
      /\ \A j \in 1..Len(herdResults) : herdResults'[j] = herdResults[j]
      /\ herdResults'[Len(herdResults) + 1] = i
  BY <1>1, AppendProperties
<1>3. DOMAIN herdResults' = 1..(Len(herdResults) + 1)
  BY <1>2, LenProperties
<1>4. ToSet(herdResults') = ToSet(herdResults) \union {i}
  <2>1. \A j : j \in 1..(Len(herdResults) + 1) <=> j \in 1..Len(herdResults) \/ j = Len(herdResults) + 1
    BY <1>1
  <2>2. ToSet(herdResults') = {herdResults'[j] : j \in 1..(Len(herdResults) + 1)}
    BY <1>3 DEF ToSet
  <2>3. ToSet(herdResults) = {herdResults[j] : j \in 1..Len(herdResults)}
    BY <1>1 DEF ToSet
  <2>4. \A x \in ToSet(herdResults') : x \in ToSet(herdResults) \union {i}
    BY <1>2, <2>1, <2>2, <2>3
  <2>5. \A x \in ToSet(herdResults) \union {i} : x \in ToSet(herdResults')
    BY <1>2, <2>1, <2>2, <2>3
  <2> QED BY <2>4, <2>5
<1>5. Head(herdResults') = IF herdResults = <<>> THEN i ELSE Head(herdResults)
  BY <1>1, HeadTailAppend
<1> QED BY <1>1, <1>2, <1>4, <1>5

LEMMA FlowRecordStep ==
  ASSUME FlowInv, NEW i \in Tasks, HerdRecord(i)
  PROVE  FlowInv'
<1> USE DEF FlowInv
<1>1. /\ herdAt[i] = "recording" /\ herdAt' = [herdAt EXCEPT ![i] = "recorded"]
      /\ UNCHANGED <<herdKind, herdTold, herdOut, herdFailed>>
  BY DEF HerdRecord, HerdSet
<1>2. \A j \in Tasks : herdAt'[j] = IF j = i THEN "recorded" ELSE herdAt[j]
  BY <1>1 DEF FlowTyped
<1>3. /\ herdKind = "parallel" => herdResults' = [herdResults EXCEPT ![i] = i]
      /\ herdKind = "sequential" => herdResults' = Append(herdResults, i)
      /\ herdKind = "supervisor" /\ i = 1 /\ i \in herdFailed => herdResults' = herdResults
      /\ herdKind = "supervisor" /\ ~(i = 1 /\ i \in herdFailed) =>
           herdResults' = Append(herdResults, i)
  BY DEF HerdRecord, OwnIndex, FlowTyped
<1>4. FlowFailed'
  BY <1>1, <1>2 DEF FlowFailed, FlowTyped
<1>5. FlowDue'
  <2>1. OthersStay(i)
    BY <1>1, <1>2 DEF OthersStay
  <2> QED BY <1>1, <2>1, DueKept
<1>6. CASE herdKind = "parallel"
  <2>1. herdResults = [j \in Tasks |-> IF herdAt[j] = "recorded" THEN j ELSE 0]
    BY <1>6 DEF FlowResults, InParallel
  <2>2. herdResults' = [j \in Tasks |-> IF herdAt'[j] = "recorded" THEN j ELSE 0]
    BY <1>2, <1>3, <1>6, <2>1
  <2>3. herdResults' \in Seq(Tasks \union {0})
    BY <2>2, TasksAre, IsASeq
  <2>4. herdAt' \in [Tasks -> {"waiting", "spawning", "sending", "collecting", "recording", "recorded"}]
    BY <1>1 DEF FlowTyped
  <2>5. FlowTyped'
    BY <1>1, <2>3, <2>4 DEF FlowTyped
  <2> QED BY <1>1, <1>4, <1>5, <1>6, <2>2, <2>5 DEF FlowResults, InParallel
<1>7. CASE herdKind # "parallel"
  <2>1. herdAt' \in [Tasks -> {"waiting", "spawning", "sending", "collecting", "recording", "recorded"}]
    BY <1>1 DEF FlowTyped
  <2>2. herdResults' = herdResults \/ herdResults' = Append(herdResults, i)
    BY <1>3, <1>7 DEF FlowTyped
  <2>3. herdResults' \in Seq(Tasks \union {0})
    BY <2>2, AppendTask DEF FlowTyped
  <2>4. FlowTyped'
    BY <1>1, <2>1, <2>3 DEF FlowTyped
  <2>5. CASE herdKind = "sequential"
    <3>1. InSequence /\ herdResults' = Append(herdResults, i)
      BY <1>3, <2>5 DEF FlowResults
    <3>2. PICK n \in Nat : n = Len(herdResults)
      BY <3>1, AppendTask
    <3>3. n <= NTasks /\ herdResults = [j \in 1..n |-> j]
          /\ \A j \in Tasks : herdAt[j] = "recorded" <=> j <= n
      BY <3>1, <3>2 DEF InSequence
    <3>4. i = n + 1
      <4>1. \A j \in 1..(i - 1) : herdAt[j] = "recorded"
        BY <1>1, <2>5 DEF FlowDue, Due, Succeeded
      <4>2. i > n
        BY <1>1, <3>2, <3>3, TasksAre
      <4>3. i - 1 <= n
        <5>1. CASE i = 1
          BY <3>2, <5>1
        <5>2. CASE i # 1
          <6>1. i - 1 \in Tasks /\ i - 1 \in 1..(i - 1)
            BY <5>2, TasksAre
          <6> QED BY <3>3, <4>1, <6>1
        <5> QED BY <5>1, <5>2
      <4> QED BY <3>2, <4>2, <4>3, TasksAre
    <3>5. /\ Len(herdResults') = n + 1 /\ \A j \in 1..n : herdResults'[j] = j
          /\ herdResults'[n + 1] = n + 1
      BY <3>1, <3>2, <3>3, <3>4, AppendTask
    <3>6. herdResults' = [j \in 1..(n + 1) |-> j]
      <4>1. DOMAIN herdResults' = 1..(n + 1) /\ herdResults' = [j \in DOMAIN herdResults' |-> herdResults'[j]]
        BY <2>3, <3>5, LenProperties, SeqDef
      <4>2. \A j \in 1..(n + 1) : herdResults'[j] = j
        BY <3>2, <3>5
      <4> QED BY <4>1, <4>2
    <3>7. \A j \in Tasks : herdAt'[j] = "recorded" <=> j <= n + 1
      BY <1>2, <3>2, <3>3, <3>4, TasksAre
    <3>8. n + 1 <= NTasks
      BY <3>4, TasksAre
    <3>9. InSequence'
      BY <3>5, <3>6, <3>7, <3>8 DEF InSequence, NTasks
    <3> QED BY <1>1, <1>4, <1>5, <2>4, <2>5, <3>9 DEF FlowResults
  <2>6. CASE herdKind = "supervisor"
    <3>1. UnderSupervisor
      BY <2>6 DEF FlowResults
    <3>2. IsFiniteSet(Reported)
      <4>1. IsFiniteSet(Tasks)
        BY TasksAre, FS_Interval
      <4> QED BY <4>1, FS_Subset DEF Reported
    <3>3. CASE i = 1 /\ i \in herdFailed
      <4>1. herdResults' = herdResults
        BY <1>3, <2>6, <3>3
      <4>2. Reported' = Reported
        BY <1>1, <1>2, <3>3 DEF Reported
      <4> QED BY <1>1, <1>4, <1>5, <2>4, <2>6, <3>1, <4>1, <4>2 DEF FlowResults, UnderSupervisor
    <3>4. CASE ~(i = 1 /\ i \in herdFailed)
      <4>1. herdResults' = Append(herdResults, i)
        BY <1>3, <2>6, <3>4
      <4>2. Reported' = Reported \union {i} /\ i \notin Reported
        BY <1>1, <1>2, <3>4 DEF Reported
      <4>3. ToSet(herdResults') = Reported' /\ Len(herdResults') = Len(herdResults) + 1
        BY <3>1, <4>1, <4>2, AppendTask DEF UnderSupervisor
      <4>4. Cardinality(Reported \union {i}) = Cardinality(Reported) + 1
        BY <3>2, <4>2, FS_AddElement
      <4>5. Len(herdResults') = Cardinality(Reported')
        BY <3>1, <4>2, <4>3, <4>4 DEF UnderSupervisor
      <4>6. Head(herdResults') = 1
        <5>1. CASE herdResults = <<>>
          <6>1. Reported = {}
            BY <3>1, <5>1 DEF UnderSupervisor, ToSet
          <6>2. i = 1
            <7>1. i > 1 => herdAt[1] = "recorded" /\ 1 \notin herdFailed
              BY <1>1, <2>6 DEF FlowDue, Due, Succeeded
            <7> QED BY <6>1, <7>1, TasksAre DEF Reported
          <6> QED BY <4>1, <5>1, <6>2, AppendTask
        <5>2. CASE herdResults # <<>>
          BY <3>1, <4>1, <5>2, AppendTask DEF UnderSupervisor
        <5> QED BY <5>1, <5>2
      <4>7. UnderSupervisor'
        BY <4>3, <4>5, <4>6 DEF UnderSupervisor
      <4> QED BY <1>1, <1>4, <1>5, <2>4, <2>6, <4>7 DEF FlowResults
    <3> QED BY <3>3, <3>4
  <2> QED BY <1>7, <2>5, <2>6 DEF FlowTyped
<1> QED BY <1>6, <1>7

LEMMA FlowStep == FlowInv /\ [HerdNext]_herdVars => FlowInv'
<1> SUFFICES ASSUME FlowInv, [HerdNext]_herdVars PROVE FlowInv'
  OBVIOUS
<1>1. CASE UNCHANGED <<herdKind, herdTaskVars, herdResults>>
  <2>1. UNCHANGED <<herdKind, herdAt, herdTold, herdOut, herdFailed, herdResults>>
    BY <1>1 DEF herdTaskVars
  <2>2. FlowTyped' /\ FlowFailed'
    BY <2>1 DEF FlowInv, FlowTyped, FlowFailed
  <2>3. FlowDue'
    BY <2>1 DEF FlowInv, FlowDue, Due, Succeeded, Quoted
  <2>4. FlowResults'
    BY <2>1 DEF FlowInv, FlowResults, InParallel, InSequence, UnderSupervisor, Reported, NTasks
  <2> QED BY <2>2, <2>3, <2>4 DEF FlowInv
<1>2. CASE HerdStopAll \/ \E a \in AgentIds : HerdStop(a) \/ HerdShutOne(a)
  BY <1>1, <1>2 DEF HerdStopAll, HerdStop, HerdShutOne
<1>3. CASE UNCHANGED herdVars
  BY <1>1, <1>3 DEF herdVars
<1> QED BY <1>2, <1>3, FlowTaskStep, FlowRecordStep DEF HerdNext

LEMMA FlowImplies == FlowInv => HerdResults
<1> SUFFICES ASSUME FlowInv, HerdOver PROVE HerdResults
  BY DEF HerdResults
<1> USE DEF FlowInv
<1>1. 1 \in Tasks /\ NTasks \in Nat /\ Tasks = 1..NTasks
  BY TasksAre
<1>2. \A i \in Tasks : herdAt[i] = "recorded" \/ (herdAt[i] = "waiting" /\ ~Due(i))
  BY DEF HerdOver
<1>3. CASE herdKind = "parallel"
  <2>1. \A i \in Tasks : herdAt[i] = "recorded"
    BY <1>2, <1>3 DEF Due
  <2>2. herdResults = [i \in Tasks |-> i]
    BY <1>3, <2>1 DEF FlowResults, InParallel
  <2> QED BY <1>3, <2>2 DEF HerdResults
<1>4. CASE herdKind = "sequential"
  <2>1. InSequence
    BY <1>4 DEF FlowResults
  <2>2. PICK n \in Nat : n = Len(herdResults)
    BY LenProperties DEF FlowTyped
  <2>3. herdResults = [i \in 1..n |-> i] /\ n <= NTasks /\ \A i \in Tasks : herdAt[i] = "recorded" <=> i <= n
    BY <2>1, <2>2 DEF InSequence
  <2>4. \A i \in Tasks : i <= n => \A j \in 1..(i - 1) : j \notin herdFailed
    BY <1>4, <2>3 DEF FlowDue, Due, Succeeded
  <2>5. herdFailed \subseteq {n}
    <3> SUFFICES ASSUME NEW i \in herdFailed PROVE i = n
      OBVIOUS
    <3>1. i \in Tasks /\ i <= n /\ n \in Tasks
      BY <1>1, <1>2, <2>3 DEF FlowFailed, FlowTyped
    <3>2. n \in Tasks => i \notin 1..(n - 1)
      BY <2>4
    <3> QED BY <1>1, <3>1, <3>2
  <2>6. ASSUME herdFailed = {} PROVE n = NTasks
    <3> SUFFICES ASSUME n < NTasks PROVE FALSE
      BY <1>1, <2>3
    <3>1. n + 1 \in Tasks /\ herdAt[n + 1] # "recorded"
      BY <1>1, <2>3
    <3>2. \A j \in 1..(n + 1 - 1) : Succeeded(j)
      BY <1>1, <2>3, <2>6 DEF Succeeded
    <3> QED BY <1>2, <1>4, <3>1, <3>2 DEF Due
  <2>7. ASSUME NEW i \in ToSet(herdResults) \ {1}
        PROVE  herdTold[i] = IF herdOut[i - 1] = "text" THEN {i - 1} ELSE {}
    <3>1. i \in 1..n /\ i # 1
      BY <2>3, <2>7 DEF ToSet
    <3>2. i \in Tasks /\ i > 1 /\ herdAt[i] = "recorded"
      BY <1>1, <2>3, <3>1
    <3>3. herdTold[i] = Quoted(i)
      BY <3>2 DEF FlowDue
    <3> QED BY <1>4, <3>2, <3>3 DEF Quoted
  <2> QED BY <1>4, <2>2, <2>3, <2>5, <2>6, <2>7 DEF HerdResults, NTasks
<1>5. CASE herdKind = "supervisor"
  <2>1. UnderSupervisor
    BY <1>5 DEF FlowResults
  <2>2. herdAt[1] = "recorded"
    BY <1>1, <1>2, <1>5 DEF Due
  <2>3. CASE 1 \in herdFailed
    <3>1. \A i \in Tasks \ {1} : herdAt[i] # "recorded"
      BY <1>1, <1>5, <2>3 DEF FlowDue, Due, Succeeded
    <3>2. Reported = {}
      BY <2>3, <3>1 DEF Reported
    <3>3. Len(herdResults) = 0
      BY <2>1, <3>2, FS_EmptySet DEF UnderSupervisor
    <3>4. herdResults = <<>>
      BY <3>3, EmptySeq DEF FlowTyped
    <3> QED BY <1>5, <2>3, <3>4 DEF HerdResults
  <2>4. CASE 1 \notin herdFailed
    <3>1. \A i \in Tasks : Due(i)
      BY <1>5, <2>2, <2>4 DEF Due, Succeeded
    <3>2. \A i \in Tasks : herdAt[i] = "recorded"
      BY <1>2, <3>1
    <3>3. Reported = Tasks
      BY <2>4, <3>2 DEF Reported
    <3>4. Cardinality(Tasks) = NTasks
      BY <1>1, TasksAre, FS_Interval
    <3>5. ToSet(herdResults) = Tasks /\ Len(herdResults) = Len(HerdSlugs)
      BY <2>1, <3>3, <3>4 DEF UnderSupervisor, NTasks
    <3>6. Head(herdResults) = 1
      <4>1. herdResults # <<>>
        BY <1>1, <3>5 DEF ToSet
      <4> QED BY <2>1, <4>1 DEF UnderSupervisor
    <3>7. \A i \in Tasks \ {1} : herdTold[i] = {1}
      BY <1>5, <3>2 DEF FlowDue, Quoted
    <3> QED BY <1>5, <2>4, <3>5, <3>6, <3>7 DEF HerdResults
  <2> QED BY <2>3, <2>4
<1> QED BY <1>3, <1>4, <1>5 DEF FlowTyped

\* What a workflow returns does not depend on how its delegations meet each other and Stop,
\* for any number of tasks (executeSequential, executeParallel, executeSupervisor).
THEOREM HerdResultsHolds == HerdSpec => []HerdResults
BY FlowInit, FlowStep, FlowImplies, PTL DEF HerdSpec
-----------------------------------------------------------------------------
(* Types *)

\* The tasks that have looked for their child.
Placed == {i \in Tasks : herdAt[i] \notin {"waiting", "spawning"}}

\* A task spawns one agent at most.
AgentsTyped ==
  /\ herdChild \in [Tasks -> AgentIds \union {0}]
  /\ herdMap \union herdLeaving \union herdShut \subseteq DOMAIN herdSpawned
  /\ Len(herdSpawned) <= Cardinality(Placed)
  /\ herdStops \in 0..HerdStopMax
  /\ herdRaced \subseteq Slug

HerdInv == ChildInv /\ FlowInv /\ AgentsTyped

LEMMA PlacedFinite ==
  /\ IsFiniteSet(Placed) /\ Cardinality(Placed) \in Nat /\ Cardinality(Placed) <= NTasks
<1>1. IsFiniteSet(Tasks) /\ Cardinality(Tasks) = NTasks
  BY TasksAre, FS_Interval
<1>2. Placed \subseteq Tasks
  BY DEF Placed
<1> QED BY <1>1, <1>2, FS_Subset, FS_CardinalityType

LEMMA AgentsKnownIds ==
  ASSUME AgentsKnown, AgentsTyped
  PROVE  /\ Len(herdSpawned) \in Nat /\ Len(herdSpawned) <= NTasks
         /\ DOMAIN herdSpawned = 1..Len(herdSpawned)
         /\ DOMAIN herdSpawned \subseteq AgentIds
<1>1. Len(herdSpawned) \in Nat /\ DOMAIN herdSpawned = 1..Len(herdSpawned)
  BY LenProperties DEF AgentsKnown
<1>2. PICK n \in Nat : n = Len(herdSpawned)
  BY <1>1
<1>3. n <= NTasks
  BY <1>2, PlacedFinite, TasksAre DEF AgentsTyped
<1>4. 1..n \subseteq 1..NTasks
  BY <1>3, TasksAre
<1> QED BY <1>1, <1>2, <1>3, <1>4 DEF AgentIds, NTasks

LEMMA AgentsInit == HerdInit => AgentsTyped
<1> SUFFICES ASSUME HerdInit PROVE AgentsTyped
  OBVIOUS
<1>1. Len(herdSpawned) = 0 /\ 0 <= Cardinality(Placed)
  BY PlacedFinite DEF HerdInit
<1> QED BY <1>1, HerdAssumption DEF HerdInit, AgentsTyped

\* A task that moves on stays placed.
LEMMA PlacedGrows ==
  ASSUME \A i \in Placed : i \in Placed'
  PROVE  Cardinality(Placed) <= Cardinality(Placed)'
<1>1. Placed \subseteq Placed' /\ Placed' \subseteq Tasks
  BY DEF Placed
<1>2. IsFiniteSet(Tasks)
  BY TasksAre, FS_Interval
<1>3. IsFiniteSet(Placed')
  BY <1>1, <1>2, FS_Subset
<1> QED BY <1>1, <1>3, FS_Subset

LEMMA AgentsSpawn ==
  ASSUME HerdInv, NEW i \in Tasks, HerdSpawn(i)
  PROVE  AgentsTyped'
<1> USE DEF HerdInv, FlowInv
<1>1. herdAt[i] = "spawning" /\ herdAt' \in {[herdAt EXCEPT ![i] = "sending"], [herdAt EXCEPT ![i] = "recording"]}
  BY DEF HerdSpawn, HerdFail, HerdSet
<1>2. \A j \in Tasks : herdAt'[j] = herdAt[j] \/ (j = i /\ herdAt'[j] \in {"sending", "recording"})
  BY <1>1 DEF FlowTyped
<1>3. Placed' = Placed \union {i} /\ i \notin Placed
  <2>1. herdAt'[i] \in {"sending", "recording"}
    BY <1>1 DEF FlowTyped
  <2> QED BY <1>1, <1>2, <2>1 DEF Placed
<1>4. Cardinality(Placed)' = Cardinality(Placed) + 1
  <2>1. Cardinality(Placed \union {i}) = Cardinality(Placed) + 1
    BY <1>3, PlacedFinite, FS_AddElement
  <2> QED BY <1>3, <2>1
<1>5. /\ AgentsKnown /\ AgentsTyped /\ Len(herdSpawned) \in Nat
      /\ Len(herdSpawned) <= Cardinality(Placed) /\ Cardinality(Placed) \in Nat
  BY AgentsKnownIds, PlacedFinite DEF ChildInv, AgentsTyped
<1>6. UNCHANGED <<herdLeaving, herdShut, herdStops, herdRaced>>
  BY DEF HerdSpawn
<1>7. CASE UNCHANGED <<herdSpawned, herdMap, herdChild>>
  <2>1. Len(herdSpawned') <= Cardinality(Placed)'
    BY <1>4, <1>5, <1>7
  <2> QED BY <1>6, <1>7, <2>1 DEF AgentsTyped
<1>8. CASE /\ herdSpawned' = Append(herdSpawned, HerdSlugs[i])
           /\ herdMap' = herdMap \union {Len(herdSpawned) + 1}
           /\ herdChild' = HerdSet(herdChild, i, Len(herdSpawned) + 1)
  <2>1. PICK n \in Nat : n = Len(herdSpawned) + 1
    BY <1>5
  <2>2. /\ DOMAIN herdSpawned' = DOMAIN herdSpawned \union {n}
        /\ herdSpawned' \in Seq(Slug)
    BY <1>5, <1>8, <2>1, SpawnAppends, SlugOfTask
  <2>3. Len(herdSpawned') = n
    BY <1>5, <1>8, <2>1, SlugOfTask, AppendProperties DEF AgentsKnown
  <2>4. n <= Cardinality(Placed)'
    BY <1>4, <1>5, <2>1
  <2>5. n \in AgentIds
    <3>1. Cardinality(Placed) + 1 <= NTasks
      <4>1. IsFiniteSet(Tasks) /\ Cardinality(Tasks) = NTasks
        BY TasksAre, FS_Interval
      <4>2. Placed' \subseteq Tasks
        BY DEF Placed
      <4>3. Cardinality(Placed') <= NTasks
        BY <4>1, <4>2, FS_Subset
      <4> QED BY <1>4, <4>3
    <3>2. n >= 1 /\ n <= NTasks
      BY <1>5, <2>1, <3>1, TasksAre
    <3> QED BY <3>2 DEF AgentIds, NTasks
  <2>6. herdChild' \in [Tasks -> AgentIds \union {0}]
    BY <1>5, <1>8, <2>1, <2>5 DEF AgentsTyped, HerdSet
  <2>7. herdMap' \union herdLeaving' \union herdShut' \subseteq DOMAIN herdSpawned'
    BY <1>5, <1>6, <1>8, <2>1, <2>2 DEF AgentsTyped
  <2> QED BY <1>5, <1>6, <2>3, <2>4, <2>6, <2>7 DEF AgentsTyped
<1> QED BY <1>7, <1>8 DEF HerdSpawn

LEMMA AgentsTask ==
  ASSUME HerdInv, NEW i \in Tasks,
         HerdDelegate(i) \/ HerdSend(i) \/ HerdCollect(i) \/ HerdRecord(i)
  PROVE  AgentsTyped'
<1> USE DEF HerdInv, FlowInv
<1>1. PICK at \in {"spawning", "sending", "collecting", "recording", "recorded"} :
        /\ herdAt' = [herdAt EXCEPT ![i] = at]
        /\ at = "spawning" => herdAt[i] = "waiting"
  BY DEF HerdDelegate, HerdSend, HerdCollect, HerdRecord, HerdFail, HerdSet
<1>2. \A j \in Placed : j \in Placed'
  BY <1>1 DEF Placed, FlowTyped
<1>3. Cardinality(Placed) <= Cardinality(Placed)'
  BY <1>2, PlacedGrows
<1>4. UNCHANGED <<herdSpawned, herdMap, herdLeaving, herdShut, herdStops>>
  BY DEF HerdDelegate, HerdSend, HerdCollect, HerdRecord, herdManagerVars
<1>5. herdRaced' = herdRaced \/ herdRaced' = herdRaced \union {HerdSlugs[i]}
  BY DEF HerdDelegate, HerdSend, HerdCollect, HerdRecord, herdManagerVars
<1>6. herdRaced' \subseteq Slug
  BY <1>5, SlugOfTask DEF AgentsTyped
<1>7. herdChild' \in [Tasks -> AgentIds \union {0}]
  <2>1. AgentsKnown /\ AgentsTyped /\ herdMap \subseteq AgentIds
    BY AgentsKnownIds DEF ChildInv, AgentsKnown
  <2>2. herdChild' = herdChild \/ \E a \in herdMap : herdChild' = [herdChild EXCEPT ![i] = a]
    BY DEF HerdDelegate, HerdSend, HerdCollect, HerdRecord, HerdSet, FindBySlug, Of
  <2> QED BY <2>1, <2>2 DEF AgentsTyped
<1>8. Len(herdSpawned') <= Cardinality(Placed)'
  <2>1. IsFiniteSet(Placed') /\ Cardinality(Placed') \in Nat
    <3>1. Placed' \subseteq Tasks
      BY DEF Placed
    <3>2. IsFiniteSet(Tasks)
      BY TasksAre, FS_Interval
    <3> QED BY <3>1, <3>2, FS_Subset, FS_CardinalityType
  <2>2. Len(herdSpawned) <= Cardinality(Placed) /\ Len(herdSpawned) \in Nat /\ Cardinality(Placed) \in Nat
    BY AgentsKnownIds, PlacedFinite DEF ChildInv, AgentsTyped
  <2> QED BY <1>3, <1>4, <2>1, <2>2
<1> QED BY <1>4, <1>6, <1>7, <1>8 DEF AgentsTyped

LEMMA AgentsStop ==
  ASSUME HerdInv, HerdStopAll \/ \E a \in AgentIds : HerdStop(a) \/ HerdShutOne(a)
  PROVE  AgentsTyped'
<1> USE DEF HerdInv
<1>1. UNCHANGED <<herdAt, herdChild, herdSpawned, herdRaced>>
  BY DEF HerdStopAll, HerdStop, HerdShutOne, herdTaskVars
<1>2. herdMap' \union herdLeaving' \union herdShut' \subseteq herdMap \union herdLeaving \union herdShut
  BY DEF HerdStopAll, HerdStop, HerdShutOne, MapKept
<1>3. herdStops' \in 0..HerdStopMax
  BY HerdAssumption DEF HerdStopAll, HerdStop, HerdShutOne, AgentsTyped
<1>4. Placed' = Placed
  BY <1>1 DEF Placed
<1> QED BY <1>1, <1>2, <1>3, <1>4 DEF AgentsTyped

LEMMA AgentsStep == HerdInv /\ [HerdNext]_herdVars => AgentsTyped'
<1> SUFFICES ASSUME HerdInv, [HerdNext]_herdVars PROVE AgentsTyped'
  OBVIOUS
<1>1. CASE HerdNext
  BY <1>1, AgentsSpawn, AgentsTask, AgentsStop DEF HerdNext
<1>2. CASE UNCHANGED herdVars
  BY <1>2 DEF herdVars, herdTaskVars, herdManagerVars, HerdInv, AgentsTyped, Placed
<1> QED BY <1>1, <1>2

LEMMA HerdInvImplies == HerdInv => HerdTypeOK
<1> SUFFICES ASSUME HerdInv PROVE HerdTypeOK
  OBVIOUS
<1> USE DEF HerdInv
<1>1. Len(herdResults) <= Len(HerdSlugs)
  <2>1. IsFiniteSet(Tasks) /\ Cardinality(Tasks) = NTasks
    BY TasksAre, FS_Interval
  <2>2. CASE herdKind = "parallel"
    <3>1. DOMAIN herdResults = 1..NTasks
      BY <2>2, TasksAre DEF FlowInv, FlowResults, InParallel
    <3>2. Len(herdResults) = NTasks
      <4>1. Len(herdResults) \in Nat /\ DOMAIN herdResults = 1..Len(herdResults)
        BY LenProperties DEF FlowInv, FlowTyped
      <4>2. PICK m \in Nat : m = Len(herdResults)
        BY <4>1
      <4>3. 1..m = 1..NTasks
        BY <3>1, <4>1, <4>2
      <4> QED BY <4>2, <4>3, TasksAre
    <3> QED BY <3>2, TasksAre DEF NTasks
  <2>3. CASE herdKind = "sequential"
    BY <2>3 DEF FlowInv, FlowResults, InSequence, NTasks
  <2>4. CASE herdKind = "supervisor"
    <3>1. Len(herdResults) = Cardinality(Reported) /\ Reported \subseteq Tasks
      BY <2>4 DEF FlowInv, FlowResults, UnderSupervisor, Reported
    <3> QED BY <2>1, <3>1, FS_Subset DEF NTasks
  <2> QED BY <2>2, <2>3, <2>4 DEF FlowInv, FlowTyped
<1>2. /\ herdMap \union herdLeaving \union herdShut \subseteq AgentIds
      /\ Len(herdSpawned) <= Len(HerdSlugs)
  BY AgentsKnownIds DEF ChildInv, AgentsTyped, NTasks
<1> QED BY <1>1, <1>2 DEF HerdTypeOK, FlowInv, FlowTyped, ChildInv, AgentsKnown, AgentsTyped, Slug

\* The herd's variables keep their types: no more agents than tasks, no more results either,
\* and every child is an agent that was created (Manager, WorkflowExecutor).
THEOREM HerdTypeCorrect == HerdSpec => []HerdTypeOK
<1>1. HerdInit => HerdInv
  BY ChildInit, FlowInit, AgentsInit DEF HerdInv
<1>2. HerdInv /\ [HerdNext]_herdVars => HerdInv'
  BY ChildStep, FlowStep, AgentsStep DEF HerdInv
<1> QED BY <1>1, <1>2, HerdInvImplies, PTL DEF HerdSpec
=============================================================================
