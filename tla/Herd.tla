-------------------------------- MODULE Herd --------------------------------
(***************************************************************************)
(* internal/burrow/herd: a workflow delegates its tasks to child agents that *)
(* are found by slug or spawned, one after the other, all at once, or to      *)
(* workers after a supervisor has made a plan, while children are stopped.   *)
(* Runners are external: they answer a message, fail, or end their channel.  *)
(***************************************************************************)
EXTENDS Integers, Sequences, FiniteSets, SequencesExt

CONSTANTS
  HerdSlugs,   \* AgentSlug of each assignment of the workflow
  HerdStopMax  \* bound: calls of Stop and StopAll

ASSUME HerdAssumption ==
  /\ HerdSlugs \in Seq(ToSet(HerdSlugs)) /\ Len(HerdSlugs) > 1
  /\ HerdStopMax \in Nat

Tasks == DOMAIN HerdSlugs
AgentIds == 1..Len(HerdSlugs)

VARIABLES
  herdKind,     \* "sequential", "parallel" or "supervisor"
  herdAt,       \* Delegate of each task: "waiting", "spawning", "sending", "collecting",
                \* "recording", "recorded"
  herdTold,     \* tasks whose output its prompt quotes
  herdChild,    \* the agent it has, 0 if none
  herdOut,      \* its output: "none", "empty" or "text"
  herdFailed,   \* tasks that ended with an error
  herdResults,  \* WorkflowResult.Results: tasks, 0 where parallel has none yet
  herdSpawned,  \* agents created: a sequence of slugs, an agent is its position
  herdMap,      \* Manager.agents
  herdLeaving,  \* agents StopAll has read and not shut down yet
  herdShut,     \* agents whose runner was shut down
  herdStops,    \* calls of Stop and StopAll so far
  herdRaced     \* slugs two tasks were spawning at once (history variable)

herdTaskVars == <<herdAt, herdTold, herdChild, herdOut, herdFailed>>
herdManagerVars == <<herdSpawned, herdMap, herdLeaving, herdShut, herdStops, herdRaced>>
herdVars == <<herdKind, herdTaskVars, herdResults, herdManagerVars>>

HerdInit ==
  /\ herdKind \in {"sequential", "parallel", "supervisor"}
  /\ herdAt = [i \in Tasks |-> "waiting"]
  /\ herdTold = [i \in Tasks |-> {}]
  /\ herdChild = [i \in Tasks |-> 0]
  /\ herdOut = [i \in Tasks |-> "none"]
  /\ herdFailed = {}
  /\ herdResults = IF herdKind = "parallel" THEN [i \in Tasks |-> 0] ELSE <<>>
  /\ herdSpawned = <<>>
  /\ herdMap = {}
  /\ herdLeaving = {}
  /\ herdShut = {}
  /\ herdStops = 0
  /\ herdRaced = {}

-----------------------------------------------------------------------------
(* WorkflowExecutor: when a task is delegated, and with what prompt. *)

Succeeded(i) == herdAt[i] = "recorded" /\ i \notin herdFailed

Due(i) ==
  CASE herdKind = "sequential" -> \A j \in 1..(i - 1) : Succeeded(j)
    [] herdKind = "parallel" -> TRUE
    [] herdKind = "supervisor" -> i > 1 => Succeeded(1)

\* An empty output is not passed on; the plan is, whatever it is.
Quoted(i) ==
  CASE herdKind = "sequential" -> IF i > 1 /\ herdOut[i - 1] = "text" THEN {i - 1} ELSE {}
    [] herdKind = "parallel" -> {}
    [] herdKind = "supervisor" -> {1} \ {i}

-----------------------------------------------------------------------------
(* MessageRouter.Delegate *)

HerdSet(f, i, v) == [f EXCEPT ![i] = v]
Of(slug) == {a \in herdMap : herdSpawned[a] = slug}

\* Fault: a child that runs is not found.
FindNone(slug) == {}

FindBySlug(slug) == Of(slug)

Racing(i) == \E j \in Tasks \ {i} : herdAt[j] = "spawning" /\ HerdSlugs[j] = HerdSlugs[i]

HerdDelegate(i) ==
  /\ herdAt[i] = "waiting"
  /\ Due(i)
  /\ herdTold' = HerdSet(herdTold, i, Quoted(i))
  /\ IF FindBySlug(HerdSlugs[i]) # {}
     THEN /\ \E a \in FindBySlug(HerdSlugs[i]) : herdChild' = HerdSet(herdChild, i, a)
          /\ herdAt' = HerdSet(herdAt, i, "sending")
          /\ UNCHANGED herdRaced
     ELSE /\ herdAt' = HerdSet(herdAt, i, "spawning")
          /\ herdRaced' = IF Racing(i) THEN herdRaced \union {HerdSlugs[i]} ELSE herdRaced
          /\ UNCHANGED herdChild
  /\ UNCHANGED <<herdKind, herdOut, herdFailed, herdResults, herdSpawned, herdMap, herdLeaving,
                 herdShut, herdStops>>

HerdFail(i) ==
  /\ herdFailed' = herdFailed \union {i}
  /\ herdAt' = HerdSet(herdAt, i, "recording")

\* Manager.Spawn holds the lock; the factory may fail.
HerdSpawn(i) ==
  /\ herdAt[i] = "spawning"
  /\ \/ /\ herdSpawned' = Append(herdSpawned, HerdSlugs[i])
        /\ herdMap' = herdMap \union {Len(herdSpawned) + 1}
        /\ herdChild' = HerdSet(herdChild, i, Len(herdSpawned) + 1)
        /\ herdAt' = HerdSet(herdAt, i, "sending")
        /\ UNCHANGED herdFailed
     \/ HerdFail(i) /\ UNCHANGED <<herdSpawned, herdMap, herdChild>>
  /\ UNCHANGED <<herdKind, herdTold, herdOut, herdResults, herdLeaving, herdShut, herdStops,
                 herdRaced>>

\* SendMessage: the handle is looked up again; ProcessMessage may refuse.
HerdSend(i) ==
  /\ herdAt[i] = "sending"
  /\ \/ herdChild[i] \in herdMap /\ herdAt' = HerdSet(herdAt, i, "collecting")
        /\ UNCHANGED herdFailed
     \/ HerdFail(i)
  /\ UNCHANGED <<herdKind, herdTold, herdChild, herdOut, herdResults, herdManagerVars>>

\* "done" or the end of the channel returns the text so far, "error" with an error;
\* Delegate returns no text with an error.
HerdCollect(i) ==
  /\ herdAt[i] = "collecting"
  /\ \/ /\ \E out \in {"empty", "text"} : herdOut' = HerdSet(herdOut, i, out)
        /\ herdAt' = HerdSet(herdAt, i, "recording")
        /\ UNCHANGED herdFailed
     \/ HerdFail(i) /\ UNCHANGED herdOut
  /\ UNCHANGED <<herdKind, herdTold, herdChild, herdResults, herdManagerVars>>

\* Fault: the goroutines share the loop's index, which has moved on.
LastIndex(i) == [herdResults EXCEPT ![Len(herdResults)] = i]

OwnIndex(i) == [herdResults EXCEPT ![i] = i]

\* Parallel fills the slot of the task, the others append; a supervisor that failed
\* leaves no result.
HerdRecord(i) ==
  /\ herdAt[i] = "recording"
  /\ herdAt' = HerdSet(herdAt, i, "recorded")
  /\ herdResults' =
       CASE herdKind = "parallel" -> OwnIndex(i)
         [] herdKind = "supervisor" /\ i = 1 /\ i \in herdFailed -> herdResults
         [] OTHER -> Append(herdResults, i)
  /\ UNCHANGED <<herdKind, herdTold, herdChild, herdOut, herdFailed, herdManagerVars>>

-----------------------------------------------------------------------------
(* Manager.Stop and StopAll *)

\* Stop holds the lock over the shutdown.
HerdStop(a) ==
  /\ herdStops < HerdStopMax
  /\ a \in herdMap
  /\ herdMap' = herdMap \ {a}
  /\ herdShut' = herdShut \union {a}
  /\ herdStops' = herdStops + 1
  /\ UNCHANGED <<herdKind, herdTaskVars, herdResults, herdSpawned, herdLeaving, herdRaced>>

\* The map is replaced under the lock the handles are read under.
HerdStopAll ==
  /\ herdStops < HerdStopMax
  /\ herdMap # {}
  /\ herdLeaving' = herdLeaving \union herdMap
  /\ herdMap' = {}
  /\ herdStops' = herdStops + 1
  /\ UNCHANGED <<herdKind, herdTaskVars, herdResults, herdSpawned, herdShut, herdRaced>>

\* Fault: the map is emptied after the shutdowns, with what was spawned meanwhile.
MapCleared(a) == herdMap' = IF herdLeaving = {a} THEN {} ELSE herdMap

MapKept(a) == UNCHANGED herdMap

HerdShutOne(a) ==
  /\ a \in herdLeaving
  /\ herdLeaving' = herdLeaving \ {a}
  /\ herdShut' = herdShut \union {a}
  /\ MapKept(a)
  /\ UNCHANGED <<herdKind, herdTaskVars, herdResults, herdSpawned, herdStops, herdRaced>>

HerdNext ==
  \/ \E i \in Tasks : \/ HerdDelegate(i) \/ HerdSpawn(i) \/ HerdSend(i) \/ HerdCollect(i)
                      \/ HerdRecord(i)
  \/ \E a \in AgentIds : HerdStop(a) \/ HerdShutOne(a)
  \/ HerdStopAll

HerdSpec == HerdInit /\ [][HerdNext]_herdVars

-----------------------------------------------------------------------------
(* Correctness *)

HerdTypeOK ==
  /\ herdKind \in {"sequential", "parallel", "supervisor"}
  /\ herdAt \in [Tasks -> {"waiting", "spawning", "sending", "collecting", "recording", "recorded"}]
  /\ herdTold \in [Tasks -> SUBSET Tasks]
  /\ herdChild \in [Tasks -> AgentIds \union {0}]
  /\ herdOut \in [Tasks -> {"none", "empty", "text"}]
  /\ herdFailed \subseteq Tasks
  /\ herdResults \in Seq(Tasks \union {0}) /\ Len(herdResults) <= Len(HerdSlugs)
  /\ herdSpawned \in Seq(ToSet(HerdSlugs)) /\ Len(herdSpawned) <= Len(HerdSlugs)
  /\ herdMap \union herdLeaving \union herdShut \subseteq AgentIds
  /\ herdStops \in 0..HerdStopMax
  /\ herdRaced \subseteq ToSet(HerdSlugs)

\* The executor returns: no task is under way and none will be started.
HerdOver == \A i \in Tasks : herdAt[i] = "recorded" \/ (herdAt[i] = "waiting" /\ ~Due(i))

\* What a workflow returns, however its delegations interleave with each other and with
\* Stop: in parallel, each task's result in its place; in sequence, results in order, up
\* to the first failure, each task told what its predecessor said; under a supervisor,
\* the plan first, then each worker once, told the plan (executeSequential,
\* executeParallel, executeSupervisor).
HerdResults ==
  HerdOver =>
    CASE herdKind = "parallel" -> herdResults = [i \in Tasks |-> i]
      [] herdKind = "sequential" ->
           /\ herdResults = [i \in 1..Len(herdResults) |-> i]
           /\ herdFailed \subseteq {Len(herdResults)}
           /\ herdFailed = {} => Len(herdResults) = Len(HerdSlugs)
           /\ \A i \in ToSet(herdResults) \ {1} :
                herdTold[i] = IF herdOut[i - 1] = "text" THEN {i - 1} ELSE {}
      [] herdKind = "supervisor" ->
           IF 1 \in herdFailed THEN herdResults = <<>>
           ELSE /\ Head(herdResults) = 1
                /\ ToSet(herdResults) = Tasks /\ Len(herdResults) = Len(HerdSlugs)
                /\ \A i \in Tasks \ {1} : herdTold[i] = {1}

\* A runner that was started is in the manager's map, where it can be found and stopped,
\* or is being stopped, or was shut down: none is lost when StopAll meets a Spawn.
HerdNoneLost == \A a \in DOMAIN herdSpawned : a \in herdMap \union herdLeaving \union herdShut

\* A parent has one child per slug, unless two delegations looked for it at once (Delegate).
HerdOneChild == \A s \in ToSet(HerdSlugs) \ herdRaced : Cardinality(Of(s)) <= 1

HerdChildren == HerdNoneLost /\ HerdOneChild
=============================================================================
