---------------------------- MODULE CronScheduler ----------------------------
(***************************************************************************)
(* Scheduled prompts (internal/lodge/drift): the cron_jobs table and the    *)
(* task queue in Redis are shared, and every replica of the gateway has a   *)
(* CronManager (an in-memory asynq scheduler and the map entryIDs, which no *)
(* lock guards) and a Worker of its own.  Admin calls are the cron handlers *)
(* of the gateway and the cron_create and cron_delete tools; each runs in a *)
(* goroutine of its own.  A crash loses what is in memory.  Two goroutines  *)
(* that touch entryIDs at the same time may also abort the process (Go's    *)
(* "concurrent map writes"): Crash covers that outcome.                     *)
(***************************************************************************)
EXTENDS Integers, FiniteSets

CONSTANTS
  Replicas,     \* gateway processes (deploy/k8s runs three)
  Jobs,         \* ids of cron_jobs rows
  Parses,       \* jobs whose cron expression the scheduler accepts
  Calls,        \* bound: admin calls, each made once
  JobOf,        \* the job each call is about
  TaskIDs,      \* bound: tasks in Redis at a time
  MaxRetry,     \* asynq's retry limit, 25 by default
  MaxCrashes,   \* bound
  Nowhere       \* no replica

ASSUME CronAssumption ==
  /\ IsFiniteSet(Jobs)
  /\ Parses \subseteq Jobs
  /\ JobOf \in [Calls -> Jobs]
  /\ MaxRetry \in Nat
  /\ MaxCrashes \in Nat
  /\ Nowhere \notin Replicas

VARIABLES
  row,          \* cron_jobs, "enabled" or "disabled"
  lastStatus,   \* cron_jobs.last_status
  up,           \* replicas that serve
  entries,      \* what each replica's scheduler fires
  entryIDs,     \* CronManager.entryIDs of each replica, 0: no such key
  lastID,       \* entry ids each replica's scheduler has given out
  stage,        \* the next step of each call
  at,           \* the replica that serves each call
  entry,        \* the entry id each call holds
  tasks,        \* the tasks in Redis
  crashes,      \* crashes so far
  changedAt,    \* the replica that last changed each row (history variable)
  overlapped,   \* <<replica, job>> whose calls overlapped (history variable)
  reenabled     \* <<replica, job>> enabled while it was scheduled (history variable)

dbVars == <<row, lastStatus>>
schedVars == <<entries, entryIDs, lastID>>
callVars == <<stage, at, entry>>
history == <<changedAt, overlapped, reenabled>>
vars == <<dbVars, up, schedVars, callVars, tasks, crashes, history>>

Ops == {"create", "enable", "disable", "delete"}

Entry == [id : Nat, job : Jobs]

Task == [id : TaskIDs, job : Jobs, tries : 0..MaxRetry,
         state : {"queued", "running", "succeeded", "failed"},
         on : Replicas \cup {Nowhere}]

Init ==
  /\ row \in [Jobs -> {"absent", "enabled"}]
  /\ lastStatus = [j \in Jobs |-> "none"]
  /\ up = {}
  /\ entries = [r \in Replicas |-> {}]
  /\ entryIDs = [r \in Replicas |-> [j \in Jobs |-> 0]]
  /\ lastID = [r \in Replicas |-> 0]
  /\ stage = [c \in Calls |-> "unsent"]
  /\ at = [c \in Calls |-> Nowhere]
  /\ entry = [c \in Calls |-> 0]
  /\ tasks = {}
  /\ crashes = 0
  /\ changedAt = [j \in Jobs |-> Nowhere]
  /\ overlapped = {}
  /\ reenabled = {}

-----------------------------------------------------------------------------
(* A replica starts and stops *)

\* LoadAndSchedule: rows that do not parse are only logged, and so are rows that
\* the query fails to bring.  NewServer runs it before the replica serves.
Boot(r) ==
  /\ r \notin up
  /\ up' = up \cup {r}
  /\ \E loaded \in SUBSET {j \in Parses : row[j] = "enabled"} :
     \E id \in [loaded -> lastID[r] + 1 .. lastID[r] + Cardinality(loaded)] :
       /\ \A i, j \in loaded : id[i] = id[j] => i = j
       /\ entries' = [entries EXCEPT ![r] = {[id |-> id[j], job |-> j] : j \in loaded}]
       /\ entryIDs' = [entryIDs EXCEPT ![r] =
                        [j \in Jobs |-> IF j \in loaded THEN id[j] ELSE 0]]
       /\ lastID' = [lastID EXCEPT ![r] = @ + Cardinality(loaded)]
  /\ UNCHANGED <<dbVars, callVars, tasks, crashes, history>>

Active(c) == stage[c] \notin {"unsent", "returned"}

Pending(r, j) == {c \in Calls : Active(c) /\ at[c] = r /\ JobOf[c] = j}

\* Fault: a recovered task is always put back.
RecoveredAlways(r) ==
  {t \in tasks : t.on # r} \cup
  {[t EXCEPT !.state = "queued", !.on = Nowhere, !.tries = @ + 1] :
     t \in {x \in tasks : x.on = r}}

\* asynq hands a task whose worker is gone to another one, as a retry.
Recovered(r) ==
  {t \in tasks : t.on # r} \cup
  {[t EXCEPT !.state = "queued", !.on = Nowhere, !.tries = @ + 1] :
     t \in {x \in tasks : x.on = r /\ x.tries < MaxRetry}}

Crash(r) ==
  /\ r \in up
  /\ crashes < MaxCrashes
  /\ crashes' = crashes + 1
  /\ up' = up \ {r}
  /\ entries' = [entries EXCEPT ![r] = {}]
  /\ entryIDs' = [entryIDs EXCEPT ![r] = [j \in Jobs |-> 0]]
  /\ stage' = [c \in Calls |-> IF Active(c) /\ at[c] = r THEN "returned" ELSE stage[c]]
  /\ tasks' = Recovered(r)
  /\ overlapped' = {d \in overlapped : d[1] # r}
  /\ reenabled' = {d \in reenabled : d[1] # r}
  /\ UNCHANGED <<dbVars, lastID, at, entry, changedAt>>

-----------------------------------------------------------------------------
(* Admin calls *)

\* Fault: the handler deletes the row and forgets the scheduler.
ThenReturn(op) ==
  CASE op = "create" -> "registering"
    [] op = "enable" -> "rereading"
    [] op = "disable" -> "looking_up"
    [] op = "delete" -> "returned"

Then(op) ==
  CASE op = "create" -> "registering"
    [] op = "enable" -> "rereading"
    [] op \in {"disable", "delete"} -> "looking_up"

RowAfter(op) ==
  CASE op \in {"create", "enable"} -> "enabled"
    [] op = "disable" -> "disabled"
    [] op = "delete" -> "deleted"

\* The statement every call begins with: INSERT, UPDATE or DELETE.  A call that
\* changes no row ends there (404).
Change(c, r, op) ==
  LET j == JobOf[c] IN
  /\ r \in up /\ stage[c] = "unsent"
  /\ row[j] \in (IF op = "create" THEN {"absent"} ELSE {"enabled", "disabled"})
  /\ row' = [row EXCEPT ![j] = RowAfter(op)]
  /\ stage' = [stage EXCEPT ![c] = Then(op)]
  /\ at' = [at EXCEPT ![c] = r]
  /\ changedAt' = [changedAt EXCEPT ![j] = r]
  /\ overlapped' = IF Pending(r, j) = {} THEN overlapped ELSE overlapped \cup {<<r, j>>}
  /\ UNCHANGED <<lastStatus, up, schedVars, entry, tasks, crashes, reenabled>>

\* Enabling reads the row again: it may be gone, or the query fails; whether it is
\* still enabled is not looked at.
Reread(c) ==
  /\ stage[c] = "rereading"
  /\ \/ row[JobOf[c]] # "deleted" /\ stage' = [stage EXCEPT ![c] = "registering"]
     \/ stage' = [stage EXCEPT ![c] = "returned"]
  /\ UNCHANGED <<dbVars, up, schedVars, at, entry, tasks, crashes, history>>

\* scheduler.Register; that it failed is logged or ignored.
RegisterEntry(c) ==
  LET r == at[c]
      id == lastID[r] + 1
  IN  /\ stage[c] = "registering"
      /\ IF JobOf[c] \in Parses
           THEN /\ entries' = [entries EXCEPT ![r] = @ \cup {[id |-> id, job |-> JobOf[c]]}]
                /\ lastID' = [lastID EXCEPT ![r] = id]
                /\ entry' = [entry EXCEPT ![c] = id]
                /\ stage' = [stage EXCEPT ![c] = "mapping"]
                /\ reenabled' = IF entryIDs[r][JobOf[c]] = 0 THEN reenabled
                                ELSE reenabled \cup {<<r, JobOf[c]>>}
           ELSE /\ stage' = [stage EXCEPT ![c] = "returned"]
                /\ UNCHANGED <<entries, lastID, entry, reenabled>>
      /\ UNCHANGED <<dbVars, up, entryIDs, at, tasks, crashes, changedAt, overlapped>>

\* Fault: the entry id is lost.
ForgetEntry(c) ==
  /\ stage[c] = "mapping"
  /\ stage' = [stage EXCEPT ![c] = "returned"]
  /\ UNCHANGED <<dbVars, up, schedVars, at, entry, tasks, crashes, history>>

\* entryIDs[job.ID] = entryID, whatever was there.
MapEntry(c) ==
  /\ stage[c] = "mapping"
  /\ entryIDs' = [entryIDs EXCEPT ![at[c]][JobOf[c]] = entry[c]]
  /\ stage' = [stage EXCEPT ![c] = "returned"]
  /\ UNCHANGED <<dbVars, up, entries, lastID, at, entry, tasks, crashes, history>>

LookUp(c) ==
  LET id == entryIDs[at[c]][JobOf[c]] IN
  /\ stage[c] = "looking_up"
  /\ entry' = [entry EXCEPT ![c] = id]
  /\ stage' = [stage EXCEPT ![c] = IF id = 0 THEN "returned" ELSE "unregistering"]
  /\ UNCHANGED <<dbVars, up, schedVars, at, tasks, crashes, history>>

\* Fault: the key is not deleted.
KeepKey(c) ==
  LET r == at[c] IN
  /\ stage[c] = "unregistering"
  /\ entries' = [entries EXCEPT ![r] = {e \in @ : e.id # entry[c]}]
  /\ stage' = [stage EXCEPT ![c] = "returned"]
  /\ UNCHANGED <<dbVars, up, entryIDs, lastID, at, entry, tasks, crashes, history>>

\* scheduler.Unregister, which fails when the entry is gone.
Unregister(c) ==
  LET r == at[c] IN
  /\ stage[c] = "unregistering"
  /\ entries' = [entries EXCEPT ![r] = {e \in @ : e.id # entry[c]}]
  /\ stage' = [stage EXCEPT ![c] =
       IF \E e \in entries[r] : e.id = entry[c] THEN "unmapping" ELSE "returned"]
  /\ UNCHANGED <<dbVars, up, entryIDs, lastID, at, entry, tasks, crashes, history>>

\* delete(m.entryIDs, jobID), whatever is there by now.
Unmap(c) ==
  /\ stage[c] = "unmapping"
  /\ entryIDs' = [entryIDs EXCEPT ![at[c]][JobOf[c]] = 0]
  /\ stage' = [stage EXCEPT ![c] = "returned"]
  /\ UNCHANGED <<dbVars, up, entries, lastID, at, entry, tasks, crashes, history>>

Proceed(c) ==
  \/ Reread(c) \/ RegisterEntry(c) \/ MapEntry(c)
  \/ LookUp(c) \/ Unregister(c) \/ Unmap(c)

-----------------------------------------------------------------------------
(* Tasks *)

Replace(old, new) == tasks' = (tasks \ {old}) \cup {new}

\* The scheduler enqueues a task at each tick of an entry.
Fire(r, e) ==
  /\ r \in up /\ e \in entries[r]
  /\ \E id \in TaskIDs :
       /\ \A t \in tasks : t.id # id
       /\ tasks' = tasks \cup {[id |-> id, job |-> e.job, tries |-> 0,
                                state |-> "queued", on |-> Nowhere]}
  /\ UNCHANGED <<dbVars, up, schedVars, callVars, crashes, history>>

\* Fault: a task of a job that is not enabled stays in the queue.
TakeEnabled(r, t) ==
  /\ r \in up /\ t.state = "queued" /\ row[t.job] = "enabled"
  /\ Replace(t, [t EXCEPT !.state = "running", !.on = r])
  /\ UNCHANGED <<dbVars, up, schedVars, callVars, crashes, history>>

\* The worker does not look at the row: the prompt is in the payload.
Take(r, t) ==
  /\ r \in up /\ t.state = "queued"
  /\ Replace(t, [t EXCEPT !.state = "running", !.on = r])
  /\ UNCHANGED <<dbVars, up, schedVars, callVars, crashes, history>>

\* handleCronExecute's ExecutePrompt: a turn of session cron:<job> (module Pipeline).
ExecutePrompt(t) ==
  /\ t.state = "running"
  /\ \E outcome \in {"succeeded", "failed"} : Replace(t, [t EXCEPT !.state = outcome])
  /\ UNCHANGED <<dbVars, up, schedVars, callVars, crashes, history>>

\* asynq puts a failed task back until its retries are used up.
Retried(t) ==
  IF t.tries < MaxRetry
    THEN {[t EXCEPT !.state = "queued", !.on = Nowhere, !.tries = @ + 1]} ELSE {}

\* updateCronJobRun, whose failure is only logged, then the handler's result.
Finish(t) ==
  /\ t.state \in {"succeeded", "failed"}
  /\ \/ /\ row[t.job] # "deleted"
        /\ lastStatus' = [lastStatus EXCEPT ![t.job] = t.state]
     \/ UNCHANGED lastStatus
  /\ tasks' = (tasks \ {t}) \cup (IF t.state = "failed" THEN Retried(t) ELSE {})
  /\ UNCHANGED <<row, up, schedVars, callVars, crashes, history>>

Work(t) == (\E r \in Replicas : Take(r, t)) \/ ExecutePrompt(t) \/ Finish(t)

-----------------------------------------------------------------------------
Next ==
  \/ \E r \in Replicas : Boot(r) \/ Crash(r) \/ (\E e \in entries[r] : Fire(r, e))
  \/ \E c \in Calls : Proceed(c) \/ (\E r \in Replicas, op \in Ops : Change(c, r, op))
  \/ \E t \in tasks : Work(t)

\* A replica that is down is restarted, goroutines are scheduled, and workers take
\* tasks and finish turns (module Pipeline, TurnLiveness).  Ticks may be missed.
Spec ==
  /\ Init /\ [][Next]_vars
  /\ \A r \in Replicas : WF_vars(Boot(r))
  /\ \A c \in Calls : WF_vars(Proceed(c))
  /\ \A id \in TaskIDs : WF_vars(\E t \in tasks : t.id = id /\ Work(t))

-----------------------------------------------------------------------------
TypeOK ==
  /\ row \in [Jobs -> {"absent", "enabled", "disabled", "deleted"}]
  /\ lastStatus \in [Jobs -> {"none", "succeeded", "failed"}]
  /\ up \subseteq Replicas
  /\ entries \in [Replicas -> SUBSET Entry]
  /\ entryIDs \in [Replicas -> [Jobs -> Nat]]
  /\ lastID \in [Replicas -> Nat]
  /\ stage \in [Calls -> {"unsent", "rereading", "registering", "mapping", "looking_up",
                          "unregistering", "unmapping", "returned"}]
  /\ at \in [Calls -> Replicas \cup {Nowhere}]
  /\ entry \in [Calls -> Nat]
  /\ tasks \subseteq Task
  /\ crashes \in 0..MaxCrashes
  /\ changedAt \in [Jobs -> Replicas \cup {Nowhere}]
  /\ overlapped \subseteq Replicas \X Jobs
  /\ reenabled \subseteq Replicas \X Jobs

EntriesOf(r, j) == {e \in entries[r] : e.job = j}

\* A key of entryIDs names an entry of its job that the scheduler has, except
\* between Unregister and delete of an UnscheduleJob, however calls overlap:
\* the entry the map knows can always be unregistered.
MappedEntryLive == \A r \in Replicas, j \in Jobs : entryIDs[r][j] # 0 =>
  \/ [id |-> entryIDs[r][j], job |-> j] \in entries[r]
  \/ \E c \in Pending(r, j) : stage[c] = "unmapping" /\ entry[c] = entryIDs[r][j]

Disturbed(r, j) == <<r, j>> \in overlapped \cup reenabled

\* A replica whose calls about a job did not overlap, and that did not enable it
\* while it was scheduled, fires it from one entry (ScheduleJob registers before
\* it writes the map).
OneEntryUnlessDisturbed == \A r \in Replicas, j \in Jobs :
  ~Disturbed(r, j) => \A d, e \in EntriesOf(r, j) : d = e

\* The replica was the last to change the row, disabled or deleted it, and answered.
Stopped(r, j) ==
  /\ row[j] \in {"disabled", "deleted"}
  /\ changedAt[j] = r
  /\ Pending(r, j) = {}

\* Such a replica fires a job no more once it has disabled or deleted it and answered
\* (handleUpdateCronJob, handleDeleteCronJob, UnscheduleJob), whatever failed or
\* crashed before.
StopsUnlessDisturbed == \A r \in Replicas, j \in Jobs :
  Stopped(r, j) /\ ~Disturbed(r, j) => EntriesOf(r, j) = {}

\* A replica fires a job no more once it has disabled or deleted it and answered, when
\* the calls about the job come one after the other ("UnscheduleJob removes a cron
\* job from the scheduler").
Stops == \A r \in Replicas, j \in Jobs :
  Stopped(r, j) /\ <<r, j>> \notin overlapped => EntriesOf(r, j) = {}

\* Every task leaves the queue: its turn succeeds or its retries are used up,
\* whatever becomes of the job's row and of the replica that runs it.
TasksEnd == \A id \in TaskIDs :
  (\E t \in tasks : t.id = id) ~> ~(\E t \in tasks : t.id = id)
=============================================================================
