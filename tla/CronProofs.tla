----------------------------- MODULE CronProofs -----------------------------
(***************************************************************************)
(* Theorems about module CronScheduler: any number of replicas, jobs and    *)
(* calls, however they overlap, and any number of crashes.                  *)
(***************************************************************************)
EXTENDS CronScheduler, FiniteSetTheorems, TLAPS

-----------------------------------------------------------------------------
(* Type correctness *)

LEMMA LoadedFinite ==
  ASSUME NEW loaded \in SUBSET Jobs
  PROVE  Cardinality(loaded) \in Nat
BY CronAssumption, FS_Subset, FS_CardinalityType

\* What Boot does with the rows it has loaded.
Loads(r, loaded) ==
  \E id \in [loaded -> lastID[r] + 1 .. lastID[r] + Cardinality(loaded)] :
    /\ \A i, j \in loaded : id[i] = id[j] => i = j
    /\ entries' = [entries EXCEPT ![r] = {[id |-> id[j], job |-> j] : j \in loaded}]
    /\ entryIDs' = [entryIDs EXCEPT ![r] =
                     [j \in Jobs |-> IF j \in loaded THEN id[j] ELSE 0]]
    /\ lastID' = [lastID EXCEPT ![r] = @ + Cardinality(loaded)]

LEMMA RetriedType ==
  ASSUME NEW t \in Task, t.tries < MaxRetry
  PROVE  [t EXCEPT !.state = "queued", !.on = Nowhere, !.tries = @ + 1] \in Task
<1>1. t.tries \in 0..MaxRetry /\ MaxRetry \in Nat
  BY CronAssumption DEF Task
<1>2. t.tries + 1 \in 0..MaxRetry
  BY <1>1
<1> QED BY <1>1, <1>2 DEF Task

\* A call that is being served has a replica.
Placed == \A c \in Calls : Active(c) => at[c] \in Replicas

TypeInv == TypeOK /\ Placed

LEMMA TypeInit == Init => TypeInv
BY CronAssumption DEF Init, TypeInv, TypeOK, Placed, Active

LEMMA PlacedStep == TypeInv /\ [Next]_vars => Placed'
<1> SUFFICES ASSUME TypeOK, Placed, [Next]_vars PROVE Placed'
  BY DEF TypeInv
<1> USE DEF dbVars, schedVars, callVars, history, Placed, Active, TypeOK
<1>1. ASSUME NEW r \in Replicas, Boot(r) PROVE Placed'
  BY <1>1 DEF Boot
<1>2. ASSUME NEW r \in Replicas, Crash(r) PROVE Placed'
  BY <1>2 DEF Crash
<1>3. ASSUME NEW r \in Replicas, NEW e \in entries[r], Fire(r, e) PROVE Placed'
  BY <1>3 DEF Fire
<1>4. ASSUME NEW c \in Calls, NEW r \in Replicas, NEW op \in Ops, Change(c, r, op) PROVE Placed'
  BY <1>4 DEF Change
<1>5. ASSUME NEW c \in Calls, Proceed(c) PROVE Placed'
  <2>1. at' = at /\ \A d \in Calls \ {c} : stage'[d] = stage[d]
    BY <1>5 DEF Proceed, Reread, RegisterEntry, MapEntry, LookUp, Unregister, Unmap
  <2>2. Active(c)
    BY <1>5 DEF Proceed, Reread, RegisterEntry, MapEntry, LookUp, Unregister, Unmap
  <2> QED BY <2>1, <2>2
<1>6. ASSUME NEW t \in tasks, Work(t) PROVE Placed'
  BY <1>6 DEF Work, Take, ExecutePrompt, Finish
<1>7. CASE UNCHANGED vars
  BY <1>7 DEF vars
<1> QED BY <1>1, <1>2, <1>3, <1>4, <1>5, <1>6, <1>7 DEF Next

LEMMA TypeStep == TypeInv /\ [Next]_vars => TypeInv'
<1> SUFFICES ASSUME TypeOK, Placed, [Next]_vars PROVE TypeOK'
  BY PlacedStep DEF TypeInv
<1> USE DEF dbVars, schedVars, callVars, history
<1>1. ASSUME NEW r \in Replicas, Boot(r) PROVE TypeOK'
  <2>0. PICK loaded \in SUBSET {j \in Parses : row[j] = "enabled"} : Loads(r, loaded)
    BY <1>1 DEF Boot, Loads
  <2>1. PICK id \in [loaded -> lastID[r] + 1 .. lastID[r] + Cardinality(loaded)] :
          /\ entries' = [entries EXCEPT ![r] = {[id |-> id[j], job |-> j] : j \in loaded}]
          /\ entryIDs' = [entryIDs EXCEPT ![r] =
                           [j \in Jobs |-> IF j \in loaded THEN id[j] ELSE 0]]
          /\ lastID' = [lastID EXCEPT ![r] = @ + Cardinality(loaded)]
    BY <2>0 DEF Loads
  <2>2. loaded \subseteq Jobs /\ Cardinality(loaded) \in Nat
    BY LoadedFinite, CronAssumption
  <2>3. lastID[r] \in Nat
    BY DEF TypeOK
  <2>4. \A j \in loaded : id[j] \in Nat
    BY <2>2, <2>3
  <2>5. {[id |-> id[j], job |-> j] : j \in loaded} \in SUBSET Entry
    BY <2>2, <2>4 DEF Entry
  <2>6. [j \in Jobs |-> IF j \in loaded THEN id[j] ELSE 0] \in [Jobs -> Nat]
    BY <2>4
  <2>7. /\ entries' \in [Replicas -> SUBSET Entry]
        /\ entryIDs' \in [Replicas -> [Jobs -> Nat]]
        /\ lastID' \in [Replicas -> Nat]
    BY <2>1, <2>2, <2>3, <2>5, <2>6 DEF TypeOK
  <2> QED BY <1>1, <2>7 DEF Boot, TypeOK
<1>2. ASSUME NEW r \in Replicas, Crash(r) PROVE TypeOK'
  <2>1. tasks' \subseteq Task
    <3>1. tasks \subseteq Task /\ tasks' = Recovered(r)
      BY <1>2 DEF Crash, TypeOK
    <3>2. ASSUME NEW t \in tasks, t.tries < MaxRetry
          PROVE  [t EXCEPT !.state = "queued", !.on = Nowhere, !.tries = @ + 1] \in Task
      BY <3>1, <3>2, RetriedType
    <3> QED BY <3>1, <3>2 DEF Recovered
  <2>2. stage' \in [Calls -> {"unsent", "rereading", "registering", "mapping", "looking_up",
                              "unregistering", "unmapping", "returned"}]
    BY <1>2 DEF Crash, TypeOK
  <2>3. /\ entries' \in [Replicas -> SUBSET Entry]
        /\ entryIDs' \in [Replicas -> [Jobs -> Nat]]
    BY <1>2 DEF Crash, TypeOK
  <2>4. up' \subseteq Replicas /\ crashes' \in 0..MaxCrashes
    BY <1>2, CronAssumption DEF Crash, TypeOK
  <2>5. overlapped' \subseteq Replicas \X Jobs /\ reenabled' \subseteq Replicas \X Jobs
    BY <1>2 DEF Crash, TypeOK
  <2> QED BY <1>2, <2>1, <2>2, <2>3, <2>4, <2>5 DEF Crash, TypeOK
<1>3. ASSUME NEW r \in Replicas, NEW e \in entries[r], Fire(r, e) PROVE TypeOK'
  <2>1. tasks' \subseteq Task
    BY <1>3, CronAssumption DEF Fire, TypeOK, Entry, Task
  <2> QED BY <1>3, <2>1 DEF Fire, TypeOK
<1>4. ASSUME NEW c \in Calls, NEW r \in Replicas, NEW op \in Ops, Change(c, r, op) PROVE TypeOK'
  <2>1. JobOf[c] \in Jobs
    BY CronAssumption
  <2>2. /\ row' \in [Jobs -> {"absent", "enabled", "disabled", "deleted"}]
        /\ stage' \in [Calls -> {"unsent", "rereading", "registering", "mapping", "looking_up",
                                 "unregistering", "unmapping", "returned"}]
    BY <1>4, <2>1 DEF Change, TypeOK, RowAfter, Then, Ops
  <2>3. /\ at' \in [Calls -> Replicas \cup {Nowhere}]
        /\ changedAt' \in [Jobs -> Replicas \cup {Nowhere}]
        /\ overlapped' \subseteq Replicas \X Jobs
    BY <1>4, <2>1 DEF Change, TypeOK
  <2> QED BY <1>4, <2>2, <2>3 DEF Change, TypeOK
<1>5. ASSUME NEW c \in Calls, Reread(c) PROVE TypeOK'
  BY <1>5 DEF Reread, TypeOK
<1>6. ASSUME NEW c \in Calls, RegisterEntry(c) PROVE TypeOK'
  <2>1. at[c] \in Replicas /\ JobOf[c] \in Jobs
    BY <1>6, CronAssumption DEF RegisterEntry, Placed, Active
  <2>2. lastID[at[c]] + 1 \in Nat
    BY <2>1 DEF TypeOK
  <2>3. entries' \in [Replicas -> SUBSET Entry]
    BY <1>6, <2>1, <2>2 DEF RegisterEntry, TypeOK, Entry
  <2>4. /\ lastID' \in [Replicas -> Nat] /\ entry' \in [Calls -> Nat]
        /\ reenabled' \subseteq Replicas \X Jobs
    BY <1>6, <2>1, <2>2 DEF RegisterEntry, TypeOK
  <2>5. stage' \in [Calls -> {"unsent", "rereading", "registering", "mapping", "looking_up",
                              "unregistering", "unmapping", "returned"}]
    BY <1>6 DEF RegisterEntry, TypeOK
  <2> QED BY <1>6, <2>3, <2>4, <2>5 DEF RegisterEntry, TypeOK
<1>7. ASSUME NEW c \in Calls, MapEntry(c) PROVE TypeOK'
  BY <1>7, CronAssumption DEF MapEntry, TypeOK
<1>8. ASSUME NEW c \in Calls, LookUp(c) PROVE TypeOK'
  <2>1. at[c] \in Replicas /\ JobOf[c] \in Jobs
    BY <1>8, CronAssumption DEF LookUp, Placed, Active
  <2> QED BY <1>8, <2>1, SMTT(30) DEF LookUp, TypeOK
<1>9. ASSUME NEW c \in Calls, Unregister(c) PROVE TypeOK'
  BY <1>9, CronAssumption DEF Unregister, TypeOK
<1>10. ASSUME NEW c \in Calls, Unmap(c) PROVE TypeOK'
  BY <1>10, CronAssumption DEF Unmap, TypeOK
<1>11. ASSUME NEW t \in tasks, Work(t) PROVE TypeOK'
  <2>1. t \in Task
    BY DEF TypeOK
  <2>2. CASE \E r \in Replicas : Take(r, t)
    <3>1. PICK r \in Replicas : Take(r, t)
      BY <2>2
    <3>2. [t EXCEPT !.state = "running", !.on = r] \in Task
      BY <2>1 DEF Task
    <3>3. tasks' \subseteq Task
      BY <3>1, <3>2 DEF Take, Replace, TypeOK
    <3> QED BY <3>1, <3>3 DEF Take, TypeOK, dbVars, schedVars, callVars, history
  <2>3. CASE ExecutePrompt(t)
    BY <2>1, <2>3 DEF ExecutePrompt, Replace, TypeOK, Task
  <2>4. CASE Finish(t)
    <3>1. tasks' \subseteq Task
      BY <2>1, <2>4, RetriedType DEF Finish, Retried, TypeOK
    <3>2. lastStatus' \in [Jobs -> {"none", "succeeded", "failed"}]
      BY <2>4 DEF Finish, TypeOK
    <3> QED BY <2>4, <3>1, <3>2 DEF Finish, TypeOK
  <2> QED BY <1>11, <2>2, <2>3, <2>4 DEF Work
<1>12. CASE UNCHANGED vars
  BY <1>12 DEF vars, TypeOK
<1> QED BY <1>1, <1>2, <1>3, <1>4, <1>5, <1>6, <1>7, <1>8, <1>9, <1>10, <1>11, <1>12
  DEF Next, Proceed

\* Every reachable state of the table, the schedulers, the calls and the queue is
\* well typed (internal/lodge/drift).
THEOREM TypeCorrect == Spec => []TypeOK
<1>1. Init => TypeInv
  BY TypeInit
<1>2. TypeInv /\ [Next]_vars => TypeInv'
  BY TypeStep
<1>3. TypeInv => TypeOK
  BY DEF TypeInv
<1> QED BY <1>1, <1>2, <1>3, PTL DEF Spec

-----------------------------------------------------------------------------
(* The inductive invariant: who may hold which entry id *)

Holds(c) == stage[c] \in {"mapping", "unregistering", "unmapping"}

\* Nothing in memory names an id the scheduler has not given out.
IdsGiven ==
  /\ \A r \in Replicas : \A e \in entries[r] : e.id \in 1..lastID[r]
  /\ \A r \in Replicas, j \in Jobs : entryIDs[r][j] <= lastID[r]
  /\ \A c \in Calls : Holds(c) => entry[c] \in 1..lastID[at[c]]

UniqueIds == \A r \in Replicas : \A d, e \in entries[r] : d.id = e.id => d = e

DistinctKeys == \A r \in Replicas, j, k \in Jobs :
  entryIDs[r][j] # 0 /\ entryIDs[r][j] = entryIDs[r][k] => j = k

\* A replica that is down has nothing in memory and serves no call.
DownIsEmpty ==
  /\ \A r \in Replicas \ up : entries[r] = {} /\ \A j \in Jobs : entryIDs[r][j] = 0
  /\ \A c \in Calls : Active(c) => at[c] \in up

\* The entry a call is about to map is registered and nobody else knows its id.
MappingOwns == \A c \in Calls : stage[c] = "mapping" =>
  /\ [id |-> entry[c], job |-> JobOf[c]] \in entries[at[c]]
  /\ \A j \in Jobs : entryIDs[at[c]][j] # entry[c]
  /\ \A d \in Calls : Holds(d) /\ at[d] = at[c] /\ entry[d] = entry[c] => d = c

\* The id a call removes belongs to its job: no other key and no other entry has it.
RemovesOwn == \A c \in Calls : stage[c] \in {"unregistering", "unmapping"} =>
  /\ \A j \in Jobs : entryIDs[at[c]][j] = entry[c] => j = JobOf[c]
  /\ \A e \in entries[at[c]] : e.id = entry[c] => e.job = JobOf[c]

MapRest ==
  /\ IdsGiven /\ UniqueIds /\ DistinctKeys /\ DownIsEmpty
  /\ MappingOwns /\ RemovesOwn /\ MappedEntryLive

MapInv == TypeInv /\ MapRest

LEMMA MapInit == Init => MapInv
<1> SUFFICES ASSUME Init PROVE MapRest
  BY TypeInit DEF MapInv
<1>1. IdsGiven /\ UniqueIds /\ DistinctKeys
  BY DEF Init, IdsGiven, Holds, UniqueIds, DistinctKeys
<1>2. DownIsEmpty /\ MappingOwns /\ RemovesOwn /\ MappedEntryLive
  BY DEF Init, DownIsEmpty, Active, MappingOwns, RemovesOwn, MappedEntryLive
<1> QED BY <1>1, <1>2 DEF MapRest

\* A step that leaves the schedulers alone, and in which no call comes to hold an id.
LEMMA MapQuiet ==
  ASSUME MapInv, UNCHANGED <<schedVars, up>>,
         \A c \in Calls : Active(c)' => at'[c] \in up,
         \A c \in Calls : Holds(c) \/ Holds(c)' => UNCHANGED <<stage[c], at[c], entry[c]>>
  PROVE  MapRest'
<1> USE DEF MapInv, MapRest, schedVars
<1>1. IdsGiven'
  BY DEF IdsGiven, Holds
<1>2. UniqueIds' /\ DistinctKeys' /\ DownIsEmpty'
  BY DEF UniqueIds, DistinctKeys, DownIsEmpty
<1>3. MappingOwns'
  BY DEF MappingOwns, Holds
<1>4. RemovesOwn'
  BY DEF RemovesOwn, Holds
<1>5. MappedEntryLive'
  BY DEF MappedEntryLive, Holds, Pending, Active
<1> QED BY <1>1, <1>2, <1>3, <1>4, <1>5

LEMMA MapBoot ==
  ASSUME MapInv, NEW r \in Replicas, Boot(r)
  PROVE  MapRest'
<1> USE DEF MapInv, MapRest, callVars
<1>1. PICK loaded \in SUBSET {j \in Parses : row[j] = "enabled"} : Loads(r, loaded)
  BY DEF Boot, Loads
<1>2. PICK id \in [loaded -> lastID[r] + 1 .. lastID[r] + Cardinality(loaded)] :
        /\ \A i, j \in loaded : id[i] = id[j] => i = j
        /\ entries' = [entries EXCEPT ![r] = {[id |-> id[j], job |-> j] : j \in loaded}]
        /\ entryIDs' = [entryIDs EXCEPT ![r] =
                         [j \in Jobs |-> IF j \in loaded THEN id[j] ELSE 0]]
        /\ lastID' = [lastID EXCEPT ![r] = @ + Cardinality(loaded)]
  BY <1>1 DEF Loads
<1>3. /\ loaded \subseteq Jobs /\ Cardinality(loaded) \in Nat /\ lastID[r] \in Nat
  BY LoadedFinite, CronAssumption DEF TypeInv, TypeOK
<1>4. \A j \in loaded : id[j] \in 1..lastID'[r]
  BY <1>2, <1>3 DEF TypeInv, TypeOK
<1>5. \A q \in Replicas \ {r} :
        UNCHANGED <<entries[q], entryIDs[q], lastID[q]>>
  BY <1>2 DEF TypeInv, TypeOK
<1>6. /\ entries'[r] = {[id |-> id[j], job |-> j] : j \in loaded}
      /\ entryIDs'[r] = [j \in Jobs |-> IF j \in loaded THEN id[j] ELSE 0]
  BY <1>2 DEF TypeInv, TypeOK
<1>7. r \notin up /\ up' = up \cup {r} /\ UNCHANGED <<stage, at, entry>>
  BY DEF Boot
<1>8. \A c \in Calls : Active(c) => at[c] # r /\ at[c] \in Replicas
  BY <1>7 DEF DownIsEmpty, TypeInv, Placed
<1>9. \A c \in Calls : Holds(c) => Active(c)
  BY DEF Holds, Active
<1>10. IdsGiven'
  <2>1. \A q \in Replicas : \A e \in entries'[q] : e.id \in 1..lastID'[q]
    BY <1>4, <1>5, <1>6 DEF IdsGiven
  <2>2. \A q \in Replicas, j \in Jobs : entryIDs'[q][j] <= lastID'[q]
    <3>1. \A j \in Jobs : entryIDs'[r][j] <= lastID'[r]
      BY <1>4, <1>6, <1>2, <1>3 DEF TypeInv, TypeOK
    <3> QED BY <3>1, <1>5 DEF IdsGiven
  <2>3. \A c \in Calls : Holds(c)' => entry'[c] \in 1..lastID'[at'[c]]
    BY <1>5, <1>7, <1>8, <1>9 DEF IdsGiven, Holds
  <2> QED BY <2>1, <2>2, <2>3 DEF IdsGiven
<1>11. UniqueIds'
  BY <1>2, <1>5, <1>6 DEF UniqueIds
<1>12. DistinctKeys'
  BY <1>2, <1>5, <1>6 DEF DistinctKeys
<1>13. DownIsEmpty'
  BY <1>5, <1>7 DEF DownIsEmpty, Active
<1>14. MappingOwns'
  BY <1>5, <1>7, <1>8, <1>9 DEF MappingOwns, Holds
<1>15. RemovesOwn'
  BY <1>5, <1>7, <1>8, <1>9 DEF RemovesOwn, Holds
<1>16. MappedEntryLive'
  <2>1. \A j \in Jobs : entryIDs'[r][j] # 0 => [id |-> entryIDs'[r][j], job |-> j] \in entries'[r]
    BY <1>6
  <2> QED BY <2>1, <1>5, <1>7 DEF MappedEntryLive, Pending, Active
<1> QED BY <1>10, <1>11, <1>12, <1>13, <1>14, <1>15, <1>16

LEMMA MapCrash ==
  ASSUME MapInv, NEW r \in Replicas, Crash(r)
  PROVE  MapRest'
<1> USE DEF MapInv, MapRest
<1>1. \A q \in Replicas \ {r} : UNCHANGED <<entries[q], entryIDs[q], lastID[q]>>
  BY DEF Crash, TypeInv, TypeOK
<1>2. entries'[r] = {} /\ lastID' = lastID /\ \A j \in Jobs : entryIDs'[r][j] = 0
  BY DEF Crash, TypeInv, TypeOK
<1>3. up' = up \ {r} /\ UNCHANGED <<at, entry>>
  BY DEF Crash
<1>4. \A c \in Calls : /\ at[c] = r => ~Active(c)'
                       /\ at[c] # r => stage'[c] = stage[c]
  BY DEF Crash, TypeInv, TypeOK, Active
<1>5. \A c \in Calls : Holds(c)' => Active(c)' /\ at[c] # r /\ Holds(c)
  BY <1>4 DEF Holds, Active
<1>6. \A c \in Calls : Active(c) => at[c] \in Replicas
  BY DEF TypeInv, Placed
<1>7. \A c \in Calls : Holds(c) => Active(c)
  BY DEF Holds, Active
<1>8. IdsGiven'
  <2>1. \A j \in Jobs : entryIDs'[r][j] <= lastID'[r]
    BY <1>2 DEF TypeInv, TypeOK
  <2>2. \A q \in Replicas, j \in Jobs : entryIDs'[q][j] <= lastID'[q]
    BY <2>1, <1>1 DEF IdsGiven
  <2>3. \A q \in Replicas : \A e \in entries'[q] : e.id \in 1..lastID'[q]
    BY <1>1, <1>2 DEF IdsGiven
  <2>4. \A c \in Calls : Holds(c)' => entry'[c] \in 1..lastID'[at'[c]]
    BY <1>2, <1>3, <1>5 DEF IdsGiven
  <2> QED BY <2>2, <2>3, <2>4 DEF IdsGiven
<1>9. UniqueIds' /\ DistinctKeys'
  BY <1>1, <1>2 DEF UniqueIds, DistinctKeys
<1>10. DownIsEmpty'
  BY <1>1, <1>2, <1>3, <1>4 DEF DownIsEmpty, Active
<1>11. MappingOwns'
  BY <1>1, <1>3, <1>4, <1>5, <1>6, <1>7 DEF MappingOwns, Holds
<1>12. RemovesOwn'
  BY <1>1, <1>3, <1>4, <1>5, <1>6, <1>7 DEF RemovesOwn, Holds
<1>13. MappedEntryLive'
  BY <1>1, <1>2, <1>3, <1>4 DEF MappedEntryLive, Pending, Active
<1> QED BY <1>8, <1>9, <1>10, <1>11, <1>12, <1>13

\* What every step of a call may use about its replica and job.
LEMMA CallPlace ==
  ASSUME MapInv, NEW c \in Calls, Active(c)
  PROVE  /\ at[c] \in Replicas /\ at[c] \in up /\ JobOf[c] \in Jobs
         /\ lastID[at[c]] \in Nat /\ entryIDs[at[c]][JobOf[c]] \in Nat
BY CronAssumption DEF MapInv, MapRest, TypeInv, TypeOK, Placed, DownIsEmpty

LEMMA MapRegister ==
  ASSUME MapInv, NEW c \in Calls, RegisterEntry(c)
  PROVE  MapRest'
<1> DEFINE r == at[c]
           new == [id |-> lastID[r] + 1, job |-> JobOf[c]]
<1> USE DEF MapInv, MapRest
<1>1. /\ r \in Replicas /\ r \in up /\ JobOf[c] \in Jobs /\ lastID[r] \in Nat
      /\ Active(c)
  BY CallPlace DEF RegisterEntry, Active
<1>2. UNCHANGED <<up, at, entryIDs>> /\ \A d \in Calls \ {c} : UNCHANGED <<stage[d], entry[d]>>
  BY DEF RegisterEntry, TypeInv, TypeOK
<1>3. CASE JobOf[c] \notin Parses
  <2>1. UNCHANGED <<schedVars, up, at, entry>> /\ stage'[c] = "returned" /\ stage[c] = "registering"
    BY <1>3 DEF RegisterEntry, TypeInv, TypeOK, schedVars
  <2> QED BY <2>1, <1>2, MapQuiet DEF Holds, Active, DownIsEmpty
<1>4. CASE JobOf[c] \in Parses
  <2>1. /\ entries' = [entries EXCEPT ![r] = @ \cup {new}]
        /\ lastID' = [lastID EXCEPT ![r] = lastID[r] + 1]
        /\ entry' = [entry EXCEPT ![c] = lastID[r] + 1]
        /\ stage' = [stage EXCEPT ![c] = "mapping"]
        /\ stage[c] = "registering"
    BY <1>4 DEF RegisterEntry
  <2>2. /\ entries'[r] = entries[r] \cup {new} /\ lastID'[r] = lastID[r] + 1
        /\ \A q \in Replicas \ {r} : UNCHANGED <<entries[q], lastID[q]>>
    BY <2>1, <1>1 DEF TypeInv, TypeOK
  <2>3. entry'[c] = lastID[r] + 1 /\ stage'[c] = "mapping"
    BY <2>1 DEF TypeInv, TypeOK
  <2>4. new.id = lastID[r] + 1 /\ new.job = JobOf[c]
    OBVIOUS
  <2> HIDE DEF new
  <2>5. \A d \in Calls : Holds(d) => d # c /\ at[d] \in Replicas /\ entry[d] \in 1..lastID[at[d]]
    BY <2>1 DEF IdsGiven, Holds, TypeInv, Placed, Active
  <2>6. \A d \in Calls : Holds(d)' => d = c \/ Holds(d)
    BY <1>2 DEF Holds
  <2>7. \A e \in entries[r] : e.id \in 1..lastID[r]
    BY <1>1 DEF IdsGiven
  <2>8. \A j \in Jobs : entryIDs[r][j] \in Nat /\ entryIDs[r][j] <= lastID[r]
    BY <1>1 DEF IdsGiven, TypeInv, TypeOK
  <2>9. IdsGiven'
    <3>1. \A q \in Replicas : \A e \in entries'[q] : e.id \in 1..lastID'[q]
      BY <1>1, <2>2, <2>4, <2>7 DEF IdsGiven
    <3>2. \A q \in Replicas, j \in Jobs : entryIDs'[q][j] <= lastID'[q]
      BY <1>1, <1>2, <2>2, <2>8 DEF IdsGiven
    <3>3. ASSUME NEW d \in Calls, Holds(d)' PROVE entry'[d] \in 1..lastID'[at'[d]]
      <4>1. CASE d = c
        BY <4>1, <1>1, <1>2, <2>2, <2>3
      <4>2. CASE d # c
        <5>1. entry'[d] = entry[d] /\ entry[d] \in 1..lastID[at[d]] /\ at[d] \in Replicas
          BY <4>2, <3>3, <1>2, <2>5, <2>6
        <5> QED BY <5>1, <1>1, <1>2, <2>2
      <4> QED BY <4>1, <4>2
    <3> QED BY <3>1, <3>2, <3>3 DEF IdsGiven
  <2>10. UniqueIds'
    <3>1. \A e \in entries[r] : e.id # new.id
      BY <1>1, <2>4, <2>7
    <3> QED BY <3>1, <2>2 DEF UniqueIds
  <2>11. DistinctKeys'
    BY <1>2 DEF DistinctKeys
  <2>12. DownIsEmpty'
    BY <1>1, <1>2, <2>2 DEF DownIsEmpty, Active
  <2>13. MappingOwns'
    <3> SUFFICES ASSUME NEW d \in Calls, stage'[d] = "mapping"
                 PROVE  /\ [id |-> entry'[d], job |-> JobOf[d]] \in entries'[at'[d]]
                        /\ \A j \in Jobs : entryIDs'[at'[d]][j] # entry'[d]
                        /\ \A b \in Calls : Holds(b)' /\ at'[b] = at'[d] /\ entry'[b] = entry'[d] => b = d
      BY DEF MappingOwns
    <3>1. CASE d = c
      <4>1. [id |-> entry'[d], job |-> JobOf[d]] \in entries'[at'[d]]
        BY <3>1, <1>2, <2>2, <2>3 DEF new
      <4>2. \A j \in Jobs : entryIDs'[at'[d]][j] # entry'[d]
        BY <3>1, <1>1, <1>2, <2>3, <2>8
      <4>3. ASSUME NEW b \in Calls, Holds(b)', at'[b] = at'[d], entry'[b] = entry'[d], b # d PROVE FALSE
        <5>1. entry[b] \in 1..lastID[r] /\ entry[b] = lastID[r] + 1
          BY <3>1, <4>3, <1>2, <2>3, <2>5, <2>6
        <5> QED BY <5>1, <1>1
      <4> QED BY <4>1, <4>2, <4>3
    <3>2. CASE d # c
      <4>1. stage[d] = "mapping" /\ UNCHANGED <<entry[d], at[d]>> /\ Holds(d) /\ at[d] \in Replicas
        BY <3>2, <1>2, <2>5 DEF Holds
      <4>2. [id |-> entry[d], job |-> JobOf[d]] \in entries'[at[d]]
        BY <4>1, <2>2, <1>1 DEF MappingOwns
      <4>3. ASSUME NEW b \in Calls, Holds(b)', at[b] = at[d], entry'[b] = entry[d] PROVE b = d
        <5>1. b # c
          BY <4>1, <4>3, <2>3, <2>5, <1>1
        <5> QED BY <5>1, <4>1, <4>3, <1>2, <2>6 DEF MappingOwns
      <4> QED BY <4>1, <4>2, <4>3, <1>2 DEF MappingOwns
    <3> QED BY <3>1, <3>2
  <2>14. RemovesOwn'
    <3> SUFFICES ASSUME NEW d \in Calls, stage'[d] \in {"unregistering", "unmapping"}
                 PROVE  /\ \A j \in Jobs : entryIDs'[at'[d]][j] = entry'[d] => j = JobOf[d]
                        /\ \A e \in entries'[at'[d]] : e.id = entry'[d] => e.job = JobOf[d]
      BY DEF RemovesOwn
    <3>1. d # c /\ stage[d] \in {"unregistering", "unmapping"} /\ UNCHANGED <<entry[d], at[d]>>
      BY <1>2, <2>3
    <3>2. Holds(d) /\ at[d] \in Replicas /\ entry[d] \in 1..lastID[at[d]]
      BY <3>1, <2>5 DEF Holds
    <3>3. at[d] = r => entry[d] # new.id
      BY <3>2, <2>4, <1>1
    <3> QED BY <3>1, <3>2, <3>3, <1>2, <2>2 DEF RemovesOwn
  <2>15. MappedEntryLive'
    <3> SUFFICES ASSUME NEW q \in Replicas, NEW j \in Jobs, entryIDs[q][j] # 0
                 PROVE  \/ [id |-> entryIDs[q][j], job |-> j] \in entries'[q]
                        \/ \E d \in Pending(q, j)' : stage'[d] = "unmapping" /\ entry'[d] = entryIDs[q][j]
      BY <1>2 DEF MappedEntryLive
    <3>1. entries[q] \subseteq entries'[q]
      BY <2>2
    <3>2. ASSUME NEW d \in Pending(q, j), stage[d] = "unmapping"
          PROVE  d \in Pending(q, j)' /\ UNCHANGED <<stage[d], entry[d]>>
      BY <3>2, <1>2, <2>1 DEF Pending, Active
    <3> QED BY <3>1, <3>2 DEF MappedEntryLive
  <2> QED BY <2>9, <2>10, <2>11, <2>12, <2>13, <2>14, <2>15
<1> QED BY <1>3, <1>4

LEMMA MapMap ==
  ASSUME MapInv, NEW c \in Calls, MapEntry(c)
  PROVE  MapRest'
<1> DEFINE r == at[c]
           k == JobOf[c]
<1> USE DEF MapInv, MapRest
<1>1. r \in Replicas /\ r \in up /\ k \in Jobs /\ Holds(c) /\ stage[c] = "mapping"
  BY CallPlace DEF MapEntry, Active, Holds
<1>2. /\ entryIDs'[r][k] = entry[c]
      /\ \A j \in Jobs \ {k} : entryIDs'[r][j] = entryIDs[r][j]
      /\ \A q \in Replicas \ {r} : entryIDs'[q] = entryIDs[q]
  BY <1>1 DEF MapEntry, TypeInv, TypeOK
<1>3. UNCHANGED <<up, at, entry, entries, lastID>>
  BY DEF MapEntry
<1>4. stage'[c] = "returned" /\ \A d \in Calls \ {c} : stage'[d] = stage[d]
  BY DEF MapEntry, TypeInv, TypeOK
<1>5. \A d \in Calls : Holds(d)' => d # c /\ Holds(d) /\ at[d] \in Replicas
  BY <1>4 DEF Holds, TypeInv, Placed, Active
<1>6. /\ [id |-> entry[c], job |-> k] \in entries[r]
      /\ \A j \in Jobs : entryIDs[r][j] # entry[c]
      /\ \A d \in Calls : Holds(d) /\ at[d] = r /\ entry[d] = entry[c] => d = c
  BY <1>1 DEF MappingOwns
<1>7. entry[c] \in 1..lastID[r]
  BY <1>1 DEF IdsGiven
<1> HIDE DEF r, k
<1>8. IdsGiven'
  <2>1. \A q \in Replicas, j \in Jobs : entryIDs'[q][j] <= lastID'[q]
    BY <1>1, <1>2, <1>3, <1>7 DEF IdsGiven, TypeInv, TypeOK
  <2> QED BY <2>1, <1>3, <1>5 DEF IdsGiven
<1>9. UniqueIds'
  BY <1>3 DEF UniqueIds
<1>10. DistinctKeys'
  BY <1>1, <1>2, <1>6 DEF DistinctKeys
<1>11. DownIsEmpty'
  <2>1. \A q \in Replicas \ up : entryIDs'[q] = entryIDs[q]
    BY <1>1, <1>2
  <2>2. \A d \in Calls : Active(d)' => Active(d)
    BY <1>4 DEF Active
  <2> QED BY <2>1, <2>2, <1>3 DEF DownIsEmpty
<1>12. MappingOwns'
  <2> SUFFICES ASSUME NEW d \in Calls, stage'[d] = "mapping"
               PROVE  /\ [id |-> entry[d], job |-> JobOf[d]] \in entries[at[d]]
                      /\ \A j \in Jobs : entryIDs'[at[d]][j] # entry[d]
                      /\ \A b \in Calls : Holds(b)' /\ at[b] = at[d] /\ entry[b] = entry[d] => b = d
    BY <1>3 DEF MappingOwns
  <2>1. d # c /\ stage[d] = "mapping" /\ Holds(d) /\ at[d] \in Replicas
    BY <1>4, <1>5 DEF Holds
  <2>2. at[d] = r => entry[d] # entry[c]
    BY <2>1, <1>6
  <2>3. ASSUME NEW j \in Jobs PROVE entryIDs'[at[d]][j] # entry[d]
    <3>1. entryIDs[at[d]][j] # entry[d]
      BY <2>1 DEF MappingOwns
    <3>2. CASE at[d] = r /\ j = k
      BY <3>2, <2>2, <1>2
    <3>3. CASE ~(at[d] = r /\ j = k)
      BY <3>1, <3>3, <2>1, <1>2
    <3> QED BY <3>2, <3>3
  <2> QED BY <2>1, <2>3, <1>5 DEF MappingOwns
<1>13. RemovesOwn'
  <2> SUFFICES ASSUME NEW d \in Calls, stage'[d] \in {"unregistering", "unmapping"}
               PROVE  /\ \A j \in Jobs : entryIDs'[at[d]][j] = entry[d] => j = JobOf[d]
                      /\ \A e \in entries[at[d]] : e.id = entry[d] => e.job = JobOf[d]
    BY <1>3 DEF RemovesOwn
  <2>1. d # c /\ stage[d] = stage'[d] /\ Holds(d) /\ at[d] \in Replicas
    BY <1>4, <1>5 DEF Holds
  <2>2. at[d] = r => entry[d] # entry[c]
    BY <2>1, <1>6
  <2> QED BY <2>1, <2>2, <1>1, <1>2 DEF RemovesOwn
<1>14. MappedEntryLive'
  <2> SUFFICES ASSUME NEW q \in Replicas, NEW j \in Jobs, entryIDs'[q][j] # 0
               PROVE  \/ [id |-> entryIDs'[q][j], job |-> j] \in entries[q]
                      \/ \E d \in Pending(q, j)' : stage'[d] = "unmapping" /\ entry[d] = entryIDs'[q][j]
    BY <1>3 DEF MappedEntryLive
  <2>1. CASE q = r /\ j = k
    BY <2>1, <1>2, <1>6
  <2>2. CASE ~(q = r /\ j = k)
    <3>1. entryIDs'[q][j] = entryIDs[q][j]
      BY <2>2, <1>2
    <3>2. ASSUME NEW d \in Pending(q, j), stage[d] = "unmapping"
          PROVE  d \in Pending(q, j)' /\ stage'[d] = stage[d]
      BY <3>2, <1>1, <1>3, <1>4 DEF Pending, Active
    <3> QED BY <3>1, <3>2 DEF MappedEntryLive
  <2> QED BY <2>1, <2>2
<1> QED BY <1>8, <1>9, <1>10, <1>11, <1>12, <1>13, <1>14

LEMMA MapLookUp ==
  ASSUME MapInv, NEW c \in Calls, LookUp(c)
  PROVE  MapRest'
<1> DEFINE r == at[c]
           k == JobOf[c]
           id == entryIDs[r][k]
<1> USE DEF MapInv, MapRest
<1>1. r \in Replicas /\ r \in up /\ k \in Jobs /\ id \in Nat /\ stage[c] = "looking_up"
  BY CallPlace DEF LookUp, Active
<1>2. UNCHANGED <<up, at, entries, entryIDs, lastID>>
  BY DEF LookUp, schedVars
<1>3. /\ entry'[c] = id
      /\ stage'[c] = IF id = 0 THEN "returned" ELSE "unregistering"
      /\ \A d \in Calls \ {c} : UNCHANGED <<stage[d], entry[d]>>
  BY DEF LookUp, TypeInv, TypeOK
<1> HIDE DEF r, k, id
<1>4. \A d \in Calls : Holds(d) => d # c /\ Holds(d)' /\ UNCHANGED <<stage[d], entry[d]>>
  BY <1>1, <1>3 DEF Holds
<1>5. \A d \in Calls \ {c} : Holds(d)' = Holds(d) /\ Active(d)' = Active(d)
  BY <1>3 DEF Holds, Active
<1>6. id <= lastID[r] /\ lastID[r] \in Nat
  BY <1>1 DEF IdsGiven, id, k, TypeInv, TypeOK
<1>7. IdsGiven'
  <2>1. ASSUME NEW d \in Calls, Holds(d)' PROVE entry'[d] \in 1..lastID[at[d]]
    <3>1. CASE d = c
      BY <3>1, <2>1, <1>1, <1>3, <1>6 DEF Holds, r
    <3>2. CASE d # c
      BY <3>2, <2>1, <1>3, <1>5 DEF IdsGiven
    <3> QED BY <3>1, <3>2
  <2> QED BY <2>1, <1>2 DEF IdsGiven
<1>8. UniqueIds' /\ DistinctKeys'
  BY <1>2 DEF UniqueIds, DistinctKeys
<1>9. DownIsEmpty'
  BY <1>1, <1>2, <1>5 DEF DownIsEmpty, r
<1>10. MappingOwns'
  <2> SUFFICES ASSUME NEW d \in Calls, stage'[d] = "mapping"
               PROVE  /\ [id |-> entry'[d], job |-> JobOf[d]] \in entries[at[d]]
                      /\ \A j \in Jobs : entryIDs[at[d]][j] # entry'[d]
                      /\ \A b \in Calls : Holds(b)' /\ at[b] = at[d] /\ entry'[b] = entry'[d] => b = d
    BY <1>2 DEF MappingOwns
  <2>1. d # c /\ stage[d] = "mapping" /\ Holds(d) /\ entry'[d] = entry[d]
    BY <1>3 DEF Holds
  <2>2. /\ [id |-> entry[d], job |-> JobOf[d]] \in entries[at[d]]
        /\ \A j \in Jobs : entryIDs[at[d]][j] # entry[d]
        /\ \A b \in Calls : Holds(b) /\ at[b] = at[d] /\ entry[b] = entry[d] => b = d
    BY <2>1 DEF MappingOwns
  <2>3. at[c] = at[d] => entry'[c] # entry[d]
    BY <2>2, <1>1, <1>3 DEF id, r
  <2> QED BY <2>1, <2>2, <2>3, <1>3, <1>5
<1>11. RemovesOwn'
  <2> SUFFICES ASSUME NEW d \in Calls, stage'[d] \in {"unregistering", "unmapping"}
               PROVE  /\ \A j \in Jobs : entryIDs[at[d]][j] = entry'[d] => j = JobOf[d]
                      /\ \A e \in entries[at[d]] : e.id = entry'[d] => e.job = JobOf[d]
    BY <1>2 DEF RemovesOwn
  <2>1. CASE d # c
    BY <2>1, <1>3 DEF RemovesOwn
  <2>2. CASE d = c
    <3>1. id # 0 /\ entry'[d] = id /\ at[d] = r /\ JobOf[d] = k
      BY <2>2, <1>3 DEF r, k
    <3>2. \A j \in Jobs : entryIDs[r][j] = id => j = k
      BY <3>1, <1>1 DEF DistinctKeys, id
    <3>3. \A e \in entries[r] : e.id = id => e.job = k
      <4>1. CASE [id |-> id, job |-> k] \in entries[r]
        BY <4>1, <1>1 DEF UniqueIds
      <4>2. CASE \E b \in Pending(r, k) : stage[b] = "unmapping" /\ entry[b] = id
        BY <4>2 DEF RemovesOwn, Pending
      <4> QED BY <4>1, <4>2, <3>1, <1>1 DEF MappedEntryLive, id
    <3> QED BY <3>1, <3>2, <3>3
  <2> QED BY <2>1, <2>2
<1>12. MappedEntryLive'
  <2>1. ASSUME NEW q \in Replicas, NEW j \in Jobs, NEW d \in Pending(q, j), stage[d] = "unmapping"
        PROVE  d \in Pending(q, j)' /\ UNCHANGED <<stage[d], entry[d]>>
    BY <2>1, <1>1, <1>2, <1>3 DEF Pending, Active
  <2> QED BY <2>1, <1>2 DEF MappedEntryLive
<1> QED BY <1>7, <1>8, <1>9, <1>10, <1>11, <1>12

LEMMA MapUnregister ==
  ASSUME MapInv, NEW c \in Calls, Unregister(c)
  PROVE  MapRest'
<1> DEFINE r == at[c]
           k == JobOf[c]
<1> USE DEF MapInv, MapRest
<1>1. r \in Replicas /\ r \in up /\ k \in Jobs /\ stage[c] = "unregistering" /\ Holds(c)
  BY CallPlace DEF Unregister, Active, Holds
<1>2. UNCHANGED <<up, at, entry, entryIDs, lastID>>
  BY DEF Unregister
<1>3. /\ entries'[r] = {e \in entries[r] : e.id # entry[c]}
      /\ \A q \in Replicas \ {r} : entries'[q] = entries[q]
  BY <1>1 DEF Unregister, TypeInv, TypeOK
<1>4. /\ stage'[c] = IF \E e \in entries[r] : e.id = entry[c] THEN "unmapping" ELSE "returned"
      /\ \A d \in Calls \ {c} : stage'[d] = stage[d]
  BY DEF Unregister, TypeInv, TypeOK
<1> HIDE DEF r, k
<1>5. \A q \in Replicas : entries'[q] \subseteq entries[q]
  BY <1>3
<1>6. \A d \in Calls : /\ Holds(d)' => Holds(d) /\ at[d] \in Replicas
                       /\ Active(d)' => Active(d)
  BY <1>1, <1>4 DEF Holds, Active, TypeInv, Placed
<1>7. IdsGiven'
  BY <1>2, <1>5, <1>6 DEF IdsGiven
<1>8. UniqueIds' /\ DistinctKeys'
  BY <1>2, <1>5 DEF UniqueIds, DistinctKeys
<1>9. DownIsEmpty'
  BY <1>2, <1>5, <1>6 DEF DownIsEmpty
<1>10. MappingOwns'
  <2> SUFFICES ASSUME NEW d \in Calls, stage'[d] = "mapping"
               PROVE  /\ [id |-> entry[d], job |-> JobOf[d]] \in entries'[at[d]]
                      /\ \A j \in Jobs : entryIDs[at[d]][j] # entry[d]
                      /\ \A b \in Calls : Holds(b)' /\ at[b] = at[d] /\ entry[b] = entry[d] => b = d
    BY <1>2 DEF MappingOwns
  <2>1. d # c /\ stage[d] = "mapping" /\ Holds(d) /\ at[d] \in Replicas
    BY <1>4, <1>6 DEF Holds
  <2>2. /\ [id |-> entry[d], job |-> JobOf[d]] \in entries[at[d]]
        /\ \A j \in Jobs : entryIDs[at[d]][j] # entry[d]
        /\ \A b \in Calls : Holds(b) /\ at[b] = at[d] /\ entry[b] = entry[d] => b = d
    BY <2>1 DEF MappingOwns
  <2>3. at[d] = r => entry[d] # entry[c]
    BY <2>1, <2>2, <1>1 DEF r
  <2>4. [id |-> entry[d], job |-> JobOf[d]] \in entries'[at[d]]
    BY <2>1, <2>2, <2>3, <1>3
  <2> QED BY <2>2, <2>4, <1>6
<1>11. RemovesOwn'
  <2> SUFFICES ASSUME NEW d \in Calls, stage'[d] \in {"unregistering", "unmapping"}
               PROVE  /\ \A j \in Jobs : entryIDs[at[d]][j] = entry[d] => j = JobOf[d]
                      /\ \A e \in entries'[at[d]] : e.id = entry[d] => e.job = JobOf[d]
    BY <1>2 DEF RemovesOwn
  <2>1. stage[d] \in {"unregistering", "unmapping"} /\ at[d] \in Replicas
    BY <1>1, <1>4, <1>6 DEF Holds
  <2> QED BY <2>1, <1>5 DEF RemovesOwn
<1>12. MappedEntryLive'
  <2> SUFFICES ASSUME NEW q \in Replicas, NEW j \in Jobs, entryIDs[q][j] # 0
               PROVE  \/ [id |-> entryIDs[q][j], job |-> j] \in entries'[q]
                      \/ \E d \in Pending(q, j)' : stage'[d] = "unmapping" /\ entry[d] = entryIDs[q][j]
    BY <1>2 DEF MappedEntryLive
  <2>1. CASE \E d \in Pending(q, j) : stage[d] = "unmapping" /\ entry[d] = entryIDs[q][j]
    <3>1. PICK d \in Pending(q, j) : stage[d] = "unmapping" /\ entry[d] = entryIDs[q][j]
      BY <2>1
    <3>2. d \in Pending(q, j)' /\ stage'[d] = "unmapping"
      BY <3>1, <1>1, <1>2, <1>4 DEF Pending, Active
    <3> QED BY <3>1, <3>2
  <2>2. CASE [id |-> entryIDs[q][j], job |-> j] \in entries[q]
    <3>1. CASE q = r /\ entryIDs[q][j] = entry[c]
      <4>1. j = k
        BY <3>1, <1>1 DEF RemovesOwn, r, k
      <4>2. \E e \in entries[r] : e.id = entry[c]
        BY <2>2, <3>1
      <4>3. stage'[c] = "unmapping"
        BY <4>2, <1>4
      <4>4. c \in Pending(q, j)'
        BY <4>1, <4>3, <3>1, <1>2 DEF Pending, Active, r, k
      <4> QED BY <4>3, <4>4, <3>1
    <3>2. CASE ~(q = r /\ entryIDs[q][j] = entry[c])
      BY <2>2, <3>2, <1>3
    <3> QED BY <3>1, <3>2
  <2> QED BY <2>1, <2>2 DEF MappedEntryLive
<1> QED BY <1>7, <1>8, <1>9, <1>10, <1>11, <1>12

LEMMA MapUnmap ==
  ASSUME MapInv, NEW c \in Calls, Unmap(c)
  PROVE  MapRest'
<1> DEFINE r == at[c]
           k == JobOf[c]
<1> USE DEF MapInv, MapRest
<1>1. r \in Replicas /\ r \in up /\ k \in Jobs /\ stage[c] = "unmapping"
  BY CallPlace DEF Unmap, Active
<1>2. UNCHANGED <<up, at, entry, entries, lastID>>
  BY DEF Unmap
<1>3. /\ entryIDs'[r][k] = 0
      /\ \A j \in Jobs \ {k} : entryIDs'[r][j] = entryIDs[r][j]
      /\ \A q \in Replicas \ {r} : entryIDs'[q] = entryIDs[q]
  BY <1>1 DEF Unmap, TypeInv, TypeOK
<1>4. stage'[c] = "returned" /\ \A d \in Calls \ {c} : stage'[d] = stage[d]
  BY DEF Unmap, TypeInv, TypeOK
<1> HIDE DEF r, k
<1>5. \A d \in Calls : /\ Holds(d)' => d # c /\ Holds(d) /\ at[d] \in Replicas /\ entry[d] # 0
                       /\ Active(d)' => Active(d)
  BY <1>4 DEF Holds, Active, TypeInv, Placed, IdsGiven
<1>6. \A q \in Replicas, j \in Jobs : entryIDs'[q][j] = 0 \/ entryIDs'[q][j] = entryIDs[q][j]
  BY <1>3
<1>7. IdsGiven'
  <2>1. \A q \in Replicas, j \in Jobs : entryIDs'[q][j] <= lastID[q]
    BY <1>6 DEF IdsGiven, TypeInv, TypeOK
  <2> QED BY <2>1, <1>2, <1>5 DEF IdsGiven
<1>8. UniqueIds' /\ DistinctKeys'
  BY <1>2, <1>6 DEF UniqueIds, DistinctKeys
<1>9. DownIsEmpty'
  BY <1>2, <1>5, <1>6 DEF DownIsEmpty
<1>10. MappingOwns'
  <2> SUFFICES ASSUME NEW d \in Calls, stage'[d] = "mapping"
               PROVE  /\ [id |-> entry[d], job |-> JobOf[d]] \in entries[at[d]]
                      /\ \A j \in Jobs : entryIDs'[at[d]][j] # entry[d]
                      /\ \A b \in Calls : Holds(b)' /\ at[b] = at[d] /\ entry[b] = entry[d] => b = d
    BY <1>2 DEF MappingOwns
  <2>1. d # c /\ stage[d] = "mapping" /\ at[d] \in Replicas /\ entry[d] # 0
    BY <1>4, <1>5 DEF Holds
  <2> QED BY <2>1, <1>5, <1>6 DEF MappingOwns
<1>11. RemovesOwn'
  <2> SUFFICES ASSUME NEW d \in Calls, stage'[d] \in {"unregistering", "unmapping"}
               PROVE  /\ \A j \in Jobs : entryIDs'[at[d]][j] = entry[d] => j = JobOf[d]
                      /\ \A e \in entries[at[d]] : e.id = entry[d] => e.job = JobOf[d]
    BY <1>2 DEF RemovesOwn
  <2>1. stage[d] = stage'[d] /\ at[d] \in Replicas /\ entry[d] # 0
    BY <1>4, <1>5 DEF Holds
  <2> QED BY <2>1, <1>6 DEF RemovesOwn
<1>12. MappedEntryLive'
  <2> SUFFICES ASSUME NEW q \in Replicas, NEW j \in Jobs, entryIDs'[q][j] # 0
               PROVE  \/ [id |-> entryIDs'[q][j], job |-> j] \in entries[q]
                      \/ \E d \in Pending(q, j)' : stage'[d] = "unmapping" /\ entry[d] = entryIDs'[q][j]
    BY <1>2 DEF MappedEntryLive
  <2>1. entryIDs'[q][j] = entryIDs[q][j] /\ ~(q = r /\ j = k)
    BY <1>3, <1>6
  <2>2. ASSUME NEW d \in Pending(q, j), stage[d] = "unmapping"
        PROVE  d \in Pending(q, j)' /\ stage'[d] = "unmapping"
    BY <2>1, <2>2, <1>2, <1>4 DEF Pending, Active, r, k
  <2> QED BY <2>1, <2>2 DEF MappedEntryLive
<1> QED BY <1>7, <1>8, <1>9, <1>10, <1>11, <1>12

LEMMA MapStep == MapInv /\ [Next]_vars => MapInv'
<1> SUFFICES ASSUME MapInv, [Next]_vars PROVE MapRest'
  BY TypeStep DEF MapInv
<1> USE DEF dbVars, schedVars, callVars, history
<1>1. ASSUME NEW r \in Replicas, NEW e \in entries[r], Fire(r, e) PROVE MapRest'
  BY <1>1, MapQuiet DEF Fire, Holds, Active, MapInv, MapRest, DownIsEmpty
<1>2. ASSUME NEW c \in Calls, NEW r \in Replicas, NEW op \in Ops, Change(c, r, op) PROVE MapRest'
  <2>1. /\ stage[c] = "unsent" /\ stage'[c] \in {"registering", "rereading", "looking_up"}
        /\ at'[c] = r /\ r \in up /\ entry' = entry
        /\ \A d \in Calls \ {c} : UNCHANGED <<stage[d], at[d]>>
    BY <1>2 DEF Change, Then, Ops, MapInv, TypeInv, TypeOK
  <2>2. \A d \in Calls : Active(d)' => at'[d] \in up
    BY <2>1 DEF Active, MapInv, MapRest, DownIsEmpty
  <2>3. \A d \in Calls : Holds(d) \/ Holds(d)' => UNCHANGED <<stage[d], at[d], entry[d]>>
    BY <2>1 DEF Holds
  <2> QED BY <1>2, <2>2, <2>3, MapQuiet DEF Change
<1>3. ASSUME NEW c \in Calls, Reread(c) PROVE MapRest'
  <2>1. /\ stage[c] = "rereading" /\ stage'[c] \in {"registering", "returned"}
        /\ \A d \in Calls \ {c} : stage'[d] = stage[d]
    BY <1>3 DEF Reread, MapInv, TypeInv, TypeOK
  <2>2. \A d \in Calls : Active(d)' => at'[d] \in up
    BY <1>3, <2>1 DEF Reread, Active, MapInv, MapRest, DownIsEmpty
  <2>3. \A d \in Calls : Holds(d) \/ Holds(d)' => UNCHANGED <<stage[d], at[d], entry[d]>>
    BY <1>3, <2>1 DEF Reread, Holds
  <2> QED BY <1>3, <2>2, <2>3, MapQuiet DEF Reread
<1>4. ASSUME NEW t \in tasks, Work(t) PROVE MapRest'
  BY <1>4, MapQuiet DEF Work, Take, ExecutePrompt, Finish, Holds, Active, MapInv, MapRest, DownIsEmpty
<1>5. CASE UNCHANGED vars
  BY <1>5, MapQuiet DEF vars, Holds, Active, MapInv, MapRest, DownIsEmpty
<1> QED BY <1>1, <1>2, <1>3, <1>4, <1>5, MapBoot, MapCrash, MapRegister, MapMap, MapLookUp,
           MapUnregister, MapUnmap DEF Next, Proceed

LEMMA MapInvHolds == Spec => []MapInv
<1>1. MapInv /\ [Next]_vars => MapInv'
  BY MapStep
<1> QED BY <1>1, MapInit, PTL DEF Spec

\* The entry that a CronManager's map names is registered with its scheduler, or
\* its key is about to be deleted, however calls overlap, fail and crash
\* (ScheduleJob, UnscheduleJob, LoadAndSchedule).
THEOREM MappedEntryLiveHolds == Spec => []MappedEntryLive
<1>1. MapInv => MappedEntryLive
  BY DEF MapInv, MapRest
<1> QED BY <1>1, MapInvHolds, PTL

-----------------------------------------------------------------------------
(* What holds of a job at a replica while it is not disturbed *)

OneCall(r, j) == \A c, d \in Pending(r, j) : c = d

\* All entries of the job have the id in the map, or that of the call about to map it.
EntriesKnown(r, j) ==
  /\ (\A c \in Pending(r, j) : stage[c] # "mapping") =>
        \A e \in EntriesOf(r, j) : e.id = entryIDs[r][j]
  /\ \A c \in Pending(r, j) :
        /\ stage[c] = "mapping" =>
             entryIDs[r][j] = 0 /\ \A e \in EntriesOf(r, j) : e.id = entry[c]
        /\ stage[c] = "unregistering" => entry[c] = entryIDs[r][j]
        /\ stage[c] = "unmapping" => EntriesOf(r, j) = {}

\* Once a row is disabled or deleted at the replica, its key goes.
Stopping(r, j) ==
  row[j] \in {"disabled", "deleted"} /\ changedAt[j] = r =>
    /\ \A c \in Pending(r, j) : stage[c] \in {"looking_up", "unregistering", "unmapping"}
    /\ Pending(r, j) = {} => entryIDs[r][j] = 0

Calm(r, j) == OneCall(r, j) /\ EntriesKnown(r, j) /\ Stopping(r, j)

CalmOf(r, j) == ~Disturbed(r, j) => Calm(r, j)

CalmInv == \A r \in Replicas, j \in Jobs : CalmOf(r, j)

LEMMA CalmInit == Init => CalmInv
BY DEF Init, CalmInv, CalmOf, Calm, OneCall, EntriesKnown, Stopping, Pending, Active, EntriesOf

\* Nothing changes for the job at this replica.
LEMMA CalmSame ==
  ASSUME NEW r \in Replicas, NEW j \in Jobs, CalmOf(r, j), Disturbed(r, j) => Disturbed(r, j)',
         EntriesOf(r, j)' = EntriesOf(r, j), entryIDs'[r][j] = entryIDs[r][j],
         Pending(r, j)' = Pending(r, j),
         \A c \in Pending(r, j) : UNCHANGED <<stage[c], entry[c]>>,
         row'[j] = row[j], changedAt'[j] = changedAt[j]
  PROVE  CalmOf(r, j)'
<1> SUFFICES ASSUME ~Disturbed(r, j)' PROVE Calm(r, j)'
  BY DEF CalmOf
<1>1. OneCall(r, j) /\ EntriesKnown(r, j) /\ Stopping(r, j)
  BY DEF CalmOf, Calm
<1>2. OneCall(r, j)'
  BY <1>1 DEF OneCall
<1>3. EntriesKnown(r, j)'
  BY <1>1 DEF EntriesKnown
<1>4. Stopping(r, j)'
  BY <1>1 DEF Stopping
<1> QED BY <1>2, <1>3, <1>4 DEF Calm

LEMMA CalmBoot ==
  ASSUME MapInv, CalmInv, NEW q \in Replicas, Boot(q), NEW r \in Replicas, NEW j \in Jobs
  PROVE  CalmOf(r, j)'
<1> USE DEF MapInv, MapRest, callVars, dbVars, history
<1>1. PICK loaded \in SUBSET {k \in Parses : row[k] = "enabled"} : Loads(q, loaded)
  BY DEF Boot, Loads
<1>2. PICK id \in [loaded -> lastID[q] + 1 .. lastID[q] + Cardinality(loaded)] :
        /\ entries' = [entries EXCEPT ![q] = {[id |-> id[k], job |-> k] : k \in loaded}]
        /\ entryIDs' = [entryIDs EXCEPT ![q] =
                         [k \in Jobs |-> IF k \in loaded THEN id[k] ELSE 0]]
  BY <1>1 DEF Loads
<1>3. Pending(r, j)' = Pending(r, j) /\ Disturbed(r, j)' = Disturbed(r, j)
      /\ UNCHANGED <<stage, entry, row, changedAt>>
  BY DEF Boot, Pending, Active, Disturbed
<1>4. CASE r # q
  <2>1. entries'[r] = entries[r] /\ entryIDs'[r] = entryIDs[r]
    BY <1>2, <1>4 DEF TypeInv, TypeOK
  <2> QED BY <2>1, <1>3, CalmSame DEF CalmInv, EntriesOf
<1>5. CASE r = q
  <2>1. /\ entries'[r] = {[id |-> id[k], job |-> k] : k \in loaded}
        /\ entryIDs'[r][j] = IF j \in loaded THEN id[j] ELSE 0
    BY <1>2, <1>5 DEF TypeInv, TypeOK
  <2>2. Pending(r, j) = {}
    BY <1>5 DEF Boot, Pending, DownIsEmpty
  <2>3. \A e \in EntriesOf(r, j)' : e.id = entryIDs'[r][j]
    BY <2>1 DEF EntriesOf
  <2>4. row[j] # "enabled" => entryIDs'[r][j] = 0
    BY <2>1
  <2>5. OneCall(r, j)' /\ EntriesKnown(r, j)'
    BY <2>2, <2>3, <1>3 DEF OneCall, EntriesKnown
  <2>6. Stopping(r, j)'
    BY <2>2, <2>4, <1>3 DEF Stopping
  <2> QED BY <2>5, <2>6 DEF CalmOf, Calm
<1> QED BY <1>4, <1>5

LEMMA CalmCrash ==
  ASSUME MapInv, CalmInv, NEW q \in Replicas, Crash(q), NEW r \in Replicas, NEW j \in Jobs
  PROVE  CalmOf(r, j)'
<1> USE DEF MapInv, MapRest, dbVars
<1>1. /\ entries'[q] = {} /\ \A k \in Jobs : entryIDs'[q][k] = 0
      /\ \A p \in Replicas \ {q} : UNCHANGED <<entries[p], entryIDs[p]>>
  BY DEF Crash, TypeInv, TypeOK
<1>2. \A c \in Calls : /\ at[c] = q => ~Active(c)'
                       /\ at[c] # q => stage'[c] = stage[c]
  BY DEF Crash, TypeInv, TypeOK, Active
<1>3. UNCHANGED <<at, entry, row, changedAt>>
  BY DEF Crash
<1>4. CASE r # q
  <2>1. Pending(r, j)' = Pending(r, j) /\ \A c \in Pending(r, j) : stage'[c] = stage[c]
    BY <1>2, <1>3, <1>4 DEF Pending, Active
  <2>2. Disturbed(r, j) => Disturbed(r, j)'
    BY <1>4 DEF Crash, Disturbed
  <2> QED BY <2>1, <2>2, <1>1, <1>3, <1>4, CalmSame DEF CalmInv, EntriesOf
<1>5. CASE r = q
  <2>1. Pending(r, j)' = {} /\ EntriesOf(r, j)' = {} /\ entryIDs'[r][j] = 0
    BY <1>1, <1>2, <1>3, <1>5 DEF Pending, EntriesOf
  <2> QED BY <2>1 DEF CalmOf, Calm, OneCall, EntriesKnown, Stopping
<1> QED BY <1>4, <1>5

LEMMA CalmChange ==
  ASSUME MapInv, CalmInv, NEW c \in Calls, NEW q \in Replicas, NEW op \in Ops, Change(c, q, op),
         NEW r \in Replicas, NEW j \in Jobs
  PROVE  CalmOf(r, j)'
<1> USE DEF MapInv, MapRest, schedVars
<1>1. /\ UNCHANGED <<entries, entryIDs, entry, reenabled>> /\ JobOf[c] \in Jobs
      /\ overlapped \subseteq overlapped'
  BY CronAssumption DEF Change
<1>2. /\ stage[c] = "unsent" /\ stage'[c] = Then(op) /\ at'[c] = q
      /\ \A d \in Calls \ {c} : UNCHANGED <<stage[d], at[d]>>
  BY DEF Change, TypeInv, TypeOK
<1>3. Then(op) \in {"registering", "rereading", "looking_up"}
  BY DEF Then, Ops
<1>4. Disturbed(r, j) => Disturbed(r, j)'
  BY <1>1 DEF Disturbed
<1>5. /\ row'[JobOf[c]] = RowAfter(op) /\ changedAt'[JobOf[c]] = q
      /\ \A k \in Jobs \ {JobOf[c]} : UNCHANGED <<row[k], changedAt[k]>>
  BY <1>1 DEF Change, TypeInv, TypeOK
<1>6. ~Active(c)
  BY <1>2 DEF Active
<1>7. CASE j # JobOf[c]
  <2>1. Pending(r, j)' = Pending(r, j) /\ \A d \in Pending(r, j) : stage'[d] = stage[d]
    BY <1>2, <1>6, <1>7 DEF Pending, Active
  <2> QED BY <2>1, <1>1, <1>4, <1>5, <1>7, CalmSame DEF CalmInv, EntriesOf
<1>8. CASE j = JobOf[c] /\ r # q
  <2> SUFFICES ASSUME ~Disturbed(r, j)' PROVE Calm(r, j)'
    BY DEF CalmOf
  <2>1. Pending(r, j)' = Pending(r, j) /\ \A d \in Pending(r, j) : stage'[d] = stage[d]
    BY <1>2, <1>6, <1>8 DEF Pending, Active
  <2>2. OneCall(r, j) /\ EntriesKnown(r, j)
    BY <1>4 DEF CalmInv, CalmOf, Calm
  <2>3. OneCall(r, j)' /\ EntriesKnown(r, j)'
    BY <2>1, <2>2, <1>1 DEF OneCall, EntriesKnown, EntriesOf
  <2>4. Stopping(r, j)'
    BY <1>5, <1>8 DEF Stopping
  <2> QED BY <2>3, <2>4 DEF Calm
<1>9. CASE j = JobOf[c] /\ r = q
  <2> SUFFICES ASSUME ~Disturbed(r, j)' PROVE Calm(r, j)'
    BY DEF CalmOf
  <2>1. Pending(r, j) = {}
    BY <1>9 DEF Change, Disturbed
  <2>2. Pending(r, j)' = {c} /\ stage'[c] # "mapping" /\ stage'[c] # "unregistering"
        /\ stage'[c] # "unmapping"
    BY <2>1, <1>2, <1>3, <1>9 DEF Pending, Active
  <2>3. \A e \in EntriesOf(r, j) : e.id = entryIDs[r][j]
    BY <2>1, <1>4 DEF CalmInv, CalmOf, Calm, EntriesKnown
  <2>4. OneCall(r, j)' /\ EntriesKnown(r, j)'
    BY <2>2, <2>3, <1>1 DEF OneCall, EntriesKnown, EntriesOf
  <2>5. Stopping(r, j)'
    BY <2>2, <1>2, <1>5, <1>9 DEF Stopping, RowAfter, Then, Ops
  <2> QED BY <2>4, <2>5 DEF Calm
<1> QED BY <1>7, <1>8, <1>9

\* A step of a call is a matter of its own job at its own replica: the entries,
\* the key and the other calls of any other job or replica stay as they are.
LEMMA CalmElsewhere ==
  ASSUME MapInv, CalmInv, NEW c \in Calls, Proceed(c),
         NEW r \in Replicas, NEW j \in Jobs, ~(r = at[c] /\ j = JobOf[c])
  PROVE  CalmOf(r, j)'
<1> USE DEF MapInv, MapRest, schedVars, dbVars, history
<1>1. Active(c)
  BY DEF Proceed, Reread, RegisterEntry, MapEntry, LookUp, Unregister, Unmap, Active
<1>2. at[c] \in Replicas /\ JobOf[c] \in Jobs
  BY <1>1, CallPlace
<1>3. /\ UNCHANGED <<at, row, changedAt, overlapped>>
      /\ \A d \in Calls \ {c} : UNCHANGED <<stage[d], entry[d]>>
  BY DEF Proceed, Reread, RegisterEntry, MapEntry, LookUp, Unregister, Unmap, TypeInv, TypeOK
<1>4. c \notin Pending(r, j) /\ c \notin Pending(r, j)'
  BY <1>3 DEF Pending
<1>5. Pending(r, j)' = Pending(r, j) /\ \A d \in Pending(r, j) : UNCHANGED <<stage[d], entry[d]>>
  BY <1>3, <1>4 DEF Pending, Active
<1>6. Disturbed(r, j) => Disturbed(r, j)'
  BY <1>3 DEF Proceed, Reread, RegisterEntry, MapEntry, LookUp, Unregister, Unmap, Disturbed
<1>7. entryIDs'[r][j] = entryIDs[r][j]
  BY <1>2 DEF Proceed, Reread, RegisterEntry, MapEntry, LookUp, Unregister, Unmap, TypeInv, TypeOK
<1>8. EntriesOf(r, j)' = EntriesOf(r, j)
  <2>1. CASE RegisterEntry(c) /\ JobOf[c] \in Parses
    <3>1. entries' = [entries EXCEPT ![at[c]] = @ \cup {[id |-> lastID[at[c]] + 1, job |-> JobOf[c]]}]
      BY <2>1 DEF RegisterEntry
    <3>2. CASE r = at[c]
      <4>1. entries'[r] = entries[r] \cup {[id |-> lastID[r] + 1, job |-> JobOf[c]]}
        BY <3>1, <3>2 DEF TypeInv, TypeOK
      <4> QED BY <3>2, <4>1 DEF EntriesOf
    <3>3. CASE r # at[c]
      BY <3>1, <3>3, <1>2 DEF TypeInv, TypeOK, EntriesOf
    <3> QED BY <3>2, <3>3
  <2>2. CASE Unregister(c)
    <3>1. entries' = [entries EXCEPT ![at[c]] = {e \in entries[at[c]] : e.id # entry[c]}]
          /\ stage[c] = "unregistering"
      BY <2>2 DEF Unregister
    <3>2. CASE r = at[c]
      <4>1. entries'[r] = {e \in entries[r] : e.id # entry[c]}
        BY <3>1, <3>2 DEF TypeInv, TypeOK
      <4>2. \A e \in entries[r] : e.id = entry[c] => e.job # j
        BY <3>1, <3>2 DEF RemovesOwn
      <4> QED BY <4>1, <4>2 DEF EntriesOf
    <3>3. CASE r # at[c]
      BY <3>1, <3>3, <1>2 DEF TypeInv, TypeOK, EntriesOf
    <3> QED BY <3>2, <3>3
  <2>3. CASE entries' = entries
    BY <2>3 DEF EntriesOf
  <2> QED BY <2>1, <2>2, <2>3 DEF Proceed, Reread, RegisterEntry, MapEntry, LookUp, Unmap
<1> QED BY <1>3, <1>5, <1>6, <1>7, <1>8, CalmSame DEF CalmInv

\* What a step of the only call about an undisturbed job starts from.
LEMMA CalmCall ==
  ASSUME MapInv, CalmInv, NEW c \in Calls, Proceed(c), ~Disturbed(at[c], JobOf[c])'
  PROVE  /\ at[c] \in Replicas /\ JobOf[c] \in Jobs
         /\ ~Disturbed(at[c], JobOf[c]) /\ Calm(at[c], JobOf[c])
         /\ Pending(at[c], JobOf[c]) = {c}
         /\ UNCHANGED <<at, row, changedAt>>
         /\ Pending(at[c], JobOf[c])' = IF Active(c)' THEN {c} ELSE {}
<1> USE DEF MapInv, MapRest, schedVars, dbVars, history
<1>1. Active(c)
  BY DEF Proceed, Reread, RegisterEntry, MapEntry, LookUp, Unregister, Unmap, Active
<1>2. at[c] \in Replicas /\ JobOf[c] \in Jobs
  BY <1>1, CallPlace
<1>3. /\ UNCHANGED <<at, row, changedAt, overlapped>> /\ reenabled \subseteq reenabled'
      /\ \A d \in Calls \ {c} : stage'[d] = stage[d]
  BY DEF Proceed, Reread, RegisterEntry, MapEntry, LookUp, Unregister, Unmap, TypeInv, TypeOK
<1>4. ~Disturbed(at[c], JobOf[c]) /\ Calm(at[c], JobOf[c])
  BY <1>2, <1>3 DEF Disturbed, CalmInv, CalmOf
<1>5. Pending(at[c], JobOf[c]) = {c}
  BY <1>1, <1>4 DEF Calm, OneCall, Pending
<1>6. Pending(at[c], JobOf[c])' = IF Active(c)' THEN {c} ELSE {}
  BY <1>3, <1>5 DEF Pending, Active
<1> QED BY <1>2, <1>3, <1>4, <1>5, <1>6

LEMMA CalmHere ==
  ASSUME MapInv, CalmInv, NEW c \in Calls, Proceed(c),
         NEW r \in Replicas, NEW j \in Jobs, r = at[c], j = JobOf[c]
  PROVE  CalmOf(r, j)'
<1> SUFFICES ASSUME ~Disturbed(r, j)' PROVE Calm(r, j)'
  BY DEF CalmOf
<1>0. UNCHANGED at
  BY DEF Proceed, Reread, RegisterEntry, MapEntry, LookUp, Unregister, Unmap
<1>1. /\ r \in Replicas /\ j \in Jobs /\ ~Disturbed(r, j) /\ Pending(r, j) = {c}
      /\ UNCHANGED <<at, row, changedAt>>
      /\ Pending(r, j)' = IF Active(c)' THEN {c} ELSE {}
      /\ EntriesKnown(r, j) /\ Stopping(r, j)
  BY <1>0, CalmCall DEF Calm, Disturbed, Pending, Active
<1>2. TypeOK /\ entryIDs[r][j] \in Nat
  BY <1>1 DEF MapInv, TypeInv, TypeOK
<1>3. stage[c] = "mapping" =>
        entryIDs[r][j] = 0 /\ \A e \in EntriesOf(r, j) : e.id = entry[c]
  BY <1>1 DEF EntriesKnown
<1>4. stage[c] # "mapping" => \A e \in EntriesOf(r, j) : e.id = entryIDs[r][j]
  BY <1>1 DEF EntriesKnown
<1>5. /\ stage[c] = "unregistering" => entry[c] = entryIDs[r][j]
      /\ stage[c] = "unmapping" => EntriesOf(r, j) = {}
  BY <1>1 DEF EntriesKnown
<1>6. row[j] \in {"disabled", "deleted"} /\ changedAt[j] = r =>
        stage[c] \in {"looking_up", "unregistering", "unmapping"}
  BY <1>1 DEF Stopping
<1>7. OneCall(r, j)'
  BY <1>1 DEF OneCall
<1>8. \A e \in EntriesOf(r, j) : e.id # 0
  BY <1>1 DEF EntriesOf, MapInv, MapRest, IdsGiven
<1> USE DEF schedVars, dbVars, history
<1>9. CASE Reread(c)
  <2>1. /\ UNCHANGED <<entries, entryIDs>> /\ stage[c] = "rereading"
        /\ stage'[c] \in {"registering", "returned"}
    BY <1>2, <1>9 DEF Reread, TypeOK
  <2>2. EntriesKnown(r, j)'
    BY <2>1, <1>1, <1>4 DEF EntriesKnown, EntriesOf
  <2>3. Stopping(r, j)'
    BY <2>1, <1>1, <1>6 DEF Stopping
  <2> QED BY <2>2, <2>3, <1>7 DEF Calm
<1>10. CASE RegisterEntry(c) /\ j \notin Parses
  <2>1. UNCHANGED <<entries, entryIDs>> /\ stage[c] = "registering" /\ stage'[c] = "returned"
    BY <1>2, <1>10 DEF RegisterEntry, TypeOK
  <2>2. EntriesKnown(r, j)'
    BY <2>1, <1>1, <1>4 DEF EntriesKnown, EntriesOf, Active
  <2>3. Stopping(r, j)'
    BY <2>1, <1>1, <1>6 DEF Stopping
  <2> QED BY <2>2, <2>3, <1>7 DEF Calm
<1>11. CASE RegisterEntry(c) /\ j \in Parses
  <2>1. /\ entries' = [entries EXCEPT ![r] = @ \cup {[id |-> lastID[r] + 1, job |-> j]}]
        /\ entry' = [entry EXCEPT ![c] = lastID[r] + 1]
        /\ stage' = [stage EXCEPT ![c] = "mapping"] /\ stage[c] = "registering"
        /\ entryIDs' = entryIDs
        /\ reenabled' = IF entryIDs[r][j] = 0 THEN reenabled ELSE reenabled \cup {<<r, j>>}
    BY <1>11 DEF RegisterEntry
  <2>2. entryIDs[r][j] = 0
    <3> SUFFICES ASSUME entryIDs[r][j] # 0 PROVE FALSE
      OBVIOUS
    <3>1. <<r, j>> \in reenabled'
      BY <2>1
    <3>2. Disturbed(r, j)'
      BY <3>1 DEF Disturbed
    <3> QED BY <3>2
  <2>3. EntriesOf(r, j) = {}
    BY <2>1, <2>2, <1>4, <1>8
  <2>4. stage'[c] = "mapping" /\ entry'[c] = lastID[r] + 1
    BY <2>1, <1>2 DEF TypeOK
  <2>5. entries'[r] = entries[r] \cup {[id |-> lastID[r] + 1, job |-> j]}
    BY <2>1, <1>1, <1>2 DEF TypeOK
  <2>6. \A e \in EntriesOf(r, j)' : e.id = entry'[c]
    BY <2>3, <2>4, <2>5 DEF EntriesOf
  <2>7. EntriesKnown(r, j)'
    BY <2>1, <2>2, <2>4, <2>6, <1>1 DEF EntriesKnown, Active
  <2>8. Stopping(r, j)'
    BY <2>1, <1>1, <1>6 DEF Stopping
  <2> QED BY <2>7, <2>8, <1>7 DEF Calm
<1>12. CASE MapEntry(c)
  <2>1. /\ entries' = entries /\ stage[c] = "mapping" /\ stage'[c] = "returned"
        /\ entryIDs'[r][j] = entry[c]
    BY <1>1, <1>2, <1>12 DEF MapEntry, TypeOK
  <2>2. EntriesKnown(r, j)'
    BY <2>1, <1>1, <1>3 DEF EntriesKnown, EntriesOf, Active
  <2>3. Stopping(r, j)'
    BY <2>1, <1>1, <1>6 DEF Stopping
  <2> QED BY <2>2, <2>3, <1>7 DEF Calm
<1>13. CASE LookUp(c)
  <2>1. /\ UNCHANGED <<entries, entryIDs>> /\ stage[c] = "looking_up"
        /\ entry'[c] = entryIDs[r][j]
        /\ stage'[c] = IF entryIDs[r][j] = 0 THEN "returned" ELSE "unregistering"
    BY <1>2, <1>13 DEF LookUp, TypeOK
  <2>2. EntriesKnown(r, j)'
    BY <2>1, <1>1, <1>4 DEF EntriesKnown, EntriesOf
  <2>3. Stopping(r, j)'
    BY <2>1, <1>1 DEF Stopping, Active
  <2> QED BY <2>2, <2>3, <1>7 DEF Calm
<1>14. CASE Unregister(c)
  <2>1. /\ UNCHANGED <<entry, entryIDs>> /\ stage[c] = "unregistering"
        /\ entries'[r] = {e \in entries[r] : e.id # entry[c]}
        /\ stage'[c] = IF \E e \in entries[r] : e.id = entry[c] THEN "unmapping" ELSE "returned"
    BY <1>1, <1>2, <1>14 DEF Unregister, TypeOK
  <2>2. EntriesOf(r, j)' = {}
    BY <2>1, <1>4, <1>5 DEF EntriesOf
  <2>3. EntriesKnown(r, j)'
    BY <2>1, <2>2, <1>1 DEF EntriesKnown
  <2>4. entryIDs[r][j] # 0 => [id |-> entryIDs[r][j], job |-> j] \in entries[r]
    BY <2>1, <1>1 DEF MapInv, MapRest, MappedEntryLive
  <2>5. entryIDs[r][j] # 0 => stage'[c] = "unmapping"
    BY <2>1, <2>4, <1>5
  <2>6. Stopping(r, j)'
    BY <2>1, <2>5, <1>1 DEF Stopping, Active
  <2> QED BY <2>3, <2>6, <1>7 DEF Calm
<1>15. CASE Unmap(c)
  <2>1. /\ UNCHANGED entries /\ stage[c] = "unmapping" /\ stage'[c] = "returned"
        /\ entryIDs'[r][j] = 0
    BY <1>1, <1>2, <1>15 DEF Unmap, TypeOK
  <2>2. EntriesKnown(r, j)'
    BY <2>1, <1>1, <1>5 DEF EntriesKnown, EntriesOf, Active
  <2>3. Stopping(r, j)'
    BY <2>1, <1>1 DEF Stopping, Active
  <2> QED BY <2>2, <2>3, <1>7 DEF Calm
<1> QED BY <1>9, <1>10, <1>11, <1>12, <1>13, <1>14, <1>15 DEF Proceed

LEMMA CalmStep == MapInv /\ CalmInv /\ [Next]_vars => CalmInv'
<1> SUFFICES ASSUME MapInv, CalmInv, [Next]_vars, NEW r \in Replicas, NEW j \in Jobs
             PROVE  CalmOf(r, j)'
  BY DEF CalmInv
<1>1. CalmOf(r, j)
  BY DEF CalmInv
<1>2. CASE UNCHANGED <<dbVars, schedVars, callVars, history>> \/ \E t \in tasks : Finish(t)
  <2>1. UNCHANGED <<row, schedVars, callVars, history>>
    BY <1>2 DEF Finish, dbVars
  <2>2. /\ Pending(r, j)' = Pending(r, j) /\ EntriesOf(r, j)' = EntriesOf(r, j)
        /\ Disturbed(r, j)' = Disturbed(r, j)
    BY <2>1 DEF Pending, Active, EntriesOf, Disturbed, schedVars, callVars, history
  <2> QED BY <1>1, <2>1, <2>2, CalmSame DEF schedVars, callVars, history
<1>3. ASSUME NEW c \in Calls, Proceed(c) PROVE CalmOf(r, j)'
  <2>1. CASE r = at[c] /\ j = JobOf[c]
    <3>1. at' = at
      BY <1>3 DEF Proceed, Reread, RegisterEntry, MapEntry, LookUp, Unregister, Unmap
    <3> QED BY <2>1, <3>1, <1>3, CalmHere
  <2>2. CASE ~(r = at[c] /\ j = JobOf[c])
    BY <2>2, <1>3, CalmElsewhere
  <2> QED BY <2>1, <2>2
<1>4. ASSUME NEW q \in Replicas, NEW e \in entries[q], Fire(q, e) PROVE CalmOf(r, j)'
  BY <1>4, <1>2 DEF Fire
<1>5. ASSUME NEW t \in tasks, Work(t) PROVE CalmOf(r, j)'
  BY <1>5, <1>2 DEF Work, Take, ExecutePrompt
<1>6. CASE UNCHANGED vars
  BY <1>6, <1>2 DEF vars
<1>7. ASSUME NEW q \in Replicas, Boot(q) PROVE CalmOf(r, j)'
  BY <1>7, CalmBoot
<1>8. ASSUME NEW q \in Replicas, Crash(q) PROVE CalmOf(r, j)'
  BY <1>8, CalmCrash
<1>9. ASSUME NEW c \in Calls, NEW q \in Replicas, NEW op \in Ops, Change(c, q, op)
      PROVE  CalmOf(r, j)'
  BY <1>9, CalmChange
<1> QED BY <1>3, <1>4, <1>5, <1>6, <1>7, <1>8, <1>9 DEF Next

LEMMA CalmInvHolds == Spec => [](MapInv /\ CalmInv)
<1>1. MapInv /\ CalmInv /\ [Next]_vars => (MapInv /\ CalmInv)'
  BY MapStep, CalmStep
<1> QED BY <1>1, MapInit, CalmInit, PTL DEF Spec

\* A replica fires an undisturbed job from one entry: ScheduleJob writes the map
\* after it registers, so two entries need two calls at once, or an enable of a
\* job that is scheduled.
THEOREM OneEntryHolds == Spec => []OneEntryUnlessDisturbed
<1>1. MapInv /\ CalmInv => OneEntryUnlessDisturbed
  <2> SUFFICES ASSUME MapInv, CalmInv, NEW r \in Replicas, NEW j \in Jobs, ~Disturbed(r, j),
                      NEW d \in EntriesOf(r, j), NEW e \in EntriesOf(r, j)
               PROVE  d = e
    BY DEF OneEntryUnlessDisturbed
  <2>1. EntriesKnown(r, j)
    BY DEF CalmInv, CalmOf, Calm
  <2>2. d.id = e.id
    BY <2>1 DEF EntriesKnown
  <2> QED BY <2>2 DEF EntriesOf, MapInv, MapRest, UniqueIds
<1> QED BY <1>1, CalmInvHolds, PTL

\* A replica that has disabled or deleted an undisturbed job and answered fires it no
\* more (handleUpdateCronJob, handleDeleteCronJob, UnscheduleJob).
THEOREM StopsHolds == Spec => []StopsUnlessDisturbed
<1>1. MapInv /\ CalmInv => StopsUnlessDisturbed
  <2> SUFFICES ASSUME MapInv, CalmInv, NEW r \in Replicas, NEW j \in Jobs,
                      Stopped(r, j), ~Disturbed(r, j), NEW e \in EntriesOf(r, j)
               PROVE  FALSE
    BY DEF StopsUnlessDisturbed
  <2>1. entryIDs[r][j] = 0 /\ e.id = entryIDs[r][j]
    BY DEF CalmInv, CalmOf, Calm, Stopping, Stopped, EntriesKnown
  <2>2. e.id \in 1..lastID[r]
    BY DEF EntriesOf, MapInv, MapRest, IdsGiven
  <2> QED BY <2>1, <2>2
<1> QED BY <1>1, CalmInvHolds, PTL
=============================================================================
