------------------------------- MODULE Memory -------------------------------
(***************************************************************************)
(* pond/memory: the memories of one agent, while consolidation passes of      *)
(* several replicas merge, prune and cap them from what they read, recalls    *)
(* count accesses, and embeddings arrive after the rows they belong to.       *)
(* Importance is a float that boosts and merges raise: what depends on it     *)
(* (which of two rows scores higher, which has decayed) is a choice.  So is   *)
(* which rows a search finds.                                                *)
(***************************************************************************)
EXTENDS Integers, Sequences, FiniteSets, SequencesExt, FiniteSetsExt

CONSTANTS
  MemTypes,     \* what the memory_type of each row may be: sequences, of one length
  MemAlike,     \* pairs more similar than the threshold, most similar first
  MemLimit,     \* LIMIT of the pairs query, 50 in the code
  MemCap,       \* maxPerAgent
  MemReplicas,  \* replicas, each of which makes one pass
  MemUseMax     \* bound: recalls and deletions by the user

Rows == UNION {DOMAIN f : f \in MemTypes}

ASSUME MemAssumption ==
  /\ \A f \in MemTypes : DOMAIN f = Rows
  /\ IsFiniteSet(Rows) /\ Rows = 1..Cardinality(Rows)
  /\ MemAlike \in Seq(Rows \X Rows)
  /\ \A k \in DOMAIN MemAlike : MemAlike[k][1] < MemAlike[k][2]
  /\ MemLimit \in Nat /\ MemCap \in Nat /\ MemUseMax \in Nat

VARIABLES
  memType,       \* memory_type of each row, which never changes
  memLive,       \* rows in the table
  memGone,       \* deleted rows
  memCount,      \* access_count
  memEmbedded,   \* rows whose embedding is stored
  memEmbedding,  \* rows whose embedding is being generated
  memPass,       \* the pass of each replica
  memLost,       \* rows merged into a row that was gone, although nobody but their own pass
                 \* had deleted that row since it read the pairs (history variable)
  memOwed,       \* accesses of each row, and of the rows merged into it (history variable)
  memSpoiled,    \* rows that a merge gave another count than that (history variable)
  memUses        \* recalls and deletions so far

memTableVars == <<memLive, memGone, memCount, memEmbedded>>
memHistoryVars == <<memLost, memOwed, memSpoiled>>
memVars == <<memType, memTableVars, memEmbedding, memPass, memHistoryVars, memUses>>

\* [at, todo: the pairs left, by their places in MemAlike, deleted: rows it deleted, counts:
\* of its snapshot, keep: the keeper of the pair at hand, excess: rows over the cap; history,
\* since the snapshot: touched: rows whose count it or another changed, or another deleted,
\* taken: those that another deleted]
MemIdle == [at |-> "idle", todo |-> {}, deleted |-> {}, counts |-> [i \in Rows |-> 0],
            keep |-> 0, excess |-> 0, touched |-> {}, taken |-> {}]

MemInit ==
  /\ memType \in MemTypes
  /\ memLive = Rows \ {Max(Rows)}
  /\ memGone = {}
  /\ memCount = [i \in Rows |-> IF i \in memLive THEN 1 ELSE 0]
  /\ memEmbedded = memLive
  /\ memEmbedding = {}
  /\ memPass = [p \in MemReplicas |-> MemIdle]
  /\ memLost = {}
  /\ memOwed = memCount
  /\ memSpoiled = {}
  /\ memUses = 0

\* Counts change, or rows go, under the merges of other passes.
MemDisturb(others, counted, going) ==
  [q \in MemReplicas |->
     IF q \in others /\ memPass[q].at \in {"merging", "deleting"}
     THEN [memPass[q] EXCEPT !.touched = @ \union counted \union going, !.taken = @ \union going]
     ELSE memPass[q]]

\* Rows deleted for their own sake: by the user, as decayed, or over the cap.
MemDrop(S) ==
  /\ memLive' = memLive \ S
  /\ memGone' = memGone \union S
  /\ UNCHANGED <<memCount, memEmbedded, memHistoryVars>>

-----------------------------------------------------------------------------
(* The stores *)

\* The INSERT of a store, and a goroutine for the embedding if it is made.
MemInsert(i, embeds) ==
  /\ i \notin memLive \union memGone
  /\ memLive' = memLive \union {i}
  /\ memEmbedding' = IF embeds THEN memEmbedding \union {i} ELSE memEmbedding
  /\ UNCHANGED <<memGone, memCount, memEmbedded, memPass, memHistoryVars, memUses>>

\* The semantic store leaves the embedding to the extractor.
StoreEmbeds(i) == memType[i] # "semantic"

\* A memory that a user creates: a semantic one gets no embedding and is never found.
MemCreate(i) == MemInsert(i, StoreEmbeds(i))

MemExtract(i) == MemInsert(i, TRUE)

\* UPDATE ... WHERE id: a row that is gone stays gone.  Without an embedding, if the
\* embedder or the UPDATE fails, the row is never found.
MemEmbed(i) ==
  /\ i \in memEmbedding
  /\ memEmbedding' = memEmbedding \ {i}
  /\ \E stored \in BOOLEAN :
       memEmbedded' = IF stored /\ i \in memLive THEN memEmbedded \union {i} ELSE memEmbedded
  /\ UNCHANGED <<memLive, memGone, memCount, memPass, memHistoryVars, memUses>>

\* What each store's search may return, up to its share of the limit.
EpisodicFound == {i \in memLive \intersect memEmbedded : memType[i] = "episodic"}
SemanticFound == {i \in memLive \intersect memEmbedded : memType[i] = "semantic"}
ProceduralFound == {i \in memLive \intersect memEmbedded : memType[i] = "procedural"}

\* Recall, for a prompt, a tool or a user: each store's SELECT, and one UPDATE that adds to
\* what is there.
MemRecall(S) ==
  /\ memUses < MemUseMax
  /\ S # {} /\ \E found \in {EpisodicFound, SemanticFound, ProceduralFound} : S \subseteq found
  /\ memCount' = [i \in Rows |-> IF i \in S THEN memCount[i] + 1 ELSE memCount[i]]
  /\ memOwed' = [i \in Rows |-> IF i \in S THEN memOwed[i] + 1 ELSE memOwed[i]]
  /\ memPass' = MemDisturb(MemReplicas, S, {})
  /\ memUses' = memUses + 1
  /\ UNCHANGED <<memLive, memGone, memEmbedded, memEmbedding, memLost, memSpoiled>>

\* handleDeleteMemory
MemForget(i) ==
  /\ memUses < MemUseMax
  /\ i \in memLive
  /\ MemDrop({i})
  /\ memPass' = MemDisturb(MemReplicas, {}, {i})
  /\ memUses' = memUses + 1
  /\ UNCHANGED memEmbedding

-----------------------------------------------------------------------------
(* Consolidator.mergeSimilar *)

MemRest == <<memEmbedding, memUses>>
MemSet(p, r) == memPass' = [memPass EXCEPT ![p] = r]

MemSimilar ==
  {k \in DOMAIN MemAlike : /\ ToSet(MemAlike[k]) \subseteq memLive \intersect memEmbedded
                           /\ memType[MemAlike[k][1]] = memType[MemAlike[k][2]]}

\* The query for similar pairs; if it fails, the pass goes on with the pruning.
MemSnapshot(p) ==
  /\ memPass[p].at = "idle"
  /\ \/ MemSet(p, [MemIdle EXCEPT !.at = "merging", !.counts = memCount,
                   !.todo = {k \in MemSimilar :
                               Cardinality({j \in MemSimilar : j <= k}) <= MemLimit}])
     \/ MemSet(p, [MemIdle EXCEPT !.at = "pruning"])
  /\ UNCHANGED <<memTableVars, memHistoryVars, MemRest>>

\* The pair at hand is the most similar one of those left.
PairOf(r) == ToSet(MemAlike[Min(r.todo)])
TodoNext(r) == r.todo \ {Min(r.todo)}

\* Fault: pairs are merged although a row of theirs was deleted in this pass.
MemSkipNone(r) == FALSE

MemSkip(r) == PairOf(r) \intersect r.deleted # {}

\* Fault: the keeper's own count is written back.
MemOwnSum(r, k) == r.counts[k]

MemSum(r, k) == MapThenSumSet(LAMBDA i : r.counts[i], PairOf(r))

\* Rows that passes are at merging into, between the two statements of a merge.
MemKeeping == {memPass[q].keep : q \in {q \in MemReplicas : memPass[q].at = "deleting"}}

\* The UPDATE of the keeper, the row that scores higher, which changes nothing if it is
\* gone; a pair whose UPDATE fails is left alone.
MemUpdate(p) ==
  LET r == memPass[p] IN
  /\ r.at = "merging" /\ r.todo # {} /\ ~MemSkip(r)
  /\ \/ \E k \in PairOf(r) :
          /\ memCount' = IF k \in memLive THEN [memCount EXCEPT ![k] = MemSum(r, k)] ELSE memCount
          /\ memSpoiled' = IF PairOf(r) \intersect (r.touched \union memSpoiled \union MemKeeping) # {}
                           THEN memSpoiled \union {k} ELSE memSpoiled
          /\ memPass' = [MemDisturb(MemReplicas \ {p}, {k}, {}) EXCEPT
                           ![p] = [r EXCEPT !.at = "deleting", !.keep = k, !.touched = @ \union {k}]]
     \/ MemSet(p, [r EXCEPT !.todo = TodoNext(r)]) /\ UNCHANGED <<memCount, memSpoiled>>
  /\ UNCHANGED <<memLive, memGone, memEmbedded, memLost, memOwed, MemRest>>

\* The DELETE of the other row; if it fails both rows stay.
MemDelete(p) ==
  LET r == memPass[p] IN
  /\ r.at = "deleting"
  /\ \/ \E d \in PairOf(r) \ {r.keep} :
          /\ memLive' = memLive \ {d}
          /\ memGone' = memGone \union {d}
          /\ memLost' = IF d \in memLive /\ r.keep \notin memLive \union r.taken
                        THEN memLost \union {d} ELSE memLost
          /\ memOwed' = [memOwed EXCEPT ![r.keep] = @ + memOwed[d]]
          /\ memSpoiled' = IF d \in r.touched THEN memSpoiled \union {r.keep} ELSE memSpoiled
          /\ memPass' = [MemDisturb(MemReplicas \ {p}, {}, {d}) EXCEPT
                           ![p] = [r EXCEPT !.at = "merging", !.todo = TodoNext(r), !.keep = 0,
                                            !.deleted = @ \union {d}]]
     \/ /\ MemSet(p, [r EXCEPT !.at = "merging", !.todo = TodoNext(r), !.keep = 0])
        /\ memSpoiled' = memSpoiled \union {r.keep}
        /\ UNCHANGED <<memLive, memGone, memLost, memOwed>>
  /\ UNCHANGED <<memCount, memEmbedded, MemRest>>

MemPassOver(p) ==
  LET r == memPass[p] IN
  /\ r.at = "merging"
  /\ IF r.todo = {} THEN MemSet(p, [MemIdle EXCEPT !.at = "pruning"])
     ELSE MemSkip(r) /\ MemSet(p, [r EXCEPT !.todo = TodoNext(r)])
  /\ UNCHANGED <<memTableVars, memHistoryVars, MemRest>>

-----------------------------------------------------------------------------
(* The rest of a pass *)

MemClear(p, S, at) ==
  /\ MemDrop(S)
  /\ memPass' = [MemDisturb(MemReplicas \ {p}, {}, S) EXCEPT ![p] = [MemIdle EXCEPT !.at = at]]
  /\ UNCHANGED MemRest

\* pruneDecayedEpisodic, in one DELETE; it may fail.
MemPrune(p) ==
  /\ memPass[p].at = "pruning"
  /\ \E S \in SUBSET {i \in memLive : memType[i] = "episodic" /\ memCount[i] < 2} :
       MemClear(p, S, "counting")

\* enforceHardCap: the count, and by then maybe stale, the DELETE of the lowest scores.
MemCountRows(p) ==
  LET n == Cardinality(memLive) IN
  /\ memPass[p].at = "counting"
  /\ MemSet(p, IF n > MemCap THEN [MemIdle EXCEPT !.at = "cutting", !.excess = n - MemCap]
               ELSE [MemIdle EXCEPT !.at = "over"])
  /\ UNCHANGED <<memTableVars, memHistoryVars, MemRest>>

MemCut(p) ==
  LET excess == memPass[p].excess n == Cardinality(memLive) IN
  /\ memPass[p].at = "cutting"
  /\ \E S \in kSubset(IF excess < n THEN excess ELSE n, memLive) : MemClear(p, S, "over")

MemNext ==
  /\ UNCHANGED memType
  /\ \/ \E i \in Rows : MemCreate(i) \/ MemExtract(i) \/ MemEmbed(i) \/ MemForget(i)
     \/ \E S \in SUBSET Rows : MemRecall(S)
     \/ \E r \in MemReplicas : \/ MemSnapshot(r) \/ MemUpdate(r) \/ MemDelete(r) \/ MemPassOver(r)
                               \/ MemPrune(r) \/ MemCountRows(r) \/ MemCut(r)

-----------------------------------------------------------------------------
(* Correctness *)

MemTypeOK ==
  /\ memType \in MemTypes
  /\ memLive \subseteq Rows /\ memEmbedded \subseteq Rows /\ memEmbedding \subseteq Rows
  /\ memGone \subseteq Rows \ memLive /\ memLost \subseteq memGone /\ memSpoiled \subseteq Rows
  /\ memCount \in [Rows -> Nat] /\ memOwed \in [Rows -> Nat]
  /\ memPass \in [MemReplicas ->
       [at : {"idle", "merging", "deleting", "pruning", "counting", "cutting", "over"},
        todo : SUBSET DOMAIN MemAlike, deleted : SUBSET Rows, counts : [Rows -> Nat],
        keep : Rows \union {0}, excess : Nat, touched : SUBSET Rows, taken : SUBSET Rows]]
  /\ memUses \in 0..MemUseMax

\* A memory that a merge deletes leaves its keeper behind: a row that a cascading merge would
\* miss is one that the pass itself deleted (mergeSimilar: `deleted`).  Nothing in the code
\* keeps another pass or the user from deleting the keeper first.
MemKeeperStays == memLost = {}

\* The accesses of merged memories are on their keepers, each once, row by row.  The code
\* breaks this for a row that a merge writes a sum to of counts that changed since the pass
\* read them, or that another merge is still at; for one that is merged from a row that
\* changes before its DELETE; and for one whose merge fails at the DELETE.  These rows, and
\* those merged with them, are spoiled; all others keep their accesses whatever happens to
\* these.
MemCountsKept == \A i \in memLive \ (memSpoiled \union MemKeeping) : memCount[i] = memOwed[i]

MemNothingLost == MemKeeperStays /\ MemCountsKept
=============================================================================
