---------------------------- MODULE AuditExport ----------------------------
(***************************************************************************)
(* wetland/footprint: events are inserted by handlers and by the audit       *)
(* middleware's goroutines, and the exporter sends what its cursor has not    *)
(* passed.  An id is taken when an INSERT begins and is seen when it commits;  *)
(* a query returns the newest rows; the cursor is in memory only.             *)
(***************************************************************************)
EXTENDS Naturals, FiniteSets, FiniteSetsExt

CONSTANTS
  AudEvents,     \* bound: events are 1..AudEvents
  AudLimit,      \* LIMIT of the exporter's query, 200 in the code
  AudRestartMax  \* bound: restarts of the exporter's process

ASSUME AudAssumption == AudEvents \in Nat /\ AudLimit \in Nat \ {0} /\ AudRestartMax \in Nat

VARIABLES
  audBegun,     \* ids given out
  audRows,      \* ids of the rows
  audFailed,    \* ids of the INSERTs that failed
  audBatch,     \* events of the POST under way, {} if none
  audLast,      \* lastID
  audRestarts,
  audSeen,      \* events the receiver has (history variables, to the end)
  audTwice,     \* those it got again
  audMissed,    \* rows a query did not return, for the limit or as not committed yet,
                \* although it returned younger ones
  audAgain      \* events sent without an answer the exporter got, or before a restart

audLogVars == <<audBegun, audRows, audFailed>>
audHistoryVars == <<audSeen, audTwice, audMissed, audAgain>>
audVars == <<audLogVars, audBatch, audLast, audRestarts, audHistoryVars>>

AudInit ==
  /\ audBegun = 0
  /\ audRows = {}
  /\ audFailed = {}
  /\ audBatch = {}
  /\ audLast = 0
  /\ audRestarts = 0
  /\ audSeen = {}
  /\ audTwice = {}
  /\ audMissed = {}
  /\ audAgain = {}

-----------------------------------------------------------------------------
(* Logger.Log, from logAudit and from the middleware's goroutine *)

AudBegin ==
  /\ audBegun < AudEvents
  /\ audBegun' = audBegun + 1
  /\ UNCHANGED <<audRows, audFailed, audBatch, audLast, audRestarts, audHistoryVars>>

\* The INSERT commits, or fails and the event is lost: callers drop the error.
AudEnd(i) ==
  /\ i <= audBegun /\ i \notin audRows \union audFailed
  /\ \/ audRows' = audRows \union {i} /\ UNCHANGED audFailed
     \/ audFailed' = audFailed \union {i} /\ UNCHANGED audRows
  /\ UNCHANGED <<audBegun, audBatch, audLast, audRestarts, audHistoryVars>>

-----------------------------------------------------------------------------
(* Exporter.export *)

\* Fault: the LIMIT is lost.
AudAllRows == audRows

\* Logger.Query of the exporter: ORDER BY id DESC LIMIT.
Newest ==
  {i \in audRows : Cardinality({j \in audRows : j > i}) < AudLimit}

\* The query, and what is after the cursor.
AudQuery ==
  /\ audBatch = {}
  /\ LET new == {i \in Newest : i > audLast} IN
     /\ new # {}
     /\ audBatch' = new
     /\ audMissed' = audMissed \union
          {i \in 1..Max(new) : i > audLast /\ i \notin new \union audFailed}
  /\ UNCHANGED <<audLogVars, audLast, audRestarts, audSeen, audTwice, audAgain>>

\* Fault: the cursor moves whatever became of the POST.
AudAlways(answered) == TRUE

AudSent(answered) == answered

\* The POST arrives or not, and is answered with success or not; only then the cursor moves.
AudPost ==
  /\ audBatch # {}
  /\ \E arrived, answered \in BOOLEAN :
       /\ answered => arrived
       /\ audSeen' = IF arrived THEN audSeen \union audBatch ELSE audSeen
       /\ audTwice' = IF arrived THEN audTwice \union (audSeen \intersect audBatch) ELSE audTwice
       /\ audLast' = IF AudSent(answered) THEN Max(audBatch \union {audLast}) ELSE audLast
       /\ audAgain' = IF answered THEN audAgain ELSE audAgain \union audBatch
  /\ audBatch' = {}
  /\ UNCHANGED <<audLogVars, audRestarts, audMissed>>

\* The process starts again, with a new exporter.
AudRestart ==
  /\ audRestarts < AudRestartMax
  /\ audRestarts' = audRestarts + 1
  /\ audBatch' = {}
  /\ audLast' = 0
  /\ audAgain' = audAgain \union audSeen
  /\ UNCHANGED <<audLogVars, audSeen, audTwice, audMissed>>

AudNext == AudBegin \/ (\E i \in 1..AudEvents : AudEnd(i)) \/ AudQuery \/ AudPost \/ AudRestart

-----------------------------------------------------------------------------
(* Correctness *)

AudTypeOK ==
  /\ audBegun \in 0..AudEvents /\ audLast \in 0..audBegun /\ audRestarts \in 0..AudRestartMax
  /\ audRows \union audFailed \subseteq 1..audBegun /\ audRows \intersect audFailed = {}
  /\ audBatch \subseteq audRows /\ Cardinality(audBatch) <= AudLimit
  /\ audSeen \subseteq audRows /\ audTwice \union audAgain \subseteq audRows
  /\ audMissed \subseteq 1..audBegun

\* The receiver has every event the cursor has passed, except those a query missed because
\* more than its limit had come since the last one or because they were committed after
\* younger ones; and it has an event twice only if the answer to the first was lost or the
\* exporter started again (export).
AudDelivered ==
  /\ \A i \in audRows : i <= audLast => i \in audSeen \union audMissed
  /\ audTwice \subseteq audAgain
=============================================================================
