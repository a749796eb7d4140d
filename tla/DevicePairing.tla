--------------------------- MODULE DevicePairing ---------------------------
(***************************************************************************)
(* riverbank/handlers.go: one device is paired over two Redis keys, each    *)
(* with a TTL: device:pair (the status) and device:user_code.  The device    *)
(* polls for its token while users decide; each handler is several Redis     *)
(* commands, and the errors of Set and Del are ignored.                      *)
(***************************************************************************)
EXTENDS Naturals, FiniteSets

CONSTANTS
  DevPolls,      \* polls of the device
  DevDecisions,  \* decisions of users, in one of two ways
  DevLoopback    \* whether a device on the same host is approved at once

ASSUME DevAssumption == DevPolls \intersect DevDecisions = {} /\ DevLoopback \in BOOLEAN

VARIABLES
  devPair,     \* status under device:pair, "none" if there is no such key
  devCode,     \* whether device:user_code is there
  devAsked,    \* whether the codes were handed out
  devAt,       \* where each handler is
  devCurrent,  \* decisions since whose read the pair has not gone (history variable)
  devGranted, devRefused,  \* answers to the device
  devRaced     \* polls that took no pair away for their answer, and decisions that brought one
               \* back that had gone since they read it (history variable)

devVars == <<devPair, devCode, devAsked, devAt, devCurrent, devGranted, devRefused, devRaced>>

Handlers == DevPolls \union DevDecisions

DevInit ==
  /\ devPair = "none"
  /\ devCode = FALSE
  /\ devAsked = FALSE
  /\ devAt = [h \in Handlers |-> "new"]
  /\ devCurrent = {}
  /\ devGranted = {}
  /\ devRefused = {}
  /\ devRaced = {}

DevGo(h, at) == devAt' = [devAt EXCEPT ![h] = at]

\* handleDeviceCode: nobody else knows the codes before the answer, which is sent even if
\* a Set failed.
DevRequest ==
  /\ ~devAsked
  /\ devAsked' = TRUE
  /\ devPair' \in {"none", "pending"} \union (IF DevLoopback THEN {"approved"} ELSE {})
  /\ devCode' \in BOOLEAN
  /\ UNCHANGED <<devAt, devCurrent, devGranted, devRefused, devRaced>>

\* A TTL runs out; the keys have one each.
DevExpire ==
  /\ \/ devPair # "none" /\ devPair' = "none" /\ devCurrent' = {} /\ UNCHANGED devCode
     \/ devCode /\ devCode' = FALSE /\ UNCHANGED <<devPair, devCurrent>>
  /\ UNCHANGED <<devAsked, devAt, devGranted, devRefused, devRaced>>

-----------------------------------------------------------------------------
(* handleDeviceToken *)

\* The Get; a pairing that is pending or gone ends the poll.
DevPoll(h) ==
  /\ devAsked /\ devAt[h] = "new"
  /\ DevGo(h, CASE devPair = "approved" -> "granting"
                [] devPair = "denied" -> "refusing"
                [] OTHER -> "over")
  /\ UNCHANGED <<devPair, devCode, devAsked, devCurrent, devGranted, devRefused, devRaced>>

\* Fault: the pairing is left for the next poll.
DevLeave(h) == UNCHANGED <<devPair, devCurrent, devRaced>>

\* The Del of the pair, whatever its status is by now; there may be none, and it may fail.
DevClear(h) ==
  \/ /\ devPair' = "none" /\ devCurrent' = {}
     /\ devRaced' = IF devPair = "none" THEN devRaced \union {h} ELSE devRaced
  \/ UNCHANGED <<devPair, devCurrent>> /\ devRaced' = devRaced \union {h}

DevDelete(h) ==
  /\ devAt[h] \in {"granting", "refusing"}
  /\ DevClear(h)
  /\ IF devAt[h] = "granting" THEN DevGo(h, "cleaning") /\ UNCHANGED devRefused
     ELSE DevGo(h, "over") /\ devRefused' = devRefused \union {h}
  /\ UNCHANGED <<devCode, devAsked, devGranted>>

\* Del of the user code, and the answer.
DevGrant(h) ==
  /\ devAt[h] = "cleaning"
  /\ devCode' \in {devCode, FALSE}
  /\ devGranted' = devGranted \union {h}
  /\ DevGo(h, "over")
  /\ UNCHANGED <<devPair, devAsked, devCurrent, devRefused, devRaced>>

-----------------------------------------------------------------------------
(* handleDeviceApprove *)

\* The Get of the user code: 404 if it is gone.
DevLookup(h) ==
  /\ devAsked /\ devAt[h] = "new"
  /\ DevGo(h, IF devCode THEN "found" ELSE "over")
  /\ UNCHANGED <<devPair, devCode, devAsked, devCurrent, devGranted, devRefused, devRaced>>

\* Fault: the pair is not looked up, and taken to be there.
DevAssumed == TRUE

DevThere == devPair # "none"

\* The Get of the pair: 404 if it is gone.
DevReread(h) ==
  /\ devAt[h] = "found"
  /\ DevGo(h, IF DevThere THEN "deciding" ELSE "over")
  /\ devCurrent' = devCurrent \union {h}
  /\ UNCHANGED <<devPair, devCode, devAsked, devGranted, devRefused, devRaced>>

\* The Set, whatever the status was and whether or not the pair is still there; it may fail.
DevDecide(h) ==
  /\ devAt[h] = "deciding"
  /\ DevGo(h, "over")
  /\ \/ /\ devPair' \in {"approved", "denied"}
        /\ devRaced' = IF devPair = "none" /\ h \notin devCurrent
                       THEN devRaced \union {h} ELSE devRaced
     \/ UNCHANGED <<devPair, devRaced>>
  /\ UNCHANGED <<devCode, devAsked, devCurrent, devGranted, devRefused>>

DevNext ==
  \/ DevRequest \/ DevExpire
  \/ \E h \in DevPolls : DevPoll(h) \/ DevDelete(h) \/ DevGrant(h)
  \/ \E h \in DevDecisions : DevLookup(h) \/ DevReread(h) \/ DevDecide(h)

-----------------------------------------------------------------------------
(* Correctness *)

DevTypeOK ==
  /\ devPair \in {"none", "pending", "approved", "denied"}
  /\ devCode \in BOOLEAN /\ devAsked \in BOOLEAN /\ devRaced \subseteq Handlers
  /\ devAt \in [Handlers -> {"new", "granting", "refusing", "cleaning", "found", "deciding", "over"}]
  /\ devCurrent \subseteq DevDecisions /\ devGranted \subseteq DevPolls /\ devRefused \subseteq DevPolls

\* A pairing is answered once, and is over then.  Overlapping handlers stretch that by one
\* each: a poll that answers though the pair it read has gone or its Del fails, a decision
\* whose Set comes after the pair it read has gone (handleDeviceToken, handleDeviceApprove).
\* The answers and the pair still there are never more than one and those handlers.
DevOnce ==
  Cardinality(devGranted \union devRefused) + (IF devPair = "none" THEN 0 ELSE 1)
    <= 1 + Cardinality(devRaced)
=============================================================================
