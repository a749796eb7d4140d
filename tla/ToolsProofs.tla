----------------------------- MODULE ToolsProofs -----------------------------
(***************************************************************************)
(* Theorems about the components around tool calls: Sandboxes, MCPClient    *)
(* and ToolRegistry, each for every value of its constants.                 *)
(***************************************************************************)
EXTENDS MCTools, FiniteSetTheorems, SequenceTheorems, TLAPS

-----------------------------------------------------------------------------
(* Sandboxes: types *)

BoxAts == BoxVMAt \union {"idle", "create", "module", "dir", "config", "start", "wait", "delete",
                         "leaving", "over"}
BoxThings == {"dir", "vm", "container"}

\* The types, but for how many sandboxes there can be.
BoxTyped ==
  /\ boxKind \in [BoxCalls -> BoxTiers \union {"exec"}]
  /\ boxAt \in [BoxCalls -> BoxAts]
  /\ boxOpen \in [BoxTiers -> Nat]
  /\ boxMade \in Nat
  /\ boxShut \subseteq Nat
  /\ boxUses \in [BoxCalls -> Nat]
  /\ boxDue \in [BoxCalls -> BOOLEAN]
  /\ boxProc \in [BoxCalls -> {"none", "running", "ended", "killed"}]
  /\ boxKids \in [BoxCalls -> SUBSET BoxKidKinds]
  /\ boxGuest \in [BoxCalls -> {"down", "listening", "running", "done"}]
  /\ boxLeft \in [BoxCalls -> SUBSET BoxThings]
  /\ boxDefers \in [BoxCalls -> {<<>>, <<"dir">>, <<"dir", "vm">>}]
  /\ boxStuck \in [BoxCalls -> BOOLEAN]

\* A call has made no more than its own sandbox, and only a call that is past its creation.
Makers == {c \in BoxCalls : boxAt[c] \notin {"idle", "create"}}

MadeByCalls ==
  /\ boxMade <= Cardinality(Makers)
  /\ \A t \in BoxTiers : boxOpen[t] <= boxMade
  /\ \A i \in boxShut : i <= boxMade
  /\ \A c \in BoxCalls : boxUses[c] <= boxMade

-----------------------------------------------------------------------------
(* Sandboxes: what an execution leaves, by where it is *)

BoxEarly == {"idle", "create", "module", "dir"}
Contained(c) == BoxMethod(boxKind[c]) = "container"
InVM(c) == BoxMethod(boxKind[c]) = "vm"
DirDefers(c) == IF Contained(c) \/ InVM(c) THEN <<"dir">> ELSE <<>>
LeftOf(d) == IF d = <<>> THEN {} ELSE IF d = <<"dir">> THEN {"dir"} ELSE {"dir", "vm"}

\* What is deferred follows from where the execution is, and apart from a container it is
\* exactly what the execution has left on the host.
BoxDefersInv(c) ==
  /\ boxLeft[c] \ {"container"} = LeftOf(boxDefers[c])
  /\ boxAt[c] \in BoxEarly \union {"over"} => boxDefers[c] = <<>>
  /\ boxAt[c] \in {"config", "start", "wait", "delete"} => boxDefers[c] = DirDefers(c)
  /\ boxAt[c] \in BoxVMAt => boxDefers[c] = <<"dir", "vm">>

\* The stages of one method are entered by no other.
BoxAtInv(c) ==
  /\ boxAt[c] = "dir" => Contained(c) \/ InVM(c)
  /\ boxAt[c] \in {"config", "delete"} => Contained(c)
  /\ boxAt[c] = "wait" => ~InVM(c)
  /\ boxAt[c] = "create" => boxKind[c] \in BoxTiers

\* A process runs while the execution waits for it or will kill it; a container is there
\* until runsc delete has been tried.
BoxHostInv(c) ==
  /\ boxProc[c] = "running" => boxAt[c] = "wait" \/ boxDefers[c] = <<"dir", "vm">>
  /\ boxAt[c] \in BoxEarly \union {"config", "start"} => boxProc[c] = "none"
  /\ "container" \in boxLeft[c] =>
       (boxAt[c] = "wait" /\ Contained(c)) \/ boxAt[c] = "delete" \/ boxStuck[c]

BoxCallInv(c) == BoxDefersInv(c) /\ BoxAtInv(c) /\ BoxHostInv(c)

\* A child with the pipe keeps Run waiting; one without it is only there without a sandbox.
BoxKidsInv(c) ==
  /\ "piped" \in boxKids[c] => boxAt[c] = "wait"
  /\ "detached" \in boxKids[c] => BoxMethod(boxKind[c]) = "process"

BoxInv ==
  /\ BoxTyped /\ BoxOnePerTier
  /\ \A c \in BoxCalls : BoxCallInv(c)
  /\ \A c \in BoxCalls : BoxKidsInv(c)

LEMMA BoxInitInv == BoxInit => BoxInv
<1> SUFFICES ASSUME BoxInit PROVE BoxInv
  OBVIOUS
<1>1. BoxTyped
  BY DEF BoxInit, BoxTyped, BoxAts
<1>2. BoxOnePerTier
  BY DEF BoxInit, BoxOnePerTier
<1>3. ASSUME NEW c \in BoxCalls PROVE BoxCallInv(c)
  BY DEF BoxInit, BoxCallInv, BoxDefersInv, BoxAtInv, BoxHostInv, BoxEarly, BoxVMAt, LeftOf
<1>4. ASSUME NEW c \in BoxCalls PROVE BoxKidsInv(c)
  BY DEF BoxInit, BoxKidsInv
<1> QED BY <1>1, <1>2, <1>3, <1>4 DEF BoxInv

LEMMA TwoElements ==
  ASSUME NEW S, NEW t \in Seq(S), Len(t) = 2
  PROVE  t = <<t[1], t[2]>>
OBVIOUS

\* What is appended to and taken from the deferred removals.
LEMMA BoxDeferSeqs ==
  /\ Append(<<>>, "dir") = <<"dir">>
  /\ Append(<<"dir">>, "vm") = <<"dir", "vm">>
  /\ Last(<<"dir">>) = "dir" /\ Front(<<"dir">>) = <<>>
  /\ Last(<<"dir", "vm">>) = "vm" /\ Front(<<"dir", "vm">>) = <<"dir">>
  /\ <<>> # <<"dir">> /\ <<>> # <<"dir", "vm">> /\ <<"dir">> # <<"dir", "vm">>
<1>2. Last(<<"dir">>) = "dir" /\ Last(<<"dir", "vm">>) = "vm"
  BY DEF Last
<1>3. <<>> # <<"dir">> /\ <<>> # <<"dir", "vm">> /\ <<"dir">> # <<"dir", "vm">>
  <2>1. Len(<<>>) = 0 /\ Len(<<"dir">>) = 1 /\ Len(<<"dir", "vm">>) = 2
    OBVIOUS
  <2> QED BY <2>1
<1>4. Front(<<"dir">>) = <<>>
  BY SubSeqEmpty DEF Front
<1>5. Front(<<"dir", "vm">>) = <<"dir">>
  <2>1. Front(<<"dir", "vm">>) = SubSeq(<<"dir", "vm">>, 1, 1)
    BY DEF Front
  <2>2. /\ SubSeq(<<"dir", "vm">>, 1, 1) \in Seq({"dir", "vm"})
        /\ Len(SubSeq(<<"dir", "vm">>, 1, 1)) = 1
        /\ SubSeq(<<"dir", "vm">>, 1, 1)[1] = "dir"
    BY SubSeqProperties
  <2> QED BY <2>1, <2>2
<1>6. Append(<<>>, "dir") = <<"dir">>
  <2>1. <<>> \in Seq({"dir"}) /\ Len(<<>>) = 0
    BY EmptySeq
  <2>2. /\ Append(<<>>, "dir") \in Seq({"dir"}) /\ Len(Append(<<>>, "dir")) = 1
        /\ Append(<<>>, "dir")[1] = "dir"
    BY <2>1, AppendProperties
  <2> QED BY <2>2
<1>7. Append(<<"dir">>, "vm") = <<"dir", "vm">>
  <2>1. <<"dir">> \in Seq({"dir", "vm"}) /\ Len(<<"dir">>) = 1 /\ <<"dir">>[1] = "dir"
    OBVIOUS
  <2>2. /\ Append(<<"dir">>, "vm") \in Seq({"dir", "vm"})
        /\ Len(Append(<<"dir">>, "vm")) = 2
        /\ Append(<<"dir">>, "vm")[1] = "dir" /\ Append(<<"dir">>, "vm")[2] = "vm"
    BY <2>1, AppendProperties
  <2> QED BY <2>2, TwoElements
<1> QED BY <1>2, <1>3, <1>4, <1>5, <1>6, <1>7

-----------------------------------------------------------------------------
(* Sandboxes: the steps of an execution *)

BoxUntouched(d) ==
  /\ boxKind'[d] = boxKind[d] /\ boxAt'[d] = boxAt[d] /\ boxProc'[d] = boxProc[d]
  /\ boxLeft'[d] = boxLeft[d] /\ boxDefers'[d] = boxDefers[d] /\ boxStuck'[d] = boxStuck[d]

LEMMA BoxFrame ==
  ASSUME NEW d \in BoxCalls, BoxCallInv(d), BoxUntouched(d)
  PROVE  BoxCallInv(d)'
BY DEF BoxCallInv, BoxUntouched, BoxDefersInv, BoxAtInv, BoxHostInv, Contained, InVM, DirDefers

BoxAction(c) ==
  \/ BoxStep(c) \/ BoxVMFails(c) \/ BoxContextEnds(c) \/ BoxKill(c) \/ BoxProcess(c)
  \/ BoxChild(c) \/ BoxGuestStep(c)

LEMMA BoxOthersKept ==
  ASSUME BoxTyped, NEW c \in BoxCalls, BoxAction(c)
  PROVE  \A d \in BoxCalls \ {c} : BoxUntouched(d)
<1> USE DEF BoxTyped, BoxUntouched, BoxSet, BoxGo, BoxReturn, boxExecutorVars, boxHostVars
<1>1. CASE BoxLookup(c)
  BY <1>1 DEF BoxLookup, BoxEnter
<1>2. CASE BoxCreate(c)
  BY <1>2 DEF BoxCreate, BoxRecheck, BoxEnter
<1>3. CASE BoxModule(c)
  BY <1>3 DEF BoxModule
<1>4. CASE BoxDir(c)
  BY <1>4 DEF BoxDir
<1>5. CASE BoxConfig(c)
  BY <1>5 DEF BoxConfig
<1>6. CASE BoxStart(c)
  BY <1>6 DEF BoxStart, BoxDefer
<1>7. CASE BoxWait(c)
  BY <1>7 DEF BoxWait, BoxRunReturns
<1>8. CASE BoxDelete(c)
  BY <1>8 DEF BoxDelete
<1>9. CASE BoxVMStep(c)
  BY <1>9 DEF BoxVMStep, BoxVMNext
<1>10. CASE BoxLeave(c)
  BY <1>10 DEF BoxLeave
<1>11. CASE BoxVMFails(c)
  BY <1>11 DEF BoxVMFails
<1>12. CASE BoxContextEnds(c)
  BY <1>12 DEF BoxContextEnds
<1>13. CASE BoxKill(c)
  BY <1>13 DEF BoxKill, BoxTied
<1>14. CASE BoxProcess(c)
  BY <1>14 DEF BoxProcess
<1>15. CASE BoxChild(c)
  BY <1>15 DEF BoxChild
<1>16. CASE BoxGuestStep(c)
  BY <1>16 DEF BoxGuestStep
<1> QED BY <1>1, <1>2, <1>3, <1>4, <1>5, <1>6, <1>7, <1>8, <1>9, <1>10, <1>11, <1>12, <1>13, <1>14, <1>15, <1>16 DEF BoxAction, BoxStep

LEMMA BoxEnterTyped ==
  ASSUME BoxTyped, NEW c \in BoxCalls, NEW i \in Nat, BoxEnter(c, i)
  PROVE  boxUses' \in [BoxCalls -> Nat] /\ boxAt' \in [BoxCalls -> BoxAts]
<1>1. boxUses' \in [BoxCalls -> Nat]
  BY DEF BoxTyped, BoxEnter, BoxSet
<1>2. PICK at \in BoxAts : boxAt' = [boxAt EXCEPT ![c] = at]
  BY DEF BoxEnter, BoxGo, BoxSet, BoxAts
<1> QED BY <1>1, <1>2 DEF BoxTyped

LEMMA BoxTypedStep ==
  ASSUME BoxInv, NEW c \in BoxCalls, BoxAction(c)
  PROVE  BoxTyped'
<1> BoxTyped /\ BoxCallInv(c)
  BY DEF BoxInv
<1> USE DEF BoxTyped, BoxSet, BoxGo, BoxReturn, boxExecutorVars, boxHostVars
<1>1. CASE BoxLookup(c)
  <2>1. boxUses' \in [BoxCalls -> Nat] /\ boxAt' \in [BoxCalls -> BoxAts]
    <3>1. boxKind[c] # "exec" => boxOpen[boxKind[c]] \in Nat
      OBVIOUS
    <3>2. CASE boxAt' = [boxAt EXCEPT ![c] = "create"] /\ UNCHANGED boxUses
      BY <3>2 DEF BoxAts
    <3> QED BY <1>1, <3>1, <3>2, BoxEnterTyped DEF BoxLookup
  <2> QED BY <1>1, <2>1 DEF BoxLookup
<1>2. CASE BoxCreate(c)
  <2>1. boxKind[c] \in BoxTiers
    BY <1>2 DEF BoxCreate, BoxAtInv, BoxCallInv
  <2>2. boxUses' \in [BoxCalls -> Nat] /\ boxAt' \in [BoxCalls -> BoxAts]
    BY <1>2, <2>1, BoxEnterTyped DEF BoxCreate
  <2>3. boxOpen' \in [BoxTiers -> Nat] /\ boxMade' \in Nat /\ boxShut' = boxShut
    <3>1. CASE BoxRecheck(c)
      BY <1>2, <3>1 DEF BoxCreate
    <3>2. CASE ~BoxRecheck(c)
      <4>1. /\ boxMade' = boxMade + 1 /\ boxShut' = boxShut
            /\ boxOpen' = [boxOpen EXCEPT ![boxKind[c]] = boxMade + 1]
        BY <1>2, <3>2 DEF BoxCreate
      <4>2. boxMade' \in Nat
        BY <4>1
      <4>3. boxOpen' = [boxOpen EXCEPT ![boxKind[c]] = boxMade']
        BY <4>1
      <4> QED BY <4>1, <4>2, <4>3
    <3> QED BY <3>1, <3>2
  <2> QED BY <1>2, <2>2, <2>3 DEF BoxCreate
<1>3. CASE BoxModule(c)
  BY <1>3 DEF BoxModule, BoxVMAt, BoxAts
<1>4. CASE BoxDir(c)
  <2>1. boxDefers[c] = <<>>
    BY <1>4 DEF BoxDir, BoxCallInv, BoxDefersInv, BoxEarly
  <2>2. boxLeft' \in [BoxCalls -> SUBSET BoxThings]
    <3>1. \/ boxLeft' = boxLeft
          \/ boxLeft' = [boxLeft EXCEPT ![c] = boxLeft[c] \union {"dir"}]
      BY <1>4 DEF BoxDir
    <3>2. boxLeft[c] \union {"dir"} \in SUBSET BoxThings
      BY DEF BoxThings
    <3> QED BY <3>1, <3>2
  <2>3. boxDefers' \in [BoxCalls -> {<<>>, <<"dir">>, <<"dir", "vm">>}]
    <3>1. \/ boxDefers' = boxDefers
          \/ boxDefers' = [boxDefers EXCEPT ![c] = Append(boxDefers[c], "dir")]
      BY <1>4 DEF BoxDir
    <3> QED BY <2>1, <3>1, BoxDeferSeqs
  <2>4. boxAt' \in [BoxCalls -> BoxAts]
    BY <1>4 DEF BoxDir, BoxAts
  <2> QED BY <1>4, <2>2, <2>3, <2>4 DEF BoxDir
<1>5. CASE BoxConfig(c)
  BY <1>5 DEF BoxConfig, BoxVMAt, BoxAts
<1>6. CASE BoxStart(c)
  <2>1. InVM(c) => boxDefers[c] = <<"dir">>
    BY <1>6 DEF BoxStart, BoxCallInv, BoxDefersInv, DirDefers
  <2>2. boxLeft' \in [BoxCalls -> SUBSET BoxThings]
    <3> DEFINE what == IF BoxMethod(boxKind[c]) = "vm" THEN {"vm"}
                       ELSE IF BoxMethod(boxKind[c]) = "container" THEN {"container"} ELSE {}
    <3>1. boxLeft' = boxLeft \/ boxLeft' = [boxLeft EXCEPT ![c] = @ \union what]
      BY <1>6 DEF BoxStart
    <3>2. what \in SUBSET BoxThings
      BY DEF BoxThings
    <3> HIDE DEF what
    <3>3. boxLeft[c] \union what \in SUBSET BoxThings
      BY <3>2
    <3>4. CASE boxLeft' = [boxLeft EXCEPT ![c] = @ \union what]
      BY <3>3, <3>4
    <3> QED BY <3>1, <3>4
  <2>3. boxDefers' \in [BoxCalls -> {<<>>, <<"dir">>, <<"dir", "vm">>}]
    <3>1. \/ boxDefers' = boxDefers
          \/ InVM(c) /\ boxDefers' = [boxDefers EXCEPT ![c] = Append(boxDefers[c], "vm")]
      BY <1>6 DEF BoxStart, BoxDefer, InVM
    <3> QED BY <2>1, <3>1, BoxDeferSeqs
  <2>4. boxAt' \in [BoxCalls -> BoxAts]
    BY <1>6 DEF BoxStart, BoxAts, BoxVMAt
  <2>5. boxProc' \in [BoxCalls -> {"none", "running", "ended", "killed"}]
    BY <1>6 DEF BoxStart
  <2> QED BY <1>6, <2>2, <2>3, <2>4, <2>5 DEF BoxStart
<1>7. CASE BoxWait(c)
  BY <1>7 DEF BoxWait, BoxRunReturns, BoxVMAt, BoxAts
<1>8. CASE BoxDelete(c)
  <2>1. boxLeft' \in [BoxCalls -> SUBSET BoxThings]
    <3>1. boxLeft \in [BoxCalls -> SUBSET BoxThings]
      BY DEF BoxTyped
    <3>2. boxLeft[c] \ {"container"} \in SUBSET BoxThings
      BY <3>1
    <3>3. [boxLeft EXCEPT ![c] = boxLeft[c] \ {"container"}] \in [BoxCalls -> SUBSET BoxThings]
      BY <3>1, <3>2
    <3>4. boxLeft' = boxLeft \/ boxLeft' = [boxLeft EXCEPT ![c] = boxLeft[c] \ {"container"}]
      BY <1>8 DEF BoxDelete
    <3> QED BY <3>1, <3>3, <3>4
  <2> QED BY <1>8, <2>1 DEF BoxDelete, BoxAts
<1>9. CASE BoxVMStep(c)
  BY <1>9 DEF BoxVMStep, BoxVMNext, BoxVMAt, BoxAts
<1>10. CASE BoxLeave(c)
  <2>1. CASE boxDefers[c] = <<>>
    BY <1>10, <2>1 DEF BoxLeave, BoxAts
  <2>2. CASE boxDefers[c] # <<>>
    <3>1. boxLeft' \in [BoxCalls -> SUBSET BoxThings]
      <4>1. boxLeft' = [boxLeft EXCEPT ![c] = boxLeft[c] \ {Last(boxDefers[c])}]
        BY <1>10, <2>2 DEF BoxLeave
      <4> QED BY <4>1
    <3>2. boxDefers' \in [BoxCalls -> {<<>>, <<"dir">>, <<"dir", "vm">>}]
      <4>1. boxDefers' = [boxDefers EXCEPT ![c] = Front(boxDefers[c])]
        BY <1>10, <2>2 DEF BoxLeave
      <4> QED BY <2>2, <4>1, BoxDeferSeqs
    <3>3. boxProc' \in [BoxCalls -> {"none", "running", "ended", "killed"}]
      BY <1>10, <2>2 DEF BoxLeave
    <3> QED BY <1>10, <2>2, <3>1, <3>2, <3>3 DEF BoxLeave
  <2> QED BY <2>1, <2>2
<1>11. CASE BoxVMFails(c)
  BY <1>11 DEF BoxVMFails, BoxVMAt, BoxAts
<1>12. CASE BoxContextEnds(c)
  BY <1>12 DEF BoxContextEnds, BoxVMAt, BoxAts
<1>13. CASE BoxKill(c)
  BY <1>13 DEF BoxKill, BoxTied, BoxVMAt, BoxAts
<1>14. CASE BoxProcess(c)
  BY <1>14 DEF BoxProcess, BoxVMAt, BoxAts
<1>15. CASE BoxChild(c)
  <2>1. \E kids \in SUBSET BoxKidKinds : boxKids' = [boxKids EXCEPT ![c] = kids]
    <3>1. CASE \E kid \in BoxChildren(c) : boxKids' = [boxKids EXCEPT ![c] = @ \union {kid}]
      <4>1. PICK kid \in BoxChildren(c) : boxKids' = [boxKids EXCEPT ![c] = @ \union {kid}]
        BY <3>1
      <4>2. boxKids[c] \union {kid} \in SUBSET BoxKidKinds
        BY DEF BoxChildren, BoxKidKinds
      <4> QED BY <4>1, <4>2
    <3>2. CASE \E kid \in boxKids[c] : boxKids' = [boxKids EXCEPT ![c] = @ \ {kid}]
      <4>1. PICK kid \in boxKids[c] : boxKids' = [boxKids EXCEPT ![c] = @ \ {kid}]
        BY <3>2
      <4>2. boxKids[c] \ {kid} \in SUBSET BoxKidKinds
        OBVIOUS
      <4> QED BY <4>1, <4>2
    <3> QED BY <1>15, <3>1, <3>2 DEF BoxChild
  <2> QED BY <1>15, <2>1 DEF BoxChild
<1>16. CASE BoxGuestStep(c)
  BY <1>16 DEF BoxGuestStep, BoxVMAt, BoxAts
<1> QED BY <1>1, <1>2, <1>3, <1>4, <1>5, <1>6, <1>7, <1>8, <1>9, <1>10, <1>11, <1>12, <1>13, <1>14, <1>15, <1>16 DEF BoxAction, BoxStep

\* A step of an execution keeps what holds of it.
LEMMA BoxOwnStep ==
  ASSUME BoxInv, NEW c \in BoxCalls, BoxAction(c)
  PROVE  BoxCallInv(c)'
<1> BoxTyped /\ BoxCallInv(c)
  BY DEF BoxInv
<1> USE DEF BoxTyped, BoxSet, BoxGo, BoxReturn, boxExecutorVars, boxHostVars, BoxVMAt, BoxAts, BoxEarly,
            BoxCallInv, BoxDefersInv, BoxAtInv, BoxHostInv, Contained, InVM, DirDefers
<1>1. CASE BoxLookup(c)
  BY <1>1 DEF BoxLookup, BoxEnter
<1>2. CASE BoxCreate(c)
  BY <1>2 DEF BoxCreate, BoxRecheck, BoxEnter
<1>3. CASE BoxModule(c)
  BY <1>3 DEF BoxModule
<1>4. CASE BoxDir(c)
  BY <1>4, BoxDeferSeqs DEF BoxDir, LeftOf
<1>5. CASE BoxConfig(c)
  BY <1>5 DEF BoxConfig
<1>6. CASE BoxStart(c)
  <2>1. CASE boxAt'[c] = "socket"
    <3>1. /\ InVM(c) /\ ~Contained(c) /\ boxAt[c] = "start"
          /\ boxDefers' = [boxDefers EXCEPT ![c] = Append(@, "vm")]
          /\ boxLeft' = [boxLeft EXCEPT ![c] = @ \union {"vm"}]
          /\ boxKind' = boxKind /\ boxStuck' = boxStuck
      BY <1>6, <2>1 DEF BoxStart, BoxDefer
    <3>2. boxDefers[c] = <<"dir">> /\ boxDefers'[c] = Append(<<"dir">>, "vm")
      BY <3>1
    <3>3. boxDefers'[c] = <<"dir", "vm">> /\ boxLeft[c] \ {"container"} = {"dir"}
      BY <3>2, BoxDeferSeqs DEF LeftOf
    <3>4. boxLeft'[c] = boxLeft[c] \union {"vm"}
      BY <3>1
    <3>5. boxLeft'[c] \ {"container"} = LeftOf(boxDefers'[c])
      BY <3>3, <3>4, BoxDeferSeqs DEF LeftOf
    <3> QED BY <2>1, <3>1, <3>3, <3>4, <3>5, BoxDeferSeqs
  <2>2. CASE boxAt'[c] = "wait"
    <3>1. /\ ~InVM(c) /\ boxDefers' = boxDefers /\ boxKind' = boxKind /\ boxStuck' = boxStuck
          /\ boxLeft'[c] = boxLeft[c] \union (IF Contained(c) THEN {"container"} ELSE {})
      BY <1>6, <2>2 DEF BoxStart
    <3>2. LeftOf(boxDefers'[c]) = LeftOf(boxDefers[c])
      BY <3>1
    <3> QED BY <1>6, <2>2, <3>1, <3>2 DEF BoxStart
  <2>3. CASE boxAt'[c] \in {"delete", "leaving"}
    BY <1>6, <2>3 DEF BoxStart
  <2> QED BY <1>6, <2>1, <2>2, <2>3 DEF BoxStart
<1>7. CASE BoxWait(c)
  BY <1>7 DEF BoxWait, BoxRunReturns
<1>8. CASE BoxDelete(c)
  <2>1. /\ boxDefers' = boxDefers /\ boxKind' = boxKind /\ boxProc' = boxProc
        /\ boxAt'[c] = "leaving" /\ boxAt[c] = "delete"
        /\ boxLeft'[c] \ {"container"} = boxLeft[c] \ {"container"}
        /\ "container" \notin boxLeft'[c] \/ boxStuck'[c]
    BY <1>8 DEF BoxDelete
  <2> QED BY <2>1
<1>9. CASE BoxVMStep(c)
  BY <1>9 DEF BoxVMStep, BoxVMNext
<1>10. CASE BoxLeave(c)
  <2>1. CASE boxDefers[c] = <<>>
    BY <1>10, <2>1, BoxDeferSeqs DEF BoxLeave
  <2>2. CASE boxDefers[c] # <<>>
    <3> DEFINE last == Last(boxDefers[c])
    <3>1. /\ boxLeft'[c] = boxLeft[c] \ {last} /\ boxDefers'[c] = Front(boxDefers[c])
          /\ boxAt' = boxAt /\ boxKind' = boxKind /\ boxStuck' = boxStuck /\ boxAt[c] = "leaving"
          /\ boxProc'[c] = "running" => last # "vm" /\ boxProc[c] = "running"
      BY <1>10, <2>2 DEF BoxLeave
    <3>2. CASE boxDefers[c] = <<"dir">>
      BY <3>1, <3>2, BoxDeferSeqs DEF LeftOf
    <3>3. CASE boxDefers[c] = <<"dir", "vm">>
      <4>1. last = "vm" /\ boxDefers'[c] = <<"dir">>
        BY <3>1, <3>3, BoxDeferSeqs
      <4>2. boxLeft[c] \ {"container"} = {"dir", "vm"}
        BY <3>3, BoxDeferSeqs DEF LeftOf
      <4>3. boxLeft'[c] \ {"container"} = LeftOf(boxDefers'[c])
        BY <3>1, <4>1, <4>2, BoxDeferSeqs DEF LeftOf
      <4>4. "container" \in boxLeft'[c] => "container" \in boxLeft[c]
        BY <3>1
      <4> HIDE DEF last
      <4> QED BY <3>1, <4>1, <4>3, <4>4, BoxDeferSeqs
    <3> QED BY <2>2, <3>2, <3>3
  <2> QED BY <2>1, <2>2
<1>11. CASE BoxVMFails(c)
  BY <1>11 DEF BoxVMFails
<1>12. CASE BoxContextEnds(c)
  BY <1>12 DEF BoxContextEnds
<1>13. CASE BoxKill(c)
  BY <1>13 DEF BoxKill, BoxTied
<1>14. CASE BoxProcess(c)
  BY <1>14 DEF BoxProcess
<1>15. CASE BoxChild(c)
  BY <1>15 DEF BoxChild
<1>16. CASE BoxGuestStep(c)
  BY <1>16 DEF BoxGuestStep
<1> QED BY <1>1, <1>2, <1>3, <1>4, <1>5, <1>6, <1>7, <1>8, <1>9, <1>10, <1>11, <1>12, <1>13, <1>14, <1>15, <1>16 DEF BoxAction, BoxStep

\* Children come only while Run waits, and Run waits for those with the pipe.
LEMMA BoxKidsStep ==
  ASSUME BoxTyped, NEW c \in BoxCalls, BoxAction(c), \A d \in BoxCalls : BoxKidsInv(d)
  PROVE  \A d \in BoxCalls : BoxKidsInv(d)'
<1> USE DEF BoxTyped, BoxKidsInv, BoxMethod
<1>1. CASE BoxChild(c)
  <2>1. UNCHANGED <<boxKind, boxAt>> /\ \A d \in BoxCalls \ {c} : boxKids'[d] = boxKids[d]
    BY <1>1 DEF BoxChild
  <2>2. CASE boxAt[c] = "wait" /\ \E kid \in BoxChildren(c) :
               boxKids' = [boxKids EXCEPT ![c] = @ \union {kid}]
    <3>1. PICK kid \in BoxChildren(c) : boxKids'[c] = boxKids[c] \union {kid}
      BY <2>2
    <3>2. kid = "detached" => BoxMethod(boxKind[c]) = "process"
      BY DEF BoxChildren, BoxKidKinds
    <3> QED BY <2>1, <2>2, <3>1, <3>2
  <2>3. CASE \E kid \in boxKids[c] : boxKids' = [boxKids EXCEPT ![c] = @ \ {kid}]
    BY <2>1, <2>3
  <2> QED BY <1>1, <2>2, <2>3 DEF BoxChild
<1>2. CASE ~BoxChild(c)
  <2>1. UNCHANGED <<boxKind, boxKids>>
    BY <1>2 DEF BoxAction, BoxStep, BoxLookup, BoxCreate, BoxModule, BoxDir, BoxConfig, BoxStart,
       BoxWait, BoxDelete, BoxVMStep, BoxLeave, BoxVMFails, BoxContextEnds, BoxKill, BoxProcess,
       BoxGuestStep, boxHostVars
  <2>2. \A d \in BoxCalls \ {c} : boxAt'[d] = boxAt[d]
    BY BoxOthersKept DEF BoxUntouched
  <2>3. boxAt[c] = "wait" => boxAt'[c] = "wait" \/ "piped" \notin boxKids[c]
    BY <1>2 DEF BoxAction, BoxStep, BoxLookup, BoxCreate, BoxModule, BoxDir, BoxConfig, BoxStart,
       BoxWait, BoxRunReturns, BoxDelete, BoxVMStep, BoxVMNext, BoxLeave, BoxVMFails, BoxVMAt,
       BoxContextEnds, BoxKill, BoxProcess, BoxGuestStep
  <2> QED BY <2>1, <2>2, <2>3
<1> QED BY <1>1, <1>2

-----------------------------------------------------------------------------
(* Sandboxes: getSandbox and Close *)

LEMMA BoxCloseStep ==
  ASSUME BoxInv, BoxClose
  PROVE  /\ BoxTyped' /\ BoxOnePerTier'
         /\ \A d \in BoxCalls : BoxUntouched(d)
<1> USE DEF BoxInv, BoxTyped, BoxClose, boxHostVars
<1>1. \A d \in BoxCalls : BoxUntouched(d)
  BY DEF BoxUntouched
<1>2. boxShut' \subseteq Nat /\ boxOpen' \in [BoxTiers -> Nat]
  <2>1. \A t \in BoxTiers : boxOpen[t] \in Nat
    OBVIOUS
  <2> DEFINE opens == {boxOpen[t] : t \in BoxTiers}
  <2>2. opens \subseteq Nat
    BY <2>1
  <2>3. boxShut' = boxShut \union (opens \ {0}) /\ boxShut \subseteq Nat
    OBVIOUS
  <2>4. boxOpen' = [t \in BoxTiers |-> 0]
    OBVIOUS
  <2> HIDE DEF opens
  <2>5. boxShut' \subseteq Nat
    BY <2>2, <2>3
  <2>6. boxOpen' \in [BoxTiers -> Nat]
    BY <2>4
  <2> QED BY <2>5, <2>6
<1>3. BoxTyped'
  BY <1>2
<1>4. \A t \in BoxTiers : boxOpen'[t] = 0
  OBVIOUS
<1>5. boxMade' = boxMade /\ boxShut' = boxShut \union ({boxOpen[t] : t \in BoxTiers} \ {0})
  OBVIOUS
<1>6. BoxOnePerTier'
  BY <1>4, <1>5, Zenon DEF BoxOnePerTier
<1> QED BY <1>1, <1>3, <1>6

LEMMA BoxTierStep ==
  ASSUME BoxInv, NEW c \in BoxCalls, BoxAction(c)
  PROVE  BoxOnePerTier'
<1> USE DEF BoxInv, BoxTyped
<1>1. CASE BoxCreate(c) /\ ~BoxRecheck(c)
  <2> DEFINE k == boxKind[c]
  <2>1. /\ boxMade' = boxMade + 1 /\ boxOpen' = [boxOpen EXCEPT ![k] = boxMade + 1]
        /\ boxShut' = boxShut /\ boxOpen[k] = 0
    BY <1>1 DEF BoxCreate, BoxRecheck
  <2>2. k \in BoxTiers
    BY <1>1 DEF BoxCreate, BoxCallInv, BoxAtInv
  <2>3. boxMade \in Nat /\ boxMade + 1 # 0
    OBVIOUS
  <2> HIDE DEF k
  <2>4. {boxOpen'[t] : t \in BoxTiers} \ {0}
          = ({boxOpen[t] : t \in BoxTiers} \ {0}) \union {boxMade + 1}
    <3>1. boxOpen'[k] = boxMade + 1 /\ \A t \in BoxTiers \ {k} : boxOpen'[t] = boxOpen[t]
      BY <2>1, <2>2
    <3> QED BY <2>1, <2>2, <2>3, <3>1
  <2>5. 1..(boxMade + 1) = 1..boxMade \union {boxMade + 1}
    BY <2>3
  <2> QED BY <2>1, <2>4, <2>5 DEF BoxOnePerTier
<1>2. CASE ~(BoxCreate(c) /\ ~BoxRecheck(c))
  <2>1. UNCHANGED boxExecutorVars
    BY <1>2 DEF BoxAction, BoxStep, BoxLookup, BoxCreate, BoxModule, BoxDir, BoxConfig, BoxStart,
       BoxWait, BoxDelete, BoxVMStep, BoxLeave, BoxVMFails, BoxContextEnds, BoxKill, BoxProcess,
       BoxChild, BoxGuestStep, boxExecutorVars
  <2> QED BY <2>1 DEF boxExecutorVars, BoxOnePerTier
<1> QED BY <1>1, <1>2

LEMMA BoxStepInv ==
  ASSUME BoxInv, [BoxNext]_boxVars
  PROVE  BoxInv'
<1>1. CASE UNCHANGED boxVars
  BY <1>1 DEF boxVars, boxExecutorVars, boxHostVars, BoxInv, BoxTyped, BoxOnePerTier, BoxCallInv,
     BoxDefersInv, BoxAtInv, BoxHostInv, BoxKidsInv, Contained, InVM, DirDefers
<1>2. CASE BoxClose
  <2>1. \A d \in BoxCalls : BoxKidsInv(d)'
    BY <1>2 DEF BoxClose, boxHostVars, BoxInv, BoxKidsInv
  <2> QED BY <1>2, <2>1, BoxCloseStep, BoxFrame DEF BoxInv
<1>3. ASSUME NEW c \in BoxCalls, BoxAction(c) PROVE BoxInv'
  <2>1. BoxTyped' /\ BoxOnePerTier' /\ BoxCallInv(c)'
    BY <1>3, BoxTypedStep, BoxTierStep, BoxOwnStep
  <2>2. ASSUME NEW d \in BoxCalls \ {c} PROVE BoxCallInv(d)'
    BY <1>3, BoxOthersKept, BoxFrame DEF BoxInv
  <2>3. \A d \in BoxCalls : BoxKidsInv(d)'
    BY <1>3, BoxKidsStep DEF BoxInv
  <2> QED BY <2>1, <2>2, <2>3 DEF BoxInv
<1> QED BY <1>1, <1>2, <1>3 DEF BoxNext, BoxAction

\* The sandboxes and the executions leave nothing open or running, whatever the calls, the
\* host's tiers, the children of their commands and the order of their steps; but for a
\* container that runsc did not delete, and a child that a command run on the host itself
\* started with its output redirected (getSandbox, Close, the defers of
\* GVisorSandbox.Execute and executeFirecracker, and Run in execHandler and the fallbacks).
THEOREM BoxNothingLeaksHolds == BoxInit /\ [][BoxNext]_boxVars => []BoxNothingLeaks
<1>1. BoxInv => BoxNothingLeaks
  <2> SUFFICES ASSUME BoxInv, NEW c \in BoxCalls
               PROVE  /\ boxAt[c] = "over" =>
                           /\ boxProc[c] # "running"
                           /\ boxKids[c] \subseteq IF BoxMethod(boxKind[c]) = "process"
                                                    THEN {"detached"} ELSE {}
                           /\ boxLeft[c] \subseteq IF boxStuck[c] THEN {"container"} ELSE {}
                      /\ "vm" \in boxLeft[c] => "dir" \in boxLeft[c]
    BY DEF BoxInv, BoxNothingLeaks, BoxCleanUp
  <2>1. BoxCallInv(c) /\ boxLeft[c] \subseteq BoxThings
    BY DEF BoxInv, BoxTyped
  <2>2. "vm" \in boxLeft[c] => "dir" \in boxLeft[c]
    BY <2>1 DEF BoxCallInv, BoxDefersInv, LeftOf
  <2>3. CASE boxAt[c] = "over"
    <3>1. boxLeft[c] \ {"container"} = {} /\ boxDefers[c] = <<>>
      BY <2>1, <2>3 DEF BoxCallInv, BoxDefersInv, LeftOf
    <3>2. boxKids[c] \subseteq {"piped", "detached"} /\ BoxKidsInv(c)
      BY DEF BoxInv, BoxTyped, BoxKidKinds
    <3>3. boxKids[c] \subseteq IF BoxMethod(boxKind[c]) = "process" THEN {"detached"} ELSE {}
      BY <2>3, <3>2 DEF BoxKidsInv
    <3> QED BY <2>1, <2>2, <2>3, <3>1, <3>3, BoxDeferSeqs DEF BoxCallInv, BoxHostInv
  <2> QED BY <2>2, <2>3
<1> QED BY <1>1, BoxInitInv, BoxStepInv, PTL

-----------------------------------------------------------------------------
(* Sandboxes: how many there can be *)

LEMMA BoxMadeInit ==
  ASSUME IsFiniteSet(BoxCalls), BoxInit
  PROVE  MadeByCalls
<1>1. IsFiniteSet(Makers)
  BY FS_Subset DEF Makers
<1> QED BY <1>1, FS_CardinalityType DEF BoxInit, MadeByCalls

LEMMA BoxMadeStep ==
  ASSUME IsFiniteSet(BoxCalls), BoxInv, MadeByCalls, [BoxNext]_boxVars
  PROVE  MadeByCalls'
<1> USE DEF BoxInv, BoxTyped
<1>0. /\ IsFiniteSet(Makers) /\ IsFiniteSet(Makers')
      /\ Cardinality(Makers) \in Nat /\ Cardinality(Makers') \in Nat
  <2>1. Makers \in SUBSET BoxCalls /\ Makers' \in SUBSET BoxCalls
    BY DEF Makers
  <2> QED BY <2>1, FS_Subset, FS_CardinalityType
<1>1. CASE UNCHANGED boxVars
  BY <1>1 DEF boxVars, boxExecutorVars, MadeByCalls, Makers
<1>2. CASE BoxClose
  <2>1. Makers' = Makers /\ boxMade' = boxMade /\ boxUses' = boxUses
    BY <1>2 DEF BoxClose, Makers
  <2>2. \A t \in BoxTiers : boxOpen'[t] = 0
    BY <1>2 DEF BoxClose
  <2>3. \A i \in boxShut' : i <= boxMade
    BY <1>2 DEF BoxClose, MadeByCalls
  <2> QED BY <2>1, <2>2, <2>3 DEF MadeByCalls
<1>3. ASSUME NEW c \in BoxCalls, BoxAction(c) PROVE MadeByCalls'
  <2>1. Makers \subseteq Makers' /\ Cardinality(Makers) <= Cardinality(Makers')
    <3>1. Makers \subseteq Makers'
      BY <1>3 DEF Makers, BoxAction, BoxStep, BoxLookup, BoxCreate, BoxEnter, BoxModule, BoxDir,
         BoxConfig, BoxStart, BoxWait, BoxDelete, BoxVMStep, BoxVMNext, BoxLeave, BoxVMFails,
         BoxContextEnds, BoxKill, BoxProcess, BoxChild, BoxGuestStep, BoxGo, BoxReturn, BoxSet
    <3> QED BY <3>1, <1>0, FS_Subset
  <2>2. CASE BoxCreate(c) /\ ~BoxRecheck(c)
    <3>1. /\ boxMade' = boxMade + 1 /\ boxOpen' = [boxOpen EXCEPT ![boxKind[c]] = boxMade + 1]
          /\ boxShut' = boxShut /\ boxUses' = [boxUses EXCEPT ![c] = boxMade + 1]
          /\ boxAt[c] = "create" /\ boxAt'[c] \notin {"idle", "create"}
      BY <2>2 DEF BoxCreate, BoxEnter, BoxSet, BoxGo
    <3>2. c \notin Makers /\ c \in Makers'
      BY <3>1 DEF Makers
    <3>3. Cardinality(Makers \union {c}) = Cardinality(Makers) + 1
      BY <1>0, <3>2, FS_AddElement
    <3>4. Cardinality(Makers \union {c}) <= Cardinality(Makers')
      BY <1>0, <2>1, <3>2, FS_Subset
    <3> QED BY <1>0, <3>1, <3>3, <3>4 DEF MadeByCalls
  <2>3. CASE BoxLookup(c) \/ (BoxCreate(c) /\ BoxRecheck(c))
    <3>1. UNCHANGED boxExecutorVars
      BY <2>3 DEF BoxLookup, BoxCreate
    <3>2. /\ boxUses' \in {boxUses, [boxUses EXCEPT ![c] = 0]}
             \/ boxUses' = [boxUses EXCEPT ![c] = boxOpen[boxKind[c]]]
          /\ boxUses' \notin {boxUses, [boxUses EXCEPT ![c] = 0]} => boxKind[c] \in BoxTiers
      BY <2>3 DEF BoxLookup, BoxCreate, BoxEnter, BoxSet, BoxCallInv, BoxAtInv
    <3>3. PICK i \in Nat : i <= boxMade /\ boxUses' \in {boxUses, [boxUses EXCEPT ![c] = i]}
      BY <3>2 DEF MadeByCalls
    <3>4. \A d \in BoxCalls : boxUses'[d] <= boxMade
      BY <3>3 DEF MadeByCalls
    <3> QED BY <1>0, <2>1, <3>1, <3>4 DEF MadeByCalls, boxExecutorVars
  <2>4. CASE ~BoxLookup(c) /\ ~BoxCreate(c)
    <3>1. UNCHANGED <<boxExecutorVars, boxUses>>
      BY <1>3, <2>4 DEF BoxAction, BoxStep, BoxModule, BoxDir, BoxConfig, BoxStart, BoxWait,
         BoxDelete, BoxVMStep, BoxLeave, BoxVMFails, BoxContextEnds, BoxKill, BoxProcess, BoxChild,
         BoxGuestStep
    <3> QED BY <1>0, <2>1, <3>1 DEF MadeByCalls, boxExecutorVars
  <2> QED BY <2>2, <2>3, <2>4
<1> QED BY <1>1, <1>2, <1>3 DEF BoxNext, BoxAction

\* The variables of the sandboxes keep their types: a call makes one sandbox at most, so
\* there are never more than calls (getSandbox).
THEOREM BoxTypeCorrect ==
  IsFiniteSet(BoxCalls) => (BoxInit /\ [][BoxNext]_boxVars => []BoxTypeOK)
<1> SUFFICES ASSUME IsFiniteSet(BoxCalls)
             PROVE  BoxInit /\ [][BoxNext]_boxVars => []BoxTypeOK
  OBVIOUS
<1>1. BoxInv /\ MadeByCalls => BoxTypeOK
  <2> SUFFICES ASSUME BoxInv, MadeByCalls PROVE BoxTypeOK
    OBVIOUS
  <2>1. boxMade <= Cardinality(BoxCalls) /\ boxMade \in Nat /\ Cardinality(BoxCalls) \in Nat
    <3>1. Makers \in SUBSET BoxCalls
      BY DEF Makers
    <3>2. Cardinality(Makers) <= Cardinality(BoxCalls) /\ IsFiniteSet(Makers)
      BY <3>1, FS_Subset
    <3> QED BY <3>2, FS_CardinalityType DEF MadeByCalls, BoxInv, BoxTyped
  <2>2. \A i \in Nat : i <= boxMade => i \in BoxInstances
    BY <2>1 DEF BoxInstances
  <2>3. /\ boxMade \in BoxInstances /\ boxShut \subseteq BoxInstances
        /\ boxOpen \in [BoxTiers -> BoxInstances] /\ boxUses \in [BoxCalls -> BoxInstances]
    BY <2>1, <2>2 DEF MadeByCalls, BoxInv, BoxTyped
  <2>4. boxDefers \in [BoxCalls -> Seq({"dir", "vm"})]
    <3>1. {<<>>, <<"dir">>, <<"dir", "vm">>} \subseteq Seq({"dir", "vm"})
      OBVIOUS
    <3> QED BY <3>1 DEF BoxInv, BoxTyped
  <2> QED BY <2>3, <2>4 DEF BoxInv, BoxTyped, BoxTypeOK, BoxAts, BoxThings
<1>2. BoxInit => BoxInv /\ MadeByCalls
  BY BoxInitInv, BoxMadeInit
<1>3. BoxInv /\ MadeByCalls /\ [BoxNext]_boxVars => BoxInv' /\ MadeByCalls'
  BY BoxStepInv, BoxMadeStep
<1> QED BY <1>1, <1>2, <1>3, PTL

-----------------------------------------------------------------------------
(* MCPClient: ids *)

McpTop == Cardinality(McpCalls)
McpStages == {"idle", "sending", "waiting", "leaving"} \union McpOver

\* Messages that answer the request whose id they carry, or none.
Genuine == {m \in McpMessage : m.id # 0 => m.of \in McpCalls /\ mcpId[m.of] = m.id}
AnswersTo(c) == {m \in McpMessage : m.of = c}
McpStarted == {c \in McpCalls : mcpAt[c] # "idle"}

\* A call's id is its own and no larger than the counter, which has counted the calls; the
\* channel under an id is that of the call that has it.
McpIds ==
  /\ mcpAt \in [McpCalls -> McpStages]
  /\ mcpId \in [McpCalls -> 0..McpTop]
  /\ mcpNextID = Cardinality(McpStarted)
  /\ \A c \in McpCalls : (mcpId[c] = 0 <=> mcpAt[c] = "idle") /\ mcpId[c] <= mcpNextID
  /\ \A c, d \in McpStarted : mcpId[c] = mcpId[d] => c = d
  /\ mcpPending \in [1..McpTop -> McpAllCalls]
  /\ \A i \in 1..McpTop : mcpPending[i] # McpNobody => mcpId[mcpPending[i]] = i

\* Every message on its way is genuine.
McpWire ==
  /\ mcpServer \subseteq Genuine
  /\ mcpPipe \in Seq(Genuine)
  /\ mcpRecv \in Seq(Genuine) /\ Len(mcpRecv) <= McpRecvCap
  /\ mcpHand \in Genuine \union {McpNothing}

\* What the receive loop holds, the channels and the results are answers to their calls.
McpAnswers ==
  /\ mcpLoop \in [msg : McpMessage \union {McpNothing}, call : McpAllCalls]
  /\ mcpLoop.call # McpNobody => mcpLoop.msg \in AnswersTo(mcpLoop.call)
  /\ mcpBox \in [McpCalls -> Seq(McpMessage)]
  /\ \A c \in McpCalls : mcpBox[c] \in Seq(AnswersTo(c))
  /\ mcpResult \in [McpCalls -> McpMessage \union {McpNothing}]
  /\ \A c \in McpCalls : mcpAt[c] = "answered" => mcpResult[c] \in AnswersTo(c)

McpFlags ==
  /\ mcpKind \in {"stdio", "sse"}
  /\ mcpWrote \in 0..McpTalk
  /\ mcpClosed \in BOOLEAN /\ mcpPanic \in BOOLEAN

McpInv == McpIds /\ McpWire /\ McpAnswers /\ McpFlags

LEMMA McpTopNat ==
  ASSUME IsFiniteSet(McpCalls)
  PROVE  /\ McpTop \in Nat
         /\ IsFiniteSet(McpStarted) /\ Cardinality(McpStarted) \in 0..McpTop
         /\ IsFiniteSet(McpStarted') /\ Cardinality(McpStarted') \in 0..McpTop
<1>1. McpStarted \in SUBSET McpCalls /\ McpStarted' \in SUBSET McpCalls
  BY DEF McpStarted
<1> QED BY <1>1, FS_Subset, FS_CardinalityType DEF McpTop

LEMMA SkippedIsGenuine ==
  ASSUME IsFiniteSet(McpCalls)
  PROVE  McpSkipped \in Genuine
BY McpTopNat DEF McpSkipped, Genuine, McpMessage, McpAllCalls, McpTop

LEMMA McpInitInv ==
  ASSUME IsFiniteSet(McpCalls), McpInit
  PROVE  McpInv
<1> USE McpTopNat, McpAssumption DEF McpInit
<1>1. McpIds
  <2>1. McpStarted = {}
    BY DEF McpStarted
  <2>2. Cardinality(McpStarted) = 0
    BY <2>1, FS_EmptySet
  <2> QED BY <2>1, <2>2 DEF McpIds, McpStages, McpAllCalls, McpTop
<1>2. McpWire /\ McpAnswers
  <2>1. \A S : <<>> \in Seq(S)
    OBVIOUS
  <2>2. mcpRecv = <<>> /\ Len(mcpRecv) = 0 /\ mcpPipe = <<>>
    OBVIOUS
  <2>3. mcpPipe \in Seq(Genuine) /\ mcpRecv \in Seq(Genuine) /\ Len(mcpRecv) <= McpRecvCap
    BY <2>1, <2>2
  <2>4. /\ mcpBox \in [McpCalls -> Seq(McpMessage)]
        /\ \A c \in McpCalls : mcpBox[c] \in Seq(AnswersTo(c))
    BY <2>1
  <2>5. mcpLoop = [msg |-> McpNothing, call |-> McpNobody] /\ mcpLoop.call = McpNobody
    OBVIOUS
  <2>6. mcpLoop \in [msg : McpMessage \union {McpNothing}, call : McpAllCalls]
    BY <2>5 DEF McpAllCalls
  <2>7. \A c \in McpCalls : mcpAt[c] # "answered" /\ mcpResult[c] = McpNothing
    OBVIOUS
  <2>8. mcpResult \in [McpCalls -> McpMessage \union {McpNothing}]
    OBVIOUS
  <2>9. mcpServer \subseteq Genuine /\ mcpHand \in Genuine \union {McpNothing}
    OBVIOUS
  <2> HIDE DEF McpInit
  <2> QED BY <2>3, <2>4, <2>5, <2>6, <2>7, <2>8, <2>9 DEF McpWire, McpAnswers
<1>3. McpFlags
  <2>1. McpTalk \in Nat /\ mcpWrote = 0 /\ mcpClosed = FALSE /\ mcpPanic = FALSE
    OBVIOUS
  <2>2. mcpWrote \in 0..McpTalk
    BY <2>1
  <2> QED BY <2>1, <2>2 DEF McpFlags
<1> QED BY <1>1, <1>2, <1>3 DEF McpInv

\* Any step but the start of a call leaves the ids alone: it may only take a channel out of
\* pending.
McpKeepsIds ==
  /\ mcpId' = mcpId /\ mcpNextID' = mcpNextID
  /\ mcpAt' \in [McpCalls -> McpStages]
  /\ \A c \in McpCalls : mcpAt'[c] = "idle" <=> mcpAt[c] = "idle"
  /\ mcpPending' = mcpPending
       \/ \E i \in 1..McpTop : mcpPending' = [mcpPending EXCEPT ![i] = McpNobody]

LEMMA McpIdsKept ==
  ASSUME IsFiniteSet(McpCalls), McpIds, McpKeepsIds
  PROVE  McpIds' /\ Genuine' = Genuine
<1>1. McpStarted' = McpStarted
  BY DEF McpStarted, McpKeepsIds
<1>2. /\ mcpPending' \in [1..McpTop -> McpAllCalls]
      /\ \A i \in 1..McpTop : mcpPending'[i] # McpNobody => mcpPending'[i] = mcpPending[i]
  BY DEF McpIds, McpKeepsIds, McpAllCalls
<1>3. Genuine' = Genuine
  BY DEF Genuine, McpKeepsIds, McpMessage, McpAllCalls
<1> QED BY <1>1, <1>2, <1>3 DEF McpIds, McpKeepsIds

\* The new id is the caller's alone, and messages stay genuine.
LEMMA McpCallIds ==
  ASSUME IsFiniteSet(McpCalls), McpIds, NEW c \in McpCalls, McpCall(c)
  PROVE  McpIds' /\ Genuine \subseteq Genuine'
<1> DEFINE n == Cardinality(McpStarted) + 1
<1>1. /\ mcpAt[c] = "idle" /\ mcpAt' = [mcpAt EXCEPT ![c] = "sending"]
      /\ mcpId' = [mcpId EXCEPT ![c] = n] /\ mcpNextID' = n /\ mcpId[c] = 0
      /\ mcpPending' = [mcpPending EXCEPT ![n] = c]
  BY DEF McpCall, McpFreshID, McpIds
<1>2. McpStarted' = McpStarted \union {c} /\ c \notin McpStarted
  BY <1>1 DEF McpStarted, McpIds
<1>3. Cardinality(McpStarted') = n /\ n \in 1..McpTop /\ Cardinality(McpStarted) \in Nat
  BY <1>2, McpTopNat, FS_AddElement
<1> HIDE DEF n
<1>4. mcpAt' \in [McpCalls -> McpStages] /\ mcpId' \in [McpCalls -> 0..McpTop]
  BY <1>1, <1>3, McpTopNat DEF McpIds, McpStages
<1>5. \A d \in McpCalls : d # c => mcpId[d] < n /\ mcpId'[d] = mcpId[d] /\ mcpAt'[d] = mcpAt[d]
  BY <1>1, <1>3 DEF McpIds, n
<1>6. \A d \in McpCalls : (mcpId'[d] = 0 <=> mcpAt'[d] = "idle") /\ mcpId'[d] <= mcpNextID'
  BY <1>1, <1>3, <1>5 DEF McpIds
<1>7. \A d, e \in McpStarted' : mcpId'[d] = mcpId'[e] => d = e
  <2>1. McpStarted' \subseteq McpCalls /\ mcpId'[c] = n
    BY <1>1 DEF McpStarted, McpIds
  <2>2. \A d \in McpStarted : d # c /\ d \in McpCalls
    BY <1>2 DEF McpStarted
  <2> QED BY <1>2, <1>5, <2>1, <2>2, <1>3, McpTopNat DEF McpIds
<1>8. /\ mcpPending' \in [1..McpTop -> McpAllCalls]
      /\ \A i \in 1..McpTop : mcpPending'[i] # McpNobody => mcpId'[mcpPending'[i]] = i
  <2>1. mcpPending' \in [1..McpTop -> McpAllCalls]
    BY <1>1 DEF McpIds, McpAllCalls
  <2>2. ASSUME NEW i \in 1..McpTop, mcpPending'[i] # McpNobody PROVE mcpId'[mcpPending'[i]] = i
    <3>1. CASE i = n
      BY <1>1, <1>3, <3>1 DEF McpIds
    <3>2. CASE i # n
      <4>1. mcpPending'[i] = mcpPending[i] /\ mcpPending[i] \in McpCalls
        BY <1>1, <2>2, <3>2 DEF McpIds, McpAllCalls
      <4>2. mcpId[mcpPending[i]] = i
        BY <2>2, <4>1 DEF McpIds
      <4>3. mcpPending[i] # c
        BY <1>1, <4>2
      <4> QED BY <1>5, <4>1, <4>2, <4>3
    <3> QED BY <3>1, <3>2
  <2> QED BY <2>1, <2>2
<1>9. Genuine \subseteq Genuine'
  <2>1. ASSUME NEW m \in Genuine PROVE m \in Genuine'
    <3>1. CASE m.id = 0
      BY <3>1 DEF Genuine, McpMessage, McpAllCalls
    <3>2. CASE m.id # 0
      <4>1. m.of \in McpCalls /\ mcpId[m.of] = m.id /\ m.of # c
        BY <1>1, <3>2 DEF Genuine
      <4> QED BY <1>5, <4>1 DEF Genuine, McpMessage, McpAllCalls
    <3> QED BY <3>1, <3>2
  <2> QED BY <2>1
<1> QED BY <1>1, <1>2, <1>3, <1>4, <1>6, <1>7, <1>8, <1>9 DEF McpIds

-----------------------------------------------------------------------------
(* MCPClient: messages *)

LEMMA McpWireKept ==
  ASSUME McpWire, Genuine \subseteq Genuine', mcpServer' \subseteq Genuine',
         UNCHANGED <<mcpPipe, mcpRecv, mcpHand>>
  PROVE  McpWire'
<1>1. mcpPipe \in Seq(Genuine') /\ mcpRecv \in Seq(Genuine')
  BY SeqMonotonic DEF McpWire
<1> QED BY <1>1 DEF McpWire

LEMMA McpAnswersKept ==
  ASSUME McpAnswers, UNCHANGED <<mcpLoop, mcpBox, mcpResult>>,
         \A c \in McpCalls : mcpAt'[c] = "answered" => mcpAt[c] = "answered"
  PROVE  McpAnswers'
BY DEF McpAnswers, AnswersTo, McpMessage

LEMMA McpServerGrows ==
  ASSUME IsFiniteSet(McpCalls), McpIds, McpWire, NEW c \in McpCalls, mcpAt[c] # "idle",
         mcpServer' = mcpServer \/ McpArrives(c)
  PROVE  mcpServer' \subseteq Genuine
<1>1. [id |-> mcpId[c], of |-> c] \in Genuine
  BY McpTopNat DEF McpIds, Genuine, McpMessage, McpAllCalls, McpTop
<1> QED BY <1>1 DEF McpArrives, McpWire

\* The steps of a call that has begun, but for the one that takes its answer.
LEMMA McpCallStep ==
  ASSUME IsFiniteSet(McpCalls), McpInv, NEW c \in McpCalls,
         McpSend(c) \/ McpExpire(c) \/ McpLeave(c)
  PROVE  McpInv'
<1> USE DEF McpInv
<1>1. mcpId[c] \in 1..McpTop /\ mcpAt[c] # "idle"
  BY McpTopNat DEF McpIds, McpSend, McpExpire, McpLeave
<1>2. McpKeepsIds
  <2>1. mcpAt' \in [McpCalls -> McpStages]
          /\ \A d \in McpCalls : mcpAt'[d] = "idle" <=> mcpAt[d] = "idle"
    BY <1>1 DEF McpIds, McpSend, McpExpire, McpLeave, McpStages, McpOver
  <2>2. mcpId' = mcpId /\ mcpNextID' = mcpNextID
    BY DEF McpSend, McpExpire, McpLeave, mcpCallVars
  <2>3. mcpPending' = mcpPending \/ mcpPending' = [mcpPending EXCEPT ![mcpId[c]] = McpNobody]
    BY DEF McpSend, McpExpire, McpLeave, McpForget
  <2> QED BY <1>1, <2>1, <2>2, <2>3 DEF McpKeepsIds
<1>3. McpIds' /\ Genuine' = Genuine
  BY <1>2, McpIdsKept
<1>4. McpWire'
  <2>1. UNCHANGED <<mcpPipe, mcpRecv, mcpHand>>
    BY DEF McpSend, McpExpire, McpLeave, mcpServerVars
  <2>2. mcpServer' = mcpServer \/ McpArrives(c)
    BY DEF McpSend, McpExpire, McpLeave, McpFailedSend, mcpServerVars
  <2> QED BY <1>1, <1>3, <2>1, <2>2, McpServerGrows, McpWireKept
<1>5. McpAnswers'
  <2>1. \A d \in McpCalls : mcpAt'[d] = "answered" => mcpAt[d] = "answered"
    BY DEF McpIds, McpSend, McpExpire, McpLeave
  <2>2. UNCHANGED <<mcpLoop, mcpBox, mcpResult>>
    BY DEF McpSend, McpExpire, McpLeave
  <2> QED BY <2>1, <2>2, McpAnswersKept
<1>6. McpFlags'
  BY DEF McpFlags, McpSend, McpExpire, McpLeave, mcpServerVars
<1> QED BY <1>3, <1>4, <1>5, <1>6

LEMMA McpTakeStep ==
  ASSUME IsFiniteSet(McpCalls), McpInv, NEW c \in McpCalls, McpTake(c)
  PROVE  McpInv'
<1> USE DEF McpInv
<1>1. McpKeepsIds
  BY DEF McpTake, McpKeepsIds, McpIds, McpStages, McpOver
<1>2. McpIds' /\ Genuine' = Genuine
  BY <1>1, McpIdsKept
<1>3. McpWire'
  BY <1>2, McpWireKept DEF McpTake, McpWire, mcpServerVars
<1>4. McpAnswers'
  <2>1. mcpBox[c] \in Seq(AnswersTo(c)) /\ mcpBox[c] # <<>> /\ mcpBox[c] \in Seq(McpMessage)
    BY DEF McpAnswers, McpTake
  <2>2. /\ Head(mcpBox[c]) \in AnswersTo(c)
        /\ Tail(mcpBox[c]) \in Seq(AnswersTo(c)) /\ Tail(mcpBox[c]) \in Seq(McpMessage)
    BY <2>1, HeadTailProperties
  <2>3. /\ mcpResult' = [mcpResult EXCEPT ![c] = Head(mcpBox[c])]
        /\ mcpBox' = [mcpBox EXCEPT ![c] = Tail(mcpBox[c])]
        /\ mcpAt' = [mcpAt EXCEPT ![c] = "answered"] /\ mcpLoop' = mcpLoop
    BY DEF McpTake
  <2>4. /\ mcpBox' \in [McpCalls -> Seq(McpMessage)]
        /\ mcpResult' \in [McpCalls -> McpMessage \union {McpNothing}]
    BY <2>2, <2>3 DEF McpAnswers, AnswersTo
  <2>5. \A d \in McpCalls : mcpBox'[d] \in Seq(AnswersTo(d))
    BY <2>2, <2>3 DEF McpAnswers
  <2>6. \A d \in McpCalls : mcpAt'[d] = "answered" => mcpResult'[d] \in AnswersTo(d)
    BY <2>2, <2>3 DEF McpAnswers, McpIds
  <2>7. McpMessage' = McpMessage /\ \A d : AnswersTo(d)' = AnswersTo(d)
    BY DEF McpMessage, AnswersTo, McpAllCalls
  <2> QED BY <2>3, <2>4, <2>5, <2>6, <2>7 DEF McpAnswers
<1>5. McpFlags'
  BY DEF McpFlags, McpTake, mcpServerVars
<1> QED BY <1>2, <1>3, <1>4, <1>5

LEMMA McpCallBegins ==
  ASSUME IsFiniteSet(McpCalls), McpInv, NEW c \in McpCalls, McpCall(c)
  PROVE  McpInv'
<1> USE DEF McpInv
<1>1. McpIds' /\ Genuine \subseteq Genuine'
  BY McpCallIds
<1>2. McpWire'
  BY <1>1, McpWireKept DEF McpCall, McpWire, mcpServerVars
<1>3. \A d \in McpCalls : mcpAt'[d] = "answered" => mcpAt[d] = "answered"
  BY DEF McpCall, McpIds
<1>4. McpAnswers'
  BY <1>3, McpAnswersKept DEF McpCall
<1>5. McpFlags'
  BY DEF McpFlags, McpCall, mcpServerVars
<1> QED BY <1>1, <1>2, <1>4, <1>5

\* The server, the transport's reader and Close: no call and no channel changes.
LEMMA McpTransportStep ==
  ASSUME IsFiniteSet(McpCalls), McpInv, McpServe \/ McpRead \/ McpForward \/ McpClose
  PROVE  McpInv'
<1> USE DEF McpInv
<1>1. UNCHANGED <<mcpCallVars, mcpPending, mcpBox, mcpLoop>>
  BY DEF McpServe, McpRead, McpForward, McpClose
<1>2. McpIds' /\ Genuine' = Genuine
  <2>1. McpKeepsIds
    BY <1>1 DEF McpKeepsIds, mcpCallVars, McpIds
  <2> QED BY <2>1, McpIdsKept
<1>3. McpAnswers'
  BY <1>1, McpAnswersKept DEF mcpCallVars
<1>4. McpFlags'
  <2>1. CASE McpServe
    <3>1. mcpWrote < McpTalk /\ mcpWrote' = mcpWrote + 1 /\ McpTalk \in Nat
          /\ mcpWrote \in 0..McpTalk
      BY <2>1, McpAssumption DEF McpServe, McpFlags
    <3>2. mcpWrote' \in 0..McpTalk
      BY <3>1
    <3> QED BY <2>1, <3>2 DEF McpServe, McpFlags
  <2>2. CASE McpRead
    BY <2>2 DEF McpRead, McpFlags
  <2>3. CASE McpForward
    BY <2>3 DEF McpForward, McpFlags, mcpServerVars
  <2>4. CASE McpClose
    BY <2>4 DEF McpClose, McpCloseAgain, McpFlags, mcpServerVars
  <2> QED BY <2>1, <2>2, <2>3, <2>4
<1>5. McpWire'
  <2> USE DEF McpWire
  <2>1. CASE McpServe
    <3>1. PICK m \in Genuine : mcpPipe' = Append(mcpPipe, m)
      BY <2>1, SkippedIsGenuine DEF McpServe
    <3>2. mcpPipe' \in Seq(Genuine)
      BY <3>1, AppendProperties
    <3> QED BY <1>2, <2>1, <3>2 DEF McpServe
  <2>2. CASE McpRead
    <3>1. mcpPipe \in Seq(Genuine) /\ mcpPipe # <<>>
      BY <2>2 DEF McpRead
    <3>2. Head(mcpPipe) \in Genuine /\ Tail(mcpPipe) \in Seq(Genuine) /\ McpSkipped \in Genuine
      BY <3>1, HeadTailProperties, SkippedIsGenuine
    <3>3. mcpHand' \in Genuine
      BY <2>2, <3>2 DEF McpRead, McpReadPipe, McpReadEvent
    <3>4. mcpPipe' \in Seq(Genuine)
      <4>1. CASE mcpPipe' = Tail(mcpPipe)
        BY <3>2, <4>1
      <4>2. CASE Len(mcpPipe) > 1 /\ mcpPipe' = Tail(Tail(mcpPipe))
        <5>1. Len(Tail(mcpPipe)) = Len(mcpPipe) - 1
          BY <3>1, HeadTailProperties
        <5>2. Tail(mcpPipe) # <<>>
          <6>1. Len(mcpPipe) \in Nat /\ Len(mcpPipe) > 1
            BY <3>1, <4>2, LenProperties
          <6>2. \A n, k \in Nat : k > 1 /\ n = k - 1 => n # 0
            OBVIOUS
          <6>3. Tail(mcpPipe) \in Seq(Genuine) /\ Len(Tail(mcpPipe)) \in Nat
            BY <3>2, LenProperties
          <6>4. Len(Tail(mcpPipe)) # 0
            BY <5>1, <6>1, <6>2, <6>3
          <6> QED BY <6>3, <6>4, EmptySeq
        <5>3. \A s \in Seq(Genuine) : s # <<>> => Tail(s) \in Seq(Genuine)
          BY HeadTailProperties
        <5> QED BY <3>2, <4>2, <5>2, <5>3
      <4>3. CASE mcpPipe' = <<McpSkipped>> \o Tail(mcpPipe)
        <5>1. <<McpSkipped>> \in Seq(Genuine)
          BY <3>2
        <5> QED BY <3>2, <4>3, <5>1, ConcatProperties
      <4> QED BY <2>2, <4>1, <4>2, <4>3 DEF McpRead, McpReadPipe, McpReadEvent
    <3> QED BY <1>2, <2>2, <3>3, <3>4 DEF McpRead
  <2>3. CASE McpForward
    <3>1. mcpHand \in Genuine /\ mcpHand' = McpNothing
      BY <2>3 DEF McpForward
    <3>2. mcpRecv' = mcpRecv \/ (Len(mcpRecv) < McpRecvCap /\ mcpRecv' = Append(mcpRecv, mcpHand))
      BY <2>3 DEF McpForward, McpRoom
    <3>3. mcpRecv' \in Seq(Genuine) /\ Len(mcpRecv') <= McpRecvCap
      BY <3>1, <3>2, AppendProperties, LenProperties, McpAssumption
    <3> QED BY <1>2, <2>3, <3>1, <3>3 DEF McpForward, mcpServerVars
  <2>4. CASE McpClose
    BY <1>2, <2>4 DEF McpClose, mcpServerVars
  <2> QED BY <2>1, <2>2, <2>3, <2>4
<1> QED BY <1>2, <1>3, <1>4, <1>5

\* The loop pops the channel that is under the message's id, which belongs to the call the
\* message answers, for no two calls share an id.
LEMMA McpReceiveStep ==
  ASSUME IsFiniteSet(McpCalls), McpInv, McpReceive
  PROVE  McpInv'
<1> USE DEF McpInv
<1> DEFINE m == Head(mcpRecv)
<1>1. /\ mcpRecv \in Seq(Genuine) /\ mcpRecv # <<>> /\ mcpRecv' = Tail(mcpRecv)
      /\ UNCHANGED <<mcpKind, mcpCallVars, mcpBox, mcpServerVars, mcpHand, mcpClosed, mcpPanic>>
  BY DEF McpReceive, McpWire
<1>2. m \in Genuine /\ mcpRecv' \in Seq(Genuine) /\ Len(mcpRecv') <= McpRecvCap
  BY <1>1, HeadTailProperties, LenProperties, McpAssumption DEF McpWire
<1>3. \/ mcpPending' = mcpPending /\ mcpLoop' = mcpLoop
      \/ /\ m.id # 0 /\ mcpPending[m.id] # McpNobody
         /\ mcpLoop' = [msg |-> m, call |-> mcpPending[m.id]]
         /\ mcpPending' = [mcpPending EXCEPT ![m.id] = McpNobody]
  BY DEF McpReceive, McpPop
<1> HIDE DEF m
<1>4. m.id # 0 => m.id \in 1..McpTop /\ m.of \in McpCalls /\ mcpId[m.of] = m.id
  BY <1>2, McpTopNat DEF Genuine, McpMessage, McpTop
<1>5. McpIds' /\ Genuine' = Genuine
  <2>1. McpKeepsIds
    BY <1>1, <1>3, <1>4 DEF McpKeepsIds, McpIds, mcpCallVars
  <2> QED BY <2>1, McpIdsKept
<1>6. McpWire'
  BY <1>1, <1>2, <1>5 DEF McpWire, mcpServerVars
<1>7. McpAnswers'
  <2>1. CASE mcpPending' = mcpPending /\ mcpLoop' = mcpLoop
    BY <1>1, <2>1, McpAnswersKept DEF mcpCallVars
  <2>2. CASE /\ m.id # 0 /\ mcpPending[m.id] # McpNobody
             /\ mcpLoop' = [msg |-> m, call |-> mcpPending[m.id]]
    <3>1. mcpPending[m.id] \in McpCalls /\ mcpId[mcpPending[m.id]] = m.id
      BY <1>4, <2>2 DEF McpIds, McpAllCalls
    <3>2. mcpPending[m.id] = m.of
      BY <1>4, <2>2, <3>1 DEF McpIds, McpStarted
    <3>3. m \in McpMessage /\ m \in AnswersTo(m.of)
      BY <1>2 DEF Genuine, AnswersTo
    <3>4. mcpLoop'.call = m.of /\ mcpLoop'.msg = m
          /\ mcpLoop' \in [msg : McpMessage \union {McpNothing}, call : McpAllCalls]
      BY <1>4, <2>2, <3>2, <3>3 DEF McpAllCalls
    <3>5. McpMessage' = McpMessage /\ \A d : AnswersTo(d)' = AnswersTo(d)
      BY DEF McpMessage, AnswersTo, McpAllCalls
    <3> QED BY <1>1, <3>3, <3>4, <3>5 DEF McpAnswers, mcpCallVars
  <2> QED BY <1>3, <2>1, <2>2
<1>8. McpFlags'
  BY <1>1 DEF McpFlags, mcpServerVars
<1> QED BY <1>5, <1>6, <1>7, <1>8

LEMMA McpDeliverStep ==
  ASSUME IsFiniteSet(McpCalls), McpInv, McpDeliver
  PROVE  McpInv'
<1> USE DEF McpInv
<1>1. /\ mcpLoop.call # McpNobody /\ mcpLoop' = [msg |-> McpNothing, call |-> McpNobody]
      /\ mcpBox' = [mcpBox EXCEPT ![mcpLoop.call] = <<mcpLoop.msg>>]
      /\ UNCHANGED <<mcpKind, mcpCallVars, mcpPending, mcpServerVars, mcpHand, mcpRecv, mcpClosed,
                     mcpPanic>>
  BY DEF McpDeliver
<1>2. McpIds' /\ Genuine' = Genuine
  <2>1. McpKeepsIds
    BY <1>1 DEF McpKeepsIds, McpIds, mcpCallVars
  <2> QED BY <2>1, McpIdsKept
<1>3. McpWire'
  BY <1>1, <1>2 DEF McpWire, mcpServerVars
<1>4. McpAnswers'
  <2>1. mcpLoop.msg \in AnswersTo(mcpLoop.call) /\ mcpLoop.msg \in McpMessage
    BY <1>1 DEF McpAnswers, AnswersTo
  <2>2. <<mcpLoop.msg>> \in Seq(AnswersTo(mcpLoop.call)) /\ <<mcpLoop.msg>> \in Seq(McpMessage)
    BY <2>1
  <2>3. mcpBox' \in [McpCalls -> Seq(McpMessage)]
    BY <1>1, <2>2 DEF McpAnswers
  <2>4. \A d \in McpCalls : mcpBox'[d] \in Seq(AnswersTo(d))
    BY <1>1, <2>2 DEF McpAnswers
  <2>5. mcpLoop'.call = McpNobody
        /\ mcpLoop' \in [msg : McpMessage \union {McpNothing}, call : McpAllCalls]
    BY <1>1 DEF McpAllCalls
  <2>6. McpMessage' = McpMessage /\ \A d : AnswersTo(d)' = AnswersTo(d)
    BY DEF McpMessage, AnswersTo, McpAllCalls
  <2> QED BY <1>1, <2>3, <2>4, <2>5, <2>6 DEF McpAnswers, mcpCallVars
<1>5. McpFlags'
  BY <1>1 DEF McpFlags, mcpServerVars
<1> QED BY <1>2, <1>3, <1>4, <1>5

LEMMA McpStepInv ==
  ASSUME IsFiniteSet(McpCalls), McpInv, [McpNext]_mcpVars
  PROVE  McpInv'
<1>1. CASE UNCHANGED mcpVars
  <2>1. McpIds'
    BY <1>1 DEF mcpVars, mcpCallVars, McpInv, McpIds, McpStarted
  <2>2. Genuine' = Genuine
    BY <1>1 DEF mcpVars, mcpCallVars, Genuine, McpMessage, McpAllCalls
  <2>3. McpWire' /\ McpFlags'
    BY <1>1, <2>2 DEF mcpVars, mcpServerVars, McpInv, McpWire, McpFlags
  <2>4. McpAnswers'
    BY <1>1, McpAnswersKept DEF mcpVars, mcpCallVars, McpInv
  <2> QED BY <2>1, <2>3, <2>4 DEF McpInv
<1>2. CASE McpNext
  BY <1>2, McpCallBegins, McpCallStep, McpTakeStep, McpTransportStep, McpReceiveStep,
     McpDeliverStep DEF McpNext
<1> QED BY <1>1, <1>2

\* The variables of the MCP client keep their types: the counter gives out no more ids than
\* there are calls, and recv holds no more than its capacity (call, readLoop).
THEOREM McpTypeCorrect ==
  IsFiniteSet(McpCalls) => (McpInit /\ [][McpNext]_mcpVars => []McpTypeOK)
<1> SUFFICES ASSUME IsFiniteSet(McpCalls)
             PROVE  McpInit /\ [][McpNext]_mcpVars => []McpTypeOK
  OBVIOUS
<1>1. McpInv => McpTypeOK
  <2> SUFFICES ASSUME McpInv PROVE McpTypeOK
    OBVIOUS
  <2>1. Genuine \subseteq McpMessage
    BY DEF Genuine
  <2>2. mcpPipe \in Seq(McpMessage) /\ mcpRecv \in Seq(McpMessage)
    BY <2>1, SeqMonotonic DEF McpInv, McpWire
  <2>3. mcpNextID \in 0..Cardinality(McpCalls)
    BY McpTopNat DEF McpInv, McpIds, McpTop
  <2> QED BY <2>1, <2>2, <2>3 DEF McpInv, McpIds, McpWire, McpAnswers, McpFlags, McpTypeOK, McpStages,
         McpTop
<1> QED BY <1>1, McpInitInv, McpStepInv, PTL

\* What a call of the MCP client returns is the answer to its own request, for any number of
\* calls and whatever the server, the pipe and the order of the goroutines do with the
\* messages (call, receiveLoop).
THEOREM McpAnswersMatchHolds ==
  IsFiniteSet(McpCalls) => (McpInit /\ [][McpNext]_mcpVars => []McpAnswersMatch)
<1> SUFFICES ASSUME IsFiniteSet(McpCalls)
             PROVE  McpInit /\ [][McpNext]_mcpVars => []McpAnswersMatch
  OBVIOUS
<1>1. McpInv => McpAnswersMatch
  BY DEF McpInv, McpAnswers, AnswersTo, McpAnswersMatch
<1> QED BY <1>1, McpInitInv, McpStepInv, PTL

-----------------------------------------------------------------------------
(* MCPClient: the receive loop *)

\* A call's channel is used once: it is in pending, then the loop holds it, then it holds
\* the answer.
McpOnce ==
  /\ \A c \in McpCalls : mcpLoop.call = c => mcpBox[c] = <<>> /\ mcpAt[c] # "idle"
  /\ \A c \in McpCalls : mcpAt[c] = "idle" => mcpBox[c] = <<>>
  /\ \A i \in 1..McpTop : \A c \in McpCalls :
       mcpPending[i] = c => mcpLoop.call # c /\ mcpBox[c] = <<>>

\* Steps that leave the channels and the loop alone and only take channels out of pending.
McpOnceKept ==
  /\ UNCHANGED <<mcpLoop, mcpBox>>
  /\ mcpAt' \in [McpCalls -> McpStages]
  /\ \A c \in McpCalls : mcpAt'[c] = "idle" <=> mcpAt[c] = "idle"
  /\ \A i \in 1..McpTop : mcpPending'[i] \in {mcpPending[i], McpNobody}

LEMMA McpOnceStep ==
  ASSUME IsFiniteSet(McpCalls), McpInv, McpOnce, [McpNext]_mcpVars
  PROVE  McpOnce'
<1> USE McpAssumption
<1>t. /\ mcpAt \in [McpCalls -> McpStages] /\ mcpPending \in [1..McpTop -> McpAllCalls]
      /\ mcpBox \in [McpCalls -> Seq(McpMessage)]
  BY DEF McpInv, McpIds, McpAnswers
<1>k. McpOnceKept => McpOnce'
  BY <1>t DEF McpOnceKept, McpOnce
<1>1. ASSUME NEW c \in McpCalls, McpCall(c) PROVE McpOnce'
  <2>1. /\ mcpAt[c] = "idle" /\ mcpAt' = [mcpAt EXCEPT ![c] = "sending"]
        /\ mcpPending' = [mcpPending EXCEPT ![McpFreshID] = c]
        /\ UNCHANGED <<mcpBox, mcpLoop>>
    BY <1>1 DEF McpCall
  <2>2. mcpLoop.call # c /\ mcpBox[c] = <<>>
    BY <2>1 DEF McpOnce
  <2>3. \A i \in 1..McpTop : mcpPending'[i] \in {mcpPending[i], c}
    BY <1>t, <2>1
  <2>4. \A d \in McpCalls : mcpAt'[d] = "idle" => mcpAt[d] = "idle"
    BY <1>t, <2>1
  <2> QED BY <1>t, <2>1, <2>2, <2>3, <2>4 DEF McpOnce
<1>2. ASSUME NEW c \in McpCalls, McpSend(c) \/ McpExpire(c) \/ McpLeave(c) PROVE McpOnce'
  <2>1. /\ UNCHANGED <<mcpLoop, mcpBox>>
        /\ \/ UNCHANGED mcpPending
           \/ mcpPending' = [mcpPending EXCEPT ![mcpId[c]] = McpNobody]
        /\ mcpAt[c] # "idle"
        /\ \E at \in McpStages \ {"idle"} : mcpAt' = [mcpAt EXCEPT ![c] = at]
    BY <1>2 DEF McpSend, McpExpire, McpLeave, McpForget, McpStages, McpOver
  <2>2. mcpAt' \in [McpCalls -> McpStages]
        /\ \A d \in McpCalls : mcpAt'[d] = "idle" <=> mcpAt[d] = "idle"
    BY <1>t, <2>1
  <2>3. \A i \in 1..McpTop : mcpPending'[i] \in {mcpPending[i], McpNobody}
    BY <1>t, <2>1
  <2> QED BY <1>k, <2>1, <2>2, <2>3 DEF McpOnceKept
<1>3. ASSUME NEW c \in McpCalls, McpTake(c) PROVE McpOnce'
  <2>1. /\ mcpAt[c] = "waiting" /\ mcpBox[c] # <<>>
        /\ mcpAt' = [mcpAt EXCEPT ![c] = "answered"]
        /\ UNCHANGED <<mcpPending, mcpLoop>>
        /\ \A d \in McpCalls \ {c} : mcpBox'[d] = mcpBox[d]
    BY <1>3, <1>t DEF McpTake
  <2>2. mcpLoop.call # c /\ \A i \in 1..McpTop : mcpPending[i] # c
    BY <2>1 DEF McpOnce
  <2>3. mcpAt'[c] = "answered" /\ \A d \in McpCalls \ {c} : mcpAt'[d] = mcpAt[d]
    BY <1>t, <2>1
  <2> QED BY <2>1, <2>2, <2>3 DEF McpOnce
<1>4. CASE McpReceive
  <2>1. UNCHANGED <<mcpAt, mcpBox, mcpId>> /\ mcpLoop.call = McpNobody
    BY <1>4 DEF McpReceive, mcpCallVars
  <2>2. CASE UNCHANGED <<mcpLoop, mcpPending>>
    BY <2>1, <2>2 DEF McpOnce
  <2>3. CASE ~UNCHANGED <<mcpLoop, mcpPending>>
    <3> DEFINE m == Head(mcpRecv)
               d == mcpPending[m.id]
    <3>1. /\ m.id # 0 /\ d # McpNobody /\ mcpLoop' = [msg |-> m, call |-> d]
          /\ mcpPending' = [mcpPending EXCEPT ![m.id] = McpNobody] /\ mcpRecv # <<>>
      BY <1>4, <2>3 DEF McpReceive, McpPop
    <3>2. m \in Genuine
      <4>1. mcpRecv \in Seq(Genuine)
        BY DEF McpInv, McpWire
      <4> QED BY <3>1, <4>1
    <3>3. m.id \in 1..McpTop
      BY <3>1, <3>2, McpTopNat DEF Genuine, McpMessage, McpTop
    <3>4. d \in McpCalls /\ mcpId[d] = m.id
      BY <1>t, <3>1, <3>3 DEF McpInv, McpIds, McpAllCalls
    <3>5. mcpAt[d] # "idle" /\ mcpBox[d] = <<>>
      BY <3>1, <3>3, <3>4 DEF McpOnce, McpInv, McpIds
    <3>6. \A i \in 1..McpTop : mcpPending[i] = d => i = m.id
      BY <3>1, <3>4 DEF McpInv, McpIds
    <3>7. mcpPending'[m.id] = McpNobody /\ mcpLoop'.call = d
          /\ \A i \in 1..McpTop : i # m.id => mcpPending'[i] = mcpPending[i]
      BY <1>t, <3>1, <3>3
    <3> HIDE DEF m, d
    <3> QED BY <2>1, <3>4, <3>5, <3>6, <3>7 DEF McpOnce
  <2> QED BY <2>2, <2>3
<1>5. CASE McpDeliver
  <2> DEFINE d == mcpLoop.call
  <2>1. /\ d # McpNobody /\ UNCHANGED <<mcpAt, mcpPending>>
        /\ mcpBox' = [mcpBox EXCEPT ![d] = <<mcpLoop.msg>>]
        /\ mcpLoop' = [msg |-> McpNothing, call |-> McpNobody]
    BY <1>5 DEF McpDeliver, mcpCallVars
  <2>2. d \in McpCalls
    BY <2>1 DEF McpInv, McpAnswers, McpAllCalls
  <2>3. mcpAt[d] # "idle" /\ \A i \in 1..McpTop : mcpPending[i] # d
    BY <2>2 DEF McpOnce
  <2>4. mcpLoop'.call = McpNobody /\ \A e \in McpCalls \ {d} : mcpBox'[e] = mcpBox[e]
    BY <1>t, <2>1
  <2> QED BY <2>1, <2>2, <2>3, <2>4 DEF McpOnce
<1>6. CASE McpServe \/ McpRead \/ McpForward \/ McpClose
  <2>1. UNCHANGED <<mcpAt, mcpPending, mcpBox, mcpLoop>>
    BY <1>6 DEF McpServe, McpRead, McpForward, McpClose, mcpCallVars
  <2> QED BY <1>k, <1>t, <2>1 DEF McpOnceKept
<1>7. CASE UNCHANGED mcpVars
  <2>1. UNCHANGED <<mcpAt, mcpPending, mcpBox, mcpLoop>>
    BY <1>7 DEF mcpVars, mcpCallVars
  <2> QED BY <1>k, <1>t, <2>1 DEF McpOnceKept
<1> QED BY <1>1, <1>2, <1>3, <1>4, <1>5, <1>6, <1>7 DEF McpNext

\* The receive loop never waits to hand over an answer, for any number of calls and whatever
\* the server repeats and the callers give up on (receiveLoop, call).
THEOREM McpLoopNeverWaitsHolds ==
  IsFiniteSet(McpCalls) => (McpInit /\ [][McpNext]_mcpVars => []McpLoopNeverWaits)
<1> SUFFICES ASSUME IsFiniteSet(McpCalls)
             PROVE  McpInit /\ [][McpNext]_mcpVars => []McpLoopNeverWaits
  OBVIOUS
<1>1. McpInit => McpOnce
  BY McpAssumption DEF McpInit, McpOnce, McpTop
<1>2. McpOnce => McpLoopNeverWaits
  BY DEF McpOnce, McpLoopNeverWaits
<1> QED BY <1>1, <1>2, McpInitInv, McpStepInv, McpOnceStep, PTL

-----------------------------------------------------------------------------
(* ToolRegistry: the manager's slices *)

AnyAgent == CHOOSE g \in RegAgents : TRUE
AnyServer == CHOOSE s \in RegServers : TRUE
NConns == Len(RegConnects)

RegTyped ==
  /\ regTools \subseteq RegNames
  /\ regRows \subseteq RegAgents \X RegSkills
  /\ regTurn \in [RegAgents -> [at : {"idle", "registering", "ready"}, todo : SUBSET RegSkills]]
  /\ regOffered \in [RegAgents -> SUBSET RegNames]
  /\ regConn \in [Conns -> Live \union {"idle", "ended"}]
  /\ regArrays \in Seq(Seq(0..NConns))
  /\ regList \in [RegAgents -> [array : 0..Len(regArrays), len : Nat]]
  /\ regScan \in [at : {"idle", "scanning", "found", "missed"},
                  list : [array : 0..Len(regArrays), len : Nat], i : Nat,
                  agent : RegAgents \union {AnyAgent}, server : RegServers \union {AnyServer}]
  /\ regSteady \in BOOLEAN /\ regShifted \in BOOLEAN /\ regShut \in BOOLEAN
  /\ regShared \subseteq RegServers

\* What an agent was offered is in the registry, and what it missed was a server's.
RegOffers ==
  /\ \A g \in RegAgents : regOffered[g] \ RegServers \subseteq regTools
  /\ regMissed \subseteq RegServers

CellAt(g, j) == regArrays[regList[g].array][j]

\* A slice lies inside its array, and no two agents have the same one.
SliceFits(g) ==
  /\ regList[g].array = 0 => regList[g].len = 0
  /\ regList[g].array # 0 => regList[g].len <= Len(regArrays[regList[g].array])
  /\ \A h \in RegAgents : regList[h].array = regList[g].array /\ regList[g].array # 0 => h = g

\* It holds the agent's open connections, each of them once.
SliceHolds(g) ==
  /\ \A j \in 1..regList[g].len :
       CellAt(g, j) \in Conns /\ ConnAgent(CellAt(g, j)) = g /\ regConn[CellAt(g, j)] = "open"
  /\ \A i, j \in 1..regList[g].len : CellAt(g, i) = CellAt(g, j) => i = j
  /\ \A k \in Conns : regConn[k] = "open" /\ ConnAgent(k) = g =>
       \E j \in 1..regList[g].len : CellAt(g, j) = k

RegSlices == \A g \in RegAgents : SliceFits(g) /\ SliceHolds(g)

\* Two live connections of a server make it a shared one.
RegLive ==
  \A k, j \in Conns :
    regConn[k] \in Live /\ regConn[j] \in Live /\ ConnServer(k) = ConnServer(j) /\ k # j =>
      ConnServer(k) \in regShared

\* What a scan has yet to read of a steady server: cells that nobody writes, one of them
\* the server's.
ScanSound ==
  /\ regScan.list.array \in 1..Len(regArrays) /\ regScan.i >= 1
  /\ regScan.list.len <= Len(regArrays[regScan.list.array])
  /\ \A h \in RegAgents : regList[h].array = regScan.list.array =>
       h = regScan.agent /\ regScan.list.len <= regList[h].len
  /\ \E j \in regScan.i..regScan.list.len :
       ConnServer(regArrays[regScan.list.array][j]) = regScan.server

RegScanning ==
  /\ regScan.at = "scanning" /\ regSteady /\ ~regShifted => ScanSound
  /\ regScan.at = "missed" /\ regSteady => regShifted

RegInv ==
  RegTyped /\ RegOffers /\ RegSlices /\ RegLive /\ RegToolsFollowServers /\ RegScanning

LEMMA ConnFacts ==
  /\ NConns \in Nat /\ Conns = 1..NConns
  /\ \A k \in Conns : ConnAgent(k) \in RegAgents /\ ConnServer(k) \in RegServers
  /\ \A s \in RegSkills : RegToolOf[s] \in RegNames /\ RegToolOf[s] \notin RegServers
  /\ RegServers \subseteq RegNames /\ RegBundled \subseteq RegNames
  /\ RegBundled \intersect RegServers = {}
<1>1. RegConnects \in Seq([agent : RegAgents, server : RegServers])
  BY RegAssumption
<1>2. NConns \in Nat /\ Conns = 1..NConns
  BY <1>1, LenProperties DEF NConns, Conns
<1>3. \A k \in Conns : RegConnects[k] \in [agent : RegAgents, server : RegServers]
  BY <1>1, ElementOfSeq DEF Conns
<1>4. \A k \in Conns : ConnAgent(k) \in RegAgents /\ ConnServer(k) \in RegServers
  BY <1>3 DEF ConnAgent, ConnServer
<1> QED BY <1>2, <1>4, RegAssumption DEF RegNames

LEMMA RegInitInv == RegInit => RegInv
<1> SUFFICES ASSUME RegInit PROVE RegInv
  OBVIOUS
<1> USE ConnFacts DEF RegInit
<1>1. regArrays \in Seq(Seq(0..NConns)) /\ Len(regArrays) = 0
  BY EmptySeq
<1>2. RegTyped
  <2>1. /\ regRows \subseteq RegAgents \X RegSkills /\ regTools \subseteq RegNames
        /\ regShared \subseteq RegServers
    OBVIOUS
  <2>2. /\ regTurn \in [RegAgents -> [at : {"idle", "registering", "ready"}, todo : SUBSET RegSkills]]
        /\ regOffered \in [RegAgents -> SUBSET RegNames]
        /\ regConn \in [Conns -> Live \union {"idle", "ended"}]
    OBVIOUS
  <2>3. NilList \in [array : 0..Len(regArrays), len : Nat]
    BY <1>1 DEF NilList
  <2>4. regList \in [RegAgents -> [array : 0..Len(regArrays), len : Nat]]
    BY <2>3
  <2>5. regScan = [at |-> "idle", list |-> NilList, i |-> 0, agent |-> AnyAgent, server |-> AnyServer]
    BY DEF AnyAgent, AnyServer
  <2>6. regScan \in [at : {"idle", "scanning", "found", "missed"},
                  list : [array : 0..Len(regArrays), len : Nat], i : Nat,
                  agent : RegAgents \union {AnyAgent}, server : RegServers \union {AnyServer}]
    BY <2>3, <2>5
  <2>7. regSteady \in BOOLEAN /\ regShifted \in BOOLEAN /\ regShut \in BOOLEAN
    OBVIOUS
  <2> QED BY <1>1, <2>1, <2>2, <2>4, <2>6, <2>7 DEF RegTyped
<1>3. RegOffers
  BY DEF RegOffers
<1>4. RegSlices
  BY DEF RegSlices, SliceFits, SliceHolds, NilList
<1>5. RegLive
  BY DEF RegLive, Live
<1>6. RegToolsFollowServers
  BY DEF RegToolsFollowServers, LiveConns, Live
<1>7. RegScanning
  BY DEF RegScanning
<1> QED BY <1>2, <1>3, <1>4, <1>5, <1>6, <1>7 DEF RegInv

-----------------------------------------------------------------------------
(* ToolRegistry: skills and turns *)

\* A step that leaves connections, slices and scans alone, and of the registry's tools
\* those of the servers.
RegKeepsConns ==
  /\ UNCHANGED <<regConn, regArrays, regList, regScan, regSteady, regShifted, regShared, regShut>>
  /\ \A s \in RegServers : s \in regTools' <=> s \in regTools

LEMMA RegConnsKept ==
  ASSUME RegSlices, RegLive, RegToolsFollowServers, RegScanning, RegKeepsConns
  PROVE  RegSlices' /\ RegLive' /\ RegToolsFollowServers' /\ RegScanning'
<1> USE DEF RegKeepsConns
<1>1. RegSlices'
  BY DEF RegSlices, SliceFits, SliceHolds, CellAt
<1>2. RegLive'
  BY DEF RegLive
<1>3. RegToolsFollowServers'
  BY DEF RegToolsFollowServers, LiveConns
<1>4. RegScanning'
  BY DEF RegScanning, ScanSound
<1> QED BY <1>1, <1>2, <1>3, <1>4

LEMMA RegTurnStep ==
  ASSUME RegInv, RegTurnNext
  PROVE  RegInv'
<1> USE ConnFacts DEF RegInv
<1>1. UNCHANGED <<regConn, regArrays, regList, regScan, regSteady, regShifted, regShared, regShut>>
  BY DEF RegTurnNext, RegAttach, RegDetach, RegLoad, RegRegister, RegFilter, RegUse, regSliceVars,
     regScanVars
<1>2. regTools \subseteq regTools' /\ regTools' \subseteq RegNames
        /\ \A s \in RegServers : s \in regTools' <=> s \in regTools
  <2>1. regTools' = regTools \/ \E s \in RegSkills : regTools' = regTools \union {RegToolOf[s]}
    BY DEF RegTurnNext, RegAttach, RegDetach, RegKeeps, RegLoad, RegRegister, RegFilter, RegUse, RegTyped
  <2> QED BY <2>1 DEF RegTyped
<1>3. RegSlices' /\ RegLive' /\ RegToolsFollowServers' /\ RegScanning'
  BY <1>1, <1>2, RegConnsKept DEF RegKeepsConns
<1>6. regOffered' = regOffered
        \/ \E g \in RegAgents : regOffered' = [regOffered EXCEPT ![g] = regTools \ RegDenied[g]]
  BY DEF RegTurnNext, RegAttach, RegDetach, RegLoad, RegRegister, RegFilter, RegUse
<1>4. RegTyped'
  <2>1. regRows' \subseteq RegAgents \X RegSkills
    <3>1. regRows' \subseteq regRows
            \/ \E g \in RegAgents, k \in RegSkills : regRows' = regRows \union {<<g, k>>}
      BY DEF RegTurnNext, RegAttach, RegDetach, RegLoad, RegRegister, RegFilter, RegUse
    <3> QED BY <3>1 DEF RegTyped
  <2>2. regTurn' \in [RegAgents -> [at : {"idle", "registering", "ready"}, todo : SUBSET RegSkills]]
    <3> DEFINE Moves(g) == \E at \in {"registering", "ready"}, todo \in SUBSET RegSkills :
                             regTurn' = [regTurn EXCEPT ![g] = [at |-> at, todo |-> todo]]
    <3>1. ASSUME NEW g \in RegAgents, RegLoad(g) PROVE Moves(g)
      BY <3>1 DEF RegLoad, RegAt
    <3>2. ASSUME NEW g \in RegAgents, RegRegister(g) PROVE Moves(g)
      <4>1. regTurn[g].todo \in SUBSET RegSkills
        BY DEF RegTyped
      <4> QED BY <3>2, <4>1 DEF RegRegister, RegAt
    <3>3. ASSUME NEW g \in RegAgents, RegFilter(g) PROVE Moves(g)
      BY <3>3 DEF RegFilter, RegAt
    <3>4. regTurn' = regTurn \/ \E g \in RegAgents : Moves(g)
      BY <3>1, <3>2, <3>3 DEF RegTurnNext, RegAttach, RegDetach, RegUse
    <3>5. ASSUME NEW g \in RegAgents, NEW at \in {"registering", "ready"},
                 NEW todo \in SUBSET RegSkills,
                 regTurn' = [regTurn EXCEPT ![g] = [at |-> at, todo |-> todo]]
          PROVE  regTurn' \in [RegAgents -> [at : {"idle", "registering", "ready"},
                                             todo : SUBSET RegSkills]]
      BY <3>5 DEF RegTyped
    <3> QED BY <3>4, <3>5 DEF RegTyped
  <2>3. regOffered' \in [RegAgents -> SUBSET RegNames]
    <3>1. ASSUME NEW g \in RegAgents, regOffered' = [regOffered EXCEPT ![g] = regTools \ RegDenied[g]]
          PROVE  regOffered' \in [RegAgents -> SUBSET RegNames]
      <4>1. regTools \ RegDenied[g] \in SUBSET RegNames
        BY DEF RegTyped
      <4> QED BY <3>1, <4>1 DEF RegTyped
    <3> QED BY <1>6, <3>1 DEF RegTyped
  <2> QED BY <1>1, <1>2, <2>1, <2>2, <2>3 DEF RegTyped
<1>5. RegOffers'
  <2>1. \A g \in RegAgents : regOffered'[g] \ RegServers \subseteq regTools'
    <3>1. ASSUME NEW g \in RegAgents, NEW h \in RegAgents,
                 regOffered' = [regOffered EXCEPT ![g] = regTools \ RegDenied[g]]
          PROVE  regOffered'[h] \ RegServers \subseteq regTools'
      <4>1. CASE h = g
        <5>1. regOffered'[h] = regTools \ RegDenied[g]
          BY <3>1, <4>1 DEF RegTyped
        <5> QED BY <1>2, <5>1
      <4>2. CASE h # g
        <5>1. regOffered'[h] = regOffered[h]
          BY <3>1, <4>2 DEF RegTyped
        <5> QED BY <1>2, <5>1 DEF RegOffers
      <4> QED BY <4>1, <4>2
    <3>2. CASE regOffered' = regOffered
      BY <1>2, <3>2 DEF RegOffers
    <3> QED BY <1>6, <3>1, <3>2
  <2>2. regMissed' = regMissed \/ \E g \in RegAgents, t \in RegNames :
          t \in regOffered[g] /\ t \notin regTools /\ regMissed' = regMissed \union {t}
    BY DEF RegTyped, RegTurnNext, RegAttach, RegDetach, RegLoad, RegRegister, RegFilter, RegUse
  <2> QED BY <2>1, <2>2 DEF RegOffers
<1> QED BY <1>3, <1>4, <1>5

-----------------------------------------------------------------------------
(* ToolRegistry: what append and the shift of Disconnect do to a slice *)

LEMMA ArrayFacts ==
  ASSUME RegTyped, NEW b \in 1..Len(regArrays)
  PROVE  /\ regArrays[b] \in Seq(0..NConns) /\ Len(regArrays[b]) \in Nat
         /\ DOMAIN regArrays[b] = 1..Len(regArrays[b])
         /\ \A j \in 1..Len(regArrays[b]) : regArrays[b][j] \in 0..NConns
<1>1. regArrays[b] \in Seq(0..NConns)
  BY ElementOfSeq DEF RegTyped
<1> QED BY <1>1, LenProperties, ElementOfSeq

LEMMA FunctionIsSeq ==
  ASSUME NEW S, NEW n \in Nat, NEW f \in [1..n -> S]
  PROVE  f \in Seq(S) /\ Len(f) = n
OBVIOUS

LEMMA ListWithLen ==
  ASSUME NEW l, NEW a, NEW n, l = [array |-> a, len |-> n], NEW v
  PROVE  [l EXCEPT !.len = v] = [array |-> a, len |-> v]
OBVIOUS

\* The slice of g as Go shows it.
LEMMA CellsAre ==
  ASSUME RegTyped, NEW g \in RegAgents, SliceFits(g)
  PROVE  /\ Cells(g) \in Seq(0..NConns) /\ DOMAIN Cells(g) = 1..regList[g].len
         /\ \A j \in 1..regList[g].len : Cells(g)[j] = CellAt(g, j)
         /\ Range(Cells(g)) = {CellAt(g, j) : j \in 1..regList[g].len}
<1> DEFINE a == regList[g].array n == regList[g].len
<1>1. a \in 0..Len(regArrays) /\ n \in Nat /\ regArrays \in Seq(Seq(0..NConns))
  BY DEF RegTyped
<1>2. /\ Cells(g) \in Seq(0..NConns) /\ Len(Cells(g)) = n
      /\ \A j \in 1..n : Cells(g)[j] = CellAt(g, j)
  <2>1. CASE a = 0
    <3>1. n = 0 /\ Cells(g) = <<>>
      BY <2>1 DEF SliceFits, Cells
    <3> QED BY <3>1, EmptySeq
  <2>2. CASE a # 0
    <3>1. regArrays[a] \in Seq(0..NConns) /\ n <= Len(regArrays[a]) /\ Len(regArrays[a]) \in Nat
      BY <1>1, <2>2, ElementOfSeq, LenProperties DEF SliceFits
    <3>2. \A j \in 1..n : regArrays[a][j] \in 0..NConns
      BY <1>1, <2>2, <3>1, ArrayFacts
    <3>3. Cells(g) = SubSeq(regArrays[a], 1, n)
      BY <2>2 DEF Cells
    <3>4. /\ SubSeq(regArrays[a], 1, n) \in Seq(0..NConns)
          /\ Len(SubSeq(regArrays[a], 1, n)) = (IF 1 <= n THEN n - 1 + 1 ELSE 0)
          /\ \A j \in 1..(n - 1 + 1) : SubSeq(regArrays[a], 1, n)[j] = regArrays[a][1 + j - 1]
      BY <1>1, <3>2, SubSeqProperties
    <3> HIDE DEF a, n
    <3>5. (IF 1 <= n THEN n - 1 + 1 ELSE 0) = n /\ 1..(n - 1 + 1) = 1..n
      BY <1>1
    <3>6. \A j \in 1..n : 1 + j - 1 = j
      BY <1>1
    <3> QED BY <3>3, <3>4, <3>5, <3>6 DEF CellAt, a
  <2> QED BY <2>1, <2>2
<1>3. DOMAIN Cells(g) = 1..n
  BY <1>2, LenProperties
<1>4. Range(Cells(g)) = {CellAt(g, j) : j \in 1..n}
  BY <1>2, <1>3 DEF Range
<1> QED BY <1>2, <1>3, <1>4

\* The array a that g's slice is in after an append: the old one, whose cells in the slice
\* stay, or a new one with the same cells; no other array changes.
Appended(g, k, a) ==
  /\ regArrays' \in Seq(Seq(0..NConns)) /\ Len(regArrays) <= Len(regArrays')
  /\ a \in 1..Len(regArrays') /\ (a = regList[g].array \/ a = Len(regArrays) + 1)
  /\ regList' = [regList EXCEPT ![g] = [array |-> a, len |-> regList[g].len + 1]]
  /\ regList[g].len + 1 <= Len(regArrays'[a])
  /\ \A b \in 1..Len(regArrays) : b # a => regArrays'[b] = regArrays[b]
  /\ a = regList[g].array => Len(regArrays'[a]) = Len(regArrays[a])
  /\ \A j \in 1..regList[g].len : regArrays'[a][j] = CellAt(g, j)
  /\ regArrays'[a][regList[g].len + 1] = k

LEMMA AppendConnDoes ==
  ASSUME RegTyped, RegSlices, NEW g \in RegAgents, NEW k \in Conns, AppendConn(g, k)
  PROVE  \E a \in Nat : Appended(g, k, a)
<1> DEFINE a == regList[g].array
           n == regList[g].len
           cap == IF a = 0 THEN 0 ELSE Len(regArrays[a])
           m == IF cap = 0 THEN 1 ELSE 2 * cap
           old == IF a = 0 THEN <<>> ELSE regArrays[a]
           new == [j \in 1..m |-> IF j <= n THEN old[j] ELSE IF j = n + 1 THEN k ELSE 0]
<1>1. /\ a \in 0..Len(regArrays) /\ n \in Nat /\ regArrays \in Seq(Seq(0..NConns))
      /\ Len(regArrays) \in Nat /\ regList[g] = [array |-> a, len |-> n] /\ k \in 0..NConns
      /\ regList \in [RegAgents -> [array : 0..Len(regArrays), len : Nat]]
  BY ConnFacts, LenProperties DEF RegTyped
<1>2. cap \in Nat /\ n <= cap
  BY <1>1, ArrayFacts DEF RegSlices, SliceFits
<1>3. CASE n < cap
  <2>1. /\ regArrays' = [regArrays EXCEPT ![a][n + 1] = k]
        /\ regList' = [regList EXCEPT ![g].len = @ + 1]
    BY <1>3 DEF AppendConn
  <2>2. a # 0 /\ cap = Len(regArrays[a]) /\ a \in 1..Len(regArrays)
    BY <1>1, <1>2, <1>3
  <2>3. regArrays[a] \in Seq(0..NConns)
    BY <2>2, ArrayFacts
  <2> DEFINE arr == [regArrays[a] EXCEPT ![n + 1] = k]
  <2>4. /\ arr \in Seq(0..NConns) /\ Len(arr) = cap
        /\ \A j \in 1..cap : arr[j] = IF j = n + 1 THEN k ELSE regArrays[a][j]
    BY <1>1, <1>2, <1>3, <2>2, <2>3, ExceptSeq
  <2>5. regArrays' = [regArrays EXCEPT ![a] = arr]
    BY <2>1
  <2>6. regList' = [regList EXCEPT ![g] = [array |-> a, len |-> n + 1]]
    <3>1. regList' = [regList EXCEPT ![g] = [regList[g] EXCEPT !.len = n + 1]]
      BY <2>1
    <3>2. [regList[g] EXCEPT !.len = n + 1] = [array |-> a, len |-> n + 1]
      BY <1>1
    <3> QED BY <3>1, <3>2
  <2> HIDE DEF arr, cap, a, n
  <2>7. /\ regArrays' \in Seq(Seq(0..NConns)) /\ Len(regArrays') = Len(regArrays)
        /\ \A b \in 1..Len(regArrays) : regArrays'[b] = IF b = a THEN arr ELSE regArrays[b]
    <3>1. regArrays \in Seq(Seq(0..NConns)) /\ a \in 1..Len(regArrays) /\ arr \in Seq(0..NConns)
      BY <1>1, <2>2, <2>4
    <3>2. /\ [regArrays EXCEPT ![a] = arr] \in Seq(Seq(0..NConns))
          /\ Len([regArrays EXCEPT ![a] = arr]) = Len(regArrays)
          /\ \A b \in 1..Len(regArrays) :
               [regArrays EXCEPT ![a] = arr][b] = IF b = a THEN arr ELSE regArrays[b]
      BY <3>1, ExceptSeq
    <3> QED BY <2>5, <3>2
  <2>8. ASSUME NEW j \in 1..n PROVE arr[j] = regArrays[a][j]
    <3>1. n \in Nat /\ cap \in Nat /\ n < cap
      BY <1>1, <1>2, <1>3
    <3>2. j \in 1..cap /\ j # n + 1
      BY <3>1
    <3> QED BY <2>4, <3>2
  <2>9. n + 1 <= cap
    BY <1>1, <1>2, <1>3
  <2>10. arr[n + 1] = k
    BY <1>1, <1>2, <1>3, <2>4
  <2>11. regArrays'[a] = arr /\ a \in Nat
    BY <2>2, <2>7
  <2>12. \A j \in 1..n : regArrays'[a][j] = CellAt(g, j)
    BY <2>8, <2>11 DEF CellAt, a
  <2>13. /\ regList' = [regList EXCEPT ![g] = [array |-> a, len |-> regList[g].len + 1]]
         /\ \A j \in 1..regList[g].len : regArrays'[a][j] = CellAt(g, j)
    BY <2>6, <2>12 DEF n
  <2>14. /\ regList[g].len + 1 <= Len(regArrays'[a])
         /\ regArrays'[a][regList[g].len + 1] = k
    BY <2>4, <2>9, <2>10, <2>11 DEF n
  <2>15. a = regList[g].array /\ Len(regArrays'[a]) = Len(regArrays[a])
    BY <2>2, <2>4, <2>11 DEF a
  <2>16. /\ regArrays' \in Seq(Seq(0..NConns)) /\ Len(regArrays) <= Len(regArrays')
         /\ a \in 1..Len(regArrays')
         /\ \A b \in 1..Len(regArrays) : b # a => regArrays'[b] = regArrays[b]
    BY <1>1, <2>2, <2>7
  <2>17. Appended(g, k, a)
    BY <2>13, <2>14, <2>15, <2>16 DEF Appended
  <2> QED BY <2>11, <2>17
<1>4. CASE ~(n < cap)
  <2>1. /\ regArrays' = Append(regArrays, new)
        /\ regList' = [regList EXCEPT ![g] = [array |-> Len(regArrays) + 1, len |-> n + 1]]
    BY <1>4 DEF AppendConn
  <2>2. m \in Nat /\ n + 1 <= m /\ n = cap
    BY <1>1, <1>2, <1>4
  <2>3. \A j \in 1..n : old[j] \in 0..NConns /\ old[j] = CellAt(g, j)
    BY <1>1, <1>2, <2>2, ArrayFacts DEF CellAt
  <2> HIDE DEF cap, old, m
  <2>4. \A j \in 1..m : (IF j <= n THEN old[j] ELSE IF j = n + 1 THEN k ELSE 0) \in 0..NConns
    BY <1>1, <2>2, <2>3, ConnFacts
  <2>5. new \in [1..m -> 0..NConns]
    BY <2>4
  <2>6. new \in Seq(0..NConns) /\ Len(new) = m
    BY <2>2, <2>5, IsASeq, LenProperties
  <2>7. \A j \in 1..n : new[j] = CellAt(g, j)
    BY <1>1, <2>2, <2>3
  <2>8. new[n + 1] = k
    BY <1>1, <2>2
  <2> HIDE DEF new, a, n
  <2>9. /\ regArrays' \in Seq(Seq(0..NConns)) /\ Len(regArrays') = Len(regArrays) + 1
        /\ \A b \in 1..Len(regArrays) : regArrays'[b] = regArrays[b]
        /\ regArrays'[Len(regArrays) + 1] = new
    BY <1>1, <2>1, <2>6, AppendProperties
  <2>10. a # Len(regArrays) + 1 /\ Len(regArrays) <= Len(regArrays')
         /\ Len(regArrays) + 1 \in 1..Len(regArrays') /\ Len(regArrays) + 1 \in Nat
    BY <1>1, <2>9
  <2>11. Appended(g, k, Len(regArrays) + 1)
    BY <2>1, <2>2, <2>6, <2>7, <2>8, <2>9, <2>10 DEF Appended, a, n
  <2> QED BY <2>10, <2>11
<1> QED BY <1>3, <1>4

\* A disconnect takes the i-th cell out of g's slice: the ones after it move down.
CellsShift(g, i) ==
  /\ i \in 1..regList[g].len /\ regList[g].array \in 1..Len(regArrays)
  /\ regArrays' \in Seq(Seq(0..NConns)) /\ Len(regArrays') = Len(regArrays)
  /\ regList' = [regList EXCEPT ![g] = [array |-> regList[g].array, len |-> regList[g].len - 1]]
  /\ \A b \in 1..Len(regArrays) : b # regList[g].array => regArrays'[b] = regArrays[b]
  /\ Len(regArrays'[regList[g].array]) = Len(regArrays[regList[g].array])
  /\ \A j \in 1..(regList[g].len - 1) :
       regArrays'[regList[g].array][j] = IF j < i THEN CellAt(g, j) ELSE CellAt(g, j + 1)

LEMMA DisconnectDoes ==
  ASSUME RegTyped, RegSlices, NEW g \in RegAgents, NEW s \in RegServers, RegDisconnect(g, s)
  PROVE  \E i \in 1..regList[g].len :
           /\ CellsShift(g, i) /\ ConnServer(CellAt(g, i)) = s
           /\ regConn' = [regConn EXCEPT ![CellAt(g, i)] = "ended"]
<1> DEFINE a == regList[g].array
           n == regList[g].len
           shifted(i) == [j \in DOMAIN regArrays[a] |->
                            IF j \in i..(n - 1) THEN regArrays[a][j + 1] ELSE regArrays[a][j]]
<1>0. SliceFits(g)
  BY DEF RegSlices
<1>1. PICK i \in 1..n :
        /\ ConnServer(Cells(g)[i]) = s
        /\ regArrays' = [regArrays EXCEPT ![a] = shifted(i)]
        /\ regList' = [regList EXCEPT ![g].len = @ - 1]
        /\ regConn' = [regConn EXCEPT ![Cells(g)[i]] = "ended"]
  BY <1>0, CellsAre DEF RegDisconnect
<1>2. Cells(g)[i] = CellAt(g, i)
  BY <1>0, <1>1, CellsAre
<1>3. /\ a \in 0..Len(regArrays) /\ n \in Nat /\ regArrays \in Seq(Seq(0..NConns))
      /\ regList[g] = [array |-> a, len |-> n]
  BY DEF RegTyped
<1>4. a \in 1..Len(regArrays) /\ n <= Len(regArrays[a])
  BY <1>0, <1>1, <1>3, LenProperties DEF SliceFits
<1>5. /\ regArrays[a] \in Seq(0..NConns) /\ Len(regArrays[a]) \in Nat
      /\ DOMAIN regArrays[a] = 1..Len(regArrays[a])
      /\ \A j \in 1..Len(regArrays[a]) : regArrays[a][j] \in 0..NConns
  BY <1>4, ArrayFacts
<1>6. regList' = [regList EXCEPT ![g] = [array |-> a, len |-> n - 1]]
  <2>1. regList' = [regList EXCEPT ![g] = [regList[g] EXCEPT !.len = n - 1]]
    BY <1>1
  <2>2. [regList[g] EXCEPT !.len = n - 1] = [array |-> a, len |-> n - 1]
    BY <1>3, ListWithLen
  <2> QED BY <2>1, <2>2
<1> DEFINE len == Len(regArrays[a])
<1>7. \A j \in 1..len : shifted(i)[j] = IF j \in i..(n - 1) THEN regArrays[a][j + 1] ELSE regArrays[a][j]
  BY <1>5
<1>8. shifted(i) \in [1..len -> 0..NConns]
  <2>1. \A j \in 1..len : j \in i..(n - 1) => j + 1 \in 1..len
    BY <1>1, <1>3, <1>4, <1>5
  <2>2. \A j \in 1..len : (IF j \in i..(n - 1) THEN regArrays[a][j + 1] ELSE regArrays[a][j]) \in 0..NConns
    BY <1>5, <2>1
  <2> QED BY <1>5, <2>2
<1> HIDE DEF shifted, len
<1>9. shifted(i) \in Seq(0..NConns) /\ Len(shifted(i)) = len
  <2>1. len \in Nat
    BY <1>5 DEF len
  <2> HIDE DEF a, n
  <2> QED BY <1>8, <2>1, FunctionIsSeq
<1>10. /\ regArrays' \in Seq(Seq(0..NConns)) /\ Len(regArrays') = Len(regArrays)
       /\ \A b \in 1..Len(regArrays) : regArrays'[b] = IF b = a THEN shifted(i) ELSE regArrays[b]
  BY <1>1, <1>3, <1>4, <1>9, ExceptSeq
<1>11. regArrays'[a] = shifted(i)
  BY <1>4, <1>10
<1>12. \A j \in 1..(n - 1) :
         regArrays'[a][j] = IF j < i THEN CellAt(g, j) ELSE CellAt(g, j + 1)
  <2> SUFFICES ASSUME NEW j \in 1..(n - 1)
               PROVE  regArrays'[a][j] = IF j < i THEN regArrays[a][j] ELSE regArrays[a][j + 1]
    BY DEF CellAt
  <2> HIDE DEF a, n, len
  <2>1. j \in 1..len /\ (j < i <=> j \notin i..(n - 1))
    BY <1>1, <1>3, <1>4, <1>5 DEF len
  <2> QED BY <1>7, <1>11, <2>1
<1>13. CellsShift(g, i)
  <2> HIDE DEF a, n, len
  <2>1. Len(regArrays'[a]) = Len(regArrays[a])
    BY <1>9, <1>11 DEF len
  <2> QED BY <1>1, <1>4, <1>6, <1>10, <1>12, <2>1 DEF CellsShift, a, n
<1> QED BY <1>1, <1>2, <1>13

-----------------------------------------------------------------------------
(* ToolRegistry: the slices after each step *)

\* Another agent's slice and its cells stay, when its array and the states of its
\* connections do.
LEMMA SliceElsewhere ==
  ASSUME RegTyped, NEW h \in RegAgents, SliceHolds(h),
         regList'[h] = regList[h],
         regList[h].array # 0 => regArrays'[regList[h].array] = regArrays[regList[h].array],
         regList[h].array = 0 => regList[h].len = 0,
         \A k \in Conns : ConnAgent(k) = h => (regConn'[k] = "open" <=> regConn[k] = "open")
  PROVE  SliceHolds(h)'
<1>1. \A j \in 1..regList[h].len : CellAt(h, j)' = CellAt(h, j)
  BY DEF CellAt, RegTyped
<1> QED BY <1>1 DEF SliceHolds

LEMMA AppendSlices ==
  ASSUME RegTyped, RegSlices, NEW k \in Conns, RegAppend(k), NEW g, g = ConnAgent(k)
  PROVE  RegSlices'
<1>0. PICK n \in Nat : n = regList[g].len
  BY ConnFacts DEF RegTyped
<1>1. g \in RegAgents /\ regConn[k] = "registered" /\ regConn' = [regConn EXCEPT ![k] = "open"]
  BY ConnFacts DEF RegAppend
<1>2. PICK a \in Nat : Appended(g, k, a)
  BY <1>1, AppendConnDoes DEF RegAppend
<1>3. /\ n \in Nat /\ regList[g].array \in 0..Len(regArrays) /\ Len(regArrays) \in Nat
      /\ regList'[g] = [array |-> a, len |-> n + 1]
      /\ \A h \in RegAgents : h # g => regList'[h] = regList[h]
  BY <1>0, <1>1, <1>2, LenProperties DEF Appended, RegTyped
<1>4. \A j \in Conns : regConn'[j] = IF j = k THEN "open" ELSE regConn[j]
  BY <1>1 DEF RegTyped
<1>5. \A h \in RegAgents : h # g => regList[h].array # a
  <2> SUFFICES ASSUME NEW h \in RegAgents, h # g PROVE regList[h].array # a
    OBVIOUS
  <2>1. regList[h].array \in 0..Len(regArrays)
    BY DEF RegTyped
  <2>2. CASE a = Len(regArrays) + 1
    BY <1>3, <2>1, <2>2
  <2>3. CASE a = regList[g].array
    <3>1. a # 0
      BY <1>2 DEF Appended
    <3> QED BY <1>1, <2>3, <3>1 DEF RegSlices, SliceFits
  <2> QED BY <1>2, <2>2, <2>3 DEF Appended
<1>6. ASSUME NEW h \in RegAgents, h # g PROVE SliceFits(h)' /\ SliceHolds(h)'
  <2>1. regList[h].array \in 0..Len(regArrays) /\ regList'[h] = regList[h] /\ regList[h].array # a
    BY <1>3, <1>5, <1>6 DEF RegTyped
  <2>2. regList[h].array # 0 => regArrays'[regList[h].array] = regArrays[regList[h].array]
    <3>1. \A b \in 1..Len(regArrays) : b # a => regArrays'[b] = regArrays[b]
      BY <1>2 DEF Appended
    <3>2. regList[h].array # 0 => regList[h].array \in 1..Len(regArrays)
      BY <1>3, <2>1
    <3> QED BY <2>1, <3>1, <3>2
  <2>3. SliceFits(h) /\ SliceHolds(h)
    BY DEF RegSlices
  <2>4. SliceFits(h)'
    BY <1>1, <1>3, <2>1, <2>2, <2>3 DEF SliceFits
  <2>5. \A j \in Conns : ConnAgent(j) = h => (regConn'[j] = "open" <=> regConn[j] = "open")
    BY <1>4, <1>6
  <2>6. SliceHolds(h)'
    BY <2>1, <2>2, <2>3, <2>5, SliceElsewhere DEF SliceFits
  <2> QED BY <2>4, <2>6
<1>7. SliceFits(g)'
  BY <1>0, <1>1, <1>2, <1>3, <1>5 DEF SliceFits, Appended
<1>8. SliceHolds(g)'
  <2>1. SliceHolds(g)
    BY <1>1 DEF RegSlices
  <2>0. \A j : CellAt(g, j)' = regArrays'[a][j]
    BY <1>3 DEF CellAt
  <2>9. (\A j \in 1..n : regArrays'[a][j] = CellAt(g, j)) /\ regArrays'[a][n + 1] = k
    BY <1>0, <1>2 DEF Appended
  <2>5. \A j \in 1..n : CellAt(g, j) \in Conns /\ ConnAgent(CellAt(g, j)) = g
                         /\ regConn[CellAt(g, j)] = "open"
    BY <1>0, <2>1 DEF SliceHolds
  <2>2. \A j \in 1..n : CellAt(g, j)' = CellAt(g, j) /\ CellAt(g, j) # k
    BY <1>1, <2>0, <2>5, <2>9
  <2>3. CellAt(g, n + 1)' = k
    BY <2>0, <2>9
  <2>4. regList'[g].len = n + 1 /\ \A j \in 1..(n + 1) : j \in 1..n \/ j = n + 1
    BY <1>3
  <2>6. \A j \in 1..(n + 1) : /\ CellAt(g, j)' \in Conns /\ ConnAgent(CellAt(g, j)') = g
                              /\ regConn'[CellAt(g, j)'] = "open"
    BY <1>4, <2>2, <2>3, <2>4, <2>5
  <2>7. \A i, j \in 1..(n + 1) : CellAt(g, i)' = CellAt(g, j)' => i = j
    BY <1>0, <2>1, <2>2, <2>3, <2>4 DEF SliceHolds
  <2>8. ASSUME NEW c \in Conns, regConn'[c] = "open", ConnAgent(c) = g
        PROVE  \E j \in 1..(n + 1) : CellAt(g, j)' = c
    <3>1. CASE c = k
      BY <1>3, <2>3, <3>1
    <3>2. CASE c # k
      <4>1. PICK j \in 1..n : CellAt(g, j) = c
        BY <1>0, <1>4, <2>1, <2>8, <3>2 DEF SliceHolds
      <4> QED BY <1>3, <2>2, <4>1
    <3> QED BY <3>1, <3>2
  <2> QED BY <2>4, <2>6, <2>7, <2>8 DEF SliceHolds
<1> QED BY <1>6, <1>7, <1>8 DEF RegSlices

LEMMA DisconnectSlices ==
  ASSUME RegTyped, RegSlices, NEW g \in RegAgents, NEW s \in RegServers, RegDisconnect(g, s)
  PROVE  RegSlices'
<1>1. PICK n \in Nat, a \in Nat : n = regList[g].len /\ a = regList[g].array
  BY DEF RegTyped
<1>2. PICK i \in 1..n :
        CellsShift(g, i) /\ regConn' = [regConn EXCEPT ![CellAt(g, i)] = "ended"]
  BY <1>1, DisconnectDoes
<1>3. /\ a \in 1..Len(regArrays) /\ Len(regArrays') = Len(regArrays) /\ Len(regArrays) \in Nat
      /\ regList' = [regList EXCEPT ![g] = [array |-> a, len |-> n - 1]]
      /\ \A b \in 1..Len(regArrays) : b # a => regArrays'[b] = regArrays[b]
      /\ Len(regArrays'[a]) = Len(regArrays[a]) /\ Len(regArrays[a]) \in Nat
      /\ \A j \in 1..(n - 1) : regArrays'[a][j] = IF j < i THEN CellAt(g, j) ELSE CellAt(g, j + 1)
  BY <1>1, <1>2, LenProperties, ArrayFacts DEF CellsShift, RegTyped
<1>4. /\ regList'[g] = [array |-> a, len |-> n - 1]
      /\ \A h \in RegAgents : h # g => regList'[h] = regList[h]
  BY <1>3 DEF RegTyped
<1>5. SliceFits(g) /\ SliceHolds(g)
  BY DEF RegSlices
<1>6. \A j \in 1..n : /\ CellAt(g, j) \in Conns /\ ConnAgent(CellAt(g, j)) = g
                      /\ regConn[CellAt(g, j)] = "open"
  BY <1>1, <1>5 DEF SliceHolds
<1>7. PICK k \in Conns : k = CellAt(g, i) /\ ConnAgent(k) = g
  BY <1>6
<1>8. \A c \in Conns : regConn'[c] = IF c = k THEN "ended" ELSE regConn[c]
  BY <1>2, <1>7 DEF RegTyped
<1>9. \A h \in RegAgents : h # g => regList[h].array # a
  BY <1>1, <1>3, <1>5 DEF SliceFits
<1>10. ASSUME NEW h \in RegAgents, h # g PROVE SliceFits(h)' /\ SliceHolds(h)'
  <2>1. regList[h].array \in 0..Len(regArrays) /\ regList'[h] = regList[h] /\ regList[h].array # a
    BY <1>4, <1>9, <1>10 DEF RegTyped
  <2>2. regList[h].array # 0 => regArrays'[regList[h].array] = regArrays[regList[h].array]
    <3>1. regList[h].array # 0 => regList[h].array \in 1..Len(regArrays)
      BY <1>3, <2>1
    <3> QED BY <1>3, <2>1, <3>1
  <2>3. SliceFits(h) /\ SliceHolds(h)
    BY DEF RegSlices
  <2>4. SliceFits(h)'
    BY <1>4, <2>1, <2>2, <2>3 DEF SliceFits
  <2>5. \A j \in Conns : ConnAgent(j) = h => (regConn'[j] = "open" <=> regConn[j] = "open")
    BY <1>7, <1>8, <1>10
  <2>6. SliceHolds(h)'
    BY <2>1, <2>2, <2>3, <2>5, SliceElsewhere DEF SliceFits
  <2> QED BY <2>4, <2>6
<1>11. SliceFits(g)'
  BY <1>1, <1>3, <1>4, <1>5, <1>9 DEF SliceFits
<1>12. SliceHolds(g)'
  <2>1. \A j : CellAt(g, j)' = regArrays'[a][j]
    BY <1>4 DEF CellAt
  <2>2. \A j \in 1..(n - 1) : CellAt(g, j)' = IF j < i THEN CellAt(g, j) ELSE CellAt(g, j + 1)
    BY <1>3, <2>1
  <2>3. \A j \in 1..(n - 1) : j \in 1..n /\ j + 1 \in 1..n
    OBVIOUS
  <2>4. \A p, q \in 1..n : CellAt(g, p) = CellAt(g, q) => p = q
    BY <1>1, <1>5 DEF SliceHolds
  <2>5. \A j \in 1..(n - 1) : \E p \in 1..n : CellAt(g, j)' = CellAt(g, p) /\ p # i
    BY <2>2, <2>3
  <2>6. \A j \in 1..(n - 1) : /\ CellAt(g, j)' \in Conns /\ ConnAgent(CellAt(g, j)') = g
                              /\ regConn'[CellAt(g, j)'] = "open"
    BY <1>6, <1>7, <1>8, <2>4, <2>5
  <2>7. \A p, q \in 1..(n - 1) : CellAt(g, p)' = CellAt(g, q)' => p = q
    <3> SUFFICES ASSUME NEW p \in 1..(n - 1), NEW q \in 1..(n - 1), CellAt(g, p)' = CellAt(g, q)'
                 PROVE  p = q
      OBVIOUS
    <3>1. PICK u \in 1..n : CellAt(g, p)' = CellAt(g, u) /\ u = IF p < i THEN p ELSE p + 1
      BY <2>2, <2>3
    <3>2. PICK v \in 1..n : CellAt(g, q)' = CellAt(g, v) /\ v = IF q < i THEN q ELSE q + 1
      BY <2>2, <2>3
    <3>3. u = v
      BY <2>4, <3>1, <3>2
    <3> QED BY <3>1, <3>2, <3>3
  <2>8. ASSUME NEW c \in Conns, regConn'[c] = "open", ConnAgent(c) = g
        PROVE  \E j \in 1..(n - 1) : CellAt(g, j)' = c
    <3>1. regConn[c] = "open" /\ c # k
      BY <1>8, <2>8
    <3>2. PICK p \in 1..n : CellAt(g, p) = c
      BY <1>1, <1>5, <2>8, <3>1 DEF SliceHolds
    <3>3. p # i
      BY <1>7, <3>1, <3>2
    <3>4. CASE p < i
      <4>1. p \in 1..(n - 1) /\ CellAt(g, p)' = c
        BY <2>2, <3>2, <3>4
      <4> QED BY <4>1
    <3>5. CASE p > i
      <4>1. PICK q \in 1..(n - 1) : q = p - 1 /\ ~(q < i) /\ q + 1 = p
        BY <3>5
      <4>2. CellAt(g, q)' = c
        BY <2>2, <3>2, <4>1
      <4> QED BY <4>2
    <3> QED BY <3>3, <3>4, <3>5
  <2>9. regList'[g].len = n - 1
    BY <1>4
  <2> QED BY <2>6, <2>7, <2>8, <2>9 DEF SliceHolds
<1> QED BY <1>10, <1>11, <1>12 DEF RegSlices

\* The slices that go: of one agent, or of all.
LEMMA DropSlices ==
  ASSUME RegTyped, RegSlices, NEW G \in SUBSET RegAgents,
         regArrays' = regArrays,
         \A h \in RegAgents : regList'[h] = IF h \in G THEN NilList ELSE regList[h],
         \A k \in Conns : regConn'[k] = "open" <=> regConn[k] = "open" /\ ConnAgent(k) \notin G
  PROVE  RegSlices'
<1>1. ASSUME NEW h \in RegAgents \ G PROVE SliceFits(h)' /\ SliceHolds(h)'
  <2>1. regList'[h] = regList[h] /\ SliceFits(h) /\ SliceHolds(h)
    BY DEF RegSlices
  <2>2. \A j \in Conns : ConnAgent(j) = h => (regConn'[j] = "open" <=> regConn[j] = "open")
    BY <1>1
  <2>3. SliceHolds(h)'
    BY <2>1, <2>2, SliceElsewhere DEF SliceFits
  <2>4. SliceFits(h)'
    BY <2>1 DEF SliceFits, NilList
  <2> QED BY <2>3, <2>4
<1>2. ASSUME NEW h \in G PROVE SliceFits(h)' /\ SliceHolds(h)'
  <2>1. regList'[h].array = 0 /\ regList'[h].len = 0 /\ h \in RegAgents
    BY DEF NilList
  <2> QED BY <2>1 DEF SliceFits, SliceHolds
<1> QED BY <1>1, <1>2 DEF RegSlices

LEMMA CellsAreOpen ==
  ASSUME RegTyped, RegSlices, NEW g \in RegAgents
  PROVE  Range(Cells(g)) = {k \in Conns : regConn[k] = "open" /\ ConnAgent(k) = g}
<1>1. SliceFits(g) /\ SliceHolds(g)
  BY DEF RegSlices
<1>2. Range(Cells(g)) = {CellAt(g, j) : j \in 1..regList[g].len}
  BY <1>1, CellsAre
<1> QED BY <1>1, <1>2 DEF SliceHolds

-----------------------------------------------------------------------------
(* ToolRegistry: the registry and the live connections after each step *)

Serving == {"registered", "open", "leaving"}

LEMMA FollowsIs ==
  RegToolsFollowServers <=>
    (~regShut => \A s \in RegServers \ regShared :
       s \in regTools <=> \E k \in Conns : ConnServer(k) = s /\ regConn[k] \in Serving)
BY DEF RegToolsFollowServers, LiveConns, Live, Serving

LEMMA FollowsNext ==
  ASSUME ~regShut' => \A s \in RegServers \ regShared' :
           s \in regTools' <=> \E k \in Conns : ConnServer(k) = s /\ regConn'[k] \in Serving
  PROVE  RegToolsFollowServers'
BY DEF RegToolsFollowServers, LiveConns, Live, Serving

LEMMA OffersKept ==
  ASSUME RegOffers, UNCHANGED <<regOffered, regMissed>>, regTools \ RegServers \subseteq regTools'
  PROVE  RegOffers'
BY DEF RegOffers

LEMMA LiveKept ==
  ASSUME RegLive, regShared \subseteq regShared',
         \A k \in Conns : regConn'[k] \in Live => regConn[k] \in Live
  PROVE  RegLive'
BY DEF RegLive

\* A server whose connections, and whose place in the registry, stay.
LEMMA FollowsKept ==
  ASSUME RegToolsFollowServers, regShared \subseteq regShared', regShut' = regShut,
         regTools' = regTools,
         \A k \in Conns : regConn'[k] \in Serving <=> regConn[k] \in Serving
  PROVE  RegToolsFollowServers'
BY FollowsIs, FollowsNext

\* A connection that ends takes its server's tool along, which no other connection has if
\* the server is not shared.
LEMMA FollowsEnd ==
  ASSUME RegTyped, RegLive, RegToolsFollowServers, NEW k \in Conns, regConn[k] \in Serving,
         regConn' = [regConn EXCEPT ![k] = "ended"], regTools' = regTools \ {ConnServer(k)},
         regShared' = regShared, regShut' = regShut
  PROVE  RegToolsFollowServers'
<1> SUFFICES ASSUME ~regShut', NEW s \in RegServers \ regShared'
             PROVE  s \in regTools' <=>
                      \E j \in Conns : ConnServer(j) = s /\ regConn'[j] \in Serving
  BY FollowsNext
<1>1. \A j \in Conns : regConn'[j] = IF j = k THEN "ended" ELSE regConn[j]
  BY DEF RegTyped
<1>2. s \in regTools <=> \E j \in Conns : ConnServer(j) = s /\ regConn[j] \in Serving
  BY FollowsIs
<1>3. CASE s = ConnServer(k)
  <2>1. \A j \in Conns : ConnServer(j) = s /\ regConn[j] \in Serving => j = k
    BY <1>3 DEF RegLive, Live, Serving
  <2> QED BY <1>1, <1>3, <2>1 DEF Serving
<1>4. CASE s # ConnServer(k)
  BY <1>1, <1>2, <1>4
<1> QED BY <1>3, <1>4

\* The parts of RegTyped that a step of the manager can change.
LEMMA RegTypedKept ==
  ASSUME RegTyped, UNCHANGED <<regRows, regTurn, regOffered>>, regTools' \subseteq RegNames,
         regConn' \in [Conns -> Live \union {"idle", "ended"}],
         regArrays' \in Seq(Seq(0..NConns)), Len(regArrays) <= Len(regArrays'),
         regList' \in [RegAgents -> [array : 0..Len(regArrays'), len : Nat]],
         regScan' = regScan \/ regScan' \in
           [at : {"idle", "scanning", "found", "missed"},
            list : [array : 0..Len(regArrays'), len : Nat], i : Nat,
            agent : RegAgents \union {AnyAgent}, server : RegServers \union {AnyServer}],
         regSteady' \in BOOLEAN, regShifted' \in BOOLEAN, regShut' \in BOOLEAN,
         regShared' \subseteq RegServers
  PROVE  RegTyped'
<1>1. Len(regArrays) \in Nat /\ Len(regArrays') \in Nat
  BY LenProperties DEF RegTyped
<1>2. [array : 0..Len(regArrays), len : Nat] \subseteq [array : 0..Len(regArrays'), len : Nat]
  BY <1>1
<1>3. regScan' \in [at : {"idle", "scanning", "found", "missed"},
            list : [array : 0..Len(regArrays'), len : Nat], i : Nat,
            agent : RegAgents \union {AnyAgent}, server : RegServers \union {AnyServer}]
  BY <1>2 DEF RegTyped
<1> QED BY <1>3 DEF RegTyped, AnyAgent, AnyServer

\* Slices stay when their cells and the open connections do.
LEMMA SlicesKept ==
  ASSUME RegTyped, RegSlices, UNCHANGED <<regArrays, regList>>,
         \A k \in Conns : regConn'[k] = "open" <=> regConn[k] = "open"
  PROVE  RegSlices'
<1> SUFFICES ASSUME NEW h \in RegAgents PROVE SliceFits(h)' /\ SliceHolds(h)'
  BY DEF RegSlices
<1>1. SliceFits(h) /\ SliceHolds(h)
  BY DEF RegSlices
<1>2. SliceFits(h)'
  BY <1>1 DEF SliceFits
<1>3. SliceHolds(h)'
  BY <1>1, SliceElsewhere DEF SliceFits
<1> QED BY <1>2, <1>3

LEMMA ScanningKept ==
  ASSUME RegScanning, UNCHANGED <<regScan, regShifted, regArrays, regList>>, regSteady' => regSteady
  PROVE  RegScanning'
BY DEF RegScanning, ScanSound

\* One connection's state changes.
LEMMA ConnTyped ==
  ASSUME RegTyped, NEW k \in Conns, NEW v \in Live \union {"idle", "ended"},
         regConn' = [regConn EXCEPT ![k] = v]
  PROVE  /\ regConn' \in [Conns -> Live \union {"idle", "ended"}]
         /\ \A j \in Conns : regConn'[j] = IF j = k THEN v ELSE regConn[j]
BY DEF RegTyped

-----------------------------------------------------------------------------
(* ToolRegistry: one lemma per step of the manager *)

LEMMA RegConnectStep ==
  ASSUME RegInv, NEW k \in Conns, RegConnect(k)
  PROVE  RegInv'
<1> USE DEF RegInv
<1>1. /\ regConn[k] = "idle"
      /\ UNCHANGED <<regTools, regRows, regTurn, regOffered, regMissed, regArrays, regList, regScan,
                     regSteady, regShifted, regShut>>
  BY DEF RegConnect, regTurnVars, regSliceVars, regScanVars
<1>2. PICK v \in {"ended", "listed"} :
        /\ regConn' = [regConn EXCEPT ![k] = v]
        /\ v = "ended" => regShared' = regShared
        /\ v = "listed" => regShared' = IF LiveConns(ConnServer(k)) = {} THEN regShared
                                        ELSE regShared \union {ConnServer(k)}
  BY DEF RegConnect
<1>3. /\ regConn' \in [Conns -> Live \union {"idle", "ended"}]
      /\ \A j \in Conns : regConn'[j] = IF j = k THEN v ELSE regConn[j]
  BY <1>2, ConnTyped DEF Live
<1>4. regShared \subseteq regShared' /\ regShared' \subseteq RegServers
  BY <1>2, ConnFacts DEF RegTyped
<1>5. RegTyped'
  BY <1>1, <1>3, <1>4, RegTypedKept DEF RegTyped
<1>6. RegOffers'
  BY <1>1, OffersKept
<1>7. RegSlices'
  BY <1>1, <1>3, SlicesKept
<1>8. RegLive'
  <2> SUFFICES ASSUME NEW i \in Conns, NEW j \in Conns, regConn'[i] \in Live, regConn'[j] \in Live,
                      ConnServer(i) = ConnServer(j), i # j
               PROVE  ConnServer(i) \in regShared'
    BY DEF RegLive
  <2>1. CASE i # k /\ j # k
    BY <1>3, <1>4, <2>1 DEF RegLive
  <2>2. CASE i = k \/ j = k
    <3>1. PICK other \in Conns : other # k /\ other \in {i, j} /\ k \in {i, j}
      BY <2>2
    <3>2. regConn[other] \in Live /\ ConnServer(other) = ConnServer(k) /\ v = "listed"
      BY <1>3, <3>1 DEF Live
    <3>3. LiveConns(ConnServer(k)) # {}
      BY <3>2 DEF LiveConns
    <3> QED BY <1>2, <3>1, <3>2, <3>3
  <2> QED BY <2>1, <2>2
<1>9. RegToolsFollowServers'
  BY <1>1, <1>3, <1>4, FollowsKept DEF Serving
<1>10. RegScanning'
  BY <1>1, ScanningKept
<1> QED BY <1>5, <1>6, <1>7, <1>8, <1>9, <1>10

LEMMA RegRegisterToolsStep ==
  ASSUME RegInv, NEW k \in Conns, RegRegisterTools(k)
  PROVE  RegInv'
<1> USE DEF RegInv
<1>1. /\ regConn[k] = "listed" /\ regTools' = regTools \union {ConnServer(k)}
      /\ regConn' = [regConn EXCEPT ![k] = "registered"]
      /\ UNCHANGED <<regRows, regTurn, regOffered, regMissed, regArrays, regList, regScan,
                     regSteady, regShifted, regShared, regShut>>
  BY DEF RegRegisterTools, regTurnVars, regSliceVars, regScanVars
<1>2. /\ regConn' \in [Conns -> Live \union {"idle", "ended"}]
      /\ \A j \in Conns : regConn'[j] = IF j = k THEN "registered" ELSE regConn[j]
  BY <1>1, ConnTyped DEF Live
<1>3. RegTyped'
  BY <1>1, <1>2, RegTypedKept, ConnFacts DEF RegTyped
<1>4. RegOffers'
  BY <1>1, OffersKept
<1>5. RegSlices'
  BY <1>1, <1>2, SlicesKept
<1>6. RegLive'
  BY <1>1, <1>2, LiveKept DEF Live
<1>7. RegToolsFollowServers'
  <2>1. ~regShut => \A s \in RegServers \ regShared :
          s \in regTools <=> \E j \in Conns : ConnServer(j) = s /\ regConn[j] \in Serving
    BY FollowsIs
  <2> QED BY <1>1, <1>2, <2>1, FollowsNext DEF Serving
<1>8. RegScanning'
  BY <1>1, ScanningKept
<1> QED BY <1>3, <1>4, <1>5, <1>6, <1>7, <1>8

LEMMA RegEndStep ==
  ASSUME RegInv, NEW k \in Conns, RegEnd(k)
  PROVE  RegInv'
<1> USE DEF RegInv
<1>1. /\ regConn[k] = "leaving" /\ regTools' = regTools \ {ConnServer(k)}
      /\ regConn' = [regConn EXCEPT ![k] = "ended"]
      /\ UNCHANGED <<regRows, regTurn, regOffered, regMissed, regArrays, regList, regScan,
                     regSteady, regShifted, regShared, regShut>>
  BY DEF RegEnd, Unregister, regTurnVars, regSliceVars, regScanVars
<1>2. /\ regConn' \in [Conns -> Live \union {"idle", "ended"}]
      /\ \A j \in Conns : regConn'[j] = IF j = k THEN "ended" ELSE regConn[j]
  BY <1>1, ConnTyped
<1>3. RegTyped'
  BY <1>1, <1>2, RegTypedKept DEF RegTyped
<1>4. RegOffers'
  BY <1>1, OffersKept, ConnFacts
<1>5. RegSlices'
  BY <1>1, <1>2, SlicesKept
<1>6. RegLive'
  BY <1>1, <1>2, LiveKept DEF Live
<1>7. RegToolsFollowServers'
  BY <1>1, FollowsEnd DEF Serving
<1>8. RegScanning'
  BY <1>1, ScanningKept
<1> QED BY <1>3, <1>4, <1>5, <1>6, <1>7, <1>8

\* An append writes no cell that a scan has yet to read.
LEMMA AppendScanning ==
  ASSUME RegTyped, RegSlices, RegScanning, NEW g \in RegAgents, NEW k, NEW a \in Nat,
         Appended(g, k, a), UNCHANGED <<regScan, regSteady, regShifted>>
  PROVE  RegScanning'
<1> SUFFICES ASSUME ScanSound PROVE ScanSound'
  BY DEF RegScanning
<1>1. PICK b \in 1..Len(regArrays), n \in Nat : b = regScan.list.array /\ n = regScan.list.len
  BY DEF ScanSound, RegTyped
<1>2. PICK j \in regScan.i..n : ConnServer(regArrays[b][j]) = regScan.server
  BY <1>1 DEF ScanSound
<1>3. /\ Len(regArrays) \in Nat /\ Len(regArrays') \in Nat /\ regScan.i \in Nat
      /\ regList[g].array \in 0..Len(regArrays) /\ regList[g].len \in Nat
  BY LenProperties DEF RegTyped, Appended
<1>11. regScan.i >= 1
  BY DEF ScanSound
<1>4. regList' = [regList EXCEPT ![g] = [array |-> a, len |-> regList[g].len + 1]]
  BY DEF Appended
<1>5. /\ regList'[g].array = a /\ regList'[g].len = regList[g].len + 1
      /\ \A h \in RegAgents : h # g => regList'[h] = regList[h]
  BY <1>4 DEF RegTyped
<1>6. b \in 1..Len(regArrays')
  BY <1>3 DEF Appended
<1>7. \A h \in RegAgents : regList[h].array = b => h = regScan.agent /\ n <= regList[h].len
  BY <1>1 DEF ScanSound
<1>8. b = a => a = regList[g].array
  BY <1>3 DEF Appended
<1>9. \A h \in RegAgents : regList'[h].array = b => h = regScan.agent /\ n <= regList'[h].len
  BY <1>1, <1>3, <1>5, <1>7, <1>8
<1>10. n <= Len(regArrays'[b]) /\ ConnServer(regArrays'[b][j]) = regScan.server
  <2>0. n <= Len(regArrays[b])
    BY <1>1 DEF ScanSound
  <2>1. CASE b # a
    <3>1. regArrays'[b] = regArrays[b]
      BY <2>1 DEF Appended
    <3> QED BY <1>2, <2>0, <3>1
  <2>2. CASE b = a
    <3>1. Len(regArrays'[b]) = Len(regArrays[b])
      BY <1>8, <2>2 DEF Appended
    <3>2. n <= regList[g].len
      BY <1>7, <1>8, <2>2
    <3>3. CASE j \in 1..regList[g].len
      <4>1. regArrays'[b][j] = CellAt(g, j)
        BY <2>2, <3>3 DEF Appended
      <4>2. CellAt(g, j) = regArrays[b][j]
        BY <1>8, <2>2 DEF CellAt
      <4> QED BY <1>2, <2>0, <3>1, <4>1, <4>2
    <3>4. CASE j \notin 1..regList[g].len
      BY <1>2, <1>3, <1>11, <3>2, <3>4
    <3> QED BY <3>3, <3>4
  <2> QED BY <2>1, <2>2
<1> QED BY <1>1, <1>2, <1>6, <1>9, <1>10 DEF ScanSound

LEMMA RegAppendStep ==
  ASSUME RegInv, NEW k \in Conns, RegAppend(k)
  PROVE  RegInv'
<1> USE DEF RegInv
<1>1. /\ regConn[k] = "registered" /\ regConn' = [regConn EXCEPT ![k] = "open"]
      /\ UNCHANGED <<regTools, regRows, regTurn, regOffered, regMissed, regScan, regSteady,
                     regShifted, regShared, regShut>>
  BY DEF RegAppend, regTurnVars, regScanVars
<1>2. /\ regConn' \in [Conns -> Live \union {"idle", "ended"}]
      /\ \A j \in Conns : regConn'[j] = IF j = k THEN "open" ELSE regConn[j]
  BY <1>1, ConnTyped DEF Live
<1>3. PICK g \in RegAgents : g = ConnAgent(k)
  BY ConnFacts
<1>4. PICK a \in Nat : Appended(g, k, a)
  BY <1>3, AppendConnDoes DEF RegAppend
<1>5. RegTyped'
  <2>1. /\ regArrays' \in Seq(Seq(0..NConns)) /\ Len(regArrays) <= Len(regArrays')
        /\ a \in 1..Len(regArrays') /\ Len(regArrays') \in Nat /\ Len(regArrays) \in Nat
        /\ regList' = [regList EXCEPT ![g] = [array |-> a, len |-> regList[g].len + 1]]
    BY <1>4, LenProperties DEF Appended, RegTyped
  <2>2. regList \in [RegAgents -> [array : 0..Len(regArrays'), len : Nat]]
    <3>1. [array : 0..Len(regArrays), len : Nat] \subseteq [array : 0..Len(regArrays'), len : Nat]
      BY <2>1
    <3> QED BY <3>1 DEF RegTyped
  <2>3. [array |-> a, len |-> regList[g].len + 1] \in [array : 0..Len(regArrays'), len : Nat]
    BY <2>1, <2>2
  <2>4. regList' \in [RegAgents -> [array : 0..Len(regArrays'), len : Nat]]
    BY <2>1, <2>2, <2>3
  <2> QED BY <1>1, <1>2, <2>1, <2>4, RegTypedKept DEF RegTyped
<1>6. RegOffers'
  BY <1>1, OffersKept
<1>7. RegSlices'
  BY <1>3, AppendSlices
<1>8. RegLive'
  BY <1>1, <1>2, LiveKept DEF Live
<1>9. RegToolsFollowServers'
  BY <1>1, <1>2, FollowsKept DEF Serving
<1>10. RegScanning'
  BY <1>1, <1>4, AppendScanning
<1> QED BY <1>5, <1>6, <1>7, <1>8, <1>9, <1>10

\* A disconnect of another agent leaves the cells of a scan alone.
LEMMA ShiftScanning ==
  ASSUME RegTyped, RegSlices, RegScanning, NEW g \in RegAgents, NEW i, CellsShift(g, i),
         regScan' = regScan, regSteady' => regSteady,
         regShifted' = (regShifted \/ regScan.agent = g)
  PROVE  RegScanning'
<1> SUFFICES ASSUME ScanSound, regScan.agent # g PROVE ScanSound'
  BY DEF RegScanning
<1>1. /\ regList[g].array # regScan.list.array /\ regScan.list.array \in 1..Len(regArrays)
      /\ \A h \in RegAgents : regList[h].array = regScan.list.array =>
           h = regScan.agent /\ regScan.list.len <= regList[h].len
  BY DEF ScanSound
<1>2. regArrays'[regScan.list.array] = regArrays[regScan.list.array] /\ Len(regArrays') = Len(regArrays)
  BY <1>1 DEF CellsShift
<1>3. regList' = [regList EXCEPT ![g] = [array |-> regList[g].array, len |-> regList[g].len - 1]]
  BY DEF CellsShift
<1>4. regList'[g].array = regList[g].array /\ \A h \in RegAgents : h # g => regList'[h] = regList[h]
  BY <1>3 DEF RegTyped
<1>5. \A h \in RegAgents : regList'[h].array = regScan.list.array =>
           h = regScan.agent /\ regScan.list.len <= regList'[h].len
  BY <1>1, <1>4
<1> QED BY <1>2, <1>5 DEF ScanSound

LEMMA RegDisconnectStep ==
  ASSUME RegInv, NEW g \in RegAgents, NEW s \in RegServers, RegDisconnect(g, s)
  PROVE  RegInv'
<1> USE DEF RegInv
<1>1. /\ regTools' = regTools \ {s} /\ regShifted' = (regShifted \/ regScan.agent = g)
      /\ regSteady' = (regSteady /\ ~(regScan.agent = g /\ regScan.server = s))
      /\ UNCHANGED <<regRows, regTurn, regOffered, regMissed, regScan, regShared, regShut>>
  BY DEF RegDisconnect, Unregister, Forsakes, regTurnVars
<1>2. PICK i \in 1..regList[g].len :
        /\ CellsShift(g, i) /\ ConnServer(CellAt(g, i)) = s
        /\ regConn' = [regConn EXCEPT ![CellAt(g, i)] = "ended"]
  BY DisconnectDoes
<1>3. CellAt(g, i) \in Conns /\ regConn[CellAt(g, i)] = "open"
  BY <1>2 DEF RegSlices, SliceHolds
<1>4. PICK k \in Conns : k = CellAt(g, i)
  BY <1>3
<1>5. /\ regConn' \in [Conns -> Live \union {"idle", "ended"}]
      /\ \A j \in Conns : regConn'[j] = IF j = k THEN "ended" ELSE regConn[j]
  BY <1>2, <1>4, ConnTyped
<1>6. RegTyped'
  <2>1. /\ regArrays' \in Seq(Seq(0..NConns)) /\ Len(regArrays') = Len(regArrays)
        /\ regList[g].array \in 1..Len(regArrays) /\ i \in 1..regList[g].len
        /\ regList' = [regList EXCEPT ![g] = [array |-> regList[g].array, len |-> regList[g].len - 1]]
    BY <1>2 DEF CellsShift
  <2>2. Len(regArrays) \in Nat /\ regList[g].len \in Nat
    BY LenProperties DEF RegTyped
  <2>3. [array |-> regList[g].array, len |-> regList[g].len - 1] \in [array : 0..Len(regArrays'), len : Nat]
    BY <2>1, <2>2
  <2>4. regList' \in [RegAgents -> [array : 0..Len(regArrays'), len : Nat]]
    BY <2>1, <2>3 DEF RegTyped
  <2>5. regSteady' \in BOOLEAN /\ regShifted' \in BOOLEAN /\ regTools' \subseteq RegNames
    BY <1>1 DEF RegTyped
  <2> QED BY <1>1, <1>5, <2>1, <2>2, <2>4, <2>5, RegTypedKept DEF RegTyped
<1>7. RegOffers'
  BY <1>1, OffersKept
<1>8. RegSlices'
  BY DisconnectSlices
<1>9. RegLive'
  BY <1>1, <1>5, LiveKept DEF Live
<1>10. RegToolsFollowServers'
  BY <1>1, <1>2, <1>3, <1>4, FollowsEnd DEF Serving
<1>11. RegScanning'
  BY <1>1, <1>2, ShiftScanning
<1> QED BY <1>6, <1>7, <1>8, <1>9, <1>10, <1>11

\* The agent's entry is deleted: its array stays as it is.
LEMMA DropScanning ==
  ASSUME RegScanning, regArrays' = regArrays, regScan' = regScan, regShifted' = regShifted,
         regSteady' => regSteady,
         \A h \in RegAgents : regList'[h] = NilList \/ regList'[h] = regList[h]
  PROVE  RegScanning'
<1> SUFFICES ASSUME ScanSound PROVE ScanSound'
  BY DEF RegScanning
<1>1. regScan.list.array # 0
  BY DEF ScanSound
<1>2. \A h \in RegAgents : regList'[h].array = regScan.list.array => regList'[h] = regList[h]
  BY <1>1 DEF NilList
<1> QED BY <1>2 DEF ScanSound

LEMMA RegDisconnectAllStep ==
  ASSUME RegInv, NEW g \in RegAgents, RegDisconnectAll(g)
  PROVE  RegInv'
<1> USE DEF RegInv
<1>1. /\ regConn' = [k \in Conns |-> IF k \in Range(Cells(g)) THEN "leaving" ELSE regConn[k]]
      /\ regList' = [regList EXCEPT ![g] = NilList]
      /\ regSteady' = (regSteady /\ ~(regScan.agent = g /\ regScan.server \in RegServers))
      /\ UNCHANGED <<regTools, regRows, regTurn, regOffered, regMissed, regArrays, regScan,
                     regShifted, regShared, regShut>>
  BY DEF RegDisconnectAll, Forsakes, regTurnVars
<1>2. \A k \in Conns : regConn'[k] = IF regConn[k] = "open" /\ ConnAgent(k) = g THEN "leaving"
                                     ELSE regConn[k]
  BY <1>1, CellsAreOpen
<1>3. \A h \in RegAgents : regList'[h] = IF h \in {g} THEN NilList ELSE regList[h]
  BY <1>1 DEF RegTyped
<1>4. RegTyped'
  <2>1. regConn' \in [Conns -> Live \union {"idle", "ended"}]
    BY <1>1 DEF RegTyped, Live
  <2>2. NilList \in [array : 0..Len(regArrays'), len : Nat] /\ Len(regArrays) \in Nat
    BY <1>1, LenProperties DEF NilList, RegTyped
  <2>3. regList' \in [RegAgents -> [array : 0..Len(regArrays'), len : Nat]]
    BY <1>1, <2>2 DEF RegTyped
  <2>4. regSteady' \in BOOLEAN
    BY <1>1 DEF RegTyped
  <2> QED BY <1>1, <2>1, <2>2, <2>3, <2>4, RegTypedKept DEF RegTyped
<1>5. RegOffers'
  BY <1>1, OffersKept
<1>6. RegSlices'
  BY <1>1, <1>2, <1>3, DropSlices
<1>7. RegLive'
  BY <1>1, <1>2, LiveKept DEF Live
<1>8. RegToolsFollowServers'
  BY <1>1, <1>2, FollowsKept DEF Serving
<1>9. RegScanning'
  BY <1>1, <1>3, DropScanning
<1> QED BY <1>4, <1>5, <1>6, <1>7, <1>8, <1>9

LEMMA RegShutdownStep ==
  ASSUME RegInv, RegShutdown
  PROVE  RegInv'
<1> USE DEF RegInv
<1>1. /\ regShut' = TRUE /\ regSteady' = FALSE
      /\ regConn' = [k \in Conns |-> IF \E g \in RegAgents : k \in Range(Cells(g)) THEN "ended"
                                     ELSE regConn[k]]
      /\ regList' = [g \in RegAgents |-> NilList]
      /\ UNCHANGED <<regTools, regRows, regTurn, regOffered, regMissed, regArrays, regScan,
                     regShifted, regShared>>
  BY DEF RegShutdown, regTurnVars
<1>2. \A k \in Conns : regConn'[k] = IF regConn[k] = "open" THEN "ended" ELSE regConn[k]
  BY <1>1, CellsAreOpen, ConnFacts
<1>3. RegTyped'
  <2>1. regConn' \in [Conns -> Live \union {"idle", "ended"}]
    BY <1>1 DEF RegTyped
  <2>2. NilList \in [array : 0..Len(regArrays'), len : Nat] /\ Len(regArrays) \in Nat
    BY <1>1, LenProperties DEF NilList, RegTyped
  <2>3. regList' \in [RegAgents -> [array : 0..Len(regArrays'), len : Nat]]
    BY <1>1, <2>2
  <2> QED BY <1>1, <2>1, <2>2, <2>3, RegTypedKept DEF RegTyped
<1>4. RegOffers'
  BY <1>1, OffersKept
<1>5. RegSlices'
  BY <1>1, <1>2, DropSlices, ConnFacts
<1>6. RegLive'
  BY <1>1, <1>2, LiveKept DEF Live
<1>7. RegToolsFollowServers'
  BY <1>1, FollowsNext
<1>8. RegScanning'
  BY <1>1 DEF RegScanning
<1> QED BY <1>3, <1>4, <1>5, <1>6, <1>7, <1>8

\* A step of a call leaves everything but the scan alone.
LEMMA CallKeeps ==
  ASSUME RegInv, UNCHANGED <<regTools, regTurnVars, regConn, regSliceVars, regShared, regShut>>,
         regSteady' \in BOOLEAN, regShifted' \in BOOLEAN,
         regScan' = regScan \/ regScan' \in
           [at : {"idle", "scanning", "found", "missed"},
            list : [array : 0..Len(regArrays), len : Nat], i : Nat,
            agent : RegAgents \union {AnyAgent}, server : RegServers \union {AnyServer}],
         RegScanning'
  PROVE  RegInv'
<1> USE DEF RegInv, regTurnVars, regSliceVars
<1>0. UNCHANGED <<regTools, regRows, regTurn, regOffered, regMissed, regConn, regArrays, regList,
                  regShared, regShut>>
  OBVIOUS
<1>1. RegTyped'
  <2>1. Len(regArrays) \in Nat
    BY LenProperties DEF RegTyped
  <2> QED BY <1>0, <2>1, RegTypedKept DEF RegTyped
<1>2. RegOffers'
  BY <1>0, OffersKept
<1>3. RegSlices'
  BY <1>0, SlicesKept
<1>4. RegLive'
  BY <1>0, LiveKept
<1>5. RegToolsFollowServers'
  BY <1>0, FollowsKept
<1> QED BY <1>1, <1>2, <1>3, <1>4, <1>5

LEMMA RegCallToolStep ==
  ASSUME RegInv, NEW g \in RegAgents, NEW s \in RegServers, RegCallTool(g, s)
  PROVE  RegInv'
<1> USE DEF RegInv
<1>1. /\ regScan' = [at |-> "scanning", list |-> regList[g], i |-> 1, agent |-> g, server |-> s]
      /\ regSteady' = \E k \in LiveConns(s) : ConnAgent(k) = g /\ regConn[k] = "open"
      /\ regShifted' = FALSE
      /\ UNCHANGED <<regTools, regTurnVars, regConn, regArrays, regList, regShared, regShut>>
  BY DEF RegCallTool, regSliceVars
<1>2. regList[g] \in [array : 0..Len(regArrays), len : Nat]
  BY DEF RegTyped
<1>3. SliceFits(g) /\ SliceHolds(g)
  BY DEF RegSlices
<1>4. RegScanning'
  <2>1. ASSUME regSteady' PROVE ScanSound'
    <3>1. PICK k \in Conns : ConnServer(k) = s /\ ConnAgent(k) = g /\ regConn[k] = "open"
      BY <1>1, <2>1 DEF LiveConns
    <3>2. PICK j \in 1..regList[g].len : CellAt(g, j) = k
      BY <1>3, <3>1 DEF SliceHolds
    <3>3. regList[g].array # 0
      BY <1>2, <1>3, <3>2 DEF SliceFits
    <3>4. regList[g].array \in 1..Len(regArrays)
      BY <1>2, <3>3, LenProperties DEF RegTyped
    <3>5. regList[g].len <= Len(regArrays[regList[g].array])
      BY <1>3, <3>3 DEF SliceFits
    <3>6. \A h \in RegAgents : regList[h].array = regList[g].array =>
            h = g /\ regList[g].len <= regList[h].len
      BY <1>2, <1>3, <3>3 DEF SliceFits
    <3>7. ConnServer(regArrays[regList[g].array][j]) = s
      BY <3>1, <3>2 DEF CellAt
    <3>8. /\ regScan'.list = regList[g] /\ regScan'.i = 1 /\ regScan'.agent = g /\ regScan'.server = s
      BY <1>1
    <3> QED BY <1>1, <3>2, <3>4, <3>5, <3>6, <3>7, <3>8 DEF ScanSound
  <2> QED BY <1>1, <2>1 DEF RegScanning
<1>5. regSteady' \in BOOLEAN
  BY <1>1
<1>6. regScan' \in [at : {"idle", "scanning", "found", "missed"},
            list : [array : 0..Len(regArrays), len : Nat], i : Nat,
            agent : RegAgents \union {AnyAgent}, server : RegServers \union {AnyServer}]
  BY <1>1, <1>2
<1> QED BY <1>1, <1>4, <1>5, <1>6, CallKeeps DEF regSliceVars

LEMMA RegScanCellStep ==
  ASSUME RegInv, RegScanCell
  PROVE  RegInv'
<1> USE DEF RegInv
<1> DEFINE i == regScan.i
           n == regScan.list.len
           here == ConnServer(regArrays[regScan.list.array][i]) = regScan.server
<1>1. /\ regScan.at = "scanning"
      /\ regScan' = IF i > n THEN [regScan EXCEPT !.at = "missed"]
                    ELSE IF here THEN [regScan EXCEPT !.at = "found"] ELSE [regScan EXCEPT !.i = i + 1]
      /\ UNCHANGED <<regTools, regTurnVars, regConn, regArrays, regList, regSteady, regShifted,
                     regShared, regShut>>
  BY DEF RegScanCell, regSliceVars
<1>2. /\ i \in Nat /\ n \in Nat
      /\ regScan \in [at : {"idle", "scanning", "found", "missed"},
            list : [array : 0..Len(regArrays), len : Nat], i : Nat,
            agent : RegAgents \union {AnyAgent}, server : RegServers \union {AnyServer}]
  BY DEF RegTyped
<1>3. regScan' \in [at : {"idle", "scanning", "found", "missed"},
            list : [array : 0..Len(regArrays), len : Nat], i : Nat,
            agent : RegAgents \union {AnyAgent}, server : RegServers \union {AnyServer}]
  <2>1. CASE i > n
    BY <1>1, <1>2, <2>1
  <2>2. CASE ~(i > n) /\ here
    BY <1>1, <1>2, <2>2
  <2>3. CASE ~(i > n) /\ ~here
    BY <1>1, <1>2, <2>3
  <2> QED BY <2>1, <2>2, <2>3
<1>4. RegScanning'
  <2> SUFFICES ASSUME regSteady, ~regShifted
               PROVE  /\ regScan'.at = "scanning" => ScanSound'
                      /\ regScan'.at # "missed"
    BY <1>1 DEF RegScanning
  <2>1. ScanSound
    BY <1>1 DEF RegScanning
  <2>2. PICK j \in i..n : ConnServer(regArrays[regScan.list.array][j]) = regScan.server
    BY <2>1 DEF ScanSound
  <2>3. ~(i > n)
    BY <1>2, <2>2
  <2>4. CASE here
    BY <1>1, <1>2, <2>3, <2>4
  <2>5. CASE ~here
    <3>1. regScan' = [regScan EXCEPT !.i = i + 1]
      BY <1>1, <2>3, <2>5
    <3>2. /\ regScan'.list = regScan.list /\ regScan'.i = i + 1 /\ regScan'.agent = regScan.agent
          /\ regScan'.server = regScan.server /\ regScan'.at = "scanning"
      BY <1>1, <1>2, <3>1
    <3>3. j \in (i + 1)..n
      BY <1>2, <2>2, <2>5
    <3>4. /\ regScan.list.array \in 1..Len(regArrays) /\ i >= 1
          /\ n <= Len(regArrays[regScan.list.array])
          /\ \A h \in RegAgents : regList[h].array = regScan.list.array =>
               h = regScan.agent /\ n <= regList[h].len
      BY <2>1 DEF ScanSound
    <3>5. i + 1 >= 1
      BY <1>2
    <3>6. ScanSound'
      BY <1>1, <2>2, <3>2, <3>3, <3>4, <3>5 DEF ScanSound
    <3> QED BY <3>2, <3>6
  <2> QED BY <2>4, <2>5
<1>5. regSteady' \in BOOLEAN /\ regShifted' \in BOOLEAN
  BY <1>1 DEF RegTyped
<1> QED BY <1>1, <1>3, <1>4, <1>5, CallKeeps DEF regSliceVars

LEMMA RegStepInv == RegInv /\ [RegNext]_regVars => RegInv'
<1> SUFFICES ASSUME RegInv, [RegNext]_regVars PROVE RegInv'
  OBVIOUS
<1>1. CASE RegTurnNext
  BY <1>1, RegTurnStep
<1>2. CASE RegConnNext
  BY <1>2, RegConnectStep, RegRegisterToolsStep, RegAppendStep, RegEndStep, RegDisconnectStep,
     RegCallToolStep, RegDisconnectAllStep, RegShutdownStep, RegScanCellStep DEF RegConnNext
<1>3. CASE UNCHANGED regVars
  <2>1. RegKeepsConns /\ UNCHANGED <<regTools, regRows, regTurn, regOffered, regMissed>>
    BY <1>3 DEF regVars, regTurnVars, regSliceVars, regScanVars, RegKeepsConns
  <2>2. RegTyped'
    BY <2>1 DEF RegInv, RegTyped, RegKeepsConns
  <2>3. RegOffers'
    BY <2>1 DEF RegInv, RegOffers
  <2> QED BY <2>1, <2>2, <2>3, RegConnsKept DEF RegInv
<1> QED BY <1>1, <1>2, <1>3 DEF RegNext

\* The registry has an MCP server's tool exactly while the server is connected, for any
\* Connect calls, agents and skills: one live connection of a server that is not shared is
\* the reason for its tool, and ends with it (Connect, Disconnect, DisconnectAll).
THEOREM RegToolsFollowServersHolds ==
  RegInit /\ [][RegNext]_regVars => []RegToolsFollowServers
<1>1. RegInv => RegToolsFollowServers
  BY DEF RegInv
<1> QED BY <1>1, RegInitInv, RegStepInv, PTL

\* A turn finds the tools it was offered, and CallTool a server that stays connected
\* unless a Disconnect of its agent moved the cells: no append and no other agent's
\* Disconnect writes a cell that the scan has yet to read.
THEOREM RegCallsReachHolds ==
  RegInit /\ [][RegNext]_regVars => []RegCallsReach
<1>1. RegInv => RegCallsReach
  <2> SUFFICES ASSUME RegInv PROVE RegOfferedFound /\ RegScanFinds
    BY DEF RegCallsReach
  <2>1. RegOfferedFound
    BY DEF RegInv, RegOffers, RegOfferedFound
  <2>2. RegScanFinds
    BY DEF RegInv, RegScanning, RegScanFinds
  <2> QED BY <2>1, <2>2
<1> QED BY <1>1, RegInitInv, RegStepInv, PTL

-----------------------------------------------------------------------------
(* ToolRegistry: types and bounds *)

\* A slice holds no more cells than there are Connect calls, and a scan reads at most one
\* past the slice it took.
RegBounds ==
  /\ regMissed \subseteq RegNames
  /\ regScan.list.len <= NConns /\ regScan.i <= regScan.list.len + 1

LEMMA SliceBound ==
  ASSUME RegTyped, RegSlices, NEW g \in RegAgents
  PROVE  regList[g].len <= NConns
<1>1. PICK n \in Nat : n = regList[g].len
  BY DEF RegTyped
<1> DEFINE cells == [j \in 1..n |-> CellAt(g, j)]
<1>2. SliceHolds(g)
  BY DEF RegSlices
<1>3. /\ \A j \in 1..n : CellAt(g, j) \in Conns
      /\ \A i, j \in 1..n : CellAt(g, i) = CellAt(g, j) => i = j
  BY <1>1, <1>2 DEF SliceHolds
<1>4. cells \in Injection(1..n, Conns)
  BY <1>3 DEF Injection, IsInjective
<1>5. IsFiniteSet(Conns) /\ Cardinality(Conns) = NConns
  <2>1. NConns \in Nat /\ Conns = 1..NConns
    BY ConnFacts
  <2> QED BY <2>1, FS_Interval
<1>6. Cardinality(1..n) = n
  BY FS_Interval
<1>7. Cardinality(1..n) <= Cardinality(Conns)
  BY <1>4, <1>5, FS_Injection
<1> QED BY <1>1, <1>5, <1>6, <1>7

LEMMA RegBoundsInit == RegInit => RegBounds
BY ConnFacts DEF RegInit, RegBounds, NilList

LEMMA RegBoundsStep == RegInv /\ RegBounds /\ [RegNext]_regVars => RegBounds'
<1> SUFFICES ASSUME RegInv, RegBounds, [RegNext]_regVars PROVE RegBounds'
  OBVIOUS
<1> USE DEF RegBounds
<1>1. CASE RegTurnNext
  <2>1. regScan' = regScan
    BY <1>1 DEF RegTurnNext, RegAttach, RegDetach, RegLoad, RegRegister, RegFilter, RegUse, regScanVars
  <2>2. regMissed' = regMissed \/ \E g \in RegAgents : \E t \in regOffered[g] :
                                    regMissed' = regMissed \union {t}
    BY <1>1 DEF RegTurnNext, RegAttach, RegDetach, RegLoad, RegRegister, RegFilter, RegUse
  <2>3. \A g \in RegAgents : regOffered[g] \subseteq RegNames
    BY DEF RegInv, RegTyped
  <2> QED BY <2>1, <2>2, <2>3
<1>2. CASE RegConnNext
  <2>0. regMissed' = regMissed
    BY <1>2 DEF RegConnNext, RegConnect, RegRegisterTools, RegAppend, RegEnd, RegDisconnect,
       RegCallTool, RegDisconnectAll, RegShutdown, RegScanCell, regTurnVars
  <2>1. ASSUME NEW g \in RegAgents, NEW s \in RegServers, RegCallTool(g, s) PROVE RegBounds'
    <3>1. regScan'.list = regList[g] /\ regScan'.i = 1
      BY <2>1 DEF RegCallTool
    <3>2. regList[g].len \in Nat /\ regList[g].len <= NConns
      BY SliceBound DEF RegInv, RegTyped
    <3> QED BY <2>0, <3>1, <3>2, ConnFacts DEF NConns
  <2>2. CASE RegScanCell
    <3>1. regScan \in [at : {"idle", "scanning", "found", "missed"},
                       list : [array : 0..Len(regArrays), len : Nat], i : Nat,
                       agent : RegAgents \union {AnyAgent}, server : RegServers \union {AnyServer}]
      BY DEF RegInv, RegTyped
    <3>2. \/ regScan' = [regScan EXCEPT !.at = "missed"]
          \/ regScan' = [regScan EXCEPT !.at = "found"]
          \/ regScan.i <= regScan.list.len /\ regScan' = [regScan EXCEPT !.i = regScan.i + 1]
      BY <2>2, <3>1 DEF RegScanCell
    <3>3. regScan'.list = regScan.list /\ regScan'.i <= regScan.list.len + 1
      BY <3>1, <3>2
    <3> QED BY <2>0, <3>3 DEF NConns
  <2>3. CASE regScan' = regScan
    BY <2>0, <2>3 DEF NConns
  <2> QED
    BY <1>2, <2>1, <2>2, <2>3 DEF RegConnNext, RegConnect, RegRegisterTools, RegAppend, RegEnd,
       RegDisconnect, RegDisconnectAll, RegShutdown, regScanVars
<1>3. CASE UNCHANGED regVars
  BY <1>3 DEF regVars, regTurnVars, regScanVars, NConns
<1> QED BY <1>1, <1>2, <1>3 DEF RegNext

\* The registry, the slices and the scan keep their types and their bounds: a slice has at
\* most one cell for each Connect (append, Disconnect), as each connection is in it once.
THEOREM RegTypeCorrect ==
  RegAgents # {} /\ RegServers # {} => (RegInit /\ [][RegNext]_regVars => []RegTypeOK)
<1> SUFFICES ASSUME RegAgents # {}, RegServers # {}
             PROVE  RegInit /\ [][RegNext]_regVars => []RegTypeOK
  OBVIOUS
<1>1. ASSUME RegInv, RegBounds PROVE RegTypeOK
  <2>1. RegTyped
    BY <1>1 DEF RegInv
  <2>2. AnyAgent \in RegAgents /\ AnyServer \in RegServers
    BY DEF AnyAgent, AnyServer
  <2>3. Len(RegConnects) \in Nat
    BY ConnFacts DEF NConns
  <2>4. \A g \in RegAgents : regList[g].len \in Nat /\ regList[g].len <= Len(RegConnects)
    BY <1>1, SliceBound DEF RegInv, RegTyped, NConns
  <2>5. \A g \in RegAgents : regList[g] \in Lists
    BY <2>1, <2>3, <2>4 DEF RegTyped, Lists
  <2>6. regList \in [RegAgents -> Lists]
    BY <2>1, <2>5 DEF RegTyped
  <2>7. regScan \in [at : {"idle", "scanning", "found", "missed"}, list : Lists,
                     i : 0..Len(RegConnects) + 1, agent : RegAgents, server : RegServers]
    <3>1. regScan \in [at : {"idle", "scanning", "found", "missed"},
                       list : [array : 0..Len(regArrays), len : Nat], i : Nat,
                       agent : RegAgents, server : RegServers]
      BY <2>1, <2>2 DEF RegTyped
    <3>2. regScan.list \in Lists
      BY <1>1, <2>3, <3>1 DEF RegBounds, NConns, Lists
    <3>3. regScan.i \in 0..Len(RegConnects) + 1
      BY <1>1, <2>3, <3>1 DEF RegBounds, NConns
    <3> QED BY <3>1, <3>2, <3>3
  <2>8. regArrays \in Seq(Seq(0..Len(RegConnects)))
    BY <2>1 DEF RegTyped, NConns
  <2> QED BY <1>1, <2>1, <2>6, <2>7, <2>8 DEF RegTyped, RegTypeOK, RegBounds
<1> QED BY <1>1, RegInitInv, RegStepInv, RegBoundsInit, RegBoundsStep, PTL

-----------------------------------------------------------------------------
(* The components beside one another *)

\* Every step of the composition is a step of one component, or of none.
LEMMA ToolsSteps ==
  ASSUME 1 \in Conns, "a" \in RegAgents, "m1" \in RegServers, [ToolsNext]_toolsVars
  PROVE  [McpNext]_mcpVars /\ [RegNext]_regVars /\ [BoxNext]_boxVars
<1>1. CASE focus = "mcp" /\ McpNext /\ UNCHANGED McpOthers
  BY <1>1 DEF McpOthers
<1>2. CASE focus = "turns" /\ (RegTurnNext \/ FirstConn) /\ UNCHANGED RegOthers
  <2>1. RegNext
    BY <1>2 DEF FirstConn, RegNext, RegConnNext
  <2> QED BY <1>2, <2>1 DEF RegOthers
<1>3. CASE focus = "conns" /\ RegConnNext /\ UNCHANGED RegOthers
  BY <1>3 DEF RegOthers, RegNext
<1>4. CASE focus = "box" /\ BoxNext /\ UNCHANGED BoxOthers
  BY <1>4 DEF BoxOthers
<1>5. CASE UNCHANGED toolsVars
  BY <1>5 DEF toolsVars
<1> QED BY <1>1, <1>2, <1>3, <1>4, <1>5 DEF ToolsNext

\* The variables of the three components keep their types side by side.
THEOREM ToolsTypeCorrect ==
  IsFiniteSet(McpCalls) /\ IsFiniteSet(BoxCalls)
    /\ 1 \in Conns /\ "a" \in RegAgents /\ "m1" \in RegServers
    => (ToolsSpec => []ToolsTypeOK)
<1> SUFFICES ASSUME IsFiniteSet(McpCalls), IsFiniteSet(BoxCalls),
                    1 \in Conns, "a" \in RegAgents, "m1" \in RegServers
             PROVE  ToolsSpec => []ToolsTypeOK
  OBVIOUS
<1>1. ToolsInit => McpInit /\ RegInit /\ BoxInit
  BY DEF ToolsInit
<1>2. [ToolsNext]_toolsVars => [McpNext]_mcpVars /\ [RegNext]_regVars /\ [BoxNext]_boxVars
  BY ToolsSteps
<1>3. RegInit /\ [][RegNext]_regVars => []RegTypeOK
  BY RegTypeCorrect
<1>4. McpInit /\ [][McpNext]_mcpVars => []McpTypeOK
  BY McpTypeCorrect
<1>5. BoxInit /\ [][BoxNext]_boxVars => []BoxTypeOK
  BY BoxTypeCorrect
<1> QED BY <1>1, <1>2, <1>3, <1>4, <1>5, PTL DEF ToolsSpec, ToolsTypeOK
=============================================================================
