------------------------------ MODULE Sandboxes ------------------------------
(***************************************************************************)
(* Tool executions outside the gateway's own code: the exec and bash tools,  *)
(* and nibble.Executor with the sandboxes of mudbath, which it opens on      *)
(* first use and shares.  A sandbox runs a call as a process (the exec       *)
(* tools, and both fallbacks), as a gVisor container or in a Firecracker VM. *)
(* What the execution leaves on the host is boxLeft; what Go's defers will   *)
(* remove when it returns is boxDefers, last in first out.                   *)
(***************************************************************************)
EXTENDS Integers, Sequences, FiniteSets, SequencesExt

CONSTANTS
  BoxCalls,  \* concurrent executions
  BoxHost    \* what the host can run: a subset of {"runsc", "firecracker"}

ASSUME BoxAssumption == BoxHost \subseteq {"runsc", "firecracker"}

BoxTiers == {"wasm", "gvisor", "firecracker"}
BoxInstances == 0..2 * Cardinality(BoxCalls)
BoxKidKinds == {"piped", "detached"}

VARIABLES
  boxKind,    \* the tier each call asks for, "exec" for the exec and bash tools
  boxAt,      \* where the execution is
  boxOpen,    \* Executor.sandboxes: the instance of each tier, 0 if none
  boxMade,    \* instances made so far
  boxShut,    \* instances Close has closed
  boxUses,    \* the instance getSandbox returned to each call
  boxDue,     \* the call's context is done: cancelled, or out of time
  boxProc,    \* its process: "none", "running", "ended" or "killed"
  boxKids,    \* its children: "piped" has the output pipe, "detached" has redirected it
  boxGuest,   \* the guest agent: "down", "listening", "running", "done"
  boxLeft,    \* what is on the host: "dir", "vm", "container"
  boxDefers,  \* deferred removals
  boxStuck    \* runsc delete failed (history variable)

boxExecutorVars == <<boxOpen, boxMade, boxShut>>
boxHostVars == <<boxProc, boxKids, boxGuest, boxLeft, boxStuck>>
boxVars == <<boxKind, boxAt, boxExecutorVars, boxUses, boxDue, boxHostVars, boxDefers>>

BoxInit ==
  /\ boxKind \in [BoxCalls -> BoxTiers \union {"exec"}]
  /\ boxAt = [c \in BoxCalls |-> "idle"]
  /\ boxOpen = [t \in BoxTiers |-> 0]
  /\ boxMade = 0
  /\ boxShut = {}
  /\ boxUses = [c \in BoxCalls |-> 0]
  /\ boxDue = [c \in BoxCalls |-> FALSE]
  /\ boxProc = [c \in BoxCalls |-> "none"]
  /\ boxKids = [c \in BoxCalls |-> {}]
  /\ boxGuest = [c \in BoxCalls |-> "down"]
  /\ boxLeft = [c \in BoxCalls |-> {}]
  /\ boxDefers = [c \in BoxCalls |-> <<>>]
  /\ boxStuck = [c \in BoxCalls |-> FALSE]

BoxSet(f, c, v) == [f EXCEPT ![c] = v]
BoxGo(c, at) == boxAt' = BoxSet(boxAt, c, at)
BoxReturn(c) == BoxGo(c, "leaving")

-----------------------------------------------------------------------------
(* Executor.getSandbox and Close *)

\* How a sandbox of this tier runs a call on this host.
BoxMethod(kind) ==
  CASE kind = "gvisor" /\ "runsc" \in BoxHost -> "container"
    [] kind = "firecracker" /\ "firecracker" \in BoxHost -> "vm"
    [] kind = "wasm" -> "module"
    [] OTHER -> "process"

BoxEnter(c, i) ==
  /\ boxUses' = BoxSet(boxUses, c, i)
  /\ BoxGo(c, CASE BoxMethod(boxKind[c]) \in {"container", "vm"} -> "dir"
                [] BoxMethod(boxKind[c]) = "module" -> "module"
                [] OTHER -> "start")

\* Execute: the exec tools run in the gateway; else the map is read under the read lock.
BoxLookup(c) ==
  /\ boxAt[c] = "idle"
  /\ IF boxKind[c] = "exec" THEN BoxEnter(c, 0)
     ELSE IF boxOpen[boxKind[c]] # 0 THEN BoxEnter(c, boxOpen[boxKind[c]])
     ELSE BoxGo(c, "create") /\ UNCHANGED boxUses
  /\ UNCHANGED <<boxKind, boxExecutorVars, boxDue, boxHostVars, boxDefers>>

\* Fault: the map is not read again under the write lock.
BoxNoRecheck(c) == FALSE

BoxRecheck(c) == boxOpen[boxKind[c]] # 0

BoxCreate(c) ==
  /\ boxAt[c] = "create"
  /\ IF BoxRecheck(c) THEN BoxEnter(c, boxOpen[boxKind[c]]) /\ UNCHANGED boxExecutorVars
     ELSE /\ boxMade' = boxMade + 1
          /\ boxOpen' = [boxOpen EXCEPT ![boxKind[c]] = boxMade + 1]
          /\ BoxEnter(c, boxMade + 1)
          /\ UNCHANGED boxShut
  /\ UNCHANGED <<boxKind, boxDue, boxHostVars, boxDefers>>

\* Close holds the lock throughout; executions in the sandboxes go on.
BoxClose ==
  /\ \E t \in BoxTiers : boxOpen[t] # 0
  /\ boxShut' = boxShut \union ({boxOpen[t] : t \in BoxTiers} \ {0})
  /\ boxOpen' = [t \in BoxTiers |-> 0]
  /\ UNCHANGED <<boxKind, boxAt, boxMade, boxUses, boxDue, boxHostVars, boxDefers>>

\* WASMSandbox.Execute: Executor sets no Stdin, where the module would be.
BoxModule(c) ==
  /\ boxAt[c] = "module"
  /\ BoxReturn(c)
  /\ UNCHANGED <<boxKind, boxExecutorVars, boxUses, boxDue, boxHostVars, boxDefers>>

-----------------------------------------------------------------------------
(* The host: deadlines, processes and the guest *)

\* The caller's context is cancelled, or the time of the executor, the sandbox or
\* the exec tool is up.
BoxContextEnds(c) ==
  /\ boxAt[c] \notin {"idle", "over"}
  /\ ~boxDue[c]
  /\ boxDue' = BoxSet(boxDue, c, TRUE)
  /\ UNCHANGED <<boxKind, boxAt, boxExecutorVars, boxUses, boxHostVars, boxDefers>>

\* Fault: a process started with exec.Command.
BoxNeverTied(c) == FALSE

\* Every process is started with exec.CommandContext.
BoxTied(c) == boxDue[c]

BoxKill(c) ==
  /\ boxProc[c] = "running"
  /\ BoxTied(c)
  /\ boxProc' = BoxSet(boxProc, c, "killed")
  /\ UNCHANGED <<boxKind, boxAt, boxExecutorVars, boxUses, boxDue, boxKids, boxGuest, boxLeft,
                 boxStuck, boxDefers>>

BoxProcess(c) ==
  /\ boxProc[c] = "running"
  /\ boxProc' = BoxSet(boxProc, c, "ended")
  /\ UNCHANGED <<boxKind, boxAt, boxExecutorVars, boxUses, boxDue, boxKids, boxGuest, boxLeft,
                 boxStuck, boxDefers>>

\* A child of the command may redirect its output; one in a container is part of the
\* sandbox, whose process has the pipe.
BoxChildren(c) == IF BoxMethod(boxKind[c]) = "process" THEN BoxKidKinds ELSE {"piped"}

\* The process, or a child with the pipe, starts a child; or a child ends, whenever it
\* likes: a kill reaches the process alone, never its process group.
BoxChild(c) ==
  /\ \/ /\ boxAt[c] = "wait"
        /\ boxProc[c] = "running" \/ "piped" \in boxKids[c]
        /\ \E kid \in BoxChildren(c) : boxKids' = [boxKids EXCEPT ![c] = @ \union {kid}]
     \/ \E kid \in boxKids[c] : boxKids' = [boxKids EXCEPT ![c] = @ \ {kid}]
  /\ UNCHANGED <<boxKind, boxAt, boxExecutorVars, boxUses, boxDue, boxProc, boxGuest, boxLeft,
                 boxStuck, boxDefers>>

\* The guest boots, starts its agent, and the agent answers a command: guest-agent's
\* own time limit sees to it that it does.
BoxGuestStep(c) ==
  /\ boxProc[c] = "running"
  /\ \/ boxGuest[c] = "down" /\ boxAt[c] \in {"dial", "connect"}
        /\ boxGuest' = BoxSet(boxGuest, c, "listening")
     \/ boxGuest[c] = "running" /\ boxGuest' = BoxSet(boxGuest, c, "done")
  /\ UNCHANGED <<boxKind, boxAt, boxExecutorVars, boxUses, boxDue, boxProc, boxKids, boxLeft,
                 boxStuck, boxDefers>>

-----------------------------------------------------------------------------
(* An execution *)

\* os.MkdirTemp, and the removal deferred.
BoxDir(c) ==
  /\ boxAt[c] = "dir"
  /\ \/ /\ boxLeft' = [boxLeft EXCEPT ![c] = @ \union {"dir"}]
        /\ boxDefers' = [boxDefers EXCEPT ![c] = Append(@, "dir")]
        /\ BoxGo(c, IF BoxMethod(boxKind[c]) = "vm" THEN "start" ELSE "config")
     \/ BoxReturn(c) /\ UNCHANGED <<boxLeft, boxDefers>>
  /\ UNCHANGED <<boxKind, boxExecutorVars, boxUses, boxDue, boxProc, boxKids, boxGuest, boxStuck>>

\* gVisor: the rootfs directory and config.json.
BoxConfig(c) ==
  /\ boxAt[c] = "config"
  /\ \/ BoxGo(c, "start")
     \/ BoxReturn(c)
  /\ UNCHANGED <<boxKind, boxExecutorVars, boxUses, boxDue, boxHostVars, boxDefers>>

\* Fault: the VM's process is not killed when the execution returns early.
BoxNoDefer(c, what) == UNCHANGED boxDefers

BoxDefer(c, what) == boxDefers' = [boxDefers EXCEPT ![c] = Append(@, what)]

\* Start fails when the command is missing or the context is done.
BoxStart(c) ==
  LET method == BoxMethod(boxKind[c])
      what == IF method = "vm" THEN {"vm"} ELSE IF method = "container" THEN {"container"} ELSE {}
  IN
  /\ boxAt[c] = "start"
  /\ \/ /\ ~boxDue[c]
        /\ boxProc' = BoxSet(boxProc, c, "running")
        /\ boxLeft' = [boxLeft EXCEPT ![c] = @ \union what]
        /\ IF method = "vm" THEN BoxDefer(c, "vm") ELSE UNCHANGED boxDefers
        /\ BoxGo(c, IF method = "vm" THEN "socket" ELSE "wait")
     \/ /\ BoxGo(c, IF method = "container" THEN "delete" ELSE "leaving")
        /\ UNCHANGED <<boxProc, boxLeft, boxDefers>>
  /\ UNCHANGED <<boxKind, boxExecutorVars, boxUses, boxDue, boxKids, boxGuest, boxStuck>>

\* Fault: the output is not waited for, as with a WaitDelay.
BoxRunAbandons(c) == boxProc[c] # "running"

\* Run returns when the process has ended and its output pipe is closed.
BoxRunReturns(c) == boxProc[c] # "running" /\ "piped" \notin boxKids[c]

BoxWait(c) ==
  /\ boxAt[c] = "wait"
  /\ BoxRunReturns(c)
  /\ BoxGo(c, IF BoxMethod(boxKind[c]) = "container" THEN "delete" ELSE "leaving")
  /\ UNCHANGED <<boxKind, boxExecutorVars, boxUses, boxDue, boxHostVars, boxDefers>>

\* runsc delete --force, whose error is ignored.
BoxDelete(c) ==
  /\ boxAt[c] = "delete"
  /\ \/ boxLeft' = [boxLeft EXCEPT ![c] = @ \ {"container"}] /\ UNCHANGED boxStuck
     \/ boxStuck' = BoxSet(boxStuck, c, TRUE) /\ UNCHANGED boxLeft
  /\ BoxGo(c, "leaving")
  /\ UNCHANGED <<boxKind, boxExecutorVars, boxUses, boxDue, boxProc, boxKids, boxGuest, boxDefers>>

\* waitForSocket, the API calls, the dial of the vsock socket, CONNECT and the exchange.
\* The agent need not listen yet when CONNECT is written: the dial reaches Firecracker.
BoxVMNext(c) ==
  \/ boxAt[c] = "socket" /\ BoxGo(c, "configure") /\ UNCHANGED boxGuest
  \/ boxAt[c] = "configure" /\ BoxGo(c, "boot") /\ UNCHANGED boxGuest
  \/ boxAt[c] = "boot" /\ BoxGo(c, "dial") /\ UNCHANGED boxGuest
  \/ boxAt[c] = "dial" /\ BoxGo(c, "connect") /\ UNCHANGED boxGuest
  \/ boxAt[c] = "connect" /\ boxGuest[c] = "listening"
     /\ BoxGo(c, "exchange") /\ boxGuest' = BoxSet(boxGuest, c, "running")

BoxVMAt == {"socket", "configure", "boot", "dial", "connect", "exchange"}

BoxVMStep(c) ==
  /\ boxProc[c] = "running"
  /\ \/ BoxVMNext(c)
     \/ boxAt[c] = "exchange" /\ boxGuest[c] = "done" /\ BoxReturn(c) /\ UNCHANGED boxGuest
  /\ UNCHANGED <<boxKind, boxExecutorVars, boxUses, boxDue, boxProc, boxKids, boxLeft, boxStuck,
                 boxDefers>>

\* A step fails: refused, out of its own time (socket, dial), past the connection's
\* deadline (exchange), or because the VM is gone.
BoxVMFails(c) ==
  /\ boxAt[c] \in BoxVMAt
  /\ BoxReturn(c)
  /\ UNCHANGED <<boxKind, boxExecutorVars, boxUses, boxDue, boxHostVars, boxDefers>>

\* Go runs the deferred removals; that of the VM kills its process and waits for it.
BoxLeave(c) ==
  /\ boxAt[c] = "leaving"
  /\ IF boxDefers[c] = <<>>
     THEN BoxGo(c, "over") /\ UNCHANGED <<boxDefers, boxLeft, boxProc>>
     ELSE /\ boxLeft' = [boxLeft EXCEPT ![c] = @ \ {Last(boxDefers[c])}]
          /\ boxProc' = IF Last(boxDefers[c]) = "vm" /\ boxProc[c] = "running"
                        THEN BoxSet(boxProc, c, "killed") ELSE boxProc
          /\ boxDefers' = [boxDefers EXCEPT ![c] = Front(@)]
          /\ UNCHANGED boxAt
  /\ UNCHANGED <<boxKind, boxExecutorVars, boxUses, boxDue, boxKids, boxGuest, boxStuck>>

BoxStep(c) ==
  \/ BoxLookup(c) \/ BoxCreate(c) \/ BoxModule(c) \/ BoxDir(c) \/ BoxConfig(c) \/ BoxStart(c)
  \/ BoxWait(c) \/ BoxDelete(c) \/ BoxVMStep(c) \/ BoxLeave(c)

BoxNext ==
  \/ \E c \in BoxCalls :
       \/ BoxStep(c) \/ BoxVMFails(c) \/ BoxContextEnds(c) \/ BoxKill(c) \/ BoxProcess(c)
       \/ BoxChild(c) \/ BoxGuestStep(c)
  \/ BoxClose

\* What happens without help from the VM or the process: the gateway's steps, the
\* passing of time, the kill, and the errors a dead VM or a passed deadline brings.
BoxProgress(c) ==
  \/ boxAt[c] \notin BoxVMAt \union {"idle"} /\ BoxStep(c)
  \/ boxProc[c] # "running" /\ BoxVMFails(c)
  \/ BoxContextEnds(c)
  \/ BoxKill(c)

-----------------------------------------------------------------------------
(* Correctness *)

BoxTypeOK ==
  /\ boxKind \in [BoxCalls -> BoxTiers \union {"exec"}]
  /\ boxAt \in [BoxCalls -> BoxVMAt \union {"idle", "create", "module", "dir", "config",
                 "start", "wait", "delete", "leaving", "over"}]
  /\ boxOpen \in [BoxTiers -> BoxInstances]
  /\ boxMade \in BoxInstances
  /\ boxShut \subseteq BoxInstances
  /\ boxUses \in [BoxCalls -> BoxInstances]
  /\ boxDue \in [BoxCalls -> BOOLEAN]
  /\ boxProc \in [BoxCalls -> {"none", "running", "ended", "killed"}]
  /\ boxKids \in [BoxCalls -> SUBSET BoxKidKinds]
  /\ boxGuest \in [BoxCalls -> {"down", "listening", "running", "done"}]
  /\ boxLeft \in [BoxCalls -> SUBSET {"dir", "vm", "container"}]
  /\ boxDefers \in [BoxCalls -> Seq({"dir", "vm"})]
  /\ boxStuck \in [BoxCalls -> BOOLEAN]

\* Every sandbox made is the one its tier's calls share, or closed: two calls that find
\* none at once make one (getSandbox).
BoxOnePerTier == 1..boxMade = boxShut \union ({boxOpen[t] : t \in BoxTiers} \ {0})

\* An execution, wherever it broke off, leaves no process, directory, VM or container,
\* short of a container that could not be deleted; and a VM never outlives its directory
\* (the defers of executeFirecracker and GVisorSandbox.Execute).  What a command
\* started goes with its container or VM; where it ran on the host itself (the exec
\* tools, the fallbacks), a child with its output redirected stays, and no other.
BoxCleanUp ==
  \A c \in BoxCalls :
    /\ boxAt[c] = "over" =>
         /\ boxProc[c] # "running"
         /\ boxKids[c] \subseteq IF BoxMethod(boxKind[c]) = "process" THEN {"detached"} ELSE {}
         /\ boxLeft[c] \subseteq IF boxStuck[c] THEN {"container"} ELSE {}
    /\ "vm" \in boxLeft[c] => "dir" \in boxLeft[c]

\* Sandboxes and executions leave nothing open or running (getSandbox, Close, Execute).
BoxNothingLeaks == BoxOnePerTier /\ BoxCleanUp

\* An execution whose context is done returns, whatever the process, the VM or its guest
\* does, unless a child it left behind keeps the output pipe open (CommandContext, Run).
BoxEnds ==
  \A c \in BoxCalls : boxDue[c] ~> (boxAt[c] = "over" \/ "piped" \in boxKids[c])
=============================================================================
