---------------------------- MODULE DockerProvider ----------------------------
(***************************************************************************)
(* The Docker provider of petri/core/provider/docker: one provider object  *)
(* (provider.go), its addresses and host ports (network.go), its tasks     *)
(* (task.go) and the helper containers that write and read a task's volume *)
(* (volume.go).                                                            *)
(*                                                                         *)
(* CreateTask calls for different tasks run in goroutines of their own, and*)
(* so do the operations on different tasks; the operations on one task are *)
(* sequential.  The object lives in one activity: it is lost with a worker,*)
(* and a later activity restores it from the last serialised state.  Every *)
(* client call uses the activity's context, so none succeeds once that is  *)
(* done, the deferred clean-up included.                                   *)
(*                                                                         *)
(* The Docker daemon is external: a container holds its address and host   *)
(* ports only while it runs, a container made without an address gets any  *)
(* free one when it starts, a volume or network in use is not removed, and *)
(* a helper that has exited is removed some time after (AutoRemove).       *)
(***************************************************************************)
EXTENDS Naturals, Sequences

CONSTANTS
    Tasks,      \* the task names CreateTask is called with, once each
    LastAddr,   \* the addresses of the subnet are 1..LastAddr; 1 is the gateway
    Ports,      \* host ports the kernel may hand out
    Exposed,    \* the container ports of a task
    Uses        \* per task, the calls its owner makes

ASSUME AddrAssumption == LastAddr \in Nat \ {0}
ASSUME UsesAssumption ==
    Uses \in [Tasks -> SUBSET {"WriteTar", "WriteFile", "ReadFile", "DownloadDir", "Start",
                               "Stop", "Destroy", "RunCommand"}]
ASSUME PortsAssumption == 0 \notin Ports

Gateway == 1
Addrs == 1 .. LastAddr

VARIABLES
    obj,        \* the provider object of the current activity
    ctxDone,    \* the activity's context is done
    recorded,   \* TaskStates of the object
    alloc,      \* addresses taken in dockerNetworkAllocator
    saved,      \* the last serialised provider and task states
    op,         \* per task, the call in progress and its step
    status,     \* per task, Status of its TaskState
    tear,       \* Teardown: where it is, and the tasks it has still to remove
    net,        \* daemon: the network
    conts,      \* daemon: the container of a task
    addr,       \* the address a task was given
    bind,       \* the host port of each exposed port of a task
    vols,       \* daemon: tasks whose data volume exists
    left,       \* daemon: the states of helper containers left on a task's volume
    exec,       \* daemon: the temporary container of runCommandWhileStopped
    execAddr,   \* daemon: the address a running temporary container got
    mishap,     \* tasks whose container exited, or whose Start or Stop failed
    refused     \* tasks for which the creation, start or removal of a helper or temporary
                \* container reported an error

objVars == <<obj, ctxDone, recorded, alloc, saved, tear>>
daemonVars == <<net, conts, addr, bind, vols, left, exec, execAddr>>
vars == <<objVars, op, status, daemonVars, mishap, refused>>

At(fn, n) == [fn |-> fn, at |-> n]
New == At("new", 0)         \* CreateTask was not called yet
Idle == At("idle", 0)       \* the object has a handle and no call runs
Lost == At("lost", 0)       \* there is no handle

NoSave == [tasks |-> {}, status |-> [t \in Tasks |-> "none"]]

\* The client calls of the helpers of volume.go, in order; each begins with the pull of
\* the builder image, and only a helper that was waited for is left to AutoRemove.
WriteTar == <<"create", "copy", "start", "wait">>
WriteFile == <<"create", "copy", "start", "wait">>
ReadFile == <<"create", "copy">>
DownloadDir == <<"create", "copy">>
SetVolumeOwner == <<"create", "start", "wait">>

VolumeCalls == {"WriteTar", "WriteFile", "ReadFile", "DownloadDir"}
Program(fn) ==
    CASE fn = "WriteTar" -> WriteTar
      [] fn = "WriteFile" -> WriteFile
      [] fn = "ReadFile" -> ReadFile
      [] fn = "DownloadDir" -> DownloadDir
      [] fn = "SetVolumeOwner" -> SetVolumeOwner

NoTeardown == [at |-> "idle", todo |-> {}]

\* The container of the helper call in progress, which exists from its second step on.
InHelper(t) == op[t].fn \in VolumeCalls \cup {"SetVolumeOwner"}

Helper(t) ==
    IF ~InHelper(t) \/ op[t].at = 1 THEN "none"
    ELSE IF Program(op[t].fn)[op[t].at] = "wait" THEN "running" ELSE "created"

Live == obj = "live" /\ ~ctxDone

\* Addresses and host ports that are in use on the daemon's host.
HeldAddrs == {addr[t] : t \in {u \in Tasks : conts[u] = "running"}}
             \cup {execAddr[t] : t \in {u \in Tasks : exec[u] = "running"}}
HeldPorts == UNION {{bind[t][e] : e \in Exposed} : t \in {u \in Tasks : conts[u] = "running"}}

\* GetStatus: what the container's state says.
StatusOf(c) == IF c = "running" THEN "running" ELSE "stopped"

Init ==
    /\ obj = "none"
    /\ ctxDone = FALSE
    /\ recorded = {}
    /\ alloc = {}
    /\ saved = NoSave
    /\ tear = NoTeardown
    /\ op = [t \in Tasks |-> New]
    /\ status = [t \in Tasks |-> "none"]
    /\ net = "none"
    /\ conts = [t \in Tasks |-> "absent"]
    /\ addr = [t \in Tasks |-> 0]
    /\ bind = [t \in Tasks |-> [e \in Exposed |-> 0]]
    /\ vols = {}
    /\ left = [t \in Tasks |-> {}]
    /\ exec = [t \in Tasks |-> "none"]
    /\ execAddr = [t \in Tasks |-> 0]
    /\ mishap = {}
    /\ refused = {}

-------------------------------------------------------------------------------
(* The provider object *)

\* CreateProvider: initNetwork, then the gateway is taken in a fresh allocator.
CreateProvider ==
    /\ obj = "none"
    /\ net = "none"
    /\ net' = "up"
    /\ obj' = "live"
    /\ alloc' = {Gateway}
    /\ UNCHANGED <<ctxDone, recorded, saved, tear, op, status, conts, addr, bind, vols, left,
                   exec, execAddr, mishap, refused>>

\* SerializeProvider, and SerializeTask of every task: one after the other under the
\* object's lock, while calls of other goroutines run.
SerializeProvider ==
    /\ obj = "live"
    /\ saved' = [tasks |-> recorded,
                 status |-> [t \in Tasks |-> IF t \in recorded THEN status[t] ELSE "none"]]
    /\ UNCHANGED <<obj, ctxDone, recorded, alloc, tear, op, status, daemonVars, mishap, refused>>

\* The activity returns or its worker dies: the object, its handles and the calls in
\* progress are gone, the containers are not.
ObjectLost ==
    /\ obj = "live"
    /\ obj' = "none"
    /\ ctxDone' = FALSE
    /\ recorded' = {}
    /\ alloc' = {}
    /\ tear' = NoTeardown
    /\ op' = [t \in Tasks |-> IF op[t] = New THEN New ELSE Lost]
    /\ status' = [t \in Tasks |-> "none"]
    /\ left' = [t \in Tasks |-> left[t] \cup ({Helper(t)} \ {"none"})]
    /\ mishap' = {}
    /\ refused' = {t \in Tasks : ~(left'[t] \subseteq {"exited"}) \/ exec[t] # "none"}
    /\ UNCHANGED <<saved, net, conts, addr, bind, vols, exec, execAddr>>

\* Mutant: the allocator of a restored provider knows only the gateway.
RestoreGatewayOnly ==
    /\ obj = "none"
    /\ net = "up"
    /\ obj' = "live"
    /\ recorded' = saved.tasks
    /\ alloc' = {Gateway}
    /\ UNCHANGED <<ctxDone, saved, tear, op, status, daemonVars, mishap, refused>>

\* The network of the state must exist with the subnet and the gateway that were saved.
ensureNetwork == net = "up"

\* RestoreProvider: the allocator takes the gateway and every recorded address, each of
\* which must still be free in it.
RestoreProvider ==
    /\ obj = "none"
    /\ ensureNetwork
    /\ \A t, u \in saved.tasks : t # u => addr[t] # addr[u]
    /\ \A t \in saved.tasks : addr[t] # Gateway
    /\ obj' = "live"
    /\ recorded' = saved.tasks
    /\ alloc' = {Gateway} \cup {addr[t] : t \in saved.tasks}
    /\ UNCHANGED <<ctxDone, saved, tear, op, status, daemonVars, mishap, refused>>

\* The container exists and is in the state that was saved, and its volume exists.
ensureTask(t) ==
    /\ conts[t] # "absent"
    /\ StatusOf(conts[t]) = saved.status[t]
    /\ t \in vols

\* A task is handed out only if ensureTask finds nothing wrong.  The handle has a copy of the
\* state: what Start and Stop then record is in what SerializeTask saves, and not in the
\* provider's own map, of which no status is read.
DeserializeTask(t) ==
    /\ Live
    /\ op[t] = Lost
    /\ t \in saved.tasks
    /\ ensureTask(t)
    /\ op' = [op EXCEPT ![t] = Idle]
    /\ status' = [status EXCEPT ![t] = saved.status[t]]
    /\ UNCHANGED <<objVars, daemonVars, mishap, refused>>

ContextDone ==
    /\ Live
    /\ ctxDone' = TRUE
    /\ UNCHANGED <<obj, recorded, alloc, saved, tear, op, status, daemonVars, mishap, refused>>

-------------------------------------------------------------------------------
(* CreateTask *)

Goto(t, fn, n) == op' = [op EXCEPT ![t] = At(fn, n)]

\* The definition is valid and the images are there.
CreateTask(t) ==
    /\ Live
    /\ tear.at = "idle"
    /\ op[t] = New
    /\ Goto(t, "CreateTask", 1)
    /\ UNCHANGED <<objVars, status, daemonVars, mishap, refused>>

\* GeneratePortBindings: one port of the container after the other gets a port on which
\* the kernel lets a listener be opened; the listener is closed at once.
GeneratePortBindings(t) ==
    /\ op[t] = At("CreateTask", 1)
    /\ \E b \in [Exposed -> Ports \ HeldPorts] : bind' = [bind EXCEPT ![t] = b]
    /\ Goto(t, "CreateTask", 2)
    /\ UNCHANGED <<objVars, status, net, conts, addr, vols, left, exec, execAddr, mishap,
                   refused>>

\* CreateVolume: an existing volume of that name is used as it is.
CreateVolume(t) ==
    /\ Live
    /\ op[t] = At("CreateTask", 2)
    /\ vols' = vols \cup {t}
    /\ Goto(t, "SetVolumeOwner", 1)
    /\ UNCHANGED <<objVars, status, net, conts, addr, bind, left, exec, execAddr, mishap,
                   refused>>

\* nextAvailableIP, under both locks: the address is taken whatever becomes of the task.
nextAvailableIP(t) ==
    /\ op[t] = At("CreateTask", 3)
    /\ \E a \in Addrs \ alloc :
         /\ alloc' = alloc \cup {a}
         /\ addr' = [addr EXCEPT ![t] = a]
    /\ Goto(t, "CreateTask", 4)
    /\ UNCHANGED <<obj, ctxDone, recorded, saved, tear, status, net, conts, bind, vols, left,
                   exec, execAddr, mishap, refused>>

\* ContainerCreate with that address, those ports and the volume.
ContainerCreate(t) ==
    /\ Live
    /\ op[t] = At("CreateTask", 4)
    /\ net = "up"
    /\ conts' = [conts EXCEPT ![t] = "created"]
    /\ Goto(t, "CreateTask", 5)
    /\ UNCHANGED <<objVars, status, net, addr, bind, vols, left, exec, execAddr, mishap,
                   refused>>

\* The state of the new task is recorded under the object's lock.
RecordTask(t) ==
    /\ op[t] = At("CreateTask", 5)
    /\ recorded' = recorded \cup {t}
    /\ status' = [status EXCEPT ![t] = "stopped"]
    /\ op' = [op EXCEPT ![t] = Idle]
    /\ UNCHANGED <<obj, ctxDone, alloc, saved, tear, daemonVars, mishap, refused>>

\* A call fails: CreateTask returns and undoes nothing.  The container may have been
\* created all the same.
CreateTaskFails(t) ==
    /\ op[t].fn = "CreateTask"
    /\ op[t].at < 5
    /\ op' = [op EXCEPT ![t] = Lost]
    /\ conts' \in {conts} \cup (IF op[t].at = 4 THEN {[conts EXCEPT ![t] = "created"]} ELSE {})
    /\ UNCHANGED <<objVars, status, net, addr, bind, vols, left, exec, execAddr, mishap,
                   refused>>

-------------------------------------------------------------------------------
(* Helper containers on a task's volume *)

BeginVolumeCall(t) ==
    /\ Live
    /\ tear.at = "idle"
    /\ op[t] = Idle
    /\ \E fn \in Uses[t] \cap VolumeCalls : Goto(t, fn, 1)
    /\ UNCHANGED <<objVars, status, daemonVars, mishap, refused>>

\* Where a helper call goes when it succeeds or fails.
AfterHelper(t, ok) ==
    IF op[t].fn = "SetVolumeOwner" THEN (IF ok THEN At("CreateTask", 3) ELSE Lost) ELSE Idle

\* Mutant: the deferred function trusts AutoRemove and removes nothing.
RemoveHelperNever(t) ==
    /\ left' = [left EXCEPT ![t] = @ \cup ({Helper(t)} \ {"none"})]
    /\ UNCHANGED refused

\* The deferred function: unless it was waited for, the container is looked up and
\* removed; a removal that fails, as it does once the context is done, is logged.  A started
\* helper may be gone already.
RemoveHelper(t) ==
    \/ /\ ~ctxDone \/ Helper(t) # "created"
       /\ UNCHANGED <<left, refused>>
    \/ /\ Helper(t) # "none"
       /\ left' = [left EXCEPT ![t] = @ \cup {Helper(t)}]
       /\ refused' = refused \cup {t}

\* The next client call of the helper succeeds.  A helper that is waited for is not running any
\* more, and the call succeeds or reports its exit code; its removal is left to the daemon.
\* Otherwise the last call is the copy.
HelperStep(t) ==
    /\ Live
    /\ InHelper(t)
    /\ LET p == Program(op[t].fn) IN
         IF op[t].at < Len(p)
           THEN Goto(t, op[t].fn, op[t].at + 1) /\ UNCHANGED <<left, refused>>
           ELSE /\ \E ok \in IF p[Len(p)] = "wait" THEN BOOLEAN ELSE {TRUE} :
                     op' = [op EXCEPT ![t] = AfterHelper(t, ok)]
                /\ IF p[Len(p)] = "wait"
                     THEN left' = [left EXCEPT ![t] = @ \cup {"exited"}] /\ UNCHANGED refused
                     ELSE RemoveHelper(t)
    /\ UNCHANGED <<objVars, status, net, conts, addr, bind, vols, exec, execAddr, mishap>>

\* A client call of the helper fails.  A ContainerCreate that reports an error may have worked:
\* the function returns before it defers the removal.
HelperFails(t) ==
    /\ InHelper(t)
    /\ op' = [op EXCEPT ![t] = AfterHelper(t, FALSE)]
    /\ \/ RemoveHelper(t)
       \/ /\ op[t].at = 1
          /\ left' = [left EXCEPT ![t] = @ \cup {"created"}]
          /\ refused' = refused \cup {t}
    /\ UNCHANGED <<objVars, status, net, conts, addr, bind, vols, exec, execAddr, mishap>>

\* A started helper that was left ends.
HelperExits(t) ==
    /\ "running" \in left[t]
    /\ left' = [left EXCEPT ![t] = (@ \ {"running"}) \cup {"exited"}]
    /\ refused' = IF "created" \notin left[t] /\ exec[t] = "none" THEN refused \ {t} ELSE refused
    /\ UNCHANGED <<objVars, op, status, net, conts, addr, bind, vols, exec, execAddr, mishap>>

\* The daemon removes the helpers that have exited.
AutoRemove(t) ==
    /\ "exited" \in left[t]
    /\ left' = [left EXCEPT ![t] = @ \ {"exited"}]
    /\ UNCHANGED <<objVars, op, status, net, conts, addr, bind, vols, exec, execAddr, mishap,
                   refused>>

-------------------------------------------------------------------------------
(* Operations on a task *)

Begin(t, fn) ==
    /\ Live
    /\ tear.at = "idle"
    /\ op[t] = Idle
    /\ Goto(t, fn, 1)
    /\ UNCHANGED <<objVars, status, daemonVars, mishap, refused>>

\* The daemon starts a container whose network, address and host ports are free.
CanStart(t) ==
    /\ conts[t] \in {"created", "exited"}
    /\ net = "up"
    /\ addr[t] \notin HeldAddrs
    /\ \A e \in Exposed : bind[t][e] \notin HeldPorts
    /\ \A e, f \in Exposed : e # f => bind[t][e] # bind[t][f]

\* Start: ContainerStart (starting a running container is no error), then WaitForStatus.
ContainerStart(t) ==
    /\ Live
    /\ op[t] = At("Start", 1)
    /\ CanStart(t) \/ conts[t] = "running"
    /\ conts' = [conts EXCEPT ![t] = "running"]
    /\ Goto(t, "Start", 2)
    /\ UNCHANGED <<objVars, status, net, addr, bind, vols, left, exec, execAddr, mishap,
                   refused>>

ContainerStop(t) ==
    /\ Live
    /\ op[t] = At("Stop", 1)
    /\ conts[t] # "absent"
    /\ conts' = [conts EXCEPT ![t] = IF @ = "running" THEN "exited" ELSE @]
    /\ Goto(t, "Stop", 2)
    /\ UNCHANGED <<objVars, status, net, addr, bind, vols, left, exec, execAddr, mishap,
                   refused>>

\* Mutant: Start records the status without waiting for it.
WaitForNothing(t) ==
    /\ op[t].fn \in {"Start", "Stop"}
    /\ op[t].at = 2
    /\ op' = [op EXCEPT ![t] = Idle]
    /\ UNCHANGED <<objVars, status, daemonVars, mishap, refused>>

\* WaitForStatus sees the desired status, which is then recorded.  A container that has
\* exited is polled for ever: only the context or a failing inspection ends the loop.
WaitForStatus(t) ==
    /\ Live
    /\ op[t] \in {At("Start", 2), At("Stop", 2)}
    /\ LET desired == IF op[t].fn = "Start" THEN "running" ELSE "stopped" IN
         /\ conts[t] # "absent"
         /\ StatusOf(conts[t]) = desired
         /\ status' = [status EXCEPT ![t] = desired]
         /\ mishap' = mishap \ {t}
    /\ op' = [op EXCEPT ![t] = Idle]
    /\ UNCHANGED <<objVars, daemonVars, refused>>

\* Start or Stop returns an error: the recorded status stays as it was.
StartStopFails(t) ==
    /\ op[t].fn \in {"Start", "Stop"}
    /\ op' = [op EXCEPT ![t] = Idle]
    /\ mishap' = mishap \cup {t}
    /\ UNCHANGED <<objVars, status, daemonVars, refused>>

\* The process in the container ends.
ContainerExits(t) ==
    /\ conts[t] = "running"
    /\ conts' = [conts EXCEPT ![t] = "exited"]
    /\ mishap' = IF op[t] \in {New, Lost} THEN mishap ELSE mishap \cup {t}
    /\ UNCHANGED <<objVars, op, status, net, addr, bind, vols, left, exec, execAddr, refused>>

\* The provider forgets a task, under the object's lock.
removeTask(t) == recorded' = recorded \ {t}

\* Destroy: the container, then removeTask.  RemoveVolumes is about anonymous volumes
\* only: the data volume stays.
Destroy(t) ==
    /\ Live
    /\ op[t] = At("Destroy", 1)
    /\ conts[t] # "absent"
    /\ conts' = [conts EXCEPT ![t] = "absent"]
    /\ removeTask(t)
    /\ op' = [op EXCEPT ![t] = Lost]
    /\ status' = [status EXCEPT ![t] = "none"]
    /\ mishap' = mishap \ {t}
    /\ UNCHANGED <<obj, ctxDone, alloc, saved, tear, net, addr, bind, vols, left, exec, execAddr,
                   refused>>

-------------------------------------------------------------------------------
(* RunCommand *)

\* The status decides: the command runs in the container, or in a temporary one.
RunCommand(t) ==
    /\ Live
    /\ op[t] = At("RunCommand", 1)
    /\ conts[t] # "absent"
    /\ Goto(t, IF conts[t] = "running" THEN "runCommand" ELSE "runCommandWhileStopped", 1)
    /\ UNCHANGED <<objVars, status, daemonVars, mishap, refused>>

\* runCommand: the exec is created, attached and polled until it is not running.
runCommand(t) ==
    /\ Live
    /\ op[t] = At("runCommand", 1)
    /\ conts[t] = "running"
    /\ op' = [op EXCEPT ![t] = Idle]
    /\ UNCHANGED <<objVars, status, daemonVars, mishap, refused>>

\* runCommandWhileStopped: a container named after the second is made on the task's volume
\* and network; one left behind may have that name.
CreateTemp(t) ==
    /\ Live
    /\ op[t] = At("runCommandWhileStopped", 1)
    /\ IF conts[t] = "running"
         THEN Goto(t, "RunCommand", 1) /\ UNCHANGED exec
         ELSE /\ exec[t] = "none"
              /\ exec' = [exec EXCEPT ![t] = "created"]
              /\ Goto(t, "runCommandWhileStopped", 2)
    /\ UNCHANGED <<objVars, status, net, conts, addr, bind, vols, left, execAddr, mishap,
                   refused>>

\* tempTask.Start: the daemon gives it any address nothing runs on.
StartTemp(t) ==
    /\ Live
    /\ op[t] = At("runCommandWhileStopped", 2)
    /\ net = "up"
    /\ \E a \in Addrs \ (HeldAddrs \cup {Gateway}) : execAddr' = [execAddr EXCEPT ![t] = a]
    /\ exec' = [exec EXCEPT ![t] = "running"]
    /\ Goto(t, "runCommandWhileStopped", 3)
    /\ UNCHANGED <<objVars, status, net, conts, addr, bind, vols, left, mishap, refused>>

\* tempTask.Start fails: the function returns before it defers the Destroy.
StartTempFails(t) ==
    /\ op[t] = At("runCommandWhileStopped", 2)
    /\ op' = [op EXCEPT ![t] = Idle]
    /\ refused' = refused \cup {t}
    /\ UNCHANGED <<objVars, status, daemonVars, mishap>>

\* The command has run or failed; the deferred Destroy's error is only logged.
DestroyTemp(t) ==
    /\ op[t] = At("runCommandWhileStopped", 3)
    /\ op' = [op EXCEPT ![t] = Idle]
    /\ \/ /\ ~ctxDone
          /\ exec' = [exec EXCEPT ![t] = "none"]
          /\ execAddr' = [execAddr EXCEPT ![t] = 0]
          /\ UNCHANGED refused
       \/ /\ refused' = refused \cup {t}
          /\ UNCHANGED <<exec, execAddr>>
    /\ UNCHANGED <<objVars, status, net, conts, addr, bind, vols, left, mishap>>

\* Any of these calls fails without effect.
CallFails(t) ==
    /\ op[t] \in {At("Destroy", 1), At("RunCommand", 1), At("runCommand", 1),
                  At("runCommandWhileStopped", 1)}
    /\ op' = [op EXCEPT ![t] = Idle]
    /\ UNCHANGED <<objVars, status, daemonVars, mishap, refused>>

\* The ContainerCreate of the temporary container reports an error and has worked.
CreateTempFails(t) ==
    /\ op[t] = At("runCommandWhileStopped", 1)
    /\ conts[t] # "running"
    /\ exec[t] = "none"
    /\ exec' = [exec EXCEPT ![t] = "created"]
    /\ op' = [op EXCEPT ![t] = Idle]
    /\ refused' = refused \cup {t}
    /\ UNCHANGED <<objVars, status, net, conts, addr, bind, vols, left, execAddr, mishap>>

-------------------------------------------------------------------------------
(* Teardown, called when no other call of the object runs *)

Teardown ==
    /\ Live
    /\ tear.at = "idle"
    /\ \A t \in Tasks : op[t] \in {New, Idle, Lost}
    /\ tear' = [at |-> "loop", todo |-> recorded]
    /\ UNCHANGED <<obj, ctxDone, recorded, alloc, saved, op, status, daemonVars, mishap, refused>>

\* Mutant: the error of VolumeRemove is only logged.
TeardownTaskLogsError(t) ==
    /\ Live
    /\ tear.at = "loop"
    /\ t \in tear.todo
    /\ conts[t] # "absent"
    /\ conts' = [conts EXCEPT ![t] = "absent"]
    /\ vols' = IF left[t] = {} /\ exec[t] = "none" THEN vols \ {t} ELSE vols
    /\ tear' = [tear EXCEPT !.todo = @ \ {t}]
    /\ UNCHANGED <<obj, ctxDone, recorded, alloc, saved, op, status, net, addr, bind, left,
                   exec, execAddr, mishap, refused>>

\* The container of a recorded task is removed, running or not, then its volume, which the
\* daemon keeps while a helper or temporary container is on it.
TeardownTask(t) ==
    /\ Live
    /\ tear.at = "loop"
    /\ t \in tear.todo
    /\ conts[t] # "absent"
    /\ conts' = [conts EXCEPT ![t] = "absent"]
    /\ IF left[t] = {} /\ exec[t] = "none"
         THEN /\ vols' = vols \ {t}
              /\ tear' = [tear EXCEPT !.todo = @ \ {t}]
         ELSE /\ tear' = [tear EXCEPT !.at = "error"]
              /\ UNCHANGED vols
    /\ UNCHANGED <<obj, ctxDone, recorded, alloc, saved, op, status, net, addr, bind, left,
                   exec, execAddr, mishap, refused>>

\* destroyNetwork: the daemon refuses while something runs on the network.
destroyNetwork ==
    /\ Live
    /\ tear.at = "loop"
    /\ tear.todo = {}
    /\ IF \E t \in Tasks : conts[t] = "running" \/ exec[t] = "running"
         THEN tear' = [tear EXCEPT !.at = "error"] /\ UNCHANGED net
         ELSE tear' = [tear EXCEPT !.at = "ok"] /\ net' = "gone"
    /\ UNCHANGED <<obj, ctxDone, recorded, alloc, saved, op, status, conts, addr, bind, vols,
                   left, exec, execAddr, mishap, refused>>

\* A call fails, a container that is gone included: the first error ends the teardown.
TeardownFails ==
    /\ tear.at = "loop"
    /\ tear' = [tear EXCEPT !.at = "error"]
    /\ UNCHANGED <<obj, ctxDone, recorded, alloc, saved, op, status, daemonVars, mishap, refused>>

Steps(t) ==
    \/ GeneratePortBindings(t) \/ CreateVolume(t) \/ nextAvailableIP(t)
    \/ ContainerCreate(t) \/ RecordTask(t) \/ CreateTaskFails(t)
    \/ HelperStep(t) \/ HelperFails(t)
    \/ ContainerStart(t) \/ ContainerStop(t) \/ WaitForStatus(t) \/ StartStopFails(t)
    \/ Destroy(t) \/ RunCommand(t) \/ runCommand(t)
    \/ CreateTemp(t) \/ StartTemp(t) \/ StartTempFails(t) \/ DestroyTemp(t)
    \/ CreateTempFails(t) \/ CallFails(t)

Next ==
    \/ CreateProvider \/ SerializeProvider \/ ObjectLost \/ RestoreProvider \/ ContextDone
    \/ Teardown \/ destroyNetwork \/ TeardownFails
    \/ \E t \in Tasks :
         \/ CreateTask(t) \/ BeginVolumeCall(t) \/ DeserializeTask(t)
         \/ \E fn \in Uses[t] \ VolumeCalls : Begin(t, fn)
         \/ Steps(t) \/ TeardownTask(t)
         \/ HelperExits(t) \/ AutoRemove(t) \/ ContainerExits(t)

Spec == Init /\ [][Next]_vars

-------------------------------------------------------------------------------
(* Properties *)

\* No two recorded tasks share an address and none has the gateway's: of the object's
\* state, and of the serialised one, which RestoreProvider would refuse otherwise.
AddressesApart ==
    \A S \in {recorded, saved.tasks} : \A t \in S :
        /\ addr[t] \in Addrs \ {Gateway}
        /\ \A u \in S : t # u => addr[t] # addr[u]

\* Between calls the recorded status is the container's, unless the container exited by
\* itself or a Start or Stop failed half way: what was saved then, ensureTask accepts.
StatusRecorded ==
    \A t \in Tasks : op[t] = Idle /\ t \in recorded \ mishap
                     => conts[t] = "absent" \/ StatusOf(conts[t]) = status[t]

\* No helper or temporary container is left between calls but one that has exited and that the
\* daemon is about to remove, unless its creation, its start or its removal reported an error
\* or the call was cut off.
NothingLeftBehind ==
    \A t \in Tasks : op[t] \in {New, Idle, Lost} /\ t \notin refused
                     => left[t] \subseteq {"exited"} /\ exec[t] = "none"

\* A Teardown that returns no error has removed the container and the volume of every task
\* the object recorded, with nothing left on the volumes and nothing running on the network.
TeardownComplete ==
    tear.at = "ok" =>
        /\ net = "gone"
        /\ \A t \in Tasks : exec[t] # "running" /\ conts[t] # "running"
        /\ \A t \in recorded : conts[t] = "absent" /\ t \notin vols
                               /\ left[t] = {} /\ exec[t] = "none"

===============================================================================
