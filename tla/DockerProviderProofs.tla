------------------------- MODULE DockerProviderProofs -------------------------
(***************************************************************************)
(* The invariants of the Docker provider hold for every set of tasks, of   *)
(* addresses and of ports, and whatever calls the tasks' owners make.      *)
(* IInv adds what they rest on: where a task may be in its life (OpInv),   *)
(* which addresses the allocator must know (AddrInv), what may be left on  *)
(* a task's volume during a call (LeftInv), when the recorded status is    *)
(* the container's (StatusInv), and what a teardown in progress has        *)
(* already removed (TearInv).                                              *)
(***************************************************************************)
EXTENDS DockerProvider, TLAPS

Calls == {"WriteTar", "WriteFile", "ReadFile", "DownloadDir", "Start", "Stop", "Destroy",
          "RunCommand", "runCommand", "runCommandWhileStopped"}

\* The steps of CreateTask.
Creating == {"CreateTask", "SetVolumeOwner"}

\* Every variable the invariants speak of keeps its type.
TypeInv ==
    /\ obj \in {"none", "live"}
    /\ recorded \in SUBSET Tasks
    /\ alloc \in SUBSET Addrs
    /\ saved \in [tasks : SUBSET Tasks, status : [Tasks -> {"none", "running", "stopped"}]]
    /\ op \in [Tasks -> [fn : {"new", "idle", "lost"} \cup Creating \cup Calls, at : Nat]]
    /\ status \in [Tasks -> {"none", "running", "stopped"}]
    /\ tear \in [at : {"idle", "loop", "ok", "error"}, todo : SUBSET Tasks]
    /\ conts \in [Tasks -> {"absent", "created", "running", "exited"}]
    /\ addr \in [Tasks -> {0} \cup Addrs]
    /\ left \in [Tasks -> SUBSET {"created", "running", "exited"}]
    /\ exec \in [Tasks -> {"none", "created", "running"}]

\* Calls are made by a live object; CreateTask is called once per task, which is known once
\* that is done.
OpInv ==
    /\ obj = "none" => recorded = {}
    /\ \A t \in Tasks :
          /\ op[t].fn \in {"new", "idle", "lost"} => op[t].at = 0
          /\ op[t].fn \notin {"new", "lost"} => obj = "live"
          /\ op[t].fn \in {"new"} \cup Creating
               => /\ t \notin recorded \cup saved.tasks
                  /\ conts[t] \in {"absent", "created"}

\* The tasks whose address nobody else may have.
Holders == recorded \cup {t \in Tasks : op[t] \in {At("CreateTask", 4), At("CreateTask", 5)}}

AddrInv ==
    /\ obj = "live" => Gateway \in alloc
    /\ \A t \in Holders : addr[t] \in alloc \ {Gateway}
    /\ \A t, u \in Holders : t # u => addr[t] # addr[u]
    /\ \A t \in saved.tasks : addr[t] \in Addrs \ {Gateway}
    /\ \A t, u \in saved.tasks : t # u => addr[t] # addr[u]

LeftInv ==
    \A t \in Tasks : t \notin refused =>
        /\ left[t] \subseteq {"exited"}
        /\ exec[t] # "none" => op[t] \in {At("runCommandWhileStopped", 2),
                                          At("runCommandWhileStopped", 3)}

StatusInv ==
    \A t \in recorded \ mishap :
        op[t].fn \in ({"idle"} \cup Calls) \ {"Start", "Stop"}
            => conts[t] = "absent" \/ StatusOf(conts[t]) = status[t]

TearInv ==
    /\ obj = "none" => tear.at = "idle"
    /\ tear.at # "idle" => \A t \in Tasks : op[t].fn \in {"new", "idle", "lost"}
    /\ tear.at \in {"loop", "ok"} =>
         \A t \in recorded \ tear.todo : conts[t] = "absent" /\ t \notin vols
                                         /\ left[t] = {} /\ exec[t] = "none"
    /\ tear.at = "ok" => /\ net = "gone" /\ tear.todo = {}
                         /\ \A t \in Tasks : exec[t] # "running" /\ conts[t] # "running"

IInv == TypeInv /\ OpInv /\ AddrInv /\ LeftInv /\ StatusInv /\ TearInv

-------------------------------------------------------------------------------
\* The calls that are no volume calls.
LEMMA OtherUses ==
    ASSUME NEW t \in Tasks
    PROVE  Uses[t] \ VolumeCalls \subseteq {"Start", "Stop", "Destroy", "RunCommand"}
    BY UsesAssumption DEF VolumeCalls

USE AddrAssumption, UsesAssumption
USE DEF IInv, TypeInv, OpInv, AddrInv, LeftInv, StatusInv, TearInv
USE DEF Holders, Calls, Creating, VolumeCalls, Addrs, Gateway, At, New, Idle, Lost, Live,
        NoTeardown, NoSave, Goto, StatusOf, objVars, daemonVars

\* The first state satisfies the invariant.
LEMMA InitInv == Init => IInv
    BY DEF Init

\* Operations of the provider object preserve the invariant.
LEMMA ObjectStep ==
    ASSUME IInv, CreateProvider \/ SerializeProvider \/ ObjectLost \/ RestoreProvider \/ ContextDone
    PROVE  IInv'
<1>1. CASE CreateProvider
    BY <1>1 DEF CreateProvider
<1>2. CASE SerializeProvider
    BY <1>2 DEF SerializeProvider
<1>3. CASE ObjectLost
    BY <1>3 DEF ObjectLost, Helper
<1>4. CASE RestoreProvider
    BY <1>4 DEF RestoreProvider
<1>5. CASE ContextDone
    BY <1>5 DEF ContextDone
<1> QED
    BY <1>1, <1>2, <1>3, <1>4, <1>5

\* Steps of Teardown preserve the invariant.
LEMMA TeardownStep ==
    ASSUME IInv, Teardown \/ destroyNetwork \/ TeardownFails \/ \E t \in Tasks : TeardownTask(t)
    PROVE  IInv'
<1>1. CASE Teardown
    BY <1>1 DEF Teardown
<1>2. CASE destroyNetwork
  <2>1. TypeInv'
    BY <1>2 DEF destroyNetwork
  <2>2. OpInv' /\ AddrInv' /\ LeftInv' /\ StatusInv'
    BY <1>2 DEF destroyNetwork
  <2>3. CASE tear' = [tear EXCEPT !.at = "error"]
    BY <1>2, <2>1, <2>2, <2>3 DEF destroyNetwork
  <2>4. CASE tear' = [tear EXCEPT !.at = "ok"]
    BY <1>2, <2>1, <2>2, <2>4, SMTT(20) DEF destroyNetwork
  <2> HIDE DEF IInv
  <2> QED
    BY <1>2, <2>3, <2>4 DEF destroyNetwork
<1>3. CASE TeardownFails
  <2>1. TypeInv'
    BY <1>3 DEF TeardownFails
  <2>2. OpInv' /\ AddrInv' /\ LeftInv' /\ StatusInv'
    BY <1>3 DEF TeardownFails
  <2>3. TearInv'
    BY <1>3 DEF TeardownFails
  <2> QED
    BY <2>1, <2>2, <2>3
<1>4. ASSUME NEW t \in Tasks, TeardownTask(t) PROVE IInv'
  <2>1. TypeInv'
    BY <1>4 DEF TeardownTask
  <2>2. OpInv' /\ AddrInv' /\ LeftInv' /\ StatusInv'
    BY <1>4 DEF TeardownTask
  <2>3. CASE left[t] = {} /\ exec[t] = "none"
    BY <1>4, <2>1, <2>2, <2>3 DEF TeardownTask
  <2>4. CASE tear' = [tear EXCEPT !.at = "error"]
    BY <1>4, <2>1, <2>2, <2>4 DEF TeardownTask
  <2> HIDE DEF IInv
  <2> QED
    BY <1>4, <2>3, <2>4 DEF TeardownTask
<1> QED
    BY <1>1, <1>2, <1>3, <1>4

\* Steps of CreateTask preserve the invariant.
LEMMA CreateTaskStep ==
    ASSUME IInv, NEW t \in Tasks,
           CreateTask(t) \/ GeneratePortBindings(t) \/ CreateVolume(t) \/ nextAvailableIP(t)
           \/ ContainerCreate(t) \/ RecordTask(t) \/ CreateTaskFails(t)
    PROVE  IInv'
<1>1. CASE CreateTask(t)
    BY <1>1 DEF CreateTask
<1>2. CASE GeneratePortBindings(t)
    BY <1>2 DEF GeneratePortBindings
<1>3. CASE CreateVolume(t)
    BY <1>3 DEF CreateVolume
<1>4. CASE nextAvailableIP(t)
    BY <1>4 DEF nextAvailableIP
<1>5. CASE ContainerCreate(t)
    BY <1>5 DEF ContainerCreate
<1>6. CASE RecordTask(t)
  <2>1. TypeInv' /\ OpInv' /\ LeftInv'
    BY <1>6 DEF RecordTask
  <2>2. AddrInv'
    BY <1>6 DEF RecordTask
  <2>3. StatusInv' /\ TearInv'
    BY <1>6 DEF RecordTask
  <2> QED
    BY <2>1, <2>2, <2>3
<1>7. CASE CreateTaskFails(t)
  <2>1. conts' = conts \/ conts' = [conts EXCEPT ![t] = "created"]
    BY <1>7 DEF CreateTaskFails
  <2>2. CASE conts' = conts
    BY <1>7, <2>2 DEF CreateTaskFails
  <2>3. CASE conts' = [conts EXCEPT ![t] = "created"]
    BY <1>7, <2>3 DEF CreateTaskFails
  <2> QED
    BY <2>1, <2>2, <2>3
<1> QED
    BY <1>1, <1>2, <1>3, <1>4, <1>5, <1>6, <1>7

\* Steps of a helper container preserve the invariant.
LEMMA HelperContainerStep ==
    ASSUME IInv, NEW t \in Tasks, BeginVolumeCall(t) \/ HelperStep(t) \/ HelperFails(t)
           \/ HelperExits(t) \/ AutoRemove(t)
    PROVE  IInv'
<1>1. CASE BeginVolumeCall(t)
    BY <1>1 DEF BeginVolumeCall
<1>2. CASE HelperStep(t)
  <2>1. /\ obj = "live"
        /\ op[t].fn \in VolumeCalls \cup {"SetVolumeOwner"}
    BY <1>2 DEF HelperStep, InHelper
  <2>2. CASE Goto(t, op[t].fn, op[t].at + 1) /\ UNCHANGED <<left, refused>>
    BY <1>2, <2>1, <2>2 DEF HelperStep
  <2>3. ASSUME NEW ok \in BOOLEAN, op' = [op EXCEPT ![t] = AfterHelper(t, ok)],
               UNCHANGED <<left, refused>>
        PROVE  IInv'
    BY <1>2, <2>1, <2>3 DEF HelperStep, AfterHelper
  <2>5. ASSUME NEW ok \in BOOLEAN, op' = [op EXCEPT ![t] = AfterHelper(t, ok)],
               left' = [left EXCEPT ![t] = @ \cup {"exited"}], UNCHANGED refused
        PROVE  IInv'
    <3>1. TypeInv' /\ OpInv' /\ LeftInv'
      BY <1>2, <2>1, <2>5 DEF HelperStep, AfterHelper
    <3>2. AddrInv' /\ StatusInv' /\ TearInv'
      BY <1>2, <2>1, <2>5 DEF HelperStep, AfterHelper
    <3> QED
      BY <3>1, <3>2
  <2>4. ASSUME NEW ok \in BOOLEAN, op' = [op EXCEPT ![t] = AfterHelper(t, ok)], RemoveHelper(t)
        PROVE  IInv'
    <3>1. Helper(t) \in {"none", "created", "running"}
      BY DEF Helper
    <3>2. CASE UNCHANGED <<left, refused>>
      BY <2>3, <2>4, <3>2
    <3>3. CASE /\ left' = [left EXCEPT ![t] = @ \cup {Helper(t)}]
               /\ Helper(t) # "none"
               /\ refused' = refused \cup {t}
      <4>1. TypeInv' /\ OpInv' /\ LeftInv'
        BY <1>2, <2>1, <2>4, <3>1, <3>3 DEF HelperStep, AfterHelper
      <4>2. AddrInv' /\ StatusInv' /\ TearInv'
        BY <1>2, <2>1, <2>4, <3>1, <3>3 DEF HelperStep, AfterHelper
      <4> QED
        BY <4>1, <4>2
    <3> QED
      BY <2>4, <3>2, <3>3 DEF RemoveHelper
  <2> HIDE DEF IInv
  <2> QED
    BY <1>2, <2>2, <2>4, <2>5 DEF HelperStep
<1>3. CASE HelperFails(t)
    BY <1>3 DEF HelperFails, InHelper, Helper, AfterHelper, RemoveHelper
<1>4. CASE HelperExits(t)
    BY <1>4 DEF HelperExits
<1>5. CASE AutoRemove(t)
    BY <1>5 DEF AutoRemove
<1> QED
    BY <1>1, <1>2, <1>3, <1>4, <1>5

\* Operations on a task preserve the invariant.
LEMMA OperationStep ==
    ASSUME IInv, NEW t \in Tasks,
           \/ \E fn \in Uses[t] \ VolumeCalls : Begin(t, fn)
           \/ DeserializeTask(t) \/ ContainerStart(t) \/ ContainerStop(t) \/ WaitForStatus(t)
           \/ StartStopFails(t) \/ ContainerExits(t) \/ Destroy(t) \/ RunCommand(t)
           \/ runCommand(t) \/ CreateTemp(t) \/ StartTemp(t) \/ StartTempFails(t)
           \/ DestroyTemp(t) \/ CreateTempFails(t) \/ CallFails(t)
    PROVE  IInv'
<1>1. CASE \E fn \in Uses[t] \ VolumeCalls : Begin(t, fn)
  <2>1. PICK fn \in Uses[t] \ VolumeCalls : Begin(t, fn)
    BY <1>1, Zenon
  <2>2. fn \in {"Start", "Stop", "Destroy", "RunCommand"}
    BY OtherUses, Zenon
  <2> QED
    BY <2>1, <2>2 DEF Begin
<1>2. CASE DeserializeTask(t)
    BY <1>2 DEF DeserializeTask, ensureTask
<1>3. CASE ContainerStart(t)
    BY <1>3 DEF ContainerStart
<1>4. CASE ContainerStop(t)
    BY <1>4 DEF ContainerStop
<1>5. CASE WaitForStatus(t)
    BY <1>5 DEF WaitForStatus
<1>6. CASE StartStopFails(t)
    BY <1>6 DEF StartStopFails
<1>7. CASE ContainerExits(t)
    BY <1>7 DEF ContainerExits
<1>8. CASE Destroy(t)
    BY <1>8 DEF Destroy, removeTask
<1>9. CASE RunCommand(t)
    BY <1>9 DEF RunCommand
<1>10. CASE runCommand(t)
    BY <1>10 DEF runCommand
<1>11. CASE CreateTemp(t)
  <2>1. CASE Goto(t, "RunCommand", 1) /\ UNCHANGED exec
    BY <1>11, <2>1 DEF CreateTemp
  <2>2. CASE exec' = [exec EXCEPT ![t] = "created"] /\ Goto(t, "runCommandWhileStopped", 2)
    BY <1>11, <2>2 DEF CreateTemp
  <2> HIDE DEF IInv
  <2> QED
    BY <1>11, <2>1, <2>2 DEF CreateTemp
<1>12. CASE StartTemp(t)
    BY <1>12 DEF StartTemp
<1>13. CASE StartTempFails(t)
    BY <1>13 DEF StartTempFails
<1>14. CASE DestroyTemp(t)
  <2>1. CASE exec' = [exec EXCEPT ![t] = "none"] /\ UNCHANGED refused
    BY <1>14, <2>1 DEF DestroyTemp
  <2>2. CASE refused' = refused \cup {t} /\ UNCHANGED exec
    BY <1>14, <2>2 DEF DestroyTemp
  <2> QED
    BY <1>14, <2>1, <2>2 DEF DestroyTemp
<1>15. CASE CallFails(t)
    BY <1>15 DEF CallFails
<1>16. CASE CreateTempFails(t)
    BY <1>16 DEF CreateTempFails
<1> QED
    BY <1>1, <1>2, <1>3, <1>4, <1>5, <1>6, <1>7, <1>8, <1>9, <1>10, <1>11, <1>12, <1>13, <1>14,
       <1>15, <1>16

\* Every step preserves the invariant.
LEMMA NextInv ==
    ASSUME IInv, [Next]_vars
    PROVE  IInv'
<1>1. CASE UNCHANGED vars
    BY <1>1 DEF vars
<1> HIDE DEF IInv
<1> QED
    BY <1>1, ObjectStep, TeardownStep, CreateTaskStep, HelperContainerStep, OperationStep
       DEF Next, Steps

\* IInv holds in every reachable state.
LEMMA Invariance == Spec => []IInv
<1> HIDE DEF IInv
<1>1. Init => IInv
    BY InitInv
<1>2. IInv /\ [Next]_vars => IInv'
    BY NextInv
<1> QED
    BY <1>1, <1>2, PTL DEF Spec

-------------------------------------------------------------------------------
\* Whatever CreateTask calls run concurrently, and after any number of restores, no two tasks
\* of the provider's state share an address, and none has the gateway's.
THEOREM Apart == Spec => []AddressesApart
<1>1. IInv => AddressesApart
  <2> SUFFICES ASSUME IInv, NEW S \in {recorded, saved.tasks}, NEW t \in S
               PROVE  /\ addr[t] \in Addrs \ {Gateway}
                      /\ \A u \in S : t # u => addr[t] # addr[u]
    BY DEF AddressesApart
  <2>1. CASE S = recorded
    BY <2>1
  <2>2. CASE S = saved.tasks
    BY <2>2
  <2> QED
    BY <2>1, <2>2
<1> HIDE DEF IInv, AddressesApart
<1> QED
    BY <1>1, Invariance, PTL

\* Between calls the recorded status is the container's, unless it exited by itself or a Start
\* or Stop failed half way.
THEOREM StatusIsContainers == Spec => []StatusRecorded
<1>1. IInv => StatusRecorded
    BY SMTT(20) DEF StatusRecorded
<1> HIDE DEF IInv, StatusRecorded
<1> QED
    BY <1>1, Invariance, PTL

\* The helpers of volume.go and runCommandWhileStopped leave no container but one whose removal
\* or start failed.
THEOREM HelpersRemoved == Spec => []NothingLeftBehind
<1>1. IInv => NothingLeftBehind
    BY DEF NothingLeftBehind
<1> HIDE DEF IInv, NothingLeftBehind
<1> QED
    BY <1>1, Invariance, PTL

\* A Teardown without an error leaves nothing of a recorded task and nothing on the network.
THEOREM TornDown == Spec => []TeardownComplete
<1>1. IInv => TeardownComplete
    BY DEF TeardownComplete
<1> HIDE DEF IInv, TeardownComplete
<1> QED
    BY <1>1, Invariance, PTL
===============================================================================
