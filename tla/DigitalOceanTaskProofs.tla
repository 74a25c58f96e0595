------------------------ MODULE DigitalOceanTaskProofs ------------------------
(***************************************************************************)
(* The invariants of a DigitalOcean task hold however often an image is    *)
(* pulled.  IInv adds what they rest on: which step belongs to which call  *)
(* (StepInv), what a droplet that does not exist cannot have (HostInv),    *)
(* that an executor exists only inside runCommandWhileStopped, so that the *)
(* newest container is the task's own everywhere else (ExecutorInv), and   *)
(* when the recorded status may differ from the container's (StatusInv).   *)
(***************************************************************************)
EXTENDS DigitalOceanTask, TLAPS

\* The steps at which runCommandWhileStopped has its executor.
ExecutorSteps == {"startExec", "waitExec", "command", "remove"}

\* Every variable the invariants speak of keeps its type.
TypeInv ==
    /\ op \in Calls \cup {"idle"}
    /\ cont \in [Containers -> {"none", "created", "running", "exited"}]
    /\ status \in {"none", "running", "stopped"}

StepInv ==
    /\ op = "idle" => step = "none"
    /\ op = "create" => step \in {"droplet", "peer", "docker", "image", "pull", "container"}
    /\ op = "start" => step \in {"list", "wait"}
    /\ op = "stop" => step = "list"
    /\ op = "destroy" => step = "delete"
    /\ op = "run" => step \in {"status", "exec", "createExec"} \cup ExecutorSteps
    /\ op \in {"write", "read"} => step = "sftp"
    /\ op = "create" /\ step # "droplet" => status = "stopped"

HostInv ==
    /\ daemon => droplet = "active"
    /\ droplet = "none" => cont["own"] = "none"
    /\ op = "create" /\ step = "droplet" => droplet = "none"

ExecutorInv ==
    "remove" \notin failed =>
        /\ cont["left"] = "none"
        /\ cont["exec"] # "none" => op = "run" /\ step \in ExecutorSteps

StatusInv ==
    /\ ret.op = "stop" /\ ret.ok => status = "stopped"
    /\ "remove" \notin failed =>
         /\ status = "running" => cont["own"] # "created"
         /\ status = "stopped" /\ cont["own"] = "running"
              => failed \cap {"start", "stop"} # {} \/ At("start", "wait")

IInv ==
    /\ TypeInv /\ StepInv /\ HostInv /\ ExecutorInv /\ StatusInv
    /\ StartedTaskRuns /\ ForgottenMeansGone

-------------------------------------------------------------------------------
USE DEF IInv, TypeInv, StepInv, HostInv, ExecutorInv, StatusInv, StartedTaskRuns, ForgottenMeansGone,
        ExecutorSteps, Calls, Containers, NoContainers, At
USE DEF callVars, hostVars, taskVars

\* The first state satisfies the invariant.
LEMMA InitInv == Init => IInv
    BY DEF Init

\* Outside runCommandWhileStopped the newest container is the task's own.
LEMMA NewestIsOwn ==
    ASSUME IInv, "remove" \notin failed, op # "run"
    PROVE  Newest \in {"own", "none"}
    BY DEF Newest

\* A step of CreateTask preserves the invariant.
LEMMA CreateStep ==
    ASSUME IInv, CreateTask
    PROVE  IInv'
<1>1. CASE CreateDroplet
    BY <1>1 DEF CreateDroplet, Goto, ReturnError, Return
<1>2. CASE WaitForPeer \/ waitForDockerStart \/ ImageInspect
    BY <1>2 DEF WaitForPeer, waitForDockerStart, ImageInspect, Goto
<1>3. CASE ImagePull
    BY <1>3 DEF ImagePull, Goto, ReturnError, Return
<1>4. CASE ContainerCreate
    BY <1>4 DEF ContainerCreate, ReturnError, Return
<1> QED
    BY <1>1, <1>2, <1>3, <1>4 DEF CreateTask

\* A step of RunCommand preserves the invariant: the executor is gone when it returns.
LEMMA ExecutorStep ==
    ASSUME IInv, Executor
    PROVE  IInv'
<1>1. CASE RunCommand
    BY <1>1 DEF RunCommand, Goto
<1>2. CASE runCommand
    BY <1>2 DEF runCommand, Return, Newest
<1>3. CASE createExecutor
    BY <1>3 DEF createExecutor, Goto, ReturnError, Return
<1>4. CASE ExecutorFails
    BY <1>4 DEF ExecutorFails
<1>5. CASE startContainerWithBlock
    BY <1>5 DEF startContainerWithBlock, Goto
<1>6. CASE ExecutorRuns \/ ExecutorEnds
    BY <1>6 DEF ExecutorRuns, ExecutorEnds, Goto
<1>7. CASE removeExecutor
    BY <1>7 DEF removeExecutor, Return
<1> QED
    BY <1>1, <1>2, <1>3, <1>4, <1>5, <1>6, <1>7 DEF Executor

\* Start, Stop, Destroy, files and failing calls preserve the invariant.
LEMMA CallStep ==
    ASSUME IInv, ContainerStart \/ WaitForRunning \/ Stop \/ Destroy \/ WriteFile \/ ReadFile
                 \/ CallFails \/ Timeout
    PROVE  IInv'
<1>1. CASE ContainerStart
    BY <1>1, NewestIsOwn DEF ContainerStart, Goto, ReturnError, Return, Newest
<1>2. CASE WaitForRunning
    BY <1>2, NewestIsOwn DEF WaitForRunning, Return, GetStatus, StatusKnown, Newest
<1>3. CASE Stop
    BY <1>3, NewestIsOwn DEF Stop, ReturnError, Return, Newest
<1>4. CASE Destroy
    BY <1>4 DEF Destroy, ReturnError, Return
<1>5. CASE WriteFile \/ ReadFile
    BY <1>5 DEF WriteFile, ReadFile, ReturnError, Return
<1>6. CASE CallFails
  <2>1. CASE op = "start"
    <3>1. failed' = failed \cup {"start"}
      BY <1>6, <2>1 DEF CallFails
    <3> QED
      BY <1>6, <2>1, <3>1 DEF CallFails, ReturnError, Return
  <2>2. CASE op # "start"
    <3>1. failed' = failed
      BY <1>6, <2>2 DEF CallFails
    <3> QED
      BY <1>6, <2>2, <3>1 DEF CallFails, ReturnError, Return
  <2> QED
    BY <2>1, <2>2
<1>7. CASE Timeout
    BY <1>7 DEF Timeout, ReturnError, Return
<1> QED
    BY <1>1, <1>2, <1>3, <1>4, <1>5, <1>6, <1>7

\* Every step preserves the invariant.
LEMMA NextInv ==
    ASSUME IInv, [Next]_vars
    PROVE  IInv'
<1>1. CASE Begins
    BY <1>1 DEF Begins, Begin
<1>2. CASE Steps
    BY <1>2, CreateStep, ExecutorStep, CallStep DEF Steps
<1>3. CASE ContextDone \/ UNCHANGED vars
    BY <1>3 DEF ContextDone, vars
<1>4. CASE Boot
    BY <1>4 DEF Boot
<1>5. CASE ContainerExits
    BY <1>5 DEF ContainerExits
<1> QED
    BY <1>1, <1>2, <1>3, <1>4, <1>5 DEF Next

\* IInv holds in every reachable state.
LEMMA Invariance == Spec => []IInv
<1> HIDE DEF IInv
<1>1. Init => IInv
    BY InitInv
<1>2. IInv /\ [Next]_vars => IInv'
    BY NextInv
<1> QED
    BY <1>1, <1>2, PTL DEF Spec

-------------------------------------------------------------------------------
\* A Start that returns no error has seen the task's own container run, although it takes
\* whatever container ContainerList returns first.
THEOREM StartsItsOwn == Spec => []StartedTaskRuns
<1>1. IInv => StartedTaskRuns
    OBVIOUS
<1> HIDE DEF IInv, StartedTaskRuns
<1> QED
    BY <1>1, Invariance, PTL

\* runCommandWhileStopped leaves no executor on any of its ways out.
THEOREM ExecutorsRemoved == Spec => []NoExecutorLeft
<1>1. IInv => NoExecutorLeft
    BY DEF NoExecutorLeft
<1> HIDE DEF IInv, NoExecutorLeft
<1> QED
    BY <1>1, Invariance, PTL

\* The status Start and Stop record is the container's, but for one that failed half-way.
THEOREM StatusFollows == Spec => []StatusFollowsContainer
<1>1. IInv => StatusFollowsContainer
    BY DEF StatusFollowsContainer
<1> HIDE DEF IInv, StatusFollowsContainer
<1> QED
    BY <1>1, Invariance, PTL

\* Nothing but a CreateDroplet that reported an error makes the provider forget a droplet.
THEOREM NothingForgotten == Spec => []ForgottenMeansGone
<1>1. IInv => ForgottenMeansGone
    OBVIOUS
<1> HIDE DEF IInv, ForgottenMeansGone
<1> QED
    BY <1>1, Invariance, PTL
===============================================================================
