--------------------------- MODULE DigitalOceanTask ---------------------------
(***************************************************************************)
(* One task of the DigitalOcean provider: a droplet, the Docker daemon on  *)
(* it, and the calls petri/core/provider/digitalocean makes to both.       *)
(*                                                                         *)
(* Each task has one droplet, one daemon and one caller at a time; "op" is *)
(* the call in progress and "step" where it is.  The task never keeps the  *)
(* id of its container: Start, Stop, GetStatus and RunCommand take the one *)
(* ContainerList returns with Limit 1, the newest container on the daemon  *)
(* in whatever state.  A command on a task that does not run is executed in*)
(* an executor container of its own, which is then the newest.             *)
(*                                                                         *)
(* The DigitalOcean API, Tailscale and the daemon are external: a call may *)
(* fail, with or without its effect.                                       *)
(***************************************************************************)
EXTENDS Naturals

CONSTANT Pulls      \* how often CreateTask tries to pull the image (5 in the code)

ASSUME PullsAssumption == Pulls \in Nat \ {0}

VARIABLES
    op,         \* the call in progress
    step,       \* where it is
    fails,      \* what RunCommand will return once its executor is removed
    tries,      \* failed pulls of this call
    ret,        \* the last call that returned: its result, and the container it was about
    ctxDone,    \* the caller's context is done
    droplet,    \* the droplet
    peer,       \* the droplet is a Tailscale peer
    daemon,     \* its Docker daemon answers
    image,      \* the task's image is on it
    cont,       \* containers: the task's own, the executor, an executor left behind
    file,       \* a file in /docker_volumes
    recorded,   \* the provider's TaskStates has the task
    status,     \* TaskState.Status
    created,    \* CreateTask has returned the task, and it was not destroyed
    failed      \* calls that have failed, among those that matter later

callVars == <<op, step, fails, tries, ret>>
hostVars == <<droplet, peer, daemon, image, cont, file>>
taskVars == <<recorded, status, created, failed>>
vars == <<callVars, ctxDone, hostVars, taskVars>>

Containers == {"own", "exec", "left"}
Calls == {"create", "start", "stop", "run", "write", "read", "destroy"}
NoContainers == [c \in Containers |-> "none"]

Init ==
    /\ op = "idle"
    /\ step = "none"
    /\ fails = FALSE
    /\ tries = 0
    /\ ret = [op |-> "none", ok |-> FALSE, on |-> "none"]
    /\ ctxDone = FALSE
    /\ droplet = "none"
    /\ peer = FALSE
    /\ daemon = FALSE
    /\ image \in BOOLEAN
    /\ cont = NoContainers
    /\ file = "none"
    /\ recorded = FALSE
    /\ status = "none"
    /\ created = FALSE
    /\ failed = {}

-------------------------------------------------------------------------------
(* Calls *)

At(o, s) == op = o /\ step = s

Goto(s) == step' = s /\ UNCHANGED <<op, fails, tries, ret>>

\* The call returns.
Return(ok, on) ==
    /\ op' = "idle"
    /\ step' = "none"
    /\ fails' = FALSE
    /\ tries' = 0
    /\ ret' = [op |-> op, ok |-> ok, on |-> on]

ReturnError == Return(FALSE, "none")

\* Validation and the parsing of the definition are behind us; a task is used only after
\* CreateTask has returned it.
Begin(o, s) ==
    /\ op = "idle"
    /\ IF o = "create" THEN droplet = "none" /\ ~recorded ELSE created
    /\ op' = o
    /\ step' = s
    /\ UNCHANGED <<fails, tries, ret, ctxDone, hostVars, taskVars>>

\* ContainerList with Limit 1: the newest container, running or not.
Newest ==
    IF cont["exec"] # "none" THEN "exec"
    ELSE IF cont["left"] # "none" THEN "left"
    ELSE IF cont["own"] # "none" THEN "own" ELSE "none"

\* GetStatus: a droplet that is not active is stopped; otherwise the newest container's state.
GetStatus ==
    IF droplet # "active" THEN "stopped"
    ELSE IF cont[Newest] = "running" THEN "running" ELSE "stopped"

\* What GetStatus asks for can be had: the droplet, and a container if it is active.
StatusKnown == droplet \notin {"none", "gone"} /\ (droplet = "active" => daemon /\ Newest # "none")

-------------------------------------------------------------------------------
(* CreateTask *)

\* CreateDroplet, and the task state with the droplet's id: the call may create the droplet
\* and still report an error, then nothing is recorded.
CreateDroplet ==
    /\ At("create", "droplet")
    /\ \/ /\ droplet' = "new" /\ recorded' = TRUE /\ status' = "stopped"
          /\ Goto("peer")
          /\ UNCHANGED failed
       \/ /\ droplet' \in {droplet, "new"}
          /\ failed' = failed \cup {"create"}
          /\ ReturnError
          /\ UNCHANGED <<recorded, status>>
    /\ UNCHANGED <<ctxDone, peer, daemon, image, cont, file, created>>

\* The wait for the Tailscale peer, then its address and a docker client for it.
WaitForPeer ==
    /\ At("create", "peer")
    /\ peer
    /\ Goto("docker")
    /\ UNCHANGED <<ctxDone, hostVars, taskVars>>

\* waitForDockerStart: the droplet is active and the daemon answers a ping.
waitForDockerStart ==
    /\ At("create", "docker")
    /\ droplet = "active" /\ daemon
    /\ Goto("image")
    /\ UNCHANGED <<ctxDone, hostVars, taskVars>>

\* ImageInspect: any error counts as a missing image.
ImageInspect ==
    /\ At("create", "image")
    /\ \/ image /\ Goto("container")
       \/ Goto("pull")
    /\ UNCHANGED <<ctxDone, hostVars, taskVars>>

\* ImagePull is tried again after any error, up to Pulls times.
ImagePull ==
    /\ At("create", "pull")
    /\ \/ image' = TRUE /\ Goto("container")
       \/ /\ UNCHANGED image
          /\ IF tries + 1 < Pulls
               THEN tries' = tries + 1 /\ UNCHANGED <<op, step, fails, ret>>
               ELSE ReturnError
    /\ UNCHANGED <<ctxDone, droplet, peer, daemon, cont, file, taskVars>>

\* ContainerCreate, under the task's name: a lost connection is tried again, also when the
\* container was created; that attempt then fails on the name.
ContainerCreate ==
    /\ At("create", "container")
    /\ \/ /\ cont["own"] = "none"
          /\ droplet = "active"
          /\ cont' = [cont EXCEPT !["own"] = "created"]
          /\ \/ Return(TRUE, "own") /\ created' = TRUE
             \/ UNCHANGED <<callVars, created>>
       \/ /\ UNCHANGED <<cont, created>>
          /\ ReturnError
    /\ UNCHANGED <<ctxDone, droplet, peer, daemon, image, file, recorded, status, failed>>

-------------------------------------------------------------------------------
(* Start, Stop, Destroy *)

\* Start: the newest container is started.
ContainerStart ==
    /\ At("start", "list")
    /\ daemon /\ Newest # "none"
    /\ cont' = [cont EXCEPT ![Newest] = "running"]
    /\ \/ Goto("wait") /\ UNCHANGED failed
       \/ ReturnError /\ failed' = failed \cup {"start"}
    /\ UNCHANGED <<ctxDone, droplet, peer, daemon, image, file, recorded, status, created>>

\* Mutant: Start returns as soon as the daemon has taken the request.
WaitForNothing ==
    /\ At("start", "wait")
    /\ Return(TRUE, Newest)
    /\ UNCHANGED <<ctxDone, hostVars, taskVars>>

\* Then GetStatus is polled until it says running, and the status is recorded.
WaitForRunning ==
    /\ At("start", "wait")
    /\ StatusKnown
    /\ GetStatus = "running"
    /\ status' = "running"
    /\ Return(TRUE, Newest)
    /\ UNCHANGED <<ctxDone, hostVars, recorded, created, failed>>

\* Stop records TASK_STOPPED and then stops the newest container; the record stays when
\* ContainerStop fails.
Stop ==
    /\ At("stop", "list")
    /\ daemon /\ Newest # "none"
    /\ status' = "stopped"
    /\ LET stopped == [cont EXCEPT ![Newest] = IF @ = "running" THEN "exited" ELSE @] IN
         \/ cont' = stopped /\ Return(TRUE, Newest) /\ UNCHANGED failed
         \/ cont' \in {cont, stopped} /\ ReturnError /\ failed' = failed \cup {"stop"}
    /\ UNCHANGED <<ctxDone, droplet, peer, daemon, image, file, recorded, created>>

\* Mutant: the task is forgotten first.
DestroyForgetsFirst ==
    /\ At("destroy", "delete")
    /\ recorded' = FALSE /\ created' = FALSE
    /\ \/ droplet' = "gone" /\ cont' = NoContainers /\ daemon' = FALSE /\ Return(TRUE, "none")
       \/ UNCHANGED <<droplet, cont, daemon>> /\ ReturnError
    /\ UNCHANGED <<ctxDone, peer, image, file, status, failed>>

\* Destroy: the droplet is looked up and deleted, then the task is forgotten.
Destroy ==
    /\ At("destroy", "delete")
    /\ droplet # "gone"
    /\ \/ /\ droplet' = "gone" /\ cont' = NoContainers /\ daemon' = FALSE
          /\ \/ Return(TRUE, "none") /\ recorded' = FALSE /\ created' = FALSE
             \/ ReturnError /\ UNCHANGED <<recorded, created>>
    /\ UNCHANGED <<ctxDone, peer, image, file, status, failed>>

-------------------------------------------------------------------------------
(* RunCommand *)

\* RunCommand asks for the status; a running task executes the command itself.
RunCommand ==
    /\ At("run", "status")
    /\ StatusKnown
    /\ Goto(IF GetStatus = "running" THEN "exec" ELSE "createExec")
    /\ UNCHANGED <<ctxDone, hostVars, taskVars>>

\* runCommand: exec in the newest container; waitForExec waits for its end.
runCommand ==
    /\ At("run", "exec")
    /\ daemon /\ Newest # "none"
    /\ cont[Newest] = "running"
    /\ Return(TRUE, Newest)
    /\ UNCHANGED <<ctxDone, hostVars, taskVars>>

\* runCommandWhileStopped: an executor container with the image and the volume of the task.
\* A create call that reports an error has no container id to remove.
createExecutor ==
    /\ At("run", "createExec")
    /\ daemon
    /\ \/ cont' = [cont EXCEPT !["exec"] = "created"] /\ Goto("startExec") /\ UNCHANGED failed
       \/ cont' \in {cont, [cont EXCEPT !["left"] = "created"]} /\ ReturnError
          /\ failed' = failed \cup {"remove"}
    /\ UNCHANGED <<ctxDone, droplet, peer, daemon, image, file, recorded, status, created>>

\* Mutant: the removal is not deferred, an error returns without it.
ExecutorFailsReturns ==
    /\ op = "run" /\ step \in {"startExec", "waitExec", "command"}
    /\ ReturnError
    /\ cont' = [cont EXCEPT !["left"] = cont["exec"], !["exec"] = "none"]
    /\ UNCHANGED <<ctxDone, droplet, peer, daemon, image, file, taskVars>>

\* A call on the executor fails: it is removed all the same.
ExecutorFails ==
    /\ op = "run" /\ step \in {"startExec", "waitExec", "command"}
    /\ step' = "remove" /\ fails' = TRUE
    /\ UNCHANGED <<op, tries, ret, ctxDone, hostVars, taskVars>>

\* startContainerWithBlock: the container is started and inspected until it runs; one that
\* has exited with status zero is waited for until the timeout.
startContainerWithBlock ==
    /\ At("run", "startExec")
    /\ cont' = [cont EXCEPT !["exec"] = IF @ = "created" THEN "running" ELSE @]
    /\ Goto("waitExec")
    /\ UNCHANGED <<ctxDone, droplet, peer, daemon, image, file, taskVars>>

ExecutorRuns ==
    /\ At("run", "waitExec")
    /\ daemon /\ cont["exec"] = "running"
    /\ Goto("command")
    /\ UNCHANGED <<ctxDone, hostVars, taskVars>>

\* The command in the executor ends.
ExecutorEnds ==
    /\ At("run", "command")
    /\ daemon /\ cont["exec"] = "running"
    /\ step' = "remove"
    /\ UNCHANGED <<op, fails, tries, ret, ctxDone, hostVars, taskVars>>

\* The deferred removal, with the caller's context: its error is only logged.
removeExecutor ==
    /\ At("run", "remove")
    /\ \/ /\ daemon /\ ~ctxDone
          /\ cont' = [cont EXCEPT !["exec"] = "none"]
          /\ UNCHANGED failed
       \/ /\ cont' = [cont EXCEPT !["left"] = IF cont["exec"] = "none" THEN @ ELSE cont["exec"],
                                  !["exec"] = "none"]
          /\ failed' = failed \cup {"remove"}
    /\ Return(~fails, "exec")
    /\ UNCHANGED <<ctxDone, droplet, peer, daemon, image, file, recorded, status, created>>

-------------------------------------------------------------------------------
(* Files *)

\* WriteFile over sftp: directories, then the file is created, truncated, and written.
WriteFile ==
    /\ At("write", "sftp")
    /\ peer /\ droplet = "active"
    /\ \/ file' = "whole" /\ Return(TRUE, "none") /\ UNCHANGED failed
       \/ file' \in {file, "torn"} /\ ReturnError /\ failed' = failed \cup {"write"}
    /\ UNCHANGED <<ctxDone, droplet, peer, daemon, image, cont, recorded, status, created>>

ReadFile ==
    /\ At("read", "sftp")
    /\ peer /\ droplet = "active"
    /\ Return(file # "none", file)
    /\ UNCHANGED <<ctxDone, hostVars, taskVars>>

-------------------------------------------------------------------------------
(* Failures and the environment *)

\* Steps at which a failing call is an error of the whole operation; the polls of CreateTask
\* swallow it for the peer only, and the executor's steps have their own.
CallFails ==
    /\ op # "idle"
    /\ step \notin {"droplet", "peer", "image", "pull", "container", "startExec", "waitExec", "command",
                    "remove"}
    /\ ReturnError
    /\ failed' = failed \cup ({op} \cap {"start"})
    /\ UNCHANGED <<ctxDone, hostVars, recorded, status, created>>

\* Mutant: WaitForCondition without its timeout.
NoTimeout == FALSE /\ UNCHANGED vars

\* WaitForCondition gives up, or the caller's context is done.
Timeout ==
    /\ step \in {"peer", "docker", "container", "wait"}
    /\ ReturnError
    /\ failed' = failed \cup ({op} \cap {"start"})
    /\ UNCHANGED <<ctxDone, hostVars, recorded, status, created>>

ContextDone ==
    /\ ~ctxDone
    /\ ctxDone' = TRUE
    /\ UNCHANGED <<callVars, hostVars, taskVars>>

\* The droplet boots, joins the tailnet and starts its daemon; it may be switched off.
Boot ==
    /\ \/ droplet = "new" /\ droplet' = "active" /\ UNCHANGED <<peer, daemon, cont>>
       \/ droplet = "active" /\ ~peer /\ peer' = TRUE /\ UNCHANGED <<droplet, daemon, cont>>
       \/ droplet = "active" /\ ~daemon /\ daemon' = TRUE /\ UNCHANGED <<droplet, peer, cont>>
       \/ /\ droplet = "active" /\ droplet' = "off" /\ daemon' = FALSE
          /\ cont' = [c \in Containers |-> IF cont[c] = "running" THEN "exited" ELSE cont[c]]
          /\ UNCHANGED peer
    /\ UNCHANGED <<callVars, ctxDone, image, file, taskVars>>

\* A container's process ends.
ContainerExits ==
    /\ \E c \in Containers : cont[c] = "running" /\ cont' = [cont EXCEPT ![c] = "exited"]
    /\ UNCHANGED <<callVars, ctxDone, droplet, peer, daemon, image, file, taskVars>>

CreateTask ==
    \/ CreateDroplet \/ WaitForPeer \/ waitForDockerStart \/ ImageInspect \/ ImagePull
    \/ ContainerCreate
Executor ==
    \/ RunCommand \/ runCommand \/ createExecutor \/ ExecutorFails \/ startContainerWithBlock
    \/ ExecutorRuns \/ ExecutorEnds \/ removeExecutor

Steps == CreateTask \/ ContainerStart \/ WaitForRunning \/ Stop \/ Destroy \/ Executor
            \/ WriteFile \/ ReadFile \/ CallFails \/ Timeout

Begins ==
    \/ Begin("create", "droplet") \/ Begin("start", "list") \/ Begin("stop", "list")
    \/ Begin("run", "status") \/ Begin("write", "sftp") \/ Begin("read", "sftp")
    \/ Begin("destroy", "delete")

Next == Begins \/ Steps \/ ContextDone \/ Boot \/ ContainerExits

Spec == Init /\ [][Next]_vars

\* The output of a command (stdcopy.StdCopy on the attached connection) and a file over sftp
\* are read and written without a deadline and without looking at the context.
Transfers == {"exec", "command", "sftp"}

\* A call in progress goes on unless it is in a transfer, which may never end: waits time out,
\* and the client's other calls carry the context of an activity, which has a deadline.
FairSpec == Spec /\ WF_vars(step \notin Transfers /\ Steps)

-------------------------------------------------------------------------------
(* Properties *)

\* A Start that succeeds has seen the task's own container run, although it only ever asks
\* for the newest one: the exception is an executor the daemon was asked to remove, or to
\* create, and answered with an error.
StartedTaskRuns ==
    ret.op = "start" /\ ret.ok /\ "remove" \notin failed => ret.on = "own"

\* No executor outlives its command, on any of runCommandWhileStopped's error paths.
NoExecutorLeft ==
    op # "run" /\ "remove" \notin failed => cont["exec"] = "none" /\ cont["left"] = "none"

\* The recorded status says "running" only of a container that was started, and "stopped" of
\* one that runs only after a Start or Stop failed half-way.
StatusFollowsContainer ==
    op = "idle" /\ "remove" \notin failed =>
        /\ status = "running" => cont["own"] # "created"
        /\ status = "stopped" /\ cont["own"] = "running" => failed \cap {"start", "stop"} # {}
        /\ ret.op = "stop" /\ ret.ok => status = "stopped"

\* A droplet no TaskState knows of is one whose creation reported an error: nothing else
\* makes the provider forget a droplet that exists.
ForgottenMeansGone ==
    ~recorded /\ droplet \notin {"none", "gone"} => "create" \in failed

\* Every call returns, whatever the droplet does, unless it hangs for ever in a transfer: no wait
\* of CreateTask, Start or startContainerWithBlock, and no clean-up, keeps a caller for ever.
CallReturns == op # "idle" ~> (op = "idle" \/ [](step \in Transfers))
===============================================================================
