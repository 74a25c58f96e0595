---------------------------- MODULE TestnetWorkflow ----------------------------
(***************************************************************************)
(* One run of the Temporal workflow of workflows/testnet/testnet.go,       *)
(* together with the activities it schedules and the infrastructure those  *)
(* activities create and destroy.                                          *)
(*                                                                         *)
(* Three kinds of actors interleave:                                       *)
(*   - the workflow function, which is durable: it blocks on one future at *)
(*     a time ("pc" names the place) and survives worker crashes;          *)
(*   - the activity bodies, which run on a worker.  They are scheduled with*)
(*     MaximumAttempts 1, no heartbeat and WaitForCancellation FALSE, so a *)
(*     cancelled workflow goes on at once while the body keeps running and *)
(*     keeps creating resources, and a crashed body is noticed only by its *)
(*     StartToClose timeout;                                               *)
(*   - the user, who may cancel at any moment.                             *)
(*                                                                         *)
(* The Docker daemon and the DigitalOcean API are external: a call may     *)
(* fail, and a call that fails may or may not have taken effect.           *)
(***************************************************************************)
EXTENDS Naturals, FiniteSets

CONSTANTS
    Nodes,      \* the validators and full nodes CreateChain makes a task for
    Domains,    \* the DNS records a load balancer gets
    Requests    \* the requests a run may be started with

ASSUME NodesAssumption ==
    /\ Nodes # {}
    /\ {"catalyst", "loadbalancer"} \cap Nodes = {}

ASSUME RequestsAssumption ==
    Requests \subseteq [runner : {"docker", "digitalocean"}, longRunning : BOOLEAN,
                        loadBalancer : BOOLEAN, loadTest : BOOLEAN]

Tasks == Nodes \cup {"catalyst", "loadbalancer"}

Activities == {"build", "createProvider", "launchTestnet", "launchLoadBalancer",
               "runLoadTest", "teardown"}

\* The activity whose body calls CreateTask for a task.
Owner(t) ==
    CASE t = "catalyst" -> "runLoadTest"
      [] t = "loadbalancer" -> "launchLoadBalancer"
      [] OTHER -> "launchTestnet"

VARIABLES
    req,            \* the workflow request
    pc,             \* where the workflow function is blocked
    cancelReq,      \* cancellation has been requested
    result,         \* what the workflow function returns
    providerState,  \* startWorkflow's providerState: its encoding and its TaskStates
    timer,          \* the timer future of waitForTestnetCompletion
    fut,            \* the activity futures, as the workflow sees them
    body,           \* the step an activity body is at on the worker
    expired,        \* activities whose StartToClose deadline has passed
    taskStates,     \* per activity, TaskStates of the provider object it restored
    call,           \* per task, the progress of the CreateTask call for it
    tasks,          \* containers or droplets that exist
    up,             \* the ones that run
    volumes,        \* tasks whose named Docker volume exists
    base,           \* the provider's own network, tag and firewall that exist
    dns             \* DNS records that exist

flowVars == <<req, pc, cancelReq, result, providerState, timer>>
actVars == <<fut, body, expired, taskStates, call>>
infraVars == <<tasks, up, volumes, base, dns>>
vars == <<flowVars, actVars, infraVars>>

Docker == req.runner = "docker"
Ended == {"idle", "done", "dead"}
Active(a) == body[a] \notin Ended
\* An activity has answered: "reported" is a load test's answer with its Result.Error set.
Answered == {"ok", "reported"}
NoState == [fmt |-> "none", tasks |-> {}]

\* TestnetWorkflowRequest.Validate, of the fields a request has here.
Validate(r) == ~(r.runner = "docker" /\ r.loadBalancer)

\* The first step of an activity's body.
Entry(a) ==
    CASE a = "build" -> "run"
      [] a = "createProvider" -> IF Docker THEN "network" ELSE "tag"
      [] a = "teardown" -> "decompress"
      [] OTHER -> "restore"

Init ==
    /\ req \in Requests
    /\ pc = "start"
    /\ cancelReq = FALSE
    /\ result = "running"
    /\ providerState = NoState
    /\ timer = "off"
    /\ fut = [a \in Activities |-> "none"]
    /\ body = [a \in Activities |-> "idle"]
    /\ expired = {}
    /\ taskStates = [a \in Activities |-> {}]
    /\ call = [t \in Tasks |-> "none"]
    /\ tasks = {}
    /\ up = {}
    /\ volumes = {}
    /\ base = {}
    /\ dns = {}

-------------------------------------------------------------------------------
(* The workflow function *)

\* ExecuteActivity: on a cancelled context the future is cancelled at once and no
\* body runs; the disconnected context of the teardown is never cancelled.
ExecuteActivity(a) ==
    LET refused == cancelReq /\ a # "teardown" IN
    /\ fut' = [fut EXCEPT ![a] = IF refused THEN "canceled" ELSE "pending"]
    /\ body' = [body EXCEPT ![a] = IF refused THEN "idle" ELSE Entry(a)]

\* Mutant: the teardown is not deferred, an error returns without it.
ReturnWithoutDefer(state, err) ==
    /\ providerState' = state
    /\ result' = IF err THEN "failed" ELSE "completed"
    /\ IF state.fmt # "none" /\ ~err
         THEN pc' = "teardown" /\ ExecuteActivity("teardown")
         ELSE pc' = "closed" /\ UNCHANGED <<fut, body>>

\* A return of startWorkflow: the deferred teardown runs when there is a provider
\* state, and Workflow turns a cancellation error into success.
ReturnFromStartWorkflow(state, err) ==
    /\ providerState' = state
    /\ result' = IF err THEN "failed" ELSE "completed"
    /\ IF state.fmt # "none"
         THEN pc' = "teardown" /\ ExecuteActivity("teardown")
         ELSE pc' = "closed" /\ UNCHANGED <<fut, body>>

\* Workflow begins: an invalid request fails the run, a valid one builds the image.
StartRun ==
    /\ pc = "start"
    /\ IF Validate(req)
         THEN /\ pc' = "build"
              /\ ExecuteActivity("build")
              /\ UNCHANGED result
         ELSE /\ pc' = "closed"
              /\ result' = "failed"
              /\ UNCHANGED <<fut, body>>
    /\ UNCHANGED <<req, cancelReq, providerState, timer, expired, taskStates, call, infraVars>>

\* The image is built (launchTestnet schedules CreateProvider), or the error is
\* returned as it is: a cancellation closes the run as canceled.
GetBuild ==
    /\ pc = "build"
    /\ fut["build"] # "pending"
    /\ IF fut["build"] = "ok"
         THEN /\ pc' = "createProvider"
              /\ ExecuteActivity("createProvider")
              /\ UNCHANGED result
         ELSE /\ pc' = "closed"
              /\ result' = IF fut["build"] = "canceled" THEN "canceled" ELSE "failed"
              /\ UNCHANGED <<fut, body>>
    /\ UNCHANGED <<req, cancelReq, providerState, timer, expired, taskStates, call, infraVars>>

\* launchTestnet: without a provider there is no state, hence nothing to tear down.
GetProvider ==
    /\ pc = "createProvider"
    /\ fut["createProvider"] # "pending"
    /\ IF fut["createProvider"] = "ok"
         THEN /\ pc' = "launchTestnet"
              /\ ExecuteActivity("launchTestnet")
              /\ UNCHANGED <<result, providerState>>
         ELSE ReturnFromStartWorkflow(NoState, fut["createProvider"] # "canceled")
    /\ UNCHANGED <<req, cancelReq, timer, expired, taskStates, call, infraVars>>

\* The load test, if any, and the timer are added to the shutdown selector; the load test's
\* callback only logs an error, of the activity or in the Result it answered with.
EnterSelect(state) ==
    /\ providerState' = state
    /\ pc' = "select"
    /\ timer' = "running"
    /\ UNCHANGED result
    /\ IF req.loadTest THEN ExecuteActivity("runLoadTest") ELSE UNCHANGED <<fut, body>>

\* Mutant: startWorkflow keeps the provider state from before the launch.
GetTestnetDropsState ==
    /\ pc = "launchTestnet"
    /\ fut["launchTestnet"] # "pending"
    /\ IF fut["launchTestnet"] # "ok"
         THEN /\ ReturnFromStartWorkflow([fmt |-> "gzip", tasks |-> {}], TRUE)
              /\ UNCHANGED timer
         ELSE EnterSelect([fmt |-> "gzip", tasks |-> {}])
    /\ UNCHANGED <<req, cancelReq, expired, taskStates, call, infraVars>>

\* LaunchTestnet answered.  On an error its response is lost: the state kept for the
\* teardown is the one from before the launch, compressed if that works.
GetTestnet ==
    /\ pc = "launchTestnet"
    /\ fut["launchTestnet"] # "pending"
    /\ IF fut["launchTestnet"] # "ok"
         THEN \E f \in {"gzip", "raw"} :
                /\ ReturnFromStartWorkflow([fmt |-> f, tasks |-> {}],
                                           fut["launchTestnet"] # "canceled")
                /\ UNCHANGED timer
         ELSE LET state == [fmt |-> "gzip", tasks |-> taskStates["launchTestnet"]] IN
              IF req.loadBalancer /\ ~Docker
                THEN /\ providerState' = state
                     /\ pc' = "launchLoadBalancer"
                     /\ ExecuteActivity("launchLoadBalancer")
                     /\ UNCHANGED <<result, timer>>
                ELSE EnterSelect(state)
    /\ UNCHANGED <<req, cancelReq, expired, taskStates, call, infraVars>>

\* LaunchLoadBalancer answered.  On an error the state from before it is kept.
GetLoadBalancer ==
    /\ pc = "launchLoadBalancer"
    /\ fut["launchLoadBalancer"] # "pending"
    /\ IF fut["launchLoadBalancer"] = "ok"
         THEN EnterSelect([fmt |-> "gzip", tasks |-> taskStates["launchLoadBalancer"]])
         ELSE /\ ReturnFromStartWorkflow(providerState, fut["launchLoadBalancer"] # "canceled")
              /\ UNCHANGED timer
    /\ UNCHANGED <<req, cancelReq, expired, taskStates, call, infraVars>>

\* Mutant: after the selector an unfinished load test is an error.
SelectDoesNotWait ==
    /\ pc = "select"
    /\ timer = "fired" \/ cancelReq \/ fut["runLoadTest"] \notin {"none", "pending"}
    /\ ReturnFromStartWorkflow(providerState, fut["runLoadTest"] \notin Answered \cup {"none", "canceled"})
    /\ UNCHANGED <<req, cancelReq, timer, expired, taskStates, call, infraVars>>

\* Mutant: the selector has no case for the cancellation.
SelectIgnoresCancel ==
    /\ pc = "select"
    /\ timer = "fired" \/ fut["runLoadTest"] \notin {"none", "pending"}
    /\ IF req.loadTest /\ ~cancelReq
         THEN pc' = "awaitLoadTest" /\ UNCHANGED <<providerState, result, fut, body>>
         ELSE ReturnFromStartWorkflow(providerState, FALSE)
    /\ UNCHANGED <<req, cancelReq, timer, expired, taskStates, call, infraVars>>

\* shutdownSelector.Select returns on the first of: the timer, the load test, the
\* cancellation of either.  A load test is then waited for, unless cancelled.
Select ==
    /\ pc = "select"
    /\ \/ timer = "fired"
       \/ cancelReq
       \/ fut["runLoadTest"] \notin {"none", "pending"}
    /\ IF req.loadTest /\ ~cancelReq
         THEN pc' = "awaitLoadTest" /\ UNCHANGED <<providerState, result, fut, body>>
         ELSE ReturnFromStartWorkflow(providerState, FALSE)
    /\ UNCHANGED <<req, cancelReq, timer, expired, taskStates, call, infraVars>>

\* Mutant: the error of the load test activity is only logged as well.
GetLoadTestLogsError ==
    /\ pc = "awaitLoadTest"
    /\ fut["runLoadTest"] # "pending"
    /\ ReturnFromStartWorkflow(providerState, FALSE)
    /\ UNCHANGED <<req, cancelReq, timer, expired, taskStates, call, infraVars>>

\* loadTestFuture.Get: an error of the activity is the error of the run; an error in the
\* Result it answered with has only been logged by the selector's callback.
GetLoadTest ==
    /\ pc = "awaitLoadTest"
    /\ fut["runLoadTest"] # "pending"
    /\ ReturnFromStartWorkflow(providerState, fut["runLoadTest"] \notin Answered \cup {"canceled"})
    /\ UNCHANGED <<req, cancelReq, timer, expired, taskStates, call, infraVars>>

\* Mutant: an error of the teardown is the error of the run.
GetTeardownReturnsError ==
    /\ pc = "teardown"
    /\ fut["teardown"] # "pending"
    /\ pc' = "closed"
    /\ result' = IF fut["teardown"] = "ok" THEN result ELSE "failed"
    /\ UNCHANGED <<req, cancelReq, providerState, timer, actVars, infraVars>>

\* teardownProvider returned; its error is only logged.
GetTeardown ==
    /\ pc = "teardown"
    /\ fut["teardown"] # "pending"
    /\ pc' = "closed"
    /\ UNCHANGED <<req, cancelReq, result, providerState, timer, actVars, infraVars>>

\* The testnet's duration is over, or the ten years of a long-running testnet.
TimerFires ==
    /\ timer = "running"
    /\ timer' = "fired"
    /\ UNCHANGED <<req, pc, cancelReq, result, providerState, actVars, infraVars>>

\* The user cancels: every pending future of the workflow's context is cancelled, and
\* the bodies behind them are not told.
Cancel ==
    /\ pc # "closed"
    /\ ~cancelReq
    /\ cancelReq' = TRUE
    /\ fut' = [a \in Activities |->
                 IF fut[a] = "pending" /\ a # "teardown" THEN "canceled" ELSE fut[a]]
    /\ UNCHANGED <<req, pc, result, providerState, timer, body, expired, taskStates, call,
                   infraVars>>

Workflow ==
    \/ StartRun \/ GetBuild \/ GetProvider \/ GetTestnet \/ GetLoadBalancer
    \/ Select \/ GetLoadTest \/ GetTeardown

-------------------------------------------------------------------------------
(* Activity bodies *)

\* The body returns.  Its answer is dropped when the future is already resolved.
Return(a, r) ==
    /\ body' = [body EXCEPT ![a] = "done"]
    /\ fut' = [fut EXCEPT ![a] = IF @ = "pending" THEN r ELSE @]

\* The call succeeded, in time, and the body is at its next step.
Goto(a, step) ==
    /\ a \notin expired
    /\ body' = [body EXCEPT ![a] = step]
    /\ UNCHANGED fut

\* A call took effect: the body goes on, or was told of an error and returns it.
Took(a, step) == Goto(a, step) \/ Return(a, "error")

\* The last call took effect: the body succeeds, or was told of an error.
TookLast(a) == Return(a, "error") \/ (a \notin expired /\ Return(a, "ok"))

At(a, step) == body[a] = step

BuildDockerImage ==
    /\ At("build", "run")
    /\ TookLast("build")
    /\ UNCHANGED <<flowVars, expired, taskStates, call, infraVars>>

\* CreateProvider on DigitalOcean: the tag, then the firewall.
createTag ==
    /\ At("createProvider", "tag")
    /\ base' = base \cup {"tag"}
    /\ Took("createProvider", "firewall")
    /\ UNCHANGED <<flowVars, expired, taskStates, call, tasks, up, volumes, dns>>

createFirewall ==
    /\ At("createProvider", "firewall")
    /\ base' = base \cup {"firewall"}
    /\ TookLast("createProvider")
    /\ UNCHANGED <<flowVars, expired, taskStates, call, tasks, up, volumes, dns>>

\* CreateProvider on Docker: the network; inspecting it or allocating the gateway
\* address may still fail.
initNetwork ==
    /\ At("createProvider", "network")
    /\ base' = base \cup {"network"}
    /\ TookLast("createProvider")
    /\ UNCHANGED <<flowVars, expired, taskStates, call, tasks, up, volumes, dns>>

\* Mutant: the serialised state itself is taken for the task states.
RestoreProviderUndecoded(a) ==
    /\ At(a, "restore")
    /\ taskStates' = [taskStates EXCEPT ![a] = {providerState.fmt}]
    /\ Goto(a, "create")
    /\ UNCHANGED <<flowVars, expired, call, infraVars>>

\* RestoreProvider from the state in the request.  On Docker ensureNetwork insists on
\* the network; on DigitalOcean only the state is decoded.
RestoreProvider(a) ==
    /\ At(a, "restore")
    /\ Docker => "network" \in base
    /\ taskStates' = [taskStates EXCEPT ![a] = providerState.tasks]
    /\ Goto(a, CASE a = "teardown" -> IF Docker THEN "containers" ELSE "droplets"
                 [] OTHER -> "create")
    /\ UNCHANGED <<flowVars, expired, call, infraVars>>

\* CreateTask, first effect: the named volume on Docker, the droplet on DigitalOcean,
\* whose task state is recorded at once.  The API makes the tag the droplet is created with
\* when there is none.
CreateTaskBegins(t) ==
    /\ At(Owner(t), "create")
    /\ call[t] = "none"
    /\ Owner(t) \notin expired
    /\ call' = [call EXCEPT ![t] = "begun"]
    /\ IF Docker
         THEN /\ volumes' = volumes \cup {t}
              /\ UNCHANGED <<tasks, taskStates, base>>
         ELSE /\ tasks' = tasks \cup {t}
              /\ base' = base \cup {"tag"}
              /\ taskStates' = [taskStates EXCEPT ![Owner(t)] = @ \cup {t}]
              /\ UNCHANGED volumes
    /\ UNCHANGED <<flowVars, fut, body, expired, up, dns>>

\* CreateTask, second effect: the container exists and, on Docker, is recorded.
CreateTaskEnds(t) ==
    /\ At(Owner(t), "create")
    /\ call[t] = "begun"
    /\ Owner(t) \notin expired
    /\ call' = [call EXCEPT ![t] = "ok"]
    /\ IF Docker
         THEN /\ tasks' = tasks \cup {t}
              /\ taskStates' = [taskStates EXCEPT ![Owner(t)] = @ \cup {t}]
         ELSE UNCHANGED <<tasks, taskStates>>
    /\ UNCHANGED <<flowVars, fut, body, expired, up, volumes, base, dns>>

\* CreateTask returns an error and undoes nothing; the failing call may have worked.
CreateTaskFails(t) ==
    /\ At(Owner(t), "create")
    /\ call[t] \in {"none", "begun"}
    /\ call' = [call EXCEPT ![t] = "err"]
    /\ \/ UNCHANGED <<tasks, base>>
       \/ /\ tasks' = tasks \cup {t}
          /\ base' = IF Docker THEN base ELSE base \cup {"tag"}
    /\ UNCHANGED <<flowVars, fut, body, expired, taskStates, up, volumes, dns>>

\* CreateChain: the group waits for every CreateNode, then returns the first error.
CreateChain ==
    /\ At("launchTestnet", "create")
    /\ \A n \in Nodes : call[n] \in {"ok", "err"}
    /\ IF \E n \in Nodes : call[n] = "err"
         THEN Return("launchTestnet", "error")
         ELSE Goto("launchTestnet", "init")
    /\ UNCHANGED <<flowVars, expired, taskStates, call, infraVars>>

\* chain.Init starts the nodes in parallel after its genesis steps; WaitForStartup and
\* the serialisation follow.  An error leaves any of the nodes started.
InitAndStart ==
    /\ At("launchTestnet", "init")
    /\ \/ /\ Nodes \subseteq tasks
          /\ up' = up \cup Nodes
          /\ "launchTestnet" \notin expired
          /\ Return("launchTestnet", "ok")
       \/ \E S \in SUBSET (Nodes \cap tasks) :
            /\ up' = up \cup S
            /\ Return("launchTestnet", "error")
    /\ UNCHANGED <<flowVars, expired, taskStates, call, tasks, volumes, base, dns>>

\* The load balancer and the load test each create one task, then configure and start it.
TaskCreated(a, t) ==
    /\ At(a, "create")
    /\ call[t] \in {"ok", "err"}
    /\ IF call[t] = "ok" THEN Goto(a, "start") ELSE Return(a, "error")
    /\ UNCHANGED <<flowVars, expired, taskStates, call, infraVars>>

StartTask(a, t, next) ==
    /\ At(a, "start")
    /\ t \in tasks
    /\ up' = up \cup {t}
    /\ Took(a, next)
    /\ UNCHANGED <<flowVars, expired, taskStates, call, tasks, volumes, base, dns>>

\* CreateDomains: one record after the other, then the state is serialised.
CreateDomain ==
    /\ At("launchLoadBalancer", "dns")
    /\ \E d \in Domains \ dns :
         /\ dns' = dns \cup {d}
         /\ Took("launchLoadBalancer", "dns")
    /\ UNCHANGED <<flowVars, expired, taskStates, call, tasks, up, volumes, base>>

DomainsCreated ==
    /\ At("launchLoadBalancer", "dns")
    /\ Domains \subseteq dns
    /\ TookLast("launchLoadBalancer")
    /\ UNCHANGED <<flowVars, expired, taskStates, call, infraVars>>

\* The catalyst process ends by itself (external).
CatalystExits ==
    /\ At("runLoadTest", "poll")
    /\ "catalyst" \in up
    /\ up' = up \ {"catalyst"}
    /\ UNCHANGED <<flowVars, actVars, tasks, volumes, base, dns>>

\* The poll sees TASK_STOPPED and reads the results.  An error is returned without
\* destroying the task.  While the status cannot be read (the task is gone) the loop
\* goes round until the deadline.
PollStopped ==
    /\ At("runLoadTest", "poll")
    /\ "catalyst" \in tasks \ up
    /\ Took("runLoadTest", "destroy")
    /\ UNCHANGED <<flowVars, expired, taskStates, call, infraVars>>

\* task.Destroy: an error is logged.  On Docker the named volume stays.  The Result that is
\* answered is the one catalyst wrote, which may carry an error of its own.
DestroyCatalyst ==
    /\ At("runLoadTest", "destroy")
    /\ \/ /\ tasks' = tasks \ {"catalyst"}
          /\ taskStates' = [taskStates EXCEPT !["runLoadTest"] = @ \ {"catalyst"}]
       \/ UNCHANGED <<tasks, taskStates>>
    /\ \/ TookLast("runLoadTest")
       \/ "runLoadTest" \notin expired /\ Return("runLoadTest", "reported")
    /\ UNCHANGED <<flowVars, expired, call, up, volumes, base, dns>>

-------------------------------------------------------------------------------
(* TeardownProvider *)

Decompress ==
    /\ At("teardown", "decompress")
    /\ IF providerState.fmt = "gzip" THEN Goto("teardown", "restore")
                                     ELSE Return("teardown", "error")
    /\ UNCHANGED <<flowVars, expired, taskStates, call, infraVars>>

\* Mutant: only the droplets of the saved state are deleted.
teardownKnownTasks ==
    /\ At("teardown", "droplets")
    /\ tasks' = tasks \ taskStates["teardown"]
    /\ up' = up \ taskStates["teardown"]
    /\ Took("teardown", "firewall")
    /\ UNCHANGED <<flowVars, expired, taskStates, call, volumes, base, dns>>

\* DigitalOcean: every droplet that carries the tag of this run, known or not.
teardownTasks ==
    /\ At("teardown", "droplets")
    /\ tasks' = {}
    /\ up' = {}
    /\ Took("teardown", "firewall")
    /\ UNCHANGED <<flowVars, expired, taskStates, call, volumes, base, dns>>

teardownFirewall ==
    /\ At("teardown", "firewall")
    /\ base' = base \ {"firewall"}
    /\ Took("teardown", "tag")
    /\ UNCHANGED <<flowVars, expired, taskStates, call, tasks, up, volumes, dns>>

\* teardownTag, and teardownDomains: the restored provider has no root domain
\* (util.RestoreProvider passes none), so no record is deleted.
teardownTag ==
    /\ At("teardown", "tag")
    /\ base' = base \ {"tag"}
    /\ TookLast("teardown")
    /\ UNCHANGED <<flowVars, expired, taskStates, call, tasks, up, volumes, dns>>

\* Docker: the container and then the volume of a task of the saved state; the first
\* error ends the teardown.  A volume may have gone with an error all the same.
TeardownContainer ==
    /\ At("teardown", "containers")
    /\ \E t \in taskStates["teardown"] \cap tasks :
         /\ tasks' = tasks \ {t}
         /\ up' = up \ {t}
         /\ taskStates' = [taskStates EXCEPT !["teardown"] = @ \ {t}]
         /\ \/ volumes' = volumes \ {t} /\ Took("teardown", "containers")
            \/ UNCHANGED volumes /\ Return("teardown", "error")
    /\ UNCHANGED <<flowVars, expired, call, base, dns>>

\* Mutant: the daemon's refusal is only logged.
destroyNetworkLogsError ==
    /\ At("teardown", "containers")
    /\ taskStates["teardown"] = {}
    /\ base' = IF up = {} THEN base \ {"network"} ELSE base
    /\ TookLast("teardown")
    /\ UNCHANGED <<flowVars, expired, taskStates, call, tasks, up, volumes, dns>>

\* destroyNetwork: the daemon refuses while a running container is attached.
destroyNetwork ==
    /\ At("teardown", "containers")
    /\ taskStates["teardown"] = {}
    /\ \/ up = {} /\ base' = base \ {"network"} /\ TookLast("teardown")
       \/ up # {} /\ UNCHANGED base /\ Return("teardown", "error")
    /\ UNCHANGED <<flowVars, expired, taskStates, call, tasks, up, volumes, dns>>

-------------------------------------------------------------------------------
(* Failures *)

\* A call fails without effect, or the deadline of the body's context has passed: the
\* body returns an error.  CreateTask calls fail one by one; a poll has no other call.
ActivityFails(a) ==
    /\ Active(a)
    /\ body[a] # "create"
    /\ body[a] = "poll" => a \in expired
    /\ Return(a, "error")
    /\ UNCHANGED <<flowVars, expired, taskStates, call, infraVars>>

\* StartToClose: the server resolves the future, and the body's context is done.
ActivityTimeout(a) ==
    /\ a \notin expired
    /\ Active(a) \/ fut[a] = "pending"
    /\ expired' = expired \cup {a}
    /\ fut' = [fut EXCEPT ![a] = IF @ = "pending" THEN "timeout" ELSE @]
    /\ UNCHANGED <<flowVars, body, taskStates, call, infraVars>>

\* The worker process dies with every body on it.
WorkerCrash ==
    /\ \E a \in Activities : Active(a)
    /\ body' = [a \in Activities |-> IF Active(a) THEN "dead" ELSE body[a]]
    /\ UNCHANGED <<flowVars, fut, expired, taskStates, call, infraVars>>

Bodies ==
    \/ BuildDockerImage \/ createTag \/ createFirewall \/ initNetwork
    \/ \E a \in Activities : RestoreProvider(a)
    \/ \E t \in Tasks : CreateTaskBegins(t) \/ CreateTaskEnds(t) \/ CreateTaskFails(t)
    \/ CreateChain \/ InitAndStart
    \/ TaskCreated("launchLoadBalancer", "loadbalancer")
    \/ StartTask("launchLoadBalancer", "loadbalancer", "dns")
    \/ CreateDomain \/ DomainsCreated
    \/ TaskCreated("runLoadTest", "catalyst")
    \/ StartTask("runLoadTest", "catalyst", "poll")
    \/ CatalystExits \/ PollStopped \/ DestroyCatalyst
    \/ Decompress \/ teardownTasks \/ teardownFirewall \/ teardownTag
    \/ TeardownContainer \/ destroyNetwork

Failures == WorkerCrash \/ \E a \in Activities : ActivityFails(a) \/ ActivityTimeout(a)

\* The run is over and no body is left on the worker.
Terminated ==
    /\ pc = "closed"
    /\ \A a \in Activities : ~Active(a)
    /\ UNCHANGED vars

Next == Workflow \/ TimerFires \/ Cancel \/ Bodies \/ Failures \/ Terminated

Spec == Init /\ [][Next]_vars

\* The Temporal server schedules workflow tasks, fires timers and enforces deadlines;
\* nothing is assumed of the bodies, the worker, the user or the ten-year timer.
Fairness ==
    /\ WF_vars(Workflow)
    /\ WF_vars(~req.longRunning /\ TimerFires)
    /\ \A a \in Activities : WF_vars(ActivityTimeout(a))

FairSpec == Spec /\ Fairness

-------------------------------------------------------------------------------
(* Properties *)

Steps == {"idle", "run", "network", "tag", "firewall", "restore", "create", "init", "start",
          "dns", "poll", "destroy", "decompress", "droplets", "containers", "done", "dead"}

States == [fmt : {"none", "raw", "gzip"}, tasks : SUBSET Tasks]

\* Every variable keeps its type, whatever step an activity dies at.
TypeOK ==
    /\ req \in Requests
    /\ pc \in {"start", "build", "createProvider", "launchTestnet", "launchLoadBalancer",
               "select", "awaitLoadTest", "teardown", "closed"}
    /\ cancelReq \in BOOLEAN
    /\ result \in {"running", "completed", "failed", "canceled"}
    /\ providerState \in States
    /\ timer \in {"off", "running", "fired"}
    /\ fut \in [Activities -> {"none", "pending", "ok", "reported", "error", "timeout",
                             "canceled"}]
    /\ body \in [Activities -> Steps]
    /\ expired \subseteq Activities
    /\ taskStates \in [Activities -> SUBSET Tasks]
    /\ call \in [Tasks -> {"none", "begun", "ok", "err"}]
    /\ tasks \subseteq Tasks
    /\ up \subseteq Tasks
    /\ volumes \subseteq Tasks
    /\ base \subseteq {"network", "tag", "firewall"}
    /\ dns \subseteq Domains

\* "wait for the loadtest to complete before allowing teardown" (startWorkflow): a load
\* test still running on the worker when the teardown is scheduled was cancelled by the
\* user or has run into its deadline.
LoadTestKeepsItsTestnet ==
    pc \in {"teardown", "closed"} /\ Active("runLoadTest")
        => cancelReq \/ fut["runLoadTest"] = "timeout"

\* The state handed to the teardown knows every task of an activity that answered; only
\* the load test's own task is never recorded in it (its response is not read).
AnsweredTasksAreRecorded ==
    pc \in {"teardown", "closed"}
        => \A t \in tasks : \/ t \in providerState.tasks
                            \/ t = "catalyst"
                            \/ fut[Owner(t)] # "ok"

\* A successful teardown on DigitalOcean leaves no firewall, and no droplet or tag except those
\* created by bodies the workflow had given up on and that were still running: a late
\* CreateDroplet makes the tag again.
DropletsSwept ==
    ~Docker /\ fut["teardown"] = "ok"
        => /\ "firewall" \notin base
           /\ "tag" \in base
                => \E t \in Tasks : call[t] # "none" /\ fut[Owner(t)] \in {"canceled", "timeout"}
           /\ \A t \in tasks : fut[Owner(t)] \in {"canceled", "timeout"}

\* A successful teardown on Docker has removed the network, and no container runs on
\* except for a body the workflow had given up on.
NetworkFreed ==
    Docker /\ fut["teardown"] = "ok"
        => /\ base = {}
           /\ \A t \in up : fut[Owner(t)] \in {"canceled", "timeout"}

\* A run that closes without a teardown body (startWorkflow's providerState is empty, or the
\* teardown were scheduled on a cancelled context) owns no task, volume or record, and leaves
\* a tag, firewall or network behind only if CreateProvider did not answer.
UnprovisionedRunOwnsNothing ==
    pc = "closed" /\ fut["teardown"] \in {"none", "canceled"}
        => /\ tasks = {} /\ volumes = {} /\ dns = {}
           /\ base # {} => fut["createProvider"] # "ok"

\* A run nobody cancelled reports success only when every activity it was asked for has
\* answered: Workflow swallows cancellation errors and no other error of an activity.  It says
\* nothing of what the load test found: an error in its Result is only logged, and the run
\* completes (runLoadTest's selector callbacks).
CompletedMeansDone ==
    result = "completed" /\ ~cancelReq
        => /\ fut["launchTestnet"] = "ok"
           /\ req.loadBalancer => fut["launchLoadBalancer"] = "ok"
           /\ req.loadTest => fut["runLoadTest"] \in Answered

\* The run as RunLifecycle sees it.
Phase ==
    CASE pc = "closed" -> IF fut["teardown"] = "none" THEN "closed" ELSE "released"
      [] pc = "teardown" -> "releasing"
      [] OTHER -> "working"

Held == ({"task"} \X tasks) \cup ({"volume"} \X volumes) \cup ({"base"} \X base)
            \cup ({"record"} \X dns)

Lifecycle == INSTANCE RunLifecycle WITH
                Scratch <- {<<"task", "catalyst">>},
                bounded <- ~req.longRunning,
                phase <- Phase,
                verdict <- result,
                held <- Held

\* The workflow, its activities and their crashes implement RunLifecycle: nothing of a run is
\* destroyed before startWorkflow has returned, but the load test's own task; the result is
\* settled before the teardown and survives it; and a run that is not long-running closes,
\* even if the worker dies under every activity.
ImplementsRunLifecycle == Lifecycle!Spec

\* The part of it that needs no fairness.
ImplementsRunLifecycleSafely == Lifecycle!SafetySpec

\* A cancelled run closes, long-running or not.
CancelledRunCloses == cancelReq ~> pc = "closed"

\* "testnet is in long-running mode - will run until workflow is cancelled"
\* (waitForTestnetCompletion), of a run in which nothing went wrong.
LongRunningUntilCancelled ==
    /\ req.longRunning
    /\ timer = "running"
    /\ pc \in {"teardown", "closed"}
    /\ \A a \in Activities \ {"teardown"} : fut[a] \in {"none", "ok"}
    => cancelReq

\* README: "TeardownProvider - Cleans up all provisioned resources", of the DNS records
\* of a load balancer that was launched without an error.
TeardownDeletesRecords ==
    fut["teardown"] = "ok" /\ fut["launchLoadBalancer"] = "ok" => dns = {}

\* The same of the containers LaunchTestnet had created and recorded when it failed.
TeardownDeletesContainers ==
    fut["teardown"] = "ok" /\ fut["launchTestnet"] = "error"
        => taskStates["launchTestnet"] \cap tasks = {}
===============================================================================
