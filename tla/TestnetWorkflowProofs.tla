------------------------- MODULE TestnetWorkflowProofs -------------------------
(***************************************************************************)
(* TestnetWorkflow's safety invariants hold for every set of nodes, of     *)
(* records and of requests.  IInv is the inductive invariant: it ties the  *)
(* place the workflow is blocked at to the futures it has seen resolved    *)
(* (FlowInv), a resolved future to the fate of its body (FutureInv), the   *)
(* task states a body holds to the CreateTask calls it made (RecordInv)    *)
(* and the infrastructure to who can still change it (InfraInv).  From the *)
(* same invariant a run implements the safety part of RunLifecycle.        *)
(***************************************************************************)
EXTENDS TestnetWorkflow, TLAPS

GivenUp(a) == fut[a] \in {"canceled", "timeout"}

FutureInv ==
    \A a \in Activities :
        /\ fut[a] = "none" => body[a] = "idle"
        /\ fut[a] \in {"ok", "reported", "error"} => body[a] = "done"
        /\ fut[a] = "canceled" => cancelReq /\ a # "teardown"
        /\ fut[a] = "pending" /\ a # "teardown"
             => /\ ~cancelReq
                /\ pc = a \/ (a = "runLoadTest" /\ pc \in {"select", "awaitLoadTest"})

FlowInv ==
    /\ fut["build"] # "none" => Validate(req)
    /\ fut["createProvider"] # "none" => fut["build"] = "ok"
    /\ fut["launchTestnet"] # "none" => fut["createProvider"] = "ok"
    /\ fut["launchLoadBalancer"] # "none" => fut["launchTestnet"] = "ok" /\ ~Docker
    /\ fut["runLoadTest"] # "none" => /\ fut["launchTestnet"] = "ok"
                                      /\ req.loadTest
    /\ fut["teardown"] # "none" => /\ pc \in {"teardown", "closed"}
                                   /\ fut["launchTestnet"] \notin {"none", "pending"}
    /\ pc = "start" => fut["build"] = "none"
    /\ pc = "build" => fut["build"] # "none" /\ fut["createProvider"] = "none"
    /\ pc = "createProvider" => fut["createProvider"] # "none" /\ fut["launchTestnet"] = "none"
    /\ pc = "launchTestnet" => /\ fut["launchTestnet"] # "none"
                               /\ fut["launchLoadBalancer"] = "none"
                               /\ fut["runLoadTest"] = "none"
    /\ pc = "launchLoadBalancer" => /\ fut["launchLoadBalancer"] # "none"
                                    /\ fut["runLoadTest"] = "none"
    /\ pc \in {"select", "awaitLoadTest"} => /\ fut["launchTestnet"] = "ok"
                                             /\ req.loadBalancer => fut["launchLoadBalancer"] = "ok"
                                             /\ req.loadTest => fut["runLoadTest"] # "none"
    /\ pc \in {"launchLoadBalancer", "select", "awaitLoadTest"} => providerState.fmt # "none"
    /\ pc = "teardown" => fut["teardown"] # "none"
    /\ pc = "closed" /\ fut["teardown"] = "none" => /\ fut["launchTestnet"] = "none"
                                                    /\ fut["createProvider"] # "ok"
    /\ result = "completed" /\ ~cancelReq => pc \in {"teardown", "closed"}

RecordInv ==
    /\ \A t \in Tasks : call[t] # "none" => body[Owner(t)] \notin {"idle", "restore"}
    /\ \A t \in Tasks \ {"catalyst"} :
         call[t] = "ok" \/ (call[t] = "begun" /\ ~Docker) => t \in taskStates[Owner(t)]
    /\ body["launchTestnet"] = "init" => \A n \in Nodes : call[n] = "ok"
    /\ fut["launchTestnet"] = "ok" => Nodes \subseteq taskStates["launchTestnet"]
    /\ body["launchLoadBalancer"] \in {"start", "dns"} => call["loadbalancer"] = "ok"
    /\ fut["launchLoadBalancer"] = "ok" => "loadbalancer" \in taskStates["launchLoadBalancer"]
    /\ body["launchLoadBalancer"] \in {"create", "start", "dns"}
         \/ fut["launchLoadBalancer"] = "ok"
         => Nodes \subseteq taskStates["launchLoadBalancer"]
    /\ fut["launchTestnet"] = "ok"
         => pc = "launchTestnet" \/ Nodes \subseteq providerState.tasks
    /\ fut["launchLoadBalancer"] = "ok"
         => pc = "launchLoadBalancer" \/ "loadbalancer" \in providerState.tasks

InfraInv ==
    /\ fut["launchTestnet"] = "none" => tasks = {} /\ volumes = {} /\ dns = {}
    /\ IF Docker THEN base \subseteq {"network"} ELSE base \subseteq {"tag", "firewall"}
    /\ body["createProvider"] = "network" => Docker
    /\ body["createProvider"] \in {"tag", "firewall"} => ~Docker
    /\ body["teardown"] \in {"droplets", "firewall", "tag"} => ~Docker
    /\ body["teardown"] = "containers" => Docker
    /\ body["teardown"] = "tag" => "firewall" \notin base
    /\ body["teardown"] \in {"firewall", "tag"} => \A t \in tasks : GivenUp(Owner(t))

\* The three invariants that need no more than the facts above about each state.
Promises == /\ CompletedMeansDone /\ DropletsSwept /\ NetworkFreed

IInv == TypeOK /\ FutureInv /\ FlowInv /\ RecordInv /\ InfraInv /\ Promises

-------------------------------------------------------------------------------
USE NodesAssumption, RequestsAssumption
USE DEF Answered, Activities, Tasks, Owner, Docker, Active, Ended, At, GivenUp, NoState, States,
        Steps, flowVars, actVars, infraVars
USE DEF IInv, TypeOK, FutureInv, FlowInv, RecordInv, InfraInv, Promises,
        CompletedMeansDone, DropletsSwept, NetworkFreed

\* The first state satisfies the invariant.
LEMMA InitInv == Init => IInv
<1> SUFFICES ASSUME Init PROVE IInv
    OBVIOUS
<1>1. TypeOK
    BY DEF Init
<1>2. FutureInv /\ FlowInv
    BY DEF Init
<1>3. RecordInv
    BY DEF Init
<1>4. InfraInv /\ Promises
    BY DEF Init
<1> QED
    BY <1>1, <1>2, <1>3, <1>4

\* A step of the workflow function preserves the invariant.
LEMMA WorkflowStep ==
    ASSUME IInv, Workflow
    PROVE  IInv'
<1>1. CASE StartRun
    BY <1>1 DEF StartRun, ExecuteActivity, Entry, Validate
<1>2. CASE GetBuild
    BY <1>2 DEF GetBuild, ExecuteActivity, Entry
<1>3. CASE GetProvider
    BY <1>3 DEF GetProvider, ExecuteActivity, Entry, ReturnFromStartWorkflow
<1>4. CASE GetTestnet
    BY <1>4 DEF GetTestnet, ExecuteActivity, Entry, ReturnFromStartWorkflow, EnterSelect, Validate
<1>5. CASE GetLoadBalancer
    BY <1>5 DEF GetLoadBalancer, ExecuteActivity, Entry, ReturnFromStartWorkflow, EnterSelect
<1>6. CASE Select
    BY <1>6 DEF Select, ExecuteActivity, Entry, ReturnFromStartWorkflow
<1>7. CASE GetLoadTest
    BY <1>7 DEF GetLoadTest, ExecuteActivity, Entry, ReturnFromStartWorkflow
<1>8. CASE GetTeardown
    BY <1>8 DEF GetTeardown, actVars
<1> QED
    BY <1>1, <1>2, <1>3, <1>4, <1>5, <1>6, <1>7, <1>8 DEF Workflow

\* A step of an activity body preserves the invariant, abandoned by the workflow or not.
LEMMA BodyStep ==
    ASSUME IInv, Bodies
    PROVE  IInv'
<1>1. CASE BuildDockerImage
    BY <1>1 DEF BuildDockerImage, TookLast, Return
<1>2. CASE createTag
    BY <1>2 DEF createTag, Took, Goto, Return
<1>3. CASE createFirewall
    BY <1>3 DEF createFirewall, TookLast, Return
<1>4. CASE initNetwork
    BY <1>4 DEF initNetwork, TookLast, Return
<1>5. ASSUME NEW a \in Activities, RestoreProvider(a) PROVE IInv'
    BY <1>5 DEF RestoreProvider, Goto
<1>6. ASSUME NEW t \in Tasks, CreateTaskBegins(t) PROVE IInv'
    BY <1>6 DEF CreateTaskBegins
<1>7. ASSUME NEW t \in Tasks, CreateTaskEnds(t) PROVE IInv'
    BY <1>7 DEF CreateTaskEnds
<1>8. ASSUME NEW t \in Tasks, CreateTaskFails(t) PROVE IInv'
    BY <1>8 DEF CreateTaskFails
<1>9. CASE CreateChain
    BY <1>9 DEF CreateChain, Goto, Return
<1>10. CASE InitAndStart
    BY <1>10 DEF InitAndStart, Return
<1>11. CASE TaskCreated("launchLoadBalancer", "loadbalancer")
    BY <1>11 DEF TaskCreated, Goto, Return
<1>12. CASE StartTask("launchLoadBalancer", "loadbalancer", "dns")
    BY <1>12 DEF StartTask, Took, Goto, Return
<1>13. CASE CreateDomain
    BY <1>13 DEF CreateDomain, Took, Goto, Return
<1>14. CASE DomainsCreated
    BY <1>14 DEF DomainsCreated, TookLast, Return
<1>15. CASE TaskCreated("runLoadTest", "catalyst")
    BY <1>15 DEF TaskCreated, Goto, Return
<1>16. CASE StartTask("runLoadTest", "catalyst", "poll")
    BY <1>16 DEF StartTask, Took, Goto, Return
<1>17. CASE CatalystExits
    BY <1>17 DEF CatalystExits
<1>18. CASE PollStopped
    BY <1>18 DEF PollStopped, Took, Goto, Return
<1>19. CASE DestroyCatalyst
    BY <1>19 DEF DestroyCatalyst, TookLast, Return
<1>20. CASE Decompress
    BY <1>20 DEF Decompress, Goto, Return
<1>21. CASE teardownTasks
    BY <1>21 DEF teardownTasks, Took, Goto, Return
<1>22. CASE teardownFirewall
    BY <1>22 DEF teardownFirewall, Took, Goto, Return
<1>23. CASE teardownTag
    BY <1>23 DEF teardownTag, TookLast, Return
<1>24. CASE TeardownContainer
    BY <1>24 DEF TeardownContainer, Took, Goto, Return
<1>25. CASE destroyNetwork
    BY <1>25 DEF destroyNetwork, TookLast, Return
<1> HIDE DEF IInv
<1> QED
    BY <1>1, <1>2, <1>3, <1>4, <1>5, <1>6, <1>7, <1>8, <1>9, <1>10, <1>11,
       <1>12, <1>13, <1>14, <1>15, <1>16, <1>17, <1>18, <1>19, <1>20, <1>21, <1>22, <1>23,
       <1>24, <1>25 DEF Bodies

\* A crash, an error or a deadline preserves the invariant.
LEMMA FailureStep ==
    ASSUME IInv, Failures
    PROVE  IInv'
<1>1. CASE WorkerCrash
    BY <1>1 DEF WorkerCrash
<1>2. ASSUME NEW a \in Activities, ActivityFails(a) PROVE IInv'
    BY <1>2 DEF ActivityFails, Return
<1>3. ASSUME NEW a \in Activities, ActivityTimeout(a) PROVE IInv'
    BY <1>3 DEF ActivityTimeout
<1> HIDE DEF IInv
<1> QED
    BY <1>1, <1>2, <1>3 DEF Failures

\* Every step preserves the invariant.
LEMMA NextInv ==
    ASSUME IInv, [Next]_vars
    PROVE  IInv'
<1>1. CASE TimerFires
    BY <1>1 DEF TimerFires
<1>2. CASE Cancel
    BY <1>2 DEF Cancel
<1>3. CASE Terminated \/ UNCHANGED vars
    BY <1>3 DEF Terminated, vars
<1> QED
    BY <1>1, <1>2, <1>3, WorkflowStep, BodyStep, FailureStep DEF Next

\* IInv holds in every reachable state.
LEMMA Invariance == Spec => []IInv
<1> HIDE DEF IInv
<1>1. Init => IInv
    BY InitInv
<1>2. IInv /\ [Next]_vars => IInv'
    BY NextInv
<1> QED
    BY <1>1, <1>2, PTL DEF Spec

-------------------------------------------------------------------------------
\* Type correctness, for every set of nodes, records and requests.
THEOREM TypeCorrect == Spec => []TypeOK
<1>1. IInv => TypeOK
    OBVIOUS
<1> HIDE DEF IInv, TypeOK
<1> QED
    BY <1>1, Invariance, PTL

\* startWorkflow tears the testnet down under a running load test only when the user
\* cancelled or the load test ran into its deadline.
THEOREM LoadTestKept == Spec => []LoadTestKeepsItsTestnet
<1>1. IInv => LoadTestKeepsItsTestnet
    BY DEF LoadTestKeepsItsTestnet
<1> HIDE DEF IInv, LoadTestKeepsItsTestnet
<1> QED
    BY <1>1, Invariance, PTL

\* The provider state startWorkflow hands to teardownProvider knows every task of an
\* activity that answered, except the load test's own.
THEOREM AnsweredRecorded == Spec => []AnsweredTasksAreRecorded
<1>1. IInv => AnsweredTasksAreRecorded
    BY DEF AnsweredTasksAreRecorded
<1> HIDE DEF IInv, AnsweredTasksAreRecorded
<1> QED
    BY <1>1, Invariance, PTL

\* A successful DigitalOcean Teardown leaves only droplets of abandoned activities.
THEOREM Swept == Spec => []DropletsSwept
<1>1. IInv => DropletsSwept
    OBVIOUS
<1> HIDE DEF IInv, DropletsSwept
<1> QED
    BY <1>1, Invariance, PTL

\* A successful Docker Teardown removes the network and leaves running only containers of
\* abandoned activities.
THEOREM NetworkRemoved == Spec => []NetworkFreed
<1>1. IInv => NetworkFreed
    OBVIOUS
<1> HIDE DEF IInv, NetworkFreed
<1> QED
    BY <1>1, Invariance, PTL

\* A run that startWorkflow closes without a teardown owns no task, volume or record.
THEOREM Unprovisioned == Spec => []UnprovisionedRunOwnsNothing
<1>1. IInv => UnprovisionedRunOwnsNothing
    BY DEF UnprovisionedRunOwnsNothing
<1> HIDE DEF IInv, UnprovisionedRunOwnsNothing
<1> QED
    BY <1>1, Invariance, PTL

\* An uncancelled run that Workflow reports as successful did everything asked for.
THEOREM Completed == Spec => []CompletedMeansDone
<1>1. IInv => CompletedMeansDone
    OBVIOUS
<1> HIDE DEF IInv, CompletedMeansDone
<1> QED
    BY <1>1, Invariance, PTL

-------------------------------------------------------------------------------
(***************************************************************************)
(* A run implements the safety part of RunLifecycle.  Each of its steps is *)
(* one of five kinds: it creates things, it releases things after the work *)
(* has ended, it destroys the load test's own task, it ends the work, or   *)
(* it ends the release.  IInv says why nothing is released early: a        *)
(* teardown body exists only once startWorkflow has returned.              *)
(***************************************************************************)

HIDE DEF Answered, Activities, Tasks, Owner, Docker, Active, Ended, At, GivenUp, NoState, States, Steps,
        flowVars, actVars, infraVars

HIDE DEF IInv, TypeOK, FutureInv, FlowInv, RecordInv, InfraInv, Promises,
        CompletedMeansDone, DropletsSwept, NetworkFreed

\* The deferred teardown was scheduled.
TeardownScheduled == fut["teardown"] # "none"

\* What the proof needs of IInv.
LifecycleInv ==
    /\ body["teardown"] # "idle" => TeardownScheduled
    /\ TeardownScheduled => pc \in {"teardown", "closed"}
    /\ fut \in [Activities -> {"none", "pending", "ok", "reported", "error", "timeout", "canceled"}]
    /\ body \in [Activities -> Steps]
    /\ pc = "teardown" => TeardownScheduled
    /\ pc \notin {"teardown", "closed"} => ~TeardownScheduled

\* IInv implies it.
LEMMA LifecycleFacts == IInv => LifecycleInv
    BY DEF LifecycleInv, TeardownScheduled, IInv, TypeOK, FutureInv, FlowInv, Activities

\* A step that only creates things, and does not change the phase, is Acquire.
LEMMA AcquireStep ==
    ASSUME tasks \subseteq tasks', volumes \subseteq volumes', base \subseteq base',
           dns \subseteq dns', req' = req, result' = result, Phase' = Phase
    PROVE  Lifecycle!Next
<1>1. Held \subseteq Held'
    BY DEF Held
<1> QED
    BY <1>1 DEF Lifecycle!Next, Lifecycle!Acquire

\* A step that only destroys things once the work has ended is Release.
LEMMA ReleaseStep ==
    ASSUME tasks' \subseteq tasks, volumes' \subseteq volumes, base' \subseteq base,
           dns' \subseteq dns, req' = req, result' = result, Phase' = Phase,
           Phase \in {"releasing", "released"}
    PROVE  Lifecycle!Next
<1>1. Held' \subseteq Held
    BY DEF Held
<1> QED
    BY <1>1 DEF Lifecycle!Next, Lifecycle!Release

\* Destroying the load test's own task is ReturnScratch.
LEMMA ScratchStep ==
    ASSUME tasks' \subseteq tasks, tasks \ tasks' \subseteq {"catalyst"}, volumes' = volumes,
           base' = base, dns' = dns, req' = req, result' = result, Phase' = Phase
    PROVE  Lifecycle!Next
<1>1. Held' \subseteq Held
    BY DEF Held
<1>2. Held \ Held' \subseteq {<<"task", "catalyst">>}
    BY DEF Held
<1> QED
    BY <1>1, <1>2 DEF Lifecycle!Next, Lifecycle!ReturnScratch

\* A step of a body leaves the phase as it is.
LEMMA SamePhase ==
    ASSUME pc' = pc, (fut'["teardown"] = "none") <=> (fut["teardown"] = "none")
    PROVE  Phase' = Phase
    BY DEF Phase

\* The step of startWorkflow that returns ends the work.
LEMMA FinishStep ==
    ASSUME pc \notin {"teardown", "closed"}, ~TeardownScheduled,
           \/ pc' = "teardown"
           \/ pc' = "closed" /\ fut' = fut,
           result' \in {"completed", "failed", "canceled"}, req' = req, UNCHANGED infraVars
    PROVE  Lifecycle!Next
<1>1. Phase = "working" /\ Phase' \in {"releasing", "closed"}
    BY DEF Phase, TeardownScheduled
<1>2. Held' = Held
    BY DEF Held, infraVars
<1> QED
    BY <1>1, <1>2 DEF Lifecycle!Next, Lifecycle!Finish

-------------------------------------------------------------------------------
\* A step of the workflow function goes on working, ends the work or ends the release.
LEMMA WorkflowRefines ==
    ASSUME LifecycleInv, Workflow
    PROVE  Lifecycle!Next
<1> USE DEF LifecycleInv, TeardownScheduled
<1> DEFINE Working == pc \notin {"teardown", "closed"} /\ pc' \notin {"teardown", "closed"}
<1>0. ASSUME Working, req' = req, result' = result, UNCHANGED infraVars
      PROVE  Lifecycle!Next
    BY <1>0, AcquireStep DEF Phase, infraVars
<1> HIDE DEF LifecycleInv
<1>1. CASE StartRun
    BY <1>1, <1>0, FinishStep DEF StartRun, LifecycleInv
<1>2. CASE GetBuild
    BY <1>2, <1>0, FinishStep DEF GetBuild, LifecycleInv
<1>3. CASE GetProvider
    BY <1>3, <1>0, FinishStep DEF GetProvider, ReturnFromStartWorkflow, LifecycleInv
<1>4. CASE GetTestnet
    BY <1>4, <1>0, FinishStep DEF GetTestnet, ReturnFromStartWorkflow, EnterSelect, LifecycleInv
<1>5. CASE GetLoadBalancer
    BY <1>5, <1>0, FinishStep DEF GetLoadBalancer, ReturnFromStartWorkflow, EnterSelect, LifecycleInv
<1>6. CASE Select
    BY <1>6, <1>0, FinishStep DEF Select, ReturnFromStartWorkflow, LifecycleInv
<1>7. CASE GetLoadTest
    BY <1>7, <1>0, FinishStep DEF GetLoadTest, ReturnFromStartWorkflow, LifecycleInv
<1>8. CASE GetTeardown
  <2>1. Phase = "releasing" /\ Phase' = "released"
    BY <1>8 DEF GetTeardown, Phase, LifecycleInv, actVars
  <2>2. Held' = Held /\ req' = req /\ result' = result
    BY <1>8 DEF GetTeardown, Held, infraVars
  <2> QED
    BY <2>1, <2>2 DEF Lifecycle!Next, Lifecycle!Close
<1> QED
    BY <1>1, <1>2, <1>3, <1>4, <1>5, <1>6, <1>7, <1>8 DEF Workflow

\* A body creates things, whenever it does; only a teardown body and DestroyCatalyst destroy.
LEMMA BodyRefines ==
    ASSUME LifecycleInv, Bodies
    PROVE  Lifecycle!Next
<1> USE DEF Activities, Tasks
<1>0. /\ pc' = pc /\ req' = req /\ result' = result
      /\ (fut'["teardown"] = "none") <=> (fut["teardown"] = "none")
    BY DEF Bodies, flowVars, actVars, LifecycleInv, BuildDockerImage, createTag, createFirewall,
        initNetwork, RestoreProvider, CreateTaskBegins, CreateTaskEnds, CreateTaskFails,
        CreateChain, InitAndStart, TaskCreated, StartTask, CreateDomain, DomainsCreated,
        CatalystExits, PollStopped, DestroyCatalyst, Decompress, teardownTasks,
        teardownFirewall, teardownTag, TeardownContainer, destroyNetwork,
        Took, TookLast, Goto, Return
<1>1. Phase' = Phase
    BY <1>0, SamePhase
<1>2. CASE DestroyCatalyst
    BY <1>0, <1>1, <1>2, ScratchStep DEF DestroyCatalyst
<1>3. CASE teardownTasks \/ teardownFirewall \/ teardownTag \/ TeardownContainer \/ destroyNetwork
  <2>1. body["teardown"] # "idle"
    BY <1>3 DEF teardownTasks, teardownFirewall, teardownTag, TeardownContainer, destroyNetwork, At
  <2>2. Phase \in {"releasing", "released"}
    BY <2>1 DEF LifecycleInv, TeardownScheduled, Phase
  <2>3. /\ tasks' \subseteq tasks /\ volumes' \subseteq volumes
        /\ base' \subseteq base /\ dns' \subseteq dns
    BY <1>3 DEF teardownTasks, teardownFirewall, teardownTag, TeardownContainer, destroyNetwork
  <2> QED
    BY <1>0, <1>1, <2>2, <2>3, ReleaseStep
<1>4. CASE ~(DestroyCatalyst \/ teardownTasks \/ teardownFirewall \/ teardownTag
             \/ TeardownContainer \/ destroyNetwork)
  <2>1. /\ tasks \subseteq tasks' /\ volumes \subseteq volumes'
        /\ base \subseteq base' /\ dns \subseteq dns'
    BY <1>4 DEF Bodies, infraVars, BuildDockerImage, createTag, createFirewall,
        initNetwork, RestoreProvider, CreateTaskBegins, CreateTaskEnds, CreateTaskFails,
        CreateChain, InitAndStart, TaskCreated, StartTask, CreateDomain, DomainsCreated,
        CatalystExits, PollStopped, Decompress
  <2> QED
    BY <1>0, <1>1, <2>1, AcquireStep
<1> QED
    BY <1>2, <1>3, <1>4

\* Every step of a run is a step of RunLifecycle.
LEMMA NextRefines ==
    ASSUME LifecycleInv, [Next]_vars
    PROVE  [Lifecycle!Next]_(Lifecycle!vars)
<1>1. CASE Workflow
    BY <1>1, WorkflowRefines
<1>2. CASE Bodies
    BY <1>2, BodyRefines
<1>3. CASE Cancel \/ Failures \/ TimerFires
  <2>1. /\ pc' = pc /\ req' = req /\ result' = result
        /\ (fut'["teardown"] = "none") <=> (fut["teardown"] = "none")
    BY <1>3 DEF Cancel, Failures, TimerFires, WorkerCrash, ActivityFails, ActivityTimeout, Return,
        flowVars, actVars, Activities, LifecycleInv
  <2>2. UNCHANGED infraVars
    BY <1>3 DEF Cancel, Failures, TimerFires, WorkerCrash, ActivityFails, ActivityTimeout
  <2> QED
    BY <2>1, <2>2, SamePhase, AcquireStep DEF infraVars
<1>4. CASE Terminated \/ UNCHANGED vars
  <2>1. UNCHANGED <<pc, req, result, fut, tasks, volumes, base, dns>>
    BY <1>4 DEF Terminated, vars, flowVars, actVars, infraVars
  <2>2. Phase' = Phase /\ Held' = Held
    BY <2>1 DEF Phase, Held
  <2> QED
    BY <2>1, <2>2 DEF Lifecycle!vars
<1> QED
    BY <1>1, <1>2, <1>3, <1>4 DEF Next

\* The workflow, its activities and their crashes implement the safety part of RunLifecycle.
THEOREM LifecycleImplemented == Spec => ImplementsRunLifecycleSafely
<1>1. Init => Lifecycle!Init
  <2> SUFFICES ASSUME Init PROVE Lifecycle!Init
    OBVIOUS
  <2>1. Phase = "working" /\ Held = {} /\ result = "running"
    BY DEF Init, Phase, Held
  <2>2. (~req.longRunning) \in BOOLEAN
    OBVIOUS
  <2> QED
    BY <2>1, <2>2 DEF Lifecycle!Init
<1>2. LifecycleInv /\ [Next]_vars => [Lifecycle!Next]_(Lifecycle!vars)
    BY NextRefines
<1>3. IInv => LifecycleInv
    BY LifecycleFacts
<1> HIDE DEF IInv
<1> QED
    BY <1>1, <1>2, <1>3, Invariance, PTL DEF Spec, ImplementsRunLifecycleSafely, Lifecycle!SafetySpec
===============================================================================
