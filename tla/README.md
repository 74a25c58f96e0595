# Ironbird: a TLA+ model of the testnet orchestrator

Ironbird launches short-lived Cosmos testnets on Docker or DigitalOcean, load-tests them
and tears them down. This directory holds the TLA+ modules that model it, the TLC
configurations that check them on small instances, and TLAPS proofs of their main
invariants. `PROJECT.json` maps every definition to the lines it models and lists the
runs, the mutants, the findings, the hazards and the theorems.

## 1. Inventory

| Component | State it keeps | Operations | Hard part |
|---|---|---|---|
| Testnet workflow (`workflows/testnet`) | provider and chain state (bytes), activity futures, a timer, the cancellation of its context | build, create provider, launch, load balancer, load test, select, deferred teardown | cancellation at any point; a teardown from stale state; abandoned activity bodies |
| Activities (`activities/*`) | a provider object restored from bytes, thrown away at the end | CreateProvider, LaunchTestnet, LaunchLoadBalancer, RunLoadTest, TeardownProvider, BuildDockerImage | one attempt, no heartbeat; partial failure; the response is lost with an error |
| Docker provider (`petri/core/provider/docker`) | network id, allocator, task states | CreateTask (volume, address, container), Teardown, Serialize/Restore | concurrent CreateTask; reserved ports released before use; order of the teardown |
| DigitalOcean provider (`petri/core/provider/digitalocean`) | tag, firewall, domain records, task states | the same with droplets; teardown by tag | long waits between the droplet and a usable task; the tag outlives what is recorded |
| Chain and nodes (`petri/cosmos`) | validators, nodes, wallets | CreateChain, Init, WaitForStartup, Serialize/Restore | groups of goroutines and barriers; genesis arithmetic |
| Workflow service (`server/services/workflow`) | none of its own | create, list, get, cancel, templates, reports | two sources of truth: Temporal and SQLite |
| Database (`server/db`) | tables `workflows`, `workflow_templates` | insert, update of single columns, ordered listing | no transaction spans two calls |
| gRPC server (`server/grpc_server.go`) | a ticker and its stop channel | runs the status updater every 10 s | works through a snapshot; a fixed listing limit |
| Cleanup job (`cmd/cleanup`) | the prefixes to skip | list, list again, delete droplets, delete firewalls | no lock; paged listings of an account that changes |
| Worker (`cmd/worker`) | none | registers workflow and activities | may die under any activity |
| Local report runner (`cmd/local-report-runner`) | samples, intervals, a report | runs a scenario with the activities' code, samples metrics, renders | a main goroutine that waits on three others; deferred calls on every way out |
| Frontend, scripts, configuration | none that matters here | rendering, parsing | - |

How they interact. The server starts a workflow through Temporal and then inserts a row.
The workflow schedules activities on a worker and passes the provider's state from one to
the next as bytes. Activities talk to Docker or DigitalOcean and report the nodes they
launched to the server (`UpdateWorkflowData`). The server's updater polls Temporal and
copies statuses into the table. The cleanup job knows none of them: it sees the names, tags
and ages of an account's droplets and firewalls.

What makes each correct:

- workflow: it closes; it reports success only when every activity it was asked for has
  answered; the teardown starts under nothing that is still wanted; after a successful
  teardown nothing is left that the workflow could have known of;
- service: a row never says a run is over when it is not, an acknowledged report stays
  (but for the EVM endpoints, which the service does not store), statuses converge;
- cleanup: it spares the runs it must spare and collects what runs leave behind;
- Docker provider: concurrent calls get distinct addresses, the recorded status is the
  container's, a teardown leaves nothing of what is recorded, helper containers are gone or
  about to be removed by the daemon;
- DigitalOcean task: what it starts and stops is its own container, it forgets a droplet only
  when the droplet is gone, no wait or clean-up keeps a caller for ever;
- chain: nodes start only with the whole genesis and the final configuration, wallets belong
  to the validators at their index, the supply is what the accounts hold;
- requests: a template runs what was written, after any edits; a clone is the run it was
  cloned from but for some genesis values, and clones of clones come to rest;
- report runner: it waits for ever only where the chain or a command may, otherwise the report
  is written, and says of the load window what was measured; the teardown is asked for
  everything the activities handed back.

## 2. The modules

### TestnetWorkflow

One run: the workflow function, the six activity bodies and the infrastructure.

- `pc` is the future the workflow function is blocked on; `fut` what it sees of each
  activity; `body` the step the activity body is at on the worker. The two are separate
  because the code runs activities with `MaximumAttempts: 1`, without heartbeats and without
  `WaitForCancellation`: a cancelled or timed-out activity is over for the workflow
  (`fut`) while its body still creates resources.
- `providerState` is what `startWorkflow` would hand to the teardown: its encoding
  (compressed, raw, none) and the tasks it knows. It advances only when an activity answers.
- `taskStates` is the `TaskStates` map of the provider object each body has restored.
- `call` splits every `CreateTask` call into its two effects (volume and container, or
  droplet and container), because a failure between them is what the teardown has to face.
- `tasks`, `up`, `volumes`, `base`, `dns` are the infrastructure. An external call may fail,
  and may have taken effect when it fails (`Took`, `TookLast`). On DigitalOcean every
  `CreateDroplet` creates the provider's tag again when a teardown has deleted it.
- A load test's answer is "ok" or, with an error in its Result, "reported"; the selector's
  callbacks only log that error (`Answered`).
- `Cancel`, `ActivityTimeout`, `ActivityFails` and `WorkerCrash` may happen at any point.
- `GetTestnet` and `GetLoadBalancer` are the returns of `launchTestnet` and
  `launchLoadBalancer`, `EnterSelect` stands for `runLoadTest` and
  `waitForTestnetCompletion`, `ReturnFromStartWorkflow` for any return of `startWorkflow`
  with its deferred teardown and `Workflow`'s treatment of the error.
- `InitAndStart` is `chain.Init`, `WaitForStartup` and the serialisation in one step: on an
  error any of the nodes may have been started. Its phases are the module Chain.

Abstracted: the contents of images; genesis and configuration (Chain); the rules of
`Validate` other than that a Docker run has no load balancer (WorkflowRequests); log output.
The stop condition of the load test is never set by the worker: it is in ReportRunner.

### RunLifecycle

What a run promises about the infrastructure it holds, without saying how: what is held
only grows while the run works (the load test's own task excepted), the verdict is settled
when the work ends and survives the release, nothing is released before that, a release that
begins ends and a bounded run closes. `TestnetWorkflow` instantiates it with the mapping
`Phase` (from `pc`) and `Held` (from the infrastructure); `ImplementsRunLifecycle` is the
refinement with its liveness, `ImplementsRunLifecycleSafely` without.

### WorkflowService

The service, its table and the updater, for any number of runs.

- `temporal` is the truth about each run; `created`, `status`, `data`, `template` are the
  columns of its row (`created = 0`: no row). Columns are separate variables because
  `db.UpdateWorkflow` writes only the columns it is given.
- `handler` is the step of the handler that created the run. `ExecuteWorkflow` (start the
  run) and `InsertRow` are two steps, as they are two calls; so is the update
  `ExecuteWorkflowTemplate` makes afterwards.
- `report` is the fate of each report of an activity: `UpdateWorkflowData` stores it, or
  fails (no row yet, or an error), which the activity only logs. What is stored went through
  `convertProtoNodes`, which copies the Cosmos endpoints of a node and drops the EVM ones
  that the activities of an EVM chain send (`Sent`, `EvmReports`).
- `snapshot` and `described` are the updater: the rows it has listed and not yet handled,
  and the row it is about to write with the status Temporal gave it.
- `ServerCrash` ends handlers and the tick, at any point.

Read-only handlers are not actions. `CancelWorkflow` changes no row (it is `Cancel` of
TestnetWorkflow). `RunLoadTest` of the service returns without doing anything, although
`server/README.md:91` says it "Initiates a load test on an existing testnet environment."

### Cleanup

The nightly job against an account that changes under it.

- `droplets` and `firewalls` are sequences, because listings are paged by number.
- `pc`, `page`, `listed`, `skipped`, `todo` are the job's locals; every page read and every
  deletion is a step.
- `status` follows each run far enough to know whether it is live.
- `Leak` is a run that closes and leaves things: by TestnetWorkflow's `DropletsSwept`
  droplets of abandoned bodies; by a failed teardown, anything.
- `atStart` is a history variable: the droplets, and the tagged ones, when the job began.

### DockerProvider

One provider object, its tasks and the daemon.

- `obj`, `recorded`, `alloc`, `saved`, `tear` are the object: its task states, the addresses
  its allocator has given out, the last serialised state and the progress of `Teardown`.
- `op` is the call in progress on each task and its step; calls on different tasks interleave
  at every call of the daemon. `status` is the `Status` of the task's state.
- `net`, `conts`, `vols`, `addr`, `bind` are the daemon's; `left` the helper containers for the
  files of a volume that a call has left (created, running, or exited), `exec` and `execAddr`
  the temporary container of `runCommandWhileStopped`.
- A call that waited for its helper knows that the helper is not running any more; its removal
  (`AutoRemove`) comes when the daemon gets to it, and until then the volume is in use.
- A task from `DeserializeTask` has its own copy of the state; `status` is the one in the task's
  handle, which `SerializeTask` saves.
- Every daemon call may fail, a `ContainerCreate` also after it took effect, the context may end at any point, a container may exit by
  itself, and the object may be lost and restored from `saved` (`RestoreProvider`, with
  the checks of `ensureTask`).
- `mishap` and `refused` are history variables: the tasks the properties have to except.

### DigitalOceanTask

One task on its droplet. `op` and `step` are the call in progress; `cont` the three
containers the daemon may have (the task's own, an executor, an executor left behind).
`ContainerList` with `Limit: 1` returns the newest in whatever state, which is what makes the
executors dangerous. Each call of the API, Tailscale or the daemon may fail, with or without
its effect; waits time out. The output of a command (`stdcopy.StdCopy`) and a file over sftp are
transferred without a deadline (`Transfers`).

### Chain

`CreateChain`, `Init`, `WaitForStartup`, `Serialize` and `RestoreChain`. `pc` is the main
goroutine's phase, `g` each node's goroutine within a phase: `errgroup.Wait` waits for all of
them, also after an error. The files of the nodes (`keys`, `gentxs`, `genesis`, `toml`) are
what the phases exchange. The custom consensus settings may set any key the phases set
themselves. The chain's binary and its consensus are external.

### WorkflowRequests

The four conversions of a request (protobuf to workflow and back, once for runs and once for
templates), `Validate`, templates that are created, edited, deleted and executed, and clones of
runs. Texts are abstracted to the kinds the parsers tell apart; that of a genesis value is digits, a
number with an exponent, other JSON or none, in any number of layers of quotes. Decoding takes
off a layer, and `Marshal` writes a decoded number without its exponent. `written` is the history
variable the properties compare with; an edit and an execution read in one step and write
in a later one.

### ReportRunner

One scenario from the image build to its row of the report. `pc` is `runScenario` with its
deferred calls; `monitor`, `sampler` and `profiles` are the goroutines it starts and the
channels it waits on; `task` and `chain` the load they observe. A small clock gives samples,
intervals and phase spans their times. `held` is the state for the deferred teardown and
`known` the newest state the runner was handed: the load test hands its state back before the
audit and the profiles, and it is assigned after them. `Unbounded` are the steps that may never
end, as main's context has no deadline. The corrected figures, the raw transaction
audit and the accounting of the window are operators over these. The flags are `RunFlags`.

### MC modules

Each `MC` module defines the sets its `.cfg` files give to CONSTANTS.

## 3. Runs

| Run | Configuration | Checks | Shows |
|---|---|---|---|
| testnet | 2 nodes, 1 domain, every request on either provider | seven invariants, `ImplementsRunLifecycle`, `CancelledRunCloses` | what a run reports, leaves behind and promises; that it closes though workers may die under any activity |
| testnet_long_running | 2 nodes | `LongRunningUntilCancelled` (violated) | a load test that completes ends a long-running testnet |
| testnet_records | DigitalOcean | `TeardownDeletesRecords` (violated) | DNS records survive a successful teardown |
| testnet_containers | Docker | `TeardownDeletesContainers` (violated) | containers of a failed launch survive a successful teardown |
| service | 2 runs, 1 template, 1 report, limit 1 | four invariants, `StatusConverges` | the table is never wrong about the end of a run, and running rows first makes the limit harmless |
| cleanup | 1 run with 2 droplets, 1 other tenant, one page | three invariants, `LeaksCollected` | the runs to spare are spared, leaks are collected some night |
| cleanup_recent | 2 runs | `OnlyOldDropletsDeleted` (violated) | a droplet created between the listings is deleted |
| docker | a node's task and the load test's, 3 addresses | `AddressesApart`, `StatusRecorded`, `NothingLeftBehind`, `TeardownComplete` | two tasks used concurrently, lost, restored and torn down |
| chain | 2 validators, 1 full node, 4 configurations | five invariants, `InitReturns` | every node that starts has the whole genesis and its configuration |
| digitalocean | 5 pulls, as in the code | four invariants, `CallReturns` | executors never stand in for the task's container unless their removal failed |
| requests | 1 template, 5 requests | `TemplateRunsAsWritten`, `TemplatesStayRunnable`, `ClonesMatch` | what survives the conversions, and what does not |
| runner | 1 node, 7 combinations of flags, clock to 3, 2 transactions | three invariants, `ScenarioReported` | what the report says of the load, what the teardown gets, and that only a step without a deadline keeps the report from being written |

The invariants of the `testnet` run, beside the type invariant:

- `LoadTestKeepsItsTestnet`: the teardown starts under a running load test only if the user
  cancelled or the load test ran into its deadline.
- `AnsweredTasksAreRecorded`: the state handed to the teardown knows every task of an
  activity that answered. The load test's own task is the exception: its response is not
  read for a state.
- `DropletsSwept`, `NetworkFreed`: what a successful teardown guarantees on each provider,
  and the only thing it cannot: what bodies the workflow has given up on still create (a
  droplet, and with it the tag).
- `UnprovisionedRunOwnsNothing`: a run without a teardown owns nothing but what an
  unanswered CreateProvider left.
- `CompletedMeansDone`: `Workflow` swallows cancellation errors and no other error of an
  activity. What a load test found is not part of it: a run whose load test answered with an
  error in its Result completes.

Those of the other runs are stated in a comment above each definition.

Bounds.

- testnet: two nodes are enough for one `CreateTask` to fail while another succeeds or goes
  on, which is all `CreateChain` distinguishes. With one domain `CreateDomains` either makes
  the record or does not.
- service: with two rows and a limit of one, a row can be beyond the limit, and a snapshot
  can hold one row while the other changes.
- cleanup: two droplets of one run show that one spares the other, and the other tenant
  supplies deletions while the job runs. `PerPage` is larger than any listing, as the job's 200
  are in practice; see section 4 for more pages.
- docker: two tasks for concurrent calls, and an address for each besides the gateway's; a
  temporary container takes one of them too. The node's task runs commands and is
  started and stopped, the load test's has its files written and read and is destroyed. No port is exposed: port bindings
  (`GeneratePortBindings`) are in the module, and a lost race for a port is a start that fails.
- chain: two validators so that a wallet or gentx can be another's; the full node is the
  seed. The four configurations have nodes started with every flag both ways (`mnemonic`
  only matters with additional accounts, and without it Init fails), and custom settings
  that set peers, seeds and the seed mode.
- requests: the five requests have every kind of text and obey or break every rule of
  `Validate` that the templates meet. `MaxRuns` 2 and `MaxRows` 4 allow a run of a template, a
  run beside it and two clones, or a clone of a clone of a clone, which is more than the texts
  have layers to lose; `HistoryLimit` 1 leaves a run out.
- runner: a clock of 3 puts a scrape before, at and after the minimum duration; two
  transactions give a target below, at and above what was included. One node suffices for
  intervals that overlap, because two methods share them.

Symmetry is not used: every safety run also checks liveness, or has no interchangeable values.

Deadlock is checked in every run but docker and digitalocean, where a task that was destroyed,
or a provider that was torn down, has no further operation. A closed run with no body left
stutters in `Terminated`; the service's ticker and the job's schedule never stop.

Fairness, and why the code justifies it:

- TestnetWorkflow: Temporal schedules workflow tasks, fires timers and enforces StartToClose
  timeouts, so `Workflow`, `TimerFires` of a run that is not long-running and each
  `ActivityTimeout` are weakly fair. Nothing is assumed of activity bodies, workers or users,
  nor of the ten-year timer of a long-running testnet.
- WorkflowService: the ticker keeps firing and a tick goes on (weak fairness of `Updater`).
  `UpdaterError` is always possible beside a call that works, so the call for each row is
  strongly fair: it does not fail at every tick for ever. The server stops crashing some day.
- Cleanup: the cron schedule repeats the job (weak fairness), deletions do not fail for ever
  (strong fairness), and at some point no pass is cut short any more.
- Chain: goroutines are scheduled, the provider's calls return (`CopyGenTx` reads and writes on a
  background context), and the activity's context ends (its StartToClose timeout). The last
  holds for the worker, not for the report runner. Nothing is assumed of the network: it
  may never make a block.
- DigitalOceanTask: the steps of a call go on, because the waits have timeouts
  (`WaitForCondition`) and the client's calls carry the activity's context. A transfer has
  neither, so nothing is assumed of it.
- ReportRunner: goroutines are scheduled, time passes, the Docker daemon answers, the load test's
  poll ticks. Nothing is assumed of the `Unbounded` steps, of the chain or of Catalyst.
  The cancellation of the monitor is strongly fair because Go's `select` chooses at
  random among ready cases, so a ticker that is always ready does not hide it for ever.

Every property has a mutant: a definition changed the way a plausible bug would change
the code, under which TLC finds the property violated.

## 4. What the runs say about the code

1. `testnet_long_running`: the selector of `startWorkflow` returns when the load test is
   done, also for a long-running testnet, which the log says "will run until workflow is
   cancelled".
2. `testnet_records`: `util.RestoreProvider` passes no root domain, so `teardownDomains` of a
   restored provider returns at once.
3. `testnet_containers`: LaunchTestnet returns the provider's state beside its error, but a
   failed activity has no response; on Docker the teardown then knows no container. (On
   DigitalOcean the teardown goes by tag and is not affected.)
4. The Docker `Task.Destroy` leaves the named volume and forgets the task. The load test's
   volume therefore stays after every successful Docker run.
5. An error of the insert is only logged, so a run may be answered for and never listed;
   nothing repairs it. `RowsAreRuns` says what holds.
6. `cleanup_recent`: ages and tags are read in the first listing only, and the second decides
   what is deleted. `LongRunningKept` and `RecentRunsKept` say exactly what holds: for
   droplets that existed when the job began, and with a listing that fits one page. With
   several pages a deletion between two of them moves a tagged droplet onto a page already
   read, and its run is not spared (set `PerPage = 1` in `MCCleanup.cfg` to see it).
7. The job knows only ages and tags: a live run whose droplets are all older than 30 minutes
   is deleted unless someone tagged it, and nothing in this repository sets `LONG_RUNNING`.
   Tags and DNS records are never collected.
8. `requests`: a template does not carry the mnemonic, the Catalyst version, the chain's
   version and a load test specification it cannot decode (`Carried`); a clone may change a
   genesis value in quotes or with an exponent, and the clone of the clone again: "1e6" in
   quotes runs as text, its clone as a number, and the next as the text 1000000. It ends when
   the layers do (`Clonings`). A template id that is deleted and used
   again lists the runs of the old template.
9. `docker`: the temporary container of `runCommandWhileStopped` is destroyed by a defer that
   is registered after its start, so one that cannot be started stays, as does a container
   whose creation reported an error and worked (`refused` excepts them). A helper the daemon has
   not removed yet makes the removal of its volume, and so a teardown, fail.
   Ports are reserved by listeners that are closed before the container binds them.
10. `digitalocean`: `Stop` records TASK_STOPPED before it stops the container
    (`StatusFollowsContainer` excepts a stop that failed). A command or a file transfer on a
    droplet that stops answering never returns.
11. `runner`: a scrape cut short by the cancellation answers for no node and its zero counts
    replace the last ones; a stopped run whose window was accepted but whose metrics after the
    load cannot be scraped gets no corrected figures. The rate over the run counts the
    successful transactions and the rate over the window the included ones: they differ by the
    failed ones. A panic between the load test's answer and line 1800 tears down with the
    launch's state, so that a Catalyst task that could not be destroyed is left. The context
    is `context.Background()`, so a chain that makes no block, or a Catalyst that does
    not end and whose window is not reached, keeps the runner for ever.
12. `testnet`: a load test that answers with an error in its Result is only logged; the run
    completes. `service`: the `Evmrpc` and `Evmws` endpoints that LaunchTestnet reports are
    dropped by `convertProtoNodes`.
13. `chain`: a custom `p2p.seed_mode` applies to every node: `OneSeed` says which node the others
    ask, and that they are not in seed mode unless the custom settings say so.

## 5. Proofs

TLAPS checks eight modules. Their theorems hold for every value of the constants that
satisfies the named assumptions:

- TestnetWorkflow: a nonempty set of nodes that does not contain the two names of the other
  tasks (`NodesAssumption`), requests of the right shape (`RequestsAssumption`);
- WorkflowService: a finite set of runs (`WorkflowsAssumption`), a null value outside it
  (`NoneAssumption`), a positive listing limit (`LimitAssumption`), reports with EVM endpoints
  among the reports (`EvmAssumption`), and outcomes that are terminal statuses
  (`OutcomesAssumption`);
- DigitalOceanTask: at least one pull (`PullsAssumption`);
- DockerProvider: at least one address (`AddrAssumption`), uses of the tasks that are calls of
  the provider (`UsesAssumption`), and ports other than 0 (`PortsAssumption`);
- Chain: at least one validator, finitely many nodes (`ValidatorsAssumption`), none of them
  called like the faucet or an empty place of a slice (`NamesAssumption`), configurations of the
  right shape, with any custom settings of the keys the phases write (`ConfigsAssumption`);
- Cleanup: runs are not other tenants, whose number is finite; a run has at least one task, and
  no task is called "firewall" (`OwnersAssumption`); a page holds something (`PageAssumption`);
- WorkflowRequests: requests of the right shape (`RequestsAssumption`), a null value that is no
  template (`NoneAssumption`);
- ReportRunner: a clock that reaches 2 and at least one transaction, finitely many nodes
  and ABCI methods, flags that `main` can produce (`RunnerAssumption`), a null value that is neither an observation nor
  an error (`NoneAssumption`).

`TestnetWorkflowProofs` proves the seven invariants of the `testnet` run. None of the last
six is inductive: that the teardown's state knows a task depends on which futures the
workflow has seen, which depends on what the bodies did. `IInv` adds

- `FutureInv`: a resolved future says what became of its body, and a pending one where the
  workflow is blocked;
- `FlowInv`: where the workflow is blocked says which futures exist and which succeeded;
- `RecordInv`: the task states of a body contain the tasks its CreateTask calls returned,
  and `providerState` those of the activities that answered;
- `InfraInv`: which steps of which bodies the infrastructure can still depend on.

`Init => IInv` and one lemma per group of actions give `Spec => []IInv`; each theorem follows.

The same module proves the safety part of the refinement (`ImplementsRunLifecycleSafely`) from
`IInv`: every step of a run is an `Acquire`, `ReturnScratch`, `Finish`, `Release` or
`Close` of RunLifecycle, or leaves its variables alone. Nothing is released early because a
teardown body exists only once `startWorkflow` has returned (`LifecycleInv`).

`WorkflowServiceProofs` proves the four invariants of the `service` run. It needs two facts
more: a handler at its insert has started its run (`HandlerInv`), and a terminal status the
updater is about to write is still Temporal's, because runs do not reopen (`UpdaterInv`).

`DockerProviderProofs` proves the four invariants of the `docker` run for any set of tasks, of
addresses and of ports (exposed ports included, which the run leaves out) and any uses of the
tasks. The invariants are about states between calls, so `IInv` says what holds during them:

- `OpInv`: only a live object makes calls, and a task is unknown until its CreateTask is done;
- `AddrInv`: recorded tasks and those between `nextAvailableIP` and the record hold distinct
  addresses that the allocator knows; the saved ones are distinct too, so a restore succeeds;
- `LeftInv`: between calls only exited helpers are left, and a temporary container exists only
  while `runCommandWhileStopped` runs, but for the tasks in `refused`;
- `StatusInv`: the status is the container's outside Start and Stop;
- `TearInv`: during a teardown no call runs, and what it is done with is gone.

`DigitalOceanTaskProofs` proves the four invariants of the `digitalocean` run for any number of
pulls. The key is `ExecutorInv`: an executor exists only inside `runCommandWhileStopped`, so
elsewhere the newest container is the task's own.

`ChainProofs` proves the five invariants of the `chain` run for any number of validators and
full nodes and every configuration. They speak of nodes that run, long after the phases that
wrote their files, so `IInv` follows the phases: what a goroutine that is over has written, and
what every phase before the last barrier has left.

- `SliceInv`: after CreateChain the slices hold every node; a restore fills in what was saved;
- `WalletInv`: the wallet of a validator that is set up is at its index;
- `GenesisInv`: each validator's own genesis and gentx, then the gentxs copied so far, then the
  collected genesis, then the complete one, which is what is read and handed out;
- `SupplyInv`: the supply is the number of accounts times the balance, so adding a batch of new
  accounts keeps it (a fact about the cardinality of disjoint sets);
- `TomlInv`, `ReadyInv`: which settings each step of a `configure` goroutine has written, and
  that nodes are started only when all have them; the seed mode of every node is the custom
  settings' until the seed's is set.

`CleanupProofs` proves the type invariant, and `LongRunningKept` and `RecentRunsKept` under
`[]OnePage`: whenever the job lists the droplets to find the runs to spare, they fit one page.
Without that hypothesis both are false (section 4, item 6); it is about the account, which the
job does not control, and holds throughout the `cleanup` run. The other two listings may have
any number of pages. `IInv` says that a droplet name is never used again (`AgeInv`: it would
bring a young droplet under the name of an old one), that the first listing is read at one
go (`PageInv`), that only runs which are not skipped are marked (`TodoInv`), and, the core, that
from the first listing on every run with a droplet to spare is in `skipped`, whatever runs,
users, other tenants and time do in between (`SpareInv`).

`WorkflowRequestsProofs` proves the three invariants of the `requests` run for any set of
templates, requests and commits. Lemmas write the four conversions out field by field and then
compose them: storing what an editor was shown is storing what was written (`Restored`), a run of
a template is a run of what it can carry (`Executed`), a clone is its original but for its
genesis value (`Cloned`), which loses a layer with every clone until none is left
(`GenesisSettles`). `IInv` is then short: what is stored is what was written,
converted once (`TemplateInv`); a call under way holds what it read as it was written then,
though another call may have written since (`ReadInv`); each row is such a run and each clone
agrees with its original (`RunsInv`).

`ReportRunnerProofs` proves the three invariants of the `runner` run for any nodes, flags, ABCI
methods, clock and number of transactions. `IInv` says for every step of `runScenario`
where the monitor, the sampler and the profile collector are:

- `BaseInv`, `MonitorInv`: counters only grow from the baseline, and an observation that reached
  the target is the last one, with the target and the minimum duration in it;
- `SamplerInv`: the sampler's channel is set exactly while its goroutine has not been received
  from, so no path receives twice or never;
- `StateInv`: the deferred teardown has the newest state, but for the load test's between its
  answer and the end of the audit;
- `ResultInv`, `AnswerInv`, `FinalInv`: the result has the monitor's window once the load is
  over, only an observation that reached the target stops a run, and what is corrected and
  derived from the window is what the window says;
- `SpanInv`: the phases have times on the clock.

`WindowAccountingExact` then is a fact about the algorithm for any finite set of intervals:
merging them in the order of their starts yields intervals as long as the union
(`UnionSecondsFacts`). When the next interval is merged, those before it cover everything
from its start to the last end, and nothing beyond that end (`MergeIntervalFacts`).

Some of these proofs need an induction over data: that `Without` leaves a listing its other
elements, that finitely many counters have a maximum, that the merge computes the union. It is
done with a least counterexample (`NatMin`, from the well-foundedness of the naturals, and
`SubsetInduction`), since the library's induction rules, which take an operator, cannot be
instantiated. For that, Cleanup removes from a listing with a recursive function, and
ReportRunner merges a set of intervals with a fold that takes the last one (`LastInterval`)
after the others; `SelectSeq`, `SortSeq` and `@@` are opaque to the prover.

An inductive invariant can be checked on the instance of its run by adding it to the `.cfg` of a
module that extends the proofs.

Only model-checked:

- liveness and fairness, the liveness of RunLifecycle included: out of this prover's reach;
- every violated property.

## 6. Not modelled, and the plan

Not modelled:

- the frontend, the analysis scripts, configuration parsing and interface types, which keep no
  state of the system, and the generated protobuf code;
- transport (gRPC, SSH, Tailscale), the Temporal server, the Docker daemon, the DigitalOcean
  API and the chain's binary beyond how the code uses them;
- in the report runner: the TreeDB statistics, the parsing of metrics and logs, the settings
  of the scenarios and the Markdown; they turn texts into texts;
- the validation of load balancer domains (which joins only the error of the current domain,
  so an invalid domain before a valid one is accepted), the nginx configuration, the image's
  tag and replace commands, the telemetry containers of a droplet.

Done: every module of the plan, with proofs of all the invariants the passing runs check and of
the safety part of the refinement.

Left, in order:

1. For the listings of several pages, what the cleanup job still guarantees (that it deletes
   nothing of another tenant is in its type invariant already).
2. An abstract specification of the table of WorkflowService: a row per acknowledged run, whose
   terminal status is final, with the service and its updater shown to implement it.
