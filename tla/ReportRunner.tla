---------------------------- MODULE ReportRunner ----------------------------
(***************************************************************************)
(* The local report runner (cmd/local-report-runner/main.go): one scenario *)
(* from the image build to the row of the report.  runScenario is the main *)
(* process; beside it run the goroutines it starts: the load window        *)
(* monitor, which scrapes the validators' metrics until the target number  *)
(* of transactions is reached; the resource sampler; and the collector of  *)
(* the profiles taken during the load.  The load test (activities/loadtest)*)
(* polls the Catalyst task and may be cut short by what the monitor saw.   *)
(*                                                                         *)
(* Time is a small clock, at 1 when the load begins.  A metrics scrape     *)
(* answers for a subset of the nodes and reads the chain's transaction     *)
(* counters, plus the ABCI methods whose timers moved since that node's    *)
(* previous sample.                                                        *)
(***************************************************************************)
EXTENDS Integers, FiniteSets, Sequences, SequencesExt

CONSTANTS Nodes,      \* containers whose metrics endpoint is scraped
          Activities, \* sets of ABCI methods that may have moved between two scrapes
          Configs,    \* flags and scenarios of the runs
          MaxTime,    \* bound on the clock
          None,       \* no value: a nil pointer or an empty channel
          MaxTxs      \* bound on the transactions the chain includes

\* The flags main accepts and what the chosen scenario adds to them: the kind of
\* its runner, the load it intends and the indexer of its nodes.  percent stands for
\* the target fraction and min for the minimum duration of the load window.
RunFlags ==
    [runner : {"testnet", "celestia"}, skipBuild : BOOLEAN, keep : BOOLEAN, bench : BOOLEAN,
     evm : BOOLEAN, blocks : Nat, txs : Nat, percent : 1 .. 100, min : Nat, drain : BOOLEAN,
     stop : BOOLEAN, profiles : BOOLEAN, verify : BOOLEAN, audit : BOOLEAN,
     nullIndexer : BOOLEAN, dry : BOOLEAN]

ASSUME RunnerAssumption == /\ MaxTime \in Nat \ {0, 1} /\ MaxTxs \in Nat \ {0}
                           /\ IsFiniteSet(Nodes) /\ IsFiniteSet(UNION Activities)
                           /\ Configs \subseteq RunFlags

\* Intervals of the clock in which a node was seen to be busy with a method.
Intervals == [node : Nodes, method : UNION Activities, s : Nat, e : Nat]

\* What the monitor observed of the load window.
Observations ==
    [reached : BOOLEAN, dur : BOOLEAN, err : BOOLEAN, started : Nat, ended : Nat, inc : Nat,
     ok : Nat, ivals : {I \in SUBSET Intervals : IsFiniteSet(I)}]

ASSUME NoneAssumption == None \notin Observations /\ None \notin {"error", "stopped"}

VARIABLES pc,        \* next step of main / runScenario
          cfg,       \* the run's flags
          clock,
          chain,     \* transactions the chain has included and executed successfully
          task,      \* the Catalyst task: "none", "running", "exited"
          held,      \* providerStateForTeardown, as the resources it lists
          known,     \* history: resources listed by the newest state a call handed back
          monitor,   \* the load window monitor goroutine
          sampler,   \* the docker stats sampler and its channel
          profiles,  \* the active window profile collector: "off", "running", "sent"
          spans,     \* PhaseTimeline: the measurements before and the load test
          answer,    \* what RunLoadTest returned
          result     \* runResult

process == <<pc, cfg>>
world == <<clock, chain, task>>
state == <<held, known>>
helpers == <<monitor, sampler, profiles>>
report == <<spans, answer, result>>
vars == <<process, world, state, helpers, report>>

------------------------------------------------------------------------------
(* Transaction counts *)

NoTxs == [inc |-> 0, ok |-> 0]
Larger(a, b) == IF a < b THEN b ELSE a
Smaller(a, b) == IF a < b THEN a ELSE b
Maximum(S) == CHOOSE m \in S : \A x \in S : x <= m

\* percentages stand for the flag's fraction, which main restricts to (0, 1]
loadWindowTargetTransactions(intended, percent) ==
    Smaller(intended, Larger(1, (intended * percent + 99) \div 100))

\* blocks or batches times transactions per block or messages per batch
intendedTransactions(c) == c.blocks * c.txs

\* the counter deltas of the nodes found in both snapshots
summarizeStorageSignals(before, after) ==
    [n \in (DOMAIN before) \cap (DOMAIN after) |->
        [inc |-> after[n].inc - before[n].inc, ok |-> after[n].ok - before[n].ok]]

\* the largest count any node reports; no signal counts as nothing
appMetricLoadCounts(signals) ==
    LET ok  == Maximum({0} \cup {signals[n].ok : n \in DOMAIN signals})
        inc == Maximum({ok} \cup {signals[n].inc : n \in DOMAIN signals})
    IN [inc |-> inc, ok |-> ok]

shouldUseAppMetricLoadCounts(overall, counts) ==
    /\ counts.inc > 0 \/ counts.ok > 0
    /\ \/ overall.total = 0
       \/ counts.ok > overall.ok
       \/ overall.inc = 0 /\ counts.inc > 0 /\ overall.failed > 0

------------------------------------------------------------------------------
(* Clock intervals *)

maxTime(a, b) == Larger(a, b)
minTime(a, b) == Smaller(a, b)
overlapSeconds(as, ae, bs, be) == Larger(0, minTime(ae, be) - maxTime(as, bs))

\* the part of an interval that lies in the window
clipLoadWindowInterval(i, ws, we) ==
    [node |-> i.node, method |-> i.method, s |-> maxTime(i.s, ws), e |-> minTime(i.e, we)]

\* those of a node, empty ones dropped
clippedIntervals(intervals, node, ws, we) ==
    LET mine == {i \in intervals : i.node = node /\ i.e > i.s}
    IN {c \in {clipLoadWindowInterval(i, ws, we) : i \in mine} : c.e > c.s}

\* the one that comes last by start and end
LastInterval(intervals) ==
    CHOOSE i \in intervals : \A j \in intervals : j.s < i.s \/ (j.s = i.s /\ j.e <= i.e)

\* The next interval in that order reaches the last merged one, which is s to e, or
\* it is a new one; before holds the length of the merged ones before the last.
mergeInterval(i, merged) ==
    IF i.s <= merged.e
      THEN [before |-> merged.before, s |-> merged.s, e |-> maxTime(merged.e, i.e)]
      ELSE [before |-> merged.before + (merged.e - merged.s), s |-> i.s, e |-> i.e]

\* All of them, from the first to the last; to begin with, the empty interval at 0.
mergeClippedClockIntervals(intervals) ==
    MapThenFoldSet(mergeInterval, [before |-> 0, s |-> 0, e |-> 0], LAMBDA i : i,
                   LastInterval, intervals)

\* mutant: every interval counts in full, as the summed method timers do
unionSecondsSummed(intervals) == MapThenSumSet(LAMBDA i : i.e - i.s, intervals)

clippedClockIntervalUnionSeconds(intervals) ==
    LET merged == mergeClippedClockIntervals(intervals)
    IN merged.before + (merged.e - merged.s)

loadWindowIntervalClassUnion(intervals, node, ws, we) ==
    clippedClockIntervalUnionSeconds(clippedIntervals(intervals, node, ws, we))

\* The row of a node: the time its ABCI calls kept it busy, and the rest of the
\* window.  Without intervals the summed method timers are all there is to go by.
summarizeLoadWindowAccounting(obs, node) ==
    LET seconds == obs.ended - obs.started
        busy == loadWindowIntervalClassUnion(obs.ivals, node, obs.started, obs.ended)
        sampled == clippedIntervals(obs.ivals, node, obs.started, obs.ended) # {}
    IN [seconds |-> seconds,
        busy |-> IF sampled THEN busy ELSE None,
        residual |-> IF sampled THEN Larger(0, seconds - busy) ELSE None]

\* how long a phase ran before, inside and after the window
phaseOverlap(span, obs) ==
    [phase  |-> span,
     before |-> Larger(0, minTime(span.e, obs.started) - span.s),
     in     |-> overlapSeconds(span.s, span.e, obs.started, obs.ended),
     after  |-> Larger(0, span.e - maxTime(span.s, obs.ended))]

summarizeLoadWindowPhaseOverlaps(timeline, obs) ==
    IF obs.ended <= obs.started THEN {}
    ELSE {phaseOverlap(p, obs) : p \in {q \in ToSet(timeline) : q.e > q.s}}

------------------------------------------------------------------------------
(* What the report says of the load *)

\* Figures of a load: counts, the seconds it took, and tps, the transactions that the rate
\* in transactions per second counts over these seconds.
Zero == [total |-> 0, inc |-> 0, ok |-> 0, failed |-> 0, runtime |-> 0, tps |-> 0]

loadWindowAccepted(obs) == obs # None /\ obs.reached /\ obs.dur

\* Catalyst's own figures, replaced by those of the raw transaction audit or of
\* the metrics, and by the accepted window's when Catalyst was stopped.
summarizeCorrectedLoadTest(overall, raw, signals, stopped, window) ==
    LET counts == appMetricLoadCounts(signals)
        measured ==
            IF raw # None
              THEN [overall EXCEPT !.total = raw.queried, !.inc = raw.found,
                                   !.ok = raw.ok, !.failed = raw.found - raw.ok,
                                   !.tps = IF raw.tps > 0 THEN raw.tps ELSE @]
            ELSE IF shouldUseAppMetricLoadCounts(overall, counts)
              THEN LET total == Larger(overall.total, counts.inc)
                   IN [overall EXCEPT !.total = total, !.inc = counts.inc,
                                      !.ok = counts.ok, !.failed = total - counts.ok]
            ELSE overall
        windowed == [total |-> window.inc, inc |-> window.inc, ok |-> window.ok,
                     failed |-> window.inc - window.ok,
                     runtime |-> window.ended - window.started, tps |-> window.ok]
    IN IF overall.total = 0 /\ raw = None /\ DOMAIN signals = {} THEN None
       ELSE IF measured.runtime = 0 /\ stopped /\ loadWindowAccepted(window) THEN windowed
       ELSE [measured EXCEPT !.tps = IF @ = 0 /\ measured.runtime > 0 THEN measured.ok ELSE @]

loadCounts(r) ==
    IF r.corrected # None THEN r.corrected
    ELSE IF r.raw # None THEN [r.overall EXCEPT !.inc = r.raw.found, !.ok = r.raw.ok,
                                                !.tps = IF r.raw.tps > 0 THEN r.raw.tps ELSE @]
    ELSE r.overall

\* numerators and denominators of RuntimeIncludedTPS and LoadWindowIncludedTPS: the first is
\* the rate of successful transactions, the second that of included ones
deriveMetrics(r) ==
    LET counts == loadCounts(r)
        accepted == loadWindowAccepted(r.window)
    IN [txs |-> counts.tps, seconds |-> counts.runtime,
        windowTxs |-> IF ~accepted THEN 0
                      ELSE IF r.window.inc > 0 THEN r.window.inc ELSE counts.inc,
        windowSeconds |-> IF accepted THEN r.window.ended - r.window.started ELSE 0]

rawTxAuditDecision(c) == ~c.evm /\ c.audit /\ ~c.nullIndexer

------------------------------------------------------------------------------
(* runScenario: before the load *)

NoObservation == [reached |-> FALSE, dur |-> FALSE, err |-> FALSE, started |-> 0,
                  ended |-> 0, inc |-> 0, ok |-> 0, ivals |-> {}]

NoMonitor == [at |-> "off", cancelled |-> FALSE, target |-> 0, base |-> <<>>,
              prev |-> <<>>, last |-> NoObservation, done |-> None]

Init ==
    /\ pc = "start" /\ cfg \in Configs
    /\ clock = 1 /\ chain = NoTxs /\ task = "none"
    /\ held = {} /\ known = {}
    /\ monitor = NoMonitor
    /\ sampler = [set |-> FALSE, at |-> "off"]
    /\ profiles = "off"
    /\ spans = <<>>
    /\ answer = [err |-> None, early |-> FALSE, listed |-> {}, overall |-> Zero, failed |-> FALSE]
    /\ result = [error |-> FALSE, panic |-> FALSE, stopped |-> FALSE, window |-> None,
                 samples |-> None, profiled |-> FALSE, signals |-> <<>>, raw |-> None,
                 overall |-> Zero, corrected |-> None, derived |-> None, torn |-> {}]

\* runCelestiaSyncScenario: environment files, then the external comparison,
\* which a dry run leaves out
runCelestiaSyncScenario ==
    /\ pc = "start" /\ cfg.runner = "celestia"
    /\ \E fails \in BOOLEAN :
         /\ result' = [result EXCEPT !.error = fails]
         /\ pc' = IF fails \/ cfg.dry THEN "reported" ELSE "celestia"
    /\ UNCHANGED <<cfg, world, state, helpers, spans, answer>>

CelestiaCommand ==
    /\ pc = "celestia"
    /\ \E fails \in BOOLEAN : result' = [result EXCEPT !.error = fails]
    /\ pc' = "reported"
    /\ UNCHANGED <<cfg, world, state, helpers, spans, answer>>

buildImage ==
    /\ pc = "start" /\ cfg.runner = "testnet"
    /\ \/ pc' = "create" /\ UNCHANGED result
       \/ /\ ~cfg.skipBuild
          /\ result' = [result EXCEPT !.error = TRUE]
          /\ pc' = "unwind_result"
    /\ UNCHANGED <<cfg, world, state, helpers, spans, answer>>

\* Provider states, as the resources they list; no state lists nothing.
Network == {"network"}
Testnet == {"network", "nodes"}
Loaded == {"network", "nodes", "catalyst"}

\* an error returns before the deferred teardown exists, also when the network
\* was created but its state could not be serialized or compressed
CreateProvider ==
    /\ pc = "create"
    /\ \/ /\ held' = Network /\ known' = Network
          /\ pc' = "launch" /\ UNCHANGED result
       \/ /\ result' = [result EXCEPT !.error = TRUE]
          /\ pc' = "unwind_result" /\ UNCHANGED state
    /\ UNCHANGED <<cfg, world, helpers, spans, answer>>

\* a failed launch may still answer with a state, listing the nodes it created
LaunchTestnet ==
    /\ pc = "launch"
    /\ \/ /\ held' = Testnet /\ known' = Testnet
          /\ pc' = "verify" /\ UNCHANGED result
       \/ /\ \E listed \in {{}, Network, Testnet} :
               /\ held' = IF listed # {} THEN listed ELSE held
               /\ known' = IF listed # {} THEN listed ELSE known
          /\ result' = [result EXCEPT !.error = TRUE]
          /\ pc' = "unwind_teardown"
    /\ UNCHANGED <<cfg, world, helpers, spans, answer>>

verifySimappBackends ==
    /\ pc = "verify"
    /\ \/ pc' = "before" /\ UNCHANGED result
       \/ /\ cfg.verify
          /\ result' = [result EXCEPT !.error = TRUE]
          /\ pc' = "unwind_teardown"
    /\ UNCHANGED <<cfg, world, state, helpers, spans, answer>>

\* the measurements before the load, then the sampler goroutine
startDockerStatsSampler ==
    /\ pc = "before"
    /\ spans' = Append(spans, [name |-> "before", s |-> 0, e |-> clock])
    /\ sampler' = [set |-> TRUE, at |-> "running"]
    /\ pc' = IF cfg.bench THEN "bench" ELSE "monitor"
    /\ UNCHANGED <<cfg, world, state, monitor, profiles, answer, result>>

\* benchErr is kept in answer until the measurements after it are taken
runCommitBenchmark ==
    /\ pc = "bench"
    /\ answer' \in {answer, [answer EXCEPT !.err = "error"]}
    /\ pc' = "sampler"
    /\ UNCHANGED <<cfg, world, state, helpers, spans, result>>

------------------------------------------------------------------------------
(* The load window monitor *)

\* the usable snapshots: those of the nodes that answer
scrapeMetrics(up) == [n \in up |-> chain]

\* The monitor takes its own baseline.
startLoadWindowMonitor ==
    /\ pc = "monitor"
    /\ IF ~cfg.evm /\ intendedTransactions(cfg) > 0
         THEN \E up \in SUBSET Nodes :
                monitor' = [NoMonitor EXCEPT
                    !.at = "observe",
                    !.target = loadWindowTargetTransactions(intendedTransactions(cfg), cfg.percent),
                    !.base = scrapeMetrics(up),
                    !.prev = [n \in up |-> clock],
                    !.last.started = clock, !.last.ended = clock]
         ELSE UNCHANGED monitor
    /\ pc' = "load"
    /\ UNCHANGED <<cfg, world, state, sampler, profiles, report>>

\* previousMetricSamples and wallClockIntervals after a scrape that answered for
\* the nodes of moved, with the methods each has run since its previous sample
appendMetricDeltaWallClockIntervals(prev, ivals, moved) ==
    ivals \cup {[node |-> p[1], method |-> p[2], s |-> prev[p[1]], e |-> clock] :
                  p \in {q \in (DOMAIN moved) \X (UNION Activities) :
                            /\ q[1] \in DOMAIN prev /\ prev[q[1]] < clock
                            /\ q[2] \in moved[q[1]]}}

\* a node that answers for the first time is its own baseline
appendMissingUsableMetricBaselineSnapshots(baseline, current) ==
    [n \in DOMAIN baseline \cup DOMAIN current |->
        IF n \in DOMAIN baseline THEN baseline[n] ELSE current[n]]

\* One scrape; a cancelled one may answer for no node.
observe(moved) ==
    LET metrics == scrapeMetrics(DOMAIN moved)
        start == monitor.last.started
        baseline == appendMissingUsableMetricBaselineSnapshots(monitor.base, metrics)
        counts == appMetricLoadCounts(summarizeStorageSignals(baseline, metrics))
        dur == clock - start >= cfg.min
        reached == counts.ok >= monitor.target
    IN [monitor EXCEPT
          !.base = baseline,
          !.prev = [n \in DOMAIN moved \cup DOMAIN @ |->
                      IF n \in DOMAIN moved THEN clock ELSE @[n]],
          !.last = [reached |-> reached, dur |-> dur, err |-> reached /\ ~dur,
                    started |-> start, ended |-> clock, inc |-> counts.inc, ok |-> counts.ok,
                    ivals |-> appendMetricDeltaWallClockIntervals(
                                  monitor.prev, monitor.last.ivals, moved)]]

\* The monitor's steps are of interest while runScenario may read its
\* observations; after a panic it goes on unread until the process ends.
Watched == pc \in {"load", "loop", "drain", "receive"}

\* setLast, done <- last and return: the goroutine's own variables are gone
MonitorAnswers(obs) == [NoMonitor EXCEPT !.at = "over", !.target = monitor.target,
                                         !.last = obs, !.done = obs]

\* a scrape takes time, so it ends after the window began and after the one before;
\* at the bound of the clock only the first holds
ScrapeEnds == clock > IF clock = MaxTime THEN monitor.last.started ELSE monitor.last.ended

\* mutant: a window that is reached too early does not end the monitor
ObserveUntilSatisfied ==
    /\ Watched /\ monitor.at = "observe" /\ ScrapeEnds
    /\ \E up \in SUBSET Nodes : \E moved \in [up -> Activities] :
         LET seen == observe(moved)
         IN monitor' = IF seen.last.reached /\ seen.last.dur
                         THEN MonitorAnswers(seen.last)
                         ELSE [seen EXCEPT !.at = "select"]
    /\ UNCHANGED <<process, world, state, sampler, profiles, report>>

Observe ==
    /\ Watched /\ monitor.at = "observe" /\ ScrapeEnds
    /\ \E up \in SUBSET Nodes : \E moved \in [up -> Activities] :
         LET seen == observe(moved)
         IN monitor' = IF seen.last.reached
                         THEN MonitorAnswers(seen.last)
                         ELSE [seen EXCEPT !.at = "select"]
    /\ UNCHANGED <<process, world, state, sampler, profiles, report>>

MonitorTicker ==
    /\ Watched /\ monitor.at = "select"
    /\ monitor' = [monitor EXCEPT !.at = "observe"]
    /\ UNCHANGED <<process, world, state, sampler, profiles, report>>

\* mutant: the select has no case for the cancellation
MonitorNotCancelled == FALSE /\ UNCHANGED vars

\* the last observation is the answer, with an error
MonitorCancelled ==
    /\ Watched /\ monitor.at = "select" /\ monitor.cancelled
    /\ LET last == [monitor.last EXCEPT !.err = TRUE]
       IN monitor' = MonitorAnswers(last)
    /\ UNCHANGED <<process, world, state, sampler, profiles, report>>

------------------------------------------------------------------------------
(* The load test *)

\* no state, or one with or without the Catalyst task: it was not created or is
\* destroyed, or destroying it failed
LoadTestStates == {{}, Testnet, Loaded}

\* RunLoadTest returns: its phase ends, and its state is known, but it is not yet the one
\* for the teardown.
LoadTestReturns(ans) ==
    /\ answer' = ans
    /\ known' = IF ans.listed # {} THEN ans.listed ELSE known
    /\ pc' = "drain"

EndPhase == spans' = [spans EXCEPT ![Len(spans)].e = clock]

\* Phase spans and the profile collector start with it.  An error before the
\* task runs answers with the provider's state, or with none when the state
\* cannot be restored or serialized.
RunLoadTest ==
    /\ pc = "load"
    /\ profiles' = IF cfg.profiles THEN "running" ELSE "off"
    /\ spans' = Append(spans, [name |-> "load", s |-> clock, e |-> clock])
    /\ \/ /\ task' = "running"
          /\ pc' = "loop" /\ UNCHANGED <<answer, known>>
       \/ /\ \E listed \in LoadTestStates :
               LoadTestReturns([answer EXCEPT !.err = "error", !.listed = listed])
          /\ UNCHANGED task
    /\ UNCHANGED <<cfg, clock, chain, held, monitor, sampler, result>>

StopCondition == cfg.stop /\ monitor.at # "off" /\ monitor.last.reached

\* A tick of the polling loop asks the stop condition before the task's status; the
\* case for the end of the context never comes, as main's context has none.
\* Destroying the task may fail; the answer carries no state when it cannot be
\* serialized, and then it is not the stop that is reported.
stopLoadTestByCondition ==
    /\ pc = "loop" /\ StopCondition
    /\ task' = "exited" /\ EndPhase
    /\ \E listed \in LoadTestStates :
         \/ /\ listed # {}
            /\ LoadTestReturns([answer EXCEPT !.err = "stopped", !.early = ~monitor.last.dur,
                                              !.listed = listed])
         \/ LoadTestReturns([answer EXCEPT !.err = "error", !.listed = listed])
    /\ UNCHANGED <<cfg, clock, chain, held, helpers, result>>

\* Catalyst counts what it saw included, or nothing but what it sent, with an error
CatalystResults ==
    {[answer EXCEPT !.overall = [total |-> MaxTxs, inc |-> chain.inc, ok |-> chain.ok,
                                 failed |-> MaxTxs - chain.ok, runtime |-> 1,
                                 tps |-> chain.ok]],
     [answer EXCEPT !.overall = [total |-> MaxTxs, inc |-> 0, ok |-> 0,
                                 failed |-> MaxTxs, runtime |-> 1, tps |-> 0],
                    !.failed = TRUE]}

\* the task has stopped: its result file is read and the task destroyed
LoadTestFinished ==
    /\ pc = "loop" /\ ~StopCondition /\ task = "exited"
    /\ EndPhase
    /\ \E listed \in LoadTestStates :
         \/ \E read \in CatalystResults :
              \E err \in IF listed = {} THEN {"error"} ELSE {None, "error"} :
                LoadTestReturns([read EXCEPT !.err = err, !.listed = listed])
         \/ LoadTestReturns([answer EXCEPT !.err = "error", !.listed = listed])
    /\ UNCHANGED <<cfg, world, held, helpers, result>>

------------------------------------------------------------------------------
(* runScenario: after the load *)

\* m.done is received at once, or the monitor is cancelled first: by Stop, or
\* by Wait when the drain timeout expires
DrainCancel ==
    /\ pc = "drain" /\ monitor.at # "off"
    /\ monitor' = [monitor EXCEPT !.cancelled = TRUE]
    /\ pc' = "receive"
    /\ UNCHANGED <<cfg, world, state, sampler, profiles, report>>

DrainReceive ==
    /\ \/ pc = "receive"
       \/ pc = "drain" /\ cfg.drain
    /\ monitor.done # None
    /\ LET late == pc = "receive" /\ cfg.drain /\ ~monitor.done.reached
       IN result' = [result EXCEPT !.window = [monitor.done EXCEPT !.err = @ \/ late]]
    /\ monitor' = [monitor EXCEPT !.done = None]
    /\ pc' = "profiles"
    /\ UNCHANGED <<cfg, world, state, sampler, profiles, spans, answer>>

CollectActiveProfiles ==
    /\ pc = "profiles" \/ (pc = "drain" /\ monitor.at = "off")
    /\ profiles \in {"off", "sent"}
    /\ result' = [result EXCEPT !.profiled = profiles = "sent"]
    /\ pc' = "sampler"
    /\ UNCHANGED <<cfg, world, state, helpers, spans, answer>>

\* mutant: sampler = nil is forgotten
SamplerStopKeepsPointer ==
    \/ /\ pc \in {"sampler", "unwind_sampler"} /\ sampler.set
       /\ sampler' = IF sampler.at = "running" THEN [sampler EXCEPT !.at = "cancelled"] ELSE sampler
       /\ pc' = IF pc = "sampler" THEN "samples" ELSE "unwind_samples"
       /\ UNCHANGED <<cfg, world, state, monitor, profiles, report>>
    \/ /\ pc \in {"samples", "unwind_samples"} /\ sampler.at \in {"sent", "closed"}
       /\ result' = [result EXCEPT !.samples = IF sampler.at = "sent" THEN "kept" ELSE "lost"]
       /\ sampler' = [sampler EXCEPT !.at = "closed"]
       /\ pc' = IF pc = "samples" THEN "after" ELSE "unwind_teardown"
       /\ UNCHANGED <<cfg, world, state, monitor, profiles, spans, answer>>

\* dockerStatsSampler.Stop cancels and receives; a second call would find the
\* channel closed and replace the samples by nothing
SamplerStop ==
    \/ /\ pc \in {"sampler", "unwind_sampler"} /\ sampler.set
       /\ sampler' = IF sampler.at = "running" THEN [sampler EXCEPT !.at = "cancelled"] ELSE sampler
       /\ pc' = IF pc = "sampler" THEN "samples" ELSE "unwind_samples"
       /\ UNCHANGED <<cfg, world, state, monitor, profiles, report>>
    \/ /\ pc \in {"samples", "unwind_samples"} /\ sampler.at \in {"sent", "closed"}
       /\ result' = [result EXCEPT !.samples = IF sampler.at = "sent" THEN "kept" ELSE "lost"]
       /\ sampler' = [set |-> FALSE, at |-> "closed"]
       /\ pc' = IF pc = "samples" THEN "after" ELSE "unwind_teardown"
       /\ UNCHANGED <<cfg, world, state, monitor, profiles, spans, answer>>

\* the metrics after the load, for the nodes both scrapes answered for; the
\* benchmark ends here
CollectAfter ==
    /\ pc = "after"
    /\ \E up \in SUBSET Nodes :
         result' = [result EXCEPT !.signals = scrapeMetrics(up),
                                  !.overall = answer.overall,
                                  !.stopped = answer.err = "stopped",
                                  !.error = cfg.bench /\ answer.err # None]
    /\ pc' = IF cfg.bench THEN "unwind_sampler" ELSE "audit"
    /\ UNCHANGED <<cfg, world, state, helpers, spans, answer>>

\* what the RPC addresses answer for the transaction: its result, or that none
\* has it or could be asked
queryRawTx(k) == {"missing", IF k <= chain.ok THEN "ok" ELSE "failed"}

\* one answer for every hash of Catalyst's log, which names the transactions or not
auditRawTxs ==
    IF ~rawTxAuditDecision(cfg) THEN {<<>>}
    ELSE {<<>>} \cup {a \in [1 .. chain.inc -> {"missing", "ok", "failed"}] :
                       \A k \in 1 .. chain.inc : a[k] \in queryRawTx(k)}

summarizeTxAudit(audits, runtime) ==
    LET ok == Len(SelectSeq(audits, LAMBDA a : a = "ok"))
    IN IF audits = <<>> THEN None
       ELSE [queried |-> Len(audits),
             found |-> Len(SelectSeq(audits, LAMBDA a : a # "missing")),
             ok |-> ok, tps |-> IF runtime > 0 THEN ok ELSE 0]

\* the corrected figures, the state for the teardown and the run's error
FinishScenario ==
    /\ pc = "audit"
    /\ \E raw \in {summarizeTxAudit(audits, result.overall.runtime) : audits \in auditRawTxs} :
         result' = [result EXCEPT
             !.raw = raw,
             !.corrected = summarizeCorrectedLoadTest(result.overall, raw, result.signals,
                                                      result.stopped, result.window),
             !.error = IF answer.err = None THEN answer.failed
                       ELSE ~(/\ answer.err = "stopped" /\ cfg.stop
                              /\ loadWindowAccepted(result.window))]
    /\ held' = IF answer.listed # {} THEN answer.listed ELSE held
    /\ pc' = "unwind_sampler"
    /\ UNCHANGED <<cfg, world, known, helpers, spans, answer>>

------------------------------------------------------------------------------
(* Deferred calls, in the order they run *)

\* a panic in the calls after the launch unwinds to the deferred recover
Panic ==
    /\ pc \in {"loop", "audit"}
    /\ result' = [result EXCEPT !.panic = TRUE, !.error = TRUE]
    /\ pc' = "unwind_sampler"
    /\ UNCHANGED <<cfg, world, state, helpers, spans, answer>>

UnwindNoSampler ==
    /\ pc = "unwind_sampler" /\ ~sampler.set
    /\ pc' = "unwind_teardown"
    /\ UNCHANGED <<cfg, world, state, helpers, report>>

\* the testnet is kept on request; the outcome of its teardown is not looked at
DeferredTeardown ==
    /\ pc = "unwind_teardown"
    /\ result' = [result EXCEPT !.torn = IF cfg.keep THEN {} ELSE held]
    /\ pc' = "unwind_result"
    /\ UNCHANGED <<cfg, world, state, helpers, spans, answer>>

\* the first deferred call, the recover, ends the run: main appends the result,
\* writes the artifacts and ends
DeferredResult ==
    /\ pc = "unwind_result"
    /\ result' = [result EXCEPT !.derived =
                     IF result.overall.total # 0 \/ result.raw # None \/ result.corrected # None
                       THEN deriveMetrics(result) ELSE None]
    /\ pc' = "reported"
    /\ UNCHANGED <<cfg, world, state, helpers, spans, answer>>

------------------------------------------------------------------------------
(* The other goroutines and the world *)

SamplerGoroutine ==
    /\ pc # "reported" /\ sampler.at = "cancelled"
    /\ sampler' = [sampler EXCEPT !.at = "sent"]
    /\ UNCHANGED <<process, world, state, monitor, profiles, report>>

ProfileGoroutine ==
    /\ pc # "reported" /\ profiles = "running"
    /\ profiles' = "sent"
    /\ UNCHANGED <<process, world, state, monitor, sampler, report>>

CatalystExits ==
    /\ pc # "reported" /\ task = "running"
    /\ task' = "exited"
    /\ UNCHANGED <<process, clock, chain, state, helpers, report>>

\* Transactions of the mempool are still included after Catalyst is gone; after the
\* drain nothing reads the counters before the metrics after the load.
ChainIncludes ==
    /\ pc \in {"loop", "drain", "receive"}
    /\ task # "none" /\ chain.inc < MaxTxs
    /\ \E ok \in {0, 1} : chain' = [inc |-> chain.inc + 1, ok |-> chain.ok + ok]
    /\ UNCHANGED <<process, clock, task, state, helpers, report>>

\* time matters until the load and the window have ended
Tick ==
    /\ monitor.at # "off" /\ clock < MaxTime
    /\ pc = "loop" \/ (pc \in {"drain", "receive"} /\ monitor.at # "over")
    /\ clock' = clock + 1
    /\ UNCHANGED <<process, chain, task, state, helpers, report>>

Finished == pc = "reported" /\ UNCHANGED vars

runScenario ==
    \/ runCelestiaSyncScenario \/ CelestiaCommand
    \/ buildImage \/ CreateProvider \/ LaunchTestnet \/ verifySimappBackends
    \/ startDockerStatsSampler \/ runCommitBenchmark \/ startLoadWindowMonitor
    \/ RunLoadTest \/ stopLoadTestByCondition \/ LoadTestFinished
    \/ DrainCancel \/ DrainReceive \/ CollectActiveProfiles
    \/ SamplerStop \/ CollectAfter \/ FinishScenario
    \/ UnwindNoSampler \/ DeferredTeardown \/ DeferredResult

Next ==
    \/ runScenario \/ Panic
    \/ Observe \/ MonitorTicker \/ MonitorCancelled
    \/ SamplerGoroutine \/ ProfileGoroutine
    \/ CatalystExits \/ ChainIncludes \/ Tick \/ Finished

Spec == Init /\ [][Next]_vars

\* The steps that may never end, as main's context has no deadline: the commands for the
\* image and the Celestia comparison, the launch, which polls until the chain has started,
\* the benchmark, which waits for blocks, and the load test.
Unbounded == {"start", "celestia", "launch", "bench", "load", "loop"}

\* Goroutines are scheduled, time passes, scrapes and profiles have their timeouts, the
\* Docker daemon answers, and a tick of the load test's poll comes.  Of a select with both
\* cases ready Go takes each at random, so a cancelled monitor does not choose its ticker
\* for ever.
FairSpec ==
    /\ Spec
    /\ WF_vars(pc \notin Unbounded /\ runScenario)
    /\ WF_vars(stopLoadTestByCondition \/ LoadTestFinished)
    /\ WF_vars(Observe \/ MonitorTicker) /\ SF_vars(MonitorCancelled)
    /\ WF_vars(SamplerGoroutine) /\ WF_vars(ProfileGoroutine) /\ WF_vars(Tick)

------------------------------------------------------------------------------
(* Properties *)

Returned == pc = "reported" /\ cfg.runner = "testnet"

\* A run whose load was cut short (StoppedByConditionError) is an error exactly
\* when the window was reached too quickly, whatever the monitor observed between
\* the poll that stopped Catalyst and the end of the drain.  Without an error the
\* window holds the target and the minimum duration, and when the figures could be
\* corrected the rates over the run and over the window are over the same seconds
\* and count the same transactions, but for the failed ones: the rate over the run
\* leaves them out and the rate over the window counts them.
StoppedRunsReportTheirWindow ==
    Returned /\ result.stopped /\ ~result.panic =>
      /\ result.error <=> answer.early
      /\ ~result.error =>
           /\ result.window.ok >= monitor.target
           /\ result.window.ended - result.window.started >= cfg.min
           /\ result.corrected # None =>
                /\ result.derived.windowTxs = result.derived.txs + result.corrected.failed
                /\ result.derived.seconds = result.derived.windowSeconds
                /\ result.corrected.ok + result.corrected.failed = result.corrected.total

\* Whatever way runScenario ends, the resource samples taken are in the report; without a
\* panic the window and the profiles are too, and the teardown is asked for everything that
\* the newest state handed back lists.  A panic between the load test's answer and the
\* assignment of its state leaves out a Catalyst task that could not be destroyed, no more.
MeasuredAndTornDown ==
    Returned =>
      /\ sampler.at # "off" => result.samples = "kept"
      /\ ~cfg.keep => known \ result.torn \subseteq (IF result.panic THEN {"catalyst"} ELSE {})
      /\ ~result.panic =>
           /\ monitor.at # "off" => result.window # None
           /\ profiles # "off" => result.profiled

Covered(s, e) == s .. (e - 1)

\* The accounting of a window is exact on the clock: the ABCI busy time of a node is
\* the time covered by its intervals, however many methods share them, so that busy
\* and other time add up to the window; and the parts of every phase before, in and
\* after the window add up to the phase.
WindowAccountingExact ==
    result.window # None =>
      LET w == result.window
      IN /\ \A n \in Nodes :
              LET row == summarizeLoadWindowAccounting(w, n)
              IN row.busy # None =>
                   /\ row.busy = Cardinality(Covered(w.started, w.ended)
                        \cap UNION {Covered(i.s, i.e) : i \in {j \in w.ivals : j.node = n}})
                   /\ row.busy + row.residual = row.seconds
         /\ \A o \in summarizeLoadWindowPhaseOverlaps(spans, w) :
              /\ o.before + o.in + o.after = o.phase.e - o.phase.s
              /\ o.in = Cardinality(Covered(o.phase.s, o.phase.e) \cap Covered(w.started, w.ended))

\* runScenario waits for the chain, or for a command, and for nothing else for ever: a
\* scenario comes to its report unless one of the steps without a deadline never ends, and
\* of the load test only while Catalyst runs and the window has not stopped it.  No wait for
\* the monitor, the sampler or the profile collector is for ever.
ScenarioReported ==
    \/ <>(pc = "reported")
    \/ <>[](pc \in Unbounded /\ (pc = "loop" => task = "running" /\ ~StopCondition))

============================================================================
