-------------------------- MODULE ReportRunnerProofs --------------------------
(***************************************************************************)
(* What the report of a scenario says holds for every set of nodes, every  *)
(* combination of flags, and every interleaving of runScenario with the    *)
(* monitor, the sampler and the profile collector.  IInv adds where each   *)
(* of them is while runScenario is at a step: the monitor's observation is *)
(* final once the target is reached (MonitorInv), the sampler's channel is *)
(* read once (SamplerInv), the teardown lags behind the newest state only  *)
(* from the load test's answer to the end of the audit (StateInv), the     *)
(* window and the profiles are in the result before the measurements after *)
(* the load (ResultInv), and the stop is reported as it happened           *)
(* (AnswerInv, FinalInv).  That merged intervals are as long as the union  *)
(* of the intervals is an induction over finite sets (UnionSecondsFacts).  *)
(***************************************************************************)
EXTENDS ReportRunner, FiniteSetTheorems, WellFoundedInduction, TLAPS

\* The steps of runScenario before the monitor and the profile collector are started,
\* those of the load, those after it, and those of the deferred calls.
Early == {"start", "celestia", "create", "launch", "verify", "before", "bench", "monitor"}
Loading == {"load", "loop", "drain", "receive", "profiles"}
After == {"sampler", "samples", "after", "audit"}
Unwinding == {"unwind_sampler", "unwind_samples", "unwind_teardown", "unwind_result", "reported"}

MonitorFields == {"at", "cancelled", "target", "base", "prev", "last", "done"}
AnswerFields == {"err", "early", "listed", "overall", "failed"}
ResultFields == {"error", "panic", "stopped", "window", "samples", "profiled", "signals", "raw",
                 "overall", "corrected", "derived", "torn"}

\* The variables the invariants speak of keep their types.
TypeInv ==
    /\ pc \in Early \cup Loading \cup After \cup Unwinding
    /\ cfg \in RunFlags
    /\ clock \in Nat
    /\ chain \in [inc : Nat, ok : Nat]
    /\ DOMAIN monitor = MonitorFields
    /\ DOMAIN answer = AnswerFields
    /\ DOMAIN result = ResultFields

\* The counters a node started from are no larger than the chain's.
BaseInv ==
    /\ \A n \in DOMAIN monitor.base :
         /\ monitor.base[n].inc \in Nat /\ monitor.base[n].inc <= chain.inc
         /\ monitor.base[n].ok \in Nat /\ monitor.base[n].ok <= chain.ok
    /\ \A n \in DOMAIN monitor.prev : monitor.prev[n] \in Nat

\* An observation that reached the target is the last one, and it is what the channel holds.
MonitorInv ==
    /\ monitor.at \in {"off", "observe", "select", "over"}
    /\ monitor.last \in Observations
    /\ monitor.done # None => monitor.done = monitor.last /\ monitor.at = "over"
    /\ monitor.last.reached => monitor.at = "over" /\ monitor.last.ok >= monitor.target
    /\ monitor.last.dur /\ monitor.last.reached =>
         monitor.last.ended - monitor.last.started >= cfg.min
    /\ pc \in Early => monitor.at = "off"

\* The sampler's answer is received once, and before the end of the run.
SamplerInv ==
    /\ sampler \in [set : BOOLEAN, at : {"off", "running", "cancelled", "sent", "closed"}]
    /\ sampler.set <=> sampler.at \in {"running", "cancelled", "sent"}
    /\ sampler.at = "closed" => result.samples = "kept"
    /\ pc \in {"bench", "monitor", "sampler", "samples", "unwind_samples"} \cup Loading =>
         sampler.set
    /\ pc \in {"start", "celestia", "create", "launch", "verify", "before", "after", "audit",
               "unwind_teardown", "unwind_result", "reported"} => ~sampler.set

\* What a panic may have kept from the teardown.
Missed == IF result.panic THEN {"catalyst"} ELSE {}

\* The deferred teardown has the newest state, but for the load test's between its answer and
\* the end of the audit; until then it has the launch's.
StateInv ==
    /\ answer.listed \in LoadTestStates
    /\ pc \in Early \cup {"load", "loop"} \/ cfg.bench => held = known /\ answer.listed = {}
    /\ pc \in {"start", "celestia", "create"} => known = {}
    /\ pc \in {"verify", "before", "bench", "monitor"} \cup Loading \cup After => Testnet \subseteq held
    /\ pc \in {"drain", "receive", "profiles"} \cup After =>
         known = IF answer.listed # {} THEN answer.listed ELSE held
    /\ pc \in Unwinding => known \ held \subseteq Missed
    /\ pc \in {"unwind_result", "reported"} /\ ~cfg.keep => known \ result.torn \subseteq Missed

\* The window in the result is the monitor's last observation; the window and the profiles
\* are there once the load is over.
ResultInv ==
    /\ result.window # None =>
         /\ monitor.at = "over"
         /\ result.window \in Observations
         /\ result.window.reached = monitor.last.reached /\ result.window.dur = monitor.last.dur
         /\ result.window.started = monitor.last.started
         /\ result.window.ended = monitor.last.ended
         /\ result.window.inc = monitor.last.inc /\ result.window.ok = monitor.last.ok
    /\ pc \in {"profiles"} \cup After \/ (pc \in Unwinding /\ ~result.panic) =>
         (monitor.at # "off" => result.window # None)
    /\ pc \in Early \cup {"load"} => profiles = "off"
    /\ pc \in After \/ (pc \in Unwinding /\ ~result.panic) =>
         (profiles # "off" => result.profiled /\ profiles = "sent")

\* Only a run with the flag is stopped, on an observation that reached the target, and
\* Catalyst's own figures are empty then.
AnswerInv ==
    /\ pc \in Early \cup {"load", "loop"} => answer.err = None /\ answer.overall = Zero
    /\ cfg.bench => pc \notin Loading \cup {"monitor"} /\ answer.err # "stopped"
    /\ answer.err = "stopped" =>
         /\ cfg.stop /\ monitor.at = "over" /\ monitor.last.reached
         /\ answer.overall = Zero
         /\ answer.early = ~monitor.last.dur
    /\ result.stopped => /\ pc \in {"audit"} \cup Unwinding
                         /\ answer.err = "stopped"
                         /\ result.overall = Zero
    /\ pc \in {"celestia"} => ~result.stopped

\* The figures of a stopped run are those of its window.
Windowed(w) == [total |-> w.inc, inc |-> w.inc, ok |-> w.ok, failed |-> w.inc - w.ok,
                runtime |-> w.ended - w.started, tps |-> w.ok]

FinalInv ==
    pc \in Unwinding /\ result.stopped /\ ~result.panic =>
      /\ result.error = answer.early
      /\ ~result.error => result.corrected \in {None, Windowed(result.window)}
      /\ ~result.error /\ pc = "reported" /\ cfg.runner = "testnet" /\ result.corrected # None =>
           result.derived = deriveMetrics(result)

\* The phases of the run have a beginning and an end on the clock.
SpanInv == spans \in Seq([name : {"before", "load"}, s : Nat, e : Nat])

IInv ==
    /\ TypeInv /\ BaseInv /\ MonitorInv /\ SamplerInv /\ StateInv /\ ResultInv /\ AnswerInv
    /\ FinalInv /\ SpanInv

------------------------------------------------------------------------------
(* The operators *)

\* Every set of naturals that is not empty has a least element.
LEMMA NatMin == ASSUME NEW T \in SUBSET Nat, T # {} PROVE \E x \in T : \A y \in T : x <= y
<1>1. IsWellFoundedOn(OpToRel(<,Nat), Nat)
  BY NatLessThanWellFounded, Zenon
<1> DEFINE R == OpToRel(<,Nat)
<1>2. \E x \in T : \A y \in T : ~ (<<y, x>> \in R)
  <2> HIDE DEF R
  <2>1. IsWellFoundedOn(R, Nat)
    BY <1>1, Zenon DEF R
  <2> QED
    BY <2>1, WFMin
<1>3. R = {ss \in Nat \X Nat : ss[1] < ss[2]}
  BY DEF OpToRel
<1> HIDE DEF R
<1>4. PICK x \in T : \A y \in T : ~ (<<y, x>> \in R)
  BY <1>2
<1>5. ASSUME NEW y \in T PROVE x <= y
  <2>1. ~(<<y, x>> \in R)
    BY <1>4
  <2>2. y \in Nat /\ x \in Nat
    OBVIOUS
  <2>3. y < x => <<y, x>> \in R
    BY <1>3, <2>2
  <2> QED
    BY <2>1, <2>2, <2>3
<1> QED
  BY <1>5

\* A bounded one has a greatest, which is what Maximum chooses.
LEMMA MaximumFacts ==
    ASSUME NEW b \in Nat, NEW S \in SUBSET (0 .. b), S # {}
    PROVE  Maximum(S) \in S /\ \A x \in S : x <= Maximum(S)
<1> DEFINE T == {k \in Nat : \A x \in S : x <= k}
<1>1. b \in T
  OBVIOUS
<1> HIDE DEF T
<1>2. T \in SUBSET Nat /\ T # {}
  BY <1>1 DEF T
<1>3. PICK m \in T : \A y \in T : m <= y
  BY <1>2, NatMin
<1>4. m \in Nat /\ \A x \in S : x <= m
  BY <1>3 DEF T
<1>5. m \in S
  <2> SUFFICES ASSUME m \notin S PROVE FALSE
    OBVIOUS
  <2>1. \A x \in S : x \in Nat /\ x < m
    BY <1>4
  <2>2. PICK z \in S : TRUE
    OBVIOUS
  <2>3. m - 1 \in Nat
    BY <2>1, <2>2, <1>4
  <2>4. \A x \in S : x <= m - 1
    BY <2>1, <1>4
  <2>5. m - 1 \in T
    BY <2>3, <2>4 DEF T
  <2> QED
    BY <2>5, <1>3, <1>4
<1> QED
  BY <1>4, <1>5 DEF Maximum

\* The counts of the metrics are numbers of transactions.
LEMMA CountsFacts ==
    ASSUME NEW b \in Nat, NEW signals,
           \A n \in DOMAIN signals : signals[n].inc \in 0 .. b /\ signals[n].ok \in 0 .. b
    PROVE  LET counts == appMetricLoadCounts(signals) IN counts.inc \in Nat /\ counts.ok \in Nat
<1> DEFINE S == {0} \cup {signals[n].ok : n \in DOMAIN signals}
           ok == Maximum(S)
           I == {ok} \cup {signals[n].inc : n \in DOMAIN signals}
<1>1. S \in SUBSET (0 .. b) /\ S # {}
  OBVIOUS
<1> HIDE DEF S
<1>2. ok \in 0 .. b
  BY <1>1, MaximumFacts
<1> HIDE DEF ok
<1>3. I \in SUBSET (0 .. b) /\ I # {}
  BY <1>2
<1> HIDE DEF I
<1>4. Maximum(I) \in 0 .. b
  BY <1>3, MaximumFacts
<1>5. appMetricLoadCounts(signals) = [inc |-> Maximum(I), ok |-> ok]
  BY DEF appMetricLoadCounts, I, ok, S
<1> QED
  BY <1>2, <1>4, <1>5

\* A node keeps the baseline it has; the others start from what they answer.
LEMMA BaselineFacts ==
    ASSUME BaseInv, TypeInv, NEW up,
           NEW n \in DOMAIN appendMissingUsableMetricBaselineSnapshots(monitor.base,
                                                                       scrapeMetrics(up))
    PROVE  LET b == appendMissingUsableMetricBaselineSnapshots(monitor.base, scrapeMetrics(up))[n]
           IN /\ b.inc \in Nat /\ b.inc <= chain.inc
              /\ b.ok \in Nat /\ b.ok <= chain.ok
<1> USE DEF appendMissingUsableMetricBaselineSnapshots, scrapeMetrics
<1>1. CASE n \in DOMAIN monitor.base
  BY <1>1 DEF BaseInv
<1>2. CASE n \notin DOMAIN monitor.base
  BY <1>2 DEF TypeInv
<1> QED
  BY <1>1, <1>2

\* What a scrape counts since the baseline.
LEMMA ScrapeFacts ==
    ASSUME BaseInv, TypeInv, NEW up
    PROVE  LET metrics == scrapeMetrics(up)
               baseline == appendMissingUsableMetricBaselineSnapshots(monitor.base, metrics)
               counts == appMetricLoadCounts(summarizeStorageSignals(baseline, metrics))
           IN counts.inc \in Nat /\ counts.ok \in Nat
<1> DEFINE metrics == scrapeMetrics(up)
           baseline == appendMissingUsableMetricBaselineSnapshots(monitor.base, metrics)
           signals == summarizeStorageSignals(baseline, metrics)
           b == chain.inc + chain.ok
<1>1. chain.inc \in Nat /\ chain.ok \in Nat
  BY DEF TypeInv
<1>2. \A n \in DOMAIN metrics : metrics[n] = chain
  BY DEF scrapeMetrics
<1>3. \A n \in DOMAIN baseline :
        /\ baseline[n].inc \in Nat /\ baseline[n].inc <= chain.inc
        /\ baseline[n].ok \in Nat /\ baseline[n].ok <= chain.ok
  BY BaselineFacts
<1> HIDE DEF baseline, metrics
<1>4. \A n \in DOMAIN signals : signals[n].inc \in 0 .. b /\ signals[n].ok \in 0 .. b
  BY <1>1, <1>2, <1>3 DEF summarizeStorageSignals
<1>5. b \in Nat
  BY <1>1
<1> HIDE DEF signals, b
<1>6. appMetricLoadCounts(signals).inc \in Nat /\ appMetricLoadCounts(signals).ok \in Nat
  BY <1>4, <1>5, CountsFacts
<1> QED
  BY <1>6 DEF signals, baseline, metrics

\* The intervals of a scrape are intervals of a node's methods.
LEMMA IntervalsFacts ==
    ASSUME BaseInv, TypeInv, MonitorInv, NEW up \in SUBSET Nodes, NEW moved \in [up -> Activities]
    PROVE  appendMetricDeltaWallClockIntervals(monitor.prev, monitor.last.ivals, moved) \in
             {I \in SUBSET Intervals : IsFiniteSet(I)}
<1> DEFINE pairs == {q \in (DOMAIN moved) \X (UNION Activities) :
                       /\ q[1] \in DOMAIN monitor.prev /\ monitor.prev[q[1]] < clock
                       /\ q[2] \in moved[q[1]]}
           interval(p) == [node |-> p[1], method |-> p[2], s |-> monitor.prev[p[1]], e |-> clock]
           new == {interval(p) : p \in pairs}
<1>1. monitor.last.ivals \in SUBSET Intervals /\ IsFiniteSet(monitor.last.ivals)
  BY DEF MonitorInv, Observations
<1>2. ASSUME NEW p \in pairs PROVE interval(p) \in Intervals
  BY DEF TypeInv, BaseInv, Intervals
<1>3. IsFiniteSet(new)
  <2> DEFINE f == [p \in pairs |-> interval(p)]
  <2>1. IsFiniteSet(DOMAIN moved) /\ IsFiniteSet(UNION Activities)
    BY RunnerAssumption, FS_Subset
  <2>2. IsFiniteSet((DOMAIN moved) \X (UNION Activities))
    BY <2>1, FS_Product
  <2>3. IsFiniteSet(pairs)
    BY <2>2, FS_Subset
  <2>4. f \in Surjection(pairs, new)
    <3> HIDE DEF pairs, interval
    <3> QED
      BY DEF Surjection
  <2> HIDE DEF pairs, f, new
  <2> QED
    BY <2>3, <2>4, FS_Surjection
<1>4. appendMetricDeltaWallClockIntervals(monitor.prev, monitor.last.ivals, moved)
        = monitor.last.ivals \cup new
  BY DEF appendMetricDeltaWallClockIntervals
<1>5. new \in SUBSET Intervals
  <2> HIDE DEF pairs, interval
  <2> QED
    BY <1>2
<1> HIDE DEF new
<1> QED
  BY <1>1, <1>3, <1>4, <1>5, FS_Union

\* What an observation is, and what it leaves alone.
LEMMA ObserveFacts ==
    ASSUME BaseInv, TypeInv, MonitorInv, NEW up \in SUBSET Nodes, NEW moved \in [up -> Activities]
    PROVE  LET seen == observe(moved)
           IN /\ DOMAIN seen = MonitorFields
              /\ seen.at = monitor.at /\ seen.target = monitor.target /\ seen.done = monitor.done
              /\ seen.base = appendMissingUsableMetricBaselineSnapshots(monitor.base,
                                                                        scrapeMetrics(up))
              /\ DOMAIN seen.prev = up \cup DOMAIN monitor.prev
              /\ \A n \in DOMAIN seen.prev : seen.prev[n] \in Nat
              /\ seen.last \in Observations
              /\ seen.last.reached => seen.last.ok >= monitor.target
              /\ seen.last.dur => seen.last.ended - seen.last.started >= cfg.min
<1> DEFINE seen == observe(moved)
           metrics == scrapeMetrics(up)
           baseline == appendMissingUsableMetricBaselineSnapshots(monitor.base, metrics)
           counts == appMetricLoadCounts(summarizeStorageSignals(baseline, metrics))
           ivals == appendMetricDeltaWallClockIntervals(monitor.prev, monitor.last.ivals, moved)
           last == [reached |-> counts.ok >= monitor.target,
                    dur |-> clock - monitor.last.started >= cfg.min,
                    err |-> /\ counts.ok >= monitor.target
                            /\ ~(clock - monitor.last.started >= cfg.min),
                    started |-> monitor.last.started, ended |-> clock,
                    inc |-> counts.inc, ok |-> counts.ok, ivals |-> ivals]
<1>1. DOMAIN moved = up
  OBVIOUS
<1>2. counts.inc \in Nat /\ counts.ok \in Nat
  BY ScrapeFacts
<1>3. ivals \in {I \in SUBSET Intervals : IsFiniteSet(I)}
  BY IntervalsFacts
<1>4. clock \in Nat /\ monitor.last.started \in Nat
  BY DEF TypeInv, MonitorInv, Observations
<1>5. observe(moved) = [monitor EXCEPT
          !.base = baseline,
          !.prev = [n \in up \cup DOMAIN monitor.prev |->
                      IF n \in up THEN clock ELSE monitor.prev[n]],
          !.last = last]
  BY <1>1 DEF observe
<1> HIDE DEF counts, ivals, baseline
<1>6. last \in Observations
  BY <1>2, <1>3, <1>4 DEF Observations
<1>7. last.reached => last.ok >= monitor.target
  OBVIOUS
<1>8. last.dur => last.ended - last.started >= cfg.min
  OBVIOUS
<1> HIDE DEF last
<1>9. DOMAIN monitor = MonitorFields
  BY DEF TypeInv
<1>10. /\ DOMAIN seen = MonitorFields
       /\ seen.at = monitor.at /\ seen.target = monitor.target /\ seen.done = monitor.done
       /\ seen.base = baseline /\ seen.last = last
       /\ seen.prev = [n \in up \cup DOMAIN monitor.prev |->
                         IF n \in up THEN clock ELSE monitor.prev[n]]
  BY <1>5, <1>9 DEF MonitorFields
<1>11. \A n \in DOMAIN seen.prev : seen.prev[n] \in Nat
  BY <1>4, <1>10 DEF BaseInv
<1> HIDE DEF seen
<1> QED
  BY <1>6, <1>7, <1>8, <1>10, <1>11 DEF baseline, metrics, seen

\* A stopped run whose window is accepted has the window's figures, or none.
LEMMA CorrectedFacts ==
    ASSUME NEW raw, NEW signals, NEW w, loadWindowAccepted(w)
    PROVE  summarizeCorrectedLoadTest(Zero, raw, signals, TRUE, w) \in {None, Windowed(w)}
<1> DEFINE counts == appMetricLoadCounts(signals)
           total == Larger(Zero.total, counts.inc)
           measured ==
               IF raw # None
                 THEN [Zero EXCEPT !.total = raw.queried, !.inc = raw.found,
                                   !.ok = raw.ok, !.failed = raw.found - raw.ok,
                                   !.tps = IF raw.tps > 0 THEN raw.tps ELSE @]
               ELSE IF shouldUseAppMetricLoadCounts(Zero, counts)
                 THEN [Zero EXCEPT !.total = total, !.inc = counts.inc,
                                   !.ok = counts.ok, !.failed = total - counts.ok]
               ELSE Zero
<1> HIDE DEF counts, total
<1>1. measured.runtime = 0
  BY DEF Zero
<1> HIDE DEF measured
<1>2. summarizeCorrectedLoadTest(Zero, raw, signals, TRUE, w) =
        IF Zero.total = 0 /\ raw = None /\ DOMAIN signals = {} THEN None
        ELSE IF measured.runtime = 0 /\ TRUE /\ loadWindowAccepted(w) THEN Windowed(w)
        ELSE [measured EXCEPT !.tps = IF @ = 0 /\ measured.runtime > 0 THEN measured.ok ELSE @]
  BY Zenon DEF summarizeCorrectedLoadTest, measured, counts, total, Windowed
<1> QED
  BY <1>1, <1>2

\* The derived metrics depend on the figures of the report alone.
LEMMA DeriveFacts ==
    ASSUME NEW r, NEW q, r.window = q.window, r.corrected = q.corrected, r.raw = q.raw,
           r.overall = q.overall
    PROVE  deriveMetrics(r) = deriveMetrics(q)
BY DEF deriveMetrics, loadCounts

------------------------------------------------------------------------------
(* Merging intervals *)

\* A family that has every finite set whose smaller subsets it has, has them all.
LEMMA SubsetInduction ==
    ASSUME NEW S, IsFiniteSet(S), NEW Good,
           \A T \in SUBSET S : (\A U \in SUBSET T : U # T => U \in Good) => T \in Good
    PROVE  S \in Good
<1> DEFINE Bad == {U \in SUBSET S : U \notin Good}
           D == {Cardinality(U) : U \in Bad}
<1> SUFFICES ASSUME S \notin Good PROVE FALSE
  OBVIOUS
<1>1. \A U \in SUBSET S : IsFiniteSet(U) /\ Cardinality(U) \in Nat
  BY FS_Subset, FS_CardinalityType
<1>2. D \in SUBSET Nat /\ D # {}
  BY <1>1
<1>3. PICK n \in D : \A k \in D : n <= k
  BY <1>2, NatMin
<1>4. PICK T \in Bad : n = Cardinality(T)
  OBVIOUS
<1>5. ASSUME NEW U \in SUBSET T, U # T PROVE U \in Good
  <2>1. U \in SUBSET S /\ IsFiniteSet(T)
    BY <1>1
  <2>2. Cardinality(U) <= Cardinality(T) /\ Cardinality(U) # Cardinality(T)
    BY <1>5, <2>1, FS_Subset
  <2>3. Cardinality(U) \notin D
    <3>1. Cardinality(U) \in Nat /\ n \in Nat
      BY <1>1, <1>2, <2>1
    <3> HIDE DEF D
    <3> QED
      BY <1>3, <1>4, <2>2, <3>1
  <2> QED
    BY <2>1, <2>3
<1> QED
  BY <1>4, <1>5

\* One of finitely many intervals comes last.
LEMMA LastFacts ==
    ASSUME NEW S, IsFiniteSet(S), S # {}, \A i \in S : i.s \in Nat /\ i.e \in Nat
    PROVE  /\ LastInterval(S) \in S
           /\ \A j \in S : j.s <= LastInterval(S).s
<1> DEFINE Is(i, T) == i \in T /\ \A j \in T : j.s < i.s \/ (j.s = i.s /\ j.e <= i.e)
           Good == {T \in SUBSET S : T # {} => \E i : Is(i, T)}
<1>1. ASSUME NEW T \in SUBSET S, \A U \in SUBSET T : U # T => U \in Good
      PROVE  T \in Good
  <2> SUFFICES ASSUME T # {} PROVE \E i : Is(i, T)
    OBVIOUS
  <2>1. PICK x \in T : TRUE
    OBVIOUS
  <2> DEFINE U == T \ {x}
  <2>2. U \in Good
    <3>1. U \in SUBSET T /\ U # T
      OBVIOUS
    <3> HIDE DEF U, Good
    <3> QED
      BY <1>1, <3>1
  <2>3. CASE U = {}
    <3>1. T = {x}
      BY <2>3
    <3> QED
      BY <3>1
  <2>4. CASE U # {}
    <3>1. PICK m : Is(m, U)
      BY <2>2, <2>4
    <3>2. /\ x.s \in Nat /\ x.e \in Nat /\ m.s \in Nat /\ m.e \in Nat
          /\ \A j \in T : j.s \in Nat /\ j.e \in Nat
      BY <3>1
    <3>3. CASE x.s < m.s \/ (x.s = m.s /\ x.e <= m.e)
      <4>1. Is(m, T)
        BY <3>1, <3>3
      <4> QED
        BY <4>1
    <3>4. CASE ~(x.s < m.s \/ (x.s = m.s /\ x.e <= m.e))
      <4>1. Is(x, T)
        BY <3>1, <3>2, <3>4
      <4> QED
        BY <4>1
    <3> QED
      BY <3>3, <3>4
  <2> QED
    BY <2>3, <2>4
<1>2. S \in Good
  <2> HIDE DEF Good
  <2> QED
    BY <1>1, SubsetInduction
<1>3. \E i \in S : \A j \in S : j.s < i.s \/ (j.s = i.s /\ j.e <= i.e)
  BY <1>2
<1>4. /\ LastInterval(S) \in S
      /\ \A j \in S : \/ j.s < LastInterval(S).s
                      \/ j.s = LastInterval(S).s /\ j.e <= LastInterval(S).e
  BY <1>3 DEF LastInterval
<1> QED
  BY <1>4

\* The merge of no intervals.
NoneMerged == [before |-> 0, s |-> 0, e |-> 0]

LEMMA NoneMergedFacts ==
    /\ NoneMerged \in [before : Nat, s : Nat, e : Nat]
    /\ NoneMerged.before = 0 /\ NoneMerged.s = 0 /\ NoneMerged.e = 0 /\ ~(NoneMerged.e > 0)
  BY DEF NoneMerged

\* What mergeClippedClockIntervals computes, without its recursive function.
LEMMA MergeEquation ==
    ASSUME NEW S, IsFiniteSet(S), \A i \in S : i.s \in Nat /\ i.e \in Nat
    PROVE  \E f : /\ mergeClippedClockIntervals(S) = f[S]
                  /\ f[{}] = NoneMerged
                  /\ \A T \in SUBSET S : T # {} =>
                       f[T] = mergeInterval(LastInterval(T), f[T \ {LastInterval(T)}])
<1> DEFINE Dom(n) == {T \in SUBSET S : Cardinality(T) <= n}
           Value(f, T) == IF T = {} THEN NoneMerged
                          ELSE mergeInterval(LastInterval(T), f[T \ {LastInterval(T)}])
           Def(f, n) == f = [T \in Dom(n) |-> Value(f, T)]
<1>1. \A T \in SUBSET S : IsFiniteSet(T) /\ Cardinality(T) \in Nat
  BY FS_Subset, FS_CardinalityType
<1>2. ASSUME NEW T \in SUBSET S, T # {}
      PROVE  /\ T \ {LastInterval(T)} \in SUBSET S
             /\ Cardinality(T \ {LastInterval(T)}) = Cardinality(T) - 1
  <2>1. LastInterval(T) \in T
    BY <1>1, <1>2, LastFacts
  <2> QED
    BY <1>1, <2>1, FS_RemoveElement
<1>3. \A n \in Nat : \E f : Def(f, n)
  <2> DEFINE B == {n \in Nat : ~\E f : Def(f, n)}
  <2> SUFFICES ASSUME B # {} PROVE FALSE
    OBVIOUS
  <2>1. PICK n \in B : \A k \in B : n <= k
    BY NatMin
  <2>2. n \in Nat /\ ~\E f : Def(f, n)
    OBVIOUS
  <2>3. CASE n = 0
    <3>1. \A T \in Dom(0) : T = {}
      <4>1. \A T \in SUBSET S : Cardinality(T) <= 0 => T = {}
        BY <1>1, FS_EmptySet
      <4> QED
        BY <4>1
    <3> DEFINE f == [T \in Dom(0) |-> NoneMerged]
    <3> HIDE DEF Dom
    <3>2. Def(f, 0)
      BY <3>1
    <3> QED
      BY <2>2, <2>3, <3>2
  <2>4. CASE n # 0
    <3>1. n - 1 \in Nat /\ n - 1 \notin B
      <4> HIDE DEF B
      <4> QED
        BY <2>1, <2>2, <2>4
    <3>2. PICK g : Def(g, n - 1)
      BY <3>1
    <3> HIDE DEF B
    <3> DEFINE h == [T \in Dom(n) |-> IF T \in Dom(n - 1) THEN g[T] ELSE Value(g, T)]
    <3>3. ASSUME NEW T \in Dom(n) PROVE h[T] = Value(h, T)
      <4>1. h[T] = Value(g, T)
        <5> HIDE DEF Value, Dom
        <5> QED
          BY <3>2
      <4>2. CASE T = {}
        BY <4>1, <4>2
      <4>3. CASE T # {}
        <5> DEFINE R == T \ {LastInterval(T)}
        <5>1. R \in Dom(n - 1)
          BY <1>1, <1>2, <2>2, <4>3
        <5>2. R \in Dom(n)
          BY <1>1, <5>1, <2>2
        <5> HIDE DEF R, Dom, Value
        <5>3. h[R] = g[R]
          BY <5>1, <5>2
        <5> HIDE DEF h
        <5> QED
          BY <4>1, <4>3, <5>3 DEF R, Value
      <4> QED
        BY <4>2, <4>3
    <3>4. h = [T \in Dom(n) |-> h[T]]
      <4> HIDE DEF Dom, Value
      <4> QED
        OBVIOUS
    <3> HIDE DEF h, Dom, Value
    <3>5. Def(h, n)
      BY <3>3, <3>4
    <3> QED
      BY <2>2, <3>5
  <2> QED
    BY <2>3, <2>4
<1> DEFINE Whole(f) == f = [T \in SUBSET S |-> Value(f, T)]
           iter == CHOOSE f : Whole(f)
<1>4. \E f : Whole(f)
  <2>1. PICK f : Def(f, Cardinality(S))
    BY <1>1, <1>3
  <2>2. Dom(Cardinality(S)) = SUBSET S
    <3>1. \A T \in SUBSET S : Cardinality(T) <= Cardinality(S)
      BY FS_Subset
    <3> QED
      BY <3>1
  <2> HIDE DEF Dom, Value
  <2>3. Whole(f)
    BY <2>1, <2>2
  <2> QED
    BY <2>3
<1>5. mergeClippedClockIntervals(S) = iter[S]
  BY Zenon DEF mergeClippedClockIntervals, MapThenFoldSet, NoneMerged
<1>6. Whole(iter)
  <2> HIDE DEF Value
  <2> QED
    BY <1>4
<1> HIDE DEF iter
<1>7. \A T \in SUBSET S : iter[T] = Value(iter, T)
  <2> HIDE DEF Value
  <2> QED
    BY <1>6
<1> QED
  BY <1>5, <1>7

\* The points of the clock that some of the intervals cover.
Union(S) == UNION {Covered(i.s, i.e) : i \in S}

\* The next interval adds to the length of the merged ones what it alone covers.
LEMMA MergeIntervalFacts ==
    ASSUME NEW R, NEW i, i.s \in Nat, i.e \in Nat, i.s < i.e,
           \A j \in R : j.s \in Nat /\ j.e \in Nat /\ j.s <= i.s,
           NEW m \in [before : Nat, s : Nat, e : Nat], m.s <= m.e,
           IsFiniteSet(Union(R)), Cardinality(Union(R)) = m.before + (m.e - m.s),
           \A j \in R : j.e <= m.e,
           m = NoneMerged \/ \E j \in R : j.e = m.e
    PROVE  LET r == mergeInterval(i, m)
           IN /\ r \in [before : Nat, s : Nat, e : Nat] /\ r.s <= r.e
              /\ IsFiniteSet(Union(R \cup {i}))
              /\ Cardinality(Union(R \cup {i})) = r.before + (r.e - r.s)
              /\ \A j \in R \cup {i} : j.e <= r.e
              /\ \E j \in R \cup {i} : j.e = r.e
<1> DEFINE r == mergeInterval(i, m)
           from == IF i.s <= m.e THEN m.e ELSE i.s
           more == from .. (i.e - 1)
<1>0. m.before \in Nat /\ m.s \in Nat /\ m.e \in Nat
  OBVIOUS
<1>1. r = IF i.s <= m.e
            THEN [before |-> m.before, s |-> m.s, e |-> IF m.e < i.e THEN i.e ELSE m.e]
            ELSE [before |-> m.before + (m.e - m.s), s |-> i.s, e |-> i.e]
  BY DEF mergeInterval, maxTime, Larger
<1>2. /\ r \in [before : Nat, s : Nat, e : Nat] /\ r.s <= r.e
      /\ r.e = IF i.s <= m.e /\ i.e <= m.e THEN m.e ELSE i.e
      /\ r.before + (r.e - r.s)
           = m.before + (m.e - m.s) + IF i.e > from THEN i.e - from ELSE 0
  BY <1>0, <1>1
<1>3. from \in Nat
  BY <1>0
<1>4. IsFiniteSet(more) /\ Cardinality(more) = IF i.e > from THEN i.e - from ELSE 0
  <2> HIDE DEF from
  <2>1. from \in Int /\ i.e - 1 \in Int
    BY <1>3
  <2>2. IsFiniteSet(more) /\ Cardinality(more) = IF from > i.e - 1 THEN 0 ELSE (i.e - 1) - from + 1
    BY <2>1, FS_Interval
  <2> HIDE DEF more
  <2> QED
    BY <2>2, <1>3
<1>5. \A x \in Union(R) : x \in Int /\ x < m.e
  BY <1>0 DEF Union, Covered
<1>6. Union(R) \cap more = {}
  BY <1>0, <1>5
<1>7. Union(R \cup {i}) = Union(R) \cup Covered(i.s, i.e)
  BY DEF Union
<1>8. Union(R) \cup Covered(i.s, i.e) = Union(R) \cup more
  <2>1. CASE ~(i.s <= m.e)
    BY <2>1 DEF Covered
  <2>2. CASE i.s <= m.e
    <3>1. more \subseteq Covered(i.s, i.e)
      BY <1>0, <2>2 DEF Covered
    <3>2. ASSUME NEW x \in Covered(i.s, i.e), x \notin more PROVE x \in Union(R)
      <4>1. x \in Int /\ i.s <= x /\ x < m.e
        BY <1>0, <2>2, <3>2 DEF Covered
      <4>2. m # NoneMerged
        <5>1. m.e > 0
          BY <1>0, <4>1
        <5> QED
          BY <5>1, NoneMergedFacts, Zenon
      <4>3. PICK j \in R : j.e = m.e
        BY <4>2
      <4>4. x \in Covered(j.s, j.e)
        BY <1>0, <4>1, <4>3 DEF Covered
      <4> QED
        BY <4>4 DEF Union
    <3> QED
      BY <3>1, <3>2
  <2> QED
    BY <2>1, <2>2
<1> HIDE DEF more
<1>9. /\ IsFiniteSet(Union(R) \cup more)
      /\ Cardinality(Union(R) \cup more) = Cardinality(Union(R)) + Cardinality(more)
  <2>1. /\ IsFiniteSet(Union(R) \cup more)
        /\ Cardinality(Union(R) \cup more)
             = Cardinality(Union(R)) + Cardinality(more) - Cardinality(Union(R) \cap more)
    BY <1>4, FS_Union
  <2>2. Cardinality(Union(R) \cap more) = 0
    BY <1>6, FS_EmptySet
  <2>3. Cardinality(Union(R)) \in Nat /\ Cardinality(more) \in Nat
    BY <1>4, FS_CardinalityType
  <2> QED
    BY <2>1, <2>2, <2>3
<1>10. \A j \in R \cup {i} : j.e <= r.e
  <2> HIDE DEF r
  <2> QED
    BY <1>0, <1>2
<1>11. \E j \in R \cup {i} : j.e = r.e
  <2>1. CASE i.s <= m.e /\ i.e <= m.e
    <3>1. r.e = m.e
      BY <1>2, <2>1
    <3>2. m # NoneMerged
      <4>1. m.e > 0
        BY <1>0, <2>1
      <4> QED
        BY <4>1, NoneMergedFacts, Zenon
    <3> HIDE DEF r
    <3> QED
      BY <3>1, <3>2
  <2>2. CASE ~(i.s <= m.e /\ i.e <= m.e)
    <3>1. r.e = i.e
      BY <1>2, <2>2
    <3> HIDE DEF r
    <3> QED
      BY <3>1
  <2> QED
    BY <2>1, <2>2
<1> HIDE DEF r, from
<1>12. Cardinality(Union(R \cup {i})) = r.before + (r.e - r.s)
  BY <1>2, <1>4, <1>7, <1>8, <1>9
<1> QED
  BY <1>2, <1>7, <1>8, <1>9, <1>10, <1>11, <1>12 DEF r

\* The union of finitely many intervals is as long as the merged intervals.
LEMMA UnionSecondsFacts ==
    ASSUME NEW S, IsFiniteSet(S), \A i \in S : i.s \in Nat /\ i.e \in Nat /\ i.s < i.e
    PROVE  /\ IsFiniteSet(Union(S))
           /\ clippedClockIntervalUnionSeconds(S) = Cardinality(Union(S))
<1>1. PICK f : /\ mergeClippedClockIntervals(S) = f[S]
               /\ f[{}] = NoneMerged
               /\ \A T \in SUBSET S : T # {} =>
                    f[T] = mergeInterval(LastInterval(T), f[T \ {LastInterval(T)}])
  BY MergeEquation
<1> DEFINE Is(T) == /\ f[T] \in [before : Nat, s : Nat, e : Nat] /\ f[T].s <= f[T].e
                    /\ IsFiniteSet(Union(T))
                    /\ Cardinality(Union(T)) = f[T].before + (f[T].e - f[T].s)
                    /\ \A j \in T : j.e <= f[T].e
                    /\ f[T] = NoneMerged \/ \E j \in T : j.e = f[T].e
           Good == {T \in SUBSET S : Is(T)}
<1>2. ASSUME NEW T \in SUBSET S, \A U \in SUBSET T : U # T => U \in Good
      PROVE  T \in Good
  <2>1. CASE T = {}
    <3>1. f[T] = NoneMerged /\ Union(T) = {}
      BY <1>1, <2>1 DEF Union
    <3>2. IsFiniteSet(Union(T)) /\ Cardinality(Union(T)) = 0
      BY <3>1, FS_EmptySet
    <3>3. 0 <= 0 /\ 0 = 0 + (0 - 0)
      OBVIOUS
    <3> QED
      BY <2>1, <3>1, <3>2, <3>3, NoneMergedFacts
  <2>2. CASE T # {}
    <3> DEFINE i == LastInterval(T)
               R == T \ {i}
    <3>1. i \in T /\ \A j \in T : j.s <= i.s
      <4>1. IsFiniteSet(T)
        BY FS_Subset
      <4> QED
        BY <2>2, <4>1, LastFacts
    <3>2. f[T] = mergeInterval(i, f[R])
      BY <1>1, <2>2
    <3> HIDE DEF i
    <3>3. R \cup {i} = T /\ R \in SUBSET T /\ R # T
      BY <3>1
    <3> HIDE DEF R
    <3>4. Is(R)
      <4>1. R \in Good
        <5> HIDE DEF Good
        <5> QED
          BY <1>2, <3>3
      <4> QED
        BY <4>1
    <3> DEFINE m == f[R]
               r == mergeInterval(i, m)
    <3>5. /\ i.s \in Nat /\ i.e \in Nat /\ i.s < i.e
          /\ \A j \in R : j.s \in Nat /\ j.e \in Nat /\ j.s <= i.s
      BY <3>1, <3>3
    <3>6. /\ m \in [before : Nat, s : Nat, e : Nat] /\ m.s <= m.e
          /\ IsFiniteSet(Union(R)) /\ Cardinality(Union(R)) = m.before + (m.e - m.s)
          /\ \A j \in R : j.e <= m.e
          /\ m = NoneMerged \/ \E j \in R : j.e = m.e
      BY <3>4
    <3>7. f[T] = r
      BY <3>2
    <3> HIDE DEF m
    <3>8. /\ r \in [before : Nat, s : Nat, e : Nat] /\ r.s <= r.e
          /\ IsFiniteSet(Union(R \cup {i}))
          /\ Cardinality(Union(R \cup {i})) = r.before + (r.e - r.s)
          /\ \A j \in R \cup {i} : j.e <= r.e
          /\ \E j \in R \cup {i} : j.e = r.e
      BY <3>5, <3>6, MergeIntervalFacts
    <3> HIDE DEF r
    <3> QED
      BY <3>3, <3>7, <3>8
  <2> QED
    BY <2>1, <2>2
<1>3. S \in Good
  <2> HIDE DEF Good
  <2> QED
    BY <1>2, SubsetInduction
<1> QED
  BY <1>1, <1>3 DEF clippedClockIntervalUnionSeconds

\* The clipped intervals of a node cover what its intervals cover of the window.
LEMMA ClippedFacts ==
    ASSUME NEW I \in SUBSET Intervals, IsFiniteSet(I), NEW n, NEW ws \in Nat, NEW we \in Nat
    PROVE  LET C == clippedIntervals(I, n, ws, we)
           IN /\ IsFiniteSet(C)
              /\ \A c \in C : c.s \in Nat /\ c.e \in Nat /\ c.s < c.e /\ ws <= c.s /\ c.e <= we
              /\ Union(C) = Covered(ws, we) \cap Union({j \in I : j.node = n})
<1> DEFINE C == clippedIntervals(I, n, ws, we)
           mine == {i \in I : i.node = n /\ i.e > i.s}
           clip(i) == clipLoadWindowInterval(i, ws, we)
           All == {clip(i) : i \in mine}
<1>1. C = {c \in All : c.e > c.s}
  BY DEF clippedIntervals
<1>2. \A i \in I : i.s \in Nat /\ i.e \in Nat
  BY DEF Intervals
<1>3. ASSUME NEW i \in I
      PROVE  /\ clip(i).s = IF i.s < ws THEN ws ELSE i.s
             /\ clip(i).e = IF i.e < we THEN i.e ELSE we
  BY DEF clipLoadWindowInterval, maxTime, minTime, Larger, Smaller
<1>4. IsFiniteSet(C)
  <2>1. IsFiniteSet(mine)
    BY FS_Subset
  <2> DEFINE f == [i \in mine |-> clip(i)]
  <2>2. f \in Surjection(mine, All)
    <3> HIDE DEF clip, mine
    <3> QED
      BY DEF Surjection
  <2> HIDE DEF mine, All, f
  <2>3. IsFiniteSet(All)
    BY <2>1, <2>2, FS_Surjection
  <2> QED
    BY <1>1, <2>3, FS_Subset
<1>5. ASSUME NEW c \in C
      PROVE  c.s \in Nat /\ c.e \in Nat /\ c.s < c.e /\ ws <= c.s /\ c.e <= we
  <2>1. PICK i \in mine : c = clip(i)
    BY <1>1
  <2>2. c.e > c.s
    BY <1>1
  <2> HIDE DEF clip, C, All
  <2> QED
    BY <1>2, <1>3, <2>1, <2>2
<1>6. ASSUME NEW x \in Union(C) PROVE x \in Covered(ws, we) \cap Union({j \in I : j.node = n})
  <2>1. PICK c \in C : x \in Covered(c.s, c.e)
    BY DEF Union
  <2>2. PICK i \in mine : c = clip(i)
    BY <1>1
  <2> HIDE DEF clip, C, All
  <2>3. x \in Covered(ws, we) /\ x \in Covered(i.s, i.e)
    BY <1>2, <1>3, <2>1, <2>2 DEF Covered
  <2> QED
    BY <2>3 DEF Union
<1>7. ASSUME NEW x \in Covered(ws, we) \cap Union({j \in I : j.node = n}) PROVE x \in Union(C)
  <2>1. PICK i \in {j \in I : j.node = n} : x \in Covered(i.s, i.e)
    BY DEF Union
  <2> HIDE DEF clip
  <2>2. x \in Covered(clip(i).s, clip(i).e) /\ i.e > i.s /\ clip(i).e > clip(i).s
    BY <1>2, <1>3, <2>1 DEF Covered
  <2>3. clip(i) \in C
    BY <1>1, <2>1, <2>2
  <2> QED
    BY <2>2, <2>3 DEF Union
<1> HIDE DEF C
<1>8. Union(C) = Covered(ws, we) \cap Union({j \in I : j.node = n})
  BY <1>6, <1>7
<1> QED
  BY <1>4, <1>5, <1>8 DEF C

\* The row of a node is exact.
LEMMA RowFacts ==
    ASSUME NEW w \in Observations, NEW n \in Nodes,
           summarizeLoadWindowAccounting(w, n).busy # None
    PROVE  LET row == summarizeLoadWindowAccounting(w, n)
           IN /\ row.busy = Cardinality(Covered(w.started, w.ended)
                               \cap UNION {Covered(i.s, i.e) : i \in {j \in w.ivals : j.node = n}})
              /\ row.busy + row.residual = row.seconds
<1> DEFINE row == summarizeLoadWindowAccounting(w, n)
           ws == w.started
           we == w.ended
           C == clippedIntervals(w.ivals, n, ws, we)
           busy == clippedClockIntervalUnionSeconds(C)
           seen == Covered(ws, we) \cap Union({j \in w.ivals : j.node = n})
<1>1. ws \in Nat /\ we \in Nat /\ w.ivals \in SUBSET Intervals /\ IsFiniteSet(w.ivals)
  BY DEF Observations
<1>2. row = [seconds |-> we - ws,
             busy |-> IF C # {} THEN busy ELSE None,
             residual |-> IF C # {} THEN Larger(0, (we - ws) - busy) ELSE None]
  BY DEF summarizeLoadWindowAccounting, loadWindowIntervalClassUnion
<1> HIDE DEF ws, we
<1>3. /\ IsFiniteSet(C)
      /\ \A c \in C : c.s \in Nat /\ c.e \in Nat /\ c.s < c.e /\ ws <= c.s /\ c.e <= we
      /\ Union(C) = seen
  BY <1>1, ClippedFacts
<1> HIDE DEF C, seen
<1>4. busy = Cardinality(seen)
  BY <1>3, UnionSecondsFacts
<1> HIDE DEF busy
<1>5. /\ C # {} /\ row.busy = busy /\ row.seconds = we - ws
      /\ row.residual = Larger(0, (we - ws) - busy)
  BY <1>2
<1>6. ws < we
  BY <1>1, <1>3, <1>5
<1>7. busy \in Nat /\ busy <= we - ws
  <2>1. ws \in Int /\ we - 1 \in Int
    BY <1>1
  <2>2. IsFiniteSet(ws .. (we - 1)) /\ Cardinality(ws .. (we - 1)) = we - ws
    <3>1. /\ IsFiniteSet(ws .. (we - 1))
          /\ Cardinality(ws .. (we - 1)) = IF ws > we - 1 THEN 0 ELSE (we - 1) - ws + 1
      BY <2>1, FS_Interval
    <3> QED
      BY <1>1, <1>6, <3>1
  <2>3. seen \in SUBSET (ws .. (we - 1))
    BY DEF seen, Covered
  <2> QED
    BY <1>4, <2>2, <2>3, FS_Subset, FS_CardinalityType
<1> HIDE DEF row
<1>8. row.busy + row.residual = row.seconds
  BY <1>1, <1>5, <1>6, <1>7 DEF Larger
<1>9. seen = Covered(w.started, w.ended)
               \cap UNION {Covered(i.s, i.e) : i \in {j \in w.ivals : j.node = n}}
  BY DEF seen, Union, ws, we
<1> QED
  BY <1>4, <1>5, <1>8, <1>9 DEF row

\* A phase is cut into the parts before, in and after the window.
LEMMA OverlapFacts ==
    ASSUME NEW w, w.started \in Nat, w.ended \in Nat, w.started < w.ended,
           NEW p, p.s \in Nat, p.e \in Nat, p.s < p.e
    PROVE  LET o == phaseOverlap(p, w)
           IN /\ o.before + o.in + o.after = o.phase.e - o.phase.s
              /\ o.in = Cardinality(Covered(o.phase.s, o.phase.e) \cap Covered(w.started, w.ended))
<1> DEFINE o == phaseOverlap(p, w)
           first == IF p.s < w.started THEN w.started ELSE p.s
           end == IF p.e < w.ended THEN p.e ELSE w.ended
<1>1. /\ o.phase = p
      /\ o.before = Larger(0, Smaller(p.e, w.started) - p.s)
      /\ o.in = Larger(0, Smaller(p.e, w.ended) - Larger(p.s, w.started))
      /\ o.after = Larger(0, p.e - Larger(p.s, w.ended))
  BY DEF phaseOverlap, overlapSeconds, minTime, maxTime
<1> HIDE DEF o
<1>2. o.before + o.in + o.after = o.phase.e - o.phase.s
  <2>1. ASSUME NEW s \in Nat, NEW e \in Nat, NEW ws \in Nat, NEW we \in Nat, s < e, ws < we
        PROVE  Larger(0, Smaller(e, ws) - s) + Larger(0, Smaller(e, we) - Larger(s, ws))
                 + Larger(0, e - Larger(s, we)) = e - s
    BY <2>1 DEF Larger, Smaller
  <2> HIDE DEF first, end
  <2>2. Larger(0, Smaller(p.e, w.started) - p.s)
          + Larger(0, Smaller(p.e, w.ended) - Larger(p.s, w.started))
          + Larger(0, p.e - Larger(p.s, w.ended)) = p.e - p.s
    BY <2>1
  <2> QED
    BY <1>1, <2>2
<1>3. first \in Nat /\ end \in Nat /\ o.in = IF first < end THEN end - first ELSE 0
  BY <1>1 DEF Larger, Smaller
<1>4. Covered(p.s, p.e) \cap Covered(w.started, w.ended) = first .. (end - 1)
  BY DEF Covered
<1> HIDE DEF first, end
<1>5. Cardinality(first .. (end - 1)) = IF first < end THEN end - first ELSE 0
  <2>1. first \in Int /\ end - 1 \in Int
    BY <1>3
  <2>2. Cardinality(first .. (end - 1)) = IF first > end - 1 THEN 0 ELSE (end - 1) - first + 1
    BY <2>1, FS_Interval
  <2> QED
    BY <1>3, <2>2
<1> QED
  BY <1>1, <1>2, <1>3, <1>4, <1>5 DEF o

------------------------------------------------------------------------------
(* The steps of the program *)

\* Every step keeps the types.
LEMMA TypeStep == ASSUME IInv, [Next]_vars PROVE TypeInv'
<1> USE DEF IInv, TypeInv, Early, Loading, After, Unwinding, MonitorFields, AnswerFields,
    ResultFields, process, world, state, helpers, report
<1>1. CASE LaunchTestnet
  BY <1>1 DEF LaunchTestnet
<1>2. CASE startDockerStatsSampler
  BY <1>2 DEF startDockerStatsSampler
<1>3. CASE runCommitBenchmark
  BY <1>3 DEF runCommitBenchmark
<1>4. CASE startLoadWindowMonitor
  BY <1>4 DEF startLoadWindowMonitor, NoMonitor
<1>5. CASE RunLoadTest
  BY <1>5 DEF RunLoadTest, LoadTestReturns
<1>6. CASE stopLoadTestByCondition
  BY <1>6 DEF stopLoadTestByCondition, LoadTestReturns, EndPhase
<1>7. CASE LoadTestFinished
  BY <1>7 DEF LoadTestFinished, LoadTestReturns, EndPhase, CatalystResults
<1>8. CASE DrainCancel
  BY <1>8 DEF DrainCancel
<1>9. CASE DrainReceive
  BY <1>9 DEF DrainReceive
<1>10. CASE CollectActiveProfiles
  BY <1>10 DEF CollectActiveProfiles
<1>11. CASE SamplerStop
  BY <1>11 DEF SamplerStop
<1>12. CASE CollectAfter
  BY <1>12 DEF CollectAfter
<1>13. CASE FinishScenario
  BY <1>13 DEF FinishScenario
<1>14. CASE DeferredTeardown
  BY <1>14 DEF DeferredTeardown
<1>15. CASE DeferredResult
  BY <1>15 DEF DeferredResult
<1>16. CASE Panic
  BY <1>16 DEF Panic
<1>17. CASE Observe
  BY <1>17 DEF Observe, observe, MonitorAnswers, NoMonitor
<1>18. CASE MonitorTicker
  BY <1>18 DEF MonitorTicker
<1>19. CASE MonitorCancelled
  BY <1>19 DEF MonitorCancelled, MonitorAnswers, NoMonitor
<1>20. CASE runCelestiaSyncScenario \/ CelestiaCommand \/ buildImage
  BY <1>20 DEF runCelestiaSyncScenario, CelestiaCommand, buildImage
<1>21. CASE CreateProvider \/ verifySimappBackends \/ UnwindNoSampler
  BY <1>21 DEF CreateProvider, verifySimappBackends, UnwindNoSampler
<1>22. CASE SamplerGoroutine \/ ProfileGoroutine \/ CatalystExits
  BY <1>22 DEF SamplerGoroutine, ProfileGoroutine, CatalystExits
<1>23. CASE ChainIncludes \/ Tick
  BY <1>23 DEF ChainIncludes, Tick
<1>24. CASE UNCHANGED vars
  BY <1>24 DEF vars
<1> HIDE DEF IInv, TypeInv, Early, Loading, After, Unwinding, MonitorFields, AnswerFields,
    ResultFields
<1> QED
  BY <1>1, <1>2, <1>3, <1>4, <1>5, <1>6, <1>7, <1>8, <1>9, <1>10, <1>11, <1>12, <1>13, <1>14,
      <1>15, <1>16, <1>17, <1>18, <1>19, <1>20, <1>21, <1>22, <1>23, <1>24
  DEF Next, runScenario, Finished, vars

\* Counters only grow, so a baseline stays below them.
LEMMA BaseStep == ASSUME IInv, [Next]_vars PROVE BaseInv'
<1> USE DEF IInv, TypeInv, BaseInv, MonitorFields, AnswerFields, ResultFields, process, world,
    state, helpers, report
<1>1. CASE startLoadWindowMonitor
  <2>1. CASE UNCHANGED monitor
    BY <1>1, <2>1 DEF startLoadWindowMonitor
  <2>2. CASE monitor' # monitor
    <3>1. PICK up \in SUBSET Nodes :
            monitor' = [NoMonitor EXCEPT
              !.at = "observe",
              !.target = loadWindowTargetTransactions(intendedTransactions(cfg), cfg.percent),
              !.base = scrapeMetrics(up),
              !.prev = [n \in up |-> clock],
              !.last.started = clock, !.last.ended = clock]
      BY <1>1, <2>2 DEF startLoadWindowMonitor
    <3>2. monitor'.base = [n \in up |-> chain] /\ monitor'.prev = [n \in up |-> clock]
      BY <3>1 DEF NoMonitor, scrapeMetrics
    <3>3. chain' = chain
      BY <1>1 DEF startLoadWindowMonitor
    <3> QED
      BY <3>2, <3>3
  <2> QED
    BY <2>1, <2>2
<1>2. CASE Observe
  <2>0. PICK up \in SUBSET Nodes : \E moved \in [up -> Activities] :
          monitor' = IF observe(moved).last.reached THEN MonitorAnswers(observe(moved).last)
                     ELSE [observe(moved) EXCEPT !.at = "select"]
    BY <1>2, Zenon DEF Observe
  <2>1. PICK moved \in [up -> Activities] :
          monitor' = IF observe(moved).last.reached THEN MonitorAnswers(observe(moved).last)
                     ELSE [observe(moved) EXCEPT !.at = "select"]
    BY <2>0, Zenon
  <2>2. chain' = chain
    BY <1>2 DEF Observe
  <2>3. CASE monitor' = MonitorAnswers(observe(moved).last)
    <3>1. monitor'.base = <<>> /\ monitor'.prev = <<>>
      BY <2>3 DEF MonitorAnswers, NoMonitor
    <3> QED
      BY <3>1
  <2>4. CASE monitor' = [observe(moved) EXCEPT !.at = "select"]
    <3> DEFINE seen == observe(moved)
    <3>1. /\ DOMAIN seen = MonitorFields
          /\ seen.base = appendMissingUsableMetricBaselineSnapshots(monitor.base, scrapeMetrics(up))
          /\ \A n \in DOMAIN seen.prev : seen.prev[n] \in Nat
      BY ObserveFacts
    <3>2. monitor' = [seen EXCEPT !.at = "select"]
      BY <2>4
    <3> HIDE DEF seen
    <3>3. monitor'.base = seen.base /\ monitor'.prev = seen.prev
      BY <3>1, <3>2
    <3>4. \A n \in DOMAIN seen.base :
            /\ seen.base[n].inc \in Nat /\ seen.base[n].inc <= chain.inc
            /\ seen.base[n].ok \in Nat /\ seen.base[n].ok <= chain.ok
      BY <3>1, BaselineFacts
    <3> QED
      BY <3>1, <3>3, <3>4, <2>2
  <2> QED
    BY <2>1, <2>3, <2>4
<1>3. CASE LaunchTestnet
  BY <1>3 DEF LaunchTestnet
<1>4. CASE startDockerStatsSampler
  BY <1>4 DEF startDockerStatsSampler
<1>5. CASE runCommitBenchmark
  BY <1>5 DEF runCommitBenchmark
<1>6. CASE RunLoadTest
  BY <1>6 DEF RunLoadTest, LoadTestReturns
<1>7. CASE stopLoadTestByCondition
  BY <1>7 DEF stopLoadTestByCondition, LoadTestReturns, EndPhase
<1>8. CASE LoadTestFinished
  BY <1>8 DEF LoadTestFinished, LoadTestReturns, EndPhase, CatalystResults
<1>9. CASE DrainCancel
  BY <1>9 DEF DrainCancel
<1>10. CASE DrainReceive
  BY <1>10 DEF DrainReceive
<1>11. CASE CollectActiveProfiles
  BY <1>11 DEF CollectActiveProfiles
<1>12. CASE SamplerStop
  BY <1>12 DEF SamplerStop
<1>13. CASE CollectAfter
  BY <1>13 DEF CollectAfter
<1>14. CASE FinishScenario
  BY <1>14 DEF FinishScenario
<1>15. CASE DeferredTeardown
  BY <1>15 DEF DeferredTeardown
<1>16. CASE DeferredResult
  BY <1>16 DEF DeferredResult
<1>17. CASE Panic
  BY <1>17 DEF Panic
<1>18. CASE MonitorTicker
  BY <1>18 DEF MonitorTicker
<1>19. CASE MonitorCancelled
  BY <1>19 DEF MonitorCancelled, MonitorAnswers, NoMonitor
<1>20. CASE runCelestiaSyncScenario \/ CelestiaCommand \/ buildImage
  BY <1>20 DEF runCelestiaSyncScenario, CelestiaCommand, buildImage
<1>21. CASE CreateProvider \/ verifySimappBackends \/ UnwindNoSampler
  BY <1>21 DEF CreateProvider, verifySimappBackends, UnwindNoSampler
<1>22. CASE SamplerGoroutine \/ ProfileGoroutine \/ CatalystExits
  BY <1>22 DEF SamplerGoroutine, ProfileGoroutine, CatalystExits
<1>23. CASE ChainIncludes \/ Tick
  BY <1>23 DEF ChainIncludes, Tick
<1>24. CASE UNCHANGED vars
  BY <1>24 DEF vars
<1> HIDE DEF IInv, TypeInv, BaseInv, MonitorFields, AnswerFields, ResultFields
<1> QED
  BY <1>1, <1>2, <1>3, <1>4, <1>5, <1>6, <1>7, <1>8, <1>9, <1>10, <1>11, <1>12, <1>13, <1>14,
      <1>15, <1>16, <1>17, <1>18, <1>19, <1>20, <1>21, <1>22, <1>23, <1>24
  DEF Next, runScenario, Finished, vars

\* The monitor ends with the observation that reached the target.
LEMMA MonitorStep == ASSUME IInv, [Next]_vars PROVE MonitorInv'
<1> USE DEF IInv, TypeInv, MonitorInv, Early, Loading, After, Unwinding, MonitorFields,
    AnswerFields, ResultFields, process, world, state, helpers, report
<1>1. CASE startLoadWindowMonitor
  <2>1. pc = "monitor" /\ pc' = "load" /\ cfg' = cfg
    BY <1>1 DEF startLoadWindowMonitor
  <2>2. CASE UNCHANGED monitor
    BY <2>1, <2>2
  <2>3. CASE monitor' # monitor
    <3>1. PICK up \in SUBSET Nodes :
            monitor' = [NoMonitor EXCEPT
              !.at = "observe",
              !.target = loadWindowTargetTransactions(intendedTransactions(cfg), cfg.percent),
              !.base = scrapeMetrics(up),
              !.prev = [n \in up |-> clock],
              !.last.started = clock, !.last.ended = clock]
      BY <1>1, <2>3 DEF startLoadWindowMonitor
    <3>2. /\ monitor'.at = "observe" /\ monitor'.done = None
          /\ monitor'.last = [NoObservation EXCEPT !.started = clock, !.ended = clock]
      BY <3>1 DEF NoMonitor
    <3>3. monitor'.last = [reached |-> FALSE, dur |-> FALSE, err |-> FALSE, started |-> clock,
                           ended |-> clock, inc |-> 0, ok |-> 0, ivals |-> {}]
      BY <3>2 DEF NoObservation
    <3>4. {} \in SUBSET Intervals /\ IsFiniteSet({})
      BY FS_EmptySet
    <3>5. monitor'.last \in Observations /\ ~monitor'.last.reached
      BY <3>3, <3>4 DEF Observations
    <3> QED
      BY <2>1, <3>2, <3>5
  <2> QED
    BY <2>2, <2>3
<1>2. CASE Observe
  <2>0. PICK up \in SUBSET Nodes : \E moved \in [up -> Activities] :
          monitor' = IF observe(moved).last.reached THEN MonitorAnswers(observe(moved).last)
                     ELSE [observe(moved) EXCEPT !.at = "select"]
    BY <1>2, Zenon DEF Observe
  <2>1. PICK moved \in [up -> Activities] :
          monitor' = IF observe(moved).last.reached THEN MonitorAnswers(observe(moved).last)
                     ELSE [observe(moved) EXCEPT !.at = "select"]
    BY <2>0, Zenon
  <2>2. cfg' = cfg /\ pc' = pc /\ pc \notin Early /\ monitor.at = "observe"
    BY <1>2 DEF Observe, Watched
  <2> DEFINE seen == observe(moved)
  <2>3. /\ DOMAIN seen = MonitorFields /\ seen.done = monitor.done
        /\ seen.target = monitor.target
        /\ seen.last \in Observations
        /\ seen.last.reached => seen.last.ok >= monitor.target
        /\ seen.last.dur => seen.last.ended - seen.last.started >= cfg.min
    BY ObserveFacts
  <2>4. monitor' = IF seen.last.reached THEN MonitorAnswers(seen.last)
                   ELSE [seen EXCEPT !.at = "select"]
    BY <2>1
  <2> HIDE DEF seen
  <2>5. CASE seen.last.reached
    <3>1. /\ monitor'.at = "over" /\ monitor'.last = seen.last /\ monitor'.done = seen.last
          /\ monitor'.target = monitor.target
      BY <2>4, <2>5 DEF MonitorAnswers, NoMonitor
    <3> QED
      BY <2>2, <2>3, <3>1
  <2>6. CASE ~seen.last.reached
    <3>1. /\ monitor'.at = "select" /\ monitor'.last = seen.last /\ monitor'.done = monitor.done
          /\ monitor'.target = monitor.target
      BY <2>3, <2>4, <2>6
    <3>2. monitor.done = None
      BY <2>2
    <3> QED
      BY <2>2, <2>3, <2>6, <3>1, <3>2
  <2> QED
    BY <2>5, <2>6
<1>3. CASE MonitorCancelled
  <2> DEFINE obs == [monitor.last EXCEPT !.err = TRUE]
  <2>1. cfg' = cfg /\ pc' = pc /\ pc \notin Early /\ monitor.at = "select"
    BY <1>3 DEF MonitorCancelled, Watched
  <2>2. monitor' = MonitorAnswers(obs)
    BY <1>3 DEF MonitorCancelled
  <2>3. /\ monitor'.at = "over" /\ monitor'.last = obs /\ monitor'.done = obs
        /\ monitor'.target = monitor.target
    BY <2>2 DEF MonitorAnswers, NoMonitor
  <2>4. obs \in Observations /\ obs.reached = monitor.last.reached
    BY DEF Observations
  <2> HIDE DEF obs
  <2> QED
    BY <2>1, <2>3, <2>4
<1>4. CASE LaunchTestnet
  BY <1>4 DEF LaunchTestnet
<1>5. CASE startDockerStatsSampler
  BY <1>5 DEF startDockerStatsSampler
<1>6. CASE runCommitBenchmark
  BY <1>6 DEF runCommitBenchmark
<1>7. CASE RunLoadTest
  BY <1>7 DEF RunLoadTest, LoadTestReturns
<1>8. CASE stopLoadTestByCondition
  BY <1>8 DEF stopLoadTestByCondition, LoadTestReturns, EndPhase
<1>9. CASE LoadTestFinished
  BY <1>9 DEF LoadTestFinished, LoadTestReturns, EndPhase, CatalystResults
<1>10. CASE DrainCancel
  BY <1>10 DEF DrainCancel
<1>11. CASE DrainReceive
  BY <1>11 DEF DrainReceive
<1>12. CASE CollectActiveProfiles
  BY <1>12 DEF CollectActiveProfiles
<1>13. CASE SamplerStop
  BY <1>13 DEF SamplerStop
<1>14. CASE CollectAfter
  BY <1>14 DEF CollectAfter
<1>15. CASE FinishScenario
  BY <1>15 DEF FinishScenario
<1>16. CASE DeferredTeardown
  BY <1>16 DEF DeferredTeardown
<1>17. CASE DeferredResult
  BY <1>17 DEF DeferredResult
<1>18. CASE Panic
  BY <1>18 DEF Panic
<1>19. CASE MonitorTicker
  BY <1>19 DEF MonitorTicker
<1>20. CASE runCelestiaSyncScenario \/ CelestiaCommand \/ buildImage
  BY <1>20 DEF runCelestiaSyncScenario, CelestiaCommand, buildImage
<1>21. CASE CreateProvider \/ verifySimappBackends \/ UnwindNoSampler
  BY <1>21 DEF CreateProvider, verifySimappBackends, UnwindNoSampler
<1>22. CASE SamplerGoroutine \/ ProfileGoroutine \/ CatalystExits
  BY <1>22 DEF SamplerGoroutine, ProfileGoroutine, CatalystExits
<1>23. CASE ChainIncludes \/ Tick
  BY <1>23 DEF ChainIncludes, Tick
<1>24. CASE UNCHANGED vars
  BY <1>24 DEF vars
<1> HIDE DEF IInv, TypeInv, MonitorInv, Early, Loading, After, Unwinding, MonitorFields,
    AnswerFields, ResultFields
<1> QED
  BY <1>1, <1>2, <1>3, <1>4, <1>5, <1>6, <1>7, <1>8, <1>9, <1>10, <1>11, <1>12, <1>13, <1>14,
      <1>15, <1>16, <1>17, <1>18, <1>19, <1>20, <1>21, <1>22, <1>23, <1>24
  DEF Next, runScenario, Finished, vars

\* The pointer to the sampler is cleared with the only receive.
LEMMA SamplerStep == ASSUME IInv, [Next]_vars PROVE SamplerInv'
<1> USE DEF IInv, TypeInv, SamplerInv, Early, Loading, After, Unwinding, MonitorFields,
    AnswerFields, ResultFields, process, world, state, helpers, report
<1>1. CASE SamplerStop
  <2>1. CASE /\ pc \in {"sampler", "unwind_sampler"} /\ sampler.set
             /\ sampler' = IF sampler.at = "running" THEN [sampler EXCEPT !.at = "cancelled"]
                           ELSE sampler
             /\ pc' = IF pc = "sampler" THEN "samples" ELSE "unwind_samples"
             /\ UNCHANGED <<cfg, world, state, monitor, profiles, report>>
    BY <2>1
  <2>2. CASE /\ pc \in {"samples", "unwind_samples"} /\ sampler.at \in {"sent", "closed"}
             /\ result' = [result EXCEPT !.samples = IF sampler.at = "sent" THEN "kept" ELSE "lost"]
             /\ sampler' = [set |-> FALSE, at |-> "closed"]
             /\ pc' = IF pc = "samples" THEN "after" ELSE "unwind_teardown"
             /\ UNCHANGED <<cfg, world, state, monitor, profiles, spans, answer>>
    BY <2>2
  <2> QED
    BY <1>1, <2>1, <2>2 DEF SamplerStop
<1>2. CASE LaunchTestnet
  BY <1>2 DEF LaunchTestnet
<1>3. CASE startDockerStatsSampler
  BY <1>3 DEF startDockerStatsSampler
<1>4. CASE runCommitBenchmark
  BY <1>4 DEF runCommitBenchmark
<1>5. CASE startLoadWindowMonitor
  BY <1>5 DEF startLoadWindowMonitor, NoMonitor
<1>6. CASE RunLoadTest
  BY <1>6 DEF RunLoadTest, LoadTestReturns
<1>7. CASE stopLoadTestByCondition
  BY <1>7 DEF stopLoadTestByCondition, LoadTestReturns, EndPhase
<1>8. CASE LoadTestFinished
  BY <1>8 DEF LoadTestFinished, LoadTestReturns, EndPhase, CatalystResults
<1>9. CASE DrainCancel
  BY <1>9 DEF DrainCancel
<1>10. CASE DrainReceive
  BY <1>10 DEF DrainReceive
<1>11. CASE CollectActiveProfiles
  BY <1>11 DEF CollectActiveProfiles
<1>12. CASE CollectAfter
  BY <1>12 DEF CollectAfter
<1>13. CASE FinishScenario
  BY <1>13 DEF FinishScenario
<1>14. CASE DeferredTeardown
  BY <1>14 DEF DeferredTeardown
<1>15. CASE DeferredResult
  BY <1>15 DEF DeferredResult
<1>16. CASE Panic
  BY <1>16 DEF Panic
<1>17. CASE Observe
  BY <1>17 DEF Observe, observe, MonitorAnswers, NoMonitor
<1>18. CASE MonitorTicker
  BY <1>18 DEF MonitorTicker
<1>19. CASE MonitorCancelled
  BY <1>19 DEF MonitorCancelled, MonitorAnswers, NoMonitor
<1>20. CASE runCelestiaSyncScenario \/ CelestiaCommand \/ buildImage
  BY <1>20 DEF runCelestiaSyncScenario, CelestiaCommand, buildImage
<1>21. CASE CreateProvider \/ verifySimappBackends \/ UnwindNoSampler
  BY <1>21 DEF CreateProvider, verifySimappBackends, UnwindNoSampler
<1>22. CASE SamplerGoroutine \/ ProfileGoroutine \/ CatalystExits
  BY <1>22 DEF SamplerGoroutine, ProfileGoroutine, CatalystExits
<1>23. CASE ChainIncludes \/ Tick
  BY <1>23 DEF ChainIncludes, Tick
<1>24. CASE UNCHANGED vars
  BY <1>24 DEF vars
<1> HIDE DEF IInv, TypeInv, SamplerInv, Early, Loading, After, Unwinding, MonitorFields,
    AnswerFields, ResultFields
<1> QED
  BY <1>1, <1>2, <1>3, <1>4, <1>5, <1>6, <1>7, <1>8, <1>9, <1>10, <1>11, <1>12, <1>13, <1>14,
      <1>15, <1>16, <1>17, <1>18, <1>19, <1>20, <1>21, <1>22, <1>23, <1>24
  DEF Next, runScenario, Finished, vars

\* Every state the run is handed becomes the one the teardown will use.
LEMMA StateStep == ASSUME IInv, [Next]_vars PROVE StateInv'
<1> USE DEF IInv, TypeInv, StateInv, AnswerInv, Missed, LoadTestStates, Network, Testnet, Loaded,
     Early, Loading, After, Unwinding, MonitorFields,
    AnswerFields, ResultFields, process, world, state, helpers, report
<1>1. CASE LaunchTestnet
  BY <1>1 DEF LaunchTestnet
<1>2. CASE startDockerStatsSampler
  BY <1>2 DEF startDockerStatsSampler
<1>3. CASE runCommitBenchmark
  BY <1>3 DEF runCommitBenchmark
<1>4. CASE startLoadWindowMonitor
  BY <1>4 DEF startLoadWindowMonitor, NoMonitor
<1>5. CASE RunLoadTest
  BY <1>5 DEF RunLoadTest, LoadTestReturns
<1>6. CASE stopLoadTestByCondition
  BY <1>6 DEF stopLoadTestByCondition, LoadTestReturns, EndPhase
<1>7. CASE LoadTestFinished
  BY <1>7 DEF LoadTestFinished, LoadTestReturns, EndPhase, CatalystResults
<1>8. CASE DrainCancel
  BY <1>8 DEF DrainCancel
<1>9. CASE DrainReceive
  BY <1>9 DEF DrainReceive
<1>10. CASE CollectActiveProfiles
  BY <1>10 DEF CollectActiveProfiles
<1>11. CASE SamplerStop
  BY <1>11 DEF SamplerStop
<1>12. CASE CollectAfter
  BY <1>12 DEF CollectAfter
<1>13. CASE FinishScenario
  BY <1>13 DEF FinishScenario
<1>14. CASE DeferredTeardown
  BY <1>14 DEF DeferredTeardown
<1>15. CASE DeferredResult
  BY <1>15 DEF DeferredResult
<1>16. CASE Panic
  BY <1>16 DEF Panic
<1>17. CASE Observe
  BY <1>17 DEF Observe, observe, MonitorAnswers, NoMonitor
<1>18. CASE MonitorTicker
  BY <1>18 DEF MonitorTicker
<1>19. CASE MonitorCancelled
  BY <1>19 DEF MonitorCancelled, MonitorAnswers, NoMonitor
<1>20. CASE runCelestiaSyncScenario \/ CelestiaCommand \/ buildImage
  BY <1>20 DEF runCelestiaSyncScenario, CelestiaCommand, buildImage
<1>21. CASE CreateProvider \/ verifySimappBackends \/ UnwindNoSampler
  BY <1>21 DEF CreateProvider, verifySimappBackends, UnwindNoSampler
<1>22. CASE SamplerGoroutine \/ ProfileGoroutine \/ CatalystExits
  BY <1>22 DEF SamplerGoroutine, ProfileGoroutine, CatalystExits
<1>23. CASE ChainIncludes \/ Tick
  BY <1>23 DEF ChainIncludes, Tick
<1>24. CASE UNCHANGED vars
  BY <1>24 DEF vars
<1> HIDE DEF IInv, TypeInv, StateInv, AnswerInv, Missed, LoadTestStates, Network, Testnet, Loaded,
     Early, Loading, After, Unwinding, MonitorFields,
    AnswerFields, ResultFields
<1> QED
  BY <1>1, <1>2, <1>3, <1>4, <1>5, <1>6, <1>7, <1>8, <1>9, <1>10, <1>11, <1>12, <1>13, <1>14,
      <1>15, <1>16, <1>17, <1>18, <1>19, <1>20, <1>21, <1>22, <1>23, <1>24
  DEF Next, runScenario, Finished, vars

\* The window is stored from the monitor's answer, and the profiles are awaited.
LEMMA ResultStep == ASSUME IInv, [Next]_vars PROVE ResultInv'
<1> USE DEF IInv, TypeInv, MonitorInv, ResultInv, Early, Loading, After, Unwinding,
    MonitorFields, AnswerFields, ResultFields, process, world, state, helpers, report
<1>1. CASE DrainReceive
  <2> DEFINE late == pc = "receive" /\ cfg.drain /\ ~monitor.done.reached
             w == [monitor.done EXCEPT !.err = (@ \/ late)]
  <2>1. /\ pc \in {"receive", "drain"} /\ pc' = "profiles" /\ profiles' = profiles
        /\ monitor.done # None
        /\ monitor' = [monitor EXCEPT !.done = None]
        /\ result' = [result EXCEPT !.window = w]
    BY <1>1 DEF DrainReceive
  <2>2. monitor.done = monitor.last /\ monitor.at = "over" /\ monitor.last \in Observations
    BY <2>1
  <2>3. monitor'.at = "over" /\ monitor'.last = monitor.last
    BY <2>1, <2>2
  <2>4. late \in BOOLEAN
    OBVIOUS
  <2> HIDE DEF late
  <2>5. /\ w \in Observations
        /\ w.reached = monitor.last.reached /\ w.dur = monitor.last.dur
        /\ w.started = monitor.last.started /\ w.ended = monitor.last.ended
        /\ w.inc = monitor.last.inc /\ w.ok = monitor.last.ok
    BY <2>2, <2>4 DEF Observations
  <2> HIDE DEF w
  <2>6. w # None
    BY <2>5, NoneAssumption
  <2>7. result'.window = w
    BY <2>1
  <2> QED
    BY <2>1, <2>3, <2>5, <2>6, <2>7
<1>2. CASE LaunchTestnet
  BY <1>2 DEF LaunchTestnet
<1>3. CASE startDockerStatsSampler
  BY <1>3 DEF startDockerStatsSampler
<1>4. CASE runCommitBenchmark
  BY <1>4 DEF runCommitBenchmark
<1>5. CASE startLoadWindowMonitor
  BY <1>5 DEF startLoadWindowMonitor, NoMonitor
<1>6. CASE RunLoadTest
  BY <1>6 DEF RunLoadTest, LoadTestReturns
<1>7. CASE stopLoadTestByCondition
  BY <1>7 DEF stopLoadTestByCondition, LoadTestReturns, EndPhase
<1>8. CASE LoadTestFinished
  BY <1>8 DEF LoadTestFinished, LoadTestReturns, EndPhase, CatalystResults
<1>9. CASE DrainCancel
  BY <1>9 DEF DrainCancel
<1>10. CASE CollectActiveProfiles
  BY <1>10 DEF CollectActiveProfiles
<1>11. CASE SamplerStop
  BY <1>11 DEF SamplerStop
<1>12. CASE CollectAfter
  BY <1>12 DEF CollectAfter
<1>13. CASE FinishScenario
  BY <1>13 DEF FinishScenario
<1>14. CASE DeferredTeardown
  BY <1>14 DEF DeferredTeardown
<1>15. CASE DeferredResult
  BY <1>15 DEF DeferredResult
<1>16. CASE Panic
  BY <1>16 DEF Panic
<1>17. CASE Observe
  BY <1>17 DEF Observe, observe, MonitorAnswers, NoMonitor
<1>18. CASE MonitorTicker
  BY <1>18 DEF MonitorTicker
<1>19. CASE MonitorCancelled
  BY <1>19 DEF MonitorCancelled, MonitorAnswers, NoMonitor
<1>20. CASE runCelestiaSyncScenario \/ CelestiaCommand \/ buildImage
  BY <1>20 DEF runCelestiaSyncScenario, CelestiaCommand, buildImage
<1>21. CASE CreateProvider \/ verifySimappBackends \/ UnwindNoSampler
  BY <1>21 DEF CreateProvider, verifySimappBackends, UnwindNoSampler
<1>22. CASE SamplerGoroutine \/ ProfileGoroutine \/ CatalystExits
  BY <1>22 DEF SamplerGoroutine, ProfileGoroutine, CatalystExits
<1>23. CASE ChainIncludes \/ Tick
  BY <1>23 DEF ChainIncludes, Tick
<1>24. CASE UNCHANGED vars
  BY <1>24 DEF vars
<1> HIDE DEF IInv, TypeInv, MonitorInv, ResultInv, Early, Loading, After, Unwinding,
    MonitorFields, AnswerFields, ResultFields
<1> QED
  BY <1>1, <1>2, <1>3, <1>4, <1>5, <1>6, <1>7, <1>8, <1>9, <1>10, <1>11, <1>12, <1>13, <1>14,
      <1>15, <1>16, <1>17, <1>18, <1>19, <1>20, <1>21, <1>22, <1>23, <1>24
  DEF Next, runScenario, Finished, vars

\* The stop is answered only on an observation that reached the target.
LEMMA AnswerStep == ASSUME IInv, [Next]_vars PROVE AnswerInv'
<1> USE DEF IInv, TypeInv, MonitorInv, AnswerInv, Early, Loading, After, Unwinding,
    MonitorFields, AnswerFields, ResultFields, process, world, state, helpers, report
<1>1. CASE stopLoadTestByCondition
  <2>1. /\ pc = "loop" /\ pc' = "drain" /\ cfg.stop /\ monitor.at # "off" /\ monitor.last.reached
        /\ cfg' = cfg /\ monitor' = monitor /\ result' = result
    BY <1>1 DEF stopLoadTestByCondition, LoadTestReturns, StopCondition
  <2>2. PICK listed \in LoadTestStates :
          \/ answer' = [answer EXCEPT !.err = "stopped", !.early = ~monitor.last.dur,
                                      !.listed = listed]
          \/ answer' = [answer EXCEPT !.err = "error", !.listed = listed]
    BY <1>1 DEF stopLoadTestByCondition, LoadTestReturns, EndPhase
  <2>3. CASE answer' = [answer EXCEPT !.err = "stopped", !.early = ~monitor.last.dur,
                                      !.listed = listed]
    <3>1. answer'.err = "stopped" /\ answer'.early = ~monitor.last.dur
          /\ answer'.overall = answer.overall
      BY <2>3
    <3> QED
      BY <2>1, <3>1
  <2>4. CASE answer' = [answer EXCEPT !.err = "error", !.listed = listed]
    <3>1. answer'.err = "error"
      BY <2>4
    <3> QED
      BY <2>1, <3>1
  <2> QED
    BY <2>2, <2>3, <2>4
<1>2. CASE LoadTestFinished
  <2>1. /\ pc = "loop" /\ pc' = "drain" /\ cfg' = cfg /\ monitor' = monitor /\ result' = result
    BY <1>2 DEF LoadTestFinished, LoadTestReturns
  <2>2. PICK listed \in LoadTestStates :
          \/ \E read \in CatalystResults :
               \E err \in IF listed = {} THEN {"error"} ELSE {None, "error"} :
                 LoadTestReturns([read EXCEPT !.err = err, !.listed = listed])
          \/ LoadTestReturns([answer EXCEPT !.err = "error", !.listed = listed])
    BY <1>2, Zenon DEF LoadTestFinished
  <2>3. \A read \in CatalystResults : DOMAIN read = AnswerFields
    BY DEF CatalystResults
  <2>4. CASE LoadTestReturns([answer EXCEPT !.err = "error", !.listed = listed])
    <3>1. answer'.err = "error"
      BY <2>4 DEF LoadTestReturns
    <3> QED
      BY <2>1, <3>1
  <2>5. ASSUME NEW read \in CatalystResults,
               NEW err \in IF listed = {} THEN {"error"} ELSE {None, "error"},
               LoadTestReturns([read EXCEPT !.err = err, !.listed = listed])
        PROVE  AnswerInv'
    <3>1. answer'.err \in {None, "error"}
      BY <2>3, <2>5 DEF LoadTestReturns
    <3> QED
      BY <2>1, <3>1, NoneAssumption
  <2> QED
    BY <2>2, <2>4, <2>5, Zenon
<1>3. CASE LaunchTestnet
  BY <1>3 DEF LaunchTestnet
<1>4. CASE startDockerStatsSampler
  BY <1>4 DEF startDockerStatsSampler
<1>5. CASE runCommitBenchmark
  BY <1>5 DEF runCommitBenchmark
<1>6. CASE startLoadWindowMonitor
  BY <1>6 DEF startLoadWindowMonitor, NoMonitor
<1>7. CASE RunLoadTest
  BY <1>7 DEF RunLoadTest, LoadTestReturns
<1>8. CASE DrainCancel
  BY <1>8 DEF DrainCancel
<1>9. CASE DrainReceive
  BY <1>9 DEF DrainReceive
<1>10. CASE CollectActiveProfiles
  BY <1>10 DEF CollectActiveProfiles
<1>11. CASE SamplerStop
  BY <1>11 DEF SamplerStop
<1>12. CASE CollectAfter
  BY <1>12 DEF CollectAfter
<1>13. CASE FinishScenario
  BY <1>13 DEF FinishScenario
<1>14. CASE DeferredTeardown
  BY <1>14 DEF DeferredTeardown
<1>15. CASE DeferredResult
  BY <1>15 DEF DeferredResult
<1>16. CASE Panic
  BY <1>16 DEF Panic
<1>17. CASE Observe
  BY <1>17 DEF Observe, observe, MonitorAnswers, NoMonitor
<1>18. CASE MonitorTicker
  BY <1>18 DEF MonitorTicker
<1>19. CASE MonitorCancelled
  BY <1>19 DEF MonitorCancelled, MonitorAnswers, NoMonitor
<1>20. CASE runCelestiaSyncScenario \/ CelestiaCommand \/ buildImage
  BY <1>20 DEF runCelestiaSyncScenario, CelestiaCommand, buildImage
<1>21. CASE CreateProvider \/ verifySimappBackends \/ UnwindNoSampler
  BY <1>21 DEF CreateProvider, verifySimappBackends, UnwindNoSampler
<1>22. CASE SamplerGoroutine \/ ProfileGoroutine \/ CatalystExits
  BY <1>22 DEF SamplerGoroutine, ProfileGoroutine, CatalystExits
<1>23. CASE ChainIncludes \/ Tick
  BY <1>23 DEF ChainIncludes, Tick
<1>24. CASE UNCHANGED vars
  BY <1>24 DEF vars
<1> HIDE DEF IInv, TypeInv, MonitorInv, AnswerInv, Early, Loading, After, Unwinding,
    MonitorFields, AnswerFields, ResultFields
<1> QED
  BY <1>1, <1>2, <1>3, <1>4, <1>5, <1>6, <1>7, <1>8, <1>9, <1>10, <1>11, <1>12, <1>13, <1>14,
      <1>15, <1>16, <1>17, <1>18, <1>19, <1>20, <1>21, <1>22, <1>23, <1>24
  DEF Next, runScenario, Finished, vars

\* The figures and the error of a stopped run are those of its window.
LEMMA FinalStep == ASSUME IInv, [Next]_vars PROVE FinalInv'
<1> USE DEF IInv, TypeInv, MonitorInv, ResultInv, AnswerInv, FinalInv, Early, Loading, After,
    Unwinding, MonitorFields, AnswerFields, ResultFields, process, world, state, helpers, report
<1>1. CASE FinishScenario
  <2> SUFFICES ASSUME result'.stopped, ~result'.panic PROVE FinalInv'
    OBVIOUS
  <2>1. PICK raw : result' = [result EXCEPT
          !.raw = raw,
          !.corrected = summarizeCorrectedLoadTest(result.overall, raw, result.signals,
                                                   result.stopped, result.window),
          !.error = IF answer.err = None THEN answer.failed
                    ELSE ~(/\ answer.err = "stopped" /\ cfg.stop
                           /\ loadWindowAccepted(result.window))]
    BY <1>1 DEF FinishScenario
  <2>2. pc = "audit" /\ pc' = "unwind_sampler" /\ answer' = answer
    BY <1>1 DEF FinishScenario
  <2>3. /\ result'.stopped = result.stopped /\ result'.window = result.window
        /\ result'.corrected = summarizeCorrectedLoadTest(result.overall, raw, result.signals,
                                                          result.stopped, result.window)
        /\ result'.error = IF answer.err = None THEN answer.failed
                           ELSE ~(/\ answer.err = "stopped" /\ cfg.stop
                                  /\ loadWindowAccepted(result.window))
    BY <2>1
  <2>4. answer.err = "stopped" /\ cfg.stop /\ result.overall = Zero
    BY <2>3
  <2>5. loadWindowAccepted(result.window) <=> ~answer.early
    BY <2>2, <2>4 DEF loadWindowAccepted, Observations
  <2>6. result'.error = answer.early
    BY <2>3, <2>4, <2>5, NoneAssumption DEF Observations
  <2>7. ~answer.early => result'.corrected \in {None, Windowed(result.window)}
    <3> SUFFICES ASSUME ~answer.early PROVE result'.corrected \in {None, Windowed(result.window)}
      OBVIOUS
    <3>1. summarizeCorrectedLoadTest(Zero, raw, result.signals, TRUE, result.window)
            \in {None, Windowed(result.window)}
      BY <2>5, CorrectedFacts
    <3>2. CASE result.stopped = TRUE
      BY <3>1, <3>2, <2>3, <2>4
    <3> QED
      BY <3>2, <2>3
  <2> QED
    BY <2>2, <2>3, <2>6, <2>7
<1>2. CASE DeferredResult
  <2>1. /\ pc = "unwind_result" /\ pc' = "reported" /\ cfg' = cfg /\ answer' = answer
        /\ result' = [result EXCEPT !.derived =
                        IF result.overall.total # 0 \/ result.raw # None \/ result.corrected # None
                          THEN deriveMetrics(result) ELSE None]
    BY <1>2 DEF DeferredResult
  <2>2. /\ result'.stopped = result.stopped /\ result'.panic = result.panic
        /\ result'.error = result.error /\ result'.window = result.window
        /\ result'.corrected = result.corrected /\ result'.raw = result.raw
        /\ result'.overall = result.overall
    BY <2>1
  <2>3. result.corrected # None => result'.derived = deriveMetrics(result)
    BY <2>1
  <2>4. deriveMetrics(result') = deriveMetrics(result)
    BY <2>2, DeriveFacts
  <2> QED
    BY <2>1, <2>2, <2>3, <2>4
<1>3. CASE LaunchTestnet
  BY <1>3 DEF LaunchTestnet
<1>4. CASE startDockerStatsSampler
  BY <1>4 DEF startDockerStatsSampler
<1>5. CASE runCommitBenchmark
  BY <1>5 DEF runCommitBenchmark
<1>6. CASE startLoadWindowMonitor
  BY <1>6 DEF startLoadWindowMonitor, NoMonitor
<1>7. CASE RunLoadTest
  BY <1>7 DEF RunLoadTest, LoadTestReturns
<1>8. CASE stopLoadTestByCondition
  BY <1>8 DEF stopLoadTestByCondition, LoadTestReturns, EndPhase
<1>9. CASE LoadTestFinished
  BY <1>9 DEF LoadTestFinished, LoadTestReturns, EndPhase, CatalystResults
<1>10. CASE DrainCancel
  BY <1>10 DEF DrainCancel
<1>11. CASE DrainReceive
  BY <1>11 DEF DrainReceive
<1>12. CASE CollectActiveProfiles
  BY <1>12 DEF CollectActiveProfiles
<1>13. CASE SamplerStop
  BY <1>13 DEF SamplerStop
<1>14. CASE CollectAfter
  BY <1>14 DEF CollectAfter
<1>15. CASE DeferredTeardown
  BY <1>15 DEF DeferredTeardown
<1>16. CASE Panic
  BY <1>16 DEF Panic
<1>17. CASE Observe
  BY <1>17 DEF Observe, observe, MonitorAnswers, NoMonitor
<1>18. CASE MonitorTicker
  BY <1>18 DEF MonitorTicker
<1>19. CASE MonitorCancelled
  BY <1>19 DEF MonitorCancelled, MonitorAnswers, NoMonitor
<1>20. CASE runCelestiaSyncScenario \/ CelestiaCommand \/ buildImage
  BY <1>20 DEF runCelestiaSyncScenario, CelestiaCommand, buildImage
<1>21. CASE CreateProvider \/ verifySimappBackends \/ UnwindNoSampler
  BY <1>21 DEF CreateProvider, verifySimappBackends, UnwindNoSampler
<1>22. CASE SamplerGoroutine \/ ProfileGoroutine \/ CatalystExits
  BY <1>22 DEF SamplerGoroutine, ProfileGoroutine, CatalystExits
<1>23. CASE ChainIncludes \/ Tick
  BY <1>23 DEF ChainIncludes, Tick
<1>24. CASE UNCHANGED vars
  BY <1>24 DEF vars
<1> HIDE DEF IInv, TypeInv, MonitorInv, ResultInv, AnswerInv, FinalInv, Early, Loading, After,
    Unwinding, MonitorFields, AnswerFields, ResultFields
<1> QED
  BY <1>1, <1>2, <1>3, <1>4, <1>5, <1>6, <1>7, <1>8, <1>9, <1>10, <1>11, <1>12, <1>13, <1>14,
      <1>15, <1>16, <1>17, <1>18, <1>19, <1>20, <1>21, <1>22, <1>23, <1>24
  DEF Next, runScenario, Finished, vars

\* A phase is appended when it begins, and its end is set to the time then.
LEMMA SpanStep == ASSUME IInv, [Next]_vars PROVE SpanInv'
<1> USE DEF SpanInv, process, world, state, helpers, report
<1> DEFINE Span == [name : {"before", "load"}, s : Nat, e : Nat]
<1>0. spans \in Seq(Span) /\ clock \in Nat
  BY DEF IInv, TypeInv
<1>1. ASSUME NEW p \in Span, spans' = Append(spans, p) PROVE SpanInv'
  BY <1>0, <1>1
<1>2. ASSUME spans' = [spans EXCEPT ![Len(spans)].e = clock] PROVE SpanInv'
  <2>1. CASE Len(spans) = 0
    <3>1. spans' = spans
      BY <1>0, <1>2, <2>1
    <3> QED
      BY <1>0, <3>1
  <2>2. CASE Len(spans) # 0
    <3> DEFINE k == Len(spans)
               p == [spans[k] EXCEPT !.e = clock]
    <3>1. k \in 1 .. Len(spans) /\ spans[k] \in Span
      <4> HIDE DEF Span
      <4>1. Len(spans) \in Nat
        BY <1>0
      <4>2. k \in 1 .. Len(spans)
        BY <2>2, <4>1
      <4> QED
        BY <1>0, <4>2
    <3>2. p \in Span
      BY <1>0, <3>1
    <3>3. spans' = [spans EXCEPT ![k] = p]
      BY <1>2
    <3> HIDE DEF p, k, Span
    <3>4. [spans EXCEPT ![k] = p] \in Seq(Span)
      BY <1>0, <3>1, <3>2
    <3> QED
      BY <3>3, <3>4 DEF Span
  <2> QED
    BY <1>0, <2>1, <2>2
<1>3. CASE startDockerStatsSampler
  <2>1. [name |-> "before", s |-> 0, e |-> clock] \in Span
    BY <1>0
  <2> QED
    BY <1>1, <1>3, <2>1 DEF startDockerStatsSampler
<1>4. CASE RunLoadTest
  <2>1. [name |-> "load", s |-> clock, e |-> clock] \in Span
    BY <1>0
  <2> QED
    BY <1>1, <1>4, <2>1 DEF RunLoadTest, LoadTestReturns
<1>5. CASE stopLoadTestByCondition \/ LoadTestFinished
  <2>1. spans' = [spans EXCEPT ![Len(spans)].e = clock]
    BY <1>5 DEF stopLoadTestByCondition, LoadTestFinished, EndPhase
  <2> QED
    BY <1>2, <2>1
<1> HIDE DEF Span
<1>6. ASSUME spans' = spans PROVE SpanInv'
  BY <1>0, <1>6 DEF Span
<1>7. CASE \/ runCelestiaSyncScenario \/ CelestiaCommand \/ buildImage \/ CreateProvider
           \/ LaunchTestnet \/ verifySimappBackends \/ runCommitBenchmark
  BY <1>6, <1>7 DEF runCelestiaSyncScenario, CelestiaCommand, buildImage, CreateProvider,
                    LaunchTestnet, verifySimappBackends, runCommitBenchmark
<1>8. CASE startLoadWindowMonitor \/ Observe \/ MonitorTicker \/ MonitorCancelled \/ DrainCancel
  BY <1>6, <1>8 DEF startLoadWindowMonitor, Observe, MonitorTicker, MonitorCancelled, DrainCancel
<1>9. CASE DrainReceive \/ CollectActiveProfiles \/ SamplerStop \/ CollectAfter \/ FinishScenario
  BY <1>6, <1>9 DEF DrainReceive, CollectActiveProfiles, SamplerStop, CollectAfter, FinishScenario
<1>10. CASE DeferredTeardown \/ DeferredResult \/ Panic \/ UnwindNoSampler
  BY <1>6, <1>10 DEF DeferredTeardown, DeferredResult, Panic, UnwindNoSampler
<1>11. CASE SamplerGoroutine \/ ProfileGoroutine \/ CatalystExits \/ ChainIncludes \/ Tick
  BY <1>6, <1>11 DEF SamplerGoroutine, ProfileGoroutine, CatalystExits, ChainIncludes, Tick
<1>12. CASE UNCHANGED vars
  BY <1>6, <1>12 DEF vars
<1> HIDE DEF SpanInv
<1> QED
  BY <1>3, <1>4, <1>5, <1>7, <1>8, <1>9, <1>10, <1>11, <1>12
  DEF Next, runScenario, Finished, vars

LEMMA InitInv == Init => IInv
<1> SUFFICES ASSUME Init PROVE IInv
  OBVIOUS
<1> USE DEF Init, NoMonitor, NoObservation, NoTxs, Early, Loading, After, Unwinding, MonitorFields,
            AnswerFields, ResultFields
<1>1. TypeInv
  BY RunnerAssumption DEF TypeInv
<1>2. BaseInv
  BY DEF BaseInv
<1>3. MonitorInv
  <2>1. {} \in SUBSET Intervals /\ IsFiniteSet({})
    BY FS_EmptySet
  <2>2. NoObservation \in Observations
    BY <2>1 DEF Observations
  <2> QED
    BY <2>2 DEF MonitorInv
<1>4. SamplerInv /\ StateInv
  BY DEF SamplerInv, StateInv, Missed, LoadTestStates
<1>5. ResultInv /\ FinalInv
  BY DEF ResultInv, FinalInv
<1>6. AnswerInv /\ SpanInv
  BY NoneAssumption DEF AnswerInv, SpanInv
<1> QED
  BY <1>1, <1>2, <1>3, <1>4, <1>5, <1>6 DEF IInv

LEMMA Invariance == Spec => []IInv
<1>1. IInv /\ [Next]_vars => IInv'
  BY TypeStep, BaseStep, MonitorStep, SamplerStep, StateStep, ResultStep, AnswerStep, FinalStep,
     SpanStep
  DEF IInv
<1> QED
  BY InitInv, <1>1, PTL DEF Spec

------------------------------------------------------------------------------
(* What the report says *)

\* A run whose load was cut short is an error exactly when the window was reached too quickly;
\* without an error its window holds the target and the minimum duration, and the rates over
\* the run and over the window are over the same seconds and differ by the failed transactions
\* (StoppedByConditionError, summarizeCorrectedLoadTest and deriveMetrics).
THEOREM StopReported == Spec => []StoppedRunsReportTheirWindow
<1>1. IInv => StoppedRunsReportTheirWindow
  <2> SUFFICES ASSUME IInv, pc = "reported", cfg.runner = "testnet", result.stopped, ~result.panic
               PROVE  /\ result.error <=> answer.early
                      /\ ~result.error =>
                           /\ result.window.ok >= monitor.target
                           /\ result.window.ended - result.window.started >= cfg.min
                           /\ result.corrected # None =>
                                /\ result.derived.windowTxs = result.derived.txs + result.corrected.failed
                                /\ result.derived.seconds = result.derived.windowSeconds
                                /\ result.corrected.ok + result.corrected.failed
                                     = result.corrected.total
    BY Zenon DEF StoppedRunsReportTheirWindow, Returned
  <2> USE DEF IInv
  <2>1. /\ answer.err = "stopped" /\ monitor.at = "over" /\ monitor.last.reached
        /\ answer.early = ~monitor.last.dur
    BY DEF AnswerInv
  <2>2. /\ result.error = answer.early
        /\ ~result.error => result.corrected \in {None, Windowed(result.window)}
        /\ ~result.error /\ result.corrected # None => result.derived = deriveMetrics(result)
    BY DEF FinalInv, Unwinding
  <2>3. /\ result.window # None /\ result.window \in Observations
        /\ result.window.reached = monitor.last.reached /\ result.window.dur = monitor.last.dur
        /\ result.window.started = monitor.last.started
        /\ result.window.ended = monitor.last.ended
        /\ result.window.inc = monitor.last.inc /\ result.window.ok = monitor.last.ok
    BY <2>1 DEF ResultInv, Unwinding
  <2>4. ASSUME ~result.error
        PROVE  /\ result.window.ok >= monitor.target
               /\ result.window.ended - result.window.started >= cfg.min
    BY <2>1, <2>2, <2>3, <2>4 DEF MonitorInv, Observations
  <2>5. ASSUME ~result.error, result.corrected # None
        PROVE  /\ result.derived.windowTxs = result.derived.txs + result.corrected.failed
               /\ result.derived.seconds = result.derived.windowSeconds
               /\ result.corrected.ok + result.corrected.failed = result.corrected.total
    <3> DEFINE w == result.window
    <3>1. result.corrected = Windowed(w) /\ result.derived = deriveMetrics(result)
      BY <2>2, <2>5
    <3>2. loadWindowAccepted(w)
      BY <2>1, <2>2, <2>3, <2>5 DEF loadWindowAccepted, Observations
    <3>3. w.inc \in Nat /\ w.ok \in Nat
      BY <2>3 DEF Observations
    <3>4. loadCounts(result) = Windowed(w)
      BY <2>5, <3>1 DEF loadCounts
    <3>5. result.derived =
            [txs |-> w.ok, seconds |-> w.ended - w.started,
             windowTxs |-> IF w.inc > 0 THEN w.inc ELSE w.inc,
             windowSeconds |-> w.ended - w.started]
      BY <3>1, <3>2, <3>4 DEF deriveMetrics, Windowed
    <3>6. result.corrected.ok = w.ok /\ result.corrected.failed = w.inc - w.ok
          /\ result.corrected.total = w.inc
      BY <3>1 DEF Windowed
    <3> QED
      BY <3>3, <3>5, <3>6
  <2> QED
    BY <2>2, <2>4, <2>5
<1> QED
  BY <1>1, Invariance, PTL

\* Whatever way runScenario ends, the samples taken are in the report; without a panic the
\* window and the profiles are there too and the teardown is asked for all that the newest
\* state lists, and with one for all but a Catalyst task that could not be destroyed
\* (dockerStatsSampler.Stop, the deferred teardown, Drain and the profile channel).
THEOREM RunMeasured == Spec => []MeasuredAndTornDown
<1>1. IInv => MeasuredAndTornDown
  BY DEF IInv, SamplerInv, StateInv, Missed, ResultInv, MeasuredAndTornDown, Returned, Unwinding
<1> QED
  BY <1>1, Invariance, PTL


\* The accounting of a window is exact: the busy time of a node is what its intervals cover of
\* the window, however they overlap or touch, busy and other time add up to the window, and the
\* parts of a phase to the phase (clipLoadWindowInterval, mergeClippedClockIntervals,
\* summarizeLoadWindowAccounting and summarizeLoadWindowPhaseOverlaps).
THEOREM AccountingExact == Spec => []WindowAccountingExact
<1>1. IInv => WindowAccountingExact
  <2> SUFFICES ASSUME IInv, result.window # None PROVE WindowAccountingExact
    BY DEF WindowAccountingExact
  <2> DEFINE w == result.window
  <2>1. w \in Observations
    BY DEF IInv, ResultInv
  <2> HIDE DEF w
  <2>2. ASSUME NEW n \in Nodes, summarizeLoadWindowAccounting(w, n).busy # None
        PROVE  LET row == summarizeLoadWindowAccounting(w, n)
               IN /\ row.busy = Cardinality(Covered(w.started, w.ended)
                       \cap UNION {Covered(i.s, i.e) : i \in {j \in w.ivals : j.node = n}})
                  /\ row.busy + row.residual = row.seconds
    BY <2>1, <2>2, RowFacts
  <2>3. ASSUME NEW o \in summarizeLoadWindowPhaseOverlaps(spans, w)
        PROVE  /\ o.before + o.in + o.after = o.phase.e - o.phase.s
               /\ o.in = Cardinality(Covered(o.phase.s, o.phase.e) \cap Covered(w.started, w.ended))
    <3>1. w.started \in Nat /\ w.ended \in Nat
      BY <2>1 DEF Observations
    <3>2. w.started < w.ended
      BY <3>1 DEF summarizeLoadWindowPhaseOverlaps
    <3>3. PICK p \in {q \in ToSet(spans) : q.e > q.s} : o = phaseOverlap(p, w)
      BY <3>1, <3>2 DEF summarizeLoadWindowPhaseOverlaps
    <3>4. p.s \in Nat /\ p.e \in Nat /\ p.s < p.e
      <4>1. \A q \in ToSet(spans) : q.s \in Nat /\ q.e \in Nat
        <5> DEFINE Span == [name : {"before", "load"}, s : Nat, e : Nat]
        <5>1. spans \in Seq(Span)
          BY DEF IInv, SpanInv
        <5>2. \A q \in Span : q.s \in Nat /\ q.e \in Nat
          OBVIOUS
        <5> HIDE DEF Span
        <5>3. \A q \in ToSet(spans) : q \in Span
          BY <5>1 DEF ToSet
        <5> QED
          BY <5>2, <5>3
      <4> QED
        BY <3>3, <4>1
    <3> QED
      BY <3>1, <3>2, <3>3, <3>4, OverlapFacts
  <2> QED
    BY <2>2, <2>3, Zenon DEF WindowAccountingExact, w
<1> QED
  BY <1>1, Invariance, PTL

============================================================================
