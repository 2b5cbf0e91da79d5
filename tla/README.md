# A verification model of megamon

Megamon watches a GKE cluster (node pools, JobSets, LeaderWorkerSets, slices),
keeps a history of when each resource was up or down in a GCS bucket, and
reports up times, down times, interruptions and recoveries as metrics. This
directory models the parts of `internal/` that decide what is recorded and
reported, checks them with TLC and proves the central ones with TLAPS.

## 1. The system

| Component | State | Operations | Talks to |
|---|---|---|---|
| records (`records/events.go`, `report.go`) | none; histories `UpEvents` are passed in | `Upness.Up`, `AppendUpEvent`, `AppendStateChangeEvents`, `Summarize` | called by the Event Log and the Summary Producer |
| Event Log (`aggregator/events`, `gcsclient`) | observed store (memory), one object per resource type in GCS | `AppendStateChange(s)`, `GetLatestObservedState`, `IsPopulated`, `Get`, `Put` | written by two goroutines, read by a third |
| Polling loop, NodePoller (`aggregator.go:64`, `poller`) | none | list nodes and node pools, append under `node-pools` | GKE, Kubernetes cache, Event Log |
| Workload Reconciler (`controller/workload_reconciler.go`) | one work-queue request; Slice Owner Map in a ConfigMap | reconcile everything, append a batch | watches, Kubernetes cache, Event Log |
| Pod Reconciler (`controller/pod_reconciler.go`) | none | map a pod's node pool to its job | Aggregator |
| Aggregation loop, Summary Producer (`aggregator.go:89`, `report`) | Global Report, ready flag, scheduling map | wait until populated, read, summarize, prune, publish, export | Event Log, exporters |
| Exporters (`exporters.go`) | report ConfigMap | write the report | Global Report |
| Metrics (`metrics`) | none | give the series of a scrape | Global Report, ready flag |
| Manager (`manager`) | the process: controllers, Aggregator, metrics server, lease | start, elect, serve, shut down | Kubernetes, everything above |

What is hard in it: three goroutines and two controllers share the observed
store, the scheduling map and the bucket with locks held only per call; the
bucket is updated by read, append, write without a precondition; every call may
fail, and a failed write may have taken effect; a process may restart anywhere
and two may overlap in a rollout (`config/manager/deployment.yaml` leaves the
`Recreate` strategy commented out, leader election is off by default); time
stamps are taken before the reads they belong to; observations are put together
from several lists, out of caches that lag; the readiness of a process depends on
a lease that its predecessor holds; and
`Summarize` is written for histories that alternate between up and down, which
the recorded ones need not do. `PROJECT.json` lists each hazard at its line.

What makes the parts correct: a history starts down, has one event per change,
in the order of time, and is never rewritten; the log follows the cluster, also
after failures; no interruption is recorded that did not happen; reports and
metrics are made of real observations, move forward and end up showing the
cluster; the summaries say what the history says; slices that vanish under a
running owner are interruptions, the others are forgotten; only what is gone is
forgotten; an update of megamon itself completes, and the log survives it. The
last holds of node pools, which are polled for ever, and of workloads only where
leader election keeps the two processes apart (section 3).

## 2. The modules

| Module | Models | Used by |
|---|---|---|
| `UpEvents` | `Up`, `AppendUpEvent`, `AppendStateChangeEvents` | all others |
| `Summary` | `Summarize` | `History`, `Metrics` |
| `History` | one resource observed over time, with its summary at any moment | `MCHistory` |
| `StateChangeLog` | the abstract specification of the log: one indivisible append per observation | `EventLog` (refinement) |
| `EventLog` | cluster, bucket, observed store, and the poller and the Workload Reconciler of every process | `MCEventLog`, `Aggregator`, `Rollout` |
| `Metrics` | the series a scrape gives of a report | `Aggregator` |
| `Aggregator` | `EventLog` composed with the aggregation loop, the metrics, the Pod Reconciler and the ConfigMap exporter | `MCAggregator`, `ReportHistory` |
| `ReportHistory` | `Aggregator` with history variables that remember when the log forgot a resource | `MCReportHistory` |
| `Rollout` | `EventLog` composed with the life cycle of two processes: set-up, lease, readiness, metrics server, shutdown, crash, rolling update | `MCRollout` |
| `Observers` | what the poller and the Workload Reconciler compute from lists of nodes, node pools, JobSets and LeaderWorkerSets | `MCObservers` |
| `SliceReconciler` | `processSlices`: listed and missing slices, their owners, the owner map behind its cache | `MCSliceReconciler` |
| `UpEventsProofs` | lemmas on the operators of `UpEvents` | the other proofs |
| `EventLogProofs`, `RolloutProofs`, `AggregatorProofs` | theorems about the module of that name (the last: about `ReportHistory`, too); the last two build on the first | |
| `SliceReconcilerProofs`, `HistoryProofs`, `ObserversProofs` | theorems about the module of that name | |
| `InterruptionProofs` | the proofs of `InterruptionsWereReal` and `OnlyTheGoneAreForgotten` of `Observers` | |

The `MC` modules supply values for constants. `MCReportHistory` (which extends
`MCAggregator`, too) and `MCRollout` have one more variable, `scenario`, which is
chosen in the initial state and says what may change in this behaviour, so that one
run asks its question of several small clusters. Definitions commented
"Mutant of X" are faulty versions of X that `PROJECT.json` uses to show that each
property can fail; no specification uses them.

### State and actions

*EventLog.* `store` is the bucket, key by key; `observed` the
`CurrentObservedStore` of each process; `pc` and `run` are where each writer is
and its local variables; `dirty` is the work queue, which holds at most the one
request of `mapToStatic`. The poller goes `PollResources`, `StampPoll`,
`UpdateObserved`, `GetRecords`, `PutRecords`; the reconciler `StartReconcile`,
`ListWorkloads`, and then the same. `GetRecords` is one step for one key and
takes the keys in any order, as a Go map is ranged over. `ListFails`, `GetFails`
and `PutFails` are the error returns; the last may leave the write done or not.
A failed poll, and an error return before anything is read, change nothing and
are not actions. `Restart` loses everything but the bucket and queues a request
if a watched object exists. `cluster` is what the observers *would compute* from
a listing: any member of `Upnesses`; how they compute it is the subject of
`Observers`. The several `List` calls of one reconciliation are one step here; a
change between them queues another request, so that the state the log comes to
rest in is the same.

*Observers.* `watch` has, per kind of object, the states its informer cache has
yet to go through: the first is what a list returns, the last is the cluster as
it is. GKE node pools are not cached. A poll lists nodes in one step and node
pools in the next; a reconciliation lists workloads and then nodes (the lists of
JobSets and of LeaderWorkerSets are one step, since nothing combines them).
`NodePoolsUp`, `JobSetsUp`, `JobSetNodesUp` and `processLeaderWorkerSets` count
as the code does; topologies are sequences of dimensions, and parsing is whether
it succeeds. The append to the log is one step with time stamp 0. The
environment follows the JobSet controller (a child job becomes ready, and then
succeeds or is lost) and GKE (the status of a pool moves along `StatusChanges`;
nodes leave before their pool does). `interrupted` counts what really happened,
judged on the cluster as it is at every moment. A pool name is not reused. The
nodes of a pool have the same labels, as GKE gives them.

*Rollout.* `phase` is where `MustRun` is: set-up, waiting for the lease, running,
shutting down the metrics server (`closing`), waiting for its goroutine
(`joining`), exited. `server` is that goroutine. Steps of a process's writers are
those of `EventLog`, allowed while its runnables run, and to finish what they have
begun after that. `election` is chosen in the initial state, so a run covers both
configurations. External: the Deployment (one replica, and the default strategy:
the old pod is told to stop when the new one is ready), the kubelet, and the lease,
which is not released on exit (`LeaderElectionReleaseOnCancel` is commented out) and
expires when its holder no longer runs, or is stalled. Set-up fails, and the
process exits, at any point: that is `Crash`. The five seconds `Shutdown` may take
are not counted.

*Metrics.* `Scrape` is the callback: nothing before the ready flag is set, then one
series per gauge and resource of the report; labels are the resource's name if the
report has its upness, and none if it has only events of it. Gauges that are zero
are left out where the code does. The ready flag and the report are read in one
step: the flag is never taken back.

*Aggregator.* `at` is where the aggregation loop is; every observed key and every
object is read in a step of its own, in the code's order. `Publish` copies the
scheduling map and stores the report in one step: nobody else writes the report,
and the mapping is not compared with it in between. A report keeps its time and
its events; summaries are computed from them by `Summarize`. `ReconcilePod`
either updates the mapping, or does nothing (pod or node gone, labels missing).
`ReportHistory` adds counters of how often the log has forgotten each resource, and
what they were when the draft and the report read its events; no step depends on
them.

*SliceReconciler.* `configMap` is the owner map at the API server with its
version, `cached` what reads see. A lookup of an owner, a save or an append may
fail, the cache may lag, each within a bound; an append that fails may have taken
effect. The append to the log is one step here, since `EventLog` shows what it is
made of. Owners run, end or are suspended, are resumed, deleted, and created again
under the same name; a slice name belongs to one owner (it is made from the owner's
name). Slices change whatever their owner does, also before it is seen to exist, so
that reading slices and owners as they are covers caches of which one is behind the
other. `orphaned` remembers that an owner did not run since a slice was last
recorded; no step reads it. Slices whose owner kind is not supported are not
modelled, nor is an owner map that does not parse: only megamon writes it.

## 3. The runs

| Run | Result | What it shows |
|---|---|---|
| `history` | pass | all histories of up to 5 events in 5 ticks, over every condition the observers report: up and down time account for all time; on alternating histories times, counts and totals are exactly what the history means, the totals including the downtimes that are not counted; the provisioning outcome is final; counts do not decrease |
| `interruptions_are_real` | violation | down, then down with another flag, counts as one more interruption, and down time is added to `UpTime` |
| `event_log` | pass | one process, failures, ambiguous writes, a restart: well-formed and ordered histories, never rewritten; the log agrees with the cluster, and the observed store is what the cluster is, whenever the reconciler rests; refinement of `StateChangeLog`; the log catches up |
| `event_log_slices` | violation | slices enabled, last workload deleted, restart: nothing is queued and the log keeps the deleted workload |
| `aggregator` | pass | end to end, over a node pool and its pods with a failing call or a restart, JobSets and their nodes observed as one batch, and a resource that goes and returns over two instants: nothing is emitted before both observers have run; from one report to the next a history is continued, and starts anew only if the log had forgotten the resource between the two reads; scrape and export come to show the cluster, every resource under its own label; mappings of node pools that are gone disappear |
| `durations_not_negative` | violation | an event recorded after `now` was taken and before it is read gives a negative duration (slices enabled) |
| `observers` | pass | lists of different moments, lagging caches, failing lists: no more interruptions are recorded than there were, only the histories of what is gone are dropped, and the histories come to say what is up |
| `completion_is_no_interruption` | violation | a JobSet whose child jobs succeed one after the other is recorded as interrupted before it is recorded as completed |
| `rollout` | pass | a rolling update with a crash, a stalled lease holder or a failing call at any point: histories stay well formed, and the log of node pools catches up, even where two processes overlap and updates are lost; with leader election and no stall none is lost, and the log of workloads catches up as well; without election the update completes |
| `started_becomes_ready` | violation | with leader election the new process is never ready, as the old one keeps the lease until it is |
| `slices` | pass | unless a lookup or save failed or the cache lagged, a slice is forgotten only if its owner did not run at some time since; unless a lookup failed, the log catches up with the slices; unless a save failed or the cache lagged, the owner map does too |
| `active_owners_keep_history` | violation | a stale read of the owner map makes the log forget a slice whose owner runs |

`InterruptionsWereReal` depends on the order of the two lists in
`PollResources`: nodes first. A pool that is being deleted loses its nodes after
its status says so; with the lists swapped (the mutant of that property) a pool
can be seen as running with its nodes gone.

Three of the passing properties say less than one might expect, because more does
not hold:

* `RolloutLogCatchesUp` promises of workloads less than `LogCatchesUp` of `EventLog`.
  What a lost update takes away from the node pools comes back because the poller
  observes again and again, whereas workloads are reconciled only when something
  that is watched changes or a process starts. Without leader election (or after a
  stall) the old process may be about to put what it has based on an old read when
  it is told to stop; a JobSet is deleted, the new process reconciles, and then the
  old put lands and brings the JobSet back. Nothing is queued that would correct it,
  so the log stays wrong until the next event of a watched object. With slices
  disabled Nodes are watched, too, and the next heartbeat of any node is such an event.
  The last condition, that a watched object exists, is the one
  `event_log_slices` is about.
* `MetricsCatchUp` speaks of the end only. `GenerateSummaries` reads key by key, so a
  report may show the JobSets of one batch and the JobSet nodes of the next, although
  `observed_store.go:35` promises a consistent snapshot; once the batches cease, the next report does not.
* `TotalsMatchCounts` does not relate the means to single downtimes: an expected
  downtime is in the total but not in the count, so that
  `MeanDownTimeBetweenRecovery` can exceed every time to recovery there was.

*Bounds.* One resource is enough in `EventLog`, `Aggregator` and `Rollout`:
resources of a key do not influence each other, except through the object they
share, which the keys `jobsets` and `jobset-nodes` of one JobSet and the deletion
of the only resource exercise. Two changes give appear-and-change and
appear-and-delete, one failure and one restart fall at every possible point of
them. `event_log` has three instants (a stamp before, at and after another's).
`aggregator` has four scenarios: a node pool and the pods on it, with a call that
fails; the same with a restart; JobSets and their nodes, the batch of two keys that a
report may tear; and a node pool with three changes over two instants, so that it
appears, goes and returns, and an event and the report that shows it may differ in
time. `durations_not_negative` has two instants as well, `rollout` one: no property of
that run compares time stamps. It has two scenarios, node pools in every setting, and
JobSets where something is promised of them: with leader election and no stall. Each
has one fault, a crash, a stall or a failing call; the restarts of both processes are
the end of one life and the start of the next, and their bound leaves room for all
of them. Slices are enabled in `rollout`, so that the Workload Reconciler has nothing
to do in an empty cluster, which is what readiness must not wait for.
`observers` has one node, one pool and three changes: a pool that runs, stops and
loses its node, a JobSet deleted and another one created under its name over the
same node, a node that is silent for long, and all of these seen by each cache at
any later time. A LeaderWorkerSet is scaled to zero, the edge at which nothing is
expected. The violation run adds a JobSet of two jobs, a pool whose size only its
nodes' labels give, and one whose machine type does not parse.
`slices` has four changes: a slice appears, vanishes, its owner stops, and is resumed
before the log is written; or it is marked for deletion first, or returns.
The threshold is one half, except in `observers`, where the one node may be
unknown.

*Deadlock.* `history` ends at its bounds, and a slice reconciler whose queue is
empty rests; both passing runs say `CHECK_DEADLOCK FALSE`. The poller and the
aggregation loop never stop, and deadlock is checked in the other passing runs.

*Fairness.* Weak fairness for the own steps of each writer, of the aggregation
loop, of the slice reconciler, and of each queued pod request: tickers fire
again, controller-runtime serves every queued request, and calls return. For a
cache it says that a watch eventually delivers. In `Rollout` it also holds for the
steps of each process from start to exit (the kubelet restarting it included), for
the Deployment controller deleting the old pod and for the expiry of a lease that
is not renewed. Nothing is assumed of failures, restarts, changes of the cluster
and the start of an update; the first are bounded, and the liveness properties say
what happens once they cease.

## 4. The proofs

The theorems hold for every value of the constants the assumptions allow, so for
every number of resources, processes and failures, where the runs have one or two.
Each leaf is checked by `tlapm`.

### The log (`EventLogProofs`)

* `TypeCorrect`: `Spec => []TypeOK`. `TypeOK` is inductive; what matters in it is
  that a writer that is about to put holds records of a key of its own.
* `HistoriesStayWellFormed`: `Spec => []HistoriesWellFormed`. It needs
  `PendingWellFormed`: what a writer will put is well formed already. No
  assumption on the number of processes.
* `TimesStayOrdered`, `PendingStaysFresh`: with a single process,
  `Spec => [](TimesOrdered /\ PendingFresh)`. Ordered time stamps are not inductive:
  a put could bring back an old object. `PendingFresh` says that from the moment a
  writer has its time stamp no event of its keys is later, and that what it is about
  to put is the append of its observation to what the object holds *now*. It holds
  because the two writers of a process own different keys (`WritersOwnTheirKeys`).
* `HistoriesGrow`: with a single process, `Spec => HistoriesOnlyGrow`.
* `LogImplemented`: with a single process, `Spec => ImplementsLog`, the
  refinement of `StateChangeLog` under `hist <- store`: a put is one `Record`
  step, every other step stutters.
* `RestingLogStaysCurrent`: with a single process and without slices,
  `Spec => []RestingLogIsCurrent`. That the log is current when the reconciler rests
  says nothing of the states before; the invariant `ReconcileOK` does: unless a
  request is queued, what the reconciler listed is still true, the keys it is done
  with agree with the cluster, and so will the one it is about to put. The run
  `event_log_slices` shows why slices are excluded.
* `RestingViewStaysCurrent`: under the same hypotheses, `Spec => []RestingViewIsCurrent`:
  the observed store is then equal to the cluster, from the moment a reconciliation
  has replaced it until the next change queues a request (`ViewOK`).

The invariants are argued from four lemmas that say which steps can change the
store, the clock, a time stamp and a pending write (`StoreStep`, `ClockStep`,
`StampStep`, `PutStep`), and not action by action.

### Rolling updates (`RolloutProofs`)

* `RolloutIsEventLog`: `RolloutSpec => Spec`. The start and the end of a process are
  a `Restart`, what else a process does stutters. With it the theorems on `EventLog`
  that do not assume a single process hold here: `RolloutKeepsWellFormed`.
* `RolloutTypeCorrect`: `RolloutSpec => []RolloutTypeOK`; the types tie the metrics
  server to the phase of its process.
* `LeaderLosesNoUpdate`: `RolloutSpec => LeaderWritesAlone`: with leader election,
  and no stalled holder of the lease, histories only grow although two processes
  overlap. The invariant is `LeaderInv`: only the holder of the lease is at work
  (`LeaderAlone`). That is all that `TimesOrdered` and `PendingFresh` need, so their
  lemmas in `EventLogProofs` assume it (`OneAtWork`) instead of a single process.

### Reports (`AggregatorProofs`)

* `AggregatorTypeCorrect`: with `Gathered`, the keys the draft has at each point of
  the loop, in the order in which the code reads them.
* `NothingEmittedBeforeObserved`: `AggregatorSpec => []EmitsOnlyWhenObserved`. The
  invariant `Populated` says that every key is observed from the first aggregation
  on; a restart takes back the report and the ready flag with the observed store.
* `ReportsStayInOrder`: `HistorySpec => ReportsNeverGoBack`. A report is compared
  with the one before, and the log may have moved far in between, so the invariant
  relates both to the log: what was reported or read is behind what is stored (the
  stored history continues it, if the log has not forgotten the resource since, and
  otherwise is later; and so will be whatever a writer puts next), and the draft
  continues the report.

### Slices (`SliceReconcilerProofs`)

* `SliceTypeCorrect`: with `RunInv`, what a reconciliation holds at each of its steps.
* `OwnerMapKeepsHistory`: `Spec => KeepsHistoryUnlessFaulty`. The invariant `MapInv`:
  as long as no lookup or save has failed and the cache has not lagged, the
  reconciler works on the map as it is stored, and both remember every slice with
  a history unless its owner did not run at some time since. The run
  `active_owners_keep_history` shows that one stale read is enough to break it.

### Summaries (`HistoryProofs`)

* `HistoryTypeCorrect`, and `OutcomeStaysFinal`: `Spec => ProvisioningOutcomeFinal`.
* `TimeStaysAccounted`: `Spec => []TimeAccounted`. It holds of any history, alternating
  or not and in whatever order its time stamps are, so `TypeOK` is all it needs: the
  two totals of `Summarize` telescope (`TotalsTelescope`).
* `SummaryStaysExact`: `Spec => []ExactWhenAlternating`. The invariant is `StartsDown`,
  since `Summarize` counts from the third event on, and `InOrder`: time stamps never
  decrease along a history, and none is later than the clock.
* `TotalsStayExact`: `Spec => []TotalsMatchCounts`. From the second event to the last
  the totals are the instants up and the instants down; as events that alternate are
  followed by their opposite, interruptions and recoveries are matched one to one but
  for an interruption that is the last event.
* `NothingGoesBack`: `Spec => CountsNeverDecrease`. For the times it goes through
  `SummaryStaysExact`: an instant at which the resource was up stays one when an event
  is added, as the event comes later.

`Summarize` adds up gaps, so these theorems take induction over data. The theorems of
the library that do induction cannot be used, but the least-number principle (`WFMin`)
speaks of sets, and `SetInduction` follows from it: a set of naturals with 0 and every
successor has them all. By it, over the size of a set of events, what `TotalGap`
computes does not depend on the order in which it takes the events (`SumsAgree`,
`TotalGapRemove`); and over the events, the two totals account for the time from the
second event on (`TotalsTelescope`), and the up total is the number of instants up
(`UpTotalExact`). The lemmas are about any history that starts down and is ordered,
which `HistoriesStayWellFormed` and `TimesStayOrdered` show of the stored ones.
`UpTimeExact` takes `now` to be no earlier than the last event; the run
`durations_not_negative` shows what happens when it is.

### Observations (`ObserversProofs`, `InterruptionProofs`)

* `ObserversTypeCorrect`: `Spec => []TypeOK`, from `ObserversInv`, the types of the
  states the caches have yet to see, of what was listed, and of the histories.
* `RecordedInterruptionsWereReal`: `Spec => []InterruptionsWereReal`: whatever the
  lag of each cache, and whichever lists fail, no history has more interruptions
  than its resource had. The property compares a history with a count at the
  cluster that the caches have not seen yet, so it is not inductive. The invariant
  `RealInv` gives every state a cache has yet to see, and every list that is being
  worked on, a number: how often the resource had been interrupted by then. These
  numbers grow along a cache, by one at least wherever an up state is followed by a
  down one (`Chain`), and a history never has more interruptions than the number of
  the state that is recorded next (`Before`, `Accounted`), so that skipping states
  can only lose interruptions (`FlipThrough`). What is over, completed or deleted,
  stays over. For node pools two lists meet, and the number is that of the nodes
  list, the earlier one: the argument needs that it comes first, that nodes leave
  after the status of their pool says so, and that a status never leaves `STOPPING`
  but for deletion. The nodes of a JobSet are numbered along the cache of nodes alone:
  the list of JobSets only decides whether they are recorded or forgotten.
* `OnlyTheGoneAreEverForgotten`: `Spec => OnlyTheGoneAreForgotten`. A workload is dropped
  when it is missing from a list that may be old. The invariant `LastsInv` says that
  the list in hand and the states its cache has yet to see follow each other as a
  workload is created and deleted, and that one with a history had been created in
  all of them: missing from the list it is gone, and stays gone up to the present.

### Assumptions

`ThresholdAssumption` is the range `manager.go:184` enforces. The others give types
to constants; of these `AggregatorAssumption` says that the module is about one
process, `RolloutAssumption` that "nobody" is not the name of a process, and
`ObserversAssumption` that a node may be ready (`"True"` is one of its statuses). A
single process and slices off are hypotheses of the theorems that need them.

### Only model-checked

The liveness properties: `LogCatchesUp`, `RolloutLogCatchesUp`, `MetricsCatchUp`, `DeadPoolsForgotten`,
`ObservationsCatchUp`, `RolloutCompletes`, `SlicesCatchUp` and `OwnerMapForgets`.
Fairness and `ENABLED` are outside the prover's reach.

## 5. Not modelled

* Attributes other than the name a series is told by, chip counts, the parsing of
  strings (only whether it succeeds), JSON, logging and latency histograms: they
  decide nothing a property is about. `internal/aggregator/utils.go` repeats
  `aggregator/utils/utils.go` and is used by tests only.
* The label the Pod Reconciler gives a Job, which it sets on a local copy and never
  writes.
* Reading of the configuration and the choice of clients in `manager.go` (its exits
  are `Crash`), the set-up of OpenTelemetry, health probe and webhook server.
* The simulation stubs, the copied Slice API and generated code.
* A Slice Owner Map that does not parse (`workload_reconciler.go:70`), which would start
  afresh: only megamon writes it.
* When a job mapping that was pruned too early returns (`aggregator.go:196`): with
  the next event of its pod, and no document promises more.

## 6. State and plan

The modules of the plan are written, and every invariant, action property and
refinement that a passing run checks is proved: the log and its abstract
specification, rolling updates, reports, slices, observations and summaries.

Left: to shorten `InterruptionProofs`, the longest argument, where the cases of
JobSets, of their nodes and of node pools repeat each other. Liveness stays with TLC.
