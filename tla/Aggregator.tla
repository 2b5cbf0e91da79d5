----------------------------- MODULE Aggregator -----------------------------
(***************************************************************************)
(* One megamon process: the observers and the Event Log of EventLog,       *)
(* composed with the aggregation loop, which turns the observed state and  *)
(* the stored events into the Global Report, with the Pod Reconciler,      *)
(* which maps node pools to the jobs scheduled on them, and with the       *)
(* ConfigMap exporter.                                                     *)
(*                                                                         *)
(* The loop takes one lock, or makes one call, at a time: every observed   *)
(* key and every object of the bucket is read in a step of its own, and    *)
(* the observers go on meanwhile.                                          *)
(***************************************************************************)
EXTENDS EventLog, Metrics

CONSTANTS
    Self,       \* the one instance
    Jobs        \* jobs whose leader pods run on node pools

ASSUME AggregatorAssumption == Instances = {Self}

(* The keys in the order in which GenerateSummaries copies their observed  *)
(* state, and that in which it fetches their events.  The first are also   *)
(* the keys that must have been observed before the first report.          *)
ObservedOrder ==
    <<"jobsets", "node-pools">>
      \o (IF SliceEnabled THEN <<"slices">> ELSE <<"jobset-nodes">>)
      \o (IF LeaderWorkerSetEnabled THEN <<"leader-worker-sets">> ELSE << >>)

EventsOrder ==
    <<"jobsets">>
      \o (IF SliceEnabled THEN << >> ELSE <<"jobset-nodes">>)
      \o <<"node-pools">>
      \o (IF SliceEnabled THEN <<"slices">> ELSE << >>)
      \o (IF LeaderWorkerSetEnabled THEN <<"leader-worker-sets">> ELSE << >>)

requiredKeys == Range(ObservedOrder)

(* A report, or the part of it that is gathered.  Summaries are a function *)
(* of its events and its time.                                             *)
NewReport(now) ==
    [now |-> now, ups |-> EmptyMap, events |-> EmptyMap, scheduling |-> EmptyMap]

(* The zero Report: nothing has been published.                            *)
NoReport == NewReport(0)

VARIABLES
    at,             \* where the aggregation loop is
    isPopulated,    \* the loop has seen every required key observed
    reportReady,    \* what the readiness probe and /metrics ask
    draft,          \* the report that is being generated
    report,         \* the Global Report
    scheduling,     \* nodePoolScheduling: node pool |-> job
    pods, podQueue, \* leader pods <<node pool, job>>; requests queued for them
    exported        \* the report in the exporter's ConfigMap

loopVars == <<at, isPopulated, reportReady, draft, report, exported>>
podVars  == <<scheduling, pods, podQueue>>
allVars  == <<vars, loopVars, podVars>>

Put(f, x, v) == [y \in DOMAIN f \cup {x} |-> IF y = x THEN v ELSE f[y]]

AggregatorInit ==
    /\ Init
    /\ at = "idle" /\ isPopulated = FALSE /\ reportReady = FALSE
    /\ draft = NoReport /\ report = NoReport /\ exported = NoReport
    /\ scheduling = EmptyMap /\ pods = {} /\ podQueue = {}

-----------------------------------------------------------------------------
(* The aggregation loop.                                                   *)

(* Mutant of StartAggregate: it does not wait for the observers.           *)
StartAggregateAtOnce ==
    /\ at = "idle"
    /\ reportReady' = TRUE /\ isPopulated' = TRUE
    /\ at' = "observed" /\ draft' = NewReport(clock)
    /\ UNCHANGED <<report, exported, podVars, vars>>

(* A tick of the loop: the process counts as ready from the first one on,  *)
(* but nothing is aggregated until every required key has been observed.   *)
(* Aggregate takes the time before it reads anything.                      *)
StartAggregate ==
    /\ at = "idle"
    /\ reportReady' = TRUE
    /\ isPopulated' = (isPopulated \/ requiredKeys \subseteq DOMAIN observed[Self])
    /\ IF isPopulated'
       THEN at' = "observed" /\ draft' = NewReport(clock)
       ELSE UNCHANGED <<at, draft>>
    /\ UNCHANGED <<report, exported, podVars, vars>>

(* CurrentObservedStore.Get of the next key; the lock is released between  *)
(* keys.                                                                   *)
GetLatestObservedState ==
    /\ at = "observed"
    /\ LET k == ObservedOrder[Cardinality(DOMAIN draft.ups) + 1]
           ups == IF k \in DOMAIN observed[Self] THEN observed[Self][k] ELSE EmptyMap
       IN  draft' = [draft EXCEPT !.ups = Put(@, k, ups)]
    /\ at' = IF DOMAIN draft'.ups = requiredKeys THEN "events" ELSE at
    /\ UNCHANGED <<isPopulated, reportReady, report, exported, podVars, vars>>

(* Mutant of GetEvents: it stops one key early.                            *)
GetEventsShort ==
    /\ at = "events"
    /\ LET k == EventsOrder[Cardinality(DOMAIN draft.events) + 1]
       IN  draft' = [draft EXCEPT !.events = Put(@, k, store[k])]
    /\ at' = IF Cardinality(DOMAIN draft'.events) + 1 = Len(EventsOrder) THEN "prune" ELSE at
    /\ UNCHANGED <<isPopulated, reportReady, report, exported, podVars, vars>>

(* EventStore.Get of the next key.                                         *)
GetEvents ==
    /\ at = "events"
    /\ LET k == EventsOrder[Cardinality(DOMAIN draft.events) + 1]
       IN  draft' = [draft EXCEPT !.events = Put(@, k, store[k])]
    /\ at' = IF DOMAIN draft'.events = requiredKeys THEN "prune" ELSE at
    /\ UNCHANGED <<isPopulated, reportReady, report, exported, podVars, vars>>

(* Aggregate returns an error, and the report stays as it was.             *)
GetEventsFails ==
    /\ at = "events"
    /\ Spend("fail")
    /\ at' = "idle" /\ draft' = NoReport
    /\ UNCHANGED <<isPopulated, reportReady, report, exported, podVars,
                   clock, cluster, store, observed, dirty, pc, run>>

(* Mutant of pruneNodePoolScheduling: nothing is forgotten.                *)
pruneNothing ==
    /\ at = "prune"
    /\ at' = "publish"
    /\ UNCHANGED <<isPopulated, reportReady, draft, report, exported, podVars, vars>>

(* Jobs of node pools that are not in this report are forgotten.           *)
pruneNodePoolScheduling ==
    /\ at = "prune"
    /\ scheduling' = Restrict(scheduling, DOMAIN scheduling \cap DOMAIN draft.ups["node-pools"])
    /\ at' = "publish"
    /\ UNCHANGED <<isPopulated, reportReady, draft, report, exported, pods, podQueue, vars>>

(* The mapping is copied under its lock again, then the report replaced.   *)
Publish ==
    /\ at = "publish"
    /\ report' = [draft EXCEPT !.scheduling = scheduling]
    /\ at' = "export" /\ draft' = NoReport
    /\ UNCHANGED <<isPopulated, reportReady, exported, podVars, vars>>

(* The ConfigMap exporter; an error is logged.                             *)
Export ==
    /\ at = "export"
    /\ exported' = report
    /\ at' = "idle"
    /\ UNCHANGED <<isPopulated, reportReady, draft, report, podVars, vars>>

ExportFails ==
    /\ at = "export"
    /\ Spend("fail")
    /\ at' = "idle"
    /\ UNCHANGED <<isPopulated, reportReady, draft, report, exported, podVars,
                   clock, cluster, store, observed, dirty, pc, run>>

Loop ==
    \/ StartAggregate \/ GetLatestObservedState \/ GetEvents
    \/ pruneNodePoolScheduling \/ Publish \/ Export

-----------------------------------------------------------------------------
(* The Pod Reconciler.                                                     *)

(* A leader pod runs on a node pool, or it is gone; a watch sees both.     *)
PodChanges(p) ==
    /\ Spend("change")
    /\ pods' = IF p \in pods THEN pods \ {p} ELSE pods \cup {p}
    /\ podQueue' = podQueue \cup {p}
    /\ UNCHANGED <<scheduling, loopVars, clock, cluster, store, observed, dirty, pc, run>>

UpdateNodePoolScheduling(nodepool, js) == scheduling' = Put(scheduling, nodepool, js)

(* The node pool of the pod's node gets the pod's job, unless the pod is   *)
(* gone or its node is.                                                    *)
ReconcilePod(p) ==
    /\ p \in podQueue
    /\ podQueue' = podQueue \ {p}
    /\ \/ p \in pods /\ UpdateNodePoolScheduling(p[1], p[2])
       \/ UNCHANGED scheduling
    /\ UNCHANGED <<pods, loopVars, vars>>

-----------------------------------------------------------------------------
(* The process dies, and starts afresh; every pod is listed again.         *)
ProcessRestart ==
    /\ Restart(Self)
    /\ at' = "idle" /\ isPopulated' = FALSE /\ reportReady' = FALSE
    /\ draft' = NoReport /\ report' = NoReport
    /\ scheduling' = EmptyMap /\ podQueue' = pods
    /\ UNCHANGED <<pods, exported>>

AggregatorNext ==
    \/ (World \/ \E w \in Writers : Progress(w) \/ Failure(w)) /\ UNCHANGED <<loopVars, podVars>>
    \/ Loop \/ GetEventsFails \/ ExportFails
    \/ \E p \in Resources \X Jobs : PodChanges(p) \/ ReconcilePod(p)
    \/ ProcessRestart

AggregatorSpec == AggregatorInit /\ [][AggregatorNext]_allVars

(* The two loops and the controllers keep running.                         *)
AggregatorFairness ==
    /\ \A w \in Writers : WF_vars(Progress(w))
    /\ WF_allVars(Loop)
    /\ \A p \in Resources \X Jobs : WF_allVars(ReconcilePod(p))

AggregatorFairSpec == AggregatorSpec /\ AggregatorFairness

-----------------------------------------------------------------------------
IsReport(r) ==
    /\ DOMAIN r = {"now", "ups", "events", "scheduling"}
    /\ r.now \in 0..MaxTime
    /\ DOMAIN r.ups \subseteq Keys /\ DOMAIN r.events \subseteq Keys
    /\ \A k \in DOMAIN r.ups : IsMapTo(r.ups[k], Upnesses[k])
    /\ \A k \in DOMAIN r.events : IsMapTo(r.events[k], Seq(UpEvent))
    /\ IsMapTo(r.scheduling, Jobs)

AggregatorTypeOK ==
    /\ at \in {"idle", "observed", "events", "prune", "publish", "export"}
    /\ isPopulated \in BOOLEAN /\ reportReady \in BOOLEAN
    /\ IsReport(draft) /\ IsReport(report) /\ IsReport(exported)
    /\ at \in {"prune", "publish"} =>
         DOMAIN draft.ups = Keys /\ DOMAIN draft.events = Keys
    /\ IsMapTo(scheduling, Jobs)
    /\ pods \subseteq Resources \X Jobs /\ podQueue \subseteq Resources \X Jobs

-----------------------------------------------------------------------------
SummaryOf(rep, k, r) == Summarize(rep.events[k][r], rep.now)

(* What a scrape of the process returns at this moment.                    *)
Scraped == Scrape(reportReady, SliceEnabled, report)

(* "Megamon will not emit metrics until poller and reconciler have run at  *)
(* least once" (docs/RELEASE_NOTES.md): a process gives no series before   *)
(* both its observers have written all their keys to the observed store,   *)
(* after a restart too, although its readiness probe passes by then.       *)
EmitsOnlyWhenObserved ==
    Scraped # {} => Keys \subseteq DOMAIN observed[Self]

(* Once the cluster stops changing and calls stop failing, a scrape comes  *)
(* to show the cluster as it is: the up gauges are those of its resources, *)
(* and each has its counts under its own label, with none left without a   *)
(* label; and so does the exported report.                                 *)
MetricsCatchUp ==
    <>[](/\ \A k \in Keys \ {"leader-worker-sets"} :
              /\ {s \in Scraped : s.metric = <<k, "Up">>} = UpSeries(k, cluster[k])
              /\ {s.labels : s \in {x \in Scraped : x.metric = <<k, "InterruptionCount">>}}
                   = {{r} : r \in DOMAIN cluster[k]}
         /\ exported.ups = cluster
         /\ \A k \in Keys : Agrees(exported.events[k], cluster[k]))

(* The mapping of node pools to jobs does not keep node pools that are     *)
(* gone, whatever pod requests arrive late: in the end every node pool     *)
(* with a job is a node pool of the report.                                *)
DeadPoolsForgotten ==
    <>[](report.scheduling # EmptyMap =>
           DOMAIN report.scheduling \subseteq DOMAIN report.ups["node-pools"])

-----------------------------------------------------------------------------
(* docs/RELEASE_NOTES.md: "Fixed a bug that caused up/down time duration   *)
(* metrics ... to report small negative values by enforcing timestamp      *)
(* consistency during event processing".                                   *)
DurationsNotNegative ==
    \A k \in DOMAIN report.events : \A r \in DOMAIN report.events[k] :
        SummaryOf(report, k, r).UpTime >= 0 /\ SummaryOf(report, k, r).DownTime >= 0
=============================================================================
