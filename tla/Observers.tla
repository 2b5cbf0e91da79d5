------------------------------ MODULE Observers ------------------------------
(***************************************************************************)
(* How the two observers compute upness, and from what: the NodePoller     *)
(* from a list of Nodes and a list of GKE node pools, the Workload         *)
(* Reconciler (with slices disabled) from lists of JobSets,                *)
(* LeaderWorkerSets and Nodes.                                             *)
(*                                                                         *)
(* Every list is a call of its own, and Kubernetes objects are listed from *)
(* informer caches, one per kind, each of which lags behind the cluster as *)
(* it likes.  An observation is thus put together from different moments;  *)
(* this module asks what that does to the events recorded from it.  Time   *)
(* stamps, partial writes and restarts are the subject of EventLog: here   *)
(* an append is one step, and every event has time stamp 0.                *)
(***************************************************************************)
EXTENDS UpEvents, FiniteSets, SequencesExt

CONSTANTS
    Nodes, NodePools,           \* names
    JobSets, LeaderWorkerSets,  \* UIDs: an object that is gone never returns
    NodeLabels,     \* node |-> pool, jobset, topology, accelerators
    PoolSpec,       \* node pool |-> topology, chips (per machine)
    JobSetSpec,     \* JobSet |-> name, jobs: a sequence of replicas, parallelism
    Running,        \* JobSets that may run already when megamon starts
    NodeStatuses,   \* the conditions a node gets into
    LWSReplicas,    \* the sizes a LeaderWorkerSet is scaled to
    Nil,            \* a pointer or label that is not set
    Bound           \* bound on changes of the cluster and on lists that fail

(* A topology is the sequence of its dimensions: empty if there is none.   *)
(* Zero accelerators or chips stand for a number that does not parse.      *)
ASSUME ObserversAssumption ==
    /\ NodeLabels \in [Nodes -> [pool : NodePools \cup {Nil}, jobset : STRING \cup {Nil},
                                 topology : Seq(Nat), accelerators : Nat]]
    /\ PoolSpec \in [NodePools -> [topology : Seq(Nat), chips : Nat]]
    /\ \A u \in JobSets : \A i \in DOMAIN JobSetSpec[u].jobs :
         JobSetSpec[u].jobs[i] \in [replicas : Nat, parallelism : Nat \cup {Nil}]
    /\ "True" \in NodeStatuses
    /\ NodeStatuses \subseteq {"NoCondition", "True", "False", "Unknown", "LongUnknown"}
    /\ LWSReplicas \subseteq Nat \cup {Nil}

Kinds == {"nodes", "jobsets", "leaderworkersets"}

Keys == {"node-pools", "jobsets", "jobset-nodes", "leader-worker-sets"}

Observed(k) ==
    CASE k = "node-pools" -> NodePools
      [] k = "leader-worker-sets" -> LeaderWorkerSets
      [] OTHER -> JobSets

VARIABLES
    watch,      \* kind |-> the states its cache has yet to see: the first is
                \* the cache's content, the last is how the cluster is now
    pools,      \* node pool |-> its status; the GKE API is not cached
    dirty,      \* the workload request is queued
    pc, listed, \* observer |-> where it is, and the lists it holds
    store,      \* key |-> resource |-> history
    interrupted,\* key |-> resource |-> how often it really was interrupted
    spent       \* how often the environment has acted

vars == <<watch, pools, dirty, pc, listed, store, interrupted, spent>>

Cached(kind) == watch[kind][1]
Now(kind) == watch[kind][Len(watch[kind])]

-----------------------------------------------------------------------------
(* Reading nodes and node pools.                                           *)

(* Mutant of IsNodeReady: after three minutes an unknown node is down.     *)
IsNodeReadyLimited(status) ==
    CASE status \in {"True", "False"} -> status
      [] status = "LongUnknown" -> "False"
      [] OTHER -> "Unknown"

(* A node is unknown for as long as its Ready condition is, the limit of   *)
(* three minutes notwithstanding: the switch is left without a return.     *)
IsNodeReady(status) == IF status \in {"True", "False"} THEN status ELSE "Unknown"

Present(nodes) == {n \in Nodes : nodes[n] # "Absent"}

IsTPUNode(n) == NodeLabels[n].topology # << >>

IsTPUNodePool(p) == PoolSpec[p].topology # << >>

ChipCount(topology) == FoldLeft(LAMBDA a, b : a * b, 1, topology)

(* The size of a pool is known if topology and machine type can be parsed. *)
Parses(topology, chips) == Len(topology) >= 2 /\ chips >= 1

GetExpectedTPUNodePoolSize(topology, chips) == ChipCount(topology) \div chips

Count(nodes, status) == Cardinality({n \in DOMAIN nodes : IsNodeReady(nodes[n]) = status})

(* The conditions of the nodes with property P.                            *)
Select(nodes, P(_)) == [n \in {m \in Present(nodes) : P(m)} |-> nodes[n]]

(* The nodes that count for a pool.  If its own size is zero, the labels   *)
(* of a node give it, and a node whose labels do not parse is left out;    *)
(* the nodes of a pool have the same labels.                               *)
CountedFor(p, nodes) ==
    LET size == GetExpectedTPUNodePoolSize(PoolSpec[p].topology, PoolSpec[p].chips)
    IN  Select(nodes, LAMBDA n :
          /\ NodeLabels[n].pool = p /\ IsTPUNode(n)
          /\ size = 0 => Parses(NodeLabels[n].topology, NodeLabels[n].accelerators))

ExpectedSize(p, counted) ==
    LET size == GetExpectedTPUNodePoolSize(PoolSpec[p].topology, PoolSpec[p].chips)
    IN  IF size # 0 \/ DOMAIN counted = {}
        THEN size
        ELSE LET n == CHOOSE m \in DOMAIN counted : TRUE
             IN  GetExpectedTPUNodePoolSize(NodeLabels[n].topology, NodeLabels[n].accelerators)

(* NodePoller.PollResources, from the lists it has made.                   *)
NodePoolsUp(nodes, statuses) ==
    [p \in {q \in NodePools : /\ statuses[q] \notin {"NONE", "GONE"}
                              /\ IsTPUNodePool(q)
                              /\ Parses(PoolSpec[q].topology, PoolSpec[q].chips)} |->
       LET counted == CountedFor(p, nodes)
       IN  [ReadyCount    |-> Count(counted, "True"),
            ExpectedCount |-> ExpectedSize(p, counted),
            UnknownCount  |-> Count(counted, "Unknown"),
            ExpectedDown  |-> statuses[p] \in {"STOPPING", "DELETING"},
            Failed        |-> statuses[p] \in {"ERROR", "RUNNING_WITH_ERROR"}]]

-----------------------------------------------------------------------------
(* Reading workloads.                                                      *)

Total(f(_), seq) == FoldLeft(LAMBDA a, x : a + f(x), 0, seq)

(* The first condition that is true and ends, or suspends, the JobSet.     *)
GetJobSetTerminalState(js) ==
    LET true == SelectSeq(js.conditions, LAMBDA c :
                  c.Status /\ c.Type \in {"Completed", "Failed", "Suspended"})
    IN  IF true = << >> THEN "none" ELSE true[1].Type

GetJobSetReplicas(u, js) ==
    [specified |-> Total(LAMBDA j : j.replicas, JobSetSpec[u].jobs),
     ready     |-> Total(LAMBDA r : r, js.ready)]

GetExpectedNodeCount(u) ==
    Total(LAMBDA j : j.replicas * (IF j.parallelism = Nil THEN 1 ELSE j.parallelism),
          JobSetSpec[u].jobs)

Listed(objects) == {u \in DOMAIN objects : objects[u].exists = "yes"}

JobSetsUp(jobsets) ==
    [u \in Listed(jobsets) |->
       LET replicas == GetJobSetReplicas(u, jobsets[u])
           state == GetJobSetTerminalState(jobsets[u])
       IN  [ReadyCount |-> replicas.ready, ExpectedCount |-> replicas.specified,
            UnknownCount |-> 0, ExpectedDown |-> state = "Completed",
            Failed |-> state = "Failed"]]

(* Nodes name their JobSet, not its UID: a node counts for the JobSet that *)
(* is listed under that name.                                              *)
JobSetNodesUp(jobsets, nodes) ==
    [u \in Listed(jobsets) |->
       LET labelled == Select(nodes, LAMBDA n : NodeLabels[n].jobset = JobSetSpec[u].name)
       IN  [ReadyCount |-> Count(labelled, "True"), ExpectedCount |-> GetExpectedNodeCount(u),
            UnknownCount |-> Count(labelled, "Unknown"), ExpectedDown |-> FALSE,
            Failed |-> FALSE]]

processLeaderWorkerSets(lwss) ==
    [u \in Listed(lwss) |->
       [ReadyCount |-> lwss[u].ready,
        ExpectedCount |-> IF lwss[u].replicas = Nil THEN 1 ELSE lwss[u].replicas,
        UnknownCount |-> 0, ExpectedDown |-> FALSE, Failed |-> FALSE]]

(* What the lists of one moment, or of several, say of everything.         *)
Upnesses(nodes, statuses, jobsets, lwss) ==
    [k \in Keys |->
       CASE k = "node-pools"         -> NodePoolsUp(nodes, statuses)
         [] k = "jobsets"            -> JobSetsUp(jobsets)
         [] k = "jobset-nodes"       -> JobSetNodesUp(jobsets, nodes)
         [] k = "leader-worker-sets" -> processLeaderWorkerSets(lwss)]

(* What is true at this moment.  The nodes that carry a JobSet's name are  *)
(* judged whether or not the JobSet exists.                                *)
Truth ==
    [Upnesses(Now("nodes"), pools, Now("jobsets"), Now("leaderworkersets"))
       EXCEPT !["jobset-nodes"] =
         JobSetNodesUp([u \in JobSets |-> [exists |-> "yes"]], Now("nodes"))]

IsUp(up) == EventOf(up, 0).Up

(* Between two moments a resource went from up to down, unexpectedly.      *)
Interrupted(r, old, new) ==
    /\ r \in DOMAIN old /\ r \in DOMAIN new
    /\ IsUp(old[r]) /\ ~IsUp(new[r]) /\ ~new[r].ExpectedDown

-----------------------------------------------------------------------------
(* The cluster.                                                            *)

Events == {"change", "loss", "fail"}

JobSet(u, exists, ready) ==
    [exists |-> exists, ready |-> ready,
     succeeded |-> [i \in DOMAIN JobSetSpec[u].jobs |-> 0], conditions |-> << >>]

(* megamon is started in an empty cluster, or in one where every node pool *)
(* runs, its nodes are ready, and so are the JobSets in Running.           *)
Init ==
    /\ \E running \in BOOLEAN :
         /\ pools = [p \in NodePools |-> IF running THEN "RUNNING" ELSE "NONE"]
         /\ watch = [kind \in Kinds |->
              CASE kind = "nodes" -> <<[n \in Nodes |-> IF running THEN "True" ELSE "Absent"]>>
                [] kind = "jobsets" -> <<[u \in JobSets |->
                     LET up == running /\ u \in Running
                     IN  JobSet(u, IF up THEN "yes" ELSE "no",
                           [i \in DOMAIN JobSetSpec[u].jobs |->
                              IF up THEN JobSetSpec[u].jobs[i].replicas ELSE 0])]>>
                [] OTHER -> <<[u \in LeaderWorkerSets |->
                     [exists |-> "no", replicas |-> Nil, ready |-> 0]]>>]
    /\ dirty = TRUE
    /\ pc = [o \in {"poller", "workload"} |-> "idle"]
    /\ listed = [kind \in Kinds |-> << >>]
    /\ store = [k \in Keys |-> [r \in {} |-> << >>]]
    /\ interrupted = [k \in Keys |-> [r \in Observed(k) |-> 0]]
    /\ spent = [e \in Events |-> 0]

(* A loss is a change of the cluster, too.                                 *)
Spend(e) ==
    /\ IF e = "fail" THEN spent["fail"] < Bound["fail"]
                     ELSE spent["change"] + spent["loss"] < Bound["change"]
    /\ spent' = [spent EXCEPT ![e] = @ + 1]

(* The cluster changes: the caches have yet to see it.                     *)
Happens(kind, state) ==
    /\ watch' = [watch EXCEPT ![kind] = Append(@, state)]
    /\ UNCHANGED pools

CountInterruptions ==
    \E old \in {Truth}, new \in {Truth'} :
      interrupted' = [k \in Keys |-> [r \in Observed(k) |->
        interrupted[k][r] + IF Interrupted(r, old[k], new[k]) THEN 1 ELSE 0]]

ClusterStep(e) ==
    /\ Spend(e)
    /\ CountInterruptions
    /\ UNCHANGED <<dirty, pc, listed, store>>

(* A node appears, disappears or changes its Ready condition.  It exists   *)
(* only while its node pool does.                                          *)
NodeChanges(n, status) ==
    /\ pools[NodeLabels[n].pool] \notin {"NONE", "GONE"}
    /\ status # Now("nodes")[n]
    /\ status = "LongUnknown" => Now("nodes")[n] = "Unknown"
    /\ Happens("nodes", [Now("nodes") EXCEPT ![n] = status])
    /\ ClusterStep("change")

(* GKE provisions, loses, repairs and finally deletes a node pool.         *)
StatusChanges ==
    {<<"NONE", "PROVISIONING">>, <<"PROVISIONING", "RUNNING">>, <<"PROVISIONING", "ERROR">>,
     <<"RUNNING", "RUNNING_WITH_ERROR">>, <<"RUNNING_WITH_ERROR", "RUNNING">>,
     <<"RUNNING", "STOPPING">>, <<"RUNNING_WITH_ERROR", "STOPPING">>, <<"ERROR", "STOPPING">>,
     <<"STOPPING", "GONE">>}

NodePoolChanges(p, status) ==
    /\ <<pools[p], status>> \in StatusChanges
    /\ status = "GONE" => \A n \in Present(Now("nodes")) : NodeLabels[n].pool # p
    /\ pools' = [pools EXCEPT ![p] = status]
    /\ UNCHANGED watch
    /\ ClusterStep("change")

JobSetBecomes(u, js) == Happens("jobsets", [Now("jobsets") EXCEPT ![u] = js])

(* No two JobSets have the same name at the same time.                     *)
JobSetCreated(u) ==
    LET js == Now("jobsets")
    IN  /\ js[u].exists = "no"
        /\ \A v \in Listed(js) : JobSetSpec[v].name # JobSetSpec[u].name
        /\ JobSetBecomes(u, [js[u] EXCEPT !.exists = "yes"])
        /\ ClusterStep("change")

JobSetDeleted(u) ==
    LET js == Now("jobsets")
    IN  /\ u \in Listed(js)
        /\ JobSetBecomes(u, [js[u] EXCEPT !.exists = "gone"])
        /\ ClusterStep("change")

Runs(js, u) == u \in Listed(js) /\ GetJobSetTerminalState(js[u]) = "none"

(* A child job of replicated job i becomes ready; one that is ready        *)
(* succeeds, and is then no longer ready: the last one completes the       *)
(* JobSet in the same update of its status.                                *)
JobReady(u, i) ==
    LET js == Now("jobsets")
    IN  /\ Runs(js, u)
        /\ js[u].ready[i] + js[u].succeeded[i] < JobSetSpec[u].jobs[i].replicas
        /\ JobSetBecomes(u, [js[u] EXCEPT !.ready[i] = @ + 1])
        /\ ClusterStep("change")

JobSucceeds(u, i) ==
    LET js == Now("jobsets")
        succeeded == [js[u].succeeded EXCEPT ![i] = @ + 1]
        done == \A j \in DOMAIN succeeded : succeeded[j] = JobSetSpec[u].jobs[j].replicas
    IN  /\ Runs(js, u) /\ js[u].ready[i] > 0
        /\ JobSetBecomes(u, [js[u] EXCEPT
             !.ready[i] = @ - 1, !.succeeded = succeeded,
             !.conditions = IF done THEN Append(@, [Type |-> "Completed", Status |-> TRUE]) ELSE @])
        /\ ClusterStep("change")

(* A child job loses its readiness, or the JobSet fails, is suspended or   *)
(* resumed; its child jobs are then gone.                                  *)
JobLost(u, i) ==
    LET js == Now("jobsets")
    IN  /\ Runs(js, u) /\ js[u].ready[i] > 0
        /\ JobSetBecomes(u, [js[u] EXCEPT !.ready[i] = @ - 1])
        /\ ClusterStep("loss")

JobSetStops(u, type) ==
    LET js == Now("jobsets")
    IN  /\ Runs(js, u)
        /\ JobSetBecomes(u, [js[u] EXCEPT
             !.ready = [i \in DOMAIN @ |-> 0],
             !.conditions = Append(SelectSeq(@, LAMBDA c : c.Type # type),
                                   [Type |-> type, Status |-> TRUE])])
        /\ ClusterStep("loss")

JobSetResumed(u) ==
    LET js == Now("jobsets")
    IN  /\ u \in Listed(js) /\ GetJobSetTerminalState(js[u]) = "Suspended"
        /\ JobSetBecomes(u, [js[u] EXCEPT !.conditions =
             [i \in DOMAIN @ |-> IF @[i].Type = "Suspended" THEN [@[i] EXCEPT !.Status = FALSE]
                                                          ELSE @[i]]])
        /\ ClusterStep("change")

(* A LeaderWorkerSet is created, scaled, gains or loses ready replicas, or *)
(* is deleted.                                                             *)
LeaderWorkerSetChanges(u, lws) ==
    LET old == Now("leaderworkersets")[u]
    IN  /\ <<old.exists, lws.exists>> \in {<<"no", "yes">>, <<"yes", "yes">>, <<"yes", "gone">>}
        /\ lws # old
        /\ Happens("leaderworkersets", [Now("leaderworkersets") EXCEPT ![u] = lws])
        /\ ClusterStep("change")

Cluster ==
    \/ \E n \in Nodes, s \in NodeStatuses \cup {"Absent"} : NodeChanges(n, s)
    \/ \E p \in NodePools, c \in StatusChanges : NodePoolChanges(p, c[2])
    \/ \E u \in JobSets :
         \/ JobSetCreated(u) \/ JobSetDeleted(u) \/ JobSetResumed(u)
         \/ \E i \in DOMAIN JobSetSpec[u].jobs : JobReady(u, i) \/ JobSucceeds(u, i) \/ JobLost(u, i)
         \/ \E type \in {"Failed", "Suspended"} : JobSetStops(u, type)
    \/ \E u \in LeaderWorkerSets, replicas \in LWSReplicas :
         \E ready \in 0..(IF replicas = Nil THEN 1 ELSE replicas), exists \in {"yes", "gone"} :
           LeaderWorkerSetChanges(u, [exists |-> exists, replicas |-> replicas, ready |-> ready])

(* The informer of a kind sees the next change, and queues the request.    *)
CacheUpdates(kind) ==
    /\ Len(watch[kind]) > 1
    /\ watch' = [watch EXCEPT ![kind] = Tail(@)]
    /\ dirty' = TRUE
    /\ UNCHANGED <<pools, pc, listed, store, interrupted, spent>>

-----------------------------------------------------------------------------
(* The observers.                                                          *)

(* The event log is given the upness of the keys in changes.               *)
AppendStateChanges(changes, ups) ==
    store' = [k \in Keys |-> IF k \in changes
                             THEN AppendStateChangeEvents(0, ups[k], store[k]) ELSE store[k]]

Goto(o, label) == pc' = [pc EXCEPT ![o] = label]

(* Mutant of PollResources: node pools are listed first, then nodes.       *)
PollResourcesPoolsFirst ==
    /\ \/ /\ pc["poller"] = "idle"
          /\ listed' = [listed EXCEPT !["nodes"] = pools]
          /\ Goto("poller", "append") /\ UNCHANGED store
       \/ /\ pc["poller"] = "append"
          /\ \E ups \in {NodePoolsUp(Cached("nodes"), listed["nodes"])} :
               AppendStateChanges({"node-pools"}, [k \in {"node-pools"} |-> ups])
          /\ listed' = [listed EXCEPT !["nodes"] = << >>]
          /\ Goto("poller", "idle")
    /\ UNCHANGED <<watch, pools, dirty, interrupted, spent>>

(* A poll lists the nodes, and then the node pools; what they say together *)
(* is recorded.                                                            *)
PollResources ==
    /\ \/ /\ pc["poller"] = "idle"
          /\ listed' = [listed EXCEPT !["nodes"] = Cached("nodes")]
          /\ Goto("poller", "append") /\ UNCHANGED store
       \/ /\ pc["poller"] = "append"
          /\ \E ups \in {NodePoolsUp(listed["nodes"], pools)} :
               AppendStateChanges({"node-pools"}, [k \in {"node-pools"} |-> ups])
          /\ listed' = [listed EXCEPT !["nodes"] = << >>]
          /\ Goto("poller", "idle")
    /\ UNCHANGED <<watch, pools, dirty, interrupted, spent>>

(* Mutant of PollFails: node pools that cannot be listed pass for none.    *)
PollFailsEmpty ==
    /\ pc["poller"] = "append"
    /\ Spend("fail")
    /\ \E ups \in {NodePoolsUp(listed["nodes"], [p \in NodePools |-> "NONE"])} :
         AppendStateChanges({"node-pools"}, [k \in {"node-pools"} |-> ups])
    /\ listed' = [listed EXCEPT !["nodes"] = << >>]
    /\ Goto("poller", "idle")
    /\ UNCHANGED <<watch, pools, dirty, interrupted>>

(* A list that fails ends the poll; the error is logged.                   *)
PollFails ==
    /\ pc["poller"] = "append"
    /\ Spend("fail")
    /\ listed' = [listed EXCEPT !["nodes"] = << >>]
    /\ Goto("poller", "idle")
    /\ UNCHANGED <<watch, pools, dirty, store, interrupted>>

(* The reconciler takes the request off the queue and lists the workloads; *)
(* nothing combines JobSets with LeaderWorkerSets, so that the two lists   *)
(* are one step.                                                           *)
ListWorkloads ==
    /\ pc["workload"] = "idle" /\ dirty
    /\ dirty' = FALSE
    /\ listed' = [listed EXCEPT !["jobsets"] = Cached("jobsets"),
                                !["leaderworkersets"] = Cached("leaderworkersets")]
    /\ Goto("workload", "nodes")
    /\ UNCHANGED <<watch, pools, store, interrupted, spent>>

ForgetLists == listed' = [listed EXCEPT !["jobsets"] = << >>, !["leaderworkersets"] = << >>]

(* The nodes are listed last, and one batch recorded.                      *)
ListNodes ==
    /\ pc["workload"] = "nodes"
    /\ \E ups \in {Upnesses(Cached("nodes"), pools, listed["jobsets"], listed["leaderworkersets"])} :
         AppendStateChanges(Keys \ {"node-pools"}, ups)
    /\ ForgetLists
    /\ Goto("workload", "idle")
    /\ UNCHANGED <<watch, pools, dirty, interrupted, spent>>

(* A list that fails ends the reconciliation, and queues it again.         *)
ListFails ==
    /\ pc["workload"] # "idle"
    /\ Spend("fail")
    /\ ForgetLists
    /\ Goto("workload", "idle") /\ dirty' = TRUE
    /\ UNCHANGED <<watch, pools, store, interrupted>>

Reconcile == ListWorkloads \/ ListNodes

Next ==
    \/ Cluster
    \/ \E kind \in Kinds : CacheUpdates(kind)
    \/ PollResources \/ PollFails
    \/ Reconcile \/ ListFails

Spec == Init /\ [][Next]_vars

(* Informers deliver what they watch, the ticker starts polls, the work    *)
(* queue starts reconciliations, and list calls return.                    *)
FairSpec ==
    /\ Spec
    /\ \A kind \in Kinds : WF_vars(CacheUpdates(kind))
    /\ WF_vars(PollResources) /\ WF_vars(Reconcile)

-----------------------------------------------------------------------------
TypeOK ==
    /\ \A kind \in Kinds : watch[kind] # << >>
    /\ \A i \in DOMAIN watch["nodes"] :
         watch["nodes"][i] \in [Nodes -> NodeStatuses \cup {"Absent"}]
    /\ dirty \in BOOLEAN
    /\ pc["poller"] \in {"idle", "append"}
    /\ pc["workload"] \in {"idle", "nodes"}
    /\ \A k \in Keys : /\ DOMAIN store[k] \subseteq Observed(k)
                       /\ store[k] \in [DOMAIN store[k] -> Seq(UpEvent)]

(* How often a history goes from up to down without that being expected.   *)
Interruptions(h) ==
    Cardinality({i \in 2..Len(h) : h[i-1].Up /\ ~h[i].Up /\ ~h[i].ExpectedDown})

(* No interruption is made up from lists of different moments: of no       *)
(* resource more are recorded than there really were.  For a node pool     *)
(* that is deleted this rests on the order of NodePoller's two lists.      *)
InterruptionsWereReal ==
    \A k \in Keys : \A r \in DOMAIN store[k] :
        Interruptions(store[k][r]) <= interrupted[k][r]

Gone(k, r) ==
    CASE k = "node-pools"         -> pools[r] = "GONE"
      [] k = "leader-worker-sets" -> Now("leaderworkersets")[r].exists = "gone"
      [] OTHER                    -> Now("jobsets")[r].exists = "gone"

(* A resource's history is dropped with the first observation it is        *)
(* missing from, and cannot be had back.  Whatever lists fail, and however *)
(* the caches lag behind, only those that no longer exist are missing.     *)
OnlyTheGoneAreForgotten ==
    [][\A k \in Keys : \A r \in DOMAIN store[k] \ DOMAIN store'[k] : Gone(k, r)]_vars

(* When nodes are enough: as many as expected are ready or silent, and the *)
(* silent ones, for however long, are within the threshold.                *)
Enough(mine, size) ==
    LET bad == {n \in mine : Now("nodes")[n] = "False"}
        silent == {n \in mine \ bad : Now("nodes")[n] # "True"}
    IN  /\ Cardinality(mine \ bad) = size
        /\ Cardinality(silent) <= RoundToEven(size * ThresholdNum, ThresholdDen)

LastUp(k, r) == r \in DOMAIN store[k] /\ store[k][r][Len(store[k][r])].Up

(* Once the cluster stops changing and lists stop failing, the histories   *)
(* come to say what is up, and stay so: a node pool with enough nodes that *)
(* is not being deleted, a JobSet all of whose child jobs are ready, its   *)
(* nodes, whichever JobSet had the name before, a LeaderWorkerSet with all *)
(* its replicas.                                                           *)
ObservationsCatchUp ==
    <>[](LET nodes == Present(Now("nodes"))
             js == Now("jobsets")
             lws == Now("leaderworkersets")
         IN  /\ \A p \in NodePools : LastUp("node-pools", p) <=>
                  /\ pools[p] \notin {"NONE", "STOPPING", "GONE"}
                  /\ Enough({n \in nodes : NodeLabels[n].pool = p},
                            ChipCount(PoolSpec[p].topology) \div PoolSpec[p].chips)
             /\ \A u \in JobSets :
                  /\ LastUp("jobsets", u) <=> /\ js[u].exists = "yes"
                                              /\ \A i \in DOMAIN js[u].ready :
                                                   js[u].ready[i] = JobSetSpec[u].jobs[i].replicas
                  /\ LastUp("jobset-nodes", u) <=>
                       /\ js[u].exists = "yes"
                       /\ Enough({n \in nodes : NodeLabels[n].jobset = JobSetSpec[u].name},
                                 GetExpectedNodeCount(u))
             /\ \A u \in LeaderWorkerSets : LastUp("leader-worker-sets", u) <=>
                  /\ lws[u].exists = "yes"
                  /\ lws[u].ready = (IF lws[u].replicas = Nil THEN 1 ELSE lws[u].replicas))

-----------------------------------------------------------------------------
(* test/integration/cases_test.go: "should NOT increment interruption      *)
(* count when jobset completes (expected downtime)".  As long as nothing   *)
(* was lost, child jobs have only become ready and succeeded.              *)
CompletionIsNoInterruption ==
    spent["loss"] = 0 =>
        \A u \in DOMAIN store["jobsets"] :
            LET h == store["jobsets"][u]
            IN  h[Len(h)].ExpectedDown => Interruptions(h) = 0
=============================================================================
