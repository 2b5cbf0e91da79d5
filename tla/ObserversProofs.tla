-------------------------- MODULE ObserversProofs ---------------------------
(***************************************************************************)
(* Proofs about Observers, for every cluster, however far the caches lag.  *)
(***************************************************************************)
EXTENDS Observers, UpEventsProofs

-----------------------------------------------------------------------------
(* What the caches have yet to see.                                        *)

IsSeq(s) == s \in Seq(Range(s))

(* One more change is to be seen.                                          *)
LEMMA AppendIsSeq ==
    ASSUME NEW s, IsSeq(s), NEW e
    PROVE  /\ IsSeq(Append(s, e)) /\ Len(s) \in Nat /\ Len(Append(s, e)) = Len(s) + 1
           /\ \A i \in 1..Len(s) : Append(s, e)[i] = s[i]
           /\ Append(s, e)[Len(s) + 1] = e
<1>. DEFINE T == Range(s) \cup {e}
            t == Append(s, e)
<1>1. s \in Seq(T)
    BY DEF IsSeq
<1>2. /\ t \in Seq(T) /\ Len(s) \in Nat /\ Len(t) = Len(s) + 1
      /\ \A i \in 1..Len(s) : t[i] = s[i]
      /\ t[Len(s) + 1] = e
    BY <1>1
<1>. HIDE DEF t, T
<1>3. t \in Seq(Range(t))
    BY <1>2 DEF Range
<1>. QED
    BY <1>2, <1>3 DEF IsSeq, t

(* One change has been seen.                                               *)
LEMMA TailIsSeq ==
    ASSUME NEW s, IsSeq(s), s # << >>
    PROVE  /\ IsSeq(Tail(s)) /\ Len(s) \in Nat /\ Len(Tail(s)) = Len(s) - 1
           /\ \A i \in 1..(Len(s) - 1) : Tail(s)[i] = s[i + 1]
<1>. DEFINE T == Range(s)
            t == Tail(s)
<1>1. /\ t \in Seq(T) /\ Len(s) \in Nat /\ Len(t) = Len(s) - 1
      /\ \A i \in 1..(Len(s) - 1) : t[i] = s[i + 1]
    BY DEF IsSeq
<1>. HIDE DEF t, T
<1>2. t \in Seq(Range(t))
    BY <1>1 DEF Range
<1>. QED
    BY <1>1, <1>2 DEF IsSeq, t

-----------------------------------------------------------------------------
(* The shape of everything the observers read: what a cache has yet to     *)
(* see is never nothing, and its states, and the lists made from them,     *)
(* are of all the objects there may be.                                    *)

StatusesOf == [Nodes -> NodeStatuses \cup {"Absent"}]

WatchInv ==
    /\ DOMAIN watch = Kinds
    /\ \A kind \in Kinds : IsSeq(watch[kind]) /\ watch[kind] # << >>
    /\ \A i \in 1..Len(watch["nodes"]) : watch["nodes"][i] \in StatusesOf
    /\ \A i \in 1..Len(watch["jobsets"]) : DOMAIN watch["jobsets"][i] = JobSets
    /\ \A i \in 1..Len(watch["leaderworkersets"]) :
         DOMAIN watch["leaderworkersets"][i] = LeaderWorkerSets

ListInv ==
    /\ DOMAIN listed = Kinds
    /\ pc \in [{"poller", "workload"} -> {"idle", "append", "nodes"}]
    /\ pc["poller"] \in {"idle", "append"}
    /\ pc["workload"] \in {"idle", "nodes"}
    /\ pc["workload"] = "nodes" =>
         /\ DOMAIN listed["jobsets"] = JobSets
         /\ DOMAIN listed["leaderworkersets"] = LeaderWorkerSets
    /\ dirty \in BOOLEAN

StoreInv ==
    \A k \in Keys : /\ DOMAIN store[k] \subseteq Observed(k)
                    /\ \A r \in DOMAIN store[k] : store[k][r] \in Seq(UpEvent)
                    /\ store[k] = [r \in DOMAIN store[k] |-> store[k][r]]

ObserversInv == WatchInv /\ ListInv /\ StoreInv

(* What is computed from the lists is about observed resources, and says   *)
(* of each whether it is expected down or failed.                          *)
Judges(ups, k) ==
    /\ DOMAIN ups \subseteq Observed(k)
    /\ \A r \in DOMAIN ups : ups[r].ExpectedDown \in BOOLEAN /\ ups[r].Failed \in BOOLEAN

(* What is observed under each key.                                        *)
LEMMA ObservedIs ==
    /\ Observed("node-pools") = NodePools
    /\ Observed("leader-worker-sets") = LeaderWorkerSets
    /\ Observed("jobsets") = JobSets
    /\ Observed("jobset-nodes") = JobSets
    BY DEF Observed

(* What a poll computes are upnesses of node pools.                        *)
LEMMA NodePoolsJudged ==
    ASSUME NEW nodes, NEW statuses
    PROVE  Judges(NodePoolsUp(nodes, statuses), "node-pools")
<1>. DEFINE ups == NodePoolsUp(nodes, statuses)
<1>1. DOMAIN ups \subseteq NodePools
    BY DEF NodePoolsUp
<1>2. ASSUME NEW p \in DOMAIN ups
      PROVE  /\ ups[p].ExpectedDown = (statuses[p] \in {"STOPPING", "DELETING"})
             /\ ups[p].Failed = (statuses[p] \in {"ERROR", "RUNNING_WITH_ERROR"})
    BY DEF NodePoolsUp
<1>. HIDE DEF ups
<1>3. ASSUME NEW p \in DOMAIN ups
      PROVE  ups[p].ExpectedDown \in BOOLEAN /\ ups[p].Failed \in BOOLEAN
    <2>1. (statuses[p] \in {"STOPPING", "DELETING"}) \in BOOLEAN
        OBVIOUS
    <2>2. (statuses[p] \in {"ERROR", "RUNNING_WITH_ERROR"}) \in BOOLEAN
        OBVIOUS
    <2>. QED
        BY <1>2, <2>1, <2>2, Zenon
<1>4. Judges(ups, "node-pools")
    BY <1>1, <1>3, ObservedIs DEF Judges
<1>. QED
    BY <1>4 DEF ups

(* What a reconciliation computes are upnesses of JobSets, ...             *)
LEMMA JobSetsJudged ==
    ASSUME NEW jobsets, DOMAIN jobsets = JobSets
    PROVE  Judges(JobSetsUp(jobsets), "jobsets")
    BY ObservedIs DEF Judges, JobSetsUp, Listed

(* ... of the nodes of JobSets, ...                                        *)
LEMMA JobSetNodesJudged ==
    ASSUME NEW jobsets, NEW nodes, DOMAIN jobsets = JobSets
    PROVE  Judges(JobSetNodesUp(jobsets, nodes), "jobset-nodes")
    BY ObservedIs DEF Judges, JobSetNodesUp, Listed

(* ... and of LeaderWorkerSets.                                            *)
LEMMA LeaderWorkerSetsJudged ==
    ASSUME NEW lwss, DOMAIN lwss = LeaderWorkerSets
    PROVE  Judges(processLeaderWorkerSets(lwss), "leader-worker-sets")
    BY ObservedIs DEF Judges, processLeaderWorkerSets, Listed

(* Upnesses key by key.                                                    *)
LEMMA UpnessesAre ==
    ASSUME NEW nodes, NEW statuses, NEW jobsets, NEW lwss
    PROVE  LET ups == Upnesses(nodes, statuses, jobsets, lwss) IN
           /\ ups["node-pools"] = NodePoolsUp(nodes, statuses)
           /\ ups["jobsets"] = JobSetsUp(jobsets)
           /\ ups["jobset-nodes"] = JobSetNodesUp(jobsets, nodes)
           /\ ups["leader-worker-sets"] = processLeaderWorkerSets(lwss)
    BY DEF Upnesses, Keys

(* What is recorded are events of observed resources.                      *)
LEMMA AppendKeepsStore ==
    ASSUME StoreInv, NEW changes, NEW ups, AppendStateChanges(changes, ups),
           \A k \in Keys \cap changes : Judges(ups[k], k)
    PROVE  StoreInv'
<1>. SUFFICES ASSUME NEW k \in Keys
              PROVE  /\ DOMAIN store'[k] \subseteq Observed(k)
                     /\ \A r \in DOMAIN store'[k] : store'[k][r] \in Seq(UpEvent)
                     /\ store'[k] = [r \in DOMAIN store'[k] |-> store'[k][r]]
    BY DEF StoreInv
<1>1. CASE k \notin changes
    <2>1. store'[k] = store[k]
        BY <1>1 DEF AppendStateChanges
    <2>. QED
        BY <2>1 DEF StoreInv
<1>2. CASE k \in changes
    <2>. DEFINE up == ups[k]
                recs == AppendStateChangeEvents(0, up, store[k])
    <2>1. store'[k] = recs
        BY <1>2 DEF AppendStateChanges
    <2>2. Judges(up, k)
        BY <1>2
    <2>3. \A r \in DOMAIN up : EventOf(up[r], 0) \in UpEvent
        BY <2>2, EventOfFlags DEF Judges
    <2>4. \A r \in DOMAIN store[k] : store[k][r] \in Seq(UpEvent)
        BY DEF StoreInv
    <2>5. /\ DOMAIN recs = DOMAIN up
          /\ \A r \in DOMAIN up : recs[r] \in Seq(UpEvent)
        <3>. HIDE DEF up
        <3>. QED
            BY <2>3, <2>4, AppendStateChangeEventsExtends
    <2>6. recs = [r \in DOMAIN recs |-> recs[r]]
        BY DEF AppendStateChangeEvents
    <2>. HIDE DEF recs, up
    <2>. QED
        BY <2>1, <2>2, <2>5, <2>6 DEF Judges
<1>. QED
    BY <1>1, <1>2

(* The content of a cache, and how the cluster is, have the shape of all   *)
(* the states in between.                                                  *)
LEMMA CachedAndNow ==
    ASSUME WatchInv, NEW kind \in Kinds
    PROVE  /\ Len(watch[kind]) \in Nat /\ Len(watch[kind]) >= 1
           /\ Cached(kind) = watch[kind][1]
           /\ Now(kind) = watch[kind][Len(watch[kind])]
<1>. DEFINE w == watch[kind]
<1>1. w \in Seq(Range(w)) /\ w # << >>
    BY DEF WatchInv, IsSeq
<1>. HIDE DEF w
<1>2. Len(w) \in Nat /\ Len(w) >= 1
    BY <1>1
<1>. QED
    BY <1>2 DEF w, Cached, Now

(* What a list returns, and the cluster as it is, have every object.       *)
LEMMA ShapesOfNow ==
    ASSUME WatchInv
    PROVE  /\ Cached("nodes") \in StatusesOf /\ Now("nodes") \in StatusesOf
           /\ DOMAIN Cached("jobsets") = JobSets /\ DOMAIN Now("jobsets") = JobSets
           /\ DOMAIN Cached("leaderworkersets") = LeaderWorkerSets
           /\ DOMAIN Now("leaderworkersets") = LeaderWorkerSets
<1>1. {"nodes", "jobsets", "leaderworkersets"} = Kinds
    BY DEF Kinds
<1>2. \A kind \in Kinds : 1 \in 1..Len(watch[kind]) /\ Len(watch[kind]) \in 1..Len(watch[kind])
    BY CachedAndNow
<1>. QED
    BY <1>1, <1>2 DEF WatchInv, Cached, Now

(* A change of the shape all states have.                                  *)
LEMMA HappensKeepsWatch ==
    ASSUME WatchInv, NEW kind \in Kinds, NEW state, Happens(kind, state),
           kind = "nodes" => state \in StatusesOf,
           kind = "jobsets" => DOMAIN state = JobSets,
           kind = "leaderworkersets" => DOMAIN state = LeaderWorkerSets
    PROVE  WatchInv'
<1>. DEFINE w == watch[kind]
            v == Append(w, state)
<1>1. IsSeq(w) /\ w # << >>
    BY DEF WatchInv
<1>2. /\ IsSeq(v) /\ Len(w) \in Nat /\ Len(v) = Len(w) + 1
      /\ \A i \in 1..Len(w) : v[i] = w[i]
      /\ v[Len(w) + 1] = state
    <2>. HIDE DEF w
    <2>. QED
        BY <1>1, AppendIsSeq
<1>3. /\ DOMAIN watch' = Kinds /\ watch'[kind] = v
      /\ \A other \in Kinds \ {kind} : watch'[other] = watch[other]
    BY DEF Happens, WatchInv
<1>. HIDE DEF v
<1>4. v # << >>
    BY <1>2 DEF IsSeq
<1>5. \A i \in 1..Len(v) : i \in 1..Len(w) \/ i = Len(w) + 1
    BY <1>2
<1>6. {"nodes", "jobsets", "leaderworkersets"} = Kinds
    BY DEF Kinds
<1>7. \A i \in 1..Len(watch'["nodes"]) : watch'["nodes"][i] \in StatusesOf
    BY <1>2, <1>3, <1>5, <1>6 DEF WatchInv
<1>8. \A i \in 1..Len(watch'["jobsets"]) : DOMAIN watch'["jobsets"][i] = JobSets
    BY <1>2, <1>3, <1>5, <1>6 DEF WatchInv
<1>9. \A i \in 1..Len(watch'["leaderworkersets"]) :
        DOMAIN watch'["leaderworkersets"][i] = LeaderWorkerSets
    BY <1>2, <1>3, <1>5, <1>6 DEF WatchInv
<1>. QED
    BY <1>2, <1>3, <1>4, <1>7, <1>8, <1>9 DEF WatchInv

(* A cache that sees a change keeps at least the state of the cluster.     *)
LEMMA CacheUpdateKeepsWatch ==
    ASSUME WatchInv, NEW kind \in Kinds, CacheUpdates(kind)
    PROVE  WatchInv'
<1>. DEFINE w == watch[kind]
            v == Tail(w)
<1>1. IsSeq(w) /\ w # << >>
    BY DEF WatchInv
<1>2. /\ IsSeq(v) /\ Len(w) \in Nat /\ Len(v) = Len(w) - 1
      /\ \A i \in 1..(Len(w) - 1) : v[i] = w[i + 1]
    <2>. HIDE DEF w
    <2>. QED
        BY <1>1, TailIsSeq
<1>3. /\ DOMAIN watch' = Kinds /\ watch'[kind] = v /\ Len(w) > 1
      /\ \A other \in Kinds \ {kind} : watch'[other] = watch[other]
    BY DEF CacheUpdates, WatchInv
<1>. HIDE DEF v
<1>4. v # << >>
    BY <1>2, <1>3 DEF IsSeq
<1>5. \A i \in 1..Len(v) : i + 1 \in 1..Len(w) /\ v[i] = w[i + 1]
    BY <1>2
<1>6. {"nodes", "jobsets", "leaderworkersets"} = Kinds
    BY DEF Kinds
<1>7. \A i \in 1..Len(watch'["nodes"]) : watch'["nodes"][i] \in StatusesOf
    BY <1>3, <1>5, <1>6 DEF WatchInv
<1>8. \A i \in 1..Len(watch'["jobsets"]) : DOMAIN watch'["jobsets"][i] = JobSets
    BY <1>3, <1>5, <1>6 DEF WatchInv
<1>9. \A i \in 1..Len(watch'["leaderworkersets"]) :
        DOMAIN watch'["leaderworkersets"][i] = LeaderWorkerSets
    BY <1>3, <1>5, <1>6 DEF WatchInv
<1>. QED
    BY <1>2, <1>3, <1>4, <1>7, <1>8, <1>9 DEF WatchInv

(* What happens to the cluster is a change of one kind, or of a node pool. *)
LEMMA ClusterKeepsWatch ==
    ASSUME WatchInv, Cluster
    PROVE  WatchInv' /\ UNCHANGED <<dirty, pc, listed, store>>
<1>. USE ShapesOfNow
<1>1. "nodes" \in Kinds /\ "jobsets" \in Kinds /\ "leaderworkersets" \in Kinds
    BY DEF Kinds
<1>2. ASSUME NEW u \in JobSets, NEW js, JobSetBecomes(u, js)
      PROVE  WatchInv'
    <2>. DEFINE state == [Now("jobsets") EXCEPT ![u] = js]
    <2>1. DOMAIN state = JobSets
        OBVIOUS
    <2>2. Happens("jobsets", state)
        BY <1>2 DEF JobSetBecomes
    <2>. HIDE DEF state
    <2>. QED
        BY <1>1, <2>1, <2>2, HappensKeepsWatch
<1>3. ASSUME NEW n \in Nodes, NEW s \in NodeStatuses \cup {"Absent"}, NodeChanges(n, s)
      PROVE  WatchInv' /\ UNCHANGED <<dirty, pc, listed, store>>
    <2>. DEFINE state == [Now("nodes") EXCEPT ![n] = s]
    <2>1. state \in StatusesOf
        BY DEF StatusesOf
    <2>2. Happens("nodes", state)
        BY <1>3 DEF NodeChanges
    <2>. HIDE DEF state
    <2>3. WatchInv'
        BY <1>1, <2>1, <2>2, HappensKeepsWatch
    <2>. QED
        BY <1>3, <2>3 DEF NodeChanges, ClusterStep
<1>4. ASSUME NEW p \in NodePools, NEW c \in StatusChanges, NodePoolChanges(p, c[2])
      PROVE  WatchInv' /\ UNCHANGED <<dirty, pc, listed, store>>
    BY <1>4 DEF NodePoolChanges, ClusterStep, WatchInv
<1>5. ASSUME NEW u \in JobSets, JobSetCreated(u)
      PROVE  WatchInv' /\ UNCHANGED <<dirty, pc, listed, store>>
    BY <1>2, <1>5 DEF JobSetCreated, ClusterStep
<1>6. ASSUME NEW u \in JobSets, JobSetDeleted(u)
      PROVE  WatchInv' /\ UNCHANGED <<dirty, pc, listed, store>>
    BY <1>2, <1>6 DEF JobSetDeleted, ClusterStep
<1>7. ASSUME NEW u \in JobSets, JobSetResumed(u)
      PROVE  WatchInv' /\ UNCHANGED <<dirty, pc, listed, store>>
    BY <1>2, <1>7, Zenon DEF JobSetResumed, ClusterStep
<1>8. ASSUME NEW u \in JobSets, NEW i, JobReady(u, i)
      PROVE  WatchInv' /\ UNCHANGED <<dirty, pc, listed, store>>
    BY <1>2, <1>8, Zenon DEF JobReady, ClusterStep
<1>9. ASSUME NEW u \in JobSets, NEW i, JobSucceeds(u, i)
      PROVE  WatchInv' /\ UNCHANGED <<dirty, pc, listed, store>>
    BY <1>2, <1>9, Zenon DEF JobSucceeds, ClusterStep
<1>10. ASSUME NEW u \in JobSets, NEW i, JobLost(u, i)
       PROVE  WatchInv' /\ UNCHANGED <<dirty, pc, listed, store>>
    BY <1>2, <1>10, Zenon DEF JobLost, ClusterStep
<1>11. ASSUME NEW u \in JobSets, NEW type, JobSetStops(u, type)
       PROVE  WatchInv' /\ UNCHANGED <<dirty, pc, listed, store>>
    BY <1>2, <1>11, Zenon DEF JobSetStops, ClusterStep
<1>12. ASSUME NEW u \in LeaderWorkerSets, NEW lws, LeaderWorkerSetChanges(u, lws)
       PROVE  WatchInv' /\ UNCHANGED <<dirty, pc, listed, store>>
    <2>. DEFINE state == [Now("leaderworkersets") EXCEPT ![u] = lws]
    <2>1. DOMAIN state = LeaderWorkerSets
        OBVIOUS
    <2>2. Happens("leaderworkersets", state)
        BY <1>12 DEF LeaderWorkerSetChanges
    <2>. HIDE DEF state
    <2>3. WatchInv'
        BY <1>1, <2>1, <2>2, HappensKeepsWatch
    <2>. QED
        BY <1>12, <2>3 DEF LeaderWorkerSetChanges, ClusterStep
<1>. QED
    BY <1>3, <1>4, <1>5, <1>6, <1>7, <1>8, <1>9, <1>10, <1>11, <1>12 DEF Cluster

(* The observers read, and change only what they hold and what they record. *)
LEMMA ObserversStep ==
    ASSUME ObserversInv, [Next]_vars
    PROVE  ObserversInv'
<1>. USE DEF ObserversInv
<1>1. {"nodes", "jobsets", "leaderworkersets"} = Kinds
    BY DEF Kinds
<1>2. CASE Cluster
    <2>1. WatchInv' /\ UNCHANGED <<dirty, pc, listed, store>>
        BY <1>2, ClusterKeepsWatch
    <2>. QED
        BY <2>1 DEF ListInv, StoreInv
<1>3. ASSUME NEW kind \in Kinds, CacheUpdates(kind)
      PROVE  ObserversInv'
    <2>1. WatchInv'
        BY <1>3, CacheUpdateKeepsWatch
    <2>. QED
        BY <1>3, <2>1 DEF CacheUpdates, ListInv, StoreInv
<1>4. CASE PollResources
    <2>1. WatchInv' /\ ListInv'
        BY <1>1, <1>4 DEF PollResources, Goto, WatchInv, ListInv
    <2>2. CASE UNCHANGED store
        BY <2>1, <2>2 DEF StoreInv
    <2>3. CASE pc["poller"] = "append"
        <3>. DEFINE up == NodePoolsUp(listed["nodes"], pools)
                    ups == [k \in {"node-pools"} |-> up]
        <3>1. AppendStateChanges({"node-pools"}, ups)
            BY <1>4, <2>3 DEF PollResources
        <3>2. Judges(ups["node-pools"], "node-pools")
            <4>1. ups["node-pools"] = up
                OBVIOUS
            <4>. QED
                BY <4>1, NodePoolsJudged
        <3>. HIDE DEF ups
        <3>. QED
            BY <2>1, <3>1, <3>2, AppendKeepsStore
    <2>. QED
        BY <1>4, <2>2, <2>3 DEF PollResources
<1>5. CASE PollFails
    BY <1>1, <1>5 DEF PollFails, Goto, WatchInv, ListInv, StoreInv
<1>6. CASE ListWorkloads
    <2>1. listed' = [listed EXCEPT !["jobsets"] = Cached("jobsets"),
                                   !["leaderworkersets"] = Cached("leaderworkersets")]
        BY <1>6 DEF ListWorkloads
    <2>2. DOMAIN listed'["jobsets"] = JobSets
        BY <1>1, <2>1, ShapesOfNow DEF ListInv
    <2>3. DOMAIN listed'["leaderworkersets"] = LeaderWorkerSets
        BY <1>1, <2>1, ShapesOfNow DEF ListInv
    <2>4. DOMAIN listed' = Kinds
        BY <2>1 DEF ListInv
    <2>. QED
        BY <1>6, <2>2, <2>3, <2>4 DEF ListWorkloads, Goto, WatchInv, ListInv, StoreInv
<1>7. CASE ListNodes
    <2>1. WatchInv' /\ ListInv'
        BY <1>1, <1>7 DEF ListNodes, ForgetLists, Goto, WatchInv, ListInv
    <2>. DEFINE ups == Upnesses(Cached("nodes"), pools, listed["jobsets"],
                                listed["leaderworkersets"])
    <2>2. AppendStateChanges(Keys \ {"node-pools"}, ups)
        BY <1>7 DEF ListNodes
    <2>3. /\ DOMAIN listed["jobsets"] = JobSets
          /\ DOMAIN listed["leaderworkersets"] = LeaderWorkerSets
        BY <1>7 DEF ListNodes, ListInv
    <2>4. /\ Judges(ups["jobsets"], "jobsets")
          /\ Judges(ups["jobset-nodes"], "jobset-nodes")
          /\ Judges(ups["leader-worker-sets"], "leader-worker-sets")
        BY <2>3, UpnessesAre, JobSetsJudged, JobSetNodesJudged, LeaderWorkerSetsJudged
    <2>. HIDE DEF ups
    <2>5. \A k \in Keys \cap (Keys \ {"node-pools"}) : Judges(ups[k], k)
        BY <2>4 DEF Keys
    <2>. QED
        BY <2>1, <2>2, <2>5, AppendKeepsStore
<1>8. CASE ListFails
    BY <1>1, <1>8 DEF ListFails, ForgetLists, Goto, WatchInv, ListInv, StoreInv
<1>9. CASE UNCHANGED vars
    BY <1>9 DEF vars, WatchInv, ListInv, StoreInv
<1>. QED
    BY <1>2, <1>3, <1>4, <1>5, <1>6, <1>7, <1>8, <1>9 DEF Next, Reconcile

(* A cache that is up to date.                                             *)
LEMMA OneState ==
    ASSUME NEW e
    PROVE  IsSeq(<<e>>) /\ <<e>> # << >> /\ Len(<<e>>) = 1 /\ <<e>>[1] = e
<1>1. <<e>> \in Seq({e}) /\ Len(<<e>>) = 1 /\ <<e>>[1] = e
    OBVIOUS
<1>2. Range(<<e>>) = {e}
    BY <1>1 DEF Range
<1>. QED
    BY <1>1, <1>2 DEF IsSeq

(* At first the caches are up to date and nothing is recorded.             *)
LEMMA ObserversInit ==
    ASSUME Init
    PROVE  ObserversInv
<1>1. {"nodes", "jobsets", "leaderworkersets"} = Kinds
    BY DEF Kinds
<1>2. WatchInv
    <2>1. DOMAIN watch = Kinds
        BY DEF Init
    <2>2. PICK nodes \in StatusesOf : watch["nodes"] = <<nodes>>
        <3>1. PICK running \in BOOLEAN :
                watch["nodes"] = <<[n \in Nodes |-> IF running THEN "True" ELSE "Absent"]>>
            BY <1>1 DEF Init
        <3>2. [n \in Nodes |-> IF running THEN "True" ELSE "Absent"] \in StatusesOf
            BY ObserversAssumption DEF StatusesOf
        <3>. QED
            BY <3>1, <3>2
    <2>3. PICK js : watch["jobsets"] = <<js>> /\ DOMAIN js = JobSets
        <3>. DEFINE states(running) == [u \in JobSets |->
                      LET up == running /\ u \in Running
                      IN  JobSet(u, IF up THEN "yes" ELSE "no",
                            [i \in DOMAIN JobSetSpec[u].jobs |->
                               IF up THEN JobSetSpec[u].jobs[i].replicas ELSE 0])]
        <3>1. PICK running \in BOOLEAN : watch["jobsets"] = <<states(running)>>
            BY <1>1 DEF Init
        <3>2. DOMAIN states(running) = JobSets
            OBVIOUS
        <3>. HIDE DEF states
        <3>. QED
            BY <3>1, <3>2
    <2>4. PICK lws : watch["leaderworkersets"] = <<lws>> /\ DOMAIN lws = LeaderWorkerSets
        <3>1. watch["leaderworkersets"] =
                <<[u \in LeaderWorkerSets |-> [exists |-> "no", replicas |-> Nil, ready |-> 0]]>>
            BY <1>1 DEF Init
        <3>. QED
            BY <3>1
    <2>5. \A kind \in Kinds : IsSeq(watch[kind]) /\ watch[kind] # << >>
        BY <1>1, <2>2, <2>3, <2>4, OneState
    <2>6. \A i \in 1..Len(watch["nodes"]) : watch["nodes"][i] \in StatusesOf
        BY <2>2, OneState
    <2>7. \A i \in 1..Len(watch["jobsets"]) : DOMAIN watch["jobsets"][i] = JobSets
        BY <2>3, OneState
    <2>8. \A i \in 1..Len(watch["leaderworkersets"]) :
            DOMAIN watch["leaderworkersets"][i] = LeaderWorkerSets
        BY <2>4, OneState
    <2>. QED
        BY <2>1, <2>5, <2>6, <2>7, <2>8 DEF WatchInv
<1>3. ListInv
    BY DEF Init, ListInv
<1>4. StoreInv
    BY DEF Init, StoreInv
<1>. QED
    BY <1>2, <1>3, <1>4 DEF ObserversInv

(* However far each cache lags, and whichever lists fail, a cache is never *)
(* without content, its nodes have one of the conditions nodes get into,   *)
(* and of nothing but what is observed under a key are events recorded:    *)
(* node pools by the poller, JobSets, their nodes and LeaderWorkerSets by  *)
(* the reconciler.                                                         *)
THEOREM ObserversTypeCorrect == Spec => []TypeOK
<1>1. Init => ObserversInv
    BY ObserversInit
<1>2. ObserversInv /\ [Next]_vars => ObserversInv'
    BY ObserversStep
<1>3. ObserversInv => TypeOK
    <2>. SUFFICES ASSUME ObserversInv PROVE TypeOK
        OBVIOUS
    <2>1. \A kind \in Kinds : watch[kind] # << >>
        BY DEF ObserversInv, WatchInv
    <2>2. DOMAIN watch["nodes"] = 1..Len(watch["nodes"])
        BY DEF ObserversInv, WatchInv, IsSeq, Kinds
    <2>3. \A k \in Keys : /\ DOMAIN store[k] \subseteq Observed(k)
                          /\ store[k] \in [DOMAIN store[k] -> Seq(UpEvent)]
        BY DEF ObserversInv, StoreInv
    <2>. QED
        BY <2>1, <2>2, <2>3 DEF TypeOK, ObserversInv, WatchInv, ListInv, StatusesOf
<1>. QED
    BY <1>1, <1>2, <1>3, PTL DEF Spec
=============================================================================
