------------------------------ MODULE EventLog ------------------------------
(***************************************************************************)
(* The Event Log and the observers that write to it.                       *)
(*                                                                         *)
(* Each running instance of megamon has two writers, the goroutine of the  *)
(* polling loop (key node-pools) and the Workload Reconciler (all other    *)
(* keys).  A writer observes the cluster, replaces the observed state in   *)
(* memory (CurrentObservedStore), and then, key by key, reads the records  *)
(* of the key from the bucket, extends them and writes the whole object    *)
(* back, with no precondition on its generation.  Any call may fail, and   *)
(* an instance may restart at any moment; the bucket is all that survives. *)
(***************************************************************************)
EXTENDS UpEvents, SequencesExt

CONSTANTS
    Instances,                \* running processes: one, two during a rollout
    Resources,                \* names of observable resources
    Upnesses,                 \* key |-> the upnesses reported under it
    SliceEnabled,             \* configuration flags
    LeaderWorkerSetEnabled,
    MaxTime,                  \* bound on the clock
    Bound                     \* bound on "change", "fail" and "restart" steps

(* The objects that are in the bucket, and those that belong together: a   *)
(* JobSet is reported under jobsets and, unless slices are enabled, under  *)
(* jobset-nodes.                                                           *)
ObjectKinds ==
    {{"node-pools"}}
      \cup (IF SliceEnabled THEN {{"jobsets"}, {"slices"}}
                            ELSE {{"jobsets", "jobset-nodes"}})
      \cup (IF LeaderWorkerSetEnabled THEN {{"leader-worker-sets"}} ELSE {})

Keys == UNION ObjectKinds

Observers == {"poller", "workload"}

(* Mutant of KeysOf: the polling loop writes the other keys too.           *)
KeysOfBoth(o) == Keys

(* Each key has one writer.                                                *)
KeysOf(o) == IF o = "poller" THEN {"node-pools"} ELSE Keys \ {"node-pools"}

Writers == Instances \X Observers

Labels == {"idle", "list", "stamp", "update", "get", "put"}

Events == {"change", "fail", "restart"}

ASSUME EventLogAssumption ==
    /\ SliceEnabled \in BOOLEAN /\ LeaderWorkerSetEnabled \in BOOLEAN
    /\ Upnesses \in [Keys -> SUBSET Upness]
    /\ MaxTime \in Nat
    /\ Bound \in [Events -> Nat]

(* The partial functions from names to values in S: Go's map[string]S.     *)
MapsTo(S) == UNION {[D -> S] : D \in SUBSET Resources}

IsMapTo(f, S) == DOMAIN f \subseteq Resources /\ f \in [DOMAIN f -> S]

EmptyMap == [x \in {} |-> x]

(* What a writer knows while it is at work: the time it stamps events      *)
(* with, the upness it observed, the keys not yet written, and the key and *)
(* records it is about to put.                                             *)
NoRun == [now |-> 0, ups |-> EmptyMap, todo |-> {}, key |-> "none",
          recs |-> EmptyMap]

VARIABLES
    clock,      \* time.Now(), the same for all instances
    cluster,    \* key |-> resource |-> upness: what listing shows now
    store,      \* key |-> resource |-> history: the objects in the bucket
    observed,   \* instance |-> key |-> resource |-> upness, in memory
    dirty,      \* instance |-> the workload request is queued
    pc, run,    \* writer |-> where it is, and what it knows
    spent       \* how often the environment has acted

vars == <<clock, cluster, store, observed, dirty, pc, run, spent>>

Spend(e) ==
    /\ spent[e] < Bound[e]
    /\ spent' = [spent EXCEPT ![e] = @ + 1]

(* Starting a watch enqueues a request for every watched object.  Without  *)
(* slices Nodes are watched, of which a cluster has some; with slices only *)
(* the workloads are.                                                      *)
WatchEnqueues ==
    \/ ~SliceEnabled
    \/ \E k \in KeysOf("workload") : DOMAIN cluster[k] # {}

Init ==
    /\ clock = 0
    /\ cluster = [k \in Keys |-> EmptyMap]
    /\ store = [k \in Keys |-> EmptyMap]
    /\ observed = [i \in Instances |-> EmptyMap]
    /\ dirty = [i \in Instances |-> ~SliceEnabled]
    /\ pc = [w \in Writers |-> "idle"]
    /\ run = [w \in Writers |-> NoRun]
    /\ spent = [e \in Events |-> 0]

-----------------------------------------------------------------------------
(* The environment.                                                        *)

Tick ==
    /\ clock < MaxTime
    /\ clock' = clock + 1
    /\ UNCHANGED <<cluster, store, observed, dirty, pc, run, spent>>

(* A change to a watched object queues the reconciler's one request.       *)
Notify(kind) ==
    dirty' = IF kind = {"node-pools"} THEN dirty ELSE [i \in Instances |-> TRUE]

(* An object of a kind appears, or what is reported of it changes.         *)
ObjectChanges(kind, r, up) ==
    /\ Spend("change")
    /\ cluster' = [k \in Keys |->
         IF k \in kind
         THEN [s \in DOMAIN cluster[k] \cup {r} |-> IF s = r THEN up[k] ELSE cluster[k][s]]
         ELSE cluster[k]]
    /\ cluster' # cluster
    /\ Notify(kind)
    /\ UNCHANGED <<clock, store, observed, pc, run>>

ObjectDeleted(kind, r) ==
    /\ Spend("change")
    /\ cluster' = [k \in Keys |->
         IF k \in kind
         THEN [s \in DOMAIN cluster[k] \ {r} |-> cluster[k][s]]
         ELSE cluster[k]]
    /\ cluster' # cluster
    /\ Notify(kind)
    /\ UNCHANGED <<clock, store, observed, pc, run>>

(* Mutant of Restart: starting the watches queues nothing.                 *)
RestartQuietly(i) ==
    /\ Spend("restart")
    /\ observed' = [observed EXCEPT ![i] = EmptyMap]
    /\ dirty' = [dirty EXCEPT ![i] = FALSE]
    /\ pc' = [w \in Writers |-> IF w[1] = i THEN "idle" ELSE pc[w]]
    /\ run' = [w \in Writers |-> IF w[1] = i THEN NoRun ELSE run[w]]
    /\ UNCHANGED <<clock, cluster, store>>

(* An instance dies wherever its writers are, and starts afresh.           *)
Restart(i) ==
    /\ Spend("restart")
    /\ observed' = [observed EXCEPT ![i] = EmptyMap]
    /\ dirty' = [dirty EXCEPT ![i] = WatchEnqueues]
    /\ pc' = [w \in Writers |-> IF w[1] = i THEN "idle" ELSE pc[w]]
    /\ run' = [w \in Writers |-> IF w[1] = i THEN NoRun ELSE run[w]]
    /\ UNCHANGED <<clock, cluster, store>>

-----------------------------------------------------------------------------
(* The writers.                                                            *)

Goto(w, label) == pc' = [pc EXCEPT ![w] = label]

(* The writer's call returns, and it waits for the next tick or request.   *)
Return(w) ==
    /\ Goto(w, "idle")
    /\ run' = [run EXCEPT ![w] = NoRun]

(* Mutant of ReturnError: the error is only logged.                        *)
ReturnErrorLogged(w) == Return(w) /\ UNCHANGED dirty

(* It returns an error: the reconciler's request is queued again, the      *)
(* polling loop logs the error and waits for its next tick.                *)
ReturnError(w) ==
    /\ Return(w)
    /\ dirty' = IF w[2] = "workload" THEN [dirty EXCEPT ![w[1]] = TRUE] ELSE dirty

List(w) == [k \in KeysOf(w[2]) |-> cluster[k]]

(* WorkloadReconciler.Reconcile takes the time before it lists.            *)
StartReconcile(w) ==
    /\ w[2] = "workload" /\ pc[w] = "idle" /\ dirty[w[1]]
    /\ dirty' = [dirty EXCEPT ![w[1]] = FALSE]
    /\ run' = [run EXCEPT ![w].now = clock]
    /\ Goto(w, "list")
    /\ UNCHANGED <<clock, cluster, store, observed, spent>>

ListWorkloads(w) ==
    /\ pc[w] = "list"
    /\ run' = [run EXCEPT ![w].ups = List(w)]
    /\ Goto(w, "update")
    /\ UNCHANGED <<clock, cluster, store, observed, dirty, spent>>

ListFails(w) ==
    /\ pc[w] = "list"
    /\ Spend("fail")
    /\ ReturnError(w)
    /\ UNCHANGED <<clock, cluster, store, observed>>

(* The polling loop polls first, and takes the time when it appends; a     *)
(* poll that fails has no effect.                                          *)
PollResources(w) ==
    /\ w[2] = "poller" /\ pc[w] = "idle"
    /\ run' = [run EXCEPT ![w].ups = List(w)]
    /\ Goto(w, "stamp")
    /\ UNCHANGED <<clock, cluster, store, observed, dirty, spent>>

StampPoll(w) ==
    /\ pc[w] = "stamp"
    /\ run' = [run EXCEPT ![w].now = clock]
    /\ Goto(w, "update")
    /\ UNCHANGED <<clock, cluster, store, observed, dirty, spent>>

(* Mutant of UpdateObserved: what is no longer listed stays in the store.  *)
UpdateObservedMerged(w) ==
    /\ pc[w] = "update"
    /\ observed' = [observed EXCEPT ![w[1]] =
         [k \in DOMAIN @ \cup DOMAIN run[w].ups |->
            IF k \in DOMAIN @ \cap DOMAIN run[w].ups THEN run[w].ups[k] @@ @[k]
            ELSE IF k \in DOMAIN run[w].ups THEN run[w].ups[k] ELSE @[k]]]
    /\ run' = [run EXCEPT ![w].todo = KeysOf(w[2])]
    /\ Goto(w, "get")
    /\ UNCHANGED <<clock, cluster, store, dirty, spent>>

(* CurrentObservedStore.UpdateBatch: all keys under one lock.              *)
UpdateObserved(w) ==
    /\ pc[w] = "update"
    /\ observed' = [observed EXCEPT ![w[1]] =
         [k \in DOMAIN @ \cup DOMAIN run[w].ups |->
            IF k \in DOMAIN run[w].ups THEN run[w].ups[k] ELSE @[k]]]
    /\ run' = [run EXCEPT ![w].todo = KeysOf(w[2])]
    /\ Goto(w, "get")
    /\ UNCHANGED <<clock, cluster, store, dirty, spent>>

(* appendToEventStore reads the records of one key, in no fixed order, and *)
(* extends them; if nothing changed it goes on to the next key.            *)
GetRecords(w, k) ==
    /\ pc[w] = "get" /\ k \in run[w].todo
    /\ LET recs == AppendStateChangeEvents(run[w].now, run[w].ups[k], store[k])
           todo == run[w].todo \ {k}
       IN  \/ /\ recs # store[k]
              /\ run' = [run EXCEPT ![w].recs = recs, ![w].key = k, ![w].todo = todo]
              /\ Goto(w, "put")
           \/ /\ recs = store[k] /\ todo # {}
              /\ run' = [run EXCEPT ![w].todo = todo]
              /\ UNCHANGED pc
           \/ /\ recs = store[k] /\ todo = {}
              /\ Return(w)
    /\ UNCHANGED <<clock, cluster, store, observed, dirty, spent>>

GetFails(w) ==
    /\ pc[w] = "get"
    /\ Spend("fail")
    /\ ReturnError(w)
    /\ UNCHANGED <<clock, cluster, store, observed>>

(* PutRecords replaces the object, whatever it holds by now.               *)
WriteObject(w) == store' = [store EXCEPT ![run[w].key] = run[w].recs]

PutRecords(w) ==
    /\ pc[w] = "put"
    /\ WriteObject(w)
    /\ IF run[w].todo = {}
       THEN Return(w)
       ELSE /\ Goto(w, "get")
            /\ run' = [run EXCEPT ![w].recs = EmptyMap, ![w].key = "none"]
    /\ UNCHANGED <<clock, cluster, observed, dirty, spent>>

(* A put that reports an error may have taken effect all the same.  The    *)
(* keys not yet written are skipped.                                       *)
PutFails(w) ==
    /\ pc[w] = "put"
    /\ Spend("fail")
    /\ WriteObject(w) \/ UNCHANGED store
    /\ ReturnError(w)
    /\ UNCHANGED <<clock, cluster, observed>>

-----------------------------------------------------------------------------
(* Time passes and the cluster changes, whatever megamon does.             *)
World ==
    \/ Tick
    \/ \E kind \in ObjectKinds, r \in Resources :
         \/ \E up \in {f \in [kind -> UNION {Upnesses[k] : k \in kind}] :
                         \A k \in kind : f[k] \in Upnesses[k]} : ObjectChanges(kind, r, up)
         \/ ObjectDeleted(kind, r)

Environment == World \/ \E i \in Instances : Restart(i)

(* The steps a writer takes by itself.                                     *)
Progress(w) ==
    \/ StartReconcile(w) \/ ListWorkloads(w)
    \/ PollResources(w) \/ StampPoll(w)
    \/ UpdateObserved(w)
    \/ \E k \in Keys : GetRecords(w, k)
    \/ PutRecords(w)

Failure(w) == ListFails(w) \/ GetFails(w) \/ PutFails(w)

Next ==
    \/ Environment
    \/ \E w \in Writers : Progress(w) \/ Failure(w)

Spec == Init /\ [][Next]_vars

(* The goroutines keep running: the ticker and the work queue wake a       *)
(* writer that has something to do, and its calls return.                  *)
FairSpec == Spec /\ \A w \in Writers : WF_vars(Progress(w))
-----------------------------------------------------------------------------
(* A run of a writer that is consistent with where the writer is.          *)
RunTypeOK(w) ==
    /\ DOMAIN run[w] = {"now", "ups", "todo", "key", "recs"}
    /\ run[w].now \in Nat
    /\ run[w].todo \subseteq KeysOf(w[2])
    /\ pc[w] \in {"stamp", "update", "get", "put"} =>
         /\ DOMAIN run[w].ups = KeysOf(w[2])
         /\ \A k \in KeysOf(w[2]) : IsMapTo(run[w].ups[k], Upnesses[k])
    /\ pc[w] = "put" => /\ run[w].key \in KeysOf(w[2])
                        /\ IsMapTo(run[w].recs, Seq(UpEvent))

TypeOK ==
    /\ clock \in 0..MaxTime
    /\ DOMAIN cluster = Keys /\ DOMAIN store = Keys
    /\ \A k \in Keys : /\ IsMapTo(cluster[k], Upnesses[k])
                       /\ IsMapTo(store[k], Seq(UpEvent))
    /\ DOMAIN observed = Instances
    /\ \A i \in Instances : /\ DOMAIN observed[i] \subseteq Keys
                            /\ \A k \in DOMAIN observed[i] :
                                 IsMapTo(observed[i][k], Upnesses[k])
    /\ dirty \in [Instances -> BOOLEAN]
    /\ pc \in [Writers -> Labels]
    /\ DOMAIN run = Writers /\ \A w \in Writers : RunTypeOK(w)
    /\ spent \in [Events -> Nat]

-----------------------------------------------------------------------------
(* A history as Summarize needs it: it starts down, every event changes    *)
(* the condition, and expected downtime is never up.                       *)
WellFormed(h) ==
    /\ h # << >>
    /\ ~h[1].Up
    /\ \A j \in 1..Len(h) : h[j].ExpectedDown => ~h[j].Up
    /\ \A j \in 2..Len(h) : ~SameCondition(h[j-1], h[j])

(* Whatever calls fail, instances restart or overlap, the bucket never     *)
(* holds a history that starts up or that repeats a condition: a retried   *)
(* append does not record the same change twice.                           *)
HistoriesWellFormed ==
    \A k \in Keys : \A r \in DOMAIN store[k] : WellFormed(store[k][r])

InOrder(h) ==
    \A m, n \in 1..Len(h) : m <= n => h[m].Timestamp <= h[n].Timestamp

(* The events of every history are in the order of their time stamps, and  *)
(* none is from the future: no duration between events is negative.        *)
TimesOrdered ==
    \A k \in Keys : \A r \in DOMAIN store[k] :
        /\ InOrder(store[k][r])
        /\ \A n \in 1..Len(store[k][r]) : store[k][r][n].Timestamp <= clock

(* What a writer is about to put is well formed too.                       *)
PendingWellFormed ==
    \A w \in Writers : pc[w] = "put" =>
        \A r \in DOMAIN run[w].recs : WellFormed(run[w].recs[r])

(* No two processes write the same object: a single instance is running.   *)
SingleInstance == \A i, j \in Instances : i = j

(* The log the bucket stands for.                                          *)
Log == INSTANCE StateChangeLog WITH
         hist <- store, Times <- 0..MaxTime,
         Observations <- [k \in Keys |-> MapsTo(Upnesses[k])]

(* What makes a read, an append and a write of an object as good as one    *)
(* indivisible step: from the moment a writer has taken its time stamp, no *)
(* event of its keys is later, and what it is about to put is the append   *)
(* of its observation to what the object holds at that very moment.        *)
PendingFresh ==
    \A w \in Writers :
        /\ pc[w] \in {"list", "update", "get", "put"} =>
             /\ run[w].now <= clock
             /\ \A k \in KeysOf(w[2]) : Log!NotBefore(run[w].now, store[k])
        /\ pc[w] = "put" => run[w].recs =
             AppendStateChangeEvents(run[w].now, run[w].ups[run[w].key], store[run[w].key])

(* The stored events of a key say of each resource what is observed of it. *)
Agrees(events, ups) ==
    /\ DOMAIN events = DOMAIN ups
    /\ \A r \in DOMAIN ups :
         SameCondition(events[r][Len(events[r])], EventOf(ups[r], 0))

(* When the reconciler rests and nothing is queued, the log reflects the   *)
(* cluster: "the Event Log for these resource types is always consistent   *)
(* and reflects the latest cluster state without waiting for a polling     *)
(* interval" (docs/arch.md).                                               *)
RestingLogIsCurrent ==
    \A i \in Instances : (pc[<<i, "workload">>] = "idle" /\ ~dirty[i]) =>
        \A k \in KeysOf("workload") : Agrees(store[k], cluster[k])

(* Nor does the observed store, from which the reports take what is up     *)
(* now, then lag behind the cluster: it is replaced before the log is      *)
(* written, lost in a restart, and left as it was when a list fails, but   *)
(* each time a request is left in the queue.                               *)
RestingViewIsCurrent ==
    \A i \in Instances : (pc[<<i, "workload">>] = "idle" /\ ~dirty[i]) =>
        \A k \in KeysOf("workload") :
            k \in DOMAIN observed[i] /\ observed[i][k] = cluster[k]

(* As long as a resource is observed its past is never rewritten: a write  *)
(* of an object only adds events to the histories it keeps.                *)
HistoriesOnlyGrow ==
    [][\A k \in Keys : \A r \in DOMAIN store[k] \cap DOMAIN store'[k] :
         IsPrefix(store[k][r], store'[k][r])]_vars

(* The writers implement the log: every put of an object is one indivisible *)
(* append of an observation, and everything else leaves the log alone.     *)
ImplementsLog == Log!Spec

(* Once the cluster stops changing and calls stop failing, the log of      *)
(* every key comes to agree with the cluster, and stays so.                *)
LogCatchesUp == <>[](\A k \in Keys : Agrees(store[k], cluster[k]))
=============================================================================
