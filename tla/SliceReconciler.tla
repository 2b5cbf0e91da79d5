-------------------------- MODULE SliceReconciler ---------------------------
(***************************************************************************)
(* How the Workload Reconciler follows slices: a slice that disappears     *)
(* while its owner still runs is an interruption and stays in the log, one *)
(* that disappears with its owner is forgotten.  What it knows of slices   *)
(* that are no longer listed is the Slice Owner Map, kept in a ConfigMap,  *)
(* written through the API server and read through a cache.                *)
(*                                                                         *)
(* processSlices asks for the owner of one slice after the other, saves    *)
(* the map and only logs an error there, and then the observation goes to  *)
(* the Event Log, here in one step and with time stamp 0: EventLog has the *)
(* details.                                                                *)
(***************************************************************************)
EXTENDS UpEvents, FiniteSets

CONSTANTS
    Slices,     \* names of slices
    Owners,     \* workloads that own slices (JobSets, LeaderWorkerSets)
    OwnerOf,    \* name |-> owner: the name of a slice is made from its owner's
    Conditions, \* statuses of a slice's state condition
    Bound       \* bound on what the environment does, per event

(* The cluster changes; looking up an owner, saving the map or appending   *)
(* to the log fails; the cache lags behind a write; the process restarts.  *)
Events == {"change", "lookup", "save", "append", "lag", "restart"}

ASSUME SliceAssumption ==
    /\ OwnerOf \in [Slices -> Owners]
    /\ Conditions \subseteq {"True", "Unknown", "False"}
    /\ Bound \in [Events -> Nat]

(* What a listing shows of a slice: the status of its state condition, and *)
(* whether it has a deletion time stamp.                                   *)
Slice == [ready : Conditions, terminating : BOOLEAN]

OwnerStatus == {"active", "terminal", "gone"}

(* An owner completes, fails or is suspended, and is resumed; it is        *)
(* deleted, and created again under its name.                              *)
OwnerMoves ==
    {<<"active", "terminal">>, <<"terminal", "active">>, <<"active", "gone">>,
     <<"terminal", "gone">>, <<"gone", "active">>}

EmptyMap == [x \in {} |-> x]

NoRun == [listed |-> EmptyMap, map |-> EmptyMap, changed |-> FALSE,
          todo |-> {}, ups |-> EmptyMap]

VARIABLES
    slices,     \* name |-> slice, in the cluster
    owners,     \* owner |-> its status
    orphaned,   \* slices whose owner did not run, at some time since they
                \* were last recorded
    configMap,  \* the Slice Owner Map: [version, data : name |-> owner]
    cached,     \* the cache's copy of it
    queued,     \* the reconciler's request is queued
    pc, run,    \* where the reconciler is, and what it knows
    history,    \* name |-> events: the log of the key slices
    spent

clusterVars == <<slices, owners, orphaned>>
vars == <<clusterVars, configMap, cached, queued, pc, run, history, spent>>

Spend(e) == spent[e] < Bound[e] /\ spent' = [spent EXCEPT ![e] = @ + 1]

Put(f, x, v) == [y \in DOMAIN f \cup {x} |-> IF y = x THEN v ELSE f[y]]
Drop(f, x) == [y \in DOMAIN f \ {x} |-> f[y]]

IsActive(o) == owners[o] = "active"

Orphans(status) == {s \in Slices : status[OwnerOf[s]] # "active"}

Init ==
    /\ slices = EmptyMap
    /\ owners = [o \in Owners |-> "active"] /\ orphaned = {}
    /\ configMap = [version |-> 0, data |-> EmptyMap] /\ cached = configMap
    /\ queued = TRUE
    /\ pc = "idle" /\ run = NoRun
    /\ history = EmptyMap
    /\ spent = [e \in Events |-> 0]

-----------------------------------------------------------------------------
(* The environment.                                                        *)

(* A slice appears, or its status changes.  Slices and owners are read     *)
(* from caches of their own, so that a slice may be seen before its owner. *)
SliceChanges(s, slice) ==
    /\ Spend("change")
    /\ s \in DOMAIN slices => slice # slices[s]
    /\ slices' = Put(slices, s, slice)
    /\ queued' = TRUE
    /\ UNCHANGED <<owners, orphaned, configMap, cached, pc, run, history>>

SliceDeleted(s) ==
    /\ Spend("change")
    /\ s \in DOMAIN slices /\ slices' = Drop(slices, s)
    /\ queued' = TRUE
    /\ UNCHANGED <<owners, orphaned, configMap, cached, pc, run, history>>

OwnerChanges(o, status) ==
    /\ Spend("change")
    /\ <<owners[o], status>> \in OwnerMoves /\ owners' = [owners EXCEPT ![o] = status]
    /\ queued' = TRUE /\ orphaned' = orphaned \cup Orphans(owners')
    /\ UNCHANGED <<slices, configMap, cached, pc, run, history>>

(* The cache hears of the last write of the ConfigMap.                     *)
CacheUpdates ==
    /\ cached # configMap /\ cached' = configMap
    /\ UNCHANGED <<clusterVars, configMap, queued, pc, run, history, spent>>

(* A new process lists the ConfigMap and the workloads, which queues a     *)
(* request if there is any.                                                *)
Restart ==
    /\ Spend("restart")
    /\ cached' = configMap
    /\ pc' = "idle" /\ run' = NoRun
    /\ queued' = (DOMAIN slices # {} \/ \E o \in Owners : owners[o] # "gone")
    /\ UNCHANGED <<clusterVars, configMap, history>>

-----------------------------------------------------------------------------
(* The reconciler.                                                         *)

(* Mutant of GetOwnerMap: it starts from an empty map every time.          *)
GetOwnerMapFresh ==
    /\ pc = "idle" /\ queued
    /\ queued' = FALSE
    /\ run' = NoRun
    /\ pc' = "list"
    /\ UNCHANGED <<clusterVars, configMap, cached, history, spent>>

(* Reconcile reads the map.  Only megamon writes it, so that what it reads *)
(* parses; a ConfigMap edited by hand that does not is not modelled.       *)
GetOwnerMap ==
    /\ pc = "idle" /\ queued
    /\ queued' = FALSE
    /\ run' = [NoRun EXCEPT !.map = cached.data]
    /\ pc' = "list"
    /\ UNCHANGED <<clusterVars, configMap, cached, history, spent>>

ListSlices ==
    /\ pc = "list"
    /\ run' = [run EXCEPT !.listed = slices, !.todo = DOMAIN slices]
    /\ pc' = "listed"
    /\ UNCHANGED <<clusterVars, configMap, cached, queued, history, spent>>

(* getOwnerStatus, <<exists, terminal>>.  On an error it says <<FALSE,     *)
(* FALSE>>, and the callers go on with that.                               *)
getOwnerStatus(o) ==
    CASE owners[o] = "active"   -> <<TRUE, FALSE>>
      [] owners[o] = "terminal" -> <<TRUE, TRUE>>
      [] owners[o] = "gone"     -> <<FALSE, FALSE>>

LookedUp(o, status) ==
    \/ status = getOwnerStatus(o) /\ UNCHANGED spent
    \/ status = <<FALSE, FALSE>> /\ Spend("lookup")

Upness1(ready, unknown, expectedDown) ==
    [ReadyCount |-> ready, ExpectedCount |-> 1, UnknownCount |-> unknown,
     ExpectedDown |-> expectedDown, Failed |-> FALSE]

(* Mutant of UpnessOf: a slice that is being deleted counts as it did.     *)
UpnessOfConditions(slice, status) ==
    Upness1(IF slice.ready = "True" THEN 1 ELSE 0,
            IF slice.ready = "Unknown" THEN 1 ELSE 0,
            ~status[1] \/ status[2])

(* The upness of a listed slice: a slice that is being deleted is down.    *)
UpnessOf(slice, status) ==
    LET alive == ~slice.terminating
    IN  Upness1(IF alive /\ slice.ready = "True" THEN 1 ELSE 0,
                IF alive /\ slice.ready = "Unknown" THEN 1 ELSE 0,
                ~status[1] \/ status[2])

(* The first loop of processSlices, over the slices that are listed.       *)
ProcessListed(s) ==
    /\ pc = "listed" /\ s \in run.todo
    /\ \E status \in BOOLEAN \X BOOLEAN :
         /\ LookedUp(OwnerOf[s], status)
         /\ run' = [run EXCEPT
              !.map = Put(@, s, OwnerOf[s]),
              !.changed = @ \/ run.map # Put(run.map, s, OwnerOf[s]),
              !.ups = Put(@, s, UpnessOf(run.listed[s], status)),
              !.todo = @ \ {s}]
    /\ UNCHANGED <<clusterVars, configMap, cached, queued, pc, history>>

ListedDone ==
    /\ pc = "listed" /\ run.todo = {}
    /\ run' = [run EXCEPT !.todo = DOMAIN run.map \ DOMAIN run.listed]
    /\ pc' = "missing"
    /\ UNCHANGED <<clusterVars, configMap, cached, queued, history, spent>>

(* Mutant of ProcessMissing: dropping a slice does not mark the map as     *)
(* changed.                                                                *)
ProcessMissingUnmarked(s) ==
    /\ pc = "missing" /\ s \in run.todo
    /\ \E status \in BOOLEAN \X BOOLEAN :
         /\ LookedUp(run.map[s], status)
         /\ run' =
              IF status[1] /\ ~status[2]
              THEN [run EXCEPT !.ups = Put(@, s, Upness1(0, 0, FALSE)), !.todo = @ \ {s}]
              ELSE [run EXCEPT !.map = Drop(@, s), !.todo = @ \ {s}]
    /\ UNCHANGED <<clusterVars, configMap, cached, queued, pc, history>>

(* The second loop, over the slices that are only in the map.              *)
ProcessMissing(s) ==
    /\ pc = "missing" /\ s \in run.todo
    /\ \E status \in BOOLEAN \X BOOLEAN :
         /\ LookedUp(run.map[s], status)
         /\ run' =
              IF status[1] /\ ~status[2]
              THEN [run EXCEPT !.ups = Put(@, s, Upness1(0, 0, FALSE)), !.todo = @ \ {s}]
              ELSE [run EXCEPT !.map = Drop(@, s), !.changed = TRUE, !.todo = @ \ {s}]
    /\ UNCHANGED <<clusterVars, configMap, cached, queued, pc, history>>

(* CreateOrUpdate reads the ConfigMap from the cache again, and writes if  *)
(* that would change it; the write is refused if the cache is behind.  The *)
(* cache sees the write at once, or later.                                 *)
WritesOwnerMap ==
    run.changed /\ run.map # cached.data /\ cached.version = configMap.version

SaveOwnerMap ==
    /\ pc = "missing" /\ run.todo = {}
    /\ \/ /\ WritesOwnerMap
          /\ configMap' = [version |-> configMap.version + 1, data |-> run.map]
          /\ \/ cached' = configMap' /\ UNCHANGED spent
             \/ UNCHANGED cached /\ Spend("lag")
       \/ /\ ~WritesOwnerMap
          /\ UNCHANGED <<configMap, cached, spent>>
    /\ pc' = "append"
    /\ UNCHANGED <<clusterVars, queued, run, history>>

(* An error is logged, and that is all.                                    *)
SaveFails ==
    /\ pc = "missing" /\ run.todo = {} /\ run.changed
    /\ Spend("save")
    /\ pc' = "append"
    /\ UNCHANGED <<clusterVars, configMap, cached, queued, run, history>>

(* The append to the log, as one step.                                     *)
RecordUps ==
    /\ history' = AppendStateChangeEvents(0, run.ups, history)
    /\ orphaned' = (orphaned \ DOMAIN run.ups) \cup Orphans(owners)

AppendStateChanges ==
    /\ pc = "append"
    /\ RecordUps
    /\ pc' = "idle" /\ run' = NoRun
    /\ UNCHANGED <<slices, owners, configMap, cached, queued, spent>>

(* The request is queued again; what was to be appended may be in the log  *)
(* all the same.                                                           *)
AppendFails ==
    /\ pc = "append"
    /\ Spend("append")
    /\ RecordUps \/ UNCHANGED <<history, orphaned>>
    /\ pc' = "idle" /\ run' = NoRun /\ queued' = TRUE
    /\ UNCHANGED <<slices, owners, configMap, cached>>

-----------------------------------------------------------------------------
Reconcile ==
    \/ GetOwnerMap \/ ListSlices
    \/ \E s \in Slices : ProcessListed(s) \/ ProcessMissing(s)
    \/ ListedDone \/ SaveOwnerMap \/ AppendStateChanges

Next ==
    \/ CacheUpdates \/ Restart
    \/ \E s \in Slices : SliceDeleted(s) \/ \E slice \in Slice : SliceChanges(s, slice)
    \/ \E o \in Owners, status \in OwnerStatus : OwnerChanges(o, status)
    \/ Reconcile \/ SaveFails \/ AppendFails

Spec == Init /\ [][Next]_vars

(* The controller works its queue off, and the cache follows.              *)
FairSpec == Spec /\ WF_vars(Reconcile) /\ WF_vars(CacheUpdates)
-----------------------------------------------------------------------------
IsOwnerMap(f) == DOMAIN f \subseteq Slices /\ \A s \in DOMAIN f : f[s] \in Owners

TypeOK ==
    /\ DOMAIN slices \subseteq Slices /\ \A s \in DOMAIN slices : slices[s] \in Slice
    /\ owners \in [Owners -> OwnerStatus]
    /\ Orphans(owners) \subseteq orphaned /\ orphaned \subseteq Slices
    /\ IsOwnerMap(configMap.data)
    /\ configMap.version \in Nat /\ cached.version \in 0..configMap.version
    /\ IsOwnerMap(cached.data) /\ IsOwnerMap(run.map)
    /\ pc \in {"idle", "list", "listed", "missing", "append"}
    /\ DOMAIN run.ups \subseteq Slices /\ \A s \in DOMAIN run.ups : run.ups[s] \in Upness
    /\ DOMAIN history \subseteq Slices /\ \A s \in DOMAIN history : history[s] \in Seq(UpEvent)

-----------------------------------------------------------------------------
(* A slice of unknown state counts as ready if more than half of the nodes *)
(* may be unknown.                                                         *)
CountsAsReady(ready) ==
    ready = "True" \/ (ready = "Unknown" /\ 2 * ThresholdNum > ThresholdDen)

LastEvent(s) == history[s][Len(history[s])]

(* The log forgets a slice only if its owner did not run at some time      *)
(* since the slice was last recorded: the Slice Owner Map is there         *)
(* "to ensure slices are correctly tracked even when they are temporarily  *)
(* missing from the API server" (docs/arch.md), whatever restarts.         *)
ActiveOwnersKeepHistory ==
    [][\A s \in DOMAIN history \ DOMAIN history' : s \in orphaned]_vars

(* That holds at least as long as no lookup of an owner and no save of the *)
(* map has failed, and the cache has not lagged.                           *)
KeepsHistoryUnlessFaulty ==
    [][(\A e \in {"lookup", "save", "lag"} : spent[e] = 0) =>
         \A s \in DOMAIN history \ DOMAIN history' : s \in orphaned]_vars

(* A process that starts when there is no workload in the cluster is never *)
(* asked to reconcile: that is the subject of RestingLogIsCurrent in       *)
(* EventLog, and left out here.                                            *)
Notified ==
    spent["restart"] = 0 \/ DOMAIN slices # {} \/ \E o \in Owners : owners[o] # "gone"

(* Once the cluster is quiet, the log says of every listed slice what the  *)
(* slice and its owner are, and a slice that is no longer listed is in the *)
(* log only if its owner runs, as down unexpectedly.  Failed saves and a   *)
(* lagging cache do not matter here, but a failed lookup of an owner does: *)
(* its error is only logged and the request not queued again.              *)
SlicesCatchUp ==
    <>[](spent["lookup"] = 0 /\ Notified => \A s \in Slices :
          /\ s \in DOMAIN slices =>
               /\ s \in DOMAIN history
               /\ LastEvent(s).ExpectedDown = ~IsActive(OwnerOf[s])
               /\ LastEvent(s).Up = (/\ IsActive(OwnerOf[s]) /\ ~slices[s].terminating
                                     /\ CountsAsReady(slices[s].ready))
          /\ s \in DOMAIN history \ DOMAIN slices =>
               /\ IsActive(OwnerOf[s])
               /\ ~LastEvent(s).Up /\ ~LastEvent(s).ExpectedDown)

(* The Slice Owner Map does not grow for ever: unless saves fail or the    *)
(* cache lags, in the end it holds the slices that are listed and, of the  *)
(* others, only some whose owner runs.                                     *)
OwnerMapForgets ==
    <>[](spent["save"] = 0 /\ spent["lag"] = 0 /\ Notified =>
          /\ DOMAIN slices \subseteq DOMAIN configMap.data
          /\ \A s \in DOMAIN configMap.data \ DOMAIN slices : IsActive(configMap.data[s]))
=============================================================================
