------------------------ MODULE SliceReconcilerProofs -----------------------
(***************************************************************************)
(* Proofs about SliceReconciler, for every set of slices and owners and    *)
(* all bounds: the types, and that the Slice Owner Map keeps the history   *)
(* of a slice whose owner runs.                                            *)
(***************************************************************************)
EXTENDS SliceReconciler, UpEventsProofs

-----------------------------------------------------------------------------
(* What the model's operators do.                                          *)

(* Whatever a lookup answers, what is reported of a slice is an upness.    *)
LEMMA SliceUpness ==
    ASSUME NEW slice, NEW status \in BOOLEAN \X BOOLEAN
    PROVE  UpnessOf(slice, status) \in Upness /\ Upness1(0, 0, FALSE) \in Upness
BY DEF UpnessOf, Upness1, Upness

(* A count of what the environment did only goes up.                       *)
LEMMA SpendCounts ==
    ASSUME spent \in [Events -> Nat], NEW e \in Events, Spend(e)
    PROVE  /\ spent' \in [Events -> Nat]
           /\ \A f \in Events : spent'[f] >= spent[f]
           /\ spent'[e] # 0
BY DEF Spend

-----------------------------------------------------------------------------
(* Type correctness.                                                       *)

(* A map from slices to their owners: the name of a slice tells its owner. *)
Named(f) == DOMAIN f \subseteq Slices /\ \A s \in DOMAIN f : f[s] = OwnerOf[s]

(* What the reconciler knows is consistent with where it is: in the first  *)
(* loop the slices done are in the map and reported, in the second every   *)
(* slice of the map is reported or still to be done.                       *)
RunInv ==
    /\ spent \in [Events -> Nat]
    /\ DOMAIN run = {"listed", "map", "changed", "todo", "ups"}
    /\ run.changed \in BOOLEAN
    /\ Named(configMap.data) /\ Named(cached.data) /\ Named(run.map)
    /\ pc = "listed" => /\ DOMAIN run.listed \subseteq Slices
                        /\ run.todo \subseteq DOMAIN run.listed
                        /\ DOMAIN run.ups = DOMAIN run.listed \ run.todo
                        /\ DOMAIN run.ups \subseteq DOMAIN run.map
    /\ pc = "missing" => /\ run.todo \subseteq DOMAIN run.map
                         /\ DOMAIN run.ups = DOMAIN run.map \ run.todo
    /\ pc = "append" => DOMAIN run.map = DOMAIN run.ups
    /\ pc \in {"idle", "list"} => DOMAIN run.ups = {}

SliceInv == TypeOK /\ RunInv

(* Knowing nothing is consistent with resting.                             *)
LEMMA NoRunOK ==
    /\ DOMAIN NoRun = {"listed", "map", "changed", "todo", "ups"}
    /\ NoRun.changed = FALSE /\ NoRun.todo = {}
    /\ DOMAIN NoRun.ups = {} /\ DOMAIN NoRun.map = {}
    /\ Named(NoRun.map) /\ IsOwnerMap(NoRun.map)
BY DEF NoRun, EmptyMap, Named, IsOwnerMap

(* The names of owners that slices have are names of owners.               *)
LEMMA NamedIsOwnerMap ==
    ASSUME NEW f, Named(f) PROVE IsOwnerMap(f)
BY SliceAssumption DEF Named, IsOwnerMap

(* The reconciler starts with nothing.                                     *)
LEMMA InitSlice == Init => SliceInv
<1>. SUFFICES ASSUME Init PROVE SliceInv
    OBVIOUS
<1>1. DOMAIN EmptyMap = {}
    BY DEF EmptyMap
<1>2. Named(EmptyMap) /\ IsOwnerMap(EmptyMap)
    BY <1>1 DEF Named, IsOwnerMap
<1>3. RunInv
    BY <1>1, <1>2, NoRunOK DEF Init, RunInv
<1>4. Orphans(owners) = {}
    BY SliceAssumption DEF Init, Orphans
<1>5. owners \in [Owners -> OwnerStatus] /\ orphaned = {}
    BY DEF Init, OwnerStatus
<1>. QED
    BY <1>1, <1>2, <1>3, <1>4, <1>5, NoRunOK DEF Init, TypeOK, SliceInv

(* The cluster, the cache and restarts keep the types.                     *)
LEMMA EnvironmentSlice ==
    ASSUME SliceInv,
           \/ CacheUpdates \/ Restart
           \/ \E s \in Slices : SliceDeleted(s) \/ \E slice \in Slice : SliceChanges(s, slice)
           \/ \E o \in Owners, status \in OwnerStatus : OwnerChanges(o, status)
    PROVE  SliceInv'
<1>. USE DEF SliceInv
<1>1. CASE CacheUpdates
    <2>1. TypeOK'
        BY <1>1 DEF CacheUpdates, clusterVars, TypeOK, Orphans
    <2>2. RunInv'
        BY <1>1 DEF CacheUpdates, RunInv, Named
    <2>. QED
        BY <2>1, <2>2
<1>2. CASE Restart
    <2>1. TypeOK'
        BY <1>2, NoRunOK DEF Restart, clusterVars, TypeOK, Orphans
    <2>2. spent' \in [Events -> Nat]
        BY <1>2, SpendCounts DEF Restart, RunInv, Events
    <2>3. RunInv'
        BY <1>2, <2>2, NoRunOK DEF Restart, RunInv, Named
    <2>. QED
        BY <2>1, <2>3
<1>3. ASSUME NEW s \in Slices,
             SliceDeleted(s) \/ \E slice \in Slice : SliceChanges(s, slice)
      PROVE  SliceInv'
    <2>1. DOMAIN slices' \subseteq Slices /\ \A x \in DOMAIN slices' : slices'[x] \in Slice
        <3>0. DOMAIN slices \subseteq Slices /\ \A x \in DOMAIN slices : slices[x] \in Slice
            BY DEF TypeOK
        <3>1. CASE SliceDeleted(s)
            <4>1. slices' = Drop(slices, s)
                BY <3>1 DEF SliceDeleted
            <4>. QED
                BY <3>0, <4>1 DEF Drop
        <3>2. ASSUME NEW slice \in Slice, SliceChanges(s, slice)
              PROVE  /\ DOMAIN slices' \subseteq Slices
                     /\ \A x \in DOMAIN slices' : slices'[x] \in Slice
            <4>1. slices' = Put(slices, s, slice)
                BY <3>2 DEF SliceChanges
            <4>. QED
                BY <3>0, <4>1 DEF Put
        <3>. QED
            BY <1>3, <3>1, <3>2
    <2>2. /\ UNCHANGED <<owners, orphaned, configMap, cached, pc, run, history>>
          /\ Spend("change")
        BY <1>3 DEF SliceDeleted, SliceChanges
    <2>3. TypeOK'
        BY <2>1, <2>2 DEF TypeOK, Orphans
    <2>4. spent' \in [Events -> Nat]
        BY <2>2, SpendCounts DEF RunInv, Events
    <2>5. RunInv'
        BY <2>2, <2>4 DEF RunInv, Named
    <2>. QED
        BY <2>3, <2>5
<1>4. ASSUME NEW o \in Owners, NEW status \in OwnerStatus, OwnerChanges(o, status)
      PROVE  SliceInv'
    <2>1. /\ UNCHANGED <<slices, configMap, cached, pc, run, history>>
          /\ Spend("change")
          /\ owners' = [owners EXCEPT ![o] = status]
          /\ orphaned' = orphaned \cup Orphans(owners')
        BY <1>4 DEF OwnerChanges
    <2>2. owners' \in [Owners -> OwnerStatus]
        BY <2>1 DEF TypeOK
    <2>3. Orphans(owners') \subseteq Slices
        BY DEF Orphans
    <2>4. TypeOK'
        BY <2>1, <2>2, <2>3 DEF TypeOK
    <2>5. spent' \in [Events -> Nat]
        BY <2>1, SpendCounts DEF RunInv, Events
    <2>6. RunInv'
        BY <2>1, <2>5 DEF RunInv, Named
    <2>. QED
        BY <2>4, <2>6
<1>. QED
    BY <1>1, <1>2, <1>3, <1>4

(* What is recorded of slices are events, and those without a running      *)
(* owner stay marked.                                                      *)
LEMMA RecordingSlice ==
    ASSUME SliceInv, RecordUps
    PROVE  /\ DOMAIN history' = DOMAIN run.ups /\ DOMAIN history' \subseteq Slices
           /\ \A s \in DOMAIN history' : history'[s] \in Seq(UpEvent)
           /\ Orphans(owners) \subseteq orphaned' /\ orphaned' \subseteq Slices
<1>1. /\ history' = AppendStateChangeEvents(0, run.ups, history)
      /\ orphaned' = (orphaned \ DOMAIN run.ups) \cup Orphans(owners)
    BY DEF RecordUps
<1>2. /\ DOMAIN run.ups \subseteq Slices /\ \A s \in DOMAIN run.ups : run.ups[s] \in Upness
      /\ \A s \in DOMAIN history : history[s] \in Seq(UpEvent)
    BY DEF SliceInv, TypeOK
<1>3. \A s \in DOMAIN run.ups : EventOf(run.ups[s], 0) \in UpEvent
    BY <1>2, EventOfType
<1>4. Orphans(owners) \subseteq orphaned' /\ orphaned' \subseteq Slices
    BY <1>1 DEF Orphans, SliceInv, TypeOK
<1>. QED
    BY <1>1, <1>2, <1>3, <1>4, AppendStateChangeEventsExtends

(* The steps of the reconciler, failing ones included, keep the types.     *)
LEMMA ReconcileSlice ==
    ASSUME SliceInv, Reconcile \/ SaveFails \/ AppendFails PROVE SliceInv'
<1>. USE DEF SliceInv
<1>1. CASE GetOwnerMap
    <2>1. /\ run' = [NoRun EXCEPT !.map = cached.data] /\ pc' = "list"
          /\ UNCHANGED <<clusterVars, configMap, cached, history, spent>>
        BY <1>1 DEF GetOwnerMap
    <2>2. /\ DOMAIN run' = {"listed", "map", "changed", "todo", "ups"}
          /\ run'.map = cached.data /\ run'.changed = FALSE
          /\ run'.ups = NoRun.ups
        BY <2>1, NoRunOK DEF NoRun
    <2>3. TypeOK'
        BY <2>1, <2>2, NoRunOK DEF clusterVars, TypeOK, Orphans
    <2>4. RunInv'
        BY <2>1, <2>2, NoRunOK DEF RunInv, Named
    <2>. QED
        BY <2>3, <2>4
<1>2. CASE ListSlices
    <2>1. /\ run' = [run EXCEPT !.listed = slices, !.todo = DOMAIN slices]
          /\ pc = "list" /\ pc' = "listed"
          /\ UNCHANGED <<clusterVars, configMap, cached, history, spent>>
        BY <1>2 DEF ListSlices
    <2>2. /\ DOMAIN run' = {"listed", "map", "changed", "todo", "ups"}
          /\ run'.listed = slices /\ run'.todo = DOMAIN slices
          /\ run'.map = run.map /\ run'.changed = run.changed /\ run'.ups = run.ups
        BY <2>1 DEF RunInv
    <2>3. TypeOK'
        BY <2>1, <2>2 DEF clusterVars, TypeOK, Orphans
    <2>4. DOMAIN slices \subseteq Slices
        BY DEF TypeOK
    <2>5. RunInv'
        BY <2>1, <2>2, <2>4 DEF RunInv, Named
    <2>. QED
        BY <2>3, <2>5
<1>3. ASSUME NEW s \in Slices, ProcessListed(s) PROVE SliceInv'
    <2>1. PICK status \in BOOLEAN \X BOOLEAN :
            /\ LookedUp(OwnerOf[s], status)
            /\ run' = [run EXCEPT
                 !.map = Put(@, s, OwnerOf[s]),
                 !.changed = @ \/ run.map # Put(run.map, s, OwnerOf[s]),
                 !.ups = Put(@, s, UpnessOf(run.listed[s], status)),
                 !.todo = @ \ {s}]
        BY <1>3 DEF ProcessListed
    <2>2. /\ DOMAIN run' = {"listed", "map", "changed", "todo", "ups"}
          /\ run'.listed = run.listed /\ run'.todo = run.todo \ {s}
          /\ run'.map = Put(run.map, s, OwnerOf[s])
          /\ run'.changed \in BOOLEAN
          /\ run'.ups = Put(run.ups, s, UpnessOf(run.listed[s], status))
        BY <2>1 DEF RunInv
    <2>3. /\ pc = "listed" /\ pc' = pc /\ s \in run.todo
          /\ UNCHANGED <<clusterVars, configMap, cached, history>>
        BY <1>3 DEF ProcessListed
    <2>4. spent' \in [Events -> Nat]
        BY <2>1, SpendCounts DEF LookedUp, RunInv, Events
    <2>5. Named(run'.map) /\ IsOwnerMap(run'.map)
        <3>1. Named(Put(run.map, s, OwnerOf[s]))
            BY DEF RunInv, Named, Put
        <3>. QED
            BY <2>2, <3>1, NamedIsOwnerMap
    <2>6. DOMAIN run'.ups = DOMAIN run.ups \cup {s} /\ DOMAIN run'.map = DOMAIN run.map \cup {s}
        BY <2>2 DEF Put
    <2>7. \A x \in DOMAIN run'.ups : run'.ups[x] \in Upness
        <3>1. \A x \in DOMAIN run.ups : run.ups[x] \in Upness
            BY DEF TypeOK
        <3>2. UpnessOf(run.listed[s], status) \in Upness
            BY SliceUpness
        <3>. QED
            BY <2>2, <3>1, <3>2 DEF Put
    <2>8. TypeOK'
        BY <2>3, <2>5, <2>6, <2>7 DEF clusterVars, TypeOK, Orphans
    <2>9. RunInv'
        BY <2>2, <2>3, <2>4, <2>5, <2>6 DEF RunInv, Named
    <2>. QED
        BY <2>8, <2>9
<1>4. CASE ListedDone
    <2>1. /\ run' = [run EXCEPT !.todo = DOMAIN run.map \ DOMAIN run.listed]
          /\ pc = "listed" /\ run.todo = {} /\ pc' = "missing"
          /\ UNCHANGED <<clusterVars, configMap, cached, history, spent>>
        BY <1>4 DEF ListedDone
    <2>2. /\ DOMAIN run' = {"listed", "map", "changed", "todo", "ups"}
          /\ run'.listed = run.listed /\ run'.todo = DOMAIN run.map \ DOMAIN run.listed
          /\ run'.map = run.map /\ run'.changed = run.changed /\ run'.ups = run.ups
        BY <2>1 DEF RunInv
    <2>3. TypeOK'
        BY <2>1, <2>2 DEF clusterVars, TypeOK, Orphans
    <2>4. DOMAIN run.ups = DOMAIN run.listed /\ DOMAIN run.ups \subseteq DOMAIN run.map
        BY <2>1 DEF RunInv
    <2>5. RunInv'
        BY <2>1, <2>2, <2>4 DEF RunInv, Named
    <2>. QED
        BY <2>3, <2>5
<1>5. ASSUME NEW s \in Slices, ProcessMissing(s) PROVE SliceInv'
    <2>1. PICK status \in BOOLEAN \X BOOLEAN :
            /\ LookedUp(run.map[s], status)
            /\ run' =
                 IF status[1] /\ ~status[2]
                 THEN [run EXCEPT !.ups = Put(@, s, Upness1(0, 0, FALSE)), !.todo = @ \ {s}]
                 ELSE [run EXCEPT !.map = Drop(@, s), !.changed = TRUE, !.todo = @ \ {s}]
        BY <1>5 DEF ProcessMissing
    <2>2. /\ DOMAIN run' = {"listed", "map", "changed", "todo", "ups"}
          /\ run'.changed \in BOOLEAN /\ run'.todo = run.todo \ {s}
          /\ \/ run'.map = run.map /\ run'.ups = Put(run.ups, s, Upness1(0, 0, FALSE))
             \/ run'.map = Drop(run.map, s) /\ run'.ups = run.ups
        BY <2>1 DEF RunInv
    <2>3. /\ pc = "missing" /\ pc' = pc /\ s \in run.todo
          /\ UNCHANGED <<clusterVars, configMap, cached, history>>
        BY <1>5 DEF ProcessMissing
    <2>4. spent' \in [Events -> Nat]
        BY <2>1, SpendCounts DEF LookedUp, RunInv, Events
    <2>5. Named(run'.map) /\ IsOwnerMap(run'.map)
        <3>1. Named(run.map) /\ Named(Drop(run.map, s))
            BY DEF RunInv, Named, Drop
        <3>. QED
            BY <2>2, <3>1, NamedIsOwnerMap
    <2>6. /\ run'.todo \subseteq DOMAIN run'.map
          /\ DOMAIN run'.ups = DOMAIN run'.map \ run'.todo
        <3>1. /\ run.todo \subseteq DOMAIN run.map
              /\ DOMAIN run.ups = DOMAIN run.map \ run.todo
            BY <2>3 DEF RunInv
        <3>2. /\ DOMAIN Put(run.ups, s, Upness1(0, 0, FALSE)) = DOMAIN run.ups \cup {s}
              /\ DOMAIN Drop(run.map, s) = DOMAIN run.map \ {s}
            BY DEF Put, Drop
        <3>. QED
            BY <2>2, <2>3, <3>1, <3>2, ZenonT(40)
    <2>7. DOMAIN run'.ups \subseteq Slices /\ \A x \in DOMAIN run'.ups : run'.ups[x] \in Upness
        <3>1. DOMAIN run.ups \subseteq Slices /\ \A x \in DOMAIN run.ups : run.ups[x] \in Upness
            BY DEF TypeOK
        <3>2. Upness1(0, 0, FALSE) \in Upness
            BY SliceUpness
        <3>. QED
            BY <2>2, <3>1, <3>2 DEF Put
    <2>8. TypeOK'
        BY <2>3, <2>5, <2>7 DEF clusterVars, TypeOK, Orphans
    <2>9. RunInv'
        BY <2>2, <2>3, <2>4, <2>5, <2>6 DEF RunInv, Named
    <2>. QED
        BY <2>8, <2>9
<1>6. CASE SaveOwnerMap
    <2>1. /\ pc = "missing" /\ run.todo = {} /\ pc' = "append"
          /\ UNCHANGED <<clusterVars, run, history>>
        BY <1>6 DEF SaveOwnerMap
    <2>2. DOMAIN run.ups = DOMAIN run.map
        BY <2>1 DEF RunInv
    <2>3. spent' \in [Events -> Nat]
        BY <1>6, SpendCounts DEF SaveOwnerMap, RunInv, Events
    <2>4. \/ UNCHANGED <<configMap, cached>>
          \/ /\ configMap' = [version |-> configMap.version + 1, data |-> run.map]
             /\ cached' = configMap' \/ cached' = cached
        BY <1>6 DEF SaveOwnerMap
    <2>5. /\ configMap.version \in Nat /\ cached.version \in 0..configMap.version
          /\ Named(configMap.data) /\ Named(cached.data) /\ Named(run.map)
        BY DEF TypeOK, RunInv
    <2>6. /\ configMap'.version \in Nat /\ cached'.version \in 0..configMap'.version
          /\ Named(configMap'.data) /\ Named(cached'.data)
        BY <2>4, <2>5
    <2>7. IsOwnerMap(configMap'.data) /\ IsOwnerMap(cached'.data)
        BY <2>6, NamedIsOwnerMap
    <2>8. TypeOK'
        BY <2>1, <2>6, <2>7 DEF clusterVars, TypeOK, Orphans
    <2>9. RunInv'
        BY <2>1, <2>2, <2>3, <2>6 DEF RunInv, Named
    <2>. QED
        BY <2>8, <2>9
<1>7. CASE SaveFails
    <2>1. /\ pc = "missing" /\ run.todo = {} /\ pc' = "append" /\ Spend("save")
          /\ UNCHANGED <<clusterVars, configMap, cached, run, history>>
        BY <1>7 DEF SaveFails
    <2>2. DOMAIN run.ups = DOMAIN run.map
        BY <2>1 DEF RunInv
    <2>3. spent' \in [Events -> Nat]
        BY <2>1, SpendCounts DEF RunInv, Events
    <2>4. TypeOK'
        BY <2>1 DEF clusterVars, TypeOK, Orphans
    <2>5. RunInv'
        BY <2>1, <2>2, <2>3 DEF RunInv, Named
    <2>. QED
        BY <2>4, <2>5
<1>8. CASE AppendStateChanges
    <2>1. /\ RecordUps /\ pc' = "idle" /\ run' = NoRun
          /\ UNCHANGED <<slices, owners, configMap, cached, spent>>
        BY <1>8 DEF AppendStateChanges
    <2>2. TypeOK'
        BY <2>1, RecordingSlice, NoRunOK DEF TypeOK, Orphans
    <2>3. RunInv'
        BY <2>1, NoRunOK DEF RunInv, Named
    <2>. QED
        BY <2>2, <2>3
<1>9. CASE AppendFails
    <2>1. /\ pc' = "idle" /\ run' = NoRun /\ Spend("append")
          /\ UNCHANGED <<slices, owners, configMap, cached>>
          /\ RecordUps \/ UNCHANGED <<history, orphaned>>
        BY <1>9 DEF AppendFails
    <2>2. spent' \in [Events -> Nat]
        BY <2>1, SpendCounts DEF RunInv, Events
    <2>3. TypeOK'
        <3>1. CASE RecordUps
            BY <2>1, <3>1, RecordingSlice, NoRunOK DEF TypeOK, Orphans
        <3>2. CASE UNCHANGED <<history, orphaned>>
            BY <2>1, <3>2, NoRunOK DEF TypeOK, Orphans
        <3>. QED
            BY <2>1, <3>1, <3>2
    <2>4. RunInv'
        BY <2>1, <2>2, NoRunOK DEF RunInv, Named
    <2>. QED
        BY <2>3, <2>4
<1>. QED
    BY <1>1, <1>2, <1>3, <1>4, <1>5, <1>6, <1>7, <1>8, <1>9 DEF Reconcile

(* Every state is well typed: in particular every slice whose owner does   *)
(* not run is marked as orphaned, and the cache never runs ahead.          *)
THEOREM SliceTypeCorrect == Spec => [](TypeOK /\ RunInv)
<1>1. SliceInv /\ [Next]_vars => SliceInv'
    <2>. SUFFICES ASSUME SliceInv, [Next]_vars PROVE SliceInv'
        OBVIOUS
    <2>1. CASE UNCHANGED vars
        BY <2>1 DEF vars, clusterVars, SliceInv, TypeOK, RunInv, Orphans, Named
    <2>2. CASE Next
        BY <2>2, EnvironmentSlice, ReconcileSlice DEF Next
    <2>. QED
        BY <2>1, <2>2
<1>. QED
    BY <1>1, InitSlice, PTL DEF Spec, SliceInv

-----------------------------------------------------------------------------
(* The Slice Owner Map remembers.                                          *)

NoFault == \A e \in {"lookup", "save", "lag"} : spent[e] = 0

(* The slices with a history are in f, unless their owner did not run at   *)
(* some time since they were last recorded.                                *)
Remembered(f) == DOMAIN history \subseteq DOMAIN f \cup orphaned

(* Without faults the reconciler works on the map as it is stored, and     *)
(* both remember every slice that has a history.                           *)
MapInv == NoFault =>
    /\ cached = configMap
    /\ Remembered(configMap.data)
    /\ pc # "idle" => Remembered(run.map)
    /\ pc # "idle" /\ ~run.changed => run.map = configMap.data
    /\ pc = "append" => run.map = configMap.data

(* A fault is never undone.                                                *)
LEMMA FaultsStay ==
    ASSUME SliceInv, Next, NoFault' PROVE NoFault
<1>. DEFINE Faults == {"lookup", "save", "lag"}
<1>1. \/ UNCHANGED spent
      \/ \E e \in Events : Spend(e)
    BY DEF Next, Reconcile, CacheUpdates, Restart, SliceDeleted, SliceChanges, OwnerChanges,
           GetOwnerMap, ListSlices, ProcessListed, ProcessMissing, LookedUp, ListedDone,
           SaveOwnerMap, AppendStateChanges, SaveFails, AppendFails, Events
<1>2. ASSUME NEW f \in Faults PROVE spent[f] = 0
    <2>1. f \in Events /\ spent[f] \in Nat /\ spent'[f] = 0
        BY DEF Events, SliceInv, RunInv, NoFault
    <2>2. ASSUME NEW e \in Events, Spend(e) PROVE spent'[f] >= spent[f]
        BY <2>1, <2>2, SpendCounts DEF SliceInv, RunInv
    <2>. QED
        BY <1>1, <2>1, <2>2
<1>. QED
    BY <1>2 DEF NoFault

(* Without faults a step keeps the map, the cache and the reconciler's     *)
(* copy in agreement, and drops a slice from them only when its owner does *)
(* not run.                                                                *)
LEMMA MapStep ==
    ASSUME SliceInv, MapInv, Next, NoFault' PROVE MapInv'
<1>. USE DEF SliceInv, Remembered
<1>0. NoFault
    BY FaultsStay
<1>1. /\ cached = configMap
      /\ Remembered(configMap.data)
      /\ pc # "idle" => Remembered(run.map)
      /\ pc # "idle" /\ ~run.changed => run.map = configMap.data
      /\ pc = "append" => run.map = configMap.data
    BY <1>0 DEF MapInv
<1>2. DOMAIN run = {"listed", "map", "changed", "todo", "ups"} /\ run.changed \in BOOLEAN
    BY DEF RunInv
<1>3. CASE CacheUpdates
    BY <1>1, <1>3 DEF CacheUpdates
<1>4. CASE Restart
    BY <1>1, <1>4 DEF Restart, clusterVars, MapInv
<1>5. ASSUME NEW s \in Slices,
             SliceDeleted(s) \/ \E slice \in Slice : SliceChanges(s, slice)
      PROVE  MapInv'
    <2>1. UNCHANGED <<orphaned, configMap, cached, pc, run, history>>
        BY <1>5 DEF SliceDeleted, SliceChanges
    <2>. QED
        BY <1>1, <2>1 DEF MapInv
<1>6. ASSUME NEW o \in Owners, NEW status \in OwnerStatus, OwnerChanges(o, status)
      PROVE  MapInv'
    <2>1. UNCHANGED <<configMap, cached, pc, run, history>> /\ orphaned \subseteq orphaned'
        BY <1>6 DEF OwnerChanges
    <2>. QED
        BY <1>1, <2>1 DEF MapInv
<1>7. CASE GetOwnerMap
    <2>1. /\ run' = [NoRun EXCEPT !.map = cached.data]
          /\ UNCHANGED <<orphaned, configMap, cached, history>> /\ pc' = "list"
        BY <1>7 DEF GetOwnerMap, clusterVars
    <2>2. run'.map = cached.data
        BY <2>1 DEF NoRun
    <2>. QED
        BY <1>1, <2>1, <2>2 DEF MapInv
<1>8. CASE ListSlices \/ ListedDone
    <2>1. /\ UNCHANGED <<orphaned, configMap, cached, history>>
          /\ pc \in {"list", "listed"} /\ pc' \in {"listed", "missing"}
          /\ run'.map = run.map /\ run'.changed = run.changed
        BY <1>2, <1>8 DEF ListSlices, ListedDone, clusterVars
    <2>. QED
        BY <1>1, <2>1 DEF MapInv
<1>9. ASSUME NEW s \in Slices, ProcessListed(s) PROVE MapInv'
    <2>1. /\ UNCHANGED <<orphaned, configMap, cached, history>>
          /\ pc = "listed" /\ pc' = "listed"
          /\ run'.map = Put(run.map, s, OwnerOf[s])
          /\ run'.changed = (run.changed \/ run.map # Put(run.map, s, OwnerOf[s]))
        BY <1>2, <1>9 DEF ProcessListed, clusterVars
    <2>2. DOMAIN Put(run.map, s, OwnerOf[s]) = DOMAIN run.map \cup {s}
        BY DEF Put
    <2>. QED
        BY <1>1, <2>1, <2>2 DEF MapInv
<1>10. ASSUME NEW s \in Slices, ProcessMissing(s) PROVE MapInv'
    <2>1. PICK status \in BOOLEAN \X BOOLEAN :
            /\ LookedUp(run.map[s], status)
            /\ run' =
                 IF status[1] /\ ~status[2]
                 THEN [run EXCEPT !.ups = Put(@, s, Upness1(0, 0, FALSE)), !.todo = @ \ {s}]
                 ELSE [run EXCEPT !.map = Drop(@, s), !.changed = TRUE, !.todo = @ \ {s}]
        BY <1>10 DEF ProcessMissing
    <2>2. /\ UNCHANGED <<orphaned, configMap, cached, history>>
          /\ pc = "missing" /\ pc' = "missing" /\ s \in run.todo
        BY <1>10 DEF ProcessMissing, clusterVars
    <2>3. CASE status[1] /\ ~status[2]
        <3>1. run'.map = run.map /\ run'.changed = run.changed
            BY <1>2, <2>1, <2>3
        <3>. QED
            BY <1>1, <2>2, <3>1 DEF MapInv
    <2>4. CASE ~(status[1] /\ ~status[2])
        <3>1. run'.map = Drop(run.map, s) /\ run'.changed = TRUE
            BY <1>2, <2>1, <2>4
        <3>2. run.map[s] = OwnerOf[s]
            BY <2>2 DEF RunInv, Named
        <3>3. ~Spend("lookup")
            BY SpendCounts DEF NoFault, RunInv, Events
        <3>4. status = getOwnerStatus(OwnerOf[s])
            BY <2>1, <3>2, <3>3 DEF LookedUp
        <3>5. owners[OwnerOf[s]] # "active"
            BY <2>4, <3>4 DEF getOwnerStatus
        <3>6. s \in orphaned
            BY <3>5 DEF Orphans, TypeOK
        <3>7. DOMAIN Drop(run.map, s) = DOMAIN run.map \ {s}
            BY DEF Drop
        <3>. QED
            BY <1>1, <2>2, <3>1, <3>6, <3>7 DEF MapInv
    <2>. QED
        BY <2>3, <2>4
<1>11. CASE SaveOwnerMap
    <2>1. /\ pc = "missing" /\ pc' = "append"
          /\ UNCHANGED <<orphaned, run, history>>
        BY <1>11 DEF SaveOwnerMap, clusterVars
    <2>2. CASE WritesOwnerMap
        <3>1. ~Spend("lag")
            BY SpendCounts DEF NoFault, RunInv, Events
        <3>2. /\ configMap' = [version |-> configMap.version + 1, data |-> run.map]
              /\ cached' = configMap'
            BY <1>11, <2>2, <3>1 DEF SaveOwnerMap
        <3>3. configMap'.data = run.map
            BY <3>2
        <3>. QED
            BY <1>1, <2>1, <3>2, <3>3 DEF MapInv
    <2>3. CASE ~WritesOwnerMap
        <3>1. UNCHANGED <<configMap, cached>>
            BY <1>11, <2>3 DEF SaveOwnerMap
        <3>2. run.map = configMap.data
            BY <1>1, <2>1, <2>3 DEF WritesOwnerMap
        <3>. QED
            BY <1>1, <2>1, <3>1, <3>2 DEF MapInv
    <2>. QED
        BY <2>2, <2>3
<1>12. CASE SaveFails
    BY <1>12, SpendCounts DEF SaveFails, NoFault, RunInv, Events
<1>13. CASE (AppendStateChanges \/ AppendFails) /\ RecordUps
    <2>1. pc = "append" /\ pc' = "idle" /\ UNCHANGED <<configMap, cached>>
        BY <1>13 DEF AppendStateChanges, AppendFails
    <2>2. DOMAIN history' = DOMAIN run.ups
        BY <1>13, RecordingSlice
    <2>3. DOMAIN run.ups = DOMAIN configMap.data
        BY <1>1, <2>1 DEF RunInv
    <2>. QED
        BY <1>1, <2>1, <2>2, <2>3 DEF MapInv
<1>14. CASE AppendFails /\ UNCHANGED <<history, orphaned>>
    BY <1>1, <1>14 DEF AppendFails, MapInv
<1>15. CASE AppendStateChanges \/ AppendFails
    BY <1>13, <1>14, <1>15 DEF AppendStateChanges, AppendFails
<1>. QED
    BY <1>3, <1>4, <1>5, <1>6, <1>7, <1>8, <1>9, <1>10, <1>11, <1>12, <1>15
    DEF Next, Reconcile

(* As long as no lookup of an owner and no save of the map has failed, and *)
(* the cache has not lagged, the log forgets a slice only if its owner did *)
(* not run at some time since the slice was last recorded: whatever        *)
(* appends fail, and wherever in a reconciliation the process restarts.    *)
THEOREM OwnerMapKeepsHistory == Spec => KeepsHistoryUnlessFaulty
<1>. DEFINE Keeps == (\A e \in {"lookup", "save", "lag"} : spent[e] = 0) =>
                       \A s \in DOMAIN history \ DOMAIN history' : s \in orphaned
<1>1. Init => MapInv
    BY DEF Init, MapInv, Remembered, EmptyMap
<1>2. TypeOK /\ RunInv /\ MapInv /\ [Next]_vars => MapInv'
    <2>. SUFFICES ASSUME SliceInv, MapInv, [Next]_vars PROVE MapInv'
        BY DEF SliceInv
    <2>1. CASE UNCHANGED vars
        BY <2>1 DEF vars, clusterVars, MapInv, NoFault, Remembered
    <2>2. CASE Next /\ NoFault'
        BY <2>2, MapStep
    <2>3. CASE ~NoFault'
        BY <2>3 DEF MapInv
    <2>. QED
        BY <2>1, <2>2, <2>3
<1>3. RunInv /\ MapInv /\ [Next]_vars => [Keeps]_vars
    <2>. SUFFICES ASSUME RunInv, MapInv, Next, NoFault,
                         NEW s \in DOMAIN history \ DOMAIN history'
                  PROVE  s \in orphaned
        BY DEF NoFault
    <2>1. CASE UNCHANGED history
        BY <2>1
    <2>2. CASE (AppendStateChanges \/ AppendFails) /\ RecordUps
        <3>1. pc = "append" /\ DOMAIN history' = DOMAIN run.ups
            BY <2>2 DEF AppendStateChanges, AppendFails, RecordUps, AppendStateChangeEvents
        <3>2. DOMAIN run.ups = DOMAIN run.map /\ Remembered(run.map)
            BY <3>1 DEF RunInv, MapInv
        <3>. QED
            BY <3>1, <3>2 DEF Remembered
    <2>. QED
        BY <2>1, <2>2
        DEF Next, Reconcile, CacheUpdates, Restart, SliceDeleted, SliceChanges, OwnerChanges,
            GetOwnerMap, ListSlices, ProcessListed, ProcessMissing, ListedDone,
            SaveOwnerMap, SaveFails, AppendStateChanges, AppendFails
<1>. QED
    BY <1>1, <1>2, <1>3, SliceTypeCorrect, PTL DEF Spec, KeepsHistoryUnlessFaulty
=============================================================================
