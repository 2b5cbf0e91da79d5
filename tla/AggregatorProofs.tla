-------------------------- MODULE AggregatorProofs --------------------------
(***************************************************************************)
(* Proofs about Aggregator, for every set of resources and jobs, every     *)
(* configuration and all bounds: what the aggregation loop publishes while *)
(* the observers go on.                                                    *)
(***************************************************************************)
EXTENDS ReportHistory, EventLogProofs, FiniteSetTheorems

-----------------------------------------------------------------------------
(* The inductive invariants.                                               *)

(* The first n keys of a reading order.                                    *)
ReadUpTo(order, n) == {order[j] : j \in 1..n}

(* How far the loop is: it has read a proper part of the observed keys, or *)
(* all of them and a proper part of the objects.                           *)
Gathered ==
    /\ at = "observed" =>
         /\ DOMAIN draft.events = {}
         /\ \E n \in 0..(Len(ObservedOrder) - 1) : DOMAIN draft.ups = ReadUpTo(ObservedOrder, n)
    /\ at = "events" =>
         /\ DOMAIN draft.ups = Keys
         /\ \E n \in 0..(Len(EventsOrder) - 1) : DOMAIN draft.events = ReadUpTo(EventsOrder, n)

(* A process that aggregates, or has published, has observed every key.    *)
Populated ==
    /\ isPopulated => Keys \subseteq DOMAIN observed[Self]
    /\ at # "idle" => isPopulated
    /\ report # NoReport => isPopulated

(* A history that was read of resource r of key k, when the log had        *)
(* forgotten the resource c times: what is stored of the resource by now   *)
(* continues it, and so will what is yet to be appended, since no writer   *)
(* of the key has an earlier time stamp than its last.                     *)
Behind(k, r, h, c) ==
    /\ h \in Seq(UpEvent) /\ h # << >>
    /\ h[Len(h)].Timestamp <= clock
    /\ \A w \in Writers : pc[w] \in Stamped /\ k \in KeysOf(w[2]) =>
         h[Len(h)].Timestamp <= run[w].now
    /\ c \in Nat /\ c <= forgotten[k][r]
    /\ r \in DOMAIN store[k] => Continues(h, store[k][r], forgotten[k][r] = c)
    /\ r \notin DOMAIN store[k] => forgotten[k][r] # c

AllBehind(events, counts) ==
    \A k \in DOMAIN events : \A r \in DOMAIN events[k] :
        Behind(k, r, events[k][r], counts[k][r])

AllContinue(old, oldCounts, new, newCounts) ==
    \A k \in DOMAIN old \cap DOMAIN new : \A r \in DOMAIN old[k] \cap DOMAIN new[k] :
        Continues(old[k][r], new[k][r], newCounts[k][r] = oldCounts[k][r])

ForgottenOK == forgotten \in [Keys -> [Resources -> Nat]]

ReportInv ==
    /\ ForgottenOK
    /\ report # NoReport => DOMAIN report.events = Keys
    /\ AllBehind(report.events, reported) /\ AllBehind(draft.events, drafted)
    /\ AllContinue(report.events, reported, draft.events, drafted)

-----------------------------------------------------------------------------
(* The order in which the loop reads.                                      *)

(* An order in which every key is read, and none twice.                    *)
ReadsAll(order) ==
    /\ Len(order) \in 1..4
    /\ \A m, n \in 1..Len(order) : order[m] = order[n] => m = n
    /\ ReadUpTo(order, Len(order)) = Keys

(* Both orders are so, whichever features are enabled.                     *)
LEMMA OrdersReadAll == ReadsAll(ObservedOrder) /\ ReadsAll(EventsOrder)
<1>. USE DEF ReadsAll, ReadUpTo, Keys, ObjectKinds
<1>1. CASE SliceEnabled /\ LeaderWorkerSetEnabled
    <2>1. /\ Len(ObservedOrder) = 4
          /\ ObservedOrder[1] = "jobsets" /\ ObservedOrder[2] = "node-pools"
          /\ ObservedOrder[3] = "slices" /\ ObservedOrder[4] = "leader-worker-sets"
        BY <1>1 DEF ObservedOrder
    <2>2. /\ Len(EventsOrder) = 4
          /\ EventsOrder[1] = "jobsets" /\ EventsOrder[2] = "node-pools"
          /\ EventsOrder[3] = "slices" /\ EventsOrder[4] = "leader-worker-sets"
        BY <1>1 DEF EventsOrder
    <2>. QED
        BY <1>1, <2>1, <2>2
<1>2. CASE SliceEnabled /\ ~LeaderWorkerSetEnabled
    <2>1. /\ Len(ObservedOrder) = 3
          /\ ObservedOrder[1] = "jobsets" /\ ObservedOrder[2] = "node-pools"
          /\ ObservedOrder[3] = "slices"
        BY <1>2 DEF ObservedOrder
    <2>2. /\ Len(EventsOrder) = 3
          /\ EventsOrder[1] = "jobsets" /\ EventsOrder[2] = "node-pools"
          /\ EventsOrder[3] = "slices"
        BY <1>2 DEF EventsOrder
    <2>. QED
        BY <1>2, <2>1, <2>2
<1>3. CASE ~SliceEnabled /\ LeaderWorkerSetEnabled
    <2>1. /\ Len(ObservedOrder) = 4
          /\ ObservedOrder[1] = "jobsets" /\ ObservedOrder[2] = "node-pools"
          /\ ObservedOrder[3] = "jobset-nodes" /\ ObservedOrder[4] = "leader-worker-sets"
        BY <1>3 DEF ObservedOrder
    <2>2. /\ Len(EventsOrder) = 4
          /\ EventsOrder[1] = "jobsets" /\ EventsOrder[2] = "jobset-nodes"
          /\ EventsOrder[3] = "node-pools" /\ EventsOrder[4] = "leader-worker-sets"
        BY <1>3 DEF EventsOrder
    <2>. QED
        BY <1>3, <2>1, <2>2
<1>4. CASE ~SliceEnabled /\ ~LeaderWorkerSetEnabled
    <2>1. /\ Len(ObservedOrder) = 3
          /\ ObservedOrder[1] = "jobsets" /\ ObservedOrder[2] = "node-pools"
          /\ ObservedOrder[3] = "jobset-nodes"
        BY <1>4 DEF ObservedOrder
    <2>2. /\ Len(EventsOrder) = 3
          /\ EventsOrder[1] = "jobsets" /\ EventsOrder[2] = "jobset-nodes"
          /\ EventsOrder[3] = "node-pools"
        BY <1>4 DEF EventsOrder
    <2>. QED
        BY <1>4, <2>1, <2>2
<1>. QED
    BY <1>1, <1>2, <1>3, <1>4

(* The required keys are all keys.                                         *)
LEMMA RequiredKeysAreKeys == requiredKeys = Keys
<1>1. DOMAIN ObservedOrder = 1..Len(ObservedOrder)
    BY DEF ObservedOrder
<1>. QED
    BY <1>1, OrdersReadAll DEF requiredKeys, Range, ReadsAll, ReadUpTo

(* Nothing is read at first, and something is left to read.                *)
LEMMA NothingRead ==
    ASSUME NEW order, ReadsAll(order)
    PROVE  ReadUpTo(order, 0) = {} /\ 0 \in 0..(Len(order) - 1)
<1>1. ReadUpTo(order, 0) = {}
    BY DEF ReadUpTo
<1>2. 0 \in 0..(Len(order) - 1)
    BY DEF ReadsAll
<1>. QED
    BY <1>1, <1>2

(* One more key is read.                                                   *)
LEMMA ReadOneMore ==
    ASSUME NEW order, ReadsAll(order), NEW n \in 0..(Len(order) - 1)
    PROVE  /\ order[n + 1] \in Keys \ ReadUpTo(order, n)
           /\ ReadUpTo(order, n + 1) = ReadUpTo(order, n) \cup {order[n + 1]}
           /\ ReadUpTo(order, n) \subseteq Keys
           /\ n + 1 # Len(order) => ReadUpTo(order, n + 1) # Keys
<1>. USE DEF ReadsAll, ReadUpTo
<1>1. order[n + 1] \in Keys /\ ReadUpTo(order, n) \subseteq Keys
    OBVIOUS
<1>2. order[n + 1] \notin ReadUpTo(order, n)
    OBVIOUS
<1>3. ReadUpTo(order, n + 1) = ReadUpTo(order, n) \cup {order[n + 1]}
    <2>1. 1..(n + 1) = (1..n) \cup {n + 1}
        OBVIOUS
    <2>. QED
        BY <2>1
<1>4. ASSUME n + 1 # Len(order) PROVE ReadUpTo(order, n + 1) # Keys
    <2>1. order[n + 2] \in Keys /\ order[n + 2] \notin ReadUpTo(order, n + 1)
        BY <1>4
    <2>. QED
        BY <2>1
<1>. QED
    BY <1>1, <1>2, <1>3, <1>4

(* The number of keys that were read says which one is next.               *)
LEMMA ReadUpToCardinality ==
    ASSUME NEW order, ReadsAll(order), NEW n \in 0..(Len(order) - 1)
    PROVE  Cardinality(ReadUpTo(order, n)) = n
<1>. DEFINE Counted(m) == /\ IsFiniteSet(ReadUpTo(order, m))
                          /\ Cardinality(ReadUpTo(order, m)) = m
<1>1. Counted(0)
    BY NothingRead, FS_EmptySet
<1>2. ASSUME NEW m \in 0..(Len(order) - 1), Counted(m) PROVE Counted(m + 1)
    <2>1. /\ order[m + 1] \notin ReadUpTo(order, m)
          /\ ReadUpTo(order, m + 1) = ReadUpTo(order, m) \cup {order[m + 1]}
        BY ReadOneMore
    <2>. QED
        BY <1>2, <2>1, FS_AddElement
<1>3. n \in {0, 1, 2, 3} /\ Len(order) \in Nat
    BY DEF ReadsAll
<1>. HIDE DEF Counted
<1>4. n >= 1 => Counted(0 + 1)
    BY <1>1, <1>2, <1>3
<1>5. n >= 2 => Counted(1 + 1)
    BY <1>2, <1>3, <1>4
<1>6. n >= 3 => Counted(2 + 1)
    BY <1>2, <1>3, <1>5
<1>7. Counted(n)
    BY <1>1, <1>3, <1>4, <1>5, <1>6
<1>. QED
    BY <1>7 DEF Counted

-----------------------------------------------------------------------------
(* The observers and the bucket below the loop.                            *)

(* The loop and the Pod Reconciler leave the observers and the bucket      *)
(* alone: a step is one of EventLog, or only uses up a bound.              *)
LEMMA AggregatorStep ==
    ASSUME [AggregatorNext]_allVars
    PROVE  \/ Next
           \/ /\ UNCHANGED <<clock, cluster, store, observed, dirty, pc, run>>
              /\ UNCHANGED spent \/ \E e \in Events : Spend(e)
<1>1. CASE UNCHANGED allVars
    BY <1>1 DEF allVars, vars
<1>2. ASSUME World \/ \E w \in Writers : Progress(w) \/ Failure(w) PROVE Next
    BY <1>2 DEF Next, Environment
<1>3. CASE Loop
    BY <1>3 DEF Loop, StartAggregate, GetLatestObservedState, GetEvents,
                pruneNodePoolScheduling, Publish, Export, vars
<1>4. CASE GetEventsFails \/ ExportFails
    BY <1>4 DEF GetEventsFails, ExportFails, Events
<1>5. ASSUME NEW p, PodChanges(p) \/ ReconcilePod(p)
      PROVE  /\ UNCHANGED <<clock, cluster, store, observed, dirty, pc, run>>
             /\ UNCHANGED spent \/ \E e \in Events : Spend(e)
    BY <1>5 DEF PodChanges, ReconcilePod, Events, vars
<1>6. CASE ProcessRestart
    BY <1>6, AggregatorAssumption DEF ProcessRestart, Next, Environment
<1>. QED
    BY <1>1, <1>2, <1>3, <1>4, <1>5, <1>6 DEF AggregatorNext

(* So what is proved of EventLog with a single instance holds here.        *)
LogInv == FreshInv /\ HistoriesWellFormed /\ PendingWellFormed

(* The composition keeps it.                                               *)
LEMMA LogInvHolds == AggregatorSpec => []LogInv
<1>1. AggregatorInit => LogInv
    BY InitFresh, InitWellFormed DEF AggregatorInit, LogInv
<1>2. LogInv /\ [AggregatorNext]_allVars => LogInv'
    <2>. SUFFICES ASSUME LogInv, [AggregatorNext]_allVars PROVE LogInv'
        OBVIOUS
    <2>. USE DEF LogInv
    <2>1. CASE Next
        <3>1. OneAtWork
            BY AggregatorAssumption, SingleAtWork DEF SingleInstance
        <3>2. TypeOK'
            BY <2>1, EnvironmentType, ProgressType, FailureType DEF Next, FreshInv
        <3>3. TimesOrdered' /\ PendingFresh'
            BY <2>1, <3>1, TimesOrderedStep, PendingFreshStep
        <3>4. HistoriesWellFormed' /\ PendingWellFormed'
            BY <2>1, WellFormedStep DEF FreshInv
        <3>. QED
            BY <3>2, <3>3, <3>4 DEF FreshInv
    <2>2. CASE /\ UNCHANGED <<clock, cluster, store, observed, dirty, pc, run>>
               /\ UNCHANGED spent \/ \E e \in Events : Spend(e)
        <3>1. spent' \in [Events -> Nat]
            BY <2>2 DEF Spend, FreshInv, TypeOK
        <3>2. TypeOK'
            BY <2>2, <3>1 DEF FreshInv, TypeOK, RunTypeOK
        <3>3. TimesOrdered' /\ PendingFresh' /\ HistoriesWellFormed' /\ PendingWellFormed'
            BY <2>2 DEF FreshInv, TimesOrdered, PendingFresh, HistoriesWellFormed,
                        PendingWellFormed
        <3>. QED
            BY <3>2, <3>3 DEF FreshInv
    <2>. QED
        BY <2>1, <2>2, AggregatorStep
<1>. QED
    BY <1>1, <1>2, PTL DEF AggregatorSpec

-----------------------------------------------------------------------------
(* Type correctness, and how far the loop is.                              *)

(* A report that has only its time is one.                                 *)
LEMMA NewReportType ==
    ASSUME NEW now \in 0..MaxTime
    PROVE  /\ IsReport(NewReport(now))
           /\ DOMAIN NewReport(now).ups = {} /\ DOMAIN NewReport(now).events = {}
BY DEF NewReport, IsReport, IsMapTo, EmptyMap

(* A report gets its mapping of node pools to jobs.                        *)
LEMMA PutSchedulingType ==
    ASSUME NEW rep, IsReport(rep), NEW f, IsMapTo(f, Jobs)
    PROVE  LET new == [rep EXCEPT !.scheduling = f]
           IN  IsReport(new) /\ new.events = rep.events
<1>. DEFINE new == [rep EXCEPT !.scheduling = f]
<1>1. /\ DOMAIN new = {"now", "ups", "events", "scheduling"} /\ new.scheduling = f
      /\ new.now = rep.now /\ new.ups = rep.ups /\ new.events = rep.events
    BY DEF IsReport
<1>. HIDE DEF new
<1>. QED
    BY <1>1 DEF IsReport, new

(* Reading the observed state of the next key.                             *)
LEMMA ObservedIsRead ==
    ASSUME TypeOK, AggregatorTypeOK, Gathered, GetLatestObservedState
    PROVE  /\ IsReport(draft') /\ draft'.events = draft.events
           /\ at' \in {"observed", "events"} /\ Gathered'
<1>1. at = "observed" /\ DOMAIN draft.events = {} /\ IsReport(draft)
    BY DEF GetLatestObservedState, Gathered, AggregatorTypeOK
<1>2. PICK n \in 0..(Len(ObservedOrder) - 1) : DOMAIN draft.ups = ReadUpTo(ObservedOrder, n)
    BY <1>1 DEF Gathered
<1>. DEFINE k == ObservedOrder[n + 1]
            ups == IF k \in DOMAIN observed[Self] THEN observed[Self][k] ELSE EmptyMap
<1>3. /\ k \in Keys
      /\ ReadUpTo(ObservedOrder, n + 1) = DOMAIN draft.ups \cup {k}
    BY <1>2, OrdersReadAll, ReadOneMore
<1>. HIDE DEF k, ups
<1>4. /\ DOMAIN draft' = {"now", "ups", "events", "scheduling"}
      /\ draft'.ups = Put(draft.ups, k, ups) /\ draft'.events = draft.events
      /\ draft'.now = draft.now /\ draft'.scheduling = draft.scheduling
    <2>1. draft' = [draft EXCEPT !.ups = Put(draft.ups, k, ups)]
        BY <1>2, OrdersReadAll, ReadUpToCardinality DEF GetLatestObservedState, k, ups
    <2>. QED
        BY <1>1, <2>1 DEF IsReport
<1>5. IsMapTo(ups, Upnesses[k])
    BY <1>3, AggregatorAssumption DEF TypeOK, IsMapTo, EmptyMap, ups
<1>6. /\ IsReport(draft') /\ draft'.events = draft.events
      /\ DOMAIN draft'.ups = ReadUpTo(ObservedOrder, n + 1)
    <2>1. /\ DOMAIN draft'.ups = DOMAIN draft.ups \cup {k} /\ draft'.ups[k] = ups
          /\ \A x \in DOMAIN draft.ups \ {k} : draft'.ups[x] = draft.ups[x]
        BY <1>4 DEF Put
    <2>2. IsReport(draft')
        BY <1>1, <1>3, <1>4, <1>5, <2>1 DEF IsReport
    <2>. QED
        BY <1>3, <1>4, <2>1, <2>2
<1>7. at' = IF DOMAIN draft'.ups = Keys THEN "events" ELSE at
    BY RequiredKeysAreKeys DEF GetLatestObservedState
<1>8. CASE DOMAIN draft'.ups = Keys
    <2>1. /\ 0 \in 0..(Len(EventsOrder) - 1)
          /\ DOMAIN draft'.events = ReadUpTo(EventsOrder, 0)
        BY <1>1, <1>6, OrdersReadAll, NothingRead
    <2>. QED
        BY <1>6, <1>7, <1>8, <2>1 DEF Gathered
<1>9. CASE DOMAIN draft'.ups # Keys
    <2>1. n + 1 \in 0..(Len(ObservedOrder) - 1)
        BY <1>6, <1>9, OrdersReadAll DEF ReadsAll
    <2>. QED
        BY <1>1, <1>6, <1>7, <1>9, <2>1 DEF Gathered
<1>. QED
    BY <1>8, <1>9

(* Fetching the events of the next key.                                    *)
LEMMA EventsAreRead ==
    ASSUME TypeOK, AggregatorTypeOK, Gathered, GetEvents
    PROVE  /\ IsReport(draft') /\ draft'.ups = draft.ups /\ DOMAIN draft.ups = Keys
           /\ at' \in {"events", "prune"} /\ Gathered'
           /\ at' = "prune" => DOMAIN draft'.events = Keys
           /\ \E k \in Keys :
                /\ DOMAIN draft'.events = DOMAIN draft.events \cup {k}
                /\ draft'.events[k] = store[k]
                /\ \A x \in DOMAIN draft.events \ {k} :
                     draft'.events[x] = draft.events[x]
                /\ k \notin DOMAIN draft.events
<1>1. at = "events" /\ DOMAIN draft.ups = Keys /\ IsReport(draft)
    BY DEF GetEvents, Gathered, AggregatorTypeOK
<1>2. PICK n \in 0..(Len(EventsOrder) - 1) : DOMAIN draft.events = ReadUpTo(EventsOrder, n)
    BY <1>1 DEF Gathered
<1>. DEFINE k == EventsOrder[n + 1]
<1>3. /\ k \in Keys /\ k \notin DOMAIN draft.events
      /\ ReadUpTo(EventsOrder, n + 1) = DOMAIN draft.events \cup {k}
    BY <1>2, OrdersReadAll, ReadOneMore
<1>. HIDE DEF k
<1>4. /\ DOMAIN draft' = {"now", "ups", "events", "scheduling"}
      /\ draft'.events = Put(draft.events, k, store[k]) /\ draft'.ups = draft.ups
      /\ draft'.now = draft.now /\ draft'.scheduling = draft.scheduling
    <2>1. draft' = [draft EXCEPT !.events = Put(draft.events, k, store[k])]
        BY <1>2, OrdersReadAll, ReadUpToCardinality DEF GetEvents, k
    <2>. QED
        BY <1>1, <2>1 DEF IsReport
<1>5. IsMapTo(store[k], Seq(UpEvent))
    BY <1>3 DEF TypeOK
<1>6. /\ IsReport(draft') /\ draft'.ups = draft.ups
      /\ DOMAIN draft'.events = DOMAIN draft.events \cup {k}
      /\ draft'.events[k] = store[k]
      /\ \A x \in DOMAIN draft.events \ {k} : draft'.events[x] = draft.events[x]
    <2>1. /\ DOMAIN draft'.events = DOMAIN draft.events \cup {k}
          /\ draft'.events[k] = store[k]
          /\ \A x \in DOMAIN draft.events \ {k} : draft'.events[x] = draft.events[x]
        BY <1>4 DEF Put
    <2>2. IsReport(draft')
        BY <1>1, <1>3, <1>4, <1>5, <2>1 DEF IsReport
    <2>. QED
        BY <1>4, <2>1, <2>2
<1>7. at' = IF DOMAIN draft'.events = Keys THEN "prune" ELSE at
    BY RequiredKeysAreKeys DEF GetEvents
<1>8. CASE DOMAIN draft'.events = Keys
    BY <1>1, <1>3, <1>6, <1>7, <1>8 DEF Gathered
<1>9. CASE DOMAIN draft'.events # Keys
    <2>1. n + 1 \in 0..(Len(EventsOrder) - 1)
        BY <1>3, <1>6, <1>9, OrdersReadAll DEF ReadsAll
    <2>2. DOMAIN draft'.events = ReadUpTo(EventsOrder, n + 1)
        BY <1>3, <1>6
    <2>3. Gathered'
        BY <1>1, <1>6, <1>7, <1>9, <2>1, <2>2 DEF Gathered
    <2>. QED
        BY <1>1, <1>3, <1>6, <1>7, <1>9, <2>3
<1>. QED
    BY <1>8, <1>9

(* The loop keeps the types.                                               *)
LEMMA LoopType ==
    ASSUME TypeOK, AggregatorTypeOK, Gathered, Loop
    PROVE  AggregatorTypeOK' /\ Gathered'
<1>0. clock \in 0..MaxTime /\ 0 \in 0..MaxTime
    BY EventLogAssumption DEF TypeOK
<1>1. CASE StartAggregate
    <2>1. CASE at' = "observed" /\ draft' = NewReport(clock)
        <3>1. 0 \in 0..(Len(ObservedOrder) - 1) /\ ReadUpTo(ObservedOrder, 0) = {}
            BY OrdersReadAll, NothingRead
        <3>2. IsReport(draft') /\ DOMAIN draft'.ups = {} /\ DOMAIN draft'.events = {}
            BY <1>0, <2>1, NewReportType
        <3>. QED
            BY <1>1, <2>1, <3>1, <3>2
            DEF StartAggregate, podVars, AggregatorTypeOK, Gathered
    <2>2. CASE UNCHANGED <<at, draft>>
        BY <1>1, <2>2 DEF StartAggregate, podVars, AggregatorTypeOK, Gathered
    <2>. QED
        BY <1>1, <2>1, <2>2 DEF StartAggregate
<1>2. CASE GetLatestObservedState
    <2>1. /\ IsReport(draft') /\ at' \in {"observed", "events"} /\ Gathered'
        BY <1>2, ObservedIsRead
    <2>. QED
        BY <1>2, <2>1 DEF GetLatestObservedState, podVars, AggregatorTypeOK
<1>3. CASE GetEvents
    <2>1. /\ IsReport(draft') /\ at' \in {"events", "prune"} /\ Gathered'
          /\ at' = "prune" => DOMAIN draft'.ups = Keys /\ DOMAIN draft'.events = Keys
        BY <1>3, EventsAreRead
    <2>. QED
        BY <1>3, <2>1 DEF GetEvents, podVars, AggregatorTypeOK
<1>4. CASE pruneNodePoolScheduling
    <2>1. IsMapTo(scheduling', Jobs)
        BY <1>4 DEF pruneNodePoolScheduling, Restrict, AggregatorTypeOK, IsMapTo
    <2>. QED
        BY <1>4, <2>1 DEF pruneNodePoolScheduling, AggregatorTypeOK, Gathered
<1>5. CASE Publish
    <2>1. IsReport(report') /\ IsReport(draft')
        BY <1>0, <1>5, PutSchedulingType, NewReportType
        DEF Publish, AggregatorTypeOK, NoReport
    <2>. QED
        BY <1>5, <2>1 DEF Publish, podVars, AggregatorTypeOK, Gathered
<1>6. CASE Export
    BY <1>6 DEF Export, podVars, AggregatorTypeOK, Gathered
<1>. QED
    BY <1>1, <1>2, <1>3, <1>4, <1>5, <1>6 DEF Loop

(* Every state of the process is well typed: when the loop prunes and      *)
(* publishes, the report it has generated has every key, with nothing left *)
(* out and nothing read twice.                                             *)
THEOREM AggregatorTypeCorrect == AggregatorSpec => [](AggregatorTypeOK /\ Gathered)
<1>0. 0 \in 0..MaxTime
    BY EventLogAssumption
<1>1. AggregatorInit => AggregatorTypeOK /\ Gathered
    <2>. SUFFICES ASSUME AggregatorInit PROVE AggregatorTypeOK /\ Gathered
        OBVIOUS
    <2>1. IsReport(NoReport) /\ IsMapTo(EmptyMap, Jobs)
        BY <1>0, NewReportType DEF NoReport, IsMapTo, EmptyMap
    <2>. QED
        BY <2>1 DEF AggregatorInit, AggregatorTypeOK, Gathered
<1>2. LogInv /\ AggregatorTypeOK /\ Gathered /\ [AggregatorNext]_allVars
        => AggregatorTypeOK' /\ Gathered'
    <2>. SUFFICES ASSUME LogInv, AggregatorTypeOK, Gathered, [AggregatorNext]_allVars
                  PROVE  AggregatorTypeOK' /\ Gathered'
        OBVIOUS
    <2>0. TypeOK
        BY DEF LogInv, FreshInv
    <2>1. CASE UNCHANGED <<loopVars, podVars>>
        BY <2>1 DEF loopVars, podVars, AggregatorTypeOK, Gathered
    <2>2. CASE Loop
        BY <2>0, <2>2, LoopType
    <2>3. CASE GetEventsFails \/ ExportFails
        <3>1. IsReport(NoReport)
            BY <1>0, NewReportType DEF NoReport
        <3>. QED
            BY <2>3, <3>1 DEF GetEventsFails, ExportFails, podVars, AggregatorTypeOK, Gathered
    <2>4. ASSUME NEW p \in Resources \X Jobs, PodChanges(p)
          PROVE  AggregatorTypeOK' /\ Gathered'
        BY <2>4 DEF PodChanges, loopVars, AggregatorTypeOK, Gathered
    <2>5. ASSUME NEW p \in Resources \X Jobs, ReconcilePod(p)
          PROVE  AggregatorTypeOK' /\ Gathered'
        <3>1. IsMapTo(scheduling', Jobs)
            BY <2>5 DEF ReconcilePod, UpdateNodePoolScheduling, Put, AggregatorTypeOK, IsMapTo
        <3>. QED
            BY <2>5, <3>1 DEF ReconcilePod, loopVars, AggregatorTypeOK, Gathered
    <2>6. CASE ProcessRestart
        <3>1. IsReport(NoReport) /\ IsMapTo(EmptyMap, Jobs)
            BY <1>0, NewReportType DEF NoReport, IsMapTo, EmptyMap
        <3>. QED
            BY <2>6, <3>1 DEF ProcessRestart, AggregatorTypeOK, Gathered
    <2>. QED
        BY <2>1, <2>2, <2>3, <2>4, <2>5, <2>6 DEF AggregatorNext, allVars
<1>. QED
    BY <1>1, <1>2, LogInvHolds, PTL DEF AggregatorSpec

-----------------------------------------------------------------------------
(* No metrics before everything was observed.                              *)

(* Nothing but a restart forgets an observed key.                          *)
LEMMA ObservedKeysStay ==
    ASSUME TypeOK, World \/ \E w \in Writers : Progress(w) \/ Failure(w)
    PROVE  DOMAIN observed[Self] \subseteq DOMAIN observed'[Self]
<1>1. CASE World
    BY <1>1 DEF World, Tick, ObjectChanges, ObjectDeleted
<1>2. ASSUME NEW w \in Writers, UpdateObserved(w)
      PROVE  DOMAIN observed[Self] \subseteq DOMAIN observed'[Self]
    BY <1>2, AggregatorAssumption DEF UpdateObserved, TypeOK, Writers
<1>3. ASSUME NEW w \in Writers, Progress(w) \/ Failure(w), ~UpdateObserved(w)
      PROVE  UNCHANGED observed
    BY <1>3 DEF Progress, StartReconcile, ListWorkloads, PollResources, StampPoll,
                GetRecords, PutRecords, Failure, ListFails, GetFails, PutFails
<1>. QED
    BY <1>1, <1>2, <1>3

(* A process gives no series before both its observers have written all    *)
(* their keys to the observed store, after a restart too.                  *)
THEOREM NothingEmittedBeforeObserved == AggregatorSpec => []EmitsOnlyWhenObserved
<1>1. AggregatorInit => Populated
    BY DEF AggregatorInit, Populated
<1>2. LogInv /\ Populated /\ [AggregatorNext]_allVars => Populated'
    <2>. SUFFICES ASSUME TypeOK, Populated, [AggregatorNext]_allVars PROVE Populated'
        BY DEF LogInv, FreshInv
    <2>. USE DEF Populated
    <2>1. CASE UNCHANGED allVars
        BY <2>1 DEF allVars, vars, loopVars
    <2>2. CASE /\ World \/ \E w \in Writers : Progress(w) \/ Failure(w)
               /\ UNCHANGED <<loopVars, podVars>>
        BY <2>2, ObservedKeysStay DEF loopVars
    <2>3. CASE Loop
        <3>1. CASE StartAggregate
            BY <3>1, RequiredKeysAreKeys DEF StartAggregate, vars
        <3>2. CASE ~StartAggregate
            BY <2>3, <3>2 DEF Loop, GetLatestObservedState, GetEvents,
                pruneNodePoolScheduling, Publish, Export, vars
        <3>. QED
            BY <3>1, <3>2
    <2>4. CASE GetEventsFails \/ ExportFails
        BY <2>4 DEF GetEventsFails, ExportFails
    <2>5. ASSUME NEW p, PodChanges(p) \/ ReconcilePod(p) PROVE Populated'
        BY <2>5 DEF PodChanges, ReconcilePod, loopVars, vars
    <2>6. CASE ProcessRestart
        BY <2>6 DEF ProcessRestart
    <2>. QED
        BY <2>1, <2>2, <2>3, <2>4, <2>5, <2>6 DEF AggregatorNext
<1>3. Populated => EmitsOnlyWhenObserved
    <2>. SUFFICES ASSUME Populated, report = NoReport PROVE Scraped = {}
        BY DEF Populated, EmitsOnlyWhenObserved
    <2>1. /\ DOMAIN report.ups = {} /\ DOMAIN report.scheduling = {}
        BY DEF NoReport, NewReport, EmptyMap
    <2>. QED
        BY <2>1 DEF Scraped, Scrape
<1>. QED
    BY <1>1, <1>2, <1>3, LogInvHolds, PTL DEF AggregatorSpec

-----------------------------------------------------------------------------
(* From one report to the next.                                            *)

(* A prefix has the same events, as far as it goes.                        *)
LEMMA PrefixElements ==
    ASSUME NEW S, NEW s \in Seq(S), NEW t \in Seq(S)
    PROVE  IsPrefix(s, t) <=> Len(s) <= Len(t) /\ \A j \in 1..Len(s) : s[j] = t[j]
<1>1. ASSUME IsPrefix(s, t), NEW j \in 1..Len(s) PROVE s[j] = t[j]
    <2>1. Len(s) <= Len(t) /\ SubSeq(s, 1, Len(s)) = SubSeq(t, 1, Len(s))
        BY <1>1 DEF IsPrefix
    <2>2. SubSeq(s, 1, Len(s))[j] = s[j] /\ SubSeq(t, 1, Len(s))[j] = t[j]
        BY <2>1
    <2>. QED
        BY <2>1, <2>2
<1>2. ASSUME Len(s) <= Len(t), \A j \in 1..Len(s) : s[j] = t[j] PROVE IsPrefix(s, t)
    <2>1. SubSeq(s, 1, Len(s)) = SubSeq(t, 1, Len(s))
        BY <1>2
    <2>. QED
        BY <1>2, <2>1 DEF IsPrefix
<1>. QED
    BY <1>1, <1>2 DEF IsPrefix

(* What extends a continuation continues too.                              *)
LEMMA ContinuesExtended ==
    ASSUME NEW h \in Seq(UpEvent), NEW s \in Seq(UpEvent), NEW t \in Seq(UpEvent),
           NEW kept, s # << >>, Continues(h, s, kept), IsPrefix(s, t)
    PROVE  Continues(h, t, kept)
<1>1. Len(s) <= Len(t) /\ \A j \in 1..Len(s) : s[j] = t[j]
    BY PrefixElements
<1>2. CASE kept
    <2>1. Len(h) <= Len(s) /\ \A j \in 1..Len(h) : h[j] = s[j]
        BY <1>2, PrefixElements DEF Continues
    <2>2. Len(h) <= Len(t) /\ \A j \in 1..Len(h) : h[j] = t[j]
        BY <1>1, <2>1
    <2>. QED
        BY <1>2, <2>2, PrefixElements DEF Continues
<1>3. CASE ~kept
    <2>1. s[1] = t[1]
        BY <1>1
    <2>. QED
        BY <1>3, <2>1 DEF Continues
<1>. QED
    BY <1>2, <1>3

(* What is remembered of a resource.                                       *)
LEMMA ForgottenStep ==
    ASSUME ForgottenOK, Remember
    PROVE  /\ ForgottenOK'
           /\ \A k \in Keys, r \in Resources :
                forgotten'[k][r] = IF r \in DOMAIN store[k] \ DOMAIN store'[k]
                                   THEN forgotten[k][r] + 1 ELSE forgotten[k][r]
<1>1. \A k \in Keys, r \in Resources :
        forgotten[k][r] \in Nat /\ forgotten[k][r] + 1 \in Nat
    BY DEF ForgottenOK
<1>. QED
    BY <1>1 DEF ForgottenOK, Remember

(* What was read of a resource stays behind what is stored of it.          *)
LEMMA BehindStep ==
    ASSUME LogInv, LogInv', Next, ForgottenOK, Remember,
           NEW k \in Keys, NEW r \in Resources, NEW h, NEW c, Behind(k, r, h, c)
    PROVE  Behind(k, r, h, c)'
<1>. DEFINE last == h[Len(h)].Timestamp
            f == forgotten[k][r]
            g == forgotten'[k][r]
<1>0. TypeOK /\ TimesOrdered /\ PendingFresh /\ TypeOK'
    BY DEF LogInv, FreshInv
<1>1. h \in Seq(UpEvent) /\ h # << >> /\ last \in Nat /\ last <= clock
    <2>1. h \in Seq(UpEvent) /\ h # << >> /\ last <= clock
        BY DEF Behind
    <2>2. h[Len(h)] \in UpEvent
        BY <2>1
    <2>. QED
        BY <2>1, <2>2 DEF UpEvent
<1>2. /\ \A w \in Writers : pc[w] \in Stamped /\ k \in KeysOf(w[2]) => last <= run[w].now
      /\ r \in DOMAIN store[k] => Continues(h, store[k][r], f = c)
      /\ r \notin DOMAIN store[k] => f # c
      /\ c \in Nat /\ c <= f /\ f \in Nat
    BY DEF Behind, ForgottenOK
<1>. HIDE DEF last
<1>3. last <= clock'
    BY <1>0, <1>1, ClockStep
<1>4. ASSUME NEW v \in Writers, pc'[v] \in Stamped, k \in KeysOf(v[2])
      PROVE  last <= run'[v].now
    BY <1>0, <1>1, <1>2, <1>4, StampStep
<1>5. g = IF r \in DOMAIN store[k] \ DOMAIN store'[k] THEN f + 1 ELSE f
    BY ForgottenStep
<1>. HIDE DEF f, g
<1>6. c <= g /\ (r \notin DOMAIN store'[k] => g # c)
    BY <1>2, <1>5
<1>7. ASSUME r \in DOMAIN store'[k] PROVE Continues(h, store'[k][r], g = c)
    <2>0. g = f
        BY <1>5, <1>7
    <2>1. CASE store'[k] = store[k]
        BY <1>2, <1>7, <2>0, <2>1
    <2>2. ASSUME NEW w \in Writers, pc[w] = "put", WriteObject(w), run[w].key = k
          PROVE  Continues(h, store'[k][r], g = c)
        <3>1. /\ k \in KeysOf(w[2]) /\ run[w].now \in Nat
              /\ IsMapTo(run[w].ups[k], Upnesses[k])
              /\ store' = [store EXCEPT ![k] =
                   AppendStateChangeEvents(run[w].now, run[w].ups[k], store[k])]
              /\ \A x \in DOMAIN store[k] \cap DOMAIN store'[k] :
                   IsPrefix(store[k][x], store'[k][x])
            BY <1>0, <2>2, PutAppends
        <3>2. /\ IsMapTo(store[k], Seq(UpEvent)) /\ IsMapTo(store'[k], Seq(UpEvent))
              /\ WellFormed(store'[k][r])
            BY <1>0, <1>7 DEF TypeOK, LogInv, HistoriesWellFormed
        <3>3. CASE r \in DOMAIN store[k]
            <4>1. store[k][r] \in Seq(UpEvent) /\ store'[k][r] \in Seq(UpEvent)
                BY <1>7, <3>2, <3>3 DEF IsMapTo
            <4>2. store[k][r] # << >>
                BY <3>3 DEF LogInv, HistoriesWellFormed, WellFormed
            <4>3. Continues(h, store[k][r], g = c)
                BY <1>2, <2>0, <3>3
            <4>. QED
                BY <1>1, <1>7, <3>1, <3>3, <4>1, <4>2, <4>3, ContinuesExtended
        <3>4. CASE r \notin DOMAIN store[k]
            <4>. DEFINE ups == run[w].ups[k]
                        event == EventOf(ups[r], run[w].now)
            <4>1. store'[k] = AppendStateChangeEvents(run[w].now, ups, store[k])
                BY <1>0, <3>1 DEF TypeOK
            <4>2. /\ r \in DOMAIN ups /\ event \in UpEvent
                  /\ store'[k][r] = AppendUpEvent(HistoryOf(store[k], r), event)
                BY <1>7, <3>1, <3>2, <4>1, AppendStateChangeEventsType
            <4>3. HistoryOf(store[k], r) = << >> /\ event.Timestamp = run[w].now
                BY <3>4 DEF HistoryOf, EventOf
            <4>. HIDE DEF ups, event
            <4>4. HistoryOf(store[k], r) \in Seq(UpEvent) /\ Len(HistoryOf(store[k], r)) = 0
                BY <4>3
            <4>5. store'[k][r][1].Timestamp = run[w].now
                <5>1. /\ store'[k][r] \in Seq(UpEvent) /\ Len(store'[k][r]) >= 1
                      /\ \A j \in (0 + 1)..Len(store'[k][r]) :
                           store'[k][r][j].Timestamp = event.Timestamp
                    BY <4>2, <4>4, AppendUpEventExtends
                <5>. QED
                    BY <4>3, <5>1
            <4>6. last <= run[w].now /\ g # c
                BY <1>2, <2>0, <2>2, <3>1, <3>4 DEF Stamped
            <4>. QED
                BY <3>2, <4>5, <4>6 DEF WellFormed, Continues, last
        <3>. QED
            BY <3>3, <3>4
    <2>3. ASSUME NEW w \in Writers, WriteObject(w), run[w].key # k
          PROVE  store'[k] = store[k]
        BY <1>0, <2>3 DEF WriteObject, TypeOK
    <2>. QED
        BY <1>0, <2>1, <2>2, <2>3, StoreStep
<1>. QED
    BY <1>1, <1>2, <1>3, <1>4, <1>6, <1>7 DEF Behind, last, g

(* What is stored of a resource is behind itself.                          *)
LEMMA StoredIsBehind ==
    ASSUME LogInv, ForgottenOK, NEW k \in Keys, NEW r \in DOMAIN store[k]
    PROVE  Behind(k, r, store[k][r], forgotten[k][r])
<1>. DEFINE h == store[k][r]
<1>1. h \in Seq(UpEvent) /\ h # << >> /\ r \in Resources
    BY DEF LogInv, FreshInv, TypeOK, IsMapTo, HistoriesWellFormed, WellFormed
<1>2. Len(h) \in 1..Len(h)
    BY <1>1
<1>3. h[Len(h)].Timestamp <= clock
    BY <1>2 DEF LogInv, FreshInv, TimesOrdered
<1>4. ASSUME NEW w \in Writers, pc[w] \in Stamped, k \in KeysOf(w[2])
      PROVE  h[Len(h)].Timestamp <= run[w].now
    BY <1>2, <1>4 DEF LogInv, FreshInv, PendingFresh, Stamped, Log!NotBefore
<1>5. IsPrefix(h, h)
    BY <1>1, PrefixElements
<1>6. forgotten[k][r] \in Nat
    BY <1>1 DEF ForgottenOK
<1>7. Continues(h, h, forgotten[k][r] = forgotten[k][r])
    BY <1>5 DEF Continues
<1>8. forgotten[k][r] <= forgotten[k][r]
    BY <1>6
<1>. QED
    BY <1>1, <1>3, <1>4, <1>6, <1>7, <1>8 DEF Behind

(* So whatever was read stays behind what is stored.                       *)
LEMMA AllBehindStep ==
    ASSUME LogInv, LogInv', AggregatorNext, ForgottenOK, Remember,
           NEW e, NEW c, DOMAIN e \subseteq Keys,
           \A k \in DOMAIN e : DOMAIN e[k] \subseteq Resources, AllBehind(e, c)
    PROVE  AllBehind(e, c)'
<1>. SUFFICES ASSUME NEW k \in DOMAIN e, NEW r \in DOMAIN e[k]
              PROVE  Behind(k, r, e[k][r], c[k][r])'
    BY DEF AllBehind
<1>1. PICK h, n : h = e[k][r] /\ n = c[k][r]
    OBVIOUS
<1>2. Behind(k, r, h, n) /\ k \in Keys /\ r \in Resources
    BY <1>1 DEF AllBehind
<1>3. CASE Next
    <2>1. Behind(k, r, h, n)'
        BY <1>2, <1>3, BehindStep
    <2>. QED
        BY <1>1, <2>1
<1>4. CASE UNCHANGED <<clock, cluster, store, observed, dirty, pc, run>>
    <2>1. forgotten'[k][r] = forgotten[k][r]
        BY <1>2, <1>4, ForgottenStep
    <2>2. Behind(k, r, h, n)'
        BY <1>2, <1>4, <2>1 DEF Behind
    <2>. QED
        BY <1>1, <2>2
<1>. QED
    BY <1>3, <1>4, AggregatorStep

(* How a step can change the report and the events that are gathered.      *)
LEMMA ReportStep ==
    ASSUME TypeOK, AggregatorTypeOK, Gathered, AggregatorNext
    PROVE  \/ /\ at = "publish" /\ at' = "export"
              /\ report'.events = draft.events /\ DOMAIN draft.events = Keys
              /\ DOMAIN draft'.events = {}
           \/ /\ ~(at = "publish" /\ at' = "export")
              /\ \/ report' = report /\ draft'.events = draft.events
                 \/ report' = report /\ DOMAIN draft'.events = {}
                 \/ GetEvents /\ report' = report /\ UNCHANGED vars
                 \/ report' = NoReport /\ DOMAIN draft'.events = {}
<1>0. ASSUME NEW now PROVE DOMAIN NewReport(now).events = {}
    BY DEF NewReport, EmptyMap
<1>1. CASE UNCHANGED <<loopVars, podVars>>
    BY <1>1 DEF loopVars
<1>2. CASE StartAggregate
    BY <1>0, <1>2 DEF StartAggregate
<1>3. CASE GetLatestObservedState
    BY <1>3, ObservedIsRead DEF GetLatestObservedState
<1>4. CASE GetEvents
    BY <1>4 DEF GetEvents
<1>5. CASE Publish
    <2>1. report'.events = draft.events
        BY <1>5, PutSchedulingType DEF Publish, AggregatorTypeOK
    <2>. QED
        BY <1>0, <1>5, <2>1 DEF Publish, AggregatorTypeOK, NoReport
<1>6. CASE pruneNodePoolScheduling \/ Export \/ ExportFails
    BY <1>6 DEF pruneNodePoolScheduling, Export, ExportFails
<1>7. CASE GetEventsFails
    BY <1>0, <1>7 DEF GetEventsFails, NoReport
<1>8. ASSUME NEW p, PodChanges(p) \/ ReconcilePod(p)
      PROVE  at' = at /\ report' = report /\ draft'.events = draft.events
    BY <1>8 DEF PodChanges, ReconcilePod, loopVars
<1>9. CASE ProcessRestart
    BY <1>0, <1>9 DEF ProcessRestart, NoReport
<1>10. ASSUME NEW p \in Resources \X Jobs, PodChanges(p) \/ ReconcilePod(p)
       PROVE  /\ ~(at = "publish" /\ at' = "export")
              /\ report' = report /\ draft'.events = draft.events
    BY <1>8, <1>10
<1>. QED
    BY <1>1, <1>2, <1>3, <1>4, <1>5, <1>6, <1>7, <1>9, <1>10
    DEF AggregatorNext, Loop

(* A step keeps the reports in order: what is gathered is read from the    *)
(* bucket after the last report was, and is what is published next.        *)
LEMMA ReportInvStep ==
    ASSUME LogInv, LogInv', AggregatorTypeOK, Gathered, ReportInv, HistoryNext
    PROVE  ReportInv'
<1>0. TypeOK /\ AggregatorNext /\ Remember /\ ForgottenOK
    BY DEF LogInv, FreshInv, HistoryNext, ReportInv
<1>1. PICK e, d, ce, cd :
        e = report.events /\ d = draft.events /\ ce = reported /\ cd = drafted
    OBVIOUS
<1>2. /\ DOMAIN e \subseteq Keys /\ DOMAIN d \subseteq Keys
      /\ \A k \in DOMAIN e : DOMAIN e[k] \subseteq Resources
      /\ \A k \in DOMAIN d : DOMAIN d[k] \subseteq Resources
      /\ AllBehind(e, ce) /\ AllBehind(d, cd) /\ AllContinue(e, ce, d, cd)
      /\ report # NoReport => DOMAIN e = Keys
    BY <1>1 DEF ReportInv, AggregatorTypeOK, IsReport, IsMapTo
<1>3. AllBehind(e, ce)' /\ AllBehind(d, cd)' /\ ForgottenOK'
    BY <1>0, <1>2, AllBehindStep, ForgottenStep
<1>4. /\ drafted' = [k \in DOMAIN draft'.events |-> IF k \in DOMAIN d THEN cd[k] ELSE forgotten[k]]
      /\ at = "publish" /\ at' = "export" => reported' = cd
      /\ ~(at = "publish" /\ at' = "export") /\ report' # NoReport => reported' = ce
    BY <1>0, <1>1 DEF Remember
<1>5. DOMAIN NoReport.events = {}
    BY DEF NoReport, NewReport, EmptyMap
<1>6. CASE ~(at = "publish" /\ at' = "export") /\ report' = report
    <2>0. /\ AllBehind(report.events, reported)' 
          /\ \A n, cn : AllContinue(e, ce, n, cn) => AllContinue(report'.events, reported', n, cn)
        <3>1. CASE report = NoReport
            BY <1>5, <1>6, <3>1 DEF AllBehind, AllContinue
        <3>2. CASE report # NoReport
            <4>1. report'.events = e /\ reported' = ce
                BY <1>1, <1>4, <1>6, <3>2
            <4>. QED
                BY <1>3, <4>1
        <3>. QED
            BY <3>1, <3>2
    <2>1. CASE draft'.events = draft.events
        <3>1. draft'.events = d /\ \A k \in DOMAIN d : drafted'[k] = cd[k]
            BY <1>1, <1>4, <2>1
        <3>2. AllBehind(draft.events, drafted)'
            BY <1>3, <3>1 DEF AllBehind
        <3>3. AllContinue(e, ce, draft'.events, drafted')
            BY <1>2, <3>1 DEF AllContinue
        <3>. QED
            BY <1>1, <1>2, <1>3, <1>6, <2>0, <3>2, <3>3 DEF ReportInv
    <2>2. CASE DOMAIN draft'.events = {}
        BY <1>1, <1>2, <1>3, <1>6, <2>0, <2>2 DEF ReportInv, AllBehind, AllContinue
    <2>3. CASE GetEvents /\ UNCHANGED vars
        <3>1. PICK k \in Keys :
                /\ DOMAIN draft'.events = DOMAIN d \cup {k}
                /\ draft'.events[k] = store[k]
                /\ \A x \in DOMAIN d \ {k} : draft'.events[x] = d[x]
                /\ k \notin DOMAIN d
            BY <1>0, <1>1, <2>3, EventsAreRead
        <3>2. PICK n, cn : n = draft'.events /\ cn = drafted'
            OBVIOUS
        <3>3. /\ DOMAIN n = DOMAIN d \cup {k} /\ n[k] = store[k] /\ cn[k] = forgotten[k]
              /\ \A x \in DOMAIN d : n[x] = d[x] /\ cn[x] = cd[x]
            BY <1>4, <3>1, <3>2
        <3>4. AllBehind(n, cn)'
            <4>1. ASSUME NEW r \in DOMAIN store[k] PROVE Behind(k, r, n[k][r], cn[k][r])'
                <5>1. PICK h, c : h = store[k][r] /\ c = forgotten[k][r]
                    OBVIOUS
                <5>2. Behind(k, r, h, c) /\ r \in Resources
                    BY <1>0, <5>1, StoredIsBehind DEF TypeOK, IsMapTo
                <5>3. forgotten'[k][r] = forgotten[k][r]
                    BY <1>0, <2>3, <5>2, ForgottenStep DEF vars
                <5>4. Behind(k, r, h, c)'
                    BY <2>3, <5>2, <5>3 DEF Behind, vars
                <5>. QED
                    BY <3>3, <5>1, <5>4
            <4>2. ASSUME NEW x \in DOMAIN d, NEW r \in DOMAIN n[x]
                  PROVE  Behind(x, r, n[x][r], cn[x][r])'
                BY <1>3, <3>3 DEF AllBehind
            <4>. QED
                BY <3>3, <4>1, <4>2 DEF AllBehind
        <3>5. AllContinue(e, ce, n, cn)
            <4>1. ASSUME k \in DOMAIN e, NEW r \in DOMAIN e[k] \cap DOMAIN n[k]
                  PROVE  Continues(e[k][r], n[k][r], cn[k][r] = ce[k][r])
                <5>1. Behind(k, r, e[k][r], ce[k][r])
                    BY <1>2, <4>1 DEF AllBehind
                <5>. QED
                    BY <3>3, <5>1 DEF Behind
            <4>2. ASSUME NEW x \in DOMAIN e \cap DOMAIN n, x # k,
                         NEW r \in DOMAIN e[x] \cap DOMAIN n[x]
                  PROVE  Continues(e[x][r], n[x][r], cn[x][r] = ce[x][r])
                <5>1. x \in DOMAIN e \cap DOMAIN d /\ n[x] = d[x] /\ cn[x] = cd[x]
                    BY <3>3, <4>2
                <5>. QED
                    BY <1>2, <5>1 DEF AllContinue
            <4>. QED
                BY <4>1, <4>2 DEF AllContinue
        <3>. QED
            BY <1>1, <1>2, <1>3, <1>6, <2>0, <3>2, <3>4, <3>5 DEF ReportInv
    <2>4. CASE report' = NoReport /\ DOMAIN draft'.events = {}
        BY <2>2, <2>4
    <2>. QED
        BY <1>0, <1>6, <2>1, <2>2, <2>3, <2>4, ReportStep
<1>7. CASE at = "publish" /\ at' = "export"
    <2>1. /\ report'.events = d /\ DOMAIN d = Keys /\ DOMAIN draft'.events = {} /\ reported' = cd
        BY <1>0, <1>1, <1>4, <1>7, ReportStep
    <2>. QED
        BY <1>3, <2>1 DEF ReportInv, AllBehind, AllContinue
<1>8. CASE report' = NoReport /\ DOMAIN draft'.events = {}
    BY <1>3, <1>5, <1>8 DEF ReportInv, AllBehind, AllContinue
<1>. QED
    BY <1>0, <1>6, <1>7, <1>8, ReportStep

(* From one report of a process to the next, the history of a resource     *)
(* grows, or, only if the log has forgotten the resource in between,       *)
(* starts again after the last event that was reported, whatever the       *)
(* observers wrote between the reads of the loop.                          *)
THEOREM ReportsStayInOrder == HistorySpec => ReportsNeverGoBack
<1>. DEFINE hvars == <<allVars, rememberedVars>>
            Ordered == report # NoReport /\ report' # NoReport =>
                         \A k \in Keys : \A r \in DOMAIN report.events[k] \cap DOMAIN report'.events[k] :
                            Continues(report.events[k][r], report'.events[k][r],
                                      reported'[k][r] = reported[k][r])
<1>1. HistoryInit => AggregatorInit /\ ReportInv
    <2>. SUFFICES ASSUME HistoryInit PROVE ReportInv
        BY DEF HistoryInit
    <2>1. ForgottenOK
        BY DEF HistoryInit, ForgottenOK
    <2>2. report = NoReport /\ draft = NoReport /\ DOMAIN NoReport.events = {}
        BY DEF HistoryInit, AggregatorInit, NoReport, NewReport, EmptyMap
    <2>. QED
        BY <2>1, <2>2 DEF ReportInv, AllBehind, AllContinue
<1>2. [HistoryNext]_hvars => [AggregatorNext]_allVars
    BY DEF HistoryNext, hvars
<1>3. LogInv /\ LogInv' /\ AggregatorTypeOK /\ Gathered /\ ReportInv
        /\ [HistoryNext]_hvars => ReportInv'
    <2>. SUFFICES ASSUME LogInv, LogInv', AggregatorTypeOK, Gathered, ReportInv,
                         [HistoryNext]_hvars
                  PROVE  ReportInv'
        OBVIOUS
    <2>1. CASE UNCHANGED hvars
        BY <2>1 DEF hvars, allVars, vars, loopVars, rememberedVars, ReportInv, ForgottenOK,
                    AllBehind, Behind, AllContinue
    <2>. QED
        BY <2>1, ReportInvStep
<1>4. LogInv /\ AggregatorTypeOK /\ Gathered /\ ReportInv /\ [HistoryNext]_hvars => [Ordered]_hvars
    <2>. SUFFICES ASSUME LogInv, AggregatorTypeOK, Gathered, ReportInv, HistoryNext,
                         report # NoReport, report' # NoReport, NEW k \in Keys,
                         NEW r \in DOMAIN report.events[k] \cap DOMAIN report'.events[k]
                  PROVE  Continues(report.events[k][r], report'.events[k][r],
                                   reported'[k][r] = reported[k][r])
        OBVIOUS
    <2>0. TypeOK /\ AggregatorNext /\ Remember
        BY DEF LogInv, FreshInv, HistoryNext
    <2>1. DOMAIN report.events = Keys
        BY DEF ReportInv
    <2>2. CASE ~(at = "publish" /\ at' = "export") /\ report' = report
        <3>1. report.events[k][r] \in Seq(UpEvent)
            BY <2>1 DEF ReportInv, AllBehind, Behind
        <3>2. reported' = reported
            BY <2>0, <2>2 DEF Remember
        <3>3. IsPrefix(report.events[k][r], report.events[k][r])
            BY <3>1, PrefixElements
        <3>. QED
            BY <2>2, <3>2, <3>3 DEF Continues
    <2>3. CASE at = "publish" /\ at' = "export"
        <3>1. report'.events = draft.events /\ DOMAIN draft.events = Keys
            BY <2>0, <2>3, ReportStep
        <3>2. reported' = drafted
            BY <2>0, <2>3 DEF Remember
        <3>. QED
            BY <2>1, <3>1, <3>2 DEF ReportInv, AllContinue
    <2>. QED
        BY <2>0, <2>2, <2>3, ReportStep
<1>. HIDE DEF hvars, Ordered
<1>5. HistorySpec => AggregatorSpec
    BY <1>1, <1>2, PTL DEF HistorySpec, AggregatorSpec, hvars
<1>6. HistorySpec => []ReportInv
    BY <1>1, <1>3, <1>5, LogInvHolds, AggregatorTypeCorrect, PTL DEF HistorySpec, hvars
<1>7. HistorySpec => [][Ordered]_hvars
    BY <1>4, <1>5, <1>6, LogInvHolds, AggregatorTypeCorrect, PTL DEF HistorySpec, hvars
<1>. QED
    BY <1>7 DEF ReportsNeverGoBack, Ordered, hvars
=============================================================================
